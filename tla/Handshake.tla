------------------------------ MODULE Handshake ------------------------------
(***************************************************************************)
(* The session handshake: start_phone, on_hello and on_hello_ack of        *)
(* crates/airclip-core/src/session.rs over the key agreement of crypto.rs, *)
(* as Connection::open (client.rs) and run_session (apps/windows/src/      *)
(* server.rs) call them, with the identities and pairing records both      *)
(* sides keep (ffi.rs, keystore.rs).                                       *)
(*                                                                         *)
(* Keys are symbolic: a key pair is a record, the Diffie-Hellman value of  *)
(* two pairs is the set of both, and a MAC or a derived key is the record  *)
(* of what it is computed from.  The network delivers any HELLO or         *)
(* HELLO_ACK sent so far, on any connection, any number of times, late,    *)
(* or with one field changed.                                              *)
(***************************************************************************)
EXTENDS Integers, FiniteSets

CONSTANTS
  Phones,
  Conns,     \* calls of Connection::open, and connections the PC accepts
  Window,    \* HELLO_TS_WINDOW_MS
  Skews,     \* how far a phone's clock may be ahead of the PC's
  MaxNow,    \* bound: the PC's clock
  MaxGen,    \* bound: identities one device goes through
  MaxEvents  \* bound: pairings, restarts, lost identities, closures and altered frames

ASSUME HandshakeAssumption ==
  /\ Conns \subseteq Nat
  /\ Window \in Nat /\ Skews \subseteq Nat /\ MaxNow \in Nat
  /\ MaxGen \in Nat \ {0} /\ MaxEvents \in Nat
  /\ "pc" \notin Phones

VARIABLES
  now,       \* the PC's clock
  skew,      \* skew[p]
  identity,  \* identity[d]: the identity key of a phone or of "pc"
  record,    \* record[p]: the PC key in p's pairing record
  known,     \* AgentState::peers: the phone keys the PC has paired with
  link,      \* link[c]: the phone's session
  task,      \* task[c]: the PC's session
  hellos,    \* HELLOs sent so far
  acks,      \* HELLO_ACKs sent so far
  events     \* events counted by MaxEvents so far

vars == <<now, skew, identity, record, known, link, task, hellos, acks, events>>

-----------------------------------------------------------------------------
(* Key agreement. *)

Key(kind, who, n) == [kind |-> kind, who |-> who, n |-> n]
IdKey(d, n) == Key("id", d, n)
EphI(c) == Key("ephI", "phone", c)
EphR(c) == Key("ephR", "pc", c)
NoKey == Key("none", "pc", 0)

Dh(a, b) == {a, b}

(* keyed_mac; verify_mac compares with what the verifier computes. *)
Mac(key, basis) == [key |-> key, basis |-> basis]

(* hello_mac_basis: fields 1 to 4, the version being our own. *)
HelloBasis(id, eph, ts) == [ver |-> 1, id |-> id, eph |-> eph, ts |-> ts]

AckBasis_NoInitiator(ephR, ephI) == [r |-> ephR, i |-> NoKey]  \* mutant
AckBasis(ephR, ephI) == [r |-> ephR, i |-> ephI]

(* derive_session_keys, for one of its two directions. *)
SessionKey(dir, ee, si, static, phone, pc) ==
  [dir |-> dir, ee |-> ee, si |-> si, static |-> static, phone |-> phone, pc |-> pc]
NoSessionKey == SessionKey("none", {}, {}, {}, NoKey, NoKey)

-----------------------------------------------------------------------------
Devices == Phones \cup {"pc"}
IdKeys == {IdKey(d, n) : d \in Devices, n \in 1..MaxGen}
EphKeys == {EphI(c) : c \in Conns} \cup {EphR(c) : c \in Conns}

NewLink == [st |-> "new", id |-> NoKey, pc |-> NoKey, ts |-> 0,
            tx |-> NoSessionKey, rx |-> NoSessionKey]
NewTask == [st |-> "none", id |-> NoKey, pc |-> NoKey, ephI |-> NoKey, ts |-> 0, at |-> 0,
            tx |-> NoSessionKey, rx |-> NoSessionKey]

(* Types; and a session has its channel exactly from Established on. *)
TypeOK ==
  /\ now \in 0..MaxNow /\ skew \in [Phones -> Skews]
  /\ identity \in [Devices -> IdKeys]
  /\ record \in [Phones -> IdKeys \cup {NoKey}]
  /\ known \subseteq IdKeys
  /\ \A c \in Conns :
       /\ link[c].st \in {"new", "waiting", "established", "closed"}
       /\ link[c].st = "established" => link[c].tx # NoSessionKey /\ link[c].rx # NoSessionKey
       /\ task[c].st \in {"none", "established", "closed"}
       /\ task[c].st = "established" => task[c].tx # NoSessionKey /\ task[c].rx # NoSessionKey

Init ==
  /\ now = 0
  /\ skew \in [Phones -> Skews]
  /\ identity = [d \in Devices |-> IdKey(d, 1)]
  /\ record = [p \in Phones |-> NoKey]
  /\ known = {}
  /\ link = [c \in Conns |-> NewLink]
  /\ task = [c \in Conns |-> NewTask]
  /\ hellos = {} /\ acks = {}
  /\ events = 0

Happens == events < MaxEvents /\ events' = events + 1

Tick ==
  /\ now < MaxNow
  /\ now' = now + 1
  /\ UNCHANGED <<skew, identity, record, known, link, task, hellos, acks, events>>

-----------------------------------------------------------------------------
(* Identities and records. *)

(* A pairing (see Pairing), which the PC may fail to complete. *)
Pair(p) ==
  /\ Happens
  /\ record' = [record EXCEPT ![p] = identity["pc"]]
  /\ known' \in {known, known \cup {identity[p]}}
  /\ UNCHANGED <<now, skew, identity, link, task, hellos, acks>>

Closed(r) == IF r.st = "established" \/ r.st = "waiting" THEN [r EXCEPT !.st = "closed"] ELSE r

(* The app starts again and its keystore yields no usable seed: a new      *)
(* identity is made and stored, and the pairing record stays.              *)
PhoneLosesIdentity(p) ==
  /\ Happens /\ identity[p].n < MaxGen
  /\ identity' = [identity EXCEPT ![p].n = @ + 1]
  /\ link' = [c \in Conns |-> IF link[c].id = identity[p] THEN Closed(link[c]) ELSE link[c]]
  /\ UNCHANGED <<now, skew, record, known, task, hellos, acks>>

(* The agent starts again; without an identity file it makes a new one,    *)
(* and a pairings file that cannot be read counts as empty.                *)
AgentRestarts ==
  /\ Happens
  /\ \/ UNCHANGED identity
     \/ identity["pc"].n < MaxGen /\ identity' = [identity EXCEPT !["pc"].n = @ + 1]
  /\ known' \in {known, {}}
  /\ task' = [c \in Conns |-> Closed(task[c])]
  /\ UNCHANGED <<now, skew, record, link, hellos, acks>>

-----------------------------------------------------------------------------
(* The phone. *)

(* start_phone, on a connection of its own. *)
Open(p, c) ==
  LET ts == now + skew[p]
      mac == Mac(Dh(identity[p], record[p]), HelloBasis(identity[p], EphI(c), ts))
  IN
    /\ link[c].st = "new" /\ record[p] # NoKey
    /\ \A d \in Conns : d < c => link[d].st # "new"
    /\ link' = [link EXCEPT ![c].st = "waiting", ![c].id = identity[p],
                            ![c].pc = record[p], ![c].ts = ts]
    /\ hellos' = hellos \cup
         {[ver |-> 1, id |-> identity[p], eph |-> EphI(c), ts |-> ts, mac |-> mac]}
    /\ UNCHANGED <<now, skew, identity, record, known, task, acks, events>>

(* on_hello_ack: the MAC shows that the PC of the record answered this     *)
(* very HELLO.                                                             *)
AckOk(l, c, a) == a.mac = Mac(Dh(l.id, l.pc), AckBasis(a.eph, EphI(c)))

PhoneKey(l, c, a, dir) ==
  SessionKey(dir, Dh(EphI(c), a.eph), Dh(l.id, a.eph), Dh(l.id, l.pc), l.id, l.pc)

OnHelloAck(c, a) ==
  LET l == link[c] IN
    /\ l.st = "waiting"
    /\ link' = [link EXCEPT ![c] =
         IF AckOk(l, c, a)
         THEN [l EXCEPT !.st = "established", !.tx = PhoneKey(l, c, a, "p2c"),
                                              !.rx = PhoneKey(l, c, a, "c2p")]
         ELSE [l EXCEPT !.st = "closed"]]
    /\ UNCHANGED <<now, skew, identity, record, known, task, hellos, acks>>

(* open times out, or the session is over. *)
PhoneCloses(c) ==
  /\ Happens /\ link[c].st \in {"waiting", "established"}
  /\ link' = [link EXCEPT ![c].st = "closed"]
  /\ UNCHANGED <<now, skew, identity, record, known, task, hellos, acks>>

-----------------------------------------------------------------------------
(* The PC. *)

AbsDiff(a, b) == IF a > b THEN a - b ELSE b - a

HelloOk_OnlyLate(h) ==  \* mutant: a timestamp ahead of the PC's clock is always fresh
  /\ h.ver = 1
  /\ now - h.ts <= Window
  /\ h.id \in known
  /\ h.mac = Mac(Dh(identity["pc"], h.id), HelloBasis(h.id, h.eph, h.ts))

(* on_hello's checks, in its order; each failure closes without a frame.   *)
(* The peers are read as the session is made, for this HELLO.              *)
HelloOk(h) ==
  /\ h.ver = 1
  /\ AbsDiff(h.ts, now) <= Window
  /\ h.id \in known
  /\ h.mac = Mac(Dh(identity["pc"], h.id), HelloBasis(h.id, h.eph, h.ts))

FreshEph_PerAgent(c) == EphR(CHOOSE d \in Conns : TRUE)  \* mutant: one for all sessions

(* EphemeralKeypair::generate. *)
FreshEph(c) == EphR(c)

(* The PC takes its connections in the order of their numbers. *)
Accepts(c) == task[c].st = "none" /\ \A d \in Conns : d < c => task[d].st # "none"

OnHello(c, h) ==
  LET eph == FreshEph(c)
      ss(dir) == SessionKey(dir, Dh(eph, h.eph), Dh(eph, h.id), Dh(identity["pc"], h.id),
                            h.id, identity["pc"])
  IN
    /\ Accepts(c)
    /\ HelloOk(h)
    /\ task' = [task EXCEPT ![c] =
         [st |-> "established", id |-> h.id, pc |-> identity["pc"], ephI |-> h.eph,
          ts |-> h.ts, at |-> now, tx |-> ss("c2p"), rx |-> ss("p2c")]]
    /\ acks' = acks \cup
         {[eph |-> eph, mac |-> Mac(Dh(identity["pc"], h.id), AckBasis(eph, h.eph))]}
    /\ UNCHANGED <<now, skew, identity, record, known, link, hellos>>

OnHelloRefused(c, h) ==
  /\ Accepts(c)
  /\ ~HelloOk(h)
  /\ task' = [task EXCEPT ![c].st = "closed"]
  /\ UNCHANGED <<now, skew, identity, record, known, link, hellos, acks>>

-----------------------------------------------------------------------------
(* What the network delivers: a frame sent before, or one with a field     *)
(* changed.                                                                *)
AlteredHello(h) ==
  {[h EXCEPT !.ver = 2]} \cup {[h EXCEPT !.id = k] : k \in IdKeys}
    \cup {[h EXCEPT !.eph = k] : k \in EphKeys} \cup {[h EXCEPT !.ts = t] : t \in 0..MaxNow}

AlteredAck(a) == {[a EXCEPT !.eph = k] : k \in EphKeys}

HellosAbout == hellos \cup UNION {AlteredHello(h) : h \in hellos}
AcksAbout == acks \cup UNION {AlteredAck(a) : a \in acks}

(* A frame of `sent' arrives as it is; one that is not was altered. *)
Delivers(sent, f) == IF f \in sent THEN UNCHANGED events ELSE Happens

Next ==
  \/ Tick \/ AgentRestarts
  \/ \E p \in Phones : Pair(p) \/ PhoneLosesIdentity(p) \/ \E c \in Conns : Open(p, c)
  \/ \E c \in Conns :
       \/ PhoneCloses(c)
       \/ \E a \in AcksAbout : Delivers(acks, a) /\ OnHelloAck(c, a)
       \/ \E h \in HellosAbout : Delivers(hellos, h) /\ (OnHello(c, h) \/ OnHelloRefused(c, h))

Spec == Init /\ [][Next]_vars

-----------------------------------------------------------------------------
(* Properties. *)

Accepted(d) == task[d].tx # NoSessionKey

(* A phone's session is established only with the PC it is paired with,    *)
(* which has a session for this very HELLO, naming this phone and holding  *)
(* the same two keys the other way round.                                  *)
PhoneAgrees ==
  \A c \in Conns :
    link[c].tx # NoSessionKey =>
      \E d \in Conns :
        /\ Accepted(d)
        /\ task[d].ephI = EphI(c) /\ task[d].ts = link[c].ts
        /\ task[d].id = link[c].id /\ task[d].pc = link[c].pc
        /\ task[d].tx = link[c].rx /\ task[d].rx = link[c].tx

(* The PC's session is established only for a HELLO that a paired phone    *)
(* made for this PC, no further from the PC's clock than the window, with  *)
(* the timestamp and key that phone put into it.                           *)
PcAuthentic ==
  \A d \in Conns :
    Accepted(d) =>
      /\ AbsDiff(task[d].ts, task[d].at) <= Window
      /\ \E c \in Conns :
           /\ link[c].id = task[d].id /\ link[c].pc = task[d].pc
           /\ EphI(c) = task[d].ephI /\ link[c].ts = task[d].ts

(* Every session has keys of its own, even one that a repeated HELLO has   *)
(* set up: the counters of AeadChannel start at zero under each.           *)
KeysFresh ==
  \A c, d \in Conns :
    /\ Accepted(c) /\ Accepted(d) /\ c # d
         => {task[c].tx, task[c].rx} \cap {task[d].tx, task[d].rx} = {}
    /\ link[c].tx # NoSessionKey /\ link[d].tx # NoSessionKey /\ c # d
         => {link[c].tx, link[c].rx} \cap {link[d].tx, link[d].rx} = {}
    /\ Accepted(c) => task[c].tx # task[c].rx

=============================================================================
