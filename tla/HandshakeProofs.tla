-------------------------- MODULE HandshakeProofs --------------------------
(***************************************************************************)
(* Proofs about Handshake, for any phones, connections, clock skews,       *)
(* window and bounds: both sides' sessions agree, a session stems from a   *)
(* HELLO its phone made for this PC, and session keys are never shared.    *)
(***************************************************************************)
EXTENDS Handshake, TLAPS

PhoneKeys == {IdKey(p, n) : p \in Phones, n \in 1..MaxGen}
PcKeys == {IdKey("pc", n) : n \in 1..MaxGen}
Keys == IdKeys \cup EphKeys \cup {NoKey}
SessionKeys == [dir : {"none", "c2p", "p2c"}, ee : SUBSET Keys, si : SUBSET Keys,
                static : SUBSET Keys, phone : Keys, pc : Keys]

LinkRecs == [st : {"new", "waiting", "established", "closed"}, id : Keys, pc : Keys,
             ts : Nat, tx : SessionKeys, rx : SessionKeys]
TaskRecs == [st : {"none", "established", "closed"}, id : Keys, pc : Keys, ephI : Keys,
             ts : Nat, at : Nat, tx : SessionKeys, rx : SessionKeys]

(* Types; a phone's keys and the PC's are kept apart. *)
Typed ==
  /\ now \in 0..MaxNow /\ skew \in [Phones -> Skews]
  /\ identity \in [Devices -> IdKeys]
  /\ identity["pc"] \in PcKeys
  /\ \A p \in Phones : identity[p] \in PhoneKeys
  /\ record \in [Phones -> PcKeys \cup {NoKey}]
  /\ known \subseteq PhoneKeys
  /\ link \in [Conns -> LinkRecs]
  /\ task \in [Conns -> TaskRecs]

(* A session that has not begun holds nothing; one that has begun names a  *)
(* phone and a PC, and one that is established has both keys.              *)
Lifecycle ==
  \A c \in Conns :
    /\ link[c].st = "new" => link[c] = NewLink
    /\ link[c].st # "new" => link[c].id \in PhoneKeys /\ link[c].pc \in PcKeys
    /\ link[c].st = "established" => link[c].tx # NoSessionKey /\ link[c].rx # NoSessionKey
    /\ task[c].st = "none" => task[c] = NewTask
    /\ task[c].st = "established" => task[c].tx # NoSessionKey /\ task[c].rx # NoSessionKey

(* Every HELLO on the network was made by a phone's session. *)
HelloOf(c) ==
  [ver |-> 1, id |-> link[c].id, eph |-> EphI(c), ts |-> link[c].ts,
   mac |-> Mac(Dh(link[c].id, link[c].pc), HelloBasis(link[c].id, EphI(c), link[c].ts))]

HelloInv == \A h \in hellos : \E c \in Conns : link[c].st # "new" /\ h = HelloOf(c)

(* Every HELLO_ACK on the network was made by an established session of    *)
(* the PC, over that session's own ephemeral key and the phone's.          *)
AckOf(d) ==
  [eph |-> EphR(d),
   mac |-> Mac(Dh(task[d].pc, task[d].id), AckBasis(EphR(d), task[d].ephI))]

AckInv == \A a \in acks : \E d \in Conns : Accepted(d) /\ a = AckOf(d)

(* The keys of the PC's session d, from what it has recorded. *)
PcKey(d, dir) ==
  SessionKey(dir, Dh(EphR(d), task[d].ephI), Dh(EphR(d), task[d].id),
             Dh(task[d].pc, task[d].id), task[d].id, task[d].pc)

TaskKeys ==
  \A d \in Conns :
    Accepted(d) => /\ task[d].id \in PhoneKeys /\ task[d].pc \in PcKeys
                   /\ task[d].tx = PcKey(d, "c2p") /\ task[d].rx = PcKey(d, "p2c")

IInv == /\ Typed /\ Lifecycle
        /\ HelloInv /\ AckInv /\ TaskKeys
        /\ PcAuthentic /\ PhoneAgrees

-----------------------------------------------------------------------------
(* The key agreement: what equal values were computed from. *)

(* Equal keys have the same kind, owner and number. *)
LEMMA KeyInjective ==
  \A k, w, n, l, v, m : Key(k, w, n) = Key(l, v, m) => k = l /\ w = v /\ n = m
BY DEF Key

(* A MAC is under one key and over one basis. *)
LEMMA MacInjective ==
  \A k, b, l, d : Mac(k, b) = Mac(l, d) => k = l /\ b = d
BY DEF Mac

(* hello_mac_basis and the basis of HELLO_ACK's MAC lose nothing. *)
LEMMA BasisInjective ==
  /\ \A i, e, t, j, f, u : HelloBasis(i, e, t) = HelloBasis(j, f, u) => i = j /\ e = f /\ t = u
  /\ \A r, i, q, j : AckBasis(r, i) = AckBasis(q, j) => r = q /\ i = j
BY DEF HelloBasis, AckBasis

(* Equal session keys have one direction and one ephemeral agreement. *)
LEMMA SessionKeyInjective ==
  \A a, b, c, d, e, f, g, h, i, j, k, l :
    SessionKey(a, b, c, d, e, f) = SessionKey(g, h, i, j, k, l) => a = g /\ b = h
BY DEF SessionKey

(* Ephemeral keys are fresh per connection and side. *)
LEMMA EphDistinct ==
  /\ \A c, d : EphI(c) = EphI(d) => c = d
  /\ \A c, d : EphR(c) = EphR(d) => c = d
  /\ \A c, d : EphI(c) # EphR(d)
BY KeyInjective DEF EphI, EphR

(* An identity key is a phone's or the PC's, never both, and never absent. *)
LEMMA IdentitiesDisjoint ==
  ASSUME NEW k \in PhoneKeys, NEW l \in PcKeys
  PROVE  k # l /\ k # NoKey /\ l # NoKey /\ k \in IdKeys /\ l \in IdKeys
<1>1. PICK p \in Phones, n \in 1..MaxGen : k = Key("id", p, n)
  BY DEF PhoneKeys, IdKey
<1>2. PICK m \in 1..MaxGen : l = Key("id", "pc", m)
  BY DEF PcKeys, IdKey
<1>3. k # l
  BY <1>1, <1>2, KeyInjective, HandshakeAssumption
<1>4. k # NoKey /\ l # NoKey
  BY <1>1, <1>2, KeyInjective DEF NoKey
<1>5. k \in IdKeys /\ l \in IdKeys
  BY <1>1, <1>2 DEF IdKeys, IdKey, Devices
<1> QED
  BY <1>3, <1>4, <1>5

(* Diffie-Hellman is symmetric, and the value of a phone's key and a PC's  *)
(* tells which two they are.                                               *)
LEMMA DhInjective ==
  ASSUME NEW k \in PhoneKeys, NEW l \in PcKeys, NEW m \in PhoneKeys, NEW n \in PcKeys,
         Dh(k, l) = Dh(m, n) \/ Dh(k, l) = Dh(n, m)
  PROVE  k = m /\ l = n
<1>1. k # n /\ l # m
  BY IdentitiesDisjoint
<1> QED
  BY <1>1 DEF Dh

(* Both ends of a key exchange compute the same secret. *)
LEMMA DhSymmetric == \A a, b : Dh(a, b) = Dh(b, a)
BY DEF Dh

-----------------------------------------------------------------------------
(* Types of what the two handlers store. *)

(* The keys of phones, the PC and connections are keys. *)
LEMMA KeysTyped ==
  /\ PhoneKeys \subseteq Keys /\ PcKeys \subseteq Keys /\ NoKey \in Keys
  /\ \A c \in Conns : EphI(c) \in Keys /\ EphR(c) \in Keys
  /\ EphKeys \subseteq Keys
BY DEF PhoneKeys, PcKeys, Keys, IdKeys, EphKeys, Devices

(* A derived session key has its type and is not the absent one. *)
LEMMA SessionKeyTyped ==
  ASSUME NEW dir \in {"c2p", "p2c"}, NEW a \in Keys, NEW b \in Keys, NEW c \in Keys,
         NEW d \in Keys, NEW e \in Keys, NEW f \in Keys, NEW g \in Keys, NEW h \in Keys
  PROVE  /\ SessionKey(dir, Dh(a, b), Dh(c, d), Dh(e, f), g, h) \in SessionKeys
         /\ SessionKey(dir, Dh(a, b), Dh(c, d), Dh(e, f), g, h) # NoSessionKey
<1>1. SessionKey(dir, Dh(a, b), Dh(c, d), Dh(e, f), g, h) \in SessionKeys
  BY DEF SessionKey, SessionKeys, Dh
<1>2. SessionKey(dir, Dh(a, b), Dh(c, d), Dh(e, f), g, h) # NoSessionKey
  BY SessionKeyInjective DEF NoSessionKey
<1> QED
  BY <1>1, <1>2

(* A connection not yet made has the right type. *)
LEMMA EmptyTyped == NewLink \in LinkRecs /\ NewTask \in TaskRecs
<1>1. NoSessionKey \in SessionKeys
  BY KeysTyped DEF NoSessionKey, SessionKey, SessionKeys
<1> QED
  BY <1>1, KeysTyped DEF NewLink, NewTask, LinkRecs, TaskRecs

-----------------------------------------------------------------------------
(* What the MACs show. *)

(* A HELLO the network delivers, altered or not, carries the MAC of one    *)
(* that was sent: there is no changing both.                               *)
LEMMA HelloMacSent ==
  ASSUME HelloInv, NEW h \in HellosAbout
  PROVE  \E c \in Conns : link[c].st # "new" /\ h.mac = HelloOf(c).mac
<1>1. PICK g \in hellos : h = g \/ h \in AlteredHello(g)
  BY DEF HellosAbout
<1>2. PICK c \in Conns : link[c].st # "new" /\ g = HelloOf(c)
  BY <1>1 DEF HelloInv
<1>3. h.mac = g.mac
  BY <1>1, <1>2 DEF AlteredHello, HelloOf
<1> QED
  BY <1>2, <1>3

(* The same of a HELLO_ACK. *)
LEMMA AckMacSent ==
  ASSUME AckInv, NEW a \in AcksAbout
  PROVE  \E d \in Conns : Accepted(d) /\ a.mac = AckOf(d).mac
<1>1. PICK g \in acks : a = g \/ a \in AlteredAck(g)
  BY DEF AcksAbout
<1>2. PICK d \in Conns : Accepted(d) /\ g = AckOf(d)
  BY <1>1 DEF AckInv
<1>3. a.mac = g.mac
  BY <1>1, <1>2 DEF AlteredAck, AckOf
<1> QED
  BY <1>2, <1>3

(* A HELLO that passes on_hello's checks is the one some phone's session   *)
(* sent, field by field, and was made for the PC's present identity.       *)
LEMMA HelloAuthentic ==
  ASSUME Typed, Lifecycle, HelloInv, NEW h \in HellosAbout, HelloOk(h)
  PROVE  \E c \in Conns :
           /\ link[c].st # "new"
           /\ h.id = link[c].id /\ identity["pc"] = link[c].pc
           /\ h.eph = EphI(c) /\ h.ts = link[c].ts
<1>1. PICK c \in Conns : link[c].st # "new" /\ h.mac = HelloOf(c).mac
  BY HelloMacSent
<1>2. Mac(Dh(identity["pc"], h.id), HelloBasis(h.id, h.eph, h.ts))
        = Mac(Dh(link[c].id, link[c].pc), HelloBasis(link[c].id, EphI(c), link[c].ts))
  BY <1>1 DEF HelloOk, HelloOf
<1>3. /\ Dh(identity["pc"], h.id) = Dh(link[c].id, link[c].pc)
      /\ HelloBasis(h.id, h.eph, h.ts) = HelloBasis(link[c].id, EphI(c), link[c].ts)
  BY <1>2, MacInjective
<1>4. h.id = link[c].id /\ h.eph = EphI(c) /\ h.ts = link[c].ts
  BY <1>3, BasisInjective
<1>5. link[c].id \in PhoneKeys /\ link[c].pc \in PcKeys /\ identity["pc"] \in PcKeys
  BY <1>1 DEF Lifecycle, Typed
<1>6. Dh(link[c].id, link[c].pc) = Dh(identity["pc"], link[c].id)
  BY <1>3, <1>4
<1>7. identity["pc"] = link[c].pc
  BY <1>5, <1>6, DhInjective
<1> QED
  BY <1>1, <1>4, <1>7

(* A HELLO_ACK that passes on_hello_ack's check comes from a session of    *)
(* the PC for this very HELLO.                                             *)
LEMMA AckAuthentic ==
  ASSUME IInv, NEW c \in Conns, NEW a \in AcksAbout,
         link[c].st = "waiting", AckOk(link[c], c, a)
  PROVE  \E d \in Conns :
           /\ Accepted(d) /\ a.eph = EphR(d)
           /\ task[d].ephI = EphI(c) /\ task[d].ts = link[c].ts
           /\ task[d].id = link[c].id /\ task[d].pc = link[c].pc
<1>1. PICK d \in Conns : Accepted(d) /\ a.mac = AckOf(d).mac
  BY AckMacSent DEF IInv
<1>2. Mac(Dh(link[c].id, link[c].pc), AckBasis(a.eph, EphI(c)))
        = Mac(Dh(task[d].pc, task[d].id), AckBasis(EphR(d), task[d].ephI))
  BY <1>1 DEF AckOk, AckOf
<1>3. /\ Dh(link[c].id, link[c].pc) = Dh(task[d].pc, task[d].id)
      /\ a.eph = EphR(d) /\ task[d].ephI = EphI(c)
  BY <1>2, MacInjective, BasisInjective
<1>4. /\ link[c].id \in PhoneKeys /\ link[c].pc \in PcKeys
      /\ task[d].id \in PhoneKeys /\ task[d].pc \in PcKeys
  BY <1>1 DEF IInv, Lifecycle, TaskKeys
<1>5. task[d].id = link[c].id /\ task[d].pc = link[c].pc
  BY <1>3, <1>4, DhInjective
<1>6. PICK e \in Conns : EphI(e) = task[d].ephI /\ link[e].ts = task[d].ts
  BY <1>1 DEF IInv, PcAuthentic
<1>7. e = c
  BY <1>3, <1>6, EphDistinct
<1> QED
  BY <1>1, <1>3, <1>5, <1>6, <1>7

-----------------------------------------------------------------------------
(* What every step leaves alone: who an open session is with, and all that *)
(* the PC's established sessions have recorded.                            *)
LinksStable ==
  \A c \in Conns :
    link[c].st # "new" => /\ link'[c].st # "new" /\ link'[c].id = link[c].id
                          /\ link'[c].pc = link[c].pc /\ link'[c].ts = link[c].ts

SameTask(d) ==
  /\ task'[d].id = task[d].id /\ task'[d].pc = task[d].pc /\ task'[d].ephI = task[d].ephI
  /\ task'[d].ts = task[d].ts /\ task'[d].at = task[d].at
  /\ task'[d].tx = task[d].tx /\ task'[d].rx = task[d].rx

TasksStable == \A d \in Conns : Accepted(d) => SameTask(d)

(* Keys of links change only in OnHelloAck. *)
LinkKeysSame ==
  \A c \in Conns : link'[c].tx = link[c].tx /\ link'[c].rx = link[c].rx

Quiet == LinksStable /\ LinkKeysSame /\ (\A d \in Conns : SameTask(d))

(* A step that makes no session, no HELLO and no HELLO_ACK keeps every     *)
(* part of the invariant about them.                                       *)
LEMMA QuietKeeps ==
  ASSUME IInv, Quiet, hellos' = hellos, acks' = acks, Typed', Lifecycle'
  PROVE  IInv'
<1>1. HelloInv'
  <2> SUFFICES ASSUME NEW h \in hellos
               PROVE  \E c \in Conns : link'[c].st # "new" /\ h = HelloOf(c)'
    BY DEF HelloInv
  <2>1. PICK c \in Conns : link[c].st # "new" /\ h = HelloOf(c)
    BY DEF IInv, HelloInv
  <2> QED
    BY <2>1 DEF Quiet, LinksStable, HelloOf
<1>2. \A d \in Conns : Accepted(d)' <=> Accepted(d)
  BY DEF Quiet, SameTask, Accepted
<1>3. AckInv'
  BY <1>2 DEF IInv, AckInv, AckOf, Quiet, SameTask
<1>4. TaskKeys'
  BY <1>2 DEF IInv, TaskKeys, PcKey, Quiet, SameTask
<1>5. PcAuthentic'
  <2> SUFFICES ASSUME NEW d \in Conns, Accepted(d)
               PROVE  /\ AbsDiff(task[d].ts, task[d].at) <= Window
                      /\ \E c \in Conns :
                           /\ link'[c].id = task[d].id /\ link'[c].pc = task[d].pc
                           /\ EphI(c) = task[d].ephI /\ link'[c].ts = task[d].ts
    BY <1>2 DEF PcAuthentic, Quiet, SameTask
  <2>1. PICK c \in Conns : /\ link[c].id = task[d].id /\ link[c].pc = task[d].pc
                           /\ EphI(c) = task[d].ephI /\ link[c].ts = task[d].ts
    BY DEF IInv, PcAuthentic
  <2>2. link[c].st # "new"
    BY <2>1, IdentitiesDisjoint DEF IInv, Lifecycle, TaskKeys, NewLink
  <2> QED
    BY <2>1, <2>2 DEF IInv, PcAuthentic, Quiet, LinksStable
<1>6. PhoneAgrees'
  <2> SUFFICES ASSUME NEW c \in Conns, link[c].tx # NoSessionKey
               PROVE  \E d \in Conns :
                        /\ Accepted(d)'
                        /\ task'[d].ephI = EphI(c) /\ task'[d].ts = link'[c].ts
                        /\ task'[d].id = link'[c].id /\ task'[d].pc = link'[c].pc
                        /\ task'[d].tx = link'[c].rx /\ task'[d].rx = link'[c].tx
    BY DEF PhoneAgrees, Quiet, LinkKeysSame
  <2>1. PICK d \in Conns :
          /\ Accepted(d)
          /\ task[d].ephI = EphI(c) /\ task[d].ts = link[c].ts
          /\ task[d].id = link[c].id /\ task[d].pc = link[c].pc
          /\ task[d].tx = link[c].rx /\ task[d].rx = link[c].tx
    BY DEF IInv, PhoneAgrees
  <2>2. link[c].st # "new"
    BY DEF IInv, Lifecycle, NewLink
  <2> QED
    BY <1>2, <2>1, <2>2 DEF Quiet, LinksStable, LinkKeysSame, SameTask
<1> QED
  BY <1>1, <1>3, <1>4, <1>5, <1>6 DEF IInv

-----------------------------------------------------------------------------
(* The invariant at the start, and one lemma per action. *)

(* Nothing has happened. *)
LEMMA InitIInv == Init => IInv
<1> SUFFICES ASSUME Init PROVE IInv
  OBVIOUS
<1>1. \A c \in Conns : link[c] = NewLink /\ task[c] = NewTask
  BY DEF Init
<1>2. Typed
  <2>1. 1 \in 1..MaxGen
    BY HandshakeAssumption
  <2>2. identity["pc"] \in PcKeys /\ \A p \in Phones : identity[p] \in PhoneKeys
    BY <2>1 DEF Init, PcKeys, PhoneKeys, Devices
  <2>3. identity \in [Devices -> IdKeys]
    BY <2>1 DEF Init, IdKeys
  <2> QED
    BY <2>2, <2>3, EmptyTyped, HandshakeAssumption DEF Init, Typed
<1>3. Lifecycle
  BY <1>1 DEF Lifecycle, NewLink, NewTask
<1>4. \A c \in Conns : link[c].tx = NoSessionKey /\ ~Accepted(c)
  BY <1>1 DEF NewLink, NewTask, Accepted
<1> QED
  BY <1>2, <1>3, <1>4
     DEF Init, IInv, HelloInv, AckInv, TaskKeys, PcAuthentic, PhoneAgrees

(* Time passes. *)
LEMMA TickKeeps == IInv /\ Tick => IInv'
<1> SUFFICES ASSUME IInv, Tick PROVE IInv'
  OBVIOUS
<1>1. Typed' /\ Lifecycle'
  <2>1. now' \in 0..MaxNow
    BY HandshakeAssumption DEF IInv, Tick, Typed
  <2> QED
    BY <2>1 DEF IInv, Tick, Typed, Lifecycle
<1>2. Quiet /\ hellos' = hellos /\ acks' = acks
  BY DEF Tick, Quiet, LinksStable, LinkKeysSame, SameTask
<1> QED
  BY <1>1, <1>2, QuietKeeps

(* Pairing changes only who knows whom. *)
LEMMA PairKeeps ==
  ASSUME IInv, NEW p \in Phones, Pair(p)
  PROVE  IInv'
<1>1. Typed' /\ Lifecycle'
  BY DEF IInv, Pair, Typed, Lifecycle
<1>2. Quiet /\ hellos' = hellos /\ acks' = acks
  BY DEF Pair, Quiet, LinksStable, LinkKeysSame, SameTask
<1> QED
  BY <1>1, <1>2, QuietKeeps

(* A new identity is again one of its device. *)
LEMMA NextIdentity ==
  ASSUME NEW d, NEW n \in 1..MaxGen, IdKey(d, n).n < MaxGen
  PROVE  [IdKey(d, n) EXCEPT !.n = @ + 1] = IdKey(d, n + 1) /\ n + 1 \in 1..MaxGen
<1>1. IdKey(d, n).n = n /\ [IdKey(d, n) EXCEPT !.n = @ + 1] = IdKey(d, n + 1)
  BY DEF IdKey, Key
<1> QED
  BY <1>1, HandshakeAssumption

(* Closing a session changes only its state, and of an open one. *)
LEMMA ClosedLink ==
  ASSUME NEW l \in LinkRecs
  PROVE  /\ Closed(l) \in LinkRecs
         /\ Closed(l).id = l.id /\ Closed(l).pc = l.pc /\ Closed(l).ts = l.ts
         /\ Closed(l).tx = l.tx /\ Closed(l).rx = l.rx
         /\ l.st \notin {"established", "waiting"} => Closed(l) = l
         /\ l.st \in {"established", "waiting"} => Closed(l).st = "closed"
BY DEF Closed, LinkRecs

(* Closing a task keeps what it knew and derived. *)
LEMMA ClosedTask ==
  ASSUME NEW t \in TaskRecs
  PROVE  /\ Closed(t) \in TaskRecs
         /\ Closed(t).id = t.id /\ Closed(t).pc = t.pc /\ Closed(t).ephI = t.ephI
         /\ Closed(t).ts = t.ts /\ Closed(t).at = t.at
         /\ Closed(t).tx = t.tx /\ Closed(t).rx = t.rx
         /\ t.st # "established" => Closed(t) = t
         /\ t.st = "established" => Closed(t).st = "closed"
BY DEF Closed, TaskRecs

(* A phone loses its keystore: a new identity, and every session closed. *)
LEMMA PhoneLosesIdentityKeeps ==
  ASSUME IInv, NEW p \in Phones, PhoneLosesIdentity(p)
  PROVE  IInv'
<1>1. \A c \in Conns : link[c] \in LinkRecs /\ link'[c] \in {link[c], Closed(link[c])}
  BY DEF IInv, Typed, PhoneLosesIdentity
<1>2. Quiet /\ hellos' = hellos /\ acks' = acks
  BY <1>1, ClosedLink DEF PhoneLosesIdentity, Quiet, LinksStable, LinkKeysSame, SameTask
<1>3. identity'[p] \in PhoneKeys
  <2>1. PICK q \in Phones, n \in 1..MaxGen : identity[p] = IdKey(q, n)
    BY DEF IInv, Typed, PhoneKeys
  <2>2. identity'[p] = [identity[p] EXCEPT !.n = @ + 1] /\ identity[p].n < MaxGen
    BY DEF IInv, Typed, PhoneLosesIdentity, Devices
  <2>3. identity'[p] = IdKey(q, n + 1) /\ n + 1 \in 1..MaxGen
    BY <2>1, <2>2, NextIdentity
  <2> QED
    BY <2>3 DEF PhoneKeys
<1>4. /\ identity' \in [Devices -> IdKeys] /\ identity'["pc"] \in PcKeys
      /\ \A q \in Phones : identity'[q] \in PhoneKeys
  BY <1>3, HandshakeAssumption
     DEF IInv, Typed, PhoneLosesIdentity, Devices, PhoneKeys, IdKeys
<1>5. link' \in [Conns -> LinkRecs]
  BY <1>1, ClosedLink DEF PhoneLosesIdentity
<1>6. Typed'
  BY <1>4, <1>5 DEF IInv, Typed, PhoneLosesIdentity
<1>7. Lifecycle'
  BY <1>1, ClosedLink DEF IInv, Lifecycle, PhoneLosesIdentity, LinkRecs
<1> QED
  BY <1>2, <1>6, <1>7, QuietKeeps

(* The agent restarts: every task is gone. *)
LEMMA AgentRestartsKeeps == IInv /\ AgentRestarts => IInv'
<1> SUFFICES ASSUME IInv, AgentRestarts PROVE IInv'
  OBVIOUS
<1>1. \A c \in Conns : task[c] \in TaskRecs /\ task'[c] = Closed(task[c])
  BY DEF IInv, Typed, AgentRestarts
<1>2. Quiet /\ hellos' = hellos /\ acks' = acks
  BY <1>1, ClosedTask DEF AgentRestarts, Quiet, LinksStable, LinkKeysSame, SameTask
<1>3. identity'["pc"] \in PcKeys
  <2>1. CASE identity' = identity
    BY <2>1 DEF IInv, Typed
  <2>2. CASE identity["pc"].n < MaxGen /\ identity' = [identity EXCEPT !["pc"].n = @ + 1]
    <3>1. identity'["pc"] = [identity["pc"] EXCEPT !.n = @ + 1]
      BY <2>2 DEF IInv, Typed, Devices
    <3>2. PICK n \in 1..MaxGen : identity["pc"] = IdKey("pc", n)
      BY DEF IInv, Typed, PcKeys
    <3>3. identity'["pc"] = IdKey("pc", n + 1) /\ n + 1 \in 1..MaxGen
      BY <2>2, <3>1, <3>2, NextIdentity
    <3> QED
      BY <3>3 DEF PcKeys
  <2> QED
    BY <2>1, <2>2 DEF AgentRestarts
<1>4. /\ identity' \in [Devices -> IdKeys]
      /\ \A q \in Phones : identity'[q] \in PhoneKeys
  BY <1>3, HandshakeAssumption DEF IInv, Typed, AgentRestarts, Devices, PcKeys, IdKeys
<1>5. task' \in [Conns -> TaskRecs]
  BY <1>1, ClosedTask DEF AgentRestarts
<1>6. Typed'
  BY <1>3, <1>4, <1>5 DEF IInv, Typed, AgentRestarts
<1>7. Lifecycle'
  BY <1>1, ClosedTask DEF IInv, Lifecycle, AgentRestarts, TaskRecs
<1> QED
  BY <1>2, <1>6, <1>7, QuietKeeps

(* The phone closes its end. *)
LEMMA PhoneClosesKeeps ==
  ASSUME IInv, NEW c \in Conns, PhoneCloses(c)
  PROVE  IInv'
<1>1. link[c] \in LinkRecs /\ link' = [link EXCEPT ![c] = [link[c] EXCEPT !.st = "closed"]]
  BY DEF IInv, Typed, PhoneCloses
<1>2. [link[c] EXCEPT !.st = "closed"] \in LinkRecs
  BY <1>1 DEF LinkRecs
<1>3. Typed'
  BY <1>1, <1>2 DEF IInv, Typed, PhoneCloses
<1>4. \A d \in Conns \ {c} : link'[d] = link[d]
  BY <1>1 DEF IInv, Typed
<1>5. /\ link'[c].st = "closed" /\ link'[c].id = link[c].id /\ link'[c].pc = link[c].pc
      /\ link'[c].ts = link[c].ts /\ link'[c].tx = link[c].tx /\ link'[c].rx = link[c].rx
  BY <1>1 DEF IInv, Typed, LinkRecs
<1>6. Lifecycle'
  BY <1>4, <1>5 DEF IInv, Lifecycle, PhoneCloses
<1>7. Quiet /\ hellos' = hellos /\ acks' = acks
  BY <1>4, <1>5 DEF PhoneCloses, Quiet, LinksStable, LinkKeysSame, SameTask
<1> QED
  BY <1>3, <1>6, <1>7, QuietKeeps

(* A HELLO is refused. *)
LEMMA OnHelloRefusedKeeps ==
  ASSUME IInv, NEW c \in Conns, NEW h, OnHelloRefused(c, h)
  PROVE  IInv'
<1>1. task[c] \in TaskRecs /\ task' = [task EXCEPT ![c] = [task[c] EXCEPT !.st = "closed"]]
  BY DEF IInv, Typed, OnHelloRefused
<1>2. [task[c] EXCEPT !.st = "closed"] \in TaskRecs
  BY <1>1 DEF TaskRecs
<1>3. Typed'
  BY <1>1, <1>2 DEF IInv, Typed, OnHelloRefused
<1>4. \A d \in Conns \ {c} : task'[d] = task[d]
  BY <1>1 DEF IInv, Typed
<1>5. task'[c].st = "closed" /\ SameTask(c)
  BY <1>1 DEF IInv, Typed, TaskRecs, SameTask
<1>6. Lifecycle'
  BY <1>4, <1>5 DEF IInv, Lifecycle, OnHelloRefused
<1>7. Quiet /\ hellos' = hellos /\ acks' = acks
  BY <1>4, <1>5 DEF OnHelloRefused, Quiet, LinksStable, LinkKeysSame, SameTask
<1> QED
  BY <1>3, <1>6, <1>7, QuietKeeps

(* start_phone: the new session is the one its HELLO speaks of. *)
LEMMA OpenKeeps ==
  ASSUME IInv, NEW p \in Phones, NEW c \in Conns, Open(p, c)
  PROVE  IInv'
<1> DEFINE ts == now + skew[p]
           l == [link[c] EXCEPT !.st = "waiting", !.id = identity[p],
                                !.pc = record[p], !.ts = ts]
<1>1. /\ link[c] \in LinkRecs /\ link' = [link EXCEPT ![c] = l]
      /\ link[c].st = "new" /\ link[c] = NewLink
  BY DEF IInv, Typed, Lifecycle, Open
<1>2. identity[p] \in PhoneKeys /\ record[p] \in PcKeys /\ ts \in Nat
  <2>1. identity[p] \in PhoneKeys /\ record[p] \in PcKeys
    BY DEF IInv, Typed, Open
  <2>2. now \in 0..MaxNow /\ skew[p] \in Skews
    BY DEF IInv, Typed
  <2>3. now \in Nat /\ skew[p] \in Nat
    <3>1. Skews \subseteq Nat /\ MaxNow \in Nat
      BY HandshakeAssumption
    <3>2. skew[p] \in Nat
      BY <2>2, <3>1, Zenon
    <3>3. now \in Nat
      BY <2>2, <3>1
    <3> QED
      BY <3>2, <3>3
  <2> QED
    BY <2>1, <2>3
<1> HIDE DEF ts
<1>3. /\ l \in LinkRecs /\ l.st = "waiting" /\ l.id = identity[p] /\ l.pc = record[p]
      /\ l.ts = ts /\ l.tx = NoSessionKey /\ l.rx = NoSessionKey
  <2>1. identity[p] \in Keys /\ record[p] \in Keys
    BY <1>2, KeysTyped
  <2>2. link[c].tx = NoSessionKey /\ link[c].rx = NoSessionKey
    BY <1>1 DEF NewLink
  <2> QED
    BY <1>1, <1>2, <2>1, <2>2 DEF LinkRecs
<1> HIDE DEF l
<1>4. \A d \in Conns \ {c} : link'[d] = link[d]
  BY <1>1 DEF IInv, Typed
<1>5. link'[c] = l /\ task' = task /\ acks' = acks
  BY <1>1 DEF IInv, Typed, Open
<1>6. Typed'
  <2>1. link' \in [Conns -> LinkRecs]
    BY <1>1, <1>3 DEF IInv, Typed
  <2> QED
    BY <2>1 DEF IInv, Typed, Open
<1>7. Lifecycle'
  BY <1>2, <1>3, <1>4, <1>5 DEF IInv, Lifecycle
<1>8. HelloInv'
  <2> SUFFICES ASSUME NEW h \in hellos'
               PROVE  \E d \in Conns : link'[d].st # "new" /\ h = HelloOf(d)'
    BY DEF HelloInv
  <2>1. CASE h \in hellos
    <3>1. PICK d \in Conns : link[d].st # "new" /\ h = HelloOf(d)
      BY <2>1 DEF IInv, HelloInv
    <3>2. d # c
      BY <1>1, <3>1
    <3> QED
      BY <1>4, <3>1, <3>2 DEF HelloOf
  <2>2. CASE h = [ver |-> 1, id |-> identity[p], eph |-> EphI(c), ts |-> ts,
                  mac |-> Mac(Dh(identity[p], record[p]), HelloBasis(identity[p], EphI(c), ts))]
    <3>1. HelloOf(c)' = [ver |-> 1, id |-> l.id, eph |-> EphI(c), ts |-> l.ts,
                         mac |-> Mac(Dh(l.id, l.pc), HelloBasis(l.id, EphI(c), l.ts))]
      BY <1>5 DEF HelloOf
    <3> QED
      BY <1>3, <1>5, <2>2, <3>1
  <2> QED
    BY <2>1, <2>2 DEF Open, ts
<1>9. AckInv' /\ TaskKeys'
  BY <1>5 DEF IInv, AckInv, AckOf, Accepted, TaskKeys, PcKey
<1>10. PcAuthentic'
  <2> SUFFICES ASSUME NEW d \in Conns, Accepted(d)
               PROVE  /\ AbsDiff(task[d].ts, task[d].at) <= Window
                      /\ \E e \in Conns :
                           /\ link'[e].id = task[d].id /\ link'[e].pc = task[d].pc
                           /\ EphI(e) = task[d].ephI /\ link'[e].ts = task[d].ts
    BY <1>5 DEF PcAuthentic, Accepted
  <2>1. PICK e \in Conns : /\ link[e].id = task[d].id /\ link[e].pc = task[d].pc
                           /\ EphI(e) = task[d].ephI /\ link[e].ts = task[d].ts
    BY DEF IInv, PcAuthentic
  <2>2. e # c
    BY <1>1, <2>1, IdentitiesDisjoint DEF IInv, TaskKeys, NewLink
  <2> QED
    BY <1>4, <2>1, <2>2 DEF IInv, PcAuthentic
<1>11. PhoneAgrees'
  BY <1>3, <1>4, <1>5 DEF IInv, PhoneAgrees, Accepted
<1> QED
  BY <1>6, <1>7, <1>8, <1>9, <1>10, <1>11 DEF IInv

(* on_hello_ack: the keys it derives are those of the session that sent    *)
(* the HELLO_ACK, the other way round.                                     *)
LEMMA OnHelloAckKeeps ==
  ASSUME IInv, NEW c \in Conns, NEW a \in AcksAbout, OnHelloAck(c, a), AckOk(link[c], c, a)
  PROVE  IInv'
<1> DEFINE k == link[c]
           l == [k EXCEPT !.st = "established", !.tx = PhoneKey(k, c, a, "p2c"),
                                                !.rx = PhoneKey(k, c, a, "c2p")]
<1>1. k \in LinkRecs /\ k.st = "waiting" /\ link' = [link EXCEPT ![c] = l]
  BY DEF IInv, Typed, OnHelloAck
<1>2. PICK d \in Conns :
        /\ Accepted(d) /\ a.eph = EphR(d)
        /\ task[d].ephI = EphI(c) /\ task[d].ts = k.ts
        /\ task[d].id = k.id /\ task[d].pc = k.pc
  BY <1>1, AckAuthentic
<1>3. k.id \in PhoneKeys /\ k.pc \in PcKeys
  BY <1>1 DEF IInv, Lifecycle
<1>4. \A dir \in {"c2p", "p2c"} :
        /\ PhoneKey(k, c, a, dir) \in SessionKeys
        /\ PhoneKey(k, c, a, dir) # NoSessionKey
  <2>1. k.id \in Keys /\ k.pc \in Keys /\ a.eph \in Keys /\ EphI(c) \in Keys
    BY <1>2, <1>3, KeysTyped
  <2> QED
    BY <2>1, SessionKeyTyped DEF PhoneKey
<1>5. \A dir \in {"c2p", "p2c"} : PhoneKey(k, c, a, dir) = PcKey(d, dir)
  BY <1>2, DhSymmetric DEF PhoneKey, PcKey
<1> HIDE DEF k
<1>6. /\ l \in LinkRecs /\ l.st = "established" /\ l.id = k.id /\ l.pc = k.pc
      /\ l.ts = k.ts /\ l.tx = PhoneKey(k, c, a, "p2c") /\ l.rx = PhoneKey(k, c, a, "c2p")
  BY <1>1, <1>4 DEF LinkRecs
<1> HIDE DEF l
<1>7. link'[c] = l /\ \A e \in Conns \ {c} : link'[e] = link[e]
  BY <1>1 DEF IInv, Typed
<1>8. task' = task /\ hellos' = hellos /\ acks' = acks
  BY DEF OnHelloAck
<1>9. Typed'
  BY <1>1, <1>6 DEF IInv, Typed, OnHelloAck
<1>10. Lifecycle'
  BY <1>3, <1>4, <1>6, <1>7, <1>8 DEF IInv, Lifecycle
<1>11. LinksStable
  BY <1>1, <1>6, <1>7 DEF LinksStable, k
<1>12. HelloInv'
  <2> SUFFICES ASSUME NEW h \in hellos
               PROVE  \E e \in Conns : link'[e].st # "new" /\ h = HelloOf(e)'
    BY <1>8 DEF HelloInv
  <2>1. PICK e \in Conns : link[e].st # "new" /\ h = HelloOf(e)
    BY DEF IInv, HelloInv
  <2> QED
    BY <1>11, <2>1 DEF LinksStable, HelloOf
<1>13. AckInv' /\ TaskKeys'
  BY <1>8 DEF IInv, AckInv, AckOf, Accepted, TaskKeys, PcKey
<1>14. PcAuthentic'
  <2>1. \A e \in Conns : /\ link'[e].id = link[e].id /\ link'[e].pc = link[e].pc
                         /\ link'[e].ts = link[e].ts
    BY <1>6, <1>7 DEF k
  <2> QED
    BY <1>8, <2>1 DEF IInv, PcAuthentic, Accepted
<1>15. PhoneAgrees'
  <2> SUFFICES ASSUME NEW e \in Conns, link'[e].tx # NoSessionKey
               PROVE  \E f \in Conns :
                        /\ Accepted(f)
                        /\ task[f].ephI = EphI(e) /\ task[f].ts = link'[e].ts
                        /\ task[f].id = link'[e].id /\ task[f].pc = link'[e].pc
                        /\ task[f].tx = link'[e].rx /\ task[f].rx = link'[e].tx
    BY <1>8 DEF PhoneAgrees, Accepted
  <2>1. CASE e = c
    <3>1. task[d].tx = PcKey(d, "c2p") /\ task[d].rx = PcKey(d, "p2c")
      BY <1>2 DEF IInv, TaskKeys
    <3> QED
      BY <1>2, <1>5, <1>6, <1>7, <2>1, <3>1
  <2>2. CASE e # c
    BY <1>7, <2>2 DEF IInv, PhoneAgrees
  <2> QED
    BY <2>1, <2>2
<1> QED
  BY <1>9, <1>10, <1>12, <1>13, <1>14, <1>15 DEF IInv

(* on_hello_ack refusing: the session closes and nothing else. *)
LEMMA OnHelloAckRefuses ==
  ASSUME IInv, NEW c \in Conns, NEW a, OnHelloAck(c, a), ~AckOk(link[c], c, a)
  PROVE  IInv'
<1>1. /\ link[c] \in LinkRecs /\ link[c].st = "waiting"
      /\ link' = [link EXCEPT ![c] = [link[c] EXCEPT !.st = "closed"]]
  BY DEF IInv, Typed, OnHelloAck
<1>2. [link[c] EXCEPT !.st = "closed"] \in LinkRecs
  BY <1>1 DEF LinkRecs
<1>3. Typed'
  BY <1>1, <1>2 DEF IInv, Typed, OnHelloAck
<1>4. \A d \in Conns \ {c} : link'[d] = link[d]
  BY <1>1 DEF IInv, Typed
<1>5. /\ link'[c].st = "closed" /\ link'[c].id = link[c].id /\ link'[c].pc = link[c].pc
      /\ link'[c].ts = link[c].ts /\ link'[c].tx = link[c].tx /\ link'[c].rx = link[c].rx
  BY <1>1 DEF IInv, Typed, LinkRecs
<1>6. task' = task /\ hellos' = hellos /\ acks' = acks
  BY DEF OnHelloAck
<1>7. Lifecycle'
  BY <1>1, <1>4, <1>5, <1>6 DEF IInv, Lifecycle
<1>8. Quiet
  BY <1>4, <1>5, <1>6 DEF Quiet, LinksStable, LinkKeysSame, SameTask
<1> QED
  BY <1>3, <1>6, <1>7, <1>8, QuietKeeps

(* on_hello: the new session stems from the HELLO of a phone's session,    *)
(* its keys are made with an ephemeral key of its own, and its HELLO_ACK   *)
(* speaks of it.                                                           *)
LEMMA OnHelloKeeps ==
  ASSUME IInv, NEW c \in Conns, NEW h \in HellosAbout, OnHello(c, h)
  PROVE  IInv'
<1> DEFINE pc == identity["pc"]
           ss(dir) == SessionKey(dir, Dh(EphR(c), h.eph), Dh(EphR(c), h.id), Dh(pc, h.id),
                                 h.id, pc)
           t == [st |-> "established", id |-> h.id, pc |-> pc, ephI |-> h.eph,
                 ts |-> h.ts, at |-> now, tx |-> ss("c2p"), rx |-> ss("p2c")]
<1>1. /\ task' = [task EXCEPT ![c] = t] /\ task[c].st = "none"
      /\ link' = link /\ hellos' = hellos /\ HelloOk(h)
      /\ acks' = acks \cup {[eph |-> EphR(c), mac |-> Mac(Dh(pc, h.id), AckBasis(EphR(c), h.eph))]}
  BY DEF OnHello, Accepts, FreshEph
<1>2. PICK b \in Conns :
        /\ link[b].st # "new"
        /\ h.id = link[b].id /\ pc = link[b].pc
        /\ h.eph = EphI(b) /\ h.ts = link[b].ts
  BY <1>1, HelloAuthentic DEF IInv
<1>3. h.id \in PhoneKeys /\ pc \in PcKeys /\ h.ts \in Nat /\ now \in Nat
  BY <1>1, <1>2, HandshakeAssumption DEF IInv, Typed, Lifecycle, LinkRecs
<1>4. \A dir \in {"c2p", "p2c"} : ss(dir) \in SessionKeys /\ ss(dir) # NoSessionKey
  <2>1. h.id \in Keys /\ pc \in Keys /\ h.eph \in Keys /\ EphR(c) \in Keys
    BY <1>2, <1>3, KeysTyped
  <2> QED
    BY <2>1, SessionKeyTyped
<1> HIDE DEF pc, ss
<1>5. /\ t \in TaskRecs /\ t.st = "established" /\ t.id = h.id /\ t.pc = pc
      /\ t.ephI = h.eph /\ t.ts = h.ts /\ t.at = now
      /\ t.tx = ss("c2p") /\ t.rx = ss("p2c")
  BY <1>2, <1>3, <1>4, KeysTyped DEF TaskRecs
<1> HIDE DEF t
<1>6. task'[c] = t /\ \A d \in Conns \ {c} : task'[d] = task[d]
  BY <1>1 DEF IInv, Typed
<1>7. ~Accepted(c) /\ Accepted(c)' /\ \A d \in Conns \ {c} : Accepted(d)' <=> Accepted(d)
  BY <1>1, <1>4, <1>5, <1>6 DEF IInv, Lifecycle, Accepted, NewTask
<1>8. Typed'
  <2>1. task' \in [Conns -> TaskRecs]
    BY <1>1, <1>5 DEF IInv, Typed
  <2> QED
    BY <2>1 DEF IInv, Typed, OnHello
<1>9. Lifecycle'
  BY <1>1, <1>4, <1>5, <1>6 DEF IInv, Lifecycle
<1>10. HelloInv'
  BY <1>1 DEF IInv, HelloInv, HelloOf
<1>11. AckInv'
  <2> SUFFICES ASSUME NEW a \in acks'
               PROVE  \E d \in Conns : Accepted(d)' /\ a = AckOf(d)'
    BY DEF AckInv
  <2>1. CASE a \in acks
    <3>1. PICK d \in Conns : Accepted(d) /\ a = AckOf(d)
      BY <2>1 DEF IInv, AckInv
    <3> QED
      BY <1>6, <1>7, <3>1 DEF AckOf
  <2>2. CASE a = [eph |-> EphR(c), mac |-> Mac(Dh(pc, h.id), AckBasis(EphR(c), h.eph))]
    <3>1. AckOf(c)' = [eph |-> EphR(c), mac |-> Mac(Dh(t.pc, t.id), AckBasis(EphR(c), t.ephI))]
      BY <1>6 DEF AckOf
    <3> QED
      BY <1>5, <1>7, <2>2, <3>1
  <2> QED
    BY <1>1, <2>1, <2>2
<1>12. TaskKeys'
  <2> SUFFICES ASSUME NEW d \in Conns, Accepted(d)'
               PROVE  /\ task'[d].id \in PhoneKeys /\ task'[d].pc \in PcKeys
                      /\ task'[d].tx = PcKey(d, "c2p")' /\ task'[d].rx = PcKey(d, "p2c")'
    BY DEF TaskKeys
  <2>1. CASE d = c
    <3>1. \A dir \in {"c2p", "p2c"} :
            PcKey(c, dir)' = SessionKey(dir, Dh(EphR(c), t.ephI), Dh(EphR(c), t.id),
                                        Dh(t.pc, t.id), t.id, t.pc)
      BY <1>6 DEF PcKey
    <3>2. PcKey(c, "c2p")' = ss("c2p") /\ PcKey(c, "p2c")' = ss("p2c")
      BY <1>5, <3>1 DEF ss
    <3>3. PcKey(d, "c2p")' = PcKey(c, "c2p")' /\ PcKey(d, "p2c")' = PcKey(c, "p2c")'
      BY <2>1 DEF PcKey
    <3> QED
      BY <1>3, <1>5, <1>6, <2>1, <3>2, <3>3
  <2>2. CASE d # c
    BY <1>6, <1>7, <2>2 DEF IInv, TaskKeys, PcKey
  <2> QED
    BY <2>1, <2>2
<1>13. PcAuthentic'
  <2> SUFFICES ASSUME NEW d \in Conns, Accepted(d)'
               PROVE  /\ AbsDiff(task'[d].ts, task'[d].at) <= Window
                      /\ \E e \in Conns :
                           /\ link[e].id = task'[d].id /\ link[e].pc = task'[d].pc
                           /\ EphI(e) = task'[d].ephI /\ link[e].ts = task'[d].ts
    BY <1>1 DEF PcAuthentic
  <2>1. CASE d = c
    <3>1. AbsDiff(h.ts, now) <= Window
      BY <1>1 DEF HelloOk
    <3> QED
      BY <1>2, <1>5, <1>6, <2>1, <3>1
  <2>2. CASE d # c
    BY <1>6, <1>7, <2>2 DEF IInv, PcAuthentic
  <2> QED
    BY <2>1, <2>2
<1>14. PhoneAgrees'
  <2> SUFFICES ASSUME NEW e \in Conns, link[e].tx # NoSessionKey
               PROVE  \E d \in Conns :
                        /\ Accepted(d)'
                        /\ task'[d].ephI = EphI(e) /\ task'[d].ts = link[e].ts
                        /\ task'[d].id = link[e].id /\ task'[d].pc = link[e].pc
                        /\ task'[d].tx = link[e].rx /\ task'[d].rx = link[e].tx
    BY <1>1 DEF PhoneAgrees
  <2>1. PICK d \in Conns :
          /\ Accepted(d)
          /\ task[d].ephI = EphI(e) /\ task[d].ts = link[e].ts
          /\ task[d].id = link[e].id /\ task[d].pc = link[e].pc
          /\ task[d].tx = link[e].rx /\ task[d].rx = link[e].tx
    BY DEF IInv, PhoneAgrees
  <2> QED
    BY <1>6, <1>7, <2>1
<1> QED
  BY <1>8, <1>9, <1>10, <1>11, <1>12, <1>13, <1>14 DEF IInv

-----------------------------------------------------------------------------
(* Theorems. *)

(* The invariant holds in every state. *)
THEOREM HandshakeInvariant == Spec => []IInv
<1>1. IInv /\ [Next]_vars => IInv'
  <2> SUFFICES ASSUME IInv, [Next]_vars PROVE IInv'
    OBVIOUS
  <2>1. CASE UNCHANGED vars
    BY <2>1, QuietKeeps DEF vars, IInv, Typed, Lifecycle, Quiet, LinksStable, LinkKeysSame, SameTask
  <2>2. CASE Tick
    BY <2>2, TickKeeps
  <2>3. CASE AgentRestarts
    BY <2>3, AgentRestartsKeeps
  <2>4. ASSUME NEW p \in Phones, Pair(p) \/ PhoneLosesIdentity(p) \/ \E c \in Conns : Open(p, c)
        PROVE  IInv'
    BY <2>4, PairKeeps, PhoneLosesIdentityKeeps, OpenKeeps
  <2>5. ASSUME NEW c \in Conns, PhoneCloses(c)
        PROVE  IInv'
    BY <2>5, PhoneClosesKeeps
  <2>6. ASSUME NEW c \in Conns, NEW a \in AcksAbout, OnHelloAck(c, a)
        PROVE  IInv'
    BY <2>6, OnHelloAckKeeps, OnHelloAckRefuses
  <2>7. ASSUME NEW c \in Conns, NEW h \in HellosAbout, OnHello(c, h) \/ OnHelloRefused(c, h)
        PROVE  IInv'
    BY <2>7, OnHelloKeeps, OnHelloRefusedKeeps
  <2> QED
    BY <2>1, <2>2, <2>3, <2>4, <2>5, <2>6, <2>7 DEF Next
<1> QED
  BY <1>1, InitIInv, PTL DEF Spec

(* The type invariant of Handshake: a session, on either side, has its     *)
(* channel exactly from Established on.                                    *)
THEOREM TypeCorrect == Spec => []TypeOK
<1>1. IInv => TypeOK
  <2> SUFFICES ASSUME IInv PROVE TypeOK
    OBVIOUS
  <2>1. record \in [Phones -> IdKeys \cup {NoKey}]
    BY DEF IInv, Typed, PcKeys, IdKeys, Devices
  <2>2. known \subseteq IdKeys
    BY DEF IInv, Typed, PhoneKeys, IdKeys, Devices
  <2>3. \A c \in Conns : link[c] \in LinkRecs /\ task[c] \in TaskRecs
    BY DEF IInv, Typed
  <2>4. \A c \in Conns : /\ link[c].st \in {"new", "waiting", "established", "closed"}
                          /\ task[c].st \in {"none", "established", "closed"}
    BY <2>3 DEF LinkRecs, TaskRecs
  <2> QED
    BY <2>1, <2>2, <2>4 DEF IInv, Typed, Lifecycle, TypeOK
<1> QED
  BY <1>1, HandshakeInvariant, PTL

(* on_hello_ack establishes a phone's session only with the PC of its      *)
(* pairing record, for this very HELLO, and with the keys the PC has.      *)
THEOREM PhoneSessionsAgree == Spec => []PhoneAgrees
<1>1. IInv => PhoneAgrees
  BY DEF IInv
<1> QED
  BY <1>1, HandshakeInvariant, PTL

(* on_hello establishes a session only for a HELLO that a phone with a     *)
(* pairing record of this PC made, unaltered and within the window.        *)
THEOREM PcSessionsAuthentic == Spec => []PcAuthentic
<1>1. IInv => PcAuthentic
  BY DEF IInv
<1> QED
  BY <1>1, HandshakeInvariant, PTL

(* The PC's sessions share no key, whoever repeats a HELLO: each has an    *)
(* ephemeral key of its own.                                               *)
LEMMA TaskKeysFresh ==
  ASSUME IInv, NEW c \in Conns, NEW d \in Conns, Accepted(c), Accepted(d), c # d
  PROVE  {task[c].tx, task[c].rx} \cap {task[d].tx, task[d].rx} = {}
<1>1. PICK b \in Conns : task[d].ephI = EphI(b)
  BY DEF IInv, PcAuthentic
<1>2. EphR(c) # EphR(d) /\ EphR(c) # task[d].ephI
  BY <1>1, EphDistinct
<1>3. Dh(EphR(c), task[c].ephI) # Dh(EphR(d), task[d].ephI)
  BY <1>2 DEF Dh
<1>4. \A m, n \in {"c2p", "p2c"} : PcKey(c, m) # PcKey(d, n)
  BY <1>3, SessionKeyInjective DEF PcKey
<1>5. /\ task[c].tx = PcKey(c, "c2p") /\ task[c].rx = PcKey(c, "p2c")
      /\ task[d].tx = PcKey(d, "c2p") /\ task[d].rx = PcKey(d, "p2c")
  BY DEF IInv, TaskKeys
<1> QED
  BY <1>4, <1>5

(* No two sessions of one side, and no two directions, use one key, so     *)
(* that counters may start at zero under each.                             *)
THEOREM SessionKeysFresh == Spec => []KeysFresh
<1>1. IInv => KeysFresh
  <2> SUFFICES ASSUME IInv, NEW c \in Conns, NEW d \in Conns
               PROVE  /\ Accepted(c) /\ Accepted(d) /\ c # d
                           => {task[c].tx, task[c].rx} \cap {task[d].tx, task[d].rx} = {}
                      /\ link[c].tx # NoSessionKey /\ link[d].tx # NoSessionKey /\ c # d
                           => {link[c].tx, link[c].rx} \cap {link[d].tx, link[d].rx} = {}
                      /\ Accepted(c) => task[c].tx # task[c].rx
    BY DEF KeysFresh
  <2>1. Accepted(c) => task[c].tx # task[c].rx
    <3>1. PcKey(c, "c2p") # PcKey(c, "p2c")
      BY SessionKeyInjective DEF PcKey
    <3> QED
      BY <3>1 DEF IInv, TaskKeys
  <2>2. ASSUME link[c].tx # NoSessionKey, link[d].tx # NoSessionKey, c # d
        PROVE  {link[c].tx, link[c].rx} \cap {link[d].tx, link[d].rx} = {}
    <3>1. PICK e \in Conns : /\ Accepted(e) /\ task[e].ephI = EphI(c)
                             /\ task[e].tx = link[c].rx /\ task[e].rx = link[c].tx
      BY <2>2 DEF IInv, PhoneAgrees
    <3>2. PICK f \in Conns : /\ Accepted(f) /\ task[f].ephI = EphI(d)
                             /\ task[f].tx = link[d].rx /\ task[f].rx = link[d].tx
      BY <2>2 DEF IInv, PhoneAgrees
    <3>3. e # f
      BY <2>2, <3>1, <3>2, EphDistinct
    <3>4. {task[e].tx, task[e].rx} \cap {task[f].tx, task[f].rx} = {}
      BY <3>1, <3>2, <3>3, TaskKeysFresh
    <3> QED
      BY <3>1, <3>2, <3>4
  <2> QED
    BY <2>1, <2>2, TaskKeysFresh
<1> QED
  BY <1>1, HandshakeInvariant, PTL

=============================================================================
