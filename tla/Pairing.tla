------------------------------- MODULE Pairing -------------------------------
(***************************************************************************)
(* Pairing phones with one PC: the pairing window and the PC's task per    *)
(* connection (open_pairing_window in apps/windows/src/main.rs and         *)
(* run_pairing in server.rs, driving PcPairing of crates/airclip-core/src/ *)
(* pairing.rs), the PC's keystore, and the phone's CoreHandle (ffi.rs)     *)
(* driving begin_pairing and PendingPairing (client.rs) and PhonePairing,  *)
(* as the app's CoreController (apps/ios) calls it.                        *)
(*                                                                         *)
(* Opening the window makes a fresh token, here the window's number, and a *)
(* QR that carries it and the PC's addresses.  Any phone may scan any QR   *)
(* shown so far, several times and concurrently.  Connections are FIFO;    *)
(* pairing frames are plain text and may be altered in transit.            *)
(*                                                                         *)
(* Ephemeral keys are fresh per connection, so connection c stands for     *)
(* both of its keys, and 0 for an altered key or token.  The basis of the  *)
(* emoji code (sas_input) is a record of what it is computed from; codes   *)
(* and MACs are equal exactly when their bases are.                        *)
(***************************************************************************)
EXTENDS Integers, Sequences, FiniteSets

CONSTANTS
  Phones,
  Conns,      \* connections, positive numbers
  TTL,        \* PAIR_TOKEN_TTL_MS
  MaxOpens,   \* bound: windows opened
  MaxNow,     \* bound: the clock
  MaxFaults,  \* bound: frames altered, keystore reads and writes that fail
  MaxEvents   \* bound: windows opened, ticks and faults together

ASSUME PairingAssumption ==
  /\ Conns \subseteq Nat \ {0}
  /\ "none" \notin Phones
  /\ TTL \in Nat /\ MaxOpens \in Nat /\ MaxNow \in Nat /\ MaxFaults \in Nat /\ MaxEvents \in Nat

VARIABLES
  now,      \* the PC's clock
  opened,   \* windows opened so far
  offer,    \* AgentState::pairing
  core,     \* core[p]: what the CoreHandle of p holds
  link,     \* link[c]: the phone's side of c
  task,     \* task[c]: the PC's task for c
  toPc, toPhone,
  tmp,      \* the keystore's temporary file
  stored,   \* phones in the keystore's pairings file
  peers,    \* AgentState::peers
  events,   \* AgentEvents emitted
  faults

vars == <<now, opened, offer, core, link, task, toPc, toPhone, tmp, stored, peers, events, faults>>

pcOwn == <<task, tmp, stored, peers, events, offer, opened>>
phoneOwn == <<core, link>>

-----------------------------------------------------------------------------
Windows == 1..MaxOpens
NoOffer == [token |-> 0, issued |-> 0]
NoFile == [named |-> FALSE, all |-> {}]

(* What both sides hash: the two ephemeral keys, the phone's identity key  *)
(* and the token, as that side knows them; the PC's key is a constant.     *)
Basis(i, r, p, w) == [ephI |-> i, ephR |-> r, phone |-> p, token |-> w]
NoBasis == [ephI |-> 0, ephR |-> 0, phone |-> "none", token |-> 0]
Bases == [ephI : Conns \cup {0}, ephR : Conns \cup {0},
          phone : Phones \cup {"none"}, token : Windows \cup {0}]

(* PAIR_REQ carries (token, phone, ephI), PAIR_ACK carries ephR and        *)
(* PAIR_CONFIRM the MAC, each in the fields of a basis.  "Malformed" is a  *)
(* frame whose payload is refused, "Undecodable" one the codec refuses.    *)
Frame(ty, b) == [ty |-> ty, b |-> b]
Frames == [ty : {"PairReq", "PairAck", "PairConfirm", "Malformed", "Undecodable"}, b : Bases]

Event(ev, c) == [ev |-> ev, conn |-> c]
Events == [ev : {"PairingSas", "Paired", "PairingFailed"}, conn : Conns]

(* A phone: of its CoreHandle the pending connection, the addresses of the *)
(* QR it pairs against (named by its window), the address hints, and       *)
(* whether the PC is among its stored peers; of the app the pairing phase, *)
(* and in phase "confirming" the connection whose code is on screen; and,  *)
(* as history, whether the user ever left the pairing screen while a call  *)
(* of start_pairing or confirm_sas was under way.                          *)
Phases == {"idle", "connecting", "confirming", "paired", "failed"}
Cores == [pending : Conns \cup {0}, hosts : Windows \cup {0}, hints : SUBSET Windows,
          paired : BOOLEAN, phase : Phases, shown : Conns \cup {0}, left : BOOLEAN]

(* told: the app has been told to show the code; tapped: the user has      *)
(* confirmed and PAIR_CONFIRM is written; seen: whose code was shown then. *)
Links == [st : {"new", "dialing", "begun", "sas", "sent", "closed"},
          owner : Phones \cup {"none"}, qr : Windows \cup {0}, basis : Bases,
          told : BOOLEAN, tapped : BOOLEAN, seen : Conns \cup {0}]

Tasks == [st : {"none", "AwaitingReq", "AwaitingConfirm", "Completed", "loaded", "written",
                "saved", "gone"},
          basis : Bases, done : BOOLEAN, all : SUBSET Phones]

TypeOK ==
  /\ now \in 0..MaxNow /\ opened \in 0..MaxOpens /\ faults \in 0..MaxFaults
  /\ offer \in [token : Windows \cup {0}, issued : 0..MaxNow]
  /\ core \in [Phones -> Cores]
  /\ \A p \in Phones : (core[p].shown # 0) = (core[p].phase = "confirming")
  /\ link \in [Conns -> Links]
  /\ task \in [Conns -> Tasks]
  /\ toPc \in [Conns -> Seq(Frames)]
  /\ toPhone \in [Conns -> Seq(Frames)]
  /\ tmp \in [named : BOOLEAN, all : SUBSET Phones]
  /\ stored \subseteq Phones /\ peers \subseteq Phones
  /\ events \subseteq Events

Init ==
  /\ now = 0 /\ opened = 0 /\ faults = 0
  /\ offer = NoOffer
  /\ core = [p \in Phones |-> [pending |-> 0, hosts |-> 0, hints |-> {},
                               paired |-> FALSE, phase |-> "idle", shown |-> 0,
                               left |-> FALSE]]
  /\ link = [c \in Conns |-> [st |-> "new", owner |-> "none", qr |-> 0, basis |-> NoBasis,
                              told |-> FALSE, tapped |-> FALSE, seen |-> 0]]
  /\ task = [c \in Conns |-> [st |-> "none", basis |-> NoBasis, done |-> FALSE, all |-> {}]]
  /\ toPc = [c \in Conns |-> <<>>]
  /\ toPhone = [c \in Conns |-> <<>>]
  /\ tmp = NoFile
  /\ stored = {} /\ peers = {} /\ events = {}

-----------------------------------------------------------------------------
(* The PC's user and the clock. *)

Budget == opened + now + faults < MaxEvents

OpenPairing ==
  /\ opened < MaxOpens /\ Budget
  /\ opened' = opened + 1
  /\ offer' = [token |-> opened + 1, issued |-> now]
  /\ UNCHANGED <<now, task, toPc, toPhone, tmp, stored, peers, events, faults>>
  /\ UNCHANGED phoneOwn

Tick ==
  /\ now < MaxNow /\ Budget
  /\ now' = now + 1
  /\ UNCHANGED <<toPc, toPhone, faults>> /\ UNCHANGED pcOwn /\ UNCHANGED phoneOwn

-----------------------------------------------------------------------------
(* The phone: start_pairing, confirm_sas, cancel_pairing, forget_peer. *)

Show_KeepsCode(co, phase, c) ==  \* mutant: the code outlives its screen
  [co EXCEPT !.phase = phase, !.shown = IF c = 0 THEN @ ELSE c]
Show(co, phase, c) == [co EXCEPT !.phase = phase, !.shown = c]

(* Connections are numbered as they are made. *)
Fresh(c) == link[c].st = "new" /\ \A d \in Conns : d < c => link[d].st # "new"

StartPairing_AnyPhase(p, c, w) ==  \* mutant: the scanner stays on screen
  /\ Fresh(c)
  /\ core' = [core EXCEPT ![p] = Show([@ EXCEPT !.hosts = w], "connecting", 0)]
  /\ link' = [link EXCEPT ![c].st = "dialing", ![c].owner = p, ![c].qr = w]
  /\ UNCHANGED <<now, toPc, toPhone, faults>> /\ UNCHANGED pcOwn

(* The scanner is on screen in phase "idle" only.  The QR's addresses are  *)
(* noted before the phone dials.                                           *)
StartPairing(p, c, w) ==
  /\ core[p].phase = "idle"
  /\ Fresh(c)
  /\ core' = [core EXCEPT ![p] = Show([@ EXCEPT !.hosts = w], "connecting", 0)]
  /\ link' = [link EXCEPT ![c].st = "dialing", ![c].owner = p, ![c].qr = w]
  /\ UNCHANGED <<now, toPc, toPhone, faults>> /\ UNCHANGED pcOwn

Dial(c) ==
  /\ link[c].st = "dialing"
  /\ link' = [link EXCEPT ![c].st = "begun"]
  /\ task' = [task EXCEPT ![c].st = "AwaitingReq"]
  /\ toPc' = [toPc EXCEPT ![c] = <<Frame("PairReq", Basis(c, 0, link[c].owner, link[c].qr))>>]
  /\ UNCHANGED <<now, opened, offer, core, toPhone, tmp, stored, peers, events, faults>>

PhoneAck_ConfirmsAtOnce(c) ==  \* mutant: the confirmation built here is sent here
  LET p == link[c].owner
      b == Basis(c, Head(toPhone[c]).b.ephR, p, link[c].qr)
  IN
    /\ link[c].st = "begun"
    /\ toPhone[c] # <<>> /\ Head(toPhone[c]).ty = "PairAck"
    /\ toPhone' = [toPhone EXCEPT ![c] = Tail(@)]
    /\ toPc' = [toPc EXCEPT ![c] = Append(@, Frame("PairConfirm", b))]
    /\ link' = [link EXCEPT ![c].st = "sas", ![c].basis = b]
    /\ core' = [core EXCEPT ![p].pending = c]
    /\ UNCHANGED <<now, faults>> /\ UNCHANGED pcOwn

(* begin_pairing returns with the code and start_pairing makes this the    *)
(* pending exchange; the one that was pending, if any, is dropped.         *)
PhoneAck(c) ==
  LET p == link[c].owner
      old == core[p].pending
  IN
    /\ link[c].st = "begun"
    /\ toPhone[c] # <<>> /\ Head(toPhone[c]).ty = "PairAck"
    /\ toPhone' = [toPhone EXCEPT ![c] = Tail(@)]
    /\ link' = [d \in Conns |->
                  IF d = c THEN [link[c] EXCEPT !.st = "sas",
                                   !.basis = Basis(c, Head(toPhone[c]).b.ephR, p, link[c].qr)]
                  ELSE IF d = old THEN [link[d] EXCEPT !.st = "closed"]
                  ELSE link[d]]
    /\ core' = [core EXCEPT ![p].pending = c]
    /\ UNCHANGED <<now, toPc, faults>> /\ UNCHANGED pcOwn

(* ... and, the lock released, tells the app to show its code. *)
PhoneShow(c) ==
  /\ link[c].basis # NoBasis /\ ~link[c].told
  /\ core' = [core EXCEPT ![link[c].owner] = Show(@, "confirming", c)]
  /\ link' = [link EXCEPT ![c].told = TRUE]
  /\ UNCHANGED <<now, toPc, toPhone, faults>> /\ UNCHANGED pcOwn

(* begin_pairing fails: no host reached, timeout, end of stream, or a      *)
(* frame it refuses.                                                       *)
StartFails(c) ==
  /\ link[c].st \in {"dialing", "begun"}
  /\ link' = [link EXCEPT ![c].st = "closed"]
  /\ core' = [core EXCEPT ![link[c].owner] = Show(@, "failed", 0)]
  /\ UNCHANGED <<now, toPc, toPhone, faults>> /\ UNCHANGED pcOwn

ConfirmSend_EarlyTap(p) ==  \* mutant: the button is there before the code is
  LET c == core[p].pending IN
    /\ core[p].phase \in {"connecting", "confirming"} /\ c # 0
    /\ toPc' = [toPc EXCEPT ![c] = Append(@, Frame("PairConfirm", link[c].basis))]
    /\ link' = [link EXCEPT ![c].st = "sent", ![c].tapped = TRUE, ![c].seen = core[p].shown]
    /\ core' = [core EXCEPT ![p].pending = 0]
    /\ UNCHANGED <<now, toPhone, faults>> /\ UNCHANGED pcOwn

(* "They match": confirm_sas takes the pending exchange and sends its      *)
(* PAIR_CONFIRM; the write can fail only when the PC's end is gone.  With  *)
(* nothing pending it only reports a failure.                              *)
ConfirmSend(p) ==
  LET c == core[p].pending IN
    /\ core[p].phase = "confirming"
    /\ \/ /\ c # 0
          /\ toPc' = [toPc EXCEPT ![c] = Append(@, Frame("PairConfirm", link[c].basis))]
          /\ link' = [link EXCEPT ![c].st = "sent", ![c].tapped = TRUE,
                                  ![c].seen = core[p].shown]
          /\ core' = [core EXCEPT ![p].pending = 0]
       \/ /\ c # 0 /\ task[c].st = "gone"
          /\ link' = [link EXCEPT ![c].st = "closed"]
          /\ core' = [core EXCEPT ![p] = Show([@ EXCEPT !.pending = 0], "failed", 0)]
          /\ UNCHANGED toPc
       \/ /\ c = 0
          /\ core' = [core EXCEPT ![p] = Show(@, "failed", 0)]
          /\ UNCHANGED <<link, toPc>>
    /\ UNCHANGED <<now, toPhone, faults>> /\ UNCHANGED pcOwn

(* ... then drops the connection, stores the PC's record and makes the     *)
(* addresses of the QR hints.                                              *)
ConfirmStore(c) ==
  LET p == link[c].owner IN
    /\ link[c].st = "sent"
    /\ link' = [link EXCEPT ![c].st = "closed"]
    /\ core' = [core EXCEPT ![p] =
                   Show([@ EXCEPT !.paired = TRUE, !.hosts = 0,
                                  !.hints = core[p].hints \cup ({core[p].hosts} \ {0})],
                        "paired", 0)]
    /\ UNCHANGED <<now, toPc, toPhone, faults>> /\ UNCHANGED pcOwn

(* A call of start_pairing, or of confirm_sas, that has not returned.      *)
UnderWay(p) ==
  \E c \in Conns : /\ link[c].owner = p
                   /\ \/ link[c].st \in {"dialing", "begun", "sent"}
                      \/ link[c].basis # NoBasis /\ ~link[c].told

Leave(p, co) == Show([co EXCEPT !.left = @ \/ UnderWay(p)], "idle", 0)

CancelPairing_LeaksLink(p) ==  \* mutant: the pending connection is not dropped
  /\ core' = [core EXCEPT ![p] = Leave(p, [@ EXCEPT !.pending = 0, !.hosts = 0])]
  /\ UNCHANGED <<now, link, toPc, toPhone, faults>> /\ UNCHANGED pcOwn

(* "They don't match", Cancel, or "Try again": a call of start_pairing     *)
(* under way is not stopped.                                               *)
CancelPairing(p) ==
  /\ core' = [core EXCEPT ![p] = Leave(p, [@ EXCEPT !.pending = 0, !.hosts = 0])]
  /\ link' = [c \in Conns |-> IF c = core[p].pending THEN [link[c] EXCEPT !.st = "closed"]
                              ELSE link[c]]
  /\ UNCHANGED <<now, toPc, toPhone, faults>> /\ UNCHANGED pcOwn

ForgetPeer(p) ==
  /\ core[p].paired
  /\ core' = [core EXCEPT ![p] = Leave(p, [@ EXCEPT !.paired = FALSE])]
  /\ UNCHANGED <<now, link, toPc, toPhone, faults>> /\ UNCHANGED pcOwn

(* iOS stops the app: only its keystore survives. *)
AppStops(p) ==
  /\ core' = [core EXCEPT ![p] =
                 Show([@ EXCEPT !.pending = 0, !.hosts = 0, !.hints = {}], "idle", 0)]
  /\ link' = [c \in Conns |-> IF link[c].owner = p
                              THEN [link[c] EXCEPT !.st = "closed", !.told = TRUE]
                              ELSE link[c]]
  /\ UNCHANGED <<now, toPc, toPhone, faults>> /\ UNCHANGED pcOwn

-----------------------------------------------------------------------------
(* The PC's task: run_pairing. *)

Awaiting == {"AwaitingReq", "AwaitingConfirm"}

Reads(c, st, ty) ==
  /\ task[c].st = st
  /\ toPc[c] # <<>> /\ Head(toPc[c]).ty = ty
  /\ toPc' = [toPc EXCEPT ![c] = Tail(@)]

pcRest == <<now, opened, offer, tmp, stored, peers, faults>>

TokenValid_AnyToken(w) == now - offer.issued <= TTL  \* mutant

(* token_valid, of the offer as it is when PAIR_REQ arrives. *)
TokenValid(w) == w = offer.token /\ now - offer.issued <= TTL

PairReqAccepted(c, ok) ==
  LET b == [Head(toPc[c]).b EXCEPT !.ephR = c, !.token = offer.token] IN
    /\ Reads(c, "AwaitingReq", "PairReq")
    /\ offer # NoOffer /\ TokenValid(Head(toPc[c]).b.token)
    /\ ok \/ link[c].st = "closed"
    /\ IF ok
       THEN /\ toPhone' = [toPhone EXCEPT ![c] = Append(@, Frame("PairAck", b))]
            /\ task' = [task EXCEPT ![c].st = "AwaitingConfirm", ![c].basis = b]
            /\ events' = events \cup {Event("PairingSas", c)}
       ELSE /\ task' = [task EXCEPT ![c].st = "gone"]
            /\ UNCHANGED <<toPhone, events>>
    /\ UNCHANGED phoneOwn /\ UNCHANGED pcRest

TaskFails(c) ==
  /\ task' = [task EXCEPT ![c].st = "gone"]
  /\ events' = events \cup {Event("PairingFailed", c)}
  /\ UNCHANGED toPhone /\ UNCHANGED phoneOwn /\ UNCHANGED pcRest

TaskEnds(c) ==
  /\ task' = [task EXCEPT ![c].st = "gone"]
  /\ UNCHANGED <<toPhone, events>> /\ UNCHANGED phoneOwn /\ UNCHANGED pcRest

PairReqRefused(c) ==
  /\ Reads(c, "AwaitingReq", "PairReq")
  /\ offer # NoOffer /\ ~TokenValid(Head(toPc[c]).b.token)
  /\ TaskFails(c)

PairReqNoWindow(c) ==
  /\ Reads(c, "AwaitingReq", "PairReq") \/ Reads(c, "AwaitingReq", "Malformed")
  /\ offer = NoOffer
  /\ TaskEnds(c)

PcMalformed(c) ==
  /\ \/ Reads(c, "AwaitingReq", "Malformed") /\ offer # NoOffer
     \/ Reads(c, "AwaitingConfirm", "Malformed")
  /\ TaskFails(c)

PcEnd(c) ==
  /\ task[c].st \in Awaiting
  /\ \/ \E st \in Awaiting : Reads(c, st, "Undecodable")
     \/ toPc[c] = <<>> /\ link[c].st = "closed" /\ UNCHANGED toPc
  /\ TaskEnds(c)

PcConfirm_NoMac(c) ==  \* mutant: the MAC is not verified
  /\ Reads(c, "AwaitingConfirm", "PairConfirm")
  /\ task' = [task EXCEPT ![c].st = "Completed", ![c].done = TRUE]
  /\ UNCHANGED <<toPhone, events>> /\ UNCHANGED phoneOwn /\ UNCHANGED pcRest

PcConfirm_WindowOpen(c) ==  \* mutant: confirmation is refused once the window closed
  /\ Reads(c, "AwaitingConfirm", "PairConfirm")
  /\ Head(toPc[c]).b = task[c].basis /\ offer.token = task[c].basis.token
  /\ task' = [task EXCEPT ![c].st = "Completed", ![c].done = TRUE]
  /\ UNCHANGED <<toPhone, events>> /\ UNCHANGED phoneOwn /\ UNCHANGED pcRest

(* on_confirm: the MAC is over the phone's basis, under the key the PC     *)
(* shares with the phone of its own basis.  The offer plays no part.       *)
PcConfirm(c) ==
  /\ Reads(c, "AwaitingConfirm", "PairConfirm")
  /\ Head(toPc[c]).b = task[c].basis
  /\ task' = [task EXCEPT ![c].st = "Completed", ![c].done = TRUE]
  /\ UNCHANGED <<toPhone, events>> /\ UNCHANGED phoneOwn /\ UNCHANGED pcRest

PcMismatch(c) ==
  /\ Reads(c, "AwaitingConfirm", "PairConfirm")
  /\ Head(toPc[c]).b # task[c].basis
  /\ TaskFails(c)

(* Keystore::upsert_pairing, unsynchronised: read the file, write the new  *)
(* list beside it, rename.  A file that cannot be read counts as empty.    *)
(* The rename fails when another task's rename has taken the temporary     *)
(* file away.                                                              *)
PcLoad(c) ==
  /\ task[c].st = "Completed"
  /\ task' = [task EXCEPT ![c].st = "loaded", ![c].all = stored \cup {task[c].basis.phone}]
  /\ UNCHANGED <<toPc, toPhone, events>> /\ UNCHANGED phoneOwn /\ UNCHANGED pcRest

PcLoadFails(c) ==
  /\ task[c].st = "Completed" /\ faults < MaxFaults /\ Budget
  /\ faults' = faults + 1
  /\ task' = [task EXCEPT ![c].st = "loaded", ![c].all = {task[c].basis.phone}]
  /\ UNCHANGED <<now, opened, offer, toPc, toPhone, tmp, stored, peers, events>>
  /\ UNCHANGED phoneOwn

PcWrite(c) ==
  /\ task[c].st = "loaded"
  /\ task' = [task EXCEPT ![c].st = "written"]
  /\ tmp' = [named |-> TRUE, all |-> task[c].all]
  /\ UNCHANGED <<now, opened, offer, toPc, toPhone, stored, peers, events, faults>>
  /\ UNCHANGED phoneOwn

PcRename(c) ==
  /\ task[c].st = "written"
  /\ IF tmp.named
     THEN stored' = tmp.all /\ task' = [task EXCEPT ![c].st = "saved"]
     ELSE task' = [task EXCEPT ![c].st = "gone"] /\ UNCHANGED stored
  /\ tmp' = NoFile
  /\ UNCHANGED <<now, opened, offer, toPc, toPhone, peers, events, faults>>
  /\ UNCHANGED phoneOwn

(* Sealing or writing fails; the error ends the task unannounced. *)
PcSaveFails(c) ==
  /\ task[c].st = "loaded" /\ faults < MaxFaults /\ Budget
  /\ faults' = faults + 1
  /\ task' = [task EXCEPT ![c].st = "gone"]
  /\ UNCHANGED <<now, opened, offer, toPc, toPhone, tmp, stored, peers, events>>
  /\ UNCHANGED phoneOwn

(* The rest of Completed: publish the list, close whichever window is      *)
(* open, announce.                                                         *)
PcComplete(c) ==
  /\ task[c].st = "saved"
  /\ peers' = task[c].all
  /\ offer' = NoOffer
  /\ events' = events \cup {Event("Paired", c)}
  /\ task' = [task EXCEPT ![c].st = "gone"]
  /\ UNCHANGED <<now, opened, toPc, toPhone, tmp, stored, faults>> /\ UNCHANGED phoneOwn

(* The agent stops in the middle of whatever it does and is started again: *)
(* what is left are the keystore's files, and a pairings file that cannot  *)
(* be read counts as empty here too.                                       *)
AgentRestarts ==
  /\ faults < MaxFaults /\ Budget
  /\ faults' = faults + 1
  /\ task' = [c \in Conns |-> IF task[c].st = "none" THEN task[c]
                              ELSE [task[c] EXCEPT !.st = "gone"]]
  /\ offer' = NoOffer
  /\ peers' \in {stored, {}}
  /\ UNCHANGED <<now, opened, toPc, toPhone, tmp, stored, events>> /\ UNCHANGED phoneOwn

-----------------------------------------------------------------------------
(* The next frame on one side of c is altered: beyond recognition, or in   *)
(* one of the fields that matter to its reader.  An altered MAC is a MAC   *)
(* of nothing.                                                             *)
Fields(ty) ==
  IF ty = "PairReq" THEN {"token", "ephI"} ELSE IF ty = "PairAck" THEN {"ephR"} ELSE {"token"}

Altered(f) ==
  {Frame(ty, NoBasis) : ty \in {"Malformed", "Undecodable"}}
    \cup {[f EXCEPT !.b[k] = 0] : k \in Fields(f.ty)}

Alter(c) ==
  /\ faults < MaxFaults /\ Budget
  /\ faults' = faults + 1
  /\ \/ /\ toPc[c] # <<>>
        /\ \E f \in Altered(Head(toPc[c])) : toPc' = [toPc EXCEPT ![c][1] = f]
        /\ UNCHANGED toPhone
     \/ /\ toPhone[c] # <<>>
        /\ \E f \in Altered(Head(toPhone[c])) : toPhone' = [toPhone EXCEPT ![c][1] = f]
        /\ UNCHANGED toPc
  /\ UNCHANGED now /\ UNCHANGED pcOwn /\ UNCHANGED phoneOwn

PhoneNext ==
  \/ \E p \in Phones :
       \/ \E c \in Conns, w \in 1..opened : StartPairing(p, c, w)
       \/ ConfirmSend(p) \/ CancelPairing(p) \/ ForgetPeer(p) \/ AppStops(p)
  \/ \E c \in Conns : Dial(c) \/ PhoneAck(c) \/ PhoneShow(c) \/ StartFails(c) \/ ConfirmStore(c)

PcNext(c) ==
  \/ \E ok \in BOOLEAN : PairReqAccepted(c, ok)
  \/ PairReqRefused(c) \/ PairReqNoWindow(c) \/ PcMalformed(c) \/ PcEnd(c)
  \/ PcConfirm(c) \/ PcMismatch(c) \/ PcLoad(c) \/ PcWrite(c) \/ PcRename(c) \/ PcComplete(c)

Next ==
  \/ OpenPairing \/ Tick \/ PhoneNext \/ AgentRestarts
  \/ \E c \in Conns : PcNext(c) \/ PcLoadFails(c) \/ PcSaveFails(c) \/ Alter(c)

Spec == Init /\ [][Next]_vars

(* The runtime polls its tasks: while one of them has something to read or *)
(* to do, one of them does it.                                             *)
FairSpec == Spec /\ WF_vars(\E c \in Conns : PcNext(c))

-----------------------------------------------------------------------------
(* Properties. *)

(* The PC accepts a phone on a connection only after that phone's user has *)
(* confirmed the code of that very connection, and both computed it from   *)
(* the same keys and token.                                                *)
ConfirmedByUser ==
  \A c \in Conns :
    task[c].done => /\ link[c].tapped
                    /\ link[c].basis = task[c].basis
                    /\ link[c].owner = task[c].basis.phone

(* Whatever the interleaving of tasks that rewrite the pairings file, it   *)
(* and the agent's list name only phones whose user confirmed.             *)
StoredConfirmed ==
  \A p \in stored \cup peers :
    \E c \in Conns : task[c].done /\ link[c].tapped /\ link[c].owner = p

(* Unless a frame was altered, both screens show the same code (SPEC R1).  *)
CodesAgree ==
  faults = 0 =>
    \A c \in Conns :
      link[c].basis # NoBasis /\ task[c].basis # NoBasis => link[c].basis = task[c].basis

(* CoreHandle::pending is the one exchange that waits for the user: no     *)
(* connection is left waiting that neither confirm nor cancel would reach. *)
PendingIsTheWaitingOne ==
  \A c \in Conns :
    link[c].st = "sas" <=> \E p \in Phones : core[p].pending = c /\ link[c].owner = p

(* What the user confirmed is stored by the PC, even if the window expires *)
(* or closes meanwhile or the app is stopped right after; faults aside,    *)
(* and unless another phone's pairing completes as well (see PairedPersists). *)
ConfirmedGetsStored ==
  \A c \in Conns :
    link[c].tapped ~> \/ link[c].owner \in stored
                      \/ faults > 0
                      \/ \E d \in Conns : task[d].done /\ task[d].basis.phone # link[c].owner

(* server.rs: "Token is single-use". *)
TokenOnce ==
  \A c, d \in Conns :
    /\ Event("Paired", c) \in events /\ Event("Paired", d) \in events
    /\ task[c].basis.token = task[d].basis.token
    => c = d

(* SPEC R1: "on confirm, pairing persists across restarts on both sides".  *)
PairedPersists ==
  \A c \in Conns : Event("Paired", c) \in events => task[c].basis.phone \in stored

(* ffi.rs, of the addresses made hints: "The QR's addresses are known-good *)
(* - we just completed a pairing over them."  True of a phone whose user   *)
(* never left the pairing screen during a call of start_pairing or         *)
(* confirm_sas.                                                            *)
HintsKnownGood ==
  \A p \in Phones : \A w \in core[p].hints :
    core[p].left \/ \E c \in Conns : link[c].owner = p /\ link[c].qr = w /\ link[c].tapped

(* client.rs, of PendingPairing: "so the user's decision cannot be applied *)
(* to a different exchange".  True under the same premise, although the    *)
(* exchange becomes pending before its code is shown.                      *)
ConfirmsWhatIsShown ==
  \A c \in Conns : link[c].tapped => link[c].seen = c \/ core[link[c].owner].left

=============================================================================
