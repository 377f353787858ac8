--------------------------- MODULE PairingProofs ---------------------------
(***************************************************************************)
(* Proofs about Pairing, for any phones and connections, any lifetime of a *)
(* token and any bounds: what the PC stores was confirmed by the phone's   *)
(* user, both screens show the same code, and the user confirms the code   *)
(* on the screen.                                                          *)
(***************************************************************************)
EXTENDS Pairing, TLAPS

(* The frames in a stream. *)
In(s) == {s[i] : i \in 1..Len(s)}

(* One connection: the phone's side l, the PC's task t and the sets s and  *)
(* r of frames on the way to the PC and to the phone.                      *)

(* The phone's side.  It has a basis from PAIR_ACK on, made of its own     *)
(* key, its identity and the token it scanned; the user taps once.         *)
LinkOk(c, l) ==
  /\ l.st = "new" => l.owner = "none"
  /\ l.st # "new" => l.owner \in Phones /\ l.qr # 0
  /\ l.st \in {"new", "dialing", "begun"} => l.basis = NoBasis /\ ~l.told
  /\ l.st \in {"sas", "sent"} => l.basis # NoBasis
  /\ l.st = "sent" => l.tapped
  /\ l.tapped => l.st \in {"sent", "closed"} /\ l.basis # NoBasis
  /\ l.basis # NoBasis => /\ l.basis.phone = l.owner /\ l.basis.ephI = c
                          /\ l.basis.token = l.qr

(* Frames: PAIR_REQ names the phone; PAIR_CONFIRM is over the phone's own  *)
(* basis, or damaged, and sent only once the user has tapped.              *)
FramesOk(l, s) ==
  \A f \in s :
    /\ f.ty = "PairReq" => f.b.phone = l.owner
    /\ f.ty = "PairConfirm" => l.tapped /\ (f.b = l.basis \/ f.b.token = 0)

Completing == {"Completed", "loaded", "written", "saved"}

(* The task.  While it waits for PAIR_CONFIRM its basis has a token and    *)
(* the phone that sent PAIR_REQ.                                           *)
TaskOk(l, t, s, r) ==
  /\ l.st \in {"new", "dialing"} => t.st = "none"
  /\ t.st = "none" => /\ s = {} /\ r = {} /\ ~t.done
                      /\ t.basis = NoBasis /\ l.basis = NoBasis
  /\ t.st = "AwaitingConfirm" => t.basis.phone = l.owner /\ t.basis.token # 0
  /\ t.st \in Completing => t.done
  /\ t.done => t.st \in Completing \cup {"gone"}
  /\ t.done => l.tapped /\ l.basis = t.basis /\ l.owner = t.basis.phone

ConnOk(c, l, t, s, r) == LinkOk(c, l) /\ FramesOk(l, s) /\ TaskOk(l, t, s, r)

(* As long as nothing was altered, every basis is the one of the QR that   *)
(* the phone scanned and the keys of this connection.                      *)
ConnAgrees(c, l, t, s, r) ==
  /\ \A f \in s : f.ty = "PairReq" => f.b = Basis(c, 0, l.owner, l.qr)
  /\ \A f \in r : f.ty = "PairAck" => f.b.ephR = c
  /\ l.basis \in {NoBasis, Basis(c, c, l.owner, l.qr)}
  /\ t.basis \in {NoBasis, Basis(c, c, l.owner, l.qr)}

(* Both, with n the number of faults so far. *)
Good(c, l, t, s, r, n) ==
  /\ ConnOk(c, l, t, s, r)
  /\ n = 0 => ConnAgrees(c, l, t, s, r)

GoodInv ==
  \A c \in Conns : Good(c, link[c], task[c], In(toPc[c]), In(toPhone[c]), faults)

(* A window that is open has a token. *)
OfferInv == offer # NoOffer => offer.token # 0

(* Every list of phones on the PC, the ones being written included, names  *)
(* only phones whose user confirmed.                                       *)
ConfirmedPhone(p) == \E c \in Conns : task[c].done /\ link[c].tapped /\ link[c].owner = p

SavedInv ==
  /\ \A p \in stored \cup peers \cup tmp.all : ConfirmedPhone(p)
  /\ \A c \in Conns : \A p \in task[c].all : ConfirmedPhone(p)

(* The pending exchange of a phone is its own and waits for the user, and  *)
(* whatever waits is pending.                                              *)
PendingInv ==
  /\ \A p \in Phones :
       core[p].pending # 0 => /\ link[core[p].pending].st = "sas"
                              /\ link[core[p].pending].owner = p
  /\ \A c \in Conns : link[c].st = "sas" => core[link[c].owner].pending = c

(* Of the calls UnderWay counts, those of start_pairing and of confirm_sas. *)
Starting(c) ==
  \/ link[c].st \in {"dialing", "begun"}
  \/ link[c].basis # NoBasis /\ ~link[c].told
Busy(c) == Starting(c) \/ link[c].st = "sent"

(* A phone whose user never left the screen during a call has one call at  *)
(* a time, which the screen shows, and works with the addresses of its QR. *)
ScreenOk(p) ==
  /\ \A c, d \in Conns :
       link[c].owner = p /\ link[d].owner = p /\ Busy(c) /\ Busy(d) => c = d
  /\ \A c \in Conns :
       link[c].owner = p =>
         /\ Starting(c) => core[p].phase = "connecting"
         /\ (Starting(c) /\ link[c].basis # NoBasis) => core[p].pending = c
         /\ link[c].st = "sent" => core[p].phase \in {"confirming", "failed"} /\ core[p].pending = 0
         /\ Busy(c) => core[p].hosts = link[c].qr
  /\ core[p].phase = "confirming" /\ core[p].pending # 0 =>
       core[p].pending = core[p].shown /\ core[p].hosts = link[core[p].pending].qr

ScreenInv == \A p \in Phones : ~core[p].left => ScreenOk(p)

-----------------------------------------------------------------------------
(* Streams, seen as the frames in them. *)

(* What appending to a stream and reading from it do to its frames. *)
LEMMA StreamFacts ==
  ASSUME NEW S, NEW s \in Seq(S)
  PROVE  /\ In(s) \subseteq S
         /\ \A x \in S : Append(s, x) \in Seq(S) /\ In(Append(s, x)) = In(s) \cup {x}
         /\ s # <<>> => /\ Head(s) \in In(s) /\ Head(s) \in S
                        /\ Tail(s) \in Seq(S) /\ In(Tail(s)) \subseteq In(s)
                        /\ s[1] = Head(s)
<1>1. In(s) \subseteq S
  BY DEF In
<1>2. ASSUME NEW x \in S
      PROVE  Append(s, x) \in Seq(S) /\ In(Append(s, x)) = In(s) \cup {x}
  <2>1. Append(s, x) \in Seq(S) /\ Len(Append(s, x)) = Len(s) + 1
    OBVIOUS
  <2>2. \A i \in 1..Len(s) : Append(s, x)[i] = s[i]
    OBVIOUS
  <2>3. Append(s, x)[Len(s) + 1] = x
    OBVIOUS
  <2>4. In(Append(s, x)) \subseteq In(s) \cup {x}
    BY <2>1, <2>2, <2>3 DEF In
  <2>5. In(s) \subseteq In(Append(s, x))
    BY <2>1, <2>2 DEF In
  <2>6. x \in In(Append(s, x))
    BY <2>1, <2>3 DEF In
  <2> QED
    BY <2>1, <2>4, <2>5, <2>6
<1>3. ASSUME s # <<>>
      PROVE  /\ Head(s) \in In(s) /\ Head(s) \in S
             /\ Tail(s) \in Seq(S) /\ In(Tail(s)) \subseteq In(s)
             /\ s[1] = Head(s)
  <2>1. Len(s) \in Nat /\ Len(s) >= 1 /\ Head(s) = s[1]
    BY <1>3
  <2>2. Head(s) \in In(s)
    BY <2>1 DEF In
  <2>3. /\ Tail(s) \in Seq(S) /\ Len(Tail(s)) = Len(s) - 1
        /\ \A i \in 1..Len(Tail(s)) : Tail(s)[i] = s[i + 1]
    BY <1>3
  <2>4. In(Tail(s)) \subseteq In(s)
    BY <2>1, <2>3 DEF In
  <2> QED
    BY <1>1, <2>1, <2>2, <2>3, <2>4
<1> QED
  BY <1>1, <1>2, <1>3

(* Replacing the first frame of a stream. *)
LEMMA ChangedHead ==
  ASSUME NEW S, NEW s \in Seq(S), s # <<>>, NEW x \in S
  PROVE  /\ [s EXCEPT ![1] = x] \in Seq(S)
         /\ In([s EXCEPT ![1] = x]) \subseteq In(s) \cup {x}
<1>1. [s EXCEPT ![1] = x] \in Seq(S) /\ Len([s EXCEPT ![1] = x]) = Len(s)
  OBVIOUS
<1>2. \A i \in 1..Len(s) : [s EXCEPT ![1] = x][i] \in {s[i], x}
  OBVIOUS
<1> QED
  BY <1>1, <1>2 DEF In

(* The empty stream and a stream of one frame. *)
LEMMA SmallStreams ==
  /\ In(<<>>) = {}
  /\ \A x : In(<<x>>) = {x}
BY DEF In

(* An altered frame has become unreadable, or keeps its type and phone;    *)
(* the MAC of an altered PAIR_CONFIRM has no token.                        *)
LEMMA AlteredFrames ==
  ASSUME NEW f \in Frames, NEW g \in Altered(f)
  PROVE  /\ g \in Frames
         /\ \/ g.ty \in {"Malformed", "Undecodable"}
            \/ /\ g.ty = f.ty /\ g.b.phone = f.b.phone
               /\ g.ty = "PairConfirm" => g.b.token = 0
<1>1. f.b \in Bases /\ NoBasis \in Bases
  BY DEF Frames, Bases, NoBasis
<1>2. CASE g \in {Frame(ty, NoBasis) : ty \in {"Malformed", "Undecodable"}}
  BY <1>1, <1>2 DEF Frame, Frames
<1>3. CASE g = [f EXCEPT !.b["token"] = 0]
  BY <1>1, <1>3 DEF Frames, Bases
<1>4. CASE g = [f EXCEPT !.b["ephI"] = 0] /\ f.ty = "PairReq"
  BY <1>1, <1>4 DEF Frames, Bases
<1>5. CASE g = [f EXCEPT !.b["ephR"] = 0] /\ f.ty = "PairAck"
  BY <1>1, <1>5 DEF Frames, Bases
<1> QED
  BY <1>2, <1>3, <1>4, <1>5 DEF Altered, Fields

-----------------------------------------------------------------------------
(* What each step does to one connection. *)

(* Frames that are read and lost leave everything true. *)
LEMMA FewerFrames ==
  ASSUME NEW c, NEW l, NEW t, NEW s, NEW r, NEW s2 \in SUBSET s, NEW r2 \in SUBSET r,
         NEW n, NEW n2, n2 = 0 => n = 0, Good(c, l, t, s, r, n)
  PROVE  Good(c, l, t, s2, r2, n2)
BY DEF Good, ConnOk, FramesOk, TaskOk, ConnAgrees

(* start_pairing begins. *)
LEMMA StartConn ==
  ASSUME NEW c, NEW l \in Links, NEW t \in Tasks, NEW s, NEW r, NEW n,
         NEW p \in Phones, NEW w, w # 0, l.st = "new", Good(c, l, t, s, r, n)
  PROVE  Good(c, [l EXCEPT !.st = "dialing", !.owner = p, !.qr = w], t, s, r, n)
<1> DEFINE l2 == [l EXCEPT !.st = "dialing", !.owner = p, !.qr = w]
<1>1. /\ l2.st = "dialing" /\ l2.owner = p /\ l2.qr = w /\ l2.basis = l.basis
      /\ l2.told = l.told /\ l2.tapped = l.tapped
  BY DEF Links
<1>2. /\ t.st = "none" /\ s = {} /\ r = {} /\ ~t.done /\ t.basis = NoBasis
      /\ l.basis = NoBasis /\ ~l.told /\ ~l.tapped
  BY DEF Good, ConnOk, LinkOk, TaskOk
<1> HIDE DEF l2
<1> SUFFICES Good(c, l2, t, s, r, n)
  BY DEF l2
<1> QED
  BY <1>1, <1>2 DEF Good, ConnOk, LinkOk, FramesOk, TaskOk, ConnAgrees, Completing

(* begin_pairing has a connection and sends PAIR_REQ. *)
LEMMA DialConn ==
  ASSUME NEW c, NEW l \in Links, NEW t \in Tasks, NEW s, NEW r, NEW n,
         l.st = "dialing", Good(c, l, t, s, r, n)
  PROVE  Good(c, [l EXCEPT !.st = "begun"], [t EXCEPT !.st = "AwaitingReq"],
              {Frame("PairReq", Basis(c, 0, l.owner, l.qr))}, r, n)
<1> DEFINE l2 == [l EXCEPT !.st = "begun"]
           t2 == [t EXCEPT !.st = "AwaitingReq"]
           f == Frame("PairReq", Basis(c, 0, l.owner, l.qr))
<1>1. /\ l2.st = "begun" /\ l2.owner = l.owner /\ l2.qr = l.qr /\ l2.basis = l.basis
      /\ l2.told = l.told /\ l2.tapped = l.tapped
  BY DEF Links
<1>2. t2.st = "AwaitingReq" /\ t2.done = t.done /\ t2.basis = t.basis
  BY DEF Tasks
<1>3. f.ty = "PairReq" /\ f.b = Basis(c, 0, l.owner, l.qr) /\ f.b.phone = l.owner
  BY DEF Frame, Basis
<1>4. t.st = "none" /\ r = {} /\ ~t.done /\ t.basis = NoBasis
  BY DEF Good, ConnOk, TaskOk
<1> HIDE DEF l2, t2, f
<1> SUFFICES Good(c, l2, t2, {f}, r, n)
  BY DEF l2, t2, f
<1> QED
  BY <1>1, <1>2, <1>3, <1>4 DEF Good, ConnOk, LinkOk, FramesOk, TaskOk, ConnAgrees, Completing

(* begin_pairing reads PAIR_ACK and computes the code. *)
LEMMA AckConn ==
  ASSUME NEW c \in Conns, NEW l \in Links, NEW t \in Tasks, NEW s, NEW r \in SUBSET Frames,
         NEW n, NEW f \in r, f.ty = "PairAck", l.st = "begun", Good(c, l, t, s, r, n)
  PROVE  Good(c, [l EXCEPT !.st = "sas", !.basis = Basis(c, f.b.ephR, l.owner, l.qr)],
              t, s, r, n)
<1> DEFINE b == Basis(c, f.b.ephR, l.owner, l.qr)
           l2 == [l EXCEPT !.st = "sas", !.basis = b]
<1>1. b # NoBasis /\ b.phone = l.owner /\ b.ephI = c /\ b.token = l.qr
  BY PairingAssumption DEF Basis, NoBasis
<1>2. n = 0 => b = Basis(c, c, l.owner, l.qr)
  BY DEF Good, ConnAgrees
<1> HIDE DEF b
<1>3. /\ l2.st = "sas" /\ l2.owner = l.owner /\ l2.qr = l.qr /\ l2.basis = b
      /\ l2.told = l.told /\ l2.tapped = l.tapped
  BY DEF Links
<1>4. ~l.tapped /\ ~t.done
  BY DEF Good, ConnOk, LinkOk, TaskOk
<1> HIDE DEF l2
<1> SUFFICES Good(c, l2, t, s, r, n)
  BY DEF l2, b
<1>5. LinkOk(c, l2)
  BY <1>1, <1>3, <1>4 DEF Good, ConnOk, LinkOk
<1>6. FramesOk(l2, s) /\ TaskOk(l2, t, s, r)
  BY <1>3, <1>4, r # {} DEF Good, ConnOk, FramesOk, TaskOk
<1>7. n = 0 => ConnAgrees(c, l2, t, s, r)
  BY <1>2, <1>3 DEF Good, ConnAgrees
<1> QED
  BY <1>5, <1>6, <1>7 DEF Good, ConnOk

(* The phone's side closes, whatever the reason. *)
LEMMA CloseConn ==
  ASSUME NEW c, NEW l \in Links, NEW t \in Tasks, NEW s, NEW r, NEW n, NEW told \in BOOLEAN,
         l.st # "new", Good(c, l, t, s, r, n)
  PROVE  Good(c, [l EXCEPT !.st = "closed", !.told = told], t, s, r, n)
<1> DEFINE l2 == [l EXCEPT !.st = "closed", !.told = told]
<1>1. /\ l2.st = "closed" /\ l2.owner = l.owner /\ l2.qr = l.qr /\ l2.basis = l.basis
      /\ l2.tapped = l.tapped
  BY DEF Links
<1> HIDE DEF l2
<1> SUFFICES Good(c, l2, t, s, r, n)
  BY DEF l2
<1>2. LinkOk(c, l2)
  BY <1>1 DEF Good, ConnOk, LinkOk
<1>3. FramesOk(l2, s) /\ TaskOk(l2, t, s, r)
  BY <1>1 DEF Good, ConnOk, FramesOk, TaskOk
<1>4. n = 0 => ConnAgrees(c, l2, t, s, r)
  BY <1>1 DEF Good, ConnAgrees
<1> QED
  BY <1>2, <1>3, <1>4 DEF Good, ConnOk

(* The app is told to show the code. *)
LEMMA ShowConn ==
  ASSUME NEW c, NEW l \in Links, NEW t \in Tasks, NEW s, NEW r, NEW n,
         l.basis # NoBasis, Good(c, l, t, s, r, n)
  PROVE  Good(c, [l EXCEPT !.told = TRUE], t, s, r, n)
<1> DEFINE l2 == [l EXCEPT !.told = TRUE]
<1>1. /\ l2.st = l.st /\ l2.owner = l.owner /\ l2.qr = l.qr /\ l2.basis = l.basis
      /\ l2.tapped = l.tapped
  BY DEF Links
<1> HIDE DEF l2
<1> SUFFICES Good(c, l2, t, s, r, n)
  BY DEF l2
<1>2. LinkOk(c, l2)
  BY <1>1 DEF Good, ConnOk, LinkOk
<1>3. FramesOk(l2, s) /\ TaskOk(l2, t, s, r)
  BY <1>1 DEF Good, ConnOk, FramesOk, TaskOk
<1>4. n = 0 => ConnAgrees(c, l2, t, s, r)
  BY <1>1 DEF Good, ConnAgrees
<1> QED
  BY <1>2, <1>3, <1>4 DEF Good, ConnOk

(* confirm_sas sends PAIR_CONFIRM over the basis of the pending exchange. *)
LEMMA ConfirmConn ==
  ASSUME NEW c, NEW l \in Links, NEW t \in Tasks, NEW s, NEW r, NEW n, NEW seen,
         l.st = "sas", Good(c, l, t, s, r, n)
  PROVE  Good(c, [l EXCEPT !.st = "sent", !.tapped = TRUE, !.seen = seen],
              t, s \cup {Frame("PairConfirm", l.basis)}, r, n)
<1> DEFINE l2 == [l EXCEPT !.st = "sent", !.tapped = TRUE, !.seen = seen]
           f == Frame("PairConfirm", l.basis)
<1>1. /\ l2.st = "sent" /\ l2.owner = l.owner /\ l2.qr = l.qr /\ l2.basis = l.basis
      /\ l2.told = l.told /\ l2.tapped
  BY DEF Links
<1>2. f.ty = "PairConfirm" /\ f.b = l.basis
  BY DEF Frame
<1>3. ~l.tapped /\ l.basis # NoBasis
  BY DEF Good, ConnOk, LinkOk
<1> HIDE DEF l2, f
<1> SUFFICES Good(c, l2, t, s \cup {f}, r, n)
  BY DEF l2, f
<1>4. LinkOk(c, l2)
  BY <1>1, <1>3 DEF Good, ConnOk, LinkOk
<1>5. FramesOk(l2, s \cup {f})
  BY <1>1, <1>2, <1>3 DEF Good, ConnOk, FramesOk
<1>6. TaskOk(l2, t, s \cup {f}, r)
  BY <1>1, <1>3 DEF Good, ConnOk, TaskOk
<1>7. n = 0 => ConnAgrees(c, l2, t, s \cup {f}, r)
  BY <1>1, <1>2 DEF Good, ConnAgrees
<1> QED
  BY <1>4, <1>5, <1>6, <1>7 DEF Good, ConnOk

(* A basis is its four fields. *)
LEMMA BasisFields ==
  ASSUME NEW a \in Bases, NEW b \in Bases,
         a.ephI = b.ephI, a.ephR = b.ephR, a.phone = b.phone, a.token = b.token
  PROVE  a = b
BY DEF Bases

(* on_pair_req accepts: the task's basis is what PAIR_REQ named, its own   *)
(* key and the offer's token, and PAIR_ACK carries its key.                *)
LEMMA AcceptConn ==
  ASSUME NEW c \in Conns, NEW l \in Links, NEW t \in Tasks, NEW s \in SUBSET Frames,
         NEW r, NEW n, NEW f \in s, NEW w \in Windows, f.ty = "PairReq", f.b.token = w,
         t.st = "AwaitingReq", Good(c, l, t, s, r, n)
  PROVE  Good(c, l, [t EXCEPT !.st = "AwaitingConfirm",
                              !.basis = [f.b EXCEPT !.ephR = c, !.token = w]],
              s, r \cup {Frame("PairAck", [f.b EXCEPT !.ephR = c, !.token = w])}, n)
<1> DEFINE b == [f.b EXCEPT !.ephR = c, !.token = w]
           t2 == [t EXCEPT !.st = "AwaitingConfirm", !.basis = b]
           g == Frame("PairAck", b)
<1>1. f.b \in Bases
  BY DEF Frames
<1>2. b.phone = f.b.phone /\ b.token = w /\ b.ephR = c
  BY <1>1 DEF Bases
<1>3. n = 0 => b = Basis(c, c, l.owner, l.qr)
  <2> SUFFICES ASSUME n = 0 PROVE b = Basis(c, c, l.owner, l.qr)
    OBVIOUS
  <2>1. f.b = Basis(c, 0, l.owner, l.qr)
    BY DEF Good, ConnAgrees
  <2>2. f.b.ephI = c /\ f.b.phone = l.owner /\ l.qr = w
    BY <2>1 DEF Basis
  <2>3. b \in Bases /\ b.ephI = c
    BY <1>1, <2>2 DEF Bases
  <2>4. /\ Basis(c, c, l.owner, l.qr) \in Bases
        /\ Basis(c, c, l.owner, l.qr).ephI = c /\ Basis(c, c, l.owner, l.qr).ephR = c
        /\ Basis(c, c, l.owner, l.qr).phone = l.owner
        /\ Basis(c, c, l.owner, l.qr).token = l.qr
    BY DEF Basis, Bases, Links
  <2> HIDE DEF b
  <2> QED
    BY <1>2, <2>2, <2>3, <2>4, BasisFields
<1>4. g.ty = "PairAck" /\ g.b = b
  BY DEF Frame
<1> HIDE DEF b, g
<1>5. t2.st = "AwaitingConfirm" /\ t2.basis = b /\ t2.done = t.done
  BY DEF Tasks
<1> HIDE DEF t2
<1> SUFFICES Good(c, l, t2, s, r \cup {g}, n)
  BY DEF t2, g, b
<1>6. ~t.done /\ f.b.phone = l.owner /\ l.st \notin {"new", "dialing"}
  BY DEF Good, ConnOk, TaskOk, FramesOk, Completing
<1>7. TaskOk(l, t2, s, r \cup {g})
  BY <1>2, <1>5, <1>6, PairingAssumption DEF Windows, Good, ConnOk, TaskOk, Completing
<1>8. n = 0 => ConnAgrees(c, l, t2, s, r \cup {g})
  BY <1>2, <1>3, <1>4, <1>5 DEF Good, ConnAgrees
<1> QED
  BY <1>7, <1>8 DEF Good, ConnOk

(* on_confirm accepts: the PAIR_CONFIRM is over the task's own basis, so   *)
(* it is the phone's, and the user has tapped.                             *)
LEMMA CompleteConn ==
  ASSUME NEW c, NEW l \in Links, NEW t \in Tasks, NEW s, NEW r, NEW n,
         NEW f \in s, f.ty = "PairConfirm", f.b = t.basis,
         t.st = "AwaitingConfirm", Good(c, l, t, s, r, n)
  PROVE  Good(c, l, [t EXCEPT !.st = "Completed", !.done = TRUE], s, r, n)
<1> DEFINE t2 == [t EXCEPT !.st = "Completed", !.done = TRUE]
<1>1. t2.st = "Completed" /\ t2.basis = t.basis /\ t2.done
  BY DEF Tasks
<1>2. l.tapped /\ l.basis = t.basis /\ l.owner = t.basis.phone
  BY DEF Good, ConnOk, FramesOk, TaskOk
<1>3. l.st \notin {"new", "dialing"}
  BY DEF Good, ConnOk, TaskOk
<1> HIDE DEF t2
<1> SUFFICES Good(c, l, t2, s, r, n)
  BY DEF t2
<1>4. TaskOk(l, t2, s, r)
  BY <1>1, <1>2, <1>3 DEF TaskOk, Completing
<1>5. n = 0 => ConnAgrees(c, l, t2, s, r)
  BY <1>1 DEF Good, ConnAgrees
<1> QED
  BY <1>4, <1>5 DEF Good, ConnOk

(* The task moves on without touching its basis: it ends, or, once         *)
(* Completed, goes through the steps of storing.                           *)
LEMMA MoveConn ==
  ASSUME NEW c, NEW l \in Links, NEW t \in Tasks, NEW s, NEW r, NEW n, NEW st, NEW all,
         t.st # "none",
         \/ st = "gone"
         \/ t.st \in Completing /\ st \in Completing,
         Good(c, l, t, s, r, n)
  PROVE  /\ Good(c, l, [t EXCEPT !.st = st], s, r, n)
         /\ Good(c, l, [t EXCEPT !.st = st, !.all = all], s, r, n)
<1> SUFFICES ASSUME NEW t2, t2.st = st, t2.basis = t.basis, t2.done = t.done
             PROVE  Good(c, l, t2, s, r, n)
  BY DEF Tasks
<1>1. TaskOk(l, t2, s, r)
  BY DEF Good, ConnOk, TaskOk, Completing
<1>2. n = 0 => ConnAgrees(c, l, t2, s, r)
  BY DEF Good, ConnAgrees
<1> QED
  BY <1>1, <1>2 DEF Good, ConnOk

(* In particular, it ends. *)
LEMMA GoneConn ==
  ASSUME NEW c, NEW l \in Links, NEW t \in Tasks, NEW s, NEW r, NEW n, t.st # "none",
         Good(c, l, t, s, r, n)
  PROVE  Good(c, l, [t EXCEPT !.st = "gone"], s, r, n)
<1> DEFINE t2 == [t EXCEPT !.st = "gone"]
<1>1. t2.st = "gone" /\ t2.basis = t.basis /\ t2.done = t.done
  BY DEF Tasks
<1> HIDE DEF t2
<1>2. TaskOk(l, t2, s, r)
  BY <1>1 DEF Good, ConnOk, TaskOk, Completing
<1>3. n = 0 => ConnAgrees(c, l, t2, s, r)
  BY <1>1 DEF Good, ConnAgrees
<1>4. Good(c, l, t2, s, r, n)
  BY <1>2, <1>3 DEF Good, ConnOk
<1> QED
  BY <1>4 DEF t2

(* A frame is altered on its way; the bases need not agree any more. *)
LEMMA AlterConn ==
  ASSUME NEW c, NEW l, NEW t, NEW s \in SUBSET Frames, NEW r \in SUBSET Frames, NEW n, NEW n2,
         n2 # 0, Good(c, l, t, s, r, n)
  PROVE  /\ \A f \in s : \A g \in Altered(f) : Good(c, l, t, s \cup {g}, r, n2)
         /\ \A f \in r : \A g \in Altered(f) : Good(c, l, t, s, r \cup {g}, n2)
<1>1. ASSUME NEW f \in s, NEW g \in Altered(f)
      PROVE  Good(c, l, t, s \cup {g}, r, n2)
  <2>1. f \in Frames
    OBVIOUS
  <2>2. \/ g.ty \in {"Malformed", "Undecodable"}
        \/ /\ g.ty = f.ty /\ g.b.phone = f.b.phone
           /\ g.ty = "PairConfirm" => g.b.token = 0
    BY <2>1, AlteredFrames
  <2>3. FramesOk(l, s \cup {g})
    BY <2>2 DEF Good, ConnOk, FramesOk
  <2>4. TaskOk(l, t, s \cup {g}, r)
    BY DEF Good, ConnOk, TaskOk
  <2> QED
    BY <2>3, <2>4 DEF Good, ConnOk
<1>2. ASSUME NEW f \in r, NEW g \in Altered(f)
      PROVE  Good(c, l, t, s, r \cup {g}, n2)
  BY DEF Good, ConnOk, TaskOk
<1> QED
  BY <1>1, <1>2

-----------------------------------------------------------------------------
(* The state: one connection at a time. *)

SameConn(c) ==
  /\ link'[c] = link[c] /\ task'[c] = task[c]
  /\ toPc'[c] = toPc[c] /\ toPhone'[c] = toPhone[c]

(* A step on one connection keeps GoodInv if it keeps that connection good. *)
LEMMA OneConn ==
  ASSUME GoodInv, NEW c \in Conns, \A d \in Conns \ {c} : SameConn(d),
         faults' = 0 => faults = 0,
         Good(c, link'[c], task'[c], In(toPc'[c]), In(toPhone'[c]), faults')
  PROVE  GoodInv'
<1> SUFFICES ASSUME NEW d \in Conns
             PROVE  Good(d, link'[d], task'[d], In(toPc'[d]), In(toPhone'[d]), faults')
  BY DEF GoodInv
<1>1. CASE d = c
  BY <1>1
<1>2. CASE d # c
  <2>1. Good(d, link[d], task[d], In(toPc[d]), In(toPhone[d]), faults)
    BY DEF GoodInv
  <2> QED
    BY <1>2, <2>1, FewerFrames DEF SameConn
<1> QED
  BY <1>1, <1>2

(* What TypeOK says of one connection. *)
LEMMA ConnTypes ==
  ASSUME TypeOK, NEW c \in Conns
  PROVE  /\ link[c] \in Links /\ task[c] \in Tasks
         /\ toPc[c] \in Seq(Frames) /\ toPhone[c] \in Seq(Frames)
         /\ In(toPc[c]) \in SUBSET Frames /\ In(toPhone[c]) \in SUBSET Frames
         /\ faults \in Nat /\ now \in Nat /\ opened \in Nat /\ c # 0
<1>1. /\ link[c] \in Links /\ task[c] \in Tasks
      /\ toPc[c] \in Seq(Frames) /\ toPhone[c] \in Seq(Frames)
  BY DEF TypeOK
<1>2. In(toPc[c]) \in SUBSET Frames /\ In(toPhone[c]) \in SUBSET Frames
  BY <1>1, StreamFacts
<1>3. faults \in Nat /\ now \in Nat /\ opened \in Nat /\ c # 0
  BY PairingAssumption DEF TypeOK
<1> QED
  BY <1>1, <1>2, <1>3

(* Reading takes the first frame off a stream of the PC. *)
LEMMA ReadsFacts ==
  ASSUME TypeOK, NEW c \in Conns, NEW st, NEW ty, Reads(c, st, ty)
  PROVE  /\ task[c].st = st
         /\ Head(toPc[c]) \in In(toPc[c]) /\ Head(toPc[c]) \in Frames /\ Head(toPc[c]).ty = ty
         /\ toPc' \in [Conns -> Seq(Frames)]
         /\ In(toPc'[c]) \in SUBSET In(toPc[c])
         /\ \A d \in Conns \ {c} : toPc'[d] = toPc[d]
<1>1. toPc[c] \in Seq(Frames) /\ toPc[c] # <<>>
  BY DEF TypeOK, Reads
<1>2. toPc'[c] = Tail(toPc[c]) /\ \A d \in Conns \ {c} : toPc'[d] = toPc[d]
  BY DEF TypeOK, Reads
<1>3. /\ Head(toPc[c]) \in In(toPc[c]) /\ Head(toPc[c]) \in Frames
      /\ Tail(toPc[c]) \in Seq(Frames) /\ In(Tail(toPc[c])) \subseteq In(toPc[c])
  BY <1>1, StreamFacts
<1>4. toPc' \in [Conns -> Seq(Frames)]
  BY <1>3 DEF TypeOK, Reads
<1> QED
  BY <1>2, <1>3, <1>4 DEF Reads

(* The screen of a phone. *)
LEMMA ShowFacts ==
  ASSUME NEW co \in Cores, NEW phase \in Phases, NEW c \in Conns \cup {0},
         (c # 0) = (phase = "confirming")
  PROVE  /\ Show(co, phase, c) \in Cores
         /\ Show(co, phase, c).phase = phase /\ Show(co, phase, c).shown = c
         /\ Show(co, phase, c).pending = co.pending /\ Show(co, phase, c).hosts = co.hosts
         /\ Show(co, phase, c).hints = co.hints /\ Show(co, phase, c).left = co.left
BY DEF Show, Cores

(* A step that changes what one phone holds. *)
LEMMA OneCore ==
  ASSUME TypeOK, NEW p, NEW co \in Cores, (co.shown # 0) = (co.phase = "confirming"),
         core' = [core EXCEPT ![p] = co]
  PROVE  /\ core' \in [Phones -> Cores]
         /\ \A q \in Phones : (core'[q].shown # 0) = (core'[q].phase = "confirming")
         /\ \A q \in Phones : core'[q] = IF q = p THEN co ELSE core[q]
<1>1. core' \in [Phones -> Cores] /\ \A q \in Phones : core'[q] = IF q = p THEN co ELSE core[q]
  BY DEF TypeOK
<1> QED
  BY <1>1 DEF TypeOK

-----------------------------------------------------------------------------
(* The phone's actions keep the types and every connection good. *)

Base == TypeOK /\ GoodInv /\ OfferInv /\ PendingInv

(* start_pairing notes the QR and its exchange is dialing. *)
LEMMA StartPairingBase ==
  ASSUME Base, NEW p \in Phones, NEW c \in Conns, NEW w \in 1..opened, StartPairing(p, c, w)
  PROVE  TypeOK' /\ GoodInv'
<1> DEFINE l == [link[c] EXCEPT !.st = "dialing", !.owner = p, !.qr = w]
           co == Show([core[p] EXCEPT !.hosts = w], "connecting", 0)
<1>0. TypeOK /\ core[p] \in Cores
  BY DEF Base, TypeOK
<1>1. w \in Windows /\ w # 0
  BY <1>0, PairingAssumption DEF TypeOK, Windows
<1>2. link[c] \in Links /\ link[c].st = "new"
  BY <1>0 DEF TypeOK, StartPairing, Fresh
<1>3. link' = [link EXCEPT ![c] = l] /\ l \in Links
  BY <1>0, <1>1, <1>2 DEF TypeOK, StartPairing, Links
<1>4. [core[p] EXCEPT !.hosts = w] \in Cores
  BY <1>0, <1>1 DEF Cores
<1>5. co \in Cores /\ co.shown = 0 /\ co.phase = "connecting"
  BY <1>4, ShowFacts DEF Phases
<1>6. core' = [core EXCEPT ![p] = co]
  BY <1>0 DEF StartPairing, TypeOK
<1> HIDE DEF co
<1>7. TypeOK'
  <2>1. /\ core' \in [Phones -> Cores]
        /\ \A q \in Phones : (core'[q].shown # 0) = (core'[q].phase = "confirming")
    BY <1>0, <1>5, <1>6, OneCore
  <2>2. link' \in [Conns -> Links]
    BY <1>0, <1>3 DEF TypeOK
  <2> QED
    BY <1>0, <2>1, <2>2 DEF TypeOK, StartPairing, pcOwn
<1>8. Good(c, l, task[c], In(toPc[c]), In(toPhone[c]), faults)
  BY <1>0, <1>1, <1>2, StartConn, ConnTypes DEF Base, GoodInv
<1>9. /\ link'[c] = l /\ task' = task /\ toPc' = toPc /\ toPhone' = toPhone /\ faults' = faults
      /\ \A d \in Conns \ {c} : SameConn(d)
  BY <1>0, <1>3 DEF TypeOK, StartPairing, pcOwn, SameConn
<1> HIDE DEF l
<1>10. GoodInv'
  BY <1>8, <1>9, OneConn DEF Base
<1> QED
  BY <1>7, <1>10

(* The exchange has a connection; its PAIR_REQ is under way. *)
LEMMA DialBase ==
  ASSUME Base, NEW c \in Conns, Dial(c)
  PROVE  TypeOK' /\ GoodInv'
<1> DEFINE l == [link[c] EXCEPT !.st = "begun"]
           t == [task[c] EXCEPT !.st = "AwaitingReq"]
           f == Frame("PairReq", Basis(c, 0, link[c].owner, link[c].qr))
<1>0. TypeOK /\ link[c] \in Links /\ task[c] \in Tasks /\ link[c].st = "dialing"
  BY DEF Base, TypeOK, Dial
<1>1. /\ link' = [link EXCEPT ![c] = l] /\ l \in Links
      /\ task' = [task EXCEPT ![c] = t] /\ t \in Tasks
  BY <1>0 DEF TypeOK, Dial, Links, Tasks
<1>2. f \in Frames
  BY <1>0 DEF Frame, Frames, Basis, Bases, Links
<1>3. Good(c, l, t, {f}, In(toPhone[c]), faults)
  BY <1>0, DialConn DEF Base, GoodInv
<1> HIDE DEF l, t, f
<1>4. toPc' = [toPc EXCEPT ![c] = <<f>>]
  BY DEF Dial, f
<1>5. <<f>> \in Seq(Frames) /\ In(<<f>>) = {f}
  BY <1>2, SmallStreams
<1>6. TypeOK'
  <2>1. link' \in [Conns -> Links] /\ task' \in [Conns -> Tasks]
    BY <1>0, <1>1 DEF TypeOK
  <2>2. toPc' \in [Conns -> Seq(Frames)]
    BY <1>0, <1>4, <1>5 DEF TypeOK
  <2> QED
    BY <1>0, <2>1, <2>2 DEF TypeOK, Dial
<1>7. /\ link'[c] = l /\ task'[c] = t /\ toPc'[c] = <<f>> /\ toPhone' = toPhone /\ faults' = faults
      /\ \A d \in Conns \ {c} : SameConn(d)
  BY <1>0, <1>1, <1>4 DEF TypeOK, Dial, SameConn
<1>8. GoodInv'
  BY <1>3, <1>5, <1>7, OneConn DEF Base
<1> QED
  BY <1>6, <1>8

(* A step that changes phone sides only, and perhaps takes frames off      *)
(* their streams.                                                          *)
LEMMA LinksOnly ==
  ASSUME GoodInv, task' = task, toPc' = toPc, faults' = faults,
         \A d \in Conns : In(toPhone'[d]) \in SUBSET In(toPhone[d]),
         \A d \in Conns :
           Good(d, link[d], task[d], In(toPc[d]), In(toPhone[d]), faults)
             => Good(d, link'[d], task[d], In(toPc[d]), In(toPhone[d]), faults)
  PROVE  GoodInv'
<1> SUFFICES ASSUME NEW d \in Conns
             PROVE  Good(d, link'[d], task'[d], In(toPc'[d]), In(toPhone'[d]), faults')
  BY DEF GoodInv
<1>1. Good(d, link'[d], task[d], In(toPc[d]), In(toPhone[d]), faults)
  BY DEF GoodInv
<1>2. In(toPhone'[d]) \in SUBSET In(toPhone[d]) /\ In(toPc[d]) \in SUBSET In(toPc[d])
  OBVIOUS
<1>3. Good(d, link'[d], task[d], In(toPc[d]), In(toPhone'[d]), faults)
  BY <1>1, <1>2, FewerFrames
<1> QED
  BY <1>3

(* Dropping a connection, as the phone does in several places. *)
LEMMA DropConn ==
  ASSUME TypeOK, NEW d \in Conns, link[d].st # "new"
  PROVE  /\ [link[d] EXCEPT !.st = "closed"] \in Links
         /\ Good(d, link[d], task[d], In(toPc[d]), In(toPhone[d]), faults)
             => Good(d, [link[d] EXCEPT !.st = "closed"], task[d],
                     In(toPc[d]), In(toPhone[d]), faults)
<1>1. link[d] \in Links /\ task[d] \in Tasks
  BY DEF TypeOK
<1>2. [link[d] EXCEPT !.st = "closed"] = [link[d] EXCEPT !.st = "closed", !.told = link[d].told]
      /\ link[d].told \in BOOLEAN
  BY <1>1 DEF Links
<1>3. [link[d] EXCEPT !.st = "closed"] \in Links
  BY <1>1 DEF Links
<1> QED
  BY <1>1, <1>2, <1>3, CloseConn

(* An exchange that has begun has an owner. *)
LEMMA OwnerFacts ==
  ASSUME Base, NEW c \in Conns, link[c].st # "new"
  PROVE  link[c].owner \in Phones /\ core[link[c].owner] \in Cores /\ link[c].qr # 0
BY DEF Base, TypeOK, GoodInv, Good, ConnOk, LinkOk

(* ... and the pending one, if there is one, is an exchange of that phone. *)
LEMMA PendingFacts ==
  ASSUME Base, NEW p \in Phones
  PROVE  /\ core[p] \in Cores
         /\ core[p].pending # 0 => /\ core[p].pending \in Conns
                                   /\ link[core[p].pending].st = "sas"
                                   /\ link[core[p].pending].owner = p
<1>1. core[p] \in Cores
  BY DEF Base, TypeOK
<1>2. core[p].pending \in Conns \cup {0}
  BY <1>1 DEF Cores
<1> QED
  BY <1>1, <1>2 DEF Base, PendingInv

(* PAIR_ACK is read, and the pending exchange replaced. *)
LEMMA PhoneAckBase ==
  ASSUME Base, NEW c \in Conns, PhoneAck(c)
  PROVE  TypeOK' /\ GoodInv'
<1> DEFINE p == link[c].owner
           f == Head(toPhone[c])
           l == [link[c] EXCEPT !.st = "sas", !.basis = Basis(c, f.b.ephR, p, link[c].qr)]
           co == [core[p] EXCEPT !.pending = c]
<1>0. TypeOK /\ link[c] \in Links /\ task[c] \in Tasks /\ link[c].st = "begun"
  BY DEF Base, TypeOK, PhoneAck
<1>1. p \in Phones /\ core[p] \in Cores
  BY <1>0, OwnerFacts
<1>2. toPhone[c] \in Seq(Frames) /\ toPhone[c] # <<>> /\ f.ty = "PairAck"
  BY <1>0 DEF TypeOK, PhoneAck
<1>3. f \in In(toPhone[c]) /\ f \in Frames /\ Tail(toPhone[c]) \in Seq(Frames)
      /\ In(Tail(toPhone[c])) \in SUBSET In(toPhone[c])
  BY <1>2, StreamFacts
<1>4. l \in Links
  BY <1>0, <1>1, <1>3 DEF Frames, Bases, Basis, Links
<1>5. In(toPhone[c]) \in SUBSET Frames
  BY <1>0, ConnTypes
<1>6. Good(c, link[c], task[c], In(toPc[c]), In(toPhone[c]), faults)
        => Good(c, l, task[c], In(toPc[c]), In(toPhone[c]), faults)
  BY <1>0, <1>2, <1>3, <1>5, AckConn
<1>7. toPhone' = [toPhone EXCEPT ![c] = Tail(toPhone[c])]
  BY DEF PhoneAck
<1>8. link' = [d \in Conns |-> IF d = c THEN l
                               ELSE IF d = core[p].pending THEN [link[d] EXCEPT !.st = "closed"]
                               ELSE link[d]]
  BY DEF PhoneAck
<1>9. /\ co \in Cores /\ co.shown = core[p].shown /\ co.phase = core[p].phase
      /\ core' = [core EXCEPT ![p] = co]
  BY <1>0, <1>1 DEF PhoneAck, Cores, TypeOK
<1> HIDE DEF l, f, co
<1>10. core[p].pending # 0 => core[p].pending \in Conns /\ link[core[p].pending].st = "sas"
  BY <1>1, PendingFacts
<1> HIDE DEF p
<1>11. \A d \in Conns : d = core[p].pending => link[d].st # "new"
  BY <1>0, <1>10, ConnTypes
<1>12. TypeOK'
  <2>1. link' \in [Conns -> Links]
    BY <1>0, <1>4, <1>8, <1>11, DropConn DEF TypeOK
  <2>2. toPhone' \in [Conns -> Seq(Frames)]
    BY <1>0, <1>3, <1>7 DEF TypeOK
  <2>3. (co.shown # 0) = (co.phase = "confirming")
    BY <1>0, <1>1, <1>9 DEF TypeOK
  <2>4. /\ core' \in [Phones -> Cores]
        /\ \A q \in Phones : (core'[q].shown # 0) = (core'[q].phase = "confirming")
    BY <1>0, <1>9, <2>3, OneCore
  <2> QED
    BY <1>0, <2>1, <2>2, <2>4 DEF TypeOK, PhoneAck, pcOwn
<1>13. \A d \in Conns : In(toPhone'[d]) \in SUBSET In(toPhone[d])
  BY <1>0, <1>3, <1>7 DEF TypeOK
<1>14. \A d \in Conns :
         Good(d, link[d], task[d], In(toPc[d]), In(toPhone[d]), faults)
           => Good(d, link'[d], task[d], In(toPc[d]), In(toPhone[d]), faults)
  <2> SUFFICES ASSUME NEW d \in Conns
               PROVE  Good(d, link[d], task[d], In(toPc[d]), In(toPhone[d]), faults)
                        => Good(d, link'[d], task[d], In(toPc[d]), In(toPhone[d]), faults)
    OBVIOUS
  <2>1. CASE d = c
    BY <1>6, <1>8, <2>1
  <2>2. CASE d # c /\ d = core[p].pending
    <3>1. link'[d] = [link[d] EXCEPT !.st = "closed"]
      BY <1>8, <2>2
    <3> QED
      BY <1>0, <1>11, <2>2, <3>1, DropConn
  <2>3. CASE d # c /\ d # core[p].pending
    <3>1. link'[d] = link[d]
      BY <1>8, <2>3
    <3> QED
      BY <3>1
  <2> QED
    BY <2>1, <2>2, <2>3
<1>15. task' = task /\ toPc' = toPc /\ faults' = faults
  BY DEF PhoneAck, pcOwn
<1>16. GoodInv'
  BY <1>13, <1>14, <1>15, LinksOnly DEF Base
<1> QED
  BY <1>12, <1>16

(* An action of the phone that changes one exchange and one phone. *)
LEMMA OneLink ==
  ASSUME Base, NEW c \in Conns, NEW l \in Links, link' = [link EXCEPT ![c] = l],
         NEW p \in Phones, NEW co \in Cores, (co.shown # 0) = (co.phase = "confirming"),
         core' = [core EXCEPT ![p] = co],
         Good(c, link[c], task[c], In(toPc[c]), In(toPhone[c]), faults)
           => Good(c, l, task[c], In(toPc[c]), In(toPhone[c]), faults),
         UNCHANGED <<now, toPc, toPhone, faults>>, UNCHANGED pcOwn
  PROVE  TypeOK' /\ GoodInv'
<1>0. TypeOK
  BY DEF Base
<1>1. /\ core' \in [Phones -> Cores]
      /\ \A q \in Phones : (core'[q].shown # 0) = (core'[q].phase = "confirming")
  BY <1>0, OneCore
<1>2. link' \in [Conns -> Links] /\ link'[c] = l /\ \A d \in Conns \ {c} : link'[d] = link[d]
  BY <1>0 DEF TypeOK
<1>3. TypeOK'
  BY <1>0, <1>1, <1>2 DEF TypeOK, pcOwn
<1>4. GoodInv'
  <2>1. \A d \in Conns : In(toPhone'[d]) \in SUBSET In(toPhone[d])
    OBVIOUS
  <2>2. \A d \in Conns :
         Good(d, link[d], task[d], In(toPc[d]), In(toPhone[d]), faults)
           => Good(d, link'[d], task[d], In(toPc[d]), In(toPhone[d]), faults)
    BY <1>2
  <2> QED
    BY <2>1, <2>2, LinksOnly DEF Base, pcOwn
<1> QED
  BY <1>3, <1>4

(* The code is shown. *)
LEMMA PhoneShowBase ==
  ASSUME Base, NEW c \in Conns, PhoneShow(c)
  PROVE  TypeOK' /\ GoodInv'
<1> DEFINE p == link[c].owner
           l == [link[c] EXCEPT !.told = TRUE]
           co == Show(core[p], "confirming", c)
<1>0. TypeOK /\ link[c] \in Links /\ task[c] \in Tasks /\ link[c].basis # NoBasis
  BY DEF Base, TypeOK, PhoneShow
<1>1. link[c].st # "new"
  BY <1>0 DEF Base, GoodInv, Good, ConnOk, LinkOk
<1>2. p \in Phones /\ core[p] \in Cores
  BY <1>1, OwnerFacts
<1>3. l \in Links /\ link' = [link EXCEPT ![c] = l]
  BY <1>0 DEF TypeOK, PhoneShow, Links
<1>4. co \in Cores /\ co.shown = c /\ co.phase = "confirming"
  BY <1>0, <1>2, ShowFacts, ConnTypes DEF Phases
<1>5. core' = [core EXCEPT ![p] = co]
  BY <1>0, <1>2 DEF TypeOK, PhoneShow
<1>6. Good(c, link[c], task[c], In(toPc[c]), In(toPhone[c]), faults)
        => Good(c, l, task[c], In(toPc[c]), In(toPhone[c]), faults)
  BY <1>0, ShowConn
<1>7. c # 0
  BY <1>0, ConnTypes
<1>8. UNCHANGED <<now, toPc, toPhone, faults>> /\ UNCHANGED pcOwn
  BY DEF PhoneShow
<1> HIDE DEF p, l, co
<1> QED
  BY <1>2, <1>3, <1>4, <1>5, <1>6, <1>7, <1>8, OneLink

(* start_pairing fails. *)
LEMMA StartFailsBase ==
  ASSUME Base, NEW c \in Conns, StartFails(c)
  PROVE  TypeOK' /\ GoodInv'
<1> DEFINE p == link[c].owner
           l == [link[c] EXCEPT !.st = "closed"]
           co == Show(core[p], "failed", 0)
<1>0. TypeOK /\ link[c] \in Links /\ link[c].st # "new"
  BY DEF Base, TypeOK, StartFails
<1>1. p \in Phones /\ core[p] \in Cores
  BY <1>0, OwnerFacts
<1>2. l \in Links /\ link' = [link EXCEPT ![c] = l]
  BY <1>0, DropConn DEF TypeOK, StartFails
<1>3. co \in Cores /\ co.shown = 0 /\ co.phase = "failed"
  BY <1>1, ShowFacts DEF Phases
<1>4. core' = [core EXCEPT ![p] = co]
  BY <1>0, <1>1 DEF TypeOK, StartFails
<1>5. Good(c, link[c], task[c], In(toPc[c]), In(toPhone[c]), faults)
        => Good(c, l, task[c], In(toPc[c]), In(toPhone[c]), faults)
  BY <1>0, DropConn
<1>6. UNCHANGED <<now, toPc, toPhone, faults>> /\ UNCHANGED pcOwn
  BY DEF StartFails
<1> HIDE DEF p, l, co
<1> QED
  BY <1>1, <1>2, <1>3, <1>4, <1>5, <1>6, OneLink

(* confirm_sas stores the PC and returns. *)
LEMMA ConfirmStoreBase ==
  ASSUME Base, NEW c \in Conns, ConfirmStore(c)
  PROVE  TypeOK' /\ GoodInv'
<1> DEFINE p == link[c].owner
           l == [link[c] EXCEPT !.st = "closed"]
           co1 == [core[p] EXCEPT !.paired = TRUE, !.hosts = 0,
                                  !.hints = core[p].hints \cup ({core[p].hosts} \ {0})]
           co == Show(co1, "paired", 0)
<1>0. TypeOK /\ link[c] \in Links /\ link[c].st # "new"
  BY DEF Base, TypeOK, ConfirmStore
<1>1. p \in Phones /\ core[p] \in Cores
  BY <1>0, OwnerFacts
<1>2. l \in Links /\ link' = [link EXCEPT ![c] = l]
  BY <1>0, DropConn DEF TypeOK, ConfirmStore
<1>3. co1 \in Cores
  BY <1>1 DEF Cores
<1>4. co \in Cores /\ co.shown = 0 /\ co.phase = "paired"
  BY <1>3, ShowFacts DEF Phases
<1>5. core' = [core EXCEPT ![p] = co]
  BY DEF ConfirmStore
<1>6. Good(c, link[c], task[c], In(toPc[c]), In(toPhone[c]), faults)
        => Good(c, l, task[c], In(toPc[c]), In(toPhone[c]), faults)
  BY <1>0, DropConn
<1>7. UNCHANGED <<now, toPc, toPhone, faults>> /\ UNCHANGED pcOwn
  BY DEF ConfirmStore
<1> HIDE DEF p, l, co, co1
<1> QED
  BY <1>1, <1>2, <1>4, <1>5, <1>6, <1>7, OneLink

(* confirm_sas sends PAIR_CONFIRM, fails to, or has nothing to confirm. *)
LEMMA ConfirmSendBase ==
  ASSUME Base, NEW p \in Phones, ConfirmSend(p)
  PROVE  TypeOK' /\ GoodInv'
<1> DEFINE c == core[p].pending
<1>0. TypeOK /\ core[p] \in Cores
  BY DEF Base, TypeOK
<1>1. c # 0 => c \in Conns /\ link[c].st = "sas"
  BY PendingFacts
<1>2. UNCHANGED <<now, toPhone, faults>> /\ UNCHANGED pcOwn
  BY DEF ConfirmSend
<1>3. CASE /\ c # 0
           /\ toPc' = [toPc EXCEPT ![c] = Append(@, Frame("PairConfirm", link[c].basis))]
           /\ link' = [link EXCEPT ![c].st = "sent", ![c].tapped = TRUE, ![c].seen = core[p].shown]
           /\ core' = [core EXCEPT ![p].pending = 0]
  <2> DEFINE l == [link[c] EXCEPT !.st = "sent", !.tapped = TRUE, !.seen = core[p].shown]
             f == Frame("PairConfirm", link[c].basis)
             co == [core[p] EXCEPT !.pending = 0]
  <2>1. c \in Conns /\ link[c] \in Links /\ task[c] \in Tasks /\ link[c].st = "sas"
        /\ toPc[c] \in Seq(Frames)
    BY <1>0, <1>1, <1>3 DEF TypeOK
  <2>2. f \in Frames /\ Append(toPc[c], f) \in Seq(Frames)
        /\ In(Append(toPc[c], f)) = In(toPc[c]) \cup {f}
    <3>1. f \in Frames
      BY <2>1 DEF Frame, Frames, Links
    <3> HIDE DEF f, c
    <3> QED
      BY <2>1, <3>1, StreamFacts
  <2>3. /\ l \in Links /\ link' = [link EXCEPT ![c] = l]
        /\ toPc' = [toPc EXCEPT ![c] = Append(toPc[c], f)]
    BY <1>0, <1>3, <2>1 DEF TypeOK, Links, Cores
  <2>4. /\ co \in Cores /\ co.shown = core[p].shown /\ co.phase = core[p].phase
        /\ core' = [core EXCEPT ![p] = co]
    BY <1>0, <1>3 DEF TypeOK, Cores
  <2>5. Good(c, l, task[c], In(toPc[c]) \cup {f}, In(toPhone[c]), faults)
    BY <2>1, ConfirmConn DEF Base, GoodInv
  <2> HIDE DEF l, f, co, c
  <2>6. TypeOK'
    <3>1. link' \in [Conns -> Links] /\ toPc' \in [Conns -> Seq(Frames)]
      BY <1>0, <2>2, <2>3 DEF TypeOK
    <3>2. (co.shown # 0) = (co.phase = "confirming")
      BY <1>0, <2>4 DEF TypeOK
    <3>3. /\ core' \in [Phones -> Cores]
          /\ \A q \in Phones : (core'[q].shown # 0) = (core'[q].phase = "confirming")
      BY <1>0, <2>4, <3>2, OneCore
    <3> QED
      BY <1>0, <1>2, <3>1, <3>3 DEF TypeOK, pcOwn
  <2>7. /\ link'[c] = l /\ task' = task /\ toPc'[c] = Append(toPc[c], f) /\ toPhone' = toPhone
        /\ faults' = faults /\ \A d \in Conns \ {c} : SameConn(d)
    BY <1>0, <1>2, <2>1, <2>3 DEF TypeOK, pcOwn, SameConn
  <2>8. GoodInv'
    BY <2>1, <2>2, <2>5, <2>7, OneConn DEF Base
  <2> QED
    BY <2>6, <2>8
<1>4. CASE /\ c # 0 /\ task[c].st = "gone"
           /\ link' = [link EXCEPT ![c].st = "closed"]
           /\ core' = [core EXCEPT ![p] = Show([@ EXCEPT !.pending = 0], "failed", 0)]
           /\ UNCHANGED toPc
  <2> DEFINE l == [link[c] EXCEPT !.st = "closed"]
             co1 == [core[p] EXCEPT !.pending = 0]
             co == Show(co1, "failed", 0)
  <2>1. c \in Conns /\ link[c].st # "new"
    BY <1>1, <1>4
  <2>2. l \in Links /\ link' = [link EXCEPT ![c] = l]
    BY <1>0, <1>4, <2>1, DropConn DEF TypeOK
  <2>3. co1 \in Cores
    BY <1>0 DEF Cores
  <2>4. co \in Cores /\ co.shown = 0 /\ co.phase = "failed"
    BY <2>3, ShowFacts DEF Phases
  <2>5. core' = [core EXCEPT ![p] = co]
    BY <1>4
  <2>6. Good(c, link[c], task[c], In(toPc[c]), In(toPhone[c]), faults)
          => Good(c, l, task[c], In(toPc[c]), In(toPhone[c]), faults)
    BY <1>0, <2>1, DropConn
  <2>7. UNCHANGED <<now, toPc, toPhone, faults>>
    BY <1>2, <1>4
  <2> HIDE DEF l, co, co1, c
  <2> QED
    BY <1>2, <2>1, <2>2, <2>4, <2>5, <2>6, <2>7, OneLink
<1>5. CASE core' = [core EXCEPT ![p] = Show(@, "failed", 0)] /\ UNCHANGED <<link, toPc>>
  <2> DEFINE co == Show(core[p], "failed", 0)
  <2>1. co \in Cores /\ co.shown = 0 /\ co.phase = "failed"
    BY <1>0, ShowFacts DEF Phases
  <2>2. core' = [core EXCEPT ![p] = co]
    BY <1>5
  <2> HIDE DEF co
  <2>3. /\ core' \in [Phones -> Cores]
        /\ \A q \in Phones : (core'[q].shown # 0) = (core'[q].phase = "confirming")
    BY <1>0, <2>1, <2>2, OneCore
  <2>4. TypeOK'
    BY <1>0, <1>2, <1>5, <2>3 DEF TypeOK, pcOwn
  <2>5. GoodInv'
    BY <1>2, <1>5 DEF Base, GoodInv, pcOwn
  <2> QED
    BY <2>4, <2>5
<1> QED
  BY <1>3, <1>4, <1>5 DEF ConfirmSend

(* Leaving the screen. *)
LEMMA LeaveFacts ==
  ASSUME NEW co \in Cores, NEW p
  PROVE  /\ Leave(p, co) \in Cores
         /\ Leave(p, co).phase = "idle" /\ Leave(p, co).shown = 0
         /\ Leave(p, co).pending = co.pending /\ Leave(p, co).hosts = co.hosts
         /\ Leave(p, co).hints = co.hints
         /\ Leave(p, co).left = (co.left \/ UnderWay(p))
<1>1. UnderWay(p) \in BOOLEAN
  BY DEF UnderWay
<1> DEFINE co1 == [co EXCEPT !.left = co.left \/ UnderWay(p)]
<1>2. /\ co1 \in Cores /\ co1.pending = co.pending /\ co1.hosts = co.hosts /\ co1.hints = co.hints
      /\ co1.left = (co.left \/ UnderWay(p))
  BY <1>1 DEF Cores
<1>3. Leave(p, co) = Show(co1, "idle", 0)
  BY DEF Leave
<1> HIDE DEF co1
<1> QED
  BY <1>2, <1>3, ShowFacts DEF Phases

(* An action of the phone that changes one phone and some exchanges. *)
LEMMA SomeLinks ==
  ASSUME Base, NEW p \in Phones, NEW co \in Cores, (co.shown # 0) = (co.phase = "confirming"),
         core' = [core EXCEPT ![p] = co],
         link' \in [Conns -> Links],
         \A d \in Conns :
           Good(d, link[d], task[d], In(toPc[d]), In(toPhone[d]), faults)
             => Good(d, link'[d], task[d], In(toPc[d]), In(toPhone[d]), faults),
         UNCHANGED <<now, toPc, toPhone, faults>>, UNCHANGED pcOwn
  PROVE  TypeOK' /\ GoodInv'
<1>0. TypeOK
  BY DEF Base
<1>1. /\ core' \in [Phones -> Cores]
      /\ \A q \in Phones : (core'[q].shown # 0) = (core'[q].phase = "confirming")
  BY <1>0, OneCore
<1>2. TypeOK'
  BY <1>0, <1>1 DEF TypeOK, pcOwn
<1>3. \A d \in Conns : In(toPhone'[d]) \in SUBSET In(toPhone[d])
  OBVIOUS
<1>4. task' = task /\ toPc' = toPc /\ faults' = faults
  BY DEF pcOwn
<1>5. GoodInv'
  BY <1>3, <1>4, LinksOnly DEF Base
<1> QED
  BY <1>2, <1>5

(* cancel_pairing drops the pending exchange. *)
LEMMA CancelPairingBase ==
  ASSUME Base, NEW p \in Phones, CancelPairing(p)
  PROVE  TypeOK' /\ GoodInv'
<1> DEFINE co1 == [core[p] EXCEPT !.pending = 0, !.hosts = 0]
           co == Leave(p, co1)
<1>0. TypeOK /\ core[p] \in Cores
  BY DEF Base, TypeOK
<1>1. co1 \in Cores
  BY <1>0 DEF Cores
<1>2. core' = [core EXCEPT ![p] = co]
  BY DEF CancelPairing
<1> HIDE DEF co1
<1>3. co \in Cores /\ co.shown = 0 /\ co.phase = "idle"
  BY <1>1, LeaveFacts
<1> HIDE DEF co
<1>4. ASSUME NEW d \in Conns
      PROVE  \/ link'[d] = link[d]
             \/ link[d].st # "new" /\ link'[d] = [link[d] EXCEPT !.st = "closed"]
  <2>1. d # 0
    BY <1>0, ConnTypes
  <2> QED
    BY <2>1, PendingFacts DEF CancelPairing
<1>5. link' \in [Conns -> Links]
  BY <1>0, <1>4, DropConn DEF CancelPairing, TypeOK
<1>6. \A d \in Conns :
        Good(d, link[d], task[d], In(toPc[d]), In(toPhone[d]), faults)
          => Good(d, link'[d], task[d], In(toPc[d]), In(toPhone[d]), faults)
  BY <1>0, <1>4, DropConn
<1>7. UNCHANGED <<now, toPc, toPhone, faults>> /\ UNCHANGED pcOwn
  BY DEF CancelPairing
<1> QED
  BY <1>2, <1>3, <1>5, <1>6, <1>7, SomeLinks

(* forget_peer drops the stored PC. *)
LEMMA ForgetPeerBase ==
  ASSUME Base, NEW p \in Phones, ForgetPeer(p)
  PROVE  TypeOK' /\ GoodInv'
<1> DEFINE co1 == [core[p] EXCEPT !.paired = FALSE]
           co == Leave(p, co1)
<1>0. TypeOK /\ core[p] \in Cores
  BY DEF Base, TypeOK
<1>1. co1 \in Cores
  BY <1>0 DEF Cores
<1>2. core' = [core EXCEPT ![p] = co]
  BY DEF ForgetPeer
<1> HIDE DEF co1
<1>3. co \in Cores /\ co.shown = 0 /\ co.phase = "idle"
  BY <1>1, LeaveFacts
<1> HIDE DEF co
<1>4. link' = link /\ link' \in [Conns -> Links]
  BY <1>0 DEF ForgetPeer, TypeOK
<1>5. \A d \in Conns :
        Good(d, link[d], task[d], In(toPc[d]), In(toPhone[d]), faults)
          => Good(d, link'[d], task[d], In(toPc[d]), In(toPhone[d]), faults)
  BY <1>4
<1>6. UNCHANGED <<now, toPc, toPhone, faults>> /\ UNCHANGED pcOwn
  BY DEF ForgetPeer
<1> QED
  BY <1>2, <1>3, <1>4, <1>5, <1>6, SomeLinks

(* The app stops: all of its exchanges close. *)
LEMMA AppStopsBase ==
  ASSUME Base, NEW p \in Phones, AppStops(p)
  PROVE  TypeOK' /\ GoodInv'
<1> DEFINE co1 == [core[p] EXCEPT !.pending = 0, !.hosts = 0, !.hints = {}]
           co == Show(co1, "idle", 0)
           l(d) == [link[d] EXCEPT !.st = "closed", !.told = TRUE]
<1>0. TypeOK /\ core[p] \in Cores
  BY DEF Base, TypeOK
<1>1. co1 \in Cores
  BY <1>0 DEF Cores
<1>2. core' = [core EXCEPT ![p] = co]
  BY DEF AppStops
<1>3. co \in Cores /\ co.shown = 0 /\ co.phase = "idle"
  BY <1>1, ShowFacts DEF Phases
<1> HIDE DEF co1, co
<1>4. ASSUME NEW d \in Conns, link[d].owner = p
      PROVE  /\ l(d) \in Links
             /\ Good(d, link[d], task[d], In(toPc[d]), In(toPhone[d]), faults)
                  => Good(d, l(d), task[d], In(toPc[d]), In(toPhone[d]), faults)
  <2>1. link[d].st # "new"
    BY <1>4, PairingAssumption DEF Base, GoodInv, Good, ConnOk, LinkOk
  <2>2. link[d] \in Links /\ task[d] \in Tasks
    BY <1>0 DEF TypeOK
  <2>3. l(d) \in Links
    BY <2>2 DEF Links
  <2> QED
    BY <2>1, <2>2, <2>3, CloseConn
<1>5. link' = [d \in Conns |-> IF link[d].owner = p THEN l(d) ELSE link[d]]
  BY DEF AppStops
<1> HIDE DEF l
<1>6. link' \in [Conns -> Links]
  BY <1>0, <1>4, <1>5 DEF TypeOK
<1>7. \A d \in Conns :
        Good(d, link[d], task[d], In(toPc[d]), In(toPhone[d]), faults)
          => Good(d, link'[d], task[d], In(toPc[d]), In(toPhone[d]), faults)
  BY <1>4, <1>5
<1>8. UNCHANGED <<now, toPc, toPhone, faults>> /\ UNCHANGED pcOwn
  BY DEF AppStops
<1> QED
  BY <1>2, <1>3, <1>6, <1>7, <1>8, SomeLinks

-----------------------------------------------------------------------------
(* The PC's actions, the clock and the faults. *)

Rest ==
  /\ now' = now /\ opened' = opened /\ core' = core /\ link' = link
  /\ faults' \in 0..MaxFaults /\ (faults' = 0 => faults = 0)
  /\ offer' \in [token : Windows \cup {0}, issued : 0..MaxNow]
  /\ tmp' \in [named : BOOLEAN, all : SUBSET Phones]
  /\ stored' \subseteq Phones /\ peers' \subseteq Phones
  /\ events' \subseteq Events

(* A step of one task. *)
LEMMA OneTask ==
  ASSUME Base, NEW c \in Conns, NEW t \in Tasks, task' = [task EXCEPT ![c] = t], Rest,
         toPc' \in [Conns -> Seq(Frames)], toPhone' \in [Conns -> Seq(Frames)],
         \A d \in Conns \ {c} : toPc'[d] = toPc[d] /\ toPhone'[d] = toPhone[d],
         Good(c, link[c], t, In(toPc'[c]), In(toPhone'[c]), faults')
  PROVE  TypeOK' /\ GoodInv'
<1>0. TypeOK
  BY DEF Base
<1>1. task' \in [Conns -> Tasks] /\ task'[c] = t /\ \A d \in Conns \ {c} : task'[d] = task[d]
  BY <1>0 DEF TypeOK
<1>2. TypeOK'
  BY <1>0, <1>1 DEF TypeOK, Rest
<1>3. \A d \in Conns \ {c} : SameConn(d)
  BY <1>1 DEF SameConn, Rest
<1>4. GoodInv'
  BY <1>1, <1>3, OneConn DEF Base, Rest
<1> QED
  BY <1>2, <1>4

(* A step of one task that leaves its basis alone and at most reads. *)
LEMMA TaskMoves ==
  ASSUME Base, NEW c \in Conns, Rest, NEW st, NEW all \in SUBSET Phones,
         task[c].st # "none",
         \/ st = "gone"
         \/ task[c].st \in Completing /\ st \in Completing,
         \/ task' = [task EXCEPT ![c] = [task[c] EXCEPT !.st = st]]
         \/ task' = [task EXCEPT ![c] = [task[c] EXCEPT !.st = st, !.all = all]],
         toPc' \in [Conns -> Seq(Frames)], In(toPc'[c]) \in SUBSET In(toPc[c]),
         \A d \in Conns \ {c} : toPc'[d] = toPc[d],
         toPhone' = toPhone
  PROVE  TypeOK' /\ GoodInv'
<1>0. TypeOK /\ link[c] \in Links /\ task[c] \in Tasks
  BY DEF Base, TypeOK
<1>1. /\ [task[c] EXCEPT !.st = st] \in Tasks
      /\ [task[c] EXCEPT !.st = st, !.all = all] \in Tasks
  BY <1>0 DEF Tasks, Completing
<1>2. PICK t \in Tasks :
        /\ t \in {[task[c] EXCEPT !.st = st], [task[c] EXCEPT !.st = st, !.all = all]}
        /\ task' = [task EXCEPT ![c] = t]
  BY <1>1
<1>3. Good(c, link[c], t, In(toPc[c]), In(toPhone[c]), faults)
  <2>1. Good(c, link[c], task[c], In(toPc[c]), In(toPhone[c]), faults)
    BY DEF Base, GoodInv
  <2>2. /\ Good(c, link[c], [task[c] EXCEPT !.st = st], In(toPc[c]), In(toPhone[c]), faults)
        /\ Good(c, link[c], [task[c] EXCEPT !.st = st, !.all = all],
                In(toPc[c]), In(toPhone[c]), faults)
    BY <1>0, <2>1, MoveConn
  <2>3. CASE t = [task[c] EXCEPT !.st = st]
    BY <2>2, <2>3
  <2>4. CASE t = [task[c] EXCEPT !.st = st, !.all = all]
    BY <2>2, <2>4
  <2> QED
    BY <1>2, <2>3, <2>4
<1>4. In(toPhone'[c]) \in SUBSET In(toPhone[c])
  OBVIOUS
<1>5. Good(c, link[c], t, In(toPc'[c]), In(toPhone'[c]), faults')
  BY <1>3, <1>4, FewerFrames DEF Rest
<1>6. toPhone' \in [Conns -> Seq(Frames)]
  BY <1>0 DEF TypeOK
<1> QED
  BY <1>2, <1>5, <1>6, OneTask

(* Leaving the variables of Rest alone, or emitting an event, is typed. *)
LEMMA RestFacts ==
  ASSUME Base
  PROVE  /\ UNCHANGED phoneOwn /\ UNCHANGED pcRest /\ events' = events => Rest
         /\ \A c \in Conns, ev \in {"PairingSas", "Paired", "PairingFailed"} :
              UNCHANGED phoneOwn /\ UNCHANGED pcRest /\ events' = events \cup {Event(ev, c)} => Rest
<1>1. \A c \in Conns, ev \in {"PairingSas", "Paired", "PairingFailed"} : Event(ev, c) \in Events
  BY DEF Event, Events
<1>2. TypeOK
  BY DEF Base
<1> QED
  BY <1>1, <1>2 DEF TypeOK, Rest, phoneOwn, pcRest

(* A task that reads a frame and ends, announced or not. *)
LEMMA TaskGone ==
  ASSUME Base, NEW c \in Conns, TaskFails(c) \/ TaskEnds(c),
         NEW st, NEW ty, Reads(c, st, ty), st # "none"
  PROVE  TypeOK' /\ GoodInv'
<1>1. Rest
  BY RestFacts DEF TaskFails, TaskEnds
<1>2. TypeOK /\ task[c] \in Tasks
  BY DEF Base, TypeOK
<1>3. /\ task[c].st # "none" /\ toPc' \in [Conns -> Seq(Frames)]
      /\ In(toPc'[c]) \in SUBSET In(toPc[c]) /\ \A d \in Conns \ {c} : toPc'[d] = toPc[d]
  BY <1>2, ReadsFacts
<1>4. task' = [task EXCEPT ![c] = [task[c] EXCEPT !.st = "gone"]] /\ toPhone' = toPhone
  BY <1>2 DEF TypeOK, TaskFails, TaskEnds
<1>5. {} \in SUBSET Phones
  OBVIOUS
<1> QED
  BY <1>1, <1>3, <1>4, <1>5, TaskMoves

(* PAIR_REQ is accepted and answered, or the answer cannot be written. *)
LEMMA PairReqAcceptedBase ==
  ASSUME Base, NEW c \in Conns, NEW ok \in BOOLEAN, PairReqAccepted(c, ok)
  PROVE  TypeOK' /\ GoodInv'
<1> DEFINE f == Head(toPc[c])
           b == [f.b EXCEPT !.ephR = c, !.token = offer.token]
           t == [task[c] EXCEPT !.st = "AwaitingConfirm", !.basis = b]
           g == Frame("PairAck", b)
<1>0. TypeOK /\ link[c] \in Links /\ task[c] \in Tasks /\ toPhone[c] \in Seq(Frames)
  BY DEF Base, TypeOK
<1>1. /\ task[c].st = "AwaitingReq" /\ f \in In(toPc[c]) /\ f \in Frames /\ f.ty = "PairReq"
      /\ toPc' \in [Conns -> Seq(Frames)]
      /\ In(toPc'[c]) \in SUBSET In(toPc[c]) /\ \A d \in Conns \ {c} : toPc'[d] = toPc[d]
  BY <1>0, ReadsFacts DEF PairReqAccepted
<1>2. offer.token \in Windows /\ f.b.token = offer.token
  BY <1>0 DEF Base, OfferInv, TypeOK, PairReqAccepted, TokenValid
<1>3. CASE ok
  <2>1. /\ toPhone' = [toPhone EXCEPT ![c] = Append(toPhone[c], g)]
        /\ task' = [task EXCEPT ![c] = t]
        /\ events' = events \cup {Event("PairingSas", c)}
    BY <1>0, <1>3 DEF PairReqAccepted, TypeOK
  <2>2. Rest
    BY <2>1, RestFacts DEF PairReqAccepted
  <2>3. b \in Bases
    BY <1>1, <1>2 DEF Frames, Bases
  <2>4. g \in Frames /\ t \in Tasks
    BY <1>0, <2>3 DEF Frame, Frames, Tasks
  <2>5. In(toPc[c]) \in SUBSET Frames
    BY <1>0, ConnTypes
  <2>6. Good(c, link[c], task[c], In(toPc[c]), In(toPhone[c]), faults)
    BY DEF Base, GoodInv
  <2>7. Good(c, link[c], t, In(toPc[c]), In(toPhone[c]) \cup {g}, faults)
    BY <1>0, <1>1, <1>2, <2>5, <2>6, AcceptConn
  <2> HIDE DEF t, g, b, f
  <2>8. Append(toPhone[c], g) \in Seq(Frames) /\ In(Append(toPhone[c], g)) = In(toPhone[c]) \cup {g}
    BY <1>0, <2>4, StreamFacts
  <2>9. /\ toPhone' \in [Conns -> Seq(Frames)] /\ toPhone'[c] = Append(toPhone[c], g)
        /\ \A d \in Conns \ {c} : toPhone'[d] = toPhone[d]
    BY <1>0, <2>1, <2>8 DEF TypeOK
  <2>10. In(toPhone'[c]) \in SUBSET (In(toPhone[c]) \cup {g})
    BY <2>8, <2>9
  <2>11. Good(c, link[c], t, In(toPc'[c]), In(toPhone'[c]), faults')
    BY <1>1, <2>2, <2>7, <2>10, FewerFrames DEF Rest
  <2> QED
    BY <1>1, <2>1, <2>2, <2>4, <2>9, <2>11, OneTask
<1>4. CASE ~ok
  <2>1. /\ task' = [task EXCEPT ![c] = [task[c] EXCEPT !.st = "gone"]]
        /\ toPhone' = toPhone /\ events' = events
    BY <1>0, <1>4 DEF PairReqAccepted, TypeOK
  <2>2. Rest
    BY <2>1, RestFacts DEF PairReqAccepted
  <2>3. {} \in SUBSET Phones
    OBVIOUS
  <2> QED
    BY <1>1, <2>1, <2>2, <2>3, TaskMoves
<1> QED
  BY <1>3, <1>4

(* PAIR_CONFIRM is accepted. *)
LEMMA PcConfirmBase ==
  ASSUME Base, NEW c \in Conns, PcConfirm(c)
  PROVE  TypeOK' /\ GoodInv'
<1> DEFINE f == Head(toPc[c])
           t == [task[c] EXCEPT !.st = "Completed", !.done = TRUE]
<1>0. TypeOK /\ link[c] \in Links /\ task[c] \in Tasks
  BY DEF Base, TypeOK
<1>1. /\ task[c].st = "AwaitingConfirm" /\ f \in In(toPc[c]) /\ f.ty = "PairConfirm"
      /\ toPc' \in [Conns -> Seq(Frames)]
      /\ In(toPc'[c]) \in SUBSET In(toPc[c]) /\ \A d \in Conns \ {c} : toPc'[d] = toPc[d]
  BY <1>0, ReadsFacts DEF PcConfirm
<1>2. /\ task' = [task EXCEPT ![c] = t] /\ t \in Tasks
      /\ toPhone' = toPhone /\ events' = events /\ f.b = task[c].basis
  BY <1>0 DEF PcConfirm, TypeOK, Tasks
<1>3. Rest
  BY <1>2, RestFacts DEF PcConfirm
<1>4. Good(c, link[c], task[c], In(toPc[c]), In(toPhone[c]), faults)
  BY DEF Base, GoodInv
<1>5. Good(c, link[c], t, In(toPc[c]), In(toPhone[c]), faults)
  BY <1>0, <1>1, <1>2, <1>4, CompleteConn
<1> HIDE DEF f, t
<1>6. In(toPhone'[c]) \in SUBSET In(toPhone[c]) /\ toPhone' \in [Conns -> Seq(Frames)]
  BY <1>0, <1>2 DEF TypeOK
<1>7. Good(c, link[c], t, In(toPc'[c]), In(toPhone'[c]), faults')
  BY <1>1, <1>3, <1>5, <1>6, FewerFrames DEF Rest
<1> QED
  BY <1>1, <1>2, <1>3, <1>6, <1>7, OneTask

(* Storing the pairing: the steps of upsert_pairing and what follows. *)
LEMMA StoringBase ==
  ASSUME Base, NEW c \in Conns,
         PcLoad(c) \/ PcLoadFails(c) \/ PcWrite(c) \/ PcRename(c) \/ PcSaveFails(c) \/ PcComplete(c)
  PROVE  TypeOK' /\ GoodInv'
<1>0. TypeOK /\ task[c] \in Tasks /\ task[c].all \in SUBSET Phones
  BY DEF Base, TypeOK, Tasks
<1>1. task[c].st \in Completing /\ task[c].st # "none"
  BY DEF Completing, PcLoad, PcLoadFails, PcWrite, PcRename, PcSaveFails, PcComplete
<1>2. task[c].basis.phone \in Phones
  <2>1. /\ Good(c, link[c], task[c], In(toPc[c]), In(toPhone[c]), faults) /\ task[c].done
    BY <1>1 DEF Base, GoodInv, Good, ConnOk, TaskOk
  <2>2. link[c].owner = task[c].basis.phone /\ link[c].st # "new"
    BY <2>1 DEF Good, ConnOk, TaskOk, LinkOk
  <2> QED
    BY <2>2, OwnerFacts
<1>3. toPc' = toPc /\ toPhone' = toPhone
  BY DEF PcLoad, PcLoadFails, PcWrite, PcRename, PcSaveFails, PcComplete
<1>4. /\ toPc' \in [Conns -> Seq(Frames)] /\ In(toPc'[c]) \in SUBSET In(toPc[c])
      /\ \A d \in Conns \ {c} : toPc'[d] = toPc[d]
  BY <1>0, <1>3 DEF TypeOK
<1>5. Rest
  <2>1. CASE PcLoad(c)
    BY <2>1, RestFacts DEF PcLoad
  <2>2. CASE PcLoadFails(c) \/ PcSaveFails(c)
    <3>1. faults' \in 0..MaxFaults /\ faults' # 0
      BY <1>0, <2>2, PairingAssumption DEF TypeOK, PcLoadFails, PcSaveFails
    <3> QED
      BY <1>0, <2>2, <3>1 DEF TypeOK, PcLoadFails, PcSaveFails, Rest, phoneOwn
  <2>3. CASE PcWrite(c)
    BY <1>0, <2>3 DEF TypeOK, PcWrite, Rest, phoneOwn
  <2>4. CASE PcRename(c)
    BY <1>0, <2>4 DEF TypeOK, PcRename, Rest, phoneOwn, NoFile
  <2>5. CASE PcComplete(c)
    <3>1. Event("Paired", c) \in Events
      BY DEF Event, Events
    <3>2. NoOffer \in [token : Windows \cup {0}, issued : 0..MaxNow]
      BY PairingAssumption DEF NoOffer
    <3> QED
      BY <1>0, <2>5, <3>1, <3>2 DEF TypeOK, PcComplete, Rest, phoneOwn
  <2> QED
    BY <2>1, <2>2, <2>3, <2>4, <2>5
<1>6. \E st : /\ st = "gone" \/ st \in Completing
              /\ \E all \in SUBSET Phones :
                   \/ task' = [task EXCEPT ![c] = [task[c] EXCEPT !.st = st]]
                   \/ task' = [task EXCEPT ![c] = [task[c] EXCEPT !.st = st, !.all = all]]
  <2>1. CASE PcLoad(c)
    <3>1. stored \cup {task[c].basis.phone} \in SUBSET Phones
      BY <1>0, <1>2 DEF TypeOK
    <3>2. task' = [task EXCEPT ![c] = [task[c] EXCEPT !.st = "loaded",
                                          !.all = stored \cup {task[c].basis.phone}]]
      BY <1>0, <2>1 DEF TypeOK, PcLoad
    <3> QED
      BY <3>1, <3>2 DEF Completing
  <2>2. CASE PcLoadFails(c)
    <3>1. {task[c].basis.phone} \in SUBSET Phones
      BY <1>2
    <3>2. task' = [task EXCEPT ![c] = [task[c] EXCEPT !.st = "loaded",
                                          !.all = {task[c].basis.phone}]]
      BY <1>0, <2>2 DEF TypeOK, PcLoadFails
    <3> QED
      BY <3>1, <3>2 DEF Completing
  <2>3. CASE PcWrite(c) \/ PcRename(c) \/ PcSaveFails(c) \/ PcComplete(c)
    <3>1. \E st \in {"written", "saved", "gone"} :
            task' = [task EXCEPT ![c] = [task[c] EXCEPT !.st = st]]
      BY <1>0, <2>3 DEF TypeOK, PcWrite, PcRename, PcSaveFails, PcComplete
    <3> QED
      BY <1>0, <3>1 DEF Completing
  <2> QED
    BY <2>1, <2>2, <2>3
<1> QED
  BY <1>1, <1>3, <1>4, <1>5, <1>6, TaskMoves

(* The agent starts again: every task is gone. *)
LEMMA AgentRestartsBase ==
  ASSUME Base, AgentRestarts
  PROVE  TypeOK' /\ GoodInv'
<1>0. TypeOK /\ \A c \in Conns : link[c] \in Links /\ task[c] \in Tasks
  BY DEF Base, TypeOK
<1>1. faults' \in 0..MaxFaults /\ faults' # 0
  BY <1>0, PairingAssumption DEF TypeOK, AgentRestarts
<1>2. NoOffer \in [token : Windows \cup {0}, issued : 0..MaxNow]
  BY PairingAssumption DEF NoOffer
<1>3. \A c \in Conns : [task[c] EXCEPT !.st = "gone"] \in Tasks
  BY <1>0 DEF Tasks
<1>4. task' \in [Conns -> Tasks]
  BY <1>0, <1>3 DEF AgentRestarts
<1>5. TypeOK'
  BY <1>0, <1>1, <1>2, <1>4 DEF TypeOK, AgentRestarts, phoneOwn
<1>6. GoodInv'
  <2> SUFFICES ASSUME NEW c \in Conns
               PROVE  Good(c, link[c], task'[c], In(toPc[c]), In(toPhone[c]), faults')
    BY DEF GoodInv, AgentRestarts, phoneOwn
  <2>1. Good(c, link[c], task[c], In(toPc[c]), In(toPhone[c]), faults)
    BY DEF Base, GoodInv
  <2>2. Good(c, link[c], task'[c], In(toPc[c]), In(toPhone[c]), faults)
    <3>1. CASE task[c].st = "none"
      BY <2>1, <3>1 DEF AgentRestarts
    <3>2. CASE task[c].st # "none"
      <4>1. task'[c] = [task[c] EXCEPT !.st = "gone"]
        BY <3>2 DEF AgentRestarts
      <4>2. Good(c, link[c], [task[c] EXCEPT !.st = "gone"], In(toPc[c]), In(toPhone[c]), faults)
        BY <1>0, <2>1, <3>2, GoneConn
      <4> QED
        BY <4>1, <4>2
    <3> QED
      BY <3>1, <3>2
  <2>3. In(toPc[c]) \in SUBSET In(toPc[c]) /\ In(toPhone[c]) \in SUBSET In(toPhone[c])
    OBVIOUS
  <2> QED
    BY <1>1, <2>2, <2>3, FewerFrames
<1> QED
  BY <1>5, <1>6

(* A frame is altered on its way. *)
LEMMA AlterBase ==
  ASSUME Base, NEW c \in Conns, Alter(c)
  PROVE  TypeOK' /\ GoodInv'
<1>0. TypeOK /\ toPc[c] \in Seq(Frames) /\ toPhone[c] \in Seq(Frames) /\ task[c] \in Tasks
  BY DEF Base, TypeOK
<1>1. faults' \in 0..MaxFaults /\ faults' # 0
  BY <1>0, PairingAssumption DEF TypeOK, Alter
<1>2. link' = link /\ task' = task
  BY DEF Alter, pcOwn, phoneOwn
<1>3. Good(c, link[c], task[c], In(toPc[c]), In(toPhone[c]), faults)
  BY DEF Base, GoodInv
<1>4. In(toPc[c]) \in SUBSET Frames /\ In(toPhone[c]) \in SUBSET Frames
  BY <1>0, ConnTypes
<1>5. /\ toPc' \in [Conns -> Seq(Frames)] /\ toPhone' \in [Conns -> Seq(Frames)]
      /\ \A d \in Conns \ {c} : toPc'[d] = toPc[d] /\ toPhone'[d] = toPhone[d]
      /\ Good(c, link[c], task[c], In(toPc'[c]), In(toPhone'[c]), faults')
  <2>1. CASE toPc[c] # <<>> /\ toPhone' = toPhone
             /\ \E f \in Altered(Head(toPc[c])) : toPc' = [toPc EXCEPT ![c][1] = f]
    <3>1. PICK f \in Altered(Head(toPc[c])) : toPc' = [toPc EXCEPT ![c][1] = f]
      BY <2>1
    <3>2. Head(toPc[c]) \in In(toPc[c]) /\ Head(toPc[c]) \in Frames
      BY <1>0, <2>1, StreamFacts
    <3>3. f \in Frames
      BY <3>2, AlteredFrames
    <3>4. /\ [toPc[c] EXCEPT ![1] = f] \in Seq(Frames)
          /\ In([toPc[c] EXCEPT ![1] = f]) \subseteq In(toPc[c]) \cup {f}
      BY <1>0, <2>1, <3>3, ChangedHead
    <3>5. toPc' = [toPc EXCEPT ![c] = [toPc[c] EXCEPT ![1] = f]]
      BY <1>0, <3>1 DEF TypeOK
    <3>6. /\ toPc' \in [Conns -> Seq(Frames)] /\ toPc'[c] = [toPc[c] EXCEPT ![1] = f]
          /\ \A d \in Conns \ {c} : toPc'[d] = toPc[d]
      BY <1>0, <3>4, <3>5 DEF TypeOK
    <3>7. Good(c, link[c], task[c], In(toPc[c]) \cup {f}, In(toPhone[c]), faults')
      BY <1>1, <1>3, <1>4, <3>2, AlterConn
    <3>8. /\ In(toPc'[c]) \in SUBSET (In(toPc[c]) \cup {f})
          /\ In(toPhone'[c]) \in SUBSET In(toPhone[c])
      BY <2>1, <3>4, <3>6
    <3>9. Good(c, link[c], task[c], In(toPc'[c]), In(toPhone'[c]), faults')
      BY <3>7, <3>8, FewerFrames
    <3> QED
      BY <1>0, <2>1, <3>6, <3>9 DEF TypeOK
  <2>2. CASE toPhone[c] # <<>> /\ toPc' = toPc
             /\ \E f \in Altered(Head(toPhone[c])) : toPhone' = [toPhone EXCEPT ![c][1] = f]
    <3>1. PICK f \in Altered(Head(toPhone[c])) : toPhone' = [toPhone EXCEPT ![c][1] = f]
      BY <2>2
    <3>2. Head(toPhone[c]) \in In(toPhone[c]) /\ Head(toPhone[c]) \in Frames
      BY <1>0, <2>2, StreamFacts
    <3>3. f \in Frames
      BY <3>2, AlteredFrames
    <3>4. /\ [toPhone[c] EXCEPT ![1] = f] \in Seq(Frames)
          /\ In([toPhone[c] EXCEPT ![1] = f]) \subseteq In(toPhone[c]) \cup {f}
      BY <1>0, <2>2, <3>3, ChangedHead
    <3>5. toPhone' = [toPhone EXCEPT ![c] = [toPhone[c] EXCEPT ![1] = f]]
      BY <1>0, <3>1 DEF TypeOK
    <3>6. /\ toPhone' \in [Conns -> Seq(Frames)] /\ toPhone'[c] = [toPhone[c] EXCEPT ![1] = f]
          /\ \A d \in Conns \ {c} : toPhone'[d] = toPhone[d]
      BY <1>0, <3>4, <3>5 DEF TypeOK
    <3>7. Good(c, link[c], task[c], In(toPc[c]), In(toPhone[c]) \cup {f}, faults')
      BY <1>1, <1>3, <1>4, <3>2, AlterConn
    <3>8. /\ In(toPhone'[c]) \in SUBSET (In(toPhone[c]) \cup {f})
          /\ In(toPc'[c]) \in SUBSET In(toPc[c])
      BY <2>2, <3>4, <3>6
    <3>9. Good(c, link[c], task[c], In(toPc'[c]), In(toPhone'[c]), faults')
      BY <3>7, <3>8, FewerFrames
    <3> QED
      BY <1>0, <2>2, <3>6, <3>9 DEF TypeOK
  <2> QED
    BY <2>1, <2>2 DEF Alter
<1>6. TypeOK'
  BY <1>0, <1>1, <1>5 DEF TypeOK, Alter, pcOwn, phoneOwn
<1>7. \A d \in Conns \ {c} : SameConn(d)
  BY <1>2, <1>5 DEF SameConn
<1>8. GoodInv'
  BY <1>1, <1>2, <1>5, <1>7, OneConn DEF Base
<1> QED
  BY <1>6, <1>8

(* The window opens; time passes. *)
LEMMA ClockBase ==
  ASSUME Base, OpenPairing \/ Tick
  PROVE  TypeOK' /\ GoodInv'
<1>0. TypeOK
  BY DEF Base
<1>1. CASE OpenPairing
  <2>1. opened' \in 0..MaxOpens /\ opened + 1 \in Windows
    BY <1>0, <1>1, PairingAssumption DEF TypeOK, OpenPairing, Windows
  <2>2. offer' \in [token : Windows \cup {0}, issued : 0..MaxNow]
    BY <1>0, <1>1, <2>1 DEF TypeOK, OpenPairing
  <2>3. TypeOK'
    BY <1>0, <1>1, <2>1, <2>2 DEF TypeOK, OpenPairing, phoneOwn
  <2>4. GoodInv'
    BY <1>1 DEF Base, GoodInv, OpenPairing, phoneOwn
  <2> QED
    BY <2>3, <2>4
<1>2. CASE Tick
  <2>1. now' \in 0..MaxNow
    BY <1>0, <1>2, PairingAssumption DEF TypeOK, Tick
  <2>2. TypeOK'
    BY <1>0, <1>2, <2>1 DEF TypeOK, Tick, phoneOwn, pcOwn
  <2>3. GoodInv'
    BY <1>2 DEF Base, GoodInv, Tick, phoneOwn, pcOwn
  <2> QED
    BY <2>2, <2>3
<1> QED
  BY <1>1, <1>2

(* The ways in which run_pairing gives up. *)
LEMMA GivesUpBase ==
  ASSUME Base, NEW c \in Conns,
         PairReqRefused(c) \/ PairReqNoWindow(c) \/ PcMalformed(c) \/ PcEnd(c) \/ PcMismatch(c)
  PROVE  TypeOK' /\ GoodInv'
<1>1. TaskFails(c) \/ TaskEnds(c)
  BY DEF PairReqRefused, PairReqNoWindow, PcMalformed, PcEnd, PcMismatch
<1>2. \/ \E st \in Awaiting : \E ty : Reads(c, st, ty)
      \/ PcEnd(c) /\ toPc' = toPc
  BY DEF PairReqRefused, PairReqNoWindow, PcMalformed, PcEnd, PcMismatch, Awaiting
<1>3. CASE \E st \in Awaiting : \E ty : Reads(c, st, ty)
  BY <1>1, <1>3, TaskGone DEF Awaiting
<1>4. CASE PcEnd(c) /\ toPc' = toPc
  <2>1. TypeOK /\ task[c] \in Tasks
    BY DEF Base, TypeOK
  <2>2. Rest
    BY <1>1, RestFacts DEF TaskFails, TaskEnds
  <2>3. /\ task[c].st # "none" /\ toPc' \in [Conns -> Seq(Frames)]
        /\ In(toPc'[c]) \in SUBSET In(toPc[c]) /\ \A d \in Conns \ {c} : toPc'[d] = toPc[d]
    BY <1>4, <2>1 DEF PcEnd, Awaiting, TypeOK
  <2>4. task' = [task EXCEPT ![c] = [task[c] EXCEPT !.st = "gone"]] /\ toPhone' = toPhone
    BY <1>1, <2>1 DEF TypeOK, TaskFails, TaskEnds
  <2>5. {} \in SUBSET Phones
    OBVIOUS
  <2> QED
    BY <2>2, <2>3, <2>4, <2>5, TaskMoves
<1> QED
  BY <1>2, <1>3, <1>4

-----------------------------------------------------------------------------
(* The phones' screens: what each action of the phone does to PendingInv,  *)
(* to ScreenInv and to the two properties ScreenInv is for.                *)

(* What is tapped stays tapped and keeps its phone and its QR; a user who  *)
(* left has left.                                                          *)
TapsStay ==
  /\ \A d \in Conns : link[d].tapped => /\ link'[d].tapped /\ link'[d].owner = link[d].owner
                                        /\ link'[d].qr = link[d].qr
  /\ \A q \in Phones : core[q].left => core'[q].left

Screen == ScreenInv /\ ConfirmsWhatIsShown /\ HintsKnownGood

(* The exchange p has pending is the one of its exchanges that waits. *)
PendingOk(p) ==
  /\ core[p].pending # 0 => /\ core[p].pending \in Conns
                            /\ link[core[p].pending].st = "sas"
                            /\ link[core[p].pending].owner = p
  /\ \A c \in Conns : link[c].owner = p /\ link[c].st = "sas" => core[p].pending = c

(* A step that changes one phone and some of its exchanges is good for all *)
(* phones if it is good for that one.                                      *)
LEMMA OnePhone ==
  ASSUME Base, ScreenInv, NEW p \in Phones,
         \A q \in Phones \ {p} : core'[q] = core[q],
         \A d \in Conns : \/ link'[d] = link[d]
                          \/ link'[d].owner = p /\ link[d].owner \in {p, "none"},
         PendingOk(p)', GoodInv',
         ~core'[p].left => ScreenOk(p)'
  PROVE  PendingInv' /\ ScreenInv'
<1>1. ASSUME NEW q \in Phones, q # p, NEW d \in Conns
      PROVE  /\ link'[d].owner = q <=> link[d].owner = q
             /\ link[d].owner = q => link'[d] = link[d]
  <2>1. q # "none"
    BY PairingAssumption
  <2> QED
    BY <1>1, <2>1
<1>2. PendingInv'
  <2>1. ASSUME NEW q \in Phones, core'[q].pending # 0
        PROVE  link'[core'[q].pending].st = "sas" /\ link'[core'[q].pending].owner = q
    <3>1. CASE q = p
      BY <2>1, <3>1 DEF PendingOk
    <3>2. CASE q # p
      BY <1>1, <2>1, <3>2, PendingFacts
    <3> QED
      BY <3>1, <3>2
  <2>2. ASSUME NEW c \in Conns, link'[c].st = "sas"
        PROVE  core'[link'[c].owner].pending = c
    <3>1. link'[c].owner \in Phones
      BY <2>2 DEF GoodInv, Good, ConnOk, LinkOk
    <3>2. CASE link'[c].owner = p
      BY <2>2, <3>2 DEF PendingOk
    <3>3. CASE link'[c].owner # p
      <4>1. link'[c] = link[c]
        BY <3>3
      <4>2. core[link[c].owner].pending = c
        BY <2>2, <4>1 DEF Base, PendingInv
      <4> QED
        BY <3>1, <3>3, <4>1, <4>2
    <3> QED
      BY <3>2, <3>3
  <2> QED
    BY <2>1, <2>2 DEF PendingInv
<1>3. ASSUME NEW q \in Phones, ~core'[q].left, q # p
      PROVE  ScreenOk(q)'
  <2>1. core'[q] = core[q] /\ ScreenOk(q)
    BY <1>3 DEF ScreenInv
  <2>2. core[q].pending # 0 => core[q].pending \in Conns /\ link[core[q].pending].owner = q
    BY PendingFacts
  <2>3. \A d \in Conns : link'[d].owner = q => link[d].owner = q /\ link'[d] = link[d]
    BY <1>1, <1>3
  <2>4. core[q].pending # 0 => link'[core[q].pending] = link[core[q].pending]
    BY <1>1, <1>3, <2>2
  <2> QED
    BY <2>1, <2>3, <2>4 DEF ScreenOk, Busy, Starting
<1> QED
  BY <1>2, <1>3 DEF ScreenInv

(* A step by which no user confirms and no hint is added keeps what was    *)
(* confirmed and the hints.                                                *)
LEMMA NothingConfirmed ==
  ASSUME Base, Screen, TapsStay,
         \A d \in Conns : link'[d].tapped => link[d].tapped /\ link'[d].seen = link[d].seen,
         \A q \in Phones : core'[q].hints \subseteq core[q].hints
  PROVE  ConfirmsWhatIsShown' /\ HintsKnownGood'
<1>1. \A c \in Conns : link[c].tapped => link[c].owner \in Phones
  BY DEF Base, GoodInv, Good, ConnOk, LinkOk
<1>2. ConfirmsWhatIsShown'
  BY <1>1 DEF Screen, ConfirmsWhatIsShown, TapsStay
<1>3. HintsKnownGood'
  BY DEF Screen, HintsKnownGood, TapsStay
<1> QED
  BY <1>2, <1>3

(* The PC's steps do not touch the phones. *)
LEMMA PhonesAlone ==
  ASSUME Base, Screen, UNCHANGED phoneOwn
  PROVE  PendingInv' /\ Screen' /\ TapsStay
BY DEF Base, PendingInv, Screen, ScreenInv, ScreenOk, Busy, Starting, ConfirmsWhatIsShown,
       HintsKnownGood, TapsStay, phoneOwn

(* What GoodInv and the types say of the phone's side of an exchange. *)
LEMMA LinkFacts ==
  ASSUME Base, NEW d \in Conns
  PROVE  link[d] \in Links /\ LinkOk(d, link[d]) /\ d # 0
<1>1. TypeOK
  BY DEF Base
<1> QED
  BY <1>1, ConnTypes DEF Base, GoodInv, Good, ConnOk

(* start_pairing begins: nothing else of this phone is under way. *)
LEMMA StartPairingPhone ==
  ASSUME Base, Screen, GoodInv', NEW p \in Phones, NEW c \in Conns, NEW w \in 1..opened,
         StartPairing(p, c, w)
  PROVE  PendingInv' /\ Screen' /\ TapsStay
<1>0. TypeOK /\ core[p] \in Cores /\ link[c] \in Links /\ link[c].st = "new"
  BY DEF Base, TypeOK, StartPairing, Fresh
<1>1. /\ link'[c].st = "dialing" /\ link'[c].owner = p /\ link'[c].qr = w
      /\ link'[c].basis = link[c].basis /\ link'[c].told = link[c].told
      /\ link'[c].tapped = link[c].tapped /\ link'[c].seen = link[c].seen
      /\ \A d \in Conns \ {c} : link'[d] = link[d]
  BY <1>0 DEF StartPairing, TypeOK, Links
<1>2. /\ core'[p].pending = core[p].pending /\ core'[p].hosts = w /\ core'[p].hints = core[p].hints
      /\ core'[p].phase = "connecting" /\ core'[p].left = core[p].left
      /\ \A q \in Phones \ {p} : core'[q] = core[q]
  BY <1>0 DEF StartPairing, TypeOK, Cores, Show
<1>3. link[c].owner = "none" /\ link[c].basis = NoBasis /\ ~link[c].told /\ ~link[c].tapped
  BY <1>0, LinkFacts DEF LinkOk
<1>4. \A d \in Conns : \/ link'[d] = link[d]
                       \/ link'[d].owner = p /\ link[d].owner \in {p, "none"}
  BY <1>1, <1>3
<1>5. PendingOk(p)'
  <2>1. core[p].pending # 0 => /\ core[p].pending \in Conns \ {c}
                               /\ link[core[p].pending].st = "sas"
                               /\ link[core[p].pending].owner = p
    BY <1>0, PendingFacts
  <2>2. \A d \in Conns : link[d].owner = p /\ link[d].st = "sas" => core[p].pending = d
    BY DEF Base, PendingInv
  <2> QED
    BY <1>1, <1>2, <2>1, <2>2 DEF PendingOk
<1>6. ASSUME ~core'[p].left
      PROVE  ScreenOk(p)'
  <2>1. ScreenOk(p) /\ core[p].phase = "idle"
    BY <1>2, <1>6 DEF Screen, ScreenInv, StartPairing
  <2>2. \A d \in Conns : link[d].owner = p => ~Busy(d)
    BY <2>1 DEF ScreenOk, Busy
  <2>3. \A d \in Conns : link'[d].owner = p /\ Busy(d)' => d = c
    BY <1>1, <2>2 DEF Busy, Starting
  <2> QED
    BY <1>1, <1>2, <1>3, <2>3 DEF ScreenOk, Busy, Starting
<1>7. PendingInv' /\ ScreenInv'
  BY <1>2, <1>4, <1>5, <1>6, OnePhone DEF Screen
<1>8. TapsStay
  BY <1>1, <1>2, <1>3 DEF TapsStay
<1>9. ConfirmsWhatIsShown' /\ HintsKnownGood'
  BY <1>1, <1>2, <1>8, NothingConfirmed
<1> QED
  BY <1>7, <1>8, <1>9 DEF Screen

(* begin_pairing connects. *)
LEMMA DialPhone ==
  ASSUME Base, Screen, GoodInv', NEW c \in Conns, Dial(c)
  PROVE  PendingInv' /\ Screen' /\ TapsStay
<1>0. TypeOK /\ link[c] \in Links /\ link[c].st = "dialing" /\ core' = core
  BY DEF Base, TypeOK, Dial
<1>1. PICK p \in Phones : p = link[c].owner
  BY <1>0, OwnerFacts
<1>2. /\ link'[c].st = "begun" /\ link'[c].owner = p /\ link'[c].qr = link[c].qr
      /\ link'[c].basis = link[c].basis /\ link'[c].told = link[c].told
      /\ link'[c].tapped = link[c].tapped /\ link'[c].seen = link[c].seen
      /\ \A d \in Conns \ {c} : link'[d] = link[d]
  BY <1>0, <1>1 DEF Dial, TypeOK, Links
<1>3. \A d \in Conns : \/ link'[d] = link[d]
                       \/ link'[d].owner = p /\ link[d].owner \in {p, "none"}
  BY <1>1, <1>2
<1>4. PendingOk(p)'
  <2>1. core[p].pending # 0 => /\ core[p].pending \in Conns \ {c}
                               /\ link[core[p].pending].st = "sas"
                               /\ link[core[p].pending].owner = p
    BY <1>0, <1>1, PendingFacts
  <2>2. \A d \in Conns : link[d].owner = p /\ link[d].st = "sas" => core[p].pending = d
    BY DEF Base, PendingInv
  <2> QED
    BY <1>0, <1>2, <2>1, <2>2 DEF PendingOk
<1>5. ASSUME ~core'[p].left
      PROVE  ScreenOk(p)'
  <2>1. ScreenOk(p)
    BY <1>0, <1>1, <1>5 DEF Screen, ScreenInv
  <2>2. \A d \in Conns : /\ link'[d].owner = link[d].owner /\ link'[d].qr = link[d].qr
                         /\ link'[d].basis = link[d].basis
                         /\ link'[d].st = "sent" => link[d].st = "sent"
                         /\ Starting(d)' <=> Starting(d)
    BY <1>0, <1>1, <1>2 DEF Starting
  <2>3. core[p].pending # 0 => core[p].pending \in Conns
    BY <1>1, PendingFacts
  <2> QED
    BY <1>0, <2>1, <2>2, <2>3 DEF ScreenOk, Busy
<1>6. PendingInv' /\ ScreenInv'
  BY <1>0, <1>1, <1>3, <1>4, <1>5, OnePhone DEF Screen
<1>7. TapsStay
  BY <1>0, <1>1, <1>2 DEF TapsStay
<1>8. ConfirmsWhatIsShown' /\ HintsKnownGood'
  BY <1>0, <1>2, <1>7, NothingConfirmed
<1> QED
  BY <1>6, <1>7, <1>8 DEF Screen

(* start_pairing returns with the code: the exchange becomes pending, and  *)
(* the one it replaces is not under way.                                   *)
LEMMA PhoneAckPhone ==
  ASSUME Base, Screen, GoodInv', NEW c \in Conns, PhoneAck(c)
  PROVE  PendingInv' /\ Screen' /\ TapsStay
<1>0. TypeOK /\ link[c] \in Links /\ link[c].st = "begun"
  BY DEF Base, TypeOK, PhoneAck
<1>1. PICK p \in Phones : p = link[c].owner
  BY <1>0, OwnerFacts
<1>2. core[p] \in Cores
  BY <1>0 DEF TypeOK
<1>3. /\ link'[c].st = "sas" /\ link'[c].owner = p /\ link'[c].qr = link[c].qr
      /\ link'[c].told = link[c].told
      /\ link'[c].tapped = link[c].tapped /\ link'[c].seen = link[c].seen
  BY <1>0, <1>1 DEF PhoneAck, Links
<1>4. \A d \in Conns \ {c} :
        IF d = core[p].pending
        THEN /\ link'[d].st = "closed" /\ link'[d].owner = link[d].owner /\ link'[d].qr = link[d].qr
             /\ link'[d].basis = link[d].basis /\ link'[d].told = link[d].told
             /\ link'[d].tapped = link[d].tapped /\ link'[d].seen = link[d].seen
        ELSE link'[d] = link[d]
  BY <1>0, <1>1 DEF TypeOK, PhoneAck, Links
<1>5. /\ core'[p].pending = c /\ core'[p].hosts = core[p].hosts /\ core'[p].hints = core[p].hints
      /\ core'[p].phase = core[p].phase /\ core'[p].left = core[p].left
      /\ \A q \in Phones \ {p} : core'[q] = core[q]
  BY <1>0, <1>1, <1>2 DEF PhoneAck, TypeOK, Cores
<1>6. core[p].pending # 0 => /\ core[p].pending \in Conns \ {c}
                             /\ link[core[p].pending].st = "sas"
                             /\ link[core[p].pending].owner = p
  BY <1>0, PendingFacts
<1>7. \A d \in Conns : \/ link'[d] = link[d]
                       \/ link'[d].owner = p /\ link[d].owner \in {p, "none"}
  BY <1>1, <1>3, <1>4, <1>6, LinkFacts
<1>8. PendingOk(p)'
  <2>1. \A d \in Conns : link[d].owner = p /\ link[d].st = "sas" => core[p].pending = d
    BY DEF Base, PendingInv
  <2>2. \A d \in Conns : link'[d].owner = p /\ link'[d].st = "sas" => c = d
    BY <1>4, <2>1
  <2> QED
    BY <1>3, <1>5, <2>2 DEF PendingOk
<1>9. ASSUME ~core'[p].left
      PROVE  ScreenOk(p)'
  <2>1. ScreenOk(p)
    BY <1>5, <1>9 DEF Screen, ScreenInv
  <2>2. Busy(c) /\ Starting(c)
    BY <1>0 DEF Busy, Starting
  <2>3. core[p].phase = "connecting" /\ core[p].hosts = link[c].qr
    BY <1>1, <2>1, <2>2 DEF ScreenOk
  <2>4. \A d \in Conns : link[d].owner = p /\ Busy(d) => d = c
    BY <1>1, <2>1, <2>2 DEF ScreenOk
  <2>5. \A d \in Conns : link'[d].owner = p /\ Busy(d)' => d = c
    <3>1. \A d \in Conns \ {c} : link'[d].owner = p /\ Busy(d)' => link[d].owner = p /\ Busy(d)
      BY <1>4 DEF Busy, Starting
    <3> QED
      BY <2>4, <3>1
  <2> QED
    BY <1>3, <1>5, <2>3, <2>5 DEF ScreenOk, Busy
<1>10. PendingInv' /\ ScreenInv'
  BY <1>5, <1>7, <1>8, <1>9, OnePhone DEF Screen
<1>11. TapsStay
  BY <1>1, <1>3, <1>4, <1>5 DEF TapsStay
<1>12. ConfirmsWhatIsShown' /\ HintsKnownGood'
  BY <1>3, <1>4, <1>5, <1>11, NothingConfirmed
<1> QED
  BY <1>10, <1>11, <1>12 DEF Screen

(* The code appears: it is the pending exchange's. *)
LEMMA PhoneShowPhone ==
  ASSUME Base, Screen, GoodInv', NEW c \in Conns, PhoneShow(c)
  PROVE  PendingInv' /\ Screen' /\ TapsStay
<1>0. TypeOK /\ link[c] \in Links /\ link[c].basis # NoBasis /\ ~link[c].told
  BY DEF Base, TypeOK, PhoneShow
<1>1. link[c].st # "new"
  BY <1>0, LinkFacts DEF LinkOk
<1>2. PICK p \in Phones : p = link[c].owner
  BY <1>1, OwnerFacts
<1>3. core[p] \in Cores
  BY <1>0 DEF TypeOK
<1>4. /\ link'[c].st = link[c].st /\ link'[c].owner = p /\ link'[c].qr = link[c].qr
      /\ link'[c].basis = link[c].basis /\ link'[c].told
      /\ link'[c].tapped = link[c].tapped /\ link'[c].seen = link[c].seen
      /\ \A d \in Conns \ {c} : link'[d] = link[d]
  BY <1>0, <1>2 DEF PhoneShow, TypeOK, Links
<1>5. /\ core'[p].pending = core[p].pending /\ core'[p].hosts = core[p].hosts
      /\ core'[p].hints = core[p].hints /\ core'[p].phase = "confirming" /\ core'[p].shown = c
      /\ core'[p].left = core[p].left /\ \A q \in Phones \ {p} : core'[q] = core[q]
  BY <1>0, <1>2, <1>3 DEF PhoneShow, TypeOK, Cores, Show
<1>6. \A d \in Conns : \/ link'[d] = link[d]
                       \/ link'[d].owner = p /\ link[d].owner \in {p, "none"}
  BY <1>2, <1>4
<1>7. core[p].pending # 0 => /\ core[p].pending \in Conns
                             /\ link[core[p].pending].st = "sas"
                             /\ link[core[p].pending].owner = p
  BY PendingFacts
<1>8. PendingOk(p)'
  <2>1. \A d \in Conns : link[d].owner = p /\ link[d].st = "sas" => core[p].pending = d
    BY DEF Base, PendingInv
  <2>2. \A d \in Conns : link'[d].owner = link[d].owner /\ link'[d].st = link[d].st
    BY <1>2, <1>4
  <2> QED
    BY <1>5, <1>7, <2>1, <2>2 DEF PendingOk
<1>9. ASSUME ~core'[p].left
      PROVE  ScreenOk(p)'
  <2>1. ScreenOk(p)
    BY <1>5, <1>9 DEF Screen, ScreenInv
  <2>2. Busy(c) /\ Starting(c)
    BY <1>0 DEF Busy, Starting
  <2>3. core[p].pending = c /\ core[p].hosts = link[c].qr
    BY <1>0, <1>2, <2>1, <2>2 DEF ScreenOk
  <2>4. link[c].st = "sas"
    BY <1>7, <2>3, LinkFacts
  <2>5. \A d \in Conns : link[d].owner = p /\ Busy(d) => d = c
    BY <1>2, <2>1, <2>2 DEF ScreenOk
  <2>6. \A d \in Conns : link'[d].owner = p => ~Busy(d)'
    BY <1>4, <2>4, <2>5 DEF Busy, Starting
  <2> QED
    BY <1>4, <1>5, <2>3, <2>6 DEF ScreenOk, Busy
<1>10. PendingInv' /\ ScreenInv'
  BY <1>5, <1>6, <1>8, <1>9, OnePhone DEF Screen
<1>11. TapsStay
  BY <1>2, <1>4, <1>5 DEF TapsStay
<1>12. ConfirmsWhatIsShown' /\ HintsKnownGood'
  BY <1>4, <1>5, <1>11, NothingConfirmed
<1> QED
  BY <1>10, <1>11, <1>12 DEF Screen

(* start_pairing fails. *)
LEMMA StartFailsPhone ==
  ASSUME Base, Screen, GoodInv', NEW c \in Conns, StartFails(c)
  PROVE  PendingInv' /\ Screen' /\ TapsStay
<1>0. TypeOK /\ link[c] \in Links /\ link[c].st \in {"dialing", "begun"}
  BY DEF Base, TypeOK, StartFails
<1>1. PICK p \in Phones : p = link[c].owner
  BY <1>0, OwnerFacts
<1>2. core[p] \in Cores /\ link[c].basis = NoBasis
  BY <1>0, LinkFacts DEF TypeOK, LinkOk
<1>3. /\ link'[c].st = "closed" /\ link'[c].owner = p /\ link'[c].qr = link[c].qr
      /\ link'[c].basis = NoBasis
      /\ link'[c].tapped = link[c].tapped /\ link'[c].seen = link[c].seen
      /\ \A d \in Conns \ {c} : link'[d] = link[d]
  BY <1>0, <1>1, <1>2 DEF StartFails, TypeOK, Links
<1>4. /\ core'[p].pending = core[p].pending /\ core'[p].hints = core[p].hints
      /\ core'[p].phase = "failed"
      /\ core'[p].left = core[p].left /\ \A q \in Phones \ {p} : core'[q] = core[q]
  BY <1>0, <1>1, <1>2 DEF StartFails, TypeOK, Cores, Show
<1>5. \A d \in Conns : \/ link'[d] = link[d]
                       \/ link'[d].owner = p /\ link[d].owner \in {p, "none"}
  BY <1>1, <1>3
<1>6. PendingOk(p)'
  <2>1. core[p].pending # 0 => /\ core[p].pending \in Conns \ {c}
                               /\ link[core[p].pending].st = "sas"
                               /\ link[core[p].pending].owner = p
    BY <1>0, PendingFacts
  <2>2. \A d \in Conns : link[d].owner = p /\ link[d].st = "sas" => core[p].pending = d
    BY DEF Base, PendingInv
  <2> QED
    BY <1>3, <1>4, <2>1, <2>2 DEF PendingOk
<1>7. ASSUME ~core'[p].left
      PROVE  ScreenOk(p)'
  <2>1. ScreenOk(p) /\ Busy(c)
    BY <1>0, <1>4, <1>7 DEF Screen, ScreenInv, Busy, Starting
  <2>2. \A d \in Conns : link[d].owner = p /\ Busy(d) => d = c
    BY <1>1, <2>1 DEF ScreenOk
  <2>3. \A d \in Conns : link'[d].owner = p => ~Busy(d)'
    BY <1>3, <2>2 DEF Busy, Starting
  <2> QED
    BY <1>4, <2>3 DEF ScreenOk, Busy
<1>8. PendingInv' /\ ScreenInv'
  BY <1>4, <1>5, <1>6, <1>7, OnePhone DEF Screen
<1>9. TapsStay
  BY <1>1, <1>3, <1>4 DEF TapsStay
<1>10. ConfirmsWhatIsShown' /\ HintsKnownGood'
  BY <1>3, <1>4, <1>9, NothingConfirmed
<1> QED
  BY <1>8, <1>9, <1>10 DEF Screen

(* confirm_sas ends: the addresses that become hints are those of the QR   *)
(* of the exchange the user confirmed.                                     *)
LEMMA ConfirmStorePhone ==
  ASSUME Base, Screen, GoodInv', NEW c \in Conns, ConfirmStore(c)
  PROVE  PendingInv' /\ Screen' /\ TapsStay
<1>0. TypeOK /\ link[c] \in Links /\ link[c].st = "sent"
  BY DEF Base, TypeOK, ConfirmStore
<1>1. PICK p \in Phones : p = link[c].owner
  BY <1>0, OwnerFacts
<1>2. core[p] \in Cores /\ link[c].tapped
  BY <1>0, LinkFacts DEF TypeOK, LinkOk
<1>3. /\ link'[c].st = "closed" /\ link'[c].owner = p /\ link'[c].qr = link[c].qr
      /\ link'[c].basis = link[c].basis /\ link'[c].told = link[c].told
      /\ link'[c].tapped = link[c].tapped /\ link'[c].seen = link[c].seen
      /\ \A d \in Conns \ {c} : link'[d] = link[d]
  BY <1>0, <1>1, <1>2 DEF ConfirmStore, TypeOK, Links
<1>4. /\ core'[p].pending = core[p].pending /\ core'[p].phase = "paired"
      /\ core'[p].hints = core[p].hints \cup ({core[p].hosts} \ {0})
      /\ core'[p].left = core[p].left /\ \A q \in Phones \ {p} : core'[q] = core[q]
  BY <1>0, <1>1, <1>2 DEF ConfirmStore, TypeOK, Cores, Show
<1>5. \A d \in Conns : \/ link'[d] = link[d]
                       \/ link'[d].owner = p /\ link[d].owner \in {p, "none"}
  BY <1>1, <1>3
<1>6. PendingOk(p)'
  <2>1. core[p].pending # 0 => /\ core[p].pending \in Conns \ {c}
                               /\ link[core[p].pending].st = "sas"
                               /\ link[core[p].pending].owner = p
    BY <1>0, PendingFacts
  <2>2. \A d \in Conns : link[d].owner = p /\ link[d].st = "sas" => core[p].pending = d
    BY DEF Base, PendingInv
  <2> QED
    BY <1>3, <1>4, <2>1, <2>2 DEF PendingOk
<1>7. ASSUME ~core'[p].left
      PROVE  ScreenOk(p)' /\ core[p].hosts = link[c].qr
  <2>1. ScreenOk(p) /\ Busy(c)
    BY <1>0, <1>4, <1>7 DEF Screen, ScreenInv, Busy
  <2>2. \A d \in Conns : link[d].owner = p /\ Busy(d) => d = c
    BY <1>1, <2>1 DEF ScreenOk
  <2>3. ~Starting(c) /\ core[p].hosts = link[c].qr
    BY <1>0, <1>1, <2>1 DEF ScreenOk
  <2>4. \A d \in Conns : link'[d].owner = p => ~Busy(d)'
    BY <1>3, <2>2, <2>3 DEF Busy, Starting
  <2>5. ScreenOk(p)'
    BY <1>4, <2>4 DEF ScreenOk, Busy
  <2> QED
    BY <2>3, <2>5
<1>8. PendingInv' /\ ScreenInv'
  BY <1>4, <1>5, <1>6, <1>7, OnePhone DEF Screen
<1>9. TapsStay
  BY <1>1, <1>3, <1>4 DEF TapsStay
<1>10. ConfirmsWhatIsShown'
  <2>1. \A d \in Conns : link[d].tapped => link[d].owner \in Phones
    BY LinkFacts DEF LinkOk
  <2>2. \A d \in Conns : link'[d].tapped => link[d].tapped /\ link'[d].seen = link[d].seen
    BY <1>3
  <2> QED
    BY <1>9, <2>1, <2>2 DEF Screen, ConfirmsWhatIsShown, TapsStay
<1>11. HintsKnownGood'
  <2> SUFFICES ASSUME NEW q \in Phones, NEW w \in core'[q].hints, ~core'[q].left
               PROVE  \E d \in Conns : link'[d].owner = q /\ link'[d].qr = w /\ link'[d].tapped
    BY DEF HintsKnownGood
  <2>1. CASE w \in core[q].hints
    BY <1>9, <2>1 DEF Screen, HintsKnownGood, TapsStay
  <2>2. CASE w \notin core[q].hints
    <3>1. q = p /\ w = core[p].hosts
      BY <1>4, <2>2
    <3> QED
      BY <1>2, <1>3, <1>7, <3>1
  <2> QED
    BY <2>1, <2>2
<1> QED
  BY <1>8, <1>9, <1>10, <1>11 DEF Screen

(* The user taps "They match": what is confirmed is the code on screen,    *)
(* and no other call is under way.                                         *)
LEMMA ConfirmSendPhone ==
  ASSUME Base, Screen, GoodInv', NEW p \in Phones, ConfirmSend(p)
  PROVE  PendingInv' /\ Screen' /\ TapsStay
<1>0. TypeOK /\ core[p] \in Cores /\ core[p].phase = "confirming"
  BY DEF Base, TypeOK, ConfirmSend
<1>1. core[p].pending # 0 => /\ core[p].pending \in Conns
                             /\ link[core[p].pending].st = "sas"
                             /\ link[core[p].pending].owner = p
  BY PendingFacts
<1>2. \A d \in Conns : link[d].owner = p /\ link[d].st = "sas" => core[p].pending = d
  BY DEF Base, PendingInv
<1>3. CASE core[p].pending # 0
  <2>1. PICK c \in Conns : c = core[p].pending /\ link[c].st = "sas" /\ link[c].owner = p /\ c # 0
    BY <1>1, <1>3
  <2>2. link[c] \in Links /\ ~link[c].tapped
    BY <1>0, <2>1, LinkFacts DEF LinkOk
  <2>3. /\ link'[c].st \in {"sent", "closed"} /\ link'[c].owner = p /\ link'[c].qr = link[c].qr
        /\ link'[c].basis = link[c].basis /\ link'[c].told = link[c].told
        /\ link'[c].tapped => link'[c].st = "sent" /\ link'[c].seen = core[p].shown
        /\ \A d \in Conns \ {c} : link'[d] = link[d]
    <3> DEFINE l1 == [link[c] EXCEPT !.st = "sent", !.tapped = TRUE, !.seen = core[p].shown]
               l2 == [link[c] EXCEPT !.st = "closed"]
    <3>1. /\ l1.st = "sent" /\ l1.owner = p /\ l1.qr = link[c].qr /\ l1.basis = link[c].basis
          /\ l1.told = link[c].told /\ l1.seen = core[p].shown
          /\ l2.st = "closed" /\ l2.owner = p /\ l2.qr = link[c].qr /\ l2.basis = link[c].basis
          /\ l2.told = link[c].told /\ l2.tapped = link[c].tapped
      BY <2>1, <2>2 DEF Links
    <3>2. link' = [link EXCEPT ![c] = l1] \/ link' = [link EXCEPT ![c] = l2]
      BY <1>0, <2>1 DEF ConfirmSend, TypeOK
    <3> HIDE DEF l1, l2
    <3> QED
      BY <1>0, <2>2, <3>1, <3>2 DEF TypeOK
  <2>4. /\ core'[p].pending = 0 /\ core'[p].hosts = core[p].hosts
        /\ core'[p].hints = core[p].hints /\ core'[p].left = core[p].left
        /\ core'[p].phase \in {"confirming", "failed"}
        /\ \A q \in Phones \ {p} : core'[q] = core[q]
    <3> DEFINE c1 == [core[p] EXCEPT !.pending = 0]
               c2 == Show(c1, "failed", 0)
    <3>1. /\ c1 \in Cores /\ c1.pending = 0 /\ c1.hosts = core[p].hosts
          /\ c1.hints = core[p].hints /\ c1.left = core[p].left /\ c1.phase = "confirming"
      BY <1>0 DEF Cores
    <3>2. core' = [core EXCEPT ![p] = c1] \/ core' = [core EXCEPT ![p] = c2]
      BY <1>0, <2>1 DEF ConfirmSend, TypeOK
    <3> HIDE DEF c1
    <3>3. /\ c2.pending = 0 /\ c2.hosts = core[p].hosts
          /\ c2.hints = core[p].hints /\ c2.left = core[p].left /\ c2.phase = "failed"
      BY <3>1, ShowFacts DEF Phases
    <3> HIDE DEF c2
    <3> QED
      BY <1>0, <3>1, <3>2, <3>3 DEF TypeOK
  <2>5. \A d \in Conns : \/ link'[d] = link[d]
                         \/ link'[d].owner = p /\ link[d].owner \in {p, "none"}
    BY <2>1, <2>3
  <2>6. PendingOk(p)'
    BY <1>2, <2>1, <2>3, <2>4 DEF PendingOk
  <2>7. ASSUME ~core'[p].left
        PROVE  ScreenOk(p)' /\ core[p].shown = c
    <3>1. ScreenOk(p)
      BY <2>4, <2>7 DEF Screen, ScreenInv
    <3>2. \A d \in Conns : link[d].owner = p => ~Busy(d)
      BY <1>0, <1>3, <3>1 DEF ScreenOk, Busy
    <3>3. core[p].shown = c /\ core[p].hosts = link[c].qr
      BY <1>0, <2>1, <3>1 DEF ScreenOk
    <3>4. \A d \in Conns : link'[d].owner = p => ~Starting(d)' /\ (link'[d].st = "sent" => d = c)
      BY <2>1, <2>3, <3>2 DEF Busy, Starting
    <3>5. ScreenOk(p)'
      BY <2>3, <2>4, <3>3, <3>4 DEF ScreenOk, Busy
    <3> QED
      BY <3>3, <3>5
  <2>8. PendingInv' /\ ScreenInv'
    BY <2>4, <2>5, <2>6, <2>7, OnePhone DEF Screen
  <2>9. TapsStay
    BY <2>2, <2>3, <2>4 DEF TapsStay
  <2>10. ConfirmsWhatIsShown'
    <3> SUFFICES ASSUME NEW d \in Conns, link'[d].tapped
                 PROVE  link'[d].seen = d \/ core'[link'[d].owner].left
      BY DEF ConfirmsWhatIsShown
    <3>1. CASE d = c
      BY <2>3, <2>7, <3>1
    <3>2. CASE d # c
      <4>1. link'[d] = link[d] /\ link[d].owner \in Phones
        BY <2>3, <3>2, LinkFacts DEF LinkOk
      <4> QED
        BY <2>9, <4>1 DEF Screen, ConfirmsWhatIsShown, TapsStay
    <3> QED
      BY <3>1, <3>2
  <2>11. HintsKnownGood'
    BY <2>4, <2>9 DEF Screen, HintsKnownGood, TapsStay
  <2> QED
    BY <2>8, <2>9, <2>10, <2>11 DEF Screen
<1>4. CASE core[p].pending = 0
  <2>1. link' = link
    BY <1>4 DEF ConfirmSend
  <2>2. /\ core'[p].pending = 0 /\ core'[p].hosts = core[p].hosts
        /\ core'[p].hints = core[p].hints /\ core'[p].left = core[p].left
        /\ core'[p].phase = "failed"
        /\ \A q \in Phones \ {p} : core'[q] = core[q]
    <3> DEFINE c1 == Show(core[p], "failed", 0)
    <3>1. core' = [core EXCEPT ![p] = c1]
      BY <1>0, <1>4 DEF ConfirmSend, TypeOK
    <3>2. /\ c1.pending = core[p].pending /\ c1.hosts = core[p].hosts
          /\ c1.hints = core[p].hints /\ c1.left = core[p].left /\ c1.phase = "failed"
      BY <1>0, ShowFacts DEF Phases
    <3> HIDE DEF c1
    <3> QED
      BY <1>0, <1>4, <3>1, <3>2 DEF TypeOK
  <2>3. PendingOk(p)'
    BY <1>2, <1>4, <2>1, <2>2 DEF PendingOk
  <2>4. ASSUME ~core'[p].left
        PROVE  ScreenOk(p)'
    <3>1. ScreenOk(p)
      BY <2>2, <2>4 DEF Screen, ScreenInv
    <3> QED
      BY <1>0, <2>1, <2>2, <3>1 DEF ScreenOk, Busy, Starting
  <2>5. PendingInv' /\ ScreenInv'
    BY <2>1, <2>2, <2>3, <2>4, OnePhone DEF Screen
  <2>6. TapsStay
    BY <2>1, <2>2 DEF TapsStay
  <2>7. ConfirmsWhatIsShown' /\ HintsKnownGood'
    BY <2>1, <2>2, <2>6, NothingConfirmed
  <2> QED
    BY <2>5, <2>6, <2>7 DEF Screen
<1> QED
  BY <1>3, <1>4

(* A call of UnderWay is one that is Busy. *)
LEMMA NotUnderWay ==
  ASSUME NEW p, ~UnderWay(p), NEW d \in Conns, link[d].owner = p
  PROVE  ~Busy(d)
BY DEF UnderWay, Busy, Starting

(* cancel_pairing. *)
LEMMA CancelPairingPhone ==
  ASSUME Base, Screen, GoodInv', NEW p \in Phones, CancelPairing(p)
  PROVE  PendingInv' /\ Screen' /\ TapsStay
<1> DEFINE co == [core[p] EXCEPT !.pending = 0, !.hosts = 0]
<1>0. TypeOK /\ core[p] \in Cores
  BY DEF Base, TypeOK
<1>1. co \in Cores /\ co.pending = 0 /\ co.hints = core[p].hints /\ co.left = core[p].left
  BY <1>0 DEF Cores
<1>2. core' = [core EXCEPT ![p] = Leave(p, co)]
  BY DEF CancelPairing
<1> HIDE DEF co
<1>3. /\ core'[p].pending = 0 /\ core'[p].hints = core[p].hints /\ core'[p].phase = "idle"
      /\ core'[p].left = (core[p].left \/ UnderWay(p))
      /\ \A q \in Phones \ {p} : core'[q] = core[q]
  BY <1>0, <1>1, <1>2, LeaveFacts DEF TypeOK
<1>4. core[p].pending # 0 => /\ core[p].pending \in Conns
                             /\ link[core[p].pending].st = "sas"
                             /\ link[core[p].pending].owner = p
  BY PendingFacts
<1>5. \A d \in Conns :
        IF d = core[p].pending
        THEN /\ link'[d].st = "closed" /\ link'[d].owner = link[d].owner /\ link'[d].qr = link[d].qr
             /\ link'[d].basis = link[d].basis /\ link'[d].told = link[d].told
             /\ link'[d].tapped = link[d].tapped /\ link'[d].seen = link[d].seen
        ELSE link'[d] = link[d]
  BY <1>0 DEF TypeOK, CancelPairing, Links
<1>6. \A d \in Conns : \/ link'[d] = link[d]
                       \/ link'[d].owner = p /\ link[d].owner \in {p, "none"}
  BY <1>4, <1>5, LinkFacts
<1>7. PendingOk(p)'
  <2>1. \A d \in Conns : link[d].owner = p /\ link[d].st = "sas" => core[p].pending = d
    BY DEF Base, PendingInv
  <2> QED
    BY <1>3, <1>5, <2>1 DEF PendingOk
<1>8. ASSUME ~core'[p].left
      PROVE  ScreenOk(p)'
  <2>1. \A d \in Conns : link[d].owner = p => ~Busy(d)
    BY <1>3, <1>8, NotUnderWay
  <2>2. \A d \in Conns : link'[d].owner = p => ~Busy(d)'
    BY <1>5, <2>1 DEF Busy, Starting
  <2> QED
    BY <1>3, <2>2 DEF ScreenOk, Busy
<1>9. PendingInv' /\ ScreenInv'
  BY <1>3, <1>6, <1>7, <1>8, OnePhone DEF Screen
<1>10. TapsStay
  BY <1>3, <1>5 DEF TapsStay
<1>11. ConfirmsWhatIsShown' /\ HintsKnownGood'
  BY <1>3, <1>5, <1>10, NothingConfirmed
<1> QED
  BY <1>9, <1>10, <1>11 DEF Screen

(* forget_peer leaves the screen, but neither cancels nor stops anything. *)
LEMMA ForgetPeerPhone ==
  ASSUME Base, Screen, GoodInv', NEW p \in Phones, ForgetPeer(p)
  PROVE  PendingInv' /\ Screen' /\ TapsStay
<1> DEFINE co == [core[p] EXCEPT !.paired = FALSE]
<1>0. TypeOK /\ core[p] \in Cores
  BY DEF Base, TypeOK
<1>1. /\ co \in Cores /\ co.pending = core[p].pending /\ co.hints = core[p].hints
      /\ co.left = core[p].left
  BY <1>0 DEF Cores
<1>2. core' = [core EXCEPT ![p] = Leave(p, co)] /\ link' = link
  BY DEF ForgetPeer
<1> HIDE DEF co
<1>3. /\ core'[p].pending = core[p].pending /\ core'[p].hints = core[p].hints
      /\ core'[p].phase = "idle" /\ core'[p].left = (core[p].left \/ UnderWay(p))
      /\ \A q \in Phones \ {p} : core'[q] = core[q]
  BY <1>0, <1>1, <1>2, LeaveFacts DEF TypeOK
<1>4. PendingOk(p)'
  BY <1>2, <1>3, PendingFacts DEF PendingOk, Base, PendingInv
<1>5. ASSUME ~core'[p].left
      PROVE  ScreenOk(p)'
  <2>1. \A d \in Conns : link'[d].owner = p => ~Busy(d)'
    BY <1>2, <1>3, <1>5, NotUnderWay DEF Busy, Starting
  <2> QED
    BY <1>3, <2>1 DEF ScreenOk, Busy
<1>6. PendingInv' /\ ScreenInv'
  BY <1>2, <1>3, <1>4, <1>5, OnePhone DEF Screen
<1>7. TapsStay
  BY <1>2, <1>3 DEF TapsStay
<1>8. ConfirmsWhatIsShown' /\ HintsKnownGood'
  BY <1>2, <1>3, <1>7, NothingConfirmed
<1> QED
  BY <1>6, <1>7, <1>8 DEF Screen

(* The app stops: its calls die with it. *)
LEMMA AppStopsPhone ==
  ASSUME Base, Screen, GoodInv', NEW p \in Phones, AppStops(p)
  PROVE  PendingInv' /\ Screen' /\ TapsStay
<1>0. TypeOK /\ core[p] \in Cores
  BY DEF Base, TypeOK
<1>1. /\ core'[p].pending = 0 /\ core'[p].hints = {} /\ core'[p].phase = "idle"
      /\ core'[p].left = core[p].left /\ \A q \in Phones \ {p} : core'[q] = core[q]
  BY <1>0 DEF AppStops, TypeOK, Cores, Show
<1>2. \A d \in Conns :
        IF link[d].owner = p
        THEN /\ link'[d].st = "closed" /\ link'[d].owner = p /\ link'[d].qr = link[d].qr
             /\ link'[d].told /\ link'[d].tapped = link[d].tapped /\ link'[d].seen = link[d].seen
        ELSE link'[d] = link[d]
  <2> SUFFICES ASSUME NEW d \in Conns, link[d].owner = p
               PROVE  /\ link'[d].st = "closed" /\ link'[d].owner = p /\ link'[d].qr = link[d].qr
                      /\ link'[d].told /\ link'[d].tapped = link[d].tapped
                      /\ link'[d].seen = link[d].seen
    BY DEF AppStops
  <2>1. link'[d] = [link[d] EXCEPT !.st = "closed", !.told = TRUE] /\ link[d] \in Links
    BY <1>0 DEF AppStops, TypeOK
  <2> QED
    BY <2>1 DEF Links
<1>3. \A d \in Conns : \/ link'[d] = link[d]
                       \/ link'[d].owner = p /\ link[d].owner \in {p, "none"}
  BY <1>2
<1>4. PendingOk(p)'
  BY <1>1, <1>2 DEF PendingOk
<1>5. ScreenOk(p)'
  <2>1. \A d \in Conns : link'[d].owner = p => ~Busy(d)'
    BY <1>2 DEF Busy, Starting
  <2> QED
    BY <1>1, <2>1 DEF ScreenOk, Busy
<1>6. PendingInv' /\ ScreenInv'
  BY <1>1, <1>3, <1>4, <1>5, OnePhone DEF Screen
<1>7. TapsStay
  BY <1>1, <1>2 DEF TapsStay
<1>8. ConfirmsWhatIsShown' /\ HintsKnownGood'
  BY <1>1, <1>2, <1>7, NothingConfirmed
<1> QED
  BY <1>6, <1>7, <1>8 DEF Screen

-----------------------------------------------------------------------------
(* The lists of phones. *)

(* A task that is done stays done. *)
DoneStays == \A c \in Conns : task[c].done => task'[c].done

(* Whoever confirmed has confirmed. *)
LEMMA ConfirmedStays ==
  ASSUME TapsStay, DoneStays, NEW p, ConfirmedPhone(p)
  PROVE  ConfirmedPhone(p)'
BY DEF TapsStay, DoneStays, ConfirmedPhone

(* SavedInv lasts while every list that is new names confirmed phones. *)
LEMMA ListsGood ==
  ASSUME SavedInv, TapsStay, DoneStays,
         \A p \in stored' \cup peers' \cup tmp'.all :
            ConfirmedPhone(p) \/ p \in stored \cup peers \cup tmp.all
              \/ \E c \in Conns : p \in task[c].all,
         \A c \in Conns : \A p \in task'[c].all :
            ConfirmedPhone(p) \/ p \in stored \cup peers \cup tmp.all \cup task[c].all
  PROVE  SavedInv'
<1>1. \A p : ConfirmedPhone(p) => ConfirmedPhone(p)'
  BY ConfirmedStays
<1>2. \A p \in stored' \cup peers' \cup tmp'.all : ConfirmedPhone(p)
  BY DEF SavedInv
<1>3. \A c \in Conns : \A p \in task'[c].all : ConfirmedPhone(p)
  BY DEF SavedInv
<1> QED
  BY <1>1, <1>2, <1>3 DEF SavedInv

(* A phone's step changes no list. *)
LEMMA SavedByPhone ==
  ASSUME Base, SavedInv, TapsStay, UNCHANGED <<stored, peers, tmp>>,
         task' = task \/ \E c \in Conns : Dial(c)
  PROVE  SavedInv' /\ DoneStays
<1>1. TypeOK
  BY DEF Base
<1>2. \A c \in Conns : task'[c].all = task[c].all /\ task'[c].done = task[c].done
  BY <1>1 DEF TypeOK, Tasks, Dial
<1> QED
  BY <1>2, ListsGood DEF DoneStays

(* A step of the PC's: its lists are old ones, or old ones and the phone   *)
(* of a task that is done.                                                 *)
LEMMA SavedByPc ==
  ASSUME Base, SavedInv, TapsStay, NEW c \in Conns,
         PcNext(c) \/ PcLoadFails(c) \/ PcSaveFails(c)
  PROVE  SavedInv'
<1>0. TypeOK /\ task[c] \in Tasks
  BY DEF Base, TypeOK
<1>1. ASSUME task[c].done
      PROVE  ConfirmedPhone(task[c].basis.phone)
  BY <1>1 DEF Base, GoodInv, Good, ConnOk, TaskOk, ConfirmedPhone
<1>2. task[c].st = "Completed" => task[c].done
  BY DEF Base, GoodInv, Good, ConnOk, TaskOk, Completing
<1>3. CASE PcLoad(c) \/ PcLoadFails(c)
  <2>1. /\ task'[c].all \subseteq stored \cup {task[c].basis.phone} /\ task'[c].done = task[c].done
        /\ \A d \in Conns \ {c} : task'[d] = task[d]
    <3>1. \E all \in SUBSET (stored \cup {task[c].basis.phone}) :
            task' = [task EXCEPT ![c] = [task[c] EXCEPT !.st = "loaded", !.all = all]]
      BY <1>0, <1>3 DEF PcLoad, PcLoadFails, TypeOK
    <3> QED
      BY <1>0, <3>1 DEF TypeOK, Tasks
  <2>2. UNCHANGED <<stored, peers, tmp>>
    BY <1>3 DEF PcLoad, PcLoadFails, pcRest
  <2>3. ConfirmedPhone(task[c].basis.phone)
    BY <1>1, <1>2, <1>3 DEF PcLoad, PcLoadFails
  <2> QED
    BY <2>1, <2>2, <2>3, ListsGood DEF DoneStays
<1>4. CASE ~(PcLoad(c) \/ PcLoadFails(c))
  <2>1. PICK t : /\ task' = [task EXCEPT ![c] = t]
                 /\ t.all = task[c].all /\ (task[c].done => t.done)
    <3>1. \/ \E st : task' = [task EXCEPT ![c] = [task[c] EXCEPT !.st = st]]
          \/ \E b : task' = [task EXCEPT ![c] =
                                [task[c] EXCEPT !.st = "AwaitingConfirm", !.basis = b]]
          \/ task' = [task EXCEPT ![c] = [task[c] EXCEPT !.st = "Completed", !.done = TRUE]]
      <4>1. CASE \E ok \in BOOLEAN : PairReqAccepted(c, ok)
        BY <1>0, <4>1 DEF PairReqAccepted, TypeOK
      <4>2. CASE \/ PairReqRefused(c) \/ PairReqNoWindow(c) \/ PcMalformed(c)
                 \/ PcEnd(c) \/ PcMismatch(c)
        BY <1>0, <4>2 DEF PairReqRefused, PairReqNoWindow, PcMalformed, PcEnd, PcMismatch,
                          TaskFails, TaskEnds, TypeOK
      <4>3. CASE PcConfirm(c)
        BY <1>0, <4>3 DEF PcConfirm, TypeOK
      <4>4. CASE PcWrite(c) \/ PcRename(c) \/ PcSaveFails(c) \/ PcComplete(c)
        BY <1>0, <4>4 DEF PcWrite, PcRename, PcSaveFails, PcComplete, TypeOK
      <4> QED
        BY <1>4, <4>1, <4>2, <4>3, <4>4 DEF PcNext
    <3> QED
      BY <1>0, <3>1 DEF Tasks
  <2>2. /\ task'[c].all = task[c].all /\ (task[c].done => task'[c].done)
        /\ \A d \in Conns \ {c} : task'[d] = task[d]
    BY <1>0, <2>1 DEF TypeOK
  <2>3. /\ tmp'.all \subseteq tmp.all \cup task[c].all
        /\ stored' \subseteq stored \cup tmp.all
        /\ peers' \subseteq peers \cup task[c].all
    <3>1. CASE PcWrite(c) \/ PcRename(c) \/ PcSaveFails(c) \/ PcComplete(c)
      BY <3>1 DEF PcWrite, PcRename, PcSaveFails, PcComplete, NoFile
    <3>2. CASE ~(PcWrite(c) \/ PcRename(c) \/ PcSaveFails(c) \/ PcComplete(c))
      <4>1. UNCHANGED pcRest
        BY <1>4, <3>2 DEF PcNext, PairReqAccepted, PairReqRefused, PairReqNoWindow, PcMalformed,
                          PcEnd, PcConfirm, PcMismatch, TaskFails, TaskEnds
      <4> QED
        BY <4>1 DEF pcRest
    <3> QED
      BY <3>1, <3>2
  <2> QED
    BY <2>2, <2>3, ListsGood DEF DoneStays
<1> QED
  BY <1>3, <1>4

-----------------------------------------------------------------------------
(* The whole invariant. *)

IInv == Base /\ SavedInv /\ Screen

(* Nothing has happened. *)
LEMMA InitIInv == Init => IInv
<1> SUFFICES ASSUME Init PROVE IInv
  OBVIOUS
<1>1. TypeOK
  <2>1. NoBasis \in Bases
    BY DEF NoBasis, Bases
  <2>2. core \in [Phones -> Cores]
    BY DEF Init, Cores, Phases
  <2>3. link \in [Conns -> Links] /\ task \in [Conns -> Tasks]
    BY <2>1 DEF Init, Links, Tasks
  <2>4. toPc \in [Conns -> Seq(Frames)] /\ toPhone \in [Conns -> Seq(Frames)]
    BY DEF Init
  <2>5. /\ now \in 0..MaxNow /\ opened \in 0..MaxOpens /\ faults \in 0..MaxFaults
        /\ offer \in [token : Windows \cup {0}, issued : 0..MaxNow]
    BY PairingAssumption DEF Init, NoOffer
  <2> QED
    BY <2>2, <2>3, <2>4, <2>5 DEF Init, TypeOK, NoFile
<1>2. GoodInv
  <2> SUFFICES ASSUME NEW c \in Conns
               PROVE  Good(c, link[c], task[c], In(toPc[c]), In(toPhone[c]), faults)
    BY DEF GoodInv
  <2>1. In(toPc[c]) = {} /\ In(toPhone[c]) = {}
    BY SmallStreams DEF Init
  <2> QED
    BY <2>1 DEF Init, Good, ConnOk, LinkOk, FramesOk, TaskOk, ConnAgrees, Completing
<1>3. OfferInv /\ PendingInv
  BY DEF Init, OfferInv, PendingInv
<1>4. SavedInv
  BY DEF Init, SavedInv, NoFile
<1>5. Screen
  BY DEF Init, Screen, ScreenInv, ScreenOk, Busy, Starting, ConfirmsWhatIsShown, HintsKnownGood
<1> QED
  BY <1>1, <1>2, <1>3, <1>4, <1>5 DEF IInv, Base

(* The phone's steps. *)
LEMMA PhoneStep ==
  ASSUME IInv, PhoneNext
  PROVE  IInv'
<1>0. Base /\ Screen /\ SavedInv
  BY DEF IInv
<1>1. TypeOK' /\ GoodInv'
  BY <1>0, StartPairingBase, ConfirmSendBase, CancelPairingBase, ForgetPeerBase, AppStopsBase,
     DialBase, PhoneAckBase, PhoneShowBase, StartFailsBase, ConfirmStoreBase DEF PhoneNext
<1>2. PendingInv' /\ Screen' /\ TapsStay
  BY <1>0, <1>1, StartPairingPhone, ConfirmSendPhone, CancelPairingPhone, ForgetPeerPhone,
     AppStopsPhone, DialPhone, PhoneAckPhone, PhoneShowPhone, StartFailsPhone, ConfirmStorePhone
     DEF PhoneNext
<1>3. /\ UNCHANGED <<stored, peers, tmp, offer>>
      /\ task' = task \/ \E c \in Conns : Dial(c)
  BY DEF PhoneNext, StartPairing, ConfirmSend, CancelPairing, ForgetPeer, AppStops,
         Dial, PhoneAck, PhoneShow, StartFails, ConfirmStore, pcOwn
<1>4. SavedInv'
  BY <1>0, <1>2, <1>3, SavedByPhone
<1>5. OfferInv'
  BY <1>0, <1>3 DEF Base, OfferInv
<1> QED
  BY <1>1, <1>2, <1>4, <1>5 DEF IInv, Base

(* The steps of the PC's tasks. *)
LEMMA PcStep ==
  ASSUME IInv, NEW c \in Conns, PcNext(c) \/ PcLoadFails(c) \/ PcSaveFails(c)
  PROVE  IInv'
<1>0. Base /\ Screen /\ SavedInv
  BY DEF IInv
<1>1. TypeOK' /\ GoodInv'
  BY <1>0, PairReqAcceptedBase, GivesUpBase, PcConfirmBase, StoringBase DEF PcNext
<1>2. UNCHANGED phoneOwn /\ offer' \in {offer, NoOffer}
  BY DEF PcNext, PairReqAccepted, PairReqRefused, PairReqNoWindow, PcMalformed, PcEnd, PcConfirm,
         PcMismatch, TaskFails, TaskEnds, PcLoad, PcLoadFails, PcWrite, PcRename, PcSaveFails,
         PcComplete, pcRest
<1>3. PendingInv' /\ Screen' /\ TapsStay
  BY <1>0, <1>2, PhonesAlone
<1>4. SavedInv'
  BY <1>0, <1>3, SavedByPc
<1>5. OfferInv'
  BY <1>0, <1>2 DEF Base, OfferInv
<1> QED
  BY <1>1, <1>3, <1>4, <1>5 DEF IInv, Base

(* The user of the PC, the clock, the agent's restart and the network. *)
LEMMA OtherStep ==
  ASSUME IInv, OpenPairing \/ Tick \/ AgentRestarts \/ \E c \in Conns : Alter(c)
  PROVE  IInv'
<1>0. Base /\ Screen /\ SavedInv /\ TypeOK
  BY DEF IInv, Base
<1>1. TypeOK' /\ GoodInv'
  BY <1>0, ClockBase, AgentRestartsBase, AlterBase
<1>2. UNCHANGED phoneOwn
  BY DEF OpenPairing, Tick, AgentRestarts, Alter
<1>3. PendingInv' /\ Screen' /\ TapsStay
  BY <1>0, <1>2, PhonesAlone
<1>4. OfferInv'
  <2>1. opened + 1 # 0
    BY <1>0, PairingAssumption DEF TypeOK
  <2> QED
    BY <1>0, <2>1 DEF Base, OfferInv, OpenPairing, Tick, AgentRestarts, Alter, pcOwn
<1>5. SavedInv'
  <2>1. /\ stored' = stored /\ tmp' = tmp /\ peers' \subseteq peers \cup stored
    BY DEF OpenPairing, Tick, AgentRestarts, Alter, pcOwn
  <2>2. \A c \in Conns : task'[c].all = task[c].all /\ task'[c].done = task[c].done
    <3>1. CASE AgentRestarts
      BY <1>0, <3>1 DEF AgentRestarts, TypeOK, Tasks
    <3>2. CASE ~AgentRestarts
      BY <3>2 DEF OpenPairing, Tick, Alter, pcOwn
    <3> QED
      BY <3>1, <3>2
  <2> QED
    BY <1>0, <1>3, <2>1, <2>2, ListsGood DEF DoneStays
<1> QED
  BY <1>1, <1>3, <1>4, <1>5 DEF IInv, Base

(* No step breaks the invariant. *)
LEMMA NextIInv == IInv /\ [Next]_vars => IInv'
<1> SUFFICES ASSUME IInv, [Next]_vars PROVE IInv'
  OBVIOUS
<1>1. CASE Next
  BY <1>1, PhoneStep, PcStep, OtherStep DEF Next
<1>2. CASE UNCHANGED vars
  <2>1. Base' /\ SavedInv'
    BY <1>2 DEF IInv, Base, TypeOK, GoodInv, OfferInv, PendingInv, SavedInv, ConfirmedPhone, vars
  <2>2. Screen'
    BY <1>2 DEF IInv, Screen, ScreenInv, ScreenOk, Busy, Starting, ConfirmsWhatIsShown,
                HintsKnownGood, vars
  <2> QED
    BY <2>1, <2>2 DEF IInv
<1> QED
  BY <1>1, <1>2

(* The invariant holds of every reachable state. *)
THEOREM PairingInvariant == Spec => []IInv
BY InitIInv, NextIInv, PTL DEF Spec

(* Every variable keeps its type. *)
THEOREM TypeCorrect == Spec => []TypeOK
<1>1. IInv => TypeOK
  BY DEF IInv, Base
<1> QED
  BY <1>1, PairingInvariant, PTL

(* The PC accepts a phone (on_confirm) only if the phone's user confirmed  *)
(* the code of that connection, computed from the keys and the token the   *)
(* PC computed it from, however many frames were altered on the way.       *)
THEOREM UserConfirmed == Spec => []ConfirmedByUser
<1>1. IInv => ConfirmedByUser
  BY DEF IInv, Base, GoodInv, Good, ConnOk, TaskOk, ConfirmedByUser
<1> QED
  BY <1>1, PairingInvariant, PTL

(* However tasks that rewrite the pairings file interleave, crash or fail, *)
(* it and the agent's list of peers name only phones whose user confirmed. *)
THEOREM StoredOnlyConfirmed == Spec => []StoredConfirmed
<1>1. IInv => StoredConfirmed
  BY DEF IInv, SavedInv, ConfirmedPhone, StoredConfirmed
<1> QED
  BY <1>1, PairingInvariant, PTL

(* An exchange waits for the user exactly if it is the pending one of its  *)
(* phone's CoreHandle: confirm_sas and cancel_pairing reach all of them.   *)
THEOREM PendingWaits == Spec => []PendingIsTheWaitingOne
<1>1. IInv => PendingIsTheWaitingOne
  <2> SUFFICES ASSUME IInv, NEW c \in Conns
               PROVE  link[c].st = "sas"
                        <=> \E p \in Phones : core[p].pending = c /\ link[c].owner = p
    BY DEF PendingIsTheWaitingOne
  <2>1. Base
    BY DEF IInv
  <2>2. ASSUME link[c].st = "sas"
        PROVE  link[c].owner \in Phones /\ core[link[c].owner].pending = c
    BY <2>1, <2>2, OwnerFacts DEF Base, PendingInv
  <2>3. ASSUME NEW p \in Phones, core[p].pending = c
        PROVE  link[c].st = "sas"
    BY <2>1, <2>3, PendingFacts, LinkFacts
  <2> QED
    BY <2>2, <2>3
<1> QED
  BY <1>1, PairingInvariant, PTL

(* While no frame was altered, both screens show the same code.            *)
THEOREM CodesMatch == Spec => []CodesAgree
<1>1. IInv => CodesAgree
  BY DEF IInv, Base, GoodInv, Good, ConnAgrees, CodesAgree
<1> QED
  BY <1>1, PairingInvariant, PTL

(* A user who never left the screen during a call of start_pairing or      *)
(* confirm_sas has confirmed the code that was on the screen: start_pairing *)
(* publishes the pending exchange before the app shows its code, and still *)
(* the tap is never applied to another exchange.                           *)
THEOREM ConfirmedWhatWasShown == Spec => []ConfirmsWhatIsShown
<1>1. IInv => ConfirmsWhatIsShown
  BY DEF IInv, Screen
<1> QED
  BY <1>1, PairingInvariant, PTL

(* For such a user, the address hints of confirm_sas are those of a QR     *)
(* over which the phone has paired.                                        *)
THEOREM HintsAreKnownGood == Spec => []HintsKnownGood
<1>1. IInv => HintsKnownGood
  BY DEF IInv, Screen
<1> QED
  BY <1>1, PairingInvariant, PTL

=============================================================================
