-------------------------- MODULE AeadChannelProofs --------------------------
(***************************************************************************)
(* The channel's invariants for every counter width, every set of frame    *)
(* types and every set of plaintexts.  None of the four properties is      *)
(* inductive alone: they follow from two facts that are.                   *)
(*   SealedInv: the i-th frame an end sealed carries counter i - 1 and the *)
(*              end's own key, and tx is the number of frames sealed.      *)
(*   OpenedInv: what an end opened came from its peer, in counter order,   *)
(*              and rx is the counter of the latest of them.               *)
(***************************************************************************)
EXTENDS AeadChannel, TLAPS

SealedInv ==
  \A e \in Ends :
    /\ Len(sealed[e]) = tx[e]
    /\ \A i \in 1..Len(sealed[e]) :
         sealed[e][i].ctr = i - 1 /\ sealed[e][i].key = TxKey(e)

OpenedInv ==
  \A e \in Ends :
    /\ rx[e].seen_any <=> Len(opened[e]) > 0
    /\ Len(opened[e]) > 0 => rx[e].ctr = opened[e][Len(opened[e])].ctr

IInv == TypeOK /\ SealedInv /\ OpenedInv /\ OpenedInOrder /\ OpenedAuthentic

-----------------------------------------------------------------------------

(* Each end receives under the key its peer sends with, and the two        *)
(* directions have different keys.                                         *)
LEMMA KeysOfPeers ==
  \A e \in Ends : /\ Peer(e) \in Ends
                  /\ TxKey(e) \in Keys
                  /\ RxKey(e) = TxKey(Peer(e))
                  /\ \A d \in Ends : TxKey(d) = RxKey(e) => d = Peer(e)
                  /\ \A d \in Ends : TxKey(d) = TxKey(e) => d = e
BY DEF Ends, Keys, Peer, TxKey, RxKey

(* Every seal and open call, on any transport, keeps the five variables in *)
(* their types; in particular the send counter never exceeds its width.    *)
THEOREM TypeCorrect == Spec => []TypeOK
<1>1. Init => TypeOK
  BY MaxCtrAssumption DEF Init, TypeOK, Ends, Counters, Results
<1>2. TypeOK /\ [Next]_vars => TypeOK'
  <2> SUFFICES ASSUME TypeOK, [Next]_vars PROVE TypeOK'
    OBVIOUS
  <2> USE MaxCtrAssumption DEF TypeOK, Counters
  <2>1. CASE UNCHANGED vars
    BY <2>1 DEF vars
  <2>2. ASSUME NEW e \in Ends, NEW ty \in FrameTypes, NEW m \in Messages, Seal(e, ty, m)
        PROVE  TypeOK'
    <3>1. [key |-> TxKey(e), ctr |-> tx[e], ty |-> ty, msg |-> m] \in Frames
      BY KeysOfPeers DEF Frames
    <3>2. sealed' \in [Ends -> Seq(Frames)]
      BY <2>2, <3>1 DEF Seal
    <3>3. tx' \in [Ends -> Counters]
      BY <2>2 DEF Seal
    <3>4. QED
      BY <2>2, <3>2, <3>3 DEF Seal, Returns, Results
  <2>3. ASSUME NEW e \in Ends, SealExhausted(e) PROVE TypeOK'
    BY <2>3 DEF SealExhausted, Returns, Results
  <2>4. ASSUME NEW e \in Ends, NEW ty \in FrameTypes, NEW ctr \in Counters, NEW d \in Ends,
               NEW i \in 1..Len(sealed[d]), Open(e, ty, ctr, sealed[d][i])
        PROVE  TypeOK'
    <3>1. sealed[d][i] \in Frames
      OBVIOUS
    <3>2. CASE OpenOk(e, ty, ctr, sealed[d][i])
      <4>1. [sealed[d][i] EXCEPT !.ty = ty] \in Frames
        BY <3>1 DEF Frames
      <4>2. opened' \in [Ends -> Seq(Frames)]
        BY <3>2, <4>1 DEF OpenOk
      <4>3. QED
        BY <3>2, <4>2 DEF OpenOk, Returns, Results
    <3>3. CASE OpenErr(e, ty, ctr, sealed[d][i])
      BY <3>3 DEF OpenErr, Returns, Results
    <3>4. QED
      BY <2>4, <3>2, <3>3 DEF Open
  <2>5. ASSUME NEW e \in Ends, OpenDamaged(e) PROVE TypeOK'
    BY <2>5 DEF OpenDamaged, Returns, Results
  <2>6. QED
    BY <2>1, <2>2, <2>3, <2>4, <2>5 DEF Next
<1>3. QED
  BY <1>1, <1>2, PTL DEF Spec

-----------------------------------------------------------------------------

(* A fresh channel satisfies the inductive invariant. *)
LEMMA InitIInv == Init => IInv
<1> SUFFICES ASSUME Init PROVE IInv
  OBVIOUS
<1>1. TypeOK
  BY MaxCtrAssumption DEF Init, TypeOK, Ends, Counters, Results
<1>2. SealedInv /\ OpenedInv /\ OpenedInOrder /\ OpenedAuthentic
  BY DEF Init, SealedInv, OpenedInv, OpenedInOrder, OpenedAuthentic
<1>3. QED
  BY <1>1, <1>2 DEF IInv

(* What the types say of one end, in the form the steps below use. *)
LEMMA EndTypes ==
  ASSUME TypeOK, NEW e \in Ends
  PROVE  /\ tx[e] \in Nat /\ tx[e] \in Counters /\ rx[e].ctr \in Nat
         /\ sealed[e] \in Seq(Frames) /\ Len(sealed[e]) \in Nat
         /\ opened[e] \in Seq(Frames) /\ Len(opened[e]) \in Nat
         /\ \A i \in 1..Len(opened[e]) : opened[e][i] \in Frames /\ opened[e][i].ctr \in Nat
         /\ \A i \in 1..Len(sealed[e]) : sealed[e][i] \in Frames /\ sealed[e][i].ctr \in Nat
<1>1. /\ tx[e] \in Counters /\ rx[e].ctr \in Counters
      /\ sealed[e] \in Seq(Frames) /\ opened[e] \in Seq(Frames)
  BY DEF TypeOK
<1>2. \A f \in Frames : f.ctr \in Counters
  BY DEF Frames
<1>3. Counters \subseteq Nat
  BY MaxCtrAssumption DEF Counters
<1>4. ASSUME NEW s \in Seq(Frames)
      PROVE  Len(s) \in Nat /\ \A i \in 1..Len(s) : s[i] \in Frames
  OBVIOUS
<1>5. \A i \in 1..Len(opened[e]) : opened[e][i] \in Frames /\ opened[e][i].ctr \in Nat
  BY <1>1, <1>2, <1>3, <1>4
<1>6. \A i \in 1..Len(sealed[e]) : sealed[e][i] \in Frames /\ sealed[e][i].ctr \in Nat
  BY <1>1, <1>2, <1>3, <1>4
<1>7. QED
  BY <1>1, <1>3, <1>4, <1>5, <1>6

(* Sealing appends one frame whose counter is the number of frames so far. *)
LEMMA SealKeepsIInv ==
  ASSUME IInv, TypeOK',
         NEW e \in Ends, NEW ty \in FrameTypes, NEW m \in Messages, Seal(e, ty, m)
  PROVE  IInv'
<1> DEFINE f == [key |-> TxKey(e), ctr |-> tx[e], ty |-> ty, msg |-> m]
<1>0. TypeOK /\ SealedInv /\ OpenedInv /\ OpenedInOrder /\ OpenedAuthentic
  BY DEF IInv
<1>1. f \in Frames /\ f.ctr = tx[e] /\ f.key = TxKey(e)
  <2>1. TxKey(e) \in Keys /\ tx[e] \in Counters
    BY <1>0, KeysOfPeers, EndTypes
  <2>2. QED
    BY <2>1 DEF Frames
<1> HIDE DEF f
<1>2. /\ sealed' = [sealed EXCEPT ![e] = Append(@, f)]
      /\ tx' = [tx EXCEPT ![e] = @ + 1]
      /\ rx' = rx /\ opened' = opened
  BY DEF Seal, f
<1>3. /\ tx'[e] = tx[e] + 1
      /\ sealed'[e] = Append(sealed[e], f)
      /\ \A d \in Ends \ {e} : tx'[d] = tx[d] /\ sealed'[d] = sealed[d]
  BY <1>0, <1>2 DEF TypeOK
<1>4. /\ Len(sealed'[e]) = Len(sealed[e]) + 1
      /\ sealed'[e][Len(sealed[e]) + 1] = f
      /\ \A i \in 1..Len(sealed[e]) : sealed'[e][i] = sealed[e][i]
  BY <1>0, <1>1, <1>3, EndTypes
<1>5. SealedInv'
  <2> SUFFICES ASSUME NEW d \in Ends
               PROVE  /\ Len(sealed'[d]) = tx'[d]
                      /\ \A i \in 1..Len(sealed'[d]) :
                           sealed'[d][i].ctr = i - 1 /\ sealed'[d][i].key = TxKey(d)
    BY DEF SealedInv, TxKey
  <2>1. CASE d = e
    <3>1. Len(sealed[e]) = tx[e] /\ tx[e] \in Nat
      BY <1>0, EndTypes DEF SealedInv
    <3>2. ASSUME NEW i \in 1..(tx[e] + 1)
          PROVE  sealed'[e][i].ctr = i - 1 /\ sealed'[e][i].key = TxKey(e)
      <4>1. CASE i = tx[e] + 1
        BY <1>1, <1>4, <3>1, <4>1
      <4>2. CASE i # tx[e] + 1
        <5>1. i \in 1..Len(sealed[e])
          BY <3>1, <4>2
        <5>2. QED
          BY <1>0, <1>4, <5>1 DEF SealedInv
      <4>3. QED
        BY <4>1, <4>2
    <3>3. QED
      BY <1>3, <1>4, <2>1, <3>1, <3>2
  <2>2. CASE d # e
    BY <1>0, <1>3, <2>2 DEF SealedInv
  <2>3. QED
    BY <2>1, <2>2
<1>6. OpenedInv' /\ OpenedInOrder'
  BY <1>0, <1>2 DEF OpenedInv, OpenedInOrder
<1>7. OpenedAuthentic'
  <2> SUFFICES ASSUME NEW d \in Ends, NEW i \in 1..Len(opened[d])
               PROVE  \E j \in 1..Len(sealed'[Peer(d)]) : opened[d][i] = sealed'[Peer(d)][j]
    BY <1>2 DEF OpenedAuthentic
  <2>1. PICK j \in 1..Len(sealed[Peer(d)]) : opened[d][i] = sealed[Peer(d)][j]
    BY <1>0 DEF OpenedAuthentic
  <2>2. Peer(d) \in Ends /\ Len(sealed[Peer(d)]) \in Nat
    BY <1>0, KeysOfPeers, EndTypes
  <2>3. j \in 1..Len(sealed'[Peer(d)]) /\ sealed'[Peer(d)][j] = sealed[Peer(d)][j]
    <3>1. CASE Peer(d) = e
      BY <1>4, <2>2, <3>1
    <3>2. CASE Peer(d) # e
      BY <1>3, <2>2, <3>2
    <3>3. QED
      BY <3>1, <3>2
  <2>4. QED
    BY <2>1, <2>3
<1>8. QED
  BY <1>5, <1>6, <1>7 DEF IInv

(* Accepting a frame: it is one of the peer's, later than all accepted. *)
LEMMA OpenKeepsIInv ==
  ASSUME IInv, TypeOK',
         NEW e \in Ends, NEW ty \in FrameTypes, NEW ctr \in Counters, NEW d \in Ends,
         NEW i \in 1..Len(sealed[d]), OpenOk(e, ty, ctr, sealed[d][i])
  PROVE  IInv'
<1> DEFINE f == sealed[d][i]
           n == Len(opened[e])
<1>0. TypeOK /\ SealedInv /\ OpenedInv /\ OpenedInOrder /\ OpenedAuthentic
  BY DEF IInv
<1>1. /\ f \in Frames /\ f.key = RxKey(e) /\ f.ctr = ctr /\ f.ty = ty
      /\ ~Replayed(e, ctr)
      /\ ctr \in Nat
  <2>1. f \in Frames /\ f.ctr \in Nat
    BY <1>0, EndTypes
  <2>2. QED
    BY <2>1 DEF OpenOk, Accepts, Decrypts
<1>2. d = Peer(e)
  <2>1. f.key = TxKey(d)
    BY <1>0 DEF SealedInv
  <2>2. QED
    BY <1>1, <2>1, KeysOfPeers
<1>3. /\ opened' = [opened EXCEPT ![e] = Append(@, f)]
      /\ rx' = [rx EXCEPT ![e] = [ctr |-> ctr, seen_any |-> TRUE]]
      /\ tx' = tx /\ sealed' = sealed
  <2>1. [f EXCEPT !.ty = ty] = f
    BY <1>1 DEF Frames
  <2>2. QED
    BY <2>1 DEF OpenOk
<1>4. f \in Frames /\ \E k \in 1..Len(sealed[Peer(e)]) : f = sealed[Peer(e)][k]
  BY <1>1, <1>2
<1> HIDE DEF f
<1>5. /\ opened'[e] = Append(opened[e], f)
      /\ rx'[e].seen_any = TRUE /\ rx'[e].ctr = ctr
      /\ \A c \in Ends \ {e} : opened'[c] = opened[c] /\ rx'[c] = rx[c]
  BY <1>0, <1>3 DEF TypeOK
<1>6. /\ n \in Nat /\ Len(opened'[e]) = n + 1
      /\ opened'[e][n + 1] = f
      /\ \A j \in 1..n : opened'[e][j] = opened[e][j]
      /\ \A j \in 1..n : opened[e][j].ctr \in Nat
      /\ rx[e].ctr \in Nat
  BY <1>0, <1>4, <1>5, EndTypes
<1>7. \A j \in 1..n : opened[e][j].ctr < ctr
  <2> SUFFICES ASSUME NEW j \in 1..n PROVE opened[e][j].ctr < ctr
    OBVIOUS
  <2>1. n > 0 /\ rx[e].ctr = opened[e][n].ctr
    BY <1>0, <1>6 DEF OpenedInv
  <2>2. rx[e].ctr < ctr
    BY <1>0, <1>1, <1>6, <2>1 DEF OpenedInv, Replayed
  <2>3. j # n => opened[e][j].ctr < opened[e][n].ctr
    BY <1>0, <1>6, <2>1 DEF OpenedInOrder
  <2> HIDE DEF n
  <2>4. QED
    BY <1>1, <1>6, <2>1, <2>2, <2>3
<1> HIDE DEF n
<1>8. SealedInv'
  BY <1>0, <1>3 DEF SealedInv, TxKey
<1>9. OpenedInv'
  <2> SUFFICES ASSUME NEW c \in Ends
               PROVE  /\ rx'[c].seen_any <=> Len(opened'[c]) > 0
                      /\ Len(opened'[c]) > 0 => rx'[c].ctr = opened'[c][Len(opened'[c])].ctr
    BY DEF OpenedInv
  <2>1. CASE c = e
    BY <1>1, <1>5, <1>6, <2>1 DEF f
  <2>2. CASE c # e
    BY <1>0, <1>5, <2>2 DEF OpenedInv
  <2>3. QED
    BY <2>1, <2>2
<1>10. OpenedInOrder'
  <2> SUFFICES ASSUME NEW c \in Ends, NEW j \in 1..Len(opened'[c]),
                      NEW k \in 1..Len(opened'[c]), j < k
               PROVE  opened'[c][j].ctr < opened'[c][k].ctr
    BY DEF OpenedInOrder
  <2>1. CASE c = e
    <3>0. j \in 1..(n + 1) /\ k \in 1..(n + 1)
      BY <1>6, <2>1
    <3>1. CASE k = n + 1
      <4>1. j \in 1..n /\ opened'[e][j] = opened[e][j]
        BY <1>6, <3>0, <3>1
      <4>2. opened'[e][k].ctr = ctr
        BY <1>1, <1>6, <3>1 DEF f
      <4>3. QED
        BY <1>7, <2>1, <4>1, <4>2
    <3>2. CASE k # n + 1
      <4>1. j \in 1..n /\ k \in 1..n
        BY <1>6, <3>0, <3>2
      <4>2. opened[e][j].ctr < opened[e][k].ctr
        BY <1>0, <4>1 DEF OpenedInOrder, n
      <4>3. QED
        BY <1>6, <2>1, <4>1, <4>2
    <3>3. QED
      BY <3>1, <3>2
  <2>2. CASE c # e
    BY <1>0, <1>5, <2>2 DEF OpenedInOrder
  <2>3. QED
    BY <2>1, <2>2
<1>11. OpenedAuthentic'
  <2> SUFFICES ASSUME NEW c \in Ends, NEW j \in 1..Len(opened'[c])
               PROVE  \E k \in 1..Len(sealed[Peer(c)]) : opened'[c][j] = sealed[Peer(c)][k]
    BY <1>3 DEF OpenedAuthentic, Peer
  <2>1. CASE c = e /\ j = n + 1
    BY <1>4, <1>6, <2>1
  <2>2. CASE c = e /\ j # n + 1
    <3>1. j \in 1..n /\ opened'[c][j] = opened[e][j]
      BY <1>6, <2>2
    <3>2. QED
      BY <1>0, <2>2, <3>1 DEF OpenedAuthentic, n
  <2>3. CASE c # e
    BY <1>0, <1>5, <2>3 DEF OpenedAuthentic
  <2>4. QED
    BY <2>1, <2>2, <2>3
<1>12. QED
  BY <1>8, <1>9, <1>10, <1>11 DEF IInv

(* The two facts and the properties they carry hold in every state. *)
THEOREM ChannelInvariant == Spec => []IInv
<1>1. IInv /\ TypeOK' /\ [Next]_vars => IInv'
  <2> SUFFICES ASSUME IInv, TypeOK', [Next]_vars PROVE IInv'
    OBVIOUS
  <2>0. ASSUME UNCHANGED <<tx, rx, sealed, opened>> PROVE IInv'
    BY <2>0 DEF IInv, SealedInv, OpenedInv, OpenedInOrder, OpenedAuthentic
  <2>1. CASE UNCHANGED vars
    BY <2>0, <2>1 DEF vars
  <2>2. ASSUME NEW e \in Ends, NEW ty \in FrameTypes, NEW m \in Messages, Seal(e, ty, m)
        PROVE  IInv'
    BY <2>2, SealKeepsIInv
  <2>3. ASSUME NEW e \in Ends, SealExhausted(e) \/ OpenDamaged(e) PROVE IInv'
    BY <2>0, <2>3 DEF SealExhausted, OpenDamaged
  <2>4. ASSUME NEW e \in Ends, NEW ty \in FrameTypes, NEW ctr \in Counters, NEW d \in Ends,
               NEW i \in 1..Len(sealed[d]), Open(e, ty, ctr, sealed[d][i])
        PROVE  IInv'
    <3>1. CASE OpenOk(e, ty, ctr, sealed[d][i])
      BY <3>1, OpenKeepsIInv
    <3>2. CASE OpenErr(e, ty, ctr, sealed[d][i])
      BY <2>0, <3>2 DEF OpenErr
    <3>3. QED
      BY <2>4, <3>1, <3>2 DEF Open
  <2>5. QED
    BY <2>1, <2>2, <2>3, <2>4 DEF Next
<1>2. QED
  BY <1>1, InitIInv, TypeCorrect, PTL DEF Spec

-----------------------------------------------------------------------------

(* seal never puts two frames under one key and nonce on the wire. *)
THEOREM NoncesUnique == Spec => []NonceNeverReused
<1>1. IInv => NonceNeverReused
  <2> SUFFICES ASSUME IInv, NEW d \in Ends, NEW e \in Ends,
                      NEW i \in 1..Len(sealed[d]), NEW j \in 1..Len(sealed[e]),
                      sealed[d][i].key = sealed[e][j].key,
                      sealed[d][i].ctr = sealed[e][j].ctr
               PROVE  d = e /\ i = j
    BY DEF NonceNeverReused
  <2>1. d = e
    BY KeysOfPeers DEF IInv, SealedInv
  <2>2. i - 1 = j - 1
    BY DEF IInv, SealedInv
  <2>3. QED
    BY <2>1, <2>2
<1>2. QED
  BY <1>1, ChannelInvariant, PTL

(* open accepts each frame at most once and never out of order. *)
THEOREM NoReplay == Spec => []OpenedInOrder
<1>1. IInv => OpenedInOrder
  BY DEF IInv
<1>2. QED
  BY <1>1, ChannelInvariant, PTL

(* open accepts only frames the peer sealed, under the very type they were *)
(* sealed with, and never an end's own frame reflected to it.              *)
THEOREM OnlyThePeer == Spec => []OpenedAuthentic
<1>1. IInv => OpenedAuthentic
  BY DEF IInv
<1>2. QED
  BY <1>1, ChannelInvariant, PTL

(* Whatever has arrived, the peer's next intact frame is still accepted. *)
THEOREM ChannelStaysOpen == Spec => []NeverWedged
<1>1. IInv => NeverWedged
  <2> SUFFICES ASSUME IInv, NEW e \in Ends, NEW j \in 1..Len(sealed[Peer(e)]),
                      \A i \in 1..Len(opened[e]) : opened[e][i].ctr < sealed[Peer(e)][j].ctr
               PROVE  Accepts(e, sealed[Peer(e)][j].ty, sealed[Peer(e)][j].ctr,
                              sealed[Peer(e)][j])
    BY DEF NeverWedged
  <2> USE DEF TypeOK, Counters
  <2>0. Peer(e) \in Ends /\ RxKey(e) = TxKey(Peer(e))
    BY KeysOfPeers
  <2>1. sealed[Peer(e)][j].key = RxKey(e) /\ sealed[Peer(e)][j] \in Frames
    BY <2>0 DEF IInv, SealedInv
  <2>2. ~Replayed(e, sealed[Peer(e)][j].ctr)
    <3> SUFFICES ASSUME rx[e].seen_any, sealed[Peer(e)][j].ctr <= rx[e].ctr PROVE FALSE
      BY DEF Replayed
    <3>1. Len(opened[e]) \in Nat \ {0} /\ rx[e].ctr = opened[e][Len(opened[e])].ctr
      BY DEF IInv, OpenedInv
    <3>2. rx[e].ctr < sealed[Peer(e)][j].ctr
      BY <3>1
    <3>3. QED
      BY <2>1, <3>2, MaxCtrAssumption DEF IInv, Frames
  <2>3. QED
    BY <2>1, <2>2 DEF Accepts, Decrypts
<1>2. QED
  BY <1>1, ChannelInvariant, PTL

=============================================================================
