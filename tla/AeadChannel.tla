----------------------------- MODULE AeadChannel -----------------------------
(***************************************************************************)
(* The encrypted channel of crates/airclip-core/src/crypto.rs: two ends,   *)
(* each with a sending and a receiving direction.  A direction is a key    *)
(* and a 64-bit counter; a sealed frame carries the counter it was sealed  *)
(* under, and the receiver accepts only counters above the highest one it  *)
(* has accepted.                                                           *)
(*                                                                         *)
(* The transport between the ends is as unkind as the code allows for: any *)
(* frame ever sealed may arrive any number of times, in any order, under   *)
(* another frame type, with another counter prefix, damaged or cut short.  *)
(* The cipher itself is ideal: a ciphertext opens exactly under the key,   *)
(* nonce and associated data it was made with.                             *)
(***************************************************************************)
EXTENDS Integers, Sequences

CONSTANTS
  MaxCtr,      \* the largest counter value (2^64 - 1 in the code)
  FrameTypes,  \* the encrypted frame types
  Messages     \* the plaintexts

ASSUME MaxCtrAssumption == MaxCtr \in Nat

VARIABLES
  tx,      \* tx[e]: the counter the next frame sealed by e will use
  rx,      \* rx[e]: highest counter e has accepted, and whether it has any
  sealed,  \* sealed[e]: history of the frames e has put on the wire
  opened,  \* opened[e]: history of the frames e has accepted
  last     \* what the latest call returned

vars == <<tx, rx, sealed, opened, last>>

Ends == {"phone", "pc"}
Keys == {"p2c", "c2p"}
Counters == 0..MaxCtr

Peer(e) == IF e = "phone" THEN "pc" ELSE "phone"

(* AeadChannel::new is given (p2c, c2p) by the phone and (c2p, p2c) by the PC. *)
TxKey(e) == IF e = "phone" THEN "p2c" ELSE "c2p"
RxKey(e) == IF e = "phone" THEN "c2p" ELSE "p2c"

Frames == [key : Keys, ctr : Counters, ty : FrameTypes, msg : Messages]

Results == [end : Ends, call : {"none", "seal", "open"}, ok : BOOLEAN]

TypeOK ==
  /\ tx \in [Ends -> Counters]
  /\ rx \in [Ends -> [ctr : Counters, seen_any : BOOLEAN]]
  /\ sealed \in [Ends -> Seq(Frames)]
  /\ opened \in [Ends -> Seq(Frames)]
  /\ last \in Results

Init ==
  /\ tx = [e \in Ends |-> 0]
  /\ rx = [e \in Ends |-> [ctr |-> 0, seen_any |-> FALSE]]
  /\ sealed = [e \in Ends |-> <<>>]
  /\ opened = [e \in Ends |-> <<>>]
  /\ last = [end |-> "phone", call |-> "none", ok |-> TRUE]

Returns(e, c, r) == last' = [end |-> e, call |-> c, ok |-> r]

-----------------------------------------------------------------------------
(* Sealing.  The ciphertext is made first and the counter advanced after;  *)
(* when the advance would overflow the call fails and the ciphertext, made *)
(* under the last counter value, is dropped.                               *)

Seal_Wrapping(e, ty, m) ==  \* mutant: wrapping_add instead of checked_add
  /\ sealed' = [sealed EXCEPT ![e] =
                  Append(@, [key |-> TxKey(e), ctr |-> tx[e], ty |-> ty, msg |-> m])]
  /\ tx' = [tx EXCEPT ![e] = (@ + 1) % (MaxCtr + 1)]
  /\ Returns(e, "seal", TRUE)
  /\ UNCHANGED <<rx, opened>>

Seal_Unchecked(e, ty, m) ==  \* mutant: the counter is never checked at all
  /\ sealed' = [sealed EXCEPT ![e] =
                  Append(@, [key |-> TxKey(e), ctr |-> tx[e], ty |-> ty, msg |-> m])]
  /\ tx' = [tx EXCEPT ![e] = @ + 1]
  /\ Returns(e, "seal", TRUE)
  /\ UNCHANGED <<rx, opened>>

Seal(e, ty, m) ==
  /\ tx[e] < MaxCtr
  /\ sealed' = [sealed EXCEPT ![e] =
                  Append(@, [key |-> TxKey(e), ctr |-> tx[e], ty |-> ty, msg |-> m])]
  /\ tx' = [tx EXCEPT ![e] = @ + 1]
  /\ Returns(e, "seal", TRUE)
  /\ UNCHANGED <<rx, opened>>

SealExhausted(e) ==
  /\ tx[e] = MaxCtr
  /\ Returns(e, "seal", FALSE)
  /\ UNCHANGED <<tx, rx, sealed, opened>>

-----------------------------------------------------------------------------
(* Opening.  A frame on the wire is a type, a counter prefix and a          *)
(* ciphertext f; the ciphertext is one that was sealed by either end.       *)

Replayed_AllowsEqual(e, ctr) == rx[e].seen_any /\ ctr < rx[e].ctr  \* mutant

Replayed(e, ctr) == rx[e].seen_any /\ ctr <= rx[e].ctr

Decrypts_TypeUnbound(e, ty, ctr, f) == f.key = RxKey(e) /\ f.ctr = ctr  \* mutant

(* The ideal cipher: right key, right nonce, right associated data. *)
Decrypts(e, ty, ctr, f) == f.key = RxKey(e) /\ f.ctr = ctr /\ f.ty = ty

Accepts(e, ty, ctr, f) == ~Replayed(e, ctr) /\ Decrypts(e, ty, ctr, f)

OpenOk(e, ty, ctr, f) ==
  /\ Accepts(e, ty, ctr, f)
  /\ rx' = [rx EXCEPT ![e] = [ctr |-> ctr, seen_any |-> TRUE]]
  /\ opened' = [opened EXCEPT ![e] = Append(@, [f EXCEPT !.ty = ty])]
  /\ Returns(e, "open", TRUE)
  /\ UNCHANGED <<tx, sealed>>

OpenErr_AdvancesFirst(e, ty, ctr, f) ==  \* mutant: counter advanced before decrypting
  /\ ~Accepts(e, ty, ctr, f)
  /\ rx' = [rx EXCEPT ![e] = IF Replayed(e, ctr) THEN @ ELSE [ctr |-> ctr, seen_any |-> TRUE]]
  /\ Returns(e, "open", FALSE)
  /\ UNCHANGED <<tx, sealed, opened>>

OpenErr(e, ty, ctr, f) ==
  /\ ~Accepts(e, ty, ctr, f)
  /\ Returns(e, "open", FALSE)
  /\ UNCHANGED <<tx, rx, sealed, opened>>

Open(e, ty, ctr, f) == OpenOk(e, ty, ctr, f) \/ OpenErr(e, ty, ctr, f)

(* A payload shorter than the counter prefix, or one whose ciphertext was  *)
(* damaged under way: the call fails and changes nothing.                  *)
OpenDamaged(e) ==
  /\ Returns(e, "open", FALSE)
  /\ UNCHANGED <<tx, rx, sealed, opened>>

Next ==
  \E e \in Ends :
    \/ \E ty \in FrameTypes, m \in Messages : Seal(e, ty, m)
    \/ SealExhausted(e)
    \/ \E ty \in FrameTypes, ctr \in Counters, d \in Ends :
         \E i \in 1..Len(sealed[d]) : Open(e, ty, ctr, sealed[d][i])
    \/ OpenDamaged(e)

Spec == Init /\ [][Next]_vars

-----------------------------------------------------------------------------
(* Safety. *)

(* No two frames on the wire share a key and a nonce, whichever end sealed *)
(* them and however close the counter is to its limit: seal returns an     *)
(* error rather than wrap, and the two ends never seal under one key.      *)
NonceNeverReused ==
  \A d, e \in Ends : \A i \in 1..Len(sealed[d]), j \in 1..Len(sealed[e]) :
    /\ sealed[d][i].key = sealed[e][j].key
    /\ sealed[d][i].ctr = sealed[e][j].ctr
    => d = e /\ i = j

(* The counters an end accepts are strictly increasing, so no frame is     *)
(* accepted twice or after a later one, whatever the transport repeats.    *)
OpenedInOrder ==
  \A e \in Ends : \A i, j \in 1..Len(opened[e]) :
    i < j => opened[e][i].ctr < opened[e][j].ctr

(* Whatever an end accepts, its peer sealed, under that very type: not the *)
(* end itself (a reflected frame) and not as another kind of frame.        *)
OpenedAuthentic ==
  \A e \in Ends : \A i \in 1..Len(opened[e]) :
    \E j \in 1..Len(sealed[Peer(e)]) : opened[e][i] = sealed[Peer(e)][j]

(* Nothing the transport delivers can wedge the channel: a frame the peer  *)
(* sealed after everything accepted so far is still accepted when it       *)
(* arrives intact, the very first one (counter 0) included.                *)
NeverWedged ==
  \A e \in Ends : \A j \in 1..Len(sealed[Peer(e)]) :
    LET f == sealed[Peer(e)][j] IN
      (\A i \in 1..Len(opened[e]) : opened[e][i].ctr < f.ctr)
        => Accepts(e, f.ty, f.ctr, f)

=============================================================================
