------------------------------ MODULE StageOps ------------------------------
(***************************************************************************)
(* The operations of the staged-clip ring of crates/airclip-core/src/      *)
(* stage.rs, as operators on a ring value: a sequence of clips, oldest     *)
(* first.  A clip is an identity and a body; of the body only the length   *)
(* matters here.                                                           *)
(***************************************************************************)
EXTENDS Integers, Sequences

CONSTANTS
  Depth,   \* the depth StageRing::new is asked for
  MaxLen   \* the longest body that may be staged (MAX_TEXT_CLIP)

ASSUME StageAssumption == Depth \in Nat /\ MaxLen \in Nat

(* StageRing::new clamps a depth of zero to one. *)
RingDepth == IF Depth = 0 THEN 1 ELSE Depth

Oversize(c) == c.len > MaxLen

(* Mutant: room is made before the clip is known to be acceptable. *)
PushInto_EvictFirst(ring, c) ==
  LET room == IF Len(ring) = RingDepth THEN Tail(ring) ELSE ring
  IN  IF Oversize(c) THEN room ELSE Append(room, c)

(* Mutant: the ring counts as full one clip too late. *)
PushInto_OffByOne(ring, c) ==
  IF Oversize(c) THEN ring
  ELSE IF Len(ring) > RingDepth THEN Append(Tail(ring), c)
  ELSE Append(ring, c)

(* push and push_with_id: an oversize clip changes nothing; otherwise the  *)
(* oldest clip makes room when the ring is full.                           *)
PushInto(ring, c) ==
  IF Oversize(c) THEN ring
  ELSE IF Len(ring) = RingDepth THEN Append(Tail(ring), c)
  ELSE Append(ring, c)

(* list: newest first. *)
ListOf_OldestFirst(ring) == ring  \* mutant
ListOf(ring) == [i \in 1..Len(ring) |-> ring[Len(ring) + 1 - i]]

(* get: whether the ring still holds an identity. *)
Holds(ring, id) == \E i \in 1..Len(ring) : ring[i].id = id

=============================================================================
