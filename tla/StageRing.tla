------------------------------ MODULE StageRing ------------------------------
(***************************************************************************)
(* The ring as a component: what a caller of stage.rs sees over a whole    *)
(* history of calls.  Stage identities are 8 random bytes in the code and  *)
(* fresh numbers here.                                                     *)
(***************************************************************************)
EXTENDS StageOps

CONSTANTS
  Lens,     \* body lengths a copy may have
  MaxPushes \* bound: copies in one behaviour

ASSUME LensAssumption == Lens \subseteq Nat /\ MaxPushes \in Nat

VARIABLES
  items,   \* the ring
  staged,  \* history: every clip accepted since the ring was last cleared
  pushes   \* number of push calls so far

vars == <<items, staged, pushes>>

Clips == [id : Nat, len : Lens]

(* Types; a clip longer than MAX_TEXT_CLIP is never in the ring. *)
TypeOK ==
  /\ items \in Seq({c \in Clips : c.len <= MaxLen})
  /\ staged \in Seq(Clips)
  /\ pushes \in Nat

Init ==
  /\ items = <<>>
  /\ staged = <<>>
  /\ pushes = 0

Push(n) ==
  /\ pushes < MaxPushes
  /\ LET c == [id |-> pushes, len |-> n] IN
       /\ items' = PushInto(items, c)
       /\ staged' = IF n > MaxLen THEN staged ELSE Append(staged, c)
  /\ pushes' = pushes + 1

Clear ==
  /\ items' = <<>>
  /\ staged' = <<>>
  /\ UNCHANGED pushes

Next == (\E n \in Lens : Push(n)) \/ Clear

Spec == Init /\ [][Next]_vars

-----------------------------------------------------------------------------

(* The number of clips the ring should hold. *)
Kept == IF Len(staged) < RingDepth THEN Len(staged) ELSE RingDepth

(* The ring is exactly the newest RingDepth clips accepted since the last  *)
(* clear, in the order they were copied: a rejected push evicts nothing, a *)
(* full ring gives up its oldest clip and only that, and a ring asked for  *)
(* with depth zero still holds the newest clip.                            *)
KeepsNewest ==
  /\ Len(items) = Kept
  /\ \A i \in 1..Len(items) : items[i] = staged[Len(staged) - Len(items) + i]

=============================================================================
