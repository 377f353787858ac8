------------------------------ MODULE FrameFifo ------------------------------
(***************************************************************************)
(* What the framed connection of client.rs and server.rs promises in one   *)
(* direction: the frames handed to send come out of next, each once and in *)
(* order, until the connection is over; and while it is not over, every    *)
(* frame comes out in the end.                                             *)
(***************************************************************************)
EXTENDS Naturals, Sequences

CONSTANT Frames

VARIABLES
  sent,   \* frames accepted by send
  taken,  \* frames next has returned
  over    \* whether the connection has ended

vars == <<sent, taken, over>>

Init == sent = <<>> /\ taken = <<>> /\ over = FALSE

Send ==
  /\ \E f \in Frames : sent' = Append(sent, f)
  /\ UNCHANGED <<taken, over>>

Take ==
  /\ ~over /\ Len(taken) < Len(sent)
  /\ taken' = Append(taken, sent[Len(taken) + 1])
  /\ UNCHANGED <<sent, over>>

End == ~over /\ over' = TRUE /\ UNCHANGED <<sent, taken>>

Next == Send \/ Take \/ End

Spec == Init /\ [][Next]_vars /\ WF_vars(Take)

=============================================================================
