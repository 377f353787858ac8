---------------------------- MODULE BeamDelivery ----------------------------
(***************************************************************************)
(* What beaming promises its user, without connections, frames or tasks: a *)
(* clip that is under way is delivered at most once or lost; the user is   *)
(* told "Ok" only of a clip that was delivered and "refused" only of one   *)
(* that was not and never will be; and only what was let in before the PC  *)
(* was paused is delivered after.  Session implements it.                  *)
(***************************************************************************)
EXTENDS Integers

CONSTANT Clips

VARIABLES
  underWay,   \* clips that may still be delivered
  letIn,      \* those of them that will be, if they are not lost
  delivered,  \* deliveries: each clip delivered and when
  acked,      \* clips reported as sent
  refused,    \* clips reported as refused
  paused

vars == <<underWay, letIn, delivered, acked, refused, paused>>

Delivered(x) == \E d \in delivered : d.clip = x

Init ==
  /\ underWay = {} /\ letIn = {} /\ delivered = {} /\ acked = {} /\ refused = {}
  /\ paused = FALSE

Beam(x) ==
  /\ x \notin underWay \cup refused /\ ~Delivered(x)
  /\ underWay' = underWay \cup {x}
  /\ UNCHANGED <<letIn, delivered, acked, refused, paused>>

(* The PC looks whether it is paused, and then delivers in a step of its   *)
(* own.                                                                    *)
LetIn(x) ==
  /\ x \in underWay /\ ~paused
  /\ letIn' = letIn \cup {x}
  /\ UNCHANGED <<underWay, delivered, acked, refused, paused>>

(* Delivering may be the last thing a connection does: what else was under *)
(* way on it is then lost.                                                 *)
Deliver(x) ==
  /\ x \in letIn /\ x \in underWay
  /\ underWay' \subseteq underWay \ {x} /\ letIn' = letIn \ {x}
  /\ \E d \in delivered' : /\ d.clip = x
                          /\ delivered' = delivered \cup {d}
                          /\ \A e \in delivered : e.at < d.at
  /\ UNCHANGED <<acked, refused, paused>>

Lose ==
  /\ underWay' \subseteq underWay /\ letIn' \subseteq letIn
  /\ UNCHANGED <<delivered, acked, refused, paused>>

Ack(x) ==
  /\ Delivered(x)
  /\ acked' = acked \cup {x}
  /\ UNCHANGED <<underWay, letIn, delivered, refused, paused>>

Refuse(x) ==
  /\ x \notin underWay /\ ~Delivered(x)
  /\ refused' = refused \cup {x}
  /\ UNCHANGED <<underWay, letIn, delivered, acked, paused>>

SetPaused ==
  /\ paused' = ~paused
  /\ UNCHANGED <<underWay, letIn, delivered, acked, refused>>

Next ==
  \/ \E x \in Clips : Beam(x) \/ LetIn(x) \/ Deliver(x) \/ Ack(x) \/ Refuse(x)
  \/ Lose \/ SetPaused

Spec == Init /\ [][Next]_vars

=============================================================================
