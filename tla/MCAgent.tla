------------------------------- MODULE MCAgent -------------------------------
(* Instances of Agent: texts that are empty, at the length limit, and      *)
(* above it.                                                               *)
EXTENDS Agent

MCLens == {0, 1, 2}
=============================================================================
