------------------------------ MODULE MCSession ------------------------------
(* An instance of Session: beamed clips at and above the length limit.     *)
EXTENDS Session

MCLens == {1, 2}
=============================================================================
