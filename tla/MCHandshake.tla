----------------------------- MODULE MCHandshake -----------------------------
(* An instance of Handshake: two connections, a clock that leaves the      *)
(* replay window, phones whose clock is right or too far ahead.            *)
EXTENDS Handshake

MCConns == {1, 2}
MCSkews == {0, 2}
=============================================================================
