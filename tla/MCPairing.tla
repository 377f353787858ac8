------------------------------ MODULE MCPairing ------------------------------
(* Instances of Pairing: two connections, of one phone or of two.          *)
EXTENDS Pairing

MCConns == {1, 2}

(* The phones are interchangeable, so the first connection may be taken to *)
(* be one phone's; TLC's symmetry is not sound for liveness.               *)
First == CHOOSE p \in Phones : TRUE
MCNext == Next /\ link'[1].owner \in {"none", First}
MCSpec == Init /\ [][MCNext]_vars /\ WF_vars(\E c \in Conns : PcNext(c))
=============================================================================
