------------------------------ MODULE MCGossip ------------------------------
(***************************************************************************)
(* Small instances of Gossip: two validators that are elected in turn, and *)
(* an observer that joins through the first one and advertises a host name. *)
(***************************************************************************)
EXTENDS Gossip

CONSTANTS n1, n2, n3

ElectedInTurn(b) == IF Len(b) < 2 THEN n1 ELSE n2

\* A second block on genesis whose branch wins a tie.
FirstTwin == {<<0>>}

\* The parent of this block is nowhere.
Junk == {<<2, 2>>}

Line == [n \in Nodes |-> IF n = n1 THEN Nodes \ {n1} ELSE {n1}]
=============================================================================
