-------------------------------- MODULE Dict --------------------------------
(***************************************************************************)
(* The Python dictionary operations the chain state is written with, on    *)
(* functions whose domain is the set of keys the dictionary holds, and the *)
(* sum(...values()) the supply and quorum tests take over them.            *)
(***************************************************************************)
EXTENDS Integers, Functions

\* d.get(k, 0)
Get(d, k) == IF k \in DOMAIN d THEN d[k] ELSE 0

\* d[k] = v, whether or not the key is there
Put(d, k, v) == [x \in DOMAIN d \cup {k} |-> IF x = k THEN v ELSE d[x]]

\* d.pop(k, None)
Pop(d, k) == [x \in DOMAIN d \ {k} |-> d[x]]

\* A dictionary with keys in K and values in V
IsDict(d, K, V) == DOMAIN d \subseteq K /\ d \in [DOMAIN d -> V]
=============================================================================
