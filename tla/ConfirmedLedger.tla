--------------------------- MODULE ConfirmedLedger --------------------------
(***************************************************************************)
(* What a node promises its clients about the chain it shows them: a head  *)
(* that may be reorganised, and a final part of it that may not.  Both are *)
(* the sequences of blocks from genesis.                                   *)
(***************************************************************************)
EXTENDS Naturals, Sequences

VARIABLES
    head,  \* the chain shown to clients
    final  \* its final part

Prefix(a, b) == Len(a) <= Len(b) /\ \A i \in 1 .. Len(a) : a[i] = b[i]

Init ==
    /\ head = << >>
    /\ final = << >>

\* The chain grows or is replaced above its final part.
MoveHead ==
    /\ Prefix(final, head')
    /\ UNCHANGED final

\* More of the chain becomes final, at the latest when it is shown.
Finalize ==
    /\ Len(final) < Len(final')
    /\ Prefix(final, final')
    /\ Prefix(final', head')

Next == MoveHead \/ Finalize

Spec == Init /\ [][Next]_<<head, final>>
=============================================================================
