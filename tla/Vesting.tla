------------------------------ MODULE Vesting -------------------------------
(***************************************************************************)
(* The release schedule of vesting.py: nothing before the cliff, then      *)
(* linear in the block height up to the whole grant.                       *)
(***************************************************************************)
EXTENDS Integers

Grant == [total : Nat, start : Nat, cliff : Nat, duration : Nat]

\* Base units of a grant released by a height.
Vested(g, height) ==
    CASE g.duration = 0 -> g.total
      [] g.duration > 0 /\ height < g.start + g.cliff -> 0
      [] g.duration > 0 /\ height >= g.start + g.cliff ->
            IF height >= g.start + g.duration
            THEN g.total
            ELSE (g.total * (height - g.start)) \div g.duration

\* Base units still locked at a height.
Locked(g, height) == g.total - Vested(g, height)
=============================================================================
