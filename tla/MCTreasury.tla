----------------------------- MODULE MCTreasury -----------------------------
(* Treasury for TLC. *)
EXTENDS Treasury, TLC

GuardianSymmetry == Permutations(People)

MCLimits == {[cap |-> 2, len |-> 2], [cap |-> 1, len |-> 3],
             [cap |-> 0, len |-> 0], [cap |-> 1, len |-> 0]}
=============================================================================
