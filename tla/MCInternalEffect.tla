---------------------------- MODULE MCInternalEffect ----------------------------
(* Instances of InternalEffect: two approvals that share the plan or the key. *)
EXTENDS InternalEffect, TLC

CONSTANTS p1, p2, k1, k2

A(p, k, n) == [plan |-> p, key |-> k, issue |-> n]
MCPlans == {p1, p2}
MCKeys == {k1, k2}
OnePlan == {p1}
TwoKeys == {A(p1, k1, 1), A(p1, k2, 1)}
TwoPlans == {A(p1, k1, 1), A(p2, k1, 1)}
Symmetry == Permutations(Workers \ Shells)
=============================================================================
