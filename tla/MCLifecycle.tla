---------------------------- MODULE MCLifecycle ----------------------------
(* Instances of Lifecycle: operators are interchangeable.                    *)
EXTENDS Lifecycle, TLC

CONSTANTS ann, bob, w1, w2

Symmetry == Permutations(Operators)
=============================================================================
