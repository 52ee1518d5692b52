----------------------------- MODULE MCFailover -----------------------------
(* Instances of Failover: operators are interchangeable, members are not,    *)
(* since their index orders them.                                            *)
EXTENDS Failover, TLC

CONSTANTS ann, bob, w1, w2

Symmetry == Permutations(Operators)
=============================================================================
