---------------------------- MODULE MCOperations ----------------------------
(* Instances of Operations.                                                  *)
EXTENDS Operations, TLC

CONSTANTS ann, bob, w1, w2

OpSymmetry == Permutations(Operators)
=============================================================================
