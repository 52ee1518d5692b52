------------------------------ MODULE MCScale ------------------------------
(* Instances of Scale.                                                       *)
EXTENDS Scale

CONSTANTS ann, bob, w1, w2
=============================================================================
