------------------------------ MODULE MCPgNode ------------------------------
(* Instances of PgNode.                                                      *)
EXTENDS PgNode

CONSTANTS m0, m1, m2, s1, s2
=============================================================================
