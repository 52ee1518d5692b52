----------------------------- MODULE MCUpgrade -----------------------------
(* Instances of Upgrade.                                                     *)
EXTENDS Upgrade

CONSTANTS ann, bob, w1, w2
=============================================================================
