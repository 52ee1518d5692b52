----------------------------- MODULE Leadership -----------------------------
(***************************************************************************)
(* What operators expect of failover, whatever happens between its calls:  *)
(* at most one member is, or is on its way to be, the primary, and a       *)
(* member takes the lead only when nobody has it.                          *)
(***************************************************************************)
CONSTANT Members

VARIABLE leaders    \* the members that are primary or about to become it

LeadershipInit == \E m \in Members : leaders = {m}

Elect(m) ==
  /\ leaders = {}
  /\ leaders' = {m}

StepDown ==
  /\ leaders # {}
  /\ leaders' = {}

LeadershipNext == StepDown \/ \E m \in Members : Elect(m)

LeadershipSpec == LeadershipInit /\ [][LeadershipNext]_leaders
=============================================================================
