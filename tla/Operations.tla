----------------------------- MODULE Operations -----------------------------
(***************************************************************************)
(* The commands of pgctl on one cluster at the same time: Failover, Scale  *)
(* with setreplicas, and Upgrade share nothing but the API server and the  *)
(* pods, and nothing keeps one from running between two calls of another.  *)
(***************************************************************************)
EXTENDS Failover, Scale, Upgrade

CONSTANT MaxCommands   \* bound on the runs of all commands together

ASSUME CommandsAssumption == MaxCommands \in Nat

failoverVars == <<pc, reg, runs>>
opVars == <<clusterVars, failoverVars, scaleVars, rollVars>>

OpInit == Init /\ ScaleOnlyInit /\ RollOnlyInit

OpNext ==
  /\ \/ \E o \in Operators :
          \/ Command(o) /\ UNCHANGED <<scaleVars, rollVars>>
          \/ ScaleCommand(o) /\ UNCHANGED <<failoverVars, rollVars>>
          \/ RollCommand(o) /\ UNCHANGED <<failoverVars, scaleVars>>
     \/ ClusterNext /\ UNCHANGED <<failoverVars, scaleVars, rollVars>>
  /\ runs' + scales' + rolls' <= MaxCommands

OpSpec == OpInit /\ [][OpNext]_opVars

-----------------------------------------------------------------------------
(* Properties.                                                             *)

\* Clients of the write service never reach two servers of the cluster's database that
\* both take commits, whatever failovers, scales and upgrades run at the same time.  A
\* member whose first start was cut short may have become a server of its own, and is one
\* more when a failover takes it for a standby.
OneWriter == \A m, n \in Writers \ Strays : m = n

\* Behind OneWriter: whoever is promoted is the first of all members, so that scale, which
\* takes the indexes behind the last one, never brings back a member that has led and
\* whose claim is still there.
LowestLeads ==
  Prompt =>
    /\ \A i \in Armed, j \in rs : i <= j
    /\ \A i \in rsMaster, j \in rs : j < i => j \in podMaster
    /\ \A o \in Operators : pc[o] \in {"getRS", "updateRS", "updatePod"} =>
         \A j \in rs : j < reg[o].pod => j \in podMaster
    /\ \A o \in Operators : scalePc[o] = "getMaster" => rs \subseteq scaleReg[o].seen \cup podMaster
    /\ \A o \in Operators : scalePc[o] \in Filling =>
         \A i \in rs \cup Armed : i < scaleReg[o].at

\* What keeps OneWriter and ImplementsLeadership true under all the commands: the
\* invariant of failover, and that no scale creates a member that leads.
OpIInv ==
  /\ IInv /\ LowestLeads
  /\ ScaleTypeOK /\ (\A o \in Operators : InRange(o))
  /\ RollTypeOK

\* What the theorems about OpIInv ask of the operators in return: no scale or setreplicas
\* runs beside another, and nobody removes the ReplicaSet of a pod that a failover is
\* about to label.
OneAfterTheOther ==
  /\ overlapped' = {}
  /\ \A o \in Operators :
       pc[o] \in {"getRS", "updateRS", "updatePod"} => reg[o].pod \notin rs \ rs'

\* What a run of upgrade has behind it, with failovers beside it: the new image is in
\* the template of every member it has passed and, but for the pods it overlooked
\* because they lacked the label it had listed, in its pod.
RolledUnlessPromoted(o) ==
  LET r == rollReg[o] IN
  rollPc[o] \in RollCalls =>
    /\ r.todo \subseteq r.sets /\ r.todo # {}
    /\ (r.sets \ r.todo) \cap rs \subseteq rsNew
    /\ (r.sets \ r.todo) \cap pods \subseteq podNew \cup overlooked[o]
    /\ \A i \in Idx : Current(o, i) =>
         /\ rollPc[o] # "update" /\ i \in rs => i \in rsNew
         /\ rollPc[o] = "kill" => r.pod = i /\ (i \in pods \ podNew => r.uid = uid[i])
         /\ rollPc[o] \in {"wait", "testFind", "testExec"} /\ i \in pods =>
              i \in podNew \cup overlooked[o]

\* The invariant behind UpgradeMissesOnlyPromoted: as long as nobody has scaled.
OpRollIInv ==
  /\ TypeOK /\ RollTypeOK
  /\ ScaleTypeOK /\ (\A o \in Operators : InRange(o))
  /\ scales = 0 => \A o \in Operators : scalePc[o] \in ScaleEnded /\ RolledUnlessPromoted(o)

\* An upgrade may overlook a pod only when a failover had labelled its template before
\* the upgrade started, and not yet the pod when the upgrade looked for it; every other
\* member it listed, the master included, runs the new image when it reports success,
\* unless scale made it meanwhile.
UpgradeMissesOnlyPromoted ==
  [][\A o \in Operators : rollPc[o] = "testExec" /\ rollPc'[o] = "ok" /\ scales = 0 =>
       rollReg[o].sets \cap pods \subseteq podNew \cup overlooked[o]]_opVars
=============================================================================
