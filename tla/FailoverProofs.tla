--------------------------- MODULE FailoverProofs ---------------------------
(***************************************************************************)
(* Theorems about Failover for every size of cluster, every set of         *)
(* operators and every bound.  With a prompt ReplicaSet controller the     *)
(* members that lead (Leaders) all carry the master label, so the second   *)
(* getMasterPod of a run, which wants exactly one labelled pod, sees any   *)
(* leader there is: a step either leaves the leaders alone, loses the one  *)
(* there was, or makes the only labelled member the leader.                *)
(***************************************************************************)
EXTENDS Failover, ClusterProofs

USE NAssumption, EnvironmentAssumption, OperatorsAssumption

-----------------------------------------------------------------------------
(* Types.                                                                  *)

\* The initial state is well-typed.
LEMMA TypeInit == Init => TypeOK
<1> SUFFICES ASSUME Init PROVE TypeOK
  OBVIOUS
<1>1. ClusterTypeOK
  BY ClusterTypeInit DEF Init
<1>2. NothingRead \in Registers
  BY DEF NothingRead, Registers, Idx
<1> QED
  BY <1>1, <1>2 DEF Init, TypeOK, Over, Ended

\* The end of a run with an error is well-typed.
LEMMA TypeAbort ==
  ASSUME TypeOK, NEW o \in Operators, Abort(o)
  PROVE  /\ pc' \in [Operators -> Ended \cup Calls]
         /\ reg' \in [Operators -> Registers]
<1>1. NothingRead \in Registers
  BY DEF NothingRead, Registers, Idx
<1> QED
  BY <1>1 DEF TypeOK, Abort, Goto, Over, Ended

\* What setreplicas.sh and the deletion of a pod do to a volume that is set up: nothing.
LEMMA CommandVolumes ==
  ASSUME TypeOK, NEW o \in Operators, Command(o)
  PROVE  /\ disk' \in [Idx -> Disks]
         /\ \A k \in Idx : \/ disk'[k] = disk[k]
                           \/ disk[k] \in {"empty", "copying"} /\ disk'[k] \in {"broken", "stray"}
<1> USE DEF TypeOK, pgVars, clusterVars
<1>0. reg[o].pod \in Idx /\ reg[o].seen \ {reg[o].pod} \in SUBSET Idx
  BY DEF Registers
<1>1. CASE SetReplicas(o)
  BY <1>0, <1>1, ScriptKeeps DEF SetReplicas, ClusterTypeOK
<1>2. CASE Bounce(o)
  BY <1>0, <1>2, VolumesKept DEF Bounce, DeletePod, ContainersEnd, ClusterTypeOK
<1>3. CASE ~SetReplicas(o) /\ ~Bounce(o)
  <2>1. disk' = disk
    BY <1>3 DEF Command, Step, GetMaster, ListReplicas, GetRS, UpdateRS, UpdatePod,
       WaitForPods, Recheck, Touch, TestFind, TestExec, CallFails
  <2> QED
    BY <2>1 DEF ClusterTypeOK
<1> QED
  BY <1>1, <1>2, <1>3

\* Every call of the command keeps the types.
LEMMA TypeCommand == ASSUME TypeOK, NEW o \in Operators, Command(o) PROVE TypeOK'
<1> USE DEF TypeOK, kubeVars, pgVars, clusterVars
<1>0. /\ reg[o] \in Registers /\ reg[o].pod \in Idx
      /\ NothingRead \in Registers
  BY DEF Registers, NothingRead, Idx
<1>1. CASE \E force \in Forces : GetMaster(o, force)
  BY <1>1 DEF GetMaster, Goto, Over, Ended, Calls, ClusterTypeOK
<1>2. CASE ListReplicas(o)
  <2>1. CASE ReplicaPods = {}
    BY <1>2, <2>1, TypeAbort DEF ListReplicas, ClusterTypeOK
  <2>2. CASE ReplicaPods # {}
    <3>1. PICK t \in Idx : reg' = [reg EXCEPT ![o] = Chosen(t, ReplicaPods)]
      BY <1>2, <2>2 DEF ListReplicas
    <3>2. Chosen(t, ReplicaPods) \in Registers
      <4>1. ReplicaPods \in SUBSET Idx /\ uid[t] \in Nat /\ (t \in running) \in BOOLEAN
        BY DEF ClusterTypeOK, ReplicaPods
      <4> QED
        BY <4>1 DEF Chosen, NothingRead, Registers
    <3>3. UNCHANGED <<clusterVars, runs>> /\ Goto(o, "getRS")
      BY <1>2, <2>2 DEF ListReplicas
    <3>4. reg' \in [Operators -> Registers] /\ pc' \in [Operators -> Ended \cup Calls]
      BY <3>1, <3>2, <3>3 DEF Goto, Calls
    <3> QED
      BY <3>3, <3>4 DEF ClusterTypeOK
  <2> QED
    BY <2>1, <2>2
<1>3. CASE GetRS(o)
  <2>1. CASE reg[o].pod \in rs
    <3> DEFINE l == reg[o].pod \in rsMaster
               n == reg[o].pod \in rsNew
    <3>1. l \in BOOLEAN /\ n \in BOOLEAN
      OBVIOUS
    <3>2. /\ reg' = [reg EXCEPT ![o].labelled = l, ![o].new = n]
          /\ pc' = [pc EXCEPT ![o] = "updateRS"]
      BY <1>3, <2>1 DEF GetRS, Goto
    <3> HIDE DEF l, n
    <3>3. [reg[o] EXCEPT !.labelled = l, !.new = n] \in Registers
      BY <1>0, <3>1 DEF Registers
    <3> QED
      BY <1>3, <3>2, <3>3 DEF GetRS, Calls, ClusterTypeOK
  <2>2. CASE reg[o].pod \notin rs
    BY <1>3, <2>2, TypeAbort DEF GetRS, ClusterTypeOK
  <2> QED
    BY <2>1, <2>2
<1>4. CASE UpdateRS(o)
  BY <1>0, <1>4, TypeAbort DEF UpdateRS, Goto, Calls, ClusterTypeOK
<1>5. CASE UpdatePod(o)
  BY <1>0, <1>5, TypeAbort DEF UpdatePod, Goto, Calls, ClusterTypeOK, ReplicaPods
<1>6. CASE SetReplicas(o)
  <2>1. reg[o].seen \ {reg[o].pod} \in SUBSET Idx
    BY <1>0 DEF Registers
  <2> QED
    <3>1. /\ conf' \in [Idx -> SUBSET Idx] /\ disk' \in [Idx -> Disks] /\ cut' \subseteq Idx
      BY <1>0, <1>6, <2>1, ScriptKeeps DEF SetReplicas, ClusterTypeOK
    <3>2. pc' \in [Operators -> Ended \cup Calls] /\ reg' \in [Operators -> Registers]
      BY <1>6, TypeAbort DEF SetReplicas, Goto, Calls
    <3> QED
      BY <1>6, <3>1, <3>2 DEF SetReplicas, ClusterTypeOK
<1>7. CASE Bounce(o)
  <2>1. pc' \in [Operators -> Ended \cup Calls] /\ reg' \in [Operators -> Registers]
    BY <1>7, TypeAbort DEF Bounce, Goto, Calls
  <2>2. ClusterTypeOK'
    BY <1>0, <1>7, TypeDelete, TypeUnchanged DEF Bounce, ClusterTypeOK
  <2> QED
    BY <1>7, <2>1, <2>2 DEF Bounce
<1>8. CASE WaitForPods(o)
  BY <1>8, TypeAbort DEF WaitForPods, Goto, Calls, ClusterTypeOK
<1>9. CASE Recheck(o)
  <2>1. \A m \in Idx : [reg[o] EXCEPT !.pod = m, !.uid = uid[m]] \in Registers
    BY <1>0 DEF Registers, ClusterTypeOK
  <2> QED
    BY <1>9, <2>1, TypeAbort DEF Recheck, Goto, Calls, ClusterTypeOK
<1>10. CASE Touch(o)
  BY <1>0, <1>10, TypeAbort DEF Touch, Reaches, Goto, Calls, ClusterTypeOK
<1>11. CASE TestFind(o)
  <2>1. \A m \in running : [reg[o] EXCEPT !.pod = m, !.uid = uid[m]] \in Registers
    BY <1>0 DEF Registers, ClusterTypeOK
  <2> QED
    BY <1>11, <2>1, TypeAbort DEF TestFind, Goto, Calls, ClusterTypeOK
<1>12. CASE TestExec(o)
  BY <1>0, <1>12, TypeAbort DEF TestExec, Goto, Over, Ended, ClusterTypeOK
<1>13. CASE CallFails(o)
  BY <1>0, <1>13, TypeAbort DEF CallFails, Goto, Over, Ended, ClusterTypeOK
<1> QED
  BY <1>1, <1>2, <1>3, <1>4, <1>5, <1>6, <1>7, <1>8, <1>9, <1>10, <1>11, <1>12, <1>13
     DEF Command, Step

\* Types are kept by every step.
LEMMA TypeStep == ASSUME TypeOK, [Next]_vars PROVE TypeOK'
<1>1. CASE \E o \in Operators : Command(o)
  BY <1>1, TypeCommand
<1>2. CASE Environment
  BY <1>2, TypeCluster DEF Environment, TypeOK
<1>3. CASE UNCHANGED vars
  BY <1>3 DEF vars, clusterVars, kubeVars, pgVars, TypeOK, ClusterTypeOK
<1> QED
  BY <1>1, <1>2, <1>3 DEF Next

\* Type correctness of the cluster and of what the runs hold.
THEOREM TypeCorrect == Spec => []TypeOK
<1> QED
  BY TypeInit, TypeStep, PTL DEF Spec

-----------------------------------------------------------------------------
(* The label of a pod and the label of its template.                       *)

\* No ReplicaSet is added, and only one that goes away, and takes its pod with it,
\* loses the label of its template.
LEMMA TemplatesKeepLabel ==
  ASSUME TypeOK, [Next]_vars
  PROVE  /\ rs' \subseteq rs
         /\ \A i \in rsMaster : i \in rsMaster' \/ (i \notin rs' /\ uid'[i] = uid[i] + 1)
<1> USE DEF kubeVars, clusterVars, TypeOK, ClusterTypeOK
<1>1. CASE Environment
  BY <1>1, ClusterTemplates DEF Environment
<1>2. CASE \E o \in Operators : Command(o)
  BY <1>2 DEF Command, Step, GetMaster, ListReplicas, GetRS, UpdateRS, UpdatePod,
     SetReplicas, Bounce, DeletePod, WaitForPods, Recheck, Touch, TestFind, TestExec, CallFails
<1>3. CASE UNCHANGED vars
  BY <1>3 DEF vars
<1> QED
  BY <1>1, <1>2, <1>3 DEF Next

\* A pod that has lost or not yet got its label takes that of its template, and no
\* pod gets a label in another way than by UpdatePod.
LEMMA ClusterKeepsRole ==
  ASSUME TypeOK, RoleSurvivesRestart, ClusterNext
  PROVE  RoleSurvivesRestart'
<1>1. ClusterTypeOK'
  BY TypeCluster DEF TypeOK
<1>2. PodsFollow /\ rsMaster' = rsMaster \cap rs' /\ rs' \subseteq rs
  BY ClusterFollows, ClusterTemplates DEF TypeOK
<1> QED
  BY <1>1, <1>2 DEF RoleSurvivesRestart, PodsFollow, SamePod, FromTemplate, ClusterTypeOK

\* What the stepping run does to the run of another operator: nothing.
LEMMA OthersUntouched ==
  ASSUME TypeOK, NEW o \in Operators, Command(o), NEW p \in Operators, p # o
  PROVE  pc'[p] = pc[p] /\ reg'[p] = reg[p]
  BY DEF TypeOK, Command, Step, GetMaster, ListReplicas, GetRS, UpdateRS, UpdatePod,
     SetReplicas, Bounce, WaitForPods, Recheck, Touch, TestFind, TestExec, CallFails,
     Abort, Goto

\* The incarnation of a member changes by one at most, and never back.
LEMMA UidGrows ==
  ASSUME TypeOK, [Next]_vars
  PROVE  \A i \in Idx : uid'[i] = uid[i] \/ uid'[i] = uid[i] + 1
<1> USE DEF kubeVars, clusterVars, TypeOK, ClusterTypeOK
<1>1. CASE Environment
  BY <1>1, ClusterFollows DEF Environment, PodsFollow
<1>2. CASE \E o \in Operators : Command(o)
  <2> PICK o \in Operators : Command(o)
    BY <1>2
  <2>1. CASE Bounce(o)
    <3>1. reg[o].pod \in Idx
      BY DEF Registers
    <3> QED
      BY <2>1, <3>1 DEF Bounce, DeletePod
  <2>2. CASE ~Bounce(o)
    BY <2>2 DEF Command, Step, GetMaster, ListReplicas, GetRS, UpdateRS, UpdatePod,
       SetReplicas, WaitForPods, Recheck, Touch, TestFind, TestExec, CallFails
  <2> QED
    BY <2>1, <2>2
<1>3. CASE UNCHANGED vars
  BY <1>3 DEF vars
<1> QED
  BY <1>1, <1>2, <1>3 DEF Next

\* A step of a run leaves what the run holds, reads the incarnation a pod has, or
\* forgets.
LEMMA RegisterStep ==
  ASSUME TypeOK, NEW o \in Operators, Command(o)
  PROVE  \/ reg'[o].pod = reg[o].pod /\ reg'[o].uid = reg[o].uid
         \/ reg'[o].pod \in Idx /\ reg'[o].uid = uid[reg'[o].pod]
         \/ reg'[o] = NothingRead
<1> USE DEF TypeOK
<1>0. reg[o] \in Registers
  OBVIOUS
<1>1. CASE ListReplicas(o)
  <2>1. CASE ReplicaPods = {}
    BY <1>1, <2>1 DEF ListReplicas, Abort
  <2>2. CASE ReplicaPods # {}
    <3>1. PICK t \in Idx : reg' = [reg EXCEPT ![o] = Chosen(t, ReplicaPods)]
      BY <1>1, <2>2 DEF ListReplicas
    <3>2. Chosen(t, ReplicaPods).pod = t /\ Chosen(t, ReplicaPods).uid = uid[t]
      BY DEF Chosen, NothingRead
    <3> QED
      BY <3>1, <3>2
  <2> QED
    BY <2>1, <2>2
<1>2. CASE GetRS(o)
  BY <1>0, <1>2 DEF GetRS, Registers, Abort
<1>3. CASE Recheck(o) \/ TestFind(o)
  <2>1. CASE reg' = [reg EXCEPT ![o] = NothingRead]
    BY <2>1
  <2>2. CASE \E m \in Idx : reg' = [reg EXCEPT ![o].pod = m, ![o].uid = uid[m]]
    <3> PICK m \in Idx : reg' = [reg EXCEPT ![o].pod = m, ![o].uid = uid[m]]
      BY <2>2
    <3>1. reg'[o].pod = m /\ reg'[o].uid = uid[m]
      BY <1>0 DEF Registers
    <3> QED
      BY <3>1
  <2> QED
    BY <1>3, <2>1, <2>2 DEF Recheck, TestFind, Abort, ClusterTypeOK
<1>4. CASE UNCHANGED reg
  BY <1>4
<1>5. CASE ~ListReplicas(o) /\ ~GetRS(o) /\ ~Recheck(o) /\ ~TestFind(o)
  BY <1>5 DEF Command, Step, GetMaster, UpdateRS, UpdatePod, SetReplicas, Bounce,
     WaitForPods, Touch, TestExec, CallFails, Abort
<1> QED
  BY <1>1, <1>2, <1>3, <1>4, <1>5

\* In the initial state nobody has read anything.
LEMMA PastInit == Init => PastIncarnation
<1> SUFFICES ASSUME Init PROVE PastIncarnation
  OBVIOUS
<1>1. 0 \in Idx /\ NothingRead.pod = 0 /\ NothingRead.uid = 0
  BY DEF Idx, NothingRead
<1> QED
  BY <1>1 DEF Init, ClusterInit, PastIncarnation

\* The incarnations that runs hold are not ahead of the pods.
LEMMA PastStep ==
  ASSUME TypeOK, PastIncarnation, [Next]_vars
  PROVE  PastIncarnation'
<1>0. \A i \in Idx : uid[i] \in Nat /\ uid'[i] \in Nat /\ uid[i] <= uid'[i]
  <2> TAKE i \in Idx
  <2>1. uid[i] \in Nat
    BY DEF TypeOK, ClusterTypeOK
  <2> QED
    BY <2>1, UidGrows
<1>1. \A p \in Operators : /\ reg[p].uid \in Nat /\ reg[p].pod \in Idx
                         /\ reg[p].uid <= uid'[reg[p].pod]
  <2> TAKE p \in Operators
  <2>1. reg[p].uid \in Nat /\ reg[p].pod \in Idx /\ reg[p].uid <= uid[reg[p].pod]
    BY DEF TypeOK, Registers, PastIncarnation
  <2> DEFINE i == reg[p].pod
  <2>2. uid[i] \in Nat /\ uid'[i] \in Nat /\ uid[i] <= uid'[i]
    BY <1>0, <2>1
  <2> QED
    BY <2>1, <2>2
<1>2. CASE Environment \/ UNCHANGED vars
  <2>1. reg' = reg
    BY <1>2 DEF Environment, vars
  <2> QED
    BY <1>1, <2>1 DEF PastIncarnation
<1>3. CASE \E o \in Operators : Command(o)
  <2> PICK o \in Operators : Command(o)
    BY <1>3
  <2> SUFFICES ASSUME NEW p \in Operators
               PROVE  reg'[p].uid <= uid'[reg'[p].pod]
    BY DEF PastIncarnation
  <2>1. CASE reg'[p].pod = reg[p].pod /\ reg'[p].uid = reg[p].uid
    BY <1>1, <2>1
  <2>2. CASE reg'[p].pod \in Idx /\ reg'[p].uid = uid[reg'[p].pod]
    BY <1>0, <2>2
  <2>3. CASE reg'[p] = NothingRead
    <3>1. reg'[p].uid = 0 /\ reg'[p].pod = 0 /\ 0 \in Idx
      BY <2>3 DEF NothingRead, Idx
    <3>2. uid'[0] \in Nat
      BY <1>0, <3>1
    <3> QED
      BY <3>1, <3>2
  <2> QED
    BY <2>1, <2>2, <2>3, OthersUntouched, RegisterStep
<1> QED
  BY <1>2, <1>3 DEF Next

\* If the pod that a run has in hand is there after a step, it was there before it.
LEMMA StaysThere ==
  ASSUME TypeOK, PastIncarnation, NEW p \in Operators, NEW i \in Idx,
         uid'[i] = uid[i] \/ uid'[i] = uid[i] + 1,
         reg[p].pod = i, reg[p].uid = uid'[i]
  PROVE  reg[p].uid = uid[i]
<1>1. reg[p].uid \in Nat /\ uid[i] \in Nat
  BY DEF TypeOK, Registers, ClusterTypeOK
<1> QED
  BY <1>1 DEF PastIncarnation

\* A run that is about to label a pod has just labelled the template.
LEMMA LabelledFirstStep ==
  ASSUME TypeOK, LabelledFirst, PastIncarnation, [Next]_vars
  PROVE  LabelledFirst'
<1>0. \A i \in rsMaster : i \in rsMaster' \/ uid'[i] = uid[i] + 1
  BY TemplatesKeepLabel
<1>1. \A p \in Operators : reg[p].pod \in Idx /\ uid[reg[p].pod] \in Nat
  BY DEF TypeOK, Registers, ClusterTypeOK
<1>2. CASE Environment \/ UNCHANGED vars
  <2>1. pc' = pc /\ reg' = reg
    BY <1>2 DEF Environment, vars
  <2> SUFFICES ASSUME NEW p \in Operators, pc[p] = "updatePod",
                      reg[p].uid = uid'[reg[p].pod]
               PROVE  reg[p].pod \in rsMaster'
    BY <2>1 DEF LabelledFirst
  <2>2. reg[p].uid = uid[reg[p].pod]
    BY <1>1, StaysThere, UidGrows
  <2>3. reg[p].pod \in rsMaster /\ uid'[reg[p].pod] # uid[reg[p].pod] + 1
    BY <1>1, <2>1, <2>2 DEF LabelledFirst
  <2> QED
    BY <1>0, <2>3
<1>3. CASE \E o \in Operators : Command(o)
  <2> PICK o \in Operators : Command(o)
    BY <1>3
  <2> SUFFICES ASSUME NEW p \in Operators, pc'[p] = "updatePod",
                      reg'[p].uid = uid'[reg'[p].pod]
               PROVE  reg'[p].pod \in rsMaster'
    BY DEF LabelledFirst
  <2>1. CASE p # o
    <3>1. pc[p] = "updatePod" /\ reg'[p] = reg[p]
      BY <2>1, OthersUntouched
    <3>2. reg[p].uid = uid[reg[p].pod]
      BY <1>1, <3>1, StaysThere, UidGrows
    <3>3. reg[p].pod \in rsMaster /\ uid'[reg[p].pod] # uid[reg[p].pod] + 1
      BY <1>1, <3>1, <3>2 DEF LabelledFirst
    <3> QED
      BY <1>0, <3>1, <3>3
  <2>2. CASE p = o
    <3>1. UpdateRS(o) /\ rsMaster' = rsMaster \cup {reg[o].pod} /\ UNCHANGED reg
      BY <2>2 DEF TypeOK, Command, Step, GetMaster, ListReplicas, GetRS, UpdateRS,
         UpdatePod, SetReplicas, Bounce, WaitForPods, Recheck, Touch, TestFind,
         TestExec, CallFails, Abort, Goto, Over, Ended, Calls
    <3> QED
      BY <2>2, <3>1
  <2> QED
    BY <2>1, <2>2
<1> QED
  BY <1>2, <1>3 DEF Next

\* The label of a pod stays covered by its template.
LEMMA RoleStep ==
  ASSUME TypeOK, LabelledFirst, RoleSurvivesRestart, [Next]_vars
  PROVE  RoleSurvivesRestart'
<1> USE DEF kubeVars, clusterVars, RoleSurvivesRestart
<1>1. CASE Environment
  BY <1>1, ClusterKeepsRole DEF Environment
<1>2. CASE \E o \in Operators : Command(o)
  <2> PICK o \in Operators : Command(o)
    BY <1>2
  <2>1. CASE UpdatePod(o)
    BY <2>1 DEF UpdatePod, LabelledFirst
  <2>2. CASE Bounce(o)
    BY <2>2 DEF Bounce, DeletePod
  <2>3. CASE UpdateRS(o)
    BY <2>3 DEF UpdateRS
  <2>4. CASE ~UpdatePod(o) /\ ~Bounce(o) /\ ~UpdateRS(o)
    BY <2>4 DEF Command, Step, GetMaster, ListReplicas, GetRS, SetReplicas,
       WaitForPods, Recheck, Touch, TestFind, TestExec, CallFails
  <2> QED
    BY <2>1, <2>2, <2>3, <2>4
<1>3. CASE UNCHANGED vars
  BY <1>3 DEF vars
<1> QED
  BY <1>1, <1>2, <1>3 DEF Next

\* A member that was given the role keeps it over any restart, with any controller.
THEOREM RoleSafe == Spec => []RoleSurvivesRestart
<1> DEFINE Inv == TypeOK /\ LabelledFirst /\ PastIncarnation /\ RoleSurvivesRestart
<1>1. Init => Inv
  BY TypeInit, PastInit DEF Init, ClusterInit, LabelledFirst, RoleSurvivesRestart
<1>2. Inv /\ [Next]_vars => Inv'
  BY TypeStep, LabelledFirstStep, PastStep, RoleStep
<1>3. Inv => RoleSurvivesRestart
  OBVIOUS
<1> HIDE DEF Inv
<1> QED
  BY <1>1, <1>2, <1>3, PTL DEF Spec

-----------------------------------------------------------------------------
(* Volumes.                                                                *)

\* Failover alone leaves every member that create made set up.
LEMMA AllSetUpStep ==
  ASSUME TypeOK, AllSetUp, [Next]_vars
  PROVE  AllSetUp'
<1> USE DEF HasDatabase
<1>0. \A k \in Idx : disk[k] \notin {"empty", "copying"}
  BY DEF AllSetUp
<1>1. CASE Environment
  <2>1. \A k \in Idx : disk'[k] = disk[k] \/ (disk[k] = "standby" /\ disk'[k] = "primary")
    BY <1>0, <1>1, ClusterVolumes DEF Environment, TypeOK
  <2> QED
    BY <2>1 DEF AllSetUp
<1>2. CASE \E o \in Operators : Command(o)
  <2>1. \A k \in Idx : disk'[k] = disk[k]
    BY <1>0, <1>2, CommandVolumes
  <2> QED
    BY <2>1 DEF AllSetUp
<1>3. CASE UNCHANGED vars
  BY <1>3 DEF vars, clusterVars, pgVars, AllSetUp
<1> QED
  BY <1>1, <1>2, <1>3 DEF Next

\* And create has left them so.
LEMMA InitSetUp == Init => AllSetUp
<1> SUFFICES ASSUME Init, NEW i \in Idx
             PROVE  IF i \in Founders THEN HasDatabase(i) ELSE disk[i] = "none"
  BY DEF AllSetUp
<1>1. disk[i] = IF i = 0 THEN "primary" ELSE IF i \in Founders THEN "standby" ELSE "none"
  BY DEF Init, ClusterInit
<1>2. 0 \in Founders
  BY DEF Founders
<1> QED
  BY <1>1, <1>2 DEF HasDatabase

\* So it is in every behaviour.
LEMMA AlwaysSetUp == Spec => []AllSetUp
<1>1. Init => AllSetUp
  BY InitSetUp
<1>2. TypeOK /\ AllSetUp /\ [Next]_vars => AllSetUp'
  BY AllSetUpStep
<1> QED
  BY <1>1, <1>2, TypeCorrect, PTL DEF Spec

-----------------------------------------------------------------------------
(* Leaders.                                                                *)

\* A step of run o that does not leave it at the trigger, promotes nobody and sends
\* the file nowhere new, arms nobody.
LEMMA NotArming ==
  ASSUME TypeOK, PastIncarnation, NEW o \in Operators,
         \A i \in Idx : uid'[i] = uid[i] \/ uid'[i] = uid[i] + 1,
         \A i \in Idx : disk'[i] = "primary" => disk[i] = "primary",
         trigger' \subseteq trigger, pc'[o] # "trigger",
         \A p \in Operators \ {o} : pc'[p] = pc[p] /\ reg'[p] = reg[p]
  PROVE  Armed' \subseteq Armed
<1> SUFFICES ASSUME NEW i \in Idx, NEW p \in Operators,
                    pc'[p] = "trigger", reg'[p].pod = i, reg'[p].uid = uid'[i]
             PROVE  i \in Armed
  BY DEF Armed
<1>1. pc[p] = "trigger" /\ reg'[p] = reg[p]
  OBVIOUS
<1>2. reg[p].pod = i /\ reg[p].uid = uid[i]
  BY <1>1, StaysThere
<1> QED
  BY <1>1, <1>2 DEF Armed

\* Where a run may be at the trigger.
LEMMA OnlyRecheckArms ==
  ASSUME TypeOK, NEW o \in Operators, Command(o), ~Recheck(o)
  PROVE  pc'[o] # "trigger"
  BY DEF TypeOK, Command, Step, GetMaster, ListReplicas, GetRS, UpdateRS, UpdatePod,
     SetReplicas, Bounce, WaitForPods, Touch, TestFind, TestExec, CallFails,
     Abort, Goto, Over, Ended, Calls

\* A step other than the second getMasterPod arms nobody.
LEMMA ArmedOnlyFalls ==
  ASSUME TypeOK, PastIncarnation, [Next]_vars, \A o \in Operators : ~Recheck(o)
  PROVE  Armed' \subseteq Armed
<1> USE DEF kubeVars, pgVars, clusterVars
<1>1. \A i \in Idx : uid'[i] = uid[i] \/ uid'[i] = uid[i] + 1
  BY UidGrows
<1>2. CASE Environment \/ UNCHANGED vars
  <2>1. UNCHANGED <<pc, reg>>
    BY <1>2 DEF Environment, vars
  <2>2. /\ \A k \in Idx : disk'[k] = "primary" => disk[k] = "primary" \/ k \in trigger
        /\ trigger' \subseteq trigger
    <3>1. CASE UNCHANGED vars
      BY <3>1 DEF vars
    <3>2. CASE Environment
      BY <3>2, ClusterArming DEF Environment, TypeOK
    <3> QED
      BY <1>2, <3>1, <3>2
  <2> SUFFICES ASSUME NEW i \in Idx, NEW p \in Operators,
                      pc[p] = "trigger", reg[p].pod = i, reg[p].uid = uid'[i]
               PROVE  i \in Armed
    BY <2>1, <2>2 DEF Armed
  <2> QED
    BY <1>1, <2>1, StaysThere DEF Armed
<1>3. CASE \E o \in Operators : Command(o)
  <2> PICK o \in Operators : Command(o)
    BY <1>3
  <2>1. \A p \in Operators \ {o} : pc'[p] = pc[p] /\ reg'[p] = reg[p]
    BY OthersUntouched
  <2>2. pc'[o] # "trigger"
    BY OnlyRecheckArms
  <2>3. \A i \in Idx : disk'[i] = "primary" => disk[i] = "primary"
    BY CommandVolumes
  <2>4. CASE Touch(o)
    <3>1. \/ trigger' = trigger
          \/ trigger' = trigger \cup {reg[o].pod} /\ reg[o].uid = uid[reg[o].pod]
      BY <2>4 DEF Touch, Reaches
    <3>2. pc[o] = "trigger"
      BY <2>4 DEF Touch
    <3>3. reg[o].pod \in Idx
      BY DEF TypeOK, Registers
    <3>4. trigger' \ trigger \subseteq Armed
      BY <3>1, <3>2, <3>3 DEF Armed
    <3> SUFFICES ASSUME NEW i \in Idx, NEW p \in Operators,
                        pc'[p] = "trigger", reg'[p].pod = i, reg'[p].uid = uid'[i]
                 PROVE  i \in Armed
      BY <2>3, <3>4 DEF Armed
    <3>5. p # o
      BY <2>2
    <3> QED
      BY <1>1, <2>1, <3>5, StaysThere DEF Armed
  <2>5. CASE ~Touch(o)
    <3>1. trigger' \subseteq trigger
      BY <2>5 DEF Command, Step, GetMaster, ListReplicas, GetRS, UpdateRS, UpdatePod,
         SetReplicas, Bounce, DeletePod, ContainersEnd, WaitForPods, TestFind,
         TestExec, CallFails
    <3> QED
      BY <1>1, <2>1, <2>2, <2>3, <3>1, NotArming
  <2> QED
    BY <2>4, <2>5
<1> QED
  BY <1>2, <1>3 DEF Next

\* The second getMasterPod arms the only labelled member.
LEMMA RecheckArms ==
  ASSUME TypeOK, PastIncarnation, NEW o \in Operators, Recheck(o)
  PROVE  \/ Armed' \subseteq Armed
         \/ \E m \in Idx : podMaster = {m} /\ Armed' \subseteq Armed \cup {m} /\ m \in Armed'
<1> USE DEF kubeVars, pgVars, clusterVars
<1>1. UNCHANGED <<rs, pods, podMaster, uid, disk, trigger>>
  BY DEF Recheck
<1>2. \A p \in Operators \ {o} : pc'[p] = pc[p] /\ reg'[p] = reg[p]
  BY DEF Recheck, Abort, Goto, TypeOK
<1>3. CASE \E m \in Idx : TheMaster(m)
  <2> PICK m \in Idx : /\ podMaster = {m}
                       /\ reg' = [reg EXCEPT ![o].pod = m, ![o].uid = uid[m]]
                       /\ pc' = [pc EXCEPT ![o] = "trigger"]
    BY <1>3 DEF Recheck, Goto, TheMaster
  <2>1. pc'[o] = "trigger" /\ reg'[o].pod = m /\ reg'[o].uid = uid[m]
    BY DEF TypeOK, Registers
  <2>2. Armed' \subseteq Armed \cup {m} /\ m \in Armed'
    BY <1>1, <1>2, <2>1 DEF Armed
  <2> QED
    BY <2>2
<1>4. CASE ~ \E m \in Idx : TheMaster(m)
  <2>1. pc'[o] # "trigger"
    BY <1>4 DEF Recheck, Abort, Goto, TypeOK
  <2> QED
    BY <1>1, <1>2, <2>1, NotArming
<1> QED
  BY <1>3, <1>4

\* Whoever a step arms was labelled before it.
LEMMA ArmedStep ==
  ASSUME TypeOK, PastIncarnation, [Next]_vars
  PROVE  Armed' \subseteq Armed \cup podMaster
<1>1. CASE \E o \in Operators : Recheck(o)
  BY <1>1, RecheckArms
<1>2. CASE \A o \in Operators : ~Recheck(o)
  BY <1>2, ArmedOnlyFalls
<1> QED
  BY <1>1, <1>2

\* What a step does to the leaders when the controller is prompt: the only labelled
\* member that is armed is the leader already if there is one.
LEMMA LeadersStep ==
  ASSUME TypeOK, PastIncarnation, Prompt, LeaderIsLabelled, [Next]_vars
  PROVE  \/ Leaders' \subseteq Leaders
         \/ \E m \in Idx : podMaster = {m} /\ podMaster' = {m} /\ Leaders' = {m}
<1>0. rs' \subseteq rs
  BY TemplatesKeepLabel
<1>1. CASE Armed' \subseteq Armed
  BY <1>0, <1>1 DEF Leaders
<1>2. CASE ~(Armed' \subseteq Armed)
  <2>1. PICK o \in Operators : Recheck(o)
    BY <1>2, ArmedOnlyFalls
  <2>2. UNCHANGED <<rs, podMaster>>
    BY <2>1 DEF Recheck, clusterVars, kubeVars
  <2>3. PICK m \in Idx : podMaster = {m} /\ Armed' \subseteq Armed \cup {m} /\ m \in Armed'
    BY <1>2, <2>1, RecheckArms
  <2>4. m \in rs /\ Leaders \subseteq {m}
    BY <2>3 DEF TypeOK, ClusterTypeOK, LeaderIsLabelled
  <2> QED
    BY <2>2, <2>3, <2>4 DEF Leaders
<1> QED
  BY <1>1, <1>2

\* With a prompt controller every ReplicaSet has its pod.
LEMMA PodsStayPrompt ==
  ASSUME TypeOK, Prompt, pods = rs, [Next]_vars
  PROVE  pods' = rs'
<1> USE DEF kubeVars, clusterVars
<1>1. CASE Environment
  BY <1>1, ClusterFollows DEF Environment, PodsFollow, TypeOK
<1>2. CASE \E o \in Operators : Command(o)
  BY <1>2 DEF Command, Step, GetMaster, ListReplicas, GetRS, UpdateRS, UpdatePod,
     SetReplicas, Bounce, DeletePod, WaitForPods, Recheck, Touch, TestFind, TestExec, CallFails
<1>3. CASE UNCHANGED vars
  BY <1>3 DEF vars
<1> QED
  BY <1>1, <1>2, <1>3 DEF Next

\* With a prompt controller a labelled member that keeps its ReplicaSet keeps its label.
LEMMA LabelsStayPrompt ==
  ASSUME TypeOK, Prompt, pods = rs, RoleSurvivesRestart, [Next]_vars
  PROVE  podMaster \cap rs' \subseteq podMaster'
<1> USE DEF kubeVars, clusterVars, RoleSurvivesRestart
<1>1. CASE Environment
  <2>1. PodsFollow /\ pods' = rs' /\ rsMaster' = rsMaster \cap rs'
    BY <1>1, ClusterFollows, ClusterTemplates DEF Environment, PodsFollow, TypeOK
  <2> QED
    BY <2>1 DEF PodsFollow, SamePod, FromTemplate, TypeOK, ClusterTypeOK
<1>2. CASE \E o \in Operators : Command(o)
  <2> PICK o \in Operators : Command(o)
    BY <1>2
  <2>1. CASE Bounce(o)
    BY <2>1 DEF Bounce, DeletePod
  <2>2. CASE ~Bounce(o)
    BY <2>2 DEF Command, Step, GetMaster, ListReplicas, GetRS, UpdateRS, UpdatePod,
       SetReplicas, WaitForPods, Recheck, Touch, TestFind, TestExec, CallFails
  <2> QED
    BY <2>1, <2>2
<1>3. CASE UNCHANGED vars
  BY <1>3 DEF vars
<1> QED
  BY <1>1, <1>2, <1>3 DEF Next

\* Leaders stay labelled, and there stays at most one.
LEMMA LeaderIsLabelledStep ==
  ASSUME TypeOK, PastIncarnation, RoleSurvivesRestart, LeaderIsLabelled, [Next]_vars
  PROVE  LeaderIsLabelled'
<1> SUFFICES ASSUME Prompt
             PROVE  /\ pods' = rs'
                    /\ Leaders' \subseteq podMaster'
                    /\ \A m, n \in Leaders' : m = n
  BY DEF LeaderIsLabelled
<1>0. /\ pods = rs
      /\ Leaders \subseteq podMaster
      /\ \A m, n \in Leaders : m = n
  BY DEF LeaderIsLabelled
<1>1. pods' = rs'
  BY <1>0, PodsStayPrompt
<1>2. CASE Leaders' \subseteq Leaders
  <2>1. Leaders' \subseteq rs'
    BY DEF Leaders
  <2>2. podMaster \cap rs' \subseteq podMaster'
    BY <1>0, LabelsStayPrompt
  <2> QED
    BY <1>0, <1>1, <1>2, <2>1, <2>2
<1>3. CASE \E m \in Idx : podMaster' = {m} /\ Leaders' = {m}
  BY <1>1, <1>3
<1> QED
  BY <1>2, <1>3, LeadersStep

-----------------------------------------------------------------------------
(* The theorems.                                                           *)

\* The initial state has one leader, the labelled member 0.
LEMMA InitLeader == Init => LeaderIsLabelled /\ Leaders = {0}
<1> SUFFICES ASSUME Init PROVE LeaderIsLabelled /\ Leaders = {0}
  OBVIOUS
<1>1. 0 \in Idx
  BY DEF Idx
<1>2. \A i \in Idx : disk[i] = "primary" <=> i = 0
  BY DEF Init, ClusterInit
<1>3. trigger = {} /\ \A o \in Operators : pc[o] # "trigger"
  BY DEF Init, ClusterInit
<1>4. Armed = {0}
  BY <1>1, <1>2, <1>3 DEF Armed
<1>5. Leaders = {0}
  BY <1>4 DEF Init, ClusterInit, Leaders, Founders
<1> QED
  BY <1>5 DEF Init, ClusterInit, LeaderIsLabelled

\* IInv is inductive.
LEMMA InvariantStep == IInv /\ [Next]_vars => IInv'
  BY TypeStep, LabelledFirstStep, PastStep, RoleStep, LeaderIsLabelledStep DEF IInv

\* IInv holds initially.
LEMMA InvariantInit == Init => IInv
  BY TypeInit, PastInit, InitLeader DEF Init, ClusterInit, IInv, LabelledFirst, RoleSurvivesRestart

\* IInv is an invariant of every behaviour.
THEOREM Invariance == Spec => []IInv
<1>1. Init => IInv
  BY InvariantInit
<1>2. IInv /\ [Next]_vars => IInv'
  BY InvariantStep
<1> QED
  BY <1>1, <1>2, PTL DEF Spec

\* What takes commits and can be reached is a leader.
LEMMA WritersLead == ASSUME Prompt, IInv, AllSetUp PROVE NoSplitBrain
<1> SUFFICES ASSUME NEW m \in Writers, NEW n \in Writers
             PROVE  m = n
  BY DEF NoSplitBrain
<1>1. m \in Leaders /\ n \in Leaders
  BY DEF IInv, TypeOK, ClusterTypeOK, LeaderIsLabelled, Writers, TakesCommits, AllSetUp,
         HasDatabase, Leaders, Armed
<1> QED
  BY <1>1 DEF IInv, LeaderIsLabelled

\* With a prompt controller no two servers the write service selects take commits.
THEOREM NeverTwoWriters == ASSUME Prompt PROVE Spec => []NoSplitBrain
<1>1. IInv /\ AllSetUp => NoSplitBrain
  BY WritersLead
<1> QED
  BY <1>1, Invariance, AlwaysSetUp, PTL

\* Every step of failover is one of Leadership, or leaves the leaders alone.
LEMMA LeadershipStep ==
  ASSUME Prompt, IInv, [Next]_vars
  PROVE  [Election!LeadershipNext]_Leaders
<1>0. TypeOK /\ PastIncarnation /\ LeaderIsLabelled /\ \A m, n \in Leaders : m = n
  BY DEF IInv, LeaderIsLabelled
<1>1. CASE Leaders' \subseteq Leaders
  <2>1. Leaders' = Leaders \/ (Leaders # {} /\ Leaders' = {})
    BY <1>0, <1>1
  <2> QED
    BY <2>1 DEF Election!LeadershipNext, Election!StepDown
<1>2. CASE \E m \in Idx : podMaster = {m} /\ Leaders' = {m}
  <2> PICK m \in Idx : podMaster = {m} /\ Leaders' = {m}
    BY <1>2
  <2>1. Leaders = {} \/ Leaders = {m}
    BY <1>0 DEF LeaderIsLabelled
  <2> QED
    BY <2>1 DEF Election!LeadershipNext, Election!Elect
<1> QED
  BY <1>0, <1>1, <1>2, LeadersStep

\* With a prompt controller failover is an implementation of Leadership: the leader
\* never passes from one member to another without a state in which nobody leads.
THEOREM Refinement == ASSUME Prompt PROVE Spec => ImplementsLeadership
<1>1. Init => Election!LeadershipInit
  BY InitLeader DEF Election!LeadershipInit, Idx
<1>2. IInv /\ [Next]_vars => [Election!LeadershipNext]_Leaders
  BY LeadershipStep
<1> QED
  BY <1>1, <1>2, Invariance, PTL DEF Spec, ImplementsLeadership, Election!LeadershipSpec

-----------------------------------------------------------------------------
(* Acknowledged commits.  Prompt, and the sparing of the first standby, are *)
(* hypotheses of each lemma; what the lemmas pass on is in KeptByFirstStandby. *)

\* Members 0 and 1 exist, and 1 is the first of the names create configures.
LEMMA FirstTwo == 0 \in Idx /\ 1 \in Idx /\ 1 \in 1..Start /\ \A j \in 1..Start : 1 <= j
  BY DEF Idx

\* Initially member 0 leads and all of its standbys have all of its data.
LEMMA KeptInit == Init => KeptByFirstStandby
<1> SUFFICES ASSUME Init PROVE KeptByFirstStandby
  OBVIOUS
<1>1. /\ 1 \in rs /\ 0 \in rs /\ disk[1] = "standby" /\ disk[0] = "primary"
      /\ conf[0] = 1..Start /\ live[0] = 1..Start /\ 1 \in up \ trigger
      /\ acked = {} /\ data[1] = data[0]
  BY FirstTwo DEF Init, ClusterInit, Founders
<1> QED
  BY <1>1 DEF Init, ClusterInit, KeptByFirstStandby, CreatedMasterLeads, HasDatabase, Over, Ended

\* As long as member 0 is labelled, no run gets further than its getMasterPod.
LEMMA RunsGiveUp ==
  ASSUME TypeOK, Forces \subseteq {FALSE}, CreatedMasterLeads,
         NEW o \in Operators, Command(o)
  PROVE  /\ \A p \in Operators : pc'[p] \in Ended
         /\ UNCHANGED clusterVars
<1>1. pc[o] \in Ended
  BY DEF CreatedMasterLeads
<1>2. PICK force \in Forces : GetMaster(o, force)
  BY <1>1 DEF Command, Step, ListReplicas, GetRS, UpdateRS, UpdatePod, SetReplicas, Bounce,
     WaitForPods, Recheck, Touch, TestFind, TestExec, CallFails, Over, Ended, Calls, Execs
<1>3. Goto(o, "failed") /\ UNCHANGED clusterVars
  BY <1>2 DEF GetMaster, CreatedMasterLeads
<1> QED
  BY <1>3 DEF Goto, Over, Ended, TypeOK, CreatedMasterLeads

\* What the cluster does to what member 0 and the first standby hold, up to the
\* removal of the ReplicaSet of member 0.
LEMMA CreatedMasterStays ==
  ASSUME Prompt, 1 \notin FaultyIndexes, TypeOK, RoleSurvivesRestart, pods = rs, 1 \in rs,
         acked \subseteq data[1], CreatedMasterLeads, 0 \in rs, ClusterNext, 0 \in rs'
  PROVE  /\ rsMaster' = {0} /\ podMaster' = {0}
         /\ disk'[0] = "primary" /\ conf'[0] = 1..Start /\ (0 \in up' => live'[0] = 1..Start)
         /\ disk'[1] = "standby" /\ 1 \in up' \ trigger'
         /\ data'[1] \subseteq data'[0] /\ acked' \subseteq data'[1]
<1> USE FirstTwo DEF TypeOK, ClusterTypeOK, CreatedMasterLeads, kubeVars, pgVars
<1>0. PICK i \in Idx : Healing(i) \/ Failing(i) \/ Using(i)
  BY DEF ClusterNext
<1>1. CASE RSController(i)
  BY <1>1 DEF RSController
<1>2. CASE KubeletStart(i)
  BY <1>2 DEF KubeletStart
<1>3. CASE SetUpBegins(i) \/ SetUpEnds(i)
  <2>1. i # 0 /\ i # 1
    BY <1>3 DEF SetUpBegins, SetUpEnds
  <2> QED
    BY <1>3, <2>1 DEF SetUpBegins, SetUpEnds
<1>4. CASE StartPostgres(i)
  BY <1>4 DEF StartPostgres
<1>5. CASE Promote(i)
  <2>1. i # 0 /\ i # 1
    BY <1>5 DEF Promote
  <2> QED
    BY <1>5, <2>1 DEF Promote
<1>6. CASE PodLost(i) \/ ContainerDies(i)
  <2>1. /\ i # 1 /\ ContainersEnd(i) /\ rsMaster' = rsMaster
        /\ podMaster' = podMaster \/ podMaster' = (podMaster \ {i}) \cup ({i} \cap rsMaster)
    BY <1>6 DEF PodLost, ContainerDies, Fault, DeletePod
  <2>2. disk'[0] = disk[0] /\ disk'[1] = disk[1]
    BY <2>1, VolumesKept DEF ContainersEnd
  <2> QED
    BY <2>1, <2>2 DEF ContainersEnd
<1>7. CASE RemoveReplicaSet(i)
  BY <1>7 DEF RemoveReplicaSet
<1>8. CASE \E j \in Idx : Stream(j, i)
  <2> PICK j \in Idx : Stream(j, i)
    BY <1>8
  <2>1. i = 0 /\ j # 0 /\ data' = [data EXCEPT ![j] = data[0]]
    BY DEF Stream, Follows
  <2>2. data'[0] = data[0] /\ (data'[1] = data[1] \/ data'[1] = data[0])
    BY <2>1
  <2> QED
    BY <2>2 DEF Stream
<1>9. CASE \E w \in Writes : ClientWrite(i, w)
  <2> PICK w \in Writes : ClientWrite(i, w)
    BY <1>9
  <2>1. i = 0 /\ data' = [data EXCEPT ![0] = data[0] \cup {w}]
    BY DEF ClientWrite, Writers
  <2> QED
    BY <2>1 DEF ClientWrite
<1>10. CASE \E w \in Writes : Acknowledge(i, w)
  <2> PICK w \in Writes : Acknowledge(i, w)
    BY <1>10
  <2>1. i = 0 /\ 0 \in up \cap podMaster /\ live[0] = 1..Start
    BY DEF Acknowledge, Writers, TakesCommits
  <2>2. 1 \in Followers(0)
    BY <2>1 DEF Followers, Follows
  <2>3. PICK j \in Idx : First(j, Followers(0)) /\ w \in data[j]
    BY <2>1, <2>2 DEF Acknowledge, Followers
  <2>4. j \in 1..Start /\ j <= 1
    BY <2>1, <2>2, <2>3 DEF First, Followers
  <2>5. w \in data[1]
    BY <2>3, <2>4
  <2> QED
    BY <2>5 DEF Acknowledge
<1> QED
  BY <1>0, <1>1, <1>2, <1>3, <1>4, <1>5, <1>6, <1>7, <1>8, <1>9, <1>10
     DEF Healing, Failing, Using

\* The removal of the ReplicaSet of member 0 leaves nobody labelled and nobody leading.
LEMMA MasterRemoved ==
  ASSUME Prompt, Forces \subseteq {FALSE}, IInv, 1 \in rs, acked \subseteq data[1],
         CreatedMasterLeads, 0 \in rs, Environment, 0 \notin rs'
  PROVE  /\ 1 \in rs' /\ HasDatabase(1)' /\ acked' \subseteq data'[1]
         /\ FirstStandbyLeads'
<1>1. RemoveReplicaSet(0)
  BY DEF Environment, ClusterNext, Healing, Failing, Using, RSController, KubeletStart, SetUpBegins,
     SetUpEnds, StartPostgres, Promote, PodLost, DeletePod, ContainerDies, RemoveReplicaSet, Stream,
     ClientWrite, Acknowledge, kubeVars
<1>2. /\ rs' = rs \ {0} /\ rsMaster' = {} /\ acked' = acked
      /\ disk'[1] = disk[1] /\ data'[1] = data[1]
  <2>1. ContainersEnd(0) /\ disk[1] = "standby" /\ ClusterTypeOK
    BY <1>1 DEF RemoveReplicaSet, CreatedMasterLeads, IInv, TypeOK
  <2>2. disk'[1] = disk[1]
    BY <2>1, FirstTwo, VolumesKept DEF ContainersEnd
  <2> QED
    BY <1>1, <2>2, FirstTwo
       DEF RemoveReplicaSet, ContainersEnd, CreatedMasterLeads, IInv, TypeOK, ClusterTypeOK
<1>3. Leaders' = {}
  <2>1. Leaders \subseteq {0}
    BY DEF IInv, LeaderIsLabelled, CreatedMasterLeads
  <2>2. \A o \in Operators : ~Recheck(o)
    BY DEF Recheck, CreatedMasterLeads, Over, Ended
  <2>3. Armed' \subseteq Armed
    BY <2>2, ArmedOnlyFalls DEF IInv, Next
  <2> QED
    BY <1>2, <2>1, <2>3 DEF Leaders
<1>4. \A o \in Operators : pc'[o] \notin {"getRS", "updateRS"}
  BY DEF Environment, CreatedMasterLeads, Over, Ended
<1> QED
  BY <1>2, <1>3, <1>4 DEF FirstStandbyLeads, CreatedMasterLeads, HasDatabase

\* Once member 0 is gone, a list that has an unlabelled first standby begins with it,
\* and no label is set behind its back.
LEMMA FirstStandbyStays ==
  ASSUME Prompt, IInv, 1 \in rs, 1 \in rs', 0 \notin rs, FirstStandbyLeads, [Next]_vars
  PROVE  FirstStandbyLeads'
<1> USE FirstTwo DEF clusterVars, kubeVars
<1>0. /\ TypeOK /\ PastIncarnation /\ RoleSurvivesRestart /\ LeaderIsLabelled /\ pods = rs
      /\ podMaster \subseteq rsMaster /\ rs \subseteq Idx
  BY DEF IInv, LeaderIsLabelled, TypeOK, ClusterTypeOK, RoleSurvivesRestart
<1>1. 1 \in podMaster => 1 \in podMaster'
  BY <1>0, LabelsStayPrompt
<1>2. Leaders' \subseteq {1}
  <2>1. podMaster # {} => 1 \in podMaster
    BY <1>0 DEF FirstStandbyLeads
  <2> QED
    BY <1>0, <2>1, LeadersStep DEF FirstStandbyLeads
<1>3. CASE Environment \/ UNCHANGED vars
  <2>1. UNCHANGED <<pc, reg>> /\ rsMaster' \subseteq rsMaster
    BY <1>0, <1>3, ClusterTemplates DEF Environment, vars, TypeOK
  <2> QED
    BY <1>1, <1>2, <2>1 DEF FirstStandbyLeads
<1>4. CASE \E o \in Operators : Command(o)
  <2> PICK o \in Operators : Command(o)
    BY <1>4
  <2>1. rsMaster' \subseteq {1} \/ 1 \in podMaster'
    <3>1. CASE UpdateRS(o)
      BY <1>1, <3>1 DEF UpdateRS, FirstStandbyLeads
    <3>2. CASE ~UpdateRS(o)
      <4>1. rsMaster' = rsMaster
        BY <3>2 DEF Command, Step, GetMaster, ListReplicas, GetRS, UpdatePod, SetReplicas,
           Bounce, DeletePod, WaitForPods, Recheck, Touch, TestFind, TestExec, CallFails
      <4> QED
        BY <1>1, <4>1 DEF FirstStandbyLeads
    <3> QED
      BY <3>1, <3>2
  <2>2. ASSUME NEW p \in Operators, pc'[p] \in {"getRS", "updateRS"}
        PROVE  reg'[p].pod = 1 \/ 1 \in podMaster'
    <3>1. CASE p # o
      BY <1>0, <1>1, <2>2, <3>1, OthersUntouched DEF FirstStandbyLeads
    <3>2. CASE p = o /\ ListReplicas(o)
      <4>1. ReplicaPods # {}
        BY <1>0, <2>2, <3>2 DEF ListReplicas, Abort, Goto, TypeOK
      <4>2. PICK t \in Idx : First(t, ReplicaPods) /\ reg' = [reg EXCEPT ![o] = Chosen(t, ReplicaPods)]
        BY <3>2, <4>1 DEF ListReplicas
      <4>3. reg'[o].pod = t
        BY <1>0, <4>2 DEF TypeOK, Chosen, NothingRead
      <4>4. CASE 1 \notin podMaster
        <5>1. 1 \in ReplicaPods /\ t # 0
          BY <1>0, <4>2, <4>4 DEF ReplicaPods, First
        <5>2. t <= 1
          BY <4>2, <5>1 DEF First
        <5> QED
          BY <3>2, <4>3, <5>1, <5>2 DEF Idx
      <4> QED
        BY <1>1, <4>4
    <3>3. CASE p = o /\ ~ListReplicas(o)
      <4>1. GetRS(o) /\ reg[o].pod \in rs /\ reg' = [reg EXCEPT ![o].labelled = reg[o].pod \in rsMaster,
                                             ![o].new = reg[o].pod \in rsNew]
        BY <1>0, <2>2, <3>3 DEF TypeOK, Command, Step, GetMaster, GetRS, UpdateRS, UpdatePod,
           SetReplicas, Bounce, WaitForPods, Recheck, Touch, TestFind, TestExec, CallFails,
           Abort, Goto, Over, Ended, Calls
      <4>2. reg'[o].pod = reg[o].pod /\ pc[o] = "getRS"
        BY <1>0, <4>1 DEF TypeOK, Registers, GetRS
      <4> QED
        BY <1>1, <3>3, <4>2 DEF FirstStandbyLeads
    <3> QED
      BY <3>1, <3>2, <3>3
  <2> QED
    BY <1>2, <2>1, <2>2 DEF FirstStandbyLeads
<1> QED
  BY <1>3, <1>4 DEF Next

\* The first standby keeps its ReplicaSet and its database, and gets whatever is
\* acknowledged.
LEMMA FirstStandbyKeeps ==
  ASSUME Prompt, 1 \notin FaultyIndexes \cup Removable, IInv, AllSetUp, 1 \in rs,
         HasDatabase(1), acked \subseteq data[1], Leaders \subseteq {1}, [Next]_vars
  PROVE  /\ 1 \in rs' /\ HasDatabase(1)' /\ acked' \subseteq data'[1]
<1> USE FirstTwo DEF IInv, TypeOK, ClusterTypeOK, HasDatabase, clusterVars, kubeVars, pgVars
<1>0. HasDatabase(1)'
  BY AllSetUpStep DEF AllSetUp, Founders
<1>1. CASE \E o \in Operators : Command(o)
  <2>1. UNCHANGED <<rs, acked, data>>
    BY <1>1 DEF Command, Step, GetMaster, ListReplicas, GetRS, UpdateRS, UpdatePod, SetReplicas,
       Bounce, DeletePod, ContainersEnd, WaitForPods, Recheck, Touch, TestFind, TestExec,
       CallFails
  <2> QED
    BY <1>0, <2>1
<1>2. CASE UNCHANGED vars
  BY <1>2 DEF vars
<1>3. CASE Environment
  <2>1. PICK i \in Idx : Healing(i) \/ Failing(i) \/ Using(i)
    BY <1>3 DEF Environment, ClusterNext
  <2>2. CASE Healing(i)
    <3>1. i # 1 \/ ~(SetUpBegins(i) \/ SetUpEnds(i))
      BY DEF SetUpBegins, SetUpEnds
    <3> QED
      BY <1>0, <2>2, <3>1 DEF Healing, RSController, KubeletStart, SetUpBegins, SetUpEnds,
         StartPostgres, Promote
  <2>3. CASE Failing(i)
    BY <1>0, <2>3 DEF Failing, Fault, PodLost, DeletePod, ContainerDies, ContainersEnd,
                RemoveReplicaSet
  <2>4. CASE \E j \in Idx : Stream(j, i)
    <3> PICK j \in Idx : Stream(j, i)
      BY <2>4
    <3>1. data' = [data EXCEPT ![j] = data[i]] /\ data[j] \subseteq data[i]
      BY DEF Stream, Follows
    <3>2. data[1] \subseteq data'[1]
      BY <3>1
    <3> QED
      BY <3>2 DEF Stream
  <2>5. CASE \E w \in Writes : ClientWrite(i, w)
    BY <2>5 DEF ClientWrite
  <2>6. CASE \E w \in Writes : Acknowledge(i, w)
    <3> PICK w \in Writes : Acknowledge(i, w)
      BY <2>6
    <3>1. i \in Leaders
      BY DEF Acknowledge, Writers, TakesCommits, AllSetUp, Leaders, Armed
    <3>2. w \in data[1]
      BY <3>1 DEF Acknowledge
    <3> QED
      BY <3>2 DEF Acknowledge
  <2> QED
    BY <2>1, <2>2, <2>3, <2>4, <2>5, <2>6 DEF Using
<1> QED
  BY <1>1, <1>2, <1>3 DEF Next

\* Every step keeps what the first standby holds.
LEMMA KeptStep ==
  ASSUME IInv, AllSetUp, KeptByFirstStandby, [Next]_vars
  PROVE  KeptByFirstStandby'
<1> SUFFICES ASSUME Prompt, 1 \notin FaultyIndexes \cup Removable, Forces \subseteq {FALSE}
             PROVE  /\ 1 \in rs' /\ HasDatabase(1)' /\ acked' \subseteq data'[1]
                    /\ IF 0 \in rs' THEN CreatedMasterLeads' ELSE FirstStandbyLeads'
  BY DEF KeptByFirstStandby
<1>0. /\ 1 \in rs /\ HasDatabase(1) /\ acked \subseteq data[1]
      /\ IF 0 \in rs THEN CreatedMasterLeads ELSE FirstStandbyLeads
      /\ TypeOK /\ RoleSurvivesRestart /\ pods = rs /\ rs' \subseteq rs
  BY TemplatesKeepLabel DEF KeptByFirstStandby, IInv, LeaderIsLabelled
<1>1. CASE 0 \notin rs
  BY <1>0, <1>1, FirstStandbyStays, FirstStandbyKeeps DEF FirstStandbyLeads
<1>2. CASE 0 \in rs /\ UNCHANGED clusterVars /\ \A p \in Operators : pc'[p] \in Ended
  BY <1>0, <1>2 DEF clusterVars, kubeVars, pgVars, CreatedMasterLeads, HasDatabase
<1>3. CASE 0 \in rs /\ \E o \in Operators : Command(o)
  BY <1>0, <1>2, <1>3, RunsGiveUp
<1>4. CASE 0 \in rs /\ UNCHANGED vars
  <2>1. UNCHANGED clusterVars /\ \A p \in Operators : pc'[p] \in Ended
    BY <1>0, <1>4 DEF vars, CreatedMasterLeads
  <2> QED
    BY <1>2, <1>4, <2>1
<1>5. CASE 0 \in rs /\ Environment
  <2>1. CASE 0 \notin rs'
    BY <1>0, <1>5, <2>1, MasterRemoved
  <2>2. CASE 0 \in rs'
    <3>1. ClusterNext /\ UNCHANGED pc
      BY <1>5 DEF Environment
    <3>2. /\ rsMaster' = {0} /\ podMaster' = {0}
          /\ disk'[0] = "primary" /\ conf'[0] = 1..Start /\ (0 \in up' => live'[0] = 1..Start)
          /\ disk'[1] = "standby" /\ 1 \in up' \ trigger'
          /\ data'[1] \subseteq data'[0] /\ acked' \subseteq data'[1]
      BY <1>0, <1>5, <2>2, <3>1, CreatedMasterStays
    <3>3. TypeOK'
      BY <1>0, TypeStep
    <3>4. 1 \in rs'
      BY <3>2, <3>3 DEF TypeOK, ClusterTypeOK
    <3> QED
      BY <1>0, <1>5, <2>2, <3>1, <3>2, <3>4 DEF CreatedMasterLeads, HasDatabase
  <2> QED
    BY <2>1, <2>2
<1> QED
  BY <1>1, <1>3, <1>4, <1>5 DEF Next

\* What the first standby has, whoever leads has.
LEMMA KeptIsDurable ==
  ASSUME Prompt, 1 \notin FaultyIndexes \cup Removable, Forces \subseteq {FALSE},
         IInv, AllSetUp, KeptByFirstStandby
  PROVE  DurableWrites
<1> SUFFICES ASSUME NEW m \in Writers
             PROVE  acked \subseteq data[m]
  BY DEF DurableWrites
<1>1. m \in Leaders
  BY DEF IInv, TypeOK, ClusterTypeOK, Writers, TakesCommits, AllSetUp, HasDatabase, Leaders, Armed
<1>2. CASE 0 \in rs
  <2>1. m = 0
    BY <1>2 DEF KeptByFirstStandby, CreatedMasterLeads, Writers
  <2> QED
    BY <1>2, <2>1 DEF KeptByFirstStandby, CreatedMasterLeads
<1>3. CASE 0 \notin rs
  BY <1>1, <1>3 DEF KeptByFirstStandby, FirstStandbyLeads
<1> QED
  BY <1>2, <1>3

\* As long as failures spare it, and the controller is prompt and nobody uses --force,
\* the first standby has all that was acknowledged, and only it is ever promoted.
THEOREM KeptInvariance == Spec => []KeptByFirstStandby
<1>1. IInv /\ AllSetUp /\ KeptByFirstStandby /\ [Next]_vars => KeptByFirstStandby'
  BY KeptStep
<1> QED
  BY <1>1, KeptInit, Invariance, AlwaysSetUp, PTL DEF Spec

\* With a prompt controller, no use of --force, and failures that spare the first
\* standby, no acknowledged commit is ever missing on a server that takes commits: the
\* standby a commit waits for is the one every failover promotes, for any size of
\* cluster, any number of operators, of failures of the others and of commits.
THEOREM CommitsSurviveFailover ==
  ASSUME Prompt, 1 \notin FaultyIndexes \cup Removable, Forces \subseteq {FALSE}
  PROVE  Spec => []DurableWrites
<1>1. IInv /\ AllSetUp /\ KeptByFirstStandby => DurableWrites
  BY KeptIsDurable
<1> QED
  BY <1>1, KeptInvariance, Invariance, AlwaysSetUp, PTL

-----------------------------------------------------------------------------
(* What a run reports.                                                     *)

\* Initially nobody runs, and member 0 has the names of all standbys.
LEMMA ReadyInit == Init => LabelledAreReady
<1> SUFFICES ASSUME Init PROVE LabelledAreReady
  OBVIOUS
<1>1. MembersStay
  <2>1. AllSetUp
    BY InitSetUp
  <2>2. \A i \in 1..Start : i \in Idx /\ i \in Founders
    BY DEF Founders, Idx
  <2>3. \A i \in 1..Start : conf[i] = 1..Start
    BY <2>2 DEF Init, ClusterInit
  <2>4. 0 \in Idx /\ 0 \in Founders /\ 1..Start \subseteq Founders
    BY <2>2 DEF Founders, Idx
  <2>5. conf[0] = 1..Start /\ live[0] = 1..Start
    BY <2>4 DEF Init, ClusterInit
  <2>6. \A i \in 1..Start : conf[i] # {}
    BY <2>3, FirstTwo
  <2> QED
    BY <2>1, <2>4, <2>5, <2>6 DEF Init, ClusterInit, MembersStay
<1>2. HandsOnStandbys /\ LabelledWait /\ TestedIsLabelled
  BY DEF Init, ClusterInit, HandsOnStandbys, LabelledWait, TestedIsLabelled, Calls, Founders
<1> QED
  BY <1>1, <1>2 DEF LabelledAreReady

\* What the cluster does to the members leaves them ready.
LEMMA ClusterKeepsReady ==
  ASSUME FaultyIndexes \cup Removable \subseteq {0}, TypeOK, RoleSurvivesRestart, MembersStay, HandsOnStandbys,
         LabelledWait, Environment
  PROVE  MembersStay' /\ HandsOnStandbys' /\ LabelledWait'
<1> USE FirstTwo DEF TypeOK, ClusterTypeOK, kubeVars, pgVars
<1>0. PICK i \in Idx : Healing(i) \/ Failing(i) \/ Using(i)
  BY DEF Environment, ClusterNext
<1>1. UNCHANGED <<pc, reg>>
  BY DEF Environment
<1>2. \A j \in 1..Start : j \in Idx /\ j # 0
  BY DEF Idx
<1>3. AllSetUp' /\ ~SetUpBegins(i) /\ ~SetUpEnds(i)
  <2>1. AllSetUp'
    BY AllSetUpStep DEF Next, MembersStay
  <2>2. disk[i] \notin {"empty", "copying"}
    BY DEF MembersStay, AllSetUp, HasDatabase
  <2> QED
    BY <2>1, <2>2 DEF SetUpBegins, SetUpEnds
<1>4. CASE RSController(i)
  <2>1. /\ i \in rs \ pods /\ i \notin up /\ pods' = pods \cup {i}
        /\ podMaster' = podMaster \cup ({i} \cap rsMaster)
        /\ UNCHANGED <<rs, rsMaster, conf, live, up, cut>>
    BY <1>4 DEF RSController
  <2>2. i # 0 => NamesOthers(i, conf[i])
    BY <2>1 DEF HandsOnStandbys, MembersStay, Founders, Idx
  <2>3. MembersStay'
    BY <1>3, <2>1 DEF MembersStay
  <2>4. HandsOnStandbys'
    BY <1>1, <2>1 DEF HandsOnStandbys, NamesOthers
  <2>5. LabelledWait'
    BY <1>1, <2>1, <2>2 DEF LabelledWait, NamesOthers
  <2> QED
    BY <2>3, <2>4, <2>5
<1>5. CASE StartPostgres(i)
  <2>1. /\ up' = up \cup {i} /\ live' = [live EXCEPT ![i] = conf[i]]
        /\ UNCHANGED <<rs, rsMaster, pods, podMaster, conf, cut>> /\ i \in rs
    BY <1>5 DEF StartPostgres
  <2>2. MembersStay'
    BY <1>3, <2>1 DEF MembersStay
  <2>3. HandsOnStandbys' /\ LabelledWait'
    BY <1>1, <2>1 DEF HandsOnStandbys, LabelledWait, NamesOthers
  <2> QED
    BY <2>2, <2>3
<1>6. CASE KubeletStart(i) \/ Promote(i) \/ Using(i)
  <2>1. UNCHANGED <<rs, rsMaster, pods, podMaster, conf, live, up, cut>>
    BY <1>6 DEF KubeletStart, Promote, Using, Stream, ClientWrite, Acknowledge
  <2> QED
    BY <1>3, <1>1, <2>1 DEF MembersStay, HandsOnStandbys, LabelledWait, NamesOthers
<1>7. CASE Failing(i)
  <2>1. i = 0
    BY <1>7 DEF Failing, PodLost, ContainerDies, RemoveReplicaSet, Fault
  <2>2. /\ rs' \in {rs, rs \ {0}} /\ 0 \notin up'
        /\ 0 \in rs' => rsMaster' = rsMaster /\ conf' = conf
        /\ 0 \in pods' => 0 \in rs' /\ (0 \in podMaster' \/ 0 \in pods)
        /\ 0 \in pods' /\ 0 \notin podMaster' => 0 \notin podMaster /\ 0 \in pods
    BY <1>7, <2>1 DEF Failing, PodLost, ContainerDies, RemoveReplicaSet, DeletePod,
       ContainersEnd, MembersStay
  <2>3. \A k \in 1..Start :
          /\ conf'[k] = conf[k] /\ live'[k] = live[k]
          /\ k \in pods' <=> k \in pods
          /\ k \in podMaster' <=> k \in podMaster
          /\ k \in up' <=> k \in up
          /\ k \in cut' <=> k \in cut
    BY <1>2, <1>7, <2>1 DEF Failing, PodLost, ContainerDies, RemoveReplicaSet, DeletePod,
       ContainersEnd
  <2>5. MembersStay'
    BY <1>3, <1>2, <2>2, <2>3 DEF MembersStay
  <2>6. HandsOnStandbys'
    BY <1>1, <2>3 DEF HandsOnStandbys, NamesOthers
  <2>7. LabelledWait'
    <3>1. podMaster' \subseteq rs'
      BY TypeCluster DEF Environment
    <3>2. podMaster' \ {0} \subseteq 1..Start
      BY <3>1, <2>5 DEF MembersStay, Founders
    <3> QED
      BY <1>1, <2>3, <3>2 DEF LabelledWait, NamesOthers
  <2> QED
    BY <2>5, <2>6, <2>7
<1> QED
  BY <1>0, <1>3, <1>4, <1>5, <1>6, <1>7 DEF Healing

\* Every call of a run leaves the members ready.
LEMMA CommandKeepsReady ==
  ASSUME \A o, p \in Operators : o = p, Forces \subseteq {FALSE}, TypeOK, RoleSurvivesRestart,
         MembersStay, HandsOnStandbys, LabelledWait, NEW o \in Operators, Command(o)
  PROVE  MembersStay' /\ HandsOnStandbys' /\ LabelledWait'
<1> USE FirstTwo DEF TypeOK, ClusterTypeOK, kubeVars, pgVars, clusterVars
<1>0. /\ \A p \in Operators : p = o
      /\ reg[o] \in Registers /\ reg[o].pod \in Idx /\ reg[o].seen \subseteq Idx
      /\ 1..Start \subseteq Idx /\ 0 \notin 1..Start
  BY DEF Registers, Idx
<1>1. ASSUME UNCHANGED clusterVars, pc'[o] \in Ended
      PROVE  MembersStay' /\ HandsOnStandbys' /\ LabelledWait'
  BY <1>0, <1>1 DEF MembersStay, AllSetUp, HasDatabase, HandsOnStandbys, LabelledWait, NamesOthers,
                    Over, Ended, Calls
<1>2. CASE \E force \in Forces : GetMaster(o, force)
  <2>1. UNCHANGED clusterVars /\ (pc'[o] = "failed" \/ (pc'[o] = "list" /\ podMaster = {}))
    BY <1>2 DEF GetMaster, Goto
  <2> QED
    BY <1>0, <1>1, <2>1 DEF MembersStay, AllSetUp, HasDatabase, HandsOnStandbys,
           LabelledWait, NamesOthers, Over, Ended
<1>3. CASE ListReplicas(o)
  <2>1. CASE ReplicaPods = {}
    BY <1>1, <1>3, <2>1 DEF ListReplicas, Abort, Goto, Over, Ended
  <2>2. CASE ReplicaPods # {}
    <3>1. PICK t \in Idx : t \in ReplicaPods /\ reg' = [reg EXCEPT ![o] = Chosen(t, ReplicaPods)]
      BY <1>3, <2>2 DEF ListReplicas, First
    <3>2. reg'[o].pod = t /\ reg'[o].seen = ReplicaPods
      BY <3>1 DEF Chosen, NothingRead
    <3>3. ReplicaPods \subseteq 1..Start
      BY DEF ReplicaPods, MembersStay, Founders
    <3>4. UNCHANGED clusterVars /\ pc[o] = "list" /\ pc'[o] = "getRS"
      BY <1>3, <2>2 DEF ListReplicas, Goto
    <3>5. MembersStay'
      BY <3>4 DEF MembersStay, AllSetUp, HasDatabase
    <3>6. HandsOnStandbys'
      <4>1. \A i \in (1..Start) \ pods' : NamesOthers(i, conf[i])'
        BY <3>4 DEF HandsOnStandbys, NamesOthers
      <4>2. t \in 1..Start /\ ReplicaPods \subseteq 1..Start
        BY <3>1, <3>3
      <4> QED
        BY <1>0, <3>2, <3>4, <4>1, <4>2 DEF HandsOnStandbys
    <3>7. LabelledWait'
      BY <1>0, <3>4 DEF LabelledWait, NamesOthers, Calls
    <3> QED
      BY <3>5, <3>6, <3>7
  <2> QED
    BY <2>1, <2>2
<1>4. CASE GetRS(o)
  <2>1. CASE reg[o].pod \in rs
    <3>1. /\ UNCHANGED clusterVars /\ pc[o] = "getRS" /\ pc'[o] = "updateRS"
          /\ reg'[o].pod = reg[o].pod /\ reg'[o].seen = reg[o].seen
      BY <1>0, <1>4, <2>1 DEF GetRS, Goto, Registers
    <3> QED
      BY <1>0, <3>1 DEF MembersStay, AllSetUp, HasDatabase, HandsOnStandbys,
           LabelledWait, NamesOthers, Calls
  <2>2. CASE reg[o].pod \notin rs
    BY <1>1, <1>4, <2>2 DEF GetRS, Abort, Goto, Over, Ended
  <2> QED
    BY <2>1, <2>2
<1>5. CASE UpdateRS(o)
  <2>1. CASE Abort(o) /\ UNCHANGED rsMaster
    BY <1>1, <1>5, <2>1 DEF UpdateRS, Abort, Goto, Over, Ended
  <2>2. CASE Goto(o, "updatePod") /\ rsMaster \subseteq rsMaster' /\ UNCHANGED reg
    <3>1. pc[o] = "updateRS" /\ pc'[o] = "updatePod" /\ UNCHANGED <<rs, pods, podMaster, pgVars>>
      BY <1>5, <2>2 DEF UpdateRS, Goto
    <3> QED
      BY <1>0, <2>2, <3>1 DEF MembersStay, AllSetUp, HasDatabase, HandsOnStandbys,
           LabelledWait, NamesOthers, Calls
  <2> QED
    BY <1>5, <2>1, <2>2 DEF UpdateRS
<1>6. CASE UpdatePod(o)
  <2>1. CASE Abort(o) /\ UNCHANGED podMaster
    BY <1>1, <1>6, <2>1 DEF UpdatePod, Abort, Goto, Over, Ended
  <2>2. CASE Goto(o, "setReplicas") /\ podMaster' = podMaster \cup {reg[o].pod} /\ UNCHANGED reg
    <3>1. /\ pc[o] = "updatePod" /\ pc'[o] = "setReplicas"
          /\ UNCHANGED <<rs, rsMaster, pods, pgVars>>
      BY <1>6, <2>2 DEF UpdatePod, Goto
    <3> QED
      BY <1>0, <2>2, <3>1 DEF MembersStay, AllSetUp, HasDatabase, HandsOnStandbys,
           LabelledWait, NamesOthers, Calls
  <2> QED
    BY <1>6, <2>1, <2>2 DEF UpdatePod
<1>7. CASE SetReplicas(o)
  <2> DEFINE t == reg[o].pod
             others == reg[o].seen \ {t}
  <2>1. /\ pc[o] = "setReplicas" /\ UNCHANGED <<kubeVars, up, live>>
        /\ t \in 1..Start /\ t # 0 /\ t \in Idx /\ HasStarted(t)
        /\ conf[t] = {} => t \in cut
        /\ others \in SUBSET Idx /\ others \subseteq (1..Start) \ {t}
    BY <1>0, <1>7 DEF SetReplicas, HandsOnStandbys, MembersStay, AllSetUp, HasStarted, Founders
  <2>2. CASE Abort(o) /\ UNCHANGED <<conf, disk, cut>>
    BY <1>1, <1>7, <2>2 DEF SetReplicas, Abort, Goto, Over, Ended
  <2>3. CASE /\ NamesWritten(t, others) \/ NamesCutOff(t, others)
             /\ Goto(o, "bounce") /\ UNCHANGED reg /\ t \in running
    <3>1. \A k \in Idx \ {t} : conf'[k] = conf[k] /\ (k \in cut' <=> k \in cut)
      BY <2>1, <2>3, ScriptKeeps
    <3>2. /\ conf'[t] = {} => t \in cut'
          /\ t \in cut' \/ (conf'[t] # {} /\ conf'[t] \subseteq (1..Start) \ {t})
      <4>1. CASE NamesWritten(t, others)
        BY <2>1, <4>1 DEF NamesWritten
      <4>2. CASE NamesCutOff(t, others)
        BY <4>2 DEF NamesCutOff
      <4> QED
        BY <2>3, <4>1, <4>2
    <3>3. AllSetUp'
      BY AllSetUpStep DEF MembersStay, Next
    <3>4. pc'[o] = "bounce" /\ reg' = reg /\ t = reg[o].pod /\ t \in pods
      BY <2>3 DEF Goto
    <3> HIDE DEF others, t
    <3>5. MembersStay'
      BY <2>1, <3>1, <3>2, <3>3 DEF MembersStay
    <3>6. HandsOnStandbys'
      BY <1>0, <2>1, <3>1, <3>2, <3>4 DEF HandsOnStandbys, NamesOthers
    <3>7. LabelledWait'
      BY <1>0, <2>1, <3>1, <3>4 DEF LabelledWait, NamesOthers, Calls
    <3> QED
      BY <3>5, <3>6, <3>7
  <2>4. CASE NamesRefused(t, others) /\ Abort(o)
    BY <2>1, <2>2, <2>4 DEF NamesRefused
  <2> QED
    BY <1>7, <2>2, <2>3, <2>4 DEF SetReplicas, Reaches
<1>8. CASE Bounce(o)
  <2> DEFINE t == reg[o].pod
  <2>1. CASE Abort(o) /\ UNCHANGED <<kubeVars, pgVars>>
    BY <1>1, <1>8, <2>1 DEF Bounce, Abort, Goto, Over, Ended
  <2>2. CASE Goto(o, "wait") /\ DeletePod(t) /\ UNCHANGED reg
    <3>1. pc[o] = "bounce" /\ pc'[o] = "wait"
      BY <1>8, <2>2 DEF Bounce, Goto
    <3>2. /\ UNCHANGED <<rs, rsMaster, conf, cut>> /\ up' = up \ {t}
          /\ live' = [live EXCEPT ![t] = {}]
          /\ podMaster' \subseteq podMaster \cup {t}
          /\ podMaster \ {t} \subseteq podMaster'
          /\ pods \ {t} \subseteq pods' /\ pods' \subseteq pods \cup {t}
      BY <2>2 DEF DeletePod, ContainersEnd
    <3>3. t \in 1..Start /\ NamesOthers(t, conf[t])
      BY <3>1 DEF HandsOnStandbys
    <3>4. \A k \in Idx \ {t} : live'[k] = live[k]
      BY <1>0, <3>2
    <3>5. \A i \in podMaster \ {0} : i = t \/ (NamesOthers(i, conf[i]) /\ (i \in up => NamesOthers(i, live[i])))
      BY <3>1 DEF LabelledWait, Calls
    <3>6. t # 0 /\ t \in Idx /\ reg' = reg
      BY <1>0, <2>2, <3>3
    <3> HIDE DEF t
    <3>7. MembersStay'
      <4>1. AllSetUp'
        BY AllSetUpStep DEF MembersStay, Next
      <4> QED
        BY <3>2, <3>4, <3>6, <4>1 DEF MembersStay
    <3>8. HandsOnStandbys'
      BY <1>0, <3>1, <3>2, <3>3 DEF HandsOnStandbys, NamesOthers
    <3>9. LabelledWait'
      BY <1>0, <3>2, <3>3, <3>4, <3>5 DEF LabelledWait, NamesOthers
    <3> QED
      BY <3>7, <3>8, <3>9
  <2> QED
    BY <1>8, <2>1, <2>2 DEF Bounce
<1>9. CASE WaitForPods(o) \/ Recheck(o) \/ Touch(o) \/ TestFind(o) \/ TestExec(o)
  <2>1. /\ UNCHANGED <<kubeVars, up, disk, conf, live, cut>>
        /\ pc'[o] \notin {"getRS", "updateRS", "updatePod", "setReplicas", "bounce"}
        /\ pc[o] \in Calls \ {"setReplicas", "bounce"}
    BY <1>9 DEF WaitForPods, Recheck, Touch, TestFind, TestExec, Abort, Goto, Calls
  <2> QED
    BY <1>0, <2>1 DEF MembersStay, AllSetUp, HasDatabase, HandsOnStandbys, LabelledWait, NamesOthers
<1>10. CASE CallFails(o)
  BY <1>1, <1>10 DEF CallFails, Abort, Goto, Over, Ended
<1> QED
  BY <1>2, <1>3, <1>4, <1>5, <1>6, <1>7, <1>8, <1>9, <1>10 DEF Command, Step

\* The pod that testMaster found keeps its label until it is another pod.
LEMMA TestedStep ==
  ASSUME TypeOK, PastIncarnation, TestedIsLabelled, [Next]_vars
  PROVE  TestedIsLabelled'
<1> USE DEF clusterVars, kubeVars
<1>1. \A p \in Operators : reg[p].pod \in Idx /\ uid[reg[p].pod] \in Nat
  BY DEF TypeOK, Registers, ClusterTypeOK
<1>2. \A i \in podMaster : uid'[i] = uid[i] => i \in podMaster'
  <2>1. CASE Environment
    <3>1. PodsFollow
      BY <2>1, ClusterFollows DEF Environment, TypeOK
    <3> QED
      BY <3>1 DEF PodsFollow, SamePod, TypeOK, ClusterTypeOK
  <2>2. CASE \E o \in Operators : Bounce(o)
    <3> PICK o \in Operators : Bounce(o)
      BY <2>2
    <3>1. PodsFollow \/ podMaster' = podMaster
      BY <1>1, DeleteFollows DEF Bounce, TypeOK
    <3> QED
      BY <3>1 DEF PodsFollow, SamePod, TypeOK, ClusterTypeOK
  <2>3. CASE \E o \in Operators : Command(o) /\ ~Bounce(o)
    BY <2>3 DEF Command, Step, GetMaster, ListReplicas, GetRS, UpdateRS, UpdatePod,
       SetReplicas, WaitForPods, Recheck, Touch, TestFind, TestExec, CallFails
  <2>4. CASE UNCHANGED vars
    BY <2>4 DEF vars
  <2> QED
    BY <2>1, <2>2, <2>3, <2>4 DEF Next
<1>3. ASSUME NEW p \in Operators, pc[p] = "testExec", reg'[p] = reg[p],
             reg[p].uid = uid'[reg[p].pod]
      PROVE  reg[p].pod \in podMaster'
  <2>1. reg[p].uid = uid[reg[p].pod]
    BY <1>1, <1>3, StaysThere, UidGrows
  <2> QED
    BY <1>2, <1>3, <2>1 DEF TestedIsLabelled
<1>4. CASE Environment \/ UNCHANGED vars
  <2>1. pc' = pc /\ reg' = reg
    BY <1>4 DEF Environment, vars
  <2> QED
    BY <1>3, <2>1 DEF TestedIsLabelled
<1>5. CASE \E o \in Operators : Command(o)
  <2> PICK o \in Operators : Command(o)
    BY <1>5
  <2> SUFFICES ASSUME NEW p \in Operators, pc'[p] = "testExec",
                      reg'[p].uid = uid'[reg'[p].pod]
               PROVE  reg'[p].pod \in podMaster'
    BY DEF TestedIsLabelled
  <2>1. CASE p # o
    BY <1>3, <2>1, OthersUntouched
  <2>2. CASE p = o
    <3>1. TestFind(o)
      BY <2>2 DEF TypeOK, Command, Step, GetMaster, ListReplicas, GetRS, UpdateRS,
         UpdatePod, SetReplicas, Bounce, WaitForPods, Recheck, Touch, TestFind,
         TestExec, CallFails, Abort, Goto, Over, Ended, Calls
    <3>2. PICK m \in running : podMaster = {m} /\ reg' = [reg EXCEPT ![o].pod = m, ![o].uid = uid[m]]
      BY <2>2, <3>1 DEF TestFind, TheMaster, Abort, Goto, TypeOK
    <3>3. reg'[o].pod = m /\ podMaster' = podMaster
      BY <3>1, <3>2 DEF TypeOK, Registers, TestFind
    <3> QED
      BY <2>2, <3>2, <3>3
  <2> QED
    BY <2>1, <2>2
<1> QED
  BY <1>4, <1>5 DEF Next

\* Every step keeps the members ready.
LEMMA ReadyStep ==
  ASSUME IInv, LabelledAreReady, [Next]_vars
  PROVE  LabelledAreReady'
<1> SUFFICES ASSUME \A o, p \in Operators : o = p, Forces \subseteq {FALSE},
                    FaultyIndexes \cup Removable \subseteq {0}
             PROVE  MembersStay' /\ HandsOnStandbys' /\ LabelledWait' /\ TestedIsLabelled'
  BY DEF LabelledAreReady
<1>0. /\ MembersStay /\ HandsOnStandbys /\ LabelledWait /\ TestedIsLabelled
      /\ TypeOK /\ RoleSurvivesRestart /\ PastIncarnation
  BY DEF LabelledAreReady, IInv
<1>1. TestedIsLabelled'
  BY <1>0, TestedStep
<1>2. CASE UNCHANGED vars
  BY <1>0, <1>1, <1>2
     DEF vars, clusterVars, kubeVars, pgVars, MembersStay, AllSetUp, HasDatabase,
         HandsOnStandbys, LabelledWait, NamesOthers
<1> QED
  BY <1>0, <1>1, <1>2, ClusterKeepsReady, CommandKeepsReady DEF Next

\* A run that ends well has tested such a member.
LEMMA ReadySucceeds ==
  ASSUME \A o, p \in Operators : o = p, Forces \subseteq {FALSE},
         FaultyIndexes \cup Removable \subseteq {0}, IInv, LabelledAreReady, Next, NEW o \in Operators,
         pc[o] = "testExec", pc'[o] = "ok"
  PROVE  LET m == reg[o].pod IN
           /\ m \in Writers /\ m \in rsMaster
           /\ m \in cut \/ (live[m] # {} /\ live[m] \subseteq rs \ {m})
<1> DEFINE m == reg[o].pod
<1>0. MembersStay /\ LabelledWait /\ TestedIsLabelled /\ TypeOK /\ RoleSurvivesRestart
  BY DEF LabelledAreReady, IInv
<1>1. TestExec(o)
  <2>1. Command(o)
    BY <1>0 DEF Next, Environment
  <2> QED
    BY <1>0, <2>1 DEF Command, Step, GetMaster, ListReplicas, GetRS, UpdateRS, UpdatePod,
       SetReplicas, Bounce, WaitForPods, Recheck, Touch, TestFind, CallFails, Abort, Goto,
       Over, Ended, TypeOK
<1>2. TestPasses(m, reg[o].uid)
  BY <1>0, <1>1 DEF TestExec, Abort, Goto, TypeOK
<1>3. m \in Writers /\ m \in podMaster /\ m \in up /\ m \in rsMaster
  BY <1>0, <1>2 DEF TestPasses, Reaches, Commits, TakesCommits, TestedIsLabelled, Writers,
     RoleSurvivesRestart, TypeOK, ClusterTypeOK
<1>4. m \in cut \/ (live[m] # {} /\ live[m] \subseteq rs \ {m})
  <2>1. CASE m = 0
    <3>1. live[m] = 1..Start /\ 1..Start \subseteq rs
      BY <1>0, <1>3, <2>1 DEF MembersStay
    <3>2. 1 \in 1..Start /\ 0 \notin 1..Start
      OBVIOUS
    <3> QED
      BY <2>1, <3>1, <3>2
  <2>2. CASE m # 0
    BY <1>0, <1>3, <2>2 DEF LabelledWait, NamesOthers, MembersStay, Calls
  <2> QED
    BY <2>1, <2>2
<1> QED
  BY <1>3, <1>4

\* With one operator, no --force, and failures and a removal of member 0 only: whoever is
\* labelled has names of other members to wait for, or gets them before its pod is
\* deleted, unless the connection was lost when they were to be written.
THEOREM ReadyInvariance == Spec => []LabelledAreReady
<1>1. IInv /\ LabelledAreReady /\ [Next]_vars => LabelledAreReady'
  BY ReadyStep
<1> QED
  BY <1>1, ReadyInit, Invariance, PTL DEF Spec

\* An operator who runs failover alone, without --force, while nothing fails but the
\* old master, is told of success only over a promoted master that is the master again
\* after a restart, and that waits for standbys other than itself unless the connection
\* was lost when their names were to be written: also when the controller is behind,
\* the old master comes back, and runs before this one stopped or hung anywhere.
THEOREM SuccessIsPromotion ==
  ASSUME \A o, p \in Operators : o = p, Forces \subseteq {FALSE},
         FaultyIndexes \cup Removable \subseteq {0}
  PROVE  Spec => SuccessMeansPromoted
<1> DEFINE Promoted ==
      \A o \in Operators :
        pc[o] = "testExec" /\ pc'[o] = "ok" =>
          LET m == reg[o].pod IN
            /\ m \in Writers /\ m \in rsMaster
            /\ m \in cut \/ (live[m] # {} /\ live[m] \subseteq rs \ {m})
<1>1. IInv /\ LabelledAreReady /\ [Next]_vars => [Promoted]_vars
  <2> SUFFICES ASSUME IInv, LabelledAreReady, Next, NEW o \in Operators,
                      pc[o] = "testExec", pc'[o] = "ok"
               PROVE  LET m == reg[o].pod IN
                        /\ m \in Writers /\ m \in rsMaster
                        /\ m \in cut \/ (live[m] # {} /\ live[m] \subseteq rs \ {m})
    OBVIOUS
  <2> QED
    BY ReadySucceeds
<1> QED
  BY <1>1, ReadyInvariance, Invariance, PTL DEF Spec, SuccessMeansPromoted
=============================================================================
