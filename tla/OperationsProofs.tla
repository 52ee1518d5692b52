-------------------------- MODULE OperationsProofs --------------------------
(***************************************************************************)
(* Theorems about the commands together, for every size of cluster, every  *)
(* set of operators and every bound.  Scale and upgrade arm nobody and     *)
(* relabel no template: what failover relies on survives their calls.  The *)
(* one thing failover alone never sees is a ReplicaSet that appears, where *)
(* the claim of a member that has led may still be: scale, which takes the *)
(* indexes behind the last one, never finds it, since leaders come first.  *)
(* Failover in turn leaves the images alone, but labels templates before   *)
(* pods: upgrade does not find the pods in between.                        *)
(***************************************************************************)
EXTENDS Operations, FailoverProofs, ScaleProofs, UpgradeProofs

USE NAssumption, CommandsAssumption

-----------------------------------------------------------------------------
(* The invariant of failover, over the steps of the others.                *)

\* A step of another command: templates keep their label, pods come from templates, no
\* member is armed, and none that is comes back.
LEMMA OtherStep ==
  ASSUME IInv, ClusterTypeOK', UNCHANGED <<failoverVars, rsMaster>>, rs \subseteq rs', PodsFollow,
         Prompt => Armed \cap rs' \subseteq rs,
         \A k \in Idx : disk'[k] = "primary" => disk[k] = "primary",
         trigger' \subseteq trigger
  PROVE  /\ IInv' /\ Armed' \subseteq Armed
         /\ Prompt => Leaders' \subseteq Leaders /\ podMaster \subseteq podMaster'
<1> USE DEF failoverVars
<1>0. TypeOK /\ RoleSurvivesRestart /\ LabelledFirst /\ PastIncarnation /\ LeaderIsLabelled
  BY DEF IInv
<1>1. TypeOK'
  BY <1>0 DEF TypeOK
<1>2. RoleSurvivesRestart'
  BY <1>0 DEF RoleSurvivesRestart, PodsFollow, SamePod, FromTemplate, TypeOK, ClusterTypeOK
<1>3. \A i \in Idx : uid[i] \in Nat /\ (uid'[i] = uid[i] \/ uid'[i] = uid[i] + 1)
  BY <1>0 DEF PodsFollow, TypeOK, ClusterTypeOK
<1>4. \A p \in Operators : reg[p].pod \in Idx /\ reg[p].uid \in Nat
  BY <1>0 DEF TypeOK, Registers
<1>5. LabelledFirst'
  <2> SUFFICES ASSUME NEW p \in Operators, pc[p] = "updatePod", reg[p].uid = uid'[reg[p].pod]
               PROVE  reg[p].pod \in rsMaster
    BY DEF LabelledFirst
  <2>1. reg[p].uid = uid[reg[p].pod]
    BY <1>0, <1>3, <1>4, StaysThere
  <2> QED
    BY <1>0, <2>1 DEF LabelledFirst
<1>6. PastIncarnation'
  BY <1>0, <1>3, <1>4 DEF PastIncarnation
<1>7. Armed' \subseteq Armed
  <2> SUFFICES ASSUME NEW i \in Idx, NEW p \in Operators,
                      pc[p] = "trigger", reg[p].pod = i, reg[p].uid = uid'[i]
               PROVE  i \in Armed
    BY DEF Armed
  <2>1. reg[p].uid = uid[i]
    BY <1>0, <1>3, StaysThere
  <2> QED
    BY <2>1 DEF Armed
<1>8. Prompt => Leaders' \subseteq Leaders
  BY <1>7 DEF Leaders
<1>9. Prompt => pods = rs /\ pods' = rs' /\ podMaster \subseteq podMaster'
  <2> SUFFICES ASSUME Prompt PROVE pods = rs /\ pods' = rs' /\ podMaster \subseteq podMaster'
    OBVIOUS
  <2>1. pods = rs
    BY <1>0 DEF LeaderIsLabelled
  <2>2. pods' = rs'
    BY <2>1 DEF PodsFollow
  <2>3. podMaster \subseteq podMaster'
    BY <1>0, <2>1, <2>2 DEF PodsFollow, SamePod, FromTemplate, RoleSurvivesRestart, TypeOK,
       ClusterTypeOK
  <2> QED
    BY <2>1, <2>2, <2>3
<1>10. LeaderIsLabelled'
  BY <1>0, <1>8, <1>9 DEF LeaderIsLabelled
<1> QED
  BY <1>1, <1>2, <1>5, <1>6, <1>7, <1>8, <1>9, <1>10 DEF IInv

-----------------------------------------------------------------------------
(* Leaders come first.                                                     *)

\* Behind OneAfterTheOther: at most one scale or setreplicas is on, and the pod that a
\* failover is about to label has its ReplicaSet.
Careful ==
  /\ overlapped = {}
  /\ \A o \in Operators : Alone(o)
  /\ \A o \in Operators : pc[o] \in {"getRS", "updateRS", "updatePod"} => reg[o].pod \in rs

\* Leaders come first as long as no member is added, no label given and nobody armed.
LEMMA LowestKept ==
  ASSUME LowestLeads, UNCHANGED <<failoverVars, scaleVars>>,
         rs' \subseteq rs, rsMaster' \subseteq rsMaster, Armed' \subseteq Armed,
         Prompt => podMaster \cap rs' \subseteq podMaster'
  PROVE  LowestLeads'
  BY DEF LowestLeads, failoverVars, scaleVars

\* A failover labels the first replica there is, and arms who is the only one labelled.
LEMMA LowestFailover ==
  ASSUME IInv, LowestLeads, NEW o \in Operators, Command(o), UNCHANGED scaleVars
  PROVE  LowestLeads'
<1> USE DEF scaleVars
<1> SUFFICES ASSUME Prompt PROVE LowestLeads'
  BY DEF LowestLeads
<1>0. /\ TypeOK /\ PastIncarnation /\ RoleSurvivesRestart /\ pods = rs /\ [Next]_vars
      /\ rs \subseteq Idx /\ podMaster \subseteq rs
  BY DEF IInv, LeaderIsLabelled, Next, TypeOK, ClusterTypeOK
<1>1. rs' \subseteq rs /\ podMaster \cap rs' \subseteq podMaster'
  BY <1>0, TemplatesKeepLabel, LabelsStayPrompt
<1>2. /\ \A i \in Armed, j \in rs : i <= j
      /\ \A i \in rsMaster, j \in rs : j < i => j \in podMaster
      /\ \A p \in Operators : pc[p] \in {"getRS", "updateRS", "updatePod"} =>
           \A j \in rs : j < reg[p].pod => j \in podMaster
      /\ \A p \in Operators : scalePc[p] = "getMaster" => rs \subseteq scaleReg[p].seen \cup podMaster
      /\ \A p \in Operators : scalePc[p] \in Filling =>
           \A i \in rs \cup Armed : i < scaleReg[p].at
  BY DEF LowestLeads
<1>3. \A i \in Armed' : i \in Armed \/ (i \in rs /\ \A j \in rs : i <= j)
  <2>1. CASE \E q \in Operators : Recheck(q)
    <3>1. CASE Armed' \subseteq Armed
      BY <3>1
    <3>2. CASE \E m \in Idx : podMaster = {m} /\ Armed' \subseteq Armed \cup {m}
      <4> PICK m \in Idx : podMaster = {m} /\ Armed' \subseteq Armed \cup {m}
        BY <3>2
      <4>1. m \in rs /\ m \in rsMaster
        BY <1>0 DEF RoleSurvivesRestart
      <4>2. \A j \in rs : j \in Idx /\ (j < m => j = m)
        BY <1>0, <1>2, <4>1
      <4>3. \A j \in rs : m <= j
        BY <4>2 DEF Idx
      <4> QED
        BY <4>1, <4>3
    <3> QED
      BY <1>0, <2>1, <3>1, <3>2, RecheckArms
  <2>2. CASE \A q \in Operators : ~Recheck(q)
    BY <1>0, <2>2, ArmedOnlyFalls
  <2> QED
    BY <2>1, <2>2
<1>4. \A i \in Armed', j \in rs' : i <= j
  BY <1>1, <1>2, <1>3
<1>5. \A i \in rsMaster', j \in rs' : j < i => j \in podMaster'
  <2>1. rsMaster' \subseteq rsMaster
          \/ (pc[o] = "updateRS" /\ rsMaster' = rsMaster \cup {reg[o].pod})
    BY DEF Command, Step, GetMaster, ListReplicas, GetRS, UpdateRS, UpdatePod, SetReplicas,
       Bounce, DeletePod, WaitForPods, Recheck, Touch, TestFind, TestExec, CallFails,
       clusterVars, kubeVars
  <2> QED
    BY <1>1, <1>2, <2>1
<1>6. ASSUME NEW p \in Operators, pc'[p] \in {"getRS", "updateRS", "updatePod"}
      PROVE  \A j \in rs' : j < reg'[p].pod => j \in podMaster'
  <2>1. CASE p = o /\ ListReplicas(o)
    <3>1. PICK t \in Idx : First(t, ReplicaPods) /\ reg' = [reg EXCEPT ![o] = Chosen(t, ReplicaPods)]
      BY <1>0, <1>6, <2>1 DEF ListReplicas, Abort, Goto, TypeOK
    <3>2. reg'[p].pod = t
      BY <1>0, <2>1, <3>1 DEF Chosen, NothingRead, TypeOK
    <3>3. \A j \in rs : j \in Idx /\ (j \in podMaster \/ t <= j)
      BY <1>0, <3>1 DEF First, ReplicaPods
    <3> QED
      BY <1>1, <3>2, <3>3 DEF Idx
  <2>2. CASE p # o
    <3>1. pc'[p] = pc[p] /\ reg'[p] = reg[p]
      BY <1>0, <2>2, OthersUntouched
    <3> QED
      BY <1>1, <1>2, <1>6, <3>1
  <2>3. CASE p = o /\ ~ListReplicas(o)
    <3>1. pc[o] \in {"getRS", "updateRS"} /\ reg'[o].pod = reg[o].pod
      <4>1. /\ pc'[o] \in {"getRS", "updateRS", "updatePod"}
            /\ DOMAIN pc = Operators /\ DOMAIN reg = Operators /\ reg[o] \in Registers
        BY <1>0, <1>6, <2>3 DEF TypeOK
      <4>2. CASE GetRS(o)
        BY <4>1, <4>2 DEF GetRS, Abort, Goto, Registers
      <4>3. CASE UpdateRS(o)
        BY <4>1, <4>3 DEF UpdateRS, Abort, Goto
      <4>4. CASE ~GetRS(o) /\ ~UpdateRS(o)
        <5>1. \/ UpdatePod(o) \/ SetReplicas(o) \/ Bounce(o) \/ WaitForPods(o) \/ Recheck(o)
              \/ Touch(o) \/ TestFind(o) \/ TestExec(o) \/ CallFails(o)
              \/ \E force \in Forces : GetMaster(o, force)
          BY <2>3, <4>4 DEF Command, Step
        <5>2. \E l \in {"setReplicas", "bounce", "wait", "recheck", "trigger", "testFind",
                        "testExec", "list", "ok", "failed", "hung"} : pc' = [pc EXCEPT ![o] = l]
          BY <5>1 DEF UpdatePod, SetReplicas, Bounce, WaitForPods, Recheck, Touch, TestFind,
             TestExec, CallFails, GetMaster, Abort, Goto
        <5> QED
          BY <4>1, <5>2
      <4> QED
        BY <4>2, <4>3, <4>4
    <3> QED
      BY <1>1, <1>2, <2>3, <3>1
  <2> QED
    BY <2>1, <2>2, <2>3
<1>7. \A p \in Operators : scalePc'[p] = "getMaster" => rs' \subseteq scaleReg'[p].seen \cup podMaster'
  BY <1>1, <1>2
<1>8. \A p \in Operators : scalePc'[p] \in Filling => \A i \in rs' \cup Armed' : i < scaleReg'[p].at
  BY <1>1, <1>2, <1>3
<1> QED
  BY <1>4, <1>5, <1>6, <1>7, <1>8 DEF LowestLeads

\* A scale that nobody overlaps adds members behind all there are and all that led.
LEMMA LowestScale ==
  ASSUME IInv, LowestLeads, Careful, ScaleTypeOK, \A p \in Operators : InRange(p),
         NEW o \in Operators, ScaleCommand(o), UNCHANGED failoverVars, overlapped' = {}
  PROVE  /\ Prompt => Armed \cap rs' \subseteq rs
         /\ Armed' \subseteq Armed => LowestLeads'
<1> USE DEF failoverVars
<1> SUFFICES ASSUME Prompt
             PROVE  /\ Armed \cap rs' \subseteq rs
                    /\ Armed' \subseteq Armed => LowestLeads'
  BY DEF LowestLeads
<1>0. /\ pods = rs /\ rs \subseteq Idx /\ podMaster \subseteq rs /\ rsMaster \subseteq rs
      /\ scaleReg[o] \in ScaleRegisters /\ Armed \subseteq Idx
      /\ \A p \in Operators : reg[p].pod \in Idx
  BY DEF IInv, LeaderIsLabelled, TypeOK, ClusterTypeOK, Registers, ScaleTypeOK, Armed
<1>1. /\ \A i \in Armed, j \in rs : i <= j
      /\ \A i \in rsMaster, j \in rs : j < i => j \in podMaster
      /\ \A p \in Operators : pc[p] \in {"getRS", "updateRS", "updatePod"} =>
           \A j \in rs : j < reg[p].pod => j \in podMaster
      /\ \A p \in Operators : scalePc[p] = "getMaster" => rs \subseteq scaleReg[p].seen \cup podMaster
      /\ \A p \in Operators : scalePc[p] \in Filling =>
           \A i \in rs \cup Armed : i < scaleReg[p].at
  BY DEF LowestLeads
<1>2. UNCHANGED <<rsMaster, podMaster>>
  BY ScaleKube
<1>3. \A p \in Operators : scalePc'[p] \in ScaleCalls => p = o
  BY OnlyItself DEF Careful
<1>4. CASE ScaleCreateSet(o) /\ ~ScaleAbort(o)
  <2> DEFINE k == scaleReg[o].at
  <2>1. /\ scalePc[o] \in Filling /\ k \in Idx
    BY <1>4, AtIsIndex DEF ScaleCreateSet, Filling
  <2>2. /\ rs' = rs \cup {k} /\ scalePc'[o] \in {"findMaster", "getClaim"}
        /\ scaleReg' = [scaleReg EXCEPT ![o].at = @ + 1, ![o].made = @ \cup {k}]
    BY <1>4 DEF ScaleCreateSet, CreateReplicaSet, AfterIndex, ScaleGoto, ScaleTypeOK
  <2>3. scaleReg'[o].at = k + 1
    BY <1>0, <2>2 DEF ScaleRegisters, ScaleTypeOK
  <2>4. \A i \in rs \cup Armed : i \in Idx /\ i < k
    BY <1>0, <1>1, <2>1
  <2>5. k \notin Armed
    BY <2>1, <2>4 DEF Idx
  <2>6. ASSUME Armed' \subseteq Armed PROVE LowestLeads'
    <3>1. \A i \in Armed', j \in rs' : i <= j
      BY <1>1, <2>1, <2>2, <2>4, <2>6 DEF Idx
    <3>2. \A i \in rsMaster', j \in rs' : j < i => j \in podMaster'
      <4>1. \A i \in rsMaster : ~(k < i)
        BY <1>0, <2>1, <2>4 DEF Idx
      <4> QED
        BY <1>1, <1>2, <2>2, <4>1
    <3>3. ASSUME NEW p \in Operators, pc[p] \in {"getRS", "updateRS", "updatePod"}
          PROVE  \A j \in rs' : j < reg[p].pod => j \in podMaster'
      <4>1. reg[p].pod \in rs
        BY <3>3 DEF Careful
      <4>2. ~(k < reg[p].pod)
        BY <2>1, <2>4, <4>1 DEF Idx
      <4> QED
        BY <1>1, <1>2, <2>2, <3>3, <4>2
    <3>4. \A p \in Operators : scalePc'[p] # "getMaster"
      BY <1>3, <2>2 DEF ScaleCalls
    <3>5. \A p \in Operators : scalePc'[p] \in Filling => p = o
      BY <1>3 DEF ScaleCalls, Filling
    <3>6. \A i \in rs' \cup Armed' : i < k + 1
      BY <2>1, <2>2, <2>4, <2>6 DEF Idx
    <3> QED
      BY <2>3, <3>1, <3>2, <3>3, <3>4, <3>5, <3>6 DEF LowestLeads
  <2> QED
    BY <2>2, <2>5, <2>6
<1>5. CASE ~(ScaleCreateSet(o) /\ ~ScaleAbort(o))
  <2>1. rs' = rs
    <3>1. CASE ScaleCreateSet(o)
      <4>1. scalePc'[o] = "failed" /\ scalePc[o] = "createSet"
        BY <1>5, <3>1 DEF ScaleAbort, ScaleGoto, ScaleTypeOK, ScaleCreateSet
      <4> QED
        BY <3>1, <4>1 DEF ScaleCreateSet, AfterIndex, ScaleGoto, ScaleTypeOK, kubeVars
    <3> QED
      BY <3>1, ScaleKube
  <2>2. ASSUME NEW p \in Operators, scalePc'[p] = "getMaster"
        PROVE  rs \subseteq scaleReg'[p].seen \cup podMaster
    <3>1. p = o
      BY <1>3, <2>2 DEF ScaleCalls
    <3>2. ScaleList(o)
      BY <2>2, <3>1 DEF ScaleTypeOK, ScaleCommand, ScaleStep, ScaleStart, SetReplicasStart,
         ScaleBegin, ScaleList, ScaleGetMaster, GetClaim, ScaleCreateClaim, GetSet, AfterIndex,
         ScaleCreateSet, FindMaster, ListNames, SetNames, ScaleCallFails, ScaleAbort, ScaleGoto
    <3>3. scaleReg' = [scaleReg EXCEPT ![o].seen = ReplicaPods]
      BY <3>2 DEF ScaleList
    <3>4. scaleReg'[o].seen = ReplicaPods
      BY <1>0, <3>3 DEF ScaleRegisters, ScaleTypeOK
    <3> QED
      BY <1>0, <3>1, <3>4 DEF ReplicaPods
  <2>3. ASSUME NEW p \in Operators, scalePc'[p] \in Filling, NEW i \in rs \cup Armed
        PROVE  i < scaleReg'[p].at
    <3>1. p = o
      BY <1>3, <2>3 DEF ScaleCalls, Filling
    <3>2. CASE ScaleGetMaster(o)
      <4>1. PICK h, m \in Idx :
               /\ podMaster = {m} /\ Highest(h, scaleReg[o].seen \cup {m})
               /\ scaleReg' = [scaleReg EXCEPT ![o].start = h + 1, ![o].at = h + 1]
        BY <2>3, <3>1, <3>2 DEF ScaleGetMaster, TheMaster, ScaleAbort, ScaleGoto, ScaleTypeOK, Filling
      <4>2. scaleReg'[o].at = h + 1 /\ h \in Nat
        BY <1>0, <4>1 DEF ScaleRegisters, ScaleTypeOK, Idx
      <4>3. rs \subseteq scaleReg[o].seen \cup {m} /\ m \in rs
        BY <1>0, <1>1, <3>2, <4>1 DEF ScaleGetMaster
      <4>4. \A j \in rs : j <= h
        BY <4>1, <4>3 DEF Highest
      <4>5. i \in Nat /\ m \in Nat /\ m <= h /\ (i \in Armed => i <= m)
        BY <1>0, <1>1, <4>3, <4>4 DEF Idx
      <4> QED
        BY <3>1, <4>2, <4>4, <4>5
    <3>3. CASE ~ScaleGetMaster(o)
      <4>1. scalePc[o] \in Filling
        BY <2>3, <3>1, <3>3 DEF ScaleTypeOK, ScaleCommand, ScaleStep, ScaleStart,
           SetReplicasStart, ScaleBegin, ScaleList, GetClaim, ScaleCreateClaim, GetSet,
           ScaleCreateSet, FindMaster, ListNames, SetNames, ScaleCallFails, ScaleAbort,
           ScaleGoto, Filling
      <4>2. scaleReg[o].at \in Idx /\ \A j \in rs \cup Armed : j < scaleReg[o].at
        BY <1>1, <4>1, AtIsIndex
      <4>3. scaleReg[o].at \notin rs
        BY <4>2 DEF Idx
      <4>4. scaleReg' = scaleReg
        BY <1>5, <2>3, <3>1, <3>3, <4>1, <4>3 DEF ScaleTypeOK, ScaleCommand, ScaleStep, ScaleStart,
           SetReplicasStart, ScaleBegin, ScaleList, GetClaim, ScaleCreateClaim, GetSet,
           FindMaster, ListNames, SetNames, ScaleCallFails, ScaleAbort,
           ScaleGoto, Filling, ScaleEnded
      <4> QED
        BY <3>1, <4>2, <4>4
    <3> QED
      BY <3>2, <3>3
  <2>4. ASSUME Armed' \subseteq Armed PROVE LowestLeads'
    BY <1>1, <1>2, <2>1, <2>2, <2>3, <2>4 DEF LowestLeads
  <2> QED
    BY <2>1, <2>4
<1> QED
  BY <1>4, <1>5

-----------------------------------------------------------------------------
(* The steps of all.                                                       *)

\* What scale and setreplicas do.
LEMMA ScaleStepsAside ==
  ASSUME OpIInv, Careful, NEW o \in Operators, ScaleCommand(o),
         UNCHANGED <<failoverVars, rollVars>>, overlapped' = {}
  PROVE  OpIInv' /\ (Prompt => Leaders' \subseteq Leaders)
<1>0. /\ IInv /\ LowestLeads /\ ScaleTypeOK /\ RollTypeOK
      /\ \A p \in Operators : InRange(p)
  BY DEF OpIInv
<1>1. ScaleTypeOK' /\ ClusterTypeOK' /\ ClusterTypeOK
  BY <1>0, ScaleTypeCommand DEF ScaleTypeOK
<1>2. \A p \in Operators : InRange(p)'
  BY <1>0, RangeStep
<1>3. /\ UNCHANGED <<rsMaster, rsNew, podMaster, podNew, uid, trigger>>
      /\ rs \subseteq rs' /\ pods \subseteq pods' /\ pods' \subseteq pods \cup (rs' \ rs)
      /\ Prompt /\ pods = rs => pods' = rs'
      /\ \A k \in Idx : disk'[k] = "primary" => disk[k] = "primary"
  BY <1>0, ScaleKube
<1>4. PodsFollow
  BY <1>1, <1>3 DEF PodsFollow, SamePod, FromTemplate, ClusterTypeOK
<1>5. Prompt => Armed \cap rs' \subseteq rs
  BY <1>0, LowestScale
<1>6. IInv' /\ Armed' \subseteq Armed /\ (Prompt => Leaders' \subseteq Leaders)
  BY <1>0, <1>1, <1>3, <1>4, <1>5, OtherStep
<1>7. LowestLeads'
  BY <1>0, <1>6, LowestScale
<1>8. RollTypeOK'
  BY <1>0, <1>1 DEF RollTypeOK, rollVars
<1> QED
  BY <1>1, <1>2, <1>6, <1>7, <1>8 DEF OpIInv

\* What upgrade does.
LEMMA RollStepsAside ==
  ASSUME OpIInv, NEW o \in Operators, RollCommand(o), UNCHANGED <<failoverVars, scaleVars>>
  PROVE  OpIInv' /\ (Prompt => Leaders' \subseteq Leaders)
<1>0. /\ IInv /\ LowestLeads /\ ScaleTypeOK /\ RollTypeOK /\ ClusterTypeOK
      /\ \A p \in Operators : InRange(p)
  BY DEF OpIInv, RollTypeOK
<1>1. RollTypeOK' /\ ClusterTypeOK'
  BY <1>0, RollTypeCommand DEF RollTypeOK
<1>2. /\ UNCHANGED <<rs, rsMaster>> /\ PodsFollow
      /\ \A k \in Idx : disk'[k] = "primary" => disk[k] = "primary"
      /\ trigger' \subseteq trigger
  <2>1. UNCHANGED <<disk, trigger>> \/ \E i \in pods : ContainersEnd(i)
    BY <1>0, RollKube
  <2>2. ASSUME NEW i \in pods, ContainersEnd(i)
        PROVE  /\ \A k \in Idx : disk'[k] = "primary" => disk[k] = "primary"
               /\ trigger' \subseteq trigger
    BY <1>0, <2>2, VolumesKept DEF ContainersEnd, ClusterTypeOK
  <2> QED
    BY <1>0, <2>1, <2>2, RollKube
<1>3. IInv' /\ Armed' \subseteq Armed
      /\ (Prompt => Leaders' \subseteq Leaders /\ podMaster \subseteq podMaster')
  BY <1>0, <1>1, <1>2, OtherStep
<1>4. LowestLeads'
  BY <1>0, <1>2, <1>3, LowestKept
<1>5. ScaleTypeOK' /\ \A p \in Operators : InRange(p)'
  BY <1>0, <1>1 DEF ScaleTypeOK, InRange, scaleVars
<1> QED
  BY <1>1, <1>3, <1>4, <1>5 DEF OpIInv

\* What failover does, and what happens without pgctl.
LEMMA FailoverStep ==
  ASSUME OpIInv, [Next]_vars, UNCHANGED <<scaleVars, rollVars>>
  PROVE  OpIInv'
<1>0. /\ IInv /\ LowestLeads /\ ScaleTypeOK /\ RollTypeOK
      /\ TypeOK /\ PastIncarnation /\ RoleSurvivesRestart /\ LeaderIsLabelled
      /\ \A p \in Operators : InRange(p)
  BY DEF OpIInv, IInv
<1>1. IInv' /\ ClusterTypeOK'
  BY <1>0, InvariantStep DEF IInv, TypeOK
<1>2. ScaleTypeOK' /\ RollTypeOK' /\ \A p \in Operators : InRange(p)'
  BY <1>0, <1>1 DEF ScaleTypeOK, RollTypeOK, InRange, scaleVars, rollVars
<1>3. LowestLeads'
  <2>1. CASE Environment \/ UNCHANGED vars
    <3>1. UNCHANGED <<pc, reg, runs>>
      BY <2>1 DEF Environment, vars
    <3>2. \A q \in Operators : ~Recheck(q)
      BY <1>0, <3>1 DEF Recheck, Goto, Abort, TypeOK
    <3>3. Armed' \subseteq Armed
      BY <1>0, <3>2, ArmedOnlyFalls
    <3>4. rs' \subseteq rs /\ rsMaster' \subseteq rsMaster
      BY <1>0, <2>1, ClusterTemplates DEF Environment, TypeOK, vars, clusterVars, kubeVars
    <3>5. Prompt => podMaster \cap rs' \subseteq podMaster'
      BY <1>0, LabelsStayPrompt DEF LeaderIsLabelled
    <3> QED
      BY <1>0, <3>1, <3>3, <3>4, <3>5, LowestKept DEF failoverVars
  <2>2. CASE \E o \in Operators : Command(o)
    BY <1>0, <2>2, LowestFailover
  <2> QED
    BY <2>1, <2>2 DEF Next
<1> QED
  BY <1>1, <1>2, <1>3 DEF OpIInv

\* Every step is one of the three.
LEMMA OpSteps ==
  ASSUME [OpNext]_opVars
  PROVE  \/ [Next]_vars /\ UNCHANGED <<scaleVars, rollVars>>
         \/ \E o \in Operators : ScaleCommand(o) /\ UNCHANGED <<failoverVars, rollVars>>
         \/ \E o \in Operators : RollCommand(o) /\ UNCHANGED <<failoverVars, scaleVars>>
  BY DEF OpNext, opVars, vars, Next, Environment, failoverVars

\* The pod that a run of failover takes in hand has a ReplicaSet.
LEMMA TakesWhatIsThere ==
  ASSUME TypeOK, NEW o \in Operators, Command(o), NEW p \in Operators,
         pc'[p] \in {"getRS", "updateRS", "updatePod"}
  PROVE  \/ reg'[p].pod = reg[p].pod /\ pc[p] \in {"getRS", "updateRS", "updatePod"}
         \/ reg'[p].pod \in rs /\ rs' = rs
<1>1. CASE p # o
  <2>1. pc'[p] = pc[p] /\ reg'[p] = reg[p]
    BY <1>1, OthersUntouched
  <2> QED
    BY <2>1
<1>2. CASE p = o /\ ListReplicas(o)
  <2>1. PICK t \in Idx : First(t, ReplicaPods) /\ reg' = [reg EXCEPT ![o] = Chosen(t, ReplicaPods)]
    BY <1>2 DEF ListReplicas, Abort, Goto, TypeOK
  <2>2. reg'[p].pod = t /\ t \in rs /\ rs' = rs
    BY <1>2, <2>1 DEF Chosen, NothingRead, TypeOK, ClusterTypeOK, First, ReplicaPods, ListReplicas,
       clusterVars, kubeVars
  <2> QED
    BY <2>2
<1>3. CASE p = o /\ ~ListReplicas(o)
  <2>1. GetRS(o) \/ UpdateRS(o)
    BY <1>3 DEF TypeOK, Command, Step, GetMaster, UpdatePod, SetReplicas, Bounce, WaitForPods,
       Recheck, Touch, TestFind, TestExec, CallFails, Abort, Goto
  <2>2. pc[o] \in {"getRS", "updateRS"} /\ reg'[o].pod = reg[o].pod
    BY <1>3, <2>1 DEF TypeOK, Registers, GetRS, UpdateRS, Abort, Goto
  <2> QED
    BY <1>3, <2>2
<1> QED
  BY <1>1, <1>2, <1>3

\* What OneAfterTheOther asks of the operators stays true of them.
LEMMA CarefulStep ==
  ASSUME OpIInv, Careful, [OpNext]_opVars, [OneAfterTheOther]_opVars
  PROVE  Careful'
<1>0. /\ TypeOK /\ ScaleTypeOK
      /\ overlapped = {} /\ \A p \in Operators : Alone(p)
      /\ \A p \in Operators : pc[p] \in {"getRS", "updateRS", "updatePod"} => reg[p].pod \in rs
  BY DEF OpIInv, IInv, Careful
<1>1. /\ overlapped' = {}
      /\ \A p \in Operators :
           pc[p] \in {"getRS", "updateRS", "updatePod"} => reg[p].pod \in rs'
  <2>1. CASE OneAfterTheOther
    BY <1>0, <2>1 DEF OneAfterTheOther
  <2>2. CASE UNCHANGED opVars
    BY <1>0, <2>2 DEF opVars, scaleVars, clusterVars, kubeVars
  <2> QED
    BY <2>1, <2>2
<1>2. \A p \in Operators : Alone(p)'
  <2>1. CASE UNCHANGED scaleVars
    BY <1>0, <2>1 DEF Alone, scaleVars
  <2>2. CASE \E o \in Operators : ScaleCommand(o)
    BY <1>0, <2>2, AloneStep
  <2> QED
    BY <2>1, <2>2, OpSteps
<1>3. ASSUME NEW p \in Operators, pc'[p] \in {"getRS", "updateRS", "updatePod"}
      PROVE  reg'[p].pod \in rs'
  <2>1. CASE UNCHANGED <<pc, reg>>
    BY <1>1, <1>3, <2>1
  <2>2. CASE \E o \in Operators : Command(o)
    BY <1>0, <1>1, <1>3, <2>2, TakesWhatIsThere
  <2> QED
    BY <2>1, <2>2, OpSteps DEF failoverVars, vars, Next, Environment
<1> QED
  BY <1>1, <1>2, <1>3 DEF Careful

\* Every step of all commands keeps the invariant.
LEMMA OpIInvStep ==
  ASSUME OpIInv, Careful, [OpNext]_opVars, [OneAfterTheOther]_opVars
  PROVE  /\ OpIInv'
         /\ [Next]_vars \/ (Prompt => Leaders' \subseteq Leaders)
<1>1. overlapped' = {}
  BY CarefulStep DEF Careful
<1> QED
  BY <1>1, OpSteps, FailoverStep, ScaleStepsAside, RollStepsAside

-----------------------------------------------------------------------------
(* The theorems.                                                           *)

\* The initial state satisfies the invariant.
LEMMA OpInitIInv == OpInit => OpIInv /\ Careful
<1> SUFFICES ASSUME OpInit PROVE OpIInv /\ Careful
  OBVIOUS
<1>1. IInv
  BY InvariantInit DEF OpInit
<1>2. ScaleTypeOK /\ RollTypeOK
  BY ScaleTypeInit, RollTypeInit DEF OpInit, Init
<1>3. \A o \in Operators : scalePc[o] = "idle" /\ pc[o] = "idle"
  BY DEF OpInit, Init, ScaleOnlyInit
<1>4. \A o \in Operators : InRange(o)
  BY <1>3 DEF InRange, Filling, Naming
<1>5. Armed \subseteq {0}
  <2>1. \A i \in Idx : disk[i] = "primary" => i = 0
    BY DEF OpInit, Init, ClusterInit
  <2> QED
    BY <1>3, <2>1 DEF OpInit, Init, ClusterInit, Armed
<1>6. rsMaster = {0} /\ rs \subseteq Nat
  BY DEF OpInit, Init, ClusterInit, Founders
<1>7. LowestLeads
  <2>1. \A i \in {0}, j \in rs : i <= j /\ ~(j < i)
    BY <1>6
  <2> QED
    BY <1>3, <1>5, <1>6, <2>1 DEF LowestLeads, Filling
<1>8. Careful
  BY <1>3 DEF OpInit, ScaleOnlyInit, Careful, Alone, ScaleCalls
<1> QED
  BY <1>1, <1>2, <1>4, <1>7, <1>8 DEF OpIInv

\* Whatever failovers and upgrades run beside a scale, and whatever is removed, with its
\* claim left behind: the invariant of failover holds, and with a prompt controller no
\* scale brings back a member that has led.
THEOREM OpInvariance == OpSpec /\ [][OneAfterTheOther]_opVars => []OpIInv
<1>1. OpInit => OpIInv /\ Careful
  BY OpInitIInv
<1>2. OpIInv /\ Careful /\ [OpNext]_opVars /\ [OneAfterTheOther]_opVars => OpIInv' /\ Careful'
  BY OpIInvStep, CarefulStep
<1> QED
  BY <1>1, <1>2, PTL DEF OpSpec

\* What takes commits, can be reached and has the database of the cluster is a leader.
LEMMA WritersLeadHere == ASSUME Prompt, IInv PROVE OneWriter
<1> SUFFICES ASSUME NEW m \in Writers \ Strays, NEW n \in Writers \ Strays
             PROVE  m = n
  BY DEF OneWriter
<1>1. m \in Leaders /\ n \in Leaders
  BY DEF IInv, TypeOK, ClusterTypeOK, LeaderIsLabelled, Writers, TakesCommits, Strays,
     Leaders, Armed
<1> QED
  BY <1>1 DEF IInv, LeaderIsLabelled

\* With a prompt controller, no interleaving of failovers, upgrades and one scale or
\* setreplicas at a time leads to two servers of the cluster that take commits, claims
\* of removed members included.
THEOREM OneWriterAmongAll ==
  ASSUME Prompt PROVE OpSpec /\ [][OneAfterTheOther]_opVars => []OneWriter
<1>1. OpIInv => OneWriter
  BY WritersLeadHere DEF OpIInv
<1> QED
  BY <1>1, OpInvariance, PTL

\* Under the same assumptions leadership is handed over as Leadership says, whatever
\* else is going on.
THEOREM RefinementAmongAll ==
  ASSUME Prompt PROVE OpSpec /\ [][OneAfterTheOther]_opVars => ImplementsLeadership
<1>1. OpInit => Election!LeadershipInit
  BY InitLeader DEF OpInit, Election!LeadershipInit, Idx
<1>2. OpIInv /\ Careful /\ [OpNext]_opVars /\ [OneAfterTheOther]_opVars =>
        OpIInv' /\ Careful' /\ [Election!LeadershipNext]_Leaders
  <2> SUFFICES ASSUME OpIInv, Careful, [OpNext]_opVars, [OneAfterTheOther]_opVars
               PROVE  OpIInv' /\ Careful' /\ [Election!LeadershipNext]_Leaders
    OBVIOUS
  <2>1. IInv /\ \A m, n \in Leaders : m = n
    BY DEF OpIInv, IInv, LeaderIsLabelled
  <2>2. OpIInv' /\ Careful'
    BY OpIInvStep, CarefulStep
  <2>3. CASE [Next]_vars
    BY <2>1, <2>2, <2>3, LeadershipStep
  <2>4. CASE Leaders' \subseteq Leaders
    <3>1. Leaders' = Leaders \/ (Leaders # {} /\ Leaders' = {})
      BY <2>1, <2>4
    <3> QED
      BY <2>2, <3>1 DEF Election!LeadershipNext, Election!StepDown
  <2> QED
    BY <2>3, <2>4, OpIInvStep
<1>3. OpInit => OpIInv /\ Careful
  BY OpInitIInv
<1> QED
  BY <1>1, <1>2, <1>3, PTL DEF OpSpec, ImplementsLeadership, Election!LeadershipSpec

-----------------------------------------------------------------------------
(* Upgrade beside failovers.                                               *)

\* A pod after the step is the one that was there, with its image, or was made from the
\* template; no ReplicaSet appears, and none that stays loses its image.
ImagesFollow ==
  /\ rs' \subseteq rs /\ rsNew \cap rs' \subseteq rsNew'
  /\ \A i \in pods' :
       \/ i \in pods /\ uid'[i] = uid[i] /\ (i \in podNew' <=> i \in podNew)
       \/ i \in rs' /\ (i \in podNew' <=> i \in rsNew')

\* Pods that follow their templates follow their images.
LEMMA FollowImages ==
  ASSUME PodsFollow, rs' \subseteq rs, rsNew \cap rs' \subseteq rsNew'
  PROVE  ImagesFollow
  BY DEF PodsFollow, SamePod, FromTemplate, ImagesFollow

\* Failover labels pods and templates, but leaves their images.
LEMMA FailoverImages ==
  ASSUME TypeOK, [Next]_vars
  PROVE  ImagesFollow
<1> USE DEF clusterVars, kubeVars
<1>1. CASE Environment
  BY <1>1, ClusterFollows, ClusterTemplates, FollowImages DEF Environment, TypeOK
<1>2. CASE \E o \in Operators : Bounce(o)
  <2> PICK o \in Operators : Bounce(o)
    BY <1>2
  <2>1. CASE DeletePod(reg[o].pod)
    <3>1. reg[o].pod \in Idx
      BY DEF TypeOK, Registers
    <3> QED
      BY <2>1, <3>1, DeleteFollows, FollowImages DEF DeletePod, TypeOK
  <2>2. CASE UNCHANGED kubeVars
    BY <2>2 DEF ImagesFollow
  <2> QED
    BY <2>1, <2>2 DEF Bounce
<1>3. CASE \E o \in Operators : Command(o) /\ ~Bounce(o)
  <2>1. UNCHANGED <<rs, rsNew, pods, podNew, uid>>
    BY <1>3 DEF Command, Step, GetMaster, ListReplicas, GetRS, UpdateRS, UpdatePod,
       SetReplicas, WaitForPods, Recheck, Touch, TestFind, TestExec, CallFails
  <2> QED
    BY <2>1 DEF ImagesFollow
<1>4. CASE UNCHANGED vars
  BY <1>4 DEF vars, ImagesFollow
<1> QED
  BY <1>1, <1>2, <1>3, <1>4 DEF Next

\* A run of upgrade that waits for its turn is none the worse for it.
LEMMA RolledStays ==
  ASSUME RollTypeOK, ClusterTypeOK', ImagesFollow, NEW q \in Operators, RolledUnlessPromoted(q),
         rollPc'[q] = rollPc[q], rollReg'[q] = rollReg[q], overlooked'[q] = overlooked[q]
  PROVE  RolledUnlessPromoted(q)'
<1> DEFINE r == rollReg[q]
<1> SUFFICES ASSUME rollPc[q] \in RollCalls
             PROVE  RolledUnlessPromoted(q)'
  BY DEF RolledUnlessPromoted
<1>1. /\ r \in RollRegisters /\ pods' \subseteq rs' /\ pods \subseteq rs
      /\ \A i \in Idx : Current(q, i)' <=> Current(q, i)
  BY DEF RollTypeOK, ClusterTypeOK, Current
<1>2. \A i \in pods' : \/ i \in pods /\ uid'[i] = uid[i] /\ (i \in podNew' <=> i \in podNew)
                       \/ i \in rs' /\ (i \in podNew' <=> i \in rsNew')
  BY DEF ImagesFollow
<1>3. rs' \subseteq rs /\ rsNew \cap rs' \subseteq rsNew'
  BY DEF ImagesFollow
<1>4. /\ r.todo \subseteq r.sets /\ r.todo # {}
      /\ (r.sets \ r.todo) \cap rs \subseteq rsNew
      /\ (r.sets \ r.todo) \cap pods \subseteq podNew \cup overlooked[q]
  BY DEF RolledUnlessPromoted
<1>5. (r.sets \ r.todo) \cap rs' \subseteq rsNew'
  BY <1>3, <1>4
<1>6. (r.sets \ r.todo) \cap pods' \subseteq podNew' \cup overlooked[q]
  BY <1>1, <1>2, <1>4, <1>5
<1>7. ASSUME NEW i \in Idx, Current(q, i)
      PROVE  /\ rollPc[q] # "update" /\ i \in rs' => i \in rsNew'
             /\ rollPc[q] = "kill" => r.pod = i /\ (i \in pods' \ podNew' => r.uid = uid'[i])
             /\ rollPc[q] \in {"wait", "testFind", "testExec"} /\ i \in pods' =>
                  i \in podNew' \cup overlooked[q]
  <2>1. /\ rollPc[q] # "update" /\ i \in rs => i \in rsNew
        /\ rollPc[q] = "kill" => r.pod = i /\ (i \in pods \ podNew => r.uid = uid[i])
        /\ rollPc[q] \in {"wait", "testFind", "testExec"} /\ i \in pods =>
             i \in podNew \cup overlooked[q]
    BY <1>7 DEF RolledUnlessPromoted
  <2>2. rollPc[q] # "update" /\ i \in rs' => i \in rsNew'
    BY <1>3, <2>1
  <2>3. rollPc[q] # "update" /\ i \in pods' \ podNew' => i \in pods \ podNew /\ uid'[i] = uid[i]
    BY <1>1, <1>2, <2>2
  <2> QED
    BY <1>2, <2>1, <2>2, <2>3
<1> QED
  BY <1>1, <1>4, <1>5, <1>6, <1>7 DEF RolledUnlessPromoted

\* What an upgrade makes of its own register, call by call.
LEMMA RolledReads ==
  ASSUME RollTypeOK, NEW o \in Operators, RolledUnlessPromoted(o), rollPc'[o] \in RollCalls,
         ListSets(o) \/ FindPods(o) \/ RollWait(o) \/ RollTestFind(o) \/ RollTestExec(o)
           \/ RollCallFails(o)
  PROVE  RolledUnlessPromoted(o)'
<1> USE DEF RollGoto
<1> DEFINE r == rollReg[o]
<1>0. /\ r \in RollRegisters
      /\ rollReg \in [Operators -> RollRegisters] /\ rollPc \in [Operators -> RollEnded \cup RollCalls]
      /\ UNCHANGED <<rs, rsNew, pods, podNew, uid>>
      /\ overlooked \in [Operators -> SUBSET Idx]
  BY DEF RollTypeOK, ListSets, FindPods, RollWait, RollTestFind, RollTestExec,
     RollCallFails, clusterVars, kubeVars
<1>1. CASE ListSets(o)
  <2>1. /\ rollReg'[o].sets = rs /\ rollReg'[o].todo = rs
        /\ rollPc'[o] = IF rs = {} THEN "ok" ELSE "update"
    BY <1>0, <1>1 DEF ListSets, NothingListed
  <2>2. rs # {} /\ rollPc'[o] = "update"
    BY <2>1 DEF RollCalls
  <2> QED
    BY <1>0, <2>1, <2>2 DEF RolledUnlessPromoted
<1>2. CASE FindPods(o)
  <2>1. PICK i \in Idx :
          /\ Current(o, i)
          /\ IF i \in pods /\ (i \in r.labelled => i \in podMaster)
             THEN /\ RollGoto(o, "kill")
                  /\ rollReg' = [rollReg EXCEPT ![o].pod = i, ![o].uid = uid[i]]
                  /\ UNCHANGED overlooked
             ELSE /\ RollGoto(o, "wait") /\ UNCHANGED rollReg
                  /\ overlooked' = [overlooked EXCEPT ![o] =
                       @ \cup (({i} \cap pods \cap r.labelled) \ podMaster)]
    BY <1>2 DEF FindPods
  <2>2. rollPc[o] = "find" /\ rollPc[o] \in RollCalls
    BY <1>2 DEF FindPods, RollCalls
  <2>3. i \in rs => i \in rsNew
    BY <1>0, <2>1, <2>2 DEF RolledUnlessPromoted
  <2>4. CASE i \in pods /\ (i \in r.labelled => i \in podMaster)
    <3>1. rollReg' = [rollReg EXCEPT ![o] = [rollReg[o] EXCEPT !.pod = i, !.uid = uid[i]]]
          /\ rollPc'[o] = "kill" /\ overlooked' = overlooked
      BY <1>0, <2>1, <2>4
    <3>2. /\ rollReg'[o].pod = i /\ rollReg'[o].uid = uid[i] /\ rollReg'[o].todo = r.todo
          /\ rollReg'[o].sets = r.sets /\ rollReg'[o].labelled = r.labelled
      BY <1>0, <3>1 DEF RollRegisters
    <3>3. \A j \in Idx : Current(o, j)' => j = i
      BY <1>0, <2>1, <3>2, OneInHand DEF Current
    <3> QED
      BY <1>0, <2>2, <2>3, <3>1, <3>2, <3>3 DEF RolledUnlessPromoted
  <2>5. CASE ~(i \in pods /\ (i \in r.labelled => i \in podMaster))
    <3>1. rollReg' = rollReg /\ rollPc'[o] = "wait"
      BY <1>0, <2>1, <2>5
    <3>2. \A j \in Idx : Current(o, j)' => j = i
      BY <1>0, <2>1, <3>1, OneInHand DEF Current
    <3>3. overlooked[o] \subseteq overlooked'[o] /\ (i \in pods => i \in overlooked'[o])
      BY <1>0, <2>1, <2>5
    <3> QED
      BY <1>0, <2>2, <2>3, <3>1, <3>2, <3>3 DEF RolledUnlessPromoted
  <2> QED
    BY <2>4, <2>5
<1>3. CASE RollWait(o)
  <2>1. /\ rollPc[o] = "wait" /\ rollPc'[o] = "testFind" /\ rollReg' = rollReg
        /\ overlooked' = overlooked
    BY <1>0, <1>3 DEF RollWait
  <2> QED
    BY <1>0, <2>1 DEF RolledUnlessPromoted, Current, RollCalls
<1>4. CASE RollTestFind(o)
  <2>1. PICK m \in Idx : rollReg' = [rollReg EXCEPT ![o] = [rollReg[o] EXCEPT !.pod = m, !.uid = uid[m]]]
    BY <1>0, <1>4 DEF RollTestFind, RollAbort, RollCalls, RollTypeOK, ClusterTypeOK
  <2>2. /\ rollReg'[o].todo = r.todo /\ rollReg'[o].sets = r.sets
        /\ rollReg'[o].labelled = r.labelled
    BY <1>0, <2>1 DEF RollRegisters
  <2>3. rollPc[o] = "testFind" /\ rollPc'[o] = "testExec" /\ overlooked' = overlooked
    BY <1>0, <1>4 DEF RollTestFind, RollAbort, RollCalls
  <2> QED
    BY <1>0, <2>2, <2>3 DEF RolledUnlessPromoted, Current, RollCalls
<1>5. CASE RollTestExec(o)
  <2>1. PICK i \in Idx :
          /\ Current(o, i) /\ r.todo # {i} /\ rollPc[o] = "testExec" /\ overlooked' = overlooked
          /\ rollPc'[o] = "update"
          /\ rollReg' = [rollReg EXCEPT ![o] = [rollReg[o] EXCEPT !.todo = @ \ {i}]]
    BY <1>0, <1>5 DEF RollTestExec, RollAbort, RollCalls
  <2>2. /\ rollReg'[o].todo = r.todo \ {i} /\ rollReg'[o].sets = r.sets
        /\ rollReg'[o].labelled = r.labelled
    BY <1>0, <2>1 DEF RollRegisters
  <2>3. (i \in rs => i \in rsNew) /\ (i \in pods => i \in podNew \cup overlooked[o]) /\ i \in r.todo
    BY <2>1 DEF RolledUnlessPromoted, RollCalls, Current, First
  <2>4. /\ (r.sets \ r.todo) \cap rs \subseteq rsNew
        /\ (r.sets \ r.todo) \cap pods \subseteq podNew \cup overlooked[o]
        /\ r.todo \subseteq r.sets
    BY <2>1 DEF RolledUnlessPromoted, RollCalls
  <2> QED
    BY <1>0, <2>1, <2>2, <2>3, <2>4 DEF RolledUnlessPromoted
<1>6. CASE RollCallFails(o)
  BY <1>0, <1>6 DEF RollCallFails, RollAbort, RollCalls
<1> QED
  BY <1>1, <1>2, <1>3, <1>4, <1>5, <1>6

\* The update of a template, and the deletion of a pod, for the run that does it.
LEMMA RolledWrites ==
  ASSUME RollTypeOK, NEW o \in Operators, RolledUnlessPromoted(o), rollPc'[o] \in RollCalls,
         UpdateSet(o) \/ KillPod(o)
  PROVE  RolledUnlessPromoted(o)'
<1> USE DEF RollGoto
<1> DEFINE r == rollReg[o]
<1>0. /\ ClusterTypeOK
      /\ rollReg \in [Operators -> RollRegisters] /\ rollPc \in [Operators -> RollEnded \cup RollCalls]
  BY DEF RollTypeOK
<1>1. CASE UpdateSet(o)
  <2>1. PICK i \in Idx :
          /\ Current(o, i) /\ rollPc[o] = "update" /\ rollPc'[o] = "find" /\ rollReg' = rollReg
          /\ rsNew' = rsNew \cup {i}
          /\ UNCHANGED <<rs, pods, podNew, uid, overlooked>>
    BY <1>0, <1>1 DEF UpdateSet, RollAbort, RollCalls
  <2>2. \A j \in Idx : Current(o, j)' => j = i
    BY <1>0, <2>1, OneInHand DEF Current
  <2> QED
    BY <2>1, <2>2 DEF RolledUnlessPromoted, RollCalls
<1>2. CASE KillPod(o)
  <2>1. /\ rollPc[o] = "kill" /\ rollPc'[o] = "wait" /\ rollReg' = rollReg
        /\ DeletePod(r.pod) /\ r.pod \in pods /\ overlooked' = overlooked
    BY <1>0, <1>2 DEF KillPod, RollAbort, RollCalls
  <2>2. r.pod \in Idx /\ PodsFollow /\ uid[r.pod] \in Nat
    BY <1>0, <2>1, DeleteFollows DEF ClusterTypeOK
  <2>3. UNCHANGED <<rs, rsNew>> /\ uid'[r.pod] = uid[r.pod] + 1 /\ uid[r.pod] # uid[r.pod] + 1
    BY <1>0, <2>1, <2>2 DEF DeletePod, ClusterTypeOK
  <2>4. \A j \in Idx : Current(o, j)' => j = r.pod /\ (j \in rs => j \in rsNew)
    BY <2>1 DEF RolledUnlessPromoted, RollCalls, Current
  <2>5. r.pod \in pods' => r.pod \in rs /\ (r.pod \in podNew' <=> r.pod \in rsNew)
    BY <2>2, <2>3 DEF PodsFollow, SamePod, FromTemplate
  <2>6. /\ (r.sets \ r.todo) \cap rs \subseteq rsNew
        /\ (r.sets \ r.todo) \cap pods \subseteq podNew \cup overlooked[o]
        /\ r.todo \subseteq r.sets /\ r.todo # {}
    BY <2>1 DEF RolledUnlessPromoted, RollCalls
  <2>7. (r.sets \ r.todo) \cap pods' \subseteq podNew' \cup overlooked[o]
    BY <2>2, <2>3, <2>6 DEF PodsFollow, SamePod, FromTemplate
  <2> QED
    BY <2>1, <2>3, <2>4, <2>5, <2>6, <2>7 DEF RolledUnlessPromoted
<1> QED
  BY <1>1, <1>2

\* The invariant of upgrade beside failovers, initially.
LEMMA OpRollInit == OpInit => OpRollIInv
<1> SUFFICES ASSUME OpInit PROVE OpRollIInv
  OBVIOUS
<1>1. TypeOK
  BY TypeInit DEF OpInit
<1>2. ScaleTypeOK /\ RollTypeOK
  BY ScaleTypeInit, RollTypeInit DEF OpInit, Init
<1>3. \A o \in Operators : InRange(o)
  BY DEF OpInit, ScaleOnlyInit, InRange, Filling, Naming
<1>4. \A o \in Operators : scalePc[o] \in ScaleEnded /\ RolledUnlessPromoted(o)
  BY DEF OpInit, ScaleOnlyInit, RollOnlyInit, ScaleEnded, RolledUnlessPromoted, RollCalls
<1> QED
  BY <1>1, <1>2, <1>3, <1>4 DEF OpRollIInv

\* Failovers, upgrades and the cluster keep the invariant, and a scale puts an end to its
\* hypothesis.
LEMMA OpRollStep ==
  ASSUME OpRollIInv, [OpNext]_opVars
  PROVE  OpRollIInv'
<1>0. /\ TypeOK /\ RollTypeOK /\ ScaleTypeOK /\ ClusterTypeOK
      /\ \A o \in Operators : InRange(o)
  BY DEF OpRollIInv, TypeOK
<1>1. CASE [Next]_vars /\ UNCHANGED <<scaleVars, rollVars>>
  <2>1. TypeOK' /\ ClusterTypeOK' /\ ImagesFollow
    BY <1>0, <1>1, TypeStep, FailoverImages DEF TypeOK
  <2>2. RollTypeOK' /\ ScaleTypeOK' /\ \A o \in Operators : InRange(o)'
    BY <1>0, <1>1, <2>1 DEF ScaleTypeOK, RollTypeOK, InRange, scaleVars, rollVars
  <2>3. ASSUME scales = 0, NEW q \in Operators
        PROVE  scalePc'[q] \in ScaleEnded /\ RolledUnlessPromoted(q)'
    <3>1. /\ rollPc'[q] = rollPc[q] /\ rollReg'[q] = rollReg[q] /\ scalePc' = scalePc
          /\ overlooked'[q] = overlooked[q]
      BY <1>1 DEF scaleVars, rollVars
    <3>2. scalePc[q] \in ScaleEnded /\ RolledUnlessPromoted(q)
      BY <2>3 DEF OpRollIInv
    <3> QED
      BY <1>0, <2>1, <3>1, <3>2, RolledStays
  <2> QED
    BY <1>1, <2>1, <2>2, <2>3 DEF OpRollIInv, scaleVars
<1>2. ASSUME NEW o \in Operators, ScaleCommand(o), UNCHANGED <<failoverVars, rollVars>>
      PROVE  OpRollIInv'
  <2>1. ScaleTypeOK' /\ ClusterTypeOK' /\ \A p \in Operators : InRange(p)'
    BY <1>0, <1>2, ScaleTypeCommand, RangeStep DEF ScaleTypeOK
  <2>2. TypeOK' /\ RollTypeOK'
    BY <1>0, <1>2, <2>1 DEF TypeOK, RollTypeOK, failoverVars, rollVars
  <2>3. scales' # 0
    <3>1. scales \in Nat /\ (scales = 0 => scalePc[o] \in ScaleEnded)
      BY <1>0 DEF OpRollIInv, ScaleTypeOK
    <3>2. scales' = scales + 1 \/ (scales' = scales /\ scalePc[o] \notin ScaleEnded)
      BY <1>2 DEF ScaleCommand, ScaleStep, ScaleStart, SetReplicasStart, ScaleBegin,
         ScaleList, ScaleGetMaster, GetClaim, ScaleCreateClaim, GetSet, ScaleCreateSet,
         FindMaster, ListNames, SetNames, ScaleCallFails, ScaleSame, ScaleEnded, ScaleCalls
    <3> QED
      BY <3>1, <3>2
  <2> QED
    BY <2>1, <2>2, <2>3 DEF OpRollIInv
<1>3. ASSUME NEW o \in Operators, RollCommand(o), UNCHANGED <<failoverVars, scaleVars>>
      PROVE  OpRollIInv'
  <2>1. RollTypeOK' /\ ClusterTypeOK'
    BY <1>0, <1>3, RollTypeCommand DEF RollTypeOK
  <2>2. TypeOK' /\ ScaleTypeOK' /\ \A p \in Operators : InRange(p)'
    BY <1>0, <1>3, <2>1 DEF TypeOK, ScaleTypeOK, InRange, failoverVars, scaleVars
  <2>3. ImagesFollow
    BY <1>0, <1>3, RollKube, FollowImages
  <2>4. ASSUME scales = 0, NEW q \in Operators
        PROVE  scalePc'[q] \in ScaleEnded /\ RolledUnlessPromoted(q)'
    <3>1. scalePc[q] \in ScaleEnded /\ RolledUnlessPromoted(q) /\ scalePc' = scalePc
      BY <1>3, <2>4 DEF OpRollIInv, scaleVars
    <3>2. CASE q # o
      <4>1. /\ rollPc'[q] = rollPc[q] /\ rollReg'[q] = rollReg[q]
            /\ overlooked'[q] = overlooked[q]
        BY <1>0, <1>3, <3>2, RollOthersUntouched DEF RollCommand
      <4> QED
        BY <1>0, <2>1, <2>3, <3>1, <4>1, RolledStays
    <3>3. CASE q = o /\ rollPc'[o] \in RollCalls
      BY <1>0, <1>3, <3>1, <3>3, RolledReads, RolledWrites DEF RollCommand, RollStep
    <3>4. CASE q = o /\ rollPc'[o] \notin RollCalls
      BY <3>1, <3>4 DEF RolledUnlessPromoted
    <3> QED
      BY <3>2, <3>3, <3>4
  <2> QED
    BY <1>3, <2>1, <2>2, <2>4 DEF OpRollIInv, scaleVars
<1> QED
  BY <1>1, <1>2, <1>3, OpSteps

\* What upgrades know beside any other commands, as long as nobody has scaled.
THEOREM OpRollInvariance == OpSpec => []OpRollIInv
<1> QED
  BY OpRollInit, OpRollStep, PTL DEF OpSpec

\* Whatever failovers run beside it, with or without --force, and whatever fails: an
\* upgrade that reports success has left out at most pods that were there without the
\* master label when it looked for them by the labels of a template that was listed with
\* it (getPodsForReplicaSet); the pod of the master is not one of them.
THEOREM MissesOnlyPromoted == OpSpec => UpgradeMissesOnlyPromoted
<1>1. ASSUME OpRollIInv, [OpNext]_opVars, NEW o \in Operators,
             rollPc[o] = "testExec", rollPc'[o] = "ok", scales = 0
      PROVE  rollReg[o].sets \cap pods \subseteq podNew \cup overlooked[o]
  <2>1. RollTypeOK /\ RolledUnlessPromoted(o)
    BY <1>1 DEF OpRollIInv
  <2>2. PICK q \in Operators : RollCommand(q)
    BY <1>1, OpSteps DEF rollVars
  <2>3. q = o
    BY <1>1, <2>1, <2>2, RollOthersUntouched DEF RollCommand
  <2>4. RollTestExec(o)
    BY <1>1, <2>1, <2>2, <2>3 DEF RollTypeOK, RollCommand, RollStep, ListSets, UpdateSet,
       FindPods, KillPod, RollWait, RollTestFind, RollCallFails, RollGoto, RollAbort, RollEnded, RollOver
  <2>5. PICK i \in Idx : Current(o, i) /\ rollReg[o].todo = {i}
    BY <1>1, <2>1, <2>4 DEF RollTypeOK, RollTestExec, RollGoto, RollAbort
  <2> QED
    BY <1>1, <2>1, <2>5 DEF RolledUnlessPromoted, RollCalls
<1>2. OpRollIInv /\ [OpNext]_opVars =>
        [\A o \in Operators : rollPc[o] = "testExec" /\ rollPc'[o] = "ok" /\ scales = 0 =>
           rollReg[o].sets \cap pods \subseteq podNew \cup overlooked[o]]_opVars
  BY <1>1
<1> QED
  BY <1>2, OpRollInvariance, PTL DEF OpSpec, UpgradeMissesOnlyPromoted
=============================================================================
