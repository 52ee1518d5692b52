--------------------------- MODULE UpgradeProofs ---------------------------
(***************************************************************************)
(* Theorems about upgrade, for every size of cluster, every set of         *)
(* operators and every bound.  A pod either is the one that was there when *)
(* the run found it, with its incarnation, or was made from a template,    *)
(* and the templates a run has passed have the new image.  As long as      *)
(* nothing fails and nobody else is at it, only a run's own kill takes a   *)
(* pod down, and a wait that was not given up has seen them all Running.   *)
(***************************************************************************)
EXTENDS Upgrade, ClusterProofs, FiniteSetTheorems

USE NAssumption, EnvironmentAssumption, RollAssumption

-----------------------------------------------------------------------------
(* Types.                                                                  *)

\* The initial state is well-typed.
LEMMA RollTypeInit == ClusterInit /\ RollOnlyInit => RollTypeOK
<1>1. NothingListed \in RollRegisters
  BY DEF NothingListed, RollRegisters, Idx
<1> QED
  BY <1>1, ClusterTypeInit DEF RollOnlyInit, RollTypeOK, RollEnded, RollOver

\* What a call writes to the registers of its run.
LEMMA RollRegisterTypes ==
  ASSUME RollTypeOK, NEW o \in Operators
  PROVE  /\ rollReg[o] \in RollRegisters /\ NothingListed \in RollRegisters
         /\ [NothingListed EXCEPT !.sets = rs, !.labelled = rsMaster, !.new = rsNew, !.todo = rs]
              \in RollRegisters
         /\ \A m \in Idx : [rollReg[o] EXCEPT !.pod = m, !.uid = uid[m]] \in RollRegisters
         /\ \A i \in Idx : [rollReg[o] EXCEPT !.todo = @ \ {i}] \in RollRegisters
<1>1. rollReg[o] \in RollRegisters
  BY DEF RollTypeOK
<1>2. NothingListed \in RollRegisters
  BY DEF NothingListed, RollRegisters, Idx
<1>5. [NothingListed EXCEPT !.sets = rs, !.labelled = rsMaster, !.new = rsNew, !.todo = rs]
        \in RollRegisters
  <2>1. rs \in SUBSET Idx /\ rsMaster \in SUBSET Idx /\ rsNew \in SUBSET Idx
    BY DEF RollTypeOK, ClusterTypeOK
  <2> QED
    BY <1>2, <2>1 DEF RollRegisters
<1>3. \A m \in Idx : [rollReg[o] EXCEPT !.pod = m, !.uid = uid[m]] \in RollRegisters
  BY <1>1 DEF RollRegisters, RollTypeOK, ClusterTypeOK
<1>4. \A i \in Idx : [rollReg[o] EXCEPT !.todo = @ \ {i}] \in RollRegisters
  <2> TAKE i \in Idx
  <2>1. rollReg[o].todo \ {i} \in SUBSET Idx
    BY <1>1 DEF RollRegisters
  <2> QED
    BY <1>1, <2>1 DEF RollRegisters
<1> QED
  BY <1>1, <1>2, <1>3, <1>4, <1>5

\* Every call keeps the types.
LEMMA RollTypeCommand ==
  ASSUME RollTypeOK, NEW o \in Operators, RollCommand(o)
  PROVE  RollTypeOK'
<1> USE DEF RollTypeOK, RollGoto, RollAbort, RollEnded, RollOver, RollCalls
<1>1. CASE ListSets(o)
  <2>1. ClusterTypeOK'
    BY <1>1, TypeUnchanged DEF ListSets
  <2>2. rollReg' \in [Operators -> RollRegisters]
    BY <1>1, RollRegisterTypes DEF ListSets
  <2>3. disturbed' \in [Operators -> BOOLEAN]
    <3> DEFINE found(p) == IF p = o
                           THEN rs # running \/ \E q \in Operators \ {o} : rollPc[q] \in RollCalls
                           ELSE TRUE
    <3>1. \A p \in Operators : found(p) \in BOOLEAN
      OBVIOUS
    <3>2. disturbed' = [p \in Operators |-> found(p)]
      BY <1>1 DEF ListSets
    <3> HIDE DEF found
    <3> QED
      BY <3>1, <3>2
  <2>4. rollPc' \in [Operators -> RollEnded \cup RollCalls] /\ rolls' \in 0..MaxRolls
    BY <1>1 DEF ListSets
  <2>5. overlooked' \in [Operators -> SUBSET Idx]
    BY <1>1 DEF ListSets
  <2> QED
    BY <2>1, <2>2, <2>3, <2>4, <2>5
<1>2. CASE UpdateSet(o)
  <2>1. rollReg' \in [Operators -> RollRegisters] /\ rollPc' \in [Operators -> RollEnded \cup RollCalls]
    BY <1>2, RollRegisterTypes DEF UpdateSet
  <2>2. rsNew' \subseteq rs
    BY <1>2 DEF UpdateSet, Unchanged, ClusterTypeOK
  <2> QED
    BY <1>2, <2>1, <2>2 DEF UpdateSet, ClusterTypeOK, pgVars
<1>3. CASE FindPods(o)
  <2>1. CASE rollReg' = rollReg
    BY <1>3, <2>1, TypeUnchanged DEF FindPods
  <2>2. CASE \E i \in Idx : rollReg' = [rollReg EXCEPT ![o].pod = i, ![o].uid = uid[i]]
    <3>1. PICK i \in Idx :
             rollReg' = [rollReg EXCEPT ![o] = [rollReg[o] EXCEPT !.pod = i, !.uid = uid[i]]]
      BY <2>2
    <3>2. rollReg' \in [Operators -> RollRegisters]
      BY <3>1, RollRegisterTypes
    <3>3. rollPc' \in [Operators -> RollEnded \cup RollCalls]
      BY <1>3 DEF FindPods
    <3> QED
      BY <1>3, <3>2, <3>3, TypeUnchanged DEF FindPods
  <2> QED
    BY <1>3, <2>1, <2>2 DEF FindPods
<1>4. CASE KillPod(o)
  <2>1. ClusterTypeOK'
    <3>1. CASE UNCHANGED <<kubeVars, pgVars, faults>>
      BY <3>1, TypeUnchanged DEF clusterVars
    <3>2. CASE rollReg[o].pod \in pods /\ DeletePod(rollReg[o].pod) /\ faults' = faults
      BY <3>2, TypeDelete DEF ClusterTypeOK
    <3> QED
      BY <1>4, <3>1, <3>2 DEF KillPod
  <2> QED
    BY <1>4, <2>1, RollRegisterTypes DEF KillPod
<1>5. CASE RollWait(o)
  BY <1>5, TypeUnchanged DEF RollWait
<1>6. CASE RollTestFind(o)
  <2>1. CASE RollAbort(o)
    BY <1>6, <2>1, RollRegisterTypes, TypeUnchanged DEF RollTestFind
  <2>2. CASE \E m \in Idx : rollReg' = [rollReg EXCEPT ![o].pod = m, ![o].uid = uid[m]]
    <3>1. PICK m \in Idx :
             rollReg' = [rollReg EXCEPT ![o] = [rollReg[o] EXCEPT !.pod = m, !.uid = uid[m]]]
      BY <2>2
    <3>2. rollReg' \in [Operators -> RollRegisters]
      BY <3>1, RollRegisterTypes
    <3>3. rollPc' \in [Operators -> RollEnded \cup RollCalls]
      BY <1>6 DEF RollTestFind
    <3> QED
      BY <1>6, <3>2, <3>3, TypeUnchanged DEF RollTestFind
  <2> QED
    BY <1>6, <2>1, <2>2 DEF RollTestFind, ClusterTypeOK
<1>7. CASE RollTestExec(o)
  <2>1. CASE rollReg' = [rollReg EXCEPT ![o] = NothingListed]
    BY <1>7, <2>1, RollRegisterTypes, TypeUnchanged DEF RollTestExec
  <2>2. CASE \E i \in Idx : rollReg' = [rollReg EXCEPT ![o].todo = @ \ {i}]
    <3>1. PICK i \in Idx : rollReg' = [rollReg EXCEPT ![o] = [rollReg[o] EXCEPT !.todo = @ \ {i}]]
      BY <2>2
    <3>2. rollReg' \in [Operators -> RollRegisters]
      BY <3>1, RollRegisterTypes
    <3>3. rollPc' \in [Operators -> RollEnded \cup RollCalls]
      BY <1>7 DEF RollTestExec
    <3> QED
      BY <1>7, <3>2, <3>3, TypeUnchanged DEF RollTestExec
  <2> QED
    BY <1>7, <2>1, <2>2 DEF RollTestExec
<1>8. CASE RollCallFails(o)
  BY <1>8, RollRegisterTypes, TypeUnchanged DEF RollCallFails
<1> QED
  BY <1>1, <1>2, <1>3, <1>4, <1>5, <1>6, <1>7, <1>8 DEF RollCommand, RollStep

-----------------------------------------------------------------------------
(* The invariant.                                                          *)

\* Only one member is in hand.
LEMMA OneInHand ==
  ASSUME RollTypeOK, NEW o \in Operators, NEW i \in Idx, NEW j \in Idx,
         Current(o, i), Current(o, j)
  PROVE  i = j
<1>1. i <= j /\ j <= i
  BY DEF Current, First
<1> QED
  BY <1>1 DEF Idx

\* What a run does leaves the registers of the others alone.
LEMMA RollOthersUntouched ==
  ASSUME RollTypeOK, NEW o \in Operators, RollStep(o) \/ ListSets(o) \/ RollCallFails(o),
         NEW q \in Operators \ {o}
  PROVE  rollPc'[q] = rollPc[q] /\ rollReg'[q] = rollReg[q] /\ overlooked'[q] = overlooked[q]
<1> USE DEF RollTypeOK, RollGoto, RollAbort
<1>1. CASE ListSets(o)
  BY <1>1 DEF ListSets
<1>2. CASE UpdateSet(o)
  BY <1>2 DEF UpdateSet
<1>3. CASE FindPods(o)
  BY <1>3 DEF FindPods
<1>4. CASE KillPod(o)
  BY <1>4 DEF KillPod
<1>5. CASE RollWait(o)
  BY <1>5 DEF RollWait
<1>6. CASE RollTestFind(o)
  BY <1>6 DEF RollTestFind
<1>7. CASE RollTestExec(o)
  BY <1>7 DEF RollTestExec
<1>8. CASE RollCallFails(o)
  BY <1>8 DEF RollCallFails
<1> QED
  BY <1>1, <1>2, <1>3, <1>4, <1>5, <1>6, <1>7, <1>8 DEF RollStep

\* Labels stay in step while pods come from templates and no template is relabelled.
LEMMA LabelsStep ==
  ASSUME RollTypeOK, LabelsAgree, PodsFollow, ClusterTypeOK', rsMaster' = rsMaster \cap rs'
  PROVE  LabelsAgree'
  BY DEF RollTypeOK, ClusterTypeOK, LabelsAgree, PodsFollow, SamePod, FromTemplate

\* A run that waits for its turn is none the worse for a step in which templates keep
\* what they have and pods come from templates.
LEMMA UpgradedStays ==
  ASSUME RollTypeOK, ClusterTypeOK', PodsFollow, NEW q \in Operators, Rolling(q), Upgraded(q),
         rollPc'[q] = rollPc[q], rollReg'[q] = rollReg[q],
         rs' \subseteq rs, rsMaster' = rsMaster \cap rs', rsNew \cap rs' \subseteq rsNew'
  PROVE  Rolling(q)' /\ Upgraded(q)'
<1> USE DEF RollTypeOK, ClusterTypeOK
<1>1. Rolling(q)'
  BY DEF Rolling
<1>2. \A i \in pods' \ podNew' : (i \in pods \ podNew /\ uid'[i] = uid[i]) \/ i \notin rsNew'
  BY DEF PodsFollow, SamePod, FromTemplate
<1> DEFINE r == rollReg[q]
<1>3. /\ r.todo \subseteq Idx /\ r.sets \subseteq Idx
      /\ \A i \in Idx : Current(q, i)' <=> Current(q, i)
  BY DEF RollRegisters, Current
<1>4. rollPc'[q] \in RollCalls => (r.sets \ r.todo) \cap rs' \subseteq rsNew'
                               /\ (r.sets \ r.todo) \cap pods' \subseteq podNew'
  <2> SUFFICES ASSUME rollPc[q] \in RollCalls
               PROVE  (r.sets \ r.todo) \cap rs' \subseteq rsNew'
                      /\ (r.sets \ r.todo) \cap pods' \subseteq podNew'
    OBVIOUS
  <2>1. (r.sets \ r.todo) \cap rs \subseteq rsNew /\ (r.sets \ r.todo) \cap pods \subseteq podNew
    BY DEF Upgraded
  <2> QED
    BY <1>2, <2>1
<1>5. ASSUME NEW i \in Idx, Current(q, i)
      PROVE  /\ rollPc[q] \in {"find", "kill", "wait", "testFind", "testExec"} /\ i \in rs' => i \in rsNew'
             /\ rollPc[q] = "kill" => r.pod = i /\ (i \in pods' \ podNew' => r.uid = uid'[i])
             /\ rollPc[q] \in {"wait", "testFind", "testExec"} /\ i \in pods' => i \in podNew'
  BY <1>2, <1>5 DEF Upgraded
<1>6. Upgraded(q)'
  BY <1>3, <1>4, <1>5 DEF Upgraded
<1> QED
  BY <1>1, <1>6

\* What is left of a well-typed register when a run ends.
LEMMA NothingInHand ==
  ASSUME RollTypeOK, NEW o \in Operators, rollPc'[o] \notin RollCalls,
         rollReg'[o] = NothingListed
  PROVE  Rolling(o)' /\ Upgraded(o)'
  BY DEF Rolling, Upgraded, Current, First, NothingListed

\* The calls of a run that leave ReplicaSets and pods alone.
LEMMA UpgradedReads ==
  ASSUME RollIInv, NEW o \in Operators,
         ListSets(o) \/ FindPods(o) \/ RollWait(o) \/ RollTestFind(o) \/ RollTestExec(o)
           \/ RollCallFails(o)
  PROVE  Rolling(o)' /\ Upgraded(o)'
<1> USE DEF RollGoto
<1> DEFINE r == rollReg[o]
<1>0. /\ RollTypeOK /\ Rolling(o) /\ Upgraded(o) /\ rollReg[o] \in RollRegisters
      /\ rollReg \in [Operators -> RollRegisters] /\ rollPc \in [Operators -> RollEnded \cup RollCalls]
      /\ UNCHANGED <<rs, rsMaster, rsNew, pods, podMaster, podNew, uid>>
  BY DEF RollIInv, RollTypeOK, ListSets, FindPods, RollWait, RollTestFind, RollTestExec,
     RollCallFails, clusterVars, kubeVars
<1>1. CASE ListSets(o)
  <2>1. /\ rollReg'[o] = [NothingListed EXCEPT !.sets = rs, !.labelled = rsMaster, !.new = rsNew,
                                             !.todo = rs]
        /\ rollPc'[o] = IF rs = {} THEN "ok" ELSE "update"
    BY <1>0, <1>1 DEF ListSets
  <2>2. rollReg'[o].sets = rs /\ rollReg'[o].todo = rs /\ rollReg'[o].labelled = rsMaster
    BY <2>1 DEF NothingListed
  <2>3. rsMaster \subseteq rs
    BY <1>0 DEF RollTypeOK, ClusterTypeOK
  <2> QED
    BY <1>0, <2>1, <2>2, <2>3 DEF Rolling, Upgraded, Current, First, RollCalls
<1>2. CASE FindPods(o)
  <2>1. PICK i \in Idx :
          /\ Current(o, i)
          /\ IF i \in pods /\ (i \in r.labelled => i \in podMaster)
             THEN /\ RollGoto(o, "kill")
                  /\ rollReg' = [rollReg EXCEPT ![o].pod = i, ![o].uid = uid[i]]
             ELSE RollGoto(o, "wait") /\ UNCHANGED rollReg
    BY <1>2 DEF FindPods
  <2>2. rollPc[o] = "find" /\ rollPc[o] \in RollCalls
    BY <1>2 DEF FindPods, RollCalls
  <2>3. i \in rs => i \in rsNew
    BY <1>0, <2>1, <2>2 DEF Upgraded
  <2>4. i \in pods => (i \in r.labelled => i \in podMaster)
    BY <1>0, <2>2 DEF Rolling, RollIInv, LabelsAgree, RollTypeOK, ClusterTypeOK
  <2>5. CASE i \in pods
    <3>1. rollReg' = [rollReg EXCEPT ![o] = [rollReg[o] EXCEPT !.pod = i, !.uid = uid[i]]]
          /\ rollPc'[o] = "kill"
      BY <1>0, <2>1, <2>4, <2>5
    <3>2. /\ rollReg'[o].pod = i /\ rollReg'[o].uid = uid[i] /\ rollReg'[o].todo = r.todo
          /\ rollReg'[o].sets = r.sets /\ rollReg'[o].labelled = r.labelled
      BY <1>0, <3>1 DEF RollRegisters
    <3>3. \A j \in Idx : Current(o, j)' => j = i /\ Current(o, j)
      BY <1>0, <2>1, <3>2, OneInHand DEF Current
    <3>4. Rolling(o)'
      BY <1>0, <2>2, <3>2 DEF Rolling
    <3>5. Upgraded(o)'
      BY <1>0, <2>2, <2>3, <3>1, <3>2, <3>3 DEF Upgraded
    <3> QED
      BY <3>4, <3>5
  <2>6. CASE i \notin pods
    <3>1. rollReg' = rollReg /\ rollPc'[o] = "wait"
      BY <1>0, <2>1, <2>6
    <3>2. \A j \in Idx : Current(o, j)' => j = i
      BY <1>0, <2>1, <3>1, OneInHand DEF Current
    <3>3. Rolling(o)'
      BY <1>0, <2>2, <3>1 DEF Rolling
    <3>4. Upgraded(o)'
      BY <1>0, <2>2, <2>3, <2>6, <3>1, <3>2 DEF Upgraded
    <3> QED
      BY <3>3, <3>4
  <2> QED
    BY <2>5, <2>6
<1>3. CASE RollWait(o)
  <2>1. rollPc[o] = "wait" /\ rollPc'[o] = "testFind" /\ rollReg' = rollReg
    BY <1>0, <1>3 DEF RollWait
  <2> QED
    BY <1>0, <2>1 DEF Rolling, Upgraded, Current, RollCalls
<1>4. CASE RollTestFind(o)
  <2>1. CASE RollAbort(o)
    BY <1>0, <2>1, NothingInHand DEF RollAbort, RollCalls
  <2>2. CASE \E m \in running :
              /\ RollGoto(o, "testExec")
              /\ rollReg' = [rollReg EXCEPT ![o].pod = m, ![o].uid = uid[m]]
    <3>1. PICK m \in running : rollReg' = [rollReg EXCEPT ![o] = [rollReg[o] EXCEPT !.pod = m, !.uid = uid[m]]]
      BY <2>2
    <3>2. /\ rollReg'[o].todo = r.todo /\ rollReg'[o].sets = r.sets
          /\ rollReg'[o].labelled = r.labelled
      BY <1>0, <3>1 DEF RollRegisters
    <3>3. rollPc[o] = "testFind" /\ rollPc'[o] = "testExec"
      BY <1>0, <1>4, <2>2 DEF RollTestFind
    <3> QED
      BY <1>0, <3>2, <3>3 DEF Rolling, Upgraded, Current, RollCalls
  <2> QED
    BY <1>4, <2>1, <2>2 DEF RollTestFind
<1>5. CASE RollTestExec(o)
  <2>1. CASE RollAbort(o)
    BY <1>0, <2>1, NothingInHand DEF RollAbort, RollCalls
  <2>2. CASE ~RollAbort(o)
    <3>1. PICK i \in Idx :
            /\ Current(o, i)
            /\ IF r.todo = {i}
               THEN RollGoto(o, "ok") /\ rollReg' = [rollReg EXCEPT ![o] = NothingListed]
               ELSE RollGoto(o, "update") /\ rollReg' = [rollReg EXCEPT ![o].todo = @ \ {i}]
      BY <1>5, <2>2 DEF RollTestExec
    <3>2. CASE r.todo = {i}
      BY <1>0, <3>1, <3>2, NothingInHand DEF RollCalls
    <3>3. CASE r.todo # {i}
      <4>1. /\ rollReg' = [rollReg EXCEPT ![o] = [rollReg[o] EXCEPT !.todo = @ \ {i}]]
            /\ rollPc'[o] = "update" /\ rollPc[o] = "testExec"
        BY <1>0, <1>5, <3>1, <3>3 DEF RollTestExec
      <4>2. /\ rollReg'[o].todo = r.todo \ {i} /\ rollReg'[o].sets = r.sets
            /\ rollReg'[o].labelled = r.labelled
        BY <1>0, <4>1 DEF RollRegisters
      <4>3. (i \in rs => i \in rsNew) /\ (i \in pods => i \in podNew) /\ i \in r.todo
        BY <3>1, <4>1, <1>0 DEF Upgraded, Current, First
      <4>4. /\ (r.sets \ r.todo) \cap rs \subseteq rsNew /\ (r.sets \ r.todo) \cap pods \subseteq podNew
            /\ r.todo \subseteq r.sets /\ r.todo # {} /\ rsMaster = r.labelled \cap rs
        BY <1>0, <4>1 DEF Upgraded, Rolling, RollCalls
      <4>5. Rolling(o)'
        BY <1>0, <3>3, <4>1, <4>2, <4>3, <4>4 DEF Rolling
      <4>6. Upgraded(o)'
        BY <1>0, <4>1, <4>2, <4>3, <4>4 DEF Upgraded
      <4> QED
        BY <4>5, <4>6
    <3> QED
      BY <3>2, <3>3
  <2> QED
    BY <2>1, <2>2
<1>6. CASE RollCallFails(o)
  BY <1>0, <1>6, NothingInHand DEF RollCallFails, RollAbort, RollCalls
<1> QED
  BY <1>1, <1>2, <1>3, <1>4, <1>5, <1>6

\* The update of a template, and the deletion of a pod, for the run that does it.
LEMMA UpgradedWrites ==
  ASSUME RollIInv, NEW o \in Operators, UpdateSet(o) \/ KillPod(o)
  PROVE  Rolling(o)' /\ Upgraded(o)'
<1> USE DEF RollGoto
<1> DEFINE r == rollReg[o]
<1>0. /\ RollTypeOK /\ Rolling(o) /\ Upgraded(o) /\ ClusterTypeOK
      /\ rollReg \in [Operators -> RollRegisters] /\ rollPc \in [Operators -> RollEnded \cup RollCalls]
  BY DEF RollIInv, RollTypeOK
<1>1. CASE UpdateSet(o)
  <2>1. PICK i \in Idx :
          /\ Current(o, i)
          /\ IF Unchanged(o, i)
             THEN RollGoto(o, "find") /\ rsNew' = rsNew \cup {i} /\ UNCHANGED rollReg
             ELSE RollAbort(o) /\ UNCHANGED rsNew
    BY <1>1 DEF UpdateSet
  <2>2. CASE RollAbort(o)
    BY <1>0, <2>2, NothingInHand DEF RollAbort, RollCalls
  <2>3. CASE ~RollAbort(o)
    <3>1. /\ rollPc[o] = "update" /\ rollPc'[o] = "find" /\ rollReg' = rollReg
          /\ rsNew' = rsNew \cup {i}
          /\ UNCHANGED <<rs, rsMaster, pods, podMaster, podNew, uid>>
      BY <1>0, <1>1, <2>1, <2>3 DEF UpdateSet
    <3>2. \A j \in Idx : Current(o, j)' => j = i
      BY <1>0, <2>1, <3>1, OneInHand DEF Current
    <3>3. Rolling(o)'
      BY <1>0, <3>1 DEF Rolling, RollCalls
    <3>4. Upgraded(o)'
      BY <1>0, <3>1, <3>2 DEF Upgraded, RollCalls
    <3> QED
      BY <3>3, <3>4
  <2> QED
    BY <2>2, <2>3
<1>2. CASE KillPod(o)
  <2>1. CASE RollAbort(o)
    BY <1>0, <2>1, NothingInHand DEF RollAbort, RollCalls
  <2>2. CASE ~RollAbort(o)
    <3>1. /\ rollPc[o] = "kill" /\ rollPc'[o] = "wait" /\ rollReg' = rollReg
          /\ DeletePod(r.pod) /\ r.pod \in pods
      BY <1>0, <1>2, <2>2 DEF KillPod
    <3>2. r.pod \in Idx /\ PodsFollow /\ uid[r.pod] \in Nat
      BY <1>0, <3>1, DeleteFollows DEF ClusterTypeOK
    <3>3. UNCHANGED <<rs, rsMaster, rsNew>> /\ uid'[r.pod] = uid[r.pod] + 1
      BY <1>0, <3>1, <3>2 DEF DeletePod, ClusterTypeOK
    <3>4. \A j \in Idx : Current(o, j)' => j = r.pod /\ Current(o, j)
      BY <1>0, <3>1 DEF Upgraded, Current
    <3>5. \A j \in Idx : Current(o, j)' => (j \in rs => j \in rsNew)
      BY <1>0, <3>1, <3>4 DEF Upgraded
    <3>6. ~SamePod(r.pod)
      BY <3>2, <3>3 DEF SamePod
    <3>7. \A j \in Idx : Current(o, j)' => (j \in pods' => j \in podNew')
      BY <1>0, <3>2, <3>3, <3>4, <3>5, <3>6 DEF PodsFollow, FromTemplate
    <3>8. Rolling(o)'
      BY <1>0, <3>1, <3>3 DEF Rolling, RollCalls
    <3>9. (r.sets \ r.todo) \cap pods' \subseteq podNew' /\ (r.sets \ r.todo) \cap rs \subseteq rsNew
      <4>1. (r.sets \ r.todo) \cap rs \subseteq rsNew /\ (r.sets \ r.todo) \cap pods \subseteq podNew
        BY <1>0, <3>1 DEF Upgraded, RollCalls
      <4> QED
        BY <3>2, <3>3, <4>1 DEF PodsFollow, SamePod, FromTemplate
    <3>10. Upgraded(o)'
      BY <3>1, <3>3, <3>5, <3>7, <3>9 DEF Upgraded
    <3> QED
      BY <3>8, <3>10
  <2> QED
    BY <2>1, <2>2
<1> QED
  BY <1>1, <1>2

\* What a run does to templates and pods.
LEMMA RollKube ==
  ASSUME RollTypeOK, NEW o \in Operators, RollCommand(o)
  PROVE  /\ UNCHANGED <<rs, rsMaster, faults>> /\ rsNew \subseteq rsNew'
         /\ PodsFollow
         /\ \/ UNCHANGED <<up, disk, conf, live, trigger, data>>
            \/ \E i \in pods : ContainersEnd(i)
<1> USE DEF clusterVars, kubeVars, pgVars
<1>1. CASE UpdateSet(o)
  BY <1>1 DEF UpdateSet, PodsFollow, SamePod, RollTypeOK, ClusterTypeOK
<1>2. CASE KillPod(o)
  <2>1. CASE rollReg[o].pod \in pods /\ DeletePod(rollReg[o].pod)
    <3>1. PodsFollow
      BY <2>1, DeleteFollows DEF RollTypeOK, ClusterTypeOK
    <3> QED
      BY <1>2, <2>1, <3>1 DEF KillPod, DeletePod
  <2>2. CASE UNCHANGED <<kubeVars, pgVars>>
    BY <1>2, <2>2 DEF KillPod, PodsFollow, SamePod
  <2> QED
    BY <1>2, <2>1, <2>2 DEF KillPod
<1>3. CASE ~UpdateSet(o) /\ ~KillPod(o)
  <2>1. UNCHANGED clusterVars
    BY <1>3 DEF RollCommand, RollStep, ListSets, FindPods, RollWait, RollTestFind, RollTestExec,
       RollCallFails
  <2> QED
    BY <2>1 DEF PodsFollow, SamePod
<1> QED
  BY <1>1, <1>2, <1>3

-----------------------------------------------------------------------------
(* What an upgrade that nobody disturbs knows.                             *)

\* A wait that was not given up has seen every member Running.
LEMMA AllRunning ==
  ASSUME RollTypeOK, Cardinality(running) = Cardinality(rs)
  PROVE  running = rs
<1>1. running \in SUBSET rs /\ rs \in SUBSET (0..N)
  BY DEF RollTypeOK, ClusterTypeOK, Idx
<1>2. IsFiniteSet(0..N)
  BY FS_Interval
<1>3. IsFiniteSet(rs)
  BY <1>1, <1>2, FS_Subset
<1> QED
  BY <1>1, <1>3, FS_Subset

\* The calls of a run, for itself and for the others, which it disturbs.
LEMMA RollsAloneCommand ==
  ASSUME RollTypeOK, \A p \in Operators : RollsAlone(p), NEW o \in Operators, RollCommand(o)
  PROVE  \A p \in Operators : RollsAlone(p)'
<1> USE DEF RollTypeOK, RollGoto, RollAbort, clusterVars, kubeVars
<1>1. ListSets(o) \/ (rollPc[o] \in RollCalls /\ \A p \in Operators \ {o} : disturbed'[p] = disturbed[p])
  BY DEF RollCommand, RollStep, UpdateSet, FindPods, KillPod, RollWait, RollTestFind,
     RollTestExec, RollCallFails, RollCalls
<1>2. faults' = faults
  BY RollKube
<1>3. ASSUME NEW p \in Operators \ {o} PROVE RollsAlone(p)'
  <2>1. rollPc'[p] = rollPc[p]
    BY <1>3, RollOthersUntouched DEF RollCommand
  <2>2. CASE ListSets(o)
    BY <2>2 DEF ListSets, RollsAlone
  <2>3. CASE ~ListSets(o)
    BY <1>1, <1>2, <2>1, <2>3 DEF RollsAlone
  <2> QED
    BY <2>2, <2>3
<1>4. \A q \in Operators \ {o} : rollPc'[q] = rollPc[q]
  BY RollOthersUntouched DEF RollCommand
<1>5. RollsAlone(o)'
  <2>1. CASE ListSets(o)
    <3>1. /\ UNCHANGED <<rs, running>> /\ rollReg'[o].sets = rs
          /\ disturbed'[o] = (rs # running \/ \E q \in Operators \ {o} : rollPc[q] \in RollCalls)
      BY <2>1 DEF ListSets, NothingListed
    <3> QED
      BY <1>4, <3>1 DEF RollsAlone
  <2>2. CASE rollPc'[o] \notin RollCalls
    BY <2>2 DEF RollsAlone
  <2>3. CASE UpdateSet(o) /\ rollPc'[o] \in RollCalls
    <3>1. rollReg' = rollReg /\ rollPc[o] = "update" /\ UNCHANGED <<rs, running, disturbed, faults>>
      BY <2>3 DEF UpdateSet, RollCalls
    <3> QED
      BY <1>4, <3>1 DEF RollsAlone, RollCalls
  <2>4. CASE (FindPods(o) \/ RollTestFind(o)) /\ rollPc'[o] \in RollCalls
    <3>1. \/ rollReg' = rollReg
          \/ \E m \in Idx : rollReg' = [rollReg EXCEPT ![o].pod = m, ![o].uid = uid[m]]
      BY <2>4 DEF FindPods, RollTestFind, RollCalls, ClusterTypeOK
    <3>2. rollReg'[o].sets = rollReg[o].sets
      <4>1. rollReg[o] \in RollRegisters
        OBVIOUS
      <4> QED
        BY <3>1, <4>1 DEF RollRegisters
    <3>3. /\ rollPc[o] \in RollCalls \ {"wait"}
          /\ UNCHANGED <<rs, running, disturbed, faults>>
      BY <2>4 DEF FindPods, RollTestFind, RollCalls
    <3> QED
      BY <1>4, <3>2, <3>3 DEF RollsAlone
  <2>5. CASE KillPod(o) /\ rollPc'[o] \in RollCalls
    <3>1. /\ rollReg' = rollReg /\ rollPc[o] = "kill" /\ rollPc'[o] = "wait"
          /\ UNCHANGED <<rs, disturbed, faults>>
      BY <2>5 DEF KillPod, DeletePod, RollCalls
    <3> QED
      BY <1>4, <3>1 DEF RollsAlone, RollCalls
  <2>6. CASE RollWait(o)
    <3>1. /\ rollReg' = rollReg /\ rollPc[o] = "wait" /\ UNCHANGED <<rs, running, faults>>
          /\ disturbed'[o] = (disturbed[o] \/ Cardinality(running) # Cardinality(rollReg[o].sets))
      BY <2>6 DEF RollWait
    <3> QED
      BY <1>4, <3>1, AllRunning DEF RollsAlone, RollCalls
  <2>7. CASE RollTestExec(o) /\ rollPc'[o] \in RollCalls
    <3>1. \E i \in Idx : rollReg' = [rollReg EXCEPT ![o].todo = @ \ {i}]
      BY <2>7 DEF RollTestExec, RollCalls
    <3>2. rollReg'[o].sets = rollReg[o].sets
      <4>1. rollReg[o] \in RollRegisters
        OBVIOUS
      <4> QED
        BY <3>1, <4>1 DEF RollRegisters
    <3>3. rollPc[o] = "testExec" /\ UNCHANGED <<rs, running, disturbed, faults>>
      BY <2>7 DEF RollTestExec
    <3> QED
      BY <1>4, <3>2, <3>3 DEF RollsAlone, RollCalls
  <2>8. CASE RollCallFails(o)
    BY <2>2, <2>8 DEF RollCallFails, RollCalls
  <2> QED
    BY <2>1, <2>2, <2>3, <2>4, <2>5, <2>6, <2>7, <2>8 DEF RollCommand, RollStep
<1> QED
  BY <1>3, <1>5

\* As long as nothing fails, the cluster adds pods that run and takes none away.
LEMMA RollsAloneEnvironment ==
  ASSUME RollTypeOK, NEW p \in Operators, RollsAlone(p), RollEnvironment
  PROVE  RollsAlone(p)'
<1>0. faults \in Nat /\ running \subseteq pods /\ pods \subseteq rs
  BY DEF RollTypeOK, ClusterTypeOK
<1>1. PICK i \in Idx : Healing(i) \/ Failing(i) \/ Using(i)
  BY DEF RollEnvironment, ClusterNext
<1>2. faults' = 0 =>
        faults = 0 /\ rs' = rs /\ running \subseteq running' /\ running' \subseteq rs
  <2>1. CASE Healing(i)
    BY <1>0, <2>1 DEF Healing, RSController, KubeletStart, SetUpBegins, SetUpEnds,
                      StartPostgres, Promote, kubeVars
  <2>2. CASE Failing(i)
    BY <1>0, <2>2 DEF Failing, PodLost, ContainerDies, RemoveReplicaSet, Fault
  <2>3. CASE Using(i)
    BY <1>0, <2>3 DEF Using, Stream, ClientWrite, Acknowledge, kubeVars
  <2> QED
    BY <1>1, <2>1, <2>2, <2>3
<1> QED
  BY <1>0, <1>2 DEF RollsAlone, RollEnvironment, rollVars

\* The invariant, initially and over every step.
LEMMA RollInitIInv == RollInit => RollIInv
<1> SUFFICES ASSUME RollInit PROVE RollIInv
  OBVIOUS
<1>1. RollTypeOK
  BY RollTypeInit DEF RollInit
<1>2. LabelsAgree
  BY DEF RollInit, ClusterInit, LabelsAgree, Founders
<1>3. \A o \in Operators : Rolling(o) /\ Upgraded(o)
  BY DEF RollInit, RollOnlyInit, Rolling, Upgraded, RollCalls, Current, First, NothingListed
<1>4. \A o \in Operators : RollsAlone(o)
  BY DEF RollInit, RollOnlyInit, RollsAlone, RollCalls
<1> QED
  BY <1>1, <1>2, <1>3, <1>4 DEF RollIInv

LEMMA RollStepIInv == RollIInv /\ [RollNext]_<<clusterVars, rollVars>> => RollIInv'
<1> SUFFICES ASSUME RollIInv, [RollNext]_<<clusterVars, rollVars>> PROVE RollIInv'
  OBVIOUS
<1>0. RollTypeOK /\ LabelsAgree /\ \A o \in Operators : Rolling(o) /\ Upgraded(o) /\ RollsAlone(o)
  BY DEF RollIInv
<1>1. CASE UNCHANGED <<clusterVars, rollVars>>
  BY <1>0, <1>1 DEF RollIInv, RollTypeOK, ClusterTypeOK, LabelsAgree, Rolling, Upgraded, Current,
     RollsAlone, clusterVars, kubeVars, pgVars, rollVars
<1>2. ASSUME NEW o \in Operators, RollCommand(o) PROVE RollIInv'
  <2>1. RollTypeOK' /\ ClusterTypeOK'
    BY <1>0, <1>2, RollTypeCommand DEF RollTypeOK
  <2>2. /\ UNCHANGED <<rs, rsMaster>> /\ rsNew \subseteq rsNew' /\ PodsFollow
        /\ rsMaster \subseteq rs
    BY <1>0, <1>2, RollKube DEF RollTypeOK, ClusterTypeOK
  <2>3. LabelsAgree'
    BY <1>0, <2>1, <2>2, LabelsStep
  <2>4. Rolling(o)' /\ Upgraded(o)'
    BY <1>2, UpgradedReads, UpgradedWrites DEF RollCommand, RollStep
  <2>5. \A q \in Operators \ {o} : Rolling(q)' /\ Upgraded(q)'
    <3> TAKE q \in Operators \ {o}
    <3>1. rollPc'[q] = rollPc[q] /\ rollReg'[q] = rollReg[q]
      BY <1>0, <1>2, RollOthersUntouched DEF RollCommand
    <3>2. rs' \subseteq rs /\ rsMaster' = rsMaster \cap rs' /\ rsNew \cap rs' \subseteq rsNew'
      BY <2>2
    <3> QED
      BY <1>0, <2>1, <2>2, <3>1, <3>2, UpgradedStays
  <2>6. \A q \in Operators : RollsAlone(q)'
    BY <1>0, <1>2, RollsAloneCommand
  <2> QED
    BY <2>1, <2>3, <2>4, <2>5, <2>6 DEF RollIInv
<1>3. CASE RollEnvironment
  <2>1. /\ ClusterTypeOK' /\ PodsFollow /\ rs' \subseteq rs
        /\ rsMaster' = rsMaster \cap rs' /\ rsNew' = rsNew \cap rs'
    BY <1>0, <1>3, TypeCluster, ClusterFollows, ClusterTemplates DEF RollEnvironment, RollTypeOK
  <2>2. RollTypeOK' /\ UNCHANGED rollVars
    BY <1>0, <1>3, <2>1 DEF RollTypeOK, RollEnvironment, rollVars
  <2>3. LabelsAgree'
    BY <1>0, <2>1, LabelsStep
  <2>4. \A q \in Operators : Rolling(q)' /\ Upgraded(q)'
    <3> TAKE q \in Operators
    <3>1. rollPc'[q] = rollPc[q] /\ rollReg'[q] = rollReg[q]
      BY <2>2 DEF rollVars
    <3> QED
      BY <1>0, <2>1, <3>1, UpgradedStays
  <2>5. \A q \in Operators : RollsAlone(q)'
    BY <1>0, <1>3, RollsAloneEnvironment
  <2> QED
    BY <2>2, <2>3, <2>4, <2>5 DEF RollIInv
<1> QED
  BY <1>1, <1>2, <1>3 DEF RollNext

-----------------------------------------------------------------------------
(* Theorems.                                                               *)

\* However many upgrades run, whatever fails: members a run has passed have the new image
\* in template and pod, and one that nobody disturbed has the other members Running.
THEOREM RollInvariance == RollSpec => []RollIInv
<1> QED
  BY RollInitIInv, RollStepIInv, PTL DEF RollSpec

\* An upgrade that reports success has brought the new image to the pod of every member
\* it listed (upgrade.go, the loop over the ReplicaSets).
THEOREM UpgradeCompletes == RollSpec => UpgradeIsComplete
<1>1. ASSUME RollIInv, [RollNext]_<<clusterVars, rollVars>>,
             NEW o \in Operators, rollPc[o] = "testExec", rollPc'[o] = "ok"
      PROVE  rollReg[o].sets \cap pods \subseteq podNew
  <2>1. ~UNCHANGED <<clusterVars, rollVars>>
    BY <1>1 DEF rollVars
  <2>2. PICK q \in Operators : RollCommand(q)
    BY <1>1, <2>1 DEF RollNext, RollEnvironment, rollVars
  <2>3. q = o
    BY <1>1, <2>2, RollOthersUntouched DEF RollIInv, RollCommand
  <2>4. rollPc \in [Operators -> RollEnded \cup RollCalls]
    BY <1>1 DEF RollIInv, RollTypeOK
  <2>5. RollTestExec(o)
    BY <1>1, <2>2, <2>3, <2>4 DEF RollCommand, RollStep, ListSets, UpdateSet, FindPods, KillPod,
       RollWait, RollTestFind, RollCallFails, RollGoto, RollAbort, RollEnded, RollOver
  <2>6. PICK i \in Idx : Current(o, i) /\ rollReg[o].todo = {i}
    BY <1>1, <2>4, <2>5 DEF RollTestExec, RollGoto, RollAbort
  <2>7. Upgraded(o)
    BY <1>1 DEF RollIInv
  <2>8. i \in pods => i \in podNew
    BY <1>1, <2>6, <2>7 DEF Upgraded
  <2>9. (rollReg[o].sets \ {i}) \cap pods \subseteq podNew
    BY <1>1, <2>6, <2>7 DEF Upgraded, RollCalls
  <2> QED
    BY <2>8, <2>9
<1>2. RollIInv /\ [RollNext]_<<clusterVars, rollVars>> =>
        [\A o \in Operators : rollPc[o] = "testExec" /\ rollPc'[o] = "ok" =>
           rollReg[o].sets \cap pods \subseteq podNew]_<<clusterVars, rollVars>>
  BY <1>1
<1> QED
  BY <1>2, RollInvariance, PTL DEF RollSpec, UpgradeIsComplete

\* An upgrade that found every member Running, was alone and gave up no wait takes a
\* member down only while all others are Running, unless something failed: with
\* waitForPodsToStart as it is, the members are rolled one at a time.
THEOREM RollsOne == RollSpec => OneAtATime
<1>1. ASSUME RollIInv, NEW o \in Operators, rollPc[o] = "kill", ~disturbed[o], faults = 0
      PROVE  rollReg[o].sets \ {rollReg[o].pod} \subseteq running
  BY <1>1 DEF RollIInv, RollsAlone, RollCalls
<1>2. RollIInv /\ [RollNext]_<<clusterVars, rollVars>> =>
        [\A o \in Operators :
           /\ rollPc[o] = "kill" /\ rollPc'[o] = "wait"
           /\ ~disturbed[o] /\ faults = 0
           => rollReg[o].sets \ {rollReg[o].pod} \subseteq running]_<<clusterVars, rollVars>>
  BY <1>1
<1> QED
  BY <1>2, RollInvariance, PTL DEF RollSpec, OneAtATime
=============================================================================
