---------------------------- MODULE ScaleProofs ----------------------------
(***************************************************************************)
(* Theorems about scale and setreplicas, for every size of cluster, every  *)
(* set of operators and every bound.  Without failovers the first master   *)
(* is the only one, so nothing but its own ReplicaSet ever goes; a run     *)
(* that is alone therefore keeps seeing all the standbys there are.        *)
(***************************************************************************)
EXTENDS Scale, ClusterProofs

USE NAssumption, EnvironmentAssumption, ScaleAssumption

-----------------------------------------------------------------------------
(* Types.                                                                  *)

\* The initial state is well-typed.
LEMMA ScaleTypeInit == ClusterInit /\ ScaleOnlyInit => ScaleTypeOK
<1>1. NoIndexes \in ScaleRegisters
  BY DEF NoIndexes, ScaleRegisters, Idx
<1> QED
  BY <1>1, ClusterTypeInit DEF ScaleOnlyInit, ScaleTypeOK, ScaleEnded

\* What is created by a run leaves a well-typed cluster.
LEMMA TypeCreate ==
  ASSUME ClusterTypeOK, NEW i \in Idx, CreateClaim(i) \/ CreateReplicaSet(i), UNCHANGED faults
  PROVE  ClusterTypeOK'
<1> USE DEF ClusterTypeOK, Disks, kubeVars, pgVars
<1>1. CASE CreateClaim(i)
  BY <1>1 DEF CreateClaim
<1>2. CASE CreateReplicaSet(i)
  BY <1>2 DEF CreateReplicaSet
<1> QED
  BY <1>1, <1>2

\* What a call writes to the registers of its run.
LEMMA ScaleRegisterTypes ==
  ASSUME ScaleTypeOK, NEW o \in Operators
  PROVE  /\ scaleReg[o] \in ScaleRegisters /\ NoIndexes \in ScaleRegisters
         /\ \A k \in 0..N : [NoIndexes EXCEPT !.by = k] \in ScaleRegisters
         /\ \A S \in SUBSET Idx : /\ [scaleReg[o] EXCEPT !.seen = S] \in ScaleRegisters
                                  /\ [scaleReg[o] EXCEPT !.names = S] \in ScaleRegisters
         /\ \A h \in Idx : [scaleReg[o] EXCEPT !.start = h + 1, !.at = h + 1] \in ScaleRegisters
         /\ \A m \in Idx, u \in Nat : [scaleReg[o] EXCEPT !.pod = m, !.uid = u] \in ScaleRegisters
         /\ scaleReg[o].at \in Idx =>
              /\ [scaleReg[o] EXCEPT !.at = @ + 1] \in ScaleRegisters
              /\ [scaleReg[o] EXCEPT !.at = @ + 1, !.made = @ \cup {scaleReg[o].at}]
                   \in ScaleRegisters
<1>1. scaleReg[o] \in ScaleRegisters
  BY DEF ScaleTypeOK
<1>2. NoIndexes \in ScaleRegisters /\ \A k \in 0..N : [NoIndexes EXCEPT !.by = k] \in ScaleRegisters
  BY DEF NoIndexes, ScaleRegisters, Idx
<1>3. \A S \in SUBSET Idx : /\ [scaleReg[o] EXCEPT !.seen = S] \in ScaleRegisters
                            /\ [scaleReg[o] EXCEPT !.names = S] \in ScaleRegisters
  BY <1>1 DEF ScaleRegisters
<1>4. \A h \in Idx : [scaleReg[o] EXCEPT !.start = h + 1, !.at = h + 1] \in ScaleRegisters
  <2> TAKE h \in Idx
  <2>1. h + 1 \in 0..(N + 1)
    BY DEF Idx
  <2> QED
    BY <1>1, <2>1 DEF ScaleRegisters
<1>5. \A m \in Idx, u \in Nat : [scaleReg[o] EXCEPT !.pod = m, !.uid = u] \in ScaleRegisters
  BY <1>1 DEF ScaleRegisters
<1>6. ASSUME scaleReg[o].at \in Idx
      PROVE  /\ [scaleReg[o] EXCEPT !.at = @ + 1] \in ScaleRegisters
             /\ [scaleReg[o] EXCEPT !.at = @ + 1, !.made = @ \cup {scaleReg[o].at}]
                  \in ScaleRegisters
  <2>1. scaleReg[o].at + 1 \in 0..(N + 1)
    BY <1>6 DEF Idx
  <2>2. scaleReg[o].made \cup {scaleReg[o].at} \in SUBSET Idx
    BY <1>1, <1>6 DEF ScaleRegisters
  <2> QED
    BY <1>1, <2>1, <2>2 DEF ScaleRegisters
<1> QED
  BY <1>1, <1>2, <1>3, <1>4, <1>5, <1>6

\* The index in hand of a run that fills its range is one a member can have.
LEMMA AtIsIndex ==
  ASSUME ScaleTypeOK, NEW o \in Operators, InRange(o), scalePc[o] \in Filling
  PROVE  /\ scaleReg[o].at \in Idx /\ scaleReg[o].start \in Nat /\ scaleReg[o].by \in Nat
         /\ scaleReg[o].at + 1 <= scaleReg[o].start + scaleReg[o].by
<1>1. /\ scaleReg[o].at \in 0..(N + 1) /\ scaleReg[o].start \in 0..(N + 1)
      /\ scaleReg[o].by \in 0..N
  BY DEF ScaleTypeOK, ScaleRegisters
<1>2. /\ scaleReg[o].start + scaleReg[o].by <= N + 1
      /\ scaleReg[o].at < scaleReg[o].start + scaleReg[o].by
  BY DEF InRange
<1> QED
  BY <1>1, <1>2 DEF Idx

\* The last call touches the configuration of the pod it found, and no database.
LEMMA NamesScript ==
  ASSUME ScaleTypeOK, NEW o \in Operators, SetNames(o)
  PROVE  /\ conf' \in [Idx -> SUBSET Idx] /\ disk' \in [Idx -> Disks] /\ cut' \subseteq Idx
         /\ \A k \in Idx : disk'[k] = disk[k] \/ (disk[k] = "empty" /\ disk'[k] = "broken")
<1>1. /\ ClusterTypeOK
      /\ scaleReg[o].pod \in Idx /\ scaleReg[o].names \in SUBSET Idx
  BY DEF ScaleTypeOK, ScaleRegisters
<1>2. CASE UNCHANGED <<conf, disk, cut>>
  BY <1>1, <1>2 DEF ClusterTypeOK
<1>3. CASE \/ NamesWritten(scaleReg[o].pod, scaleReg[o].names)
           \/ NamesCutOff(scaleReg[o].pod, scaleReg[o].names)
           \/ NamesRefused(scaleReg[o].pod, scaleReg[o].names)
  BY <1>1, <1>3, ScriptKeeps
<1> QED
  BY <1>2, <1>3 DEF SetNames

\* Every call keeps the types.
LEMMA ScaleTypeCommand ==
  ASSUME ScaleTypeOK, NEW o \in Operators, InRange(o), ScaleCommand(o)
  PROVE  ScaleTypeOK'
<1> USE DEF ScaleTypeOK, kubeVars, pgVars, clusterVars, ScaleSame, ScaleGoto, ScaleAbort,
        ScaleEnded, ScaleCalls
<1>0. /\ scaleReg[o] \in ScaleRegisters /\ scaleReg[o].pod \in Idx
      /\ scaleReg[o].seen \in SUBSET Idx /\ scaleReg[o].names \in SUBSET Idx
  BY DEF ScaleRegisters
<1>1. ASSUME NEW l \in ScaleCalls, NEW k \in 0..N, ScaleBegin(o, l, k)
      PROVE  ScaleTypeOK'
  <2>1. ClusterTypeOK' /\ scalePc' \in [Operators -> ScaleEnded \cup ScaleCalls]
    BY <1>1, TypeUnchanged DEF ScaleBegin
  <2>2. scaleReg' \in [Operators -> ScaleRegisters]
    <3> DEFINE r == [NoIndexes EXCEPT !.by = k]
    <3>1. r \in ScaleRegisters /\ scaleReg' = [scaleReg EXCEPT ![o] = r]
      BY <1>1, ScaleRegisterTypes DEF ScaleBegin
    <3> HIDE DEF r
    <3> QED
      BY <3>1
  <2>3. scales' \in 0..MaxScales /\ overlapped' \subseteq Operators
    BY <1>1 DEF ScaleBegin
  <2> QED
    BY <2>1, <2>2, <2>3
<1>2. CASE ScaleList(o)
  <2>1. ReplicaPods \in SUBSET Idx
    BY DEF ReplicaPods, ClusterTypeOK
  <2> QED
    BY <1>2, <2>1, ScaleRegisterTypes DEF ScaleList, ClusterTypeOK
<1>3. CASE ScaleGetMaster(o)
  <2>1. CASE ScaleAbort(o)
    BY <1>3, <2>1, ScaleRegisterTypes, TypeUnchanged DEF ScaleGetMaster
  <2>2. CASE \E h \in Idx : scaleReg' = [scaleReg EXCEPT ![o].start = h + 1, ![o].at = h + 1]
    <3>1. PICK h \in Idx :
             scaleReg' = [scaleReg EXCEPT ![o] = [scaleReg[o] EXCEPT !.start = h + 1, !.at = h + 1]]
      BY <2>2
    <3>2. scaleReg' \in [Operators -> ScaleRegisters]
      BY <3>1, ScaleRegisterTypes
    <3>3. ClusterTypeOK' /\ scalePc' \in [Operators -> ScaleEnded \cup ScaleCalls]
      BY <1>3, TypeUnchanged DEF ScaleGetMaster
    <3> QED
      BY <1>3, <3>2, <3>3 DEF ScaleGetMaster
  <2> QED
    BY <1>3, <2>1, <2>2 DEF ScaleGetMaster
<1>4. CASE GetClaim(o)
  BY <1>4 DEF GetClaim, ClusterTypeOK
<1>5. CASE ScaleCreateClaim(o)
  <2>1. ClusterTypeOK'
    <3>1. scaleReg[o].at \in Idx
      BY <1>5, AtIsIndex DEF ScaleCreateClaim, Filling
    <3> QED
      BY <1>5, <3>1, TypeCreate DEF ScaleCreateClaim, ClusterTypeOK
  <2> QED
    BY <1>5, <2>1, ScaleRegisterTypes DEF ScaleCreateClaim
<1>6. CASE GetSet(o)
  <2>1. scaleReg[o].at \in Idx
    BY <1>6, AtIsIndex DEF GetSet, Filling
  <2> QED
    BY <1>6, <2>1, ScaleRegisterTypes DEF GetSet, AfterIndex, ClusterTypeOK
<1>7. CASE ScaleCreateSet(o)
  <2>1. scaleReg[o].at \in Idx
    BY <1>7, AtIsIndex DEF ScaleCreateSet, Filling
  <2>2. ClusterTypeOK'
    BY <1>7, <2>1, TypeCreate DEF ScaleCreateSet, ClusterTypeOK
  <2> QED
    BY <1>7, <2>1, <2>2, ScaleRegisterTypes DEF ScaleCreateSet, AfterIndex
<1>8. CASE FindMaster(o)
  <2>1. CASE ScaleAbort(o)
    BY <1>8, <2>1, ScaleRegisterTypes, TypeUnchanged DEF FindMaster
  <2>2. CASE \E m \in Idx : scaleReg' = [scaleReg EXCEPT ![o].pod = m, ![o].uid = uid[m]]
    <3>1. PICK m \in Idx :
             scaleReg' = [scaleReg EXCEPT ![o] = [scaleReg[o] EXCEPT !.pod = m, !.uid = uid[m]]]
      BY <2>2
    <3>2. scaleReg' \in [Operators -> ScaleRegisters]
      BY <3>1, ScaleRegisterTypes DEF ClusterTypeOK
    <3>3. ClusterTypeOK' /\ scalePc' \in [Operators -> ScaleEnded \cup ScaleCalls]
      BY <1>8, TypeUnchanged DEF FindMaster
    <3> QED
      BY <1>8, <3>2, <3>3 DEF FindMaster
  <2> QED
    BY <1>8, <2>1, <2>2 DEF FindMaster
<1>9. CASE ListNames(o)
  <2>1. ReplicaPods \in SUBSET Idx
    BY DEF ReplicaPods, ClusterTypeOK
  <2> QED
    BY <1>9, <2>1, ScaleRegisterTypes DEF ListNames, ClusterTypeOK
<1>10. CASE SetNames(o)
  <2>1. /\ conf' \in [Idx -> SUBSET Idx] /\ disk' \in [Idx -> Disks] /\ cut' \subseteq Idx
        /\ UNCHANGED <<kubeVars, up, live, trigger, data, acked, faults>>
    BY <1>0, <1>10, NamesScript DEF SetNames, ClusterTypeOK
  <2> QED
    BY <1>10, <2>1, ScaleRegisterTypes DEF SetNames, ClusterTypeOK
<1>11. CASE ScaleCallFails(o)
  BY <1>11, ScaleRegisterTypes DEF ScaleCallFails, ClusterTypeOK
<1> QED
  BY <1>1, <1>2, <1>3, <1>4, <1>5, <1>6, <1>7, <1>8, <1>9, <1>10, <1>11
     DEF ScaleCommand, ScaleStep, ScaleStart, SetReplicasStart

-----------------------------------------------------------------------------
(* The range of a run.                                                     *)

\* A call changes nothing in the runs of others.
LEMMA ScaleOthersUntouched ==
  ASSUME ScaleTypeOK, NEW o \in Operators, ScaleCommand(o), NEW p \in Operators, p # o
  PROVE  scalePc'[p] = scalePc[p] /\ scaleReg'[p] = scaleReg[p]
  BY DEF ScaleTypeOK, ScaleCommand, ScaleStep, ScaleStart, SetReplicasStart, ScaleBegin,
     ScaleList, ScaleGetMaster, GetClaim, ScaleCreateClaim, GetSet, ScaleCreateSet,
     FindMaster, ListNames, SetNames, ScaleCallFails, ScaleAbort, ScaleGoto

\* A call keeps the index in hand in the range.
LEMMA RangeStep ==
  ASSUME ScaleTypeOK, \A p \in Operators : InRange(p), NEW o \in Operators, ScaleCommand(o)
  PROVE  \A p \in Operators : InRange(p)'
<1> USE DEF ScaleTypeOK, ScaleGoto, ScaleAbort, Filling, Naming, ScaleEnded, ScaleCalls
<1>0. /\ scaleReg[o] \in ScaleRegisters /\ scaleReg[o].at \in Nat
      /\ scaleReg[o].start \in Nat /\ scaleReg[o].by \in Nat
  BY DEF ScaleRegisters
<1> SUFFICES ASSUME NEW p \in Operators PROVE InRange(p)'
  OBVIOUS
<1>1. CASE p # o
  BY <1>1, ScaleOthersUntouched DEF InRange
<1>2. CASE p = o
  <2> SUFFICES InRange(o)'
    BY <1>2
  <2>1. CASE ScaleAbort(o)
    BY <2>1 DEF InRange
  <2>2. ASSUME NEW l \in ScaleCalls, NEW k \in 0..N, ScaleBegin(o, l, k),
               l = "list" \/ (l = "findMaster" /\ k = 0)
        PROVE  InRange(o)'
    <3>1. scalePc'[o] = l /\ scaleReg'[o] = [NoIndexes EXCEPT !.by = k]
      BY <2>2 DEF ScaleBegin
    <3>2. scaleReg'[o].by = k /\ scaleReg'[o].start = 0 /\ scaleReg'[o].at = 0
      BY <3>1 DEF NoIndexes
    <3> QED
      BY <2>2, <3>1, <3>2 DEF InRange
  <2>3. CASE ScaleGetMaster(o) /\ ~ScaleAbort(o)
    <3>1. PICK h, m \in Idx :
             /\ h + scaleReg[o].by <= N
             /\ scalePc' = [scalePc EXCEPT ![o] =
                             IF scaleReg[o].by = 0 THEN "findMaster" ELSE "getClaim"]
             /\ scaleReg' = [scaleReg EXCEPT ![o].start = h + 1, ![o].at = h + 1]
      BY <2>3 DEF ScaleGetMaster
    <3>2. /\ scaleReg'[o].start = h + 1 /\ scaleReg'[o].at = h + 1
          /\ scaleReg'[o].by = scaleReg[o].by /\ h \in Nat
      BY <1>0, <3>1 DEF ScaleRegisters, Idx
    <3> QED
      BY <1>0, <3>1, <3>2 DEF InRange
  <2>4. CASE (GetSet(o) \/ ScaleCreateSet(o)) /\ ~ScaleAbort(o)
    <3>0. scalePc[o] \in Filling /\ InRange(o)
      BY <2>4 DEF GetSet, ScaleCreateSet
    <3>1. CASE scaleReg' = scaleReg /\ scalePc'[o] = "createSet"
      BY <3>0, <3>1 DEF InRange
    <3>2. CASE scalePc'[o] = AfterIndex(o) /\ scaleReg'[o].at = scaleReg[o].at + 1
               /\ scaleReg'[o].start = scaleReg[o].start /\ scaleReg'[o].by = scaleReg[o].by
      BY <1>0, <3>0, <3>2 DEF InRange, AfterIndex
    <3> QED
      BY <1>0, <2>4, <3>1, <3>2 DEF GetSet, ScaleCreateSet, ScaleRegisters
  <2>5. CASE ScaleList(o) \/ ListNames(o) \/ FindMaster(o) \/ GetClaim(o)
             \/ ScaleCreateClaim(o) \/ SetNames(o)
    <3>0. InRange(o)
      OBVIOUS
    <3>1. CASE scalePc'[o] \in ScaleEnded \cup {"getMaster"}
      BY <3>1 DEF InRange
    <3>2. CASE /\ scaleReg'[o].at = scaleReg[o].at /\ scaleReg'[o].start = scaleReg[o].start
               /\ scaleReg'[o].by = scaleReg[o].by
               /\ scalePc[o] \in Filling <=> scalePc'[o] \in Filling
               /\ scalePc[o] \in Naming <=> scalePc'[o] \in Naming
      BY <3>0, <3>2 DEF InRange
    <3>3. CASE ScaleList(o) \/ SetNames(o)
      BY <3>1, <3>3 DEF ScaleList, SetNames
    <3>4. CASE ListNames(o)
      <4>1. scaleReg' = [scaleReg EXCEPT ![o] = [scaleReg[o] EXCEPT !.names = ReplicaPods]]
        BY <3>4 DEF ListNames
      <4>2. /\ scaleReg'[o].at = scaleReg[o].at /\ scaleReg'[o].start = scaleReg[o].start
            /\ scaleReg'[o].by = scaleReg[o].by
        BY <1>0, <4>1 DEF ScaleRegisters
      <4> QED
        BY <3>2, <3>4, <4>2 DEF ListNames
    <3>5. CASE FindMaster(o)
      <4>1. CASE \E m \in Idx : scaleReg' = [scaleReg EXCEPT ![o].pod = m, ![o].uid = uid[m]]
        <5>1. PICK m \in Idx : scaleReg' = [scaleReg EXCEPT ![o].pod = m, ![o].uid = uid[m]]
          BY <4>1
        <5>2. /\ scaleReg'[o].at = scaleReg[o].at /\ scaleReg'[o].start = scaleReg[o].start
              /\ scaleReg'[o].by = scaleReg[o].by
          BY <1>0, <5>1 DEF ScaleRegisters
        <5>3. scalePc'[o] \in ScaleEnded \cup {"listNames"} /\ scalePc[o] = "findMaster"
          BY <3>5 DEF FindMaster
        <5> QED
          BY <3>1, <3>2, <5>2, <5>3
      <4>2. CASE scalePc'[o] = "failed"
        BY <3>1, <4>2
      <4> QED
        BY <3>5, <4>1, <4>2 DEF FindMaster
    <3>6. CASE GetClaim(o) \/ ScaleCreateClaim(o)
      <4>1. CASE scalePc'[o] = "failed"
        BY <3>1, <4>1
      <4>2. CASE scaleReg' = scaleReg /\ scalePc[o] \in Filling /\ scalePc'[o] \in Filling
        BY <3>2, <4>2
      <4> QED
        BY <3>6, <4>1, <4>2 DEF GetClaim, ScaleCreateClaim
    <3> QED
      BY <2>5, <3>3, <3>4, <3>5, <3>6
  <2> QED
    BY <2>1, <2>2, <2>3, <2>4, <2>5 DEF ScaleCommand, ScaleStep, ScaleStart,
       SetReplicasStart, ScaleCallFails
<1> QED
  BY <1>1, <1>2

-----------------------------------------------------------------------------
(* What a run does to the cluster.                                         *)

\* A run adds members and claims, touches no label, no image and no pod there is, and
\* arms nobody.
LEMMA ScaleKube ==
  ASSUME ScaleTypeOK, NEW o \in Operators, InRange(o), ScaleCommand(o)
  PROVE  /\ UNCHANGED <<rsMaster, rsNew, podMaster, podNew, uid, running, trigger>>
         /\ rs \subseteq rs' /\ pods \subseteq pods'
         /\ pods' \subseteq pods \cup (rs' \ rs)
         /\ Prompt /\ pods = rs => pods' = rs'
         /\ \A k \in Idx : disk'[k] = "primary" => disk[k] = "primary"
         /\ ~ScaleCreateSet(o) => rs' = rs /\ pods' = pods
<1> USE DEF kubeVars, pgVars, clusterVars
<1>1. CASE ScaleCreateClaim(o)
  <2>1. scaleReg[o].at \in Idx
    BY <1>1, AtIsIndex DEF ScaleCreateClaim, Filling
  <2> QED
    BY <1>1, <2>1 DEF ScaleCreateClaim, CreateClaim, ScaleTypeOK, ClusterTypeOK
<1>2. CASE ScaleCreateSet(o)
  BY <1>2 DEF ScaleCreateSet, CreateReplicaSet
<1>3. CASE SetNames(o)
  BY <1>3, NamesScript DEF SetNames, ScaleCreateSet
<1>4. CASE ~ScaleCreateClaim(o) /\ ~ScaleCreateSet(o) /\ ~SetNames(o)
  BY <1>4 DEF ScaleCommand, ScaleStep, ScaleStart, SetReplicasStart, ScaleBegin, ScaleList,
     ScaleGetMaster, GetClaim, GetSet, FindMaster, ListNames, ScaleCallFails
<1> QED
  BY <1>1, <1>2, <1>3, <1>4

\* A run fills the index in hand before it takes the next.
LEMMA FilledStep ==
  ASSUME ScaleTypeOK, \A p \in Operators : InRange(p) /\ FilledSoFar(p),
         NEW o \in Operators, ScaleCommand(o)
  PROVE  \A p \in Operators : FilledSoFar(p)'
<1> USE DEF ScaleTypeOK, ScaleGoto, ScaleAbort, Filling, Naming, ScaleEnded, ScaleCalls
<1>0. /\ scaleReg[o] \in ScaleRegisters /\ scaleReg[o].at \in Nat /\ scaleReg[o].start \in Nat
  BY DEF ScaleRegisters
<1>1. rs \subseteq rs'
  BY ScaleKube
<1> SUFFICES ASSUME NEW p \in Operators PROVE FilledSoFar(p)'
  OBVIOUS
<1>2. CASE p # o
  BY <1>1, <1>2, ScaleOthersUntouched DEF FilledSoFar
<1>3. CASE p = o
  <2> SUFFICES FilledSoFar(o)'
    BY <1>3
  <2>1. CASE scalePc'[o] \notin Filling \cup Naming
    BY <2>1 DEF FilledSoFar
  <2>2. CASE scaleReg'[o].at = scaleReg'[o].start /\ scaleReg'[o].at \in Nat
    BY <2>2 DEF FilledSoFar, Idx
  <2>3. CASE /\ scalePc[o] \in Filling \cup Naming
             /\ scaleReg'[o].at = scaleReg[o].at /\ scaleReg'[o].start = scaleReg[o].start
    BY <1>1, <2>3 DEF FilledSoFar
  <2>4. CASE /\ scalePc[o] \in Filling \cup Naming /\ scaleReg[o].at \in rs'
             /\ scaleReg'[o].at = scaleReg[o].at + 1 /\ scaleReg'[o].start = scaleReg[o].start
    <3> SUFFICES ASSUME NEW i \in Idx, scaleReg[o].start <= i, i < scaleReg[o].at + 1
                 PROVE  i \in rs'
      BY <2>4 DEF FilledSoFar
    <3>1. i < scaleReg[o].at \/ i = scaleReg[o].at
      BY <1>0 DEF Idx
    <3> QED
      BY <1>1, <2>4, <3>1 DEF FilledSoFar
  <2>5. CASE ScaleStart(o) \/ SetReplicasStart(o)
    <3>2. scaleReg'[o].at = 0 /\ scaleReg'[o].start = 0
      BY <2>5 DEF ScaleStart, SetReplicasStart, ScaleBegin, NoIndexes
    <3> QED
      BY <2>2, <3>2
  <2>6. CASE ScaleList(o) \/ SetNames(o) \/ ScaleCallFails(o)
    BY <2>1, <2>6 DEF ScaleList, SetNames, ScaleCallFails
  <2>7. CASE ScaleGetMaster(o)
    <3>1. CASE ScaleAbort(o)
      BY <2>1, <3>1
    <3>2. CASE \E h \in Idx : scaleReg' = [scaleReg EXCEPT ![o].start = h + 1, ![o].at = h + 1]
      <4>1. PICK h \in Idx : scaleReg' = [scaleReg EXCEPT ![o].start = h + 1, ![o].at = h + 1]
        BY <3>2
      <4>2. scaleReg'[o].start = h + 1 /\ scaleReg'[o].at = h + 1 /\ h + 1 \in Nat
        BY <1>0, <4>1 DEF ScaleRegisters, Idx
      <4> QED
        BY <2>2, <4>2
    <3> QED
      BY <2>7, <3>1, <3>2 DEF ScaleGetMaster
  <2>8. CASE FindMaster(o) \/ ListNames(o)
    <3>1. CASE scalePc'[o] = "failed"
      BY <2>1, <3>1
    <3>2. CASE \E m \in Idx : scaleReg' = [scaleReg EXCEPT ![o].pod = m, ![o].uid = uid[m]]
      <4>1. PICK m \in Idx : scaleReg' = [scaleReg EXCEPT ![o].pod = m, ![o].uid = uid[m]]
        BY <3>2
      <4>2. scaleReg'[o].at = scaleReg[o].at /\ scaleReg'[o].start = scaleReg[o].start
        BY <1>0, <4>1 DEF ScaleRegisters
      <4> QED
        BY <2>3, <2>8, <4>2 DEF FindMaster, ListNames
    <3>3. CASE scaleReg' = [scaleReg EXCEPT ![o].names = ReplicaPods]
      <4>1. scaleReg'[o].at = scaleReg[o].at /\ scaleReg'[o].start = scaleReg[o].start
        BY <1>0, <3>3 DEF ScaleRegisters
      <4> QED
        BY <2>3, <2>8, <4>1 DEF FindMaster, ListNames
    <3> QED
      BY <2>8, <3>1, <3>2, <3>3 DEF FindMaster, ListNames
  <2>9. CASE GetClaim(o) \/ ScaleCreateClaim(o)
    BY <2>1, <2>3, <2>9 DEF GetClaim, ScaleCreateClaim
  <2>10. CASE GetSet(o)
    <3>1. CASE scaleReg' = scaleReg
      BY <2>3, <2>10, <3>1 DEF GetSet
    <3>2. CASE scaleReg[o].at \in rs /\ scaleReg' = [scaleReg EXCEPT ![o].at = @ + 1]
      <4>1. scaleReg'[o].at = scaleReg[o].at + 1 /\ scaleReg'[o].start = scaleReg[o].start
        BY <1>0, <3>2 DEF ScaleRegisters
      <4> QED
        BY <1>1, <2>4, <2>10, <3>2, <4>1 DEF GetSet
    <3> QED
      BY <2>10, <3>1, <3>2 DEF GetSet
  <2>11. CASE ScaleCreateSet(o)
    <3>1. CASE ScaleAbort(o)
      BY <2>1, <3>1
    <3>2. CASE ~ScaleAbort(o)
      <4>1. /\ scaleReg' = [scaleReg EXCEPT ![o].at = @ + 1, ![o].made = @ \cup {scaleReg[o].at}]
            /\ scaleReg[o].at \in rs' /\ scalePc[o] \in Filling
        BY <2>11, <3>2 DEF ScaleCreateSet, CreateReplicaSet
      <4>2. scaleReg'[o].at = scaleReg[o].at + 1 /\ scaleReg'[o].start = scaleReg[o].start
        BY <1>0, <4>1 DEF ScaleRegisters
      <4> QED
        BY <2>4, <4>1, <4>2
    <3> QED
      BY <3>1, <3>2
  <2> QED
    BY <2>5, <2>6, <2>7, <2>8, <2>9, <2>10, <2>11 DEF ScaleCommand, ScaleStep
<1> QED
  BY <1>2, <1>3

-----------------------------------------------------------------------------
(* Runs that are alone.                                                    *)

\* While a run that nobody overlapped is on, the others are not.
Alone(o) ==
  scalePc[o] \in ScaleCalls /\ o \notin overlapped =>
    \A p \in Operators \ {o} : scalePc[p] \notin ScaleCalls

\* What such a run knows.
Knows(o) ==
  scalePc[o] \in ScaleCalls /\ o \notin overlapped /\ Prompt => NewSoFar(o) /\ NamesSoFar(o)

\* The two are Undisturbed.
LEMMA UndisturbedParts == \A o \in Operators : Undisturbed(o) <=> Alone(o) /\ Knows(o)
  BY DEF Undisturbed, Alone, Knows

\* A call goes on with a run, or ends it, or begins one and notes the runs it overlaps.
LEMMA AloneStep ==
  ASSUME ScaleTypeOK, \A p \in Operators : Alone(p), NEW q \in Operators, ScaleCommand(q)
  PROVE  \A o \in Operators : Alone(o)'
<1> SUFFICES ASSUME NEW o \in Operators, scalePc'[o] \in ScaleCalls, o \notin overlapped',
                    NEW p \in Operators \ {o}
             PROVE  scalePc'[p] \notin ScaleCalls
  BY DEF Alone
<1>1. CASE ScaleStart(q) \/ SetReplicasStart(q)
  <2> DEFINE others == {r \in Operators \ {q} : scalePc[r] \in ScaleCalls}
  <2>1. PICK l \in ScaleCalls : scalePc' = [scalePc EXCEPT ![q] = l]
    BY <1>1 DEF ScaleStart, SetReplicasStart, ScaleBegin, ScaleGoto, ScaleCalls
  <2>2. overlapped' = IF others = {} THEN overlapped \ {q} ELSE overlapped \cup others \cup {q}
    BY <1>1 DEF ScaleStart, SetReplicasStart, ScaleBegin
  <2>3. CASE others = {}
    <3>1. o = q
      BY <2>1, <2>3 DEF ScaleTypeOK
    <3> QED
      BY <2>1, <2>3, <3>1 DEF ScaleTypeOK
  <2>4. CASE others # {}
    <3>1. o # q /\ o \notin others
      BY <2>2, <2>4
    <3> QED
      BY <2>1, <3>1 DEF ScaleTypeOK
  <2> QED
    BY <2>3, <2>4
<1>2. CASE ~ScaleStart(q) /\ ~SetReplicasStart(q)
  <2>1. scalePc[q] \in ScaleCalls /\ overlapped' = overlapped
    BY <1>2 DEF ScaleCommand, ScaleStep, ScaleList, ScaleGetMaster, GetClaim, ScaleCreateClaim,
       GetSet, ScaleCreateSet, FindMaster, ListNames, SetNames, ScaleCallFails, ScaleSame,
       ScaleCalls
  <2>2. \A r \in Operators \ {q} : scalePc'[r] = scalePc[r]
    BY ScaleOthersUntouched
  <2>3. o = q
    BY <2>1, <2>2 DEF Alone
  <2> QED
    BY <2>1, <2>2, <2>3 DEF Alone
<1> QED
  BY <1>1, <1>2

\* A run whose steps others could see is not alone.
LEMMA OnlyItself ==
  ASSUME ScaleTypeOK, \A p \in Operators : Alone(p), NEW q \in Operators, ScaleCommand(q),
         NEW o \in Operators, scalePc'[o] \in ScaleCalls, o \notin overlapped'
  PROVE  o = q
<1> SUFFICES ASSUME o # q PROVE FALSE
  OBVIOUS
<1>1. scalePc[o] \in ScaleCalls
  BY ScaleOthersUntouched
<1>2. CASE ScaleStart(q) \/ SetReplicasStart(q)
  BY <1>1, <1>2 DEF ScaleStart, SetReplicasStart, ScaleBegin
<1>3. CASE ~ScaleStart(q) /\ ~SetReplicasStart(q)
  <2>1. scalePc[q] \in ScaleCalls /\ overlapped' = overlapped
    BY <1>3 DEF ScaleCommand, ScaleStep, ScaleList, ScaleGetMaster, GetClaim, ScaleCreateClaim,
       GetSet, ScaleCreateSet, FindMaster, ListNames, SetNames, ScaleCallFails, ScaleSame,
       ScaleCalls
  <2> QED
    BY <1>1, <2>1 DEF Alone
<1> QED
  BY <1>2, <1>3

\* What a run that is alone knows it has just read, or still knows.
LEMMA KnowsStep ==
  ASSUME ScaleTypeOK, FirstMaster, \A p \in Operators : InRange(p) /\ Alone(p) /\ Knows(p),
         NEW q \in Operators, ScaleCommand(q)
  PROVE  \A o \in Operators : Knows(o)'
<1> USE DEF ScaleTypeOK, ScaleGoto, ScaleAbort, Filling, Naming, ScaleEnded, ScaleCalls
<1> SUFFICES ASSUME NEW o \in Operators, scalePc'[o] \in ScaleCalls, o \notin overlapped', Prompt
             PROVE  NewSoFar(o)' /\ NamesSoFar(o)'
  BY DEF Knows
<1>0. o = q
  BY OnlyItself
<1>1. /\ scaleReg[o] \in ScaleRegisters /\ scaleReg[o].at \in Nat /\ scaleReg[o].start \in Nat
      /\ scaleReg[o].by \in Nat
  BY DEF ScaleRegisters
<1>2. /\ UNCHANGED <<podMaster, uid>>
      /\ ~ScaleCreateSet(o) => rs' = rs /\ pods' = pods
  BY <1>0, ScaleKube
<1>3. CASE ScaleStart(o) \/ SetReplicasStart(o)
  <2>1. scalePc'[o] \in {"list", "findMaster"}
    BY <1>3 DEF ScaleStart, SetReplicasStart, ScaleBegin
  <2>2. /\ scaleReg'[o].at = 0 /\ scaleReg'[o].start = 0 /\ scaleReg'[o].made = {}
        /\ SetReplicasStart(o) => scaleReg'[o].by = 0
        /\ ~SetReplicasStart(o) => scalePc'[o] = "list"
    BY <1>3 DEF ScaleStart, SetReplicasStart, ScaleBegin, NoIndexes
  <2> QED
    BY <2>1, <2>2 DEF NewSoFar, NamesSoFar, Idx, SetReplicasStart, ScaleBegin
<1>4. ASSUME ~ScaleStart(o), ~SetReplicasStart(o)
      PROVE  /\ scalePc[o] \in ScaleCalls /\ overlapped' = overlapped
             /\ NewSoFar(o) /\ NamesSoFar(o)
  <2>1. scalePc[o] \in ScaleCalls /\ overlapped' = overlapped
    BY <1>0, <1>4 DEF ScaleCommand, ScaleStep, ScaleList, ScaleGetMaster, GetClaim,
       ScaleCreateClaim, GetSet, ScaleCreateSet, FindMaster, ListNames, SetNames,
       ScaleCallFails, ScaleSame
  <2> QED
    BY <2>1 DEF Knows
<1>5. CASE ScaleList(o)
  <2>1. scaleReg' = [scaleReg EXCEPT ![o].seen = ReplicaPods] /\ scalePc'[o] = "getMaster"
    BY <1>5 DEF ScaleList
  <2>2. scaleReg'[o].seen = ReplicaPods /\ scaleReg'[o].made = scaleReg[o].made
    BY <1>1, <2>1 DEF ScaleRegisters
  <2>3. rs \subseteq ReplicaPods \cup {0} /\ rs' = rs
    BY <1>2, <1>5 DEF FirstMaster, ReplicaPods, ScaleList, clusterVars, kubeVars
  <2>4. NewSoFar(o)
    BY <1>4, <1>5 DEF ScaleList, ScaleStart, SetReplicasStart, ScaleBegin
  <2>5. scaleReg[o].made = {}
    BY <2>4, <1>5 DEF NewSoFar, ScaleList
  <2> QED
    BY <2>1, <2>2, <2>3, <2>5 DEF NewSoFar, NamesSoFar
<1>6. CASE ScaleGetMaster(o)
  <2>1. PICK h, m \in Idx :
           /\ podMaster = {m} /\ Highest(h, scaleReg[o].seen \cup {m})
           /\ scalePc'[o] \in {"findMaster", "getClaim"}
           /\ scaleReg' = [scaleReg EXCEPT ![o].start = h + 1, ![o].at = h + 1]
    BY <1>6 DEF ScaleGetMaster, TheMaster
  <2>2. /\ scaleReg'[o].start = h + 1 /\ scaleReg'[o].at = h + 1 /\ h \in Nat
        /\ scaleReg'[o].made = scaleReg[o].made
    BY <1>1, <2>1 DEF ScaleRegisters, Idx
  <2>3. NewSoFar(o)
    BY <1>4, <1>6 DEF ScaleGetMaster, ScaleStart, SetReplicasStart, ScaleBegin
  <2>4. m = 0 /\ rs \subseteq scaleReg[o].seen \cup {0} /\ scaleReg[o].made = {}
    BY <1>6, <2>1, <2>3 DEF FirstMaster, NewSoFar, ScaleGetMaster
  <2>5. rs' = rs
    BY <1>2, <1>6 DEF ScaleGetMaster, clusterVars, kubeVars
  <2>6. \A i \in rs : i \in Idx /\ i < h + 1
    <3>1. rs \subseteq Idx
      BY DEF ClusterTypeOK
    <3>2. \A i \in rs : i \in Idx /\ i <= h
      BY <2>1, <2>4, <3>1 DEF Highest
    <3> QED
      BY <2>2, <3>2 DEF Idx
  <2> QED
    BY <2>1, <2>2, <2>4, <2>5, <2>6 DEF NewSoFar, NamesSoFar, Idx
<1>7. CASE GetClaim(o) \/ ScaleCreateClaim(o)
  <2>1. scaleReg' = scaleReg /\ scalePc[o] \in Filling /\ scalePc'[o] \in Filling
    BY <1>7 DEF GetClaim, ScaleCreateClaim
  <2>2. rs' = rs
    BY <1>2, <1>7 DEF GetClaim, ScaleCreateClaim, ScaleCreateSet
  <2>3. NewSoFar(o)
    BY <1>4, <1>7 DEF GetClaim, ScaleCreateClaim, ScaleStart, SetReplicasStart, ScaleBegin
  <2> QED
    BY <2>1, <2>2, <2>3 DEF NewSoFar, NamesSoFar
<1>8. CASE GetSet(o) \/ ScaleCreateSet(o)
  <2>1. NewSoFar(o) /\ InRange(o) /\ scalePc[o] \in Filling
    BY <1>4, <1>8 DEF GetSet, ScaleCreateSet, ScaleStart, SetReplicasStart, ScaleBegin
  <2>2. scaleReg[o].by > 0 /\ scaleReg[o].at \in Idx
    BY <1>1, <2>1, AtIsIndex DEF InRange
  <2>3. /\ scaleReg[o].at \notin rs
        /\ scaleReg[o].made = {i \in Idx : scaleReg[o].start <= i /\ i < scaleReg[o].at}
        /\ \A i \in rs : i < scaleReg[o].at
    BY <1>1, <2>1, <2>2 DEF NewSoFar, Idx
  <2>4. CASE GetSet(o)
    <3>1. scaleReg' = scaleReg /\ scalePc'[o] = "createSet" /\ rs' = rs
      BY <1>2, <2>3, <2>4 DEF GetSet, clusterVars, kubeVars
    <3> QED
      BY <2>1, <3>1 DEF NewSoFar, NamesSoFar
  <2>5. CASE ScaleCreateSet(o)
    <3>1. /\ rs' = rs \cup {scaleReg[o].at}
          /\ scaleReg' = [scaleReg EXCEPT ![o].at = @ + 1, ![o].made = @ \cup {scaleReg[o].at}]
          /\ scalePc'[o] \in {"findMaster", "getClaim"}
      BY <2>3, <2>5 DEF ScaleCreateSet, CreateReplicaSet, AfterIndex
    <3>2. /\ scaleReg'[o].at = scaleReg[o].at + 1 /\ scaleReg'[o].start = scaleReg[o].start
          /\ scaleReg'[o].by = scaleReg[o].by
          /\ scaleReg'[o].made = scaleReg[o].made \cup {scaleReg[o].at}
      BY <1>1, <3>1 DEF ScaleRegisters
    <3>3. scaleReg[o].start <= scaleReg[o].at
      BY <2>1 DEF InRange
    <3>4. scaleReg'[o].made = {i \in Idx : scaleReg'[o].start <= i /\ i < scaleReg'[o].at}
      <4>1. \A i \in Idx : i < scaleReg[o].at + 1 <=> i < scaleReg[o].at \/ i = scaleReg[o].at
        BY <1>1 DEF Idx
      <4> QED
        BY <1>1, <2>2, <2>3, <3>2, <3>3, <4>1
    <3>5. \A i \in rs' : i < scaleReg'[o].at
      <4>1. rs \subseteq Idx
        BY DEF ClusterTypeOK
      <4> QED
        BY <1>1, <2>3, <3>1, <3>2, <4>1 DEF Idx
    <3> QED
      BY <3>1, <3>4, <3>5 DEF NewSoFar, NamesSoFar
  <2> QED
    BY <1>8, <2>4, <2>5
<1>9. CASE FindMaster(o)
  <2>1. PICK m \in Idx :
           /\ podMaster = {m} /\ scalePc'[o] = "listNames" /\ scalePc[o] = "findMaster"
           /\ scaleReg' = [scaleReg EXCEPT ![o].pod = m, ![o].uid = uid[m]]
    BY <1>9 DEF FindMaster, TheMaster
  <2>2. /\ scaleReg'[o].at = scaleReg[o].at /\ scaleReg'[o].start = scaleReg[o].start
        /\ scaleReg'[o].by = scaleReg[o].by /\ scaleReg'[o].made = scaleReg[o].made
        /\ scaleReg'[o].pod = m /\ scaleReg'[o].uid = uid[m]
    BY <1>1, <2>1 DEF ScaleRegisters
  <2>3. m = 0 /\ rs' = rs /\ uid[0] \in Nat /\ UNCHANGED uid
    BY <1>2, <1>9, <2>1 DEF FirstMaster, FindMaster, clusterVars, kubeVars, ClusterTypeOK
  <2>4. NewSoFar(o)
    BY <1>4, <1>9 DEF FindMaster, ScaleStart, SetReplicasStart, ScaleBegin
  <2>5. NewSoFar(o)'
    BY <2>1, <2>2, <2>3, <2>4 DEF NewSoFar
  <2>6. NamesSoFar(o)'
    BY <1>2, <2>1, <2>2, <2>3 DEF NamesSoFar
  <2> QED
    BY <2>5, <2>6
<1>10. CASE ListNames(o)
  <2>1. /\ scalePc'[o] = "setNames" /\ scalePc[o] = "listNames"
        /\ scaleReg' = [scaleReg EXCEPT ![o].names = ReplicaPods]
    BY <1>10 DEF ListNames
  <2>2. /\ scaleReg'[o].at = scaleReg[o].at /\ scaleReg'[o].start = scaleReg[o].start
        /\ scaleReg'[o].by = scaleReg[o].by /\ scaleReg'[o].made = scaleReg[o].made
        /\ scaleReg'[o].pod = scaleReg[o].pod /\ scaleReg'[o].uid = scaleReg[o].uid
        /\ scaleReg'[o].names = ReplicaPods
    BY <1>1, <2>1 DEF ScaleRegisters
  <2>3. rs' = rs
    BY <1>2, <1>10 DEF ListNames, clusterVars, kubeVars
  <2>4. NewSoFar(o) /\ NamesSoFar(o)
    BY <1>4, <1>10 DEF ListNames, ScaleStart, SetReplicasStart, ScaleBegin
  <2>5. NewSoFar(o)'
    BY <2>1, <2>2, <2>3, <2>4 DEF NewSoFar
  <2>6. NamesSoFar(o)'
    BY <1>2, <2>1, <2>2, <2>3, <2>4 DEF NamesSoFar, ReplicaPods, FirstMaster
  <2> QED
    BY <2>5, <2>6
<1>11. CASE SetNames(o) \/ ScaleCallFails(o)
  BY <1>11 DEF SetNames, ScaleCallFails
<1> QED
  BY <1>0, <1>3, <1>5, <1>6, <1>7, <1>8, <1>9, <1>10, <1>11 DEF ScaleCommand, ScaleStep

-----------------------------------------------------------------------------
(* The rest of the invariant.                                              *)

\* Runs leave the master alone.
LEMMA FirstMasterStep ==
  ASSUME ScaleTypeOK, FirstMaster, NEW o \in Operators, InRange(o), ScaleCommand(o)
  PROVE  FirstMaster'
  BY ScaleKube DEF FirstMaster

\* No run empties its configuration but with a connection that is lost.
LEMMA MasterConfiguredStep ==
  ASSUME ScaleTypeOK, MasterConfigured, NEW o \in Operators, InRange(o), ScaleCommand(o)
  PROVE  MasterConfigured'
<1> USE DEF kubeVars, pgVars, clusterVars, ScaleTypeOK, ClusterTypeOK, Disks
<1>0. 0 \in Idx
  BY DEF Idx
<1>1. CASE ScaleCreateClaim(o)
  <2>1. disk' = disk \/ (disk[scaleReg[o].at] = "none" /\ scaleReg[o].at \in Idx
                          /\ disk' = [disk EXCEPT ![scaleReg[o].at] = "empty"])
    BY <1>1, AtIsIndex DEF ScaleCreateClaim, CreateClaim, Filling
  <2>2. UNCHANGED <<conf, cut>>
    BY <1>1 DEF ScaleCreateClaim, CreateClaim
  <2> QED
    BY <1>0, <2>1, <2>2 DEF MasterConfigured
<1>2. CASE ScaleCreateSet(o)
  BY <1>2 DEF ScaleCreateSet, CreateReplicaSet, MasterConfigured
<1>3. CASE SetNames(o)
  <2>1. disk'[0] = "primary"
    BY <1>0, <1>3, NamesScript DEF MasterConfigured
  <2>2. scaleReg[o].pod \in Idx /\ scaleReg[o].names \in SUBSET Idx
    BY DEF ScaleRegisters
  <2>3. CASE NamesWritten(scaleReg[o].pod, scaleReg[o].names)
    BY <1>0, <2>1, <2>2, <2>3 DEF NamesWritten, MasterConfigured
  <2>4. CASE NamesCutOff(scaleReg[o].pod, scaleReg[o].names)
    BY <1>0, <2>1, <2>2, <2>4 DEF NamesCutOff, FileEmptied, MasterConfigured
  <2>5. CASE NamesRefused(scaleReg[o].pod, scaleReg[o].names)
    BY <1>0, <2>1, <2>2, <2>5 DEF NamesRefused, FileEmptied, HasStarted, HasDatabase,
       MasterConfigured
  <2>6. CASE UNCHANGED <<conf, disk, cut>>
    BY <2>6 DEF MasterConfigured
  <2> QED
    BY <1>3, <2>3, <2>4, <2>5, <2>6 DEF SetNames
<1>4. CASE ~ScaleCreateClaim(o) /\ ~ScaleCreateSet(o) /\ ~SetNames(o)
  BY <1>4 DEF ScaleCommand, ScaleStep, ScaleStart, SetReplicasStart, ScaleBegin, ScaleList,
     ScaleGetMaster, GetClaim, GetSet, FindMaster, ListNames, ScaleCallFails, MasterConfigured
<1> QED
  BY <1>1, <1>2, <1>3, <1>4

\* Nor does anything without pgctl: only a first start replaces a configuration.
LEMMA ClusterKeepsConfigured ==
  ASSUME ClusterTypeOK, MasterConfigured, ClusterNext
  PROVE  MasterConfigured'
<1> USE DEF kubeVars, pgVars, ClusterTypeOK, MasterConfigured
<1>0. 0 \in Idx
  BY DEF Idx
<1>1. disk'[0] = "primary"
  BY <1>0, ClusterVolumes
<1> PICK i \in Idx : Healing(i) \/ Failing(i) \/ Using(i)
  BY DEF ClusterNext
<1>2. CASE SetUpBegins(i)
  BY <1>0, <1>1, <1>2 DEF SetUpBegins
<1>3. CASE SetUpEnds(i)
  BY <1>0, <1>1, <1>3 DEF SetUpEnds
<1>4. CASE ~SetUpBegins(i) /\ ~SetUpEnds(i)
  <2>1. UNCHANGED <<conf, cut>>
    BY <1>4 DEF Healing, Failing, Using, RSController, KubeletStart, StartPostgres, Promote,
       PodLost, DeletePod, ContainerDies, RemoveReplicaSet, ContainersEnd, Stream, ClientWrite,
       Acknowledge
  <2> QED
    BY <1>1, <2>1
<1> QED
  BY <1>2, <1>3, <1>4

\* What happens without pgctl only takes the ReplicaSet of the first master away, and
\* with it the incarnation that a run may have found.
LEMMA ScaleEnvironmentStep ==
  ASSUME ScaleIInv, ScaleEnvironment
  PROVE  ScaleIInv'
<1> USE DEF ScaleIInv, scaleVars
<1>0. /\ ClusterTypeOK /\ ClusterNext /\ UNCHANGED <<scalePc, scaleReg, scales, overlapped>>
  BY DEF ScaleEnvironment, ScaleTypeOK
<1>1. ScaleTypeOK'
  BY <1>0, TypeCluster DEF ScaleTypeOK
<1>2. /\ rs' \subseteq rs /\ rsMaster' = rsMaster \cap rs'
      /\ \A i \in rs \ rs' : i \in rsMaster /\ uid'[i] = uid[i] + 1
      /\ PodsFollow
  BY <1>0, ClusterTemplates, ClusterFollows
<1>3. FirstMaster'
  <2>1. podMaster' \subseteq {0}
    BY <1>1, <1>2 DEF FirstMaster, PodsFollow, SamePod, FromTemplate, ScaleTypeOK, ClusterTypeOK
  <2> QED
    BY <1>2, <2>1 DEF FirstMaster, PodsFollow
<1>4. 0 \in Idx /\ uid[0] \in Nat /\ (uid'[0] = uid[0] \/ uid'[0] = uid[0] + 1)
  BY <1>0, <1>2 DEF Idx, ClusterTypeOK, PodsFollow
<1>5. \A i \in rs \ rs' : i = 0
  BY <1>2 DEF FirstMaster
<1> SUFFICES ASSUME NEW o \in Operators
             PROVE  InRange(o)' /\ FilledSoFar(o)' /\ Undisturbed(o)'
  BY <1>0, <1>1, <1>3, ClusterKeepsConfigured
<1>6. /\ scaleReg[o].start \in Nat /\ scaleReg[o].by \in Nat /\ scaleReg[o].at \in Nat
      /\ scaleReg[o].uid \in Nat
  BY DEF ScaleTypeOK, ScaleRegisters
<1>7. InRange(o)'
  BY <1>0 DEF InRange
<1>8. FilledSoFar(o)'
  <2> SUFFICES ASSUME NEW i \in Idx, scalePc[o] \in Filling \cup Naming,
                      scaleReg[o].start <= i, i < scaleReg[o].at
               PROVE  i \in rs'
    BY <1>0 DEF FilledSoFar
  <2>1. i \in rs /\ InRange(o)
    BY DEF FilledSoFar
  <2>2. scaleReg[o].by > 0 /\ scaleReg[o].start > 0
    BY <1>6, <2>1 DEF InRange, Idx
  <2> QED
    BY <1>5, <1>6, <2>1, <2>2
<1>9. Undisturbed(o)'
  <2> SUFFICES ASSUME scalePc[o] \in ScaleCalls, o \notin overlapped, Prompt
               PROVE  NewSoFar(o)' /\ NamesSoFar(o)'
    BY <1>0 DEF Undisturbed
  <2>1. NewSoFar(o) /\ NamesSoFar(o)
    BY DEF Undisturbed
  <2>2. NewSoFar(o)'
    BY <1>0, <1>2, <2>1 DEF NewSoFar
  <2>3. ASSUME scalePc[o] \in {"listNames", "setNames"}
        PROVE  /\ scaleReg[o].pod = 0 /\ scaleReg[o].uid <= uid'[0]
               /\ scaleReg[o].uid = uid'[0] =>
                    podMaster' = {0} /\ (scalePc[o] = "setNames" => scaleReg[o].names = rs' \ {0})
    <3>1. /\ scaleReg[o].pod = 0 /\ scaleReg[o].uid <= uid[0]
          /\ scaleReg[o].uid = uid[0] =>
               podMaster = {0} /\ (scalePc[o] = "setNames" => scaleReg[o].names = rs \ {0})
      BY <2>1, <2>3 DEF NamesSoFar
    <3>2. ASSUME scaleReg[o].uid = uid'[0]
          PROVE  podMaster' = {0} /\ (scalePc[o] = "setNames" => scaleReg[o].names = rs' \ {0})
      <4>1. uid'[0] = uid[0]
        BY <1>4, <1>6, <3>1, <3>2
      <4>2. rs' = rs
        <5>1. uid'[0] # uid[0] + 1
          BY <1>4, <4>1
        <5>2. \A i \in rs : i \in rs'
          BY <1>2, <1>5, <5>1
        <5> QED
          BY <1>2, <5>2
      <4>3. 0 \in podMaster /\ 0 \in pods
        BY <1>0, <3>1, <3>2, <4>1 DEF ClusterTypeOK
      <4>4. podMaster' = {0}
        BY <1>2, <1>3, <4>1, <4>3 DEF PodsFollow, SamePod, FirstMaster
      <4> QED
        BY <3>1, <3>2, <4>1, <4>2, <4>4
    <3> QED
      BY <1>4, <1>6, <3>1, <3>2
  <2> QED
    BY <1>0, <2>2, <2>3 DEF NamesSoFar
<1> QED
  BY <1>7, <1>8, <1>9

\* The initial state satisfies the invariant.
LEMMA ScaleInitIInv == ScaleInit => ScaleIInv
<1> SUFFICES ASSUME ScaleInit PROVE ScaleIInv
  OBVIOUS
<1>1. ScaleTypeOK
  BY ScaleTypeInit DEF ScaleInit
<1>2. FirstMaster /\ MasterConfigured
  <2>1. 0 \in Idx /\ 0 \in Founders /\ 1 \in 1..Start
    BY DEF Idx, Founders
  <2> QED
    BY <2>1 DEF ScaleInit, ClusterInit, FirstMaster, MasterConfigured
<1>3. \A o \in Operators : scalePc[o] = "idle"
  BY DEF ScaleInit, ScaleOnlyInit
<1> QED
  BY <1>1, <1>2, <1>3 DEF ScaleIInv, InRange, FilledSoFar, Undisturbed, Filling, Naming, ScaleCalls

\* ScaleIInv is inductive.
LEMMA ScaleStepIInv == ScaleIInv /\ [ScaleNext]_<<clusterVars, scaleVars>> => ScaleIInv'
<1> SUFFICES ASSUME ScaleIInv, [ScaleNext]_<<clusterVars, scaleVars>> PROVE ScaleIInv'
  OBVIOUS
<1>1. CASE \E o \in Operators : ScaleCommand(o)
  <2> PICK q \in Operators : ScaleCommand(q)
    BY <1>1
  <2>1. /\ ScaleTypeOK /\ FirstMaster /\ MasterConfigured
        /\ \A o \in Operators : InRange(o) /\ FilledSoFar(o) /\ Alone(o) /\ Knows(o)
    BY UndisturbedParts DEF ScaleIInv
  <2>2. ScaleTypeOK' /\ FirstMaster' /\ MasterConfigured'
    BY <2>1, ScaleTypeCommand, FirstMasterStep, MasterConfiguredStep
  <2>3. \A o \in Operators : InRange(o)' /\ FilledSoFar(o)' /\ Alone(o)' /\ Knows(o)'
    BY <2>1, RangeStep, FilledStep, AloneStep, KnowsStep
  <2>4. \A o \in Operators : Undisturbed(o)'
    BY <2>3 DEF Undisturbed, Alone, Knows
  <2> QED
    BY <2>2, <2>3, <2>4 DEF ScaleIInv
<1>2. CASE ScaleEnvironment
  BY <1>2, ScaleEnvironmentStep
<1>3. CASE UNCHANGED <<clusterVars, scaleVars>>
  BY <1>3 DEF clusterVars, kubeVars, pgVars, scaleVars, ScaleIInv, ScaleTypeOK, ClusterTypeOK,
     FirstMaster, MasterConfigured, InRange, FilledSoFar, Undisturbed, NewSoFar, NamesSoFar
<1> QED
  BY <1>1, <1>2, <1>3 DEF ScaleNext

-----------------------------------------------------------------------------
(* The theorems.                                                           *)

\* The invariant of scale and setreplicas, for every number of runs, of whatever
\* --replicas, that may overlap.
THEOREM ScaleInvariance == ScaleSpec => []ScaleIInv
<1> QED
  BY ScaleInitIInv, ScaleStepIInv, PTL DEF ScaleSpec

\* A success is the last call, which changes neither members nor the run's knowledge.
LEMMA SuccessStep ==
  ASSUME ScaleIInv, ScaleNext, NEW o \in Operators, Succeeds(o)
  PROVE  /\ SetNames(o) /\ Reaches(scaleReg[o].pod, scaleReg[o].uid)
         /\ \/ NamesWritten(scaleReg[o].pod, scaleReg[o].names)
            \/ NamesCutOff(scaleReg[o].pod, scaleReg[o].names)
<1>1. ~ScaleEnvironment
  BY DEF Succeeds, ScaleEnvironment, scaleVars
<1>2. PICK q \in Operators : ScaleCommand(q)
  BY <1>1 DEF ScaleNext
<1>3. ScaleCommand(o)
  BY <1>2, ScaleOthersUntouched DEF ScaleIInv, Succeeds
<1>4. SetNames(o)
  BY <1>3 DEF Succeeds, ScaleIInv, ScaleTypeOK, ScaleCommand, ScaleStep, ScaleStart,
     SetReplicasStart, ScaleBegin, ScaleList, ScaleGetMaster, GetClaim, ScaleCreateClaim, GetSet,
     ScaleCreateSet, FindMaster, ListNames, SetNames, ScaleCallFails, ScaleAbort, ScaleGoto,
     ScaleEnded
<1>5. scalePc'[o] # "failed"
  BY DEF Succeeds
<1> QED
  BY <1>4, <1>5 DEF SetNames, ScaleAbort, ScaleGoto, ScaleIInv, ScaleTypeOK

\* Every scale that reports success has its whole range of indexes filled, whatever else
\* went on.
THEOREM FillsItsRange == ScaleSpec => RangeIsFilled
<1>1. ASSUME ScaleIInv, ScaleNext, NEW o \in Operators, Succeeds(o)
      PROVE  Wanted(o) \subseteq rs
  <2>1. /\ scaleReg[o].start \in Nat /\ scaleReg[o].by \in Nat /\ scaleReg[o].at \in Nat
    BY <1>1 DEF ScaleIInv, ScaleTypeOK, ScaleRegisters
  <2>2. /\ scaleReg[o].start + scaleReg[o].by <= N + 1
        /\ scaleReg[o].at = scaleReg[o].start + scaleReg[o].by
        /\ \A i \in Idx : scaleReg[o].start <= i /\ i < scaleReg[o].at => i \in rs
    BY <1>1 DEF ScaleIInv, InRange, FilledSoFar, Naming, Succeeds
  <2> SUFFICES ASSUME NEW i \in Wanted(o) PROVE i \in rs
    OBVIOUS
  <2>3. i \in Idx /\ scaleReg[o].start <= i /\ i < scaleReg[o].at
    BY <2>1, <2>2 DEF Wanted, Idx
  <2> QED
    BY <2>2, <2>3
<1>2. ScaleIInv /\ [ScaleNext]_<<clusterVars, scaleVars>> =>
        [\A o \in Operators : Succeeds(o) => Wanted(o) \subseteq rs]_<<clusterVars, scaleVars>>
  BY <1>1
<1> QED
  BY <1>2, ScaleInvariance, PTL DEF ScaleSpec, RangeIsFilled

\* With a prompt controller a run that was alone has added exactly the members it was
\* asked for.
THEOREM AddsWhatIsAsked == ASSUME Prompt PROVE ScaleSpec => AddsCapacity
<1>1. ASSUME ScaleIInv, ScaleNext, NEW o \in Operators, Succeeds(o), o \notin overlapped
      PROVE  scaleReg[o].made = Wanted(o)
  <2>1. /\ scaleReg[o].start \in Nat /\ scaleReg[o].by \in Nat /\ scaleReg[o].at \in Nat
    BY <1>1 DEF ScaleIInv, ScaleTypeOK, ScaleRegisters
  <2>2. /\ scaleReg[o].start + scaleReg[o].by <= N + 1
        /\ scaleReg[o].at = scaleReg[o].start + scaleReg[o].by
    BY <1>1 DEF ScaleIInv, InRange, Naming, Succeeds
  <2>3. scaleReg[o].made = {i \in Idx : scaleReg[o].start <= i /\ i < scaleReg[o].at}
    BY <1>1 DEF ScaleIInv, Undisturbed, NewSoFar, Naming, Succeeds, ScaleCalls
  <2>4. \A i : i \in Wanted(o) <=> i \in Idx /\ scaleReg[o].start <= i /\ i < scaleReg[o].at
    BY <2>1, <2>2 DEF Wanted, Idx
  <2> QED
    BY <2>3, <2>4
<1>2. ScaleIInv /\ [ScaleNext]_<<clusterVars, scaleVars>> =>
        [\A o \in Operators : Succeeds(o) /\ o \notin overlapped =>
             scaleReg[o].made = Wanted(o)]_<<clusterVars, scaleVars>>
  BY <1>1
<1> QED
  BY <1>2, ScaleInvariance, PTL DEF ScaleSpec, AddsCapacity

\* With a prompt controller a run that was alone, and whose last call came through, leaves
\* all standbys named, where no earlier call had emptied the file.
THEOREM NamesAllStandbys == ASSUME Prompt PROVE ScaleSpec => NamesAreComplete
<1>1. ASSUME ScaleIInv, ScaleNext, NEW o \in Operators, Succeeds(o), o \notin overlapped,
             NEW m, m = scaleReg[o].pod
      PROVE  m \in cut' \/ conf'[m] = rs \ {m}
  <2>1. /\ Reaches(m, scaleReg[o].uid)
        /\ NamesWritten(m, scaleReg[o].names) \/ NamesCutOff(m, scaleReg[o].names)
    BY <1>1, SuccessStep
  <2>2. NamesSoFar(o) /\ scalePc[o] = "setNames"
    BY <1>1 DEF ScaleIInv, Undisturbed, Succeeds, ScaleCalls
  <2>3. m = 0 /\ scaleReg[o].names = rs \ {0}
    BY <1>1, <2>1, <2>2 DEF NamesSoFar, Reaches
  <2>4. conf \in [Idx -> SUBSET Idx] /\ 0 \in Idx /\ (conf[0] = {} => 0 \in cut)
    BY <1>1 DEF ScaleIInv, ScaleTypeOK, ClusterTypeOK, Idx, MasterConfigured
  <2>5. CASE NamesCutOff(m, scaleReg[o].names)
    BY <2>5 DEF NamesCutOff
  <2>6. CASE NamesWritten(m, scaleReg[o].names)
    BY <2>3, <2>4, <2>6 DEF NamesWritten
  <2> QED
    BY <2>1, <2>5, <2>6
<1>2. ScaleIInv /\ [ScaleNext]_<<clusterVars, scaleVars>> =>
        [\A o \in Operators : Succeeds(o) /\ o \notin overlapped =>
             LET m == scaleReg[o].pod IN
             m \in cut' \/ conf'[m] = rs \ {m}]_<<clusterVars, scaleVars>>
  BY <1>1
<1> QED
  BY <1>2, ScaleInvariance, PTL DEF ScaleSpec, NamesAreComplete
=============================================================================
