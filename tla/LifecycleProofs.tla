-------------------------- MODULE LifecycleProofs --------------------------
(***************************************************************************)
(* Theorems about Lifecycle, for every number of replicas and every set of *)
(* operators, commands and transactions.  They follow from IInv: what a    *)
(* command has passed in its plan is done as long as nobody undoes it.     *)
(***************************************************************************)
EXTENDS Lifecycle, SequenceTheorems, TLAPS

USE LifecycleAssumption

\* A function on the first n numbers is a sequence of length n.
LEMMA FunctionIsSequence ==
  ASSUME NEW S, NEW n \in Nat, NEW f \in [1 .. n -> S]
  PROVE  f \in Seq(S) /\ Len(f) = n
  OBVIOUS

\* The plan is a sequence of at least the class and the two services.
LEMMA PlanLength == Len(Plan) \in Nat /\ Len(Plan) >= 1
<1> DEFINE first == << <<"class", 0>>, <<"write", 0>>, <<"read", 0>> >>
           middle == [k \in 1 .. 2 * N |->
                        IF k % 2 = 1 THEN Claim((k + 1) \div 2) ELSE RS(k \div 2)]
           last == << Claim(0), MasterRS >>
           all == {first[1], first[2], first[3]} \cup {middle[k] : k \in 1 .. 2 * N}
                    \cup {last[1], last[2]}
<1>1. first \in Seq(all) /\ Len(first) = 3
  OBVIOUS
<1>2. middle \in Seq(all) /\ Len(middle) = 2 * N
  <2>1. 2 * N \in Nat /\ \A k \in 1 .. 2 * N : middle[k] \in all
    OBVIOUS
  <2>2. middle \in [1 .. 2 * N -> all]
    BY <2>1, Zenon
  <2> HIDE DEF middle, all
  <2> QED
    BY <2>1, <2>2, FunctionIsSequence
<1>3. last \in Seq(all) /\ Len(last) = 2
  OBVIOUS
<1>4. Plan = first \o middle \o last
  BY DEF Plan
<1> HIDE DEF first, middle, last, all
<1> DEFINE both == first \o middle
<1>5. both \in Seq(all) /\ Len(both) = Len(first) + Len(middle)
  BY <1>1, <1>2, ConcatProperties
<1>6. Plan = both \o last
  BY <1>4
<1> HIDE DEF both
<1>7. Len(Plan) = Len(both) + Len(last)
  BY <1>3, <1>5, <1>6, ConcatProperties
<1> QED
  BY <1>1, <1>2, <1>3, <1>5, <1>7

\* Kinds of objects are told apart by their names.
LEMMA Kinds ==
  /\ \A i, j \in Idx : RS(i) # Claim(j) /\ (RS(i) = RS(j) => i = j)
  /\ \A i \in Idx : RS(i) \notin Services /\ Claim(i) \notin Services
  /\ 0 \in Idx /\ MasterRS = RS(0)
  BY DEF RS, Claim, Services, Idx, MasterRS

\* The registers with which a command starts.
LEMMA FreshRegisters ==
  Fresh \in Registers /\ \A b \in BOOLEAN : [Fresh EXCEPT !.purge = b] \in Registers
<1>1. 1 \in 1 .. Len(Plan) /\ {} \in SUBSET Services
  BY PlanLength
<1>2. Fresh \in Registers
  BY <1>1, Zenon DEF Fresh, Registers
<1>3. \A r \in Registers, b \in BOOLEAN : [r EXCEPT !.purge = b] \in Registers
  BY DEF Registers
<1> QED
  BY <1>2, <1>3

\* The initial state satisfies the invariant.
LEMMA InitIInv == Init => IInv
<1>1. Init => TypeOK /\ PlanDone /\ DeletedSoFar
  BY FreshRegisters DEF Init, TypeOK, PlanDone, DeletedSoFar, Ended, Creating, Deleting
<1>2. Init => CommitsKept
  BY DEF Init, CommitsKept, Idx
<1> QED
  BY <1>1, <1>2 DEF IInv

\* Going on with the next object keeps the registers well typed.
LEMMA AdvancedRegisters ==
  ASSUME TypeOK, NEW o \in Operators
  PROVE  Advanced(o) \in Registers
  BY PlanLength DEF TypeOK, Advanced, Registers

\* What is to come is an object of the plan.
LEMMA WantedIsObject ==
  ASSUME TypeOK, NEW o \in Operators
  PROVE  Wanted(o) \in Objects
  BY DEF TypeOK, Wanted, Objects, Registers

\* A create that has the next object goes on to a state in which its plan is done
\* so far, and the other creates lose nothing.
LEMMA AdvanceKeepsPlan ==
  ASSUME TypeOK, PlanDone, NEW o \in Operators,
         pc[o] \in {"get", "create"}, Advance(o), reg' \in [Operators -> Registers],
         reg'[o] = Advanced(o), \A p \in Operators \ {o} :
           reg'[p].undone = reg[p].undone /\ reg'[p].at = reg[p].at,
         objects \subseteq objects', Wanted(o) \in objects'
  PROVE  PlanDone'
<1> SUFFICES ASSUME NEW p \in Operators, pc'[p] \in Creating, ~reg'[p].undone,
                    NEW k \in 1 .. Len(Plan),
                    k < reg'[p].at \/ pc'[p] \in {"wait", "test"}
             PROVE  Plan[k] \in objects'
  BY DEF PlanDone
<1>1. CASE p # o
  BY <1>1 DEF PlanDone, Advance, Goto, TypeOK
<1>2. CASE p = o
  <2>1. reg[o] \in Registers /\ reg[o].at \in 1 .. Len(Plan) /\ pc[o] \in Creating
    BY DEF TypeOK, Registers, Creating
  <2>2. reg'[o].undone = reg[o].undone
    BY <2>1 DEF Advanced, Registers
  <2>3. k <= reg[o].at
    <3>1. CASE reg[o].at < Len(Plan)
      <4>1. pc'[o] = "get" /\ reg'[o].at = reg[o].at + 1
        BY <2>1, <3>1 DEF Advance, Advanced, Goto, TypeOK, Registers
      <4> QED
        BY <1>2, <2>1, <4>1, PlanLength
    <3>2. CASE ~(reg[o].at < Len(Plan))
      BY <2>1, <3>2, PlanLength
    <3> QED
      BY <3>1, <3>2
  <2>4. CASE k < reg[o].at
    BY <1>2, <2>1, <2>2, <2>4 DEF PlanDone
  <2>5. CASE k = reg[o].at
    BY <2>5 DEF Wanted
  <2> QED
    BY <2>1, <2>3, <2>4, <2>5, PlanLength
<1> QED
  BY <1>1, <1>2

\* Telling the other commands what was done keeps the registers well typed.
LEMMA ToldRegisters ==
  ASSUME TypeOK, NEW o \in Operators, NEW r \in Registers, Undo(o, r) \/ Redo(o, r)
  PROVE  reg' \in [Operators -> Registers]
<1>1. \A p \in Operators : /\ [reg[p] EXCEPT !.undone = TRUE] \in Registers
                           /\ [reg[p] EXCEPT !.redone = TRUE] \in Registers
  BY DEF TypeOK, Registers
<1> QED
  BY <1>1 DEF Undo, Redo

\* A step of create keeps the types.
LEMMA CreateKeepsType ==
  ASSUME TypeOK, NEW o \in Operators,
         StartCreate(o) \/ GetObject(o) \/ CreateObject(o) \/ WaitForPods(o) \/ TestMaster(o)
  PROVE  TypeOK'
<1> USE DEF Goto, Ended, Creating, Deleting
<1>1. CASE StartCreate(o)
  BY <1>1, FreshRegisters DEF TypeOK, StartCreate, Begin, kubeVars, dataVars
<1>2. CASE GetObject(o)
  BY <1>2, AdvancedRegisters DEF TypeOK, GetObject, Advance, kubeVars, dataVars
<1>3. CASE CreateObject(o)
  <2>1. CASE Wanted(o) \in objects
    BY <1>3, <2>1 DEF TypeOK, CreateObject, dataVars
  <2>2. CASE Wanted(o) \notin objects
    <3>1. reg' \in [Operators -> Registers]
      BY <1>3, <2>2, AdvancedRegisters, ToldRegisters DEF CreateObject
    <3>2. pc' \in [Operators -> Ended \cup Creating \cup Deleting]
      BY <1>3, <2>2 DEF TypeOK, CreateObject, Advance
    <3>3. objects' \subseteq Objects /\ objects \subseteq objects'
      BY <1>3, <2>2, WantedIsObject DEF TypeOK, CreateObject
    <3>4. rsMaster' \subseteq {i \in Idx : RS(i) \in objects'}
      BY <1>3, <2>2, <3>3, Kinds DEF TypeOK, CreateObject
    <3> QED
      BY <1>3, <2>2, <3>1, <3>2, <3>3, <3>4 DEF TypeOK, CreateObject, dataVars
  <2> QED
    BY <2>1, <2>2
<1>4. CASE WaitForPods(o)
  BY <1>4 DEF TypeOK, WaitForPods, kubeVars, dataVars
<1>5. CASE TestMaster(o)
  BY <1>5 DEF TypeOK, TestMaster, kubeVars, dataVars
<1> QED
  BY <1>1, <1>2, <1>3, <1>4, <1>5

\* A step of delete keeps the types.
LEMMA DeleteKeepsType ==
  ASSUME TypeOK, NEW o \in Operators,
         \/ \E purge \in Purges : StartDelete(o, purge)
         \/ ListServices(o) \/ DeleteService(o) \/ DeleteReplicaSets(o) \/ DeletePods(o)
         \/ DeleteClaims(o) \/ CallFails(o)
  PROVE  TypeOK'
<1> USE DEF Goto, NextService, Ended, Creating, Deleting
<1>0. reg[o] \in Registers
  BY DEF TypeOK
<1>1. CASE \E purge \in Purges : StartDelete(o, purge)
  BY <1>1, FreshRegisters DEF TypeOK, StartDelete, Begin, kubeVars, dataVars
<1>2. CASE ListServices(o)
  <2>1. [reg[o] EXCEPT !.listed = objects \cap Services] \in Registers
    BY <1>0 DEF Registers
  <2>2. reg' \in [Operators -> Registers]
    BY <1>2, <2>1 DEF TypeOK, ListServices
  <2> QED
    BY <1>2, <2>2 DEF TypeOK, ListServices, kubeVars, dataVars
<1>3. CASE DeleteService(o)
  <2>1. PICK s \in reg[o].listed :
          IF s \in objects
          THEN /\ objects' = objects \ {s}
               /\ NextService(o, reg[o].listed \ {s})
               /\ Undo(o, [reg[o] EXCEPT !.listed = @ \ {s}])
          ELSE Goto(o, "failed") /\ UNCHANGED <<objects, reg>>
    BY <1>3 DEF DeleteService
  <2>2. CASE s \in objects
    <3>1. s \in Services /\ [reg[o] EXCEPT !.listed = @ \ {s}] \in Registers
      BY <1>0 DEF Registers
    <3>2. reg' \in [Operators -> Registers]
      BY <2>1, <2>2, <3>1, ToldRegisters
    <3>3. rsMaster \subseteq {i \in Idx : RS(i) \in objects'}
      BY <2>1, <2>2, <3>1, Kinds DEF TypeOK
    <3> QED
      BY <1>3, <2>1, <2>2, <3>2, <3>3 DEF TypeOK, DeleteService, dataVars
  <2>3. CASE s \notin objects
    BY <1>3, <2>1, <2>3 DEF TypeOK, DeleteService, dataVars
  <2> QED
    BY <2>2, <2>3
<1>4. CASE DeleteReplicaSets(o)
  <2>1. reg' \in [Operators -> Registers]
    BY <1>0, <1>4, ToldRegisters DEF DeleteReplicaSets
  <2> QED
    BY <1>4, <2>1 DEF TypeOK, DeleteReplicaSets, dataVars
<1>5. CASE DeletePods(o)
  <2>1. reg' \in [Operators -> Registers]
    BY <1>0, <1>5, ToldRegisters DEF DeletePods
  <2> QED
    BY <1>5, <2>1 DEF TypeOK, DeletePods, dataVars
<1>6. CASE DeleteClaims(o)
  <2>1. reg' \in [Operators -> Registers]
    BY <1>0, <1>6, ToldRegisters DEF DeleteClaims
  <2>2. rsMaster \subseteq {i \in Idx : RS(i) \in objects'}
    BY <1>6, Kinds DEF TypeOK, DeleteClaims
  <2> QED
    BY <1>6, <2>1, <2>2 DEF TypeOK, DeleteClaims
<1>7. CASE CallFails(o)
  BY <1>7 DEF TypeOK, CallFails, kubeVars, dataVars
<1> QED
  BY <1>1, <1>2, <1>3, <1>4, <1>5, <1>6, <1>7

\* What Kubernetes, Postgres and failover do keeps the types.
LEMMA EnvironmentKeepsType ==
  ASSUME TypeOK, Environment \/ \E i \in Idx : FailOver(i)
  PROVE  TypeOK'
<1> USE DEF TypeOK
<1>1. ASSUME NEW i \in Idx, RSController(i), UNCHANGED <<pc, reg, runs>> PROVE TypeOK'
  BY <1>1 DEF RSController, dataVars
<1>2. ASSUME NEW i \in Idx, KubeletStart(i), UNCHANGED <<pc, reg, runs>> PROVE TypeOK'
  BY <1>2 DEF KubeletStart, dataVars
<1>3. ASSUME NEW i \in Idx, SetUp(i), UNCHANGED <<pc, reg, runs>> PROVE TypeOK'
  <2>1. volume' \in [Idx -> {"empty", "primary", "standby"}] /\ log' \in [Idx -> SUBSET Writes]
    BY <1>3 DEF SetUp, Selected
  <2> QED
    BY <1>3, <2>1 DEF SetUp, kubeVars
<1>4. ASSUME NEW m \in Idx, NEW w \in Writes, ClientCommit(m, w), UNCHANGED <<pc, reg, runs>>
      PROVE  TypeOK'
  <2>1. log' \in [Idx -> SUBSET Writes] /\ acked' \subseteq Writes
    BY <1>4 DEF ClientCommit
  <2> QED
    BY <1>4, <2>1 DEF ClientCommit, kubeVars
<1>5. ASSUME NEW i \in Idx, FailOver(i) PROVE TypeOK'
  <2>1. reg' \in [Operators -> Registers]
    <3>1. \A o \in Operators : [reg[o] EXCEPT !.undone = TRUE] \in Registers
      BY DEF Registers
    <3> QED
      BY <1>5, <3>1 DEF FailOver
  <2>2. PICK m \in rsMaster :
          /\ m # i /\ podMaster = {m}
          /\ objects' = objects \ {RS(m)}
          /\ rsMaster' = {i} /\ podMaster' = {i}
          /\ pods' = pods \ {m} /\ running' = running \ {m}
          /\ volume' \in {volume} \cup
               {[volume EXCEPT ![i] = "primary"] : k \in pods \ {m, i}}
    BY <1>5 DEF FailOver
  <2>3. RS(i) \in objects' /\ m \in Idx /\ i \in pods'
    BY <1>5, <2>2, Kinds DEF FailOver
  <2>4. volume' \in [Idx -> {"empty", "primary", "standby"}]
    <3>1. volume' = volume \/ volume' = [volume EXCEPT ![i] = "primary"]
      BY <2>2
    <3> QED
      BY <3>1
  <2> QED
    BY <1>5, <2>1, <2>2, <2>3, <2>4 DEF FailOver
<1> QED
  BY <1>1, <1>2, <1>3, <1>4, <1>5 DEF Environment

\* A step of create keeps done what it and the other creates have done.
LEMMA CreateKeepsPlan ==
  ASSUME TypeOK, PlanDone, NEW o \in Operators, TypeOK',
         StartCreate(o) \/ GetObject(o) \/ CreateObject(o) \/ WaitForPods(o) \/ TestMaster(o)
  PROVE  PlanDone'
<1> USE DEF Goto, Creating
<1>1. CASE StartCreate(o)
  BY <1>1, PlanLength DEF TypeOK, PlanDone, StartCreate, Begin, Fresh, kubeVars, Ended
<1>2. CASE GetObject(o)
  <2>1. CASE Wanted(o) \in objects
    BY <1>2, <2>1, AdvanceKeepsPlan DEF TypeOK, GetObject, kubeVars
  <2>2. CASE Wanted(o) \notin objects
    BY <1>2, <2>2 DEF TypeOK, PlanDone, GetObject, kubeVars
  <2> QED
    BY <2>1, <2>2
<1>3. CASE CreateObject(o)
  <2>1. CASE Wanted(o) \in objects
    BY <1>3, <2>1 DEF TypeOK, PlanDone, CreateObject
  <2>2. CASE Wanted(o) \notin objects
    <3>1. /\ pc[o] \in {"get", "create"} /\ Advance(o)
          /\ objects \subseteq objects' /\ Wanted(o) \in objects'
          /\ Redo(o, Advanced(o))
      BY <1>3, <2>2 DEF CreateObject
    <3>2. reg'[o] = Advanced(o) /\ \A p \in Operators \ {o} :
            reg'[p].undone = reg[p].undone /\ reg'[p].at = reg[p].at
      BY <3>1 DEF Redo, TypeOK, Registers
    <3>3. reg' \in [Operators -> Registers]
      BY DEF TypeOK
    <3> QED
      BY <3>1, <3>2, <3>3, AdvanceKeepsPlan
  <2> QED
    BY <2>1, <2>2
<1>4. CASE WaitForPods(o)
  BY <1>4 DEF TypeOK, PlanDone, WaitForPods, kubeVars
<1>5. CASE TestMaster(o)
  BY <1>5 DEF TypeOK, PlanDone, TestMaster, kubeVars
<1> QED
  BY <1>1, <1>2, <1>3, <1>4, <1>5

\* What a delete removes every create is told of.
LEMMA DeleteKeepsPlan ==
  ASSUME TypeOK, PlanDone, NEW o \in Operators,
         \/ \E purge \in Purges : StartDelete(o, purge)
         \/ ListServices(o) \/ DeleteService(o) \/ DeleteReplicaSets(o) \/ DeletePods(o)
         \/ DeleteClaims(o) \/ CallFails(o)
  PROVE  PlanDone'
<1> USE DEF Goto, NextService, Creating, Deleting
<1>1. pc'[o] \notin Creating /\ \A p \in Operators \ {o} : pc'[p] = pc[p]
  BY DEF TypeOK, StartDelete, ListServices, DeleteService, DeleteReplicaSets, DeletePods,
         DeleteClaims, CallFails
<1>2. CASE /\ objects' = objects
           /\ \A p \in Operators \ {o} : reg'[p] = reg[p]
  BY <1>1, <1>2 DEF PlanDone
<1>3. CASE \A p \in Operators \ {o} : reg'[p].undone
  BY <1>1, <1>3 DEF PlanDone
<1>4. \/ /\ objects' = objects
         /\ \A p \in Operators \ {o} : reg'[p] = reg[p]
      \/ \A p \in Operators \ {o} : reg'[p].undone
  <2>1. ASSUME NEW r, Undo(o, r) PROVE \A p \in Operators \ {o} : reg'[p].undone
    BY <2>1 DEF Undo, TypeOK, Registers
  <2>2. CASE \E purge \in Purges : StartDelete(o, purge)
    BY <2>2 DEF TypeOK, StartDelete, kubeVars
  <2>3. CASE ListServices(o)
    BY <2>3 DEF TypeOK, ListServices, kubeVars
  <2>4. CASE DeleteService(o)
    BY <2>1, <2>4 DEF TypeOK, DeleteService
  <2>5. CASE DeleteReplicaSets(o) \/ DeletePods(o) \/ DeleteClaims(o)
    BY <2>1, <2>5 DEF DeleteReplicaSets, DeletePods, DeleteClaims
  <2>6. CASE CallFails(o)
    BY <2>6 DEF CallFails, kubeVars
  <2> QED
    BY <2>2, <2>3, <2>4, <2>5, <2>6
<1> QED
  BY <1>2, <1>3, <1>4

\* Nothing but a failover removes an object without a command.
LEMMA EnvironmentKeepsPlan ==
  ASSUME TypeOK, PlanDone, Environment \/ \E i \in Idx : FailOver(i)
  PROVE  PlanDone'
<1>1. CASE Environment
  <2>1. objects' = objects /\ pc' = pc /\ reg' = reg
    BY <1>1 DEF Environment, RSController, KubeletStart, SetUp, ClientCommit, kubeVars
  <2> QED
    BY <2>1 DEF PlanDone
<1>2. CASE \E i \in Idx : FailOver(i)
  BY <1>2 DEF FailOver, PlanDone, TypeOK, Registers
<1> QED
  BY <1>1, <1>2

\* What a create adds every delete is told of.
LEMMA CreateKeepsDeleted ==
  ASSUME TypeOK, DeletedSoFar, NEW o \in Operators,
         StartCreate(o) \/ GetObject(o) \/ CreateObject(o) \/ WaitForPods(o) \/ TestMaster(o)
  PROVE  DeletedSoFar'
<1>1. /\ pc'[o] \notin Deleting /\ pods' = pods
      /\ \A p \in Operators \ {o} : pc'[p] = pc[p]
  BY DEF TypeOK, StartCreate, GetObject, CreateObject, WaitForPods, TestMaster, Goto, Advance,
         kubeVars, Deleting
<1>2. CASE objects' = objects /\ \A p \in Operators \ {o} : reg'[p] = reg[p]
  BY <1>1, <1>2 DEF DeletedSoFar, Deleting
<1>3. CASE \A p \in Operators \ {o} : reg'[p].redone
  BY <1>1, <1>3 DEF DeletedSoFar, Deleting
<1>4. \/ objects' = objects /\ \A p \in Operators \ {o} : reg'[p] = reg[p]
      \/ \A p \in Operators \ {o} : reg'[p].redone
  <2>1. CASE StartCreate(o) \/ GetObject(o)
    BY <2>1 DEF TypeOK, StartCreate, GetObject, kubeVars
  <2>2. CASE CreateObject(o)
    <3>1. ASSUME NEW r, Redo(o, r) PROVE \A p \in Operators \ {o} : reg'[p].redone
      BY <3>1 DEF Redo, TypeOK, Registers
    <3> QED
      BY <2>2, <3>1 DEF CreateObject
  <2>3. CASE WaitForPods(o) \/ TestMaster(o)
    BY <2>3 DEF WaitForPods, TestMaster, kubeVars
  <2> QED
    BY <2>1, <2>2, <2>3
<1> QED
  BY <1>2, <1>3, <1>4

\* A delete only ever adds to what the other deletes have removed.
LEMMA DeleteKeepsOthersDeleted ==
  ASSUME TypeOK, DeletedSoFar, NEW o \in Operators,
         \/ \E purge \in Purges : StartDelete(o, purge)
         \/ ListServices(o) \/ DeleteService(o) \/ DeleteReplicaSets(o) \/ DeletePods(o)
         \/ DeleteClaims(o) \/ CallFails(o)
  PROVE  /\ objects' \subseteq objects /\ pods' \subseteq pods
         /\ \A p \in Operators \ {o} :
              /\ pc'[p] = pc[p]
              /\ reg'[p].redone = reg[p].redone /\ reg'[p].listed = reg[p].listed
<1>1. ASSUME NEW r, Undo(o, r), NEW p \in Operators \ {o}
      PROVE  reg'[p].redone = reg[p].redone /\ reg'[p].listed = reg[p].listed
  BY <1>1 DEF Undo, TypeOK, Registers
<1> USE DEF Goto, NextService
<1>2. CASE \E purge \in Purges : StartDelete(o, purge)
  BY <1>2 DEF TypeOK, StartDelete, kubeVars
<1>3. CASE ListServices(o)
  BY <1>3 DEF TypeOK, ListServices, kubeVars
<1>4. CASE DeleteService(o)
  BY <1>1, <1>4 DEF TypeOK, DeleteService
<1>5. CASE DeleteReplicaSets(o)
  BY <1>1, <1>5 DEF TypeOK, DeleteReplicaSets
<1>6. CASE DeletePods(o)
  BY <1>1, <1>6 DEF TypeOK, DeletePods
<1>7. CASE DeleteClaims(o)
  BY <1>1, <1>7 DEF TypeOK, DeleteClaims
<1>8. CASE CallFails(o)
  BY <1>8 DEF TypeOK, CallFails, kubeVars
<1> QED
  BY <1>2, <1>3, <1>4, <1>5, <1>6, <1>7, <1>8

\* A step of delete removes what it is about to have passed.
LEMMA DeleteKeepsDeleted ==
  ASSUME TypeOK, DeletedSoFar, NEW o \in Operators,
         \/ \E purge \in Purges : StartDelete(o, purge)
         \/ ListServices(o) \/ DeleteService(o) \/ DeleteReplicaSets(o) \/ DeletePods(o)
         \/ DeleteClaims(o) \/ CallFails(o)
  PROVE  DeletedSoFar'
<1> DEFINE Passed ==
      /\ pc[o] = "deleteService" => Services \cap objects \subseteq reg[o].listed
      /\ pc[o] \in {"deleteSets", "deletePods", "deleteClaims"} => Services \cap objects = {}
      /\ pc[o] \in {"deletePods", "deleteClaims"} => \A i \in Idx : RS(i) \notin objects
      /\ pc[o] = "deleteClaims" => pods = {}
<1>1. ASSUME NEW p \in Operators \ {o}, ~reg'[p].redone
      PROVE  /\ pc'[p] = "deleteService" => Services \cap objects' \subseteq reg'[p].listed
             /\ pc'[p] \in {"deleteSets", "deletePods", "deleteClaims"} =>
                  Services \cap objects' = {}
             /\ pc'[p] \in {"deletePods", "deleteClaims"} => \A i \in Idx : RS(i) \notin objects'
             /\ pc'[p] = "deleteClaims" => pods' = {}
  <2>1. ~reg[p].redone
    BY <1>1, DeleteKeepsOthersDeleted
  <2> QED
    BY <1>1, <2>1, DeleteKeepsOthersDeleted DEF DeletedSoFar
<1>2. ~reg'[o].redone => Passed'
  <2> USE DEF Goto, NextService
  <2>0. pc \in [Operators -> Ended \cup Creating \cup Deleting] /\ reg[o] \in Registers
        /\ reg \in [Operators -> Registers]
    BY DEF TypeOK
  <2>1. CASE \E purge \in Purges : StartDelete(o, purge)
    BY <2>0, <2>1 DEF StartDelete
  <2>2. CASE ListServices(o)
    BY <2>0, <2>2 DEF ListServices, kubeVars, Registers
  <2>3. CASE DeleteService(o)
    <3>1. PICK s \in reg[o].listed :
            IF s \in objects
            THEN /\ objects' = objects \ {s}
                 /\ NextService(o, reg[o].listed \ {s})
                 /\ Undo(o, [reg[o] EXCEPT !.listed = @ \ {s}])
            ELSE Goto(o, "failed") /\ UNCHANGED <<objects, reg>>
      BY <2>3 DEF DeleteService
    <3>2. CASE s \in objects
      <4>1. reg'[o] = [reg[o] EXCEPT !.listed = @ \ {s}]
        BY <3>1, <3>2 DEF Undo
      <4>2. reg'[o].listed = reg[o].listed \ {s} /\ reg'[o].redone = reg[o].redone
        BY <2>0, <4>1 DEF Registers
      <4>3. ~reg[o].redone => Services \cap objects \subseteq reg[o].listed
        BY <2>3 DEF DeletedSoFar, DeleteService
      <4>4. pc'[o] = IF reg[o].listed \ {s} = {} THEN "deleteSets" ELSE "deleteService"
        BY <2>0, <3>1, <3>2
      <4> QED
        BY <3>1, <3>2, <4>2, <4>3, <4>4
    <3>3. CASE s \notin objects
      BY <2>0, <3>1, <3>3
    <3> QED
      BY <3>2, <3>3
  <2>4. CASE DeleteReplicaSets(o)
    BY <2>0, <2>4 DEF DeleteReplicaSets, DeletedSoFar, Undo
  <2>5. CASE DeletePods(o)
    BY <2>0, <2>5 DEF DeletePods, DeletedSoFar, Undo
  <2>6. CASE DeleteClaims(o)
    BY <2>0, <2>6 DEF DeleteClaims
  <2>7. CASE CallFails(o)
    BY <2>0, <2>7 DEF CallFails
  <2> QED
    BY <2>1, <2>2, <2>3, <2>4, <2>5, <2>6, <2>7
<1> QED
  BY <1>1, <1>2 DEF DeletedSoFar

\* Without ReplicaSets no pod comes back.
LEMMA EnvironmentKeepsDeleted ==
  ASSUME TypeOK, DeletedSoFar, Environment \/ \E i \in Idx : FailOver(i)
  PROVE  DeletedSoFar'
<1>1. CASE \E i \in Idx : FailOver(i)
  <2>1. objects' \subseteq objects /\ pods' \subseteq pods /\ pc' = pc
    BY <1>1 DEF FailOver
  <2>2. \A p \in Operators : reg'[p].redone = reg[p].redone /\ reg'[p].listed = reg[p].listed
    BY <1>1 DEF FailOver, TypeOK, Registers
  <2> QED
    BY <2>1, <2>2 DEF DeletedSoFar
<1>2. CASE Environment
  <2>1. objects' = objects /\ pc' = pc /\ reg' = reg
    BY <1>2 DEF Environment, RSController, KubeletStart, SetUp, ClientCommit, kubeVars
  <2>2. pods' = pods \/ \E i \in Idx : RS(i) \in objects
    BY <1>2 DEF Environment, RSController, KubeletStart, SetUp, ClientCommit, kubeVars
  <2> QED
    BY <2>1, <2>2 DEF DeletedSoFar
<1> QED
  BY <1>1, <1>2

\* Registers of the others keep whether they purge.
LEMMA PurgeStays ==
  ASSUME TypeOK, NEW o \in Operators, Command(o), NEW p \in Operators, p # o
  PROVE  pc'[p] = pc[p] /\ reg'[p].purge = reg[p].purge
<1> USE DEF TypeOK, Goto, Advance, NextService
<1>1. ASSUME NEW r, Undo(o, r) \/ Redo(o, r) PROVE reg'[p].purge = reg[p].purge
  BY <1>1 DEF Undo, Redo, Registers
<1>2. CASE StartCreate(o) \/ GetObject(o) \/ WaitForPods(o) \/ TestMaster(o)
  BY <1>2 DEF StartCreate, GetObject, WaitForPods, TestMaster
<1>3. CASE CreateObject(o)
  BY <1>1, <1>3 DEF CreateObject
<1>4. CASE ListServices(o) \/ CallFails(o) \/ \E purge \in Purges : StartDelete(o, purge)
  BY <1>4 DEF ListServices, CallFails, StartDelete
<1>5. CASE DeleteService(o)
  BY <1>1, <1>5 DEF DeleteService
<1>6. CASE DeleteReplicaSets(o) \/ DeletePods(o) \/ DeleteClaims(o)
  BY <1>1, <1>6 DEF DeleteReplicaSets, DeletePods, DeleteClaims
<1> QED
  BY <1>2, <1>3, <1>4, <1>5, <1>6 DEF Command

\* A command that gets to the claims purges.
LEMMA PurgeStep ==
  ASSUME TypeOK, CommitsKept, Next
  PROVE  \A o \in Operators : pc'[o] = "deleteClaims" => reg'[o].purge
<1> SUFFICES ASSUME NEW p \in Operators, pc'[p] = "deleteClaims"
             PROVE  reg'[p].purge
  OBVIOUS
<1>0. pc[p] = "deleteClaims" => reg[p].purge
  BY DEF CommitsKept
<1>1. CASE Environment \/ \E i \in Idx : FailOver(i)
  BY <1>0, <1>1 DEF Environment, FailOver, TypeOK, Registers
<1>2. CASE \E o \in Operators : Command(o)
  <2> PICK o \in Operators : Command(o)
    BY <1>2
  <2>1. CASE p # o
    BY <1>0, <2>1, PurgeStays
  <2>2. CASE p = o
    <3>1. DeletePods(o)
      BY <2>2 DEF Command, StartCreate, GetObject, CreateObject, WaitForPods, TestMaster,
         StartDelete, ListServices, DeleteService, DeleteReplicaSets, DeleteClaims, CallFails,
         Begin, Goto, Advance, NextService, TypeOK
    <3> QED
      BY <2>2, <3>1 DEF DeletePods, Goto, Undo, TypeOK
  <2> QED
    BY <2>1, <2>2
<1> QED
  BY <1>1, <1>2 DEF Next

\* A commit reaches member 0, which is the only primary.
LEMMA CommitsOnFirst ==
  ASSUME TypeOK, CommitsKept, ~Failovers \/ N <= 1,
         NEW m \in Idx, NEW w \in Writes, ClientCommit(m, w)
  PROVE  acked' = acked \cup {w} /\ log'[0] = log[0] \cup {w}
<1>1. PICK j \in Idx \ {m} :
        log' = [log EXCEPT ![m] = @ \cup {w}, ![j] = log[m] \cup {w}]
  BY DEF ClientCommit
<1>2. volume[m] = "primary" /\ acked' = acked \cup {w}
  BY DEF ClientCommit, Commits
<1>3. m = 0 /\ 0 \in Idx
  BY <1>2 DEF CommitsKept
<1> QED
  BY <1>1, <1>2, <1>3 DEF TypeOK

\* What Kubernetes, Postgres and clients do keeps the commits.
LEMMA EnvironmentKeepsCommits ==
  ASSUME TypeOK, CommitsKept, Environment
  PROVE  CommitsKept'
<1> USE DEF TypeOK, kubeVars, dataVars
<1>0. 0 \in Idx /\ UNCHANGED <<pc, reg>>
  BY DEF Idx, Environment
<1>1. CASE \E i \in Idx : RSController(i) \/ KubeletStart(i)
  BY <1>0, <1>1 DEF RSController, KubeletStart, CommitsKept
<1>2. ASSUME NEW i \in Idx, SetUp(i) PROVE CommitsKept'
  <2>1. acked' = acked /\ volume[i] = "empty"
    BY <1>2 DEF SetUp
  <2>2. CASE i = 0
    <3>1. volume' = [volume EXCEPT ![0] = "primary"] /\ UNCHANGED log
      BY <1>2, <2>2 DEF SetUp
    <3> QED
      BY <1>0, <2>1, <3>1 DEF CommitsKept
  <2>3. CASE i # 0
    <3>1. PICK m \in Idx : /\ volume' = [volume EXCEPT ![i] = "standby"]
                           /\ log' = [log EXCEPT ![i] = log[m]]
      BY <1>2, <2>3 DEF SetUp, Selected
    <3>2. volume'[i] = "standby" /\ \A k \in Idx \ {i} : volume'[k] = volume[k] /\ log'[k] = log[k]
      BY <3>1
    <3> QED
      BY <1>0, <2>1, <2>3, <3>2 DEF CommitsKept
  <2> QED
    BY <2>2, <2>3
<1>3. ASSUME NEW m \in Idx, NEW w \in Writes, ClientCommit(m, w) PROVE CommitsKept'
  <2>1. volume' = volume
    BY <1>3 DEF ClientCommit
  <2>2. ~Failovers \/ N <= 1 => acked' = acked \cup {w} /\ log'[0] = log[0] \cup {w}
    BY <1>3, CommitsOnFirst
  <2> QED
    BY <1>0, <2>1, <2>2 DEF CommitsKept
<1> QED
  BY <1>1, <1>2, <1>3 DEF Environment

\* Member 0 is never the standby that is promoted, and with one replica nobody is.
LEMMA FailOverKeepsCommits ==
  ASSUME TypeOK, CommitsKept, NEW i \in Idx, FailOver(i)
  PROVE  CommitsKept'
<1> USE DEF TypeOK
<1>1. PICK m \in rsMaster :
        /\ m # i
        /\ volume' \in {volume} \cup {[volume EXCEPT ![i] = "primary"] : k \in pods \ {m, i}}
  BY DEF FailOver
<1>2. /\ Failovers /\ volume[i] = "standby" /\ UNCHANGED <<log, acked, pc>>
      /\ \A o \in Operators : reg'[o].purge = reg[o].purge
  BY DEF FailOver, Registers
<1>3. i # 0 /\ 0 \in Idx /\ m \in Idx /\ pods \subseteq Idx
  BY <1>2 DEF CommitsKept, Idx
<1>4. volume' = volume \/ (volume' = [volume EXCEPT ![i] = "primary"] /\ pods \ {m, i} # {})
  BY <1>1
<1>5. N <= 1 => volume' = volume
  BY <1>1, <1>3, <1>4 DEF Idx
<1>6. volume'[0] # "standby"
  BY <1>3, <1>4 DEF CommitsKept
<1> QED
  BY <1>2, <1>5, <1>6 DEF CommitsKept

\* Of the commands only a purge touches volumes, logs and what clients were told.
LEMMA CommandKeepsCommits ==
  ASSUME TypeOK, CommitsKept, NEW o \in Operators, Command(o), Next
  PROVE  CommitsKept'
<1> USE DEF TypeOK, kubeVars, dataVars
<1>0. 0 \in Idx /\ \A p \in Operators : pc'[p] = "deleteClaims" => reg'[p].purge
  BY PurgeStep DEF Idx
<1>1. CASE DeleteClaims(o)
  <2>1. reg[o].purge
    BY <1>1 DEF DeleteClaims, CommitsKept
  <2>2. /\ acked' = {}
        /\ \A k \in Idx : volume'[k] = "empty"
    BY <1>1, <2>1 DEF DeleteClaims
  <2> QED
    BY <1>0, <2>2 DEF CommitsKept
<1>2. CASE ~DeleteClaims(o)
  <2>1. UNCHANGED <<volume, log, acked>>
    BY <1>2 DEF Command, StartCreate, GetObject, CreateObject, WaitForPods, TestMaster,
       StartDelete, ListServices, DeleteService, DeleteReplicaSets, DeletePods, CallFails
  <2> QED
    BY <1>0, <2>1 DEF CommitsKept
<1> QED
  BY <1>1, <1>2

\* Every step keeps the invariant.
LEMMA NextKeepsIInv ==
  ASSUME IInv, [Next]_vars
  PROVE  IInv'
<1> USE DEF IInv
<1>1. CASE UNCHANGED vars
  BY <1>1 DEF vars, kubeVars, dataVars, TypeOK, PlanDone, DeletedSoFar, CommitsKept
<1>2. ASSUME NEW o \in Operators,
             StartCreate(o) \/ GetObject(o) \/ CreateObject(o) \/ WaitForPods(o) \/ TestMaster(o)
      PROVE  IInv'
  <2>1. TypeOK' /\ Command(o)
    BY <1>2, CreateKeepsType DEF Command
  <2>2. CommitsKept'
    BY <2>1, CommandKeepsCommits DEF Next
  <2> QED
    BY <1>2, <2>1, <2>2, CreateKeepsPlan, CreateKeepsDeleted
<1>3. ASSUME NEW o \in Operators,
             \/ \E purge \in Purges : StartDelete(o, purge)
             \/ ListServices(o) \/ DeleteService(o) \/ DeleteReplicaSets(o) \/ DeletePods(o)
             \/ DeleteClaims(o) \/ CallFails(o)
      PROVE  IInv'
  <2>1. CommitsKept'
    BY <1>3, CommandKeepsCommits DEF Next, Command
  <2> QED
    BY <1>3, <2>1, DeleteKeepsType, DeleteKeepsPlan, DeleteKeepsDeleted
<1>4. CASE Environment \/ \E i \in Idx : FailOver(i)
  BY <1>4, EnvironmentKeepsType, EnvironmentKeepsPlan, EnvironmentKeepsDeleted,
     EnvironmentKeepsCommits, FailOverKeepsCommits
<1> QED
  BY <1>1, <1>2, <1>3, <1>4 DEF Next, Command

-----------------------------------------------------------------------------
\* The inductive invariant (create.go:117-226, delete.go:92-204): what a command has
\* passed in its plan is done unless somebody undid it, and the volumes of primaries
\* have what was acknowledged.
THEOREM Invariance == Spec => []IInv
<1> QED
  BY InitIInv, NextKeepsIInv, PTL DEF Spec

\* Type correctness; the label is only in templates of ReplicaSets that exist.
THEOREM TypeCorrect == Spec => []TypeOK
<1>1. IInv => TypeOK
  BY DEF IInv
<1> QED
  BY <1>1, Invariance, PTL

\* Create is idempotent (create.go:70): one that reports success, and meanwhile nobody
\* has removed anything, leaves every object in place, whatever was there before and
\* whatever other creates do.
THEOREM CreateCompletes == Spec => CreateIsComplete
<1>1. ASSUME IInv, [Next]_vars
      PROVE  [\A o \in Operators :
                pc[o] = "test" /\ pc'[o] = "ok" /\ ~reg[o].undone => objects = Objects]_vars
  <2> SUFFICES ASSUME NEW o \in Operators, pc[o] = "test", ~reg[o].undone
               PROVE  objects = Objects
    OBVIOUS
  <2>1. \A k \in 1 .. Len(Plan) : Plan[k] \in objects
    BY <1>1 DEF IInv, PlanDone, Creating
  <2> QED
    BY <1>1, <2>1 DEF IInv, TypeOK, Objects
<1> QED
  BY <1>1, Invariance, PTL DEF Spec, CreateIsComplete

\* Delete leaves nothing that comes back (delete.go:92-126): one that reports success,
\* and meanwhile nobody has created anything, leaves no services, ReplicaSets or pods,
\* and no claims if they were to go.
THEOREM DeleteCompletes == Spec => DeleteIsComplete
<1> DEFINE Gone(o) ==
      pc[o] \in {"deletePods", "deleteClaims"} /\ pc'[o] = "ok" /\ ~reg[o].redone =>
        /\ pods' = {}
        /\ \A i \in Idx : RS(i) \notin objects' /\ (reg[o].purge => Claim(i) \notin objects')
        /\ Services \cap objects' = {}
<1>1. ASSUME IInv, [Next]_vars PROVE [\A o \in Operators : Gone(o)]_vars
  <2> SUFFICES ASSUME Next, NEW o \in Operators,
                      pc[o] \in {"deletePods", "deleteClaims"}, pc'[o] = "ok", ~reg[o].redone
               PROVE  Gone(o)
    BY <1>1 DEF vars
  <2>1. pc \in [Operators -> Ended \cup Creating \cup Deleting]
    BY <1>1 DEF IInv, TypeOK
  <2>2. DeletePods(o) \/ DeleteClaims(o)
    <3> USE DEF Goto, Advance, NextService, Ended
    <3>1. PICK p \in Operators : Command(p)
      BY DEF Next, Environment, FailOver
    <3>2. CASE StartCreate(p) \/ \E purge \in Purges : StartDelete(p, purge)
      BY <2>1, <3>2 DEF StartCreate, StartDelete, Begin
    <3>3. CASE GetObject(p) \/ CreateObject(p)
      BY <2>1, <3>3 DEF GetObject, CreateObject
    <3>4. CASE WaitForPods(p) \/ TestMaster(p)
      BY <2>1, <3>4 DEF WaitForPods, TestMaster
    <3>5. CASE ListServices(p)
      BY <2>1, <3>5 DEF ListServices
    <3>6. CASE DeleteService(p)
      BY <2>1, <3>6 DEF DeleteService
    <3>7. CASE DeleteReplicaSets(p) \/ CallFails(p)
      BY <2>1, <3>7 DEF DeleteReplicaSets, CallFails
    <3>8. CASE DeletePods(p)
      BY <2>1, <3>8 DEF DeletePods
    <3>9. CASE DeleteClaims(p)
      BY <2>1, <3>9 DEF DeleteClaims
    <3> QED
      BY <3>1, <3>2, <3>3, <3>4, <3>5, <3>6, <3>7, <3>8, <3>9 DEF Command
  <2>3. /\ Services \cap objects = {} /\ \A i \in Idx : RS(i) \notin objects
        /\ pc[o] = "deleteClaims" => pods = {}
    BY <1>1 DEF IInv, DeletedSoFar
  <2>4. CASE DeletePods(o)
    BY <2>1, <2>3, <2>4 DEF DeletePods, Goto
  <2>5. CASE DeleteClaims(o)
    BY <2>1, <2>3, <2>5 DEF DeleteClaims, Goto
  <2> QED
    BY <2>2, <2>4, <2>5
<1> QED
  BY <1>1, Invariance, PTL DEF Spec, DeleteIsComplete

\* Acknowledged commits survive creates and deletes (create.go:70, "existing cluster data
\* and configuration will be used") whatever operators do at the same time: without
\* failovers, or with one replica, which a failover labels and does not promote.
THEOREM CommitsSurvive == ASSUME ~Failovers \/ N <= 1 PROVE Spec => []AckedIsKept
<1>1. IInv => AckedIsKept
  BY DEF IInv, TypeOK, CommitsKept, AckedIsKept, Selected
<1> QED
  BY <1>1, Invariance, PTL
=============================================================================
