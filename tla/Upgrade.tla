------------------------------ MODULE Upgrade ------------------------------
(***************************************************************************)
(* pgctl upgrade (cli/cmd/upgrade.go) over a cluster: for one ReplicaSet   *)
(* after the other, put the new image into its template, delete its pod,   *)
(* wait, and test the master.  Each action is one call, and several        *)
(* operators may be at it.  All upgrades are to the same image.            *)
(*                                                                         *)
(* The Update of a ReplicaSet carries the whole object as it was listed    *)
(* before the first member was touched: one whose template has changed     *)
(* since is a conflict.                                                    *)
(***************************************************************************)
EXTENDS Cluster

CONSTANT MaxRolls   \* bound on the runs of the command

ASSUME RollAssumption == MaxRolls \in Nat

VARIABLES
  rollPc,    \* rollPc[o]: the next call of the run of o
  rollReg,   \* rollReg[o]: what it has read
  rolls,     \* runs so far
  disturbed, \* disturbed[o]: a wait of the run of o was given up, a member was down before
             \* it, or it was not the only run
  overlooked \* overlooked[o]: members whose pod was there and not found by the run of o,
             \* because it had not the label that its template was listed with

rollVars == <<rollPc, rollReg, rolls, disturbed, overlooked>>

\* A run is over, or it hangs: the call into the master's pod does not return when its
\* set-up fails.
RollOver == {"idle", "ok", "failed"}
RollEnded == RollOver \cup {"hung"}
RollCalls == {"update", "find", "kill", "wait", "testFind", "testExec"}

\* sets: the ReplicaSets that were listed; labelled, new: those whose template was so;
\* todo: those not yet rolled, the one in hand included; pod, uid: the pod in hand.
RollRegisters ==
  [sets : SUBSET Idx, labelled : SUBSET Idx, new : SUBSET Idx, todo : SUBSET Idx,
   pod : Idx, uid : Nat]

RollTypeOK ==
  /\ ClusterTypeOK
  /\ rollPc \in [Operators -> RollEnded \cup RollCalls]
  /\ rollReg \in [Operators -> RollRegisters]
  /\ rolls \in 0..MaxRolls
  /\ disturbed \in [Operators -> BOOLEAN]
  /\ overlooked \in [Operators -> SUBSET Idx]

NothingListed ==
  [sets |-> {}, labelled |-> {}, new |-> {}, todo |-> {}, pod |-> 0, uid |-> 0]

RollOnlyInit ==
  /\ rollPc = [o \in Operators |-> "idle"]
  /\ rollReg = [o \in Operators |-> NothingListed]
  /\ rolls = 0
  /\ disturbed = [o \in Operators |-> FALSE]
  /\ overlooked = [o \in Operators |-> {}]

RollInit == ClusterInit /\ RollOnlyInit

RollGoto(o, l) == rollPc' = [rollPc EXCEPT ![o] = l]

RollAbort(o) ==
  /\ RollGoto(o, "failed")
  /\ rollReg' = [rollReg EXCEPT ![o] = NothingListed]

\* The member in hand.
Current(o, i) == First(i, rollReg[o].todo)

-----------------------------------------------------------------------------

\* getClusterReplicaSets.
ListSets(o) ==
  /\ rollPc[o] \in RollEnded
  /\ rolls < MaxRolls
  /\ rolls' = rolls + 1
  /\ RollGoto(o, IF rs = {} THEN "ok" ELSE "update")
  /\ rollReg' = [rollReg EXCEPT ![o] =
       [NothingListed EXCEPT !.sets = rs, !.labelled = rsMaster, !.new = rsNew, !.todo = rs]]
  /\ disturbed' = [p \in Operators |-> IF p = o
                     THEN rs # running \/ \E q \in Operators \ {o} : rollPc[q] \in RollCalls
                     ELSE TRUE]
  /\ overlooked' = [overlooked EXCEPT ![o] = {}]
  /\ UNCHANGED clusterVars

\* The template of i is as it was listed.
Unchanged(o, i) ==
  /\ i \in rs
  /\ i \in rsMaster <=> i \in rollReg[o].labelled
  /\ i \in rsNew <=> i \in rollReg[o].new

UpdateSet_overwrites(o) ==
  /\ rollPc[o] = "update"
  /\ \E i \in Idx :
       /\ Current(o, i)
       /\ IF i \in rs
          THEN /\ RollGoto(o, "find") /\ UNCHANGED rollReg
               /\ rsNew' = rsNew \cup {i}
               /\ rsMaster' = (rsMaster \ {i}) \cup ({i} \cap rollReg[o].labelled)
          ELSE RollAbort(o) /\ UNCHANGED <<rsNew, rsMaster>>
  /\ UNCHANGED <<rs, pods, podMaster, podNew, uid, running, pgVars, faults, rolls, disturbed,
                 overlooked>>

UpdateSet(o) ==
  /\ rollPc[o] = "update"
  /\ \E i \in Idx :
       /\ Current(o, i)
       /\ IF Unchanged(o, i)
          THEN RollGoto(o, "find") /\ rsNew' = rsNew \cup {i} /\ UNCHANGED rollReg
          ELSE RollAbort(o) /\ UNCHANGED rsNew
  /\ UNCHANGED <<rs, rsMaster, pods, podMaster, podNew, uid, running, pgVars, faults,
                 rolls, disturbed, overlooked>>

FindPods_replicas(o) ==
  /\ rollPc[o] = "find"
  /\ \E i \in Idx :
       /\ Current(o, i)
       /\ IF i \in pods \ podMaster
          THEN /\ RollGoto(o, "kill")
               /\ rollReg' = [rollReg EXCEPT ![o].pod = i, ![o].uid = uid[i]]
          ELSE RollGoto(o, "wait") /\ UNCHANGED rollReg
  /\ UNCHANGED <<clusterVars, rolls, disturbed, overlooked>>

\* getPodsForReplicaSet selects by the labels of the template: with the master label in
\* it, a pod without the label is not found.
FindPods(o) ==
  /\ rollPc[o] = "find"
  /\ \E i \in Idx :
       /\ Current(o, i)
       /\ IF i \in pods /\ (i \in rollReg[o].labelled => i \in podMaster)
          THEN /\ RollGoto(o, "kill")
               /\ rollReg' = [rollReg EXCEPT ![o].pod = i, ![o].uid = uid[i]]
               /\ UNCHANGED overlooked
          ELSE /\ RollGoto(o, "wait") /\ UNCHANGED rollReg
               /\ overlooked' = [overlooked EXCEPT ![o] =
                    @ \cup (({i} \cap pods \cap rollReg[o].labelled) \ podMaster)]
  /\ UNCHANGED <<clusterVars, rolls, disturbed>>

KillPod(o) ==
  /\ rollPc[o] = "kill"
  /\ LET i == rollReg[o].pod IN
     IF i \in pods /\ uid[i] = rollReg[o].uid
     THEN RollGoto(o, "wait") /\ DeletePod(i) /\ UNCHANGED rollReg
     ELSE RollAbort(o) /\ UNCHANGED <<kubeVars, pgVars>>
  /\ UNCHANGED <<faults, rolls, disturbed, overlooked>>

RollWait_noTimeout(o) ==
  /\ rollPc[o] = "wait"
  /\ Cardinality(running) = Cardinality(rollReg[o].sets)
  /\ RollGoto(o, "testFind")
  /\ UNCHANGED <<clusterVars, rollReg, rolls, disturbed, overlooked>>

RollWait_atLeast(o) ==
  /\ rollPc[o] = "wait"
  /\ RollGoto(o, "testFind")
  /\ disturbed' = [disturbed EXCEPT ![o] = @ \/ Cardinality(running) + 1 < Cardinality(rollReg[o].sets)]
  /\ UNCHANGED <<clusterVars, rollReg, rolls, overlooked>>

\* waitForPodsToStart: until the pods Running are as many as the ReplicaSets that were
\* listed, or the 5 minutes are over.  Its error is dropped.
RollWait(o) ==
  /\ rollPc[o] = "wait"
  /\ RollGoto(o, "testFind")
  /\ disturbed' = [disturbed EXCEPT ![o] = @ \/ Cardinality(running) # Cardinality(rollReg[o].sets)]
  /\ UNCHANGED <<clusterVars, rollReg, rolls, overlooked>>

\* testMaster: getMasterPod, which has to be Running.
RollTestFind(o) ==
  /\ rollPc[o] = "testFind"
  /\ \/ \E m \in running :
          /\ TheMaster(m)
          /\ RollGoto(o, "testExec")
          /\ rollReg' = [rollReg EXCEPT ![o].pod = m, ![o].uid = uid[m]]
     \/ (~ \E m \in running : TheMaster(m)) /\ RollAbort(o)
  /\ UNCHANGED <<clusterVars, rolls, disturbed, overlooked>>

\* testdb.sh; when it passes, the next member is taken in hand.
RollTestExec(o) ==
  /\ rollPc[o] = "testExec"
  /\ \/ /\ TestPasses(rollReg[o].pod, rollReg[o].uid)
        /\ \E i \in Idx :
             /\ Current(o, i)
             /\ IF rollReg[o].todo = {i}
                THEN RollGoto(o, "ok") /\ rollReg' = [rollReg EXCEPT ![o] = NothingListed]
                ELSE RollGoto(o, "update") /\ rollReg' = [rollReg EXCEPT ![o].todo = @ \ {i}]
     \/ TestFails(rollReg[o].pod, rollReg[o].uid) /\ RollAbort(o)
  /\ UNCHANGED <<clusterVars, rolls, disturbed, overlooked>>

\* Any call may fail, before or after it had its effect; the failure of the wait is
\* dropped like its timeout, and the call into a pod may hang.
RollCallFails(o) ==
  /\ \/ rollPc[o] \in RollCalls \ {"wait"} /\ RollAbort(o)
     \/ /\ rollPc[o] = "testExec"
        /\ RollGoto(o, "hung")
        /\ rollReg' = [rollReg EXCEPT ![o] = NothingListed]
  /\ UNCHANGED <<clusterVars, rolls, disturbed, overlooked>>

-----------------------------------------------------------------------------

RollStep(o) ==
  \/ UpdateSet(o) \/ FindPods(o) \/ KillPod(o) \/ RollWait(o)
  \/ RollTestFind(o) \/ RollTestExec(o)

RollCommand(o) == ListSets(o) \/ RollStep(o) \/ RollCallFails(o)

RollEnvironment == ClusterNext /\ UNCHANGED rollVars

RollNext == (\E o \in Operators : RollCommand(o)) \/ RollEnvironment

RollSpec == RollInit /\ [][RollNext]_<<clusterVars, rollVars>>

\* A started upgrade goes on unless it hangs, containers start and standbys stream; nobody
\* has to fail, to run a command or to write.
RollFairness ==
  /\ \A o \in Operators : WF_<<clusterVars, rollVars>>(RollStep(o))
  /\ \A i \in Idx : WF_<<clusterVars, rollVars>>(Healing(i) /\ UNCHANGED rollVars)
  /\ \A m \in Idx :
       WF_<<clusterVars, rollVars>>((\E j \in Idx : Stream(j, m)) /\ UNCHANGED rollVars)

RollFairSpec == RollSpec /\ RollFairness

-----------------------------------------------------------------------------
(* Properties.                                                             *)

\* An upgrade that reports success has brought the new image to the pod of every member
\* it listed, whatever failed, was replaced or was upgraded by somebody else meanwhile.
UpgradeIsComplete ==
  [][\A o \in Operators : rollPc[o] = "testExec" /\ rollPc'[o] = "ok" =>
       rollReg[o].sets \cap pods \subseteq podNew]_<<clusterVars, rollVars>>

\* An upgrade that found every member Running, was alone and has given up no wait,
\* deletes a pod only while all others are Running, if nothing fails.
OneAtATime ==
  [][\A o \in Operators :
       /\ rollPc[o] = "kill" /\ rollPc'[o] = "wait"
       /\ ~disturbed[o] /\ faults = 0
       => rollReg[o].sets \ {rollReg[o].pod} \subseteq running]_<<clusterVars, rollVars>>

\* Every upgrade ends, unless the set-up of a call into a pod fails: the members it takes
\* down come back, the standbys among them follow again, and the commit of the test
\* returns.
UpgradesEnd ==
  \A o \in Operators : rollPc[o] \in RollCalls ~> rollPc[o] \in RollOver \cup {"hung"}

\* "Wait for the pods to come back up before rolling to the next one": with nothing
\* else going on, a member is taken down only while the servers of all others are up.
RollsOneByOne ==
  [][\A o \in Operators :
       rollPc[o] = "kill" /\ rollPc'[o] = "wait" /\ faults = 0 =>
         rollReg[o].sets \ {rollReg[o].pod} \subseteq running]_<<clusterVars, rollVars>>

-----------------------------------------------------------------------------
(* The invariant behind UpgradeIsComplete and OneAtATime.                  *)

\* Without failovers the label of a pod is that of its template.
LabelsAgree == podMaster = pods \cap rsMaster

\* What is left to be done is some of what was listed, and the labels of the templates
\* that are still there are as they were listed.
Rolling(o) ==
  LET r == rollReg[o] IN
  rollPc[o] \in RollCalls =>
    /\ r.todo \subseteq r.sets /\ r.todo # {}
    /\ rsMaster = r.labelled \cap rs

\* Members behind the one in hand have the image in template and pod; the one in hand
\* has it in its template once it was updated, and in its pod unless that is the one
\* that was found and is still there.
Upgraded(o) ==
  LET r == rollReg[o] IN
  /\ rollPc[o] \in RollCalls =>
       (r.sets \ r.todo) \cap rs \subseteq rsNew /\ (r.sets \ r.todo) \cap pods \subseteq podNew
  /\ \A i \in Idx : Current(o, i) =>
       /\ rollPc[o] \in {"find", "kill", "wait", "testFind", "testExec"} /\ i \in rs => i \in rsNew
       /\ rollPc[o] = "kill" => r.pod = i /\ (i \in pods \ podNew => r.uid = uid[i])
       /\ rollPc[o] \in {"wait", "testFind", "testExec"} /\ i \in pods => i \in podNew

\* Behind OneAtATime: the members such an upgrade listed are all there are, nobody else
\* takes one down, and all are Running whenever it is past its wait.
RollsAlone(o) ==
  ~disturbed[o] /\ faults = 0 /\ rollPc[o] \in RollCalls =>
    /\ rollReg[o].sets = rs
    /\ rollPc[o] # "wait" => running = rs
    /\ \A q \in Operators \ {o} : rollPc[q] \notin RollCalls

RollIInv ==
  RollTypeOK /\ LabelsAgree /\ \A o \in Operators : Rolling(o) /\ Upgraded(o) /\ RollsAlone(o)
=============================================================================
