------------------------------ MODULE Failover ------------------------------
(***************************************************************************)
(* pgctl failover (cli/cmd/failover.go) over a cluster.  Each action is    *)
(* one call to the API server or one command executed in a pod, so that    *)
(* whatever the cluster does may come between two of them, and several     *)
(* operators may run the command at the same time.  What a run read from   *)
(* the API and still uses is in reg.                                       *)
(*                                                                         *)
(* A resource version is a pod's incarnation and phase (it carries no      *)
(* master label when it is read) and a ReplicaSet's template, its label    *)
(* and its image: an Update of anything that has moved on since it was     *)
(* read is a conflict.                                                     *)
(***************************************************************************)
EXTENDS Cluster

CONSTANTS
  Forces,     \* the values of --force they use
  MaxRuns     \* bound on the runs of the command

ASSUME OperatorsAssumption == Forces \subseteq BOOLEAN /\ MaxRuns \in Nat

VARIABLES
  pc,    \* pc[o]: the next call of the run of o
  reg,   \* reg[o]: what it has read
  runs   \* runs so far

vars == <<clusterVars, pc, reg, runs>>

\* A run is over, or it hangs: a call into a pod whose set-up fails does not return.
Over == {"idle", "ok", "failed"}
Ended == Over \cup {"hung"}
Calls == {"list", "getRS", "updateRS", "updatePod", "setReplicas", "bounce",
          "wait", "recheck", "trigger", "testFind", "testExec"}
Execs == {"setReplicas", "trigger", "testExec"}

\* pod, uid, ran: the pod in hand, its incarnation, whether it was Running;
\* seen: the replicas that were listed; labelled, new: the template as it was read.
Registers ==
  [pod : Idx, uid : Nat, ran : BOOLEAN, seen : SUBSET Idx,
   labelled : BOOLEAN, new : BOOLEAN]

TypeOK ==
  /\ ClusterTypeOK
  /\ pc \in [Operators -> Ended \cup Calls]
  /\ reg \in [Operators -> Registers]
  /\ runs \in 0..MaxRuns

NothingRead ==
  [pod |-> 0, uid |-> 0, ran |-> FALSE, seen |-> {}, labelled |-> FALSE, new |-> FALSE]

\* getReplicaPods has returned the pods S, and t is taken.
Chosen(t, S) ==
  [NothingRead EXCEPT !.pod = t, !.uid = uid[t], !.ran = t \in running, !.seen = S]

Init ==
  /\ ClusterInit
  /\ pc = [o \in Operators |-> "idle"]
  /\ reg = [o \in Operators |-> NothingRead]
  /\ runs = 0

Goto(o, l) == pc' = [pc EXCEPT ![o] = l]

\* The run ends with an error; what it holds is forgotten.
Abort(o) ==
  /\ Goto(o, "failed")
  /\ reg' = [reg EXCEPT ![o] = NothingRead]

-----------------------------------------------------------------------------

\* getMasterPod: no master, or with --force one, is needed to go on; more than
\* one is an error.  The phase of the pod is not looked at.
GetMaster(o, force) ==
  /\ pc[o] \in Ended
  /\ runs < MaxRuns
  /\ runs' = runs + 1
  /\ IF podMaster = {} \/ (force /\ \E m \in Idx : TheMaster(m))
     THEN Goto(o, "list")
     ELSE Goto(o, "failed")
  /\ UNCHANGED <<clusterVars, reg>>

ListReplicas_any(o) ==
  /\ pc[o] = "list"
  /\ IF ReplicaPods = {}
     THEN Abort(o)
     ELSE /\ Goto(o, "getRS")
          /\ \E t \in ReplicaPods : reg' = [reg EXCEPT ![o] = Chosen(t, ReplicaPods)]
  /\ UNCHANGED <<clusterVars, runs>>

\* getReplicaPods; replicas[0], in whatever phase, is the new master.
ListReplicas(o) ==
  /\ pc[o] = "list"
  /\ IF ReplicaPods = {}
     THEN Abort(o)
     ELSE /\ Goto(o, "getRS")
          /\ \E t \in Idx :
             /\ First(t, ReplicaPods)
             /\ reg' = [reg EXCEPT ![o] = Chosen(t, ReplicaPods)]
  /\ UNCHANGED <<clusterVars, runs>>

GetRS_onlyPod(o) ==
  /\ pc[o] = "getRS"
  /\ IF reg[o].pod \in rs
     THEN Goto(o, "updatePod") /\ UNCHANGED reg
     ELSE Abort(o)
  /\ UNCHANGED <<clusterVars, runs>>

GetRS(o) ==
  /\ pc[o] = "getRS"
  /\ IF reg[o].pod \in rs
     THEN /\ Goto(o, "updateRS")
          /\ reg' = [reg EXCEPT ![o].labelled = reg[o].pod \in rsMaster,
                                ![o].new = reg[o].pod \in rsNew]
     ELSE Abort(o)
  /\ UNCHANGED <<clusterVars, runs>>

UpdateRS(o) ==
  /\ pc[o] = "updateRS"
  /\ IF /\ reg[o].pod \in rs
        /\ reg[o].labelled = (reg[o].pod \in rsMaster)
        /\ reg[o].new = (reg[o].pod \in rsNew)
     THEN /\ Goto(o, "updatePod")
          /\ rsMaster' = rsMaster \cup {reg[o].pod}
          /\ UNCHANGED reg
     ELSE /\ Abort(o)
          /\ UNCHANGED rsMaster
  /\ UNCHANGED <<rs, rsNew, pods, podMaster, podNew, uid, running, pgVars, faults, runs>>

UpdatePod(o) ==
  /\ pc[o] = "updatePod"
  /\ LET t == reg[o].pod IN
     IF /\ t \in ReplicaPods
        /\ uid[t] = reg[o].uid
        /\ reg[o].ran = (t \in running)
     THEN /\ Goto(o, "setReplicas")
          /\ podMaster' = podMaster \cup {t}
          /\ UNCHANGED reg
     ELSE /\ Abort(o)
          /\ UNCHANGED podMaster
  /\ UNCHANGED <<rs, rsMaster, rsNew, pods, podNew, uid, running, pgVars, faults, runs>>

SetReplicas_self(o) ==
  /\ pc[o] = "setReplicas"
  /\ IF Reaches(reg[o].pod, reg[o].uid)
     THEN /\ Goto(o, "bounce")
          /\ conf' = [conf EXCEPT ![reg[o].pod] = reg[o].seen]
          /\ UNCHANGED reg
     ELSE /\ Abort(o)
          /\ UNCHANGED conf
  /\ UNCHANGED <<kubeVars, up, disk, live, trigger, data, acked, cut, faults, runs>>

\* setreplicas.sh with the indexes of replicas[1:]; no error means success.
SetReplicas(o) ==
  /\ pc[o] = "setReplicas"
  /\ LET t == reg[o].pod
         others == reg[o].seen \ {t} IN
     \/ /\ Reaches(t, reg[o].uid)
        /\ NamesWritten(t, others) \/ NamesCutOff(t, others)
        /\ Goto(o, "bounce") /\ UNCHANGED reg
     \/ /\ Reaches(t, reg[o].uid)
        /\ NamesRefused(t, others)
        /\ Abort(o)
     \/ /\ ~Reaches(t, reg[o].uid)
        /\ Abort(o)
        /\ UNCHANGED <<conf, disk, cut>>
  /\ UNCHANGED <<kubeVars, up, live, trigger, data, acked, faults, runs>>

\* Delete the pod, so that it starts again under its new label.
Bounce(o) ==
  /\ pc[o] = "bounce"
  /\ IF reg[o].pod \in pods /\ uid[reg[o].pod] = reg[o].uid
     THEN /\ Goto(o, "wait")
          /\ DeletePod(reg[o].pod)
          /\ UNCHANGED reg
     ELSE /\ Abort(o)
          /\ UNCHANGED <<kubeVars, pgVars>>
  /\ UNCHANGED <<faults, runs>>

WaitForPods_noTimeout(o) ==
  /\ pc[o] = "wait"
  /\ Cardinality(running) = Cardinality(reg[o].seen)
  /\ Goto(o, "recheck")
  /\ UNCHANGED <<clusterVars, reg, runs>>

\* waitForPodsToStart: the pods Running have to be exactly as many as the replicas
\* listed before, and when they are not the 60 seconds may be over.
WaitForPods(o) ==
  /\ pc[o] = "wait"
  /\ IF Cardinality(running) = Cardinality(reg[o].seen)
     THEN Goto(o, "recheck") /\ UNCHANGED reg
     ELSE Abort(o)
  /\ UNCHANGED <<clusterVars, runs>>

Recheck_trustFirst(o) ==
  /\ pc[o] = "recheck"
  /\ Goto(o, "trigger")
  /\ reg' = [reg EXCEPT ![o].uid = uid[reg[o].pod]]
  /\ UNCHANGED <<clusterVars, runs>>

\* getMasterPod again: the pod it finds is the one that is promoted.
Recheck(o) ==
  /\ pc[o] = "recheck"
  /\ \/ \E m \in Idx :
          /\ TheMaster(m)
          /\ Goto(o, "trigger")
          /\ reg' = [reg EXCEPT ![o].pod = m, ![o].uid = uid[m]]
     \/ (~ \E m \in Idx : TheMaster(m)) /\ Abort(o)
  /\ UNCHANGED <<clusterVars, runs>>

\* Send the trigger file; when the connection is lost there may be no file and yet no
\* error.
Touch(o) ==
  /\ pc[o] = "trigger"
  /\ IF Reaches(reg[o].pod, reg[o].uid)
     THEN /\ Goto(o, "testFind")
          /\ trigger' \in {trigger, trigger \cup {reg[o].pod}}
          /\ UNCHANGED reg
     ELSE /\ Abort(o)
          /\ UNCHANGED trigger
  /\ UNCHANGED <<kubeVars, up, disk, conf, live, data, acked, cut, faults, runs>>

-----------------------------------------------------------------------------
(* testMaster.                                                             *)

\* getMasterPod, and here the phase is looked at.
TestFind(o) ==
  /\ pc[o] = "testFind"
  /\ \/ \E m \in running :
          /\ TheMaster(m)
          /\ Goto(o, "testExec")
          /\ reg' = [reg EXCEPT ![o].pod = m, ![o].uid = uid[m]]
     \/ (~ \E m \in running : TheMaster(m)) /\ Abort(o)
  /\ UNCHANGED <<clusterVars, runs>>

\* testdb.sh.
TestExec(o) ==
  /\ pc[o] = "testExec"
  /\ \/ /\ TestPasses(reg[o].pod, reg[o].uid)
        /\ Goto(o, "ok")
        /\ reg' = [reg EXCEPT ![o] = NothingRead]
     \/ TestFails(reg[o].pod, reg[o].uid) /\ Abort(o)
  /\ UNCHANGED <<clusterVars, runs>>

-----------------------------------------------------------------------------

\* Any call may fail on its way, before or after it had its effect; the command
\* gives up at the first error and undoes nothing.  A command whose set-up fails in the
\* pod hangs instead (ExecStream).
CallFails(o) ==
  /\ \/ pc[o] \in Calls /\ Abort(o)
     \/ /\ pc[o] \in Execs
        /\ Goto(o, "hung")
        /\ reg' = [reg EXCEPT ![o] = NothingRead]
  /\ UNCHANGED <<clusterVars, runs>>

Step(o) ==
  \/ ListReplicas(o) \/ GetRS(o) \/ UpdateRS(o) \/ UpdatePod(o)
  \/ SetReplicas(o) \/ Bounce(o) \/ WaitForPods(o) \/ Recheck(o) \/ Touch(o)
  \/ TestFind(o) \/ TestExec(o)

Command(o) == (\E force \in Forces : GetMaster(o, force)) \/ Step(o) \/ CallFails(o)

Environment == ClusterNext /\ UNCHANGED <<pc, reg, runs>>

Next == (\E o \in Operators : Command(o)) \/ Environment

Spec == Init /\ [][Next]_vars

\* A started command goes on unless it hangs, controllers keep reconciling, containers start and
\* standbys stream; nobody has to fail, to run a command or to write.
Fairness ==
  /\ \A o \in Operators : WF_vars(Step(o))
  /\ \A i \in Idx : WF_vars(Healing(i) /\ UNCHANGED <<pc, reg, runs>>)
  /\ \A m \in Idx : WF_vars((\E j \in Idx : Stream(j, m)) /\ UNCHANGED <<pc, reg, runs>>)

FairSpec == Spec /\ Fairness

-----------------------------------------------------------------------------
(* Properties.                                                             *)

\* A member that was given the master role keeps it when its pod is replaced: the
\* template of its ReplicaSet always knows of a label that its pod carries, at
\* whichever call the command stopped.
RoleSurvivesRestart == podMaster \cap rs \subseteq rsMaster

\* Without scale there is no member whose first start is not over.
AllSetUp == \A i \in Idx : IF i \in Founders THEN HasDatabase(i) ELSE disk[i] = "none"

\* Clients of the write service never reach two servers that both take commits,
\* however many failovers run, fail and start over.
NoSplitBrain == \A m, n \in Writers : m = n

\* Members that are primary, that hold the trigger file, or to which a run is
\* about to send it.
Armed ==
  {i \in Idx : \/ disk[i] = "primary"
               \/ i \in trigger
               \/ \E o \in Operators :
                     pc[o] = "trigger" /\ reg[o].pod = i /\ reg[o].uid = uid[i]}

\* The leaders are those of them that still have a ReplicaSet to run them.
Leaders == Armed \cap rs

\* The invariant behind NoSplitBrain: with a prompt ReplicaSet controller a
\* leader's pod always exists and carries the label, so the getMasterPod that
\* precedes the trigger sees it.
LeaderIsLabelled ==
  Prompt =>
    /\ pods = rs
    /\ Leaders \subseteq podMaster
    /\ \A m, n \in Leaders : m = n

\* The pod in hand is already labelled in its template when its own label is set.
LabelledFirst ==
  \A o \in Operators :
    pc[o] = "updatePod" /\ reg[o].uid = uid[reg[o].pod] => reg[o].pod \in rsMaster

\* Nobody holds an incarnation that is still to come, so that one that is gone
\* stays gone.
PastIncarnation == \A o \in Operators : reg[o].uid <= uid[reg[o].pod]

IInv ==
  /\ TypeOK /\ RoleSurvivesRestart /\ LabelledFirst /\ PastIncarnation
  /\ LeaderIsLabelled

\* Failover elects the way Leadership allows.
Election == INSTANCE Leadership WITH Members <- Idx, leaders <- Leaders
ImplementsLeadership == Election!LeadershipSpec

\* A commit a client was told of is in the log of every server that takes commits.
DurableWrites == \A m \in Writers : acked \subseteq data[m]

\* As long as member 0 is there, nobody else is labelled and every run gives up at
\* once; its commits wait for the first standby, which never goes away.
CreatedMasterLeads ==
  /\ rsMaster = {0} /\ podMaster = {0} /\ \A o \in Operators : pc[o] \in Ended
  /\ disk[0] = "primary" /\ conf[0] = 1..Start /\ (0 \in up => live[0] = 1..Start)
  /\ disk[1] = "standby" /\ 1 \in up \ trigger
  /\ data[1] \subseteq data[0]

\* Once it is gone the first standby is the first in every list, so that no label is
\* set before its own, and the trigger goes to nobody else.
FirstStandbyLeads ==
  /\ Leaders \subseteq {1}
  /\ rsMaster \subseteq {1} \/ 1 \in podMaster
  /\ \A o \in Operators : pc[o] \in {"getRS", "updateRS"} => reg[o].pod = 1 \/ 1 \in podMaster

\* The invariant behind DurableWrites: as long as failures spare it, the first
\* standby has all that was acknowledged, and nobody leads but it and member 0.
KeptByFirstStandby ==
  Prompt /\ 1 \notin FaultyIndexes \cup Removable /\ Forces \subseteq {FALSE} =>
    /\ 1 \in rs /\ HasDatabase(1) /\ acked \subseteq data[1]
    /\ IF 0 \in rs THEN CreatedMasterLeads ELSE FirstStandbyLeads

\* A run reports success only over a master that is promoted and that will be the
\* master again after a restart, whatever got lost; and one that waits for standbys
\* other than itself, unless the connection was lost when its names were written.
SuccessMeansPromoted ==
  [][\A o \in Operators :
       pc[o] = "testExec" /\ pc'[o] = "ok" =>
         LET m == reg[o].pod IN
           /\ m \in Writers /\ m \in rsMaster
           /\ m \in cut \/ (live[m] # {} /\ live[m] \subseteq rs \ {m})]_vars

\* These names make i wait for members that stay, and not for itself, unless the
\* connection was lost when they were written.
NamesOthers(i, names) == i \in cut \/ (names # {} /\ names \subseteq (1..Start) \ {i})

\* Member 0 is there with the label and the names that create gave it, or gone, and
\* nobody else is ever missing for good.
MembersStay ==
  /\ 1..Start \subseteq rs /\ rs \subseteq Founders /\ AllSetUp
  /\ \A i \in 1..Start : conf[i] = {} => i \in cut
  /\ 0 \in rs => 0 \in rsMaster /\ conf[0] = 1..Start
  /\ 0 \in pods => 0 \in podMaster
  /\ 0 \in up => live[0] = 1..Start

\* The pod in hand is a standby's, and so are the pods it will wait for; it is
\* deleted only after its names were written.
HandsOnStandbys ==
  /\ \A o \in Operators :
       pc[o] \in {"getRS", "updateRS", "updatePod", "setReplicas", "bounce"} =>
         reg[o].pod \in 1..Start /\ reg[o].seen \subseteq 1..Start
  /\ \A o \in Operators : pc[o] = "bounce" => NamesOthers(reg[o].pod, conf[reg[o].pod])
  /\ \A i \in (1..Start) \ pods : NamesOthers(i, conf[i])

\* While a run is on its way, whoever is labelled has loaded such names or will when
\* it starts, but for the pod in hand before it is deleted.
LabelledWait ==
  \A o \in Operators : pc[o] \in Calls =>
    \A i \in podMaster \ {0} :
      \/ pc[o] \in {"setReplicas", "bounce"} /\ reg[o].pod = i
      \/ NamesOthers(i, conf[i]) /\ (i \in up => NamesOthers(i, live[i]))

\* The pod that is tested keeps its label as long as it is there.
TestedIsLabelled ==
  \A o \in Operators :
    pc[o] = "testExec" /\ reg[o].uid = uid[reg[o].pod] => reg[o].pod \in podMaster

\* The invariant behind SuccessMeansPromoted: one operator, who uses no --force, and
\* failures and removals of member 0 only.
LabelledAreReady ==
  (\A o, p \in Operators : o = p)
    /\ Forces \subseteq {FALSE} /\ FaultyIndexes \cup Removable \subseteq {0} =>
    MembersStay /\ HandsOnStandbys /\ LabelledWait /\ TestedIsLabelled

\* Nobody whose name m waits for can follow it: it has something that m has not.
Stranded(m) ==
  /\ m \in up /\ live[m] # {}
  /\ \A j \in live[m] \ {m} : disk[j] = "standby" => ~(data[j] \subseteq data[m])

\* Every run ends, but for two that do not: one of whose calls into a pod the set-up
\* failed, and one that tests a master whose standbys are ahead of it ("occasionally
\* this hangs").
RunsEnd ==
  \A o \in Operators :
    pc[o] \in Calls ~>
      pc[o] \in Over \cup {"hung"} \/ (pc[o] = "testExec" /\ Stranded(reg[o].pod))
=============================================================================
