------------------------------ MODULE Lifecycle ------------------------------
(***************************************************************************)
(* pgctl create and pgctl delete (cli/cmd/create.go, delete.go), run by    *)
(* several operators at once over the objects of one cluster: storage      *)
(* class, services, claims, ReplicaSets and pods.  Each action is one call *)
(* to the API server.  Create gets each object and creates it if it was    *)
(* not found; delete works through the kinds of objects, one call each.    *)
(*                                                                         *)
(* Of a member's volume the model keeps whether its server is set up, as   *)
(* what, and the transactions in its log, which is what a later create     *)
(* finds again.  Failovers between two creates are one step here; Failover *)
(* has them in detail.                                                     *)
(***************************************************************************)
EXTENDS Naturals, FiniteSets, Sequences

CONSTANTS
  Operators,   \* those who may run a command at the same time
  N,           \* replicas that create asks for
  Purges,      \* the values of --deletePvc
  Failovers,   \* whether the master may be lost and failed over
  Writes,      \* the transactions that clients commit
  MaxRuns      \* bound on the commands

ASSUME LifecycleAssumption ==
  N \in Nat /\ Purges \subseteq BOOLEAN /\ Failovers \in BOOLEAN /\ MaxRuns \in Nat

VARIABLES
  objects,     \* what exists of class, services, claims and ReplicaSets
  rsMaster,    \* ReplicaSets whose template carries master=true
  pods,        \* members that have a pod
  podMaster,   \* those whose pod carries master=true
  running,     \* pods in phase Running
  volume,      \* volume[i]: "empty", or what its server is set up as
  log,         \* log[i]: transactions on the volume
  acked,       \* transactions whose commit a client was told of
  pc,          \* pc[o]: the next call of the command of o
  reg,         \* reg[o]: what it works on
  runs         \* commands so far

kubeVars == <<objects, rsMaster, pods, podMaster, running>>
dataVars == <<volume, log, acked>>
vars == <<kubeVars, dataVars, pc, reg, runs>>

Idx == 0..N
Claim(i) == <<"claim", i>>
RS(i) == <<"rs", i>>

\* Index 0 is always the master: its template alone carries the label.
MasterRS == RS(0)

Services == {<<"write", 0>>, <<"read", 0>>}

\* The order in which CreateCluster works through its objects.
Plan ==
  << <<"class", 0>>, <<"write", 0>>, <<"read", 0>> >>
    \o [k \in 1 .. 2 * N |-> IF k % 2 = 1 THEN Claim((k + 1) \div 2) ELSE RS(k \div 2)]
    \o << Claim(0), MasterRS >>

Objects == {Plan[k] : k \in 1 .. Len(Plan)}

Ended == {"idle", "ok", "failed"}
Creating == {"get", "create", "wait", "test"}
Deleting == {"listServices", "deleteService", "deleteSets", "deletePods", "deleteClaims"}

\* at: position in the plan; listed: services still to delete; purge: --deletePvc;
\* undone, redone: whether another command has removed, or added, an object since
\* this one began.
Registers == [at : 1 .. Len(Plan), listed : SUBSET Services, purge : BOOLEAN,
              undone : BOOLEAN, redone : BOOLEAN]

TypeOK ==
  /\ objects \subseteq Objects
  /\ rsMaster \subseteq {i \in Idx : RS(i) \in objects}
  /\ pods \subseteq Idx /\ podMaster \subseteq pods /\ running \subseteq pods
  /\ volume \in [Idx -> {"empty", "primary", "standby"}]
  /\ log \in [Idx -> SUBSET Writes] /\ acked \subseteq Writes
  /\ pc \in [Operators -> Ended \cup Creating \cup Deleting]
  /\ reg \in [Operators -> Registers]
  /\ runs \in 0..MaxRuns

Fresh == [at |-> 1, listed |-> {}, purge |-> FALSE, undone |-> FALSE, redone |-> FALSE]

\* An empty namespace.
Init ==
  /\ objects = {} /\ rsMaster = {} /\ pods = {} /\ podMaster = {} /\ running = {}
  /\ volume = [i \in Idx |-> "empty"] /\ log = [i \in Idx |-> {}] /\ acked = {}
  /\ pc = [o \in Operators |-> "idle"] /\ reg = [o \in Operators |-> Fresh]
  /\ runs = 0

Goto(o, l) == pc' = [pc EXCEPT ![o] = l]

Begin(o) ==
  /\ pc[o] \in Ended
  /\ runs < MaxRuns
  /\ runs' = runs + 1

\* Every other command learns that o has removed, or added, something.
Undo(o, r) ==
  reg' = [p \in Operators |-> IF p = o THEN r ELSE [reg[p] EXCEPT !.undone = TRUE]]
Redo(o, r) ==
  reg' = [p \in Operators |-> IF p = o THEN r ELSE [reg[p] EXCEPT !.redone = TRUE]]

-----------------------------------------------------------------------------
(* pgctl create.                                                           *)

StartCreate(o) ==
  /\ Begin(o)
  /\ Goto(o, "get")
  /\ reg' = [reg EXCEPT ![o] = Fresh]
  /\ UNCHANGED <<kubeVars, dataVars>>

Wanted(o) == Plan[reg[o].at]

\* On with the next object, or with waiting for the pods.
Advance(o) == Goto(o, IF reg[o].at < Len(Plan) THEN "get" ELSE "wait")

Advanced_pastTheEnd(o) == [reg[o] EXCEPT !.at = @ + 1]

Advanced(o) ==
  IF reg[o].at < Len(Plan) THEN [reg[o] EXCEPT !.at = @ + 1] ELSE reg[o]

GetObject_errorIsFound(o) ==
  /\ pc[o] = "get"
  /\ \/ Advance(o) /\ reg' = [reg EXCEPT ![o] = Advanced(o)]
     \/ Wanted(o) \notin objects /\ Goto(o, "create") /\ UNCHANGED reg
  /\ UNCHANGED <<kubeVars, dataVars, runs>>

\* An object that is found is used as it is.
GetObject(o) ==
  /\ pc[o] = "get"
  /\ IF Wanted(o) \in objects
     THEN Advance(o) /\ reg' = [reg EXCEPT ![o] = Advanced(o)]
     ELSE Goto(o, "create") /\ UNCHANGED reg
  /\ UNCHANGED <<kubeVars, dataVars, runs>>

\* An object that someone else has created in between is an error.
CreateObject(o) ==
  /\ pc[o] = "create"
  /\ IF Wanted(o) \in objects
     THEN /\ Goto(o, "failed")
          /\ UNCHANGED <<objects, rsMaster, reg>>
     ELSE /\ objects' = objects \cup {Wanted(o)}
          /\ rsMaster' = IF Wanted(o) = MasterRS THEN rsMaster \cup {0} ELSE rsMaster
          /\ Advance(o)
          /\ Redo(o, Advanced(o))
  /\ UNCHANGED <<pods, podMaster, running, dataVars, runs>>

\* waitForPodsToStart: exactly N + 1 pods Running, or five minutes are over.
WaitForPods(o) ==
  /\ pc[o] = "wait"
  /\ Goto(o, IF Cardinality(running) = N + 1 THEN "test" ELSE "failed")
  /\ UNCHANGED <<kubeVars, dataVars, reg, runs>>

\* The server a client of pod m can commit on, and with it a standby that follows.
Follows(j, m) ==
  j \in running /\ volume[j] = "standby" /\ log[j] \subseteq log[m]

Commits(m) ==
  /\ m \in running /\ volume[m] = "primary"
  /\ N = 0 \/ \E j \in Idx \ {m} : Follows(j, m)

\* testMaster; it does not go through the write service.  A test that waits for a
\* commit for ever has failed here.
TestMaster(o) ==
  /\ pc[o] = "test"
  /\ Goto(o, IF \E m \in Idx : podMaster = {m} /\ Commits(m) THEN "ok" ELSE "failed")
  /\ UNCHANGED <<kubeVars, dataVars, reg, runs>>

-----------------------------------------------------------------------------
(* pgctl delete.                                                           *)

StartDelete(o, purge) ==
  /\ Begin(o)
  /\ Goto(o, "listServices")
  /\ reg' = [reg EXCEPT ![o] = [Fresh EXCEPT !.purge = purge]]
  /\ UNCHANGED <<kubeVars, dataVars>>

NextService(o, left) == Goto(o, IF left = {} THEN "deleteSets" ELSE "deleteService")

ListServices(o) ==
  /\ pc[o] = "listServices"
  /\ reg' = [reg EXCEPT ![o].listed = objects \cap Services]
  /\ NextService(o, objects \cap Services)
  /\ UNCHANGED <<kubeVars, dataVars, runs>>

\* A service that someone else has deleted in between is an error.
DeleteService(o) ==
  /\ pc[o] = "deleteService"
  /\ \E s \in reg[o].listed :
       IF s \in objects
       THEN /\ objects' = objects \ {s}
            /\ NextService(o, reg[o].listed \ {s})
            /\ Undo(o, [reg[o] EXCEPT !.listed = @ \ {s}])
       ELSE /\ Goto(o, "failed")
            /\ UNCHANGED <<objects, reg>>
  /\ UNCHANGED <<rsMaster, pods, podMaster, running, dataVars, runs>>

\* DeleteCollection; the pods stay.
DeleteReplicaSets(o) ==
  /\ pc[o] = "deleteSets"
  /\ Goto(o, "deletePods")
  /\ objects' = objects \ {RS(i) : i \in Idx}
  /\ rsMaster' = {}
  /\ Undo(o, reg[o])
  /\ UNCHANGED <<pods, podMaster, running, dataVars, runs>>

DeletePods_cascaded(o) ==
  /\ pc[o] = "deletePods"
  /\ Goto(o, IF reg[o].purge THEN "deleteClaims" ELSE "ok")
  /\ UNCHANGED <<kubeVars, dataVars, reg, runs>>

DeletePods_thenClaims(o) ==
  /\ pc[o] = "deletePods"
  /\ Goto(o, "deleteClaims")
  /\ pods' = {} /\ podMaster' = {} /\ running' = {}
  /\ Undo(o, reg[o])
  /\ UNCHANGED <<objects, rsMaster, dataVars, runs>>

DeletePods(o) ==
  /\ pc[o] = "deletePods"
  /\ Goto(o, IF reg[o].purge THEN "deleteClaims" ELSE "ok")
  /\ pods' = {} /\ podMaster' = {} /\ running' = {}
  /\ Undo(o, reg[o])
  /\ UNCHANGED <<objects, rsMaster, dataVars, runs>>

\* The volumes go with their claims, under a pod that has been created meanwhile
\* too; what was committed may be lost if asked for.
DeleteClaims(o) ==
  /\ pc[o] = "deleteClaims"
  /\ Goto(o, "ok")
  /\ objects' = objects \ {Claim(i) : i \in Idx}
  /\ volume' = [i \in Idx |-> "empty"] /\ log' = [i \in Idx |-> {}]
  /\ acked' = IF reg[o].purge THEN {} ELSE acked
  /\ Undo(o, reg[o])
  /\ UNCHANGED <<rsMaster, pods, podMaster, running, runs>>

\* Any call may fail on its way, before or after it had its effect.
CallFails(o) ==
  /\ pc[o] \in Creating \cup Deleting
  /\ Goto(o, "failed")
  /\ UNCHANGED <<kubeVars, dataVars, reg, runs>>

Command(o) ==
  \/ StartCreate(o) \/ GetObject(o) \/ CreateObject(o) \/ WaitForPods(o) \/ TestMaster(o)
  \/ \E purge \in Purges : StartDelete(o, purge)
  \/ ListServices(o) \/ DeleteService(o) \/ DeleteReplicaSets(o) \/ DeletePods(o)
  \/ DeleteClaims(o) \/ CallFails(o)

-----------------------------------------------------------------------------
(* Kubernetes, Postgres and clients.                                       *)

RSController(i) ==
  /\ RS(i) \in objects /\ i \notin pods
  /\ pods' = pods \cup {i}
  /\ podMaster' = podMaster \cup ({i} \cap rsMaster)
  /\ UNCHANGED <<objects, rsMaster, running, dataVars>>

\* A pod needs its volume to start.
KubeletStart(i) ==
  /\ i \in pods \ running /\ Claim(i) \in objects
  /\ running' = running \cup {i}
  /\ UNCHANGED <<objects, rsMaster, pods, podMaster, dataVars>>

\* Pods the write service leads to.
Selected == {m \in podMaster \cap running : <<"write", 0>> \in objects}

\* The first start on an empty volume, by MEMBER_ROLE: 0 is set up as a primary,
\* the others copy the server behind the write service.
SetUp(i) ==
  /\ i \in running /\ Claim(i) \in objects
  /\ volume[i] = "empty"
  /\ \/ /\ i = 0
        /\ volume' = [volume EXCEPT ![i] = "primary"]
        /\ UNCHANGED log
     \/ /\ i # 0
        /\ \E m \in Selected :
             /\ volume[m] = "primary"
             /\ volume' = [volume EXCEPT ![i] = "standby"]
             /\ log' = [log EXCEPT ![i] = log[m]]
  /\ UNCHANGED <<kubeVars, acked>>

\* A commit waits until a standby has it, and is then acknowledged.
ClientCommit(m, w) ==
  /\ m \in Selected /\ Commits(m)
  /\ \A i \in Idx : w \notin log[i]
  /\ \E j \in Idx \ {m} :
       /\ Follows(j, m)
       /\ log' = [log EXCEPT ![m] = @ \cup {w}, ![j] = log[m] \cup {w}]
  /\ acked' = acked \cup {w}
  /\ UNCHANGED <<kubeVars, volume>>

Environment ==
  /\ \/ \E i \in Idx : RSController(i) \/ KubeletStart(i) \/ SetUp(i)
     \/ \E m \in Idx, w \in Writes : ClientCommit(m, w)
  /\ UNCHANGED <<pc, reg, runs>>

\* The master is lost for good, its ReplicaSet is removed, and pgctl failover is run
\* over a standby that has all that was committed.  The labels move; the standby is
\* promoted only if there are others to be its replicas, since setreplicas.sh refuses
\* an empty list, and even then the command may stop before it.
FailOver(i) ==
  /\ Failovers
  /\ i \in running /\ volume[i] = "standby" /\ RS(i) \in objects
  /\ \E m \in rsMaster :
       /\ m # i /\ podMaster = {m} /\ log[m] \subseteq log[i]
       /\ objects' = objects \ {RS(m)}
       /\ rsMaster' = {i} /\ podMaster' = {i}
       /\ pods' = pods \ {m} /\ running' = running \ {m}
       /\ volume' \in {volume} \cup
            {[volume EXCEPT ![i] = "primary"] : k \in pods \ {m, i}}
  /\ reg' = [o \in Operators |-> [reg[o] EXCEPT !.undone = TRUE]]
  /\ UNCHANGED <<log, acked, pc, runs>>

Next == (\E o \in Operators : Command(o)) \/ Environment \/ (\E i \in Idx : FailOver(i))

Spec == Init /\ [][Next]_vars

-----------------------------------------------------------------------------
(* Properties.                                                             *)

\* A create that reports success, and meanwhile nobody has removed anything, leaves
\* every object in place, whoever created it and whatever failed before.
CreateIsComplete ==
  [][\A o \in Operators :
       pc[o] = "test" /\ pc'[o] = "ok" /\ ~reg[o].undone => objects = Objects]_vars

\* A delete that reports success, and meanwhile nobody has created anything, leaves no
\* pod and nothing that would bring one back, and no claims if they were to go.
DeleteIsComplete ==
  [][\A o \in Operators :
       pc[o] \in {"deletePods", "deleteClaims"} /\ pc'[o] = "ok" /\ ~reg[o].redone =>
         /\ pods' = {}
         /\ \A i \in Idx : RS(i) \notin objects' /\ (reg[o].purge => Claim(i) \notin objects')
         /\ Services \cap objects' = {}]_vars

\* "existing cluster data and configuration will be used": the server that clients
\* write to after any number of creates and deletes has every commit they were told of.
AckedIsKept ==
  \A m \in Selected : volume[m] = "primary" => acked \subseteq log[m]

-----------------------------------------------------------------------------
(* The inductive invariant behind these three properties.                  *)

\* What a create has passed in its plan exists, unless somebody removed something.
PlanDone ==
  \A o \in Operators :
    pc[o] \in Creating /\ ~reg[o].undone =>
      \A k \in 1 .. Len(Plan) :
        k < reg[o].at \/ pc[o] \in {"wait", "test"} => Plan[k] \in objects

\* What a delete has passed is gone, unless somebody created something.
DeletedSoFar ==
  \A o \in Operators :
    ~reg[o].redone =>
      /\ pc[o] = "deleteService" => Services \cap objects \subseteq reg[o].listed
      /\ pc[o] \in {"deleteSets", "deletePods", "deleteClaims"} =>
           Services \cap objects = {}
      /\ pc[o] \in {"deletePods", "deleteClaims"} => \A i \in Idx : RS(i) \notin objects
      /\ pc[o] = "deleteClaims" => pods = {}

\* Member 0, which create always sets up as a primary, has every commit and is the
\* only primary, without failovers and with one replica, which a failover labels but
\* does not promote.  Only a delete that was asked to purge gets to the claims.
CommitsKept ==
  /\ \A o \in Operators : pc[o] = "deleteClaims" => reg[o].purge
  /\ volume[0] # "standby"
  /\ ~Failovers \/ N <= 1 => /\ acked \subseteq log[0]
                             /\ \A m \in Idx : volume[m] = "primary" => m = 0

\* All of it, which the proofs show to be inductive.
IInv == TypeOK /\ PlanDone /\ DeletedSoFar /\ CommitsKept
=============================================================================
