------------------------------ MODULE Cluster ------------------------------
(***************************************************************************)
(* A Postgres cluster as pgctl sees it: the ReplicaSets and pods of one    *)
(* cluster in the Kubernetes API, the Postgres server of each pod, and the *)
(* disk behind it.  A member is named by its index label.  This module     *)
(* holds the shared state and everything that moves without pgctl: the     *)
(* ReplicaSet controller, the kubelet, Postgres, the clients of the        *)
(* database, and the failures.  The commands of pgctl are modules of their *)
(* own that extend this one.                                               *)
(*                                                                         *)
(* Modelled from how cli/ and docker-image/ use them (external): pods are  *)
(* deleted with a grace period of 0; a ReplicaSet of one replica creates a *)
(* pod from its template as it stands then; a standby follows whatever pod *)
(* the write service selects.                                              *)
(***************************************************************************)
EXTENDS Naturals, FiniteSets

CONSTANTS
  N,              \* bound on the indexes of members
  Start,          \* create made the master 0 and the replicas 1 to Start
  Operators,      \* those who may run a command at the same time
  Prompt,         \* whether a missing pod is made before anyone looks
  Removable,      \* the members whose ReplicaSet an operator may remove by hand
  FaultyIndexes,  \* the members failures may strike
  MaxFaults,      \* bound on the failures
  Writes          \* the transactions that clients commit

\* Names of pods sort by index only up to 9.
ASSUME NAssumption == N \in 1..9 /\ Start \in 1..N
ASSUME EnvironmentAssumption ==
  /\ Prompt \in BOOLEAN /\ MaxFaults \in Nat
  /\ FaultyIndexes \subseteq 0..N /\ Removable \subseteq 0..N

VARIABLES
  rs,         \* members that have a ReplicaSet
  rsMaster,   \* those whose pod template carries master=true
  rsNew,      \* those whose pod template has the image of the last upgrade
  pods,       \* members that have a pod
  podMaster,  \* those whose pod carries master=true
  podNew,     \* those whose pod runs the image of the last upgrade
  uid,        \* uid[i]: which incarnation the pod of i is, or will be
  running,    \* pods in phase Running
  up,         \* members whose Postgres runs
  disk,       \* disk[i]: what is on the volume, one of Disks
  conf,       \* conf[i]: synchronous_standby_names in postgresql.conf; {} is a file
              \* that was emptied
  live,       \* live[i]: the names the running server has loaded
  trigger,    \* containers that hold /tmp/postgresql.trigger.5432
  data,       \* data[i]: the transactions in the log of i
  acked,      \* transactions whose commit a client was told of
  cut,        \* history: members at which the connection of a setreplicas.sh was lost
              \* before the file was rewritten
  faults      \* failures so far

kubeVars == <<rs, rsMaster, rsNew, pods, podMaster, podNew, uid, running>>
pgVars == <<up, disk, conf, live, trigger, data, acked, cut>>
clusterVars == <<kubeVars, pgVars, faults>>

Idx == 0..N
Founders == 0..Start

\* No claim; a volume before the base backup, or during it; a replica with its
\* recovery.conf, or without it after its promotion; a volume on which no server ever
\* starts; one with a server of its own, whose first start ended before recovery.conf.
Disks == {"none", "empty", "copying", "standby", "primary", "broken", "stray"}

\* A pod outlives its ReplicaSet nowhere here: only create and delete leave pods
\* without one.
ClusterTypeOK ==
  /\ rs \subseteq Idx /\ rsMaster \subseteq rs /\ rsNew \subseteq rs
  /\ pods \subseteq rs /\ podMaster \subseteq pods /\ podNew \subseteq pods
  /\ uid \in [Idx -> Nat]
  /\ running \subseteq pods
  /\ up \subseteq running
  /\ disk \in [Idx -> Disks]
  /\ conf \in [Idx -> SUBSET Idx] /\ live \in [Idx -> SUBSET Idx]
  /\ trigger \subseteq running
  /\ data \in [Idx -> SUBSET Writes]
  /\ acked \subseteq Writes
  /\ cut \subseteq Idx
  /\ faults \in 0..MaxFaults

\* What CreateCluster leaves behind: master 0, standbys 1 to Start, and the names
\* of all the standbys in the configuration, which pg_basebackup copies to them.
ClusterInit ==
  /\ rs = Founders /\ rsMaster = {0} /\ rsNew = {}
  /\ pods = Founders /\ podMaster = {0} /\ podNew = {} /\ running = Founders
  /\ uid = [i \in Idx |-> 0]
  /\ up = Founders
  /\ disk = [i \in Idx |-> IF i = 0 THEN "primary"
                          ELSE IF i \in Founders THEN "standby" ELSE "none"]
  /\ conf = [i \in Idx |-> IF i \in Founders THEN 1..Start ELSE {}]
  /\ live = conf
  /\ trigger = {}
  /\ data = [i \in Idx |-> {}] /\ acked = {} /\ cut = {}
  /\ faults = 0

-----------------------------------------------------------------------------
(* What pgctl asks of the API server.                                      *)

\* The pods that getReplicaPods returns; getMasterPod lists podMaster.
ReplicaPods == pods \ podMaster

TheMaster_first(m) == m \in podMaster

\* getMasterPod returns m.
TheMaster(m) == podMaster = {m}

\* The API server lists pods in the order of their names.
First(i, S) == i \in S /\ \A j \in S : i <= j

\* A command can be executed in incarnation u of the pod of i.
Reaches(i, u) == i \in running /\ uid[i] = u

\* The volume holds the database of the cluster.
HasDatabase(i) == disk[i] \in {"standby", "primary"}

\* The first start is over, so that there is a postgresql.conf.
HasStarted(i) == HasDatabase(i) \/ disk[i] = "stray"

\* What the volume of i may hold when its container ends during the first start:
\* part of a directory, which initdb refuses, or a PG_VERSION, which is trusted.
Left(i) ==
  CASE disk[i] = "empty" /\ i \in running -> {"empty", "broken", "stray"}
    [] disk[i] = "copying" -> {"broken", "stray"}
    [] OTHER -> {disk[i]}

\* Those whose base backup may break off when the server of i ends, and those whose
\* base backup does, since there is no other to take it from.
Copiers == {j \in Idx : disk[j] = "copying"}
MayBreak(i) == IF i \in up \cap podMaster THEN Copiers \ {i} ELSE {}
Breaks(i) == IF up \cap podMaster = {i} THEN Copiers \ {i} ELSE {}

\* The volumes after the containers of i have ended.
VolumesLeft(i) ==
  \E left \in Left(i), B \in SUBSET MayBreak(i) :
    /\ Breaks(i) \subseteq B
    /\ disk' = [j \in Idx |-> IF j = i THEN left ELSE IF j \in B THEN "broken" ELSE disk[j]]

ContainersEnd_triggerOnDisk(i) ==
  /\ up' = up \ {i}
  /\ live' = [live EXCEPT ![i] = {}]
  /\ VolumesLeft(i)
  /\ UNCHANGED <<conf, trigger, data, acked, cut>>

\* What ends with the containers of a pod; /tmp goes with them.
ContainersEnd(i) ==
  /\ up' = up \ {i}
  /\ live' = [live EXCEPT ![i] = {}]
  /\ trigger' = trigger \ {i}
  /\ VolumesLeft(i)
  /\ UNCHANGED <<conf, data, acked, cut>>

\* The pod of i is deleted; the incarnation that follows it is a new pod.
DeletePod(i) ==
  /\ uid' = [uid EXCEPT ![i] = @ + 1]
  /\ running' = running \ {i}
  /\ IF Prompt /\ i \in rs
     THEN /\ pods' = pods
          /\ podMaster' = (podMaster \ {i}) \cup ({i} \cap rsMaster)
          /\ podNew' = (podNew \ {i}) \cup ({i} \cap rsNew)
     ELSE /\ pods' = pods \ {i}
          /\ podMaster' = podMaster \ {i}
          /\ podNew' = podNew \ {i}
  /\ ContainersEnd(i)
  /\ UNCHANGED <<rs, rsMaster, rsNew>>

\* A claim of member i with a fresh volume, where there was none.
CreateClaim(i) ==
  /\ disk' = [disk EXCEPT ![i] = "empty"]
  /\ UNCHANGED <<kubeVars, up, conf, live, trigger, data, acked, cut>>

\* A ReplicaSet of member i, of the default image and without the master label.
CreateReplicaSet(i) ==
  /\ rs' = rs \cup {i}
  /\ pods' = IF Prompt THEN pods \cup {i} ELSE pods
  /\ UNCHANGED <<rsMaster, rsNew, podMaster, podNew, uid, running, pgVars>>

-----------------------------------------------------------------------------
(* setreplicas.sh, executed in the pod of i.  Here it is one step that happened, did  *)
(* not, or was cut off after it had emptied the file; PgNode has it in detail.        *)

\* The file has the names, unless it was emptied before: sed replaces a line.
NamesWritten(i, names) ==
  /\ names # {}
  /\ conf' = [conf EXCEPT ![i] = IF @ = {} THEN {} ELSE names]
  /\ cut' = IF conf[i] = {} THEN cut ELSE cut \ {i}
  /\ UNCHANGED disk

\* The file is empty; in a directory that is to be filled yet, it may be in the way.
FileEmptied(i) ==
  /\ conf' = [conf EXCEPT ![i] = {}]
  /\ \/ UNCHANGED disk
     \/ disk[i] = "empty" /\ disk' = [disk EXCEPT ![i] = "broken"]

\* The connection is lost before the script is over: there is no error and nothing on
\* stderr, which pgctl takes for success.
NamesCutOff(i, names) ==
  /\ cut' = cut \cup {i}
  /\ \/ UNCHANGED <<conf, disk>>
     \/ names # {} /\ FileEmptied(i)

\* The script refuses an empty list; where there is no file it complains, and goes on.
NamesRefused(i, names) ==
  /\ \/ names = {} /\ UNCHANGED <<conf, disk>>
     \/ names # {} /\ ~HasStarted(i) /\ FileEmptied(i)
  /\ UNCHANGED cut

-----------------------------------------------------------------------------
(* Kubernetes.                                                             *)

RSController(i) ==
  /\ i \in rs \ pods
  /\ pods' = pods \cup {i}
  /\ podMaster' = podMaster \cup ({i} \cap rsMaster)
  /\ podNew' = podNew \cup ({i} \cap rsNew)
  /\ UNCHANGED <<rs, rsMaster, rsNew, uid, running, pgVars, faults>>

\* A pod waits for the claim it mounts.
KubeletStart(i) ==
  /\ i \in pods \ running
  /\ disk[i] # "none"
  /\ running' = running \cup {i}
  /\ UNCHANGED <<rs, rsMaster, rsNew, pods, podMaster, podNew, uid, pgVars, faults>>

-----------------------------------------------------------------------------
(* Postgres.                                                               *)

\* The first start of a replica: pg_basebackup from a pod that the write service
\* selects and that accepts replication, configuration included.  PgNode has it in
\* detail.
SetUpBegins(i) ==
  /\ i \in running
  /\ disk[i] = "empty"
  /\ \E m \in (up \cap podMaster) \ {i} :
       /\ live[m] # {}
       /\ disk' = [disk EXCEPT ![i] = "copying"]
       /\ data' = [data EXCEPT ![i] = data[m]]
       /\ conf' = [conf EXCEPT ![i] = conf[m]]
  /\ UNCHANGED <<kubeVars, up, live, trigger, acked, cut, faults>>

\* The copy has all that was written meanwhile, its configuration as it was when its
\* turn came; recovery.conf is written.
SetUpEnds(i) ==
  /\ i \in running
  /\ disk[i] = "copying"
  /\ \E m \in (up \cap podMaster) \ {i} :
       /\ disk' = [disk EXCEPT ![i] = "standby"]
       /\ data' = [data EXCEPT ![i] = data[m]]
       /\ conf' \in {conf, [conf EXCEPT ![i] = conf[m]]}
  /\ UNCHANGED <<kubeVars, up, live, trigger, acked, cut, faults>>

\* The entrypoint finds PG_VERSION and starts the server on the disk as it is.
StartPostgres(i) ==
  /\ i \in running \ up
  /\ HasStarted(i)
  /\ up' = up \cup {i}
  /\ live' = [live EXCEPT ![i] = conf[i]]
  /\ UNCHANGED <<kubeVars, disk, conf, trigger, data, acked, cut, faults>>

\* A standby that finds its trigger file leaves recovery and removes the file.
Promote(i) ==
  /\ i \in up \cap trigger
  /\ disk[i] = "standby"
  /\ disk' = [disk EXCEPT ![i] = "primary"]
  /\ trigger' = trigger \ {i}
  /\ UNCHANGED <<kubeVars, up, conf, live, data, acked, cut, faults>>

\* Standby j can follow m: the write service selects m, whose configuration lets it
\* send, and j has nothing in its log that m has not.
Follows(j, m) ==
  /\ j # m /\ j \in up /\ m \in up \cap podMaster
  /\ disk[j] = "standby" /\ live[m] # {}
  /\ data[j] \subseteq data[m]

Stream(j, m) ==
  /\ Follows(j, m)
  /\ data[j] # data[m]
  /\ data' = [data EXCEPT ![j] = data[m]]
  /\ UNCHANGED <<kubeVars, up, disk, conf, live, trigger, acked, cut, faults>>

\* Members that were set up as servers of their own.
Strays == {i \in Idx : disk[i] = "stray"}

\* Servers a client of the write service can commit on.
TakesCommits(m) == m \in up /\ disk[m] \in {"primary", "stray"}
Writers == {m \in podMaster : TakesCommits(m)}

ClientWrite(m, w) ==
  /\ m \in Writers
  /\ \A i \in Idx : w \notin data[i]
  /\ data' = [data EXCEPT ![m] = @ \cup {w}]
  /\ UNCHANGED <<kubeVars, up, disk, conf, live, trigger, acked, cut, faults>>

\* In 9.5 the synchronous standby is the first name of the list that is connected.
Followers(m) == {j \in live[m] : Follows(j, m)}

\* A commit returns once the synchronous standby has it, if one is named.
Acknowledge(m, w) ==
  /\ m \in Writers
  /\ w \in data[m] \ acked
  /\ \/ live[m] = {}
     \/ \E j \in Idx : First(j, Followers(m)) /\ w \in data[j]
  /\ acked' = acked \cup {w}
  /\ UNCHANGED <<kubeVars, up, disk, conf, live, trigger, data, cut, faults>>

\* A commit on m returns.
Commits(m) ==
  /\ TakesCommits(m)
  /\ live[m] = {} \/ Followers(m) # {}

\* testdb.sh in incarnation u of the pod of m: a standby, or a server that is not
\* there, is an error; on a primary that waits for a synchronous standby the script
\* does not return.
TestPasses(m, u) == Reaches(m, u) /\ Commits(m)
TestFails(m, u) == ~Reaches(m, u) \/ m \notin up \/ disk[m] = "standby"

-----------------------------------------------------------------------------
(* Failures.                                                               *)

Fault(i) ==
  /\ i \in FaultyIndexes
  /\ faults < MaxFaults
  /\ faults' = faults + 1

\* The node of the pod fails, or someone deletes the pod.
PodLost(i) ==
  /\ Fault(i)
  /\ i \in pods
  /\ DeletePod(i)

\* The container restarts: its file system is fresh, the pod stays Running.
ContainerDies(i) ==
  /\ Fault(i)
  /\ i \in running
  /\ ContainersEnd(i)
  /\ UNCHANGED kubeVars

\* "Remove the replica set controlling the old master" with kubectl, which takes
\* its pod down too.  The claim is another object: it stays, and its volume.
RemoveReplicaSet(i) ==
  /\ faults < MaxFaults /\ faults' = faults + 1
  /\ i \in Removable \cap rsMaster
  /\ rs' = rs \ {i} /\ rsMaster' = rsMaster \ {i} /\ rsNew' = rsNew \ {i}
  /\ pods' = pods \ {i} /\ podMaster' = podMaster \ {i} /\ podNew' = podNew \ {i}
  /\ running' = running \ {i}
  /\ uid' = [uid EXCEPT ![i] = @ + 1]
  /\ ContainersEnd(i)

-----------------------------------------------------------------------------

Healing(i) ==
  \/ RSController(i) \/ KubeletStart(i) \/ SetUpBegins(i) \/ SetUpEnds(i)
  \/ StartPostgres(i) \/ Promote(i)

Failing(i) == PodLost(i) \/ ContainerDies(i) \/ RemoveReplicaSet(i)

Using(m) ==
  \/ \E j \in Idx : Stream(j, m)
  \/ \E w \in Writes : ClientWrite(m, w) \/ Acknowledge(m, w)

ClusterNext == \E i \in Idx : Healing(i) \/ Failing(i) \/ Using(i)
=============================================================================
