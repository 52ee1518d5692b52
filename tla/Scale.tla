------------------------------- MODULE Scale -------------------------------
(***************************************************************************)
(* pgctl scale (cli/cmd/scale.go) and pgctl setreplicas                    *)
(* (cli/cmd/setreplicas.go) over a cluster.  Scale takes the indexes that  *)
(* follow the highest it sees, gets or creates a claim and a ReplicaSet    *)
(* for each, and at once writes the names of the replicas into the         *)
(* configuration of the master; setreplicas is that last part alone.       *)
(* Each action is one call, and several operators may be at it.            *)
(***************************************************************************)
EXTENDS Cluster, Integers

CONSTANTS
  Additions,  \* the values of --replicas they use
  MaxScales   \* bound on the runs of the two commands

ASSUME ScaleAssumption == Additions \subseteq 0..N /\ MaxScales \in Nat

VARIABLES
  scalePc,    \* scalePc[o]: the next call of the run of o
  scaleReg,   \* scaleReg[o]: what it has read
  scales,     \* runs so far
  overlapped  \* operators whose run was not alone all the time

scaleVars == <<scalePc, scaleReg, scales, overlapped>>

ScaleEnded == {"idle", "ok", "failed"}
ScaleCalls == {"list", "getMaster", "getClaim", "createClaim", "getSet", "createSet",
               "findMaster", "listNames", "setNames"}

\* by: --replicas; seen: the replicas listed first; start, at: the first index and the
\* one in hand; made: the members it created the ReplicaSet of; pod, uid: the master;
\* names: the replicas listed last.
ScaleRegisters ==
  [by : 0..N, seen : SUBSET Idx, start : 0..(N + 1), at : 0..(N + 1), made : SUBSET Idx,
   pod : Idx, uid : Nat, names : SUBSET Idx]

ScaleTypeOK ==
  /\ ClusterTypeOK
  /\ scalePc \in [Operators -> ScaleEnded \cup ScaleCalls]
  /\ scaleReg \in [Operators -> ScaleRegisters]
  /\ scales \in 0..MaxScales
  /\ overlapped \subseteq Operators

NoIndexes ==
  [by |-> 0, seen |-> {}, start |-> 0, at |-> 0, made |-> {},
   pod |-> 0, uid |-> 0, names |-> {}]

ScaleOnlyInit ==
  /\ scalePc = [o \in Operators |-> "idle"]
  /\ scaleReg = [o \in Operators |-> NoIndexes]
  /\ scales = 0
  /\ overlapped = {}

ScaleInit == ClusterInit /\ ScaleOnlyInit

ScaleGoto(o, l) == scalePc' = [scalePc EXCEPT ![o] = l]

ScaleAbort(o) ==
  /\ ScaleGoto(o, "failed")
  /\ scaleReg' = [scaleReg EXCEPT ![o] = NoIndexes]

ScaleSame == UNCHANGED <<scales, overlapped>>

\* The indexes that the run is to fill.
Wanted(o) == scaleReg[o].start..(scaleReg[o].start + scaleReg[o].by - 1)

-----------------------------------------------------------------------------

\* One of the commands starts: with a call of scale, or where scale ends.
ScaleBegin(o, l, k) ==
  /\ scalePc[o] \in ScaleEnded
  /\ scales < MaxScales
  /\ scales' = scales + 1
  /\ ScaleGoto(o, l)
  /\ scaleReg' = [scaleReg EXCEPT ![o] = [NoIndexes EXCEPT !.by = k]]
  /\ LET others == {p \in Operators \ {o} : scalePc[p] \in ScaleCalls} IN
     overlapped' = IF others = {} THEN overlapped \ {o} ELSE overlapped \cup others \cup {o}
  /\ UNCHANGED clusterVars

ScaleStart(o) == \E k \in Additions : ScaleBegin(o, "list", k)

SetReplicasStart(o) == ScaleBegin(o, "findMaster", 0)

\* getReplicaPods.
ScaleList(o) ==
  /\ scalePc[o] = "list"
  /\ ScaleGoto(o, "getMaster")
  /\ scaleReg' = [scaleReg EXCEPT ![o].seen = ReplicaPods]
  /\ ScaleSame /\ UNCHANGED clusterVars

Highest_unsorted(h, S) == h \in S

\* getActiveIndexesForCluster sorts the indexes of the pods, so that h is the last.
Highest(h, S) == h \in S /\ \A j \in S : j <= h

\* getMasterPod; the first index is the one after the highest.  A range beyond the
\* bound N ends the run like a call that fails.
ScaleGetMaster(o) ==
  /\ scalePc[o] = "getMaster"
  /\ LET Fits(h, m) == /\ TheMaster(m) /\ Highest(h, scaleReg[o].seen \cup {m})
                       /\ h + scaleReg[o].by <= N IN
     \/ \E h, m \in Idx :
          /\ Fits(h, m)
          /\ ScaleGoto(o, IF scaleReg[o].by = 0 THEN "findMaster" ELSE "getClaim")
          /\ scaleReg' = [scaleReg EXCEPT ![o].start = h + 1, ![o].at = h + 1]
     \/ (~ \E h, m \in Idx : Fits(h, m)) /\ ScaleAbort(o)
  /\ ScaleSame /\ UNCHANGED clusterVars

GetClaim_forgotten(o) ==
  /\ scalePc[o] = "getClaim"
  /\ ScaleGoto(o, "getSet")
  /\ ScaleSame /\ UNCHANGED <<scaleReg, clusterVars>>

\* checkAndCreatePVC: a claim that exists is used, with what is on its volume.
GetClaim(o) ==
  /\ scalePc[o] = "getClaim"
  /\ ScaleGoto(o, IF disk[scaleReg[o].at] = "none" THEN "createClaim" ELSE "getSet")
  /\ ScaleSame /\ UNCHANGED <<scaleReg, clusterVars>>

ScaleCreateClaim(o) ==
  /\ scalePc[o] = "createClaim"
  /\ LET i == scaleReg[o].at IN
     IF disk[i] = "none"
     THEN CreateClaim(i) /\ ScaleGoto(o, "getSet") /\ UNCHANGED scaleReg
     ELSE ScaleAbort(o) /\ UNCHANGED <<kubeVars, pgVars>>
  /\ ScaleSame /\ UNCHANGED faults

AfterIndex_oneShort(o) ==
  IF scaleReg[o].at + 2 >= scaleReg[o].start + scaleReg[o].by THEN "findMaster" ELSE "getClaim"

\* The loop goes on to the next index, or ends.
AfterIndex(o) ==
  IF scaleReg[o].at + 1 = scaleReg[o].start + scaleReg[o].by THEN "findMaster" ELSE "getClaim"

\* checkAndCreateReplicaSet: one that exists is taken for the run's own.
GetSet(o) ==
  /\ scalePc[o] = "getSet"
  /\ IF scaleReg[o].at \in rs
     THEN /\ ScaleGoto(o, AfterIndex(o))
          /\ scaleReg' = [scaleReg EXCEPT ![o].at = @ + 1]
     ELSE ScaleGoto(o, "createSet") /\ UNCHANGED scaleReg
  /\ ScaleSame /\ UNCHANGED clusterVars

ScaleCreateSet(o) ==
  /\ scalePc[o] = "createSet"
  /\ LET i == scaleReg[o].at IN
     IF i \notin rs
     THEN /\ CreateReplicaSet(i)
          /\ ScaleGoto(o, AfterIndex(o))
          /\ scaleReg' = [scaleReg EXCEPT ![o].at = @ + 1, ![o].made = @ \cup {i}]
     ELSE ScaleAbort(o) /\ UNCHANGED <<kubeVars, pgVars>>
  /\ ScaleSame /\ UNCHANGED faults

-----------------------------------------------------------------------------
(* updateMasterWithReplicas.                                               *)

FindMaster(o) ==
  /\ scalePc[o] = "findMaster"
  /\ \/ \E m \in Idx :
          /\ TheMaster(m)
          /\ ScaleGoto(o, "listNames")
          /\ scaleReg' = [scaleReg EXCEPT ![o].pod = m, ![o].uid = uid[m]]
     \/ (~ \E m \in Idx : TheMaster(m)) /\ ScaleAbort(o)
  /\ ScaleSame /\ UNCHANGED clusterVars

ListNames_seenBefore(o) ==
  /\ scalePc[o] = "listNames"
  /\ ScaleGoto(o, "setNames")
  /\ scaleReg' = [scaleReg EXCEPT ![o].names = scaleReg[o].seen]
  /\ ScaleSame /\ UNCHANGED clusterVars

ListNames(o) ==
  /\ scalePc[o] = "listNames"
  /\ ScaleGoto(o, "setNames")
  /\ scaleReg' = [scaleReg EXCEPT ![o].names = ReplicaPods]
  /\ ScaleSame /\ UNCHANGED clusterVars

\* setreplicas.sh.  The server has loaded what was there when it started, and nothing
\* makes it load the file again.
SetNames(o) ==
  /\ scalePc[o] = "setNames"
  /\ LET m == scaleReg[o].pod
         names == scaleReg[o].names IN
     \/ /\ Reaches(m, scaleReg[o].uid)
        /\ NamesWritten(m, names) \/ NamesCutOff(m, names)
        /\ ScaleGoto(o, "ok")
        /\ scaleReg' = [scaleReg EXCEPT ![o] = NoIndexes]
     \/ /\ Reaches(m, scaleReg[o].uid)
        /\ NamesRefused(m, names)
        /\ ScaleAbort(o)
     \/ /\ ~Reaches(m, scaleReg[o].uid)
        /\ ScaleAbort(o)
        /\ UNCHANGED <<conf, disk, cut>>
  /\ ScaleSame /\ UNCHANGED <<kubeVars, up, live, trigger, data, acked, faults>>

\* Any call may fail, before or after it had its effect.
ScaleCallFails(o) ==
  /\ scalePc[o] \in ScaleCalls
  /\ ScaleAbort(o)
  /\ ScaleSame /\ UNCHANGED clusterVars

-----------------------------------------------------------------------------

ScaleStep(o) ==
  \/ ScaleList(o) \/ ScaleGetMaster(o) \/ GetClaim(o) \/ ScaleCreateClaim(o)
  \/ GetSet(o) \/ ScaleCreateSet(o) \/ FindMaster(o) \/ ListNames(o) \/ SetNames(o)

ScaleCommand(o) ==
  ScaleStart(o) \/ SetReplicasStart(o) \/ ScaleStep(o) \/ ScaleCallFails(o)

ScaleEnvironment == ClusterNext /\ UNCHANGED scaleVars

ScaleNext == (\E o \in Operators : ScaleCommand(o)) \/ ScaleEnvironment

ScaleSpec == ScaleInit /\ [][ScaleNext]_<<clusterVars, scaleVars>>

\* Pods are started and set up whoever runs a command; no command has to go on, so that
\* one whose call into a pod hangs is among them.
ScaleFairness ==
  \A i \in Idx : WF_<<clusterVars, scaleVars>>(Healing(i) /\ UNCHANGED scaleVars)

ScaleFairSpec == ScaleSpec /\ ScaleFairness

-----------------------------------------------------------------------------
(* Properties.                                                             *)

\* The run of o reports success.
Succeeds(o) == scalePc[o] = "setNames" /\ scalePc'[o] = "ok"

\* A scale that reports success has added as many members as it was asked for, none
\* of which was there before, if no other run overlapped it.
AddsCapacity ==
  [][\A o \in Operators : Succeeds(o) /\ o \notin overlapped =>
       scaleReg[o].made = Wanted(o)]_<<clusterVars, scaleVars>>

\* One that overlapped others may have taken their members for its own, but then too
\* every index of its range has a ReplicaSet, whichever run created it.
RangeIsFilled ==
  [][\A o \in Operators : Succeeds(o) => Wanted(o) \subseteq rs]_<<clusterVars, scaleVars>>

\* A run of scale or setreplicas that was alone leaves the names of all standbys, old
\* and new, in the configuration of the master, and not the master's own, unless the
\* connection was lost on the way, now or in an earlier run that emptied the file.
NamesAreComplete ==
  [][\A o \in Operators : Succeeds(o) /\ o \notin overlapped =>
       LET m == scaleReg[o].pod IN
       m \in cut' \/ conf'[m] = rs \ {m}]_<<clusterVars, scaleVars>>

\* The first start of i ended half way, so that it cannot become a standby any more.
Spoilt(i) == disk[i] \in {"broken", "stray"}

\* Every member that has a ReplicaSet, the added ones included, comes to run with the
\* database of the cluster, unless its first start was cut short by a failure of its
\* own or of the master, the master goes for good, or its configuration was emptied.
MembersComeUp ==
  \A i \in Idx : i \in rs ~>
    \/ i \in up /\ HasDatabase(i)
    \/ Spoilt(i)
    \/ \A m \in rsMaster : conf[m] = {}

-----------------------------------------------------------------------------
(* The invariant behind the first three.                                   *)

Filling == {"getClaim", "createClaim", "getSet", "createSet"}
Naming == {"findMaster", "listNames", "setNames"}

\* Without failovers the first master is the only one, and a prompt controller leaves
\* no pod missing.
FirstMaster == rsMaster \subseteq {0} /\ podMaster \subseteq {0} /\ (Prompt => pods = rs)

\* Its volume stays, and its configuration is emptied only where a connection was lost.
MasterConfigured == disk[0] = "primary" /\ (conf[0] = {} => 0 \in cut)

\* The index in hand is one of the range, and the range is one of new indexes.
InRange(o) ==
  LET r == scaleReg[o] IN
  scalePc[o] \in Filling \cup Naming =>
    /\ r.start + r.by <= N + 1
    /\ r.by > 0 => r.start > 0
    /\ scalePc[o] \in Filling => r.start <= r.at /\ r.at < r.start + r.by
    /\ scalePc[o] \in Naming => r.at = r.start + r.by

\* The range of a run is filled up to the index in hand.
FilledSoFar(o) ==
  LET r == scaleReg[o] IN
  scalePc[o] \in Filling \cup Naming => \A i \in Idx : r.start <= i /\ i < r.at => i \in rs

\* A run that is alone sees all members, so that the indexes it takes are new.
NewSoFar(o) ==
  LET r == scaleReg[o] IN
  /\ scalePc[o] \in {"list", "getMaster"} => r.made = {}
  /\ scalePc[o] = "getMaster" => rs \subseteq r.seen \cup {0}
  /\ scalePc[o] \in Filling \cup Naming =>
       /\ r.made = {i \in Idx : r.start <= i /\ i < r.at}
       /\ r.by > 0 => \A i \in rs : i < r.at

\* While the master's pod is the one it found, the names it listed are up to date.
NamesSoFar(o) ==
  LET r == scaleReg[o] IN
  scalePc[o] \in {"listNames", "setNames"} =>
    /\ r.pod = 0 /\ r.uid <= uid[0]
    /\ r.uid = uid[0] =>
         podMaster = {0} /\ (scalePc[o] = "setNames" => r.names = rs \ {0})

Undisturbed(o) ==
  scalePc[o] \in ScaleCalls /\ o \notin overlapped =>
    /\ \A p \in Operators \ {o} : scalePc[p] \notin ScaleCalls
    /\ Prompt => NewSoFar(o) /\ NamesSoFar(o)

ScaleIInv ==
  /\ ScaleTypeOK /\ FirstMaster /\ MasterConfigured
  /\ \A o \in Operators : InRange(o) /\ FilledSoFar(o) /\ Undisturbed(o)
=============================================================================
