------------------------------- MODULE PgNode -------------------------------
(***************************************************************************)
(* The containers of a cluster from their first start: docker-entrypoint.sh *)
(* with the init.sh it sources, pg_basebackup from the master, and         *)
(* clusterutils/setreplicas.sh rewriting the configuration of the master   *)
(* meanwhile.  A container may die at every step and starts again on the   *)
(* disk as it was left; set -e ends it at the first command that fails.    *)
(*                                                                         *)
(* step[i] is what the container of i does next.  Of a disk the model      *)
(* keeps what later steps look at: whether its files are complete, whether *)
(* PG_VERSION is among them, whose initdb they descend from, whether       *)
(* recovery.conf is there, and whether postgresql.conf and the backup that *)
(* setreplicas.sh makes of it hold the replication configuration.          *)
(***************************************************************************)
EXTENDS Naturals, FiniteSets

CONSTANTS
  First,      \* the member whose MEMBER_ROLE is master
  Slaves,     \* those whose MEMBER_ROLE is slave
  Scripts,    \* runs of setreplicas.sh that may overlap
  MaxFaults   \* bound on the failures

ASSUME MembersAssumption == First \notin Slaves
ASSUME FaultsAssumption == MaxFaults \in Nat

VARIABLES
  step,      \* step[i]: the next step of the container of i
  disk,      \* disk[i]: what is under $PGDATA of i
  live,      \* live[i]: whether the running server of i has loaded replication
  master,    \* the member that the write service selects
  script,    \* script[s]: the next step of a run of setreplicas.sh
  faults,    \* failures so far
  caught,    \* members whose disk a failure or a rewrite caught half way
  served     \* members that have ever served on the files they have

vars == <<step, disk, live, master, script, faults, caught, served>>

Members == {First} \cup Slaves

Steps == {"down", "check", "initdb", "configure", "basebackup", "copying",
          "recovery", "stop", "start", "serving", "removed"}
Confs == {"blank", "replicating"}

Disks == [files : {"none", "some", "all"}, version : BOOLEAN, system : Members,
          standby : BOOLEAN, conf : Confs, backup : Confs \cup {"absent"}]

TypeOK ==
  /\ step \in [Members -> Steps]
  /\ disk \in [Members -> Disks]
  /\ live \in [Members -> BOOLEAN]
  /\ master \in Members
  /\ script \in [Scripts -> {"idle", "sed", "write"}]
  /\ faults \in 0..MaxFaults
  /\ caught \subseteq Members /\ served \subseteq Members

EmptyDisk(i) == [files |-> "none", version |-> FALSE, system |-> i,
                 standby |-> FALSE, conf |-> "blank", backup |-> "absent"]

\* New volumes, and ReplicaSets that were created before the master's.
Init ==
  /\ step = [i \in Members |-> "down"]
  /\ disk = [i \in Members |-> EmptyDisk(i)]
  /\ live = [i \in Members |-> FALSE]
  /\ master = First
  /\ script = [s \in Scripts |-> "idle"]
  /\ faults = 0
  /\ caught = {} /\ served = {}

Goto(i, l) == step' = [step EXCEPT ![i] = l]

Rest == <<live, master, script, faults, caught, served>>

-----------------------------------------------------------------------------
(* docker-entrypoint.sh.                                                   *)

\* The kubelet starts the container, for the first time or again.
StartContainer(i) ==
  /\ step[i] = "down"
  /\ Goto(i, "check")
  /\ UNCHANGED <<disk, Rest>>

Check_runInitAlways(i) ==
  /\ step[i] = "check"
  /\ Goto(i, IF disk[i].version THEN "configure" ELSE "initdb")
  /\ UNCHANGED <<disk, Rest>>

\* "look specifically for PG_VERSION".
Check(i) ==
  /\ step[i] = "check"
  /\ Goto(i, IF disk[i].version THEN "start" ELSE "initdb")
  /\ UNCHANGED <<disk, Rest>>

\* initdb refuses a directory that is not empty.
Initdb(i) ==
  /\ step[i] = "initdb"
  /\ IF disk[i].files = "none"
     THEN /\ Goto(i, "configure")
          /\ disk' = [disk EXCEPT ![i].files = "all", ![i].version = TRUE]
     ELSE Goto(i, "down") /\ UNCHANGED disk
  /\ UNCHANGED Rest

\* The temporary server is stopped before the last start.
StopTemporary(i) ==
  /\ step[i] = "stop"
  /\ Goto(i, "start")
  /\ UNCHANGED <<disk, Rest>>

\* exec postgres: it gives up on files that are not complete.
ExecPostgres(i) ==
  /\ step[i] = "start"
  /\ IF disk[i].files = "all"
     THEN /\ Goto(i, "serving")
          /\ live' = [live EXCEPT ![i] = disk[i].conf = "replicating"]
          /\ served' = served \cup {i}
     ELSE Goto(i, "down") /\ UNCHANGED <<live, served>>
  /\ UNCHANGED <<disk, master, script, faults, caught>>

-----------------------------------------------------------------------------
(* init.sh.                                                                *)

\* configure_master appends the replication block to the configuration.
ConfigureMaster(i) ==
  /\ step[i] = "configure" /\ i = First
  /\ Goto(i, "stop")
  /\ disk' = [disk EXCEPT ![i].conf = "replicating"]
  /\ UNCHANGED Rest

\* configure_slave stops the server and removes everything initdb has made.
ConfigureSlave(i) ==
  /\ step[i] = "configure" /\ i \in Slaves
  /\ Goto(i, "basebackup")
  /\ disk' = [disk EXCEPT ![i] = EmptyDisk(i)]
  /\ UNCHANGED Rest

\* A replication connection needs a server behind the write service that has
\* loaded max_wal_senders; the temporary server listens on localhost only.
MasterSends(i) == i # master /\ step[master] = "serving" /\ live[master]

BackupBegins(i) ==
  /\ step[i] = "basebackup"
  /\ MasterSends(i)
  /\ Goto(i, "copying")
  /\ disk' = [disk EXCEPT ![i].files = "some"]
  /\ UNCHANGED Rest

BackupRefused_keepsDirectory(i) ==
  /\ step[i] = "basebackup"
  /\ ~MasterSends(i)
  /\ Goto(i, "down")
  /\ disk' = [disk EXCEPT ![i].files = "some"]
  /\ UNCHANGED Rest

BackupRefused(i) ==
  /\ step[i] = "basebackup"
  /\ ~MasterSends(i)
  /\ Goto(i, "down")
  /\ UNCHANGED <<disk, Rest>>

BackupEnds_done(i) ==
  /\ step[i] = "copying"
  /\ Goto(i, "stop")
  /\ disk' = [disk EXCEPT ![i] = [disk[master] EXCEPT !.standby = FALSE]]
  /\ UNCHANGED Rest

\* The copy has all the files of the master, its configuration as it is while it
\* is copied: a script may be at work on it.
BackupEnds(i) ==
  /\ step[i] = "copying"
  /\ Goto(i, "recovery")
  /\ disk' = [disk EXCEPT ![i] = [disk[master] EXCEPT !.standby = FALSE]]
  /\ caught' = IF disk[master].conf = "blank" \/ master \in caught
               THEN caught \cup {i} ELSE caught
  /\ UNCHANGED <<live, master, script, faults, served>>

\* recovery.conf is copied from the sample, completed, and a server is started.
WriteRecoveryConf(i) ==
  /\ step[i] = "recovery"
  /\ Goto(i, "stop")
  /\ disk' = [disk EXCEPT ![i].standby = TRUE]
  /\ UNCHANGED Rest

Container(i) ==
  \/ StartContainer(i) \/ Check(i) \/ Initdb(i) \/ StopTemporary(i) \/ ExecPostgres(i)
  \/ ConfigureMaster(i) \/ ConfigureSlave(i)
  \/ BackupBegins(i) \/ BackupRefused(i) \/ BackupEnds(i) \/ WriteRecoveryConf(i)

-----------------------------------------------------------------------------
(* setreplicas.sh, executed in the container of the master.                *)

CopyToBackup_skipped(s) ==
  /\ script[s] = "idle"
  /\ disk[master].files = "all" /\ step[master] \notin {"down", "removed"}
  /\ script' = [script EXCEPT ![s] = "sed"]
  /\ UNCHANGED <<step, disk, live, master, faults, caught, served>>

\* cp to the backup.  TIMESTAMP is an array, so that the backup always has the
\* same name.  The container may still be on its way to the last start.
CopyToBackup(s) ==
  /\ script[s] = "idle"
  /\ disk[master].files = "all" /\ step[master] \notin {"down", "removed"}
  /\ script' = [script EXCEPT ![s] = "sed"]
  /\ disk' = [disk EXCEPT ![master].backup = disk[master].conf]
  /\ caught' = IF step[master] # "serving" \/ \E t \in Scripts : script[t] # "idle"
               THEN caught \cup {master} ELSE caught
  /\ UNCHANGED <<step, live, master, faults, served>>

\* Before there is a postgresql.conf cp and sed fail, and the shell makes an empty one all
\* the same, in a directory that has to be empty for initdb.
WriteWithoutConf(s) ==
  /\ script[s] = "idle"
  /\ disk[master].files # "all" /\ step[master] \notin {"down", "removed"}
  /\ disk' = [disk EXCEPT ![master].files = "some"]
  /\ caught' = caught \cup {master}
  /\ UNCHANGED <<step, live, master, script, faults, served>>

\* The shell empties postgresql.conf before sed starts to fill it.
EmptyConf(s) ==
  /\ script[s] = "sed"
  /\ script' = [script EXCEPT ![s] = "write"]
  /\ disk' = [disk EXCEPT ![master].conf = "blank"]
  /\ UNCHANGED <<step, live, master, faults, caught, served>>

\* sed writes the backup with the new names.
FillConf(s) ==
  /\ script[s] = "write"
  /\ script' = [script EXCEPT ![s] = "idle"]
  /\ disk' = [disk EXCEPT ![master].conf = disk[master].backup]
  /\ UNCHANGED <<step, live, master, faults, caught, served>>

Script(s) == CopyToBackup(s) \/ WriteWithoutConf(s) \/ EmptyConf(s) \/ FillConf(s)

-----------------------------------------------------------------------------
(* Failures.                                                               *)

\* What the disk of i may hold after its container died at its present step.
Left(i) ==
  LET Cut == {[disk[i] EXCEPT !.files = "some", !.version = v] : v \in BOOLEAN} IN
  CASE step[i] = "initdb" /\ disk[i].files = "none" -> {disk[i]} \cup Cut
    [] step[i] = "configure" /\ i \in Slaves -> {disk[i]} \cup Cut
    [] step[i] = "copying" -> Cut
    [] OTHER -> {disk[i]}

\* The steps after which a new start takes the disk for a finished one, or
\* cannot use it.
HalfWay(i) ==
  \/ step[i] \in {"initdb", "configure", "copying", "recovery"}
  \/ i = master /\ \E s \in Scripts : script[s] # "idle"

\* The members whose container ends with that of i: a copy does not outlive the
\* server it is taken from.
EndsWith(i) == {i} \cup {j \in Members : i = master /\ step[j] = "copying"}

\* The container of i ends, for good when its ReplicaSet is removed with it.
Dies(i, next) ==
  /\ faults < MaxFaults
  /\ faults' = faults + 1
  /\ step[i] \notin {"down", "removed"}
  /\ step' = [j \in Members |->
                IF j = i THEN next ELSE IF j \in EndsWith(i) THEN "down" ELSE step[j]]
  /\ \E left \in [EndsWith(i) -> UNION {Left(j) : j \in EndsWith(i)}] :
       /\ \A j \in EndsWith(i) : left[j] \in Left(j)
       /\ disk' = [j \in Members |-> IF j \in EndsWith(i) THEN left[j] ELSE disk[j]]
  /\ live' = [live EXCEPT ![i] = FALSE]
  /\ script' = IF i = master THEN [s \in Scripts |-> "idle"] ELSE script
  /\ caught' = caught \cup {j \in EndsWith(i) : HalfWay(j)}
  /\ UNCHANGED <<master, served>>

\* pgctl failover after the master was lost: i gets the label and the trigger.
Failover(i) ==
  /\ step[master] = "removed"
  /\ step[i] = "serving" /\ disk[i].standby
  /\ master' = i
  /\ disk' = [disk EXCEPT ![i].standby = FALSE]
  /\ UNCHANGED <<step, live, script, faults, caught, served>>

Next ==
  \/ \E i \in Members : Container(i) \/ Dies(i, "down") \/ Failover(i)
  \/ Dies(master, "removed")
  \/ \E s \in Scripts : Script(s)

Spec == Init /\ [][Next]_vars

\* The kubelet restarts containers and their scripts go on; nobody has to run
\* setreplicas, to fail over or to fail.
FairSpec == Spec /\ \A i \in Members : WF_vars(Container(i))

-----------------------------------------------------------------------------
(* Properties.                                                             *)

Serving == {i \in Members : step[i] = "serving"}

\* A member that has served keeps its database whenever its container starts
\* again, also after it was promoted: the first start is never repeated on it.
DataKept ==
  [][\A i \in served :
       disk'[i].files = "all" /\ disk'[i].system = disk[i].system]_vars

\* A member that no failure caught half way serves as a standby with the database
\* of the master, or is the master.
OneDatabase ==
  \A i \in Serving \ (caught \cup {master}) :
    disk[i].standby /\ disk[i].system = disk[master].system

\* It has the configuration it needs to send to others once it is promoted.
CanLead ==
  \A i \in Serving \ caught :
    \/ disk[i].conf = "replicating"
    \/ i = master /\ \E s \in Scripts : script[s] # "idle"

Replicates(i) ==
  step[i] = "serving" /\ (i = master \/ disk[i].standby) /\ (i = master => live[i])

\* Replication begins between all members no failure caught half way, although the
\* replicas are started before the master and their first copies are refused.
ReplicationBegins ==
  <>[](\/ step[master] = "removed" \/ master \in caught
       \/ \A i \in Members \ caught : step[i] = "removed" \/ Replicates(i))

\* The invariant behind TypeOK and DataKept.  PG_VERSION is there when the files are
\* complete, so a complete disk never meets initdb again.
Complete ==
  \A i \in Members :
    /\ disk[i].files = "all" => disk[i].version
    /\ step[i] = "initdb" => ~disk[i].version

\* Who has served is complete and never at a step that removes files.
ServedIsComplete ==
  /\ \A i \in served :
       disk[i].files = "all" /\ step[i] \in {"down", "check", "start", "serving", "removed"}
  /\ \A i \in Members : step[i] = "serving" => i \in served

\* The master is the first member, which never copies from others, or has served.
MasterIsComplete ==
  /\ step[First] \notin {"basebackup", "copying", "recovery"}
  /\ master = First \/ master \in served
  /\ \A i \in Members : step[i] = "copying" => step[master] = "serving"

\* A script at work has made its backup of the master's complete disk.
ScriptHasBackup ==
  \A s \in Scripts : script[s] # "idle" =>
    /\ disk[master].files = "all" /\ disk[master].backup # "absent"
    /\ step[master] \notin {"down", "removed"}

DiskInv == TypeOK /\ Complete /\ ServedIsComplete /\ MasterIsComplete /\ ScriptHasBackup

\* Behind OneDatabase: all that is replicated descends from the initdb of the first
\* member, which is gone for good once somebody else is master.
OneOrigin ==
  /\ disk[First].system = First /\ disk[master].system = First
  /\ \A i \in Members : disk[i].standby \/ step[i] = "recovery" => disk[i].system = First
  /\ master = First \/ step[First] = "removed"

\* Where PG_VERSION is, and where it is not.
VersionFollows ==
  \A i \in Members :
    /\ step[i] \in {"configure", "recovery", "stop", "start", "serving"} => disk[i].version
    /\ step[i] \in {"basebackup", "copying"} => ~disk[i].version

\* PG_VERSION on a disk that no failure caught half way means that the first start
\* went all the way, so that the next one may skip it.
Unharmed ==
  \A i \in Members \ caught :
    disk[i].version /\ step[i] \notin {"configure", "removed"} =>
      /\ i = master \/ step[i] = "recovery" \/ disk[i].standby
      /\ disk[i].conf = "replicating" \/ (i = master /\ \E s \in Scripts : script[s] = "write")

\* Behind CanLead: alone at a server that is up, a script fills in what it has emptied.
ScriptRestores ==
  master \notin caught =>
    \A s \in Scripts : script[s] # "idle" =>
      /\ step[master] = "serving" /\ disk[master].backup = "replicating"
      /\ \A t \in Scripts : script[t] # "idle" => t = s

IInv == DiskInv /\ OneOrigin /\ VersionFollows /\ Unharmed /\ ScriptRestores

=============================================================================
