---------------------------- MODULE PgNodeProofs ----------------------------
(***************************************************************************)
(* Theorems about PgNode, for every set of members and of scripts and any  *)
(* number of failures.  The lemmas about DiskInv come first: a member that  *)
(* has served is complete and past the steps that remove files.  On it     *)
(* stand those about the rest of IInv: all that is replicated descends     *)
(* from the initdb of the first member, and a first start that no failure  *)
(* caught half way leaves a standby that can lead.                         *)
(***************************************************************************)
EXTENDS PgNode, TLAPS

USE MembersAssumption, FaultsAssumption

\* The initial states satisfy the invariant.
LEMMA InitDiskInv == Init => DiskInv
  BY DEF Init, DiskInv, TypeOK, Complete, ServedIsComplete, MasterIsComplete,
         ScriptHasBackup, EmptyDisk, Disks, Confs, Steps, Members

LEMMA FirstIsMember == First \in Members
  BY DEF Members

\* A step of the entrypoint keeps the invariant.
LEMMA EntrypointKeepsDiskInv ==
  ASSUME DiskInv, NEW i \in Members,
         StartContainer(i) \/ Check(i) \/ Initdb(i) \/ StopTemporary(i) \/ ExecPostgres(i)
  PROVE  DiskInv'
<1> USE FirstIsMember DEF DiskInv, TypeOK, Complete, ServedIsComplete, MasterIsComplete,
            ScriptHasBackup, Goto, Rest, Steps
<1>1. CASE StartContainer(i)
  BY <1>1 DEF StartContainer
<1>2. CASE Check(i)
  BY <1>2 DEF Check
<1>3. CASE Initdb(i)
  <2>1. CASE disk[i].files = "none"
    <3> DEFINE new == [[disk[i] EXCEPT !.files = "all"] EXCEPT !.version = TRUE]
    <3>1. new \in Disks /\ new.files = "all" /\ new.version
      <4>1. disk[i] \in Disks
        OBVIOUS
      <4> QED
        BY <4>1, Zenon DEF Disks
    <3>2. /\ step[i] = "initdb" /\ step' = [step EXCEPT ![i] = "configure"]
          /\ disk' = [disk EXCEPT ![i] = new] /\ UNCHANGED Rest
      BY <1>3, <2>1 DEF Initdb
    <3> HIDE DEF new
    <3>3. TypeOK'
      BY <3>1, <3>2
    <3>4. Complete' /\ ServedIsComplete' /\ MasterIsComplete'
      BY <3>1, <3>2
    <3>5. ScriptHasBackup'
      BY <2>1, <3>2
    <3> QED
      BY <3>3, <3>4, <3>5
  <2>2. CASE disk[i].files # "none"
    <3>1. disk[i].files # "all"
      BY <1>3 DEF Initdb
    <3> QED
      BY <1>3, <2>2, <3>1 DEF Initdb
  <2> QED
    BY <2>1, <2>2
<1>4. CASE StopTemporary(i)
  BY <1>4 DEF StopTemporary
<1>5. CASE ExecPostgres(i)
  <2>1. CASE disk[i].files = "all"
    <3>1. /\ step[i] = "start" /\ step' = [step EXCEPT ![i] = "serving"]
          /\ \E l \in BOOLEAN : live' = [live EXCEPT ![i] = l]
          /\ served' = served \cup {i}
          /\ UNCHANGED <<disk, master, script, faults, caught>>
      BY <1>5, <2>1 DEF ExecPostgres
    <3>2. TypeOK'
      BY <3>1
    <3>3. Complete' /\ ServedIsComplete' /\ MasterIsComplete' /\ ScriptHasBackup'
      BY <2>1, <3>1
    <3> QED
      BY <3>2, <3>3
  <2>2. CASE disk[i].files # "all"
    BY <1>5, <2>2 DEF ExecPostgres
  <2> QED
    BY <2>1, <2>2
<1> QED
  BY <1>1, <1>2, <1>3, <1>4, <1>5

\* A step of init.sh keeps the invariant.
LEMMA InitScriptKeepsDiskInv ==
  ASSUME DiskInv, NEW i \in Members,
         \/ ConfigureMaster(i) \/ ConfigureSlave(i)
         \/ BackupBegins(i) \/ BackupRefused(i) \/ BackupEnds(i) \/ WriteRecoveryConf(i)
  PROVE  DiskInv'
<1> USE FirstIsMember DEF DiskInv, TypeOK, Complete, ServedIsComplete, MasterIsComplete,
            ScriptHasBackup, Goto, Rest, Steps
<1>1. CASE ConfigureMaster(i)
  BY <1>1 DEF ConfigureMaster, Disks, Confs
<1>2. CASE ConfigureSlave(i)
  BY <1>2 DEF ConfigureSlave, EmptyDisk, Disks, Confs, Members
<1>3. CASE BackupBegins(i)
  BY <1>3 DEF BackupBegins, MasterSends, Disks, Members
<1>4. CASE BackupRefused(i)
  BY <1>4 DEF BackupRefused
<1>5. CASE BackupEnds(i)
  <2>1. /\ step[i] = "copying" /\ step[master] = "serving" /\ master # i
        /\ master \in Members /\ master \in served /\ i \notin served
        /\ disk[master] \in Disks /\ disk[master].files = "all" /\ disk[master].version
    BY <1>5 DEF BackupEnds
  <2>2. TypeOK'
    <3> DEFINE copy == [disk[master] EXCEPT !.standby = FALSE]
    <3>1. copy \in Disks
      BY <2>1 DEF Disks
    <3>2. /\ step' = [step EXCEPT ![i] = "recovery"]
          /\ disk' = [disk EXCEPT ![i] = copy]
          /\ caught' \subseteq caught \cup {i}
          /\ UNCHANGED <<live, master, script, faults, served>>
      BY <1>5 DEF BackupEnds
    <3> HIDE DEF copy
    <3> QED
      BY <3>1, <3>2
  <2>3. Complete' /\ ServedIsComplete'
    BY <1>5, <2>1 DEF BackupEnds, Disks
  <2>4. MasterIsComplete' /\ ScriptHasBackup'
    BY <1>5, <2>1 DEF BackupEnds
  <2> QED
    BY <2>2, <2>3, <2>4
<1>6. CASE WriteRecoveryConf(i)
  <2>1. i # master /\ i \notin served
    BY <1>6 DEF WriteRecoveryConf
  <2>2. TypeOK'
    <3> DEFINE new == [disk[i] EXCEPT !.standby = TRUE]
    <3>1. new \in Disks
      <4>1. disk[i] \in Disks
        OBVIOUS
      <4> QED
        BY <4>1, Zenon DEF Disks
    <3>2. /\ step' = [step EXCEPT ![i] = "stop"]
          /\ disk' = [disk EXCEPT ![i] = new] /\ UNCHANGED Rest
      BY <1>6 DEF WriteRecoveryConf
    <3> HIDE DEF new
    <3> QED
      BY <3>1, <3>2
  <2>3. Complete' /\ ServedIsComplete' /\ MasterIsComplete' /\ ScriptHasBackup'
    BY <1>6, <2>1 DEF WriteRecoveryConf
  <2> QED
    BY <2>2, <2>3
<1> QED
  BY <1>1, <1>2, <1>3, <1>4, <1>5, <1>6

\* A step of setreplicas.sh keeps the invariant.
LEMMA ScriptKeepsDiskInv ==
  ASSUME DiskInv, NEW s \in Scripts, Script(s)
  PROVE  DiskInv'
<1> USE DEF DiskInv, TypeOK, Complete, ServedIsComplete, MasterIsComplete,
            ScriptHasBackup, Disks, Confs
<1>1. CASE CopyToBackup(s)
  BY <1>1 DEF CopyToBackup
<1>2. CASE EmptyConf(s)
  BY <1>2 DEF EmptyConf
<1>3. CASE FillConf(s)
  BY <1>3 DEF FillConf
<1>4. CASE WriteWithoutConf(s)
  BY <1>4 DEF WriteWithoutConf
<1> QED
  BY <1>1, <1>2, <1>3, <1>4 DEF Script

\* What a dead container leaves is a disk; a disk that is complete is left alone
\* unless a first start was at work on it.
LEMMA LeftDisk ==
  ASSUME DiskInv, NEW j \in Members, NEW d \in Left(j)
  PROVE  /\ d \in Disks
         /\ d.files = "all" => d.version
         /\ j \in served => d = disk[j]
<1>1. disk[j] \in Disks /\ (disk[j].files = "all" => disk[j].version)
  BY DEF DiskInv, TypeOK, Complete
<1>2. d = disk[j] \/ \E v \in BOOLEAN : d = [disk[j] EXCEPT !.files = "some", !.version = v]
  BY DEF Left
<1>3. j \in served => step[j] \notin {"initdb", "configure", "copying"}
  BY DEF DiskInv, ServedIsComplete
<1>4. j \in served => d = disk[j]
  BY <1>3 DEF Left
<1>5. CASE d = disk[j]
  BY <1>1, <1>4, <1>5
<1>6. ASSUME NEW v \in BOOLEAN, d = [disk[j] EXCEPT !.files = "some", !.version = v]
      PROVE  d \in Disks /\ d.files # "all"
  BY <1>1, <1>6 DEF Disks
<1> QED
  BY <1>2, <1>4, <1>5, <1>6

\* The end of a container keeps the invariant.
LEMMA DiesKeepsDiskInv ==
  ASSUME DiskInv, NEW i \in Members, NEW next \in {"down", "removed"}, Dies(i, next)
  PROVE  DiskInv'
<1>1. PICK left \in [EndsWith(i) -> UNION {Left(j) : j \in EndsWith(i)}] :
        /\ \A j \in EndsWith(i) : left[j] \in Left(j)
        /\ disk' = [j \in Members |-> IF j \in EndsWith(i) THEN left[j] ELSE disk[j]]
  BY DEF Dies
<1>2. EndsWith(i) \subseteq Members /\ i \in EndsWith(i)
  BY DEF EndsWith
<1>3. \A j \in Members :
        /\ disk'[j] \in Disks
        /\ disk'[j].files = "all" => disk'[j].version
        /\ j \in served => disk'[j] = disk[j]
        /\ j \notin EndsWith(i) => disk'[j] = disk[j]
  BY <1>1, <1>2, LeftDisk DEF DiskInv, TypeOK, Complete
<1>4. \A j \in Members :
        step'[j] = (IF j = i THEN next ELSE IF j \in EndsWith(i) THEN "down" ELSE step[j])
  BY DEF Dies
<1>5. UNCHANGED <<master, served>>
  BY DEF Dies
<1>6. TypeOK'
  <2>1. disk' \in [Members -> Disks]
    BY <1>1, <1>3
  <2>2. step' \in [Members -> Steps]
    BY DEF Dies, DiskInv, TypeOK, Steps
  <2>3. live' \in [Members -> BOOLEAN] /\ faults' \in 0..MaxFaults
    BY DEF Dies, DiskInv, TypeOK
  <2>4. caught' \subseteq Members
    BY <1>2 DEF Dies, DiskInv, TypeOK
  <2>5. script' \in [Scripts -> {"idle", "sed", "write"}]
    BY DEF Dies, DiskInv, TypeOK
  <2> QED
    BY <1>5, <2>1, <2>2, <2>3, <2>4, <2>5 DEF DiskInv, TypeOK
<1>7. Complete'
  BY <1>3, <1>4 DEF DiskInv, Complete
<1>8. ServedIsComplete'
  BY <1>3, <1>4, <1>5 DEF DiskInv, TypeOK, ServedIsComplete
<1>9. MasterIsComplete'
  <2>1. step'[First] \notin {"basebackup", "copying", "recovery"}
    BY <1>4 DEF DiskInv, MasterIsComplete, Members
  <2>2. master' = First \/ master' \in served'
    BY <1>5 DEF DiskInv, MasterIsComplete
  <2>3. ASSUME NEW j \in Members, step'[j] = "copying"
        PROVE  step'[master] = "serving"
    <3>1. j # i /\ j \notin EndsWith(i) /\ step[j] = "copying"
      BY <1>4, <2>3
    <3>2. i # master /\ step[master] = "serving"
      BY <3>1 DEF EndsWith, DiskInv, MasterIsComplete
    <3>3. master \in Members /\ master \notin EndsWith(i)
      BY <3>2 DEF EndsWith, DiskInv, TypeOK
    <3> QED
      BY <1>4, <3>2, <3>3
  <2> QED
    BY <1>5, <2>1, <2>2, <2>3 DEF MasterIsComplete
<1>10. ScriptHasBackup'
  <2>1. CASE i = master
    BY <1>5, <2>1 DEF Dies, ScriptHasBackup
  <2>2. CASE i # master
    <3>1. master \notin EndsWith(i) /\ master \in Members
      BY <2>2 DEF EndsWith, DiskInv, TypeOK
    <3> QED
      BY <1>3, <1>4, <1>5, <2>2, <3>1 DEF Dies, DiskInv, ScriptHasBackup
  <2> QED
    BY <2>1, <2>2
<1> QED
  BY <1>6, <1>7, <1>8, <1>9, <1>10 DEF DiskInv

\* A failover keeps the invariant: the standby it promotes has served.
LEMMA FailoverKeepsDiskInv ==
  ASSUME DiskInv, NEW i \in Members, Failover(i)
  PROVE  DiskInv'
<1>1. /\ step[master] = "removed" /\ step[i] = "serving" /\ i \in served
      /\ disk' = [disk EXCEPT ![i].standby = FALSE] /\ master' = i
      /\ UNCHANGED <<step, live, script, faults, caught, served>>
  BY DEF Failover, DiskInv, ServedIsComplete
<1>2. /\ \A s \in Scripts : script[s] = "idle"
      /\ \A j \in Members : step[j] # "copying"
  BY <1>1 DEF DiskInv, MasterIsComplete, ScriptHasBackup
<1>3. TypeOK'
  BY <1>1 DEF DiskInv, TypeOK, Disks
<1>4. Complete' /\ ServedIsComplete'
  BY <1>1 DEF DiskInv, TypeOK, Complete, ServedIsComplete, Disks
<1>5. MasterIsComplete' /\ ScriptHasBackup'
  BY <1>1, <1>2 DEF DiskInv, MasterIsComplete, ScriptHasBackup
<1> QED
  BY <1>3, <1>4, <1>5 DEF DiskInv

\* The members that Init leaves have no PG_VERSION.
LEMMA InitIInv == Init => IInv
  BY InitDiskInv, FirstIsMember
     DEF Init, IInv, OneOrigin, VersionFollows, Unharmed, ScriptRestores, EmptyDisk

\* A step of the entrypoint keeps the invariant: it skips the first start only where
\* PG_VERSION says that it went all the way.
LEMMA EntrypointKeepsIInv ==
  ASSUME IInv, NEW i \in Members,
         StartContainer(i) \/ Check(i) \/ Initdb(i) \/ StopTemporary(i) \/ ExecPostgres(i)
  PROVE  IInv'
<1>1. /\ step \in [Members -> Steps] /\ disk \in [Members -> Disks] /\ master \in Members
      /\ DiskInv'
  BY EntrypointKeepsDiskInv DEF IInv, DiskInv, TypeOK
<1>2. \/ disk' = disk
      \/ /\ step' = [step EXCEPT ![i] = "configure"]
         /\ disk' = [disk EXCEPT ![i].files = "all", ![i].version = TRUE]
  BY DEF StartContainer, Check, Initdb, StopTemporary, ExecPostgres, Goto, Rest
<1>3. \A j \in Members :
        /\ disk'[j].system = disk[j].system /\ disk'[j].standby = disk[j].standby
        /\ disk'[j].conf = disk[j].conf /\ disk'[j].backup = disk[j].backup
        /\ disk'[j] = disk[j] \/ (j = i /\ step'[i] = "configure" /\ disk'[i].version)
  BY <1>1, <1>2 DEF Disks
<1>4. PICK l \in Steps :
        /\ step' = [step EXCEPT ![i] = l]
        /\ step[i] \in {"down", "check", "initdb", "stop", "start"}
        /\ l \in {"down", "check", "initdb", "configure", "start", "serving"}
        /\ l \in {"configure", "start", "serving"} => disk'[i].version
        /\ UNCHANGED <<master, script, caught>>
  <2>1. step[i] \in {"stop", "start"} => disk'[i].version
    BY <1>1, <1>3 DEF IInv, VersionFollows
  <2>2. UNCHANGED <<master, script, caught>>
    BY DEF StartContainer, Check, Initdb, StopTemporary, ExecPostgres, Rest
  <2>3. \/ step[i] = "down" /\ Goto(i, "check")
        \/ step[i] = "check" /\ disk'[i].version /\ Goto(i, "start")
        \/ step[i] = "check" /\ Goto(i, "initdb")
        \/ step[i] = "initdb" /\ disk'[i].version /\ Goto(i, "configure")
        \/ step[i] = "initdb" /\ Goto(i, "down")
        \/ step[i] = "stop" /\ Goto(i, "start")
        \/ step[i] = "start" /\ Goto(i, "serving")
        \/ step[i] = "start" /\ Goto(i, "down")
    BY <1>1 DEF StartContainer, Check, Initdb, StopTemporary, ExecPostgres, Goto, Disks
  <2> QED
    BY <2>1, <2>2, <2>3 DEF Goto, Steps
<1>5. OneOrigin'
  BY <1>1, <1>3, <1>4, FirstIsMember DEF IInv, OneOrigin
<1>6. VersionFollows'
  BY <1>1, <1>3, <1>4 DEF IInv, VersionFollows
<1>7. Unharmed'
  BY <1>1, <1>3, <1>4 DEF IInv, Unharmed
<1>8. ScriptRestores'
  <2>1. \A s \in Scripts : script[s] # "idle" /\ master \notin caught => step[master] = "serving"
    BY DEF IInv, ScriptRestores
  <2> QED
    BY <1>1, <1>3, <1>4, <2>1 DEF IInv, ScriptRestores
<1> QED
  BY <1>1, <1>5, <1>6, <1>7, <1>8 DEF IInv

\* A step of init.sh keeps the invariant: what a replica copies is the database of the
\* first member, and its configuration is whole unless the copy caught it half way.
LEMMA InitScriptKeepsIInv ==
  ASSUME IInv, NEW i \in Members,
         \/ ConfigureMaster(i) \/ ConfigureSlave(i)
         \/ BackupBegins(i) \/ BackupRefused(i) \/ BackupEnds(i) \/ WriteRecoveryConf(i)
  PROVE  IInv'
<1>1. /\ step \in [Members -> Steps] /\ disk \in [Members -> Disks] /\ master \in Members
      /\ DiskInv' /\ UNCHANGED <<master, script>>
  BY InitScriptKeepsDiskInv
     DEF IInv, DiskInv, TypeOK, ConfigureMaster, ConfigureSlave, BackupBegins,
         BackupRefused, BackupEnds, WriteRecoveryConf, Rest
<1> USE <1>1 DEF Goto, Rest
<1>2. CASE ConfigureMaster(i)
  <2>1. /\ i = First /\ i = master /\ disk[i].version /\ caught' = caught
        /\ step[i] = "configure" /\ step' = [step EXCEPT ![i] = "stop"]
        /\ disk' = [disk EXCEPT ![i].conf = "replicating"]
    BY <1>2 DEF ConfigureMaster, IInv, OneOrigin, VersionFollows
  <2>2. OneOrigin' /\ VersionFollows'
    BY <2>1 DEF IInv, OneOrigin, VersionFollows, Disks
  <2>3. Unharmed' /\ ScriptRestores'
    BY <2>1 DEF IInv, Unharmed, ScriptRestores, Disks
  <2> QED
    BY <2>2, <2>3 DEF IInv
<1>3. CASE ConfigureSlave(i)
  <2>1. /\ i # First /\ i # master /\ caught' = caught
        /\ step[i] = "configure" /\ step' = [step EXCEPT ![i] = "basebackup"]
        /\ disk' = [disk EXCEPT ![i] = EmptyDisk(i)]
    BY <1>3, MembersAssumption
       DEF ConfigureSlave, IInv, DiskInv, MasterIsComplete, ServedIsComplete
  <2>2. OneOrigin' /\ VersionFollows'
    BY <2>1, FirstIsMember DEF IInv, OneOrigin, VersionFollows, EmptyDisk
  <2>3. Unharmed' /\ ScriptRestores'
    BY <2>1 DEF IInv, Unharmed, ScriptRestores, EmptyDisk
  <2> QED
    BY <2>2, <2>3 DEF IInv
<1>4. CASE BackupBegins(i) \/ BackupRefused(i)
  <2>1. /\ i # master /\ caught' = caught /\ step[i] = "basebackup"
        /\ \E l \in {"copying", "down"} : step' = [step EXCEPT ![i] = l]
        /\ disk' = [disk EXCEPT ![i].files = "some"] \/ disk' = disk
    BY <1>4, FirstIsMember
       DEF BackupBegins, BackupRefused, IInv, DiskInv, MasterIsComplete, ServedIsComplete
  <2>2. \A j \in Members :
          /\ disk'[j].system = disk[j].system /\ disk'[j].standby = disk[j].standby
          /\ disk'[j].version = disk[j].version /\ disk'[j].conf = disk[j].conf
          /\ disk'[j].backup = disk[j].backup
    BY <2>1 DEF Disks
  <2>3. ~disk[i].version
    BY <2>1 DEF IInv, VersionFollows
  <2>4. OneOrigin' /\ VersionFollows'
    BY <2>1, <2>2, <2>3, FirstIsMember DEF IInv, OneOrigin, VersionFollows
  <2>5. Unharmed' /\ ScriptRestores'
    BY <2>1, <2>2, <2>3 DEF IInv, Unharmed, ScriptRestores
  <2> QED
    BY <2>4, <2>5 DEF IInv
<1>5. CASE BackupEnds(i)
  <2>1. /\ i # master /\ i # First /\ step[i] = "copying" /\ step[master] = "serving"
        /\ step' = [step EXCEPT ![i] = "recovery"]
        /\ disk' = [disk EXCEPT ![i] = [disk[master] EXCEPT !.standby = FALSE]]
        /\ caught \subseteq caught'
        /\ i \notin caught' => disk[master].conf = "replicating"
        /\ \A j \in Members \ {i} : j \in caught' => j \in caught
    BY <1>5 DEF BackupEnds, IInv, DiskInv, MasterIsComplete, Disks, Confs
  <2>2. /\ disk'[i].system = First /\ disk'[i].version /\ ~disk'[i].standby
        /\ disk'[i].conf = disk[master].conf
        /\ \A j \in Members \ {i} : disk'[j] = disk[j]
    BY <2>1 DEF IInv, OneOrigin, VersionFollows, Disks
  <2>3. OneOrigin' /\ VersionFollows'
    BY <2>1, <2>2, FirstIsMember DEF IInv, OneOrigin, VersionFollows
  <2>4. Unharmed' /\ ScriptRestores'
    BY <2>1, <2>2 DEF IInv, Unharmed, ScriptRestores
  <2> QED
    BY <2>3, <2>4 DEF IInv
<1>6. CASE WriteRecoveryConf(i)
  <2>1. /\ i # master /\ caught' = caught
        /\ step[i] = "recovery" /\ step' = [step EXCEPT ![i] = "stop"]
        /\ disk' = [disk EXCEPT ![i].standby = TRUE]
    BY <1>6, FirstIsMember
       DEF WriteRecoveryConf, IInv, DiskInv, MasterIsComplete, ServedIsComplete
  <2>2. OneOrigin' /\ VersionFollows'
    BY <2>1 DEF IInv, OneOrigin, VersionFollows, Disks
  <2>3. Unharmed' /\ ScriptRestores'
    BY <2>1 DEF IInv, VersionFollows, Unharmed, ScriptRestores, Disks
  <2> QED
    BY <2>2, <2>3 DEF IInv
<1> QED
  BY <1>2, <1>3, <1>4, <1>5, <1>6

\* A step of setreplicas.sh keeps the invariant: the backup it makes alone of a server
\* that is up is the configuration that it puts back.
LEMMA ScriptKeepsIInv ==
  ASSUME IInv, NEW s \in Scripts, Script(s)
  PROVE  IInv'
<1>1. /\ step \in [Members -> Steps] /\ disk \in [Members -> Disks] /\ master \in Members
      /\ script \in [Scripts -> {"idle", "sed", "write"}]
      /\ DiskInv' /\ UNCHANGED <<step, master>>
  BY ScriptKeepsDiskInv
     DEF IInv, DiskInv, TypeOK, Script, CopyToBackup, WriteWithoutConf, EmptyConf, FillConf
<1>2. /\ \A j \in Members \ {master} :
           /\ disk'[j] = disk[j]
           /\ j \in caught' <=> j \in caught
      /\ caught \subseteq caught'
      /\ disk'[master].system = disk[master].system
      /\ disk'[master].standby = disk[master].standby
      /\ disk'[master].version = disk[master].version
  BY <1>1 DEF Script, CopyToBackup, WriteWithoutConf, EmptyConf, FillConf, Disks
<1>3. OneOrigin' /\ VersionFollows'
  BY <1>1, <1>2, FirstIsMember DEF IInv, OneOrigin, VersionFollows
<1>4. ASSUME master \notin caught'
      PROVE  /\ disk[master].version /\ step[master] = "serving"
             /\ \A t \in Scripts \ {s} : script[t] = "idle" /\ script'[t] = "idle"
             /\ disk'[master].backup = "replicating"
             /\ disk'[master].conf = "replicating" \/ script'[s] = "write"
  <2>1. CASE CopyToBackup(s)
    <3>1. /\ step[master] = "serving" /\ \A t \in Scripts : script[t] = "idle"
          /\ master \notin caught
          /\ disk' = [disk EXCEPT ![master].backup = disk[master].conf]
          /\ script' = [script EXCEPT ![s] = "sed"]
      BY <1>4, <2>1 DEF CopyToBackup
    <3>2. disk[master].version /\ disk[master].conf = "replicating"
      BY <1>1, <3>1 DEF IInv, VersionFollows, Unharmed
    <3> QED
      BY <1>1, <3>1, <3>2 DEF Disks
  <2>2. CASE EmptyConf(s) \/ FillConf(s)
    <3>1. /\ script[s] # "idle" /\ master \notin caught
          /\ \E l \in {"write", "idle"} : script' = [script EXCEPT ![s] = l]
          /\ \E c \in {"blank", disk[master].backup} : disk' = [disk EXCEPT ![master].conf = c]
          /\ script'[s] = "write" \/ disk' = [disk EXCEPT ![master].conf = disk[master].backup]
      BY <1>1, <1>4, <2>2 DEF EmptyConf, FillConf
    <3>2. /\ step[master] = "serving" /\ disk[master].backup = "replicating"
          /\ \A t \in Scripts : script[t] # "idle" => t = s
          /\ disk[master].version
      BY <1>1, <3>1 DEF IInv, VersionFollows, ScriptRestores
    <3> QED
      BY <1>1, <3>1, <3>2 DEF Disks
  <2>3. CASE WriteWithoutConf(s)
    BY <1>4, <2>3 DEF WriteWithoutConf
  <2> QED
    BY <2>1, <2>2, <2>3 DEF Script
<1>5. Unharmed'
  BY <1>1, <1>2, <1>4 DEF IInv, Unharmed
<1>6. ScriptRestores'
  BY <1>1, <1>4 DEF ScriptRestores
<1> QED
  BY <1>1, <1>3, <1>5, <1>6 DEF IInv

\* The end of a container keeps the invariant: the disks it changes are caught.
LEMMA DiesKeepsIInv ==
  ASSUME IInv, NEW i \in Members, NEW next \in {"down", "removed"}, Dies(i, next)
  PROVE  IInv'
<1>1. /\ step \in [Members -> Steps] /\ disk \in [Members -> Disks] /\ master \in Members
      /\ DiskInv' /\ master' = master
  BY DiesKeepsDiskInv DEF IInv, DiskInv, TypeOK, Dies
<1>2. PICK left \in [EndsWith(i) -> UNION {Left(j) : j \in EndsWith(i)}] :
        /\ \A j \in EndsWith(i) : left[j] \in Left(j)
        /\ disk' = [j \in Members |-> IF j \in EndsWith(i) THEN left[j] ELSE disk[j]]
  BY DEF Dies
<1>3. i \in EndsWith(i) /\ EndsWith(i) \subseteq Members
  BY DEF EndsWith
<1>4. \A j \in Members :
        /\ disk'[j].system = disk[j].system /\ disk'[j].standby = disk[j].standby
        /\ disk'[j].conf = disk[j].conf /\ disk'[j].backup = disk[j].backup
  <2>1. \A j \in Members : \A d \in Left(j) :
          /\ d.system = disk[j].system /\ d.standby = disk[j].standby
          /\ d.conf = disk[j].conf /\ d.backup = disk[j].backup
    BY <1>1 DEF Left, Disks
  <2> QED
    BY <1>2, <2>1
<1>5. \A j \in Members :
        step'[j] = (IF j = i THEN next ELSE IF j \in EndsWith(i) THEN "down" ELSE step[j])
  BY DEF Dies
<1>6. /\ step[i] # "removed"
      /\ \A j \in Members : step'[j] \in {step[j], "down", "removed"}
      /\ \A j \in Members \ EndsWith(i) : step'[j] = step[j] /\ disk'[j] = disk[j]
      /\ \A j \in Members : step[j] = "removed" => step'[j] = "removed"
  <2>1. \A j \in EndsWith(i) : j # i => step[j] = "copying"
    BY DEF EndsWith
  <2> QED
    BY <1>2, <1>3, <1>5, <2>1 DEF Dies
<1>7. /\ caught \subseteq caught'
      /\ \A j \in EndsWith(i) \ caught' :
           /\ step[j] \notin {"initdb", "configure", "copying", "recovery"}
           /\ disk'[j] = disk[j]
           /\ j = master => \A s \in Scripts : script[s] = "idle"
  <2>1. \A j \in EndsWith(i) \ caught' : ~HalfWay(j)
    BY DEF Dies
  <2>2. \A j \in EndsWith(i) : ~HalfWay(j) => Left(j) = {disk[j]}
    BY DEF HalfWay, Left
  <2> QED
    BY <1>2, <1>3, <2>1, <2>2 DEF Dies, HalfWay
<1>8. OneOrigin'
  BY <1>1, <1>4, <1>6, FirstIsMember DEF IInv, OneOrigin
<1>9. VersionFollows'
  BY <1>1, <1>6, <1>3, <1>5 DEF IInv, VersionFollows
<1>10. Unharmed'
  <2> SUFFICES ASSUME NEW j \in Members, j \notin caught', disk'[j].version,
                      step'[j] \notin {"configure", "removed"}
               PROVE  /\ j = master \/ step'[j] = "recovery" \/ disk'[j].standby
                      /\ \/ disk'[j].conf = "replicating"
                         \/ j = master /\ \E s \in Scripts : script'[s] = "write"
    BY <1>1 DEF Unharmed
  <2>1. CASE j \in EndsWith(i)
    <3>1. /\ disk'[j] = disk[j] /\ step[j] \notin {"configure", "recovery", "removed"}
          /\ j = master => \A s \in Scripts : script[s] = "idle"
          /\ j \notin caught
      BY <1>6, <1>7, <2>1
    <3> QED
      BY <3>1 DEF IInv, Unharmed
  <2>2. CASE j \notin EndsWith(i)
    <3>1. /\ disk'[j] = disk[j] /\ step'[j] = step[j] /\ j \notin caught
          /\ j = master => script' = script
      BY <1>3, <1>6, <1>7, <2>2 DEF Dies
    <3> QED
      BY <3>1 DEF IInv, Unharmed
  <2> QED
    BY <2>1, <2>2
<1>11. ScriptRestores'
  <2>1. CASE i = master
    BY <1>1, <2>1 DEF Dies, ScriptRestores
  <2>2. CASE i # master
    <3>1. master \notin EndsWith(i) \/ step[master] = "copying"
      BY <2>2 DEF EndsWith
    <3>2. script' = script /\ step[master] # "copying"
      BY <2>2, FirstIsMember DEF Dies, IInv, DiskInv, MasterIsComplete, ServedIsComplete
    <3> QED
      BY <1>1, <1>4, <1>6, <1>7, <3>1, <3>2 DEF IInv, ScriptRestores
  <2> QED
    BY <2>1, <2>2
<1> QED
  BY <1>1, <1>8, <1>9, <1>10, <1>11 DEF IInv

\* A failover keeps the invariant: the old master is gone with its scripts.
LEMMA FailoverKeepsIInv ==
  ASSUME IInv, NEW i \in Members, Failover(i)
  PROVE  IInv'
<1>1. /\ step \in [Members -> Steps] /\ disk \in [Members -> Disks] /\ master \in Members
      /\ DiskInv'
  BY FailoverKeepsDiskInv DEF IInv, DiskInv, TypeOK
<1>2. /\ step[master] = "removed" /\ step[i] = "serving" /\ disk[i].standby /\ i # master
      /\ master' = i /\ disk' = [disk EXCEPT ![i].standby = FALSE]
      /\ UNCHANGED <<step, script, caught>>
      /\ \A s \in Scripts : script[s] = "idle"
  BY DEF Failover, IInv, DiskInv, ScriptHasBackup
<1>3. OneOrigin' /\ VersionFollows'
  BY <1>1, <1>2, FirstIsMember DEF IInv, OneOrigin, VersionFollows, Disks
<1>4. Unharmed' /\ ScriptRestores'
  BY <1>1, <1>2 DEF IInv, Unharmed, ScriptRestores, Disks
<1> QED
  BY <1>1, <1>3, <1>4 DEF IInv

\* The invariant of the members' first start, and of what they are afterwards.
THEOREM Invariance == Spec => []IInv
<1>1. Init => IInv
  BY InitIInv
<1>2. IInv /\ [Next]_vars => IInv'
  <2> SUFFICES ASSUME IInv, [Next]_vars
               PROVE  IInv'
    OBVIOUS
  <2>1. CASE \E i \in Members : Container(i)
    BY <2>1, EntrypointKeepsIInv, InitScriptKeepsIInv DEF Container
  <2>2. CASE \E i \in Members : Dies(i, "down") \/ Failover(i)
    BY <2>2, DiesKeepsIInv, FailoverKeepsIInv
  <2>3. CASE Dies(master, "removed")
    BY <2>3, DiesKeepsIInv DEF IInv, DiskInv, TypeOK
  <2>4. CASE \E s \in Scripts : Script(s)
    BY <2>4, ScriptKeepsIInv
  <2>5. CASE UNCHANGED vars
    BY <2>5 DEF vars, IInv, DiskInv, TypeOK, Complete, ServedIsComplete, MasterIsComplete,
                ScriptHasBackup, OneOrigin, VersionFollows, Unharmed, ScriptRestores
  <2> QED
    BY <2>1, <2>2, <2>3, <2>4, <2>5 DEF Next
<1> QED
  BY <1>1, <1>2, PTL DEF Spec

\* Type correctness; in particular setreplicas.sh never fills the configuration from
\* a backup that does not exist.
THEOREM TypeCorrect == Spec => []TypeOK
<1>1. IInv => TypeOK
  BY DEF IInv, DiskInv
<1> QED
  BY <1>1, Invariance, PTL

\* A member that has served keeps its database, whatever dies and starts again and
\* whoever is promoted.
THEOREM ServedKeepsData == Spec => DataKept
<1>1. IInv /\ [Next]_vars =>
        [\A i \in served :
           disk'[i].files = "all" /\ disk'[i].system = disk[i].system]_vars
  <2> SUFFICES ASSUME IInv, Next, NEW i \in served
               PROVE  disk'[i].files = "all" /\ disk'[i].system = disk[i].system
    OBVIOUS
  <2>1. /\ i \in Members /\ master \in Members
        /\ disk \in [Members -> Disks] /\ disk[i].files = "all" /\ disk[i].version
        /\ step[i] \in {"down", "check", "start", "serving", "removed"}
    BY DEF IInv, DiskInv, TypeOK, Complete, ServedIsComplete
  <2>2. CASE \E j \in Members : Container(j)
    BY <2>1, <2>2 DEF Container, StartContainer, Check, Initdb, StopTemporary,
       ExecPostgres, ConfigureMaster, ConfigureSlave, BackupBegins, BackupRefused,
       BackupEnds, WriteRecoveryConf, Rest, Disks
  <2>3. CASE \E j \in Members, next \in {"down", "removed"} : Dies(j, next)
    <3>1. PICK j \in Members, next \in {"down", "removed"} : Dies(j, next)
      BY <2>3
    <3>2. PICK left \in [EndsWith(j) -> UNION {Left(k) : k \in EndsWith(j)}] :
            /\ \A k \in EndsWith(j) : left[k] \in Left(k)
            /\ disk' = [k \in Members |-> IF k \in EndsWith(j) THEN left[k] ELSE disk[k]]
      BY <3>1 DEF Dies
    <3>3. disk'[i] = disk[i]
      BY <2>1, <3>2, LeftDisk DEF IInv
    <3> QED
      BY <2>1, <3>3
  <2>4. CASE \E j \in Members : Failover(j)
    BY <2>1, <2>4 DEF Failover, Disks
  <2>5. CASE \E s \in Scripts : Script(s)
    <3>1. \A s \in Scripts : WriteWithoutConf(s) => i # master
      BY <2>1 DEF WriteWithoutConf
    <3> QED
      BY <2>1, <2>5, <3>1 DEF Script, CopyToBackup, WriteWithoutConf, EmptyConf, FillConf, Disks
  <2> QED
    BY <2>1, <2>2, <2>3, <2>4, <2>5 DEF Next
<1> QED
  BY <1>1, Invariance, PTL DEF Spec, DataKept

\* A member that no failure caught half way serves as a standby with the database of
\* the master, whoever that is by then: entrypoint and init.sh never make a second
\* database, and a replica never serves what its own initdb has made.
THEOREM OneDatabaseSafe == Spec => []OneDatabase
<1>1. IInv => OneDatabase
  BY DEF IInv, DiskInv, TypeOK, OneOrigin, VersionFollows, Unharmed, OneDatabase, Serving
<1> QED
  BY <1>1, Invariance, PTL

\* It has the replication configuration that lets it lead, although it copied it from
\* a master whose configuration setreplicas.sh may have been rewriting.
THEOREM LeadersReady == Spec => []CanLead
<1>1. IInv => CanLead
  <2> SUFFICES ASSUME IInv, NEW i \in Serving \ caught
               PROVE  \/ disk[i].conf = "replicating"
                      \/ i = master /\ \E s \in Scripts : script[s] # "idle"
    BY DEF CanLead
  <2>1. i \in Members /\ step[i] = "serving" /\ disk[i].version
    BY DEF IInv, VersionFollows, Serving
  <2> QED
    BY <2>1 DEF IInv, Unharmed
<1> QED
  BY <1>1, Invariance, PTL
=============================================================================
