--------------------------- MODULE ClusterProofs ---------------------------
(***************************************************************************)
(* What moves without pgctl, for every size of cluster and every bound:    *)
(* the lemmas about ClusterNext that the proofs about the commands share.  *)
(***************************************************************************)
EXTENDS Cluster, TLAPS

USE NAssumption, EnvironmentAssumption

-----------------------------------------------------------------------------

\* The initial state of a cluster is well-typed.
LEMMA ClusterTypeInit == ClusterInit => ClusterTypeOK
  BY DEF ClusterInit, ClusterTypeOK, Idx, Founders, Disks

\* A step that leaves the cluster alone leaves it well-typed.
LEMMA TypeUnchanged == ASSUME ClusterTypeOK, UNCHANGED clusterVars PROVE ClusterTypeOK'
  BY DEF ClusterTypeOK, clusterVars, kubeVars, pgVars

\* The end of a container touches only volumes whose first start was at work.
LEMMA VolumesKept ==
  ASSUME ClusterTypeOK, NEW i \in Idx, VolumesLeft(i)
  PROVE  /\ disk' \in [Idx -> Disks]
         /\ \A k \in Idx : \/ disk'[k] = disk[k]
                           \/ disk[k] \in {"empty", "copying"} /\ disk'[k] \in {"broken", "stray"}
<1> USE DEF ClusterTypeOK, Disks
<1>1. PICK left \in Left(i), B \in SUBSET MayBreak(i) :
        disk' = [j \in Idx |-> IF j = i THEN left ELSE IF j \in B THEN "broken" ELSE disk[j]]
  BY DEF VolumesLeft
<1>2. \A j \in B : j \in Idx /\ disk[j] = "copying"
  BY DEF MayBreak, Copiers
<1>3. left = disk[i] \/ (disk[i] \in {"empty", "copying"} /\ left \in {"broken", "stray"})
  BY DEF Left
<1> QED
  BY <1>1, <1>2, <1>3

\* A pod that is deleted leaves a well-typed cluster.
LEMMA TypeDelete ==
  ASSUME ClusterTypeOK, NEW i \in pods, DeletePod(i), faults' \in 0..MaxFaults
  PROVE  ClusterTypeOK'
<1> USE DEF ClusterTypeOK
<1>0. /\ UNCHANGED <<rs, rsMaster, rsNew, conf, data, acked, cut>>
      /\ disk' \in [Idx -> Disks]
      /\ running' = running \ {i} /\ up' = up \ {i} /\ trigger' = trigger \ {i}
      /\ uid' = [uid EXCEPT ![i] = @ + 1] /\ live' = [live EXCEPT ![i] = {}]
      /\ i \in Idx
  BY VolumesKept DEF DeletePod, ContainersEnd
<1>1. /\ pods' \subseteq rs /\ podMaster' \subseteq pods' /\ podNew' \subseteq pods'
      /\ running' \subseteq pods' /\ up' \subseteq running' /\ trigger' \subseteq running'
  <2>1. CASE Prompt /\ i \in rs
    <3>1. /\ pods' = pods
          /\ podMaster' = (podMaster \ {i}) \cup ({i} \cap rsMaster)
          /\ podNew' = (podNew \ {i}) \cup ({i} \cap rsNew)
      BY <2>1 DEF DeletePod
    <3> QED
      BY <1>0, <2>1, <3>1
  <2>2. CASE ~(Prompt /\ i \in rs)
    BY <1>0, <2>2 DEF DeletePod
  <2> QED
    BY <2>1, <2>2
<1>2. uid' \in [Idx -> Nat] /\ live' \in [Idx -> SUBSET Idx]
  BY <1>0
<1> QED
  BY <1>0, <1>1, <1>2

\* setreplicas.sh touches one configuration, and no volume with a database.
LEMMA ScriptKeeps ==
  ASSUME ClusterTypeOK, NEW i \in Idx, NEW names \in SUBSET Idx,
         NamesWritten(i, names) \/ NamesCutOff(i, names) \/ NamesRefused(i, names)
  PROVE  /\ conf' \in [Idx -> SUBSET Idx] /\ disk' \in [Idx -> Disks] /\ cut' \subseteq Idx
         /\ \A k \in Idx : disk'[k] = disk[k] \/ (disk[k] = "empty" /\ disk'[k] = "broken")
         /\ \A k \in Idx \ {i} : conf'[k] = conf[k] /\ (k \in cut' <=> k \in cut)
<1> USE DEF ClusterTypeOK, Disks
<1>1. conf' = conf \/ (\E c \in SUBSET Idx : conf' = [conf EXCEPT ![i] = c])
  BY DEF NamesWritten, NamesCutOff, NamesRefused, FileEmptied
<1>2. disk' = disk \/ (disk[i] = "empty" /\ disk' = [disk EXCEPT ![i] = "broken"])
  BY DEF NamesWritten, NamesCutOff, NamesRefused, FileEmptied
<1>3. cut' \in {cut, cut \cup {i}, cut \ {i}}
  BY DEF NamesWritten, NamesCutOff, NamesRefused
<1> QED
  BY <1>1, <1>2, <1>3

\* What happens without pgctl keeps the types of the cluster.
LEMMA TypeCluster == ASSUME ClusterTypeOK, ClusterNext PROVE ClusterTypeOK'
<1> USE DEF ClusterTypeOK, kubeVars, pgVars, Disks
<1> PICK i \in Idx : Healing(i) \/ Failing(i) \/ Using(i)
  BY DEF ClusterNext
<1>1. CASE RSController(i)
  BY <1>1 DEF RSController
<1>2. CASE KubeletStart(i)
  BY <1>2 DEF KubeletStart
<1>3. CASE StartPostgres(i)
  BY <1>3 DEF StartPostgres
<1>4. CASE Promote(i)
  BY <1>4 DEF Promote
<1>5. CASE PodLost(i)
  BY <1>5, TypeDelete DEF PodLost, Fault
<1>6. CASE ContainerDies(i)
  BY <1>6, VolumesKept DEF ContainerDies, Fault, ContainersEnd
<1>7. CASE RemoveReplicaSet(i)
  <2>1. disk' \in [Idx -> Disks]
    BY <1>7, VolumesKept DEF RemoveReplicaSet, ContainersEnd
  <2>2. /\ rs' = rs \ {i} /\ rsMaster' = rsMaster \ {i} /\ rsNew' = rsNew \ {i}
        /\ pods' = pods \ {i} /\ podMaster' = podMaster \ {i} /\ podNew' = podNew \ {i}
        /\ running' = running \ {i} /\ up' = up \ {i} /\ trigger' = trigger \ {i}
        /\ uid' = [uid EXCEPT ![i] = @ + 1] /\ live' = [live EXCEPT ![i] = {}]
        /\ UNCHANGED <<conf, data, acked, cut>> /\ faults' \in 0..MaxFaults
    BY <1>7 DEF RemoveReplicaSet, ContainersEnd
  <2> HIDE DEF Disks
  <2> QED
    BY <2>1, <2>2
<1>8. CASE Using(i)
  <2>1. CASE \E j \in Idx : Stream(j, i)
    BY <2>1 DEF Stream
  <2>2. CASE \E w \in Writes : ClientWrite(i, w)
    BY <2>2 DEF ClientWrite
  <2>3. CASE \E w \in Writes : Acknowledge(i, w)
    BY <2>3 DEF Acknowledge
  <2> QED
    BY <1>8, <2>1, <2>2, <2>3 DEF Using
<1>9. CASE SetUpBegins(i)
  BY <1>9 DEF SetUpBegins
<1>10. CASE SetUpEnds(i)
  BY <1>10 DEF SetUpEnds
<1> QED
  BY <1>1, <1>2, <1>3, <1>4, <1>5, <1>6, <1>7, <1>8, <1>9, <1>10 DEF Healing, Failing

-----------------------------------------------------------------------------
(* Pods and templates.                                                     *)

\* The pod of i is the one that was there, with the labels and the image it had.
SamePod(i) ==
  /\ i \in pods /\ uid'[i] = uid[i]
  /\ i \in podMaster' <=> i \in podMaster
  /\ i \in podNew' <=> i \in podNew

\* The pod of i was made from the template.
FromTemplate(i) ==
  /\ i \in rs'
  /\ i \in podMaster' <=> i \in rsMaster'
  /\ i \in podNew' <=> i \in rsNew'

\* Every pod after the step is one of these two, no pod went away without its
\* incarnation ending, and incarnations end one at a time.
PodsFollow ==
  /\ \A i \in pods' : SamePod(i) \/ FromTemplate(i)
  /\ \A i \in pods : i \in pods' \/ uid'[i] = uid[i] + 1
  /\ \A i \in Idx : uid'[i] = uid[i] \/ uid'[i] = uid[i] + 1
  /\ \A i \in pods : uid'[i] = uid[i] => SamePod(i)
  /\ Prompt /\ pods = rs => pods' = rs'

\* What is deleted comes back from its template.
LEMMA DeleteFollows ==
  ASSUME ClusterTypeOK, NEW i \in Idx, DeletePod(i)
  PROVE  PodsFollow
<1> USE DEF ClusterTypeOK
<1>1. uid[i] \in Nat /\ uid' = [uid EXCEPT ![i] = uid[i] + 1] /\ UNCHANGED <<rs, rsMaster, rsNew>>
  BY DEF DeletePod
<1>2. uid'[i] = uid[i] + 1 /\ uid[i] # uid[i] + 1
  BY <1>1
<1>3. \A k \in Idx \ {i} : uid'[k] = uid[k]
  BY <1>1
<1>4. CASE Prompt /\ i \in rs
  <2>1. /\ pods' = pods
        /\ podMaster' = (podMaster \ {i}) \cup ({i} \cap rsMaster)
        /\ podNew' = (podNew \ {i}) \cup ({i} \cap rsNew)
    BY <1>4 DEF DeletePod
  <2> QED
    BY <1>1, <1>2, <1>3, <1>4, <2>1 DEF PodsFollow, SamePod, FromTemplate
<1>5. CASE ~(Prompt /\ i \in rs)
  <2>1. /\ pods' = pods \ {i} /\ podMaster' = podMaster \ {i} /\ podNew' = podNew \ {i}
    BY <1>5 DEF DeletePod
  <2> QED
    BY <1>1, <1>2, <1>3, <1>5, <2>1 DEF PodsFollow, SamePod, FromTemplate
<1> QED
  BY <1>4, <1>5

\* Without pgctl pods come from templates only.
LEMMA ClusterFollows == ASSUME ClusterTypeOK, ClusterNext PROVE PodsFollow
<1> USE DEF ClusterTypeOK
<1> PICK i \in Idx : Healing(i) \/ Failing(i) \/ Using(i)
  BY DEF ClusterNext
<1>1. CASE RSController(i)
  BY <1>1 DEF RSController, PodsFollow, SamePod, FromTemplate
<1>2. CASE PodLost(i)
  BY <1>2, DeleteFollows DEF PodLost
<1>3. CASE RemoveReplicaSet(i)
  <2>1. /\ rs' = rs \ {i} /\ pods' = pods \ {i}
        /\ podMaster' = podMaster \ {i} /\ podNew' = podNew \ {i}
        /\ uid' = [uid EXCEPT ![i] = uid[i] + 1] /\ uid[i] \in Nat
    BY <1>3 DEF RemoveReplicaSet
  <2> QED
    BY <2>1 DEF PodsFollow, SamePod, FromTemplate
<1>4. CASE ~RSController(i) /\ ~PodLost(i) /\ ~RemoveReplicaSet(i)
  <2>1. UNCHANGED <<rs, pods, podMaster, podNew, uid>>
    BY <1>4 DEF Healing, Failing, Using, KubeletStart, SetUpBegins, SetUpEnds, StartPostgres,
       Promote, ContainerDies, Stream, ClientWrite, Acknowledge, kubeVars
  <2> QED
    BY <2>1 DEF PodsFollow, SamePod
<1> QED
  BY <1>1, <1>2, <1>3, <1>4

\* Without pgctl a template only goes with its ReplicaSet, which takes the pod along.
LEMMA ClusterTemplates ==
  ASSUME ClusterTypeOK, ClusterNext
  PROVE  /\ rs' \subseteq rs
         /\ rsMaster' = rsMaster \cap rs' /\ rsNew' = rsNew \cap rs'
         /\ \A i \in rs \ rs' : i \in rsMaster /\ uid'[i] = uid[i] + 1
<1> USE DEF ClusterTypeOK, kubeVars
<1> PICK i \in Idx : Healing(i) \/ Failing(i) \/ Using(i)
  BY DEF ClusterNext
<1>1. CASE RemoveReplicaSet(i)
  BY <1>1 DEF RemoveReplicaSet
<1>2. CASE ~RemoveReplicaSet(i)
  <2>1. UNCHANGED <<rs, rsMaster, rsNew>>
    BY <1>2 DEF Healing, Failing, Using, RSController, KubeletStart, SetUpBegins, SetUpEnds,
       StartPostgres, Promote, PodLost, DeletePod, ContainerDies, Stream, ClientWrite, Acknowledge
  <2> QED
    BY <2>1
<1> QED
  BY <1>1, <1>2

\* Without pgctl nobody becomes primary without a trigger file, and nobody gets one; a
\* volume stays a primary's, and stays where it is when its ReplicaSet is removed.
LEMMA ClusterArming ==
  ASSUME ClusterTypeOK, ClusterNext
  PROVE  /\ \A k \in Idx : disk'[k] = "primary" => disk[k] = "primary" \/ k \in trigger
         /\ trigger' \subseteq trigger
         /\ \A k \in rs \ rs' : k \notin trigger'
<1> USE DEF kubeVars, pgVars, ClusterTypeOK
<1> PICK i \in Idx : Healing(i) \/ Failing(i) \/ Using(i)
  BY DEF ClusterNext
<1>1. CASE Promote(i)
  BY <1>1 DEF Promote
<1>2. CASE SetUpBegins(i) \/ SetUpEnds(i)
  BY <1>2 DEF SetUpBegins, SetUpEnds
<1>3. CASE Failing(i)
  <2>1. ContainersEnd(i) /\ rs \ rs' \subseteq {i}
    BY <1>3 DEF Failing, PodLost, DeletePod, ContainerDies, RemoveReplicaSet
  <2> QED
    BY <2>1, VolumesKept DEF ContainersEnd
<1>4. CASE RSController(i) \/ KubeletStart(i) \/ StartPostgres(i) \/ Using(i)
  BY <1>4 DEF Using, RSController, KubeletStart, StartPostgres, Stream, ClientWrite, Acknowledge
<1> QED
  BY <1>1, <1>2, <1>3, <1>4 DEF Healing

\* Without pgctl a volume on which no first start is to come or at work changes by
\* promotion only.
LEMMA ClusterVolumes ==
  ASSUME ClusterTypeOK, ClusterNext, NEW k \in Idx, disk[k] \notin {"empty", "copying"}
  PROVE  disk'[k] = disk[k] \/ (disk[k] = "standby" /\ disk'[k] = "primary")
<1> USE DEF kubeVars, pgVars, ClusterTypeOK
<1> PICK i \in Idx : Healing(i) \/ Failing(i) \/ Using(i)
  BY DEF ClusterNext
<1>1. CASE Promote(i)
  BY <1>1 DEF Promote
<1>2. CASE SetUpBegins(i) \/ SetUpEnds(i)
  BY <1>2 DEF SetUpBegins, SetUpEnds
<1>3. CASE Failing(i)
  <2>1. ContainersEnd(i)
    BY <1>3 DEF Failing, PodLost, DeletePod, ContainerDies, RemoveReplicaSet
  <2> QED
    BY <2>1, VolumesKept DEF ContainersEnd
<1>4. CASE RSController(i) \/ KubeletStart(i) \/ StartPostgres(i) \/ Using(i)
  BY <1>4 DEF Using, RSController, KubeletStart, StartPostgres, Stream, ClientWrite, Acknowledge
<1> QED
  BY <1>1, <1>2, <1>3, <1>4 DEF Healing
=============================================================================
