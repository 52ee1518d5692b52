# A verification project for postgres-k8s

`pgctl` (src/cli) builds and operates a replicated Postgres 9.5 cluster on Kubernetes: one
ReplicaSet of one pod per member, one persistent volume per ReplicaSet, a write service that
selects the pod labelled `master=true`, a read service that selects all pods. The Docker image
(src/docker-image) decides on the first start of a pod whether its server is a master or a
standby. There is no controller: every operation is a run of `pgctl` that makes one API call
after the other, stops at the first error, undoes nothing, and may be run by several people at
once, while Kubernetes and Postgres go on by themselves. That is where the correctness questions
are, and what these modules are about.

## The system

### Components, state, operations

| component | source | state | operations | status |
|---|---|---|---|---|
| cluster | cli/k8s/kubernetes.go, Kubernetes, Postgres | ReplicaSets and their templates, pods, labels, phases; per member: server up or not, `recovery.conf`, synchronous names on disk and loaded, trigger file, WAL | controller creates pods, kubelet starts them, postgres starts, streams, promotes, commits; nodes and containers fail | `Cluster` |
| `pgctl failover` | cli/cmd/failover.go, util.go, create.go:230 | what a run has read | eleven API calls and executed commands | `Failover` |
| remote execution | cli/k8s/k8s_exec.go | pipes, buffers, goroutines, WaitGroup | run a command in a container and gather its output | `ExecStream` |
| container start | docker-image/docker-entrypoint.sh, init.sh | the volume: files, PG_VERSION, recovery.conf, postgresql.conf | initdb, configure_master, configure_slave with pg_basebackup, exec postgres | `PgNode` |
| setreplicas.sh | docker-image/clusterutils | postgresql.conf and its backup | copy, truncate, fill | `PgNode` |
| `pgctl create`, `delete` | create.go, delete.go | services, claims, ReplicaSets, pods, volumes | get-or-create in order; delete collections in order | `Lifecycle` |
| `pgctl scale`, `setreplicas` | scale.go, setreplicas.go, util.go:267 | the list of indexes that was read | next index, get-or-create, rewrite the names | `Scale` |
| `pgctl upgrade` | upgrade.go | the ReplicaSets that were listed | new image, delete the pod, wait, test, next | `Upgrade` |
| `pgctl getmaster` | get_master.go | none | prints `getMasterPod` | not modelled: read-only |
| command line, client set-up, image build, benchmark, legacy scripts, vendored code | | none of the cluster's | | not modelled: no state, pure I/O, superseded or third-party |

### How they interact

* `pgctl` and the cluster share the API server's objects. Pods are found by label only
  (`getMasterPod`, `getReplicaPods`); an `Update` of an object that has changed since it was read
  is a conflict; nothing else is transactional.
* `pgctl` reaches a server by executing a script in its container: `setreplicas.sh`, `touch` of
  the trigger file, `testdb.sh`. The calls pass through the three goroutines of `k8s_exec.go`.
* A ReplicaSet creates a pod from its template as it stands when the pod is missing, so the label
  in the template decides what the next pod is.
* Standbys find their master through the write service, for the base backup and for streaming.
* Commits wait for the first connected standby of `synchronous_standby_names`, which
  `setreplicas.sh` writes to a file and the server loads when it starts.

### What makes it hard, and what correctness is

* Interleaving: two operators at the same command or at different ones; an operator and the
  ReplicaSet controller; a base backup and `setreplicas.sh`. *No two servers behind the write
  service take commits.*
* Stopping half way: every call may be the last. *A pod's label is covered by its template at every
  such point*, so that a restart does not change roles.
* Failures: pods, containers, the connection of an executed command, a container in the middle of
  its first start. *A commit that was acknowledged survives a failover; a server that has served
  keeps its database; a member that was not caught half way becomes a standby.*
* Repeating: create and delete are run again after an error, or by somebody else meanwhile. *A
  create that reports success has left everything in place, a delete nothing; existing disks are
  used with all that was acknowledged on them.*
* Reading and then writing: indexes and names are taken from a list of pods, templates from a list
  of ReplicaSets. *New members get new indexes and all standbys are named; an upgrade reaches every
  pod and takes back no label.*
* Waiting: for pods, for commits, for the end of a pipe. *Every run ends.*

`PROJECT.json` lists the hazards at their lines, those that no property covers included.

## Modules

| module | what it is |
|---|---|
| `ExecCall` | what a caller of `ExecCommandWithStdoutStderr` relies on (abstract) |
| `ExecStream` | pipes, readers, WaitGroup; implements `ExecCall` |
| `ExecStreamProofs` | its theorems |
| `Cluster` | shared state of a cluster and all that moves without `pgctl` |
| `Failover` | EXTENDS `Cluster`: `pgctl failover`, any number of operators |
| `Leadership` | what failover promises (abstract): one leader, elected when there is none |
| `ClusterProofs` | what `Cluster` does without `pgctl`: types, pods and templates, arming; used by the four below |
| `FailoverProofs` | theorems about `Failover` |
| `Scale`, `ScaleProofs` | EXTENDS `Cluster`: `pgctl scale` and `setreplicas`; its theorems |
| `Upgrade`, `UpgradeProofs` | EXTENDS `Cluster`: `pgctl upgrade`; its theorems |
| `Operations`, `OperationsProofs` | `Failover`, `Scale` and `Upgrade` on one `Cluster`; its theorems |
| `MCFailover`, `MCScale`, `MCUpgrade`, `MCOperations` | model values and symmetry for the runs of these four |
| `PgNode` | first start of the members, base backups, setreplicas.sh |
| `PgNodeProofs` | its theorems |
| `MCPgNode` | model values for its runs |
| `Lifecycle` | `pgctl create` and `delete`, any number of operators |
| `LifecycleProofs` | its theorems |
| `MCLifecycle` | model values and symmetry for its runs |

An operator whose name has a suffix (`Recheck_trustFirst`, `Init_addTwo`) is the next operator as
a plausible bug would have it. No specification uses it; it serves to show that the property it
is paired with in `PROJECT.json` would notice.

### ExecStream: cli/k8s/k8s_exec.go

State: what the container has still to send (`todo`), the piece that a writer blocked on each
`io.Pipe` holds (`slot`), which writers are closed, the two buffers, the goroutine of
`ExecCommand` (`exec`), the readers that have not ended and the WaitGroup's counter. Output is
numbered pieces; a buffer counts the pieces it got of each stream, which is enough to tell loss,
duplication and mixing apart, since pieces of one stream travel through one pipe in order.
Actions: the error returns of `ExecCommand` (which do not close the pipes), `Stream` refused,
`Write`, `StreamReturns`, the two closes in their order, `Read`, `ReadEOF` and `Done`,
`WaitReturns`. The names cross twice in the code (lines 45-77); `PipeOf` and `BufferOf` keep each
crossing. `ConnectionLost` models how the streams of a dead connection end: like streams that the
container closed, so that `Stream` may return nil (line 151) and a call that promises its output
"fully buffered" (line 43) returns the part that had arrived.

### Cluster and Failover: cli/cmd/failover.go

A member is its index. `rs`/`rsMaster`: ReplicaSets, and those with the label in their template;
`pods`/`podMaster`/`running`: the same for pods; `uid[i]` tells incarnations of a pod apart;
`conf[i]`/`live[i]`: names in postgresql.conf
and names loaded; `trigger`: containers that hold the trigger file, which is in the container's
own file system; `data[i]`, `acked`: transactions.

`disk[i]` is what is on the volume. The first start of a replica is two steps, the beginning and the
end of its base backup (`SetUpBegins`, `SetUpEnds`). When its container ends before the end
(`Left`), or the server it copies from does (`MayBreak`, `Breaks`), it leaves part of a directory,
which initdb refuses ("broken"), or a PG_VERSION that the next start trusts, with a server of its own
behind it ("stray"). `PgNode` has these steps one by one.

An executed command may fail, hang, or lose its connection. In the last case `Stream` returns nil
(k8s_exec.go:151), stderr is empty, and pgctl goes on as after success (util.go:188-198):
setreplicas.sh has then rewritten the file (`NamesWritten`), done nothing, or emptied it
(`NamesCutOff`); `touch` may have made no file (`Touch`). A script whose connection is gone is taken
to be over. `cut` is history: the members at which this happened before the names were written. An
emptied postgresql.conf stays empty, since sed only replaces a line. Where there is no file yet,
setreplicas.sh complains on stderr and leaves an empty one in the way of initdb (`NamesRefused`).

| call in `Failover` | lines of failover.go | action |
|---|---|---|
| getMasterPod, --force | 96-105 | `GetMaster` |
| getReplicaPods, choose replicas[0] | 106-126 | `ListReplicas` |
| Get and Update of the ReplicaSet | 128-142 | `GetRS`, `UpdateRS` |
| Update of the pod | 144-154 | `UpdatePod` |
| setreplicas.sh | 156-174 | `SetReplicas` |
| Delete of the pod | 176-183 | `Bounce` |
| waitForPodsToStart, 60 s | 185-192 | `WaitForPods` |
| getMasterPod again | 194-198 | `Recheck` |
| touch the trigger | 200-212 | `Touch` |
| testMaster | 216-221 | `TestFind`, `TestExec` |
| any error, timeout or kill | each `return err` | `CallFails`, `Abort` |

A call into a pod whose set-up fails does not return (`exec_hangs`): `CallFails` also takes such a
run to "hung", from where it never goes on. A `CallFails` may follow the effect of the call that
failed, because the effect and the next step are separate steps of which the second may be replaced
by the failure. Objects carry no explicit resource version: the fields that can change between a
read and an `Update` are compared instead.

`Prompt` is the one assumption about timing. When it is TRUE, a lost pod whose ReplicaSet exists
is replaced before anybody lists pods. When it is FALSE the controller may be arbitrarily late.
The code relies on it without saying so: with `Prompt = FALSE` the run `split_brain` ends with two
writers. The properties that need it are checked and proved under it, the others without.

### Scale: cli/cmd/scale.go, setreplicas.go

`scaleReg[o]` holds what the run of `o` has read: the replicas it listed, the first index of its
range and the one in hand, the members whose ReplicaSet it made itself (`made`), the master and the
names. `overlapped` is history: the operators whose run was not alone all the time.

| call | lines | action |
|---|---|---|
| getReplicaPods | scale.go 99-103 | `ScaleList` |
| getMasterPod, highest index + 1 | scale.go 105-120, util.go 151-170 | `ScaleGetMaster` |
| Get, Create of a claim | create.go 273-297 | `GetClaim`, `ScaleCreateClaim` |
| Get, Create of a ReplicaSet | create.go 325-347 | `GetSet`, `ScaleCreateSet` |
| getMasterPod, getReplicaPods, setreplicas.sh | util.go 266-297 | `FindMaster`, `ListNames`, `SetNames` |
| `setreplicas` as a command | setreplicas.go 84-94 | `SetReplicasStart`, then the last three |
| any error or kill | each `return err` | `ScaleCallFails` |

A range that would go beyond the bound N ends the run like a call that fails. A new ReplicaSet has
the default image and no label. A claim that is there is used with what is on it. The first start of
the new member is in `Cluster`.

### Upgrade: cli/cmd/upgrade.go

`rsNew` and `podNew` are the ReplicaSets and pods with the new image. `rollReg[o]` holds the
ReplicaSets as they were listed (`sets`, and their templates: `labelled`, `new`), those still to do
and the pod in hand. `disturbed` is history: a wait of the run was given up, a member was down
before it, or it was not the only upgrade; so is `overlooked`: members whose pod was there when the
run looked for it, without the label that their template was listed with (util.go:122).

| call | lines | action |
|---|---|---|
| getClusterReplicaSets | upgrade.go 98-104, util.go 93-112 | `ListSets` |
| Update of the ReplicaSet | upgrade.go 106-116 | `UpdateSet` |
| getPodsForReplicaSet | util.go 114-149 | `FindPods` |
| Delete of the pod | upgrade.go 125-132 | `KillPod` |
| waitForPodsToStart, 5 min, result dropped | upgrade.go 137, create.go 230-271 | `RollWait` |
| testMaster, next member | upgrade.go 139-146 | `RollTestFind`, `RollTestExec` |
| any other error or kill | each `return err` | `RollCallFails` |

The Update carries the object as it was listed before the first member was touched; one whose
template has changed since is a conflict. Conflicts with changes of a ReplicaSet's status, which are
not modelled, are among the calls that may fail. All upgrades are to the same image.

### Operations: the commands at the same time

The three modules share the variables of `Cluster` and nothing else, like the commands. A step is
one call of one command of one operator, or a step of the cluster. One operator may have a run of
each command open. `MaxCommands` bounds the runs of all commands together. The ReplicaSet of a
labelled member may be removed by hand, as util.go:57 advises; its claim stays, and a later scale may
create the member again on the old volume.

`OneWriter` leaves out `Strays`: a member whose first start was cut short may be a server of its own
that a failover, which looks at labels only, takes for a standby.

### PgNode: the container's scripts

`step[i]` is the next step of the container of `i`: `check` (PG_VERSION), `initdb`, `configure`,
`basebackup`, `copying`, `recovery`, `stop`, `start`, `serving`, or `down`. `disk[i]` says whether
the files are complete, whether PG_VERSION is among them, whose initdb they come from, and whether
recovery.conf, a full postgresql.conf and a full backup of it exist. The two appends of
`configure_master` are one step and so are the sample and the append of `recovery.conf`: a death
between them leaves what a death before them leaves, a disk that starts as an unconfigured primary.
`Dies` leaves any of the disks a killed `initdb`, `rm -rf` or `pg_basebackup` can leave (`Left`),
takes the scripts executed in the container with it, and breaks the copies taken from it.
`Failover` stands for a failover after the master's ReplicaSet was removed. A setreplicas.sh that is
executed before there is a postgresql.conf goes on after cp and sed have failed, and the redirection
makes an empty file (`WriteWithoutConf`), which initdb finds in its way.

`caught` and `served` are history: `caught` holds the members that were hit where the scripts have
no way back (`HalfWay`), whose copy met an emptied configuration, or whose configuration was
rewritten by two scripts at once or before the first start was over. The properties are about the
others, so the run shows that these windows are all there are.

### Lifecycle: cli/cmd/create.go, delete.go

`objects` is what exists of the storage class, the services, the claims and the ReplicaSets;
`Plan` is the order in which `CreateCluster` works through them; `reg[o].at` is where the command
of `o` is in it. Of a volume the model keeps whether its server is set up, as what, and the
transactions in its log. `undone` and `redone` are history: somebody else has removed, or added,
an object since the command began.

| call | lines | action |
|---|---|---|
| Get of a checkAndCreate | create.go 273-347 | `GetObject` |
| Create of a checkAndCreate | create.go 273-347 | `CreateObject` |
| waitForPodsToStart, 5 min | create.go 205-271 | `WaitForPods` |
| testMaster | util.go 223-264 | `TestMaster` |
| List and Delete of the services | delete.go 179-204 | `ListServices`, `DeleteService` |
| DeleteCollection of ReplicaSets, pods, claims | delete.go 113-177 | `DeleteReplicaSets`, `DeletePods`, `DeleteClaims` |
| any error or kill | each `return err` | `CallFails` |

Deleting a ReplicaSet leaves its pods, which are deleted by a call of their own; a pod whose
ReplicaSet still exists comes back. `SetUp` is the first start that `PgNode` has in detail, with
its outcome when nothing dies; `FailOver` is a whole failover of a cluster whose master's
ReplicaSet was removed, which `Failover` has in detail, as far as its labels, and its promotion or
not: it may stop before the trigger, and with one replica it always does, since setreplicas.sh refuses
the empty list (failover.go:164). All creates ask for the same number of
replicas.

## Runs

| run | bounds | shows |
|---|---|---|
| `exec_stream` | up to 3 pieces per stream, connection may die | complete output under the right names or, after a lost connection, a part of it; refinement of `ExecCall`; return once the command was started |
| `durable` | 4 members, 2 operators, 2 runs without --force, 2 failures or removals of members 0 and 2, one transaction, prompt controller | acknowledged commits survive; the inductive invariants of failover and of its commits |
| `ends` | 4 members, 1 operator, 2 runs, 1 failure or removal of member 0, one transaction, late controller, lost connections, fairness | runs end, but for those that hang in a set-up or over stranded standbys; roles survive restarts; success means promoted, and the inductive invariant behind it |
| `first_start` | 3 members, 2 overlapping scripts, 2 failures anywhere, fairness | data kept, one database, standbys able to lead, replication begins |
| `lifecycle` | 1 replica, 2 operators, 3 commands with and without `--deletePvc`, failovers, errors at any call, one transaction | create and delete complete whatever was there before and whoever runs them, the inductive invariant, acknowledged commits kept |
| `scale` | 2 founders, indexes up to 3, 2 operators, 2 runs of scale by 2 or setreplicas, 1 failure or removal of member 0, lost connections, prompt controller, fairness of the cluster | new indexes, a filled range, complete names, new members come up unless their first start was cut short |
| `upgrade` | 3 members, 2 operators, 2 runs, 1 failure or removal of member 0, late controller, fairness | the image reaches every pod, one member at a time, upgrades end |
| `operations` | 3 founders and an index to add, 2 operators, any 2 of: 2 forced failovers, 1 scale or setreplicas, 1 upgrade; 1 failure of member 0 or removal of a labelled member 0 or 1, whose claim stays, prompt controller | one writer and refinement of `Leadership` under all commands; what an upgrade overlooks, and the inductive invariants |

Violations, each a disagreement between the code and what the repository says of it
(`findings` in `PROJECT.json` has the quotes):

| run | what happens |
|---|---|
| `exec_hangs` | an error before the stream is opened is never reported: the readers wait for pipes nobody closes |
| `split_brain` | the old master's pod is missing only until the controller makes it again, with label and disk: two writers |
| `stale_master` | create after a failover makes the removed ReplicaSet of index 0 again, with the label: the write service leads to its old disk |
| `rolls_on` | the wait for a restarted standby times out, its result is dropped, and the next member is taken down |

Seen while modelling and not given a run:

* Failover. After the master's node failed its ReplicaSet has made a Pending pod with the label, and
  failover refuses because the master "is already running" (failover.go:102). With a single replica
  setreplicas.sh gets an empty list and refuses, with the labels changed and nothing promoted
  (failover.go:164; setreplicas.sh:5). A replica is chosen whatever its phase (failover.go:117; the
  help, line 56, says the first running one). When the old master comes back Pending the trigger may
  be sent to it (lines 194-212; the log says "to replica"). A forced failover over a live master
  followed by the removal that util.go:57 advises loses commits acknowledged in between. A second
  operator, or a forced retry after a partial failure, may report success over a master whose names
  were never rewritten, which is why `SuccessMeansPromoted` is checked for one unforced operator. A
  failover during writes may never end: the remaining standbys are ahead of the promoted one, cannot
  follow it, and `testMaster` has no timeout (util.go:248); this is one cause of what
  failover.go:214 says ("occasionally this hangs"). `RunsEnd` says that this (`Stranded`) and a call
  whose set-up failed are the only ways not to end. After a lost connection a run deletes the pod
  and may report success over a master with its old names or an empty postgresql.conf
  (`SuccessMeansPromoted` excuses `cut`).
* First start. A container that dies between initdb and the end of init.sh is taken for initialised
  when it starts again (docker-entrypoint.sh:63): a standby stays an empty primary of its own or
  never starts, a master never accepts a replication connection. These are the members in `caught`.
* setreplicas and scale. Setreplicas' help says that it "restarts the pg process"
  (setreplicas.go:52); nothing restarts or reloads the server, which goes on with the names it
  loaded when it started. The backup that setreplicas.sh makes always has the same name, since
  `TIMESTAMP=(date +%s)` is an array and not the time: a retry after a run that died while the file
  was empty overwrites the only copy. A lost connection makes both commands report success with the
  names not written.
* Scale. While a pod is missing, its index may be the one that follows the highest seen; the
  existing claim and ReplicaSet are taken for new ones and a member less is added. Two scales that
  overlap take the same range. Of two overlapping runs that write names the last one wins, and its
  list may lack a member of the other. The added ReplicaSets have the default image, also after an
  upgrade to another one. When the master or the new member dies during its base backup, the member
  never comes up as a standby (docker-entrypoint.sh:63; `Spoilt`). A claim that stayed behind after
  its ReplicaSet was removed is used again, with the disk on it.
* Upgrade. Running is not accepting connections: the next member may go down while the server of the
  last one is still starting. While a failover has labelled a template and not yet the pod, an
  upgrade does not find the pod and reports success without it. Upgrade and failover together may
  lose an acknowledged commit: the standby that had it is down when the other one is promoted.
* getmaster. Without a master it prints that it "could not find the master pod" and then follows the
  nil pointer (get_master.go:96-100).

### Bounds and why they are enough

Four members give a failover a chosen replica and two standbys, so that a second failover still has
a list to write. Two runs allow a failed or hung run and a retry over what it left behind; two
failures allow the loss of the master and one of a standby that was labelled. Two operators reach
every overlap of two runs; the code has no lock and no counter that a third could upset, and the
theorems have no bound on operators, members, runs or failures. In `first_start` two failures allow
the loss of the master and a later restart of the promoted standby, and two standbys allow one to
copy while the other is promoted. One transaction is enough for `DurableWrites`, which is about any
one commit. In `durable`, member 1 does not fail: it is the standby that commits wait for and that
failover takes first. When it fails, and the next standby carries the commits, and it comes back
before the failover, the property is lost with it.

In `ends`, one failure is the loss or removal of the old master, which a failover comes after; the
transaction lets the standbys be ahead of the one that is promoted.

In `scale`, two founders and additions by two make a range of two, overlaps in any order, and one
that does not fit. A late controller makes `AddsCapacity` and `NamesAreComplete` fail, as
described above; the theorem about `RangeIsFilled` does not need a prompt one. In `upgrade` three
members are a master with two standbys, so that a commit can go on while one of them restarts. In
`operations` two commands reach every overlap of two of them, and there is one scale, so that what the
theorems ask of the operators (`OneAfterTheOther`) does not have to be asked of the run; the theorems
have no bound.

In `lifecycle`, three commands are enough for a delete between two creates, or an interrupted create
and a retry beside another operator; one replica makes a plan of seven objects. With one replica a
failover promotes nobody, so `AckedIsKept` says nothing of a create after a promotion there; with
two replicas it fails, which is `stale_master`. What the run shows of it is about deletes, claims
and volumes. The theorems about `Lifecycle` are for every number of replicas, except that about
`AckedIsKept` with failovers.

Deadlock is not checked in any run: a call whose set-up failed hangs (`exec_hangs`), and in the
others the environment comes to rest when the bounds are used up.

### Fairness

* `ExecStream`: Go runs every goroutine that can run. The command is assumed to end; the code has no
  timeout.
* `Failover`: a run goes on (`Step`) unless it hangs, controllers reconcile and containers start
  (`Healing`), standbys stream. Nobody has to run a command, write, or fail; `CallFails` is not
  fair. `WaitForPods` may give up at any time, which is what 60 seconds mean when time is
  abstracted.
* `Scale`: containers start and standbys are set up (`Healing`), whoever runs a command.
* `Upgrade`: a run goes on (`RollStep`) unless it hangs, `Healing`, and standbys stream. `RollWait`
  may always go on, since its time may be over.
* `Operations`: none; its properties are safety.
* `PgNode`: the kubelet restarts containers and their scripts go on. `setreplicas.sh`, failover and
  failures are not fair.

## Proofs

`ExecStreamProofs`, for every number of pieces. The inductive invariant `IInv` says that pieces are
conserved (each is still to come, in its pipe, or in its buffer), what the WaitGroup counts, and
that success is only claimed behind finished work. Neither `OutputIsComplete` nor
`JoinedBeforeRead` is inductive: both need to know where the pieces are before the end. From it:
`TypeCorrect`, `JoinedSafe`, `OutputComplete`, `OutputNotInvented`, and `Refinement` (the return of
`wg.Wait` and the loss of the connection are the steps of `ExecCall`, all others stutter).

`FailoverProofs`, for every set of operators and every N up to 9 (beyond that, pod names no longer
sort by index), any bounds, any set of faulty members. `RoleSurvivesRestart` holds with any
controller and needs `LabelledFirst` (when a run is about to label the pod, the template already has
the label). `NoSplitBrain` (`NeverTwoWriters`) needs `Prompt` and the invariant `LeaderIsLabelled`:
whoever is primary, holds the trigger or is about to be sent it (`Leaders`) and still has a
ReplicaSet has a labelled pod, and there is one at most. It is kept because a run arms a pod only
when `getMasterPod` returned exactly one, and a leader's pod is always among those it sees. The same
invariant gives `Refinement` of `Leadership`.

`CommitsSurviveFailover` (`DurableWrites`) is about a prompt controller, no `--force`, and failures
that spare the first standby; Runs says what breaks it otherwise. Its invariant `KeptByFirstStandby`
has two phases. As long as member 0 is there, it is the labelled master, every unforced run gives up
at once, and the first standby, which is the first name of the list commits wait for and is always
connected, gets every commit before it is acknowledged (`CreatedMasterLeads`). All first starts are
over without scale, so no volume breaks (`AllSetUp`). Once it is gone, every run that chooses a
replica chooses the first standby, or chose another while that one was labelled, so that no other
server ever takes commits (`FirstStandbyLeads`).

`SuccessIsPromotion` (`SuccessMeansPromoted`) is about one operator, no `--force`, and failures of
member 0, under any controller. The invariant `LabelledAreReady` has to say that whoever is labelled
has loaded the names of other members, or will when it starts (`LabelledWait`). An earlier run that
stopped anywhere may have labelled a pod it never wrote to, but then the next one finds that pod as
its master and refuses; and a pod that is gone between its deletion and the second look had its
names written before (`HandsOnStandbys`). Where the connection was lost at that call (`cut`) nothing
is known of the names, and the property is silent about them; that the master is promoted and
labelled it says there too, since a trigger that was lost fails the test. Two operators, or
`--force`, refute the property, as noted above.

`ScaleProofs`, with the same generality. `RangeIsFilled` needs to know where in its range a run is
(`InRange`) and that all before it is there (`FilledSoFar`), with any controller and any overlaps:
the only ReplicaSet that is ever removed is that of the labelled member 0 (`FirstMaster`), which is
below every range. `AddsCapacity` and `NamesAreComplete` need `Undisturbed`: a run that is alone under
a prompt controller has seen all members, so the indexes behind the highest are new, and the names it
listed stay true while the master's incarnation is the one it found. That the script then writes them
needs `MasterConfigured`: the master's file is empty only where a connection was lost. Success without
the names is what a lost connection gives (`cut`), and the property leaves it out by that name.

`UpgradeProofs`: every pod after a step is the one that was there or was made from its template
(`PodsFollow`, in `ClusterProofs`), and templates a run has passed keep the new image. A pod that a
run does not find is therefore missing, because without failovers labels and templates agree
(`LabelsAgree`). `RollsOne` is about the runs that are not `disturbed`. That all members are Running
when one is about to go is known from the wait, which counts Running pods and compares the number
with that of the ReplicaSets listed; the count decides only because a run that is alone has listed
all of them and nothing else takes a pod down (`RollsAlone`).

`OperationsProofs`: a call of scale or upgrade relabels no template and arms nobody (`OtherStep`),
so the invariant of failover survives it. The one thing failover alone never sees is a ReplicaSet
that appears, on a claim that stayed: a member that was promoted and removed would come back as a
primary without a label. `LowestLeads` says why scale does not bring one back: whoever is promoted
is the first in the list, all members before it are labelled, and so a leader is never behind a
member that exists, while scale takes indexes behind the highest it has seen. For that the members
it has seen have to be there, and the first of the list has to stay the first until it is labelled.
This is what `OneAfterTheOther` asks of the operators: no scale or setreplicas runs beside another,
and nobody removes the ReplicaSet of a pod that a failover has chosen and not yet labelled
(util.go:57 advises the removal of a labelled one). `OpInvariance`, `OneWriterAmongAll` and
`RefinementAmongAll` have it as a hypothesis about the behaviour, beside `Prompt`; they ask nothing
of claims, upgrades or the number of failovers.

Both halves were found to be needed by argument, on histories longer than a free run reaches. Of two
overlapping scales, one may have listed its range before the other one filled it, and goes on after
the member at that index was promoted and removed: the member is back as a primary without a label,
and a forced failover labels it beside the new master. A failover whose chosen pod's ReplicaSet is
removed before the Update, and made again by a scale, puts the label into the template of a member
that is not the first any more.

`MissesOnlyPromoted` holds beside any failovers, with or without `--force`, under any controller and
with any claims. Its invariant is `OpRollIInv`: `RolledUnlessPromoted` is what `Upgraded` leaves of
itself when labels may change under an upgrade. The template of every member passed is new, and so is
its pod, the master's included, unless the run overlooked that very pod (`overlooked`). The one step
that needs an argument is `FindPods`: a run finds no pod although there is one only when the template
that was listed has the label and the pod has not. A scale, which makes ReplicaSets of the default
image, ends what the property says (`scales = 0`).

`PgNodeProofs`, for every set of members and scripts and any number of failures: type correctness;
`DataKept` from the invariant that a member that has served has all its files and PG_VERSION and is
never at a step that can remove them (`DiskInv`); and, about the members that were not caught,
`OneDatabase` and `CanLead`. Neither is inductive. `OneDatabase` needs that all that is replicated
comes from the initdb of the first master, which stays away once it was replaced (`OneOrigin`), and
that a disk with PG_VERSION, which the entrypoint trusts, belongs to the master, to a standby, or to
one that is about to write its recovery.conf (`VersionFollows`, `Unharmed`). `CanLead` needs that a
configuration is empty only at the master and only between two steps of a script that is alone
(`Unharmed`) and has a full backup to fill it from (`ScriptRestores`).

`LifecycleProofs`, for every number of replicas, operators and commands, with or without failovers.
Neither property of steps follows from the step: that a create which passes its test has left every
object is known only from `PlanDone` (the plan is done up to where the create is, unless somebody
removed something), and that a delete has left no pod from `DeletedSoFar` (without a ReplicaSet the
pods it has deleted cannot come back). From them `CreateCompletes` and `DeleteCompletes`.
`CommitsSurvive` (`AckedIsKept`) is proved for any number of replicas without failovers, and with
them for one replica, where a failover changes the labels and promotes nobody; `stale_master` shows
that it fails for two. `CommitsKept` says that every volume that is a primary's has all that was
acknowledged, that member 0 never becomes a standby, however often it is created again, and that
only a delete that was asked to purge gets to the claims. `IInv` is the conjunction of the three
with `TypeOK`.

Assumptions: `ChunksAssumption`, `DropsAssumption`, `NAssumption`, `EnvironmentAssumption`,
`OperatorsAssumption`, `ScaleAssumption`, `RollAssumption`, `CommandsAssumption`,
`MembersAssumption`, `FaultsAssumption`, `LifecycleAssumption`, all evaluated by the runs; `Prompt`
and `OneAfterTheOther` as hypotheses of the theorems that need them.

Model-checked only: everything under fairness (`ReturnsOnceStreaming`, `RunsEnd`,
`ReplicationBegins`, `MembersComeUp`, `UpgradesEnd`), which this prover cannot do. Every safety and
action property of the passing runs is a theorem, under the hypotheses above.

## Plan

1. Done: `ExecStream`, `Cluster`, `Failover`, `PgNode`, `Lifecycle`, `Scale`, `Upgrade`, their
   composition in `Operations`, their runs and theorems.
2. `Lifecycle` below `Operations`: create and delete beside the other commands.
3. Theorems: `DurableWrites` beside the other commands, for which the first standby must also come
   through an upgrade; the properties of `Scale` beside failovers.

## Not modelled

TLS, authentication, certificates and client configuration; storage classes and the provisioning of
volumes; resource limits; the read service, which selects every pod and takes no part in any
operation; archives (`archive_command`) and WAL retention, so that a standby which is not ahead can
always catch up; replication slots; `max_wal_senders` (10); timing other than order. A `testdb.sh`
that is cut off leaves its database behind and fails the next test; this is left out as well.
