----------------------------- MODULE ExecStream -----------------------------
(***************************************************************************)
(* ExecCommandWithStdoutStderr of cli/k8s/k8s_exec.go: one call runs a     *)
(* command in a container and gathers its output through two io.Pipes with *)
(* three goroutines joined by a WaitGroup.                                 *)
(*                                                                         *)
(* The names cross twice: ExecCommand takes (stderr, stdout) and is called *)
(* with (stdoutWriter, stderrWriter), and the goroutine that reads         *)
(* stderrReader fills stdoutBuff.  PipeOf and BufferOf keep each crossing  *)
(* where the code has it.  Output is abstracted to numbered pieces: a      *)
(* buffer counts, per stream of the container, the pieces it received.     *)
(***************************************************************************)
EXTENDS ExecCall

CONSTANT Drops     \* whether the connection to the API server may be lost

ASSUME DropsAssumption == Drops \in BOOLEAN

VARIABLES
  todo,      \* todo[s]: pieces of stream s the container has still to send
  slot,      \* slot[p]: the piece a blocked writer holds in pipe p, or "empty"
  closed,    \* the pipes whose writer has been closed
  buff,      \* buff[b][s]: pieces of stream s copied into buffer b
  exec,      \* where the goroutine that runs ExecCommand is
  execErr,   \* whether ExecCommand returned an error
  reading,   \* the pipes whose reading goroutine has not finished
  wg         \* the counter of the WaitGroup

vars == <<written, result, todo, slot, closed, buff, exec, execErr, reading, wg, lost>>

Pipe == {"stdoutPipe", "stderrPipe"}
Buffer == {"stdoutBuff", "stderrBuff"}

\* StreamOptions.Stdout is the parameter stdout, for which the caller passes
\* stderrWriter; StreamOptions.Stderr is stdoutWriter.
PipeOf_notCrossed(s) == IF s = "out" THEN "stdoutPipe" ELSE "stderrPipe"
PipeOf(s) == IF s = "out" THEN "stderrPipe" ELSE "stdoutPipe"

\* io.Copy(stdoutBuff, stderrReader) and io.Copy(stderrBuff, stdoutReader).
BufferOf(p) == IF p = "stderrPipe" THEN "stdoutBuff" ELSE "stderrBuff"

\* wg.Add(2): the goroutine of ExecCommand is not counted.
Init_addTwo ==
  /\ CallInit
  /\ todo = written
  /\ slot = [p \in Pipe |-> "empty"]
  /\ closed = {}
  /\ buff = [b \in Buffer |-> [s \in Stream |-> 0]]
  /\ exec = "setup"
  /\ execErr = FALSE
  /\ reading = Pipe
  /\ wg = 2

Init ==
  /\ CallInit
  /\ todo = written
  /\ slot = [p \in Pipe |-> "empty"]
  /\ closed = {}
  /\ buff = [b \in Buffer |-> [s \in Stream |-> 0]]
  /\ exec = "setup"
  /\ execErr = FALSE
  /\ reading = Pipe
  /\ wg = 3

-----------------------------------------------------------------------------
(* The goroutine that runs ExecCommand.                                    *)

\* GetK8sRestConfig, GetClient or NewExecutor fails: ExecCommand returns the
\* error at once, without closing the two writers, and Done runs.
SetupFails ==
  /\ exec = "setup"
  /\ exec' = "done"
  /\ execErr' = TRUE
  /\ wg' = wg - 1
  /\ UNCHANGED <<written, result, todo, slot, closed, buff, reading, lost>>

SetupSucceeds ==
  /\ exec = "setup"
  /\ exec' = "stream"
  /\ UNCHANGED <<written, result, todo, slot, closed, buff, execErr, reading, wg, lost>>

\* Stream cannot open the connection or a stream of it.
StreamRefused ==
  /\ exec = "stream"
  /\ todo = written
  /\ \A p \in Pipe : slot[p] = "empty"
  /\ exec' = "close"
  /\ execErr' = TRUE
  /\ UNCHANGED <<written, result, todo, slot, closed, buff, reading, wg, lost>>

\* Stream's copy of one stream writes a piece; the pipe has no buffer, so the
\* writer holds it until the reader has taken it.
Write(s) ==
  /\ exec = "stream" /\ ~lost
  /\ todo[s] > 0
  /\ slot[PipeOf(s)] = "empty"
  /\ todo' = [todo EXCEPT ![s] = @ - 1]
  /\ slot' = [slot EXCEPT ![PipeOf(s)] = s]
  /\ UNCHANGED <<written, result, closed, buff, exec, execErr, reading, wg, lost>>

\* The connection dies: what the container still has to send never arrives.
ConnectionLost ==
  /\ Drops
  /\ exec = "stream" /\ ~lost
  /\ lost' = TRUE
  /\ UNCHANGED <<written, result, todo, slot, closed, buff, exec, execErr, reading, wg>>

\* Both copies have ended and Stream returns what came over the error stream:
\* nothing for a command that succeeded, and nothing either for a connection
\* that was lost, whose streams all end as if the container had closed them.
StreamReturns ==
  /\ exec = "stream"
  /\ lost \/ \A s \in Stream : todo[s] = 0
  /\ \A p \in Pipe : slot[p] = "empty"
  /\ exec' = "close"
  /\ execErr' \in BOOLEAN
  /\ UNCHANGED <<written, result, todo, slot, closed, buff, reading, wg, lost>>

\* stderr.Close() and then stdout.Close(), and the return that runs Done.
CloseFirst ==
  /\ exec = "close"
  /\ closed' = closed \cup {PipeOf("err")}
  /\ exec' = "closeSecond"
  /\ UNCHANGED <<written, result, todo, slot, buff, execErr, reading, wg, lost>>

CloseSecond_leftOpen ==
  /\ exec = "closeSecond"
  /\ exec' = "done"
  /\ wg' = wg - 1
  /\ UNCHANGED <<written, result, todo, slot, closed, buff, execErr, reading, lost>>

CloseSecond ==
  /\ exec = "closeSecond"
  /\ closed' = closed \cup {PipeOf("out")}
  /\ exec' = "done"
  /\ wg' = wg - 1
  /\ UNCHANGED <<written, result, todo, slot, buff, execErr, reading, lost>>

-----------------------------------------------------------------------------
(* The two reading goroutines and the caller.                              *)

Read(p) ==
  /\ p \in reading
  /\ slot[p] # "empty"
  /\ buff' = [buff EXCEPT ![BufferOf(p)][slot[p]] = @ + 1]
  /\ slot' = [slot EXCEPT ![p] = "empty"]
  /\ UNCHANGED <<written, result, todo, closed, exec, execErr, reading, wg, lost>>

ReadEOF_again(p) ==
  /\ p \in reading \cap closed
  /\ slot[p] = "empty"
  /\ wg' = wg - 1
  /\ UNCHANGED <<written, result, todo, slot, closed, buff, exec, execErr, reading, lost>>

ReadEOF(p) ==
  /\ p \in reading \cap closed
  /\ slot[p] = "empty"
  /\ reading' = reading \ {p}
  /\ wg' = wg - 1
  /\ UNCHANGED <<written, result, todo, slot, closed, buff, exec, execErr, lost>>

WaitReturns_errorDropped ==
  /\ result = Open
  /\ wg = 0
  /\ result' = Output(buff["stdoutBuff"], buff["stderrBuff"])
  /\ UNCHANGED <<written, todo, slot, closed, buff, exec, execErr, reading, wg, lost>>

\* wg.Wait() returns; the copy errors are nil, since neither reader is closed.
WaitReturns ==
  /\ result = Open
  /\ wg = 0
  /\ result' = IF execErr THEN Failed
               ELSE Output(buff["stdoutBuff"], buff["stderrBuff"])
  /\ UNCHANGED <<written, todo, slot, closed, buff, exec, execErr, reading, wg, lost>>

-----------------------------------------------------------------------------

ExecNext ==
  \/ SetupFails \/ SetupSucceeds \/ StreamRefused
  \/ \E s \in Stream : Write(s)
  \/ StreamReturns \/ CloseFirst \/ CloseSecond

ReaderNext(p) == Read(p) \/ ReadEOF(p)

Next == ExecNext \/ ConnectionLost \/ (\E p \in Pipe : ReaderNext(p)) \/ WaitReturns

Spec == Init /\ [][Next]_vars

\* Go schedules every goroutine that can run.  The command itself is assumed
\* to end (its output is finite); the code has no timeout for one that does not.
FairSpec ==
  /\ Spec
  /\ WF_vars(ExecNext)
  /\ \A p \in Pipe : WF_vars(ReaderNext(p))
  /\ WF_vars(WaitReturns)

-----------------------------------------------------------------------------
(* Properties.                                                             *)

TypeOK ==
  /\ written \in [Stream -> 0..Chunks]
  /\ result \in {Open, Failed} \cup
       [kind : {"output"}, stdout : [Stream -> Nat], stderr : [Stream -> Nat]]
  /\ todo \in [Stream -> Nat]
  /\ slot \in [Pipe -> Stream \cup {"empty"}]
  /\ closed \subseteq Pipe
  /\ buff \in [Buffer -> [Stream -> Nat]]
  /\ exec \in {"setup", "stream", "close", "closeSecond", "done"}
  /\ execErr \in BOOLEAN
  /\ reading \subseteq Pipe
  /\ wg \in 0..3
  /\ lost \in BOOLEAN

\* A call that returns without an error and kept its connection returns all the
\* output of the command and each stream in the result of its name, whatever the
\* interleaving of the copies, although the names of the pipes and buffers are
\* crossed.
OutputIsComplete ==
  result \notin {Open, Failed} /\ ~lost =>
    /\ result.stdout = Exactly("out")
    /\ result.stderr = Exactly("err")

\* Whatever is lost on the way, a result never holds a piece of the other
\* stream or more than the command wrote.
NothingInvented ==
  result \notin {Open, Failed} =>
    /\ \A s \in Stream : result.stdout[s] <= Exactly("out")[s]
    /\ \A s \in Stream : result.stderr[s] <= Exactly("err")[s]

\* The buffers are read by the caller only once no goroutine can write to them:
\* a piece is never in flight when the WaitGroup has been released.
JoinedBeforeRead ==
  wg = 0 => /\ reading = {} /\ exec = "done"
            /\ \A p \in Pipe : slot[p] = "empty"

\* The invariant behind the three above.  Pieces are conserved: what stream s
\* writes is still to come, held in its pipe, or in its buffer, and nowhere else.
Held(s) == IF slot[PipeOf(s)] = s THEN 1 ELSE 0

Conserved ==
  \A s \in Stream :
    /\ written[s] = todo[s] + Held(s) + buff[BufferOf(PipeOf(s))][s]
    /\ \A b \in Buffer \ {BufferOf(PipeOf(s))} : buff[b][s] = 0
    /\ \A p \in Pipe \ {PipeOf(s)} : slot[p] # s

\* The WaitGroup counts the goroutines that have not ended, and a goroutine ends
\* only behind the work it has to do.
Joined ==
  /\ wg = (IF exec = "done" THEN 0 ELSE 1)
          + (IF "stdoutPipe" \in reading THEN 1 ELSE 0)
          + (IF "stderrPipe" \in reading THEN 1 ELSE 0)
  /\ exec # "stream" => \A p \in Pipe : slot[p] = "empty"
  /\ closed # {} => exec \in {"closeSecond", "done"}
  /\ \A p \in Pipe \ reading : p \in closed

\* ExecCommand reports success only for a command whose output it has passed on
\* in full, unless the connection was lost.
Honest ==
  /\ exec \in {"close", "closeSecond", "done"} /\ ~execErr /\ ~lost =>
       \A s \in Stream : todo[s] = 0
  /\ lost => Drops
  /\ result # Open => wg = 0
  /\ result \notin {Open, Failed} =>
       ~execErr /\ result = Output(buff["stdoutBuff"], buff["stderrBuff"])

IInv == TypeOK /\ Conserved /\ Joined /\ Honest

\* The call is an implementation of what ExecCall promises.
Call == INSTANCE ExecCall
ImplementsCall == Call!CallSpec

\* Every call whose command could be started comes back: the two readers, the
\* executor and the caller never wait for each other for ever.
ReturnsOnceStreaming == (exec = "stream") ~> (result # Open)

\* Every call comes back, with the output or with the error ("Execute the
\* command with a response of stdout, stderr, and error").
EveryCallReturns == <>(result # Open)
=============================================================================
