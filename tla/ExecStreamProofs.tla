-------------------------- MODULE ExecStreamProofs --------------------------
(***************************************************************************)
(* Theorems about ExecStream, for every amount of output and with or       *)
(* without lost connections.  Everything follows from IInv, which says     *)
(* where every piece of output is and what the WaitGroup counts.           *)
(***************************************************************************)
EXTENDS ExecStream, TLAPS

USE ChunksAssumption, DropsAssumption

\* The initial states satisfy the invariant.
LEMMA InitIInv == Init => IInv
<1> SUFFICES ASSUME Init PROVE IInv
  OBVIOUS
<1>1. TypeOK
  <2>1. written \in [Stream -> 0..Chunks] /\ todo \in [Stream -> Nat]
    BY DEF Init, CallInit
  <2>2. buff \in [Buffer -> [Stream -> Nat]]
    BY DEF Init
  <2>3. slot \in [Pipe -> Stream \cup {"empty"}]
    BY DEF Init
  <2>4. result = Open /\ closed \subseteq Pipe /\ reading \subseteq Pipe
    BY DEF Init, CallInit
  <2>5. execErr \in BOOLEAN /\ lost \in BOOLEAN
    BY DEF Init, CallInit
  <2>6. exec \in {"setup", "stream", "close", "closeSecond", "done"} /\ wg \in 0..3
    BY DEF Init
  <2> QED
    BY <2>1, <2>2, <2>3, <2>4, <2>5, <2>6 DEF TypeOK
<1> USE DEF Init, CallInit, Stream, Pipe, Buffer, PipeOf, BufferOf, Open, Failed
<1>2. Conserved
  BY DEF Conserved, Held
<1>3. Joined
  BY DEF Joined
<1>4. Honest
  BY DEF Honest
<1> QED
  BY <1>1, <1>2, <1>3, <1>4 DEF IInv

\* A step of the goroutine that runs ExecCommand, other than a write, keeps the
\* invariant.
LEMMA ExecKeepsIInv ==
  ASSUME IInv,
         SetupFails \/ SetupSucceeds \/ StreamRefused \/ ConnectionLost
           \/ StreamReturns \/ CloseFirst \/ CloseSecond
  PROVE  IInv'
<1> USE DEF IInv, TypeOK, Conserved, Held, Joined, Honest, Stream, Pipe, Buffer,
            PipeOf, BufferOf, Open, Failed
<1>1. CASE SetupFails
  BY <1>1 DEF SetupFails
<1>2. CASE SetupSucceeds
  BY <1>2 DEF SetupSucceeds
<1>3. CASE StreamRefused
  BY <1>3 DEF StreamRefused
<1>4. CASE ConnectionLost
  BY <1>4 DEF ConnectionLost
<1>5. CASE StreamReturns
  BY <1>5 DEF StreamReturns
<1>6. CASE CloseFirst
  BY <1>6 DEF CloseFirst
<1>7. CASE CloseSecond
  BY <1>7 DEF CloseSecond
<1> QED
  BY <1>1, <1>2, <1>3, <1>4, <1>5, <1>6, <1>7

\* A write moves one piece of its stream from the container into the pipe.
LEMMA WriteKeepsIInv ==
  ASSUME IInv, NEW s \in Stream, Write(s)
  PROVE  IInv'
  BY DEF IInv, TypeOK, Conserved, Held, Joined, Honest, Stream, Pipe, Buffer,
         PipeOf, BufferOf, Open, Failed, Write

\* A read moves one piece from a pipe into the buffer of its stream.
LEMMA ReadKeepsIInv ==
  ASSUME IInv, NEW p \in Pipe, Read(p)
  PROVE  IInv'
  BY DEF IInv, TypeOK, Conserved, Held, Joined, Honest, Stream, Pipe, Buffer,
         PipeOf, BufferOf, Open, Failed, Read

\* A reader that sees the end of its pipe leaves the WaitGroup once.
LEMMA ReadEOFKeepsIInv ==
  ASSUME IInv, NEW p \in Pipe, ReadEOF(p)
  PROVE  IInv'
  BY DEF IInv, TypeOK, Conserved, Held, Joined, Honest, Stream, Pipe, Buffer,
         PipeOf, BufferOf, Open, Failed, ReadEOF

\* The caller takes the buffers as they are.
LEMMA WaitReturnsKeepsIInv ==
  ASSUME IInv, WaitReturns
  PROVE  IInv'
  BY DEF IInv, TypeOK, Conserved, Held, Joined, Honest, Stream, Pipe, Buffer,
         PipeOf, BufferOf, Open, Failed, Output, WaitReturns

\* The invariant of the call holds in every reachable state.
THEOREM Invariance == Spec => []IInv
<1>1. Init => IInv
  BY InitIInv
<1>2. IInv /\ [Next]_vars => IInv'
  <2> SUFFICES ASSUME IInv, [Next]_vars
               PROVE  IInv'
    OBVIOUS
  <2>1. CASE ExecNext \/ ConnectionLost
    BY <2>1, ExecKeepsIInv, WriteKeepsIInv DEF ExecNext
  <2>2. CASE \E p \in Pipe : ReaderNext(p)
    BY <2>2, ReadKeepsIInv, ReadEOFKeepsIInv DEF ReaderNext
  <2>3. CASE WaitReturns
    BY <2>3, WaitReturnsKeepsIInv
  <2>4. CASE UNCHANGED vars
    BY <2>4 DEF vars, IInv, TypeOK, Conserved, Held, Joined, Honest
  <2> QED
    BY <2>1, <2>2, <2>3, <2>4 DEF Next
<1> QED
  BY <1>1, <1>2, PTL DEF Spec

\* Type correctness; in particular the WaitGroup is never negative, which in Go
\* is a panic.
THEOREM TypeCorrect == Spec => []TypeOK
<1>1. IInv => TypeOK
  BY DEF IInv
<1> QED
  BY <1>1, Invariance, PTL

\* No goroutine writes to a buffer once the caller may read it.
THEOREM JoinedSafe == Spec => []JoinedBeforeRead
<1>1. IInv => JoinedBeforeRead
  BY DEF IInv, TypeOK, Joined, JoinedBeforeRead, Pipe
<1> QED
  BY <1>1, Invariance, PTL

\* What a finished call holds in its two buffers.
LEMMA BuffersAreExact ==
  ASSUME IInv, ~lost, wg = 0, ~execErr
  PROVE  /\ buff["stdoutBuff"] = Exactly("out")
         /\ buff["stderrBuff"] = Exactly("err")
<1>1. exec = "done" /\ \A p \in Pipe : slot[p] = "empty"
  BY DEF IInv, TypeOK, Joined, Pipe
<1>2. \A s \in Stream : todo[s] = 0 /\ Held(s) = 0
  BY <1>1 DEF IInv, Honest, Held, PipeOf, Pipe, Stream
<1>3. \A s \in Stream : buff[BufferOf(PipeOf(s))][s] = written[s]
  BY <1>2 DEF IInv, Conserved, TypeOK, Stream, Buffer, PipeOf, BufferOf
<1>4. \A s \in Stream, b \in Buffer : b # BufferOf(PipeOf(s)) => buff[b][s] = 0
  BY DEF IInv, Conserved
<1>5. buff \in [Buffer -> [Stream -> Nat]]
  BY DEF IInv, TypeOK
<1> QED
  BY <1>3, <1>4, <1>5 DEF Exactly, Stream, Buffer, PipeOf, BufferOf

\* A call that returns without an error and kept its connection returns all of the
\* output, every stream under its own name.
THEOREM OutputComplete == Spec => []OutputIsComplete
<1>1. IInv => OutputIsComplete
  <2> SUFFICES ASSUME IInv, result \notin {Open, Failed}, ~lost
               PROVE  result.stdout = Exactly("out") /\ result.stderr = Exactly("err")
    BY DEF OutputIsComplete
  <2>1. wg = 0 /\ ~execErr /\ result = Output(buff["stdoutBuff"], buff["stderrBuff"])
    BY DEF IInv, Honest, Open
  <2> QED
    BY <2>1, BuffersAreExact DEF Output
<1> QED
  BY <1>1, Invariance, PTL

\* The buffers never hold more than was written, nor a piece of the other stream.
LEMMA BuffersArePrefixes ==
  ASSUME IInv
  PROVE  /\ buff["stdoutBuff"] \in Prefixes("out")
         /\ buff["stderrBuff"] \in Prefixes("err")
<1>1. \A s \in Stream :
        /\ Held(s) \in {0, 1} /\ todo[s] \in Nat /\ written[s] \in 0..Chunks
        /\ buff["stdoutBuff"][s] \in Nat /\ buff["stderrBuff"][s] \in Nat
  BY DEF IInv, TypeOK, Held, Buffer
<1>2. \A s \in Stream :
        /\ written[s] = todo[s] + Held(s) + buff[BufferOf(PipeOf(s))][s]
        /\ \A b \in Buffer \ {BufferOf(PipeOf(s))} : buff[b][s] = 0
  BY DEF IInv, Conserved
<1>3. /\ buff["stdoutBuff"]["out"] <= written["out"] /\ buff["stdoutBuff"]["err"] = 0
      /\ buff["stderrBuff"]["err"] <= written["err"] /\ buff["stderrBuff"]["out"] = 0
  BY <1>1, <1>2 DEF BufferOf, PipeOf, Stream, Buffer
<1>4. /\ buff["stdoutBuff"] \in [Stream -> 0..Chunks]
      /\ buff["stderrBuff"] \in [Stream -> 0..Chunks]
  <2>1. /\ buff["stdoutBuff"] \in [Stream -> Nat]
        /\ buff["stderrBuff"] \in [Stream -> Nat]
    BY DEF IInv, TypeOK, Buffer
  <2> QED
    BY <1>1, <1>3, <2>1 DEF Stream
<1> QED
  BY <1>3, <1>4 DEF Prefixes, Exactly, Stream

\* With a lost connection output may be missing, but none is invented.
THEOREM OutputNotInvented == Spec => []NothingInvented
<1>1. IInv => NothingInvented
  <2> SUFFICES ASSUME IInv, result \notin {Open, Failed}
               PROVE  /\ \A s \in Stream : result.stdout[s] <= Exactly("out")[s]
                      /\ \A s \in Stream : result.stderr[s] <= Exactly("err")[s]
    BY DEF NothingInvented
  <2>1. result = Output(buff["stdoutBuff"], buff["stderrBuff"])
    BY DEF IInv, Honest, Open
  <2> QED
    BY <2>1, BuffersArePrefixes DEF Output, Prefixes
<1> QED
  BY <1>1, Invariance, PTL

\* The goroutines and pipes implement the call of ExecCall: the return of wg.Wait
\* and the loss of the connection are its steps, all others stutter.
THEOREM Refinement == Spec => ImplementsCall
<1> USE DEF Open, Call!Open, Failed, Call!Failed, Output, Call!Output, Exactly,
            Call!Exactly, Prefixes, Call!Prefixes, Stream, Call!Stream
<1>1. Init => Call!CallInit
  BY DEF Init, CallInit, Call!CallInit
<1>2. IInv /\ [Next]_vars => [Call!Return \/ Call!Lose]_<<written, result, lost>>
  <2> SUFFICES ASSUME IInv, [Next]_vars
               PROVE  [Call!Return \/ Call!Lose]_<<written, result, lost>>
    OBVIOUS
  <2>1. CASE WaitReturns
    <3> DEFINE out == buff["stdoutBuff"]
               err == buff["stderrBuff"]
    <3>1. out \in Prefixes("out") /\ err \in Prefixes("err")
      BY BuffersArePrefixes
    <3>2. ~lost /\ ~execErr => out = Exactly("out") /\ err = Exactly("err")
      BY <2>1, BuffersAreExact DEF WaitReturns
    <3>3. result = Open /\ result' = (IF execErr THEN Failed ELSE Output(out, err))
          /\ UNCHANGED <<written, lost>>
      BY <2>1 DEF WaitReturns
    <3> HIDE DEF out, err
    <3>4. CASE execErr
      BY <3>3, <3>4 DEF Call!Return
    <3>5. CASE ~execErr /\ ~lost
      BY <3>2, <3>3, <3>5 DEF Call!Return
    <3>6. CASE ~execErr /\ lost
      BY <3>1, <3>3, <3>6 DEF Call!Return
    <3>7. lost \in BOOLEAN /\ execErr \in BOOLEAN
      BY DEF IInv, TypeOK
    <3> QED
      BY <3>4, <3>5, <3>6, <3>7
  <2>2. CASE ConnectionLost
    <3>1. exec = "stream" /\ lost' = TRUE /\ UNCHANGED <<written, result>>
      BY <2>2 DEF ConnectionLost
    <3>2. result = Open
      BY <3>1 DEF IInv, Honest, Joined, TypeOK
    <3> QED
      BY <3>1, <3>2 DEF Call!Lose
  <2>3. CASE ~WaitReturns /\ ~ConnectionLost
    <3>1. UNCHANGED <<written, result, lost>>
      BY <2>3 DEF Next, vars, ExecNext, ReaderNext, SetupFails, SetupSucceeds,
         StreamRefused, Write, StreamReturns, CloseFirst, CloseSecond, Read, ReadEOF
    <3> QED
      BY <3>1
  <2> QED
    BY <2>1, <2>2, <2>3
<1> QED
  BY <1>1, <1>2, Invariance, PTL DEF Spec, ImplementsCall, Call!CallSpec
=============================================================================
