------------------------------ MODULE ExecCall ------------------------------
(***************************************************************************)
(* What a caller of ExecCommandWithStdoutStderr can rely on: the call      *)
(* stays open for a while and then returns once, either with an error and  *)
(* no output, or without an error and with everything the command wrote to *)
(* its standard output in the first result and everything it wrote to its  *)
(* standard error in the second.  When the connection to the API server is *)
(* lost, the output may stop early without an error.                       *)
(***************************************************************************)
EXTENDS Naturals

CONSTANT Chunks    \* most pieces of output the command writes to one stream

ASSUME ChunksAssumption == Chunks \in Nat

VARIABLES
  written,    \* written[s]: pieces the command writes to stream s in its life
  result,     \* what the call has returned
  lost        \* whether the connection is lost

Stream == {"out", "err"}

Open == [kind |-> "open"]
Failed == [kind |-> "failed"]
Output(stdout, stderr) == [kind |-> "output", stdout |-> stdout, stderr |-> stderr]

\* The content of a buffer that holds everything of stream s and nothing else.
Exactly(s) == [t \in Stream |-> IF t = s THEN written[s] ELSE 0]

\* Contents that hold the first pieces of stream s and nothing else.
Prefixes(s) ==
  {b \in [Stream -> 0..Chunks] : \A t \in Stream : b[t] <= Exactly(s)[t]}

CallInit ==
  /\ written \in [Stream -> 0..Chunks]
  /\ result = Open
  /\ lost = FALSE

Return ==
  /\ result = Open
  /\ \/ result' = Failed
     \/ result' = Output(Exactly("out"), Exactly("err"))
     \/ /\ lost
        /\ \E b \in Prefixes("out"), c \in Prefixes("err") : result' = Output(b, c)
  /\ UNCHANGED <<written, lost>>

Lose ==
  /\ result = Open
  /\ lost' = TRUE
  /\ UNCHANGED <<written, result>>

CallSpec == CallInit /\ [][Return \/ Lose]_<<written, result, lost>>
=============================================================================
