------------------------------ MODULE AgentRun ------------------------------
(***************************************************************************)
(* The node agent's process execution engine serving one Run request     *)
(* (spec.md 4.3 and 5).  The agent is not under src/: this module is      *)
(* modelled from the spec.                                                *)
(*                                                                         *)
(* The process writes its stdout and stderr into two OS pipes of bounded  *)
(* capacity and blocks while a pipe is full.  One relay task per stream   *)
(* drains its pipe: into the caller's sink when one is wired and working, *)
(* otherwise discarding.  A third relay copies the caller's input into    *)
(* the process's stdin and closes it at end of input.  The process reads  *)
(* its stdin to EOF, writes its output and exits; the engine reports the  *)
(* exit code once both output pipes are drained.                          *)
(*                                                                         *)
(* Chunks are abstracted to model values; a pipe holds the chunks its     *)
(* stream's relay has not taken yet, so it is given by two counters.      *)
(***************************************************************************)
EXTENDS Integers, Sequences

CONSTANTS
    Items,   \* the chunks a process may read or write
    Output,  \* Output[s]: what the process writes on stream s, in order
    Input,   \* the caller's input stream, when one is supplied
    Codes,   \* the exit codes the process may end with
    PipeCap  \* capacity of an OS pipe, in chunks

OutStreams == {"stdout", "stderr"}

ASSUME OutputAssumption == Output \in [OutStreams -> Seq(Items)]
ASSUME InputAssumption == Input \in Seq(Items)
ASSUME CodesAssumption == Codes \subseteq Int
ASSUME PipeCapAssumption == PipeCap \in Nat \ {0}

VARIABLES
    procState,   \* "idle", "starting", "running", "exited", "startFailed"
    wired,       \* wired[s]: the request supplied a sink for stream s
    written,     \* written[s]: chunks the process wrote into pipe s
    taken,       \* taken[s]: chunks the relay of s took out of pipe s
    sink,        \* sink[s]: what the caller's sink for s received
    sinkOk,      \* sinkOk[s]: no write to the sink for s has failed
    fed,         \* input chunks the stdin relay wrote into the stdin pipe
    read,        \* chunks the process read from its stdin
    stdinClosed, \* the write end of the stdin pipe is closed
    code,        \* <<c>> once the process exited with code c
    delivered    \* the exit status was sent to the caller

runVars == <<procState, wired, written, taken, sink, sinkOk, fed, read,
             stdinClosed, code, delivered>>

RunTypeOK ==
    /\ procState \in {"idle", "starting", "running", "exited", "startFailed"}
    /\ wired \in [OutStreams -> BOOLEAN]
    /\ written \in [OutStreams -> Nat]
    /\ taken \in [OutStreams -> Nat]
    /\ sink \in [OutStreams -> Seq(Items)]
    /\ sinkOk \in [OutStreams -> BOOLEAN]
    /\ fed \in Nat
    /\ read \in Nat
    /\ stdinClosed \in BOOLEAN
    /\ code \in Seq(Codes)
    /\ delivered \in BOOLEAN

RunInit ==
    /\ procState = "idle"
    /\ wired = [s \in OutStreams |-> FALSE]
    /\ written = [s \in OutStreams |-> 0]
    /\ taken = [s \in OutStreams |-> 0]
    /\ sink = [s \in OutStreams |-> <<>>]
    /\ sinkOk = [s \in OutStreams |-> TRUE]
    /\ fed = 0
    /\ read = 0
    /\ stdinClosed = FALSE
    /\ code = <<>>
    /\ delivered = FALSE

(* A run request arrives with sinks for the streams in ws and, if in, an  *)
(* input stream; without one the process's stdin is at EOF at once.      *)
Request(ws, in) ==
    /\ procState = "idle"
    /\ procState' = "starting"
    /\ wired' = ws
    /\ stdinClosed' = ~in
    /\ UNCHANGED <<written, taken, sink, sinkOk, fed, read, code, delivered>>

(* The engine spawns the process; a missing binary or a permission error  *)
(* is a start error, distinct from any exit code.                         *)
Start ==
    /\ procState = "starting"
    /\ procState' \in {"running", "startFailed"}
    /\ UNCHANGED <<wired, written, taken, sink, sinkOk, fed, read, stdinClosed,
                   code, delivered>>

(* The process writes its next chunk of stream s; it blocks while the     *)
(* pipe is full.                                                          *)
ProcWrite(s) ==
    /\ procState = "running"
    /\ written[s] < Len(Output[s])
    /\ written[s] - taken[s] < PipeCap
    /\ written' = [written EXCEPT ![s] = @ + 1]
    /\ UNCHANGED <<procState, wired, taken, sink, sinkOk, fed, read, stdinClosed,
                   code, delivered>>

(* The process reads the next chunk of its stdin.                         *)
ProcRead ==
    /\ procState = "running"
    /\ read < fed
    /\ read' = read + 1
    /\ UNCHANGED <<procState, wired, written, taken, sink, sinkOk, fed,
                   stdinClosed, code, delivered>>

(* The process, having read its stdin to EOF and written all its output,  *)
(* exits with code c; the write ends of its pipes close.                  *)
ProcExit(c) ==
    /\ procState = "running"
    /\ \A s \in OutStreams : written[s] = Len(Output[s])
    /\ stdinClosed /\ read = fed
    /\ procState' = "exited"
    /\ code' = <<c>>
    /\ UNCHANGED <<wired, written, taken, sink, sinkOk, fed, read, stdinClosed,
                   delivered>>

(* The stdin relay copies the next input chunk into the stdin pipe.       *)
StdinRelay ==
    /\ procState = "running"
    /\ ~stdinClosed
    /\ fed < Len(Input)
    /\ fed - read < PipeCap
    /\ fed' = fed + 1
    /\ UNCHANGED <<procState, wired, written, taken, sink, sinkOk, read,
                   stdinClosed, code, delivered>>

(* At the end of the caller's input the stdin relay closes the process's  *)
(* stdin, so that a reader such as "read line" sees EOF.                  *)
StdinClose ==
    /\ procState = "running"
    /\ ~stdinClosed
    /\ fed = Len(Input)
    /\ stdinClosed' = TRUE
    /\ UNCHANGED <<procState, wired, written, taken, sink, sinkOk, fed, read,
                   code, delivered>>

(* Mutant of Relay: a stream is only relayed when a sink is wired.        *)
RelayWiredOnly(s) ==
    /\ procState \in {"running", "exited"}
    /\ wired[s]
    /\ taken[s] < written[s]
    /\ taken' = [taken EXCEPT ![s] = @ + 1]
    /\ \/ /\ sinkOk[s]
          /\ sink' = [sink EXCEPT ![s] = Append(@, Output[s][taken[s] + 1])]
          /\ UNCHANGED sinkOk
       \/ /\ sinkOk[s]
          /\ sinkOk' = [sinkOk EXCEPT ![s] = FALSE]
          /\ UNCHANGED sink
       \/ /\ ~sinkOk[s]
          /\ UNCHANGED <<sink, sinkOk>>
    /\ UNCHANGED <<procState, wired, written, fed, read, stdinClosed, code,
                   delivered>>

(* The relay of stream s takes the next chunk out of its pipe, also after *)
(* the process exited.  A wired, working sink receives it, or its Write   *)
(* fails and the sink receives nothing more; without a working sink the   *)
(* chunk is drained and discarded, so the process never blocks on a full  *)
(* pipe.                                                                  *)
Relay(s) ==
    /\ procState \in {"running", "exited"}
    /\ taken[s] < written[s]
    /\ taken' = [taken EXCEPT ![s] = @ + 1]
    /\ \/ /\ wired[s] /\ sinkOk[s]
          /\ sink' = [sink EXCEPT ![s] = Append(@, Output[s][taken[s] + 1])]
          /\ UNCHANGED sinkOk
       \/ /\ wired[s] /\ sinkOk[s]
          /\ sinkOk' = [sinkOk EXCEPT ![s] = FALSE]
          /\ UNCHANGED sink
       \/ /\ ~(wired[s] /\ sinkOk[s])
          /\ UNCHANGED <<sink, sinkOk>>
    /\ UNCHANGED <<procState, wired, written, fed, read, stdinClosed, code,
                   delivered>>

(* Mutant of Deliver: the exit status is sent as soon as the process is   *)
(* reaped, without waiting for the output relays.                         *)
DeliverOnExit ==
    /\ procState = "exited"
    /\ ~delivered
    /\ delivered' = TRUE
    /\ UNCHANGED <<procState, wired, written, taken, sink, sinkOk, fed, read,
                   stdinClosed, code>>

(* The engine sends the exit status once both output pipes are drained,   *)
(* whether or not a sink failed.                                          *)
Deliver ==
    /\ procState = "exited"
    /\ ~delivered
    /\ \A s \in OutStreams : taken[s] = written[s]
    /\ delivered' = TRUE
    /\ UNCHANGED <<procState, wired, written, taken, sink, sinkOk, fed, read,
                   stdinClosed, code>>

(* The engine's steps once the request arrived.                           *)
EngineNext ==
    \/ Start
    \/ \E s \in OutStreams : ProcWrite(s) \/ Relay(s)
    \/ ProcRead
    \/ \E c \in Codes : ProcExit(c)
    \/ StdinRelay
    \/ StdinClose
    \/ Deliver

RunNext ==
    \/ \E ws \in [OutStreams -> BOOLEAN], in \in BOOLEAN : Request(ws, in)
    \/ EngineNext

(* The engine's tasks are goroutines, and the process an OS process that  *)
(* the tests' commands (echo, sh -c) let terminate: all weakly fair.      *)
(* The caller's request is not.                                           *)
RunFairness ==
    /\ WF_runVars(Start)
    /\ WF_runVars(ProcRead)
    /\ WF_runVars(\E c \in Codes : ProcExit(c))
    /\ WF_runVars(StdinRelay)
    /\ WF_runVars(StdinClose)
    /\ WF_runVars(Deliver)
    /\ \A s \in OutStreams : WF_runVars(ProcWrite(s)) /\ WF_runVars(Relay(s))

RunSpecImpl == RunInit /\ [][RunNext]_runVars
FairRunSpec == RunSpecImpl /\ RunFairness

-----------------------------------------------------------------------------
(***************************************************************************)
(* Properties.                                                             *)
(***************************************************************************)

(* The abstract state of the run the caller sees.                         *)
AbsState ==
    CASE procState = "idle" -> "idle"
      [] procState = "startFailed" -> "failed"
      [] delivered -> "done"
      [] OTHER -> "running"

R == INSTANCE RunSpec WITH state <- AbsState,
                           exit <- IF delivered THEN code ELSE <<>>

(* The engine implements RunSpec: each wired sink receives exactly its    *)
(* own stream, in order, until it fails, and the exit code reaches the    *)
(* caller only after every working sink has all of its stream, however   *)
(* the process, the three relays and the pipes' capacity interleave.      *)
RunRefinesSpec == R!ASpec

(* Every accepted run ends with a start error or a delivered exit code:   *)
(* unwired streams are drained, stdin is closed at end of input and a     *)
(* failing sink does not stop the relay (agent_test.go "no stdout         *)
(* reader" and "stdin to stdout" cases).                                  *)
ExitEventuallyDelivered ==
    procState = "starting" ~> (delivered \/ procState = "startFailed")

=============================================================================
