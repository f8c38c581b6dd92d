------------------------------ MODULE RunSpec ------------------------------
(***************************************************************************)
(* What the node agent's process execution engine promises the caller of *)
(* one Run (spec.md 4.3, 5 and 6): the request names which of the two     *)
(* output sinks are wired; each wired sink receives its own stream's      *)
(* bytes in order until the sink fails; the run ends either with a start  *)
(* error, before any output, or with one exit code, and the exit code is  *)
(* delivered only once every wired, working sink holds its whole stream.  *)
(* Pipes, relay tasks and stdin are not visible at this level.            *)
(***************************************************************************)
EXTENDS Naturals, Sequences

CONSTANTS
    Items,   \* the chunks a process may write, abstracted to model values
    Output,  \* Output[s]: what the process writes on stream s, in order
    Codes    \* the exit codes the process may end with

OutStreams == {"stdout", "stderr"}

VARIABLES
    state,   \* "idle", "running", "failed" (start error) or "done"
    wired,   \* wired[s]: the request supplied a sink for stream s
    sink,    \* sink[s]: what the caller's sink for s has received
    sinkOk,  \* sinkOk[s]: no write to the sink for s has failed
    exit     \* <<c>> once exit code c is delivered, <<>> before

avars == <<state, wired, sink, sinkOk, exit>>

AInit ==
    /\ state = "idle"
    /\ wired = [s \in OutStreams |-> FALSE]
    /\ sink = [s \in OutStreams |-> <<>>]
    /\ sinkOk = [s \in OutStreams |-> TRUE]
    /\ exit = <<>>

(* The run request is accepted, with sinks for the streams in ws.         *)
Accept(ws) ==
    /\ state = "idle"
    /\ state' = "running"
    /\ wired' = ws
    /\ UNCHANGED <<sink, sinkOk, exit>>

(* The process cannot be started: a start error, before any relaying.    *)
FailStart ==
    /\ state = "running"
    /\ \A s \in OutStreams : sink[s] = <<>>
    /\ state' = "failed"
    /\ UNCHANGED <<wired, sink, sinkOk, exit>>

(* The next chunk of stream s reaches its sink.                           *)
Emit(s) ==
    /\ state = "running"
    /\ wired[s] /\ sinkOk[s]
    /\ Len(sink[s]) < Len(Output[s])
    /\ sink' = [sink EXCEPT ![s] = Append(@, Output[s][Len(@) + 1])]
    /\ UNCHANGED <<state, wired, sinkOk, exit>>

(* A write to the sink of stream s fails; it receives nothing more.       *)
SinkError(s) ==
    /\ state = "running"
    /\ wired[s] /\ sinkOk[s]
    /\ sinkOk' = [sinkOk EXCEPT ![s] = FALSE]
    /\ UNCHANGED <<state, wired, sink, exit>>

(* The exit code c is delivered, after all output of the working sinks.  *)
Finish(c) ==
    /\ state = "running"
    /\ \A s \in OutStreams : wired[s] /\ sinkOk[s] => sink[s] = Output[s]
    /\ state' = "done"
    /\ exit' = <<c>>
    /\ UNCHANGED <<wired, sink, sinkOk>>

ANext ==
    \/ \E ws \in [OutStreams -> BOOLEAN] : Accept(ws)
    \/ FailStart
    \/ \E s \in OutStreams : Emit(s) \/ SinkError(s)
    \/ \E c \in Codes : Finish(c)

ASpec == AInit /\ [][ANext]_avars

=============================================================================
