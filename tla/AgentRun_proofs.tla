-------------------------- MODULE AgentRun_proofs --------------------------
(***************************************************************************)
(* Proofs about the process engine: it implements RunSpec under the      *)
(* refinement mapping of AgentRun, for every output, input, set of codes  *)
(* and pipe capacity.                                                     *)
(***************************************************************************)
EXTENDS AgentRun, SequenceTheorems, TLAPS

(* The inductive invariant of the engine.  The pipes never hold more than *)
(* the process wrote nor the process more than its output; every sink     *)
(* holds a prefix of its own stream, and a wired working sink holds all   *)
(* the chunks its relay took.  Nothing is written before the process      *)
(* runs, an exited process wrote everything and has a code, and the exit  *)
(* status is only delivered with both pipes drained.                      *)
RunInv ==
    /\ RunTypeOK
    /\ \A s \in OutStreams :
         /\ taken[s] <= written[s]
         /\ written[s] <= Len(Output[s])
         /\ Len(sink[s]) <= taken[s]
         /\ \A k \in 1 .. Len(sink[s]) : sink[s][k] = Output[s][k]
         /\ wired[s] /\ sinkOk[s] => Len(sink[s]) = taken[s]
    /\ procState \in {"idle", "starting"} =>
         \A s \in OutStreams : written[s] = 0 /\ sink[s] = <<>>
    /\ procState = "exited" =>
         /\ \A s \in OutStreams : written[s] = Len(Output[s])
         /\ \E c \in Codes : code = <<c>>
    /\ delivered =>
         /\ procState = "exited"
         /\ \A s \in OutStreams : taken[s] = written[s]

USE OutputAssumption, InputAssumption, CodesAssumption, PipeCapAssumption

(* The initial state satisfies the invariant.                            *)
LEMMA InitRunInv == RunInit => RunInv
<1> SUFFICES ASSUME RunInit PROVE RunInv
  OBVIOUS
<1>1. RunTypeOK
  BY EmptySeq DEF RunInit, RunTypeOK
<1>2. \A s \in OutStreams : sink[s] = <<>> /\ written[s] = 0 /\ taken[s] = 0
  BY DEF RunInit
<1>3. QED
  BY <1>1, <1>2 DEF RunInit, RunInv

(* Every step of the engine, and the request, preserves the invariant.   *)
LEMMA NextRunInv == RunInv /\ [RunNext]_runVars => RunInv'
<1> SUFFICES ASSUME RunInv, [RunNext]_runVars PROVE RunInv'
  OBVIOUS
<1> USE DEF RunInv, RunTypeOK
<1>1. ASSUME NEW ws \in [OutStreams -> BOOLEAN], NEW in \in BOOLEAN, Request(ws, in)
      PROVE RunInv'
  BY <1>1 DEF Request
<1>2. CASE Start
  BY <1>2 DEF Start
<1>3. ASSUME NEW s \in OutStreams, ProcWrite(s) PROVE RunInv'
  BY <1>3 DEF ProcWrite
<1>4. ASSUME NEW s \in OutStreams, Relay(s) PROVE RunInv'
  <2>1. taken[s] < written[s] /\ taken' = [taken EXCEPT ![s] = @ + 1]
    BY <1>4 DEF Relay
  <2>2. CASE wired[s] /\ sinkOk[s] /\ sink' = [sink EXCEPT ![s] = Append(@, Output[s][taken[s] + 1])]
                                   /\ UNCHANGED sinkOk
    BY <1>4, <2>1, <2>2 DEF Relay
  <2>3. CASE wired[s] /\ sinkOk[s] /\ sinkOk' = [sinkOk EXCEPT ![s] = FALSE]
                                   /\ UNCHANGED sink
    BY <1>4, <2>1, <2>3 DEF Relay
  <2>4. CASE ~(wired[s] /\ sinkOk[s]) /\ UNCHANGED <<sink, sinkOk>>
    BY <1>4, <2>1, <2>4 DEF Relay
  <2>5. QED
    BY <1>4, <2>2, <2>3, <2>4 DEF Relay
<1>5. CASE ProcRead
  BY <1>5 DEF ProcRead
<1>6. ASSUME NEW c \in Codes, ProcExit(c) PROVE RunInv'
  BY <1>6 DEF ProcExit
<1>7. CASE StdinRelay
  BY <1>7 DEF StdinRelay
<1>8. CASE StdinClose
  BY <1>8 DEF StdinClose
<1>9. CASE Deliver
  BY <1>9 DEF Deliver
<1>10. CASE UNCHANGED runVars
  BY <1>10 DEF runVars
<1>11. QED
  BY <1>1, <1>2, <1>3, <1>4, <1>5, <1>6, <1>7, <1>8, <1>9, <1>10 DEF RunNext, EngineNext

(* The initial state maps to RunSpec's initial state.                    *)
LEMMA InitRefined == RunInit => R!AInit
BY DEF RunInit, R!AInit, AbsState, OutStreams, R!OutStreams

(* Every step maps to a step of RunSpec or to a stutter: the request to  *)
(* Accept, a start error to FailStart, a relay into a working sink to    *)
(* Emit, a failing sink write to SinkError, the delivery to Finish; the  *)
(* process's steps, stdin and discarded chunks are stutters.             *)
LEMMA NextRefined == RunInv /\ [RunNext]_runVars => [R!ANext]_R!avars
<1> SUFFICES ASSUME RunInv, [RunNext]_runVars PROVE [R!ANext]_R!avars
  OBVIOUS
<1> USE DEF RunInv, RunTypeOK, OutStreams, R!OutStreams
<1>1. ASSUME NEW ws \in [OutStreams -> BOOLEAN], NEW in \in BOOLEAN, Request(ws, in)
      PROVE R!Accept(ws)
  BY <1>1 DEF Request, R!Accept, AbsState
<1>2. CASE Start
  <2>1. CASE procState' = "running"
    BY <1>2, <2>1 DEF Start, AbsState, R!avars
  <2>2. CASE procState' = "startFailed"
    BY <1>2, <2>2 DEF Start, R!FailStart, AbsState, R!ANext
  <2>3. QED
    BY <1>2, <2>1, <2>2 DEF Start, R!ANext
<1>3. ASSUME NEW s \in OutStreams, ProcWrite(s) PROVE UNCHANGED R!avars
  BY <1>3 DEF ProcWrite, AbsState, R!avars
<1>4. ASSUME NEW s \in OutStreams, Relay(s) PROVE [R!ANext]_R!avars
  <2>1. /\ taken[s] < written[s]
        /\ procState \in {"running", "exited"}
        /\ ~delivered
        /\ AbsState = "running" /\ AbsState' = "running"
    BY <1>4 DEF Relay, AbsState
  <2>2. CASE wired[s] /\ sinkOk[s] /\ sink' = [sink EXCEPT ![s] = Append(@, Output[s][taken[s] + 1])]
                                   /\ UNCHANGED sinkOk
    <3>1. Len(sink[s]) = taken[s] /\ Len(sink[s]) < Len(Output[s])
      BY <2>1, <2>2
    <3>2. R!Emit(s)
      BY <1>4, <2>1, <2>2, <3>1 DEF Relay, R!Emit
    <3>3. QED
      BY <3>2 DEF R!ANext
  <2>3. CASE wired[s] /\ sinkOk[s] /\ sinkOk' = [sinkOk EXCEPT ![s] = FALSE]
                                   /\ UNCHANGED sink
    <3>1. R!SinkError(s)
      BY <1>4, <2>1, <2>3 DEF Relay, R!SinkError
    <3>2. QED
      BY <3>1 DEF R!ANext
  <2>4. CASE ~(wired[s] /\ sinkOk[s]) /\ UNCHANGED <<sink, sinkOk>>
    BY <1>4, <2>1, <2>4 DEF Relay, R!avars
  <2>5. QED
    BY <1>4, <2>2, <2>3, <2>4 DEF Relay
<1>5. CASE ProcRead
  BY <1>5 DEF ProcRead, AbsState, R!avars
<1>6. ASSUME NEW c \in Codes, ProcExit(c) PROVE UNCHANGED R!avars
  BY <1>6 DEF ProcExit, AbsState, R!avars
<1>7. CASE StdinRelay
  BY <1>7 DEF StdinRelay, AbsState, R!avars
<1>8. CASE StdinClose
  BY <1>8 DEF StdinClose, AbsState, R!avars
<1>9. CASE Deliver
  <2>1. PICK c \in Codes : code = <<c>>
    BY <1>9 DEF Deliver
  <2>2. \A s \in OutStreams : wired[s] /\ sinkOk[s] => sink[s] = Output[s]
    <3> SUFFICES ASSUME NEW s \in OutStreams, wired[s] /\ sinkOk[s]
                 PROVE sink[s] = Output[s]
      OBVIOUS
    <3>1. Len(sink[s]) = Len(Output[s])
      BY <1>9 DEF Deliver
    <3>2. QED
      BY <3>1, SeqEqual
  <2>3. R!Finish(c)
    BY <1>9, <2>1, <2>2 DEF Deliver, R!Finish, AbsState
  <2>4. QED
    BY <2>3 DEF R!ANext
<1>10. CASE UNCHANGED runVars
  BY <1>10 DEF runVars, AbsState, R!avars
<1>11. QED
  BY <1>1, <1>2, <1>3, <1>4, <1>5, <1>6, <1>7, <1>8, <1>9, <1>10
  DEF RunNext, EngineNext, R!ANext

(* The process engine implements RunSpec (see RunRefinesSpec): whatever   *)
(* the interleaving of the process, its three relays and the pipes, each  *)
(* sink receives its own stream in order and the exit code comes last.    *)
THEOREM RunRefinement == RunSpecImpl => RunRefinesSpec
<1>1. RunSpecImpl => []RunInv
  BY InitRunInv, NextRunInv, PTL DEF RunSpecImpl
<1>2. QED
  BY <1>1, InitRefined, NextRefined, PTL DEF RunSpecImpl, RunRefinesSpec, R!ASpec

=============================================================================
