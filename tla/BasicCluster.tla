---------------------------- MODULE BasicCluster ----------------------------
(***************************************************************************)
(* The BasicCluster / BasicNode wrapper (cluster/basic.go, part_000:1-103) *)
(* composed with the node agent's process engine (AgentRun): a test gets  *)
(* one node with BasicCluster.NewNode and runs one command on it with     *)
(* BasicNode.Run, which starts the process through the agent client and   *)
(* waits for its exit code.                                               *)
(*                                                                         *)
(* The cluster behind NewNode is abstracted to its outcome (DockerCluster *)
(* models it): one node, or an error and no nodes.  The client's wait     *)
(* returns what the engine delivers: the exit code and, when a sink       *)
(* failed, the sink error (spec.md 4.3, 7); or it fails on its own before *)
(* the exit status came, with an error (spec.md 3).                       *)
(***************************************************************************)
EXTENDS AgentRun

VARIABLES
    bpc,  \* the test's call: "idle", "node" (NewNode returned a node),
          \* "noNode" (it returned an error), "start", "wait", "done"
    ret   \* <<[code, err]>> once BasicNode.Run returned (code, err # nil)

basicVars == <<bpc, ret>>
vars == <<runVars, basicVars>>

BasicTypeOK ==
    /\ RunTypeOK
    /\ bpc \in {"idle", "node", "noNode", "start", "wait", "done"}
    /\ ret \in Seq([code : Int, err : BOOLEAN])

Init ==
    /\ RunInit
    /\ bpc = "idle"
    /\ ret = <<>>

(* BasicCluster.NewNode: NewNodes(ctx, 1) on the wrapped cluster, through *)
(* BasicCluster.NewNodes, which wraps each returned node in a BasicNode   *)
(* and passes the error on; NewNode returns nodes[0], or nil and the      *)
(* error.                                                                 *)
NewNode ==
    /\ bpc = "idle"
    /\ bpc' \in {"node", "noNode"}
    /\ UNCHANGED <<runVars, ret>>

(* BasicNode.Run: StartProc sends the run request, with sinks for the     *)
(* streams in ws and an input stream if in.                               *)
StartProc(ws, in) ==
    /\ bpc = "node"
    /\ Request(ws, in)
    /\ bpc' = "start"
    /\ UNCHANGED ret

(* Mutant of StartProcReturn: StartProc's error is not checked and Run    *)
(* goes on to wait on the run whose process never started.               *)
StartProcReturnUnchecked ==
    /\ bpc = "start"
    /\ procState # "starting"
    /\ bpc' = "wait"
    /\ UNCHANGED <<runVars, ret>>

(* StartProc returns: on a start error Run returns (-1, err) at once.     *)
StartProcReturn ==
    /\ bpc = "start"
    /\ procState # "starting"
    /\ IF procState = "startFailed"
         THEN /\ bpc' = "done"
              /\ ret' = <<[code |-> -1, err |-> TRUE]>>
         ELSE /\ bpc' = "wait"
              /\ UNCHANGED ret
    /\ UNCHANGED runVars

(* Run's test of the code proc.Wait returned: code != 0.                  *)
NonZero(c) == c # 0

(* What Run returns once proc.Wait returned code c: (-1, "non-zero exit    *)
(* code") for a non-zero code and (c, nil) otherwise, whatever the        *)
(* wait's error.                                                          *)
RunResult(c) ==
    IF NonZero(c) THEN <<[code |-> -1, err |-> TRUE]>>
                  ELSE <<[code |-> c, err |-> FALSE]>>

(* The wait the client handed out returns once the engine delivered the   *)
(* exit status: the code, and an error when one of the wired sinks        *)
(* failed.                                                                *)
WaitReturn ==
    /\ bpc = "wait"
    /\ delivered
    /\ bpc' = "done"
    /\ ret' = RunResult(code[1])
    /\ UNCHANGED runVars

(* The codes a failed wait may come with: the client is not under src/,  *)
(* and Go's zero value 0 and the sentinel -1 are the ones it would use.   *)
WaitErrCodes == {0, -1}

(* The wait fails before the exit status came (spec.md 3: the Run Handle  *)
(* ends with an error when the transport breaks; its ctx may end): it     *)
(* returns an error and a code, and Run tests only the code.              *)
WaitFail ==
    /\ bpc = "wait"
    /\ ~delivered
    /\ \E c \in WaitErrCodes :
         /\ bpc' = "done"
         /\ ret' = RunResult(c)
    /\ UNCHANGED runVars

Next ==
    \/ NewNode
    \/ \E ws \in [OutStreams -> BOOLEAN], in \in BOOLEAN : StartProc(ws, in)
    \/ StartProcReturn
    \/ WaitReturn
    \/ WaitFail
    \/ EngineNext /\ UNCHANGED basicVars

(* The engine as in AgentRun; the runner's goroutine inside Run is weakly *)
(* fair; the test's call of NewNode is not, and neither is a failure of  *)
(* the wait (a broken transport, an ended ctx).                           *)
Fairness ==
    /\ RunFairness
    /\ WF_vars(StartProcReturn)
    /\ WF_vars(WaitReturn)

Spec == Init /\ [][Next]_vars
FairSpec == Spec /\ Fairness

-----------------------------------------------------------------------------
(***************************************************************************)
(* Properties.                                                             *)
(***************************************************************************)

(* BasicNode.Run reports success only for a process that was started and *)
(* exited with code 0 (its doc comment: it "waits for the process to      *)
(* exit, returning its exit code"): a start error, a non-zero code, a     *)
(* process killed by a signal, and a wait that failed before the process  *)
(* exited all reach the test as errors.                                   *)
RunSuccessMeansExitZero ==
    ret # <<>> /\ ~ret[1].err => procState = "exited" /\ code = <<0>>

(* A failing output sink is reported to the caller of Run (spec.md 4.3:  *)
(* "a sink error is reported to the caller"; 7: relay errors are          *)
(* reported for that stream).                                             *)
RunReportsSinkError ==
    ret # <<>> /\ ~ret[1].err => \A s \in OutStreams : wired[s] => sinkOk[s]

(* BasicNode.Run returns once called, whatever the process and the sinks  *)
(* do: a start error returns at once (part_000:79-81), and otherwise the  *)
(* engine delivers the exit status (AgentRun's ExitEventuallyDelivered).  *)
RunReturns ==
    bpc \in {"start", "wait"} ~> bpc = "done"

=============================================================================
