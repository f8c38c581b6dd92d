--------------------------- MODULE DockerCluster ---------------------------
(***************************************************************************)
(* The Docker cluster provider of clustertest (src/cluster/docker/        *)
(* cluster.go) composed with the node agents it launches.                 *)
(*                                                                         *)
(* A test's goroutines may call Cluster.NewNodes concurrently: nothing   *)
(* in Cluster is locked.  NewNodes pulls the base image once              *)
(* (ensureImagePulled), then for each requested node creates and starts   *)
(* a container whose entrypoint is the node agent, builds an agent        *)
(* client, records the node in c.Nodes, and finally waits for every new   *)
(* agent with WaitForServer.  Each container runs a node agent that       *)
(* boots, answers handshakes, and runs the heartbeat supervisor: when no  *)
(* heartbeat arrives within the deadline it applies the failure action    *)
(* passed on its command line.  NewNodes is split at its blocking calls   *)
(* and at its accesses to shared state: one step per loop iteration's     *)
(* Docker calls, one for the unlocked c.Nodes = append(c.Nodes, node),    *)
(* and one per WaitForServer.                                              *)
(*                                                                         *)
(* The agent side (boot, heartbeat, supervisor, WaitForServer's polling)  *)
(* is not under src/ and is modelled from spec.md sections 4.5 and 4.6.   *)
(***************************************************************************)
EXTENDS Naturals, Sequences

CONSTANTS
    Callers,       \* the test's goroutines that call NewNodes
    MaxNodes,      \* bound on the node ids (and so containers) a run creates
    BatchSizes,    \* the values of n a test passes to NewNodes
    MaxHeartbeats  \* bound on the heartbeats one agent receives

ASSUME MaxNodesAssumption == MaxNodes \in Nat \ {0}
ASSUME BatchSizesAssumption == BatchSizes \subseteq Nat
ASSUME MaxHeartbeatsAssumption == MaxHeartbeats \in Nat

(* Node ids; container "clustertest-<prefix>-<id>" is identified by id,   *)
(* the prefix being fixed for the cluster (cluster.go:67, :110).          *)
Ids == 0 .. MaxNodes - 1

(* Docker container state, the node agent being the container's only    *)
(* process: "created" (ContainerCreate done, never started), "booting"   *)
(* (started, agent not yet listening), "serving", "exited".              *)
Status == {"none", "created", "booting", "serving", "exited"}
Started == {"booting", "serving", "exited"}
Running == {"booting", "serving"}

(* Mutant of OnHeartbeatFailure: containers launched with "ignore".       *)
OnHeartbeatFailureIgnore == "ignore"

(* The --on-heartbeat-failure flag every container is launched with.     *)
OnHeartbeatFailure == "exit"

VARIABLES
    imagePresent, \* the base image is stored in the Docker daemon
    imagePulled,  \* Cluster.imagePulled, the pull cache flag
    nodes,        \* Cluster.Nodes, as the sequence of node ids
    containers,   \* the Docker daemon's containers: Ids -> Status
    clients,      \* ids for which an agent client was built
    hb,           \* per agent, heartbeat timer: "fresh" or "stale"
    hbCount,      \* per agent, heartbeats received: stands for its
                  \* monotone last-heartbeat timestamp
    runner,       \* the test runner process: "alive" or "dead"
    \* Per caller c, the state of its NewNodes call:
    pc,           \* "idle", "create" (the loop), "record" (between the
                  \* load and the store of c.Nodes), "wait"
    batch,        \* NewNodes argument n
    startID,      \* NewNodes local startID
    i,            \* NewNodes loop index
    newNodes,     \* NewNodes local newNodes, as node ids
    snap,         \* the value of c.Nodes the pending append loaded
    w,            \* index of the node the WaitForServer loop is at
    ctxDone,      \* the ctx passed to NewNodes is cancelled
    result,       \* outcome of the last NewNodes: "none", "ok", "err"
    returned,     \* the nodes the last successful NewNodes returned
    readyIds,     \* nodes whose WaitForServer saw the agent answer
    cleaned       \* Cleanup has been called and returned

cluster == <<imagePresent, imagePulled, nodes, containers, clients>>
call == <<pc, batch, startID, i, newNodes, snap, w, ctxDone, result, returned>>
agent == <<hb, hbCount>>
vars == <<imagePresent, imagePulled, nodes, containers, clients, hb, hbCount, runner,
          pc, batch, startID, i, newNodes, snap, w, ctxDone, result, returned,
          readyIds, cleaned>>

TypeOK ==
    /\ imagePresent \in BOOLEAN
    /\ imagePulled \in BOOLEAN
    /\ nodes \in Seq(Ids)
    /\ containers \in [Ids -> Status]
    /\ clients \subseteq Ids
    /\ hb \in [Ids -> {"fresh", "stale"}]
    /\ hbCount \in [Ids -> 0 .. MaxHeartbeats]
    /\ runner \in {"alive", "dead"}
    /\ pc \in [Callers -> {"idle", "create", "record", "wait"}]
    /\ batch \in [Callers -> Nat]
    /\ startID \in [Callers -> Nat]
    /\ i \in [Callers -> Nat]
    /\ newNodes \in [Callers -> Seq(Ids)]
    /\ snap \in [Callers -> Seq(Ids)]
    /\ w \in [Callers -> Nat \ {0}]
    /\ ctxDone \in [Callers -> BOOLEAN]
    /\ result \in [Callers -> {"none", "ok", "err"}]
    /\ returned \in [Callers -> Seq(Ids)]
    /\ readyIds \subseteq Ids
    /\ cleaned \in BOOLEAN

(* NewCluster: a fresh cluster, no image pulled, no nodes, no call made. *)
Init ==
    /\ imagePresent \in BOOLEAN
    /\ imagePulled = FALSE
    /\ nodes = <<>>
    /\ containers = [id \in Ids |-> "none"]
    /\ clients = {}
    /\ hb = [id \in Ids |-> "fresh"]
    /\ hbCount = [id \in Ids |-> 0]
    /\ runner = "alive"
    /\ pc = [c \in Callers |-> "idle"]
    /\ batch = [c \in Callers |-> 0]
    /\ startID = [c \in Callers |-> 0]
    /\ i = [c \in Callers |-> 0]
    /\ newNodes = [c \in Callers |-> <<>>]
    /\ snap = [c \in Callers |-> <<>>]
    /\ w = [c \in Callers |-> 1]
    /\ ctxDone = [c \in Callers |-> FALSE]
    /\ result = [c \in Callers |-> "none"]
    /\ returned = [c \in Callers |-> <<>>]
    /\ readyIds = {}
    /\ cleaned = FALSE

-----------------------------------------------------------------------------
(***************************************************************************)
(* Test runner: Cluster.NewNodes and Cluster.Cleanup.                      *)
(***************************************************************************)

(* ensureImagePulled with outcome out: a cached flag skips the pull; a    *)
(* failed ImagePull leaves the image absent; a failed read of the pull    *)
(* response may come after the daemon stored it.  Only full success sets *)
(* the flag.                                                              *)
EnsureImagePulled(out) ==
    \/ /\ imagePulled
       /\ out = "ok"
       /\ UNCHANGED <<imagePresent, imagePulled>>
    \/ /\ ~imagePulled
       /\ out = "err"
       /\ imagePresent' \in {imagePresent, TRUE}
       /\ UNCHANGED imagePulled
    \/ /\ ~imagePulled
       /\ out = "ok"
       /\ imagePresent' = TRUE
       /\ imagePulled' = TRUE

(* NewNodes(ctx, k) by caller c fails before its loop: Getwd or FindUp    *)
(* fails, or ensureImagePulled does.                                      *)
NewNodesSetupFail(c) ==
    /\ runner = "alive"
    /\ pc[c] = "idle"
    /\ \/ UNCHANGED <<imagePresent, imagePulled>>
       \/ EnsureImagePulled("err")
    /\ result' = [result EXCEPT ![c] = "err"]
    /\ UNCHANGED <<nodes, containers, clients, agent, runner, pc, batch, startID,
                   i, newNodes, snap, w, ctxDone, returned, readyIds, cleaned>>

(* NewNodes(ctx, k) by caller c, with the image ensured, starts its loop  *)
(* at startID = len(c.Nodes).  The caller's ctx is a fresh one.           *)
NewNodesBegin(c, k) ==
    /\ runner = "alive"
    /\ pc[c] = "idle"
    /\ Len(nodes) + k <= MaxNodes
    /\ EnsureImagePulled("ok")
    /\ pc' = [pc EXCEPT ![c] = IF k > 0 THEN "create" ELSE "wait"]
    /\ batch' = [batch EXCEPT ![c] = k]
    /\ startID' = [startID EXCEPT ![c] = Len(nodes)]
    /\ i' = [i EXCEPT ![c] = 0]
    /\ newNodes' = [newNodes EXCEPT ![c] = <<>>]
    /\ w' = [w EXCEPT ![c] = 1]
    /\ ctxDone' = [ctxDone EXCEPT ![c] = FALSE]
    /\ UNCHANGED <<nodes, containers, clients, agent, runner, snap, result,
                   returned, readyIds, cleaned>>

(* Mutant of Returns: the error of ContainerStart is not checked.        *)
ReturnsStartUnchecked(out) == out \in {"portErr", "createErr", "clientErr"}

(* The iteration outcomes on which NewNodes returns (nil, err): every    *)
(* failed call is checked, so a node is only recorded once its container  *)
(* started and its client was built.                                     *)
Returns(out) == out \in {"portErr", "createErr", "startErr", "clientErr"}

(* The id of the node the loop of caller c is at: id := startID + i.      *)
NodeId(c) == startID[c] + i[c]

(* Mutant of StepOutcomes: a container whose name is taken is replaced,  *)
(* as a NewNodes that removes a leftover container before creating would. *)
StepOutcomesReplaceTaken(c) ==
    IF ctxDone[c] \/ ~imagePresent
      THEN {"portErr", "createErr"}
      ELSE {"portErr", "createErr", "startErr", "clientErr", "ok"}

(* The outcomes the Docker daemon allows for caller c's iteration: the    *)
(* container name clustertest-<prefix>-<id> may be taken.                 *)
StepOutcomes(c) ==
    IF ctxDone[c] \/ ~imagePresent \/ containers[NodeId(c)] # "none"
      THEN {"portErr", "createErr"}
      ELSE {"portErr", "createErr", "startErr", "clientErr", "ok"}

(* The Docker calls of one iteration of the NewNodes loop of caller c,    *)
(* for id = startID + i.  Every error returns (nil, err) at once, leaving *)
(* behind what was done so far:                                           *)
(*   "portErr"   GetEphemeralTCPPort fails;                               *)
(*   "createErr" ContainerCreate fails (always when the name is taken);   *)
(*   "startErr"  ContainerStart fails (e.g. the ephemeral port was taken  *)
(*               in between): the created container stays;                *)
(*   "clientErr" agent.NewClient fails: the container runs on;            *)
(*   "ok"        the node is built and append loads c.Nodes.             *)
(* After a cancelled ctx the Docker calls fail.                           *)
NewNodesIteration(c, out) ==
    LET id == NodeId(c) IN
    /\ containers' = CASE out = "startErr" -> [containers EXCEPT ![id] = "created"]
                       [] out \in {"clientErr", "ok"} -> [containers EXCEPT ![id] = "booting"]
                       [] OTHER -> containers
    /\ hb' = IF out \in {"clientErr", "ok"} THEN [hb EXCEPT ![id] = "fresh"] ELSE hb
    /\ IF Returns(out)
         THEN /\ pc' = [pc EXCEPT ![c] = "idle"]
              /\ result' = [result EXCEPT ![c] = "err"]
              /\ UNCHANGED <<clients, snap>>
         ELSE /\ clients' = clients \cup {id}
              /\ snap' = [snap EXCEPT ![c] = nodes]
              /\ pc' = [pc EXCEPT ![c] = "record"]
              /\ UNCHANGED result

(* One iteration's Docker calls, blocking calls that the other callers'   *)
(* and the agents' steps interleave with.                                 *)
NewNodesStep(c) ==
    /\ runner = "alive"
    /\ pc[c] = "create"
    /\ \E out \in StepOutcomes(c) : NewNodesIteration(c, out)
    /\ UNCHANGED <<imagePresent, imagePulled, nodes, hbCount, runner, batch,
                   startID, i, newNodes, w, ctxDone, returned, readyIds, cleaned>>

(* The end of the iteration: the node is appended to newNodes, and the   *)
(* loaded c.Nodes extended with it is stored back; the loop goes on or    *)
(* turns to the WaitForServer loop.                                       *)
NewNodesRecord(c) ==
    /\ runner = "alive"
    /\ pc[c] = "record"
    /\ newNodes' = [newNodes EXCEPT ![c] = Append(@, NodeId(c))]
    /\ nodes' = Append(snap[c], NodeId(c))
    /\ i' = [i EXCEPT ![c] = @ + 1]
    /\ pc' = [pc EXCEPT ![c] = IF i[c] + 1 < batch[c] THEN "create" ELSE "wait"]
    /\ UNCHANGED <<imagePresent, imagePulled, containers, clients, agent, runner,
                   batch, startID, snap, w, ctxDone, result, returned, readyIds,
                   cleaned>>

(* WaitForServer for the w-th new node of caller c, whose error NewNodes  *)
(* ignores: it returns once a handshake with the agent succeeds, or with  *)
(* an error once ctx is cancelled; until then it keeps polling.           *)
NewNodesWait(c) ==
    LET id == newNodes[c][w[c]] IN
    /\ runner = "alive"
    /\ pc[c] = "wait"
    /\ w[c] <= Len(newNodes[c])
    /\ \/ /\ containers[id] = "serving"
          /\ readyIds' = readyIds \cup {id}
       \/ /\ ctxDone[c]
          /\ UNCHANGED readyIds
    /\ w' = [w EXCEPT ![c] = @ + 1]
    /\ UNCHANGED <<cluster, agent, runner, pc, batch, startID, i, newNodes, snap,
                   ctxDone, result, returned, cleaned>>

(* NewNodes returns (newNodes, nil) once every WaitForServer returned.    *)
NewNodesReturn(c) ==
    /\ runner = "alive"
    /\ pc[c] = "wait"
    /\ w[c] > Len(newNodes[c])
    /\ pc' = [pc EXCEPT ![c] = "idle"]
    /\ result' = [result EXCEPT ![c] = "ok"]
    /\ returned' = [returned EXCEPT ![c] = newNodes[c]]
    /\ UNCHANGED <<cluster, agent, runner, batch, startID, i, newNodes, snap, w,
                   ctxDone, readyIds, cleaned>>

(* The ctx of caller c's NewNodes call is cancelled or times out.         *)
CancelCtx(c) ==
    /\ runner = "alive"
    /\ pc[c] # "idle"
    /\ ~ctxDone[c]
    /\ ctxDone' = [ctxDone EXCEPT ![c] = TRUE]
    /\ UNCHANGED <<cluster, agent, runner, pc, batch, startID, i, newNodes, snap,
                   w, result, returned, readyIds, cleaned>>

(* Cluster.Cleanup, called once the test's NewNodes calls returned:      *)
(* returns nil and does nothing else.                                     *)
Cleanup ==
    /\ runner = "alive"
    /\ \A c \in Callers : pc[c] = "idle"
    /\ cleaned' = TRUE
    /\ UNCHANGED <<cluster, agent, runner, call, readyIds>>

(* The test runner process ends (the test finished or it crashed): its    *)
(* goroutines stop, NewNodes and the heartbeats with them.               *)
RunnerExit ==
    /\ runner = "alive"
    /\ runner' = "dead"
    /\ UNCHANGED <<cluster, agent, call, readyIds, cleaned>>

-----------------------------------------------------------------------------
(***************************************************************************)
(* Node agents (spec.md 4.5, 4.6): boot, heartbeats, supervisor.           *)
(***************************************************************************)

(* The agent starts listening; the supervisor starts Alive.               *)
AgentBoot(id) ==
    /\ containers[id] = "booting"
    /\ containers' = [containers EXCEPT ![id] = "serving"]
    /\ hb' = [hb EXCEPT ![id] = "fresh"]
    /\ UNCHANGED <<imagePresent, imagePulled, nodes, clients, hbCount, runner, call,
                   readyIds, cleaned>>

(* The agent fails to start (bad flags, listen error) and the container   *)
(* exits.                                                                 *)
AgentBootFail(id) ==
    /\ containers[id] = "booting"
    /\ containers' = [containers EXCEPT ![id] = "exited"]
    /\ UNCHANGED <<imagePresent, imagePulled, nodes, clients, agent, runner,
                   call, readyIds, cleaned>>

(* The runner's client for id sends a heartbeat; the agent records its    *)
(* arrival and the deadline restarts.                                     *)
Heartbeat(id) ==
    /\ runner = "alive"
    /\ id \in clients
    /\ containers[id] = "serving"
    /\ hbCount[id] < MaxHeartbeats
    /\ hb' = [hb EXCEPT ![id] = "fresh"]
    /\ hbCount' = [hbCount EXCEPT ![id] = @ + 1]
    /\ UNCHANGED <<cluster, runner, call, readyIds, cleaned>>

(* A heartbeat period passes on the agent's timer.                        *)
HeartbeatTimer(id) ==
    /\ containers[id] = "serving"
    /\ hb[id] = "fresh"
    /\ hb' = [hb EXCEPT ![id] = "stale"]
    /\ UNCHANGED <<cluster, hbCount, runner, call, readyIds, cleaned>>

(* The deadline elapses with no heartbeat: the supervisor goes Dead and,  *)
(* with the "exit" action, the agent process ends, and the container.     *)
HeartbeatDeadline(id) ==
    /\ containers[id] = "serving"
    /\ hb[id] = "stale"
    /\ OnHeartbeatFailure = "exit"
    /\ containers' = [containers EXCEPT ![id] = "exited"]
    /\ UNCHANGED <<imagePresent, imagePulled, nodes, clients, agent, runner,
                   call, readyIds, cleaned>>

-----------------------------------------------------------------------------
Next ==
    \/ \E c \in Callers :
         \/ NewNodesSetupFail(c)
         \/ \E k \in BatchSizes : NewNodesBegin(c, k)
         \/ NewNodesStep(c)
         \/ NewNodesRecord(c)
         \/ NewNodesWait(c)
         \/ NewNodesReturn(c)
         \/ CancelCtx(c)
    \/ Cleanup
    \/ RunnerExit
    \/ \E id \in Ids :
         \/ AgentBoot(id)
         \/ AgentBootFail(id)
         \/ Heartbeat(id)
         \/ HeartbeatTimer(id)
         \/ HeartbeatDeadline(id)

(* The agent's own goroutines (its startup and its supervisor's timer)    *)
(* are weakly fair, and so is each caller's goroutine once inside        *)
(* NewNodes (every Docker call returns, with or without an error).  The  *)
(* test's decisions (which calls to make, when to exit), the ctx and      *)
(* heartbeat timing are not.                                              *)
Fairness ==
    /\ \A c \in Callers :
        /\ WF_vars(NewNodesStep(c))
        /\ WF_vars(NewNodesRecord(c))
        /\ WF_vars(NewNodesWait(c))
        /\ WF_vars(NewNodesReturn(c))
    /\ \A id \in Ids :
        /\ WF_vars(AgentBoot(id))
        /\ WF_vars(HeartbeatTimer(id))
        /\ WF_vars(HeartbeatDeadline(id))

Spec == Init /\ [][Next]_vars
FairSpec == Spec /\ Fairness

-----------------------------------------------------------------------------
(***************************************************************************)
(* Properties.                                                             *)
(***************************************************************************)

(* Every node c.Nodes lists names a container that ContainerStart started *)
(* (cluster.go:148-169): a node is never recorded for a container that    *)
(* only exists as "created", even after failed iterations and retried     *)
(* NewNodes calls that reuse its id.                                      *)
NodesStarted ==
    \A k \in 1 .. Len(nodes) : containers[nodes[k]] \in Started

(* No orphaned nodes: once the test runner is gone, every container it    *)
(* started eventually stops, because each agent was launched with         *)
(* --on-heartbeat-failure exit (cluster.go:129) and no heartbeat comes.   *)
OrphansTerminate ==
    runner = "dead" ~> \A id \in Ids : containers[id] \notin Running

(* NewNodes only creates containers under free names: when the loop is   *)
(* about to create node startID + i, no container of that name exists.    *)
CreateNameFree ==
    \A c \in Callers : pc[c] = "create" => containers[NodeId(c)] = "none"

(* The nodes NewNodes returns have agents that answered WaitForServer     *)
(* (spec.md 4.6: WaitForServer is used right after provisioning so that   *)
(* the node is ready).                                                    *)
ReturnedNodesReady ==
    \A c \in Callers : \A k \in 1 .. Len(returned[c]) : returned[c][k] \in readyIds

(* A NewNodes call returns while the runner lives (spec.md 7: during the  *)
(* readiness window an unreachable agent is "not yet ready", afterwards a *)
(* hard failure): no WaitForServer polls forever.                         *)
NewNodesTerminates ==
    \A c \in Callers :
        (pc[c] # "idle" /\ runner = "alive") ~> (pc[c] = "idle" \/ runner = "dead")

(* No node is lost from c.Nodes: every node whose container started and   *)
(* whose client was built is in c.Nodes, or its caller is about to store  *)
(* it, however the callers of NewNodes interleave their unlocked appends  *)
(* (cluster.go:169).                                                       *)
NoLostNodes ==
    \A id \in clients :
        \/ \E k \in 1 .. Len(nodes) : nodes[k] = id
        \/ \E c \in Callers : pc[c] = "record" /\ NodeId(c) = id

(* The nodes a sequence of node ids lists.                                 *)
NodeSet(s) == {s[k] : k \in 1 .. Len(s)}

(* The nodes caller c holds: those of its current NewNodes call and       *)
(* those its last call returned.                                          *)
Handles(c) == NodeSet(newNodes[c]) \cup NodeSet(returned[c])

(* Two goroutines calling NewNodes never get the same node: ids come from *)
(* len(c.Nodes) read without a lock (cluster.go:106), so racing calls can *)
(* pick the same ids, and only ContainerCreate's refusal of a taken name  *)
(* (cluster.go:121-142) keeps a node from being built for both.          *)
NodesHandedOutOnce ==
    \A c, d \in Callers : c # d => Handles(c) \cap Handles(d) = {}

(* The ids whose container was started, under the refinement mapping.    *)
StartedIds == {id \in Ids : containers[id] \in Started}

Abstract == INSTANCE ClusterNodes WITH started <- StartedIds

(* The provider implements ClusterNodes: however NewNodes calls and       *)
(* their unlocked appends (cluster.go:169) interleave with the agents,    *)
(* every change to c.Nodes appends node len(c.Nodes), whose container     *)
(* started, and no step un-starts a container or starts two.              *)
ClusterRefinesSpec == Abstract!Spec

(* After Cleanup the cluster's containers are gone (README: "Clusters and *)
(* state are transient and are destroyed at the end of the test").        *)
CleanupRemovesContainers ==
    cleaned => \A id \in Ids : containers[id] = "none"

=============================================================================
