# Verification of clustertest

clustertest lets a Go test provision short-lived nodes and drive them remotely. This directory holds the TLA+ models of it, the TLC runs that check them, and the TLAPS proofs about them.

The repository's sources under `src/` are:

- `src/cluster/docker/cluster.go`: the Docker cluster provider.
- `src/unnamed/part_000`: the `BasicCluster`/`BasicNode` wrapper (`cluster/basic.go`), followed by the project README.
- `src/agent/agent_test.go`: the node agent's tests.

The node agent itself (server, client, heartbeat supervisor, run/dial engines) is **not** under `src/`. Where it is modelled, it is modelled from `spec.md` and marked `spec_modelled` in `PROJECT.json`.

## 1. Inventory

### Components, their state and operations

| Component | Source | State | Operations |
|---|---|---|---|
| Docker cluster provider | cluster.go | `Cluster.imagePulled`, `Cluster.Nodes`, `ContainerPrefix`, the cert set; outside the process, the Docker daemon's containers and images | `NewCluster`, `ensureImagePulled`, `NewNodes(ctx, n)`, `Cleanup` |
| BasicCluster / BasicNode | part_000:1-103 | none of its own; it wraps a `Cluster` / `Node` | `New`, `NewNode`, `NewNodes`, `BasicNode.Run`, `RootDir` |
| Node agent: liveness supervisor | spec 4.5 | last-heartbeat time, failure action (`exit` / `ignore`), `Alive`/`Dead` | heartbeat handler, deadline timer |
| Node agent: transport (mTLS) | spec 4.2 | listener, trusted CA | `Run`/start, `Stop`, handshake, dispatch |
| Node agent: process engine | spec 4.3 | per run: the process, stdin/stdout/stderr relay tasks | `Run` → wait handle |
| Node agent: tunnel engine | spec 4.4 | per tunnel: two relay directions | `Dial` |
| Agent client | spec 4.6 | connection configuration | `WaitForServer`, `SendFile`, `Run`, `Dial`, heartbeats |
| Identity material | spec 4.1, `agent.GenerateCert` | CA and leaf PEMs | `GenerateCert` |

### How the components interact

The test calls `NewNodes` on the Docker cluster, which proceeds in three stages:

1. It pulls the image once; the `imagePulled` flag caches that.
2. For each requested node it:
   - takes an ephemeral host port;
   - creates a container named `clustertest-<prefix>-<id>`, with `id = len(c.Nodes) + i` and the node agent as entrypoint. The agent gets the CA and server PEMs and `--on-heartbeat-failure exit` (cluster.go:125-131);
   - starts the container;
   - builds an agent client;
   - appends the node to `c.Nodes`.
3. It calls `WaitForServer` on every new node, ignoring its error (cluster.go:172-174).

The agents run in their containers concurrently with the test runner. Each agent boots, serves, and ends itself when no heartbeat arrives within its deadline. `Cleanup` returns nil and does nothing else. `BasicCluster` wraps all of this, and `BasicNode.Run` starts a process and waits for its exit code.

### What is hard here

- **Partial failure inside the loop.** Each iteration makes three external calls: `ContainerCreate`, `ContainerStart` and `NewClient`. Any of them can fail after an earlier one has changed the Docker daemon. The loop returns at once and does not undo what was done.
- **Ids computed from `len(c.Nodes)`.** A later call computes its ids this way after earlier calls failed part-way, so it may reuse the name of a container left behind.
- **The runner crashing at any point.** Nodes must then destroy themselves. That guarantee rests entirely on the agents' heartbeat supervisor and the `exit` flag.
- **Readiness.** `WaitForServer` polls until the agent answers or the ctx ends. Its error is dropped.
- **A cached flag (`imagePulled`) standing for daemon state.**
- **Concurrent `NewNodes` calls.** Nothing in `Cluster` is locked. Two goroutines share `c.Nodes`, which is read for `startID` (line 106) and appended to by a load and a separate store (line 169).
- **The agent's relays.** stdout, stderr and stdin are independent tasks. All output must be drained before the exit code is reported (spec 4.3, 5).

### What makes each component correct

- **Docker cluster provider:**
  - `c.Nodes` lists only started containers, each at the position of its ID, and no node is lost to a racing append;
  - a new container never collides with a leftover name;
  - returned nodes are ready;
  - `NewNodes` returns;
  - `Cleanup` leaves no containers.
- **Liveness supervisor:** once the runner is gone, every agent eventually exits (under `exit`).
- **BasicNode.Run:** it returns, and it reports success only if the process ran and exited 0.
- **Process engine:**
  - each sink receives exactly its own stream, in order;
  - the exit code is reported only after both pipes have drained;
  - stdin EOF reaches the process;
  - the exit code is delivered even when a sink fails.
- **Tunnel engine:**
  - bytes are relayed in order in each direction;
  - a close on either side closes the other within bounded time;
  - a dial error is reported before any relaying.
- **Transport:** no handler runs for a peer whose certificate is not signed by the run's CA.

The hazards at their source lines are listed in `PROJECT.json` under `hazards`.

## 2. Modules and status

| Module | Models | Status |
|---|---|---|
| `DockerCluster` | cluster.go composed with the agents' boot, heartbeat supervisor and `WaitForServer`, for any set of goroutines calling `NewNodes` | done; `DockerCluster_proofs` proves type correctness, `NodesStarted`, `NoLostNodes`, `NodesHandedOutOnce`, and that it refines `ClusterNodes` |
| `ClusterNodes` | what the provider promises about `c.Nodes`: a list that only grows at its end, by the node whose id is its length, once that node's container started | done |
| `RunSpec` | what the agent's process engine promises the caller of one `Run` (spec 4.3, 5) | done |
| `AgentRun` | the process engine: pipes, the three relays, the wait (spec-modelled) | done; `AgentRun_proofs` proves that it refines `RunSpec` |
| `BasicCluster` | `BasicCluster.NewNode` and `BasicNode.Run` (part_000) composed with `AgentRun` | done; model-checked only (its one passing property is liveness) |

Still open:

- **`AgentDial`** (spec-modelled): a tunnel with two relay directions and half-close, checked against a pair of FIFO channels.
- **Cancellation of a run's ctx** (spec 5), which the spec leaves partly open (spec 9).

## 3. The `DockerCluster` model

### State

| Variable | Code |
|---|---|
| `imagePresent` | the base image is stored in the Docker daemon |
| `imagePulled` | `Cluster.imagePulled` |
| `nodes` | `Cluster.Nodes`, as node ids |
| `containers` | the daemon's container for each id: `none`, `created`, `booting`, `serving` or `exited`; the agent is the container's only process |
| `clients` | ids for which `agent.NewClient` succeeded |
| `hb`, `hbCount` | the agent's heartbeat timer (a period passed without a heartbeat or not), and the heartbeats it received, which stand for its monotone last-heartbeat timestamp |
| `runner` | the test process, alive or dead |
| `pc`, `batch`, `startID`, `i`, `newNodes`, `w`, `ctxDone` | per caller (a constant set `Callers` of goroutines), the frame of its `NewNodes` call |
| `snap` | per caller, the value of `c.Nodes` its pending `append` loaded |
| `result`, `returned`, `readyIds`, `cleaned` | what the calls returned, and which nodes' `WaitForServer` succeeded |

### Actions

| Action | Code |
|---|---|
| `NewNodesSetupFail(c)` | cluster.go:91-104: Getwd or FindUp fails, or `EnsureImagePulled` (71-89) does |
| `NewNodesBegin(c, k)` | 101-107: the image is ensured and `startID := len(c.Nodes)` |
| `NewNodesStep(c)` | the Docker calls of one loop iteration (108-157), with every error return; on success it ends with the load of `c.Nodes` for the append at 169 |
| `NewNodesRecord(c)` | 158-170: `newNodes` and the store of the loaded `c.Nodes` extended by the node |
| `NewNodesWait(c)` | one `WaitForServer` (172-174) |
| `NewNodesReturn(c)` | 175 |
| `Cleanup` | 178-180 |
| `CancelCtx(c)` | the caller's ctx ending |
| `RunnerExit` | the test process ending |
| `AgentBoot`, `AgentBootFail`, `Heartbeat`, `HeartbeatTimer`, `HeartbeatDeadline` | the agent, from spec 4.5 and 4.6 |

`NewNodesStep` takes its outcome from `StepOutcomes`:

- port error;
- create error, always when the name is taken;
- start error, which leaves the container `created`;
- client error, which leaves it running;
- success.

`NewNodes` is split at its blocking calls, one step per iteration's Docker calls and one per `WaitForServer`, because the agents started by earlier iterations and the other callers run meanwhile. `c.Nodes = append(c.Nodes, node)` is not atomic and not locked: Go reads the slice header, then writes it back. It is therefore a load and a store, with any other step between them. That lets a racing store be lost, and the runs and proofs decide whether it can be. Splitting further inside an iteration would add no state: the runner crashing between `ContainerCreate` and `ContainerStart` leaves the same state as a start error.

`ensureImagePulled` is one step. Two callers may both pull, and every pull that completes leaves the image present, so the flag's data race only repeats a pull.

### The abstract specification `ClusterNodes`

`ClusterNodes` has two variables: `nodes` (`c.Nodes`) and `started` (the ids whose container was started). It has two actions:

- `Start(id)` starts one container that was not started;
- `Add` appends node `Len(nodes)` once its container started.

`DockerCluster` implements it under the mapping `started <- StartedIds`, the ids whose container is `booting`, `serving` or `exited`. A successful `NewNodesStep` is `Start`, and `NewNodesRecord` is `Add`. Every other step, a start error included (the container stays `created`), is a stutter. The property `ClusterRefinesSpec` is `Abstract!Spec`. It says that no interleaving of unlocked appends ever shrinks `c.Nodes`, overwrites an entry, or records a node out of place.

### Fairness

The following are weakly fair, since the Go scheduler runs them and every Docker call returns:

- the agent's own goroutines: `AgentBoot`, `HeartbeatTimer`, `HeartbeatDeadline`;
- each caller's goroutine while it is inside `NewNodes`: `NewNodesStep`, `NewNodesRecord`, `NewNodesWait`, `NewNodesReturn`.

Nothing forces the following, so they are not fair:

- the test's decisions: calling `NewNodes` or `Cleanup`, exiting;
- ctx cancellation;
- heartbeats: their timing relative to the deadline is not known.

### Bounds (MC_DockerCluster.tla)

- **`MaxNodes = 3`:** enough for a batch of two after or next to a failed one, and for an id to be reused.
- **`BatchSizes = {0, 1, 2}`:** covers the empty batch and a multi-node batch in which the first agent runs while the second is created.
- **`MaxHeartbeats = 1`:** one received heartbeat per agent, which is enough to reset the deadline once. The properties concern what happens after the runner is gone, when no heartbeat comes; more heartbeats only repeat states.
- **`Callers = {t1}`** for the single-goroutine runs.
- **`Callers = {t1, t2}`** for the concurrent run, with:
  - batches of 1 and 2;
  - no heartbeats, which are irrelevant to `c.Nodes`;
  - symmetry over the two callers (model values). This is sound because every property of that run is symmetric in the callers: the invariants quantify over all callers, and `ClusterRefinesSpec` reads only `c.Nodes` and the containers.

  Two callers suffice for the race: a lost store needs two loads and two stores of different goroutines. Batches of two let one caller hold ids from an old `len(c.Nodes)` while the other appends. That run takes about a minute and a half over 6.75 million states.

## 4. The process engine (`RunSpec`, `AgentRun`) and `BasicCluster`

The agent is not under `src/`, so `RunSpec` and `AgentRun` are modelled from spec 4.3, 5 and 7, and from what `agent_test.go` expects of `Run`.

**`RunSpec`** is the caller's view of one run:

- the request wires a sink for stdout, stderr, both or neither;
- a start error ends the run before any output;
- each wired sink receives its own stream, one chunk at a time and in order, until a write to it fails;
- one exit code is delivered, and only when every wired, working sink holds its whole stream.

**`AgentRun`** is the engine:

- The process writes its two streams into OS pipes of capacity `PipeCap` and blocks on a full one.
- It reads its stdin to EOF.
- It exits only after writing everything.
- One relay per stream drains its pipe into the sink. When no sink is wired, or the sink failed, the relay discards what it drains.
- The stdin relay feeds the input and closes stdin at its end.
- `Deliver` sends the exit code once both pipes are drained.

The refinement mapping sends:

- the process state and `delivered` to `RunSpec`'s state;
- the exit code to `exit` once it is delivered.

Pipes, counters and stdin are hidden.

**`BasicCluster`** (part_000) composes the wrapper with the engine:

- `NewNode`: `NewNodes(ctx, 1)` wrapped, abstracted to its outcome; `DockerCluster` models the cluster itself.
- `StartProc` and its early return on a start error (part_000:77-81).
- `WaitReturn`: the wait returns the delivered exit status, with the sink error if a sink failed.
- `WaitFail`: the wait fails before the exit status came, because its ctx ended or the transport broke (spec 3, Run Handle). The client is not under `src/`, so the code it returns with the error is a choice: 0 (Go's zero value) or -1.
- `RunResult`: the exit-code test at lines 83-86, shared by both. It returns `(-1, err)` for any non-zero code and otherwise `(code, nil)`, whatever error the wait reported.

**Fairness.** The engine's tasks are goroutines and every one of them is weakly fair. The process is an OS process that terminates, because the commands of the tests (`echo`, `sh -c`) do. The request and the test's own calls are not fair, and neither is a failing wait.

**Bounds** (MC_AgentRun, MC_BasicCluster):

- two stdout chunks and one stderr chunk;
- pipes of one chunk, so a pipe fills and the process blocks on it;
- one input chunk;
- exit codes `{0, 1}` for the engine run, and `{0, 1, -1}` for the wrapper run, -1 being what Go reports for a process killed by a signal.

## 5. Runs

| Run | Property | Expected result | What it shows |
|---|---|---|---|
| `docker_cluster` | `NodesStarted` | pass | `c.Nodes` only names started containers |
| | `OrphansTerminate` | pass | after the runner dies, every container it started eventually stops, under the fairness above |
| `concurrent_new_nodes` | `NoLostNodes` | pass | two unlocked `NewNodes` callers never lose a node from `c.Nodes` |
| | `NodesHandedOutOnce` | pass | no node is held by both callers, whether in a running call's `newNodes` or in what a call returned |
| | `ClusterRefinesSpec` | pass | the provider implements `ClusterNodes`: `c.Nodes` only grows at its end, by started nodes in id order |
| `create_name_free` | `CreateNameFree` | violation | see finding 1 |
| `returned_nodes_ready` | `ReturnedNodesReady` | violation | see finding 2 |
| `new_nodes_terminates` | `NewNodesTerminates` | violation | see finding 3 |
| `cleanup_removes` | `CleanupRemovesContainers` | violation | see finding 4 |
| `agent_run` | `RunRefinesSpec` | pass | the engine implements `RunSpec`, for every wiring, with or without input, with a failing sink and full pipes |
| | `ExitEventuallyDelivered` | pass | every accepted run ends with a start error or a delivered exit code: unwired streams are drained and stdin reaches EOF |
| `basic_cluster` | `RunReturns` | pass | `BasicNode.Run` returns once called: a start error returns at once, and otherwise the engine delivers the exit status, even with full pipes and a failing sink |
| `run_reports_sink_error` | `RunReportsSinkError` | violation | see finding 5 |
| `run_success_means_exit_zero` | `RunSuccessMeansExitZero` | violation | see finding 6 |

The concurrent run's properties hold because the code relies on a guarantee of Docker's. A caller's ids start at `len(c.Nodes)`, and `ContainerCreate` refuses a taken name. So of two callers that hold the same id, only the first to create its container gets past the Docker calls. The mutant that replaces a container whose name is taken is the plausible change of "remove the leftover container first", which would fix finding 1 naively. It breaks all three properties: TLC finds a lost node, a node handed to both callers, and a store that shrinks `c.Nodes`.

Each passing property has a mutant that TLC must kill, listed in `PROJECT.json`:

- `ContainerStart`'s error left unchecked;
- launching agents with `--on-heartbeat-failure ignore`;
- a taken container name replaced;
- delivering the exit code as soon as the process is reaped;
- relaying only wired streams;
- `StartProc`'s error left unchecked in `BasicNode.Run`, which then waits on a run that never started.

The passing runs leave out deadlock checking because the system really does stop:

- once the runner is dead and every agent has exited;
- once a run's result is delivered;
- once `BasicNode.Run` returned.

### Findings

1. **A failed `ContainerStart` wedges the cluster.** The created container is left behind (cluster.go:148) and `c.Nodes` does not grow. The next `NewNodes` therefore reuses the id (line 106), and its `ContainerCreate` fails on the taken name, forever.
2. **Returned nodes may not be ready.** The error of `WaitForServer` is ignored (line 173), so a node whose agent never answered is returned as ready.
3. **`NewNodes` can hang.** With a ctx that is never cancelled (e.g. `context.Background()`, as in the README and the tests), `NewNodes` never returns if an agent fails to start.
4. **`Cleanup` removes nothing.** The README promises that clusters are destroyed at the end of the test.
5. **`BasicNode.Run` drops a sink error.** It tests only the exit code (part_000:83). A process that exits 0 while the test's stdout or stderr writer fails is reported as a success, although the wait reports the sink error (spec 4.3, 7).
6. **`BasicNode.Run` reports a failed wait as success.** Suppose the wait fails before the process exited (its ctx ends, or the transport breaks) and returns code 0 with its error. Then Run returns `(0, nil)` (part_000:83-86), though its doc comment says it waits for the process to exit. Findings 5 and 6 share one cause: the error returned beside a code of 0 is never looked at.

## 6. Proofs

Each component's proofs are in a module of its own.

**`DockerCluster_proofs`** holds for every set of callers, under these assumptions:

- `MaxNodes \in Nat \ {0}`;
- `BatchSizes \subseteq Nat`;
- `MaxHeartbeats \in Nat`.

The theorems are:

- **`TypeCorrect`.** `TypeOK` alone is not inductive, because `NewNodesStep` writes `containers[startID + i]`. The strengthening `LoopInBounds` says that, inside its loop, each caller has `i < batch /\ startID + batch <= MaxNodes`.
- **`NoLostNodesInvariant` and `NodesStartedInvariant`.** Both come from one inductive invariant `CInv`. Besides the two properties, `CInv` says:
  - `c.Nodes[k]` is node `k` (`NodeIdsArePositions`);
  - a caller in its loop holds an id no greater than `len(c.Nodes)` (`IdsFromLen`);
  - at most one caller is between its load and its store (`OneRecorder`);
  - that caller loaded the current `c.Nodes`, and its id is `len(c.Nodes)` with its container started (`RecordPending`).

  The key step is `StepOkCInv`. An iteration that gets past its Docker calls found its name free. Every id below `len(c.Nodes)` is a started container, by `NodeIdsArePositions` and `NodesStarted`, so its id is exactly `len(c.Nodes)`. A caller already waiting to store would hold that same id with a started container, which contradicts the free name.
- **`NodesHandedOutOnceInvariant`.** Its inductive invariant `HInv` adds two facts to `CInv`: `NodesHandedOutOnce` itself, and `HandlesRecorded`, which says every node a caller holds is below `len(c.Nodes)`, so it is already in `c.Nodes`. `NodesHandedOutOnce` is not inductive without `HandlesRecorded`. A store appends `len(c.Nodes)`, and only `HandlesRecorded` says that no caller already holds that id. Two lemmas about `NodeSet` (its value on `<<>>` and on `Append`) are used.
- **`ClusterRefinement`.** The initial state maps to `ClusterNodes!Init`. Under `CInv`, each step maps to a `Start`, an `Add` or a stutter:
  - a successful iteration found the name free (`StepOutcomes`), so its container was not started before;
  - a start error leaves a `created` container, which is not started;
  - a store appends `Append(snap[c], id)`, and `RecordPending` gives `snap[c] = c.Nodes` and `id = len(c.Nodes)`, with a started container;
  - the agents only move a container between `booting`, `serving` and `exited`.

**`AgentRun_proofs`** holds for every output, input, code set and pipe capacity. `RunRefinement` proves `RunSpecImpl => R!ASpec` in three parts:

1. The initial states map to `AInit`.
2. Under `RunInv`, every step maps to an `ANext` step or a stutter. `RunInv` says:
   - per stream, `taken <= written <= Len(Output)`;
   - each sink is a prefix of its stream;
   - a wired, working sink holds exactly what was taken;
   - nothing is written before the process runs;
   - an exited process wrote everything and has a code;
   - delivery comes after draining.
3. The temporal step combines these.

`RunInv` is needed because `Finish`'s guard (every working sink is complete) is only true of the implementation through these relations.

`BasicCluster` has no proofs. Its only passing property, `RunReturns`, is liveness. `RunSuccessMeansExitZero` and `RunReportsSinkError` are false of the code (findings 5 and 6).

Left to TLC alone:

- the liveness properties (`OrphansTerminate`, `NewNodesTerminates`, `ExitEventuallyDelivered`, `RunReturns`): TLAPS cannot handle fairness and ENABLED;
- the violation runs.

## 7. Not modelled, and why

- **Cryptography and certificate generation** (`GenerateCert`, the TLS handshake): pure computation with no protocol state. Authentication is planned only as a guard.
- **`randString` and the container name format:** the name is abstracted to the node id, since the prefix is fixed for a cluster.
- **Docker daemon internals beyond container and image state,** and the Docker API's byte streams (the pull output is read and discarded).
- **`RootDir` (dynamic capability probing) and logging:** neither changes state.
- **The tunnel engine (`Dial`) and `SendFile`:** not yet modelled.
- **Cancellation of a run's ctx:** not yet modelled.
- **Real time.** Whether an agent's heartbeat deadline runs out while the runner is still provisioning later nodes depends on the deadline compared with Docker call latency. The model abstracts the deadline to periods, and when heartbeats start is decided by the agent client, which is not under `src/`.
- **Images removed from the daemon behind the `imagePulled` cache:** the model's daemon never loses an image, so the cache cannot go stale in it.
