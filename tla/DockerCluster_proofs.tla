------------------------ MODULE DockerCluster_proofs ------------------------
(***************************************************************************)
(* Proofs about DockerCluster for every set of callers and every          *)
(* MaxNodes, BatchSizes and MaxHeartbeats.                                 *)
(***************************************************************************)
EXTENDS DockerCluster, TLAPS

(* TypeOK alone is not inductive: NewNodesStep writes containers[startID *)
(* + i], which is a node id only because the loop index stays below the  *)
(* batch and NewNodesBegin admitted the batch only if it fits.            *)
LoopInBounds ==
    \A c \in Callers :
        pc[c] \in {"create", "record"} => /\ i[c] < batch[c]
                                           /\ startID[c] + batch[c] <= MaxNodes

IInv == TypeOK /\ LoopInBounds

USE MaxNodesAssumption, BatchSizesAssumption, MaxHeartbeatsAssumption

LEMMA InitIInv == Init => IInv
<1> SUFFICES ASSUME Init PROVE IInv
    OBVIOUS
<1>1. /\ imagePresent \in BOOLEAN /\ imagePulled \in BOOLEAN
      /\ clients \subseteq Ids /\ runner \in {"alive", "dead"}
      /\ readyIds \subseteq Ids /\ cleaned \in BOOLEAN
    BY Zenon DEF Init
<1>5. nodes \in Seq(Ids)
    BY DEF Init
<1>6. containers \in [Ids -> Status] /\ hb \in [Ids -> {"fresh", "stale"}]
    BY DEF Init, Status
<1>7. hbCount \in [Ids -> 0 .. MaxHeartbeats]
    BY DEF Init
<1>2. /\ pc \in [Callers -> {"idle", "create", "record", "wait"}]
      /\ batch \in [Callers -> Nat] /\ startID \in [Callers -> Nat]
      /\ i \in [Callers -> Nat] /\ w \in [Callers -> Nat \ {0}]
      /\ ctxDone \in [Callers -> BOOLEAN]
      /\ result \in [Callers -> {"none", "ok", "err"}]
    BY DEF Init
<1>3. /\ newNodes \in [Callers -> Seq(Ids)] /\ snap \in [Callers -> Seq(Ids)]
      /\ returned \in [Callers -> Seq(Ids)]
    BY DEF Init
<1>4. LoopInBounds
    BY DEF Init, LoopInBounds
<1>. QED
    BY <1>1, <1>2, <1>3, <1>4, <1>5, <1>6, <1>7 DEF IInv, TypeOK

LEMMA NextIInv == IInv /\ [Next]_vars => IInv'
<1> SUFFICES ASSUME IInv, [Next]_vars PROVE IInv'
    OBVIOUS
<1> USE DEF IInv, TypeOK, LoopInBounds, Status, cluster, agent, call
<1>1. ASSUME NEW c \in Callers, NewNodesSetupFail(c) PROVE IInv'
    BY <1>1 DEF NewNodesSetupFail, EnsureImagePulled
<1>2. ASSUME NEW c \in Callers, NEW k \in BatchSizes, NewNodesBegin(c, k)
      PROVE IInv'
    <2>1. /\ Len(nodes) + k <= MaxNodes
          /\ Len(nodes) \in Nat /\ k \in Nat
          /\ pc' = [pc EXCEPT ![c] = IF k > 0 THEN "create" ELSE "wait"]
          /\ batch' = [batch EXCEPT ![c] = k]
          /\ startID' = [startID EXCEPT ![c] = Len(nodes)]
          /\ i' = [i EXCEPT ![c] = 0]
          /\ newNodes' = [newNodes EXCEPT ![c] = <<>>]
          /\ w' = [w EXCEPT ![c] = 1]
          /\ ctxDone' = [ctxDone EXCEPT ![c] = FALSE]
          /\ UNCHANGED <<nodes, containers, clients, hb, hbCount, runner, snap,
                         result, returned, readyIds, cleaned>>
        BY <1>2 DEF NewNodesBegin
    <2>2. imagePresent' \in BOOLEAN /\ imagePulled' \in BOOLEAN
        BY <1>2 DEF NewNodesBegin, EnsureImagePulled
    <2>3. LoopInBounds'
        BY <2>1
    <2>4. TypeOK'
        BY <2>1, <2>2
    <2>. QED
        BY <2>3, <2>4
<1>3. ASSUME NEW c \in Callers, NewNodesStep(c) PROVE IInv'
    <2>0. /\ pc[c] = "create"
          /\ UNCHANGED <<imagePresent, imagePulled, nodes, hbCount, runner, batch,
                         startID, i, newNodes, w, ctxDone, returned, readyIds,
                         cleaned>>
        BY <1>3 DEF NewNodesStep
    <2>1. NodeId(c) \in Ids
        BY <2>0 DEF NodeId, Ids
    <2>2. PICK out \in StepOutcomes(c) : NewNodesIteration(c, out)
        BY <1>3 DEF NewNodesStep
    <2>3. out \in {"portErr", "createErr", "startErr", "clientErr", "ok"}
        BY <2>2 DEF StepOutcomes
    <2>4. /\ containers' \in [Ids -> Status]
          /\ hb' \in [Ids -> {"fresh", "stale"}]
        BY <2>1, <2>2, <2>3 DEF NewNodesIteration
    <2>5. CASE Returns(out)
        BY <2>0, <2>2, <2>4, <2>5 DEF NewNodesIteration
    <2>6. CASE ~Returns(out)
        <3>1. /\ clients' = clients \cup {NodeId(c)}
              /\ snap' = [snap EXCEPT ![c] = nodes]
              /\ pc' = [pc EXCEPT ![c] = "record"]
              /\ result' = result
            BY <2>2, <2>6 DEF NewNodesIteration
        <3>. QED
            BY <2>0, <2>1, <2>4, <3>1
    <2>. QED
        BY <2>5, <2>6
<1>4. ASSUME NEW c \in Callers, NewNodesRecord(c) PROVE IInv'
    <2>1. /\ pc[c] = "record"
          /\ newNodes' = [newNodes EXCEPT ![c] = Append(@, NodeId(c))]
          /\ nodes' = Append(snap[c], NodeId(c))
          /\ i' = [i EXCEPT ![c] = @ + 1]
          /\ pc' = [pc EXCEPT ![c] = IF i[c] + 1 < batch[c] THEN "create"
                                                            ELSE "wait"]
          /\ UNCHANGED <<imagePresent, imagePulled, containers, clients, hb,
                         hbCount, runner, batch, startID, snap, w, ctxDone,
                         result, returned, readyIds, cleaned>>
        BY <1>4 DEF NewNodesRecord
    <2>2. /\ i[c] \in Nat /\ batch[c] \in Nat /\ startID[c] \in Nat
          /\ i[c] < batch[c] /\ startID[c] + batch[c] <= MaxNodes
        BY <2>1
    <2>3. NodeId(c) \in Ids
        BY <2>2 DEF NodeId, Ids
    <2>4. nodes' \in Seq(Ids) /\ newNodes' \in [Callers -> Seq(Ids)]
        BY <2>1, <2>3
    <2>5. i' \in [Callers -> Nat]
          /\ pc' \in [Callers -> {"idle", "create", "record", "wait"}]
        BY <2>1, <2>2
    <2>6. LoopInBounds'
        BY <2>1, <2>2
    <2>. QED
        BY <2>1, <2>4, <2>5, <2>6
<1>5. ASSUME NEW c \in Callers, NewNodesWait(c) PROVE IInv'
    <2>1. /\ w' = [w EXCEPT ![c] = @ + 1]
          /\ readyIds' \subseteq readyIds \cup Ids
          /\ UNCHANGED <<imagePresent, imagePulled, nodes, containers, clients,
                         hb, hbCount, runner, pc, batch, startID, i, newNodes,
                         snap, ctxDone, result, returned, cleaned>>
        BY <1>5 DEF NewNodesWait
    <2>. QED
        BY <2>1
<1>6. ASSUME NEW c \in Callers, NewNodesReturn(c) PROVE IInv'
    <2>1. /\ pc' = [pc EXCEPT ![c] = "idle"]
          /\ result' = [result EXCEPT ![c] = "ok"]
          /\ returned' = [returned EXCEPT ![c] = newNodes[c]]
          /\ UNCHANGED <<imagePresent, imagePulled, nodes, containers, clients,
                         hb, hbCount, runner, batch, startID, i, newNodes, snap,
                         w, ctxDone, readyIds, cleaned>>
        BY <1>6 DEF NewNodesReturn
    <2>. QED
        BY <2>1
<1>7. ASSUME NEW c \in Callers, CancelCtx(c) PROVE IInv'
    BY <1>7 DEF CancelCtx
<1>8. CASE Cleanup
    BY <1>8 DEF Cleanup
<1>9. CASE RunnerExit
    BY <1>9 DEF RunnerExit
<1>10. ASSUME NEW id \in Ids, AgentBoot(id) PROVE IInv'
    BY <1>10 DEF AgentBoot
<1>11. ASSUME NEW id \in Ids, AgentBootFail(id) PROVE IInv'
    BY <1>11 DEF AgentBootFail
<1>12. ASSUME NEW id \in Ids, Heartbeat(id) PROVE IInv'
    BY <1>12 DEF Heartbeat
<1>13. ASSUME NEW id \in Ids, HeartbeatTimer(id) PROVE IInv'
    BY <1>13 DEF HeartbeatTimer
<1>14. ASSUME NEW id \in Ids, HeartbeatDeadline(id) PROVE IInv'
    BY <1>14 DEF HeartbeatDeadline
<1>15. CASE UNCHANGED vars
    BY <1>15 DEF vars
<1>. QED
    BY <1>1, <1>2, <1>3, <1>4, <1>5, <1>6, <1>7, <1>8, <1>9, <1>10, <1>11,
       <1>12, <1>13, <1>14, <1>15 DEF Next

(* Type correctness of the Docker cluster and its agents: every variable  *)
(* keeps its type in every reachable state, for every set of callers,     *)
(* MaxNodes, BatchSizes and MaxHeartbeats.                                *)
THEOREM TypeCorrect == Spec => []TypeOK
<1>1. Spec => []IInv
    BY InitIInv, NextIInv, PTL DEF Spec
<1>. QED
    BY <1>1, PTL DEF IInv

-----------------------------------------------------------------------------
(***************************************************************************)
(* Concurrent NewNodes calls.  Their unlocked appends to c.Nodes cannot   *)
(* lose or misplace a node, because a caller's ids start at len(c.Nodes)  *)
(* and ContainerCreate refuses a taken name: of the callers that hold the *)
(* same id, only the first to create its container gets past the Docker  *)
(* calls.  Hence at most one caller is between its load and its store of  *)
(* c.Nodes, and what it loaded is still c.Nodes when it stores.           *)
(***************************************************************************)

(* c.Nodes[k] is the node with ID k (cluster.go:106-109, :169): ids are   *)
(* handed out from len(c.Nodes) and a taken container name fails          *)
(* ContainerCreate, so concurrent or failed NewNodes calls never record   *)
(* an id twice or out of place.                                           *)
NodeIdsArePositions ==
    \A k \in 1 .. Len(nodes) : nodes[k] = k - 1

(* A caller in its loop is never ahead of c.Nodes.                        *)
IdsFromLen ==
    \A c \in Callers :
        pc[c] \in {"create", "record"} => NodeId(c) <= Len(nodes)

(* A caller between load and store loaded the current c.Nodes, and its    *)
(* node, whose container started, is the next one by position.            *)
RecordPending ==
    \A c \in Callers :
        pc[c] = "record" => /\ snap[c] = nodes
                            /\ NodeId(c) = Len(nodes)
                            /\ containers[NodeId(c)] \in Started

(* At most one caller is between its load and its store of c.Nodes.       *)
OneRecorder ==
    \A c, d \in Callers : pc[c] = "record" /\ pc[d] = "record" => c = d

CInv ==
    /\ IInv
    /\ NodeIdsArePositions
    /\ NodesStarted
    /\ IdsFromLen
    /\ RecordPending
    /\ OneRecorder
    /\ NoLostNodes

(* The loop bounds of a caller inside its loop.                         *)
LEMMA LoopInCaller ==
    ASSUME IInv, NEW c \in Callers, pc[c] \in {"create", "record"}
    PROVE  /\ i[c] \in Nat /\ batch[c] \in Nat /\ startID[c] \in Nat
           /\ i[c] < batch[c] /\ startID[c] + batch[c] <= MaxNodes
           /\ NodeId(c) \in Ids
<1>1. /\ i[c] \in Nat /\ batch[c] \in Nat /\ startID[c] \in Nat
      /\ i[c] < batch[c] /\ startID[c] + batch[c] <= MaxNodes
    BY DEF IInv, TypeOK, LoopInBounds
<1>. QED
    BY <1>1 DEF NodeId, Ids

(* The state the concurrency invariant speaks of.                        *)
shape == <<nodes, containers, clients, pc, startID, i, snap>>

LEMMA ShapeUnchanged ==
    CInv /\ IInv' /\ UNCHANGED shape => CInv'
BY DEF CInv, shape, NodeIdsArePositions, NodesStarted, IdsFromLen,
       RecordPending, OneRecorder, NoLostNodes, NodeId

(* A container that started stays started; a step that only touches      *)
(* started containers, or creates or starts one whose name was free,    *)
(* keeps every started container started.                                 *)
StartedKept ==
    \A j \in Ids : containers[j] \in Started => containers'[j] \in Started

(* A step that keeps c.Nodes, the clients, the started containers, and   *)
(* takes no caller into or out of its loop's pending store, keeps CInv.   *)
LEMMA QuietStep ==
    ASSUME CInv, IInv',
           UNCHANGED <<nodes, clients, startID, i, snap>>,
           StartedKept,
           \A c \in Callers : (pc'[c] = "record") = (pc[c] = "record"),
           \A c \in Callers : pc'[c] \in {"create", "record"} =>
                                 pc[c] \in {"create", "record"}
    PROVE  CInv'
<1> USE DEF CInv, IInv, TypeOK
<1>1. NodeIdsArePositions'
    BY DEF NodeIdsArePositions
<1>6. OneRecorder'
    BY Zenon DEF OneRecorder
<1>2. NodesStarted'
    BY DEF NodesStarted, StartedKept
<1>3. IdsFromLen'
    BY DEF IdsFromLen, NodeId
<1>4. RecordPending'
    <2> SUFFICES ASSUME NEW c \in Callers, pc'[c] = "record"
                 PROVE  /\ snap'[c] = nodes'
                        /\ NodeId(c)' = Len(nodes')
                        /\ containers'[NodeId(c)'] \in Started
        BY DEF RecordPending
    <2>1. pc[c] = "record"
        OBVIOUS
    <2>2. /\ snap[c] = nodes /\ NodeId(c) = Len(nodes)
          /\ containers[NodeId(c)] \in Started
        BY <2>1 DEF RecordPending
    <2>3. NodeId(c)' = NodeId(c)
        BY DEF NodeId
    <2>4. NodeId(c) \in Ids
        BY <2>1, LoopInCaller DEF NodeId, Ids
    <2>. QED
        BY <2>2, <2>3, <2>4 DEF StartedKept
<1>5. NoLostNodes'
    <2> SUFFICES ASSUME NEW id \in clients'
                 PROVE  \/ \E k \in 1 .. Len(nodes') : nodes'[k] = id
                        \/ \E d \in Callers : pc'[d] = "record" /\ NodeId(d)' = id
        BY DEF NoLostNodes
    <2>1. \/ \E k \in 1 .. Len(nodes) : nodes[k] = id
          \/ \E d \in Callers : pc[d] = "record" /\ NodeId(d) = id
        BY DEF NoLostNodes
    <2>2. \A d \in Callers : NodeId(d)' = NodeId(d)
        BY DEF NodeId
    <2>. QED
        BY <2>1, <2>2
<1>. QED
    BY <1>1, <1>2, <1>3, <1>4, <1>5, <1>6

(* NewNodesBegin puts caller c, idle before, at the start of its loop,    *)
(* at id len(c.Nodes).                                                    *)
LEMMA BeginCInv ==
    ASSUME CInv, IInv', NEW c \in Callers, NEW k \in BatchSizes,
           NewNodesBegin(c, k)
    PROVE  CInv'
<1> USE DEF CInv, IInv, TypeOK
<1>1. /\ pc[c] = "idle"
      /\ pc' = [pc EXCEPT ![c] = IF k > 0 THEN "create" ELSE "wait"]
      /\ startID' = [startID EXCEPT ![c] = Len(nodes)]
      /\ i' = [i EXCEPT ![c] = 0]
      /\ UNCHANGED <<nodes, containers, clients, snap>>
    BY DEF NewNodesBegin
<1>2. pc'[c] # "record"
    BY <1>1
<1>3. \A d \in Callers \ {c} : pc'[d] = pc[d] /\ NodeId(d)' = NodeId(d)
    BY <1>1 DEF NodeId
<1>4. NodeIdsArePositions' /\ NodesStarted'
    BY <1>1 DEF NodeIdsArePositions, NodesStarted
<1>5. IdsFromLen'
    <2> SUFFICES ASSUME NEW d \in Callers, pc'[d] \in {"create", "record"}
                 PROVE  NodeId(d)' <= Len(nodes')
        BY DEF IdsFromLen
    <2>1. CASE d = c
        <3>1. NodeId(c)' = Len(nodes)
            BY <1>1 DEF NodeId
        <3>. QED
            BY <1>1, <2>1, <3>1
    <2>2. CASE d # c
        <3>1. pc[d] \in {"create", "record"} /\ NodeId(d)' = NodeId(d)
            BY <1>3, <2>2
        <3>. QED
            BY <1>1, <3>1 DEF IdsFromLen
    <2>. QED
        BY <2>1, <2>2
<1>6. RecordPending'
    BY <1>1, <1>2, <1>3 DEF RecordPending
<1>7. OneRecorder'
    BY <1>2, <1>3 DEF OneRecorder
<1>8. NoLostNodes'
    <2> SUFFICES ASSUME NEW id \in clients'
                 PROVE  \/ \E j \in 1 .. Len(nodes') : nodes'[j] = id
                        \/ \E d \in Callers : pc'[d] = "record" /\ NodeId(d)' = id
        BY DEF NoLostNodes
    <2>1. \/ \E j \in 1 .. Len(nodes) : nodes[j] = id
          \/ \E d \in Callers : pc[d] = "record" /\ NodeId(d) = id
        BY <1>1 DEF NoLostNodes
    <2>2. ASSUME NEW d \in Callers, pc[d] = "record", NodeId(d) = id
          PROVE  pc'[d] = "record" /\ NodeId(d)' = id
        <3>1. d # c
            BY <1>1, <2>2
        <3>. QED
            BY <1>3, <2>2, <3>1
    <2>. QED
        BY <1>1, <2>1, <2>2
<1>. QED
    BY <1>4, <1>5, <1>6, <1>7, <1>8

(* A NewNodes iteration that gets past its Docker calls holds the id      *)
(* len(c.Nodes): ids below it are the started containers c.Nodes lists,   *)
(* and the name of the id must have been free.  No other caller can then  *)
(* be between its load and its store, since that caller holds the same   *)
(* id with its container started.                                         *)
LEMMA StepOkCInv ==
    ASSUME CInv, IInv', NEW c \in Callers, NewNodesStep(c),
           NEW out \in StepOutcomes(c), NewNodesIteration(c, out), ~Returns(out)
    PROVE  CInv'
<1>a. /\ NodeIdsArePositions /\ NodesStarted /\ IdsFromLen /\ RecordPending
      /\ OneRecorder /\ NoLostNodes /\ IInv
    BY DEF CInv
<1>b. /\ nodes \in Seq(Ids) /\ containers \in [Ids -> Status]
      /\ clients \subseteq Ids
    BY <1>a DEF IInv, TypeOK
<1>0. pc[c] = "create" /\ NodeId(c) \in Ids
    BY <1>a, LoopInCaller DEF NewNodesStep
<1>1. out = "ok" /\ containers[NodeId(c)] = "none"
    BY DEF StepOutcomes, Returns
<1>2. /\ containers' = [containers EXCEPT ![NodeId(c)] = "booting"]
      /\ clients' = clients \cup {NodeId(c)}
      /\ snap' = [snap EXCEPT ![c] = nodes]
      /\ pc' = [pc EXCEPT ![c] = "record"]
      /\ UNCHANGED <<nodes, startID, i>>
    BY <1>1 DEF NewNodesIteration, NewNodesStep
<1>c. pc'[c] = "record"
    BY <1>a, <1>2 DEF IInv, TypeOK
<1>3. NodeId(c) = Len(nodes)
    <2>1. NodeId(c) <= Len(nodes)
        BY <1>0, <1>a DEF IdsFromLen
    <2>2. SUFFICES ASSUME NodeId(c) < Len(nodes) PROVE FALSE
        BY <1>0, <1>b, <2>1 DEF Ids
    <2>3. NodeId(c) + 1 \in 1 .. Len(nodes)
        BY <1>0, <1>b, <2>2 DEF Ids
    <2>4. nodes[NodeId(c) + 1] = NodeId(c)
        BY <1>0, <1>a, <2>3 DEF NodeIdsArePositions, Ids
    <2>5. containers[nodes[NodeId(c) + 1]] \in Started
        BY <1>a, <2>3 DEF NodesStarted
    <2>. QED
        BY <1>1, <2>4, <2>5 DEF Started
<1>4. \A d \in Callers : pc[d] # "record"
    <2> SUFFICES ASSUME NEW d \in Callers, pc[d] = "record" PROVE FALSE
        OBVIOUS
    <2>1. NodeId(d) = Len(nodes) /\ containers[NodeId(d)] \in Started
        BY <1>a DEF RecordPending
    <2>. QED
        BY <1>1, <1>3, <2>1 DEF Started
<1>5. \A d \in Callers : NodeId(d)' = NodeId(d)
    BY <1>2 DEF NodeId
<1>6. StartedKept
    BY <1>0, <1>1, <1>b, <1>2 DEF StartedKept, Started
<1>7. NodeIdsArePositions'
    BY <1>a, <1>2 DEF NodeIdsArePositions
<1>12. NodesStarted'
    <2> SUFFICES ASSUME NEW k \in 1 .. Len(nodes)
                 PROVE  containers'[nodes[k]] \in Started
        BY <1>2 DEF NodesStarted
    <2>1. nodes[k] \in Ids /\ containers[nodes[k]] \in Started
        BY <1>a, <1>b DEF NodesStarted
    <2>. QED
        BY <1>6, <2>1 DEF StartedKept
<1>8. IdsFromLen'
    BY <1>0, <1>a, <1>2, <1>5 DEF IdsFromLen
<1>9. RecordPending'
    <2> SUFFICES ASSUME NEW d \in Callers, pc'[d] = "record"
                 PROVE  /\ snap'[d] = nodes'
                        /\ NodeId(d)' = Len(nodes')
                        /\ containers'[NodeId(d)'] \in Started
        BY DEF RecordPending
    <2>1. d = c
        BY <1>2, <1>4
    <2>2. snap'[c] = nodes'
        BY <1>a, <1>2 DEF IInv, TypeOK
    <2>3. NodeId(c)' = Len(nodes') /\ NodeId(c)' = NodeId(c)
        BY <1>2, <1>3, <1>5
    <2>4. containers'[NodeId(c)] = "booting"
        BY <1>0, <1>b, <1>2
    <2>. QED
        BY <2>1, <2>2, <2>3, <2>4 DEF Started
<1>10. OneRecorder'
    BY <1>2, <1>4 DEF OneRecorder
<1>11. NoLostNodes'
    <2> SUFFICES ASSUME NEW id \in clients'
                 PROVE  \/ \E k \in 1 .. Len(nodes') : nodes'[k] = id
                        \/ \E d \in Callers : pc'[d] = "record" /\ NodeId(d)' = id
        BY DEF NoLostNodes
    <2>1. CASE id = NodeId(c)
        BY <1>c, <1>5, <2>1
    <2>2. CASE id # NodeId(c)
        <3>1. id \in clients
            BY <1>2, <2>2
        <3>2. \E k \in 1 .. Len(nodes) : nodes[k] = id
            BY <1>a, <1>4, <3>1 DEF NoLostNodes
        <3>. QED
            BY <1>2, <3>2
    <2>. QED
        BY <2>1, <2>2
<1>. QED
    BY <1>7, <1>8, <1>9, <1>10, <1>11, <1>12 DEF CInv

(* The store of the only caller between load and store appends its node   *)
(* at position len(c.Nodes) + 1 of the c.Nodes it loaded, which is still  *)
(* c.Nodes.                                                               *)
LEMMA RecordCInv ==
    ASSUME CInv, IInv', NEW c \in Callers, NewNodesRecord(c)
    PROVE  CInv'
<1>a. /\ NodeIdsArePositions /\ NodesStarted /\ IdsFromLen /\ RecordPending
      /\ OneRecorder /\ NoLostNodes /\ IInv
    BY DEF CInv
<1>b. /\ nodes \in Seq(Ids) /\ pc \in [Callers -> {"idle", "create", "record", "wait"}]
      /\ i \in [Callers -> Nat] /\ startID \in [Callers -> Nat]
    BY <1>a DEF IInv, TypeOK
<1>1. /\ pc[c] = "record"
      /\ nodes' = Append(snap[c], NodeId(c))
      /\ i' = [i EXCEPT ![c] = @ + 1]
      /\ pc' = [pc EXCEPT ![c] = IF i[c] + 1 < batch[c] THEN "create" ELSE "wait"]
      /\ UNCHANGED <<containers, clients, startID, snap>>
    BY DEF NewNodesRecord
<1>2. /\ snap[c] = nodes /\ NodeId(c) = Len(nodes)
      /\ containers[NodeId(c)] \in Started
    BY <1>a, <1>1 DEF RecordPending
<1>3. /\ nodes' = Append(nodes, Len(nodes))
      /\ Len(nodes') = Len(nodes) + 1
      /\ \A k \in 1 .. Len(nodes) : nodes'[k] = nodes[k]
      /\ nodes'[Len(nodes) + 1] = Len(nodes)
    BY <1>1, <1>2, <1>b
<1>4. \A d \in Callers \ {c} : pc[d] # "record"
    BY <1>a, <1>1 DEF OneRecorder
<1>5. /\ \A d \in Callers \ {c} : pc'[d] = pc[d] /\ NodeId(d)' = NodeId(d)
      /\ NodeId(c)' = NodeId(c) + 1
      /\ pc'[c] \in {"create", "wait"}
    BY <1>1, <1>b DEF NodeId
<1>6. NodeIdsArePositions'
    BY <1>a, <1>3 DEF NodeIdsArePositions
<1>7. NodesStarted'
    BY <1>a, <1>1, <1>2, <1>3 DEF NodesStarted
<1>8. IdsFromLen'
    <2> SUFFICES ASSUME NEW d \in Callers, pc'[d] \in {"create", "record"}
                 PROVE  NodeId(d)' <= Len(nodes')
        BY DEF IdsFromLen
    <2>1. CASE d = c
        BY <1>2, <1>3, <1>5, <2>1
    <2>2. CASE d # c
        <3>1. pc[d] \in {"create", "record"} /\ NodeId(d)' = NodeId(d)
            BY <1>5, <2>2
        <3>2. NodeId(d) <= Len(nodes)
            BY <1>a, <3>1 DEF IdsFromLen
        <3>. QED
            BY <1>b, <1>3, <3>1, <3>2 DEF NodeId
    <2>. QED
        BY <2>1, <2>2
<1>9. \A d \in Callers : pc'[d] # "record"
    BY <1>4, <1>5
<1>10. RecordPending' /\ OneRecorder'
    BY <1>9 DEF RecordPending, OneRecorder
<1>11. NoLostNodes'
    <2> SUFFICES ASSUME NEW id \in clients'
                 PROVE  \E k \in 1 .. Len(nodes') : nodes'[k] = id
        BY DEF NoLostNodes
    <2>1. \/ \E k \in 1 .. Len(nodes) : nodes[k] = id
          \/ id = NodeId(c)
        BY <1>a, <1>1, <1>4 DEF NoLostNodes
    <2>. QED
        BY <1>2, <1>3, <2>1
<1>. QED
    BY <1>6, <1>7, <1>8, <1>10, <1>11 DEF CInv

(* No NewNodes step of any caller, and no step of the agents or of the    *)
(* runner, breaks the concurrency invariant.                              *)
LEMMA NextCInv == CInv /\ [Next]_vars => CInv'
<1> SUFFICES ASSUME CInv, [Next]_vars PROVE CInv'
    OBVIOUS
<1>0. IInv' /\ IInv
    BY NextIInv DEF CInv
<1>q. ASSUME UNCHANGED <<nodes, clients, startID, i, snap, containers, pc>>
      PROVE  CInv'
    BY <1>0, <1>q, QuietStep DEF StartedKept
<1>1. ASSUME NEW c \in Callers, NewNodesSetupFail(c) PROVE CInv'
    BY <1>1, <1>q DEF NewNodesSetupFail
<1>2. ASSUME NEW c \in Callers, NEW k \in BatchSizes, NewNodesBegin(c, k)
      PROVE CInv'
    BY <1>0, <1>2, BeginCInv
<1>3. ASSUME NEW c \in Callers, NewNodesStep(c) PROVE CInv'
    <2>1. PICK out \in StepOutcomes(c) : NewNodesIteration(c, out)
        BY <1>3 DEF NewNodesStep
    <2>2. CASE ~Returns(out)
        BY <1>0, <1>3, <2>1, <2>2, StepOkCInv
    <2>3. CASE Returns(out)
        <3>1. /\ pc[c] = "create" /\ NodeId(c) \in Ids
              /\ pc' = [pc EXCEPT ![c] = "idle"]
              /\ UNCHANGED <<nodes, clients, startID, i, snap>>
            BY <1>0, <1>3, <2>1, <2>3, LoopInCaller DEF NewNodesStep, NewNodesIteration, CInv
        <3>2. StartedKept
            BY <1>0, <2>1, <3>1 DEF StartedKept, NewNodesIteration, StepOutcomes,
                                    Started, IInv, TypeOK
        <3>3. /\ \A d \in Callers : (pc'[d] = "record") = (pc[d] = "record")
              /\ \A d \in Callers : pc'[d] \in {"create", "record"} =>
                                       pc[d] \in {"create", "record"}
            BY <1>0, <3>1 DEF IInv, TypeOK
        <3>. QED
            BY <1>0, <3>1, <3>2, <3>3, QuietStep
    <2>. QED
        BY <2>2, <2>3
<1>4. ASSUME NEW c \in Callers, NewNodesRecord(c) PROVE CInv'
    BY <1>0, <1>4, RecordCInv
<1>5. ASSUME NEW c \in Callers, NewNodesWait(c) \/ CancelCtx(c) PROVE CInv'
    BY <1>5, <1>q DEF NewNodesWait, CancelCtx, cluster
<1>6. ASSUME NEW c \in Callers, NewNodesReturn(c) PROVE CInv'
    <2>1. /\ pc[c] = "wait" /\ pc' = [pc EXCEPT ![c] = "idle"]
          /\ UNCHANGED <<nodes, clients, startID, i, snap, containers>>
        BY <1>6 DEF NewNodesReturn, cluster
    <2>2. /\ \A d \in Callers : (pc'[d] = "record") = (pc[d] = "record")
          /\ \A d \in Callers : pc'[d] \in {"create", "record"} =>
                                   pc[d] \in {"create", "record"}
        BY <1>0, <2>1 DEF IInv, TypeOK
    <2>. QED
        BY <1>0, <2>1, <2>2, QuietStep DEF StartedKept
<1>7. CASE Cleanup \/ RunnerExit
    BY <1>7, <1>q DEF Cleanup, RunnerExit, cluster, call
<1>8. ASSUME NEW id \in Ids, Heartbeat(id) \/ HeartbeatTimer(id) PROVE CInv'
    BY <1>8, <1>q DEF Heartbeat, HeartbeatTimer, cluster, call
<1>9. ASSUME NEW id \in Ids,
             AgentBoot(id) \/ AgentBootFail(id) \/ HeartbeatDeadline(id)
      PROVE CInv'
    <2>1. /\ containers[id] \in {"booting", "serving"}
          /\ \E st \in {"serving", "exited"} :
                containers' = [containers EXCEPT ![id] = st]
          /\ UNCHANGED <<nodes, clients, startID, i, snap, pc>>
        BY <1>9 DEF AgentBoot, AgentBootFail, HeartbeatDeadline, call
    <2>2. StartedKept
        BY <1>0, <2>1 DEF StartedKept, Started, IInv, TypeOK
    <2>. QED
        BY <1>0, <2>1, <2>2, QuietStep
<1>10. CASE UNCHANGED vars
    BY <1>10, <1>q DEF vars
<1>. QED
    BY <1>1, <1>2, <1>3, <1>4, <1>5, <1>6, <1>7, <1>8, <1>9, <1>10 DEF Next

LEMMA InitCInv == Init => CInv
<1> SUFFICES ASSUME Init PROVE CInv
    OBVIOUS
<1>1. IInv
    BY InitIInv
<1>2. nodes = <<>> /\ clients = {} /\ \A c \in Callers : pc[c] = "idle"
    BY DEF Init
<1>. QED
    BY <1>1, <1>2 DEF CInv, NodeIdsArePositions, NodesStarted, IdsFromLen,
                      RecordPending, OneRecorder, NoLostNodes

(* No node whose container started and whose client was built is lost    *)
(* from c.Nodes by a racing append of another NewNodes call              *)
(* (cluster.go:169): it is in c.Nodes or its caller is about to store it.  *)
THEOREM NoLostNodesInvariant == Spec => []NoLostNodes
<1>1. Spec => []CInv
    BY InitCInv, NextCInv, PTL DEF Spec
<1>. QED
    BY <1>1, PTL DEF CInv

(* c.Nodes only ever lists nodes whose container was started             *)
(* (cluster.go:148-169), whatever errors earlier iterations or calls met  *)
(* and however concurrent calls interleave.                               *)
THEOREM NodesStartedInvariant == Spec => []NodesStarted
<1>1. Spec => []CInv
    BY InitCInv, NextCInv, PTL DEF Spec
<1>. QED
    BY <1>1, PTL DEF CInv

-----------------------------------------------------------------------------
(***************************************************************************)
(* No node is handed to two callers.  Every node a caller holds was       *)
(* stored in c.Nodes by that caller, and a store appends an id no caller  *)
(* holds yet: len(c.Nodes), above every id stored before.                 *)
(***************************************************************************)

(* The nodes every caller holds are already in c.Nodes.                   *)
HandlesRecorded ==
    \A c \in Callers : Handles(c) \subseteq 0 .. Len(nodes) - 1

HInv == CInv /\ HandlesRecorded /\ NodesHandedOutOnce

(* The nodes listed by a sequence with one more node appended.            *)
LEMMA NodeSetAppend ==
    ASSUME NEW S, NEW s \in Seq(S), NEW x \in S
    PROVE  NodeSet(Append(s, x)) = NodeSet(s) \cup {x}
BY DEF NodeSet

LEMMA NodeSetEmpty == NodeSet(<<>>) = {}
BY DEF NodeSet

(* A step that gives no caller a new node and does not shorten c.Nodes   *)
(* keeps both facts.                                                      *)
LEMMA HandlesKept ==
    ASSUME HandlesRecorded, NodesHandedOutOnce,
           Len(nodes) \in Nat, Len(nodes') \in Nat, Len(nodes) <= Len(nodes'),
           \A c \in Callers : Handles(c)' \subseteq Handles(c)
    PROVE  HandlesRecorded' /\ NodesHandedOutOnce'
<1>1. HandlesRecorded'
    BY DEF HandlesRecorded
<1>2. NodesHandedOutOnce'
    BY DEF NodesHandedOutOnce
<1>. QED
    BY <1>1, <1>2

LEMMA NextHInv == HInv /\ [Next]_vars => HInv'
<1> SUFFICES ASSUME HInv, [Next]_vars PROVE HInv'
    OBVIOUS
<1>a. CInv' /\ TypeOK /\ TypeOK'
    BY NextCInv, NextIInv DEF HInv, CInv, IInv
<1>b. HandlesRecorded /\ NodesHandedOutOnce /\ CInv
    BY DEF HInv
<1>n. Len(nodes) \in Nat /\ Len(nodes') \in Nat
    BY <1>a DEF TypeOK
<1>q. ASSUME UNCHANGED <<nodes, newNodes, returned>> PROVE HInv'
    <2>1. \A c \in Callers : Handles(c)' = Handles(c)
        BY <1>q DEF Handles
    <2>. QED
        BY <1>a, <1>b, <1>n, <1>q, <2>1, HandlesKept DEF HInv
<1>1. ASSUME NEW c \in Callers, NEW k \in BatchSizes, NewNodesBegin(c, k)
      PROVE HInv'
    <2>1. /\ newNodes' = [newNodes EXCEPT ![c] = <<>>]
          /\ UNCHANGED <<nodes, returned>>
        BY <1>1 DEF NewNodesBegin
    <2>2. \A d \in Callers : Handles(d)' \subseteq Handles(d)
        BY <1>a, <2>1, NodeSetEmpty DEF Handles, TypeOK
    <2>. QED
        BY <1>a, <1>b, <1>n, <2>1, <2>2, HandlesKept DEF HInv
<1>2. ASSUME NEW c \in Callers, NewNodesReturn(c) PROVE HInv'
    <2>1. /\ returned' = [returned EXCEPT ![c] = newNodes[c]]
          /\ UNCHANGED <<nodes, newNodes>>
        BY <1>2 DEF NewNodesReturn, cluster
    <2>2. \A d \in Callers : Handles(d)' \subseteq Handles(d)
        BY <1>a, <2>1 DEF Handles, TypeOK
    <2>. QED
        BY <1>a, <1>b, <1>n, <2>1, <2>2, HandlesKept DEF HInv
<1>3. ASSUME NEW c \in Callers, NewNodesRecord(c) PROVE HInv'
    <2>1. /\ pc[c] = "record"
          /\ newNodes' = [newNodes EXCEPT ![c] = Append(@, NodeId(c))]
          /\ nodes' = Append(snap[c], NodeId(c))
          /\ UNCHANGED returned
        BY <1>3 DEF NewNodesRecord
    <2>2. /\ snap[c] = nodes /\ NodeId(c) = Len(nodes) /\ NodeId(c) \in Ids
          /\ nodes \in Seq(Ids) /\ newNodes \in [Callers -> Seq(Ids)]
        BY <1>a, <1>b, <2>1, LoopInCaller DEF CInv, RecordPending, TypeOK
    <2>3. Len(nodes') = Len(nodes) + 1
        BY <2>1, <2>2
    <2>4. Handles(c)' = Handles(c) \cup {Len(nodes)}
        <3>1. NodeSet(newNodes'[c]) = NodeSet(newNodes[c]) \cup {Len(nodes)}
            BY <2>1, <2>2, NodeSetAppend
        <3>. QED
            BY <2>1, <3>1 DEF Handles
    <2>5. \A d \in Callers \ {c} : Handles(d)' = Handles(d)
        BY <2>1, <2>2 DEF Handles
    <2>6. \A d \in Callers : Len(nodes) \notin Handles(d)
        BY <1>b, <1>n DEF HandlesRecorded
    <2>7. HandlesRecorded'
        BY <1>b, <1>n, <2>3, <2>4, <2>5 DEF HandlesRecorded
    <2>8. NodesHandedOutOnce'
        BY <1>b, <2>4, <2>5, <2>6 DEF NodesHandedOutOnce
    <2>. QED
        BY <1>a, <2>7, <2>8 DEF HInv
<1>4. ASSUME NEW c \in Callers,
             \/ NewNodesSetupFail(c) \/ NewNodesStep(c)
             \/ NewNodesWait(c) \/ CancelCtx(c)
      PROVE HInv'
    BY <1>4, <1>q DEF NewNodesSetupFail, NewNodesStep, NewNodesWait,
                      CancelCtx, cluster
<1>5. CASE Cleanup \/ RunnerExit
    BY <1>5, <1>q DEF Cleanup, RunnerExit, cluster, call
<1>6. ASSUME NEW id \in Ids,
             \/ AgentBoot(id) \/ AgentBootFail(id) \/ Heartbeat(id)
             \/ HeartbeatTimer(id) \/ HeartbeatDeadline(id)
      PROVE HInv'
    BY <1>6, <1>q DEF AgentBoot, AgentBootFail, Heartbeat, HeartbeatTimer,
                      HeartbeatDeadline, cluster, call
<1>7. CASE UNCHANGED vars
    BY <1>7, <1>q DEF vars
<1>. QED
    BY <1>1, <1>2, <1>3, <1>4, <1>5, <1>6, <1>7 DEF Next

LEMMA InitHInv == Init => HInv
<1> SUFFICES ASSUME Init PROVE HInv
    OBVIOUS
<1>1. \A c \in Callers : Handles(c) = {}
    BY NodeSetEmpty DEF Init, Handles
<1>. QED
    BY <1>1, InitCInv DEF HInv, HandlesRecorded, NodesHandedOutOnce

(* Two goroutines calling NewNodes concurrently never get the same node, *)
(* for every number of callers: the ids they pick from len(c.Nodes)       *)
(* (cluster.go:106) may coincide, but ContainerCreate refuses the second  *)
(* container of a name (cluster.go:121-142), so each node is stored in    *)
(* c.Nodes, and handed out, by one call only.                            *)
THEOREM NodesHandedOutOnceInvariant == Spec => []NodesHandedOutOnce
<1>1. Spec => []HInv
    BY InitHInv, NextHInv, PTL DEF Spec
<1>. QED
    BY <1>1, PTL DEF HInv

-----------------------------------------------------------------------------
(***************************************************************************)
(* The provider implements ClusterNodes under StartedIds.  A step of      *)
(* NewNodes's loop only starts a container whose name was free, a store   *)
(* of c.Nodes appends node len(c.Nodes) because the storing caller loaded *)
(* the current c.Nodes (RecordPending of CInv), and the agents only move  *)
(* a started container between started states.                            *)
(***************************************************************************)

LEMMA InitRefines == Init => Abstract!Init
BY DEF Init, Abstract!Init, StartedIds, Started

LEMMA StepRefines ==
    ASSUME CInv, NEW c \in Callers, NewNodesStep(c)
    PROVE  [Abstract!Next]_Abstract!avars
<1>a. /\ IInv /\ TypeOK /\ IInv'
      /\ containers \in [Ids -> Status]
    BY NextIInv DEF CInv, IInv, TypeOK, Next
<1>0. pc[c] = "create" /\ NodeId(c) \in Ids /\ UNCHANGED nodes
    BY <1>a, LoopInCaller DEF NewNodesStep
<1>1. PICK out \in StepOutcomes(c) : NewNodesIteration(c, out)
    BY DEF NewNodesStep
<1>2. CASE out \in {"portErr", "createErr"}
    <2>1. containers' = containers
        BY <1>1, <1>2 DEF NewNodesIteration
    <2>. QED
        BY <1>0, <2>1 DEF Abstract!avars, StartedIds
<1>3. CASE out = "startErr"
    <2>1. containers[NodeId(c)] = "none"
        BY <1>1, <1>3 DEF StepOutcomes
    <2>2. containers' = [containers EXCEPT ![NodeId(c)] = "created"]
        BY <1>1, <1>3 DEF NewNodesIteration
    <2>3. StartedIds' = StartedIds
        BY <1>0, <1>a, <2>1, <2>2 DEF StartedIds, Started
    <2>. QED
        BY <1>0, <2>3 DEF Abstract!avars
<1>4. CASE out \in {"clientErr", "ok"}
    <2>1. containers[NodeId(c)] = "none"
        BY <1>1, <1>4 DEF StepOutcomes
    <2>2. containers' = [containers EXCEPT ![NodeId(c)] = "booting"]
        BY <1>1, <1>4 DEF NewNodesIteration
    <2>3. /\ NodeId(c) \notin StartedIds
          /\ StartedIds' = StartedIds \cup {NodeId(c)}
        BY <1>0, <1>a, <2>1, <2>2 DEF StartedIds, Started
    <2>. QED
        BY <1>0, <2>3 DEF Abstract!Next, Abstract!Start, Abstract!Ids, Ids
<1>. QED
    BY <1>1, <1>2, <1>3, <1>4 DEF StepOutcomes

LEMMA RecordRefines ==
    ASSUME CInv, NEW c \in Callers, NewNodesRecord(c)
    PROVE  Abstract!Add
<1>a. /\ IInv /\ RecordPending /\ containers \in [Ids -> Status]
    BY DEF CInv, IInv, TypeOK
<1>1. /\ pc[c] = "record"
      /\ nodes' = Append(snap[c], NodeId(c))
      /\ UNCHANGED containers
    BY DEF NewNodesRecord
<1>2. /\ snap[c] = nodes /\ NodeId(c) = Len(nodes)
      /\ containers[NodeId(c)] \in Started
    BY <1>a, <1>1 DEF RecordPending
<1>3. NodeId(c) \in Ids
    BY <1>a, <1>1, LoopInCaller
<1>4. Len(nodes) \in StartedIds /\ StartedIds' = StartedIds
    BY <1>1, <1>2, <1>3 DEF StartedIds
<1>. QED
    BY <1>1, <1>2, <1>4 DEF Abstract!Add

LEMMA NextRefines == CInv /\ [Next]_vars => [Abstract!Next]_Abstract!avars
<1> SUFFICES ASSUME CInv, [Next]_vars PROVE [Abstract!Next]_Abstract!avars
    OBVIOUS
<1>a. TypeOK /\ TypeOK'
    BY NextIInv DEF CInv, IInv
<1>q. ASSUME UNCHANGED <<nodes, containers>> PROVE UNCHANGED Abstract!avars
    BY <1>q DEF Abstract!avars, StartedIds
<1>1. ASSUME NEW c \in Callers, NewNodesStep(c) PROVE [Abstract!Next]_Abstract!avars
    BY <1>1, StepRefines
<1>2. ASSUME NEW c \in Callers, NewNodesRecord(c) PROVE [Abstract!Next]_Abstract!avars
    BY <1>2, RecordRefines DEF Abstract!Next
<1>3. ASSUME NEW c \in Callers,
             \/ NewNodesSetupFail(c)
             \/ \E k \in BatchSizes : NewNodesBegin(c, k)
             \/ NewNodesWait(c) \/ NewNodesReturn(c) \/ CancelCtx(c)
      PROVE [Abstract!Next]_Abstract!avars
    BY <1>3, <1>q DEF NewNodesSetupFail, NewNodesBegin, NewNodesWait,
                      NewNodesReturn, CancelCtx, cluster
<1>4. CASE Cleanup \/ RunnerExit
    BY <1>4, <1>q DEF Cleanup, RunnerExit, cluster
<1>5. ASSUME NEW id \in Ids, Heartbeat(id) \/ HeartbeatTimer(id)
      PROVE [Abstract!Next]_Abstract!avars
    BY <1>5, <1>q DEF Heartbeat, HeartbeatTimer, cluster
<1>6. ASSUME NEW id \in Ids,
             AgentBoot(id) \/ AgentBootFail(id) \/ HeartbeatDeadline(id)
      PROVE [Abstract!Next]_Abstract!avars
    <2>1. /\ containers[id] \in {"booting", "serving"}
          /\ \E st \in {"serving", "exited"} :
                containers' = [containers EXCEPT ![id] = st]
          /\ UNCHANGED nodes
        BY <1>6 DEF AgentBoot, AgentBootFail, HeartbeatDeadline
    <2>2. StartedIds' = StartedIds
        BY <1>a, <2>1 DEF StartedIds, Started, TypeOK
    <2>. QED
        BY <2>1, <2>2 DEF Abstract!avars
<1>7. CASE UNCHANGED vars
    BY <1>7, <1>q DEF vars
<1>. QED
    BY <1>1, <1>2, <1>3, <1>4, <1>5, <1>6, <1>7 DEF Next

(* The Docker provider implements ClusterNodes, for every set of callers  *)
(* and every bound: c.Nodes only grows, at its end, by node len(c.Nodes)  *)
(* once its container started (cluster.go:107-169), and no step of        *)
(* NewNodes or of the agents un-starts a container.                       *)
THEOREM ClusterRefinement == Spec => ClusterRefinesSpec
<1>1. Spec => []CInv
    BY InitCInv, NextCInv, PTL DEF Spec
<1>2. []CInv /\ [][Next]_vars => [][Abstract!Next]_Abstract!avars
    BY NextRefines, PTL
<1>. QED
    BY <1>1, <1>2, InitRefines, PTL DEF Spec, ClusterRefinesSpec, Abstract!Spec

=============================================================================
