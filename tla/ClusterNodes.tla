---------------------------- MODULE ClusterNodes ----------------------------
(***************************************************************************)
(* What a cluster promises its test about Cluster.Nodes, stated without   *)
(* callers, loops or Docker calls: node containers get started one at a   *)
(* time and stay started, and c.Nodes is a list that only grows at its    *)
(* end, by the node whose ID is its length, once that node's container    *)
(* has started.  So c.Nodes[k] is node k, and it has a started container. *)
(***************************************************************************)
EXTENDS Naturals, Sequences

CONSTANT MaxNodes

Ids == 0 .. MaxNodes - 1

VARIABLES
    nodes,   \* Cluster.Nodes, as the sequence of node ids
    started  \* the ids whose container was started

avars == <<nodes, started>>

Init ==
    /\ nodes = <<>>
    /\ started = {}

(* The container of node id is started.                                   *)
Start(id) ==
    /\ id \notin started
    /\ started' = started \cup {id}
    /\ UNCHANGED nodes

(* The next node by ID, whose container started, is added at the end.     *)
Add ==
    /\ Len(nodes) \in started
    /\ nodes' = Append(nodes, Len(nodes))
    /\ UNCHANGED started

Next ==
    \/ \E id \in Ids : Start(id)
    \/ Add

Spec == Init /\ [][Next]_avars

=============================================================================
