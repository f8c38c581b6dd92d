-------------------------- MODULE MC_DockerCluster --------------------------
(* Model-checking instance of DockerCluster: three node ids, so that a    *)
(* batch of two can succeed after or beside a failed one, and batches of *)
(* 0, 1 and 2 nodes.  The callers are model values, given in the cfgs: one *)
(* test goroutine, or two calling NewNodes concurrently.                  *)
EXTENDS DockerCluster, TLC

MCMaxNodes == 3
MCBatchSizes == {0, 1, 2}
MCConcurrentBatchSizes == {1, 2}
MCMaxHeartbeats == 1
MCZeroHeartbeats == 0
MCSymmetry == Permutations(Callers)
=============================================================================
