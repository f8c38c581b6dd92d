--------------------------- MODULE MC_BasicCluster ---------------------------
(* A test that gets one node and runs one command on it.  The process has  *)
(* two stdout chunks and one stderr chunk, pipes of one chunk, one input   *)
(* chunk, and exits 0, 1, or -1 (killed by a signal, as Go reports it).    *)
EXTENDS BasicCluster

MCItems == {"o1", "o2", "e1", "i1"}
MCOutput == [s \in OutStreams |-> IF s = "stdout" THEN <<"o1", "o2">> ELSE <<"e1">>]
MCInput == <<"i1">>
MCCodes == {0, 1, -1}
MCPipeCap == 1

=============================================================================
