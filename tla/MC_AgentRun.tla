----------------------------- MODULE MC_AgentRun -----------------------------
(* One Run of the process engine: two stdout chunks and one stderr chunk   *)
(* through pipes of one chunk, so that a pipe fills and the process blocks *)
(* on it, one input chunk, and a zero and a non-zero exit code.            *)
EXTENDS AgentRun

MCItems == {"o1", "o2", "e1", "i1"}
MCOutput == [s \in OutStreams |-> IF s = "stdout" THEN <<"o1", "o2">> ELSE <<"e1">>]
MCInput == <<"i1">>
MCCodes == {0, 1}
MCPipeCap == 1

=============================================================================
