------------------------- MODULE MCFetcherPriority --------------------------
(* One peer and two blocks, whose numbers are one and the same as 32-bit   *)
(* floats.                                                                 *)
EXTENDS Fetcher

MCPeers  == {"a"}
MCRoot   == 2^24 + 2
MCBlocks == {MCRoot + 1, MCRoot + 2}
MCNumber == [b \in MCBlocks \cup {MCRoot} |-> b]
MCParent == [b \in MCBlocks |-> b - 1]

=============================================================================
