-------------------------- MODULE MCFetcherTimers ---------------------------
(* One peer and two blocks, under fairness.                                *)
EXTENDS Fetcher

MCPeers  == {"a"}
MCHonest == MCPeers
MCBlocks == {1, 2}
MCNumber == [b \in 0 .. 2 |-> b]
MCParent == [b \in MCBlocks |-> b - 1]
MCEmpty  == {}
MCBad    == {}
MCClaims == {1, 2}

=============================================================================
