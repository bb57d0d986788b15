----------------------------- MODULE MCFetcher ------------------------------
(* An honest peer and one that may promise wrong numbers and send the bad  *)
(* block 2; block 1 has a body, block 2 is empty.                          *)
EXTENDS Fetcher

MCPeers  == {"honest", "liar"}
MCHonest == {"honest"}
MCBlocks == {1, 2}
MCNumber == [b \in 0 .. 2 |-> b]
MCParent == [b \in MCBlocks |-> b - 1]
MCEmpty  == {2}
MCBad    == {2}
MCClaims == {0, 1, 2}

=============================================================================
