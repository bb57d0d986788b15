-------------------------- MODULE MCCliqueVerifier --------------------------
(* Two signers and an outsider that may be voted in and seal.  Depending   *)
(* on the parent and the clock a candidate is valid, early, out of turn,   *)
(* sealed too soon, not authorized, or misses or misstates a checkpoint.   *)
EXTENDS CliqueVerifier

MCAccounts == 0 .. 3
MCGenesis  == {1, 2}

MCCandidates ==
    [signer : {1, 2}, coinbase : {3}, authorize : {TRUE}, difficulty : {1, 2},
     time : {2}, extra : {{}}]
    \cup [signer : {2}, coinbase : {3}, authorize : {TRUE}, difficulty : {2},
          time : {1}, extra : {{}}]
    \cup [signer : {2}, coinbase : {0}, authorize : {FALSE}, difficulty : {1, 2},
          time : {3}, extra : {{1, 2}, {1, 2, 3}}]
    \cup [signer : {3}, coinbase : {0}, authorize : {FALSE}, difficulty : {1},
          time : {3}, extra : {{}}]

=============================================================================
