------------------------- MODULE MCCliqueFirstBlocks ------------------------
(* Four signers, whose window of three blocks is longer than the chain     *)
(* when block 2 arrives.                                                   *)
EXTENDS CliqueVerifier

MCAccounts == 0 .. 4
MCGenesis  == {1, 2, 3, 4}

MCCandidates ==
    [signer : {1, 2, 3}, coinbase : {0}, authorize : {FALSE}, difficulty : {1, 2},
     time : {1, 2}, extra : {{}}]

=============================================================================
