-------------------------- MODULE MCCliqueSnapshot --------------------------
(***************************************************************************)
(* Four signers and the zero address.  Any of them may vote on signer 4    *)
(* and on the zero address, two of them also against signer 3.  Six blocks *)
(* before the checkpoint are enough for two votes that are short of a      *)
(* majority of four, a removal with three votes, and a block that finds    *)
(* the two votes to be a majority of three.                                *)
(***************************************************************************)
EXTENDS CliqueSnapshot

MCAccounts == 0 .. 4
MCGenesis  == {1, 2, 3, 4}

MCHeaders == [signer : 1 .. 4, coinbase : {0, 4}, authorize : BOOLEAN]
             \cup [signer : {1, 2}, coinbase : {3}, authorize : {FALSE}]

MCNext == \E h \in MCHeaders : Apply(h)

MCSpec == Init /\ [][MCNext]_snap

=============================================================================
