-------------------------- MODULE CliqueElectorate --------------------------
(***************************************************************************)
(* What the clique voting promises, without the vote list, the cached      *)
(* tally and the window of recent sealers that snapshot.go keeps: a signer *)
(* holds at most one ballot per account, a ballot asks to flip whether the *)
(* account is a signer, and a majority of the signers flips it.            *)
(***************************************************************************)
EXTENDS Integers

CONSTANTS Accounts, Genesis, Epoch,
          Majority(_, _)    \* whether some of the signers decide for all

VARIABLES number,   \* blocks sealed so far
          signers,  \* who may seal
          ballots   \* <<signer, account>>: signer wants account flipped

vars == <<number, signers, ballots>>

Init == number = 0 /\ signers = Genesis /\ ballots = {}

(* Ballots cast before a checkpoint block lapse there.                     *)
standing == IF (number + 1) % Epoch = 0 THEN {} ELSE ballots

askers(cast, account) == {s \in signers : <<s, account>> \in cast}

(* The sealer renews or withdraws its ballot on one account.               *)
Seal(sealer, account, renew) ==
    LET withdrawn == standing \ {<<sealer, account>>}
        cast == IF renew THEN withdrawn \cup {<<sealer, account>>} ELSE withdrawn
    IN  /\ sealer \in signers
        /\ number' = number + 1
        /\ IF Majority(askers(cast, account), signers)
             THEN LET next == IF account \in signers THEN signers \ {account}
                                                     ELSE signers \cup {account}
                  IN  /\ signers' = next
                      /\ ballots' = {b \in cast : b[1] \in next /\ b[2] # account}
             ELSE signers' = signers /\ ballots' = cast

Next == \E sealer, account \in Accounts, renew \in BOOLEAN :
            Seal(sealer, account, renew)

Spec == Init /\ [][Next]_vars

=============================================================================
