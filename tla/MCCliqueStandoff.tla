-------------------------- MODULE MCCliqueStandoff --------------------------
(* Four signers.  Only the executions in which two forks of equal weight   *)
(* arise are explored.                                                     *)
EXTENDS CliqueNetwork

MCAccounts  == 0 .. 4
MCGenesis   == 1 .. 4
MCNodes     == 1 .. 4
MCKey       == [n \in MCNodes |-> n]
MCOtherKeys == [n \in MCNodes |-> {}]
MCMotions   == {}

sealers(c) == [i \in 1 .. Len(c) |-> c[i].signer]

TwoForks ==
    /\ \A c \in sealed : sealers(c) \in {<<1>>, <<1, 2>>, <<3>>, <<3, 4>>}
    /\ \A n \in {1, 2} : sealers(head[n]) \in {<<>>, <<1>>, <<1, 2>>}
    /\ \A n \in {3, 4} : sealers(head[n]) \in {<<>>, <<3>>, <<3, 4>>}

=============================================================================
