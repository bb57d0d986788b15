-------------------------- MODULE MCCliqueNetwork ---------------------------
(* Two nodes that seal in turn and may vote a third account in, to whose   *)
(* key one of them may switch.                                             *)
EXTENDS CliqueNetwork

MCAccounts  == 0 .. 3
MCGenesis   == {1, 2}
MCNodes     == {1, 2}
MCKey       == [n \in MCNodes |-> n]
MCOtherKeys == [n \in MCNodes |-> IF n = 1 THEN {3} ELSE {}]
MCMotions   == {<<1, 3, TRUE>>, <<2, 3, TRUE>>}

=============================================================================
