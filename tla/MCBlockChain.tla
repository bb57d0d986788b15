---------------------------- MODULE MCBlockChain ----------------------------
(***************************************************************************)
(* A chain a1 a2 a3, a fork b1 b2 b3 of it from genesis: lighter at b1, as *)
(* heavy at b2, heavier at b3, and a sibling d2 of a2 that is heavier than *)
(* a2 and lighter than a3.  The transaction t moves between the forks, u   *)
(* is in the first one only.                                               *)
(***************************************************************************)
EXTENDS BlockChain

CONSTANTS g, a1, a2, a3, b1, b2, b3, d2, t, u

MCBlocks == {a1, a2, a3, b1, b2, b3, d2}
MCParent == [b \in MCBlocks |-> CASE b \in {a1, b1} -> g [] b \in {a2, d2} -> a1
                                  [] b = a3 -> a2 [] b = b2 -> b1 [] b = b3 -> b2]
MCNumber == [b \in MCBlocks \cup {g} |-> CASE b = g -> 0 [] b \in {a1, b1} -> 1
                                           [] b \in {a2, b2, d2} -> 2 [] OTHER -> 3]
MCDifficulty == [b \in MCBlocks \cup {g} |-> IF b \in {b1, a2} THEN 1 ELSE IF b = b3 THEN 3 ELSE 2]
(* The difficulties of clique: a1 is in turn, the fork is not.             *)
MCTurnDifficulty == [b \in MCBlocks \cup {g} |-> IF b = a1 THEN 2 ELSE 1]
MCTxs == [b \in MCBlocks \cup {g} |-> CASE b \in {a1, b2} -> {t} [] b \in {a2, d2} -> {u}
                                        [] OTHER -> {}]

(* The two forks compete, one block ahead of the clock and one mined.      *)
Forks == [blocks |-> {a1, a2, a3, b1, b2, b3}, early |-> {b1}, mined |-> {a2},
          rewinds |-> {}, crashes |-> {}]
(* The node is killed between operations.                                  *)
Killed == [blocks |-> {a1, a2, a3, d2}, early |-> {}, mined |-> {}, rewinds |-> {},
           crashes |-> {"between"}]
(* The node is killed between operations and rewound.                      *)
Restarts == [blocks |-> {a1, a2, a3, d2}, early |-> {}, mined |-> {},
             rewinds |-> {1}, crashes |-> {"between"}]
(* The node is rewound to genesis while it imports and mines.              *)
Rewound == [blocks |-> {a1, a2, a3}, early |-> {}, mined |-> {d2},
            rewinds |-> {0}, crashes |-> {}]
(* A chain without forks; the node is killed at any time.                  *)
Line == [blocks |-> {a1, a2, a3}, early |-> {}, mined |-> {}, rewinds |-> {},
         crashes |-> {"between", "within"}]
(* A fork, and the states a crash would leave.                             *)
Torn == [blocks |-> {a1, a2, a3, d2}, early |-> {}, mined |-> {}, rewinds |-> {}, crashes |-> {}]

(* A fork that becomes longer than the chain of the head.                  *)
Outgrown == [blocks |-> {a1, b1, b2}, early |-> {}, mined |-> {}, rewinds |-> {}, crashes |-> {}]

MCScenarios == {Forks, Killed, Restarts, Rewound, Line}
MCTorn == {Torn}
MCOutgrown == {Outgrown}
=============================================================================
