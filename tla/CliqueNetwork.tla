--------------------------- MODULE CliqueNetwork ----------------------------
(***************************************************************************)
(* Several nodes that mine with the clique engine and exchange what they   *)
(* seal.  Each node prepares a header on its head, seals it in two steps   *)
(* (Clique.Seal reads the signer, then waits, then signs), imports what    *)
(* others sealed in any order and at any time, and follows the heaviest    *)
(* chain.                                                                  *)
(***************************************************************************)
EXTENDS CliqueEngine

CONSTANTS Nodes,
          Key,          \* the account a node mines with at first
          OtherKeys,    \* node |-> accounts its owner may switch to
          Motions,      \* <<node, account, authorize>> its owner may propose
          MaxTime       \* bound: the clock

VARIABLES signer,       \* Clique.signer
          proposals,    \* Clique.proposals
          work,         \* the header a node is working on, or Idle
          known,        \* the chains a node has imported
          head,         \* the chain a node follows
          sealed,       \* every chain that has been sealed and broadcast
          panicked,     \* nodes whose process has died
          now           \* wall clock, in seconds

vars == <<signer, proposals, work, known, head, sealed, panicked, now>>

Idle == [phase |-> "idle", parent |-> <<>>]

Init == /\ signer = Key
        /\ proposals = [n \in Nodes |-> [a \in {} |-> FALSE]]
        /\ work = [n \in Nodes |-> Idle]
        /\ known = [n \in Nodes |-> {<<>>}]
        /\ head = [n \in Nodes |-> <<>>]
        /\ sealed = {}
        /\ panicked = {}
        /\ now = 0

-----------------------------------------------------------------------------
(* The owner of a node.                                                    *)

(* API.Propose.                                                            *)
Propose(n, a, auth) ==
    /\ proposals' = [proposals EXCEPT ![n] = [x \in DOMAIN proposals[n] \cup {a} |->
                        IF x = a THEN auth ELSE proposals[n][x]]]
    /\ UNCHANGED <<signer, work, known, head, sealed, panicked, now>>

(* API.Discard.                                                            *)
Discard(n, a) ==
    /\ a \in DOMAIN proposals[n]
    /\ proposals' = [proposals EXCEPT ![n] = [x \in DOMAIN proposals[n] \ {a} |->
                        proposals[n][x]]]
    /\ UNCHANGED <<signer, work, known, head, sealed, panicked, now>>

(* Clique.Authorize, called by StartMining while earlier work goes on.     *)
Authorize(n, a) ==
    /\ signer[n] # a
    /\ signer' = [signer EXCEPT ![n] = a]
    /\ UNCHANGED <<proposals, work, known, head, sealed, panicked, now>>

-----------------------------------------------------------------------------
(* Mining.                                                                 *)

(* commitNewWork, on a new head or because mining is started once more:    *)
(* the work in progress is replaced and its Seal stopped.  CalcDifficulty  *)
(* divides by the number of signers.                                       *)
Prepare(n) ==
    LET s == replay(head[n]) IN
    /\ Len(head[n]) < MaxNumber
    /\ IF s.signers = {}
         THEN panicked' = panicked \cup {n} /\ UNCHANGED work
         ELSE /\ \E vote \in usefulVotes(s, proposals[n]) :
                    work' = [work EXCEPT ![n] =
                        [phase |-> "prepared", parent |-> head[n], key |-> signer[n],
                         header |-> prepare(head[n], s, vote, signer[n], now)]]
              /\ UNCHANGED panicked
    /\ UNCHANGED <<signer, proposals, known, head, sealed, now>>

(* Seal up to its wait.  A node that is no signer gives up; one that       *)
(* sealed recently waits to be stopped.                                    *)
BeginSeal(n) ==
    LET s == replay(work[n].parent) IN
    /\ work[n].phase = "prepared"
    /\ work' = [work EXCEPT
                  ![n].phase = IF maySeal(s, s.number + 1, signer[n]) THEN "sealing"
                                                                      ELSE "waiting",
                  ![n].header.signer = signer[n]]
    /\ UNCHANGED <<signer, proposals, known, head, sealed, panicked, now>>

totalDifficulty(c) == FoldLeft(LAMBDA sum, h : sum + h.difficulty, 0, c)

(* Whether WriteBlockWithState makes the chain c the new head; a tie       *)
(* between chains of one length is broken at random.                       *)
mayAdopt(current, c) ==
    IF totalDifficulty(c) # totalDifficulty(current)
      THEN {totalDifficulty(c) > totalDifficulty(current)}
    ELSE IF Len(c) # Len(current) THEN {Len(c) < Len(current)}
    ELSE {TRUE, FALSE}

(* WriteBlockWithState, for a block of the node and for an imported one.   *)
write(n, c) ==
    /\ known' = [known EXCEPT ![n] = @ \cup {c}]
    /\ \E adopt \in mayAdopt(head[n], c) :
          head' = IF adopt THEN [head EXCEPT ![n] = c] ELSE head

(* Mutant: the signer is read again after the wait.                        *)
FinishSealRereads(n) ==
    LET c == Append(work[n].parent, [work[n].header EXCEPT !.signer = signer[n]]) IN
    /\ work[n].phase = "sealing"
    /\ work[n].header.time <= now
    /\ sealed' = sealed \cup {c}
    /\ write(n, c)
    /\ work' = [work EXCEPT ![n] = [phase |-> "sealed", parent |-> work[n].parent]]
    /\ UNCHANGED <<signer, proposals, panicked, now>>

(* The wait is over: the block is signed, written and broadcast.  The      *)
(* out-of-turn delay lets any time pass.                                   *)
FinishSeal(n) ==
    LET c == Append(work[n].parent, work[n].header) IN
    /\ work[n].phase = "sealing"
    /\ work[n].header.time <= now
    /\ sealed' = sealed \cup {c}
    /\ write(n, c)
    /\ work' = [work EXCEPT ![n] = [phase |-> "sealed", parent |-> work[n].parent]]
    /\ UNCHANGED <<signer, proposals, panicked, now>>

(* A chain that is new to a node and that it accepts at a time.            *)
importable(n, c, time) ==
    /\ c \notin known[n]
    /\ Front(c) \in known[n]
    /\ applies(newSnapshot, Front(c))
    /\ verifyHeader(Front(c), replay(Front(c)), Last(c), time)

(* A node imports a block that another one sealed.                         *)
Import(n, c) ==
    /\ importable(n, c, now)
    /\ write(n, c)
    /\ UNCHANGED <<signer, proposals, work, sealed, panicked, now>>

Tick == now < MaxTime /\ now' = now + 1
        /\ UNCHANGED <<signer, proposals, work, known, head, sealed, panicked>>

Next == \/ Tick
        \/ \E n \in Nodes \ panicked :
              \/ Prepare(n) \/ BeginSeal(n) \/ FinishSeal(n)
              \/ \E c \in sealed : Import(n, c)
              \/ \E a \in OtherKeys[n] : Authorize(n, a)
              \/ \E m \in Motions : m[1] = n /\ Propose(n, m[2], m[3])
              \/ \E m \in Motions : m[1] = n /\ Discard(n, m[2])

Spec == Init /\ [][Next]_vars

-----------------------------------------------------------------------------
(* What Prepare and Seal produce on one node, every other node accepts and *)
(* can build upon, whatever was voted, imported and proposed in between,   *)
(* as long as Prepare and Seal have read the same key.                     *)
SealedBlocksVerify ==
    [][\A n \in Nodes :
          LET c == Append(work[n].parent, work[n].header)
          IN  FinishSeal(n) /\ work[n].key = work[n].header.signer =>
                 /\ applies(newSnapshot, c)
                 /\ verifyHeader(Front(c), replay(Front(c)), Last(c), now)]_vars

(* Seal keeps the key it has checked: also when the owner switches keys    *)
(* while a Seal is waiting, a block is signed only by a key that the       *)
(* snapshot of its parent lets seal it.                                    *)
SealersAuthorized == \A c \in sealed : applies(newSnapshot, c)

(* A node may still seal a block, on work it has begun or on its head with *)
(* one of its keys.                                                        *)
canSeal(n) ==
    \/ work[n].phase = "sealing"
    \/ \E key \in {signer[n]} \cup OtherKeys[n] :
          maySeal(replay(head[n]), Len(head[n]) + 1, key)

(* A sealer that is barred waits for the next block of the others, and     *)
(* there is one: the nodes are never all barred on their own heads with no *)
(* block left that one of them will import.                                *)
NeverAllWaiting ==
    \E n \in Nodes : \/ Len(head[n]) = MaxNumber
                    \/ canSeal(n)
                    \/ \E c \in sealed : importable(n, c, MaxTime)

=============================================================================
