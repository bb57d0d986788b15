---------------------------- MODULE CliqueEngine ----------------------------
(***************************************************************************)
(* The rules by which the clique engine (consensus/clique/clique.go)       *)
(* prepares, seals and verifies a header.  A header is identified by the   *)
(* chain it ends: a hash is the sequence of headers from block 1 on, the   *)
(* parent hash is its front and the block number its length.               *)
(*                                                                         *)
(* The vanity, the mix digest and the uncle hash are constants of every    *)
(* header and are left out; extra is the signer list of a checkpoint       *)
(* block, as a set since both sides sort it.                               *)
(***************************************************************************)
EXTENDS CliqueVoting, SequencesExt

CONSTANTS Period        \* config.Period: seconds between two blocks

ASSUME PeriodAssumption == Period \in Nat

diffInTurn == 2
diffNoTurn == 1

(* uint64 subtraction.  Word stands for 2^64: any modulus above every      *)
(* block number gives the same comparisons.                                *)
Word == 2^30
minus(a, b) == (a + Word - b) % Word

GenesisTime == 0
timeOf(chain) == IF chain = <<>> THEN GenesisTime ELSE Last(chain).time

checkpoint(number) == number % Epoch = 0

(* The snapshot at the end of a chain whose headers all pass apply.        *)
replay(chain) == FoldLeft(apply, newSnapshot, chain)

(* apply refuses a header whose signer is unknown or sealed recently.      *)
applies(base, headers) ==
    \A i \in 1 .. Len(headers) :
        LET before == FoldLeft(apply, base, SubSeq(headers, 1, i - 1))
        IN  authorized(before, before.number + 1, headers[i].signer)

-----------------------------------------------------------------------------
(* Verification.                                                           *)

(* The checks of verifyHeader that need no other header.                   *)
standalone(number, h, now) ==
    /\ h.time <= now
    /\ checkpoint(number) => h.coinbase = Zero /\ ~h.authorize
    /\ ~checkpoint(number) => h.extra = {}
    /\ h.difficulty \in {diffInTurn, diffNoTurn}

(* Mutant: the window one block too short.                                 *)
recentlySealedShort(s, number, signer) ==
    \E seen \in DOMAIN s.recents :
        /\ s.recents[seen] = signer
        /\ seen > minus(number, limit(s.signers)) + 1

recentlySealed(s, number, signer) ==
    \E seen \in DOMAIN s.recents :
        /\ s.recents[seen] = signer
        /\ seen > minus(number, limit(s.signers))

(* Mutant: the turn of the parent block decides the difficulty.            *)
calcDifficultyOfParent(s, signer) ==
    IF inturn(s, s.number, signer) THEN diffInTurn ELSE diffNoTurn

calcDifficulty(s, signer) ==
    IF inturn(s, s.number + 1, signer) THEN diffInTurn ELSE diffNoTurn

(* Mutant: the difficulty is not compared with the turn.                   *)
verifySealAnyTurn(s, number, h) ==
    h.signer \in s.signers /\ ~recentlySealed(s, number, h.signer)

verifySeal(s, number, h) ==
    /\ h.signer \in s.signers
    /\ ~recentlySealed(s, number, h.signer)
    /\ h.difficulty = IF inturn(s, number, h.signer) THEN diffInTurn ELSE diffNoTurn

(* The checks against the parent and its snapshot s.                       *)
verifyCascadingFields(parent, s, h) ==
    LET number == Len(parent) + 1
    IN  /\ timeOf(parent) + Period <= h.time
        /\ checkpoint(number) => h.extra = s.signers
        /\ verifySeal(s, number, h)

verifyHeader(parent, s, h, now) ==
    /\ standalone(Len(parent) + 1, h, now)
    /\ verifyCascadingFields(parent, s, h)

-----------------------------------------------------------------------------
(* Sealing.                                                                *)

(* The votes Prepare may choose from; with none it casts the empty vote.   *)
usefulVotes(s, proposals) ==
    LET useful == {a \in DOMAIN proposals : validVote(s, a, proposals[a])}
    IN  IF checkpoint(s.number + 1) \/ useful = {}
          THEN {[coinbase |-> Zero, authorize |-> FALSE]}
          ELSE {[coinbase |-> a, authorize |-> proposals[a]] : a \in useful}

later(a, b) == IF a < b THEN b ELSE a

(* The header Prepare fills in; its signature, and so its signer, comes    *)
(* with the seal.                                                          *)
prepare(parent, s, vote, signer, now) ==
    [signer |-> signer, coinbase |-> vote.coinbase, authorize |-> vote.authorize,
     difficulty |-> calcDifficulty(s, signer),
     time |-> later(timeOf(parent) + Period, now),
     extra |-> IF checkpoint(s.number + 1) THEN s.signers ELSE {}]

(* Seal goes ahead: the signer is authorized and need not wait.            *)
maySeal(s, number, signer) ==
    /\ signer \in s.signers
    /\ \A seen \in DOMAIN s.recents :
          s.recents[seen] = signer =>
              number >= limit(s.signers) /\ seen <= number - limit(s.signers)

=============================================================================
