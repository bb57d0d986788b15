---------------------------- MODULE CliqueVoting ----------------------------
(***************************************************************************)
(* The authorization voting of the clique proof-of-authority engine        *)
(* (consensus/clique/snapshot.go): who may seal, what votes are pending    *)
(* and how a header changes both.                                          *)
(*                                                                         *)
(* Addresses are natural numbers: bytes.Compare on 20-byte addresses is    *)
(* the order of the numbers they encode, and the zero address is 0.        *)
(* A Go map entry that is absent reads as the zero value, so Tally is a    *)
(* total function whose zero value [authorize |-> FALSE, votes |-> 0]      *)
(* stands for "no entry".  Vote.Block is unique per header, so the list    *)
(* Votes, which is always in block order, is the set of its elements.      *)
(***************************************************************************)
EXTENDS Integers, FiniteSets

CONSTANTS Accounts,     \* every address a header may name, the zero one included
          Genesis,      \* the signers listed in the genesis block's extra-data
          Epoch,        \* config.Epoch: blocks after which pending votes lapse
          MaxNumber     \* bound: the last block number explored

ASSUME AccountsAssumption == /\ IsFiniteSet(Accounts)
                             /\ Accounts \subseteq Nat
                             /\ 0 \in Accounts
ASSUME GenesisAssumption  == Genesis \subseteq Accounts \ {0}
ASSUME EpochAssumption    == Epoch \in Nat \ {0}
ASSUME NumberAssumption   == MaxNumber \in Nat

Zero == 0

Vote == [signer : Accounts, block : Nat, address : Accounts, authorize : BOOLEAN]

Tally == [authorize : BOOLEAN, votes : Nat]

NoTally == [authorize |-> FALSE, votes |-> 0]

Snapshot == [number : Nat, signers : SUBSET Accounts,
             recents : UNION {[D -> Accounts] : D \in SUBSET (1 .. MaxNumber)},
             votes : SUBSET Vote, tally : [Accounts -> Tally]]

(* What apply reads of a header: the recovered signer, the account voted   *)
(* on and the nonce, TRUE for nonceAuthVote and FALSE for nonceDropVote.   *)
Header == [signer : Accounts \ {Zero}, coinbase : Accounts, authorize : BOOLEAN]

newSnapshot ==
    [number |-> 0, signers |-> Genesis, recents |-> [n \in {} |-> Zero],
     votes |-> {}, tally |-> [a \in Accounts |-> NoTally]]

(* Mutant: the window one block too long.                                  *)
limitTooLong(signers) == (Cardinality(signers) \div 2) + 2

(* Of the last limit blocks a signer may have sealed at most one.          *)
limit(signers) == (Cardinality(signers) \div 2) + 1

-----------------------------------------------------------------------------
(* Votes and their cached count.                                           *)

validVote(s, address, authorize) ==
    \/ address \in s.signers /\ ~authorize
    \/ address \notin s.signers /\ authorize

cast(s, address, authorize) ==
    LET old == s.tally[address]
        new == IF old.votes > 0
                 THEN [authorize |-> old.authorize, votes |-> old.votes + 1]
                 ELSE [authorize |-> authorize, votes |-> 1]
    IN  [s EXCEPT !.tally = [s.tally EXCEPT ![address] = new]]

(* The tally left when n matching votes are reverted.                      *)
revert(old, n) ==
    IF old.votes > n THEN [authorize |-> old.authorize, votes |-> old.votes - n]
                     ELSE NoTally

uncast(s, address, authorize) ==
    LET old == s.tally[address]
    IN  IF old.votes = 0 \/ old.authorize # authorize
          THEN s
          ELSE [s EXCEPT !.tally = [s.tally EXCEPT ![address] = revert(old, 1)]]

(* uncast called once for each vote of a set.                              *)
uncastAll(s, gone) ==
    [s EXCEPT !.tally = [a \in Accounts |->
        LET n == Cardinality({v \in gone : v.address = a
                                        /\ v.authorize = s.tally[a].authorize})
        IN  IF n = 0 THEN s.tally[a] ELSE revert(s.tally[a], n)]]

-----------------------------------------------------------------------------
(* The stages of apply, in the order of the code.                          *)

forget(recents, n) == [k \in DOMAIN recents \ {n} |-> recents[k]]

shiftRecents(s, number) ==
    IF number >= limit(s.signers)
      THEN [s EXCEPT !.recents = forget(@, number - limit(s.signers))]
      ELSE s

(* Mutant: pending votes survive a checkpoint block.                       *)
openBlockNoReset(s, number) == shiftRecents(s, number)

(* A checkpoint block drops every pending vote.                            *)
openBlock(s, number) ==
    shiftRecents(IF number % Epoch = 0
                   THEN [s EXCEPT !.votes = {}, !.tally = [a \in Accounts |-> NoTally]]
                   ELSE s,
                 number)

(* The header passes the authorization checks of apply.                    *)
authorized(s, number, signer) ==
    LET o == openBlock(s, number)
    IN  /\ signer \in o.signers
        /\ \A n \in DOMAIN o.recents : o.recents[n] # signer

(* Mutant: the sealer is recorded under its parent's number.               *)
recordSignerAtParent(s, number, signer) ==
    [s EXCEPT !.recents = [k \in DOMAIN @ \cup {number - 1} |->
                              IF k = number - 1 THEN signer ELSE @[k]]]

recordSigner(s, number, signer) ==
    [s EXCEPT !.recents =
        [k \in DOMAIN @ \cup {number} |-> IF k = number THEN signer ELSE @[k]]]

(* Mutant: the vote leaves the list and stays in the tally.                *)
discardPreviousNoUncast(s, h) ==
    [s EXCEPT !.votes = {v \in @ : v.signer # h.signer \/ v.address # h.coinbase}]

(* The first earlier vote of the signer on the same account is withdrawn.  *)
discardPrevious(s, h) ==
    LET old == {v \in s.votes : v.signer = h.signer /\ v.address = h.coinbase}
    IN  IF old = {}
          THEN s
          ELSE LET first == CHOOSE v \in old : \A w \in old : v.block <= w.block
               IN  [uncast(s, first.address, first.authorize)
                       EXCEPT !.votes = @ \ {first}]

tallyVote(s, number, h) ==
    IF validVote(s, h.coinbase, h.authorize)
      THEN [cast(s, h.coinbase, h.authorize) EXCEPT !.votes = @ \cup
               {[signer |-> h.signer, block |-> number,
                 address |-> h.coinbase, authorize |-> h.authorize]}]
      ELSE s

(* Mutant: the window of recent sealers is not shortened.                  *)
dropSignerNoShift(s, number, address) ==
    LET gone == {v \in s.votes : v.signer = address}
    IN  [uncastAll([s EXCEPT !.signers = @ \ {address}], gone)
            EXCEPT !.votes = @ \ gone]

(* Mutant: the removed signer's votes stay.                                *)
dropSignerKeepVotes(s, number, address) ==
    shiftRecents([s EXCEPT !.signers = @ \ {address}], number)

dropSigner(s, number, address) ==
    LET shrunk == shiftRecents([s EXCEPT !.signers = @ \ {address}], number)
        gone   == {v \in s.votes : v.signer = address}
    IN  [uncastAll(shrunk, gone) EXCEPT !.votes = @ \ gone]

changeSigner(s, number, address) ==
    LET changed == IF s.tally[address].authorize
                     THEN [s EXCEPT !.signers = @ \cup {address}]
                     ELSE dropSigner(s, number, address)
    IN  [changed EXCEPT !.votes = {v \in changed.votes : v.address # address},
                        !.tally = [changed.tally EXCEPT ![address] = NoTally]]

(* Mutant: half of the signers suffice.                                    *)
passedAtHalf(s, address) == s.tally[address].votes >= Cardinality(s.signers) \div 2

passed(s, address) == s.tally[address].votes > Cardinality(s.signers) \div 2

apply(s, h) ==
    LET number  == s.number + 1
        sealed  == recordSigner(openBlock(s, number), number, h.signer)
        counted == tallyVote(discardPrevious(sealed, h), number, h)
        decided == IF passed(counted, h.coinbase)
                     THEN changeSigner(counted, number, h.coinbase)
                     ELSE counted
    IN  [decided EXCEPT !.number = number]

(* Whether signer is the preferred sealer of a block.  The code divides by *)
(* the number of signers, so a caller must exclude an empty list.          *)
inturn(s, number, signer) ==
    LET offset == IF signer \in s.signers
                    THEN Cardinality({a \in s.signers : a < signer})
                    ELSE Cardinality(s.signers)
    IN  number % Cardinality(s.signers) = offset

=============================================================================
