--------------------------- MODULE CliqueSnapshot ---------------------------
(***************************************************************************)
(* One chain of headers, each applied to the snapshot of its parent: what  *)
(* holds of the snapshots that consensus/clique/snapshot.go computes.      *)
(***************************************************************************)
EXTENDS CliqueVoting

VARIABLE snap

(* The standalone checks of verifyHeader on the fields apply reads: a      *)
(* checkpoint block carries no vote.                                       *)
wellFormed(number, h) ==
    number % Epoch = 0 => h.coinbase = Zero /\ ~h.authorize

Init == snap = newSnapshot

Apply(h) ==
    /\ snap.number < MaxNumber
    /\ wellFormed(snap.number + 1, h)
    /\ authorized(snap, snap.number + 1, h.signer)
    /\ snap' = apply(snap, h)

Next == \E h \in Header : Apply(h)

Spec == Init /\ [][Next]_snap

-----------------------------------------------------------------------------
(* Every field of the snapshot keeps the type snapshot.go declares for it. *)
TypeOK == snap \in Snapshot

votesDistinct(s) ==
    /\ \A v \in s.votes : v.signer \in s.signers
    /\ \A v, w \in s.votes :
          v.signer = w.signer /\ v.address = w.address => v = w

(* apply discards the signer's earlier vote on an account before it counts *)
(* a new one and drops a removed signer's votes, so no vote is counted     *)
(* twice and none outlives the right of its author to vote.                *)
VotesByDistinctSigners == votesDistinct(snap)

about(s, address) == {v \in s.votes : v.address = address}

tallyAgrees(s) ==
    \A a \in Accounts :
        /\ s.tally[a].votes = Cardinality(about(s, a))
        /\ about(s, a) # {} => s.tally[a].authorize = (a \notin s.signers)
        /\ \A v \in about(s, a) : v.authorize = (a \notin s.signers)

(* The cached Tally agrees with the list Votes: for every account it holds *)
(* the number of pending votes, all of which ask for the one change that   *)
(* is possible, adding an outsider or removing a signer.                   *)
TallyFaithful == tallyAgrees(snap)

recentsSpread(s) ==
    /\ \A n \in DOMAIN s.recents :
          s.number - limit(s.signers) < n /\ n <= s.number
    /\ \A m, n \in DOMAIN s.recents : s.recents[m] = s.recents[n] => m = n

(* Recents holds only blocks of the last limit ones, and no signer twice:  *)
(* a signer that sealed one of them cannot have sealed another, also after *)
(* the signer set, and with it limit, has grown or shrunk.                 *)
RecentsSpread == recentsSpread(snap)

(* Unless every signer has been voted out, some signer is allowed to seal  *)
(* the next block: the recent-signer rule never stops the chain.           *)
SomeoneMaySeal ==
    snap.signers # {} =>
        \E a \in snap.signers : authorized(snap, snap.number + 1, a)

(* More than half of the signers.                                          *)
strictMajority(some, all) == 2 * Cardinality(some) > Cardinality(all)

(* The signers that ask for the change of account a when header h is       *)
(* counted.  A pending vote stands unless h is a checkpoint block; what    *)
(* the sealer of h said of its coinbase before is replaced by what h says. *)
askers(s, h, a) ==
    {p \in s.signers :
        IF p = h.signer /\ a = h.coinbase
          THEN validVote(s, a, h.authorize)
          ELSE /\ (s.number + 1) % Epoch # 0
               /\ \E v \in about(s, a) : v.signer = p}

(* An account joins or leaves the signers only in a block that names it,   *)
(* and only if more than half of the signers of that moment ask for it,    *)
(* with votes that have neither lapsed nor been withdrawn.  The sealer of  *)
(* the block need not be among them: a block that votes against a removal  *)
(* still carries it out when the list has become short enough for the      *)
(* votes of the others.                                                    *)
MajorityRule ==
    [][\A a \in Accounts :
          (a \in snap.signers) # (a \in snap'.signers) =>
              \E h \in Header : /\ h.coinbase = a /\ Apply(h)
                                /\ strictMajority(askers(snap, h, a), snap.signers)]_snap

Electorate == INSTANCE CliqueElectorate
                WITH Majority <- strictMajority,
                     number <- snap.number, signers <- snap.signers,
                     ballots <- {<<v.signer, v.address>> : v \in snap.votes}

(* Seen from outside, the vote list and the tally of snapshot.go are a     *)
(* plain electorate: one ballot per signer and account, decided by a       *)
(* strict majority of the current signers when the account is voted on.    *)
ImplementsElectorate == Electorate!Spec

=============================================================================
