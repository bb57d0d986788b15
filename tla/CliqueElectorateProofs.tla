----------------------- MODULE CliqueElectorateProofs -----------------------
(***************************************************************************)
(* The vote list, the tally and the stages of apply implement the plain    *)
(* electorate, for any accounts, genesis signers and epoch length.         *)
(***************************************************************************)
EXTENDS CliqueSnapshotProofs

(* A pending vote as the ballot it stands for.                             *)
ballotsOf(votes) == {<<v.signer, v.address>> : v \in votes}

askersOf(s, given, a) == {p \in s.signers : <<p, a>> \in given}

-----------------------------------------------------------------------------
(* The pending votes after each stage of apply.                            *)

(* openBlock clears the votes at a checkpoint and keeps them elsewhere.    *)
LEMMA OpenVotes ==
  ASSUME NEW s \in Snapshot, NEW number \in Nat
  PROVE  openBlock(s, number).votes = IF number % Epoch = 0 THEN {} ELSE s.votes
  <1> DEFINE e == IF number % Epoch = 0
                    THEN [s EXCEPT !.votes = {}, !.tally = [a \in Accounts |-> NoTally]]
                    ELSE s
  <1>1. e \in Snapshot /\ e.votes = IF number % Epoch = 0 THEN {} ELSE s.votes
    BY DEF Snapshot, Tally, NoTally
  <1>2. openBlock(s, number) = shiftRecents(e, number)
    BY DEF openBlock
  <1> HIDE DEF e
  <1>3. PICK r \in Recents : shiftRecents(e, number) = [e EXCEPT !.recents = r]
    BY <1>1, ShiftType
  <1> QED  BY <1>1, <1>2, <1>3 DEF Snapshot

(* tallyVote adds the header's vote when it asks for a possible change.    *)
LEMMA TallyVotes ==
  ASSUME NEW s \in Snapshot, NEW number \in Nat, NEW h \in Header
  PROVE  ballotsOf(tallyVote(s, number, h).votes) =
           IF validVote(s, h.coinbase, h.authorize)
             THEN ballotsOf(s.votes) \cup {<<h.signer, h.coinbase>>}
             ELSE ballotsOf(s.votes)
  <1> DEFINE new == [signer |-> h.signer, block |-> number,
                     address |-> h.coinbase, authorize |-> h.authorize]
             c == cast(s, h.coinbase, h.authorize)
  <1>1. CASE validVote(s, h.coinbase, h.authorize)
    <2>1. tallyVote(s, number, h) = [c EXCEPT !.votes = c.votes \cup {new}]
      BY <1>1 DEF tallyVote
    <2>2. c.votes = s.votes /\ c = [s EXCEPT !.tally = c.tally]
      BY DEF cast, Snapshot
    <2>3. tallyVote(s, number, h).votes = s.votes \cup {new}
      <3> HIDE DEF c, new
      <3> QED  BY <2>1, <2>2 DEF Snapshot
    <2>4. new.signer = h.signer /\ new.address = h.coinbase
      OBVIOUS
    <2> HIDE DEF new
    <2> QED  BY <1>1, <2>3, <2>4 DEF ballotsOf
  <1>2. CASE ~validVote(s, h.coinbase, h.authorize)
    BY <1>2 DEF tallyVote
  <1> QED  BY <1>1, <1>2

(* The tally of an account counts the signers that hold a ballot on it.    *)
LEMMA CountAskers ==
  ASSUME NEW s, VInv(s), NEW a \in Accounts
  PROVE  /\ s.tally[a].votes = Cardinality(askersOf(s, ballotsOf(s.votes), a))
         /\ s.tally[a].votes \in Nat
  <1> DEFINE A == about(s, a)
             Q == askersOf(s, ballotsOf(s.votes), a)
             f == [v \in A |-> v.signer]
  <1>1. IsFiniteSet(A) /\ s.tally[a].votes = Cardinality(A)
    BY FS_Subset DEF VInv, tallyAgrees, about
  <1>2. \A v \in A : v \in s.votes /\ v.address = a /\ v.signer \in s.signers
    BY DEF VInv, votesDistinct, about
  <1>3. f \in [A -> Q]
    BY <1>2 DEF askersOf, ballotsOf
  <1>4. \A v, w \in A : f[v] = f[w] => v = w
    BY <1>2 DEF VInv, votesDistinct
  <1>5. \A p \in Q : \E v \in A : f[v] = p
    BY DEF askersOf, ballotsOf, about
  <1> HIDE DEF A, Q, f
  <1>6. f \in Surjection(A, Q) /\ f \in Injection(A, Q)
    BY <1>3, <1>4, <1>5 DEF Surjection, Injection, IsInjective
  <1>7. Cardinality(Q) = Cardinality(A)
    BY <1>1, <1>6, FS_Surjection
  <1>8. Cardinality(A) \in Nat
    BY <1>1, FS_CardinalityType
  <1> QED  BY <1>1, <1>7, <1>8 DEF Q

(* An account is flipped, and the votes of signers on other accounts stay. *)
Flips(s, c, a) ==
    /\ c.signers = IF a \in s.signers THEN s.signers \ {a} ELSE s.signers \cup {a}
    /\ c.votes = {v \in s.votes : v.signer \in c.signers /\ v.address # a}

(* changeSigner does that for an account whose change has been decided.    *)
LEMMA ChangeVotes ==
  ASSUME NEW s, VInv(s), NEW number \in Nat, NEW a \in Accounts, passed(s, a)
  PROVE  Flips(s, changeSigner(s, number, a), a)
  <1> DEFINE c == changeSigner(s, number, a)
             p == [s EXCEPT !.signers = s.signers \cup {a}]
             d == dropSigner(s, number, a)
             e == IF s.tally[a].authorize THEN p ELSE d
             w == {v \in e.votes : v.address # a}
             t == [e.tally EXCEPT ![a] = NoTally]
  <1>0. s \in Snapshot /\ votesDistinct(s) /\ s.signers \in SUBSET Accounts
    BY Fields DEF VInv
  <1>1. s.tally[a].authorize = (a \notin s.signers)
    <2>1. s.tally[a].votes > 0
      BY <1>0, LimitType, CountAskers DEF passed
    <2>2. /\ s.tally[a].votes = Cardinality(about(s, a))
          /\ about(s, a) # {} => s.tally[a].authorize = (a \notin s.signers)
      BY DEF VInv, tallyAgrees
    <2>3. about(s, a) # {}
      BY <2>1, <2>2, FS_EmptySet
    <2> QED  BY <2>2, <2>3
  <1>2. c = [e EXCEPT !.votes = w, !.tally = t]
    BY DEF changeSigner
  <1>3. p \in Snapshot /\ p.signers = s.signers \cup {a} /\ p.votes = s.votes
    BY <1>0 DEF Snapshot
  <1>4. /\ d \in Snapshot /\ d.number = s.number /\ d.signers = s.signers \ {a}
        /\ d.votes = {v \in s.votes : v.signer # a}
        /\ d.recents = shiftRecents([s EXCEPT !.signers = s.signers \ {a}], number).recents
        /\ \A b \in Accounts :
              /\ d.tally[b].votes = Cardinality(about(d, b))
              /\ about(d, b) # {} => d.tally[b].authorize = s.tally[b].authorize
    BY DropInv
  <1> HIDE DEF p, d
  <1>5. /\ e \in Snapshot
        /\ e.signers = IF a \in s.signers THEN s.signers \ {a} ELSE s.signers \cup {a}
    BY <1>1, <1>3, <1>4
  <1>6. e.votes = {v \in s.votes : v.signer \in e.signers}
    BY <1>0, <1>1, <1>3, <1>4 DEF votesDistinct
  <1> HIDE DEF e
  <1>7. c.signers = e.signers /\ c.votes = w
    <2> HIDE DEF w, t
    <2> QED  BY <1>2, <1>5 DEF Snapshot
  <1> HIDE DEF c
  <1>8. Flips(s, c, a)
    BY <1>5, <1>6, <1>7 DEF Flips
  <1> QED  BY <1>8 DEF c

-----------------------------------------------------------------------------
(* A header on a snapshot is a step of the electorate.                     *)

(* What Seal of the electorate says of two snapshots.                      *)
Elects(s, x, sealer, account, renew) ==
    LET standing  == IF (s.number + 1) % Epoch = 0 THEN {} ELSE ballotsOf(s.votes)
        withdrawn == standing \ {<<sealer, account>>}
        given     == IF renew THEN withdrawn \cup {<<sealer, account>>} ELSE withdrawn
    IN  /\ sealer \in s.signers
        /\ x.number = s.number + 1
        /\ IF strictMajority(askersOf(s, given, account), s.signers)
             THEN LET next == IF account \in s.signers THEN s.signers \ {account}
                                                       ELSE s.signers \cup {account}
                  IN  /\ x.signers = next
                      /\ ballotsOf(x.votes) = {b \in given : b[1] \in next /\ b[2] # account}
             ELSE x.signers = s.signers /\ ballotsOf(x.votes) = given

(* apply, with its vote list and tally, does what the electorate does.     *)
LEMMA ApplyElects ==
  ASSUME NEW s, IInv(s), s.number < MaxNumber, NEW h \in Header,
         authorized(s, s.number + 1, h.signer)
  PROVE  Elects(s, apply(s, h), h.signer, h.coinbase,
                validVote(s, h.coinbase, h.authorize))
  <1> DEFINE number == s.number + 1
             a == h.coinbase
             renew == validVote(s, a, h.authorize)
             o == openBlock(s, number)
             r == recordSigner(o, number, h.signer)
             d == discardPrevious(r, h)
             c == tallyVote(d, number, h)
             e == IF passed(c, a) THEN changeSigner(c, number, a) ELSE c
             x == apply(s, h)
             standing == IF number % Epoch = 0 THEN {} ELSE ballotsOf(s.votes)
             withdrawn == standing \ {<<h.signer, a>>}
             ballots == IF renew THEN withdrawn \cup {<<h.signer, a>>} ELSE withdrawn
  <1>0. s \in Snapshot /\ VInv(s) /\ s.number \in Nat /\ s.signers \in SUBSET Accounts
    BY Fields DEF IInv, VInv
  <1>1. number \in Nat /\ number \in 1 .. MaxNumber
    BY <1>0, NumberAssumption
  <1>2. h.signer \in Accounts /\ a \in Accounts /\ h.authorize \in BOOLEAN
    BY DEF Header
  <1>3. x = [e EXCEPT !.number = number]
    BY DEF apply
  <1>4. VInv(o) /\ o.signers = s.signers /\ h.signer \in s.signers
    BY <1>0, <1>1, OpenInv DEF authorized
  <1>5. ballotsOf(o.votes) = standing
    BY <1>0, <1>1, OpenVotes DEF ballotsOf
  <1> HIDE DEF number, o, standing, renew
  <1>6. VInv(r) /\ r.signers = s.signers /\ r.votes = o.votes
    BY <1>1, <1>2, <1>4, RecordInv DEF SameVotes
  <1> HIDE DEF r
  <1>7. /\ VInv(d) /\ d.signers = s.signers
        /\ d.votes = {v \in o.votes : v.signer # h.signer \/ v.address # a}
    BY <1>6, DiscardInv
  <1>8. ballotsOf(d.votes) = withdrawn
    <2>1. ballotsOf(d.votes) = ballotsOf(o.votes) \ {<<h.signer, a>>}
      BY <1>7 DEF ballotsOf
    <2> QED  BY <1>5, <2>1
  <1> HIDE DEF d, withdrawn, a
  <1>9. VInv(c) /\ c.signers = s.signers
    BY <1>1, <1>4, <1>7, TallyInv DEF a
  <1>10. ballotsOf(c.votes) = ballots
    <2>1. validVote(d, a, h.authorize) <=> renew
      BY <1>7 DEF validVote, renew
    <2>2. d \in Snapshot
      BY <1>7 DEF VInv
    <2>3. ballotsOf(c.votes) = IF validVote(d, a, h.authorize)
                                 THEN ballotsOf(d.votes) \cup {<<h.signer, a>>}
                                 ELSE ballotsOf(d.votes)
      BY <1>1, <2>2, TallyVotes DEF a
    <2> QED  BY <1>8, <2>1, <2>3
  <1> HIDE DEF c, ballots
  <1>11. passed(c, a) <=> strictMajority(askersOf(s, ballots, a), s.signers)
    <2>1. askersOf(c, ballots, a) = askersOf(s, ballots, a)
      BY <1>9 DEF askersOf
    <2>2. /\ c.tally[a].votes = Cardinality(askersOf(s, ballots, a))
          /\ c.tally[a].votes \in Nat
      BY <1>2, <1>9, <1>10, <2>1, CountAskers
    <2>3. Cardinality(s.signers) \in Nat
      BY <1>0, LimitType
    <2> DEFINE k == c.tally[a].votes
               m == Cardinality(s.signers)
    <2>4. k > m \div 2 <=> 2 * k > m
      <3> HIDE DEF k, m
      <3>1. k \in Nat /\ m \in Nat
        BY <2>2, <2>3 DEF k, m
      <3> QED  BY <3>1
    <2> QED  BY <1>9, <2>2, <2>4 DEF passed, strictMajority
  <1>12. CASE passed(c, a)
    <2> DEFINE next == IF a \in s.signers THEN s.signers \ {a} ELSE s.signers \cup {a}
    <2>1. e.signers = next /\ e.votes = {v \in c.votes : v.signer \in next /\ v.address # a}
      <3>1. e = changeSigner(c, number, a)
        BY <1>12
      <3> HIDE DEF e
      <3>2. Flips(c, e, a)
        BY <1>1, <1>2, <1>9, <1>12, <3>1, ChangeVotes
      <3> QED  BY <1>9, <3>2 DEF Flips
    <2>2. VInv(e)
      BY <1>1, <1>2, <1>9, <1>12, ChangeInv
    <2> HIDE DEF e
    <2>3. x.signers = e.signers /\ x.votes = e.votes /\ x.number = number
      BY <1>3, <2>2 DEF VInv, Snapshot
    <2>4. ballotsOf(x.votes) = {b \in ballots : b[1] \in next /\ b[2] # a}
      <3> HIDE DEF next
      <3> QED  BY <1>10, <2>1, <2>3 DEF ballotsOf
    <2> HIDE DEF x
    <2> QED  BY <1>4, <1>11, <1>12, <2>1, <2>3, <2>4
             DEF Elects, ballots, withdrawn, standing, number, renew, a, x
  <1>13. CASE ~passed(c, a)
    <2>1. e = c
      BY <1>13
    <2> HIDE DEF e
    <2>2. x.signers = s.signers /\ x.votes = c.votes /\ x.number = number
      BY <1>3, <1>9, <2>1 DEF VInv, Snapshot
    <2> HIDE DEF x
    <2> QED  BY <1>4, <1>10, <1>11, <1>13, <2>2
             DEF Elects, ballots, withdrawn, standing, number, renew, a, x
  <1> QED  BY <1>12, <1>13

(* Seen from outside, snapshot.go is a plain electorate: every header that *)
(* apply accepts is a step of it, and nothing else changes it.             *)
THEOREM Refinement == Spec => ImplementsElectorate
  <1>1. Init => Electorate!Init
    BY DEF Init, newSnapshot, Electorate!Init
  <1>2. Inv /\ [Next]_snap => [Electorate!Next]_(Electorate!vars)
    <2> SUFFICES ASSUME IInv(snap), [Next]_snap
                 PROVE  [Electorate!Next]_(Electorate!vars)
      BY DEF Inv
    <2>1. ASSUME NEW h \in Header, Apply(h)
          PROVE  Electorate!Next
      <3> DEFINE renew == validVote(snap, h.coinbase, h.authorize)
      <3>1. Elects(snap, snap', h.signer, h.coinbase, renew)
        BY <2>1, ApplyElects DEF Apply
      <3>2. h.signer \in Accounts /\ h.coinbase \in Accounts /\ renew \in BOOLEAN
        BY DEF Header, validVote
      <3> HIDE DEF renew
      <3>3. PICK r \in BOOLEAN : r = renew
        BY <3>2
      <3>4. Electorate!Seal(h.signer, h.coinbase, r)
        BY <3>1, <3>3 DEF Elects, Electorate!Seal, Electorate!standing, Electorate!askers,
                    askersOf, ballotsOf
      <3> QED  BY <3>2, <3>4 DEF Electorate!Next
    <2>2. CASE UNCHANGED snap
      BY <2>2 DEF Electorate!vars
    <2> QED  BY <2>1, <2>2 DEF Next
  <1> QED  BY <1>1, <1>2, Invariance, PTL DEF Spec, ImplementsElectorate, Electorate!Spec

-----------------------------------------------------------------------------
(* Who asks for a change.                                                  *)

(* The signers that MajorityRule counts are those that hold a ballot on    *)
(* the account of the header once the header's own vote is counted.        *)
LEMMA AskersBallots ==
  ASSUME NEW s, IInv(s), NEW h \in Header
  PROVE  LET standing  == IF (s.number + 1) % Epoch = 0 THEN {} ELSE ballotsOf(s.votes)
             withdrawn == standing \ {<<h.signer, h.coinbase>>}
             given     == IF validVote(s, h.coinbase, h.authorize)
                            THEN withdrawn \cup {<<h.signer, h.coinbase>>} ELSE withdrawn
         IN  askers(s, h, h.coinbase) = askersOf(s, given, h.coinbase)
  <1> DEFINE a == h.coinbase
             lapsed == (s.number + 1) % Epoch = 0
             renew == validVote(s, a, h.authorize)
             standing == IF lapsed THEN {} ELSE ballotsOf(s.votes)
             withdrawn == standing \ {<<h.signer, a>>}
             given == IF renew THEN withdrawn \cup {<<h.signer, a>>} ELSE withdrawn
  <1>1. ASSUME NEW p \in s.signers
        PROVE  /\ <<p, a>> \in standing <=> ~lapsed /\ \E v \in about(s, a) : v.signer = p
               /\ <<p, a>> = <<h.signer, a>> <=> p = h.signer
    BY DEF ballotsOf, about
  <1> HIDE DEF a, lapsed, renew, standing
  <1>2. ASSUME NEW p \in s.signers
        PROVE  <<p, a>> \in given <=>
                 IF p = h.signer THEN renew
                                 ELSE ~lapsed /\ \E v \in about(s, a) : v.signer = p
    BY <1>1
  <1>3. askers(s, h, a) =
          {p \in s.signers : IF p = h.signer THEN renew
                             ELSE ~lapsed /\ \E v \in about(s, a) : v.signer = p}
    BY DEF askers, a, lapsed, renew
  <1> HIDE DEF given
  <1>4. askers(s, h, a) = askersOf(s, given, a)
    BY <1>2, <1>3 DEF askersOf
  <1> QED  BY <1>4 DEF a, lapsed, renew, standing, given

(* The signer list changes only in a block that names the account, and     *)
(* only if more than half of the signers ask for it at that moment with    *)
(* votes that stand, whatever was cast, withdrawn, decided and dropped     *)
(* before.                                                                 *)
THEOREM MajorityTheorem == Spec => MajorityRule
  <1> DEFINE Rule ==
        \A a \in Accounts :
          (a \in snap.signers) # (a \in snap'.signers) =>
              \E h \in Header : /\ h.coinbase = a /\ Apply(h)
                                /\ strictMajority(askers(snap, h, a), snap.signers)
  <1>1. Inv /\ [Next]_snap => [Rule]_snap
    <2> SUFFICES ASSUME IInv(snap), NEW h \in Header, Apply(h),
                        NEW a \in Accounts, (a \in snap.signers) # (a \in snap'.signers)
                 PROVE  /\ h.coinbase = a
                        /\ strictMajority(askers(snap, h, a), snap.signers)
      BY DEF Inv, Next
    <2> DEFINE renew == validVote(snap, h.coinbase, h.authorize)
               standing == IF (snap.number + 1) % Epoch = 0 THEN {} ELSE ballotsOf(snap.votes)
               withdrawn == standing \ {<<h.signer, h.coinbase>>}
               given == IF renew THEN withdrawn \cup {<<h.signer, h.coinbase>>} ELSE withdrawn
    <2>1. Elects(snap, snap', h.signer, h.coinbase, renew)
      BY ApplyElects DEF Apply
    <2>2. a = h.coinbase /\ strictMajority(askersOf(snap, given, a), snap.signers)
      BY <2>1 DEF Elects
    <2>3. askers(snap, h, h.coinbase) = askersOf(snap, given, h.coinbase)
      BY AskersBallots
    <2> QED  BY <2>2, <2>3
  <1> HIDE DEF Rule
  <1>2. Spec => [][Rule]_snap
    BY <1>1, Invariance, PTL DEF Spec
  <1> QED  BY <1>2 DEF MajorityRule, Rule

=============================================================================
