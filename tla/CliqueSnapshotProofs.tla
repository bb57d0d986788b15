------------------------ MODULE CliqueSnapshotProofs ------------------------
(***************************************************************************)
(* Proofs about the clique voting snapshot, for any set of accounts, any   *)
(* genesis signers, any epoch length and any number of blocks.             *)
(***************************************************************************)
EXTENDS CliqueSnapshot, FiniteSetTheorems, FunctionTheorems, TLAPS

Recents == UNION {[D -> Accounts] : D \in SUBSET (1 .. MaxNumber)}

-----------------------------------------------------------------------------
(* The types of the helpers.                                               *)

(* A window that gains or loses one block number stays a window.           *)
LEMMA RecentsType ==
  ASSUME NEW r
  PROVE  r \in Recents <=> /\ r = [n \in DOMAIN r |-> r[n]]
                           /\ DOMAIN r \subseteq 1 .. MaxNumber
                           /\ \A n \in DOMAIN r : r[n] \in Accounts
  <1>1. ASSUME r \in Recents
        PROVE  /\ r = [n \in DOMAIN r |-> r[n]]
               /\ DOMAIN r \subseteq 1 .. MaxNumber
               /\ \A n \in DOMAIN r : r[n] \in Accounts
    <2>1. PICK D \in SUBSET (1 .. MaxNumber) : r \in [D -> Accounts]
      BY <1>1 DEF Recents
    <2> QED  BY <2>1
  <1>2. ASSUME r = [n \in DOMAIN r |-> r[n]],
               DOMAIN r \subseteq 1 .. MaxNumber,
               \A n \in DOMAIN r : r[n] \in Accounts
        PROVE  r \in Recents
    <2>1. r \in [DOMAIN r -> Accounts]
      BY <1>2
    <2> QED  BY <1>2, <2>1 DEF Recents
  <1> QED  BY <1>1, <1>2

(* limit, the length of the window of recent sealers in apply, is a        *)
(* positive number.                                                        *)
LEMMA LimitType ==
  ASSUME NEW S \in SUBSET Accounts
  PROVE  /\ IsFiniteSet(S)
         /\ Cardinality(S) \in Nat
         /\ limit(S) \in Nat
         /\ limit(S) = (Cardinality(S) \div 2) + 1
         /\ limit(S) >= 1
  <1>1. IsFiniteSet(S)
    BY AccountsAssumption, FS_Subset
  <1>2. Cardinality(S) \in Nat
    BY <1>1, FS_CardinalityType
  <1> QED  BY <1>1, <1>2 DEF limit

(* Shifting one block number out of the window, as apply does with         *)
(* delete, keeps the others.                                               *)
LEMMA ForgetType ==
  ASSUME NEW r \in Recents, NEW k
  PROVE  /\ forget(r, k) \in Recents
         /\ DOMAIN forget(r, k) = DOMAIN r \ {k}
         /\ \A n \in DOMAIN r \ {k} : forget(r, k)[n] = r[n]
  BY RecentsType DEF forget

(* The shift of the recent-sealer window in apply yields a snapshot again. *)
LEMMA ShiftType ==
  ASSUME NEW s \in Snapshot, NEW number \in Nat
  PROVE  /\ shiftRecents(s, number) \in Snapshot
         /\ \E r \in Recents : shiftRecents(s, number) = [s EXCEPT !.recents = r]
  <1>0. s.signers \in SUBSET Accounts /\ s.recents \in Recents
    BY DEF Snapshot, Recents
  <1>1. forget(s.recents, number - limit(s.signers)) \in Recents
    BY <1>0, ForgetType
  <1>2. [s EXCEPT !.recents = s.recents] = s
    BY DEF Snapshot
  <1> QED  BY <1>0, <1>1, <1>2 DEF shiftRecents, Snapshot, Recents

(* Entering the sealer of a block in the window yields a snapshot again.   *)
LEMMA RecordType ==
  ASSUME NEW s \in Snapshot, NEW number \in 1 .. MaxNumber, NEW signer \in Accounts
  PROVE  recordSigner(s, number, signer) \in Snapshot
  <1> DEFINE r == [k \in DOMAIN s.recents \cup {number} |->
                      IF k = number THEN signer ELSE s.recents[k]]
  <1>1. s.recents \in Recents
    BY DEF Snapshot, Recents
  <1>2. r \in Recents
    BY <1>1, RecentsType
  <1> QED  BY <1>2 DEF recordSigner, Snapshot, Recents

(* A tally from which uncast takes n votes is a tally.                     *)
LEMMA RevertType ==
  ASSUME NEW t \in Tally, NEW n \in Nat
  PROVE  revert(t, n) \in Tally
  BY DEF revert, Tally, NoTally

(* What uncast leaves of a tally: the count without the n votes, or no     *)
(* entry when nothing is left.                                             *)
LEMMA RevertCounts ==
  ASSUME NEW t \in Tally, NEW n \in Nat, t.votes >= n
  PROVE  /\ revert(t, n).votes = t.votes - n
         /\ revert(t, n).votes # 0 => revert(t, n).authorize = t.authorize
  <1>1. CASE t.votes > n
    <2>1. revert(t, n) = [authorize |-> t.authorize, votes |-> t.votes - n]
      BY <1>1 DEF revert
    <2> QED  BY <2>1
  <1>2. CASE ~(t.votes > n)
    <2>1. revert(t, n) = [authorize |-> FALSE, votes |-> 0] /\ t.votes = n
      BY <1>2 DEF revert, NoTally, Tally
    <2> QED  BY <2>1 DEF Tally
  <1> QED  BY <1>1, <1>2

(* Uncasting the votes of a removed signer yields a snapshot again.        *)
LEMMA UncastAllType ==
  ASSUME NEW s \in Snapshot, NEW gone \in SUBSET s.votes, IsFiniteSet(gone)
  PROVE  uncastAll(s, gone) \in Snapshot
  <1> DEFINE n(a) == Cardinality({v \in gone : v.address = a
                                    /\ v.authorize = s.tally[a].authorize})
             t == [a \in Accounts |->
                      IF n(a) = 0 THEN s.tally[a] ELSE revert(s.tally[a], n(a))]
  <1>1. ASSUME NEW a \in Accounts
        PROVE  n(a) \in Nat
    BY FS_Subset, FS_CardinalityType
  <1>2. ASSUME NEW a \in Accounts
        PROVE  s.tally[a] \in Tally
    BY DEF Snapshot
  <1>3. t \in [Accounts -> Tally]
    <2> HIDE DEF n
    <2> QED  BY <1>1, <1>2, RevertType
  <1>4. uncastAll(s, gone) = [s EXCEPT !.tally = t]
    BY DEF uncastAll
  <1> HIDE DEF t
  <1> QED  BY <1>3, <1>4 DEF Snapshot

-----------------------------------------------------------------------------
(* The inductive invariant of the vote list and the tally.  apply works on *)
(* a copy of the snapshot in stages; every stage keeps it.                 *)

VInv(s) ==
  /\ s \in Snapshot
  /\ IsFiniteSet(s.votes)
  /\ votesDistinct(s)
  /\ tallyAgrees(s)

(* Two snapshots that differ in the number and the recent sealers only.    *)
SameVotes(s, t) ==
  t.signers = s.signers /\ t.votes = s.votes /\ t.tally = s.tally

(* The facts about votes depend on signers, votes and tally only.          *)
LEMMA SameVotesInv ==
  ASSUME NEW s, NEW t \in Snapshot, VInv(s), SameVotes(s, t)
  PROVE  VInv(t)
  BY DEF VInv, SameVotes, votesDistinct, tallyAgrees, about

(* The epoch reset and the window shift at the start of apply keep the     *)
(* facts about votes.                                                      *)
LEMMA OpenInv ==
  ASSUME NEW s, VInv(s), NEW number \in Nat
  PROVE  VInv(openBlock(s, number)) /\ openBlock(s, number).signers = s.signers
  <1> DEFINE e == IF number % Epoch = 0
                    THEN [s EXCEPT !.votes = {}, !.tally = [a \in Accounts |-> NoTally]]
                    ELSE s
  <1>1. s \in Snapshot
    BY DEF VInv
  <1>2. VInv(e) /\ e.signers = s.signers
    <2>1. CASE number % Epoch = 0
      <3>1. e \in Snapshot /\ e.votes = {} /\ e.tally = [a \in Accounts |-> NoTally]
            /\ e.signers = s.signers
        BY <1>1, <2>1 DEF Snapshot, Tally, NoTally
      <3>2. IsFiniteSet(e.votes) /\ Cardinality({}) = 0
        BY <3>1, FS_EmptySet
      <3>3. votesDistinct(e)
        BY <3>1 DEF votesDistinct
      <3>4. \A a \in Accounts : about(e, a) = {}
        BY <3>1 DEF about
      <3>5. \A a \in Accounts : e.tally[a].votes = 0
        BY <3>1 DEF NoTally
      <3> HIDE DEF e
      <3>6. tallyAgrees(e)
        BY <3>2, <3>4, <3>5 DEF tallyAgrees
      <3> QED  BY <3>1, <3>2, <3>3, <3>6 DEF VInv
    <2>2. CASE number % Epoch # 0
      BY <2>2
    <2> QED  BY <2>1, <2>2
  <1>3. openBlock(s, number) = shiftRecents(e, number)
    BY DEF openBlock
  <1> HIDE DEF e
  <1>4. PICK r \in Recents : shiftRecents(e, number) = [e EXCEPT !.recents = r]
    BY <1>2, ShiftType DEF VInv
  <1>5. shiftRecents(e, number) \in Snapshot
    BY <1>2, ShiftType DEF VInv
  <1>6. SameVotes(e, shiftRecents(e, number))
    BY <1>2, <1>4 DEF SameVotes, VInv, Snapshot
  <1> QED  BY <1>2, <1>3, <1>5, <1>6, SameVotesInv DEF SameVotes

(* Recording the sealer keeps the facts about votes.                       *)
LEMMA RecordInv ==
  ASSUME NEW s, VInv(s), NEW number \in 1 .. MaxNumber, NEW signer \in Accounts
  PROVE  /\ VInv(recordSigner(s, number, signer))
         /\ SameVotes(s, recordSigner(s, number, signer))
  <1>1. recordSigner(s, number, signer) \in Snapshot
    BY RecordType DEF VInv
  <1>2. SameVotes(s, recordSigner(s, number, signer))
    BY DEF recordSigner, SameVotes, VInv, Snapshot
  <1> QED  BY <1>1, <1>2, SameVotesInv

(* A snapshot type fact used at every stage.                               *)
LEMMA Fields ==
  ASSUME NEW s \in Snapshot
  PROVE  /\ s.number \in Nat /\ s.signers \in SUBSET Accounts
         /\ s.recents \in Recents /\ s.votes \in SUBSET Vote
         /\ s.tally \in [Accounts -> Tally]
  BY DEF Snapshot, Recents

(* A pending vote on a is backed by a positive tally asking for the same.  *)
LEMMA PendingVote ==
  ASSUME NEW s, VInv(s), NEW v \in s.votes
  PROVE  /\ v.address \in Accounts /\ v.authorize \in BOOLEAN
         /\ v \in about(s, v.address)
         /\ s.tally[v.address].votes > 0
         /\ s.tally[v.address].authorize = v.authorize
  <1>1. v \in Vote
    BY Fields DEF VInv
  <1>2. v.address \in Accounts /\ v.authorize \in BOOLEAN
    BY <1>1 DEF Vote
  <1>3. v \in about(s, v.address)
    BY DEF about
  <1>4. IsFiniteSet(about(s, v.address))
    BY FS_Subset DEF about, VInv
  <1>5. Cardinality(about(s, v.address)) \in Nat /\ Cardinality(about(s, v.address)) # 0
    BY <1>3, <1>4, FS_CardinalityType, FS_EmptySet
  <1>6. s.tally[v.address].votes > 0
    BY <1>2, <1>5 DEF VInv, tallyAgrees
  <1>7. s.tally[v.address].authorize = v.authorize
    BY <1>2, <1>3 DEF VInv, tallyAgrees
  <1> QED  BY <1>2, <1>3, <1>6, <1>7

(* Discarding the sealer's earlier vote on an account, with its uncast,    *)
(* leaves a tally that counts the remaining votes.                         *)
LEMMA DiscardInv ==
  ASSUME NEW s, VInv(s), NEW h \in Header
  PROVE  LET d == discardPrevious(s, h)
         IN  /\ VInv(d)
             /\ d.signers = s.signers /\ d.recents = s.recents /\ d.number = s.number
             /\ d.votes = {v \in s.votes : v.signer # h.signer \/ v.address # h.coinbase}
  <1> DEFINE old == {v \in s.votes : v.signer = h.signer /\ v.address = h.coinbase}
             d == discardPrevious(s, h)
  <1>0. s \in Snapshot
    BY DEF VInv
  <1>1. CASE old = {}
    <2>1. d = s
      BY <1>1 DEF discardPrevious
    <2> QED  BY <1>1, <2>1
  <1>2. CASE old # {}
    <2>1. PICK f \in old : TRUE
      BY <1>2
    <2>2. old = {f}
      BY <2>1 DEF VInv, votesDistinct
    <2>3. f.block \in Nat /\ f.address \in Accounts /\ f.address = h.coinbase
      BY <1>0, <2>1, Fields DEF Vote
    <2>4. (CHOOSE v \in old : \A w \in old : v.block <= w.block) = f
      BY <2>2, <2>3
    <2>5. d = [uncast(s, f.address, f.authorize)
                 EXCEPT !.votes = uncast(s, f.address, f.authorize).votes \ {f}]
      BY <1>2, <2>4 DEF discardPrevious
    <2> DEFINE a == f.address
               t == [s.tally EXCEPT ![a] = revert(s.tally[a], 1)]
    <2>6. s.tally[a].votes > 0 /\ s.tally[a].authorize = f.authorize /\ f \in about(s, a)
      BY <2>1, PendingVote
    <2>7. s.tally[a] \in Tally /\ s.tally[a].votes \in Nat
      BY <1>0, <2>3, Fields DEF Tally
    <2>8. uncast(s, a, f.authorize) = [s EXCEPT !.tally = t]
      BY <2>6, <2>7 DEF uncast
    <2>9. t \in [Accounts -> Tally]
      BY <1>0, <2>3, <2>7, RevertType, Fields
    <2>10. /\ d \in Snapshot /\ d.votes = s.votes \ {f} /\ d.tally = t
           /\ d.signers = s.signers /\ d.recents = s.recents /\ d.number = s.number
      <3> HIDE DEF t, d
      <3> QED  BY <1>0, <2>5, <2>8, <2>9 DEF Snapshot
    <2>11. IsFiniteSet(s.votes) /\ IsFiniteSet(d.votes)
      BY <2>10, FS_RemoveElement DEF VInv
    <2>12. votesDistinct(d)
      BY <2>10 DEF VInv, votesDistinct
    <2>13. tallyAgrees(d)
      <3> SUFFICES ASSUME NEW b \in Accounts
                   PROVE  /\ d.tally[b].votes = Cardinality(about(d, b))
                          /\ about(d, b) # {} => d.tally[b].authorize = (b \notin d.signers)
                          /\ \A v \in about(d, b) : v.authorize = (b \notin d.signers)
        BY DEF tallyAgrees
      <3>1. IsFiniteSet(about(s, b))
        BY <2>11, FS_Subset DEF about
      <3>2. Cardinality(about(s, b)) \in Nat
        BY <3>1, FS_CardinalityType
      <3>3. s.tally[b].votes = Cardinality(about(s, b))
        BY DEF VInv, tallyAgrees
      <3>4. \A v \in about(s, b) : v.authorize = (b \notin s.signers)
        BY DEF VInv, tallyAgrees
      <3>5. about(s, b) # {} => s.tally[b].authorize = (b \notin s.signers)
        BY DEF VInv, tallyAgrees
      <3>6. about(d, b) \subseteq about(s, b)
        BY <2>10 DEF about
      <3>7. CASE b # a
        <4>1. about(d, b) = about(s, b)
          BY <2>10, <3>7 DEF about
        <4>2. d.tally[b] = s.tally[b]
          BY <1>0, <2>10, <3>7, Fields
        <4> QED  BY <2>10, <3>3, <3>4, <3>5, <4>1, <4>2
      <3>8. CASE b = a
        <4>1. about(d, b) = about(s, b) \ {f}
          BY <2>10, <3>8 DEF about
        <4>2. Cardinality(about(d, b)) = Cardinality(about(s, b)) - 1
          BY <2>6, <3>1, <3>8, <4>1, FS_RemoveElement
        <4>3. d.tally[b] = revert(s.tally[b], 1)
          BY <1>0, <2>10, <3>8, Fields
        <4>4. d.tally[b].votes = s.tally[b].votes - 1
          BY <2>6, <2>7, <3>8, <4>3, RevertCounts
        <4>5. d.tally[b].votes # 0 => d.tally[b].authorize = s.tally[b].authorize
          BY <2>6, <2>7, <3>8, <4>3, RevertCounts
        <4>6. IsFiniteSet(about(d, b))
          BY <3>1, <3>6, FS_Subset
        <4>7. about(d, b) # {} => Cardinality(about(d, b)) \in Nat /\ Cardinality(about(d, b)) > 0
          BY <4>6, FS_EmptySet, FS_CardinalityType
        <4>8. about(d, b) # {} => d.tally[b].authorize = s.tally[b].authorize
          BY <3>3, <4>2, <4>4, <4>5, <4>7
        <4> QED  BY <2>10, <3>3, <3>4, <3>5, <3>6, <4>2, <4>4, <4>8
      <3> QED  BY <3>7, <3>8
    <2>14. d.votes = {v \in s.votes : v.signer # h.signer \/ v.address # h.coinbase}
      BY <2>2, <2>10
    <2>15. VInv(d)
      BY <2>10, <2>11, <2>12, <2>13 DEF VInv
    <2> QED  BY <2>10, <2>14, <2>15
  <1> QED  BY <1>1, <1>2

(* Casting the new vote and appending it keep votes and tally together.    *)
LEMMA TallyInv ==
  ASSUME NEW s, VInv(s), NEW h \in Header, NEW number \in Nat,
         h.signer \in s.signers,
         \A v \in s.votes : v.signer # h.signer \/ v.address # h.coinbase
  PROVE  LET c == tallyVote(s, number, h)
         IN  /\ VInv(c)
             /\ c.signers = s.signers /\ c.recents = s.recents /\ c.number = s.number
             /\ \A v \in c.votes : v \in s.votes
                    \/ (v.signer = h.signer /\ v.address = h.coinbase)
  <1> DEFINE c == tallyVote(s, number, h)
             a == h.coinbase
             new == [signer |-> h.signer, block |-> number,
                     address |-> a, authorize |-> h.authorize]
  <1>0. s \in Snapshot
    BY DEF VInv
  <1>1. CASE ~validVote(s, h.coinbase, h.authorize)
    <2>1. c = s
      BY <1>1 DEF tallyVote
    <2> QED  BY <2>1
  <1>2. CASE validVote(s, h.coinbase, h.authorize)
    <2> DEFINE o == s.tally[a]
               n == IF o.votes > 0
                      THEN [authorize |-> o.authorize, votes |-> o.votes + 1]
                      ELSE [authorize |-> h.authorize, votes |-> 1]
               t == [s.tally EXCEPT ![a] = n]
    <2>1. /\ a \in Accounts /\ h.authorize \in BOOLEAN /\ h.signer \in Accounts
          /\ new \in Vote
      BY DEF Header, Vote
    <2>2. h.authorize = (a \notin s.signers)
      BY <1>2, <2>1 DEF validVote
    <2>3. o \in Tally /\ o.votes \in Nat
      BY <1>0, <2>1, Fields DEF Tally
    <2>4. n \in Tally
      BY <2>1, <2>3 DEF Tally
    <2>5. t \in [Accounts -> Tally] /\ t[a] = n
          /\ \A b \in Accounts : b # a => t[b] = s.tally[b]
      <3> HIDE DEF n
      <3> QED  BY <1>0, <2>1, <2>4, Fields
    <2>6. cast(s, a, h.authorize) = [s EXCEPT !.tally = t]
      BY DEF cast
    <2>7. c = [cast(s, a, h.authorize)
                 EXCEPT !.votes = cast(s, a, h.authorize).votes \cup {new}]
      BY <1>2 DEF tallyVote
    <2>8. /\ c \in Snapshot /\ c.votes = s.votes \cup {new} /\ c.tally = t
          /\ c.signers = s.signers /\ c.recents = s.recents /\ c.number = s.number
      <3> HIDE DEF t, c, new
      <3> QED  BY <1>0, <2>1, <2>5, <2>6, <2>7 DEF Snapshot
    <2>9. IsFiniteSet(s.votes) /\ IsFiniteSet(c.votes)
      <3> HIDE DEF c, new
      <3>1. IsFiniteSet(s.votes)
        BY DEF VInv
      <3>2. IsFiniteSet(s.votes \cup {new})
        BY <3>1, FS_AddElement
      <3> QED  BY <2>8, <3>1, <3>2
    <2>10. new.signer = h.signer /\ new.address = a /\ new.authorize = h.authorize
      OBVIOUS
    <2>11. new \notin s.votes
      BY <2>10
    <2> HIDE DEF new, c, t
    <2>12. votesDistinct(c)
      BY <2>8, <2>10 DEF VInv, votesDistinct
    <2>13. tallyAgrees(c)
      <3> SUFFICES ASSUME NEW b \in Accounts
                   PROVE  /\ c.tally[b].votes = Cardinality(about(c, b))
                          /\ about(c, b) # {} => c.tally[b].authorize = (b \notin c.signers)
                          /\ \A v \in about(c, b) : v.authorize = (b \notin c.signers)
        BY DEF tallyAgrees
      <3>1. IsFiniteSet(about(s, b))
        BY <2>9, FS_Subset DEF about
      <3>2. Cardinality(about(s, b)) \in Nat
        BY <3>1, FS_CardinalityType
      <3>3. s.tally[b].votes = Cardinality(about(s, b))
        BY DEF VInv, tallyAgrees
      <3>4. \A v \in about(s, b) : v.authorize = (b \notin s.signers)
        BY DEF VInv, tallyAgrees
      <3>5. about(s, b) # {} => s.tally[b].authorize = (b \notin s.signers)
        BY DEF VInv, tallyAgrees
      <3>6. CASE b # a
        <4>1. about(c, b) = about(s, b)
          BY <2>8, <2>10, <3>6 DEF about
        <4> QED  BY <2>5, <2>8, <3>3, <3>4, <3>5, <3>6, <4>1
      <3>7. CASE b = a
        <4>1. about(c, b) = about(s, b) \cup {new}
          BY <2>8, <2>10, <3>7 DEF about
        <4>2. new \notin about(s, b)
          BY <2>11 DEF about
        <4>3. Cardinality(about(c, b)) = Cardinality(about(s, b)) + 1
          BY <3>1, <4>1, <4>2, FS_AddElement
        <4>4. CASE about(s, b) = {}
          <5>1. s.tally[b].votes = 0
            BY <3>3, <4>4, FS_EmptySet
          <5>2. n = [authorize |-> h.authorize, votes |-> 1]
            BY <3>7, <5>1
          <5>3. c.tally[b].votes = s.tally[b].votes + 1 /\ c.tally[b].authorize = h.authorize
            BY <2>5, <2>8, <3>7, <5>1, <5>2
          <5> QED  BY <2>2, <2>8, <2>10, <3>3, <3>4, <3>7, <4>1, <4>3, <5>3
        <4>5. CASE about(s, b) # {}
          <5>1. s.tally[b].votes > 0
            BY <3>1, <3>2, <3>3, <4>5, FS_EmptySet
          <5>2. n = [authorize |-> o.authorize, votes |-> o.votes + 1]
            BY <3>7, <5>1
          <5>3. c.tally[b].votes = s.tally[b].votes + 1
                /\ c.tally[b].authorize = s.tally[b].authorize
            BY <2>5, <2>8, <3>7, <5>1, <5>2
          <5> QED  BY <2>2, <2>8, <2>10, <3>3, <3>4, <3>5, <3>7, <4>1, <4>3, <4>5, <5>3
        <4> QED  BY <4>4, <4>5
      <3> QED  BY <3>6, <3>7
    <2>14. VInv(c)
      BY <2>8, <2>9, <2>12, <2>13 DEF VInv
    <2>15. \A v \in c.votes : v \in s.votes
                    \/ (v.signer = h.signer /\ v.address = h.coinbase)
      BY <2>8, <2>10
    <2> QED  BY <2>8, <2>14, <2>15 DEF c
  <1> QED  BY <1>1, <1>2

(* Removing an account from the signers with its votes, before the votes   *)
(* about it are dropped: every other account's tally still agrees.         *)
LEMMA DropInv ==
  ASSUME NEW s, VInv(s), NEW number \in Nat, NEW a \in Accounts
  PROVE  LET d == dropSigner(s, number, a)
         IN  /\ d \in Snapshot /\ d.number = s.number /\ d.signers = s.signers \ {a}
             /\ d.votes = {v \in s.votes : v.signer # a}
             /\ d.recents = shiftRecents([s EXCEPT !.signers = s.signers \ {a}], number).recents
             /\ \A b \in Accounts :
                   /\ d.tally[b].votes = Cardinality(about(d, b))
                   /\ about(d, b) # {} => d.tally[b].authorize = s.tally[b].authorize
  <1> DEFINE d == dropSigner(s, number, a)
             u == [s EXCEPT !.signers = s.signers \ {a}]
             k == shiftRecents(u, number)
             gone == {v \in s.votes : v.signer = a}
  <1>0. s \in Snapshot /\ IsFiniteSet(s.votes)
    BY DEF VInv
  <1>1. u \in Snapshot
    BY <1>0 DEF Snapshot
  <1>2. k \in Snapshot /\ \E r \in Recents : k = [u EXCEPT !.recents = r]
    <2> HIDE DEF u
    <2> QED  BY <1>1, ShiftType
  <1>3. /\ k.signers = s.signers \ {a} /\ k.votes = s.votes /\ k.tally = s.tally
        /\ k.number = s.number
    <2> HIDE DEF k
    <2> QED  BY <1>0, <1>2 DEF Snapshot
  <1>4. gone \in SUBSET k.votes /\ IsFiniteSet(gone)
    BY <1>0, <1>3, FS_Subset
  <1>5. d = [uncastAll(k, gone) EXCEPT !.votes = uncastAll(k, gone).votes \ gone]
    BY DEF dropSigner
  <1> HIDE DEF k, gone
  <1>6. uncastAll(k, gone) \in Snapshot
    BY <1>2, <1>4, UncastAllType
  <1> DEFINE m(b) == Cardinality({v \in gone : v.address = b
                                    /\ v.authorize = k.tally[b].authorize})
             t == [b \in Accounts |->
                      IF m(b) = 0 THEN k.tally[b] ELSE revert(k.tally[b], m(b))]
  <1>7. uncastAll(k, gone) = [k EXCEPT !.tally = t]
    BY DEF uncastAll
  <1>8. /\ d \in Snapshot /\ d.number = s.number /\ d.signers = s.signers \ {a}
        /\ d.votes = s.votes \ gone /\ d.recents = k.recents /\ d.tally = t
    <2> HIDE DEF d, t
    <2> QED  BY <1>2, <1>3, <1>5, <1>6, <1>7 DEF Snapshot
  <1>9. d.votes = {v \in s.votes : v.signer # a}
    BY <1>8 DEF gone
  <1> HIDE DEF d
  <1>10. ASSUME NEW b \in Accounts
         PROVE  /\ d.tally[b].votes = Cardinality(about(d, b))
                /\ about(d, b) # {} => d.tally[b].authorize = s.tally[b].authorize
    <2> DEFINE g == {v \in gone : v.address = b}
    <2>1. {v \in gone : v.address = b /\ v.authorize = k.tally[b].authorize} = g
      BY <1>3, PendingVote DEF gone
    <2>2. m(b) = Cardinality(g)
      BY <2>1
    <2>3. about(d, b) = about(s, b) \ g /\ about(s, b) \cap g = g
      BY <1>8 DEF about, gone
    <2>4. IsFiniteSet(about(s, b)) /\ IsFiniteSet(g)
      BY <1>0, <1>4, FS_Subset DEF about
    <2>5. /\ Cardinality(about(d, b)) = Cardinality(about(s, b)) - Cardinality(g)
          /\ IsFiniteSet(about(d, b))
      <3> HIDE DEF g
      <3>1. /\ Cardinality(about(s, b) \ g)
                 = Cardinality(about(s, b)) - Cardinality(about(s, b) \cap g)
            /\ IsFiniteSet(about(s, b) \ g)
        BY <2>4, FS_Difference
      <3> QED  BY <2>3, <3>1
    <2>6. /\ Cardinality(about(s, b)) \in Nat /\ Cardinality(g) \in Nat
          /\ Cardinality(about(d, b)) \in Nat
          /\ Cardinality(about(d, b)) = 0 => about(d, b) = {}
      <3> HIDE DEF g
      <3>1. Cardinality(about(s, b)) \in Nat /\ Cardinality(g) \in Nat
        BY <2>4, FS_CardinalityType
      <3>2. Cardinality(about(d, b)) \in Nat
        BY <2>5, FS_CardinalityType
      <3> QED  BY <2>5, <3>1, <3>2, FS_EmptySet
    <2>7. s.tally[b].votes = Cardinality(about(s, b))
      BY DEF VInv, tallyAgrees
    <2>8. s.tally[b] \in Tally
      BY <1>0, Fields
    <2>9. d.tally[b] = IF m(b) = 0 THEN s.tally[b] ELSE revert(s.tally[b], m(b))
      <3> HIDE DEF m
      <3> QED  BY <1>3, <1>8
    <2> HIDE DEF g, m
    <2>10. CASE m(b) = 0
      BY <2>2, <2>5, <2>6, <2>7, <2>9, <2>10
    <2>11. CASE m(b) # 0
      <3>1. d.tally[b] = revert(s.tally[b], m(b)) /\ m(b) \in Nat
            /\ s.tally[b].votes >= m(b)
        BY <2>2, <2>5, <2>6, <2>7, <2>9, <2>11
      <3>2. /\ d.tally[b].votes = s.tally[b].votes - m(b)
            /\ d.tally[b].votes # 0 => d.tally[b].authorize = s.tally[b].authorize
        BY <2>8, <3>1, RevertCounts
      <3> QED  BY <2>2, <2>5, <2>6, <2>7, <3>2
    <2> QED  BY <2>10, <2>11
  <1> QED  BY <1>8, <1>9, <1>10 DEF d, k

(* Once a vote has passed, adding or dropping the account and forgetting   *)
(* the votes about it keep the facts about votes.                          *)
LEMMA ChangeInv ==
  ASSUME NEW s, VInv(s), NEW number \in Nat, NEW a \in Accounts
  PROVE  LET c == changeSigner(s, number, a)
         IN  /\ VInv(c) /\ c.number = s.number
             /\ \/ /\ c.signers = s.signers \cup {a}
                   /\ c.recents = s.recents
                \/ /\ c.signers = s.signers \ {a}
                   /\ c.recents = shiftRecents([s EXCEPT !.signers = s.signers \ {a}],
                                               number).recents
  <1> DEFINE c == changeSigner(s, number, a)
             p == [s EXCEPT !.signers = s.signers \cup {a}]
             d == dropSigner(s, number, a)
             e == IF s.tally[a].authorize THEN p ELSE d
             w == {v \in e.votes : v.address # a}
             t == [e.tally EXCEPT ![a] = NoTally]
  <1>0. s \in Snapshot /\ IsFiniteSet(s.votes) /\ votesDistinct(s)
    BY DEF VInv
  <1>1. c = [e EXCEPT !.votes = w, !.tally = t]
    BY DEF changeSigner
  <1>2. /\ p \in Snapshot /\ p.number = s.number /\ p.signers = s.signers \cup {a}
        /\ p.votes = s.votes /\ p.recents = s.recents /\ p.tally = s.tally
    BY <1>0 DEF Snapshot
  <1>3. /\ d \in Snapshot /\ d.number = s.number /\ d.signers = s.signers \ {a}
        /\ d.votes = {v \in s.votes : v.signer # a}
        /\ d.recents = shiftRecents([s EXCEPT !.signers = s.signers \ {a}], number).recents
        /\ \A b \in Accounts :
              /\ d.tally[b].votes = Cardinality(about(d, b))
              /\ about(d, b) # {} => d.tally[b].authorize = s.tally[b].authorize
    BY DropInv
  <1> HIDE DEF p, d
  <1>4. /\ e \in Snapshot /\ e.number = s.number
        /\ \/ e.signers = s.signers \cup {a} /\ e.recents = s.recents
           \/ /\ e.signers = s.signers \ {a}
              /\ e.recents = shiftRecents([s EXCEPT !.signers = s.signers \ {a}],
                                          number).recents
    BY <1>2, <1>3
  <1>5. e.votes \subseteq s.votes /\ \A v \in e.votes : v.signer \in e.signers
    BY <1>0, <1>2, <1>3 DEF votesDistinct
  <1>6. ASSUME NEW b \in Accounts
        PROVE  /\ e.tally[b].votes = Cardinality(about(e, b))
               /\ about(e, b) # {} => e.tally[b].authorize = s.tally[b].authorize
    <2>1. CASE s.tally[a].authorize
      <3>1. e = p
        BY <2>1
      <3>2. about(e, b) = about(s, b)
        BY <1>2, <3>1 DEF about
      <3> QED  BY <1>2, <3>1, <3>2 DEF VInv, tallyAgrees
    <2>2. CASE ~s.tally[a].authorize
      BY <1>3, <2>2
    <2> QED  BY <2>1, <2>2
  <1> HIDE DEF e
  <1>7. w \subseteq Vote /\ t \in [Accounts -> Tally]
        /\ t[a] = NoTally /\ \A b \in Accounts : b # a => t[b] = e.tally[b]
    BY <1>4, Fields DEF Tally, NoTally
  <1>8. /\ c \in Snapshot /\ c.number = e.number /\ c.signers = e.signers
        /\ c.recents = e.recents /\ c.votes = w /\ c.tally = t
    <2> HIDE DEF c, w, t
    <2> QED  BY <1>1, <1>4, <1>7 DEF Snapshot
  <1>9. IsFiniteSet(w)
    BY <1>0, <1>5, FS_Subset
  <1> HIDE DEF c, t
  <1>10. votesDistinct(c)
    BY <1>0, <1>5, <1>8 DEF votesDistinct
  <1>11. tallyAgrees(c)
    <2> SUFFICES ASSUME NEW b \in Accounts
                 PROVE  /\ c.tally[b].votes = Cardinality(about(c, b))
                        /\ about(c, b) # {} => c.tally[b].authorize = (b \notin c.signers)
                        /\ \A v \in about(c, b) : v.authorize = (b \notin c.signers)
      BY DEF tallyAgrees
    <2>1. CASE b = a
      <3>1. about(c, b) = {}
        BY <1>8, <2>1 DEF about
      <3>2. c.tally[b].votes = 0
        BY <1>7, <1>8, <2>1 DEF NoTally
      <3> QED  BY <3>1, <3>2, FS_EmptySet
    <2>2. CASE b # a
      <3>1. about(c, b) = about(e, b)
        BY <1>8, <2>2 DEF about
      <3>2. c.tally[b] = e.tally[b]
        BY <1>7, <1>8, <2>2
      <3>3. b \in c.signers <=> b \in s.signers
        BY <1>4, <1>8, <2>2
      <3>4. about(e, b) \subseteq about(s, b)
        BY <1>5 DEF about
      <3>5. \A v \in about(s, b) : v.authorize = (b \notin s.signers)
        BY DEF VInv, tallyAgrees
      <3>6. about(s, b) # {} => s.tally[b].authorize = (b \notin s.signers)
        BY DEF VInv, tallyAgrees
      <3> QED  BY <1>6, <3>1, <3>2, <3>3, <3>4, <3>5, <3>6
    <2> QED  BY <2>1, <2>2
  <1>12. VInv(c)
    BY <1>8, <1>9, <1>10, <1>11 DEF VInv
  <1> QED  BY <1>4, <1>8, <1>12 DEF c

-----------------------------------------------------------------------------
(* The window of recent sealers.                                           *)

(* What the shift before the authorization check leaves: the blocks that   *)
(* the block number does not push out of the window.                       *)
LEMMA ShiftWindow ==
  ASSUME NEW s \in Snapshot, NEW number \in Nat \ {0},
         \A n \in DOMAIN s.recents : number - limit(s.signers) <= n
  PROVE  LET k == shiftRecents(s, number)
         IN  /\ DOMAIN k.recents \subseteq DOMAIN s.recents
             /\ \A n \in DOMAIN k.recents : k.recents[n] = s.recents[n]
             /\ \A n \in DOMAIN k.recents : number - limit(s.signers) < n
             /\ number \in DOMAIN s.recents => number \in DOMAIN k.recents
  <1> DEFINE L == limit(s.signers)
             k == shiftRecents(s, number)
  <1>1. L \in Nat /\ L >= 1
    BY Fields, LimitType
  <1>2. s.recents \in Recents /\ DOMAIN s.recents \subseteq 1 .. MaxNumber
    BY Fields, RecentsType
  <1>3. CASE number >= L
    <2>1. k.recents = forget(s.recents, number - L)
      BY <1>3 DEF shiftRecents, Snapshot
    <2>2. /\ DOMAIN k.recents = DOMAIN s.recents \ {number - L}
          /\ \A n \in DOMAIN k.recents : k.recents[n] = s.recents[n]
      <3> HIDE DEF k, L
      <3> QED  BY <2>1 DEF forget
    <2> HIDE DEF k
    <2>3. \A n \in DOMAIN k.recents : number - L < n
      BY <1>1, <1>2, <2>2, NumberAssumption
    <2> HIDE DEF L
    <2>4. number # number - L
      BY <1>1
    <2> QED  BY <2>2, <2>3, <2>4 DEF k, L
  <1>4. CASE ~(number >= L)
    <2>1. k = s
      BY <1>4 DEF shiftRecents
    <2>2. \A n \in DOMAIN s.recents : number - L < n
      BY <1>1, <1>2, <1>4, NumberAssumption
    <2> QED  BY <2>1, <2>2
  <1> QED  BY <1>3, <1>4

(* One vote changes limit by at most one.                                  *)
LEMMA LimitChange ==
  ASSUME NEW S \in SUBSET Accounts, NEW a \in Accounts
  PROVE  /\ limit(S \cup {a}) \in {limit(S), limit(S) + 1}
         /\ limit(S \ {a}) \in {limit(S), limit(S) - 1}
  <1>1. IsFiniteSet(S) /\ Cardinality(S) \in Nat
    BY LimitType
  <1>2. Cardinality(S \cup {a}) \in {Cardinality(S), Cardinality(S) + 1}
    BY <1>1, FS_AddElement
  <1>3. Cardinality(S \ {a}) \in {Cardinality(S), Cardinality(S) - 1}
    BY <1>1, FS_RemoveElement
  <1>4. Cardinality(S \ {a}) \in Nat
    BY LimitType
  <1> QED  BY <1>1, <1>2, <1>3, <1>4 DEF limit

(* After openBlock for the next block the window has room for one more.    *)
LEMMA OpenWindow ==
  ASSUME NEW s \in Snapshot, recentsSpread(s)
  PROVE  LET o == openBlock(s, s.number + 1)
         IN  /\ o \in Snapshot /\ o.signers = s.signers /\ o.number = s.number
             /\ \A n \in DOMAIN o.recents :
                    (s.number + 1) - limit(s.signers) < n /\ n <= s.number
             /\ \A m, n \in DOMAIN o.recents : o.recents[m] = o.recents[n] => m = n
  <1> DEFINE number == s.number + 1
             L == limit(s.signers)
             e == IF number % Epoch = 0
                    THEN [s EXCEPT !.votes = {}, !.tally = [a \in Accounts |-> NoTally]]
                    ELSE s
             o == openBlock(s, number)
  <1>1. s.number \in Nat /\ number \in Nat \ {0} /\ L \in Nat /\ s.recents \in Recents
    BY Fields, LimitType
  <1>2. e \in Snapshot /\ e.signers = s.signers /\ e.recents = s.recents /\ e.number = s.number
    BY DEF Snapshot, Tally, NoTally
  <1>3. o = shiftRecents(e, number)
    BY DEF openBlock
  <1> HIDE DEF e, o, number
  <1>4. \A n \in DOMAIN e.recents : number - limit(e.signers) <= n
    BY <1>1, <1>2, RecentsType, NumberAssumption DEF recentsSpread, number
  <1>5. /\ DOMAIN o.recents \subseteq DOMAIN e.recents
        /\ \A n \in DOMAIN o.recents : o.recents[n] = e.recents[n]
        /\ \A n \in DOMAIN o.recents : number - limit(e.signers) < n
    BY <1>1, <1>2, <1>3, <1>4, ShiftWindow
  <1>6. o \in Snapshot /\ o.signers = s.signers /\ o.number = s.number
    <2>1. PICK r \in Recents : o = [e EXCEPT !.recents = r]
      BY <1>1, <1>2, <1>3, ShiftType
    <2>2. o \in Snapshot
      BY <1>1, <1>2, <1>3, ShiftType
    <2> QED  BY <1>2, <2>1, <2>2 DEF Snapshot
  <1>7. \A n \in DOMAIN o.recents : (s.number + 1) - L < n /\ n <= s.number
    BY <1>1, <1>2, <1>5 DEF recentsSpread, number
  <1>8. \A m, n \in DOMAIN o.recents : o.recents[m] = o.recents[n] => m = n
    BY <1>2, <1>5 DEF recentsSpread
  <1> QED  BY <1>6, <1>7, <1>8 DEF o, number

-----------------------------------------------------------------------------
(* The whole of apply.                                                     *)

IInv(s) == VInv(s) /\ recentsSpread(s)

(* apply preserves the invariant on every header.                          *)
LEMMA ApplyInv ==
  ASSUME NEW s, IInv(s), s.number < MaxNumber, NEW h \in Header,
         authorized(s, s.number + 1, h.signer)
  PROVE  IInv(apply(s, h))
  <1> DEFINE number == s.number + 1
             L == limit(s.signers)
             o == openBlock(s, number)
             r == recordSigner(o, number, h.signer)
             d == discardPrevious(r, h)
             c == tallyVote(d, number, h)
             e == IF passed(c, h.coinbase) THEN changeSigner(c, number, h.coinbase) ELSE c
             x == apply(s, h)
  <1>0. s \in Snapshot /\ VInv(s) /\ recentsSpread(s) /\ s.number \in Nat
    BY Fields DEF IInv, VInv
  <1>1. number \in Nat /\ number \in Nat \ {0} /\ number \in 1 .. MaxNumber
    BY <1>0, NumberAssumption
  <1>2. h.signer \in Accounts /\ h.coinbase \in Accounts /\ h.authorize \in BOOLEAN
    BY DEF Header
  <1>3. x = [e EXCEPT !.number = number]
    BY DEF apply
  <1>4. h.signer \in o.signers /\ \A n \in DOMAIN o.recents : o.recents[n] # h.signer
    BY DEF authorized
  <1>5. /\ o \in Snapshot /\ o.signers = s.signers /\ VInv(o)
        /\ \A n \in DOMAIN o.recents : number - L < n /\ n <= s.number
        /\ \A m, n \in DOMAIN o.recents : o.recents[m] = o.recents[n] => m = n
    <2>1. VInv(o)
      BY <1>0, <1>1, OpenInv
    <2>2. /\ o \in Snapshot /\ o.signers = s.signers /\ o.number = s.number
          /\ \A n \in DOMAIN o.recents :
                 (s.number + 1) - limit(s.signers) < n /\ n <= s.number
          /\ \A m, n \in DOMAIN o.recents : o.recents[m] = o.recents[n] => m = n
      BY <1>0, OpenWindow, Zenon
    <2>3. \A n \in DOMAIN o.recents : number - L < n /\ n <= s.number
      BY <2>2
    <2> HIDE DEF o, number, L
    <2> QED  BY <2>1, <2>2, <2>3, Zenon
  <1>6. L \in Nat /\ L >= 1
    BY <1>0, Fields, LimitType
  <1> HIDE DEF number, o, L
  <1>7. VInv(r) /\ SameVotes(o, r)
    BY <1>1, <1>2, <1>5, RecordInv
  <1>8. r.recents = [k \in DOMAIN o.recents \cup {number} |->
                        IF k = number THEN h.signer ELSE o.recents[k]]
    BY <1>5 DEF recordSigner, Snapshot
  <1> HIDE DEF r
  <1>9. /\ \A n \in DOMAIN r.recents : number - L < n /\ n <= number
        /\ \A m, n \in DOMAIN r.recents : r.recents[m] = r.recents[n] => m = n
    <2>1. \A n \in DOMAIN o.recents : n # number /\ n <= number
      <3>1. DOMAIN o.recents \subseteq 1 .. MaxNumber
        BY <1>5, Fields, RecentsType
      <3> QED  BY <1>0, <1>5, <3>1, NumberAssumption DEF number
    <2>2. number - L < number /\ number <= number
      BY <1>1, <1>6
    <2> QED  BY <1>4, <1>5, <1>8, <2>1, <2>2
  <1>10. /\ VInv(d) /\ d.signers = s.signers /\ d.recents = r.recents
         /\ \A v \in d.votes : v.signer # h.signer \/ v.address # h.coinbase
    BY <1>5, <1>7, DiscardInv DEF SameVotes
  <1> HIDE DEF d
  <1>11. VInv(c) /\ c.signers = s.signers /\ c.recents = r.recents
    BY <1>1, <1>4, <1>5, <1>10, TallyInv
  <1> HIDE DEF c
  <1>12. /\ VInv(e)
         /\ \A n \in DOMAIN e.recents : n \in DOMAIN r.recents /\ e.recents[n] = r.recents[n]
         /\ \A n \in DOMAIN e.recents : number - limit(e.signers) < n
    <2>1. CASE ~passed(c, h.coinbase)
      <3>1. e = c
        BY <2>1
      <3> QED  BY <1>9, <1>11, <3>1 DEF L
    <2>2. CASE passed(c, h.coinbase)
      <3> DEFINE u == [c EXCEPT !.signers = c.signers \ {h.coinbase}]
      <3>1. e = changeSigner(c, number, h.coinbase)
        BY <2>2
      <3>2. VInv(e) /\ \/ e.signers = s.signers \cup {h.coinbase} /\ e.recents = r.recents
                       \/ /\ e.signers = s.signers \ {h.coinbase}
                          /\ e.recents = shiftRecents(u, number).recents
        BY <1>1, <1>2, <1>11, <3>1, ChangeInv
      <3>3. limit(s.signers \cup {h.coinbase}) \in {L, L + 1}
            /\ limit(s.signers \ {h.coinbase}) \in {L, L - 1}
        BY <1>0, <1>2, Fields, LimitChange DEF L
      <3> HIDE DEF e
      <3>4. DOMAIN r.recents \subseteq Int
        BY <1>7, Fields, RecentsType, NumberAssumption DEF VInv
      <3>5. CASE e.signers = s.signers \cup {h.coinbase} /\ e.recents = r.recents
        <4>1. \A n \in DOMAIN r.recents : number - limit(e.signers) < n
          BY <1>1, <1>6, <1>9, <3>3, <3>4, <3>5
        <4> QED  BY <3>2, <3>5, <4>1
      <3>6. CASE /\ e.signers = s.signers \ {h.coinbase}
                 /\ e.recents = shiftRecents(u, number).recents
        <4>1. u \in Snapshot /\ u.recents = r.recents /\ u.signers = e.signers
          BY <1>11, <3>6 DEF VInv, Snapshot
        <4> HIDE DEF u
        <4>2. \A n \in DOMAIN u.recents : number - limit(u.signers) <= n
          BY <1>1, <1>6, <1>9, <3>3, <3>4, <3>6, <4>1
        <4>3. /\ DOMAIN e.recents \subseteq DOMAIN u.recents
              /\ \A n \in DOMAIN e.recents : e.recents[n] = u.recents[n]
              /\ \A n \in DOMAIN e.recents : number - limit(u.signers) < n
          <5> DEFINE k == shiftRecents(u, number)
          <5>1. /\ DOMAIN k.recents \subseteq DOMAIN u.recents
                /\ \A n \in DOMAIN k.recents : k.recents[n] = u.recents[n]
                /\ \A n \in DOMAIN k.recents : number - limit(u.signers) < n
            BY <1>1, <4>1, <4>2, ShiftWindow
          <5>2. e.recents = k.recents
            BY <3>6
          <5> HIDE DEF k
          <5> QED  BY <5>1, <5>2
        <4> QED  BY <3>2, <4>1, <4>3
      <3> QED  BY <3>2, <3>5, <3>6
    <2> QED  BY <2>1, <2>2
  <1> HIDE DEF e
  <1>13. x \in Snapshot /\ SameVotes(e, x) /\ x.number = number /\ x.recents = e.recents
    BY <1>1, <1>3, <1>12 DEF VInv, Snapshot, SameVotes
  <1>14. VInv(x)
    BY <1>12, <1>13, SameVotesInv
  <1>15. recentsSpread(x)
    BY <1>9, <1>12, <1>13 DEF recentsSpread, SameVotes
  <1> QED  BY <1>14, <1>15 DEF IInv

(* The snapshot of the genesis block satisfies the invariant.              *)
LEMMA InitInv == Init => IInv(snap)
  <1> SUFFICES ASSUME Init PROVE IInv(snap)
    OBVIOUS
  <1> DEFINE none == [n \in {} |-> Zero]
  <1>1. none \in Recents /\ DOMAIN none = {}
    BY RecentsType
  <1>2. /\ snap \in Snapshot /\ snap.votes = {} /\ snap.recents = none
        /\ snap.tally = [a \in Accounts |-> NoTally]
    BY <1>1, GenesisAssumption DEF Init, newSnapshot, Snapshot, Recents, Tally, NoTally
  <1>3. IsFiniteSet(snap.votes) /\ Cardinality({}) = 0
    BY <1>2, FS_EmptySet
  <1>4. votesDistinct(snap) /\ recentsSpread(snap)
    BY <1>1, <1>2 DEF votesDistinct, recentsSpread
  <1>5. \A a \in Accounts : about(snap, a) = {} /\ snap.tally[a].votes = 0
    BY <1>2 DEF about, NoTally
  <1>6. tallyAgrees(snap)
    BY <1>3, <1>5 DEF tallyAgrees
  <1> QED  BY <1>2, <1>3, <1>4, <1>6 DEF IInv, VInv

Inv == IInv(snap)

(* The invariant that carries the rest: types, at most one pending vote    *)
(* per signer and account, a tally that counts exactly the pending votes,  *)
(* and a window of recent sealers that holds nobody twice.                 *)
THEOREM Invariance == Spec => []Inv
  <1>1. Inv /\ [Next]_snap => Inv'
    <2> SUFFICES ASSUME IInv(snap), [Next]_snap
                 PROVE  IInv(snap')
      BY DEF Inv
    <2>1. ASSUME NEW h \in Header, Apply(h)
          PROVE  IInv(snap')
      BY <2>1, ApplyInv DEF Apply
    <2>2. CASE UNCHANGED snap
      BY <2>2 DEF IInv, VInv, votesDistinct, tallyAgrees, about, recentsSpread
    <2> QED  BY <2>1, <2>2 DEF Next
  <1>2. Init => Inv
    BY InitInv DEF Inv
  <1> QED  BY <1>1, <1>2, PTL DEF Spec

(* Every field of the snapshot keeps the type snapshot.go gives it.        *)
THEOREM TypeCorrect == Spec => []TypeOK
  <1>1. Inv => TypeOK
    BY DEF Inv, IInv, VInv, TypeOK
  <1> QED  BY <1>1, Invariance, PTL

(* No signer is counted twice in a vote and no removed signer still votes. *)
THEOREM VotesDistinctTheorem == Spec => []VotesByDistinctSigners
  <1>1. Inv => VotesByDistinctSigners
    BY DEF Inv, IInv, VInv, VotesByDistinctSigners
  <1> QED  BY <1>1, Invariance, PTL

(* The cached tally is always the count of the pending votes.              *)
THEOREM TallyTheorem == Spec => []TallyFaithful
  <1>1. Inv => TallyFaithful
    BY DEF Inv, IInv, VInv, TallyFaithful
  <1> QED  BY <1>1, Invariance, PTL

(* Within limit consecutive blocks no signer seals two.                    *)
THEOREM RecentsTheorem == Spec => []RecentsSpread
  <1>1. Inv => RecentsSpread
    BY DEF Inv, IInv, RecentsSpread
  <1> QED  BY <1>1, Invariance, PTL

(* The signers barred from the next block each own a different block of a  *)
(* window that is shorter than the signer list, so one signer is free.     *)
LEMMA FreeSigner ==
  ASSUME NEW s, IInv(s), s.signers # {}
  PROVE  \E a \in s.signers : authorized(s, s.number + 1, a)
  <1> DEFINE o == openBlock(s, s.number + 1)
             S == s.signers
             D == DOMAIN o.recents
             N == s.number
             W == ((N + 2) - limit(S)) .. N
  <1>0. s \in Snapshot /\ recentsSpread(s) /\ N \in Nat /\ S \in SUBSET Accounts
    BY Fields DEF IInv, VInv
  <1>1. /\ o \in Snapshot /\ o.signers = S
        /\ \A n \in D : (N + 1) - limit(S) < n /\ n <= N
    BY <1>0, OpenWindow, Zenon
  <1>2. IsFiniteSet(S) /\ Cardinality(S) \in Nat /\ limit(S) \in Nat
        /\ limit(S) = (Cardinality(S) \div 2) + 1
    BY <1>0, LimitType
  <1>3. Cardinality(S) # 0
    BY <1>2, FS_EmptySet
  <1>4. D \subseteq Int
    BY <1>1, Fields, RecentsType, NumberAssumption
  <1> HIDE DEF o, S, D, N
  <1>5. D \subseteq W
    BY <1>0, <1>1, <1>2, <1>4
  <1>6. IsFiniteSet(W) /\ Cardinality(W) = IF (N + 2) - limit(S) > N
                                             THEN 0 ELSE (N - ((N + 2) - limit(S))) + 1
    <2>1. (N + 2) - limit(S) \in Int /\ N \in Int
      BY <1>0, <1>2
    <2> QED  BY <2>1, FS_Interval
  <1>7. Cardinality(W) < Cardinality(S)
    BY <1>0, <1>2, <1>3, <1>6
  <1>8. IsFiniteSet(D) /\ Cardinality(D) <= Cardinality(W) /\ Cardinality(D) \in Nat
        /\ Cardinality(W) \in Nat
    <2> HIDE DEF W
    <2>1. IsFiniteSet(D) /\ Cardinality(D) <= Cardinality(W)
      BY <1>5, <1>6, FS_Subset
    <2> QED  BY <1>6, <2>1, FS_CardinalityType
  <1>9. ASSUME \A a \in S : \E n \in D : o.recents[n] = a
        PROVE  FALSE
    <2> DEFINE f == [a \in S |-> CHOOSE n \in D : o.recents[n] = a]
    <2>1. \A a \in S : f[a] \in D /\ o.recents[f[a]] = a
      BY <1>9
    <2>2. f \in [S -> D]
      BY <2>1
    <2> HIDE DEF f
    <2>3. f \in Injection(S, D)
      BY <2>1, <2>2 DEF Injection, IsInjective
    <2>4. Cardinality(S) <= Cardinality(D)
      BY <1>8, <2>3, FS_Injection
    <2> HIDE DEF W
    <2> QED  BY <1>2, <1>7, <1>8, <2>4
  <1> QED  BY <1>1, <1>9 DEF authorized, o, S, D, N

(* The recent-signer rule never leaves a non-empty signer list without a   *)
(* signer that may seal the next block.                                    *)
THEOREM SomeoneMaySealTheorem == Spec => []SomeoneMaySeal
  <1>1. Inv => SomeoneMaySeal
    BY FreeSigner DEF Inv, SomeoneMaySeal
  <1> QED  BY <1>1, Invariance, PTL

=============================================================================
