--------------------------- MODULE CliqueVerifier ---------------------------
(***************************************************************************)
(* One clique engine that verifies batches of headers: Clique.snapshot     *)
(* finds the voting snapshot of a header's parent in the memory cache, in  *)
(* a checkpoint on disk or by replaying headers, while VerifyHeaders runs  *)
(* ahead of the chain that imports what it accepts.                        *)
(***************************************************************************)
EXTENDS CliqueEngine

CONSTANTS Candidates,           \* headers that may arrive
          CheckpointInterval,   \* checkpointInterval
          CacheSize,            \* inmemorySnapshots
          MaxTime,              \* bound: the clock
          MaxBatch,             \* bound: headers in one batch
          MaxHeaders            \* bound: headers imported

ASSUME VerifierAssumption == /\ CheckpointInterval \in Nat \ {0}
                             /\ CacheSize \in Nat \ {0}

VARIABLES db,       \* the chains whose headers are in the database
          recents,  \* Clique.recents: chain |-> snapshot
          disk,     \* stored snapshots, chain |-> snapshot
          batch,    \* the batch that is being verified, or NoBatch
          now       \* wall clock, in seconds

vars == <<db, recents, disk, batch, now>>

NoBatch == [anchor |-> <<>>, headers |-> <<>>, verified |-> 0, good |-> 0, imported |-> 0]

prefix(b, n) == b.anchor \o SubSeq(b.headers, 1, n)

Init == /\ db = {<<>>}
        /\ recents = [c \in {} |-> newSnapshot]
        /\ disk = [c \in {} |-> newSnapshot]
        /\ batch = NoBatch
        /\ now = 2

-----------------------------------------------------------------------------
(* Clique.snapshot.                                                        *)

put(f, k, v) == [x \in DOMAIN f \cup {k} |-> IF x = k THEN v ELSE f[x]]

onDisk(c) == Len(c) % CheckpointInterval = 0 /\ c \in DOMAIN disk

(* The nearest ancestor of a chain whose snapshot need not be computed.    *)
start(c) ==
    LET held == {n \in 0 .. Len(c) :
                    LET q == SubSeq(c, 1, n)
                    IN  n = 0 \/ q \in DOMAIN recents \/ onDisk(q)}
    IN  SubSeq(c, 1, Max(held))

startSnapshot(q) == IF q \in DOMAIN recents THEN recents[q]
                    ELSE IF onDisk(q) THEN disk[q] ELSE newSnapshot

(* Mutant: the headers are applied in the order they were gathered.        *)
pendingUnreversed(c, q) == Reverse(SubSeq(c, Len(q) + 1, Len(c)))

(* The headers gathered on the way back, oldest first.                     *)
pending(c, q) == SubSeq(c, Len(q) + 1, Len(c))

retrievable(c) == applies(startSnapshot(start(c)), pending(c, start(c)))

snapshot(c) == FoldLeft(apply, startSnapshot(start(c)), pending(c, start(c)))

(* The cache drops any entry when it is full.                              *)
cacheAdd(c, s) ==
    \/ Cardinality(DOMAIN recents \cup {c}) <= CacheSize /\ recents' = put(recents, c, s)
    \/ /\ Cardinality(DOMAIN recents \cup {c}) > CacheSize
       /\ \E gone \in DOMAIN recents \ {c} :
             recents' = [x \in (DOMAIN recents \ {gone}) \cup {c} |->
                            IF x = c THEN s ELSE recents[x]]

(* What a call of Clique.snapshot leaves behind.  The genesis snapshot is  *)
(* stored before the headers are applied, the result after.                *)
retrieve(c) ==
    LET q     == start(c)
        fresh == q = <<>> /\ q \notin DOMAIN recents /\ ~onDisk(q)
        base  == IF fresh THEN put(disk, q, newSnapshot) ELSE disk
        save  == Len(c) % CheckpointInterval = 0 /\ c # q
    IN  IF retrievable(c)
          THEN /\ cacheAdd(c, snapshot(c))
               /\ disk' = IF save THEN put(base, c, snapshot(c)) ELSE base
          ELSE disk' = base /\ UNCHANGED recents

-----------------------------------------------------------------------------
(* VerifyHeaders is given a batch on top of a known header; the caller has *)
(* checked that the headers are contiguous.                                *)
StartBatch(anchor, headers) ==
    /\ batch = NoBatch
    /\ Cardinality(db) - 1 + Len(headers) <= MaxHeaders
    /\ Len(anchor) + Len(headers) <= MaxNumber
    /\ anchor \o headers \notin db
    /\ batch' = [NoBatch EXCEPT !.anchor = anchor, !.headers = headers]
    /\ UNCHANGED <<db, recents, disk, now>>

(* Mutant: a good header counts although one before it failed.             *)
advanceOnAny(b, ok) ==
    [b EXCEPT !.verified = @ + 1, !.good = IF ok THEN @ + 1 ELSE @]

(* The results are read in order, up to the first error.                   *)
advance(b, ok) ==
    [b EXCEPT !.verified = @ + 1,
              !.good = IF ok /\ b.good = b.verified THEN @ + 1 ELSE @]

(* The next header, with those before it as explicit parents.  A header    *)
(* that fails is reported and the following ones are verified all the same *)
(* until the consumer aborts.                                              *)
Verify ==
    /\ batch.verified < Len(batch.headers)
    /\ LET n       == batch.verified
           parent  == prefix(batch, n)
           h       == batch.headers[n + 1]
           early   == ~standalone(Len(parent) + 1, h, now)
                      \/ timeOf(parent) + Period > h.time
           ok      == /\ ~early
                      /\ retrievable(parent)
                      /\ verifyHeader(parent, snapshot(parent), h, now)
       IN  /\ batch' = advance(batch, ok)
           /\ IF early THEN UNCHANGED <<recents, disk>> ELSE retrieve(parent)
    /\ UNCHANGED <<db, now>>

(* The importer writes the next block whose header has been accepted.      *)
Import ==
    /\ batch.imported < batch.good
    /\ batch' = [batch EXCEPT !.imported = @ + 1]
    /\ db' = db \cup {prefix(batch, batch.imported + 1)}
    /\ UNCHANGED <<recents, disk, now>>

(* The importer has seen an error, or every result, and drops the batch.   *)
Abort ==
    /\ batch # NoBatch
    /\ batch' = NoBatch
    /\ UNCHANGED <<db, recents, disk, now>>

(* API.GetSnapshot, Prepare and Seal look up an imported header.           *)
Lookup(c) ==
    /\ retrieve(c)
    /\ UNCHANGED <<db, batch, now>>

(* The process stops and starts again: only the database survives.         *)
Restart ==
    /\ recents' = [c \in {} |-> newSnapshot]
    /\ batch' = NoBatch
    /\ UNCHANGED <<db, disk, now>>

Tick == now < MaxTime /\ now' = now + 1 /\ UNCHANGED <<db, recents, disk, batch>>

Next == \/ \E anchor \in db, n \in 1 .. MaxBatch :
              \E headers \in [1 .. n -> Candidates] : StartBatch(anchor, headers)
        \/ Verify \/ Import \/ Abort \/ Restart \/ Tick
        \/ \E c \in db : Lookup(c)

Spec == Init /\ [][Next]_vars

-----------------------------------------------------------------------------
(* The cache and the checkpoints on disk hold, under the hash of a header, *)
(* the snapshot that replaying the chain from genesis gives, whatever mix  *)
(* of cache, disk, explicit parents and restarts produced it.              *)
SnapshotsFaithful ==
    /\ \A c \in DOMAIN recents : applies(newSnapshot, c) /\ recents[c] = replay(c)
    /\ \A c \in DOMAIN disk : applies(newSnapshot, c) /\ disk[c] = replay(c)

(* Only headers that verifyHeader accepts against the replayed snapshot of *)
(* their parent are imported: no header slips in behind a rejected one.    *)
ImportedAreValid ==
    \A c \in db \ {<<>>} :
        /\ Front(c) \in db
        /\ applies(newSnapshot, Front(c))
        /\ verifyHeader(Front(c), replay(Front(c)), Last(c), now)

(* Of the headers imported on one parent only one signer's have the        *)
(* in-turn difficulty: forks of a block are ordered by whose turn it was.  *)
OneInTurnSealer ==
    \A c, d \in db \ {<<>>} :
        /\ Front(c) = Front(d)
        /\ Last(c).difficulty = diffInTurn /\ Last(d).difficulty = diffInTurn
        => Last(c).signer = Last(d).signer

(* From the first full window on, verifySeal and apply bar the same        *)
(* signers: an accepted header can be applied and so be built upon.        *)
LateSealsApply ==
    \A c \in db \ {<<>>} :
        Len(c) >= limit(replay(Front(c)).signers) => applies(newSnapshot, c)

(* verifySeal fails a recent signer unless the block shifts it out, so an  *)
(* accepted header can always be applied and be built upon.                *)
AcceptedCanBeExtended == \A c \in db : applies(newSnapshot, c)

=============================================================================
