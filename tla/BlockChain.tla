----------------------------- MODULE BlockChain -----------------------------
(***************************************************************************)
(* The chain of a full node (core/blockchain.go, headerchain.go): blocks   *)
(* of a fixed tree arrive in any order, from peers (InsertChain) and from  *)
(* the local miner, the heaviest one becomes the head, and the node is     *)
(* rewound, stopped, killed and started again in between.                  *)
(*                                                                         *)
(* store is the database together with the chain's memory.  An operation   *)
(* that holds bc.mu makes its database writes one by one: path is the      *)
(* sequence of stores it has still to pass through, and a crash may happen *)
(* between any two of them.  What insertChain and the worker read without  *)
(* the lock are steps of their own, between which the lock may be held by  *)
(* others.  Blocks are identified with their hashes, and every block has a *)
(* state root of its own.                                                  *)
(***************************************************************************)
EXTENDS Integers, Sequences, SequencesExt, FiniteSets

CONSTANTS Blocks, Genesis,
          Parent, Number, Difficulty,
          Transactions,
          Txs,              \* block |-> the transactions in it
          Archive,          \* cacheConfig.Disabled: every state goes to disk
          TriesInMemory,    \* triesInMemory
          Scenarios,        \* what may happen to the node: records of Scenario
          None

All == Blocks \cup {Genesis}

Scenario ==
    [blocks  : SUBSET Blocks,    \* the blocks that arrive
     early   : SUBSET Blocks,    \* those whose timestamp is ahead of the clock
     mined   : SUBSET Blocks,    \* those that the local miner seals
     rewinds : SUBSET (0 .. Cardinality(Blocks)),    \* numbers SetHead may be called with
     crashes : SUBSET {"between", "within"}]         \* when, of operations, it may be killed

ASSUME ChainAssumption ==
    /\ IsFiniteSet(Blocks) /\ Genesis \notin Blocks /\ None \notin All
    /\ Parent \in [Blocks -> All] /\ Number \in [All -> Nat] /\ Number[Genesis] = 0
    /\ \A b \in Blocks : Number[b] = Number[Parent[b]] + 1
    /\ Difficulty \in [All -> Nat]
    /\ Txs \in [All -> SUBSET Transactions] /\ Txs[Genesis] = {}
    /\ Archive \in BOOLEAN /\ TriesInMemory \in Nat \ {0}
    /\ Scenarios \subseteq Scenario

Heights == 0 .. Cardinality(Blocks)

(* A block with its ancestors, and its total difficulty.                   *)
lineage[b \in All] == IF b = Genesis THEN {Genesis} ELSE {b} \cup lineage[Parent[b]]
td[b \in All] == IF b = Genesis THEN Difficulty[b] ELSE Difficulty[b] + td[Parent[b]]

highest(bs) == CHOOSE b \in bs : \A a \in bs : Number[a] <= Number[b]
upward(bs) == SetToSortSeq(bs, LAMBDA a, b : Number[a] < Number[b])

Threads == {"import", "miner"}

(* A block that a thread has in hand and what it does with it next.  held: *)
(* the parent is in hand as well and is not read from the database.        *)
Task == [block : Blocks, step : {"verify", "execute", "weigh", "write"}, held : BOOLEAN]

task(b, step) == [block |-> b, step |-> step, held |-> FALSE]

VARIABLES store, path,
          work,     \* thread |-> the tasks it has still to work through
          scenario, \* what happens to the node
          panicked  \* the process has died of a nil pointer

vars == <<store, path, work, scenario, panicked>>

Init ==
    /\ store = [headers |-> {Genesis}, bodies |-> {Genesis}, tds |-> {Genesis},
                canon |-> [n \in Heights |-> IF n = 0 THEN Genesis ELSE None],
                headBlock |-> Genesis, headHeader |-> Genesis, headFast |-> Genesis,
                lookup |-> [t \in Transactions |-> None],
                disk |-> {Genesis},     \* blocks whose state is on disk
                block |-> Genesis, header |-> Genesis, fast |-> Genesis,
                trie |-> {},            \* blocks whose state is held in memory
                future |-> {}]
    /\ path = <<>> /\ work = [w \in Threads |-> <<>>]
    /\ scenario \in Scenarios /\ panicked = FALSE

(* bc.mu is free.                                                          *)
idle == path = <<>>

GetBlock(c, b) == b \in c.headers \cap c.bodies
HasState(c, b) == b \in c.disk \cup c.trie
HasBlockAndState(c, b) == GetBlock(c, b) /\ HasState(c, b)

-----------------------------------------------------------------------------
(* Writing a block.  The operators extend a path.                          *)

(* The block becomes the head; the head header and the head fast block     *)
(* follow when it is new in the canonical chain.                           *)
insert(p, b) ==
    LET c  == Last(p)
        c1 == [c EXCEPT !.canon = [c.canon EXCEPT ![Number[b]] = b]]
        c2 == [c1 EXCEPT !.headBlock = b, !.block = b]
        c3 == [c2 EXCEPT !.headHeader = b, !.header = b]
        c4 == [c3 EXCEPT !.headFast = b, !.fast = b]
    IN  p \o IF c.canon[Number[b]] # b THEN <<c1, c2, c3, c4>> ELSE <<c2>>

lookups(c, txs, b) == [t \in Transactions |-> IF t \in txs THEN b ELSE c.lookup[t]]

WriteTxLookupEntries(p, b) ==
    Append(p, [Last(p) EXCEPT !.lookup = lookups(Last(p), Txs[b], b)])

(* The walks of reorg down to the common ancestor find every block.        *)
linked(c, old, new) ==
    LET fork   == Number[highest(lineage[old] \cap lineage[new])]
        walked == {b \in lineage[old] \cup lineage[new] : Number[b] >= fork}
    IN  \A b \in walked \ {old, new} : GetBlock(c, b)

(* Mutant: only the new head is entered in the canonical chain.            *)
reorgHeadOnly(p, old, new) == WriteTxLookupEntries(insert(p, new), new)

(* Mutant: the lookups of the transactions that drop out are kept.         *)
reorgKeepsLookups(p, old, new) ==
    FoldLeft(LAMBDA q, b : WriteTxLookupEntries(insert(q, b), b),
             p, upward(lineage[new] \ lineage[old]))

(* The blocks of the new chain become canonical, oldest first, the new     *)
(* head included; then the lookups of transactions that dropped out go.    *)
reorg(p, old, new) ==
    LET added   == lineage[new] \ lineage[old]
        removed == lineage[old] \ lineage[new]
        moved   == FoldLeft(LAMBDA q, b : WriteTxLookupEntries(insert(q, b), b),
                            p, upward(added))
        diff    == UNION {Txs[b] : b \in removed} \ UNION {Txs[b] : b \in added}
    IN  Append(moved, [Last(moved) EXCEPT !.lookup = lookups(Last(moved), diff, None)])

chosen(b) == Number[b] - TriesInMemory

(* The new state goes to disk, or to memory, where the states of older     *)
(* blocks are released.  When memory or time are short (flush) the state   *)
(* of the canonical block at the retention limit is written out first.     *)
commitState(c, b, flush) ==
    LET trie == c.trie \cup {b}
    IN  IF Archive THEN [c EXCEPT !.disk = c.disk \cup {b}]
        ELSE IF chosen(b) <= 0 THEN [c EXCEPT !.trie = trie]
        ELSE [c EXCEPT !.disk = IF flush THEN c.disk \cup ({c.canon[chosen(b)]} \cap trie)
                                         ELSE c.disk,
                       !.trie = {a \in trie : Number[a] > chosen(b)}]

(* The header at the retention limit, which the code takes for granted.    *)
retentionKnown(c, b) ==
    ~Archive /\ chosen(b) > 0 => c.canon[chosen(b)] \in c.headers

(* Whether a block becomes the head; coin breaks a tie of equal numbers.   *)
outweighs(c, b, coin) ==
    \/ td[b] > td[c.block]
    \/ td[b] = td[c.block] /\ Number[b] < Number[c.block]
    \/ td[b] = td[c.block] /\ Number[b] = Number[c.block] /\ coin

WriteTd(p, b) == Append(p, [Last(p) EXCEPT !.tds = Last(p).tds \cup {b}])

(* WriteBlock, with the lookups of a canonical block in the same batch.    *)
WriteBlock(p, b, txs) ==
    LET c == Last(p)
    IN  Append(p, [c EXCEPT !.headers = c.headers \cup {b}, !.bodies = c.bodies \cup {b},
                            !.lookup = lookups(c, txs, b)])

(* Mutant: a new head is marked before the block is written.               *)
WriteBlockWithStateLate(c, b, flush, coin) ==
    LET stated == Append(<<c>>, commitState(c, b, flush))
    IN  WriteBlock(WriteTd(IF outweighs(c, b, coin) THEN insert(stated, b) ELSE stated, b), b, Txs[b])

(* The block is to become the head on another chain, to which reorg finds  *)
(* no way.                                                                 *)
reorgFails(c, b, coin) ==
    outweighs(c, b, coin) /\ Parent[b] # c.block /\ ~linked(c, c.block, b)

(* A failed reorg leaves the total difficulty and the state behind but not *)
(* the block.                                                              *)
WriteBlockWithState(c, b, flush, coin) ==
    LET start  == WriteTd(<<c>>, b)
        stated == Append(start, commitState(Last(start), b, flush))
        canon  == outweighs(c, b, coin)
        moved  == IF canon /\ Parent[b] # c.block THEN reorg(stated, c.block, b) ELSE stated
        wrote  == WriteBlock(moved, b, IF canon THEN Txs[b] ELSE {})
        done   == IF canon THEN insert(wrote, b) ELSE wrote
    IN  IF reorgFails(c, b, coin) THEN stated
        ELSE Append(done, [Last(done) EXCEPT !.future = Last(done).future \ {b}])

(* Mutant: the total difficulty is not stored.                             *)
WriteBlockWithoutStateNoTd(c, b) == WriteBlock(<<c>>, b, {})

WriteBlockWithoutState(c, b) == WriteBlock(WriteTd(<<c>>, b), b, {})

-----------------------------------------------------------------------------
(* InsertChain.  A batch of several blocks is the same as its blocks one   *)
(* by one; the blocks of a fork that must be executed first go in front.   *)

(* What VerifyHeaders and ValidateBody say of a block.                     *)
verdict(c, b) ==
    IF b \in scenario.early THEN "future"
    ELSE IF Parent[b] \notin c.headers THEN "unknown"
    ELSE IF HasBlockAndState(c, b) THEN "known"
    ELSE IF HasBlockAndState(c, Parent[b]) THEN "ok"
    ELSE IF Parent[b] \in c.bodies THEN "pruned" ELSE "unknown"

(* A thread drops its tasks, goes on to the next or to the next step.      *)
give(w, tasks) == work' = [work EXCEPT ![w] = tasks]
next(w, step) == give(w, <<[Head(work[w]) EXCEPT !.step = step]>> \o Tail(work[w]))

InsertChain(b) ==
    /\ work["import"] = <<>> /\ ~panicked
    /\ give("import", <<task(b, "verify")>>)
    /\ UNCHANGED <<store, path, scenario, panicked>>

(* A block too far ahead of the clock, or with an unknown parent, ends the *)
(* import.                                                                 *)
RefuseEarly(b) ==
    /\ verdict(store, b) = "future"
    /\ give("import", <<>>)
    /\ UNCHANGED <<store, path, panicked>>

RefuseUnknown(b) ==
    /\ verdict(store, b) = "unknown" /\ Parent[b] \notin store.future
    /\ give("import", <<>>)
    /\ UNCHANGED <<store, path, panicked>>

(* A block that is ahead of the clock, or whose parent is, is kept for     *)
(* procFutureBlocks.                                                       *)
Queue(b) ==
    /\ \/ verdict(store, b) = "future"
       \/ verdict(store, b) = "unknown" /\ Parent[b] \in store.future
    /\ store' = [store EXCEPT !.future = store.future \cup {b}]
    /\ give("import", Tail(work["import"]))
    /\ UNCHANGED <<path, panicked>>

(* A known block is executed again only if the chain has been rewound.     *)
Skip(b) ==
    /\ verdict(store, b) = "known" /\ Number[store.block] >= Number[b]
    /\ give("import", Tail(work["import"]))
    /\ UNCHANGED <<store, path, panicked>>

begin(p) == path' = Tail(p) /\ UNCHANGED store

(* Mutant: the longer chain counts as the better one.                      *)
lighterByNumber(c, b) == Number[b] <= Number[c.block]

(* The block with its ancestors weighs less than the head.  The code takes *)
(* for granted that the total difficulty of the parent is stored.          *)
lighter(c, b) == Parent[b] \in c.tds /\ td[c.block] > td[b]

(* A fork whose states are gone is stored unexecuted while it is lighter.  *)
StoreFork(b) ==
    /\ verdict(store, b) = "pruned" /\ lighter(store, b)
    /\ begin(WriteBlockWithoutState(store, b))
    /\ give("import", Tail(work["import"]))
    /\ UNCHANGED panicked

(* The nearest ancestor with a state, and the blocks above it.             *)
base(b) == highest({a \in lineage[Parent[b]] : HasState(store, a)})

(* Mutant: the block that has the state is taken along.                    *)
winnerWithBase(b) == (lineage[Parent[b]] \ lineage[base(b)]) \cup {base(b)}

winner(b) == lineage[Parent[b]] \ lineage[base(b)]

(* Otherwise its blocks are imported from the last known state on, and the *)
(* block is executed after them.  The import dies where the difficulty of  *)
(* the parent, or a block on the way back to that state, is missing.       *)
Gather(b) ==
    LET chain == upward(winner(b)) IN
    /\ verdict(store, b) = "pruned" /\ ~lighter(store, b)
    /\ panicked' = ~(/\ Parent[b] \in store.tds
                     /\ \A a \in winner(b) \cup {base(b)} : GetBlock(store, a))
    /\ give("import", IF panicked' THEN <<>>
                      ELSE [i \in DOMAIN chain |-> [task(chain[i], "verify") EXCEPT !.held = i > 1]]
                           \o <<task(b, "execute")>> \o Tail(work["import"]))
    /\ UNCHANGED <<store, path>>

(* The block has passed the checks, or is to be executed again.            *)
Accept(b) ==
    /\ \/ verdict(store, b) = "ok"
       \/ verdict(store, b) = "known" /\ Number[store.block] < Number[b]
    /\ next("import", "execute")
    /\ UNCHANGED <<store, path, panicked>>

(* The block is executed on the state of its parent.                       *)
Execute(b) ==
    /\ panicked' = ~(Head(work["import"]).held \/ GetBlock(store, Parent[b]))
    /\ IF ~panicked' /\ HasState(store, Parent[b])
         THEN next("import", "weigh") ELSE give("import", <<>>)
    /\ UNCHANGED <<store, path>>

(* WriteBlockWithState reads the total difficulty of the parent before it  *)
(* takes the lock.                                                         *)
Weigh(w, b) ==
    /\ IF Parent[b] \in store.tds THEN next(w, "write") ELSE give(w, <<>>)
    /\ UNCHANGED <<store, path, panicked>>

(* It writes under the lock.  A failed reorg ends the import.              *)
Write(w, b) ==
    \/ /\ retentionKnown(store, b)
       /\ \E flush, coin \in BOOLEAN :
             /\ begin(WriteBlockWithState(store, b, flush, coin))
             /\ give(w, IF reorgFails(store, b, coin) THEN <<>> ELSE Tail(work[w]))
       /\ UNCHANGED panicked
    \/ /\ ~retentionKnown(store, b)
       /\ panicked' = TRUE /\ give(w, <<>>)
       /\ store' = Last(WriteTd(<<store>>, b))
       /\ UNCHANGED path

turn(w, b, step) ==
    /\ idle /\ ~panicked
    /\ work[w] # <<>> /\ Head(work[w]).block = b /\ Head(work[w]).step = step
    /\ UNCHANGED scenario

Process(b) == \/ turn("import", b, "verify") /\ RefuseEarly(b)
              \/ turn("import", b, "verify") /\ RefuseUnknown(b)
              \/ turn("import", b, "verify") /\ Queue(b)
              \/ turn("import", b, "verify") /\ Skip(b)
              \/ turn("import", b, "verify") /\ StoreFork(b)
              \/ turn("import", b, "verify") /\ Gather(b)
              \/ turn("import", b, "verify") /\ Accept(b)
              \/ turn("import", b, "execute") /\ Execute(b)
              \/ \E w \in Threads : turn(w, b, "weigh") /\ Weigh(w, b)
              \/ \E w \in Threads : turn(w, b, "write") /\ Write(w, b)

(* The worker begins a block on the head, whose state it needs; once it is *)
(* sealed it is written, whatever has become of the parent.                *)
Mine(b) ==
    /\ idle /\ ~panicked /\ work["miner"] = <<>>
    /\ b \notin store.bodies /\ Parent[b] = store.block /\ HasState(store, Parent[b])
    /\ give("miner", <<task(b, "weigh")>>)
    /\ UNCHANGED <<store, path, scenario, panicked>>

(* The next database write of the operation that holds bc.mu.              *)
Advance ==
    /\ path # <<>>
    /\ store' = Head(path) /\ path' = Tail(path)
    /\ UNCHANGED <<work, scenario, panicked>>

(* Time passes, and procFutureBlocks inserts what has become current.      *)
Tick == /\ scenario.early # {} /\ scenario' = [scenario EXCEPT !.early = {}]
        /\ UNCHANGED <<store, path, work, panicked>>
procFutureBlocks == \E b \in store.future : InsertChain(b)

-----------------------------------------------------------------------------
(* Rewinding, stopping and starting.                                       *)

(* Mutant: repair goes back one block and no further.                      *)
repairedOnce(c) ==
    IF HasState(c, c.headBlock) THEN c.headBlock ELSE Parent[c.headBlock]

(* loadLastState: the head is the marked block or its nearest ancestor     *)
(* with a state (repair).                                                  *)
repaired(c) == highest({a \in lineage[c.headBlock] : HasState(c, a)})

loadLastState(c) ==
    LET b == repaired(c)
        h == IF c.headHeader \in c.headers THEN c.headHeader ELSE b
    IN  [c EXCEPT !.block = b, !.header = h, !.headHeader = h,
                  !.fast = IF GetBlock(c, c.headFast) THEN c.headFast ELSE b]

(* The walk of repair finds every block.  A missing head block leads to    *)
(* Reset, and there to CurrentBlock, which was never set.                  *)
loadable(c) ==
    \A a \in lineage[c.headBlock] : Number[a] >= Number[repaired(c)] => GetBlock(c, a)

(* What a new process finds: the database.                                 *)
reopened(c) == [c EXCEPT !.trie = {}, !.future = {}]

(* The headers from the current one down to n as far as they are found.    *)
above(c, n) ==
    {b \in lineage[c.header] :
        /\ Number[b] > n
        /\ \A a \in lineage[c.header] \ {c.header} : Number[a] >= Number[b] => a \in c.headers}

(* HeaderChain.SetHead deletes what is above the new head block by block,  *)
(* body, header and total difficulty, then the canonical numbers.  Where   *)
(* the headers end before n the genesis header is the new one.             *)
rewindHeaders(c, n) ==
    LET gone == Reverse(upward(above(c, n)))
        below(b) == IF Parent[b] \in c.headers THEN Parent[b] ELSE Genesis
        delete(q, b) ==
            LET c1 == [Last(q) EXCEPT !.bodies = Last(q).bodies \ {b}]
                c2 == [c1 EXCEPT !.headers = c1.headers \ {b}]
                c3 == [c2 EXCEPT !.tds = c2.tds \ {b}, !.header = below(b)]
            IN  q \o <<c1, c2, c3>>
        numbers == [i \in 1 .. (Number[c.header] - n) |-> Number[c.header] + 1 - i]
    IN  FoldLeft(LAMBDA q, m : Append(q, [Last(q) EXCEPT !.canon =
                                              [Last(q).canon EXCEPT ![m] = None]]),
                 FoldLeft(delete, <<c>>, gone), numbers)

setHead(c, n) ==
    LET p        == rewindHeaders(c, n)
        c0       == Last(p)
        low(b)   == IF Number[c0.header] >= Number[b] THEN b
                    ELSE IF GetBlock(c0, c0.header) THEN c0.header ELSE Genesis
        c1       == [c0 EXCEPT !.headHeader = c0.header]
        head     == IF HasState(c0, low(c.block)) THEN low(c.block) ELSE Genesis
        c2       == [c1 EXCEPT !.future = {}, !.block = head, !.headBlock = head,
                               !.fast = low(c.fast)]
        c3       == [c2 EXCEPT !.headFast = c2.fast]
    IN  p \o <<c1, c2, c3, loadLastState(c3)>>

SetHead(n) ==
    /\ idle /\ ~panicked
    /\ begin(setHead(store, n))
    /\ UNCHANGED <<work, scenario, panicked>>

(* Mutant: the head's own state is left out.                               *)
stopStatesBelow(c) ==
    {c.canon[Number[c.block] - o] : o \in {n \in {1, TriesInMemory} : Number[c.block] > n}} \cap c.trie

(* The states Stop writes to disk: those of the head, its parent and the   *)
(* oldest one in memory.                                                   *)
stopStates(c) ==
    IF Archive THEN {}
    ELSE {c.canon[Number[c.block] - offset] :
            offset \in {o \in {0, 1, TriesInMemory - 1} : Number[c.block] > o}} \cap c.trie

restart(c) ==
    /\ work' = [w \in Threads |-> <<>>] /\ path' = <<>>
    /\ panicked' = ~loadable(reopened(c))
    /\ store' = IF panicked' THEN c ELSE loadLastState(reopened(c))
    /\ UNCHANGED scenario

(* Stop waits for the block that insertChain has verified and for a write. *)
busy == \E w \in Threads :
            /\ work[w] # <<>>
            /\ Head(work[w]).step # IF w = "import" THEN "verify" ELSE "weigh"

(* The node is stopped and started again.                                  *)
Stop ==
    /\ idle /\ ~panicked /\ ~busy
    /\ restart([store EXCEPT !.disk = store.disk \cup stopStates(store)])

(* The process is killed, or has died, and is started again.               *)
Crash ==
    /\ panicked \/ (IF idle THEN "between" ELSE "within") \in scenario.crashes
    /\ restart(store)

Next == \/ \E b \in scenario.blocks : InsertChain(b) \/ Process(b)
        \/ procFutureBlocks
        \/ Advance
        \/ \E b \in scenario.mined : Mine(b)
        \/ \E n \in scenario.rewinds : SetHead(n)
        \/ Tick \/ Stop \/ Crash

Spec == Init /\ [][Next]_vars

-----------------------------------------------------------------------------
undisturbed == scenario.rewinds = {} /\ scenario.crashes = {}

BlockOrNone == All \cup {None}

(* The database and the chain's memory hold what is declared for them.     *)
TypeOK ==
    /\ store \in [headers : SUBSET All, bodies : SUBSET All, tds : SUBSET All,
                  canon : [Heights -> BlockOrNone],
                  headBlock : All, headHeader : All, headFast : All,
                  lookup : [Transactions -> BlockOrNone], disk : SUBSET All,
                  block : All, header : All, fast : All,
                  trie : SUBSET All, future : SUBSET Blocks]
    /\ work \in [Threads -> Seq(Task)] /\ scenario \in Scenario /\ panicked \in BOOLEAN

(* Up to the head, the canonical number index is the head's own chain, and *)
(* every block of it can be read: after any series of imports, reorgs,     *)
(* rewinds and restarts GetBlockByNumber follows parent links.             *)
CanonicalPrefix ==
    idle => \A b \in lineage[store.block] :
                store.canon[Number[b]] = b /\ GetBlock(store, b)

(* A transaction lookup that still finds a block finds one of the current  *)
(* chain that contains the transaction, and every transaction of the       *)
(* current chain is found, also after reorgs that move it; on a node that  *)
(* is neither rewound nor killed, which leaves the blocks above the head.  *)
LookupsExact ==
    idle /\ undisturbed => \A t \in Transactions :
        LET b == store.lookup[t]
        IN  /\ b \in store.bodies => b \in lineage[store.block] /\ t \in Txs[b]
            /\ \A a \in lineage[store.block] : t \in Txs[a] => b \in lineage[store.block]

(* State can open the state of the current head.                           *)
HeadHasState == idle => HasState(store, store.block)

(* The state of the head is released only when a block that is             *)
(* TriesInMemory or more above it has been executed and has not become the *)
(* head; also after rewinds and after starts that had to go back to an     *)
(* older state.                                                            *)
HeadStateKept ==
    idle => \/ HasState(store, store.block)
            \/ \E b \in store.trie : chosen(b) >= Number[store.block]

(* When an import is over no stored block is heavier than the head, also   *)
(* when it came as part of a fork that was first stored unexecuted; on a   *)
(* node that is neither rewound nor killed, which gives up blocks.         *)
HeadIsHeaviest ==
    idle /\ work["import"] = <<>> /\ undisturbed =>
        \A b \in store.bodies : td[b] <= td[store.block]

(* After an orderly stop the node comes back with the head it had.  A      *)
(* start after a crash never advances the head and never leaves its chain: *)
(* what is lost is the newest part.                                        *)
RestartKeepsChain ==
    [][/\ Stop /\ HasState(store, store.block) =>
              store'.block = store.block /\ store'.header = store.header
       /\ Crash /\ idle /\ ~panicked' => store'.block \in lineage[store.block]]_vars

(* What the imports take for granted is there: on a node that is not       *)
(* rewound and not killed within an operation neither an import nor a      *)
(* start meets a nil pointer, unless a fork that is not the head's chain   *)
(* has become more than TriesInMemory blocks longer.                       *)
ImportsSurvive ==
    /\ scenario.rewinds = {} /\ "within" \notin scenario.crashes
    /\ \A b \in store.tds : chosen(b) <= Number[store.block]
    => ~panicked

(* A process that is killed between any two database writes can start      *)
(* again from what it finds.                                               *)
RestartPossible == loadable(reopened(store))

(* It can on a chain without forks that is never rewound: an import that   *)
(* only extends the head writes what a restart needs in the right order.   *)
LineRestartPossible ==
    /\ scenario.rewinds = {}
    /\ \A a, b \in scenario.blocks : a \in lineage[b] \/ b \in lineage[a]
    => RestartPossible

=============================================================================
