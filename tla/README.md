# A TLA+ verification of lemochain-go

lemochain-go is a blockchain node (a fork of go-ethereum 1.8.3). This directory
holds TLA+ models of its parts, the TLC configurations that check them on small
instances, and theorems about them that TLAPS proves for every instance.

## 1. The system and its parts

| Part | Source | What it holds and what changes it |
|---|---|---|
| Clique voting | `consensus/clique/snapshot.go` | signers, recent sealers, pending votes, tally; changed by `apply` once per header |
| Clique engine | `consensus/clique/clique.go`, `api.go` | snapshot cache and checkpoints, proposals, the local signer; `Prepare`, `Seal`, `verifyHeader`, `Propose`, `Discard`, `Authorize` |
| Block fetcher | `lemo/fetcher/fetcher.go` | announcements on their way from `announced` to `queued`; one event loop, import goroutines, timers |
| Block chain | `core/blockchain.go`, `headerchain.go`, `database_util.go` | the database of blocks, the canonical number index, the head markers; `insertChain`, `reorg`, `SetHead`, restart |
| Transaction pool | `core/tx_pool.go`, `tx_list.go`, `tx_journal.go` | pending and queued transactions per account, the price heap, local accounts |
| Downloader | `lemo/downloader/*.go` | peers, download queue, ancestor search, pivot |
| Miner | `miner/*.go` | pending work, agents, unconfirmed blocks |
| Protocol manager | `lemo/handler.go`, `sync.go`, `peer.go` | peers, broadcast, sync cycles |
| Event feed | `event/feed.go`, `subscription.go` | subscribers and the select cases of a send |
| State | `core/state/*.go`, `trie/*.go` | accounts, journal and snapshots, trie nodes with reference counts |
| Chain indexer | `core/chain_indexer.go` | sections processed in the background |
| Peer-to-peer | `p2p/*.go`, `p2p/discover/*.go` | connections, dial tasks, Kademlia table |
| Node, RPC | `node/node.go`, `rpc/*.go` | service life cycle, requests and subscriptions |
| Light client | `les/*.go`, `light/*.go` | flow control, request distribution |

How they interact: blocks reach a node as announcements or whole blocks
(fetcher), in bulk (downloader) or from its own miner. All three end in
`BlockChain.insertChain` or `WriteBlockWithState`, which ask the engine (clique)
to verify headers and choose the head by total difficulty. The miner asks the
engine to prepare and seal a header on the head. The transaction pool, the
indexer and the protocol manager follow the head through event feeds.

`PROJECT.json` lists every part with its sources, what is modelled of it, and
the reason where nothing is. It also lists the hazards: the lines at which
concurrency, crashes, limits or long call sequences can break the code, with
the properties that would notice.

## 2. Modules

| Module | Models | State | Actions |
|---|---|---|---|
| `CliqueVoting` | `snapshot.go`: `cast`, `uncast`, `validVote`, `inturn` and the stages of `apply`, as operators | - | - |
| `CliqueSnapshot` | a chain of headers applied one after the other | `snap` | `Apply` |
| `CliqueElectorate` | the abstract promise: ballots and majorities | `number`, `signers`, `ballots` | `Seal` |
| `CliqueEngine` | `clique.go`: `verifyHeader`, `verifyCascadingFields`, `verifySeal`, the decisions of `Prepare` and `Seal`, as operators | - | - |
| `CliqueVerifier` | one engine: `VerifyHeaders`, `Clique.snapshot` with cache and checkpoints, the importer, restarts | `db`, `recents`, `disk`, `batch`, `now` | `StartBatch`, `Verify`, `Import`, `Abort`, `Lookup`, `Restart`, `Tick` |
| `CliqueNetwork` | several sealing nodes: `Prepare`, `Seal` in two steps, `Authorize`, `Propose`, `Discard`, import, choice of head | `signer`, `proposals`, `work`, `known`, `head`, `sealed`, `panicked`, `now` | `Prepare`, `BeginSeal`, `FinishSeal`, `Import`, `Authorize`, `Propose`, `Discard`, `Tick` |
| `Fetcher` | `fetcher.go`: every case of the loop's select followed by the head of the next iteration, import goroutines, timers | `f` (the maps), `chain`, `importing`, `imported`, the timers, `late`, `dropped`, `running` | `Notify`, `Inject`, `Done`, `Fetch`, `Complete`, `Header`, `Body`, `Wake`, `Quit`, `Import`, `Extend`, `Age` |
| `BlockChain` | `insertChain`, `WriteBlockWithState`, `reorg`, `insert`, future blocks, `SetHead`, `Stop`, `loadLastState` with `repair` | `store` (database and memory), `path`, `work` (the tasks of the import thread and of the miner), `scenario`, `panicked` | `InsertChain`, `Process` with one alternative per outcome of a block and per step (verify, execute, weigh, write), `procFutureBlocks`, `Mine`, `Advance`, `Tick`, `SetHead`, `Stop`, `Crash` |
| `CliqueSnapshotProofs`, `CliqueElectorateProofs` | theorems | | |

`MC*` modules give the constants their values. Definitions keep the names of
the code. A definition whose name starts with that of another one and whose
comment begins with "Mutant" is a plausible bug: put in place of that
definition it must make the property fail that `PROJECT.json` names for it.

How the models abstract:

- A block is identified with its hash. In the clique modules a hash is the
  chain of headers that it ends, so parent, number and ancestors are part of it.
- Addresses are numbers in the order of `bytes.Compare`; signatures are the
  signer, taken as unforgeable.
- `Votes` is a set because every vote has its own block number; an absent tally
  is the zero tally, as for a Go map. `uncastAll` and `forgetHash` of a set stand
  for the loops that call `uncast` and `forgetHash` once for each element.
- `number - limit` in `verifySeal` is unsigned: `minus` subtracts modulo `Word`.
- The fetcher orders its queue by `float32(number)`; the rounding is modelled.
- In the fetcher the ages of announcements are two-valued: `late` holds those
  that have passed the age the code compares them with next.
- A count in `announces` may fall below 0 without end. It is cut off at
  `-MaxDrift`, which the assumption of the module makes so low that from there
  no announcement that fits the bounds is refused, as for any lower count.
- In `BlockChain` an operation that holds `bc.mu` is the sequence of stores it
  passes through, one per database write (`path`); a crash drops the rest. The
  state of a block is one unit: on disk, in memory or gone.
- `insertChain` verifies, executes and writes a block in separate steps, and
  `WriteBlockWithState` reads the total difficulty of the parent before it takes
  `bc.mu`. Between the steps the miner may write and `SetHead` may rewind, as
  neither takes `chainmu`. A step without the lock is taken while nobody holds
  it: what it reads halfway through the writes of another operation is left out.
- A nil pointer that the code follows ends the process: `panicked`, after which
  only a new start (`Crash`) is possible. This happens where a header at the
  retention limit, a parent block, its total difficulty, or the head block of a
  start is missing.
- The miner is the start of work on the head and the write of the sealed block;
  the choice at equal weight (`mrand.Float64() < 0.5`) and the flush when memory
  or time are short are nondeterministic.
- A scenario fixes what may happen to the node: which blocks arrive, which are
  ahead of the clock, which are mined, to which numbers it is rewound and whether
  it is killed between or within operations. One run goes through several.

## 3. Runs

| Run | Instance | Shows |
|---|---|---|
| `clique_votes` | 4 genesis signers and the zero address, votes on two of the signers, epoch 7, 7 blocks | vote list, tally and window stay consistent, somebody may always seal, the signer list changes only with a majority of standing votes, and the whole implements `CliqueElectorate` |
| `clique_verifier` | 2 signers and an account that can be voted in, cache of 1, a checkpoint every 2 blocks, batches of 2, headers that are valid, early, out of turn, sealed too soon, not authorized or wrong at a checkpoint | stored snapshots equal a replay from genesis; only valid headers are imported; one signer is in turn; from the first full window on an accepted header can be built upon |
| `clique_first_blocks` | 4 signers, 2 blocks | *violation*: in the first blocks of a chain `verifySeal` accepts what `apply` refuses |
| `clique_network` | 2 nodes, votes for a third key, which node 1 may switch to, 3 blocks, a checkpoint | blocks are signed only by keys that may seal them; they verify elsewhere if `Prepare` and `Seal` read the same key |
| `clique_standoff` | 4 nodes, executions with two forks of equal weight | *violation*: all four wait for each other |
| `fetcher` | an honest and a lying peer, a block with a body, a bad empty block, limits of 1 | the maps agree, no count stays too high, timers are armed, the honest peer is kept |
| `fetcher_timers` | one peer, two blocks, time and `fetchTimer` fair | an announced block does not stay announced |
| `fetcher_bodies` | the same | *violation*: a body that never comes leaves its hash in `completing` for ever |
| `fetcher_priority` | one peer, blocks 2^24+3 and 2^24+4 | *violation*: both have one priority, and the block that fits waits behind the one that does not |
| `chain` | retention of 2 states; five scenarios: two forks of three blocks with a future and a mined block; a chain of three with a heavier sibling, killed between operations; the same also rewound to 1; a chain rewound to genesis while it imports and mines; a line killed between any two database writes | number index, lookups, head and states through reorganisations, failed writes, rewinds and starts; a stop loses nothing, a crash only the newest blocks; a line always starts again; nothing dies on a node that is not rewound |
| `chain_torn_reorg` | the chain with the sibling, every database state an operation passes through | *violation*: inside a reorganisation the database holds a head marker without its block, and a process killed there does not start again |
| `chain_release` | an in-turn block against two out-of-turn blocks, retention of 1 | *violation*: the fork is longer and not heavier, and releases the state of the head |

Why the bounds are enough for what they show. Six blocks before the checkpoint
let two of four signers cast votes that are short of a majority, three vote a
fourth one out, and a later block find the two votes to be a majority of the
three that are left; the seventh block is the checkpoint. A cache of one entry
makes every lookup evict and every second block a checkpoint. Limits of one
announcement and one block per peer put every count of `fetcher` at its limit;
a peer has one announcement of a block pending at a time, two peers have two.
The lying peer may also promise number 0, which the code declares as unknown
and then treats as a wrong number. A retention of two states makes pruned
forks, re-execution, release and the missing header at the retention limit
happen within three blocks; the code's 128 only lengthens the path. The
scenarios of `chain` reach a failed `reorg`, a refusal for want of the parent's
total difficulty, a death in `WriteBlockWithState` and one in the execution of a
block whose parent was rewound away. The theorems of section 4 remove the
bounds for the voting.

Fairness. `fetcher_timers` assumes that time passes (`Age`) and that an armed
`fetchTimer` fires and the loop, which never blocks elsewhere, serves it
(`Fetch`). `fetcher_bodies` and `fetcher_priority`, which show violations, assume
the same of `completeTimer` (`Complete`), and that import goroutines end and
report (`Import`, `Done`). Peers are not assumed to do anything, and the loop may
end at any time (`Quit`). Deadlock checking is off: the bounds on block numbers
and the clock let the clique and chain runs end, and the fetcher stops after
`Quit`.

Six things the runs show about the code are recorded as findings in
`PROJECT.json`, with the lines of the repository they contradict. Limits of the
passing runs that a reader should know:

- `SealedBlocksVerify` excludes work whose key was switched between `Prepare`
  and `Seal`: such a block carries the difficulty of the other key, and other
  nodes refuse it.
- No run lets the last signer be voted out; `Prepare` then divides by zero,
  which the model shows as `panicked`.
- `HeadStateKept` is what remains of the head's state being there: it is
  released only by a block that is at least the retention above the head and has
  not become the head. `ImportsSurvive` likewise excludes a fork that is longer
  by more than the retention without becoming the head: the header at its
  retention limit does not exist, and the code follows a nil pointer.
- On a node that is rewound an import may die: it takes a parent, a total
  difficulty or a header for granted that `SetHead` has deleted. The run goes on
  with the start that follows; `CanonicalPrefix` and `HeadStateKept` hold there
  too.
- `LookupsExact` and `HeadIsHeaviest` are about nodes that are neither rewound
  nor killed, which leaves stored blocks above or beside the head.
- `CanonicalPrefix` speaks of numbers up to the head. When a shorter chain
  becomes the heavier one the numbers above it keep naming old blocks.
- `NeverOvercounted` is one side of the announcement counts. They are often too
  low: `forgetHash` decrements once for each stage that holds the hash, and a
  peer may then have more than `hashLimit` blocks announced.
- `LateSealsApply` starts with the first full window. Before it `number - limit`
  wraps around, which `clique_first_blocks` shows.
- After `Quit` nobody reads `done`: an import goroutine that has ended its work
  stays blocked, in the model in `imported`.

## 4. Theorems

`CliqueSnapshotProofs` and `CliqueElectorateProofs` prove about
`CliqueSnapshot`, for any finite set of accounts, any genesis signers, any epoch
length and any `MaxNumber`:

| Theorem | States |
|---|---|
| `TypeCorrect` | `Spec => []TypeOK` |
| `VotesDistinctTheorem` | `Spec => []VotesByDistinctSigners` |
| `TallyTheorem` | `Spec => []TallyFaithful` |
| `RecentsTheorem` | `Spec => []RecentsSpread` |
| `SomeoneMaySealTheorem` | `Spec => []SomeoneMaySeal` |
| `MajorityTheorem` | `Spec => MajorityRule` |
| `Refinement` | `Spec => ImplementsElectorate` |

The assumptions are those of `CliqueVoting`: accounts are a finite set of
natural numbers with 0 among them, genesis signers are accounts other than 0,
the epoch is positive.

The argument. None of the properties is inductive by itself: the tally is exact
after a withdrawal only if the withdrawn vote was the signer's only one on that
account, and that holds only if the votes of removed signers are dropped. The
inductive invariant `IInv` is the conjunction of types, finiteness of the vote
list, `votesDistinct`, `tallyAgrees` and `recentsSpread`. There is one lemma per
stage of `apply` (`OpenInv`, `RecordInv`, `DiscardInv`, `TallyInv`, `DropInv`,
`ChangeInv`, and `OpenWindow`, `ShiftWindow`, `LimitChange` for the window);
`ApplyInv` joins them. `SomeoneMaySeal` follows by counting: the window holds
fewer distinct signers than there are. For the refinement each stage is followed
by what it does to the set of ballots; `CountAskers` shows by a bijection that
the tally equals the number of signers with a ballot, so `passed` is a strict
majority, and `ApplyElects` puts this together. `MajorityRule` counts the signers
whose vote for the change stands after the block: votes from before a checkpoint
have lapsed, and the sealer counts through what its block says. For
`MajorityTheorem`, `AskersBallots` shows that these are the signers with a ballot
after the block, and `ApplyElects` that a change takes a majority of them.

Only model-checked: everything about the engine, the network, the fetcher and
the chain. Liveness under fairness and whatever rests on folds over sequences
(`replay`, `reorg`) stay with TLC.

## 5. Plan

Next, in this order:

1. Transaction pool and its lists: nonces without gaps, limits, replacement,
   reset to a new head, the price heap against the lists.
2. Fast sync in `BlockChain` (`InsertHeaderChain`, `InsertReceiptChain`,
   `FastSyncCommitHead`, `Rollback`) and a second import in the window in which
   a recursive one releases `chainmu`.
3. The download queue: reservations, deliveries, expiries, revocations.
4. The miner's worker and agents; the event feed; the state journal with revert
   as its reference definition; trie reference counts; the chain indexer.
5. The run loop of the p2p server with its dial tasks; life cycle of the node;
   flow control of the light client.

Theorems planned: `QueueExact` and `StagesExclusive` of the fetcher,
`CanonicalPrefix` of the chain for a step without crashes, `SnapshotsFaithful`
of the verifier.

Not planned: transaction execution and the virtual machine, proof of work,
encodings, cryptography, key files, user interface, Whisper and Swarm; the
reasons are in `PROJECT.json`.
