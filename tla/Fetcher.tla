------------------------------- MODULE Fetcher -------------------------------
(***************************************************************************)
(* The block fetcher (lemo/fetcher/fetcher.go).  Announced blocks pass     *)
(* from announced over fetching, fetched and completing to queued and are  *)
(* imported by goroutines of their own.  One event loop owns all of this   *)
(* state (the record f); between two events it waits in its select, so an  *)
(* action is one case of the select followed by the head of the next       *)
(* iteration, which expires fetches and starts imports (settle).           *)
(*                                                                         *)
(* Blocks are identified with their hashes.  Times are abstracted: late    *)
(* holds the hashes whose announcement has passed the age the code next    *)
(* compares it with, arriveTimeout - gatherSlack while announced and       *)
(* fetchTimeout while fetching.                                            *)
(***************************************************************************)
EXTENDS Integers, Sequences, FiniteSets, Functions

CONSTANTS Peers, Blocks,
          Root,             \* the head of the local chain at the beginning
          Number,           \* block or Root |-> its number
          Parent,           \* block |-> its parent
          Empty,            \* blocks without transactions and uncles
          Bad,              \* blocks whose header does not verify
          Honest,           \* peers that only tell of good blocks, truthfully
          HashLimit, BlockLimit, MaxUncleDist, MaxQueueDist,
          None,             \* no announcement, no peer
          Claims,           \* the numbers that announcements may promise
          MaxAnnounced,     \* bound: announcements of one block a peer has pending
          MaxDrift          \* bound: how far a count in announces falls below 0
                            \* before it is taken to stay

ASSUME FetcherAssumption ==
    /\ IsFiniteSet(Blocks) /\ Root \notin Blocks
    /\ Number \in [Blocks \cup {Root} -> Nat] /\ Parent \in [Blocks -> Blocks \cup {Root}]
    /\ Empty \subseteq Blocks /\ Bad \subseteq Blocks /\ Honest \subseteq Peers
    /\ None \notin Peers
    /\ HashLimit \in Nat \ {0} /\ BlockLimit \in Nat \ {0}
    /\ MaxUncleDist \in Nat /\ MaxQueueDist \in Nat /\ MaxAnnounced \in Nat
    /\ MaxDrift \in Nat /\ MaxDrift + HashLimit >= MaxAnnounced * Cardinality(Blocks)

(* An announcement: who made it and the block number it promised.          *)
Announce == [origin : Peers, number : Nat]
NoAnnounce == [origin |-> None, number |-> 0]

VARIABLES f,            \* the maps of the Fetcher
          chain,        \* blocks of the local chain, which importers extend
          importing,    \* blocks with an import goroutine at work
          imported,     \* blocks whose goroutine waits to report on done
          fetchTimer,   \* whether fetchTimer is armed
          completeTimer,
          late,         \* hashes whose announcement has timed out
          dropped,      \* peers that were disconnected
          running       \* the loop has not ended

vars == <<f, chain, importing, imported, fetchTimer, completeTimer, late, dropped, running>>

Init ==
    /\ f = [announces  |-> [p \in Peers |-> 0],
            announced  |-> [h \in Blocks |-> <<>>],
            fetching   |-> [h \in Blocks |-> NoAnnounce],
            fetched    |-> [h \in Blocks |-> NoAnnounce],
            completing |-> [h \in Blocks |-> NoAnnounce],
            queue      |-> {},
            queued     |-> [h \in Blocks |-> None],
            queues     |-> [p \in Peers |-> 0]]
    /\ chain = {Root}
    /\ importing = {} /\ imported = {}
    /\ fetchTimer = TRUE /\ completeTimer = TRUE
    /\ late = {} /\ dropped = {} /\ running = TRUE

height == CHOOSE n \in {Number[b] : b \in chain} : \A b \in chain : Number[b] <= n

(* Whether a number is too far from the head to be of use.                 *)
far(n) == n - height < -MaxUncleDist \/ n - height > MaxQueueDist

-----------------------------------------------------------------------------
(* The helpers of the event loop.                                          *)

(* Mutant: announcements that were never fetched are not given back.       *)
owedFetches(s, hs, p) ==
    Cardinality({h \in hs : s.fetching[h].origin = p})
    + Cardinality({h \in hs : s.fetched[h].origin = p})
    + Cardinality({h \in hs : s.completing[h].origin = p})

(* How often forgetting the hashes hs decrements the count of a peer.      *)
owed(s, hs, p) ==
    Cardinality({x \in UNION {{h} \X DOMAIN s.announced[h] : h \in hs} :
                    s.announced[x[1]][x[2]].origin = p})
    + Cardinality({h \in hs : s.fetching[h].origin = p})
    + Cardinality({h \in hs : s.fetched[h].origin = p})
    + Cardinality({h \in hs : s.completing[h].origin = p})

(* The counts after forgetting the hashes hs.  A count may fall below 0,   *)
(* as a hash gives back one for each stage it has passed.  It is cut off   *)
(* at -MaxDrift: from there on no announcement that fits into the model is *)
(* refused, as for any lower count.                                        *)
lowered(s, hs) ==
    [p \in Peers |-> LET n == s.announces[p] - owed(s, hs, p)
                     IN  IF n < -MaxDrift THEN -MaxDrift ELSE n]

clear(map, hs, none) == [h \in Blocks |-> IF h \in hs THEN none ELSE map[h]]

(* Mutant: a hash that is scheduled for its body stays so.                 *)
forgetHashKeepsFetched(s, hs) ==
    [s EXCEPT !.announces = lowered(s, hs),
              !.announced = clear(s.announced, hs, <<>>),
              !.fetching = clear(s.fetching, hs, NoAnnounce),
              !.completing = clear(s.completing, hs, NoAnnounce)]

(* forgetHash called for each hash of a set.                               *)
forgetHash(s, hs) ==
    [s EXCEPT !.announces = lowered(s, hs),
              !.announced = clear(s.announced, hs, <<>>),
              !.fetching = clear(s.fetching, hs, NoAnnounce),
              !.fetched = clear(s.fetched, hs, NoAnnounce),
              !.completing = clear(s.completing, hs, NoAnnounce)]

(* Mutant: the count of the peer is given back twice.                      *)
forgetBlockTwice(s, hs) ==
    [s EXCEPT !.queues = [p \in Peers |-> s.queues[p]
                                - 2 * Cardinality({h \in hs : s.queued[h] = p})],
              !.queued = clear(s.queued, hs, None)]

(* forgetBlock called for each hash of a set.                              *)
forgetBlock(s, hs) ==
    [s EXCEPT !.queues = [p \in Peers |-> s.queues[p]
                                - Cardinality({h \in hs : s.queued[h] = p})],
              !.queued = clear(s.queued, hs, None)]

(* Mutant: a block that is already queued is queued again.                 *)
enqueueAgain(s, peer, h) ==
    IF s.queues[peer] + 1 > BlockLimit \/ far(Number[h])
      THEN forgetHash(s, {h})
      ELSE [s EXCEPT !.queues = [s.queues EXCEPT ![peer] = s.queues[peer] + 1],
                     !.queued = [s.queued EXCEPT ![h] = peer],
                     !.queue = s.queue \cup {h}]

enqueue(s, peer, h) ==
    IF s.queues[peer] + 1 > BlockLimit \/ far(Number[h])
      THEN forgetHash(s, {h})
    ELSE IF s.queued[h] # None
      THEN s
      ELSE [s EXCEPT !.queues = [s.queues EXCEPT ![peer] = s.queues[peer] + 1],
                     !.queued = [s.queued EXCEPT ![h] = peer],
                     !.queue = s.queue \cup {h}]

-----------------------------------------------------------------------------
(* The head of an iteration.                                               *)

(* The queue orders blocks by their number as a 32-bit float: from 2^24 on *)
(* only even numbers are exact, and halves round to even.  Numbers from    *)
(* 2^25 on are left out.                                                   *)
float32(n) ==
    IF n < 2^24 \/ n % 2 = 0 THEN n
    ELSE IF ((n - 1) \div 2) % 2 = 0 THEN n - 1 ELSE n + 1

(* The sets of queued blocks the loop may pop before it meets one that is  *)
(* too high; blocks of equal priority come in any order.                   *)
pops(s) ==
    LET high  == {h \in s.queue : Number[h] > height + 1}
        ready == s.queue \ high
        above(h) == \A g \in high : float32(Number[h]) < float32(Number[g])
        level(h) == \A g \in high : float32(Number[h]) <= float32(Number[g])
    IN  {popped \in SUBSET ready : \A h \in ready : /\ above(h) => h \in popped
                                                    /\ h \in popped => level(h)}

timed(s, h) == s.announced[h] # <<>> \/ s.fetching[h] # NoAnnounce

(* Expired fetches are forgotten, and the blocks that fit are handed to    *)
(* import goroutines unless they are stale or known.  old holds the hashes *)
(* that have timed out.                                                    *)
settle(s, old) ==
    LET live == forgetHash(s, {h \in old : s.fetching[h] # NoAnnounce}) IN
    /\ running /\ UNCHANGED running
    /\ \E popped \in pops(live) :
          LET known == {h \in popped : Number[h] + MaxUncleDist < height \/ h \in chain}
          IN  /\ f' = forgetBlock([live EXCEPT !.queue = live.queue \ popped], known)
              /\ importing' = importing \cup (popped \ known)
              /\ late' = {h \in old : timed(f', h)}

-----------------------------------------------------------------------------
(* The cases of the select.                                                *)

scheduled(map) == {h \in Blocks : map[h] # NoAnnounce}
waiting(s) == {h \in Blocks : s.announced[h] # <<>>}

(* Notify: a peer announces a block under a number.  The announcement is   *)
(* dropped when the peer has too many, when the number is out of range and *)
(* when the block is being fetched or completed already.                   *)
Notify(p, h, n) ==
    /\ p \notin dropped
    /\ p \in Honest => n = Number[h] /\ h \notin Bad
    /\ f.announces[p] + 1 <= HashLimit
    /\ n > 0 => ~far(n)
    /\ f.fetching[h] = NoAnnounce /\ f.completing[h] = NoAnnounce
    /\ Cardinality({i \in DOMAIN f.announced[h] : f.announced[h][i].origin = p}) < MaxAnnounced
    /\ LET s == [f EXCEPT !.announces = [f.announces EXCEPT ![p] = f.announces[p] + 1],
                          !.announced = [f.announced EXCEPT ![h] =
                              Append(f.announced[h], [origin |-> p, number |-> n])]]
       IN  /\ settle(s, late)
           /\ fetchTimer' = (fetchTimer \/ Cardinality(waiting(s)) = 1)
    /\ UNCHANGED <<chain, imported, completeTimer, dropped>>

(* Enqueue: a peer sends a whole block.                                    *)
Inject(p, h) ==
    /\ p \notin dropped
    /\ p \in Honest => h \notin Bad
    /\ settle(enqueue(f, p, h), late)
    /\ UNCHANGED <<chain, imported, fetchTimer, completeTimer, dropped>>

(* An import goroutine has reported the end of its work.                   *)
Done(h) ==
    /\ h \in imported
    /\ settle(forgetBlock(forgetHash(f, {h}), {h}), late)
    /\ imported' = imported \ {h}
    /\ UNCHANGED <<chain, fetchTimer, completeTimer, dropped>>

(* Mutant: the timer is not set again for the announcements that remain.   *)
rescheduleFetchNever(s) == FALSE

rescheduleFetch(s) == waiting(s) # {}

(* Mutant: the number of the first announcement is kept for the peer.      *)
candidatesFirstNumber(h) ==
    {[origin |-> a.origin, number |-> f.announced[h][1].number] : a \in Range(f.announced[h])}

(* The announcements from which a block may be requested.                  *)
candidates(h) == Range(f.announced[h])

(* fetchTimer fires: every block that has been announced long enough and   *)
(* is still unknown is requested from one of its announcers.               *)
Fetch ==
    /\ fetchTimer
    /\ LET ripe == waiting(f) \cap late
           bare == forgetHash(f, ripe)
           want == ripe \ chain
       IN  \E pick \in [want -> UNION {candidates(h) : h \in want}] :
             /\ \A h \in want : pick[h] \in candidates(h)
             /\ LET s == [bare EXCEPT !.fetching = [h \in Blocks |->
                             IF h \in want THEN pick[h] ELSE bare.fetching[h]]]
                IN  /\ settle(s, late \ ripe)
                    /\ fetchTimer' = rescheduleFetch(s)
    /\ UNCHANGED <<chain, imported, completeTimer, dropped>>

(* completeTimer fires: the body of every fetched header is requested.     *)
Complete ==
    /\ completeTimer
    /\ LET all  == scheduled(f.fetched)
           bare == forgetHash(f, all)
           s    == [bare EXCEPT !.completing = [h \in Blocks |->
                       IF h \in all \ chain THEN f.fetched[h] ELSE bare.completing[h]]]
       IN  settle(s, late \ all)
    /\ completeTimer' = FALSE
    /\ UNCHANGED <<chain, imported, fetchTimer, dropped>>

(* The header of h is one that was requested from p and is still wanted.   *)
asked(p, h) ==
    /\ f.fetching[h].origin = p
    /\ f.fetched[h] = NoAnnounce /\ f.completing[h] = NoAnnounce /\ f.queued[h] = None

(* A peer delivers a requested header: it is refused together with its     *)
(* announcer when it has another number than announced.  An empty block is *)
(* complete, any other waits for its body.                                 *)
Header(p, h) ==
    /\ p \notin dropped
    /\ asked(p, h)
    /\ LET a == f.fetching[h] IN
       \/ /\ Number[h] # a.number
          /\ dropped' = dropped \cup {a.origin}
          /\ settle(forgetHash(f, {h}), late)
          /\ UNCHANGED completeTimer
       \/ /\ Number[h] = a.number /\ h \in chain
          /\ settle(forgetHash(f, {h}), late)
          /\ UNCHANGED <<dropped, completeTimer>>
       \/ /\ Number[h] = a.number /\ h \notin chain /\ h \in Empty
          /\ settle(enqueue([f EXCEPT !.completing = [f.completing EXCEPT ![h] = a]],
                            a.origin, h),
                    late \ {h})
          /\ UNCHANGED <<dropped, completeTimer>>
       \/ /\ Number[h] = a.number /\ h \notin chain /\ h \notin Empty
          /\ LET s == [f EXCEPT !.fetched = [f.fetched EXCEPT ![h] = a]]
             IN  /\ settle(s, late \ {h})
                 /\ completeTimer' = (completeTimer \/ Cardinality(scheduled(s.fetched)) = 1)
          /\ UNCHANGED dropped
    /\ UNCHANGED <<chain, imported, fetchTimer>>

(* A peer delivers the body of a block that was requested from it.  A body *)
(* that fits several blocks is one such step for each.                     *)
Body(p, h) ==
    /\ p \notin dropped
    /\ f.completing[h].origin = p /\ f.queued[h] = None
    /\ settle(IF h \in chain THEN forgetHash(f, {h}) ELSE enqueue(f, p, h), late)
    /\ UNCHANGED <<chain, imported, fetchTimer, completeTimer, dropped>>

(* Any event that changes nothing by itself still runs the loop.           *)
Wake ==
    /\ settle(f, late)
    /\ UNCHANGED <<chain, imported, fetchTimer, completeTimer, dropped>>

(* Stop has closed quit: the loop ends, and with it all it would do.       *)
Quit ==
    /\ running
    /\ running' = FALSE
    /\ UNCHANGED <<f, chain, importing, imported, fetchTimer, completeTimer, late, dropped>>

-----------------------------------------------------------------------------
(* The goroutines of insert, the rest of the node, and time.               *)

(* The import goroutine: without the parent it gives up, a header that     *)
(* does not verify costs the peer its connection, and insertChain may fail *)
(* or, during fast sync, do nothing.                                       *)
Import(h) ==
    /\ h \in importing
    /\ \/ Parent[h] \notin chain /\ UNCHANGED <<chain, dropped>>
       \/ /\ Parent[h] \in chain /\ h \in Bad
          /\ dropped' = dropped \cup {f.queued[h]} /\ UNCHANGED chain
       \/ /\ Parent[h] \in chain /\ h \notin Bad
          /\ chain' \in {chain, chain \cup {h}} /\ UNCHANGED dropped
    /\ importing' = importing \ {h}
    /\ imported' = imported \cup {h}
    /\ UNCHANGED <<f, fetchTimer, completeTimer, late, running>>

(* The downloader or the miner extends the chain.                          *)
Extend(h) ==
    /\ h \notin chain \cup Bad /\ Parent[h] \in chain
    /\ chain' = chain \cup {h}
    /\ UNCHANGED <<f, importing, imported, fetchTimer, completeTimer, late, dropped, running>>

(* An announcement becomes old, which only the loop looks at.              *)
Age(h) ==
    /\ running
    /\ h \notin late /\ timed(f, h)
    /\ late' = late \cup {h}
    /\ UNCHANGED <<f, chain, importing, imported, fetchTimer, completeTimer, dropped, running>>

Peer(p) == \E h \in Blocks : \/ Inject(p, h) \/ Header(p, h) \/ Body(p, h)
                             \/ \E n \in Claims : Notify(p, h, n)

Loop == Quit \/ Fetch \/ Complete \/ Wake \/ \E h \in Blocks : Done(h)

Next == \/ Loop
        \/ \E p \in Peers : Peer(p)
        \/ \E h \in Blocks : Import(h) \/ Extend(h) \/ Age(h)

(* Time passes and fetchTimer fires when it is armed.                      *)
TimerFairness == WF_vars(Fetch) /\ \A h \in Blocks : WF_vars(Age(h))

(* Besides, completeTimer fires, and the import goroutines end and are     *)
(* heard by the loop.  The peers need never send or answer anything.       *)
Fairness == /\ TimerFairness /\ WF_vars(Complete)
            /\ WF_vars(\E h \in Blocks : Done(h) \/ Import(h))

Spec == Init /\ [][Next]_vars

TimerSpec == Spec /\ TimerFairness

FairSpec == Spec /\ Fairness

-----------------------------------------------------------------------------
(* The maps of the fetcher hold what their declarations say.               *)
TypeOK ==
    /\ f \in [announces  : [Peers -> Int],
              announced  : [Blocks -> Seq(Announce)],
              fetching   : [Blocks -> Announce \cup {NoAnnounce}],
              fetched    : [Blocks -> Announce \cup {NoAnnounce}],
              completing : [Blocks -> Announce \cup {NoAnnounce}],
              queue      : SUBSET Blocks,
              queued     : [Blocks -> Peers \cup {None}],
              queues     : [Peers -> Nat]]
    /\ chain \subseteq Blocks \cup {Root} /\ importing \subseteq Blocks /\ imported \subseteq Blocks
    /\ fetchTimer \in BOOLEAN /\ completeTimer \in BOOLEAN
    /\ late \subseteq Blocks /\ dropped \subseteq Peers /\ running \in BOOLEAN

(* A hash is in one stage of retrieval at a time: announced excludes every *)
(* later stage, a header waits for its body with the announcement it was   *)
(* fetched for, and only an empty block, which needs no body request, is   *)
(* completing while it still counts as fetching.                           *)
StagesExclusive ==
    \A h \in Blocks :
        /\ f.announced[h] # <<>> => /\ f.fetching[h] = NoAnnounce
                                    /\ f.completing[h] = NoAnnounce
        /\ f.fetched[h] # NoAnnounce => /\ f.fetched[h] = f.fetching[h]
                                        /\ f.completing[h] = NoAnnounce
        /\ f.completing[h] # NoAnnounce /\ f.fetching[h] # NoAnnounce => h \in Empty

(* queued, the import queue and the import goroutines agree: every queued  *)
(* block is in exactly one of them, so no block is imported twice at the   *)
(* same time, and a peer's count is the number of its blocks, within the   *)
(* limit.                                                                  *)
QueueExact ==
    /\ {h \in Blocks : f.queued[h] # None} = f.queue \cup importing \cup imported
    /\ f.queue \cap importing = {} /\ f.queue \cap imported = {}
    /\ importing \cap imported = {}
    /\ \A p \in Peers : /\ f.queues[p] = Cardinality({h \in Blocks : f.queued[h] = p})
                        /\ f.queues[p] <= BlockLimit

(* Nothing waits for a timer that is not armed: while a block is announced *)
(* fetchTimer will fire, while a header waits for its body completeTimer.  *)
TimersArmed ==
    /\ waiting(f) # {} => fetchTimer
    /\ scheduled(f.fetched) # {} => completeTimer

(* A peer that announces blocks truthfully and sends only valid ones is    *)
(* never disconnected, whatever other peers announce for the same blocks.  *)
HonestKept == dropped \cap Honest = {}

(* How many announcements of a peer wait to be fetched.                    *)
pending(p) == Cardinality({x \in UNION {{h} \X DOMAIN f.announced[h] : h \in Blocks} :
                              f.announced[x[1]][x[2]].origin = p})

(* A peer is never refused for more announcements than it has pending.     *)
NeverOvercounted == \A p \in Peers : f.announces[p] <= pending(p)

(* The queue of imports is sorted by block number: when the loop goes back *)
(* to its select, no block that the chain is ready for waits in the queue  *)
(* behind one that is too high.                                            *)
QueueDrained == [][f' # f => \A h \in f'.queue : Number[h] > height + 1]_vars

(* An announced block does not stay announced while the loop runs: it is   *)
(* requested, arrives by other means or is forgotten.                      *)
AnnouncedMoves ==
    \A h \in Blocks : f.announced[h] # <<>> ~> f.announced[h] = <<>> \/ ~running

(* fetchTimeout bounds the time a peer has to return a block that was      *)
(* requested from it: the request for a body does not stay open for ever   *)
(* while the loop runs.                                                    *)
CompletionEnds ==
    \A h \in Blocks :
        f.completing[h] # NoAnnounce ~> f.completing[h] = NoAnnounce \/ ~running

==============================================================================
