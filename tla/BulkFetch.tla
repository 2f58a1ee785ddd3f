------------------------------- MODULE BulkFetch -------------------------------
(***************************************************************************)
(* Fetching option chains for the series of a request: the fan-out of      *)
(* tcg/engine/options/series/stream_resolver.py (_fetch_exp,               *)
(* _fetch_multi_chunk) under the process-wide gate of                      *)
(* tcg/core/api/_options_concurrency.py, through the single-flight cache   *)
(* of tcg/core/api/_options_chain_cache.py.                                *)
(*                                                                         *)
(* A task fetches the chains of one expiration (a group) or of a whole     *)
(* year at once (a chunk, which is not cached).  A chunk that fails is     *)
(* fetched again group by group.  The tasks of all requests run on one     *)
(* event loop: an action is the code between two awaits.                   *)
(***************************************************************************)
EXTENDS Integers, FiniteSets, FiniteSetsExt, SequencesExt, Functions

CONSTANTS
  Groups,     \* the per-expiration fetches of all the requests under way
  Chunks,     \* the per-year fetches
  Members,    \* the groups a chunk falls back to
  Keys,       \* cache keys
  KeysOf,     \* the keys a group may fetch by: strike window narrowed or not
  RowsOf,     \* the rows a key's result holds
  MaxRows,    \* _max_rows
  PoolSize,   \* connections of the pool
  NoKey, Nobody

Tasks == Groups \union Chunks
Fallbacks == UNION { Members[c] : c \in Chunks }

ASSUME TasksAssumption ==
  /\ Groups \intersect Chunks = {} /\ IsFiniteSet(Tasks)
  /\ Members \in [Chunks -> SUBSET Groups]
  /\ \A c, d \in Chunks : c # d => Members[c] \intersect Members[d] = {}
  /\ KeysOf \in [Groups -> (SUBSET Keys) \ {{}}]
  /\ NoKey \notin Keys /\ Nobody \notin Groups

ASSUME SizesAssumption ==
  /\ RowsOf \in [Keys -> Nat] /\ MaxRows \in Nat
  /\ PoolSize \in Nat \ {0}

VARIABLES
  stage,      \* where each task stands
  queue,      \* tasks waiting for the gate, first come first served
  key,        \* the key each group fetches by, or NoKey
  inflight,   \* _inflight: the group that fetches a key, or Nobody
  woken,      \* what the flight a group waited for came to
  store,      \* the keys cached, least recently used first
  totalRows,  \* _total_rows
  answer      \* what each group came to

vars == <<stage, queue, key, inflight, woken, store, totalRows, answer>>

Max2(a, b) == IF a > b THEN a ELSE b
GateSize == Max2(1, PoolSize - 1)

Init ==
  /\ stage = [t \in Tasks |-> "idle"]
  /\ queue = <<>>
  /\ key = [g \in Groups |-> NoKey]
  /\ inflight = [k \in Keys |-> Nobody]
  /\ woken = [g \in Groups |-> "none"]
  /\ store = <<>>
  /\ totalRows = 0
  /\ answer = [g \in Groups |-> "none"]

-----------------------------------------------------------------------------
(* The cache *)

SumRows(ks) == MapThenSumSet(LAMBDA k : RowsOf[k], ks)
Cached == ToSet(store)

\* The store without k.
Drop(k) == IF k \in Cached
             THEN RemoveAt(store, CHOOSE i \in DOMAIN store : store[i] = k)
             ELSE store

\* _get_fresh: an entry past its TTL is a miss.
Hit(k, expired) == k \in Cached /\ ~expired

ExpiredUncounted(k) ==      \* mutant: the rows of an expired entry still count
  store' = Drop(k) /\ UNCHANGED totalRows

\* What a miss leaves: an expired entry is dropped.
DropExpired(k) ==
  /\ store' = Drop(k)
  /\ totalRows' = IF k \in Cached THEN totalRows - RowsOf[k] ELSE totalRows

\* _put: the entry goes last; the oldest are evicted while there are too many
\* rows, but never the last one.
Put(k) ==
  LET all == Append(Drop(k), k)
      rows == (IF k \in Cached THEN totalRows - RowsOf[k] ELSE totalRows) + RowsOf[k]
      left(n) == rows - SumRows(ToSet(SubSeq(all, 1, n)))
  IN  \E n \in 0 .. Len(all) - 1 :
        /\ left(n) <= MaxRows \/ n = Len(all) - 1
        /\ \A i \in 0 .. n - 1 : left(i) > MaxRows
        /\ store' = SubSeq(all, n + 1, Len(all))
        /\ totalRows' = left(n)

-----------------------------------------------------------------------------
(* The tasks *)

HoldingStagesFallback ==    \* mutant: the fallback runs inside the gate
  {"window", "waiting", "fetching", "woken", "fallback"}

\* Where a task is inside its "async with" on the gate.
HoldingStages == {"window", "waiting", "fetching", "woken"}

Holding == { t \in Tasks : stage[t] \in HoldingStages }

\* A task is ready when its request starts, a fallback group when its chunk failed.
Ready(t) == t \in Fallbacks => \E c \in Chunks : t \in Members[c] /\ stage[c] = "fallback"

StartUngated(t) ==          \* mutant: a fallback group skips the gate
  /\ stage[t] = "idle" /\ Ready(t)
  /\ stage' = [stage EXCEPT ![t] = IF t \in Fallbacks THEN "window" ELSE "queued"]
  /\ queue' = IF t \in Fallbacks THEN queue ELSE Append(queue, t)
  /\ UNCHANGED <<key, inflight, woken, store, totalRows, answer>>

Start(t) ==
  /\ stage[t] = "idle" /\ Ready(t)
  /\ stage' = [stage EXCEPT ![t] = "queued"]
  /\ queue' = Append(queue, t)
  /\ UNCHANGED <<key, inflight, woken, store, totalRows, answer>>

MayEnter == Cardinality(Holding) < GateSize

Acquire(t) ==
  /\ queue # <<>> /\ Head(queue) = t
  /\ MayEnter
  /\ queue' = Tail(queue)
  /\ stage' = [stage EXCEPT ![t] = IF t \in Chunks THEN "fetching" ELSE "window"]
  /\ UNCHANGED <<key, inflight, woken, store, totalRows, answer>>

\* A group leaves the gate with rows, or with data_access_error on its dates.
End(g, a) ==
  /\ stage' = [stage EXCEPT ![g] = "done"]
  /\ answer' = [answer EXCEPT ![g] = a]

LeadsAlways(k) == TRUE      \* mutant: the flights under way are not looked at

Leads(k) == inflight[k] = Nobody

\* The strike window is known, narrowed or not (_strike_window_for raises
\* nothing), and the cache is asked: a hit, a flight to wait for, or a fetch to
\* lead (get_or_fetch up to its first await).
Lookup(g, k, expired) ==
  /\ stage[g] = "window"
  /\ key' = [key EXCEPT ![g] = k]
  /\ UNCHANGED <<queue, woken>>
  /\ IF Hit(k, expired)
       THEN /\ store' = Append(Drop(k), k)
            /\ End(g, "rows")
            /\ UNCHANGED <<inflight, totalRows>>
       ELSE /\ DropExpired(k)
            /\ UNCHANGED answer
            /\ IF Leads(k)
                 THEN /\ inflight' = [inflight EXCEPT ![k] = g]
                      /\ stage' = [stage EXCEPT ![g] = "fetching"]
                 ELSE /\ stage' = [stage EXCEPT ![g] = "waiting"]
                      /\ UNCHANGED inflight

WaitersOf(k) == { g \in Groups : stage[g] = "waiting" /\ key[g] = k }

SettleOnSuccess(g, outcome) ==      \* mutant: a failed fetch leaves its future pending
  /\ inflight' = [inflight EXCEPT ![key[g]] = Nobody]
  /\ IF outcome = "rows"
       THEN /\ stage' = [t \in Tasks |-> CASE t = g -> "done"
                                            [] t \in WaitersOf(key[g]) -> "woken"
                                            [] OTHER -> stage[t]]
            /\ woken' = [h \in Groups |-> IF h \in WaitersOf(key[g]) THEN outcome ELSE woken[h]]
       ELSE stage' = [stage EXCEPT ![g] = "done"] /\ UNCHANGED woken
  /\ answer' = [answer EXCEPT ![g] = outcome]

\* The flight is over: its future is settled for those who wait for it.
Settle(g, outcome) ==
  /\ inflight' = [inflight EXCEPT ![key[g]] = Nobody]
  /\ stage' = [t \in Tasks |-> CASE t = g -> "done"
                                 [] t \in WaitersOf(key[g]) -> "woken"
                                 [] OTHER -> stage[t]]
  /\ woken' = [h \in Groups |-> IF h \in WaitersOf(key[g]) THEN outcome ELSE woken[h]]
  /\ answer' = [answer EXCEPT ![g] = outcome]

Fetched(g) ==
  /\ g \in Groups /\ stage[g] = "fetching"
  /\ Put(key[g])
  /\ Settle(g, "rows")
  /\ UNCHANGED <<queue, key>>

FetchFails(g) ==
  /\ g \in Groups /\ stage[g] = "fetching"
  /\ Settle(g, "error")
  /\ UNCHANGED <<queue, key, store, totalRows>>

Resume(g) ==
  /\ stage[g] = "woken"
  /\ End(g, woken[g])
  /\ UNCHANGED <<queue, key, inflight, woken, store, totalRows>>

\* _fetch_multi_chunk: rows, or the fallback, outside the gate, until all its
\* groups are done.
Chunk(c) ==
  /\ \/ stage[c] = "fetching" /\ stage' = [stage EXCEPT ![c] = "done"]
     \/ stage[c] = "fetching" /\ stage' = [stage EXCEPT ![c] = "fallback"]
     \/ /\ stage[c] = "fallback"
        /\ \A g \in Members[c] : stage[g] = "done"
        /\ stage' = [stage EXCEPT ![c] = "done"]
  /\ UNCHANGED <<queue, key, inflight, woken, store, totalRows, answer>>

Run(t) ==
  \/ Start(t) \/ Acquire(t)
  \/ t \in Groups /\ \E k \in KeysOf[t], expired \in BOOLEAN : Lookup(t, k, expired)
  \/ t \in Groups /\ (Fetched(t) \/ FetchFails(t) \/ Resume(t))
  \/ t \in Chunks /\ Chunk(t)

Next == \E t \in Tasks : Run(t)

\* The event loop runs what is ready, and a query ends: it is under a statement
\* timeout, and so is the wait for its connection.
Fairness == \A t \in Tasks : WF_vars(Run(t))

Spec == Init /\ [][Next]_vars /\ Fairness
-----------------------------------------------------------------------------
(* Properties                                                              *)

GroupStages == {"idle", "queued", "window", "waiting", "fetching", "woken", "done"}
ChunkStages == {"idle", "queued", "fetching", "fallback", "done"}
Outcomes == {"none", "rows", "error"}

Shape ==
  /\ stage \in [Tasks -> GroupStages \union ChunkStages]
  /\ \A t \in Tasks : stage[t] \in IF t \in Chunks THEN ChunkStages ELSE GroupStages
  /\ queue \in Seq(Tasks)
  /\ key \in [Groups -> Keys \union {NoKey}]
  /\ inflight \in [Keys -> Groups \union {Nobody}]
  /\ woken \in [Groups -> Outcomes] /\ answer \in [Groups -> Outcomes]
  /\ store \in Seq(Keys)

\* Types of the tasks, the gate and the cache.
TypeOK == Shape /\ totalRows \in Nat

\* A key is fetched by one group at a time, the one the others find, and not
\* while it is cached.
OneFlightPerKey ==
  /\ \A g \in Groups : stage[g] = "fetching" => key[g] \in Keys /\ inflight[key[g]] = g
  /\ \A k \in Keys : inflight[k] # Nobody =>
       stage[inflight[k]] = "fetching" /\ key[inflight[k]] = k /\ k \notin Cached

\* Whoever waits for a flight waits for one that is under way.
WaitersHaveLeader ==
  \A g \in Groups : stage[g] = "waiting" =>
    key[g] \in Keys /\ inflight[key[g]] # Nobody

\* The row count the eviction goes by is that of the entries, none is there
\* twice, and it exceeds the cap only for a single entry.
RowsAccounted ==
  /\ IsInjective(store)
  /\ totalRows = SumRows(Cached)
  /\ totalRows <= MaxRows \/ Len(store) = 1

\* Whatever requests come together, and whichever of them fall back, those that
\* use a connection, for their strike window or their rows, leave one of the
\* pool to the lookups that run beside them.
ReserveKept ==
  PoolSize > 1 => Cardinality({ t \in Tasks : stage[t] \in {"window", "fetching"} }) < PoolSize

\* Every task that starts ends, the groups of a failed chunk and the waiters of
\* a failed flight included.
EveryFetchEnds == \A t \in Tasks : stage[t] = "queued" ~> stage[t] = "done"

-----------------------------------------------------------------------------
(* What the invariants above rest on                                       *)

\* The queue of the gate holds those that wait for it, each once.
QueueOfQueued ==
  /\ IsInjective(queue)
  /\ \A i \in DOMAIN queue : stage[queue[i]] = "queued"

\* Shapes, the gate's queue and the cache's order, under which the flights are
\* inductive.
FlightInv ==
  Shape /\ QueueOfQueued /\ IsInjective(store) /\ OneFlightPerKey /\ WaitersHaveLeader

\* The gate admits no more than its size.
GateKept == Shape /\ Cardinality(Holding) <= GateSize
=============================================================================
