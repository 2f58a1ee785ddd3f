---------------------------- MODULE BulkFetchProofs ----------------------------
(***************************************************************************)
(* Proofs about the fetch of option chains, for any groups, chunks, keys,  *)
(* results, cache and pool: one flight per key, a leader for whoever waits *)
(* and a spare connection.                                                 *)
(***************************************************************************)
EXTENDS BulkFetch, SequenceTheorems, FiniteSetTheorems, WellFoundedInduction, TLAPS

-----------------------------------------------------------------------------
(* The store                                                               *)

\* Dropping a key leaves the others, each once.
LEMMA DropKeeps ==
  ASSUME store \in Seq(Keys), IsInjective(store), NEW k
  PROVE  /\ Drop(k) \in Seq(Keys)
         /\ IsInjective(Drop(k))
         /\ ToSet(Drop(k)) = Cached \ {k}
         /\ Len(Drop(k)) = IF k \in Cached THEN Len(store) - 1 ELSE Len(store)
<1>1. CASE k \notin Cached
  BY <1>1 DEF Drop, Cached
<1>2. CASE k \in Cached
  <2> DEFINE i == CHOOSE i \in DOMAIN store : store[i] = k
             a == SubSeq(store, 1, i - 1)
             b == SubSeq(store, i + 1, Len(store))
             n == Len(store)
  <2>1. n \in Nat /\ DOMAIN store = 1 .. n /\ \A j \in 1 .. n : store[j] \in Keys
    BY LenProperties
  <2>2. i \in 1 .. n /\ store[i] = k
    BY <1>2, <2>1 DEF Cached, ToSet
  <2>3. Drop(k) = a \o b
    BY <1>2 DEF Drop, RemoveAt
  <2> HIDE DEF i
  <2>4. /\ a \in Seq(Keys) /\ Len(a) = i - 1
        /\ \A j \in 1 .. i - 1 : a[j] = store[j]
    <3>1. 1 \in Int /\ i - 1 \in Int /\ \A j \in 1 .. i - 1 : store[j] \in Keys
      BY <2>1, <2>2
    <3>2. /\ a \in Seq(Keys) /\ Len(a) = IF 1 <= i - 1 THEN (i - 1) - 1 + 1 ELSE 0
          /\ \A j \in 1 .. (i - 1) - 1 + 1 : a[j] = store[1 + j - 1]
      BY <3>1, SubSeqProperties
    <3> HIDE DEF a, b, n
    <3> QED
      BY <3>2, <2>1, <2>2
  <2>5. /\ b \in Seq(Keys) /\ Len(b) = n - i
        /\ \A j \in 1 .. n - i : b[j] = store[i + j]
    <3>1. i + 1 \in Int /\ n \in Int /\ \A j \in i + 1 .. n : store[j] \in Keys
      BY <2>1, <2>2
    <3>2. /\ b \in Seq(Keys) /\ Len(b) = IF i + 1 <= n THEN n - (i + 1) + 1 ELSE 0
          /\ \A j \in 1 .. n - (i + 1) + 1 : b[j] = store[(i + 1) + j - 1]
      BY <3>1, SubSeqProperties
    <3> HIDE DEF a, b, n
    <3> QED
      BY <3>2, <2>1, <2>2
  <2> HIDE DEF a, b, n
  <2>6. /\ a \o b \in Seq(Keys) /\ Len(a \o b) = n - 1
        /\ \A j \in 1 .. n - 1 : (a \o b)[j] = IF j < i THEN store[j] ELSE store[j + 1]
    <3>1. /\ a \o b \in Seq(Keys) /\ Len(a \o b) = Len(a) + Len(b)
          /\ \A j \in 1 .. Len(a) + Len(b) :
               (a \o b)[j] = IF j <= Len(a) THEN a[j] ELSE b[j - Len(a)]
      BY <2>4, <2>5, ConcatProperties
    <3> QED
      BY <3>1, <2>1, <2>2, <2>4, <2>5
  <2> DEFINE r == a \o b
             at(j) == IF j < i THEN j ELSE j + 1
  <2>7. DOMAIN r = 1 .. n - 1
    BY <2>6, LenProperties
  <2>8. \A j \in 1 .. n - 1 : at(j) \in 1 .. n /\ at(j) # i /\ r[j] = store[at(j)]
    BY <2>1, <2>2, <2>6
  <2>9. \A x, y \in 1 .. n : store[x] = store[y] => x = y
    BY <2>1 DEF IsInjective
  <2>10. \A x, y \in 1 .. n - 1 : at(x) = at(y) => x = y
    BY <2>1, <2>2
  <2>11. \A m \in 1 .. n : m # i => \E j \in 1 .. n - 1 : at(j) = m
    <3> SUFFICES ASSUME NEW m \in 1 .. n, m # i PROVE \E j \in 1 .. n - 1 : at(j) = m
      OBVIOUS
    <3>1. CASE m < i
      <4>1. m \in 1 .. n - 1 /\ at(m) = m
        BY <3>1, <2>1, <2>2
      <4> QED
        BY <4>1
    <3>2. CASE m > i
      <4>1. m - 1 \in 1 .. n - 1 /\ at(m - 1) = m
        BY <3>2, <2>1, <2>2
      <4> QED
        BY <4>1
    <3> QED
      BY <3>1, <3>2, <2>1, <2>2
  <2> HIDE DEF r, at
  <2>12. IsInjective(r)
    BY <2>7, <2>8, <2>9, <2>10 DEF IsInjective
  <2>13. ToSet(r) = Cached \ {k}
    <3>1. ASSUME NEW j \in 1 .. n - 1 PROVE r[j] \in Cached \ {k}
      BY <3>1, <2>1, <2>2, <2>8, <2>9 DEF Cached, ToSet
    <3>2. ASSUME NEW x \in Cached \ {k} PROVE \E j \in 1 .. n - 1 : r[j] = x
      <4>1. PICK m \in 1 .. n : store[m] = x
        BY <2>1, <3>2 DEF Cached, ToSet
      <4>2. PICK j \in 1 .. n - 1 : at(j) = m
        BY <4>1, <2>2, <2>11, <3>2
      <4> QED
        BY <4>1, <4>2, <2>8
    <3> QED
      BY <3>1, <3>2, <2>7 DEF ToSet
  <2> QED
    BY <1>2, <2>3, <2>6, <2>12, <2>13 DEF r, n
<1> QED
  BY <1>1, <1>2

\* A key that is put last.
LEMMA AppendKeeps ==
  ASSUME NEW s \in Seq(Keys), IsInjective(s), NEW k \in Keys, k \notin ToSet(s)
  PROVE  /\ Append(s, k) \in Seq(Keys)
         /\ IsInjective(Append(s, k))
         /\ ToSet(Append(s, k)) = ToSet(s) \union {k}
         /\ Len(Append(s, k)) = Len(s) + 1
<1> DEFINE n == Len(s)
           p == Append(s, k)
<1>1. n \in Nat /\ DOMAIN s = 1 .. n
  BY LenProperties
<1>2. /\ p \in Seq(Keys) /\ Len(p) = n + 1
      /\ \A j \in 1 .. n : p[j] = s[j]
      /\ p[n + 1] = k
  BY AppendProperties
<1>3. DOMAIN p = 1 .. n + 1
  BY <1>2, LenProperties
<1> HIDE DEF p, n
<1>4. IsInjective(p)
  BY <1>1, <1>2, <1>3 DEF IsInjective, ToSet
<1>5. ToSet(p) = ToSet(s) \union {k}
  BY <1>1, <1>2, <1>3 DEF ToSet
<1> QED
  BY <1>2, <1>4, <1>5 DEF p, n

\* What is left when the oldest are evicted.
LEMMA SuffixKeeps ==
  ASSUME NEW s \in Seq(Keys), IsInjective(s), NEW n \in Nat
  PROVE  /\ SubSeq(s, n + 1, Len(s)) \in Seq(Keys)
         /\ IsInjective(SubSeq(s, n + 1, Len(s)))
         /\ ToSet(SubSeq(s, n + 1, Len(s))) \subseteq ToSet(s)
<1> DEFINE m == Len(s)
           p == SubSeq(s, n + 1, m)
<1>1. m \in Nat /\ DOMAIN s = 1 .. m /\ \A j \in 1 .. m : s[j] \in Keys
  BY LenProperties
<1>2. /\ p \in Seq(Keys) /\ Len(p) = IF n + 1 <= m THEN m - n ELSE 0
      /\ \A j \in 1 .. m - n : p[j] = s[n + j]
  <2>1. n + 1 \in Int /\ m \in Int /\ \A j \in n + 1 .. m : s[j] \in Keys
    BY <1>1
  <2>2. /\ p \in Seq(Keys) /\ Len(p) = IF n + 1 <= m THEN m - (n + 1) + 1 ELSE 0
        /\ \A j \in 1 .. m - (n + 1) + 1 : p[j] = s[(n + 1) + j - 1]
    BY <2>1, SubSeqProperties
  <2> HIDE DEF p, m
  <2> QED
    BY <2>2, <1>1
<1>3. DOMAIN p = 1 .. Len(p)
  BY <1>2, LenProperties
<1> HIDE DEF p, m
<1>4. \A j \in DOMAIN p : n + j \in DOMAIN s /\ p[j] = s[n + j]
  BY <1>1, <1>2, <1>3
<1>5. IsInjective(p)
  BY <1>1, <1>3, <1>2, <1>4 DEF IsInjective
<1>6. ToSet(p) \subseteq ToSet(s)
  BY <1>4 DEF ToSet
<1> QED
  BY <1>2, <1>5, <1>6 DEF p, m

\* A hit moves its key last, an expired one drops it, and a put adds one key.
LEMMA PutKeeps ==
  ASSUME store \in Seq(Keys), IsInjective(store), NEW k \in Keys, Put(k)
  PROVE  /\ store' \in Seq(Keys)
         /\ IsInjective(store')
         /\ Cached' \subseteq Cached \union {k}
<1> DEFINE all == Append(Drop(k), k)
<1>1. /\ Drop(k) \in Seq(Keys) /\ IsInjective(Drop(k))
      /\ ToSet(Drop(k)) = Cached \ {k}
  BY DropKeeps
<1>2. /\ all \in Seq(Keys) /\ IsInjective(all)
      /\ ToSet(all) = (Cached \ {k}) \union {k}
  BY <1>1, AppendKeeps
<1>3. Len(all) \in Nat
  BY <1>2, LenProperties
<1>4. PICK n \in 0 .. Len(all) - 1 : store' = SubSeq(all, n + 1, Len(all))
  BY DEF Put
<1> HIDE DEF all
<1>5. n \in Nat
  BY <1>3, <1>4
<1> QED
  BY <1>2, <1>4, <1>5, SuffixKeeps DEF Cached

-----------------------------------------------------------------------------
(* The flights                                                             *)

\* What the invariant says of a single task.
LEMMA TaskFacts ==
  ASSUME FlightInv
  PROVE  /\ \A g \in Groups : g \in Tasks /\ g \notin Chunks /\ stage[g] \in GroupStages
         /\ \A c \in Chunks : c \in Tasks /\ c \notin Groups /\ stage[c] \in ChunkStages
         /\ \A t \in Tasks : t \in Groups \/ t \in Chunks
         /\ \A g \in Groups : g # Nobody
         /\ \A k \in Keys : k # NoKey
  BY TasksAssumption DEF FlightInv, Shape, Tasks

LEMMA InitFlights == Init => FlightInv
<1> SUFFICES ASSUME Init PROVE FlightInv
  OBVIOUS
<1> USE DEF Init
<1>1. Shape
  BY TasksAssumption DEF Shape, Tasks, GroupStages, ChunkStages, Outcomes
<1>2. IsInjective(store)
  BY DEF IsInjective
<1>3. OneFlightPerKey /\ WaitersHaveLeader /\ QueueOfQueued
  BY TasksAssumption DEF OneFlightPerKey, WaitersHaveLeader, Tasks, QueueOfQueued, IsInjective
<1> QED
  BY <1>1, <1>2, <1>3 DEF FlightInv

\* A step that moves a task between stages in which it neither waits nor
\* fetches, and leaves keys, flights and store alone.
LEMMA MoveKeeps ==
  ASSUME FlightInv, NEW t \in Tasks, NEW s,
         s \in IF t \in Chunks THEN ChunkStages ELSE GroupStages,
         t \in Groups => stage[t] # "fetching" /\ s \notin {"fetching", "waiting"},
         stage' = [stage EXCEPT ![t] = s],
         queue' \in Seq(Tasks), QueueOfQueued', answer' \in [Groups -> Outcomes],
         UNCHANGED <<key, inflight, woken, store>>
  PROVE  FlightInv'
<1>1. Shape'
  BY DEF FlightInv, Shape
<1>2. stage \in [Tasks -> GroupStages \union ChunkStages]
  BY DEF FlightInv, Shape
<1>3. \A h \in Groups : h \in Tasks /\ h # Nobody
  BY TaskFacts
<1>4. OneFlightPerKey'
  BY <1>2, <1>3 DEF FlightInv, Shape, OneFlightPerKey, Cached
<1>5. WaitersHaveLeader'
  BY <1>2, <1>3 DEF FlightInv, WaitersHaveLeader
<1> QED
  BY <1>1, <1>4, <1>5 DEF FlightInv

LEMMA StartKeeps ==
  ASSUME FlightInv, NEW t \in Tasks, Start(t)
  PROVE  FlightInv'
<1> DEFINE n == Len(queue)
<1>1. /\ queue \in Seq(Tasks) /\ n \in Nat /\ DOMAIN queue = 1 .. n
      /\ stage \in [Tasks -> GroupStages \union ChunkStages]
  BY LenProperties DEF FlightInv, Shape
<1>2. /\ queue' \in Seq(Tasks) /\ Len(queue') = n + 1
      /\ \A i \in 1 .. n : queue'[i] = queue[i]
      /\ queue'[n + 1] = t
  BY <1>1, AppendProperties DEF Start
<1>3. DOMAIN queue' = 1 .. n + 1
  BY <1>2, LenProperties
<1> HIDE DEF n
<1>4. \A i \in 1 .. n : queue[i] \in Tasks /\ queue[i] # t /\ stage[queue[i]] = "queued"
  BY <1>1, ElementOfSeq DEF FlightInv, QueueOfQueued, Start, n
<1>5. QueueOfQueued'
  <2>1. IsInjective(queue')
    BY <1>1, <1>2, <1>3, <1>4 DEF FlightInv, QueueOfQueued, IsInjective
  <2>2. \A i \in 1 .. n + 1 : stage'[queue'[i]] = "queued"
    BY <1>1, <1>2, <1>4 DEF Start
  <2> QED
    BY <2>1, <2>2, <1>3 DEF QueueOfQueued
<1>6. answer' \in [Groups -> Outcomes]
  BY DEF FlightInv, Shape, Start
<1> QED
  BY <1>2, <1>5, <1>6, MoveKeeps DEF Start, GroupStages, ChunkStages

LEMMA AcquireKeeps ==
  ASSUME FlightInv, NEW t \in Tasks, Acquire(t)
  PROVE  FlightInv'
<1> DEFINE n == Len(queue)
<1>1. /\ queue \in Seq(Tasks) /\ queue # <<>> /\ n \in Nat /\ DOMAIN queue = 1 .. n
      /\ stage \in [Tasks -> GroupStages \union ChunkStages]
  BY LenProperties DEF FlightInv, Shape, Acquire
<1>2. /\ queue' \in Seq(Tasks) /\ Len(queue') = n - 1
      /\ \A i \in 1 .. n - 1 : queue'[i] = queue[i + 1]
  BY <1>1, HeadTailProperties DEF Acquire
<1>3. DOMAIN queue' = 1 .. n - 1 /\ n >= 1
  BY <1>1, <1>2, LenProperties, EmptySeq
<1>4. t = queue[1]
  BY <1>1 DEF Acquire
<1> HIDE DEF n
<1>5. stage[t] = "queued"
  BY <1>1, <1>3, <1>4 DEF FlightInv, QueueOfQueued
<1>6. \A i \in 1 .. n - 1 : /\ i + 1 \in 1 .. n
                            /\ queue'[i] \in Tasks /\ queue'[i] # t
                            /\ stage[queue'[i]] = "queued"
  <2> SUFFICES ASSUME NEW i \in 1 .. n - 1
               PROVE  /\ i + 1 \in 1 .. n
                      /\ queue'[i] \in Tasks /\ queue'[i] # t
                      /\ stage[queue'[i]] = "queued"
    OBVIOUS
  <2>1. i + 1 \in 1 .. n /\ 1 \in 1 .. n /\ i + 1 # 1 /\ queue'[i] = queue[i + 1]
    BY <1>1, <1>2, <1>3
  <2>2. queue[i + 1] \in Tasks
    BY <2>1, <1>1, ElementOfSeq DEF n
  <2> QED
    BY <2>1, <2>2, <1>1, <1>4 DEF FlightInv, QueueOfQueued, IsInjective
<1>7. QueueOfQueued'
  <2>1. IsInjective(queue')
    <3>1. \A x, y \in 1 .. n : queue[x] = queue[y] => x = y
      BY <1>1 DEF FlightInv, QueueOfQueued, IsInjective
    <3>2. ASSUME NEW x \in 1 .. n - 1, NEW y \in 1 .. n - 1, queue'[x] = queue'[y]
          PROVE  x = y
      <4>1. queue[x + 1] = queue[y + 1] /\ x + 1 \in 1 .. n /\ y + 1 \in 1 .. n
        BY <1>2, <1>6, <3>2
      <4>2. x + 1 = y + 1
        BY <3>1, <4>1
      <4> QED
        BY <1>1, <4>2
    <3> QED
      BY <3>2, <1>3 DEF IsInjective
  <2>2. \A i \in 1 .. n - 1 : stage'[queue'[i]] = "queued"
    BY <1>1, <1>6 DEF Acquire
  <2> QED
    BY <2>1, <2>2, <1>3 DEF QueueOfQueued
<1>8. answer' \in [Groups -> Outcomes]
  BY DEF FlightInv, Shape, Acquire
<1>9. t \in Groups => t \notin Chunks
  BY TaskFacts
<1> QED
  BY <1>2, <1>5, <1>7, <1>8, <1>9, MoveKeeps DEF Acquire, GroupStages, ChunkStages

\* A step that moves only tasks inside the gate does not touch its queue.
LEMMA QueueStays ==
  ASSUME FlightInv, UNCHANGED queue,
         \A t \in Tasks : stage[t] = "queued" => stage'[t] = "queued"
  PROVE  QueueOfQueued'
<1>1. \A i \in DOMAIN queue : queue[i] \in Tasks
  BY LenProperties DEF FlightInv, Shape
<1> QED
  BY <1>1 DEF FlightInv, QueueOfQueued

LEMMA LookupKeeps ==
  ASSUME FlightInv, NEW g \in Groups, NEW k \in KeysOf[g], NEW expired \in BOOLEAN,
         Lookup(g, k, expired)
  PROVE  FlightInv'
<1>1. /\ k \in Keys /\ g \in Tasks /\ g \notin Chunks /\ g # Nobody
      /\ stage[g] = "window" /\ key' = [key EXCEPT ![g] = k]
  BY TaskFacts, TasksAssumption DEF Lookup
<1>2. /\ stage \in [Tasks -> GroupStages \union ChunkStages]
      /\ key \in [Groups -> Keys \union {NoKey}]
      /\ inflight \in [Keys -> Groups \union {Nobody}]
      /\ answer \in [Groups -> Outcomes]
      /\ store \in Seq(Keys) /\ IsInjective(store)
  BY DEF FlightInv, Shape
<1>3. /\ Drop(k) \in Seq(Keys) /\ IsInjective(Drop(k))
      /\ ToSet(Drop(k)) = Cached \ {k}
  BY <1>2, DropKeeps
<1>4. \A h \in Groups : h \in Tasks /\ h # Nobody
  BY TaskFacts
<1>5. CASE Hit(k, expired)
  <2>1. /\ store' = Append(Drop(k), k) /\ UNCHANGED <<queue, woken, inflight>>
        /\ stage' = [stage EXCEPT ![g] = "done"]
        /\ answer' = [answer EXCEPT ![g] = "rows"]
    BY <1>5 DEF Lookup, End
  <2>2. store' \in Seq(Keys) /\ IsInjective(store') /\ Cached' = Cached
    <3>1. k \in Cached /\ k \notin ToSet(Drop(k))
      BY <1>3, <1>5 DEF Hit
    <3>2. /\ store' \in Seq(Keys) /\ IsInjective(store')
          /\ ToSet(store') = (Cached \ {k}) \union {k}
      BY <1>1, <1>3, <2>1, <3>1, AppendKeeps
    <3>3. Cached' = ToSet(store')
      BY DEF Cached
    <3> HIDE DEF Cached
    <3> QED
      BY <3>1, <3>2, <3>3
  <2>3. Shape'
    BY <1>1, <1>2, <2>1, <2>2 DEF FlightInv, Shape, GroupStages, Outcomes
  <2>4. QueueOfQueued'
    BY <1>1, <1>2, <2>1, QueueStays
  <2>5. OneFlightPerKey'
    BY <1>1, <1>2, <1>4, <2>1, <2>2 DEF FlightInv, OneFlightPerKey
  <2>6. WaitersHaveLeader'
    BY <1>1, <1>2, <1>4, <2>1 DEF FlightInv, WaitersHaveLeader
  <2> QED
    BY <2>2, <2>3, <2>4, <2>5, <2>6 DEF FlightInv
<1>6. CASE ~Hit(k, expired) /\ Leads(k)
  <2>1. /\ store' = Drop(k) /\ UNCHANGED <<queue, woken, answer>>
        /\ stage' = [stage EXCEPT ![g] = "fetching"]
        /\ inflight' = [inflight EXCEPT ![k] = g]
        /\ inflight[k] = Nobody
    BY <1>6 DEF Lookup, DropExpired, Leads
  <2>2. store' \in Seq(Keys) /\ IsInjective(store') /\ Cached' = Cached \ {k}
    BY <1>3, <2>1 DEF Cached
  <2>3. Shape'
    BY <1>1, <1>2, <2>1, <2>2 DEF FlightInv, Shape, GroupStages
  <2>4. QueueOfQueued'
    BY <1>1, <1>2, <2>1, QueueStays
  <2>5. OneFlightPerKey'
    BY <1>1, <1>2, <1>4, <2>1, <2>2 DEF FlightInv, OneFlightPerKey
  <2>6. WaitersHaveLeader'
    BY <1>1, <1>2, <1>4, <2>1 DEF FlightInv, WaitersHaveLeader
  <2> QED
    BY <2>2, <2>3, <2>4, <2>5, <2>6 DEF FlightInv
<1>7. CASE ~Hit(k, expired) /\ ~Leads(k)
  <2>1. /\ store' = Drop(k) /\ UNCHANGED <<queue, woken, answer, inflight>>
        /\ stage' = [stage EXCEPT ![g] = "waiting"]
        /\ inflight[k] # Nobody
    BY <1>7 DEF Lookup, DropExpired, Leads
  <2>2. store' \in Seq(Keys) /\ IsInjective(store') /\ Cached' = Cached \ {k}
    BY <1>3, <2>1 DEF Cached
  <2>3. Shape'
    BY <1>1, <1>2, <2>1, <2>2 DEF FlightInv, Shape, GroupStages
  <2>4. QueueOfQueued'
    BY <1>1, <1>2, <2>1, QueueStays
  <2>5. OneFlightPerKey'
    BY <1>1, <1>2, <1>4, <2>1, <2>2 DEF FlightInv, OneFlightPerKey
  <2>6. WaitersHaveLeader'
    BY <1>1, <1>2, <1>4, <2>1 DEF FlightInv, WaitersHaveLeader
  <2> QED
    BY <2>2, <2>3, <2>4, <2>5, <2>6 DEF FlightInv
<1> QED
  BY <1>5, <1>6, <1>7

\* The end of a flight: whoever waits for it is woken, no other is touched.
LEMMA SettleKeeps ==
  ASSUME FlightInv, NEW g \in Groups, stage[g] = "fetching",
         NEW o \in Outcomes, Settle(g, o), UNCHANGED <<queue, key>>,
         store' \in Seq(Keys), IsInjective(store'), Cached' \subseteq Cached \union {key[g]}
  PROVE  FlightInv'
<1> DEFINE k == key[g]
<1>1. /\ stage \in [Tasks -> GroupStages \union ChunkStages]
      /\ key \in [Groups -> Keys \union {NoKey}]
      /\ inflight \in [Keys -> Groups \union {Nobody}]
      /\ woken \in [Groups -> Outcomes] /\ answer \in [Groups -> Outcomes]
  BY DEF FlightInv, Shape
<1>2. \A h \in Groups : h \in Tasks /\ h \notin Chunks /\ h # Nobody
  BY TaskFacts
<1>3. k \in Keys /\ inflight[k] = g
  BY DEF FlightInv, OneFlightPerKey
<1>4. /\ inflight' = [inflight EXCEPT ![k] = Nobody]
      /\ stage' = [t \in Tasks |-> CASE t = g -> "done"
                                     [] t \in WaitersOf(k) -> "woken"
                                     [] OTHER -> stage[t]]
      /\ woken' = [h \in Groups |-> IF h \in WaitersOf(k) THEN o ELSE woken[h]]
      /\ answer' = [answer EXCEPT ![g] = o]
  BY DEF Settle
<1>5. \A h \in WaitersOf(k) : h \in Groups /\ stage[h] = "waiting" /\ key[h] = k
  BY DEF WaitersOf
<1>6. g \notin WaitersOf(k)
  BY <1>5
<1>7. \A t \in Tasks : \/ t = g /\ stage'[t] = "done"
                       \/ t \in WaitersOf(k) /\ stage'[t] = "woken"
                       \/ t # g /\ t \notin WaitersOf(k) /\ stage'[t] = stage[t]
  BY <1>4, <1>6
<1>8. Shape'
  <2>1. \A t \in Tasks : stage'[t] \in IF t \in Chunks THEN ChunkStages ELSE GroupStages
    BY <1>2, <1>5, <1>7 DEF FlightInv, Shape, GroupStages
  <2>2. stage' \in [Tasks -> GroupStages \union ChunkStages]
    BY <1>4, <2>1
  <2>3. inflight' \in [Keys -> Groups \union {Nobody}]
    BY <1>1, <1>3, <1>4
  <2>4. woken' \in [Groups -> Outcomes] /\ answer' \in [Groups -> Outcomes]
    BY <1>1, <1>4
  <2> QED
    BY <2>1, <2>2, <2>3, <2>4 DEF FlightInv, Shape
<1>9. QueueOfQueued'
  BY <1>5, <1>7, QueueStays
<1>10. OneFlightPerKey'
  <2>1. ASSUME NEW h \in Groups, stage'[h] = "fetching"
        PROVE  key'[h] \in Keys /\ inflight'[key'[h]] = h
    <3>1. h # g /\ stage[h] = "fetching"
      BY <1>2, <1>7, <2>1
    <3>2. key[h] \in Keys /\ inflight[key[h]] = h
      BY <3>1 DEF FlightInv, OneFlightPerKey
    <3>3. key[h] # k
      BY <1>3, <3>1, <3>2
    <3> QED
      BY <1>1, <1>4, <3>2, <3>3
  <2>2. ASSUME NEW x \in Keys, inflight'[x] # Nobody
        PROVE  stage'[inflight'[x]] = "fetching" /\ key'[inflight'[x]] = x /\ x \notin Cached'
    <3>1. x # k /\ inflight'[x] = inflight[x]
      BY <1>1, <1>3, <1>4, <2>2
    <3>2. /\ inflight[x] \in Groups
          /\ stage[inflight[x]] = "fetching" /\ key[inflight[x]] = x /\ x \notin Cached
      BY <1>1, <2>2, <3>1 DEF FlightInv, OneFlightPerKey
    <3>3. inflight[x] # g /\ inflight[x] \notin WaitersOf(k)
      BY <1>5, <3>1, <3>2
    <3> QED
      BY <1>2, <1>7, <3>1, <3>2, <3>3
  <2> QED
    BY <2>1, <2>2 DEF OneFlightPerKey
<1>11. WaitersHaveLeader'
  <2> SUFFICES ASSUME NEW h \in Groups, stage'[h] = "waiting"
               PROVE  key'[h] \in Keys /\ inflight'[key'[h]] # Nobody
    BY DEF WaitersHaveLeader
  <2>1. stage[h] = "waiting" /\ h \notin WaitersOf(k)
    BY <1>2, <1>7
  <2>2. key[h] \in Keys /\ inflight[key[h]] # Nobody /\ key[h] # k
    BY <2>1 DEF FlightInv, WaitersHaveLeader, WaitersOf
  <2> QED
    BY <1>1, <1>4, <2>2
<1> QED
  BY <1>8, <1>9, <1>10, <1>11 DEF FlightInv

LEMMA FetchKeeps ==
  ASSUME FlightInv, NEW g \in Groups, Fetched(g) \/ FetchFails(g)
  PROVE  FlightInv'
<1>1. stage[g] = "fetching" /\ UNCHANGED <<queue, key>>
  BY DEF Fetched, FetchFails
<1>2. key[g] \in Keys
  BY <1>1 DEF FlightInv, OneFlightPerKey
<1>3. store \in Seq(Keys) /\ IsInjective(store)
  BY DEF FlightInv, Shape
<1>4. CASE Fetched(g)
  <2>1. Put(key[g]) /\ Settle(g, "rows") /\ "rows" \in Outcomes
    BY <1>4 DEF Fetched, Outcomes
  <2>2. store' \in Seq(Keys) /\ IsInjective(store') /\ Cached' \subseteq Cached \union {key[g]}
    BY <1>2, <1>3, <2>1, PutKeeps
  <2> QED
    BY <1>1, <2>1, <2>2, SettleKeeps
<1>5. CASE FetchFails(g)
  <2>1. Settle(g, "error") /\ "error" \in Outcomes /\ store' = store
    BY <1>5 DEF FetchFails, Outcomes
  <2>2. Cached' = Cached
    BY <2>1 DEF Cached
  <2> QED
    BY <1>1, <1>3, <2>1, <2>2, SettleKeeps
<1> QED
  BY <1>4, <1>5

LEMMA ResumeKeeps ==
  ASSUME FlightInv, NEW g \in Groups, Resume(g)
  PROVE  FlightInv'
<1>1. g \in Tasks /\ g \notin Chunks
  BY TaskFacts
<1>2. /\ stage[g] = "woken" /\ stage' = [stage EXCEPT ![g] = "done"]
      /\ answer' = [answer EXCEPT ![g] = woken[g]]
      /\ UNCHANGED <<queue, key, inflight, woken, store>>
  BY DEF Resume, End
<1>3. /\ stage \in [Tasks -> GroupStages \union ChunkStages] /\ queue \in Seq(Tasks)
      /\ woken \in [Groups -> Outcomes] /\ answer \in [Groups -> Outcomes]
  BY DEF FlightInv, Shape
<1>4. QueueOfQueued'
  BY <1>2, <1>3, QueueStays
<1> QED
  BY <1>1, <1>2, <1>3, <1>4, MoveKeeps DEF GroupStages

LEMMA ChunkKeeps ==
  ASSUME FlightInv, NEW c \in Chunks, Chunk(c)
  PROVE  FlightInv'
<1>1. c \in Tasks /\ c \notin Groups
  BY TaskFacts
<1>2. PICK s \in {"done", "fallback"} :
        stage[c] # "queued" /\ stage' = [stage EXCEPT ![c] = s]
  BY DEF Chunk
<1>3. UNCHANGED <<queue, key, inflight, woken, store, answer>>
  BY DEF Chunk
<1>4. /\ stage \in [Tasks -> GroupStages \union ChunkStages] /\ queue \in Seq(Tasks)
      /\ answer \in [Groups -> Outcomes]
  BY DEF FlightInv, Shape
<1>5. QueueOfQueued'
  BY <1>2, <1>3, <1>4, QueueStays
<1> QED
  BY <1>1, <1>2, <1>3, <1>4, <1>5, MoveKeeps DEF ChunkStages

LEMMA FlightStep == FlightInv /\ [Next]_vars => FlightInv'
<1> SUFFICES ASSUME FlightInv, [Next]_vars PROVE FlightInv'
  OBVIOUS
<1>1. CASE Next
  <2>1. PICK t \in Tasks : Run(t)
    BY <1>1 DEF Next
  <2>2. CASE Start(t)
    BY <2>2, StartKeeps
  <2>3. CASE Acquire(t)
    BY <2>3, AcquireKeeps
  <2>4. CASE t \in Groups /\ \E k \in KeysOf[t], expired \in BOOLEAN : Lookup(t, k, expired)
    BY <2>4, LookupKeeps
  <2>5. CASE t \in Groups /\ (Fetched(t) \/ FetchFails(t))
    BY <2>5, FetchKeeps
  <2>6. CASE t \in Groups /\ Resume(t)
    BY <2>6, ResumeKeeps
  <2>7. CASE t \in Chunks /\ Chunk(t)
    BY <2>7, ChunkKeeps
  <2> QED
    BY <2>1, <2>2, <2>3, <2>4, <2>5, <2>6, <2>7 DEF Run
<1>2. CASE UNCHANGED vars
  BY <1>2 DEF vars, FlightInv, Shape, QueueOfQueued, OneFlightPerKey, WaitersHaveLeader, Cached
<1> QED
  BY <1>1, <1>2

\* Whatever the groups, keys, results and cap: get_or_fetch runs one fetch of a
\* key at a time, the one _inflight names, and none of a key it has cached.
THEOREM SingleFlight == Spec => []OneFlightPerKey
<1>1. FlightInv => OneFlightPerKey
  BY DEF FlightInv
<1> QED
  BY <1>1, InitFlights, FlightStep, PTL DEF Spec

\* Whatever the groups, keys, results and cap: no caller of get_or_fetch waits
\* for a fetch that nobody runs.
THEOREM NoOrphan == Spec => []WaitersHaveLeader
<1>1. FlightInv => WaitersHaveLeader
  BY DEF FlightInv
<1> QED
  BY <1>1, InitFlights, FlightStep, PTL DEF Spec

-----------------------------------------------------------------------------
(* The gate                                                                *)

\* A step in which no task enters the gate.
LEMMA NoEntryKeeps ==
  ASSUME GateKept, Shape', \A t \in Tasks : stage'[t] \in HoldingStages => stage[t] \in HoldingStages
  PROVE  GateKept'
<1>1. Holding' \subseteq Holding /\ Holding \subseteq Tasks
  BY DEF Holding, HoldingStages
<1>2. IsFiniteSet(Holding)
  BY <1>1, TasksAssumption, FS_Subset
<1>3. /\ Cardinality(Holding') <= Cardinality(Holding)
      /\ Cardinality(Holding') \in Nat /\ Cardinality(Holding) \in Nat
  BY <1>1, <1>2, FS_Subset, FS_CardinalityType
<1>4. GateSize \in Nat /\ GateSize' = GateSize
  BY SizesAssumption DEF GateSize, Max2
<1>5. Cardinality(Holding)' = Cardinality(Holding')
  OBVIOUS
<1> QED
  BY <1>3, <1>4, <1>5 DEF GateKept

LEMMA AcquireKeepsGate ==
  ASSUME GateKept, Shape', NEW t \in Tasks, Acquire(t)
  PROVE  GateKept'
<1>1. Holding' \subseteq Holding \union {t} /\ Holding \subseteq Tasks
  BY DEF Acquire, Holding, HoldingStages, GateKept, Shape
<1>2. IsFiniteSet(Holding)
  BY <1>1, TasksAssumption, FS_Subset
<1>3. /\ IsFiniteSet(Holding \union {t})
      /\ \/ Cardinality(Holding \union {t}) = Cardinality(Holding)
         \/ Cardinality(Holding \union {t}) = Cardinality(Holding) + 1
  BY <1>2, FS_AddElement
<1>4. /\ Cardinality(Holding') <= Cardinality(Holding \union {t})
      /\ Cardinality(Holding') \in Nat /\ Cardinality(Holding) \in Nat
  BY <1>1, <1>2, <1>3, FS_Subset, FS_CardinalityType
<1>5. GateSize \in Nat /\ Cardinality(Holding) < GateSize
  BY SizesAssumption DEF GateSize, Max2, Acquire, MayEnter
<1>6. Cardinality(Holding') <= GateSize
  BY <1>3, <1>4, <1>5
<1> QED
  BY <1>6 DEF GateKept

LEMMA GateStep == GateKept /\ FlightInv /\ FlightInv' /\ [Next]_vars => GateKept'
<1> SUFFICES ASSUME GateKept, FlightInv, FlightInv', [Next]_vars PROVE GateKept'
  OBVIOUS
<1> USE DEF HoldingStages
<1>1. Shape' /\ stage \in [Tasks -> GroupStages \union ChunkStages]
  BY DEF FlightInv, Shape
<1>2. CASE Next
  <2>1. PICK t \in Tasks : Run(t)
    BY <1>2 DEF Next
  <2>2. CASE Start(t)
    BY <2>2, <1>1, NoEntryKeeps DEF Start
  <2>3. CASE Acquire(t)
    BY <2>3, <1>1, AcquireKeepsGate
  <2>4. CASE t \in Groups /\ \E k \in KeysOf[t], expired \in BOOLEAN : Lookup(t, k, expired)
    <3>1. stage[t] = "window"
      BY <2>4 DEF Lookup
    <3>2. \E s : stage' = [stage EXCEPT ![t] = s]
      BY <2>4 DEF Lookup, End
    <3> QED
      BY <1>1, <3>1, <3>2, NoEntryKeeps
  <2>5. CASE t \in Groups /\ (Fetched(t) \/ FetchFails(t))
    <3>1. stage' = [u \in Tasks |-> CASE u = t -> "done"
                                      [] u \in WaitersOf(key[t]) -> "woken"
                                      [] OTHER -> stage[u]]
      BY <2>5 DEF Fetched, FetchFails, Settle
    <3>2. stage[t] = "fetching" /\ \A h \in WaitersOf(key[t]) : stage[h] = "waiting"
      BY <2>5 DEF Fetched, FetchFails, WaitersOf
    <3> QED
      BY <1>1, <3>1, <3>2, NoEntryKeeps
  <2>6. CASE t \in Groups /\ Resume(t)
    BY <2>6, <1>1, NoEntryKeeps DEF Resume, End
  <2>7. CASE t \in Chunks /\ Chunk(t)
    BY <2>7, <1>1, NoEntryKeeps DEF Chunk
  <2> QED
    BY <2>1, <2>2, <2>3, <2>4, <2>5, <2>6, <2>7 DEF Run
<1>3. CASE UNCHANGED vars
  BY <1>1, <1>3, NoEntryKeeps DEF vars
<1> QED
  BY <1>2, <1>3

LEMMA InitGate == Init => GateKept
<1> SUFFICES ASSUME Init PROVE GateKept
  OBVIOUS
<1>1. Holding = {}
  BY DEF Init, Holding, HoldingStages
<1>2. Cardinality(Holding) = 0
  BY <1>1, FS_EmptySet
<1>3. GateSize \in Nat
  BY SizesAssumption DEF GateSize, Max2
<1> QED
  BY <1>2, <1>3, InitFlights DEF GateKept, FlightInv

\* The tasks that use a connection are inside the gate, which is smaller than
\* the pool.
LEMMA GateSpares == GateKept => ReserveKept
<1> SUFFICES ASSUME GateKept, PoolSize > 1
             PROVE  Cardinality({ t \in Tasks : stage[t] \in {"window", "fetching"} }) < PoolSize
  BY DEF ReserveKept
<1> DEFINE Users == { t \in Tasks : stage[t] \in {"window", "fetching"} }
<1>1. Users \subseteq Holding /\ Holding \subseteq Tasks
  BY DEF Holding, HoldingStages
<1>2. IsFiniteSet(Holding)
  BY <1>1, TasksAssumption, FS_Subset
<1>3. /\ Cardinality(Users) <= Cardinality(Holding)
      /\ Cardinality(Users) \in Nat /\ Cardinality(Holding) \in Nat
  BY <1>1, <1>2, FS_Subset, FS_CardinalityType
<1>4. GateSize = PoolSize - 1 /\ PoolSize \in Nat
  BY SizesAssumption DEF GateSize, Max2
<1>5. Cardinality(Holding) <= GateSize
  BY DEF GateKept
<1> QED
  BY <1>3, <1>4, <1>5

\* Whatever the requests, their fallbacks and the size of the pool: the gate of
\* _options_concurrency leaves a connection to the lookups beside the fetches.
THEOREM SpareConnection == Spec => []ReserveKept
<1> DEFINE Inv == FlightInv /\ GateKept
<1>1. Init => Inv
  BY InitFlights, InitGate
<1>2. Inv /\ [Next]_vars => Inv'
  BY FlightStep, GateStep
<1>3. Inv => ReserveKept
  BY GateSpares
<1> QED
  BY <1>1, <1>2, <1>3, PTL DEF Spec
-----------------------------------------------------------------------------
(* The sums                                                                *)

\* A set of naturals that is not empty has a least element.
LEMMA HasLeast ==
  ASSUME NEW T, T \subseteq Nat, T # {}
  PROVE  \E m \in T : \A k \in T : m <= k
<1> DEFINE R == OpToRel(<, Nat)
<1>1. IsWellFoundedOn(R, Nat)
  BY NatLessThanWellFounded
<1>2. \A i, j \in Nat : i < j => <<i, j>> \in R
  BY DEF OpToRel
<1> HIDE DEF R
<1>3. PICK m \in T : \A k \in T : <<k, m>> \notin R
  BY <1>1, WFMin
<1>4. \A k \in T : k \in Nat /\ m \in Nat /\ ~(k < m)
  BY <1>2, <1>3
<1> QED
  BY <1>4

\* The key a sum takes next, and the function a sum of rows is an application of.
Pick(s) == CHOOSE k \in s : TRUE

IsSum(f, S) ==
  f = [s \in SUBSET S |-> IF s = {} THEN 0 ELSE RowsOf[Pick(s)] + f[s \ {Pick(s)}]]

\* A sum in which the order is of no account.
Additive(f, S) ==
  /\ f \in [SUBSET S -> Nat]
  /\ \A k \in S : f[{k}] = RowsOf[k]
  /\ \A s, t \in SUBSET S : s \intersect t = {} => f[s \union t] = f[s] + f[t]

LEMMA SumIsChosen ==
  ASSUME NEW S
  PROVE  SumRows(S) =
           (CHOOSE f : f = [s \in SUBSET S |->
                              IF s = {} THEN 0 ELSE RowsOf[Pick(s)] + f[s \ {Pick(s)}]])[S]
  BY DEF SumRows, MapThenSumSet, MapThenFoldSet, Pick

LEMMA SumIsASum ==
  ASSUME NEW S, NEW f, IsSum(f, S)
  PROVE  \E g : IsSum(g, S) /\ SumRows(S) = g[S]
<1> DEFINE R(g) == g = [s \in SUBSET S |->
                          IF s = {} THEN 0 ELSE RowsOf[Pick(s)] + g[s \ {Pick(s)}]]
<1>1. SumRows(S) = (CHOOSE g : R(g))[S]
  BY SumIsChosen
<1>2. R(CHOOSE g : R(g))
  <2>1. \E g : R(g)
    BY DEF IsSum
  <2> HIDE DEF R
  <2> QED
    BY <2>1
<1> QED
  BY <1>1, <1>2 DEF IsSum

LEMMA AdditiveFacts ==
  ASSUME NEW S, NEW f, Additive(f, S)
  PROVE  /\ f[{}] = 0
         /\ \A s \in SUBSET S, k \in S : k \in s => f[s] = RowsOf[k] + f[s \ {k}]
<1>1. f[{}] = 0
  <2>1. {} \in SUBSET S /\ {} \union {} = {} /\ {} \intersect {} = {}
    OBVIOUS
  <2>2. f[{}] \in Nat /\ f[{}] = f[{}] + f[{}]
    BY <2>1 DEF Additive
  <2>3. \A n \in Nat : n = n + n => n = 0
    OBVIOUS
  <2> QED
    BY <2>2, <2>3
<1>2. ASSUME NEW s \in SUBSET S, NEW k \in S, k \in s
      PROVE  f[s] = RowsOf[k] + f[s \ {k}]
  <2>1. /\ {k} \in SUBSET S /\ s \ {k} \in SUBSET S
        /\ {k} \union (s \ {k}) = s /\ {k} \intersect (s \ {k}) = {}
    BY <1>2
  <2> QED
    BY <2>1 DEF Additive
<1> QED
  BY <1>1, <1>2

\* An order-free sum over one key more.
LEMMA AdditiveGrows ==
  ASSUME NEW S \in SUBSET Keys, NEW f, Additive(f, S), NEW x \in Keys, x \notin S
  PROVE  \E g : Additive(g, S \union {x})
<1> DEFINE U == S \union {x}
           w(s) == IF x \in s THEN RowsOf[x] ELSE 0
           g == [s \in SUBSET U |-> f[s \ {x}] + w(s)]
<1>1. /\ RowsOf[x] \in Nat /\ \A s \in SUBSET U : w(s) \in Nat
      /\ \A s \in SUBSET U : s \ {x} \in SUBSET S /\ f[s \ {x}] \in Nat
  BY SizesAssumption DEF Additive
<1>2. g \in [SUBSET U -> Nat]
  BY <1>1
<1>3. ASSUME NEW k \in U PROVE g[{k}] = RowsOf[k]
  <2>1. {k} \in SUBSET U /\ g[{k}] = f[{k} \ {x}] + w({k})
    OBVIOUS
  <2>2. CASE k = x
    <3>1. {k} \ {x} = {} /\ w({k}) = RowsOf[x]
      BY <2>2
    <3>2. f[{k} \ {x}] = 0
      BY <3>1, AdditiveFacts
    <3>3. 0 + RowsOf[x] = RowsOf[x]
      BY <1>1
    <3> HIDE DEF w, g
    <3> QED
      BY <2>1, <2>2, <3>1, <3>2, <3>3
  <2>3. CASE k # x
    <3>1. {k} \ {x} = {k} /\ w({k}) = 0 /\ k \in S
      BY <2>3
    <3>2. f[{k}] = RowsOf[k] /\ f[{k}] \in Nat
      BY <1>1, <2>1, <3>1 DEF Additive
    <3> QED
      BY <2>1, <3>1, <3>2
  <2> QED
    BY <2>2, <2>3
<1>4. ASSUME NEW s \in SUBSET U, NEW t \in SUBSET U, s \intersect t = {}
      PROVE  g[s \union t] = g[s] + g[t]
  <2> DEFINE a == s \ {x}
             b == t \ {x}
  <2>1. /\ s \union t \in SUBSET U /\ (s \union t) \ {x} = a \union b
        /\ a \intersect b = {} /\ a \in SUBSET S /\ b \in SUBSET S
    BY <1>4
  <2>2. f[a \union b] = f[a] + f[b] /\ f[a] \in Nat /\ f[b] \in Nat
    BY <2>1 DEF Additive
  <2>3. w(s \union t) = w(s) + w(t) /\ w(s) \in Nat /\ w(t) \in Nat
    BY <1>1, <1>4
  <2>4. g[s \union t] = f[a \union b] + w(s \union t) /\ g[s] = f[a] + w(s) /\ g[t] = f[b] + w(t)
    BY <2>1
  <2> HIDE DEF a, b, g, w
  <2> QED
    BY <2>2, <2>3, <2>4
<1> HIDE DEF g
<1>5. Additive(g, U)
  BY <1>2, <1>3, <1>4 DEF Additive
<1> QED
  BY <1>5

LEMMA AdditiveExists ==
  ASSUME NEW S \in SUBSET Keys, IsFiniteSet(S)
  PROVE  \E f : Additive(f, S)
<1> DEFINE Bad(s) == ~\E f : Additive(f, s)
           T == { n \in Nat : \E s \in SUBSET S : Cardinality(s) = n /\ Bad(s) }
<1> SUFFICES ASSUME Bad(S) PROVE FALSE
  OBVIOUS
<1>1. \A s \in SUBSET S : IsFiniteSet(s) /\ Cardinality(s) \in Nat
  BY FS_Subset, FS_CardinalityType
<1> HIDE DEF Bad
<1>2. T # {}
  BY <1>1
<1>3. PICK n \in T : \A k \in T : n <= k
  <2>1. T \subseteq Nat
    OBVIOUS
  <2> HIDE DEF T
  <2> QED
    BY <1>2, <2>1, HasLeast
<1>4. PICK s \in SUBSET S : Cardinality(s) = n /\ Bad(s)
  OBVIOUS
<1>5. s # {}
  <2> SUFFICES ASSUME s = {} PROVE FALSE
    OBVIOUS
  <2> DEFINE z == [t \in SUBSET {} |-> 0]
  <2>1. z \in [SUBSET {} -> Nat] /\ z[{}] = 0
    OBVIOUS
  <2>2. \A t \in SUBSET {} : t = {}
    OBVIOUS
  <2> HIDE DEF z
  <2>3. ASSUME NEW t \in SUBSET {}, NEW u \in SUBSET {}
        PROVE  z[t \union u] = z[t] + z[u]
    <3>1. t \union u = {}
      OBVIOUS
    <3>2. z[t] = 0 /\ z[u] = 0 /\ z[t \union u] = 0
      BY <2>1, <2>2, <3>1
    <3>3. 0 = 0 + 0
      OBVIOUS
    <3> QED
      BY <3>2, <3>3
  <2>4. Additive(z, {})
    BY <2>1, <2>3 DEF Additive
  <2> QED
    BY <1>4, <2>4 DEF Bad
<1>6. PICK x \in s : TRUE
  BY <1>5
<1> DEFINE r == s \ {x}
<1>7. r \in SUBSET S /\ Cardinality(r) = n - 1 /\ Cardinality(r) \in Nat
  <2>1. Cardinality(r) = Cardinality(s) - 1
    BY <1>1, <1>6, FS_RemoveElement
  <2> QED
    BY <1>1, <1>4, <2>1
<1>8. ~Bad(r)
  <2>1. n - 1 \notin T
    BY <1>3
  <2> QED
    BY <1>7, <2>1
<1>9. PICK f : Additive(f, r)
  BY <1>8 DEF Bad
<1>10. r \union {x} = s /\ x \notin r /\ x \in Keys /\ r \in SUBSET Keys
  BY <1>6
<1> HIDE DEF r
<1> QED
  BY <1>4, <1>9, <1>10, AdditiveGrows DEF Bad

\* The order in which a sum takes the keys of a finite set makes no difference.
LEMMA SumsAgree ==
  ASSUME NEW S, IsFiniteSet(S), NEW f, Additive(f, S), NEW g, IsSum(g, S)
  PROVE  \A s \in SUBSET S : g[s] = f[s]
<1> DEFINE T == { n \in Nat : \E s \in SUBSET S : Cardinality(s) = n /\ g[s] # f[s] }
<1>1. \A s \in SUBSET S : IsFiniteSet(s) /\ Cardinality(s) \in Nat
  BY FS_Subset, FS_CardinalityType
<1> SUFFICES ASSUME NEW u \in SUBSET S, g[u] # f[u] PROVE FALSE
  OBVIOUS
<1>2. T # {} /\ T \subseteq Nat
  BY <1>1
<1>3. PICK n \in T : \A k \in T : n <= k
  <2> HIDE DEF T
  <2> QED
    BY <1>2, HasLeast
<1>4. PICK s \in SUBSET S : Cardinality(s) = n /\ g[s] # f[s]
  OBVIOUS
<1>5. g[s] = IF s = {} THEN 0 ELSE RowsOf[Pick(s)] + g[s \ {Pick(s)}]
  <2> DEFINE e(t) == IF t = {} THEN 0 ELSE RowsOf[Pick(t)] + g[t \ {Pick(t)}]
  <2>1. g = [t \in SUBSET S |-> e(t)]
    BY DEF IsSum
  <2> HIDE DEF e
  <2>2. g[s] = e(s)
    BY <2>1
  <2> QED
    BY <2>2 DEF e
<1>6. s # {}
  BY <1>4, <1>5, AdditiveFacts
<1>7. Pick(s) \in s
  BY <1>6 DEF Pick
<1> DEFINE r == s \ {Pick(s)}
<1>8. r \in SUBSET S /\ Cardinality(r) = n - 1 /\ Cardinality(r) \in Nat
  <2>1. Cardinality(r) = Cardinality(s) - 1
    BY <1>1, <1>7, FS_RemoveElement
  <2> QED
    BY <1>1, <1>4, <2>1
<1>9. g[r] = f[r]
  <2>1. n - 1 \notin T
    BY <1>3
  <2> QED
    BY <1>8, <2>1
<1>10. f[s] = RowsOf[Pick(s)] + f[r]
  BY <1>7, AdditiveFacts
<1> QED
  BY <1>4, <1>5, <1>6, <1>9, <1>10

\* Over a finite set of keys the rows add up whatever their order.
LEMMA SumIsAdditive ==
  ASSUME NEW S \in SUBSET Keys, IsFiniteSet(S)
  PROVE  \E f : Additive(f, S) /\ \A s \in SUBSET S : SumRows(s) = f[s]
<1>1. PICK f : Additive(f, S)
  BY AdditiveExists
<1>2. ASSUME NEW s \in SUBSET S PROVE SumRows(s) = f[s]
  <2> DEFINE h == [t \in SUBSET s |-> f[t]]
  <2>1. Additive(h, s)
    <3>1. h \in [SUBSET s -> Nat] /\ \A t \in SUBSET s : h[t] = f[t]
      BY <1>1 DEF Additive
    <3>2. \A t, u \in SUBSET s : t \union u \in SUBSET s
      OBVIOUS
    <3> HIDE DEF h
    <3> QED
      BY <1>1, <3>1, <3>2 DEF Additive
  <2>2. IsSum(h, s)
    <3> DEFINE e(t) == IF t = {} THEN 0 ELSE RowsOf[Pick(t)] + h[t \ {Pick(t)}]
    <3>1. ASSUME NEW t \in SUBSET s PROVE h[t] = e(t)
      <4>1. CASE t = {}
        BY <2>1, <4>1, AdditiveFacts
      <4>2. CASE t # {}
        <5>1. Pick(t) \in t
          BY <4>2 DEF Pick
        <5>2. h[t] = RowsOf[Pick(t)] + h[t \ {Pick(t)}]
          <6> HIDE DEF h
          <6> QED
            BY <2>1, <5>1, AdditiveFacts
        <5> QED
          BY <4>2, <5>2
      <4> QED
        BY <4>1, <4>2
    <3>2. h = [t \in SUBSET s |-> h[t]]
      OBVIOUS
    <3>3. h = [t \in SUBSET s |-> e(t)]
      <4> HIDE DEF h, e
      <4> QED
        BY <3>1, <3>2
    <3> QED
      BY <3>3 DEF IsSum
  <2> HIDE DEF h
  <2>3. PICK g : IsSum(g, s) /\ SumRows(s) = g[s]
    BY <2>2, SumIsASum
  <2>4. IsFiniteSet(s)
    BY FS_Subset
  <2>5. g[s] = h[s]
    BY <2>1, <2>3, <2>4, SumsAgree
  <2> QED
    BY <2>3, <2>5 DEF h
<1> QED
  BY <1>1, <1>2

\* The rows of two parts add up to the rows of the whole.
LEMMA SumOfParts ==
  ASSUME NEW s \in SUBSET Keys, NEW t \in SUBSET Keys, IsFiniteSet(s), IsFiniteSet(t),
         s \intersect t = {}
  PROVE  /\ SumRows(s \union t) = SumRows(s) + SumRows(t)
         /\ SumRows(s) \in Nat /\ SumRows(t) \in Nat
<1> DEFINE S == s \union t
<1>1. S \in SUBSET Keys /\ IsFiniteSet(S)
  BY FS_Union
<1>2. PICK f : Additive(f, S) /\ \A u \in SUBSET S : SumRows(u) = f[u]
  BY <1>1, SumIsAdditive
<1>3. s \in SUBSET S /\ t \in SUBSET S /\ s \union t \in SUBSET S
  OBVIOUS
<1> HIDE DEF S
<1> QED
  BY <1>2, <1>3 DEF Additive

LEMMA SumOfOne ==
  ASSUME NEW k \in Keys
  PROVE  SumRows({k}) = RowsOf[k] /\ SumRows({}) = 0
<1>1. {k} \in SUBSET Keys /\ IsFiniteSet({k}) /\ {} \in SUBSET {k} /\ {k} \in SUBSET {k}
  BY FS_Singleton
<1>2. PICK f : Additive(f, {k}) /\ \A u \in SUBSET {k} : SumRows(u) = f[u]
  BY <1>1, SumIsAdditive
<1> QED
  BY <1>1, <1>2, AdditiveFacts DEF Additive

\* The entries of a store are a finite set.
LEMMA EntriesAreFinite ==
  ASSUME NEW s \in Seq(Keys)
  PROVE  ToSet(s) \in SUBSET Keys /\ IsFiniteSet(ToSet(s)) /\ Len(s) \in Nat
<1>1. Len(s) \in Nat /\ DOMAIN s = 1 .. Len(s) /\ \A j \in 1 .. Len(s) : s[j] \in Keys
  BY LenProperties
<1>2. IsFiniteSet(1 .. Len(s))
  BY <1>1, FS_Interval
<1>3. s \in Surjection(1 .. Len(s), ToSet(s))
  <2>1. s = [j \in 1 .. Len(s) |-> s[j]]
    BY <1>1
  <2>2. \A j \in 1 .. Len(s) : s[j] \in ToSet(s)
    BY <1>1 DEF ToSet
  <2>3. \A x \in ToSet(s) : \E j \in 1 .. Len(s) : s[j] = x
    BY <1>1 DEF ToSet
  <2> QED
    BY <2>1, <2>2, <2>3 DEF Surjection
<1>4. IsFiniteSet(ToSet(s))
  BY <1>2, <1>3, FS_Surjection
<1>5. ToSet(s) \subseteq Keys
  BY <1>1 DEF ToSet
<1> QED
  BY <1>1, <1>4, <1>5

\* The entries that are evicted and those that are left.
LEMMA SplitAt ==
  ASSUME NEW s \in Seq(Keys), IsInjective(s), NEW n \in 0 .. Len(s)
  PROVE  LET p == ToSet(SubSeq(s, 1, n))
             q == ToSet(SubSeq(s, n + 1, Len(s)))
         IN  /\ ToSet(s) = p \union q /\ p \intersect q = {}
             /\ p \in SUBSET Keys /\ IsFiniteSet(p) /\ q \in SUBSET Keys /\ IsFiniteSet(q)
             /\ Len(SubSeq(s, n + 1, Len(s))) = Len(s) - n
<1> DEFINE m == Len(s)
           a == SubSeq(s, 1, n)
           b == SubSeq(s, n + 1, m)
<1>1. m \in Nat /\ n \in Nat /\ n <= m /\ DOMAIN s = 1 .. m /\ \A j \in 1 .. m : s[j] \in Keys
  BY LenProperties
<1>2. a \in Seq(Keys) /\ Len(a) = n /\ \A j \in 1 .. n : a[j] = s[j]
  <2>1. 1 \in Int /\ n \in Int /\ \A j \in 1 .. n : s[j] \in Keys
    BY <1>1
  <2>2. /\ a \in Seq(Keys) /\ Len(a) = IF 1 <= n THEN n - 1 + 1 ELSE 0
        /\ \A j \in 1 .. n - 1 + 1 : a[j] = s[1 + j - 1]
    BY <2>1, SubSeqProperties
  <2> HIDE DEF a, b, m
  <2> QED
    BY <2>2, <1>1
<1>3. b \in Seq(Keys) /\ Len(b) = m - n /\ \A j \in 1 .. m - n : b[j] = s[n + j]
  <2>1. n + 1 \in Int /\ m \in Int /\ \A j \in n + 1 .. m : s[j] \in Keys
    BY <1>1
  <2>2. /\ b \in Seq(Keys) /\ Len(b) = IF n + 1 <= m THEN m - (n + 1) + 1 ELSE 0
        /\ \A j \in 1 .. m - (n + 1) + 1 : b[j] = s[(n + 1) + j - 1]
    BY <2>1, SubSeqProperties
  <2> HIDE DEF a, b, m
  <2> QED
    BY <2>2, <1>1
<1>4. DOMAIN a = 1 .. n /\ DOMAIN b = 1 .. m - n
  BY <1>2, <1>3, LenProperties
<1>5. /\ ToSet(a) \in SUBSET Keys /\ IsFiniteSet(ToSet(a))
      /\ ToSet(b) \in SUBSET Keys /\ IsFiniteSet(ToSet(b))
  BY <1>2, <1>3, EntriesAreFinite
<1> HIDE DEF a, b, m
<1>6. ToSet(s) = ToSet(a) \union ToSet(b)
  <2>1. ASSUME NEW j \in 1 .. m PROVE s[j] \in ToSet(a) \union ToSet(b)
    <3>1. CASE j <= n
      <4>1. j \in 1 .. n
        BY <1>1, <3>1
      <4> QED
        BY <1>2, <1>4, <4>1 DEF ToSet
    <3>2. CASE j > n
      <4>1. j - n \in 1 .. m - n /\ n + (j - n) = j
        BY <1>1, <3>2
      <4> QED
        BY <1>3, <1>4, <4>1 DEF ToSet
    <3> QED
      BY <1>1, <3>1, <3>2
  <2>2. \A j \in 1 .. n : j \in 1 .. m
    BY <1>1
  <2>3. \A j \in 1 .. m - n : n + j \in 1 .. m
    BY <1>1
  <2>4. ToSet(s) \subseteq ToSet(a) \union ToSet(b)
    BY <1>1, <2>1 DEF ToSet
  <2>5. ToSet(a) \subseteq ToSet(s)
    BY <1>1, <1>2, <1>4, <2>2 DEF ToSet
  <2>6. ToSet(b) \subseteq ToSet(s)
    BY <1>1, <1>3, <1>4, <2>3 DEF ToSet
  <2> QED
    BY <2>4, <2>5, <2>6
<1>7. ToSet(a) \intersect ToSet(b) = {}
  <2> SUFFICES ASSUME NEW i \in 1 .. n, NEW j \in 1 .. m - n, a[i] = b[j] PROVE FALSE
    BY <1>4 DEF ToSet
  <2>1. s[i] = s[n + j] /\ i \in 1 .. m /\ n + j \in 1 .. m /\ i # n + j
    BY <1>1, <1>2, <1>3
  <2> QED
    BY <1>1, <2>1 DEF IsInjective
<1> QED
  BY <1>3, <1>5, <1>6, <1>7 DEF a, b, m

-----------------------------------------------------------------------------
(* The row count                                                           *)

\* The row count as Put reads it.
RowsWith(k) == (IF k \in Cached THEN totalRows - RowsOf[k] ELSE totalRows) + RowsOf[k]

\* An entry that is dropped takes its rows with it.
LEMMA DropCounts ==
  ASSUME store \in Seq(Keys), RowsAccounted, NEW k \in Keys
  PROVE  /\ SumRows(ToSet(Drop(k))) = IF k \in Cached THEN totalRows - RowsOf[k] ELSE totalRows
         /\ totalRows \in Nat
         /\ k \in Cached => totalRows - RowsOf[k] \in Nat
<1>1. Cached \in SUBSET Keys /\ IsFiniteSet(Cached) /\ RowsOf[k] \in Nat
  BY EntriesAreFinite, SizesAssumption DEF Cached
<1>2. ToSet(Drop(k)) = Cached \ {k}
  BY DropKeeps DEF RowsAccounted
<1>3. totalRows = SumRows(Cached)
  BY DEF RowsAccounted
<1>4. SumRows(Cached) \in Nat
  <2>1. Cached \union {} = Cached /\ Cached \intersect {} = {} /\ {} \in SUBSET Keys
    OBVIOUS
  <2> QED
    BY <1>1, <2>1, SumOfParts, FS_EmptySet
<1>5. CASE k \in Cached
  <2> DEFINE r == Cached \ {k}
  <2>1. r \in SUBSET Keys /\ IsFiniteSet(r) /\ {k} \in SUBSET Keys /\ IsFiniteSet({k})
    BY <1>1, FS_Subset, FS_Singleton
  <2>2. r \union {k} = Cached /\ r \intersect {k} = {}
    BY <1>5
  <2>3. SumRows(Cached) = SumRows(r) + RowsOf[k] /\ SumRows(r) \in Nat
    <3> HIDE DEF r
    <3>1. SumRows(r \union {k}) = SumRows(r) + SumRows({k}) /\ SumRows(r) \in Nat
      BY <2>1, <2>2, SumOfParts
    <3> QED
      BY <2>2, <3>1, SumOfOne
  <2>4. SumRows(ToSet(Drop(k))) = SumRows(r)
    BY <1>2
  <2> HIDE DEF r
  <2>5. SumRows(r) = totalRows - RowsOf[k]
    BY <1>1, <1>3, <2>3
  <2> QED
    BY <1>3, <1>4, <1>5, <2>3, <2>4, <2>5
<1>6. CASE k \notin Cached
  <2>1. Cached \ {k} = Cached
    BY <1>6
  <2> QED
    BY <1>2, <1>3, <1>4, <1>6, <2>1
<1> QED
  BY <1>5, <1>6

\* A miss.
LEMMA DropExpiredCounts ==
  ASSUME store \in Seq(Keys), RowsAccounted, NEW k \in Keys, DropExpired(k)
  PROVE  RowsAccounted'
<1>1. /\ store' = Drop(k)
      /\ totalRows' = IF k \in Cached THEN totalRows - RowsOf[k] ELSE totalRows
  BY DEF DropExpired
<1>2. IsInjective(store') /\ Cached' = Cached \ {k}
      /\ Len(store') = IF k \in Cached THEN Len(store) - 1 ELSE Len(store)
  BY <1>1, DropKeeps DEF RowsAccounted, Cached
<1>3. totalRows' = SumRows(Cached')
  BY <1>1, DropCounts DEF Cached
<1>4. totalRows' <= MaxRows \/ Len(store') = 1
  <2>1. Cached \in SUBSET Keys /\ Len(store) \in Nat /\ MaxRows \in Nat /\ RowsOf[k] \in Nat
        /\ totalRows \in Nat
    BY EntriesAreFinite, DropCounts, SizesAssumption DEF Cached
  <2>2. CASE k \notin Cached
    BY <1>1, <1>2, <2>2 DEF RowsAccounted
  <2>3. CASE k \in Cached /\ totalRows <= MaxRows
    BY <1>1, <2>1, <2>3
  <2>4. CASE k \in Cached /\ Len(store) = 1
    <3>1. Cached = {k}
      <4>1. DOMAIN store = 1 .. 1
        BY <2>4, LenProperties
      <4>2. 1 .. 1 = {1}
        OBVIOUS
      <4> QED
        BY <2>4, <4>1, <4>2 DEF Cached, ToSet
    <3>2. totalRows' = SumRows({})
      BY <1>2, <1>3, <3>1
    <3>3. totalRows' = 0
      BY <3>2, SumOfOne
    <3> QED
      BY <2>1, <3>3
  <2> QED
    BY <2>2, <2>3, <2>4 DEF RowsAccounted
<1> QED
  BY <1>2, <1>3, <1>4 DEF RowsAccounted

\* A hit.
LEMMA HitCounts ==
  ASSUME store \in Seq(Keys), RowsAccounted, NEW k \in Keys, k \in Cached,
         store' = Append(Drop(k), k), totalRows' = totalRows
  PROVE  RowsAccounted'
<1>1. /\ Drop(k) \in Seq(Keys) /\ IsInjective(Drop(k)) /\ ToSet(Drop(k)) = Cached \ {k}
      /\ Len(Drop(k)) = Len(store) - 1
  BY DropKeeps DEF RowsAccounted
<1>2. /\ IsInjective(store') /\ Len(store') = Len(store) - 1 + 1
      /\ Cached' = (Cached \ {k}) \union {k}
  BY <1>1, AppendKeeps DEF Cached
<1>3. Len(store) \in Nat
  BY EntriesAreFinite
<1>4. Len(store') = Len(store)
  BY <1>2, <1>3
<1>5. Cached' = Cached
  BY <1>2
<1> QED
  BY <1>2, <1>4, <1>5 DEF RowsAccounted

\* A put, and the evictions it leads to.
LEMMA PutCounts ==
  ASSUME store \in Seq(Keys), RowsAccounted, NEW k \in Keys, Put(k)
  PROVE  RowsAccounted'
<1> DEFINE all == Append(Drop(k), k)
           left(n) == RowsWith(k) - SumRows(ToSet(SubSeq(all, 1, n)))
<1>1. /\ Drop(k) \in Seq(Keys) /\ IsInjective(Drop(k)) /\ ToSet(Drop(k)) = Cached \ {k}
  BY DropKeeps DEF RowsAccounted
<1>2. /\ all \in Seq(Keys) /\ IsInjective(all) /\ ToSet(all) = ToSet(Drop(k)) \union {k}
      /\ k \notin ToSet(Drop(k))
  BY <1>1, AppendKeeps
<1>3. SumRows(ToSet(all)) = RowsWith(k) /\ RowsWith(k) \in Nat
  <2>1. /\ ToSet(Drop(k)) \in SUBSET Keys /\ IsFiniteSet(ToSet(Drop(k)))
        /\ {k} \in SUBSET Keys /\ IsFiniteSet({k})
        /\ ToSet(Drop(k)) \intersect {k} = {}
    BY <1>1, EntriesAreFinite, FS_Singleton
  <2>2. /\ SumRows(ToSet(Drop(k)) \union {k}) = SumRows(ToSet(Drop(k))) + SumRows({k})
        /\ SumRows(ToSet(Drop(k))) \in Nat /\ SumRows({k}) \in Nat
    BY <2>1, SumOfParts
  <2>3. SumRows({k}) = RowsOf[k]
    BY SumOfOne
  <2>4. RowsWith(k) = SumRows(ToSet(Drop(k))) + RowsOf[k]
    BY DropCounts DEF RowsWith
  <2> QED
    BY <1>2, <2>2, <2>3, <2>4
<1>4. PICK n \in 0 .. Len(all) - 1 :
        /\ left(n) <= MaxRows \/ n = Len(all) - 1
        /\ store' = SubSeq(all, n + 1, Len(all)) /\ totalRows' = left(n)
  BY DEF Put, RowsWith
<1>5. Len(all) \in Nat /\ n \in 0 .. Len(all) /\ n \in Nat
  BY <1>2, <1>4, EntriesAreFinite
<1> DEFINE p == ToSet(SubSeq(all, 1, n))
           q == ToSet(SubSeq(all, n + 1, Len(all)))
<1>6. /\ ToSet(all) = p \union q /\ p \intersect q = {}
      /\ p \in SUBSET Keys /\ IsFiniteSet(p) /\ q \in SUBSET Keys /\ IsFiniteSet(q)
      /\ Len(SubSeq(all, n + 1, Len(all))) = Len(all) - n
  BY <1>2, <1>5, SplitAt
<1>7. SumRows(ToSet(all)) = SumRows(p) + SumRows(q) /\ SumRows(p) \in Nat /\ SumRows(q) \in Nat
  <2> HIDE DEF p, q, all
  <2> QED
    BY <1>6, SumOfParts
<1>8. Cached' = q /\ IsInjective(store') /\ Len(store') = Len(all) - n
  BY <1>2, <1>4, <1>5, <1>6, SuffixKeeps DEF Cached
<1>9. totalRows' = RowsWith(k) - SumRows(p)
  BY <1>4
<1>10. totalRows' <= MaxRows \/ n = Len(all) - 1
  BY <1>4
<1> HIDE DEF p, q, left, all
<1>11. totalRows' = SumRows(q)
  <2>1. \A x, y, z \in Nat : x = y + z => x - y = z
    OBVIOUS
  <2>2. RowsWith(k) = SumRows(p) + SumRows(q)
    BY <1>3, <1>7
  <2>3. RowsWith(k) - SumRows(p) = SumRows(q)
    BY <1>3, <1>7, <2>1, <2>2
  <2> QED
    BY <1>9, <2>3
<1>12. totalRows' <= MaxRows \/ Len(store') = 1
  BY <1>5, <1>8, <1>10
<1> QED
  BY <1>8, <1>11, <1>12 DEF RowsAccounted

LEMMA RowsStep == FlightInv /\ RowsAccounted /\ [Next]_vars => RowsAccounted'
<1> SUFFICES ASSUME FlightInv, RowsAccounted, [Next]_vars PROVE RowsAccounted'
  OBVIOUS
<1>1. store \in Seq(Keys)
  BY DEF FlightInv, Shape
<1>2. CASE UNCHANGED <<store, totalRows>>
  BY <1>2 DEF RowsAccounted, Cached
<1>3. ASSUME NEW g \in Groups, NEW k \in KeysOf[g], NEW expired \in BOOLEAN,
             Lookup(g, k, expired)
      PROVE  RowsAccounted'
  <2>1. k \in Keys
    BY TasksAssumption
  <2>2. \/ k \in Cached /\ store' = Append(Drop(k), k) /\ totalRows' = totalRows
        \/ DropExpired(k)
    BY <1>3 DEF Lookup, Hit
  <2> QED
    BY <1>1, <2>1, <2>2, HitCounts, DropExpiredCounts
<1>4. ASSUME NEW g \in Groups, Fetched(g) PROVE RowsAccounted'
  <2>1. key[g] \in Keys /\ Put(key[g])
    BY <1>4 DEF Fetched, FlightInv, OneFlightPerKey
  <2> QED
    BY <1>1, <2>1, PutCounts
<1>5. ASSUME NEW t \in Tasks,
             Start(t) \/ Acquire(t) \/ FetchFails(t) \/ Resume(t) \/ Chunk(t)
      PROVE  UNCHANGED <<store, totalRows>>
  BY <1>5 DEF Start, Acquire, FetchFails, Resume, Chunk
<1>6. CASE UNCHANGED vars
  BY <1>2, <1>6 DEF vars
<1> QED
  BY <1>2, <1>3, <1>4, <1>5, <1>6 DEF Next, Run

LEMMA InitRows == Init => RowsAccounted
<1> SUFFICES ASSUME Init PROVE RowsAccounted
  OBVIOUS
<1>1. store = <<>> /\ totalRows = 0 /\ Cached = {}
  BY DEF Init, Cached, ToSet
<1>2. IsInjective(store)
  BY <1>1 DEF IsInjective
<1>3. SumRows({}) = 0
  BY SumIsAdditive, AdditiveFacts, FS_EmptySet
<1> QED
  BY <1>1, <1>2, <1>3, SizesAssumption DEF RowsAccounted

\* Whatever is fetched, expires and is evicted, in whatever order the tasks run: the
\* row count by which _options_chain_cache.py evicts is that of the entries it holds,
\* and it is over the cap only for a single entry.
THEOREM RowCountIsTrue == Spec => []RowsAccounted
<1> DEFINE Inv == FlightInv /\ RowsAccounted
<1>1. Init => Inv
  BY InitFlights, InitRows
<1>2. Inv /\ [Next]_vars => Inv'
  BY FlightStep, RowsStep
<1> QED
  BY <1>1, <1>2, PTL DEF Spec
=============================================================================
