-------------------------- MODULE MarketRulesProofs --------------------------
(***************************************************************************)
(* What the market data services answer through their caches is their      *)
(* warehouse's own answer, for every listing, load, request and cache size.*)
(***************************************************************************)
EXTENDS MarketRules, SequenceTheorems, WellFoundedInduction, TLAPS

\* The shape of the state: days and requests of the world, a cache for each source.
Shape ==
  /\ world \in Worlds
  /\ days = [i \in 1..Len(days) |-> days[i]] /\ Len(days) \in Nat /\ since \in 0..Len(days)
  /\ cache = [s \in Sources |-> cache[s]]

(***************************************************************************)
(* The least recently used first.                                          *)
(***************************************************************************)

\* What is a sequence by its domain is one of its own values.
LEMMA IsSequence ==
  ASSUME NEW s, s = [i \in 1..Len(s) |-> s[i]], Len(s) \in Nat
  PROVE  /\ s \in Seq({s[i] : i \in 1..Len(s)})
         /\ DOMAIN s = 1..Len(s)
OBVIOUS

LEMMA SequenceIs ==
  ASSUME NEW S, NEW s \in Seq(S)
  PROVE  s = [i \in 1..Len(s) |-> s[i]] /\ Len(s) \in Nat /\ DOMAIN s = 1..Len(s)
OBVIOUS

\* Without its i-th element a sequence is one shorter.
LEMMA RemovedAt ==
  ASSUME NEW S, NEW s \in Seq(S), NEW i \in 1..Len(s)
  PROVE  /\ RemoveAt(s, i) \in Seq(S) /\ Len(RemoveAt(s, i)) = Len(s) - 1
         /\ \A k \in 1..(Len(s) - 1) :
              RemoveAt(s, i)[k] = IF k < i THEN s[k] ELSE s[k + 1]
<1> DEFINE a == SubSeq(s, 1, i - 1)
           b == SubSeq(s, i + 1, Len(s))
<1>1. a \in Seq(S) /\ Len(a) = i - 1 /\ \A k \in 1..(i - 1) : a[k] = s[k]
  OBVIOUS
<1>2. b \in Seq(S) /\ Len(b) = Len(s) - i /\ \A k \in 1..(Len(s) - i) : b[k] = s[i + k]
  OBVIOUS
<1>3. RemoveAt(s, i) = a \o b
  BY DEF RemoveAt
<1> HIDE DEF a, b
<1>4. Len(s) \in Nat /\ i - 1 \in Nat /\ Len(s) - i \in Nat
  OBVIOUS
<1>5. a \o b \in Seq(S) /\ Len(a \o b) = Len(s) - 1
  <2>1. Len(a \o b) = Len(a) + Len(b) /\ a \o b \in Seq(S)
    BY <1>1, <1>2, ConcatProperties
  <2>2. (i - 1) + (Len(s) - i) = Len(s) - 1
    BY <1>4
  <2> QED
    BY <1>1, <1>2, <2>1, <2>2
<1>6. ASSUME NEW k \in 1..(Len(s) - 1)
      PROVE  (a \o b)[k] = IF k < i THEN s[k] ELSE s[k + 1]
  <2>1. CASE k < i
    BY <1>1, <1>2, <1>4, <2>1, ConcatProperties
  <2>2. CASE ~(k < i)
    <3>1. (a \o b)[k] = b[k - (i - 1)]
      BY <1>1, <1>2, <1>4, <2>2, ConcatProperties
    <3>2. k - (i - 1) \in 1..(Len(s) - i) /\ i + (k - (i - 1)) = k + 1
      BY <1>4, <2>2
    <3> QED
      BY <1>2, <2>2, <3>1, <3>2
  <2> QED
    BY <2>1, <2>2
<1> QED
  BY <1>3, <1>5, <1>6

LEMMA AppendIs ==
  ASSUME NEW S, NEW s \in Seq(S), NEW x
  PROVE  /\ Append(s, x) \in Seq(S \cup {x}) /\ Len(Append(s, x)) = Len(s) + 1
         /\ \A k \in 1..Len(s) : Append(s, x)[k] = s[k]
         /\ Append(s, x)[Len(s) + 1] = x
<1>1. s \in Seq(S \cup {x})
  OBVIOUS
<1> QED
  BY <1>1, AppendProperties

(***************************************************************************)
(* The cache after a request: what it has, it had, or it is the answer.    *)
(***************************************************************************)

Added(key, value) == [key |-> key, value |-> value]

\* An entry that is put last in a cache that has none of its key, the oldest
\* falling out when there is one too many.
LEMMA CachePut ==
  ASSUME NEW c, IsCache(c), NEW key, NEW value, ~HasKey(c, key)
  PROVE  /\ IsCache(Put(c, key, value))
         /\ \A i \in DOMAIN Put(c, key, value) :
              \/ Put(c, key, value)[i] = Added(key, value)
              \/ \E j \in DOMAIN c : Put(c, key, value)[i] = c[j]
<1> DEFINE S == {c[i] : i \in 1..Len(c)}
           e == Added(key, value)
           T == S \cup {e}
           all == Append(c, e)
<1>0. e.key = key
  BY DEF Added
<1>1. c \in Seq(S) /\ Len(c) \in 0..CacheSize /\ DOMAIN c = 1..Len(c)
  <2>1. Len(c) \in Nat
    BY DEF IsCache
  <2> QED
    BY <2>1, IsSequence DEF IsCache
<1> HIDE DEF S, e
<1>2. /\ all \in Seq(T) /\ Len(all) = Len(c) + 1 /\ all[Len(c) + 1] = e
      /\ \A k \in 1..Len(c) : all[k] = c[k]
  BY <1>1, AppendIs
<1>3. Put(c, key, value) = IF Len(all) > CacheSize THEN Tail(all) ELSE all
  BY DEF Put, Without, e, Added
<1>4. \A i, j \in 1..Len(all) : all[i].key = all[j].key => i = j
  <2>1. \A i \in 1..Len(c) : c[i].key # key
    BY <1>1 DEF HasKey
  <2>2. \A i, j \in 1..Len(c) : c[i].key = c[j].key => i = j
    BY <1>1 DEF IsCache
  <2> QED
    BY <1>0, <1>1, <1>2, <2>1, <2>2
<1>5. \A i \in 1..Len(all) : all[i] = e \/ \E j \in DOMAIN c : all[i] = c[j]
  BY <1>1, <1>2
<1> HIDE DEF T, all
<1>6. CASE Len(all) > CacheSize
  <2>1. Tail(all) \in Seq(T) /\ Len(Tail(all)) = Len(c) /\ \A k \in 1..Len(c) : Tail(all)[k] = all[k + 1]
    BY <1>1, <1>2, <1>6, HeadTailProperties, EmptySeq
  <2>2. \A k \in 1..Len(c) : k + 1 \in 1..Len(all)
    BY <1>1, <1>2
  <2>3. DOMAIN Tail(all) = 1..Len(c) /\ Tail(all) = [i \in 1..Len(Tail(all)) |-> Tail(all)[i]]
    BY <2>1, SequenceIs
  <2>4. \A i, j \in 1..Len(c) : Tail(all)[i].key = Tail(all)[j].key => i = j
    BY <1>1, <1>4, <2>1, <2>2
  <2>5. IsCache(Tail(all))
    BY <1>1, <2>1, <2>3, <2>4 DEF IsCache
  <2> QED
    BY <1>3, <1>5, <1>6, <2>1, <2>2, <2>3, <2>5 DEF e
<1>7. CASE ~(Len(all) > CacheSize)
  <2>1. all = [i \in 1..Len(all) |-> all[i]] /\ DOMAIN all = 1..Len(all) /\ Len(all) \in Nat
    BY <1>2, SequenceIs
  <2>2. Len(all) \in 0..CacheSize
    BY <1>1, <1>7, <2>1, CacheSizeAssumption
  <2>3. IsCache(all)
    BY <1>4, <2>1, <2>2 DEF IsCache
  <2> QED
    BY <1>3, <1>5, <1>7, <2>1, <2>3 DEF e
<1> QED
  BY <1>6, <1>7

\* An entry that is used becomes the last.
LEMMA CacheUsed ==
  ASSUME NEW c, IsCache(c), NEW key, HasKey(c, key)
  PROVE  /\ IsCache(Used(c, key))
         /\ \A i \in DOMAIN Used(c, key) : \E j \in DOMAIN c : Used(c, key)[i] = c[j]
         /\ IndexOf(c, key) \in DOMAIN c /\ c[IndexOf(c, key)].key = key
<1> DEFINE S == {c[i] : i \in 1..Len(c)}
           x == IndexOf(c, key)
           w == RemoveAt(c, x)
           n == Len(c)
           use == Append(w, c[x])
<1>1. c \in Seq(S) /\ n \in 0..CacheSize /\ DOMAIN c = 1..n /\ n \in Nat
  <2>1. Len(c) \in Nat
    BY DEF IsCache
  <2> QED
    BY <2>1, IsSequence DEF IsCache
<1>2. x \in 1..n /\ c[x].key = key
  BY <1>1 DEF HasKey, IndexOf
<1>3. c[x] \in S
  BY <1>2
<1> HIDE DEF S, x
<1>4. /\ w \in Seq(S) /\ Len(w) = n - 1
      /\ \A k \in 1..(n - 1) : w[k] = IF k < x THEN c[k] ELSE c[k + 1]
  BY <1>1, <1>2, RemovedAt
<1>5. Used(c, key) = use
  BY DEF Used, Without, Entry, x
<1> HIDE DEF w
<1>6. /\ use \in Seq(S) /\ Len(use) = n /\ use[n] = c[x]
      /\ \A k \in 1..(n - 1) : use[k] = w[k]
  <2>1. Len(use) = Len(w) + 1 /\ use[Len(w) + 1] = c[x] /\ \A k \in 1..Len(w) : use[k] = w[k]
    BY <1>4, AppendIs
  <2>2. use \in Seq(S)
    BY <1>3, <1>4, AppendProperties
  <2>3. n - 1 + 1 = n
    BY <1>1
  <2> QED
    BY <1>4, <2>1, <2>2, <2>3
<1> DEFINE From(k) == IF k = n THEN x ELSE IF k < x THEN k ELSE k + 1
<1>7. ASSUME NEW k \in 1..n
      PROVE  From(k) \in 1..n /\ use[k] = c[From(k)]
  <2> HIDE DEF use
  <2>1. CASE k = n
    BY <1>2, <1>6, <2>1
  <2>2. CASE k # n
    <3>1. \A m \in Nat : \A l \in 1..m : l # m => l \in 1..(m - 1) /\ l + 1 \in 1..m
      OBVIOUS
    <3>2. n \in Nat
      BY <1>1
    <3>3. k \in 1..(n - 1) /\ k + 1 \in 1..n
      BY <2>2, <3>1, <3>2
    <3>4. use[k] = w[k] /\ w[k] = IF k < x THEN c[k] ELSE c[k + 1]
      BY <1>4, <1>6, <3>3
    <3> QED
      BY <2>2, <3>3, <3>4
  <2> QED
    BY <2>1, <2>2
<1>8. \A i, j \in 1..n : From(i) = From(j) => i = j
  <2> SUFFICES ASSUME NEW m \in Nat, NEW y \in 1..m, NEW i \in 1..m, NEW j \in 1..m,
                      (IF i = m THEN y ELSE IF i < y THEN i ELSE i + 1)
                        = (IF j = m THEN y ELSE IF j < y THEN j ELSE j + 1)
               PROVE  i = j
    BY <1>1, <1>2
  <2> QED
    OBVIOUS
<1> HIDE DEF From, use
<1>9. \A i, j \in 1..n : use[i].key = use[j].key => i = j
  BY <1>1, <1>7, <1>8 DEF IsCache
<1>10. use = [i \in 1..Len(use) |-> use[i]] /\ DOMAIN use = 1..n
  BY <1>6, SequenceIs
<1>11. IsCache(use)
  BY <1>1, <1>6, <1>9, <1>10 DEF IsCache
<1> QED
  BY <1>1, <1>2, <1>5, <1>7, <1>10, <1>11 DEF x

(***************************************************************************)
(* A request for one series.                                               *)
(***************************************************************************)

IsSpec(spec) == spec.kind \in {"price", "continuous"}

\* A fetch finds a series, or None, or fails and has none.
LEMMA FetchedIs ==
  ASSUME NEW source \in Sources, NEW wh, NEW spec, IsSpec(spec), NEW window
  PROVE  LET new == Fetched(source, wh, spec, window)
         IN  new.series # None => new = Found(new.series)
<1>1. Prices1(wh, spec, window).series # None =>
        Prices1(wh, spec, window) = Found(Prices1(wh, spec, window).series)
  BY DEF Prices1, Found, Fault
<1>2. Prices2(wh, spec, window).series # None =>
        Prices2(wh, spec, window) = Found(Prices2(wh, spec, window).series)
  BY DEF Prices2, Found, Fault
<1>3. Continuous1(wh, spec, window).series # None =>
        Continuous1(wh, spec, window) = Found(Continuous1(wh, spec, window).series)
  BY DEF Continuous1, Found, Fault
<1>4. Continuous2(wh, spec, window).series # None =>
        Continuous2(wh, spec, window) = Found(Continuous2(wh, spec, window).series)
  BY DEF Continuous2, Found, Fault
<1> QED
  BY <1>1, <1>2, <1>3, <1>4 DEF Fetched, IsSpec, Sources

\* What the warehouse answers now it answers since the process began.
LEMMA NowIsSince ==
  ASSUME Shape, NEW source, NEW spec, NEW window
  PROVE  Gave(source, <<spec, window>>, Fetched(source, Now(source), spec, window))
<1>1. SubSeq(days, 1, Len(days)) = days
  <2>1. days \in Seq({days[i] : i \in 1..Len(days)})
    BY IsSequence DEF Shape
  <2> QED
    BY <2>1, SubSeqFull
<1>2. Len(days) \in since..Len(days)
  BY DEF Shape
<1> QED
  BY <1>1, <1>2 DEF Gave, Now

LEMMA GotIsOwn ==
  ASSUME Shape, NEW source \in Sources, NEW c, IsCache(c), OwnEntries(source, c),
         NEW spec, IsSpec(spec), NEW window
  PROVE  LET got == Got(source, Now(source), c, spec, window)
         IN  /\ IsCache(got.cache) /\ OwnEntries(source, got.cache)
             /\ Gave(source, <<spec, window>>, got.answer)
<1> DEFINE key == <<spec, window>>
           new == Fetched(source, Now(source), spec, window)
           got == Got(source, Now(source), c, spec, window)
<1>1. Gave(source, key, new)
  BY NowIsSince
<1>2. got = Through(c, key, new)
  BY DEF Got, Key
<1>3. new.series # None => new = Found(new.series)
  BY FetchedIs
<1> HIDE DEF key, new, got
<1>4. CASE HasKey(c, key)
  <2>1. got = [answer |-> Found(Entry(c, key).value), cache |-> Used(c, key)]
    BY <1>2, <1>4 DEF Through
  <2>2. /\ IsCache(Used(c, key))
        /\ \A i \in DOMAIN Used(c, key) : \E j \in DOMAIN c : Used(c, key)[i] = c[j]
        /\ IndexOf(c, key) \in DOMAIN c /\ c[IndexOf(c, key)].key = key
    BY <1>4, CacheUsed
  <2>3. OwnEntries(source, Used(c, key))
    BY <2>2 DEF OwnEntries
  <2>4. Gave(source, key, Found(Entry(c, key).value))
    BY <2>2 DEF OwnEntries, Entry
  <2> QED
    BY <2>1, <2>2, <2>3, <2>4 DEF key, got
<1>5. CASE ~HasKey(c, key) /\ new.series # None
  <2>1. got = [answer |-> new, cache |-> Put(c, key, new.series)]
    BY <1>2, <1>5 DEF Through
  <2>2. /\ IsCache(Put(c, key, new.series))
        /\ \A i \in DOMAIN Put(c, key, new.series) :
             \/ Put(c, key, new.series)[i] = Added(key, new.series)
             \/ \E j \in DOMAIN c : Put(c, key, new.series)[i] = c[j]
    BY <1>5, CachePut
  <2>3. Added(key, new.series).value = new.series /\ Added(key, new.series).key = key
    BY DEF Added
  <2>4. OwnEntries(source, Put(c, key, new.series))
    BY <1>1, <1>3, <1>5, <2>2, <2>3 DEF OwnEntries
  <2> QED
    BY <1>1, <2>1, <2>2, <2>4 DEF key, got
<1>6. CASE ~HasKey(c, key) /\ ~(new.series # None)
  <2>1. got = [answer |-> new, cache |-> c]
    BY <1>2, <1>6 DEF Through
  <2> QED
    BY <1>1, <2>1 DEF key, got
<1> QED
  BY <1>4, <1>5, <1>6

(***************************************************************************)
(* A request for several legs, one after the other through the cache.      *)
(***************************************************************************)

\* What holds at 0 and at the next of each it holds at holds at all: the least
\* at which it did not would be the next of one at which it does.
LEMMA LegByLeg ==
  ASSUME NEW n \in Nat, NEW P, 0 \in P, \A k \in 1..n : k - 1 \in P => k \in P
  PROVE  \A k \in 0..n : k \in P
<1> DEFINE R == OpToRel(<, Nat)
           Q == (0..n) \ P
<1>1. IsWellFoundedOn(R, Nat)
  BY NatLessThanWellFounded
<1>2. \A i, j \in Nat : i < j => <<i, j>> \in R
  BY DEF OpToRel
<1>3. Q \subseteq Nat
  OBVIOUS
<1> HIDE DEF R
<1>4. SUFFICES ASSUME Q # {} PROVE FALSE
  OBVIOUS
<1>5. PICK m \in Q : \A k \in Q : <<k, m>> \notin R
  BY <1>1, <1>3, <1>4, WFMin
<1>6. m \in 1..n /\ m - 1 \in Nat /\ m - 1 < m /\ m \in Nat
  BY m # 0
<1>7. <<m - 1, m>> \in R
  BY <1>2, <1>6
<1> QED
  BY <1>5, <1>6, <1>7

Start(c) == [fault |-> None, series |-> <<>>, cache |-> c]
Step(ask, was, k) ==
  LegAfter(was, Got(ask.source, Now(ask.source), was.cache, ask.specs[k], ask.window))
\* The legs up to the m-th, from the cache c.
IsLegs(H, m, ask, c) ==
  H = [k \in 0..m |-> H[k]] /\ H[0] = Start(c) /\ \A k \in 1..m : H[k] = Step(ask, H[k - 1], k)

\* The legs can be gone through.
LEMMA LegsExist ==
  ASSUME NEW ask, NEW c, NEW n \in Nat
  PROVE  \E H : IsLegs(H, n, ask, c)
<1> DEFINE P == {m \in 0..n : \E H : IsLegs(H, m, ask, c)}
<1>1. 0 \in P
  <2> DEFINE H == [k \in 0..0 |-> Start(c)]
  <2>1. IsLegs(H, 0, ask, c)
    BY DEF IsLegs
  <2> QED
    BY <2>1
<1>2. ASSUME NEW m \in 1..n, m - 1 \in P
      PROVE  m \in P
  <2>1. PICK H : IsLegs(H, m - 1, ask, c)
    BY <1>2
  <2> DEFINE J == [k \in 0..m |-> IF k = m THEN Step(ask, H[m - 1], m) ELSE H[k]]
  <2>2. J = [k \in 0..m |-> J[k]] /\ J[0] = Start(c)
    BY <2>1 DEF IsLegs
  <2>3. ASSUME NEW k \in 1..m
        PROVE  J[k] = Step(ask, J[k - 1], k)
    <3>1. J[k - 1] = H[k - 1]
      OBVIOUS
    <3>2. CASE k = m
      <4>1. J[k] = Step(ask, H[m - 1], m)
        BY <3>2
      <4> QED
        BY <3>1, <3>2, <4>1
    <3>3. CASE k # m
      <4>1. k \in 1..(m - 1) /\ J[k] = H[k]
        BY <3>3
      <4> QED
        BY <2>1, <3>1, <4>1 DEF IsLegs
    <3> QED
      BY <3>2, <3>3
  <2> HIDE DEF J
  <2>4. IsLegs(J, m, ask, c)
    BY <2>2, <2>3 DEF IsLegs
  <2> QED
    BY <2>4
<1> HIDE DEF P
<1>3. n \in P
  BY <1>1, <1>2, LegByLeg
<1> QED
  BY <1>3 DEF P

\* They are what an aligned request goes through.
LEMMA LegsRun ==
  ASSUME NEW ask, Len(ask.specs) \in Nat, NEW c
  PROVE  \E H : /\ IsLegs(H, Len(ask.specs), ask, c)
                /\ Aligned(ask.source, Now(ask.source), c, ask.specs, ask.window)
                     = OfLegs(ask.specs, H[Len(ask.specs)])
<1> DEFINE n == Len(ask.specs)
           Runs(L) == L = [k \in 0..n |->
                             IF k = 0 THEN [fault |-> None, series |-> <<>>, cache |-> c]
                             ELSE LegAfter(L[k - 1],
                                    Got(ask.source, Now(ask.source), L[k - 1].cache,
                                        ask.specs[k], ask.window))]
           L == CHOOSE L : Runs(L)
<1>1. Aligned(ask.source, Now(ask.source), c, ask.specs, ask.window) = OfLegs(ask.specs, L[n])
  BY DEF Aligned
<1>2. PICK H : IsLegs(H, n, ask, c)
  BY LegsExist
<1>3. Runs(H)
  <2>1. \A k \in 0..n : H[k] = IF k = 0 THEN Start(c) ELSE Step(ask, H[k - 1], k)
    BY <1>2 DEF IsLegs
  <2>2. H = [k \in 0..n |-> H[k]]
    BY <1>2 DEF IsLegs
  <2> QED
    BY <2>1, <2>2 DEF Start, Step
<1>4. Runs(L)
  BY <1>3
<1>5. IsLegs(L, n, ask, c)
  <2>1. L = [k \in 0..n |-> L[k]]
    BY <1>4
  <2>2. \A k \in 0..n : L[k] = IF k = 0 THEN Start(c) ELSE Step(ask, L[k - 1], k)
    BY <1>4 DEF Start, Step
  <2> HIDE DEF L
  <2> QED
    BY <2>1, <2>2 DEF IsLegs
<1> QED
  BY <1>1, <1>5

\* A request the services are asked.
IsAsk(ask) ==
  /\ ask.source \in Sources /\ ask.specs \in Seq(Range(ask.specs))
  /\ \A k \in 1..Len(ask.specs) : IsSpec(ask.specs[k])

\* A leg was found since the process began.
Leg(ask, k, series) ==
  series # None /\ Gave(ask.source, <<ask.specs[k], ask.window>>, Found(series))
\* After k legs.
LegsOk(ask, was, k) ==
  /\ IsCache(was.cache) /\ OwnEntries(ask.source, was.cache)
  /\ was.fault = None =>
       /\ was.series = [j \in 1..k |-> was.series[j]]
       /\ \A j \in 1..k : Leg(ask, j, was.series[j])

LEMMA LegIsOwn ==
  ASSUME Shape, NEW ask, IsAsk(ask), NEW was, NEW k \in 1..Len(ask.specs),
         LegsOk(ask, was, k - 1)
  PROVE  LegsOk(ask, Step(ask, was, k), k)
<1> DEFINE got == Got(ask.source, Now(ask.source), was.cache, ask.specs[k], ask.window)
           next == LegAfter(was, got)
<1>1. Len(ask.specs) \in Nat /\ ask.source \in Sources /\ IsSpec(ask.specs[k])
  BY DEF IsAsk
<1>2. /\ IsCache(got.cache) /\ OwnEntries(ask.source, got.cache)
      /\ Gave(ask.source, <<ask.specs[k], ask.window>>, got.answer)
  BY <1>1, GotIsOwn DEF LegsOk
<1>3. got.answer.series # None => got.answer = Found(got.answer.series)
  BY <1>1, <1>2, FetchedIs DEF Gave
<1>4. Step(ask, was, k) = next
  BY DEF Step
<1> HIDE DEF got
<1>5. CASE was.fault # None
  <2>1. next = was
    BY <1>5 DEF LegAfter
  <2> QED
    BY <1>4, <1>5, <2>1 DEF LegsOk
<1>6. CASE was.fault = None /\ got.answer.fault # None
  <2>1. next = [was EXCEPT !.fault = got.answer.fault, !.cache = got.cache]
    BY <1>6 DEF LegAfter
  <2>2. next.fault # None /\ next.cache = got.cache
    BY <1>6, <2>1
  <2> QED
    BY <1>2, <1>4, <2>2 DEF LegsOk
<1>7. CASE was.fault = None /\ got.answer.fault = None /\ got.answer.series = None
  <2>1. next = [was EXCEPT !.fault = "not_found", !.cache = got.cache]
    BY <1>7 DEF LegAfter
  <2>2. next.fault # None /\ next.cache = got.cache
    BY <1>7, <2>1, NoneAssumption
  <2> QED
    BY <1>2, <1>4, <2>2 DEF LegsOk
<1>8. CASE was.fault = None /\ got.answer.fault = None /\ got.answer.series # None
  <2> DEFINE x == got.answer.series
             new == Append(was.series, x)
  <2>1. next = [fault |-> None, series |-> new, cache |-> got.cache]
    BY <1>8 DEF LegAfter
  <2>2. Leg(ask, k, x)
    BY <1>2, <1>3, <1>8 DEF Leg
  <2>3. was.series = [j \in 1..(k - 1) |-> was.series[j]] /\ \A j \in 1..(k - 1) : Leg(ask, j, was.series[j])
    BY <1>8 DEF LegsOk
  <2> HIDE DEF x
  <2>4. k - 1 \in Nat /\ k \in Nat /\ (k - 1) + 1 = k
    BY <1>1
  <2>5. was.series \in Seq({was.series[j] : j \in 1..(k - 1)}) /\ Len(was.series) = k - 1
    BY <2>3, <2>4
  <2>6. /\ new \in Seq({was.series[j] : j \in 1..(k - 1)} \cup {x}) /\ Len(new) = k /\ new[k] = x
        /\ \A j \in 1..(k - 1) : new[j] = was.series[j]
    BY <2>4, <2>5, AppendIs
  <2>7. new = [j \in 1..k |-> new[j]]
    BY <2>6, SequenceIs
  <2> HIDE DEF new
  <2>8. \A j \in 1..k : j = k \/ j \in 1..(k - 1)
    BY <2>4
  <2>9. \A j \in 1..k : Leg(ask, j, new[j])
    BY <2>2, <2>3, <2>6, <2>8
  <2> QED
    BY <1>2, <1>4, <2>1, <2>7, <2>9 DEF LegsOk
<1> QED
  BY <1>5, <1>6, <1>7, <1>8

\* After the legs the cache is still its own, and each leg found is.
LEMMA LegsAreOwn ==
  ASSUME Shape, NEW ask, IsAsk(ask), NEW c, IsCache(c), OwnEntries(ask.source, c)
  PROVE  \E all : /\ LegsOk(ask, all, Len(ask.specs))
                  /\ Aligned(ask.source, Now(ask.source), c, ask.specs, ask.window)
                       = OfLegs(ask.specs, all)
<1> DEFINE n == Len(ask.specs)
<1>1. n \in Nat
  BY DEF IsAsk
<1>2. PICK H : /\ IsLegs(H, n, ask, c)
               /\ Aligned(ask.source, Now(ask.source), c, ask.specs, ask.window)
                    = OfLegs(ask.specs, H[n])
  BY <1>1, LegsRun
<1> DEFINE P == {k \in 0..n : LegsOk(ask, H[k], k)}
<1>3. 0 \in P
  <2>1. H[0] = Start(c)
    BY <1>2 DEF IsLegs
  <2>2. Start(c).series = [j \in 1..0 |-> Start(c).series[j]] /\ Start(c).cache = c
    BY DEF Start
  <2> QED
    BY <1>1, <2>1, <2>2 DEF LegsOk
<1>4. ASSUME NEW k \in 1..n, k - 1 \in P
      PROVE  k \in P
  <2>1. H[k] = Step(ask, H[k - 1], k)
    BY <1>2 DEF IsLegs
  <2>2. LegsOk(ask, Step(ask, H[k - 1], k), k)
    BY <1>4, LegIsOwn
  <2> QED
    BY <1>1, <2>1, <2>2
<1> HIDE DEF P
<1>5. n \in P
  <2>1. \A k \in 0..n : k \in P
    BY <1>1, <1>3, <1>4, LegByLeg
  <2>2. n \in 0..n
    BY <1>1
  <2> QED
    BY <2>1, <2>2
<1> QED
  BY <1>2, <1>5 DEF P

\* What an aligned request may be answered: the legs, each of a time of its own,
\* on the dates they share.
Then(ask, n, k) ==
  Fetched(ask.source, Warehouse(SubSeq(days, 1, n), ask.source), ask.specs[k], ask.window)
OwnAnswer(ask, got) ==
  got.fault = None =>
    IF Len(ask.specs) = 1
    THEN \E n \in since..Len(days) : got = Then(ask, n, 1)
    ELSE \E at \in [DOMAIN ask.specs -> since..Len(days)] :
           LET Rows(k) == LegRows(ask.specs[k], Then(ask, at[k], k).series)
               shared == {d \in DatesOf(Rows(1)) : \A k \in DOMAIN ask.specs : d \in DatesOf(Rows(k))}
           IN /\ \A k \in DOMAIN ask.specs :
                   Then(ask, at[k], k).fault = None /\ Then(ask, at[k], k).series # None
              /\ got.series = [k \in DOMAIN ask.specs |-> [d \in shared |-> CloseOn(Rows(k), d)]]

LEMMA AlignedIsOwn ==
  ASSUME Shape, NEW ask, IsAsk(ask), Len(ask.specs) # 1,
         NEW c, IsCache(c), OwnEntries(ask.source, c)
  PROVE  LET got == Aligned(ask.source, Now(ask.source), c, ask.specs, ask.window)
         IN  /\ IsCache(got.cache) /\ OwnEntries(ask.source, got.cache)
             /\ OwnAnswer(ask, got.answer)
<1> DEFINE n == Len(ask.specs)
           got == Aligned(ask.source, Now(ask.source), c, ask.specs, ask.window)
<1>1. n \in Nat /\ DOMAIN ask.specs = 1..n /\ (ask.specs = <<>> <=> n = 0)
  BY DEF IsAsk
<1>2. PICK all : LegsOk(ask, all, n) /\ got = OfLegs(ask.specs, all)
  BY LegsAreOwn
<1>3. got.cache = all.cache
  BY <1>2 DEF OfLegs
<1>4. ASSUME got.answer.fault = None
      PROVE  OwnAnswer(ask, got.answer)
  <2>1. all.fault = None /\ got.answer = Together(ask.specs, all.series)
    BY <1>2, <1>4, NoneAssumption DEF OfLegs, Fault
  <2> DEFINE rows(k) == LegRows(ask.specs[k], all.series[k])
             common == {d \in DatesOf(rows(1)) : \A k \in DOMAIN ask.specs : d \in DatesOf(rows(k))}
  <2>2. got.answer.series = [k \in DOMAIN ask.specs |-> [d \in common |-> CloseOn(rows(k), d)]]
    BY <1>4, <2>1, NoneAssumption DEF Together, Found, Fault
  <2> DEFINE Fits(k, m) == Found(all.series[k]) = Then(ask, m, k)
             at == [k \in 1..n |-> CHOOSE m \in since..Len(days) : Fits(k, m)]
  <2>3. \A k \in 1..n : all.series[k] # None /\ \E m \in since..Len(days) : Fits(k, m)
    BY <1>2, <2>1 DEF LegsOk, Leg, Gave, Then
  <2> HIDE DEF Fits
  <2>4. \A k \in 1..n : at[k] \in since..Len(days) /\ Fits(k, at[k])
    BY <2>3
  <2>5. at \in [DOMAIN ask.specs -> since..Len(days)]
    BY <1>1, <2>4
  <2> HIDE DEF at
  <2>6. ASSUME NEW k \in 1..n
        PROVE  Then(ask, at[k], k).fault = None /\ Then(ask, at[k], k).series = all.series[k]
    <3>1. Then(ask, at[k], k) = Found(all.series[k])
      BY <2>4 DEF Fits
    <3>2. Found(all.series[k]).fault = None /\ Found(all.series[k]).series = all.series[k]
      BY DEF Found
    <3> QED
      BY <3>1, <3>2
  <2> DEFINE Rows(k) == LegRows(ask.specs[k], Then(ask, at[k], k).series)
             shared == {d \in DatesOf(Rows(1)) : \A k \in DOMAIN ask.specs : d \in DatesOf(Rows(k))}
  <2>7. \A k \in 1..n : Rows(k) = rows(k)
    BY <2>6
  <2>8. 1 \in 1..n
    <3>1. ask.specs # <<>>
      BY <1>2, <1>4, NoneAssumption DEF OfLegs, Fault
    <3> QED
      BY <1>1, <3>1
  <2> HIDE DEF Rows, rows
  <2>9. shared = common
    BY <1>1, <2>7, <2>8
  <2>10. [k \in DOMAIN ask.specs |-> [d \in common |-> CloseOn(rows(k), d)]]
           = [k \in DOMAIN ask.specs |-> [d \in shared |-> CloseOn(Rows(k), d)]]
    BY <1>1, <2>7, <2>9
  <2>11. \A k \in DOMAIN ask.specs :
           Then(ask, at[k], k).fault = None /\ Then(ask, at[k], k).series # None
    BY <1>1, <2>3, <2>6
  <2> QED
    BY <2>2, <2>5, <2>10, <2>11 DEF OwnAnswer, Rows
<1> QED
  BY <1>2, <1>3, <1>4 DEF LegsOk, OwnAnswer

LEMMA OneIsOwn ==
  ASSUME Shape, NEW ask, IsAsk(ask), Len(ask.specs) = 1,
         NEW c, IsCache(c), OwnEntries(ask.source, c)
  PROVE  LET got == Got(ask.source, Now(ask.source), c, Head(ask.specs), ask.window)
         IN  /\ IsCache(got.cache) /\ OwnEntries(ask.source, got.cache)
             /\ OwnAnswer(ask, got.answer)
<1> DEFINE got == Got(ask.source, Now(ask.source), c, ask.specs[1], ask.window)
<1>1. Head(ask.specs) = ask.specs[1] /\ IsSpec(ask.specs[1]) /\ ask.source \in Sources
  BY DEF IsAsk
<1>2. /\ IsCache(got.cache) /\ OwnEntries(ask.source, got.cache)
      /\ Gave(ask.source, <<ask.specs[1], ask.window>>, got.answer)
  BY <1>1, GotIsOwn
<1> HIDE DEF got
<1>3. \E n \in since..Len(days) : got.answer = Then(ask, n, 1)
  BY <1>2 DEF Gave, Then
<1>4. OwnAnswer(ask, got.answer)
  BY <1>3 DEF OwnAnswer
<1> QED
  BY <1>1, <1>2, <1>4 DEF got

(***************************************************************************)
(* Each step.                                                              *)
(***************************************************************************)

\* The requests of a world are ones the services are asked, or are v2's own.
LEMMA Asked ==
  ASSUME Shape, NEW ask \in Asks(world), ask.source # "native"
  PROVE  IsAsk(ask)
<1>1. ask.source \in Sources /\ ask.specs \in Seq(Range(ask.specs))
  BY AsksAssumption DEF Shape
<1>2. \A spec \in Range(ask.specs) : spec.kind \in {"price", "continuous"}
  BY AsksAssumption DEF Shape
<1>3. \A k \in 1..Len(ask.specs) : ask.specs[k] \in Range(ask.specs)
  BY <1>1 DEF Range
<1> QED
  BY <1>1, <1>2, <1>3 DEF IsAsk, IsSpec

\* What was given since the process began still was, when another day is loaded.
LEMMA StillGiven ==
  ASSUME Shape, world' = world, since' = since,
         \/ days' = days
         \/ \E d : days' = Append(days, d)
  PROVE  \A source, c : OwnEntries(source, c) => OwnEntries(source, c)'
<1>1. Len(days) \in Nat /\ since \in 0..Len(days) /\ days \in Seq({days[i] : i \in 1..Len(days)})
  BY IsSequence DEF Shape
<1>2. /\ Len(days') \in Nat /\ Len(days') >= Len(days)
      /\ \A n \in 0..Len(days) : SubSeq(days', 1, n) = SubSeq(days, 1, n)
  <2>1. CASE days' = days
    BY <1>1, <2>1
  <2>2. CASE \E d : days' = Append(days, d)
    <3>1. PICK d : days' = Append(days, d)
      BY <2>2
    <3> DEFINE S == {days[i] : i \in 1..Len(days)}
    <3> HIDE DEF S
    <3>2. days \in Seq(S)
      BY <1>1 DEF S
    <3>3. /\ days' \in Seq(S \cup {d}) /\ Len(days') = Len(days) + 1
          /\ \A k \in 1..Len(days) : days'[k] = days[k]
      BY <3>1, <3>2, AppendIs
    <3>4. ASSUME NEW n \in 0..Len(days)
          PROVE  SubSeq(days', 1, n) = SubSeq(days, 1, n)
      BY <1>1, <3>2, <3>3
    <3> QED
      BY <1>1, <3>3, <3>4
  <2> QED
    BY <2>1, <2>2
<1>3. \A source, key, got : Gave(source, key, got) => Gave(source, key, got)'
  <2> SUFFICES ASSUME NEW source, NEW key, NEW got, Gave(source, key, got)
               PROVE  Gave(source, key, got)'
    OBVIOUS
  <2>1. PICK n \in since..Len(days) :
          got = Fetched(source, Warehouse(SubSeq(days, 1, n), source), key[1], key[2])
    BY DEF Gave
  <2>2. n \in since'..Len(days') /\ n \in 0..Len(days)
    BY <1>1, <1>2
  <2>3. got = Fetched(source, Stocked(world', SubSeq(days', 1, n), source), key[1], key[2])
    BY <1>2, <2>1, <2>2 DEF Warehouse
  <2> QED
    BY <2>2, <2>3 DEF Gave, Warehouse
<1> QED
  BY <1>3 DEF OwnEntries

\* The inductive invariant: the shape, the caches of their own entries, and an
\* answer that is one's own.
IInv == Shape /\ CachesAreOwn /\ ServedIsOwn

LEMMA ServedByOwnAnswer ==
  ServedIsOwn <=> (asked # None /\ asked.source \in Sources => OwnAnswer(asked, answer))
BY DEF ServedIsOwn, OwnAnswer, Then

LEMMA NothingServed ==
  asked = None => ServedIsOwn
BY DEF ServedIsOwn

LEMMA SameAnswers ==
  ASSUME UNCHANGED <<world, days, since>>
  PROVE  \A ask, got : OwnAnswer(ask, got) => OwnAnswer(ask, got)'
<1>1. \A ask, n, k : Then(ask, n, k)' = Then(ask, n, k)
  BY DEF Then, Warehouse
<1>2. since' = since /\ Len(days') = Len(days)
  OBVIOUS
<1> SUFFICES ASSUME NEW ask, NEW got, OwnAnswer(ask, got)
             PROVE  OwnAnswer(ask, got)'
  OBVIOUS
<1>3. CASE got.fault # None
  BY <1>3 DEF OwnAnswer
<1>4. CASE got.fault = None /\ Len(ask.specs) = 1
  BY <1>1, <1>2, <1>4 DEF OwnAnswer
<1>5. CASE got.fault = None /\ Len(ask.specs) # 1
  <2> DEFINE Rows(at, k) == LegRows(ask.specs[k], Then(ask, at[k], k).series)
             Are(at) ==
               LET shared == {d \in DatesOf(Rows(at, 1)) :
                                \A k \in DOMAIN ask.specs : d \in DatesOf(Rows(at, k))}
               IN /\ \A k \in DOMAIN ask.specs :
                       Then(ask, at[k], k).fault = None /\ Then(ask, at[k], k).series # None
                  /\ got.series = [k \in DOMAIN ask.specs |-> [d \in shared |-> CloseOn(Rows(at, k), d)]]
  <2>1. \E at \in [DOMAIN ask.specs -> since..Len(days)] : Are(at)
    BY <1>5 DEF OwnAnswer
  <2>2. \A at, k : Rows(at, k)' = Rows(at, k)
    BY <1>1
  <2>3. \A at : Are(at)' = Are(at)
    BY <1>1, <2>2
  <2> HIDE DEF Are
  <2>4. \E at \in [DOMAIN ask.specs -> since'..Len(days')] : Are(at)'
    BY <1>2, <2>1, <2>3
  <2> QED
    BY <1>5, <2>4 DEF OwnAnswer, Are
<1> QED
  BY <1>3, <1>4, <1>5

\* An empty cache has nothing that is not its own.
LEMMA EmptyCache ==
  \A source : IsCache(<<>>) /\ OwnEntries(source, <<>>)
BY CacheSizeAssumption DEF IsCache, OwnEntries

LEMMA InitOwn == Init => IInv
<1> SUFFICES ASSUME Init PROVE IInv
  OBVIOUS
<1>1. Shape
  BY DEF Init, Shape
<1>2. CachesAreOwn
  BY EmptyCache DEF Init, CachesAreOwn
<1>3. ServedIsOwn
  BY NothingServed DEF Init
<1> QED
  BY <1>1, <1>2, <1>3 DEF IInv

LEMMA LoadOwn == IInv /\ Load => IInv'
<1> SUFFICES ASSUME IInv, Load PROVE IInv'
  OBVIOUS
<1>1. Shape /\ CachesAreOwn
  BY DEF IInv
<1>2. PICK d \in Day(world, Len(days)) : days' = Append(days, d)
  BY DEF Load
<1>3. world' = world /\ since' = since /\ cache' = cache /\ asked' = None
  BY DEF Load
<1>4. Shape'
  <2> DEFINE S == {days[i] : i \in 1..Len(days)}
  <2>1. days \in Seq(S) /\ Len(days) \in Nat /\ since \in 0..Len(days)
    BY <1>1, IsSequence DEF Shape
  <2> HIDE DEF S
  <2>2. days' \in Seq(S \cup {d}) /\ Len(days') = Len(days) + 1
    BY <1>2, <2>1, AppendIs
  <2>3. days' = [i \in 1..Len(days') |-> days'[i]] /\ Len(days') \in Nat
    BY <2>2, SequenceIs
  <2>4. since' \in 0..Len(days')
    BY <1>3, <2>1, <2>2
  <2> QED
    BY <1>1, <1>3, <2>3, <2>4 DEF Shape
<1>5. CachesAreOwn'
  <2>1. \A source, c : OwnEntries(source, c) => OwnEntries(source, c)'
    BY <1>1, <1>2, <1>3, StillGiven
  <2>2. \A s \in Sources : IsCache(cache[s]) /\ OwnEntries(s, cache[s])
    BY <1>1 DEF CachesAreOwn
  <2> QED
    BY <1>3, <2>1, <2>2 DEF CachesAreOwn
<1>6. ServedIsOwn'
  BY <1>3 DEF ServedIsOwn
<1> QED
  BY <1>4, <1>5, <1>6 DEF IInv

LEMMA AskOwn == IInv /\ Ask => IInv'
<1> SUFFICES ASSUME IInv, NEW ask \in Asks(world),
                    CASE ask.source = "native" -> GetNative(ask)
                      [] ask.source # "native" /\ Len(ask.specs) = 1 -> GetOne(ask)
                      [] OTHER -> GetAligned(ask),
                    asked' = ask, UNCHANGED <<world, days, since>>
             PROVE  IInv'
  BY DEF Ask
<1>1. Shape /\ CachesAreOwn
  BY DEF IInv
<1>2. \A source, c : OwnEntries(source, c) => OwnEntries(source, c)'
  BY <1>1, StillGiven
<1>3. CASE ask.source = "native"
  <2>1. cache' = cache
    BY <1>3 DEF GetNative
  <2>2. Shape' /\ CachesAreOwn'
    BY <1>1, <1>2, <2>1 DEF Shape, CachesAreOwn
  <2>3. ServedIsOwn'
    BY <1>3 DEF ServedIsOwn, Sources
  <2> QED
    BY <2>2, <2>3 DEF IInv
<1>4. CASE ask.source # "native"
  <2> DEFINE c == cache[ask.source]
             one == Got(ask.source, Now(ask.source), c, Head(ask.specs), ask.window)
             many == Aligned(ask.source, Now(ask.source), c, ask.specs, ask.window)
             got == IF Len(ask.specs) = 1 THEN one ELSE many
  <2>1. IsAsk(ask) /\ ask.source \in Sources
    BY <1>1, <1>4, Asked DEF IsAsk
  <2>2. IsCache(c) /\ OwnEntries(ask.source, c)
    BY <1>1, <2>1 DEF CachesAreOwn
  <2>3. answer' = got.answer /\ cache' = [cache EXCEPT ![ask.source] = got.cache]
    BY <1>4 DEF GetOne, GetAligned, Serve
  <2>4. IsCache(got.cache) /\ OwnEntries(ask.source, got.cache) /\ OwnAnswer(ask, got.answer)
    BY <1>1, <2>1, <2>2, OneIsOwn, AlignedIsOwn
  <2> HIDE DEF got
  <2>5. Shape'
    BY <1>1, <2>3 DEF Shape
  <2>6. CachesAreOwn'
    <3>1. \A s \in Sources : IsCache(cache'[s]) /\ OwnEntries(s, cache'[s])
      BY <1>1, <2>1, <2>3, <2>4 DEF CachesAreOwn, Shape
    <3> QED
      BY <1>2, <3>1 DEF CachesAreOwn
  <2>7. OwnAnswer(asked, answer)'
    BY <2>3, <2>4, SameAnswers
  <2>8. ServedIsOwn'
    <3>1. (ServedIsOwn <=> (asked # None /\ asked.source \in Sources => OwnAnswer(asked, answer)))'
      BY ServedByOwnAnswer, PTL
    <3> QED
      BY <2>7, <3>1
  <2> QED
    BY <2>5, <2>6, <2>8 DEF IInv
<1> QED
  BY <1>3, <1>4

LEMMA RestartOwn == IInv /\ Restart => IInv'
<1> SUFFICES ASSUME IInv, Restart PROVE IInv'
  OBVIOUS
<1>1. Shape'
  BY DEF IInv, Shape, Restart
<1>2. CachesAreOwn'
  <2>1. \A s \in Sources : cache'[s] = <<>>
    BY DEF Restart
  <2>2. \A s \in Sources : IsCache(cache'[s])
    BY <2>1, EmptyCache
  <2>3. \A s \in Sources : OwnEntries(s, cache[s])'
    BY <2>1 DEF OwnEntries
  <2> QED
    BY <2>2, <2>3 DEF CachesAreOwn
<1>3. ServedIsOwn'
  BY DEF Restart, ServedIsOwn
<1> QED
  BY <1>1, <1>2, <1>3 DEF IInv

LEMMA StutterOwn == IInv /\ UNCHANGED vars => IInv'
<1> SUFFICES ASSUME IInv, UNCHANGED vars PROVE IInv'
  OBVIOUS
<1>1. Shape'
  BY DEF IInv, Shape, vars
<1>2. CachesAreOwn'
  <2>1. \A source, c : OwnEntries(source, c) => OwnEntries(source, c)'
    BY StillGiven DEF IInv, vars
  <2> QED
    BY <2>1 DEF IInv, CachesAreOwn, vars
<1>3. ServedIsOwn'
  <2>1. OwnAnswer(asked, answer) => OwnAnswer(asked, answer)'
    BY SameAnswers DEF vars
  <2>2. (ServedIsOwn <=> (asked # None /\ asked.source \in Sources => OwnAnswer(asked, answer)))'
    BY ServedByOwnAnswer, PTL
  <2>3. asked # None /\ asked.source \in Sources => OwnAnswer(asked, answer)
    BY ServedByOwnAnswer DEF IInv
  <2> QED
    BY <2>1, <2>2, <2>3 DEF vars
<1> QED
  BY <1>1, <1>2, <1>3 DEF IInv

LEMMA StepOwn == IInv /\ [Next]_vars => IInv'
BY LoadOwn, AskOwn, RestartOwn, StutterOwn DEF Next

(***************************************************************************)
(* A cache keeps within its bound, has one entry for a key, and keeps only *)
(* what its own warehouse answered to that key since the process began     *)
(* (the LRU cache of the data services, tcg/data/_cache.py).               *)
(***************************************************************************)
THEOREM CachesHoldTheirOwn == Spec => []CachesAreOwn
<1>1. IInv => CachesAreOwn
  BY DEF IInv
<1> QED
  BY InitOwn, StepOwn, <1>1, PTL DEF Spec

(***************************************************************************)
(* What a request is answered through the cache is what the warehouse      *)
(* itself would have answered to it at some time since the process began,  *)
(* for several legs each of a time of its own, on the dates they share     *)
(* (the market data services' get_prices, get_continuous and               *)
(* get_aligned_prices), whatever is loaded, asked and restarted in between. *)
(***************************************************************************)
THEOREM ServedIsItsOwn == Spec => []ServedIsOwn
<1>1. IInv => ServedIsOwn
  BY DEF IInv
<1> QED
  BY InitOwn, StepOwn, <1>1, PTL DEF Spec
===============================================================================
