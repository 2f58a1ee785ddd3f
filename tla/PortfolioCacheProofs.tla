------------------------- MODULE PortfolioCacheProofs -------------------------
(***************************************************************************)
(* Proofs about the disk cache of portfolio results, for any clients,      *)
(* portfolios, lifetimes, sizes and releases: what is served is as fresh   *)
(* as was asked for, and it is a result of what was asked.                 *)
(***************************************************************************)
EXTENDS PortfolioCache, SequenceTheorems, WellFoundedInduction, TLAPS

(***************************************************************************)
(* Data                                                                    *)
(***************************************************************************)

LEMMA LeastIsMember ==
  ASSUME NEW T, T \subseteq Nat, T # {}
  PROVE  Min(T) \in T
<1> DEFINE R == OpToRel(<, Nat)
<1>1. IsWellFoundedOn(R, Nat)
  BY NatLessThanWellFounded
<1>2. \A i, j \in Nat : i < j => <<i, j>> \in R
  BY DEF OpToRel
<1> HIDE DEF R
<1>3. PICK m \in T : \A k \in T : <<k, m>> \notin R
  BY <1>1, WFMin
<1>4. \A k \in T : k \in Nat /\ m \in Nat /\ ~(k < m)
  BY <1>2, <1>3
<1>5. \A k \in T : m <= k
  BY <1>4
<1> QED
  BY <1>5 DEF Min

LEMMA Bounds ==
  /\ TTL \in Nat /\ MaxRun \in Nat /\ MaxNow \in Nat /\ MaxAsks \in Nat
  /\ Min(Versions) \in Versions /\ Versions \subseteq Nat
  BY CacheAssumption, LeastIsMember

LEMMA BodyTypes ==
  ASSUME NEW p \in Bodies
  PROVE  /\ Dump(p) \in Bodies /\ ChildOf(p) \in Bodies
         /\ Dump(p).shape = p.shape
         /\ ChildOf(p).shape = "plain"
         /\ Meaning(p) \in Shapes \X {"v1", "v2"} /\ EffectiveSource(p) \in {"v1", "v2"}
         /\ Shapes = {"plain", "composed", "nested"}
  BY DEF Bodies, Dump, ChildOf, Shapes, Meaning, EffectiveSource

\* The innermost call of a stack is replaced.
LEMMA ReplaceLast ==
  ASSUME NEW S, NEW s \in Seq(S), s # <<>>, NEW x \in S
  PROVE  LET t == Front(s) \o <<x>>
         IN  /\ t \in Seq(S) /\ t # <<>> /\ Len(t) = Len(s)
             /\ Last(t) = x /\ t[Len(t)] = x
             /\ \A i \in 1 .. Len(s) - 1 : t[i] = s[i]
<1> DEFINE n == Len(s)
           f == Front(s)
           t == f \o <<x>>
<1>1. n \in Nat /\ n >= 1 /\ \A i \in 1 .. n : s[i] \in S
  BY EmptySeq, LenProperties, ElementOfSeq
<1>2. f \in Seq(S) /\ Len(f) = n - 1 /\ \A i \in 1 .. n - 1 : f[i] = s[i]
  <2>1. 1 \in Int /\ n - 1 \in Int /\ \A i \in 1 .. n - 1 : s[i] \in S
    BY <1>1
  <2>2. /\ f \in Seq(S) /\ Len(f) = IF 1 <= n - 1 THEN (n - 1) - 1 + 1 ELSE 0
        /\ \A i \in 1 .. (n - 1) - 1 + 1 : f[i] = s[1 + i - 1]
    BY <2>1, SubSeqProperties DEF Front
  <2> HIDE DEF f, n
  <2> QED
    BY <1>1, <2>2
<1>3. <<x>> \in Seq(S) /\ Len(<<x>>) = 1 /\ <<x>>[1] = x
  OBVIOUS
<1>4. /\ t \in Seq(S) /\ Len(t) = n
      /\ \A i \in 1 .. n : t[i] = IF i <= n - 1 THEN s[i] ELSE x
  <2>1. /\ t \in Seq(S) /\ Len(t) = Len(f) + Len(<<x>>)
        /\ \A i \in 1 .. Len(f) + Len(<<x>>) :
             t[i] = IF i <= Len(f) THEN f[i] ELSE <<x>>[i - Len(f)]
    BY <1>2, <1>3, ConcatProperties
  <2> HIDE DEF t, f, n
  <2> QED
    BY <1>1, <1>2, <1>3, <2>1
<1> HIDE DEF f, n
<1>5. t[n] = x /\ \A i \in 1 .. n - 1 : t[i] = s[i]
  BY <1>1, <1>4
<1>6. t # <<>>
  BY <1>1, <1>4
<1> QED
  BY <1>4, <1>5, <1>6 DEF Last, n, f

\* The innermost call of a client that has one.
LEMMA TopFacts ==
  ASSUME TypeOK, NEW c \in Clients, calls[c] # <<>>, StackFits(c)
  PROVE  /\ Top(c) \in Call /\ Len(calls[c]) \in {1, 2}
         /\ Top(c) = calls[c][Len(calls[c])]
         /\ request[c] \in Requests /\ request[c] # None
         /\ request[c].at \in Nat
         /\ Top(c).cached = request[c].useCache
         /\ Top(c).of = IF Len(calls[c]) = 1 THEN request[c].of ELSE ChildOf(request[c].of)
         /\ Len(calls[c]) = 2 => Top(c).of.shape = "plain" /\ request[c].of.shape = "composed"
<1>1. calls[c] \in Seq(Call) /\ Len(calls[c]) \in Nat /\ Len(calls[c]) # 0
  BY EmptySeq, LenProperties DEF TypeOK
<1>2. Len(calls[c]) \in {1, 2}
  <2> DEFINE n == Len(calls[c])
  <2>1. n \in Nat /\ n # 0 /\ n <= 2
    BY <1>1 DEF StackFits
  <2> HIDE DEF n
  <2>2. n = 1 \/ n = 2
    BY <2>1
  <2> QED
    BY <2>2 DEF n
<1>3. Top(c) = calls[c][Len(calls[c])] /\ Top(c) \in Call
  BY <1>1, <1>2, ElementOfSeq DEF Top, Last
<1>4. request[c] \in Requests /\ request[c] # None /\ request[c].at \in Nat
  BY Bounds DEF StackFits, TypeOK, Requests
<1>5. request[c].of \in Bodies
  BY <1>4 DEF Requests
<1> QED
  BY <1>2, <1>3, <1>4, <1>5, BodyTypes DEF StackFits

LEMMA Inits == Init => CacheInv
<1> SUFFICES ASSUME Init PROVE CacheInv
  OBVIOUS
<1> USE DEF Init
<1>1. TypeOK
  BY Bounds, EmptySeq DEF TypeOK
<1>2. RowsAreYoung /\ ServedIsFresh
  BY DEF RowsAreYoung, ServedIsFresh, FreshWhenBypassed, StalenessBounded
<1>3. \A c \in Clients : StackFits(c)
  BY EmptySeq DEF StackFits
<1> QED
  BY <1>1, <1>2, <1>3 DEF CacheInv

(***************************************************************************)
(* Steps of one client's innermost call                                    *)
(***************************************************************************)

\* What a step that moves on the innermost call of c leaves for the rest.
Moves(c, k) ==
  /\ calls' = [calls EXCEPT ![c] = Front(@) \o <<k>>]
  /\ served' = None
  /\ UNCHANGED <<request, now, asks, version>>

LEMMA MoveKeeps ==
  ASSUME CacheInv, NEW c \in Clients, calls[c] # <<>>, NEW k \in Call, Moves(c, k),
         k.of = Top(c).of, k.cached = Top(c).cached, k.phase # "child",
         CallFits(k), CallIsYoung(k, request[c].at),
         DOMAIN table' \subseteq [version: Versions, body: Bodies],
         table' \in [DOMAIN table' -> Row], RowsAreYoung'
  PROVE  CacheInv'
<1>1. TypeOK /\ \A d \in Clients : StackFits(d)
  BY DEF CacheInv
<1>2. calls[c] \in Seq(Call)
  BY <1>1 DEF TypeOK
<1> DEFINE t == Front(calls[c]) \o <<k>>
<1>3. /\ t \in Seq(Call) /\ t # <<>> /\ Len(t) = Len(calls[c])
      /\ Last(t) = k /\ t[Len(t)] = k
      /\ \A i \in 1 .. Len(calls[c]) - 1 : t[i] = calls[c][i]
  BY <1>2, ReplaceLast
<1>4. calls' = [calls EXCEPT ![c] = t]
  BY DEF Moves
<1> HIDE DEF t
<1>5. calls'[c] = t /\ \A d \in Clients \ {c} : calls'[d] = calls[d]
  BY <1>1, <1>4 DEF TypeOK
<1>6. TypeOK'
  BY <1>1, <1>3, <1>4 DEF TypeOK, Moves
<1>7. StackFits(c)'
  <2>1. /\ Len(calls[c]) \in {1, 2} /\ Top(c) = calls[c][Len(calls[c])]
        /\ calls[c] # <<>>
    BY <1>1, TopFacts
  <2>2. UNCHANGED <<request, now>>
    BY DEF Moves
  <2>3. CASE Len(calls[c]) = 1
    BY <1>1, <1>3, <1>5, <2>1, <2>2, <2>3 DEF StackFits
  <2>4. CASE Len(calls[c]) = 2
    <3>1. t[1] = calls[c][1] /\ t[2] = k /\ Len(t) = 2
      BY <1>3, <2>4
    <3> QED
      BY <1>1, <1>3, <1>5, <2>1, <2>2, <2>4, <3>1 DEF StackFits
  <2> QED
    BY <2>1, <2>3, <2>4
<1>8. \A d \in Clients \ {c} : StackFits(d)'
  BY <1>1, <1>5 DEF StackFits, Moves
<1>9. ServedIsFresh'
  BY DEF Moves, ServedIsFresh, FreshWhenBypassed, StalenessBounded
<1>10. ASSUME NEW d \in Clients, (calls[d] # <<>>)'
       PROVE  (CallFits(Last(calls[d])) /\ CallIsYoung(Last(calls[d]), request[d].at))'
  <2>1. CASE d = c
    <3>1. Last(calls'[d]) = k /\ request'[d].at = request[c].at
      BY <1>3, <1>5, <2>1 DEF Moves
    <3>2. CallFits(Last(calls'[d])) /\ CallIsYoung(Last(calls'[d]), request'[d].at)
      BY <3>1
    <3> QED
      BY <3>2 DEF CallFits, CallIsYoung
  <2>2. CASE d # c
    <3>1. Last(calls'[d]) = Last(calls[d]) /\ request'[d] = request[d]
      BY <1>5, <2>2 DEF Moves
    <3>2. CallFits(Last(calls'[d])) /\ CallIsYoung(Last(calls'[d]), request'[d].at)
      BY <1>5, <1>10, <2>2, <3>1 DEF CacheInv
    <3> QED
      BY <3>2 DEF CallFits, CallIsYoung
  <2> QED
    BY <2>1, <2>2
<1> QED
  BY <1>6, <1>7, <1>8, <1>9, <1>10 DEF CacheInv

\* The innermost call with its new phase and value.
Moved(c, phase, value) == [Top(c) EXCEPT !.phase = phase, !.value = value]

LEMMA GotoMoves ==
  ASSUME TypeOK, NEW c \in Clients, calls[c] # <<>>, StackFits(c),
         NEW phase \in Phases, NEW value \in Results \cup {None},
         Goto(c, phase, value)
  PROVE  /\ Moved(c, phase, value) \in Call /\ Moves(c, Moved(c, phase, value))
         /\ Moved(c, phase, value).of = Top(c).of
         /\ Moved(c, phase, value).cached = Top(c).cached
         /\ Moved(c, phase, value).phase = phase
         /\ Moved(c, phase, value).value = value
<1>1. Top(c) \in Call
  BY TopFacts
<1> QED
  BY <1>1 DEF Goto, Moves, Call, Moved

\* A row that is stored, refreshed or dropped leaves rows.
LEMMA RowsStay ==
  ASSUME TypeOK, RowsAreYoung, UNCHANGED now,
         DOMAIN table' \subseteq DOMAIN table, table' \in [DOMAIN table' -> Row],
         \A k \in DOMAIN table' : /\ table'[k].value = table[k].value
                                  /\ table'[k].created = table[k].created
  PROVE  RowsAreYoung'
  BY DEF RowsAreYoung

LEMMA RowFacts ==
  ASSUME TypeOK, NEW k \in DOMAIN table
  PROVE  /\ table[k] \in Row /\ table[k].value \in Results /\ table[k].value # None
         /\ table[k].created \in Nat /\ table[k].value.read \in Nat
  BY NoneAssumption, Bounds DEF TypeOK, Row, Results

LEMMA SelectKeeps ==
  ASSUME CacheInv, NEW c \in Clients, Select(c)
  PROVE  CacheInv'
<1> DEFINE k == Key(Top(c).of)
<1>1. /\ TypeOK /\ RowsAreYoung /\ StackFits(c) /\ calls[c] # <<>>
      /\ Top(c).phase = "select" /\ CallFits(Top(c)) /\ UNCHANGED table
  BY DEF CacheInv, Select, At, Top
<1>2. Top(c).cached /\ Top(c) \in Call /\ Top(c).of \in Bodies
  BY <1>1, TopFacts DEF CallFits, Call
<1>3. RowsAreYoung'
  BY <1>1 DEF RowsAreYoung, Select, Goto
<1>4. table' \in [DOMAIN table' -> Row] /\ DOMAIN table' \subseteq [version: Versions, body: Bodies]
  BY <1>1 DEF TypeOK
<1>5. ASSUME NEW p \in {"compute", "expire"}, Goto(c, p, None) PROVE CacheInv'
  <2>1. p \in Phases /\ p # "child"
    BY <1>5 DEF Phases
  <2> DEFINE x == Moved(c, p, None)
  <2>2. /\ x \in Call /\ Moves(c, x) /\ x.of = Top(c).of /\ x.cached = Top(c).cached
        /\ x.phase = p
    BY <1>1, <1>5, <2>1, GotoMoves
  <2> HIDE DEF x
  <2>3. CallFits(x) /\ CallIsYoung(x, request[c].at)
    BY <1>2, <1>5, <2>2 DEF CallFits, CallIsYoung
  <2> QED
    BY <1>1, <1>3, <1>4, <1>5, <2>1, <2>2, <2>3, MoveKeeps
<1>6. ASSUME k \in DOMAIN table, ~Expired(table[k]), Goto(c, "touch", table[k].value)
      PROVE  CacheInv'
  <2> DEFINE v == table[k].value
             x == Moved(c, "touch", v)
  <2>1. /\ v \in Results /\ v # None /\ v.read \in Nat /\ table[k].created \in Nat
    BY <1>1, <1>6, RowFacts
  <2>2. /\ x \in Call /\ Moves(c, x) /\ x.of = Top(c).of /\ x.cached = Top(c).cached
        /\ x.phase = "touch" /\ x.value = v
    BY <1>1, <1>6, <2>1, GotoMoves DEF Phases
  <2>3. k.body.shape = Top(c).of.shape
    BY <1>2, BodyTypes DEF Key
  <2>4. AgeOf(k.body.shape) \in Nat
    BY Bounds DEF AgeOf
  <2>5. request[c].at - v.read <= TTL + AgeOf(k.body.shape)
    <3>1. now - table[k].created <= TTL
      BY <1>1, <1>6, <2>1, Bounds DEF Expired, TypeOK
    <3>2. table[k].created - v.read <= AgeOf(k.body.shape)
      BY <1>1, <1>6 DEF RowsAreYoung
    <3>3. request[c].at <= now /\ request[c].at \in Nat /\ now \in Nat
      BY <1>1, TopFacts, Bounds DEF StackFits, TypeOK
    <3> HIDE DEF v, k
    <3> QED
      BY <2>1, <2>4, <3>1, <3>2, <3>3, Bounds
  <2> HIDE DEF x, v, k
  <2>6. CallFits(x) /\ CallIsYoung(x, request[c].at)
    BY <1>2, <2>1, <2>2, <2>3, <2>5 DEF CallFits, CallIsYoung
  <2> QED
    BY <1>1, <1>3, <1>4, <2>2, <2>6, MoveKeeps
<1> QED
  BY <1>5, <1>6 DEF Select

LEMMA TouchKeeps ==
  ASSUME CacheInv, NEW c \in Clients, Touch(c)
  PROVE  CacheInv'
<1> DEFINE k == Key(Top(c).of)
           x == Moved(c, "done", Top(c).value)
<1>1. /\ TypeOK /\ RowsAreYoung /\ StackFits(c) /\ calls[c] # <<>>
      /\ Top(c).phase = "touch" /\ CallFits(Top(c))
      /\ CallIsYoung(Top(c), request[c].at)
  BY DEF CacheInv, Touch, At, Top
<1>2. Top(c) \in Call /\ Top(c).cached
  BY <1>1, TopFacts DEF CallFits
<1>3. Top(c).value \in Results \cup {None} /\ "done" \in Phases /\ Goto(c, "done", Top(c).value)
  BY <1>2 DEF Call, Phases, Touch
<1>4. /\ x \in Call /\ Moves(c, x) /\ x.of = Top(c).of /\ x.cached = Top(c).cached
      /\ x.phase = "done" /\ x.value = Top(c).value
  BY <1>1, <1>3, GotoMoves
<1>5. /\ DOMAIN table' = DOMAIN table /\ table' \in [DOMAIN table' -> Row]
      /\ \A j \in DOMAIN table' : /\ table'[j].value = table[j].value
                                  /\ table'[j].created = table[j].created
  <2>1. table' = IF k \in DOMAIN table THEN [table EXCEPT ![k].last = now] ELSE table
    BY DEF Touch
  <2>2. table \in [DOMAIN table -> Row] /\ now \in 0..MaxNow
    BY <1>1 DEF TypeOK
  <2> HIDE DEF k
  <2> QED
    BY <2>1, <2>2 DEF Row
<1>6. RowsAreYoung'
  BY <1>1, <1>4, <1>5, RowsStay DEF Moves
<1>7. DOMAIN table' \subseteq [version: Versions, body: Bodies]
  BY <1>1, <1>5 DEF TypeOK
<1> HIDE DEF x, k
<1>8. CallFits(x) /\ CallIsYoung(x, request[c].at)
  BY <1>1, <1>2, <1>4 DEF CallFits, CallIsYoung
<1> QED
  BY <1>1, <1>4, <1>5, <1>6, <1>7, <1>8, MoveKeeps

LEMMA ExpireKeeps ==
  ASSUME CacheInv, NEW c \in Clients, Expire(c)
  PROVE  CacheInv'
<1> DEFINE x == Moved(c, "compute", None)
<1>1. /\ TypeOK /\ RowsAreYoung /\ StackFits(c) /\ calls[c] # <<>>
      /\ Goto(c, "compute", None)
  BY DEF CacheInv, Expire, At
<1>2. /\ x \in Call /\ Moves(c, x) /\ x.of = Top(c).of /\ x.cached = Top(c).cached
      /\ x.phase = "compute"
  BY <1>1, GotoMoves DEF Phases
<1>3. /\ DOMAIN table' \subseteq DOMAIN table
      /\ table' \in [DOMAIN table' -> Row]
      /\ \A j \in DOMAIN table' : table'[j] = table[j]
  BY <1>1 DEF Expire, Without, TypeOK
<1>4. RowsAreYoung'
  BY <1>1, <1>2, <1>3, RowsStay DEF Moves
<1>5. DOMAIN table' \subseteq [version: Versions, body: Bodies]
  BY <1>1, <1>3 DEF TypeOK
<1> HIDE DEF x
<1>6. CallFits(x) /\ CallIsYoung(x, request[c].at)
  BY <1>2 DEF CallFits, CallIsYoung
<1> QED
  BY <1>1, <1>2, <1>3, <1>4, <1>5, <1>6, MoveKeeps

LEMMA ResultTypes ==
  ASSUME TypeOK, NEW p \in Bodies, NEW s \in {"v1", "v2"}, NEW r \in 0..MaxNow
  PROVE  /\ Result(p, s, r) \in Results /\ Result(p, s, r) # None
         /\ Result(p, s, r).read = r /\ Result(p, s, r).of = <<p.shape, s>>
         /\ Result(p, s, r).ver = version
<1>1. <<p.shape, s>> \in Shapes \X {"v1", "v2"}
  BY DEF Bodies
<1>2. version \in Versions
  BY DEF TypeOK
<1> QED
  BY <1>1, <1>2, NoneAssumption DEF Result, Results

LEMMA ComputeKeeps ==
  ASSUME CacheInv, NEW c \in Clients, Compute(c)
  PROVE  CacheInv'
<1> DEFINE p == IF Top(c).cached THEN "put" ELSE "done"
           v == Result(Top(c).of, EffectiveSource(Top(c).of), now)
           x == Moved(c, p, v)
<1>1. /\ TypeOK /\ RowsAreYoung /\ StackFits(c) /\ calls[c] # <<>>
      /\ Top(c).of.shape = "plain" /\ UNCHANGED table /\ Goto(c, p, v)
  BY DEF CacheInv, Compute, Computed, At
<1>2. Top(c) \in Call /\ Top(c).of \in Bodies /\ now \in 0..MaxNow
  BY <1>1, TopFacts DEF Call, TypeOK
<1>3. v \in Results /\ v # None /\ v.read = now /\ p \in Phases
  BY <1>1, <1>2, BodyTypes, ResultTypes DEF Phases
<1>4. /\ x \in Call /\ Moves(c, x) /\ x.of = Top(c).of /\ x.cached = Top(c).cached
      /\ x.phase = p /\ x.value = v
  BY <1>1, <1>3, GotoMoves
<1>5. request[c].at <= now /\ request[c].at \in Nat /\ now \in Nat
  BY <1>1, TopFacts, Bounds DEF StackFits, TypeOK
<1>6. request[c].at - v.read <= 0
  BY <1>3, <1>5
<1>7. RowsAreYoung' /\ table' \in [DOMAIN table' -> Row]
      /\ DOMAIN table' \subseteq [version: Versions, body: Bodies]
  BY <1>1, <1>4 DEF RowsAreYoung, Moves, TypeOK
<1> HIDE DEF x, v
<1>8. CallFits(x)
  BY <1>3, <1>4 DEF CallFits
<1>9. CallIsYoung(x, request[c].at)
  BY <1>1, <1>3, <1>4, <1>5, <1>6, Bounds DEF CallIsYoung, AgeOf
<1>10. x.phase # "child"
  BY <1>4
<1> QED
  BY <1>1, <1>4, <1>7, <1>8, <1>9, <1>10, MoveKeeps

\* The rows an INSERT leaves.
LEMMA EvictedRows ==
  ASSUME NEW t, NEW u \in Evicted(t)
  PROVE  DOMAIN u \subseteq DOMAIN t /\ (u = [j \in DOMAIN u |-> t[j]] \/ u = t)
  BY DEF Evicted

LEMMA PutKeeps ==
  ASSUME CacheInv, NEW c \in Clients, Put(c)
  PROVE  CacheInv'
<1> DEFINE k == Key(Top(c).of)
           row == [value |-> Top(c).value, created |-> now, last |-> now]
           t == [j \in DOMAIN table \cup {k} |-> IF j = k THEN row ELSE table[j]]
           x == Moved(c, "done", Top(c).value)
<1>1. /\ TypeOK /\ RowsAreYoung /\ StackFits(c) /\ calls[c] # <<>>
      /\ Top(c).phase = "put" /\ CallFits(Top(c))
      /\ CallIsYoung(Top(c), request[c].at) /\ table' \in Evicted(t)
  BY DEF CacheInv, Put, At, Top
<1>2. Top(c) \in Call /\ Top(c).cached /\ Top(c).of \in Bodies
      /\ now \in Nat /\ now \in 0..MaxNow /\ version \in Versions
  <2>1. Top(c) \in Call /\ Top(c).cached /\ Top(c).of \in Bodies
    BY <1>1, TopFacts DEF CallFits, Call
  <2>2. now \in 0..MaxNow /\ version \in Versions
    BY <1>1 DEF TypeOK
  <2> QED
    BY <2>1, <2>2, Bounds
<1>3. Top(c).value \in Results /\ "done" \in Phases /\ Goto(c, "done", Top(c).value)
  BY <1>1, <1>2 DEF Call, Phases, Put, CallFits
<1>4. /\ x \in Call /\ Moves(c, x) /\ x.of = Top(c).of /\ x.cached = Top(c).cached
      /\ x.phase = "done" /\ x.value = Top(c).value
  BY <1>1, <1>3, GotoMoves
<1>5. k \in [version: Versions, body: Bodies] /\ k.body.shape = Top(c).of.shape
  BY <1>2, BodyTypes DEF Key
<1>6. row \in Row
  BY <1>2, <1>3 DEF Row
<1>7. now - Top(c).value.read <= AgeOf(k.body.shape)
  <2>1. request[c].at - Top(c).value.read <= AgeOf(Top(c).of.shape) - MaxRun
    BY <1>1 DEF CallIsYoung
  <2>2. now - request[c].at <= MaxRun
    BY <1>1 DEF StackFits
  <2>3. Top(c).value.read \in Nat /\ request[c].at \in Nat /\ AgeOf(k.body.shape) \in Nat
    BY <1>1, <1>3, TopFacts, Bounds DEF Results, AgeOf
  <2> QED
    BY <1>2, <1>5, <2>1, <2>2, <2>3, Bounds
<1>8. /\ DOMAIN table' \subseteq DOMAIN table \cup {k}
      /\ \A j \in DOMAIN table' : table'[j] = IF j = k THEN row ELSE table[j]
      /\ table' = [j \in DOMAIN table' |-> table'[j]]
  <2>1. DOMAIN t = DOMAIN table \cup {k}
        /\ \A j \in DOMAIN t : t[j] = IF j = k THEN row ELSE table[j]
    OBVIOUS
  <2> HIDE DEF t, row, k
  <2>2. DOMAIN table' \subseteq DOMAIN t /\ \A j \in DOMAIN table' : table'[j] = t[j]
    BY <1>1, EvictedRows
  <2>3. table' = [j \in DOMAIN table' |-> table'[j]]
    BY <1>1, EvictedRows DEF t
  <2> QED
    BY <2>1, <2>2, <2>3
<1> HIDE DEF k, row, t, x
<1>9. table' \in [DOMAIN table' -> Row] /\ DOMAIN table' \subseteq [version: Versions, body: Bodies]
  BY <1>1, <1>5, <1>6, <1>8 DEF TypeOK
<1>10. RowsAreYoung'
  <2> SUFFICES ASSUME NEW j \in DOMAIN table'
               PROVE  /\ table'[j].created <= now'
                      /\ table'[j].created - table'[j].value.read <= AgeOf(j.body.shape)
    BY DEF RowsAreYoung, AgeOf
  <2>1. now' = now
    BY <1>4 DEF Moves
  <2>2. CASE j = k
    BY <1>2, <1>7, <1>8, <2>1, <2>2 DEF row
  <2>3. CASE j # k
    BY <1>1, <1>8, <2>1, <2>3 DEF RowsAreYoung
  <2> QED
    BY <2>2, <2>3
<1>11. CallFits(x)
  BY <1>1, <1>2, <1>4 DEF CallFits
<1>12. CallIsYoung(x, request[c].at)
  <2>1. request[c].at - x.value.read <= AgeOf(x.of.shape) - MaxRun
    BY <1>1, <1>4 DEF CallIsYoung
  <2>2. x.value.read \in Nat /\ request[c].at \in Nat /\ AgeOf(x.of.shape) \in Nat
    BY <1>1, <1>3, <1>4, TopFacts, Bounds DEF Results, AgeOf
  <2>3. request[c].at - x.value.read <= TTL + AgeOf(x.of.shape)
    BY <2>1, <2>2, Bounds
  <2> QED
    BY <1>2, <1>4, <2>3 DEF CallIsYoung
<1> QED
  BY <1>1, <1>4, <1>9, <1>10, <1>11, <1>12, MoveKeeps

(***************************************************************************)
(* Steps that push or pop a call                                           *)
(***************************************************************************)

\* A step that changes only the stack and the request of c, c's new stack being
\* as it should.
LEMMA OthersKeep ==
  ASSUME CacheInv, NEW c \in Clients, TypeOK', UNCHANGED <<table, now>>, served' = None,
         \A d \in Clients \ {c} : calls'[d] = calls[d] /\ request'[d] = request[d],
         StackFits(c)',
         calls'[c] # <<>> => /\ CallFits(Last(calls'[c]))
                             /\ CallIsYoung(Last(calls'[c]), request'[c].at)
  PROVE  CacheInv'
<1>1. RowsAreYoung' /\ ServedIsFresh'
  BY DEF CacheInv, RowsAreYoung, ServedIsFresh, FreshWhenBypassed, StalenessBounded
<1>2. \A d \in Clients \ {c} : StackFits(d)'
  BY DEF CacheInv, StackFits
<1>3. ASSUME NEW d \in Clients, (calls[d] # <<>>)'
      PROVE  (CallFits(Last(calls[d])) /\ CallIsYoung(Last(calls[d]), request[d].at))'
  <2>1. CASE d = c
    BY <1>3, <2>1 DEF CallFits, CallIsYoung
  <2>2. CASE d # c
    <3>1. calls'[d] = calls[d] /\ request'[d] = request[d] /\ calls[d] # <<>>
      BY <1>3, <2>2
    <3>2. CallFits(Last(calls'[d])) /\ CallIsYoung(Last(calls'[d]), request'[d].at)
      BY <3>1 DEF CacheInv
    <3> QED
      BY <3>2 DEF CallFits, CallIsYoung
  <2> QED
    BY <2>1, <2>2
<1> QED
  BY <1>1, <1>2, <1>3 DEF CacheInv

LEMMA AskedKeeps ==
  ASSUME CacheInv, NEW c \in Clients, NEW p \in Portfolios, NEW useCache \in BOOLEAN,
         NEW childCache \in BOOLEAN, NEW compute \in BOOLEAN,
         Asked(c, p, useCache, childCache, compute)
  PROVE  CacheInv'
<1> DEFINE k == NewCall(p, useCache)
           r == [of |-> p, useCache |-> useCache, childCache |-> childCache,
                 compute |-> compute, at |-> now]
<1>1. TypeOK /\ p \in Bodies /\ now \in 0..MaxNow /\ now \in Nat
  BY PortfoliosAssumption, Bounds DEF CacheInv, TypeOK
<1>2. r \in Requests /\ r # None /\ r.at = now /\ r.of = p /\ r.useCache = useCache
  BY <1>1, NoneAssumption DEF Requests
<1>3. /\ k \in Call /\ k.of = p /\ k.cached = useCache
      /\ k.phase = IF useCache THEN "select" ELSE "compute"
  BY <1>1 DEF NewCall, Call, Phases
<1>4. /\ request' = [request EXCEPT ![c] = r] /\ calls' = [calls EXCEPT ![c] = <<k>>]
      /\ asks' = asks + 1 /\ asks < MaxAsks /\ served' = None
      /\ UNCHANGED <<table, now, version>>
  BY DEF Asked
<1> HIDE DEF k, r
<1>5. <<k>> \in Seq(Call) /\ <<k>> # <<>> /\ Len(<<k>>) = 1 /\ <<k>>[1] = k /\ Last(<<k>>) = k
  BY <1>3 DEF Last
<1>6. TypeOK'
  <2>1. asks' \in 0..MaxAsks
    BY <1>1, <1>4, Bounds DEF TypeOK
  <2> QED
    BY <1>1, <1>2, <1>4, <1>5, <2>1 DEF TypeOK
<1>7. calls'[c] = <<k>> /\ request'[c] = r
      /\ \A d \in Clients \ {c} : calls'[d] = calls[d] /\ request'[d] = request[d]
  BY <1>1, <1>4 DEF TypeOK
<1>8. StackFits(c)'
  <2>1. now' - r.at <= MaxRun /\ r.at <= now'
    BY <1>1, <1>2, <1>4, Bounds
  <2>2. k.phase # "child" /\ 1 <= 2 /\ 1 # 2
    BY <1>3
  <2> QED
    BY <1>2, <1>3, <1>5, <1>7, <2>1, <2>2 DEF StackFits
<1>9. CallFits(k) /\ CallIsYoung(k, r.at)
  BY <1>3 DEF CallFits, CallIsYoung
<1> QED
  BY <1>4, <1>5, <1>6, <1>7, <1>8, <1>9, OthersKeep

\* Whatever ends a request leaves no call of it.
LEMMA EndKeeps ==
  ASSUME CacheInv, NEW c \in Clients,
         calls' = [calls EXCEPT ![c] = <<>>], request' = [request EXCEPT ![c] = None],
         UNCHANGED <<table, now, asks, version>>
  PROVE  /\ TypeOK' /\ StackFits(c)' /\ calls'[c] = <<>>
         /\ \A d \in Clients \ {c} : calls'[d] = calls[d] /\ request'[d] = request[d]
<1>1. TypeOK /\ <<>> \in Seq(Call) /\ Len(<<>>) = 0
  BY EmptySeq DEF CacheInv
<1>2. TypeOK'
  BY <1>1 DEF TypeOK
<1>3. calls'[c] = <<>> /\ request'[c] = None
      /\ \A d \in Clients \ {c} : calls'[d] = calls[d] /\ request'[d] = request[d]
  BY <1>1 DEF TypeOK
<1>4. StackFits(c)'
  BY <1>1, <1>3 DEF StackFits
<1> QED
  BY <1>2, <1>3, <1>4

LEMMA FailKeeps ==
  ASSUME CacheInv, NEW c \in Clients, Fail(c)
  PROVE  CacheInv'
<1>1. /\ TypeOK' /\ StackFits(c)' /\ calls'[c] = <<>>
      /\ \A d \in Clients \ {c} : calls'[d] = calls[d] /\ request'[d] = request[d]
  BY EndKeeps DEF Fail
<1> QED
  BY <1>1, OthersKeep DEF Fail

LEMMA CallChildKeeps ==
  ASSUME CacheInv, NEW c \in Clients, CallChild(c)
  PROVE  CacheInv'
<1>1. /\ TypeOK /\ StackFits(c) /\ calls[c] # <<>> /\ Top(c).of.shape = "composed"
  BY DEF CacheInv, CallChild, At
<1>2. /\ Top(c) \in Call /\ Len(calls[c]) = 1 /\ Top(c) = calls[c][1]
      /\ Top(c).of = request[c].of /\ Top(c).cached = request[c].useCache
      /\ request[c] # None
  BY <1>1, TopFacts
<1> DEFINE parent == [Top(c) EXCEPT !.phase = "child"]
           k == NewCall(ChildOf(Top(c).of), ChildFlag(Top(c).cached, request[c].childCache))
<1>3. Front(calls[c]) = <<>>
  BY <1>2 DEF Front
<1>4. /\ parent \in Call /\ parent.phase = "child"
      /\ parent.of = Top(c).of /\ parent.cached = Top(c).cached
  BY <1>2 DEF Call, Phases
<1>5. /\ k \in Call /\ k.of = ChildOf(Top(c).of) /\ k.cached = Top(c).cached
      /\ k.phase = IF k.cached THEN "select" ELSE "compute"
  <2>1. ChildOf(Top(c).of) \in Bodies /\ Top(c).cached \in BOOLEAN
    BY <1>2, BodyTypes DEF Call
  <2> QED
    BY <2>1 DEF NewCall, Call, Phases, ChildFlag
<1>6. calls' = [calls EXCEPT ![c] = Front(calls[c]) \o <<parent, k>>]
      /\ served' = None /\ UNCHANGED <<table, request, now, asks, version>>
  BY DEF CallChild
<1> HIDE DEF parent, k
<1> DEFINE s == <<parent, k>>
<1>7. /\ s \in Seq(Call) /\ s # <<>> /\ Len(s) = 2 /\ s[1] = parent /\ s[2] = k /\ Last(s) = k
  BY <1>4, <1>5 DEF Last
<1>8. Front(calls[c]) \o s = s
  BY <1>3, <1>7, ConcatEmptySeq
<1> HIDE DEF s
<1>9. /\ calls' = [calls EXCEPT ![c] = s] /\ calls'[c] = s
      /\ \A d \in Clients \ {c} : calls'[d] = calls[d] /\ request'[d] = request[d]
  BY <1>1, <1>6, <1>8 DEF TypeOK, s
<1>10. TypeOK'
  BY <1>1, <1>6, <1>7, <1>9 DEF TypeOK
<1>11. k.phase # "child"
  BY <1>5
<1>12. StackFits(c)'
  BY <1>1, <1>2, <1>4, <1>5, <1>6, <1>7, <1>9, <1>11 DEF StackFits
<1>13. CallFits(k) /\ CallIsYoung(k, request[c].at)
  BY <1>5 DEF CallFits, CallIsYoung
<1> QED
  BY <1>6, <1>7, <1>9, <1>10, <1>12, <1>13, OthersKeep

LEMMA ChildReturnsKeeps ==
  ASSUME CacheInv, NEW c \in Clients, ChildReturns(c)
  PROVE  CacheInv'
<1> DEFINE parent == calls[c][1]
           p == IF parent.cached THEN "put" ELSE "done"
           v == Result(parent.of, Top(c).value.of[2], Top(c).value.read)
           x == [parent EXCEPT !.phase = p, !.value = v]
<1>1. /\ TypeOK /\ StackFits(c) /\ calls[c] # <<>> /\ Len(calls[c]) = 2
      /\ Top(c).phase = "done" /\ CallFits(Top(c)) /\ CallIsYoung(Top(c), request[c].at)
  BY DEF CacheInv, ChildReturns, At, Top
<1>2. /\ Top(c) \in Call /\ request[c] # None /\ Top(c).of.shape = "plain"
      /\ Top(c).cached = request[c].useCache /\ request[c].at \in Nat
      /\ calls[c] \in Seq(Call)
  BY <1>1, TopFacts DEF TypeOK
<1>3. /\ parent \in Call /\ parent.of \in Bodies /\ parent.of.shape = "composed"
      /\ parent.of = request[c].of /\ parent.cached = request[c].useCache
      /\ parent.cached \in BOOLEAN
  <2>1. parent \in Call
    BY <1>1, <1>2, ElementOfSeq
  <2> QED
    BY <1>1, <2>1 DEF StackFits, Call
<1>4. /\ Top(c).value \in Results /\ Top(c).value.read \in 0..MaxNow
      /\ Top(c).value.of[2] \in {"v1", "v2"}
  BY <1>1, <1>2 DEF Call, CallFits, Results
<1>5. v \in Results /\ v # None /\ v.read = Top(c).value.read /\ p \in Phases
  BY <1>1, <1>3, <1>4, ResultTypes DEF Phases
<1>6. /\ calls' = [calls EXCEPT ![c] = <<x>>]
      /\ served' = None /\ UNCHANGED <<table, request, now, asks, version>>
  BY DEF ChildReturns
<1>7. /\ x \in Call /\ x.phase = p /\ x.value = v
      /\ x.of = parent.of /\ x.cached = parent.cached
  <2> HIDE DEF v, p, parent
  <2> QED
    BY <1>3, <1>5 DEF Call
<1>8. CallIsYoung(x, request[c].at)
  <2>1. request[c].at - v.read <= TTL + MaxRun
    BY <1>1, <1>2, <1>5 DEF CallIsYoung, AgeOf
  <2>2. AgeOf(x.of.shape) = TTL + 2 * MaxRun
    BY <1>3, <1>7 DEF AgeOf
  <2>3. v.read \in Nat
    BY <1>4, <1>5, Bounds
  <2>4. ~x.cached => request[c].at <= v.read
    BY <1>1, <1>2, <1>3, <1>5, <1>7 DEF CallIsYoung
  <2> HIDE DEF x, v
  <2>5. /\ request[c].at - v.read <= AgeOf(x.of.shape) - MaxRun
        /\ request[c].at - v.read <= TTL + AgeOf(x.of.shape)
    BY <1>2, <2>1, <2>2, <2>3, Bounds
  <2> QED
    BY <1>7, <2>4, <2>5 DEF CallIsYoung
<1>9. CallFits(x)
  BY <1>3, <1>5, <1>7 DEF CallFits
<1>10. p # "child"
  OBVIOUS
<1> HIDE DEF x, v, p, parent
<1>11. /\ <<x>> \in Seq(Call) /\ <<x>> # <<>> /\ Len(<<x>>) = 1 /\ <<x>>[1] = x /\ Last(<<x>>) = x
  BY <1>7 DEF Last
<1>12. /\ calls'[c] = <<x>>
       /\ \A d \in Clients \ {c} : calls'[d] = calls[d] /\ request'[d] = request[d]
  BY <1>1, <1>6 DEF TypeOK
<1>13. TypeOK'
  BY <1>1, <1>6, <1>11 DEF TypeOK
<1>14. StackFits(c)'
  BY <1>1, <1>2, <1>3, <1>6, <1>7, <1>10, <1>11, <1>12 DEF StackFits
<1> QED
  BY <1>6, <1>8, <1>9, <1>11, <1>12, <1>13, <1>14, OthersKeep

\* What is served is fresh.
LEMMA ServeKeeps ==
  ASSUME CacheInv, NEW c \in Clients, Serve(c)
  PROVE  CacheInv'
<1>1. /\ TypeOK /\ StackFits(c) /\ calls[c] # <<>> /\ Len(calls[c]) = 1
      /\ Top(c).phase = "done" /\ CallFits(Top(c)) /\ CallIsYoung(Top(c), request[c].at)
      /\ UNCHANGED <<table, now, asks, version>>
  BY DEF CacheInv, Serve, At, Top
<1>2. /\ Top(c) \in Call /\ request[c].at \in Nat /\ now \in Nat
      /\ Top(c).cached = request[c].useCache
  BY <1>1, TopFacts, Bounds DEF TypeOK
<1>3. Top(c).value \in Results /\ Top(c).value.read \in Nat
  BY <1>1, <1>2, Bounds DEF Call, CallFits, Results
<1>4. /\ TypeOK' /\ StackFits(c)' /\ calls'[c] = <<>>
      /\ \A d \in Clients \ {c} : calls'[d] = calls[d] /\ request'[d] = request[d]
  BY EndKeeps DEF Serve
<1>5. served'.request = request[c] /\ served'.value = Top(c).value
  BY DEF Serve
<1>6. FreshWhenBypassed'
  BY <1>1, <1>2, <1>5 DEF FreshWhenBypassed, CallIsYoung
<1>7. now - Top(c).value.read <= 2 * TTL + 3 * MaxRun
  <2>1. now - request[c].at <= MaxRun
    BY <1>1, TopFacts DEF StackFits
  <2>2. request[c].at - Top(c).value.read <= TTL + AgeOf(Top(c).of.shape)
    BY <1>1 DEF CallIsYoung
  <2>3. AgeOf(Top(c).of.shape) \in Nat /\ AgeOf(Top(c).of.shape) <= TTL + 2 * MaxRun
    BY Bounds DEF AgeOf
  <2> QED
    BY <1>2, <1>3, <2>1, <2>2, <2>3, Bounds
<1>8. StalenessBounded'
  BY <1>1, <1>5, <1>7 DEF StalenessBounded
<1>9. RowsAreYoung'
  BY <1>1 DEF CacheInv, RowsAreYoung
<1>10. ASSUME NEW d \in Clients
       PROVE  /\ StackFits(d)'
              /\ (calls[d] # <<>> => CallFits(Last(calls[d]))
                                     /\ CallIsYoung(Last(calls[d]), request[d].at))'
  <2>1. CASE d = c
    BY <1>4, <2>1
  <2>2. CASE d # c
    <3>1. calls'[d] = calls[d] /\ request'[d] = request[d]
      BY <1>4, <2>2
    <3>2. StackFits(d)'
      BY <1>1, <3>1 DEF CacheInv, StackFits
    <3>3. calls'[d] # <<>> => CallFits(Last(calls'[d]))
                              /\ CallIsYoung(Last(calls'[d]), request'[d].at)
      BY <3>1 DEF CacheInv
    <3> QED
      BY <3>2, <3>3 DEF CallFits, CallIsYoung
  <2> QED
    BY <2>1, <2>2
<1> QED
  BY <1>4, <1>6, <1>8, <1>9, <1>10 DEF CacheInv, ServedIsFresh

(***************************************************************************)
(* The rest of the system                                                  *)
(***************************************************************************)
LEMMA ClearKeeps ==
  ASSUME CacheInv, Clear
  PROVE  CacheInv'
<1>1. /\ DOMAIN table' = {} /\ table' = [k \in {} |-> None] /\ served' = None
      /\ UNCHANGED <<calls, request, now, asks, version>>
  BY DEF Clear
<1>2. TypeOK' /\ RowsAreYoung'
  BY <1>1 DEF CacheInv, TypeOK, RowsAreYoung
<1>3. ASSUME NEW d \in Clients
      PROVE  /\ StackFits(d)'
             /\ (calls[d] # <<>> => CallFits(Last(calls[d]))
                                    /\ CallIsYoung(Last(calls[d]), request[d].at))'
  BY <1>1 DEF CacheInv, StackFits, CallFits, CallIsYoung
<1> QED
  BY <1>1, <1>2, <1>3
  DEF CacheInv, ServedIsFresh, FreshWhenBypassed, StalenessBounded

LEMMA RestartKeeps ==
  ASSUME CacheInv, Restart
  PROVE  CacheInv'
<1>1. /\ version' \in Versions /\ served' = None /\ UNCHANGED <<table, now, asks>>
      /\ calls' = [c \in Clients |-> <<>>] /\ request' = [c \in Clients |-> None]
  BY DEF Restart
<1>2. <<>> \in Seq(Call) /\ Len(<<>>) = 0
  BY EmptySeq
<1>3. TypeOK' /\ RowsAreYoung'
  BY <1>1, <1>2 DEF CacheInv, TypeOK, RowsAreYoung
<1>4. \A d \in Clients : calls'[d] = <<>> /\ StackFits(d)'
  BY <1>1, <1>2 DEF StackFits
<1> QED
  BY <1>1, <1>3, <1>4
  DEF CacheInv, ServedIsFresh, FreshWhenBypassed, StalenessBounded

LEMMA TickKeeps ==
  ASSUME CacheInv, Tick
  PROVE  CacheInv'
<1>1. /\ now < MaxNow /\ now' = now + 1 /\ served' = None
      /\ UNCHANGED <<table, calls, request, asks, version>>
      /\ \A c \in Clients : request[c] # None => now - request[c].at < MaxRun
  BY DEF Tick
<1>2. now \in Nat /\ now' \in 0..MaxNow
  BY <1>1, Bounds DEF CacheInv, TypeOK
<1>3. TypeOK'
  BY <1>1, <1>2 DEF CacheInv, TypeOK
<1>4. RowsAreYoung'
  <2> SUFFICES ASSUME NEW k \in DOMAIN table
               PROVE  /\ table[k].created <= now'
                      /\ table[k].created - table[k].value.read <= AgeOf(k.body.shape)
    BY <1>1 DEF RowsAreYoung, AgeOf
  <2>1. table[k].created \in Nat /\ table[k].created <= now
    BY RowFacts DEF CacheInv, RowsAreYoung
  <2>2. table[k].created <= now'
    BY <1>1, <1>2, <2>1
  <2> QED
    BY <2>2 DEF CacheInv, RowsAreYoung
<1>5. ASSUME NEW d \in Clients
      PROVE  /\ StackFits(d)'
             /\ (calls[d] # <<>> => CallFits(Last(calls[d]))
                                    /\ CallIsYoung(Last(calls[d]), request[d].at))'
  <2>1. /\ calls'[d] = calls[d] /\ request'[d] = request[d] /\ StackFits(d)
        /\ request[d] \in Requests \cup {None}
    BY <1>1 DEF CacheInv, TypeOK
  <2>2. request[d] # None => request[d].at \in Nat
    BY <2>1, Bounds DEF Requests
  <2>3. calls[d] # <<>> => request[d].at <= now' /\ now' - request[d].at <= MaxRun
    <3>1. SUFFICES ASSUME calls[d] # <<>>
                   PROVE  request[d].at <= now' /\ now' - request[d].at <= MaxRun
      OBVIOUS
    <3>2. request[d] # None /\ request[d].at <= now
      BY <2>1, <3>1 DEF StackFits
    <3>3. now - request[d].at < MaxRun /\ request[d].at \in Nat
      BY <1>1, <2>2, <3>2
    <3> QED
      BY <1>1, <1>2, <3>2, <3>3, Bounds
  <2>4. StackFits(d)'
    BY <2>1, <2>3 DEF StackFits
  <2>5. calls'[d] # <<>> => CallFits(Last(calls'[d]))
                            /\ CallIsYoung(Last(calls'[d]), request'[d].at)
    BY <2>1 DEF CacheInv
  <2> QED
    BY <2>4, <2>5 DEF CallFits, CallIsYoung
<1> QED
  BY <1>1, <1>3, <1>4, <1>5
  DEF CacheInv, ServedIsFresh, FreshWhenBypassed, StalenessBounded

LEMMA CacheStep == CacheInv /\ [Next]_vars => CacheInv'
<1> SUFFICES ASSUME CacheInv, [Next]_vars
             PROVE  CacheInv'
  OBVIOUS
<1>1. ASSUME NEW c \in Clients, Ask(c) \/ Show(c) PROVE CacheInv'
  BY <1>1, AskedKeeps DEF Ask, Show
<1>2. ASSUME NEW c \in Clients, Step(c) PROVE CacheInv'
  BY <1>2, SelectKeeps, TouchKeeps, ExpireKeeps, ComputeKeeps, CallChildKeeps,
     ChildReturnsKeeps, FailKeeps, PutKeeps, ServeKeeps DEF Step
<1>3. CASE UNCHANGED vars
  <2>1. ASSUME NEW d \in Clients
        PROVE  /\ StackFits(d)'
               /\ (calls[d] # <<>> => CallFits(Last(calls[d]))
                                      /\ CallIsYoung(Last(calls[d]), request[d].at))'
    BY <1>3 DEF CacheInv, StackFits, CallFits, CallIsYoung, vars
  <2>2. TypeOK' /\ RowsAreYoung'
    BY <1>3 DEF CacheInv, TypeOK, RowsAreYoung, vars
  <2> QED
    BY <1>3, <2>1, <2>2
    DEF CacheInv, ServedIsFresh, FreshWhenBypassed, StalenessBounded, vars
<1> QED
  BY <1>1, <1>2, <1>3, ClearKeeps, RestartKeeps, TickKeeps DEF Next

\* The stacks, the rows and the ages of what they hold are as CacheInv says in
\* every reachable state.
THEOREM CacheInvariant == Spec => []CacheInv
<1>1. Init => CacheInv
  BY Inits
<1>2. CacheInv /\ [Next]_vars => CacheInv'
  BY CacheStep
<1> QED
  BY <1>1, <1>2, PTL DEF Spec

\* A request that bypasses the cache is answered from data read during it, and
\* no answer is older than two lifetimes and three runs (core/cache.py,
\* _compute_portfolio_cached).
THEOREM ServedFresh == Spec => []ServedIsFresh
<1>1. CacheInv => ServedIsFresh
  BY DEF CacheInv
<1> QED
  BY <1>1, CacheInvariant, PTL


(***************************************************************************)
(* What is served is a result of what was asked, as long as no two bodies  *)
(* that may be asked for share a dump and differ in meaning.               *)
(***************************************************************************)

\* The bodies the calls of a client compute are computable.
LEMMA TopComputable ==
  ASSUME CacheInv, OwnValues, NEW c \in Clients, calls[c] # <<>>
  PROVE  Top(c).of \in Computable
<1>1. TypeOK /\ StackFits(c) /\ request[c].of \in Portfolios
  BY DEF CacheInv, OwnValues
<1> QED
  BY <1>1, TopFacts DEF Computable

\* A step that moves on the innermost call of c keeps every value its own, if the
\* call's new value is.
LEMMA OwnMove ==
  ASSUME CacheInv, OwnValues, NEW c \in Clients, calls[c] # <<>>, NEW k \in Call,
         Moves(c, k), CallIsOwn(k), RowsAreOwn'
  PROVE  OwnValues'
<1>1. calls \in [Clients -> Seq(Call)]
  BY DEF CacheInv, TypeOK
<1>2. Last(Front(calls[c]) \o <<k>>) = k
  BY <1>1, ReplaceLast
<1>3. /\ Last(calls'[c]) = k /\ \A d \in Clients \ {c} : calls'[d] = calls[d]
      /\ served' = None /\ UNCHANGED <<request, version>>
  BY <1>1, <1>2 DEF Moves
<1>4. ASSUME NEW d \in Clients, (calls[d] # <<>>)'
      PROVE  request'[d].of \in Portfolios /\ CallIsOwn(Last(calls[d]))'
  <2>1. CASE d = c
    BY <1>3, <2>1 DEF OwnValues, CallIsOwn
  <2>2. CASE d # c
    BY <1>3, <1>4, <2>2 DEF OwnValues, CallIsOwn
  <2> QED
    BY <2>1, <2>2
<1> QED
  BY <1>3, <1>4 DEF OwnValues, ServedMatchesRequest

\* A step that leaves the table, the release and the other clients alone.
LEMMA OwnOthers ==
  ASSUME OwnValues, NEW c \in Clients, UNCHANGED <<table, version>>, served' = None,
         \A d \in Clients \ {c} : calls'[d] = calls[d] /\ request'[d] = request[d],
         calls'[c] # <<>> => /\ request'[c].of \in Portfolios
                             /\ CallIsOwn(Last(calls'[c]))
  PROVE  OwnValues'
<1>1. ASSUME NEW d \in Clients, (calls[d] # <<>>)'
      PROVE  request'[d].of \in Portfolios /\ CallIsOwn(Last(calls[d]))'
  BY <1>1 DEF OwnValues, CallIsOwn
<1> QED
  BY <1>1 DEF OwnValues, RowsAreOwn, ServedMatchesRequest

\* Of two bodies with one dump, a result of the one will do for the other.
LEMMA OneDump ==
  ASSUME NEW p \in Computable, NEW q \in Computable, Dump(p) = Dump(q),
         NEW v, IsOf(v, p)
  PROVE  IsOf(v, q)
<1>1. p \in Bodies /\ q \in Bodies
  BY PortfoliosAssumption DEF Computable, ChildOf, Bodies, Shapes
<1>2. p.shape = q.shape /\ p.body = q.body
  BY <1>1 DEF Dump, Bodies
<1>3. CASE p = q
  BY <1>3
<1>4. CASE p # q
  <2>1. p = Like(q)
    BY <1>1, <1>2, <1>4 DEF Dump, Like, Bodies
  <2>2. PICK r \in Portfolios : p = r \/ p = ChildOf(r)
    BY DEF Computable
  <2>3. [r EXCEPT !.shape = q.shape] = p
    BY <1>2, <2>2, PortfoliosAssumption DEF ChildOf, Bodies
  <2>4. p.leg \in {None, "v1"} /\ q.leg \in {None, "v1"}
    BY <1>1, <1>2, <1>4, NoneAssumption DEF Dump, Bodies
  <2>5. ToldApart(q) => q.body = "v1"
    BY <1>1, <2>1, <2>2, <2>3, <2>4, NoneAssumption DEF ToldApart, Bodies
  <2>6. q.body = "v1" => ToldApart(p) /\ Meaning(p) = Meaning(q)
    BY <1>2, <2>4, NoneAssumption DEF ToldApart, Meaning, EffectiveSource
  <2> QED
    BY <1>2, <2>5, <2>6 DEF IsOf
<1> QED
  BY <1>3, <1>4

\* Whether a body is told apart does not depend on its shape.
LEMMA ChildIsToldApart ==
  ASSUME NEW p \in Bodies, ToldApart(p)
  PROVE  ToldApart(ChildOf(p))
<1>1. ASSUME NEW r \in Bodies, NEW q \in Portfolios
      PROVE  [q EXCEPT !.shape = r.shape] = Like(r)
               <=> q.leg = (IF r.leg = "v1" THEN None ELSE "v1") /\ q.body = r.body
  BY PortfoliosAssumption DEF Like, Bodies
<1>2. ChildOf(p) \in Bodies /\ ChildOf(p).leg = p.leg /\ ChildOf(p).body = p.body
  BY DEF ChildOf, Bodies, Shapes
<1> QED
  BY <1>1, <1>2 DEF ToldApart

LEMMA OwnSelect ==
  ASSUME CacheInv, OwnValues, NEW c \in Clients, Select(c)
  PROVE  OwnValues'
<1> DEFINE k == Key(Top(c).of)
<1>1. /\ TypeOK /\ StackFits(c) /\ calls[c] # <<>> /\ UNCHANGED table
      /\ Top(c).of \in Computable
  BY TopComputable DEF CacheInv, Select, At
<1>2. RowsAreOwn'
  BY <1>1 DEF OwnValues, RowsAreOwn
<1>3. ASSUME NEW p \in {"compute", "expire"}, Goto(c, p, None) PROVE OwnValues'
  <2> DEFINE x == Moved(c, p, None)
  <2>1. x \in Call /\ Moves(c, x) /\ x.phase = p
    BY <1>1, <1>3, GotoMoves DEF Phases
  <2> HIDE DEF x
  <2> QED
    BY <1>1, <1>2, <1>3, <2>1, OwnMove DEF CallIsOwn
<1>4. ASSUME k \in DOMAIN table, Goto(c, "touch", table[k].value) PROVE OwnValues'
  <2> DEFINE v == table[k].value
             x == Moved(c, "touch", v)
  <2>1. v.ver = version /\ IsOf(v, Top(c).of)
    BY <1>1, <1>4 DEF OwnValues, RowsAreOwn, Key
  <2>2. v \in Results
    BY <1>1, <1>4, RowFacts
  <2>3. x \in Call /\ Moves(c, x) /\ x.of = Top(c).of /\ x.value = v
    BY <1>1, <1>4, <2>2, GotoMoves DEF Phases
  <2> HIDE DEF x, v, k
  <2> QED
    BY <1>1, <1>2, <2>1, <2>3, OwnMove DEF CallIsOwn
<1> QED
  BY <1>3, <1>4 DEF Select

LEMMA OwnTouch ==
  ASSUME CacheInv, OwnValues, NEW c \in Clients, Touch(c)
  PROVE  OwnValues'
<1> DEFINE x == Moved(c, "done", Top(c).value)
           k == Key(Top(c).of)
<1>1. /\ TypeOK /\ StackFits(c) /\ calls[c] # <<>> /\ Top(c).phase = "touch"
      /\ Goto(c, "done", Top(c).value) /\ CallIsOwn(Top(c)) /\ Top(c) \in Call
  BY TopFacts DEF CacheInv, OwnValues, Touch, At, Top
<1>2. x \in Call /\ Moves(c, x) /\ x.of = Top(c).of /\ x.value = Top(c).value
  BY <1>1, GotoMoves DEF Phases, Call
<1>3. /\ DOMAIN table' = DOMAIN table
      /\ \A j \in DOMAIN table' : table'[j].value = table[j].value
  <2>1. table' = IF k \in DOMAIN table THEN [table EXCEPT ![k].last = now] ELSE table
    BY DEF Touch
  <2>2. table \in [DOMAIN table -> Row]
    BY <1>1 DEF TypeOK
  <2> HIDE DEF k
  <2> QED
    BY <2>1, <2>2 DEF Row
<1>4. RowsAreOwn'
  BY <1>3 DEF OwnValues, RowsAreOwn
<1> HIDE DEF x
<1>5. CallIsOwn(x)
  BY <1>1, <1>2 DEF CallIsOwn
<1> QED
  BY <1>1, <1>2, <1>4, <1>5, OwnMove

LEMMA OwnExpire ==
  ASSUME CacheInv, OwnValues, NEW c \in Clients, Expire(c)
  PROVE  OwnValues'
<1> DEFINE x == Moved(c, "compute", None)
<1>1. TypeOK /\ StackFits(c) /\ calls[c] # <<>> /\ Goto(c, "compute", None)
  BY DEF CacheInv, Expire, At
<1>2. x \in Call /\ Moves(c, x) /\ x.phase = "compute"
  BY <1>1, GotoMoves DEF Phases
<1>3. RowsAreOwn'
  BY DEF OwnValues, RowsAreOwn, Expire, Without
<1> HIDE DEF x
<1> QED
  BY <1>1, <1>2, <1>3, OwnMove DEF CallIsOwn

LEMMA OwnCompute ==
  ASSUME CacheInv, OwnValues, NEW c \in Clients, Compute(c)
  PROVE  OwnValues'
<1> DEFINE p == IF Top(c).cached THEN "put" ELSE "done"
           v == Result(Top(c).of, EffectiveSource(Top(c).of), now)
           x == Moved(c, p, v)
<1>1. /\ TypeOK /\ StackFits(c) /\ calls[c] # <<>> /\ Goto(c, p, v) /\ UNCHANGED table
      /\ now \in 0..MaxNow /\ Top(c).of \in Bodies
  BY TopFacts DEF CacheInv, Compute, Computed, At, TypeOK, Call
<1>2. v \in Results /\ v.of = Meaning(Top(c).of) /\ v.ver = version /\ p \in Phases
  <2>1. EffectiveSource(Top(c).of) \in {"v1", "v2"} /\ p \in Phases
    BY <1>1, BodyTypes DEF Phases
  <2> QED
    BY <1>1, <2>1, ResultTypes DEF Meaning
<1>3. x \in Call /\ Moves(c, x) /\ x.of = Top(c).of /\ x.value = v
  BY <1>1, <1>2, GotoMoves
<1>4. RowsAreOwn'
  BY <1>1 DEF OwnValues, RowsAreOwn
<1> HIDE DEF x, v
<1>5. CallIsOwn(x)
  BY <1>2, <1>3 DEF CallIsOwn, IsOf, Meaning
<1> QED
  BY <1>1, <1>3, <1>4, <1>5, OwnMove

LEMMA OwnPut ==
  ASSUME CacheInv, OwnValues, NEW c \in Clients, Put(c)
  PROVE  OwnValues'
<1> DEFINE x == Moved(c, "done", Top(c).value)
           k == Key(Top(c).of)
           row == [value |-> Top(c).value, created |-> now, last |-> now]
           t == [j \in DOMAIN table \cup {k} |-> IF j = k THEN row ELSE table[j]]
<1>1. /\ TypeOK /\ StackFits(c) /\ calls[c] # <<>> /\ Top(c).phase = "put"
      /\ Goto(c, "done", Top(c).value) /\ CallIsOwn(Top(c)) /\ Top(c) \in Call
      /\ Top(c).of \in Computable /\ table' \in Evicted(t)
  BY TopFacts, TopComputable DEF CacheInv, OwnValues, Put, At, Top
<1>2. x \in Call /\ Moves(c, x) /\ x.of = Top(c).of /\ x.value = Top(c).value
  BY <1>1, GotoMoves DEF Phases, Call
<1>3. /\ IsOf(row.value, Top(c).of) /\ row.value.ver = k.version
      /\ k.body = Dump(Top(c).of)
  BY <1>1 DEF CallIsOwn, Key
<1>4. /\ DOMAIN table' \subseteq DOMAIN table \cup {k}
      /\ \A j \in DOMAIN table' : table'[j] = IF j = k THEN row ELSE table[j]
  BY <1>1, EvictedRows
<1> HIDE DEF x, k, row, t
<1>5. RowsAreOwn'
  <2> SUFFICES ASSUME NEW j \in DOMAIN table'
               PROVE  /\ table'[j].value.ver = j.version
                      /\ \A p \in Computable : j.body = Dump(p) => IsOf(table'[j].value, p)
    BY DEF RowsAreOwn
  <2>1. CASE j = k
    BY <1>1, <1>3, <1>4, <2>1, OneDump
  <2>2. CASE j # k
    BY <1>4, <2>2 DEF OwnValues, RowsAreOwn
  <2> QED
    BY <2>1, <2>2
<1>6. CallIsOwn(x)
  BY <1>1, <1>2 DEF CallIsOwn
<1> QED
  BY <1>1, <1>2, <1>5, <1>6, OwnMove

LEMMA OwnAsked ==
  ASSUME CacheInv, OwnValues, NEW c \in Clients, NEW p \in Portfolios,
         NEW useCache \in BOOLEAN, NEW childCache \in BOOLEAN, NEW compute \in BOOLEAN,
         Asked(c, p, useCache, childCache, compute)
  PROVE  OwnValues'
<1> DEFINE k == NewCall(p, useCache)
<1>1. k.phase \in {"select", "compute"}
  BY DEF NewCall
<1>2. calls \in [Clients -> Seq(Call)] /\ request \in [Clients -> Requests \cup {None}]
  BY DEF CacheInv, TypeOK
<1>3. /\ calls'[c] = <<k>> /\ request'[c].of = p
      /\ \A d \in Clients \ {c} : calls'[d] = calls[d] /\ request'[d] = request[d]
      /\ served' = None /\ UNCHANGED <<table, version>>
  BY <1>2 DEF Asked
<1> HIDE DEF k
<1>4. Last(<<k>>) = k /\ CallIsOwn(k)
  BY <1>1 DEF Last, CallIsOwn
<1> QED
  BY <1>3, <1>4, OwnOthers

LEMMA OwnCallChild ==
  ASSUME CacheInv, OwnValues, NEW c \in Clients, CallChild(c)
  PROVE  OwnValues'
<1> DEFINE parent == [Top(c) EXCEPT !.phase = "child"]
           k == NewCall(ChildOf(Top(c).of), ChildFlag(Top(c).cached, request[c].childCache))
<1>1. /\ TypeOK /\ StackFits(c) /\ calls[c] # <<>> /\ Top(c).of.shape = "composed"
      /\ request[c].of \in Portfolios
  BY DEF CacheInv, CallChild, At, OwnValues
<1>2. Len(calls[c]) = 1
  BY <1>1, TopFacts
<1>3. calls' = [calls EXCEPT ![c] = Front(calls[c]) \o <<parent, k>>]
      /\ served' = None /\ UNCHANGED <<table, request, version>>
  BY DEF CallChild
<1>4. k.phase \in {"select", "compute"}
  BY DEF NewCall
<1>5. Front(calls[c]) = <<>>
  BY <1>2 DEF Front
<1> HIDE DEF parent, k
<1>6. /\ calls'[c] = <<parent, k>>
      /\ \A d \in Clients \ {c} : calls'[d] = calls[d] /\ request'[d] = request[d]
  BY <1>1, <1>3, <1>5, ConcatEmptySeq DEF TypeOK
<1>7. Last(<<parent, k>>) = k /\ CallIsOwn(k)
  BY <1>4 DEF Last, CallIsOwn
<1> QED
  BY <1>1, <1>3, <1>6, <1>7, OwnOthers

LEMMA OwnChildReturns ==
  ASSUME CacheInv, OwnValues, NEW c \in Clients, ChildReturns(c)
  PROVE  OwnValues'
<1> DEFINE parent == calls[c][1]
           p == IF parent.cached THEN "put" ELSE "done"
           v == Result(parent.of, Top(c).value.of[2], Top(c).value.read)
           x == [parent EXCEPT !.phase = p, !.value = v]
<1>1. /\ TypeOK /\ StackFits(c) /\ calls[c] # <<>> /\ Len(calls[c]) = 2
      /\ request[c].of \in Portfolios /\ calls[c] \in Seq(Call)
  BY DEF CacheInv, ChildReturns, At, OwnValues, TypeOK
<1>2. parent \in Call
  BY <1>1, ElementOfSeq
<1>3. IsOf(v, parent.of) /\ v.ver = version
  <2>1. Top(c).of = ChildOf(parent.of) /\ parent.of \in Bodies
    BY <1>1, <1>2 DEF StackFits, Top, Last, Call
  <2>2. Top(c).phase = "done" /\ CallIsOwn(Top(c))
    BY <1>1 DEF ChildReturns, At, OwnValues, Top
  <2>3. IsOf(Top(c).value, ChildOf(parent.of))
    BY <2>1, <2>2 DEF CallIsOwn
  <2>4. v.of = <<parent.of.shape, Top(c).value.of[2]>> /\ v.ver = version
    BY DEF Result
  <2> HIDE DEF v, parent
  <2>5. ASSUME ToldApart(parent.of) PROVE v.of = Meaning(parent.of)
    <3>1. ToldApart(ChildOf(parent.of))
      BY <2>1, <2>5, ChildIsToldApart
    <3>2. Top(c).value.of = Meaning(ChildOf(parent.of))
      BY <2>3, <3>1 DEF IsOf
    <3> QED
      BY <2>1, <2>4, <3>2 DEF Meaning, EffectiveSource, ChildOf, Bodies
  <2> QED
    BY <2>4, <2>5 DEF IsOf
<1>4. /\ calls' = [calls EXCEPT ![c] = <<x>>]
      /\ served' = None /\ UNCHANGED <<table, request, version>>
  BY DEF ChildReturns
<1>5. x.of = parent.of /\ x.value = v
  <2> HIDE DEF v, p, parent
  <2> QED
    BY <1>2 DEF Call
<1>6. CallIsOwn(x)
  <2> HIDE DEF v, p, parent, x
  <2> QED
    BY <1>3, <1>5 DEF CallIsOwn
<1> HIDE DEF x, v, p, parent
<1>7. /\ calls'[c] = <<x>>
      /\ \A d \in Clients \ {c} : calls'[d] = calls[d] /\ request'[d] = request[d]
  BY <1>1, <1>4 DEF TypeOK
<1>8. Last(<<x>>) = x
  BY DEF Last
<1> QED
  BY <1>1, <1>4, <1>6, <1>7, <1>8, OwnOthers

LEMMA OwnServe ==
  ASSUME CacheInv, OwnValues, NEW c \in Clients, Serve(c)
  PROVE  OwnValues'
<1>1. /\ TypeOK /\ StackFits(c) /\ calls[c] # <<>> /\ Len(calls[c]) = 1
      /\ Top(c).phase = "done" /\ CallIsOwn(Top(c))
      /\ UNCHANGED <<table, version>>
  BY DEF CacheInv, OwnValues, Serve, At, Top
<1>2. Top(c).of = request[c].of
  BY <1>1, TopFacts
<1>3. served'.request = request[c] /\ served'.value = Top(c).value
  BY DEF Serve
<1>4. ServedMatchesRequest'
  BY <1>1, <1>2, <1>3 DEF ServedMatchesRequest, CallIsOwn, IsOf, ToldApart
<1>5. /\ calls'[c] = <<>>
      /\ \A d \in Clients \ {c} : calls'[d] = calls[d] /\ request'[d] = request[d]
  BY <1>1 DEF TypeOK, Serve
<1>6. ASSUME NEW d \in Clients, (calls[d] # <<>>)'
      PROVE  request'[d].of \in Portfolios /\ CallIsOwn(Last(calls[d]))'
  BY <1>1, <1>5, <1>6 DEF OwnValues, CallIsOwn
<1>7. RowsAreOwn'
  BY <1>1 DEF OwnValues, RowsAreOwn
<1> QED
  BY <1>4, <1>6, <1>7 DEF OwnValues

LEMMA OwnStep ==
  ASSUME CacheInv, OwnValues, [Next]_vars
  PROVE  OwnValues'
<1>1. ASSUME NEW c \in Clients, Ask(c) \/ Show(c) PROVE OwnValues'
  BY <1>1, OwnAsked DEF Ask, Show
<1>2. ASSUME NEW c \in Clients, Fail(c) PROVE OwnValues'
  <2>1. /\ calls'[c] = <<>>
        /\ \A d \in Clients \ {c} : calls'[d] = calls[d] /\ request'[d] = request[d]
    BY <1>2 DEF Fail, CacheInv, TypeOK
  <2> QED
    BY <1>2, <2>1, OwnOthers DEF Fail
<1>3. ASSUME NEW c \in Clients, Step(c) PROVE OwnValues'
  BY <1>2, <1>3, OwnSelect, OwnTouch, OwnExpire, OwnCompute, OwnCallChild,
     OwnChildReturns, OwnPut, OwnServe DEF Step
<1>4. CASE Clear
  <2>1. ASSUME NEW d \in Clients, (calls[d] # <<>>)'
        PROVE  request'[d].of \in Portfolios /\ CallIsOwn(Last(calls[d]))'
    BY <1>4, <2>1 DEF Clear, OwnValues, CallIsOwn
  <2> QED
    BY <1>4, <2>1 DEF Clear, OwnValues, RowsAreOwn, ServedMatchesRequest
<1>5. CASE Restart
  BY <1>5 DEF Restart, OwnValues, RowsAreOwn, ServedMatchesRequest
<1>6. CASE Tick \/ UNCHANGED vars
  <2>1. /\ UNCHANGED <<table, calls, request, version>>
        /\ served' = None \/ UNCHANGED served
    BY <1>6 DEF Tick, vars
  <2>2. ASSUME NEW d \in Clients, (calls[d] # <<>>)'
        PROVE  request'[d].of \in Portfolios /\ CallIsOwn(Last(calls[d]))'
    BY <2>1, <2>2 DEF OwnValues, CallIsOwn
  <2> QED
    BY <2>1, <2>2 DEF OwnValues, RowsAreOwn, ServedMatchesRequest
<1> QED
  BY <1>1, <1>3, <1>4, <1>5, <1>6 DEF Next

\* Of two bodies that ToldApart excepts the one reads v1, the other v2, under one
\* key: the exception is no wider than it must be.
LEMMA OverriddenDefaultsCollide ==
  ASSUME NEW p \in Bodies, p.body = "v2", p.leg # "v2"
  PROVE  Dump(p) = Dump(Like(p)) /\ Meaning(p) # Meaning(Like(p))
BY NoneAssumption DEF Dump, Like, Meaning, EffectiveSource, Bodies

\* An answer is a result of what was asked, computed by the release that answers
\* (_portfolio_cache_key); of the warehouse that was asked, unless the one other body
\* with the same dump is in use as well.
THEOREM ServedMatches == Spec => []ServedMatchesRequest
<1>1. Init => OwnValues
  BY DEF Init, OwnValues, RowsAreOwn, ServedMatchesRequest
<1>2. CacheInv /\ OwnValues /\ [Next]_vars => OwnValues'
  BY OwnStep
<1>3. OwnValues => ServedMatchesRequest
  BY DEF OwnValues
<1> QED
  BY <1>1, <1>2, <1>3, CacheInvariant, PTL DEF Spec

=============================================================================
