-------------------------- MODULE SignalRulesProofs --------------------------
(***************************************************************************)
(* The running counters of a signal's conditions mean what the dataclasses *)
(* of types/signal.py say, for every signal, market and number of days;    *)
(* and a THEN-chain, one candidate per block, never fires spuriously.      *)
(***************************************************************************)
EXTENDS SignalRules, ChainAutomaton, FiniteSetTheorems, SequenceTheorems, WellFoundedInduction, TLAPS

(***************************************************************************)
(* Induction over the bars.                                                *)
(***************************************************************************)

\* A set of bars that holds bar 0 and the next bar of each of its bars holds all;
\* the least bar outside it would be the next of one inside.
LEMMA BarInduction ==
  ASSUME NEW n \in Nat, NEW P, 0 \in P, \A t \in 1..n : t - 1 \in P => t \in P
  PROVE  \A t \in 0..n : t \in P
<1> DEFINE R == OpToRel(<, Nat)
           Q == (0..n) \ P
<1>1. IsWellFoundedOn(R, Nat)
  BY NatLessThanWellFounded
<1>2. \A i, j \in Nat : i < j => <<i, j>> \in R
  BY DEF OpToRel
<1>3. Q \subseteq Nat
  OBVIOUS
<1> HIDE DEF R
<1>4. SUFFICES ASSUME Q # {} PROVE FALSE
  OBVIOUS
<1>5. PICK m \in Q : \A k \in Q : <<k, m>> \notin R
  BY <1>1, <1>3, <1>4, WFMin
<1>6. m \in 1..n /\ m - 1 \in 0..n /\ m - 1 \notin Q
  <2>1. m \in 1..n /\ m - 1 \in Nat /\ m \in Nat /\ m - 1 < m
    BY m # 0
  <2>2. <<m - 1, m>> \in R
    BY <1>2, <2>1
  <2> QED
    BY <1>5, <2>1, <2>2
<1> QED
  BY <1>5, <1>6

\* The states of A that a step function on states and bars passes through from a.
IsPath(H, n, A, a, G) ==
  H \in [0..n -> A] /\ H[0] = a /\ \A t \in 1..n : H[t] = G[<<H[t - 1], t>>]

\* There is one, by the step function on the path to the bar before.
LEMMA PathExists ==
  ASSUME NEW n \in Nat, NEW A, NEW a \in A, NEW G \in [A \X (1..n) -> A]
  PROVE  \E H : IsPath(H, n, A, a, G)
<1> DEFINE Runs(m) == {H \in [0..m -> A] : H[0] = a /\ \A t \in 1..m : H[t] = G[<<H[t - 1], t>>]}
           P == {m \in 0..n : Runs(m) # {}}
<1>1. 0 \in P
  <2>1. [t \in 0..0 |-> a] \in Runs(0)
    OBVIOUS
  <2> QED
    BY <2>1
<1>2. ASSUME NEW m \in 1..n, m - 1 \in P
      PROVE  m \in P
  <2>1. PICK H \in Runs(m - 1) : TRUE
    BY <1>2
  <2> DEFINE J == [t \in 0..m |-> IF t = m THEN G[<<H[m - 1], m>>] ELSE H[t]]
  <2>2. J \in [0..m -> A]
    <3>1. \A t \in 0..m : t # m => t \in 0..(m - 1)
      OBVIOUS
    <3>2. m - 1 \in 0..(m - 1)
      OBVIOUS
    <3> QED
      BY <2>1, <3>1, <3>2
  <2>3. J[0] = a
    BY <2>1
  <2>4. ASSUME NEW t \in 1..m
        PROVE  J[t] = G[<<J[t - 1], t>>]
    <3>1. CASE t = m
      BY <3>1
    <3>2. CASE t # m
      <4>1. t \in 1..(m - 1) /\ t - 1 # m
        BY <3>2
      <4>2. J[t] = H[t] /\ J[t - 1] = H[t - 1]
        BY <4>1
      <4> QED
        BY <2>1, <4>1, <4>2
    <3> QED
      BY <3>1, <3>2
  <2> HIDE DEF J
  <2>5. J \in Runs(m)
    BY <2>2, <2>3, <2>4
  <2> QED
    BY <2>5
<1> HIDE DEF P
<1>3. n \in P
  BY <1>1, <1>2, BarInduction
<1> QED
  BY <1>3 DEF P, IsPath

(***************************************************************************)
(* How many bars of a stretch are true.                                    *)
(***************************************************************************)

\* The true bars of a stretch, B being the true bars of all.
Within(B, s, t) == {b \in s..t : b \in B}

\* A bar more in a stretch is one true bar more at most.
LEMMA CountStep ==
  ASSUME NEW B, NEW s \in Nat, NEW t \in Nat, s <= t
  PROVE  /\ IsFiniteSet(Within(B, s, t - 1)) /\ Cardinality(Within(B, s, t - 1)) \in Nat
         /\ Cardinality(Within(B, s, t))
              = Cardinality(Within(B, s, t - 1)) + (IF t \in B THEN 1 ELSE 0)
<1>1. IsFiniteSet(Within(B, s, t - 1))
  <2>1. IsFiniteSet(s..(t - 1))
    BY FS_Interval, s \in Int, t - 1 \in Int
  <2>2. Within(B, s, t - 1) \in SUBSET (s..(t - 1))
    BY DEF Within
  <2> QED
    BY <2>1, <2>2, FS_Subset
<1>2. Cardinality(Within(B, s, t - 1)) \in Nat
  BY <1>1, FS_CardinalityType
<1>3. CASE t \in B
  <2>1. Within(B, s, t) = Within(B, s, t - 1) \cup {t} /\ t \notin Within(B, s, t - 1)
    BY <1>3 DEF Within
  <2> QED
    BY <1>1, <1>2, <1>3, <2>1, FS_AddElement
<1>4. CASE t \notin B
  <2>1. Within(B, s, t) = Within(B, s, t - 1)
    BY <1>4 DEF Within
  <2> QED
    BY <1>1, <1>2, <1>4, <2>1
<1> QED
  BY <1>1, <1>2, <1>3, <1>4

\* The prefix sums count the true bars.
LEMMA TallyCounts ==
  ASSUME NEW n \in Nat, NEW f, f \in [1..n -> BOOLEAN]
  PROVE  \A t \in 0..n : /\ Tally(f)[t] \in Nat
                         /\ Tally(f)[t] = Cardinality({b \in 1..t : f[b]})
<1> DEFINE Sums(S) == S = [t \in 0..n |-> IF t = 0 THEN 0 ELSE S[t - 1] + (IF f[t] THEN 1 ELSE 0)]
           G == [x \in Nat \X (1..n) |-> x[1] + (IF f[x[2]] THEN 1 ELSE 0)]
           S == CHOOSE S : Sums(S)
           B == {b \in 1..n : f[b]}
           P == {t \in 0..n : S[t] \in Nat /\ S[t] = Cardinality(Within(B, 1, t))}
<1>1. Len(f) = n
  BY f \in Seq(BOOLEAN)
<1>2. Tally(f) = S
  BY <1>1 DEF Tally
<1>3. Sums(S)
  <2> DEFINE A == Nat
  <2>1. G \in [A \X (1..n) -> A] /\ 0 \in A
    OBVIOUS
  <2> HIDE DEF G, A
  <2>2. PICK H : IsPath(H, n, A, 0, G)
    BY <2>1, PathExists
  <2>3. \A t \in 1..n : H[t] = H[t - 1] + (IF f[t] THEN 1 ELSE 0)
    <3>1. \A t \in 1..n : t - 1 \in 0..n
      OBVIOUS
    <3> QED
      BY <2>2, <3>1 DEF IsPath, G, A
  <2>4. Sums(H)
    BY <2>2, <2>3 DEF IsPath
  <2> QED
    BY <2>4
<1>4. S[0] = 0 /\ \A t \in 1..n : S[t] = S[t - 1] + (IF f[t] THEN 1 ELSE 0)
  <2>1. \A t \in 0..n : S[t] = IF t = 0 THEN 0 ELSE S[t - 1] + (IF f[t] THEN 1 ELSE 0)
    BY <1>3
  <2> QED
    BY <2>1
<1> HIDE DEF S
<1>5. 0 \in P
  <2>1. Within(B, 1, 0) = {}
    BY DEF Within
  <2>2. Cardinality(Within(B, 1, 0)) = 0
    BY <2>1, FS_EmptySet
  <2> QED
    BY <1>4, <2>2
<1>6. ASSUME NEW t \in 1..n, t - 1 \in P
      PROVE  t \in P
  <2>1. t \in B <=> f[t]
    OBVIOUS
  <2> HIDE DEF B
  <2>2. Cardinality(Within(B, 1, t))
          = Cardinality(Within(B, 1, t - 1)) + (IF t \in B THEN 1 ELSE 0)
    BY CountStep, 1 \in Nat, t \in Nat, 1 <= t
  <2> QED
    BY <1>4, <1>6, <2>1, <2>2
<1>7. \A t \in 0..n : t \in P
  <2> HIDE DEF P
  <2> QED
    BY <1>5, <1>6, BarInduction
<1>8. ASSUME NEW t \in 0..n
      PROVE  Within(B, 1, t) = {b \in 1..t : f[b]}
  BY DEF Within
<1> QED
  BY <1>2, <1>7, <1>8

\* The difference of two prefix sums counts the true bars between them.
LEMMA TallyBetween ==
  ASSUME NEW n \in Nat, NEW f, f \in [1..n -> BOOLEAN], NEW t \in 0..n, NEW s \in 0..t
  PROVE  Tally(f)[t] - Tally(f)[s] = Cardinality({b \in (s + 1)..t : f[b]})
<1> DEFINE X == {b \in 1..s : f[b]}
           Y == {b \in (s + 1)..t : f[b]}
<1>1. IsFiniteSet(1..s) /\ IsFiniteSet((s + 1)..t)
  BY FS_Interval, 1 \in Int, s \in Int, s + 1 \in Int, t \in Int
<1>2. IsFiniteSet(X) /\ IsFiniteSet(Y)
  BY <1>1, FS_Subset, X \in SUBSET (1..s), Y \in SUBSET ((s + 1)..t)
<1>3. {b \in 1..t : f[b]} = X \cup Y /\ X \cap Y = {}
  OBVIOUS
<1>4. Tally(f)[t] = Cardinality(X \cup Y) /\ Tally(f)[s] = Cardinality(X)
  BY <1>3, TallyCounts, s \in 0..n
<1>5. Tally(f)[t] - Tally(f)[s] = Cardinality(Y)
  <2> HIDE DEF X, Y
  <2>1. Cardinality(X) \in Nat /\ Cardinality(Y) \in Nat
    BY <1>2, FS_CardinalityType
  <2>2. Cardinality(X \cap Y) = 0
    BY <1>3, FS_EmptySet
  <2>3. Cardinality(X \cup Y) = Cardinality(X) + Cardinality(Y) - Cardinality(X \cap Y)
    BY <1>2, FS_Union
  <2> QED
    BY <1>4, <2>1, <2>2, <2>3
<1> QED
  BY <1>5

(***************************************************************************)
(* The counters.                                                           *)
(***************************************************************************)

\* _consecutive_true: a bar ends a run of k bars if and only if the k bars are there
\* and are all true.
LEMMA ConsecutiveMeans ==
  ASSUME NEW n \in Nat, NEW f, f \in [1..n -> BOOLEAN], NEW k \in Nat \ {0}, NEW t \in 1..n
  PROVE  Consecutive(f, k)[t] <=> t >= k /\ \A b \in (t - k + 1)..t : f[b]
<1>1. CASE k = 1
  BY <1>1 DEF Consecutive
<1> DEFINE Runs == [x \in DOMAIN f |-> x >= k /\ Tally(f)[x] - Tally(f)[x - k] = k]
<1>2. k # 1 => Consecutive(f, k) = Runs
  BY DEF Consecutive
<1>3. Runs[t] <=> t >= k /\ Tally(f)[t] - Tally(f)[t - k] = k
  OBVIOUS
<1> HIDE DEF Runs
<1>4. CASE k # 1 /\ t < k
  BY <1>4, <1>2, <1>3
<1>5. CASE k # 1 /\ t >= k
  <2> DEFINE I == (t - k + 1)..t
             Y == {b \in I : f[b]}
  <2>1. Consecutive(f, k)[t] <=> Tally(f)[t] - Tally(f)[t - k] = k
    BY <1>5, <1>2, <1>3
  <2>2. t - k \in 0..t /\ t \in 0..n /\ (t - k) + 1 = t - k + 1
    BY <1>5
  <2>3. Tally(f)[t] - Tally(f)[t - k] = Cardinality(Y)
    BY <2>2, TallyBetween
  <2>4. IsFiniteSet(I) /\ Cardinality(I) = k
    BY <2>2, FS_Interval, t - k + 1 \in Int, t \in Int
  <2>5. Cardinality(Y) = k <=> Y = I
    BY <2>4, FS_Subset, Y \in SUBSET I
  <2>6. Y = I <=> \A b \in I : f[b]
    OBVIOUS
  <2> QED
    BY <1>5, <2>1, <2>3, <2>5, <2>6
<1> QED
  BY <1>1, <1>4, <1>5

\* The count of crossings in a window: the window is cut at the first bar.
LEMMA WindowedMeans ==
  ASSUME NEW n \in Nat, NEW f, f \in [1..n -> BOOLEAN],
         NEW w \in Nat \ {0}, NEW k \in Int, NEW t \in 1..n
  PROVE  Windowed(f, w, k)[t] <=> Cardinality({b \in 1..t : t - b < w /\ f[b]}) >= k
<1> DEFINE s == Max({0, t - w})
<1>1. s \in 0..t /\ s >= t - w /\ (s = 0 \/ s = t - w)
  <2>1. \E x \in {0, t - w} : \A y \in {0, t - w} : x >= y
    BY 0 >= t - w \/ t - w >= 0
  <2>2. s \in {0, t - w} /\ \A y \in {0, t - w} : s >= y
    BY <2>1 DEF Max
  <2> HIDE DEF s
  <2> QED
    BY <2>2
<1>2. Tally(f)[t] - Tally(f)[s] = Cardinality({b \in (s + 1)..t : f[b]})
  <2> HIDE DEF s
  <2> QED
    BY <1>1, TallyBetween, t \in 0..n
<1>3. {b \in (s + 1)..t : f[b]} = {b \in 1..t : t - b < w /\ f[b]}
  <2> HIDE DEF s
  <2> QED
    BY <1>1
<1> QED
  BY <1>2, <1>3 DEF Windowed

\* The bar a count runs from: the last reset, or the first bar.
Since(reset, t) == Max({1} \cup {b \in 1..t : reset[b]})

\* It moves to the bar of a reset and nowhere else.
LEMMA SinceMoves ==
  ASSUME NEW n \in Nat, NEW reset
  PROVE  /\ Since(reset, 0) = 1
         /\ \A t \in 1..n : /\ Since(reset, t - 1) \in 1..t
                            /\ Since(reset, t) = IF reset[t] THEN t ELSE Since(reset, t - 1)
<1> DEFINE S(t) == {1} \cup {b \in 1..t : reset[b]}
           IsMost(x, t) == x \in S(t) /\ \A y \in S(t) : x >= y
           P == {t \in 0..n : \E x : IsMost(x, t)}
<1>1. \A t \in Nat : S(t) \subseteq Nat
  OBVIOUS
<1>2. \A t \in 0..n : \A x : IsMost(x, t) => Since(reset, t) = x
  BY <1>1 DEF Since, Max
<1>3. ASSUME NEW t \in 1..n, reset[t]
      PROVE  IsMost(t, t)
  BY <1>3
<1>4. ASSUME NEW t \in 1..n, ~reset[t]
      PROVE  S(t) = S(t - 1)
  BY <1>4
<1>5. IsMost(1, 0)
  OBVIOUS
<1>6. \A t \in 0..n : t \in P
  <2>1. 0 \in P
    BY <1>5
  <2>2. ASSUME NEW t \in 1..n, t - 1 \in P
        PROVE  t \in P
    BY <1>3, <1>4, <2>2
  <2> HIDE DEF P
  <2> QED
    BY <2>1, <2>2, BarInduction
<1>7. Since(reset, 0) = 1
  BY <1>2, <1>5
<1>8. ASSUME NEW t \in 1..n
      PROVE  Since(reset, t - 1) \in 1..t
  <2>1. PICK x : IsMost(x, t - 1)
    BY <1>6, t - 1 \in 0..n
  <2> QED
    BY <1>2, <2>1, t - 1 \in 0..n
<1>9. ASSUME NEW t \in 1..n
      PROVE  Since(reset, t) = IF reset[t] THEN t ELSE Since(reset, t - 1)
  <2>1. CASE reset[t]
    BY <1>2, <1>3, <2>1
  <2>2. CASE ~reset[t]
    BY <1>4, <2>2 DEF Since
  <2> QED
    BY <2>1, <2>2
<1> QED
  BY <1>7, <1>8, <1>9

\* One bar of _cross_since_reset.
CountBar(f, reset, k, was, t) ==
  LET before == IF reset[t] THEN 0 ELSE was.seen
      now == before + (IF f[t] THEN 1 ELSE 0)
      out == f[t] /\ now >= k
  IN [seen |-> IF out THEN 0 ELSE now, out |-> out]

\* The bars' counts, one after the other.
IsCount(C, n, f, reset, k) ==
  /\ C[0] = [seen |-> 0, out |-> FALSE]
  /\ \A t \in 1..n : C[t] = CountBar(f, reset, k, C[t - 1], t)

\* There are such counts, and they are those of _cross_since_reset.
LEMMA SinceResetRuns ==
  ASSUME NEW n \in Nat, NEW f, f \in [1..n -> BOOLEAN], NEW reset, NEW k \in Nat
  PROVE  \E C : IsCount(C, n, f, reset, k) /\ SinceReset(f, reset, k) = [t \in 1..n |-> C[t].out]
<1> DEFINE Start == [seen |-> 0, out |-> FALSE]
           A == [seen: Nat, out: BOOLEAN]
           G == [x \in A \X (1..n) |-> CountBar(f, reset, k, x[1], x[2])]
           Runs(C) == C = [t \in 0..n |-> IF t = 0 THEN Start
                                         ELSE CountBar(f, reset, k, C[t - 1], t)]
           C == CHOOSE C : Runs(C)
<1>1. Len(f) = n /\ DOMAIN f = 1..n
  BY f \in Seq(BOOLEAN)
<1>2. SinceReset(f, reset, k) = [t \in 1..n |-> C[t].out]
  BY <1>1 DEF SinceReset, CountBar
<1>3. Runs(C)
  <2>1. ASSUME NEW was \in A, NEW t \in 1..n
        PROVE  CountBar(f, reset, k, was, t) \in A
    BY DEF CountBar
  <2>2. G \in [A \X (1..n) -> A] /\ Start \in A
    BY <2>1
  <2>3. \A was \in A, t \in 1..n : G[<<was, t>>] = CountBar(f, reset, k, was, t)
    OBVIOUS
  <2> HIDE DEF G, A, Start
  <2>4. PICK H : IsPath(H, n, A, Start, G)
    BY <2>2, PathExists
  <2>5. \A t \in 1..n : t - 1 \in 0..n
    OBVIOUS
  <2>6. \A t \in 1..n : H[t] = CountBar(f, reset, k, H[t - 1], t)
    BY <2>3, <2>4, <2>5 DEF IsPath
  <2>7. Runs(H)
    BY <2>4, <2>6 DEF IsPath
  <2> QED
    BY <2>7
<1> HIDE DEF C
<1>4. C[0] = Start /\ \A t \in 1..n : C[t] = CountBar(f, reset, k, C[t - 1], t)
  <2> HIDE DEF Start
  <2>1. \A t \in 0..n : C[t] = IF t = 0 THEN Start ELSE CountBar(f, reset, k, C[t - 1], t)
    BY <1>3
  <2> QED
    BY <2>1
<1>5. IsCount(C, n, f, reset, k)
  BY <1>4 DEF IsCount
<1> QED
  BY <1>2, <1>5

\* A count of q whole rounds of k and r more has remainder r.
LEMMA RemainderIs ==
  ASSUME NEW k \in Nat \ {0}, NEW q \in Int, NEW r \in 0..(k - 1), NEW y, y = (k * q) + r
  PROVE  y % k = r
<1>1. \A x \in Int : x % k \in 0..(k - 1) /\ x \div k \in Int /\ x = (k * (x \div k)) + (x % k)
  BY SMTT(60)
<1> QED
  BY SMTT(60)

\* What one crossing more does to the remainder of a count.
LEMMA Remainders ==
  ASSUME NEW k \in Nat \ {0}, NEW x \in Nat
  PROVE  /\ x % k \in 0..(k - 1) /\ 0 % k = 0
         /\ (x % k) + 1 < k => (x + 1) % k = (x % k) + 1
         /\ (x % k) + 1 >= k => (x + 1) % k = 0
<1> DEFINE q == x \div k
           r == x % k
           y == x + 1
<1>1. q \in Int /\ r \in 0..(k - 1) /\ x = (k * q) + r
  BY SMTT(60)
<1>2. 0 % k = 0
  BY RemainderIs, 0 = (k * 0) + 0, 0 \in 0..(k - 1), 0 \in Int
<1> HIDE DEF q, r
<1>3. CASE r + 1 < k
  <2>1. y = (k * q) + (r + 1) /\ r + 1 \in 0..(k - 1)
    BY <1>1, <1>3
  <2> HIDE DEF y
  <2>2. y % k = r + 1
    BY <1>1, <2>1, RemainderIs
  <2> QED
    BY <1>1, <1>2, <1>3, <2>2 DEF r, y
<1>4. CASE r + 1 >= k
  <2> DEFINE p == q + 1
  <2>1. y = (k * p) + 0 /\ p \in Int /\ 0 \in 0..(k - 1)
    BY <1>1, <1>4
  <2> HIDE DEF y, p
  <2>2. y % k = 0
    BY <2>1, RemainderIs
  <2> QED
    BY <1>1, <1>2, <1>4, <2>2 DEF r, y
<1> QED
  BY <1>1, <1>3, <1>4

\* _cross_since_reset: the count-th crossing after a reset fires, and every further
\* count-th one. The running count is the remainder of the crossings since then.
LEMMA SinceResetMeans ==
  ASSUME NEW n \in Nat, NEW f, f \in [1..n -> BOOLEAN], NEW reset, NEW k \in Nat \ {0},
         NEW t \in 1..n
  PROVE  SinceReset(f, reset, k)[t]
           <=> f[t] /\ Cardinality({b \in Since(reset, t)..t : f[b]}) % k = 0
<1>1. PICK C : IsCount(C, n, f, reset, k) /\ SinceReset(f, reset, k) = [x \in 1..n |-> C[x].out]
  BY SinceResetRuns
<1> DEFINE B == {b \in 1..n : f[b]}
           K(x) == Cardinality(Within(B, Since(reset, x), x))
           Start(x) == IF reset[x] THEN 0 ELSE K(x - 1)
           P == {x \in 0..n : K(x) \in Nat /\ C[x].seen = K(x) % k}
<1>2. K(0) = 0
  <2>1. Within(B, Since(reset, 0), 0) = {}
    BY SinceMoves DEF Within
  <2> QED
    BY <2>1, FS_EmptySet
<1>3. ASSUME NEW x \in 1..n, K(x - 1) \in Nat
      PROVE  K(x) = Start(x) + (IF f[x] THEN 1 ELSE 0)
  <2> DEFINE s == Since(reset, x)
  <2>1. s \in 1..x
    BY SinceMoves
  <2>2. K(x) = Cardinality(Within(B, s, x - 1)) + (IF x \in B THEN 1 ELSE 0)
    <3> HIDE DEF s
    <3>1. Cardinality(Within(B, s, x))
            = Cardinality(Within(B, s, x - 1)) + (IF x \in B THEN 1 ELSE 0)
      BY <2>1, CountStep, x \in Nat, s \in Nat, s <= x
    <3> QED
      BY <3>1 DEF s
  <2>3. Cardinality(Within(B, s, x - 1)) = Start(x)
    <3>1. CASE reset[x]
      <4>1. Within(B, s, x - 1) = {}
        BY <3>1, SinceMoves DEF Within
      <4> QED
        BY <3>1, <4>1, FS_EmptySet
    <3>2. CASE ~reset[x]
      BY <3>2, SinceMoves
    <3> QED
      BY <3>1, <3>2
  <2> QED
    BY <2>2, <2>3
<1> HIDE DEF B, K
<1>4. ASSUME NEW x \in 1..n, x - 1 \in P
      PROVE  /\ K(x) \in Nat /\ C[x].seen = K(x) % k
             /\ C[x].out <=> f[x] /\ K(x) % k = 0
  <2>1. /\ K(x - 1) \in Nat /\ C[x - 1].seen = K(x - 1) % k
        /\ K(x) = Start(x) + (IF f[x] THEN 1 ELSE 0)
        /\ C[x] = CountBar(f, reset, k, C[x - 1], x)
    BY <1>1, <1>3, <1>4 DEF IsCount
  <2> DEFINE before == IF reset[x] THEN 0 ELSE C[x - 1].seen
  <2> DEFINE z == Start(x)
  <2>2. z \in Nat /\ before = z % k
    BY <2>1, Remainders
  <2>3. before \in 0..(k - 1) /\ f[x] \in BOOLEAN
    BY <2>2, Remainders
  <2> HIDE DEF before, z
  <2> DEFINE now == before + (IF f[x] THEN 1 ELSE 0)
             out == f[x] /\ now >= k
  <2>4. C[x] = [seen |-> IF out THEN 0 ELSE now, out |-> out]
    BY <2>1 DEF CountBar, before
  <2>5. C[x].seen = (IF out THEN 0 ELSE now) /\ C[x].out = out
    BY <2>4
  <2>6. CASE f[x]
    <3>1. now = before + 1 /\ K(x) = z + 1
      BY <2>1, <2>6 DEF z
    <3>2. CASE before + 1 >= k
      <4>1. (z + 1) % k = 0
        BY <2>2, <3>2, Remainders
      <4> QED
        BY <2>2, <2>5, <2>6, <3>1, <3>2, <4>1
    <3>3. CASE before + 1 < k
      <4>1. (z + 1) % k = before + 1
        BY <2>2, <3>3, Remainders
      <4>2. ~out /\ before + 1 # 0
        BY <2>3, <3>1, <3>3
      <4>3. K(x) % k = before + 1
        BY <3>1, <4>1, Zenon
      <4> HIDE DEF now, out
      <4>4. K(x) \in Nat /\ C[x].seen = before + 1 /\ ~C[x].out
        BY <2>2, <2>5, <3>1, <4>2
      <4> QED
        BY <4>2, <4>3, <4>4
    <3> QED
      BY <2>3, <3>2, <3>3
  <2>7. CASE ~f[x]
    <3>1. now = before /\ K(x) = z
      BY <2>1, <2>2, <2>3, <2>7 DEF z
    <3> QED
      BY <2>2, <2>5, <2>7, <3>1
  <2> QED
    BY <2>6, <2>7
<1>5. 0 \in P
  <2>1. C[0].seen = 0
    BY <1>1 DEF IsCount
  <2>2. 0 % k = 0
    BY Remainders, 0 \in Nat
  <2> QED
    BY <1>2, <2>1, <2>2
<1>6. \A x \in 0..n : x \in P
  <2>1. ASSUME NEW x \in 1..n, x - 1 \in P
        PROVE  x \in P
    BY <1>4, <2>1
  <2> HIDE DEF P
  <2> QED
    BY <1>5, <2>1, BarInduction
<1>7. C[t].out <=> f[t] /\ K(t) % k = 0
  BY <1>4, <1>6, t - 1 \in 0..n
<1>8. Within(B, Since(reset, t), t) = {b \in Since(reset, t)..t : f[b]}
  <2>1. Since(reset, t) \in 1..t
    BY SinceMoves
  <2> QED
    BY <2>1 DEF Within, B
<1> QED
  BY <1>1, <1>7, <1>8 DEF K

\* An excursion is pending at bar t: it began on a bar b of L, and no bar since, b
\* included, is one of O.
Pending(L, O, t) == \E b \in 1..t : b \in L /\ b \notin O /\ \A m \in (b + 1)..t : m \notin O

\* On the next bar it is still pending, or a new one has begun, if the bar is none of O.
LEMMA PendingStep ==
  ASSUME NEW L, NEW O, NEW t \in Nat \ {0}
  PROVE  /\ ~Pending(L, O, 0)
         /\ Pending(L, O, t) <=> t \notin O /\ (t \in L \/ Pending(L, O, t - 1))
<1>1. ~Pending(L, O, 0)
  BY DEF Pending
<1>2. ASSUME Pending(L, O, t)
      PROVE  t \notin O /\ (t \in L \/ Pending(L, O, t - 1))
  <2>1. PICK b \in 1..t : b \in L /\ b \notin O /\ \A m \in (b + 1)..t : m \notin O
    BY <1>2 DEF Pending
  <2>2. CASE b = t
    BY <2>1, <2>2
  <2>3. CASE b # t
    <3>1. b \in 1..(t - 1) /\ t \in (b + 1)..t /\ (b + 1)..(t - 1) \subseteq (b + 1)..t
      BY <2>3
    <3> QED
      BY <2>1, <3>1 DEF Pending
  <2> QED
    BY <2>2, <2>3
<1>3. ASSUME t \notin O, t \in L
      PROVE  Pending(L, O, t)
  BY <1>3, t \in 1..t, (t + 1)..t = {} DEF Pending
<1>4. ASSUME t \notin O, Pending(L, O, t - 1)
      PROVE  Pending(L, O, t)
  <2>1. PICK b \in 1..(t - 1) : b \in L /\ b \notin O /\ \A m \in (b + 1)..(t - 1) : m \notin O
    BY <1>4 DEF Pending
  <2>2. b \in 1..t /\ \A m \in (b + 1)..t : m = t \/ m \in (b + 1)..(t - 1)
    OBVIOUS
  <2> QED
    BY <1>4, <2>1, <2>2 DEF Pending
<1> QED
  BY <1>1, <1>2, <1>3, <1>4

\* One bar of _hysteresis_episode.
Lacks(x, enter, exit, t) == IsNaN(x[t]) \/ IsNaN(enter[t]) \/ IsNaN(exit[t])
EpisodeBar(up, x, enter, exit, was, t) ==
  LET fires == was.armed /\ Beyond(up, exit[t], x[t])
  IN IF Lacks(x, enter, exit, t) THEN [armed |-> was.armed, out |-> FALSE]
     ELSE [armed |-> ~fires /\ (was.armed \/ Beyond(up, x[t], enter[t])), out |-> fires]

\* The bars' states, one after the other.
IsEpisode(H, n, up, x, enter, exit) ==
  /\ H[0] = [armed |-> FALSE, out |-> FALSE]
  /\ \A t \in 1..n : /\ H[t] = EpisodeBar(up, x, enter, exit, H[t - 1], t)
                     /\ H[t - 1] \in [armed: BOOLEAN, out: BOOLEAN]

\* There are such states, and they are those of the episode.
LEMMA HysteresisRuns ==
  ASSUME NEW n \in Nat, NEW up, NEW x, NEW enter, NEW exit
  PROVE  \E H : /\ IsEpisode(H, n, up, x, enter, exit)
                /\ Hysteresis(n, up, x, enter, exit) = [t \in 1..n |-> H[t].out]
<1> DEFINE Start == [armed |-> FALSE, out |-> FALSE]
           A == [armed: BOOLEAN, out: BOOLEAN]
           Bar(was, t) == EpisodeBar(up, x, enter, exit, was, t)
           G == [y \in A \X (1..n) |-> Bar(y[1], y[2])]
           Runs(H) == H = [t \in 0..n |-> IF t = 0 THEN Start ELSE Bar(H[t - 1], t)]
           H == CHOOSE H : Runs(H)
<1>1. Hysteresis(n, up, x, enter, exit) = [t \in 1..n |-> H[t].out]
  BY DEF Hysteresis, EpisodeBar, Lacks
<1>2. ASSUME NEW was \in A, NEW t \in 1..n
      PROVE  Bar(was, t) \in A
  <2>1. \A y, z : Beyond(up, y, z) \in BOOLEAN
    BY DEF Beyond, Less
  <2> QED
    BY <2>1 DEF EpisodeBar
<1>3. PICK J : IsPath(J, n, A, Start, G)
  <2>1. G \in [A \X (1..n) -> A] /\ Start \in A
    BY <1>2
  <2> HIDE DEF G, A, Start
  <2> QED
    BY <2>1, PathExists
<1>4. \A t \in 1..n : J[t] = Bar(J[t - 1], t) /\ J[t - 1] \in A
  <2>1. \A t \in 1..n : t - 1 \in 0..n
    OBVIOUS
  <2>2. \A was \in A, t \in 1..n : G[<<was, t>>] = Bar(was, t)
    OBVIOUS
  <2> HIDE DEF G, A, Start, Bar
  <2> QED
    BY <1>3, <2>1, <2>2 DEF IsPath
<1>5. Runs(J)
  <2> HIDE DEF A, Start, Bar, G
  <2> QED
    BY <1>3, <1>4 DEF IsPath
<1>6. Runs(H)
  BY <1>5
<1>7. H = J
  <2> HIDE DEF H, Bar, Start
  <2>1. H = [t \in 0..n |-> H[t]] /\ J = [t \in 0..n |-> J[t]]
    BY <1>5, <1>6
  <2>2. \A t \in 0..n : /\ H[t] = IF t = 0 THEN Start ELSE Bar(H[t - 1], t)
                        /\ J[t] = IF t = 0 THEN Start ELSE Bar(J[t - 1], t)
    BY <1>5, <1>6
  <2> DEFINE P == {t \in 0..n : H[t] = J[t]}
  <2>3. ASSUME NEW t \in 1..n, t - 1 \in P
        PROVE  t \in P
    <3>1. H[t] = Bar(H[t - 1], t) /\ J[t] = Bar(J[t - 1], t)
      BY <2>2, t \in 0..n, t # 0
    <3> QED
      BY <2>3, <3>1
  <2>4. 0 \in P
    BY <2>2, 0 \in 0..n
  <2>5. \A t \in 0..n : t \in P
    <3> HIDE DEF P
    <3> QED
      BY <2>3, <2>4, BarInduction
  <2> QED
    BY <2>1, <2>5
<1> HIDE DEF H
<1>8. IsEpisode(J, n, up, x, enter, exit)
  BY <1>3, <1>4 DEF IsPath, IsEpisode
<1> QED
  BY <1>1, <1>7, <1>8

\* _hysteresis_episode: a bar fires if and only if the value is back on it from an
\* excursion that began before and that no bar in between has answered.
LEMMA HysteresisMeans ==
  ASSUME NEW n \in Nat, NEW up, NEW x, NEW enter, NEW exit, NEW t \in 1..n
  PROVE  LET out == Hysteresis(n, up, x, enter, exit)
             Out(b) == ~Lacks(x, enter, exit, b) /\ Beyond(up, x[b], enter[b])
         IN out[t] <=>
              /\ ~Lacks(x, enter, exit, t) /\ Beyond(up, exit[t], x[t])
              /\ \E b \in 1..(t - 1) : Out(b) /\ ~out[b] /\ \A m \in (b + 1)..(t - 1) : ~out[m]
<1>1. PICK H : /\ IsEpisode(H, n, up, x, enter, exit)
               /\ Hysteresis(n, up, x, enter, exit) = [b \in 1..n |-> H[b].out]
  BY HysteresisRuns
<1> DEFINE L == {b \in 1..n : ~Lacks(x, enter, exit, b) /\ Beyond(up, x[b], enter[b])}
           O == {b \in 1..n : H[b].out}
           P == {b \in 0..n : H[b].armed <=> Pending(L, O, b)}
<1>2. ASSUME NEW b \in 1..n
      PROVE  /\ H[b - 1].armed \in BOOLEAN
             /\ b \in O <=> ~Lacks(x, enter, exit, b) /\ H[b - 1].armed /\ Beyond(up, exit[b], x[b])
             /\ H[b].armed <=> b \notin O /\ (b \in L \/ H[b - 1].armed)
  <2>1. H[b] = EpisodeBar(up, x, enter, exit, H[b - 1], b) /\ H[b - 1].armed \in BOOLEAN
    BY <1>1 DEF IsEpisode
  <2>2. CASE Lacks(x, enter, exit, b)
    <3>1. H[b] = [armed |-> H[b - 1].armed, out |-> FALSE]
      BY <2>1, <2>2 DEF EpisodeBar
    <3> QED
      BY <2>1, <2>2, <3>1
  <2>3. CASE ~Lacks(x, enter, exit, b)
    <3> DEFINE fires == H[b - 1].armed /\ Beyond(up, exit[b], x[b])
               leaves == Beyond(up, x[b], enter[b])
    <3>1. H[b] = [armed |-> ~fires /\ (H[b - 1].armed \/ leaves), out |-> fires]
      BY <2>1, <2>3 DEF EpisodeBar
    <3>2. fires \in BOOLEAN /\ leaves \in BOOLEAN
      BY DEF Beyond, Less
    <3>3. b \in L <=> leaves
      BY <2>3
    <3>4. b \in O <=> fires
      <4>1. H[b].out = fires
        BY <3>1
      <4> HIDE DEF fires
      <4> QED
        BY <3>2, <4>1
    <3>5. H[b].armed <=> ~fires /\ (H[b - 1].armed \/ leaves)
      <4> HIDE DEF fires, leaves
      <4>1. H[b].armed = (~fires /\ (H[b - 1].armed \/ leaves))
        BY <3>1
      <4> QED
        BY <2>1, <3>2, <4>1
    <3> QED
      BY <2>1, <2>3, <3>3, <3>4, <3>5
  <2> QED
    BY <2>2, <2>3
<1>3. 0 \in P
  <2>1. ~H[0].armed
    BY <1>1 DEF IsEpisode
  <2>2. ~Pending(L, O, 0)
    BY PendingStep, 1 \in Nat \ {0}
  <2> QED
    BY <2>1, <2>2
<1>4. ASSUME NEW b \in 1..n, b - 1 \in P
      PROVE  b \in P
  <2>1. b \in Nat \ {0}
    OBVIOUS
  <2>2. H[b - 1].armed <=> Pending(L, O, b - 1)
    BY <1>4
  <2> HIDE DEF L, O
  <2>3. Pending(L, O, b) <=> b \notin O /\ (b \in L \/ Pending(L, O, b - 1))
    BY <2>1, PendingStep
  <2> QED
    BY <1>2, <2>2, <2>3
<1>5. \A b \in 0..n : b \in P
  <2> HIDE DEF P
  <2> QED
    BY <1>3, <1>4, BarInduction
<1>6. H[t - 1].armed <=> Pending(L, O, t - 1)
  BY <1>5, t - 1 \in 0..n
<1>7. t \in O <=> ~Lacks(x, enter, exit, t) /\ Beyond(up, exit[t], x[t]) /\ Pending(L, O, t - 1)
  BY <1>2, <1>6
<1> DEFINE out == Hysteresis(n, up, x, enter, exit)
<1>8. \A b \in 1..n : b \in O <=> out[b]
  BY <1>1
<1> HIDE DEF O, out
<1>9. Pending(L, O, t - 1) <=>
        \E b \in 1..(t - 1) : /\ ~Lacks(x, enter, exit, b) /\ Beyond(up, x[b], enter[b])
                              /\ ~out[b] /\ \A m \in (b + 1)..(t - 1) : ~out[m]
  <2>1. \A b \in 1..(t - 1) : b \in 1..n /\ \A m \in (b + 1)..(t - 1) : m \in 1..n
    OBVIOUS
  <2> QED
    BY <1>8, <2>1 DEF Pending
<1> QED
  BY <1>7, <1>8, <1>9 DEF out

(***************************************************************************)
(* The conditions of a parsed signal.                                      *)
(***************************************************************************)

Comparing(c) == c.op \in {"gt", "lt", "ge", "le", "eq"}

\* What parsing leaves of a condition: its operator is known, it has the operands of
\* it, and what it counts is at least 1.
IsParsed(c) ==
  /\ Comparing(c) \/ Crossing(c) \/ Rolling(c) \/ Episode(c) \/ c.op = "in_range"
  /\ Comparing(c) => DOMAIN c.args = 1..2 /\ c.n \in Nat \ {0}
  /\ Crossing(c) => DOMAIN c.args = 1..2 /\ c.n \in Nat \ {0} /\ c.window \in Nat \ {0}
  /\ Episode(c) => DOMAIN c.args = 1..3

\* _parse_condition refuses the others.
LEMMA ConditionsAreParsed ==
  ASSUME NEW c, IsCondition(c), ~BadCondition(c)
  PROVE  IsParsed(ParsedCondition(c))
<1> DEFINE p == ParsedCondition(c)
<1>1. /\ p.args = c.args /\ p.n = c.n /\ p.window = c.window
      /\ c.op # "hysteresis" => p.op = c.op
      /\ c.op = "hysteresis" => p.op \in {"hysteresis_up", "hysteresis_down"}
  BY DEF ParsedCondition
<1>2. \/ c.op \in {"rolling_gt", "rolling_lt"}
      \/ /\ c.op \in {"gt", "lt", "ge", "le", "eq", "cross_above", "cross_below"}
         /\ DOMAIN c.args = 1..2
      \/ c.op \in {"in_range", "hysteresis"} /\ DOMAIN c.args = 1..3
  <2>1. PICK k \in 1..3 : c.op \in Ops[k] /\ DOMAIN c.args = 1..k
    BY DEF IsCondition
  <2> QED
    BY <2>1, k = 1 \/ k = 2 \/ k = 3 DEF Ops
<1>3. c.n \in Int /\ c.window \in Int
  BY DEF IsCondition
<1> HIDE DEF p
<1>4. c.op \in {"gt", "lt", "ge", "le", "eq"} => c.n >= 1
  BY <1>3 DEF BadCondition
<1>5. c.op \in {"cross_above", "cross_below"} => c.n >= 1 /\ c.window >= 1
  BY <1>3 DEF BadCondition, Crossing
<1> QED
  BY <1>1, <1>2, <1>3, <1>4, <1>5
     DEF IsParsed, Comparing, Crossing, Rolling, Episode, p

\* parse_signal refuses a request with such a condition in any block.
LEMMA BlocksAreParsed ==
  ASSUME NEW r \in Requests, ~Unparsed(r.baskets, r.body),
         NEW b \in Deciding(Parsed(r.baskets, r.body)), NEW c \in Range(b.conds)
  PROVE  IsParsed(c)
<1> DEFINE sg == Parsed(r.baskets, r.body)
<1>1. sg.entries = ParsedBlocks(r.body.entries) /\ sg.exits = ParsedBlocks(r.body.exits)
  BY DEF Parsed
<1>2. b \in Range(sg.entries) \cup Range(sg.exits)
  BY DEF Deciding, Openers, Closers
<1> HIDE DEF sg
<1>3. PICK blocks : /\ blocks \in {r.body.entries, r.body.exits}
                    /\ b \in Range(ParsedBlocks(blocks))
  BY <1>1, <1>2
<1>4. \E bad : ~BadBlocks(blocks, bad)
  BY <1>3 DEF Unparsed
<1>5. PICK i \in DOMAIN blocks :
        b.conds = [j \in DOMAIN blocks[i].conds |-> ParsedCondition(blocks[i].conds[j])]
  BY <1>3 DEF ParsedBlocks, Range
<1>6. PICK j \in DOMAIN blocks[i].conds : c = ParsedCondition(blocks[i].conds[j])
  BY <1>5 DEF Range
<1>7. ~BadCondition(blocks[i].conds[j])
  BY <1>4, <1>5, <1>6 DEF BadBlocks
<1>8. IsCondition(blocks[i].conds[j])
  <2>1. blocks[i] \in Range(r.body.entries) \cup Range(r.body.exits)
    BY <1>3, <1>5 DEF Range
  <2>2. blocks[i].conds[j] \in Range(blocks[i].conds)
    BY <1>6 DEF Range
  <2> QED
    BY <2>1, <2>2, RequestsAssumption
<1> QED
  BY <1>6, <1>7, <1>8, ConditionsAreParsed

\* A comparison is true or false on every bar.
LEMMA LevelIsBoolean ==
  ASSUME NEW c, Comparing(c) \/ Crossing(c), NEW t
  PROVE  Level(ev, c, t) \in BOOLEAN
BY DEF Level, LevelOf, Comparing, Crossing, Less, Leq

\* It holds on no bar on which an operand is missing.
LEMMA LevelNeedsOperands ==
  ASSUME NEW c, IsParsed(c), Comparing(c), NEW t, Level(ev, c, t)
  PROVE  ~Missing(ev, c, t)
<1> DEFINE X(i) == ArrayOf(ev, c.args[i])[t]
<1>1. DOMAIN c.args = 1..2 /\ ~Rolling(c)
  BY DEF IsParsed, Comparing, Rolling
<1>2. ArraysOf(ev, c)[1][t] = X(1) /\ ArraysOf(ev, c)[2][t] = X(2)
  BY <1>1 DEF ArraysOf
<1> HIDE DEF X
<1>3. ~IsNaN(X(1)) /\ ~IsNaN(X(2))
  <2>1. LevelOf(c, ArraysOf(ev, c), t)
    BY DEF Level
  <2> QED
    BY <1>2, <2>1 DEF LevelOf, Comparing, Less, Leq, IsNaN
<1>4. \A i \in DOMAIN c.args : ~IsNaN(X(i))
  BY <1>1, <1>3
<1> QED
  BY <1>1, <1>4 DEF Missing, X

\* The levels of a condition, bar by bar.
LEMMA TruthIsCounted ==
  ASSUME NEW c, NEW reset
  PROVE  Truth(ev, c, reset)
           = Counted(N, c, ArraysOf(ev, c), [t \in 1..N |-> Level(ev, c, t)], reset)
BY DEF Truth, TruthOf, Bools, Level, N

\* Which count is whose.
LEMMA CountedAs ==
  ASSUME NEW c, IsParsed(c), NEW n, NEW x, NEW f, NEW reset,
         NEW up, up = (c.op = "hysteresis_up")
  PROVE  /\ Episode(c) => Counted(n, c, x, f, reset) = Hysteresis(n, up, x[1], x[2], x[3])
         /\ Crossing(c) /\ c.sinceReset => Counted(n, c, x, f, reset) = SinceReset(f, reset, c.n)
         /\ Crossing(c) /\ ~c.sinceReset
              => Counted(n, c, x, f, reset)
                   = IF c.n = 1 /\ c.window = 1 THEN f ELSE Windowed(f, c.window, c.n)
         /\ Comparing(c) => Counted(n, c, x, f, reset) = Consecutive(f, c.n)
<1>1. CASE Episode(c)
  BY <1>1 DEF Counted, Episode, Crossing, Comparing, Rolling
<1>2. CASE Crossing(c) /\ c.sinceReset
  BY <1>2 DEF Counted, Episode, Crossing, Comparing, Rolling
<1>3. CASE Crossing(c) /\ ~c.sinceReset
  BY <1>3 DEF Counted, Episode, Crossing, Comparing, Rolling
<1>4. CASE Comparing(c)
  BY <1>4 DEF Counted, Episode, Crossing, Comparing, Rolling
<1> QED
  BY <1>1, <1>2, <1>3, <1>4

\* A crossing counted since a reset.
LEMMA SinceResetCounts ==
  ASSUME N \in Nat, NEW c, IsParsed(c), Crossing(c), c.sinceReset, NEW reset
  PROVE  CountsSinceReset(c, reset)
<1> DEFINE f == [t \in 1..N |-> Level(ev, c, t)]
<1>1. f \in [1..N -> BOOLEAN]
  BY LevelIsBoolean
<1>2. Truth(ev, c, reset) = SinceReset(f, reset, c.n)
  BY TruthIsCounted, CountedAs
<1>3. c.n \in Nat \ {0}
  BY DEF IsParsed
<1> HIDE DEF f
<1>4. ASSUME NEW t \in 1..N
      PROVE  Truth(ev, c, reset)[t]
               <=> f[t] /\ Cardinality({b \in Since(reset, t)..t : f[b]}) % c.n = 0
  <2>1. SinceReset(f, reset, c.n)[t]
          <=> f[t] /\ Cardinality({b \in Since(reset, t)..t : f[b]}) % c.n = 0
    BY <1>1, <1>3, SinceResetMeans
  <2> QED
    BY <1>2, <2>1, Zenon
<1> QED
  BY <1>4 DEF CountsSinceReset, Since, f

\* A crossing counted in a window, the single crossing included.
LEMMA WindowCounts ==
  ASSUME N \in Nat, NEW c, IsParsed(c), Crossing(c), ~c.sinceReset
  PROVE  EnoughInTheWindow(c)
<1> DEFINE f == [t \in 1..N |-> Level(ev, c, t)]
           out == Truth(ev, c, NoReset(ev))
<1>1. f \in [1..N -> BOOLEAN]
  BY LevelIsBoolean
<1>2. out = IF c.n = 1 /\ c.window = 1 THEN f ELSE Windowed(f, c.window, c.n)
  BY TruthIsCounted, CountedAs
<1>3. c.n \in Nat \ {0} /\ c.window \in Nat \ {0}
  BY DEF IsParsed
<1>4. \A t \in 1..N : {b \in 1..t : t - b < c.window /\ f[b]}
                        = {b \in 1..t : t - b < c.window /\ Level(ev, c, b)}
  OBVIOUS
<1> HIDE DEF f, out
<1>5. ASSUME NEW t \in 1..N
      PROVE  out[t] <=> Cardinality({b \in 1..t : t - b < c.window /\ f[b]}) >= c.n
  <2>1. CASE c.n = 1 /\ c.window = 1
    <3>1. CASE f[t]
      <4>1. {b \in 1..t : t - b < c.window /\ f[b]} = {t}
        BY <1>1, <2>1, <3>1
      <4>2. Cardinality({t}) = 1
        BY FS_Singleton
      <4>3. out[t]
        BY <1>2, <2>1, <3>1
      <4> QED
        BY <2>1, <4>1, <4>2, <4>3
    <3>2. CASE ~f[t]
      <4>1. {b \in 1..t : t - b < c.window /\ f[b]} = {}
        BY <1>1, <2>1, <3>2
      <4>2. Cardinality({}) = 0
        BY FS_EmptySet
      <4>3. ~out[t]
        BY <1>2, <2>1, <3>2
      <4> QED
        BY <2>1, <4>1, <4>2, <4>3
    <3> QED
      BY <3>1, <3>2
  <2>2. CASE ~(c.n = 1 /\ c.window = 1)
    BY <1>1, <1>2, <1>3, <2>2, WindowedMeans
  <2> QED
    BY <2>1, <2>2
<1> QED
  BY <1>4, <1>5 DEF EnoughInTheWindow, out

\* A comparison that has held for a number of bars.
LEMMA RunCounts ==
  ASSUME N \in Nat, NEW c, IsParsed(c), Comparing(c)
  PROVE  EveryBarOfTheRun(c)
<1> DEFINE f == [t \in 1..N |-> Level(ev, c, t)]
           out == Truth(ev, c, NoReset(ev))
<1>1. f \in [1..N -> BOOLEAN]
  BY LevelIsBoolean
<1>2. out = Consecutive(f, c.n)
  BY TruthIsCounted, CountedAs
<1>3. c.n \in Nat \ {0}
  BY DEF IsParsed
<1>4. \A b \in 1..N : f[b] <=> Level(ev, c, b) /\ ~Missing(ev, c, b)
  BY LevelNeedsOperands
<1> HIDE DEF f, out
<1>5. ASSUME NEW t \in 1..N
      PROVE  out[t] <=> t >= c.n /\ \A b \in (t - c.n + 1)..t : f[b]
  BY <1>1, <1>2, <1>3, ConsecutiveMeans
<1>6. \A t \in 1..N : t >= c.n => (t - c.n + 1)..t \subseteq 1..N
  BY <1>3
<1> QED
  BY <1>4, <1>5, <1>6 DEF EveryBarOfTheRun, out

\* A hysteresis.
LEMMA EpisodeFiresOnce ==
  ASSUME N \in Nat, NEW c, IsParsed(c), Episode(c)
  PROVE  OncePerExcursion(c)
<1> DEFINE up == c.op = "hysteresis_up"
           X(i, t) == ArrayOf(ev, c.args[i])[t]
           x == ArraysOf(ev, c)
           out == Truth(ev, c, NoReset(ev))
<1>1. out = Hysteresis(N, up, x[1], x[2], x[3])
  <2> DEFINE f == [t \in 1..N |-> Level(ev, c, t)]
  <2>1. out = Counted(N, c, x, f, NoReset(ev))
    BY TruthIsCounted
  <2>2. up = (c.op = "hysteresis_up")
    OBVIOUS
  <2> HIDE DEF f, x, out, up
  <2>3. Counted(N, c, x, f, NoReset(ev)) = Hysteresis(N, up, x[1], x[2], x[3])
    BY <2>2, CountedAs
  <2> QED
    BY <2>1, <2>3
<1>2. \A i \in 1..3, t \in 1..N : x[i][t] = X(i, t)
  BY DEF IsParsed, ArraysOf
<1>3. \A t \in 1..N : Lacks(x[1], x[2], x[3], t) <=> Missing(ev, c, t)
  <2>1. ~Rolling(c) /\ DOMAIN c.args = 1..3
    BY DEF Rolling, Episode, IsParsed
  <2>2. \A t : Missing(ev, c, t) <=> \E i \in 1..3 : IsNaN(X(i, t))
    BY <2>1 DEF Missing
  <2> HIDE DEF X, x
  <2> QED
    BY <1>2, <2>2 DEF Lacks
<1> HIDE DEF x, X, out, up
<1>4. ASSUME NEW t \in 1..N
      PROVE  out[t] <=>
               /\ ~Lacks(x[1], x[2], x[3], t) /\ Beyond(up, x[3][t], x[1][t])
               /\ \E b \in 1..(t - 1) :
                    /\ ~Lacks(x[1], x[2], x[3], b) /\ Beyond(up, x[1][b], x[2][b])
                    /\ ~out[b] /\ \A m \in (b + 1)..(t - 1) : ~out[m]
  BY <1>1, HysteresisMeans
<1>5. ASSUME NEW t \in 1..N
      PROVE  out[t] <=>
               /\ ~Missing(ev, c, t) /\ Beyond(up, X(3, t), X(1, t))
               /\ \E b \in 1..(t - 1) :
                    /\ ~Missing(ev, c, b) /\ Beyond(up, X(1, b), X(2, b))
                    /\ ~out[b] /\ \A m \in (b + 1)..(t - 1) : ~out[m]
  BY <1>2, <1>3, <1>4
<1> QED
  BY <1>5 DEF OncePerExcursion, out, X, up

(***************************************************************************)
(* The calendar is finite.                                                 *)
(***************************************************************************)

\* A market has no more days than have arrived.
LEMMA MarketIsFinite ==
  ASSUME Len(days) \in Nat
  PROVE  IsFiniteSet(DOMAIN Market)
<1> DEFINE I == 1..Len(days)
           D == {Days[i] : i \in I}
           f == [i \in I |-> Days[i]]
<1>1. IsFiniteSet(I)
  BY FS_Interval, 1 \in Int, Len(days) \in Int
<1>2. f \in Surjection(I, D)
  BY DEF Surjection
<1>3. DOMAIN Market = D
  BY DEF Market
<1> HIDE DEF I, D, f
<1> QED
  BY <1>1, <1>2, <1>3, FS_Surjection

\* An operand has a value on days of the market only.
LEMMA SeriesAreOfTheMarket ==
  ASSUME NEW q, NEW mk, NEW sg, NEW op
  PROVE  DOMAIN OperandSeries(q, mk, sg, op) \subseteq DOMAIN mk
<1>1. \A inst : LeafDates(q, mk, inst) \subseteq DOMAIN mk
  BY DEF LeafDates, BusinessDays, Listed
<1>2. \A inst : FetchDates(q, mk, inst) \subseteq DOMAIN mk
  BY <1>1 DEF FetchDates, SharedDates
<1>3. IndicatorDays(q, mk, sg, op) \subseteq DOMAIN mk
  BY DEF IndicatorDays
<1>4. CASE op.kind = "instrument"
  <2>1. DOMAIN OperandSeries(q, mk, sg, op) = FetchDates(q, mk, Instrument(sg, op.input))
    BY <1>4 DEF OperandSeries
  <2> QED
    BY <1>2, <2>1
<1>5. CASE op.kind # "instrument"
  <2>1. DOMAIN OperandSeries(q, mk, sg, op) = IndicatorDays(q, mk, sg, op)
    BY <1>5 DEF OperandSeries
  <2> QED
    BY <1>3, <2>1
<1> QED
  BY <1>4, <1>5

\* What the operands are aligned on is a number of bars.
LEMMA AlignedOnBars ==
  ASSUME NEW q, NEW mk, NEW sg, IsFiniteSet(DOMAIN mk)
  PROVE  Aligned(q, mk, sg).sg = sg /\ Bars(Aligned(q, mk, sg)) \in Nat
<1> DEFINE op == Resolving(sg)
           raw == [i \in {k \in DOMAIN op : op[k].kind # "constant"} |->
                     OperandSeries(q, mk, sg, op[i])]
           D == UNION {DOMAIN raw[i] : i \in DOMAIN raw}
<1>1. Aligned(q, mk, sg) = OnIndex(sg, op, raw, InOrder(D))
  BY DEF Aligned, AlignedOf, UnionAligned
<1>2. D \subseteq DOMAIN mk
  <2>1. \A i \in DOMAIN raw : raw[i] = OperandSeries(q, mk, sg, op[i])
    OBVIOUS
  <2> HIDE DEF op, raw
  <2> QED
    BY <2>1, SeriesAreOfTheMarket
<1> HIDE DEF op, raw, D
<1>3. Aligned(q, mk, sg).sg = sg /\ Aligned(q, mk, sg).index = InOrder(D)
  BY <1>1 DEF OnIndex
<1>4. Cardinality(D) \in Nat
  BY <1>2, FS_Subset, FS_CardinalityType
<1>5. Len(InOrder(D)) = Cardinality(D)
  BY <1>4 DEF InOrder
<1> QED
  BY <1>3, <1>4, <1>5 DEF Bars

(***************************************************************************)
(* The invariant: what is aligned is the parsed signal of the request on a *)
(* number of bars, and what was refused has no run and no answer.          *)
(***************************************************************************)
ReceivedOk ==
  /\ request \in Requests
  /\ days \in Seq(UNION {Day(request, i) : i \in Nat})
AlignedOk ==
  stage \in {"aligned", "run", "drawn", "settled", "published"} =>
    \/ ev = None
    \/ /\ ~Unparsed(request.baskets, request.body)
       /\ ev.sg = Parsed(request.baskets, request.body)
       /\ N \in Nat
RefusedOk ==
  /\ stage \in {"run", "drawn", "settled", "published"} /\ ev = None => run = None
  /\ stage = "published" /\ run = None => answer = None
EvaluationOk == ReceivedOk /\ AlignedOk /\ RefusedOk

\* It is inductive: only Align sets ev, and only to what a parsed request aligns.
LEMMA EvaluationHolds == Spec => []EvaluationOk
<1>1. Init => EvaluationOk
  BY DEF Init, EvaluationOk, ReceivedOk, AlignedOk, RefusedOk
<1>2. EvaluationOk /\ [Next]_vars => EvaluationOk'
  <2> SUFFICES ASSUME EvaluationOk, [Next]_vars
               PROVE  EvaluationOk'
    OBVIOUS
  <2> USE DEF EvaluationOk
  <2>1. CASE Arrive
    <3>1. ReceivedOk'
      <4>1. PICK x \in Day(request, Len(days)) : days' = Append(days, x)
        BY <2>1 DEF Arrive
      <4>2. Len(days) \in Nat
        BY DEF ReceivedOk
      <4> DEFINE S == UNION {Day(request, i) : i \in Nat}
      <4>3. x \in S
        BY <4>2
      <4>4. days \in Seq(S) /\ request' = request
        BY <2>1 DEF ReceivedOk, Arrive
      <4> HIDE DEF S
      <4>5. days' \in Seq(S)
        BY <4>1, <4>3, <4>4
      <4> QED
        BY <4>4, <4>5 DEF ReceivedOk, S
    <3>2. AlignedOk' /\ RefusedOk'
      BY <2>1 DEF Arrive, AlignedOk, RefusedOk
    <3> QED
      BY <3>1, <3>2
  <2>2. CASE Align
    <3>1. ReceivedOk' /\ RefusedOk'
      BY <2>2 DEF Align, ReceivedOk, RefusedOk
    <3>2. AlignedOk'
      <4>1. ev' = IF Refusal(request.baskets, Market, request.body) # None THEN None
                  ELSE Aligned(Window, Market, Signal)
        BY <2>2 DEF Align
      <4>2. CASE Refusal(request.baskets, Market, request.body) # None
        BY <4>1, <4>2 DEF AlignedOk
      <4>3. CASE Refusal(request.baskets, Market, request.body) = None
        <5>1. ~Unparsed(request.baskets, request.body)
          BY <4>3, NoneAssumption DEF Refusal, RequestRefusal
        <5>2. IsFiniteSet(DOMAIN Market)
          BY MarketIsFinite DEF ReceivedOk
        <5>3. ev'.sg = Signal /\ Bars(ev') \in Nat
          BY <4>1, <4>3, <5>2, AlignedOnBars
        <5>4. request' = request
          BY <2>2 DEF Align
        <5> QED
          BY <5>1, <5>3, <5>4 DEF AlignedOk, N, Signal
      <4> QED
        BY <4>2, <4>3
    <3> QED
      BY <3>1, <3>2
  <2>3. CASE Run
    BY <2>3 DEF Run, ReceivedOk, AlignedOk, RefusedOk, N
  <2>4. CASE Draw
    BY <2>4 DEF Draw, ReceivedOk, AlignedOk, RefusedOk, N
  <2>5. CASE Settle
    BY <2>5 DEF Settle, ReceivedOk, AlignedOk, RefusedOk, N
  <2>6. CASE Publish
    BY <2>6 DEF Publish, ReceivedOk, AlignedOk, RefusedOk, N
  <2>7. CASE UNCHANGED vars
    BY <2>7 DEF vars, ReceivedOk, AlignedOk, RefusedOk, N
  <2> QED
    BY <2>1, <2>2, <2>3, <2>4, <2>5, <2>6, <2>7 DEF Next
<1> QED
  BY <1>1, <1>2, PTL DEF Spec

(***************************************************************************)
(* In every answer, every condition that opens or closes positions counts  *)
(* what its words say: a crossing since a reset - the bound one or, of an  *)
(* entry that is not gated, an exit that aims at it -, a crossing within a *)
(* window, a run of bars, an excursion of a hysteresis; whatever the       *)
(* counts, the windows, the market and the number of days.                 *)
(***************************************************************************)
THEOREM CountersMean == Spec => []CountersMeanTheirWords
<1>1. EvaluationOk => CountersMeanTheirWords
  <2> SUFFICES ASSUME EvaluationOk, Answered,
                      NEW b \in Deciding(ev.sg), NEW c \in Range(b.conds), NEW reset
               PROVE  Means(c, reset)
    BY DEF CountersMeanTheirWords, Deciding
  <2>1. /\ request \in Requests /\ ~Unparsed(request.baskets, request.body)
        /\ ev.sg = Parsed(request.baskets, request.body) /\ N \in Nat
    BY DEF Answered, EvaluationOk, ReceivedOk, AlignedOk, RefusedOk
  <2>2. IsParsed(c)
    BY <2>1, BlocksAreParsed
  <2> USE DEF Means
  <2>3. CASE Episode(c)
    BY <2>1, <2>2, <2>3, EpisodeFiresOnce DEF Episode, Crossing, Rolling
  <2>4. CASE Crossing(c) /\ c.sinceReset
    BY <2>1, <2>2, <2>4, SinceResetCounts DEF Episode, Crossing, Rolling
  <2>5. CASE Crossing(c) /\ ~c.sinceReset
    BY <2>1, <2>2, <2>5, WindowCounts DEF Episode, Crossing, Rolling
  <2>6. CASE Rolling(c) \/ c.op = "in_range"
    BY <2>6 DEF Episode, Crossing, Rolling
  <2>7. CASE Comparing(c)
    BY <2>1, <2>2, <2>7, RunCounts DEF Episode, Crossing, Rolling, Comparing
  <2> QED
    BY <2>2, <2>3, <2>4, <2>5, <2>6, <2>7 DEF IsParsed
<1> QED
  BY <1>1, EvaluationHolds, PTL

\* One bar turns a candidate of a bar into a candidate of the next.
LEMMA ProgressType ==
  ASSUME NEW win \in Seq(Nat \ {0}), Len(win) >= 1, NEW b \in Nat,
         NEW c \in Candidate(win, b), NEW match, NEW gap, NEW abort
  PROVE  Progress(c, win, b, match, gap, abort) \in Candidate(win, b + 1)
<1> DEFINE p == Progress(c, win, b, match, gap, abort)
<1>1. Len(win) \in Nat
  OBVIOUS
<1>2. Idle \in Candidate(win, b + 1)
  BY DEF Candidate
<1>3. c \in Candidate(win, b + 1)
  BY <1>1 DEF Candidate
<1>4. CASE Dropped(c, win, b, gap, abort) \/ Completes(c, win, b, match, gap, abort)
  BY <1>2, <1>4 DEF Progress, Completes
<1>5. CASE /\ ~Dropped(c, win, b, gap, abort)
           /\ ~Completes(c, win, b, match, gap, abort)
           /\ Advances(c, win, b, match)
  <2>1. p = [stage |-> c.stage + 1, tau |-> b]
    BY <1>5 DEF Progress
  <2>2. c # Idle /\ 0 <= c.stage /\ c.stage < Len(win) /\ c.stage + 1 # Len(win)
    BY <1>5 DEF Advances, InFlight, Completes, LastStage, Idle
  <2>3. c.stage \in 0 .. Len(win) - 1
    BY <2>2, <1>1 DEF Candidate, LastStage
  <2> QED
    BY <2>1, <2>2, <2>3, <1>1 DEF Candidate, LastStage
<1>6. CASE /\ ~Dropped(c, win, b, gap, abort)
           /\ ~Completes(c, win, b, match, gap, abort)
           /\ ~Advances(c, win, b, match)
  BY <1>3, <1>6 DEF Progress
<1> QED
  BY <1>4, <1>5, <1>6

\* Without a candidate nothing progresses.
LEMMA IdleStays ==
  ASSUME NEW win, NEW b, NEW match, NEW gap, NEW abort
  PROVE  /\ Progress(Idle, win, b, match, gap, abort) = Idle
         /\ ~Completes(Idle, win, b, match, gap, abort)
  BY DEF Progress, Completes, Advances, InFlight, Idle

-----------------------------------------------------------------------------
(* Types                                                                   *)

\* The loop state keeps its types.
THEOREM ChainTyped == ChainSpec => []ChainTypeOK
<1>1. ChainInit => ChainTypeOK
  BY GridAssumption DEF ChainInit, ChainTypeOK, Candidate
<1>2. ChainTypeOK /\ [ChainLoop]_chainVars => ChainTypeOK'
  <2> SUFFICES ASSUME ChainTypeOK, [ChainLoop]_chainVars PROVE ChainTypeOK'
    OBVIOUS
  <2> USE GridAssumption
  <2>1. CASE UNCHANGED chainVars
    BY <2>1 DEF ChainTypeOK, chainVars
  <2>2. ASSUME NEW match, NEW gap, NEW abort, ChainBar(match, gap, abort)
        PROVE  ChainTypeOK'
    <3>1. /\ windows \in Seq(Nat \ {0}) /\ Len(windows) >= 1 /\ Len(windows) \in Nat
          /\ bar \in Nat /\ bar < GridBars /\ bar' = bar + 1 /\ windows' = windows
      BY <2>2, ChainsAssumption DEF ChainTypeOK, ChainBar
    <3> DEFINE P(c) == Progress(c, windows, bar, match, gap, abort)
    <3>2. \A c \in Candidate(windows, bar) : P(c) \in Candidate(windows, bar + 1)
      BY <3>1, ProgressType
    <3>3. [stage |-> 0, tau |-> bar] \in Candidate(windows, bar + 1) \ {Idle}
      BY <3>1 DEF Candidate, LastStage, Idle
    <3>4. cand' \in Candidate(windows, bar + 1)
      BY <2>2, <3>2, <3>3 DEF ChainBar, ChainNext, ChainTypeOK
    <3>5. live' \subseteq Candidate(windows, bar + 1) \ {Idle}
      BY <2>2, <3>2, <3>3 DEF ChainBar, LiveNext, ChainTypeOK
    <3>6. fired' \subseteq 0 .. bar /\ multi' \subseteq 0 .. bar
      BY <2>2, <3>1 DEF ChainBar, ChainTypeOK
    <3> QED
      BY <3>1, <3>4, <3>5, <3>6, bar + 1 \in 0 .. GridBars, (bar + 1) - 1 = bar DEF ChainTypeOK
  <2> QED
    BY <2>1, <2>2 DEF ChainLoop
<1> QED
  BY <1>1, <1>2, PTL DEF ChainSpec

-----------------------------------------------------------------------------
(* The automaton against the reference                                     *)

\* The kept candidate is one of the reference's, so whenever the automaton
\* completes a chain the reference completes it as well.
THEOREM NeverFiresSpuriously == ChainSpec => [](CandidateIsLive /\ NeverSpurious)
<1> DEFINE Inv == CandidateIsLive /\ NeverSpurious
<1>1. ChainInit => Inv
  BY DEF ChainInit, CandidateIsLive, NeverSpurious
<1>2. Inv /\ [ChainLoop]_chainVars => Inv'
  <2> SUFFICES ASSUME Inv, [ChainLoop]_chainVars PROVE Inv'
    OBVIOUS
  <2>1. CASE UNCHANGED chainVars
    BY <2>1 DEF CandidateIsLive, NeverSpurious, chainVars
  <2>2. ASSUME NEW match, NEW gap, NEW abort, ChainBar(match, gap, abort)
        PROVE  Inv'
    <3>1. CandidateIsLive'
      <4>1. CASE 0 \in match
        BY <2>2, <4>1 DEF ChainBar, ChainNext, LiveNext, CandidateIsLive
      <4>2. CASE 0 \notin match
        BY <2>2, <4>2, IdleStays DEF ChainBar, ChainNext, LiveNext, CandidateIsLive
      <4> QED
        BY <4>1, <4>2
    <3>2. NeverSpurious'
      <4>1. CASE Completes(cand, windows, bar, match, gap, abort)
        <5>1. cand \in live
          BY <4>1, IdleStays DEF CandidateIsLive
        <5>2. LiveFires(live, windows, bar, match, gap, abort)
          BY <4>1, <5>1 DEF LiveFires
        <5> QED
          BY <2>2, <5>2 DEF ChainBar, NeverSpurious
      <4>2. CASE ~Completes(cand, windows, bar, match, gap, abort)
        BY <2>2, <4>2 DEF ChainBar, NeverSpurious
      <4> QED
        BY <4>1, <4>2
    <3> QED
      BY <3>1, <3>2
  <2> QED
    BY <2>1, <2>2 DEF ChainLoop
<1> QED
  BY <1>1, <1>2, PTL DEF ChainSpec

\* With two stages, an older start that is still alive is never ahead of the
\* latest one: whatever happens to it happens to the latest as well.
LEMMA OlderStart ==
  ASSUME NEW win \in Seq(Nat \ {0}), Len(win) = 1, NEW b \in Nat,
         NEW c \in Candidate(win, b) \ {Idle}, NEW d \in Candidate(win, b) \ {Idle},
         c.tau <= d.tau, NEW match, NEW gap, NEW abort
  PROVE  /\ Completes(c, win, b, match, gap, abort)
              => Completes(d, win, b, match, gap, abort)
         /\ Progress(c, win, b, match, gap, abort) # Idle
              => /\ Progress(c, win, b, match, gap, abort) = c
                 /\ Progress(d, win, b, match, gap, abort) = d
<1>0. LastStage(win) = 1 /\ win[1] \in Nat
  <2>1. 1 \in 1 .. Len(win)
    OBVIOUS
  <2>2. win[1] \in Nat \ {0}
    BY <2>1, ElementOfSeq
  <2> QED
    BY <2>2 DEF LastStage
<1>1. \A e \in Candidate(win, b) \ {Idle} :
        e.stage = 0 /\ e.tau \in Nat /\ e.tau < b
  <2>1. \A e \in Candidate(win, b) \ {Idle} :
          e \in [stage : 0 .. 0, tau : 0 .. b - 1]
    BY <1>0 DEF Candidate
  <2> QED
    BY <2>1
<1>2. InFlight(c, win) /\ InFlight(d, win)
  BY <1>0, <1>1 DEF InFlight
<1>3. ~Dropped(c, win, b, gap, abort) => ~Dropped(d, win, b, gap, abort)
  BY <1>0, <1>1, <1>2 DEF Dropped
<1>4. /\ ~Dropped(c, win, b, gap, abort) /\ Advances(c, win, b, match)
           => Advances(d, win, b, match)
      /\ ~Dropped(c, win, b, gap, abort) /\ ~Advances(c, win, b, match)
           => ~Advances(d, win, b, match)
  BY <1>0, <1>1, <1>2 DEF Dropped, Advances
<1>5. c.stage + 1 = LastStage(win) /\ d.stage + 1 = LastStage(win)
  BY <1>0, <1>1
<1> QED
  BY <1>3, <1>4, <1>5 DEF Completes, Progress

\* "2-stage chains coincide with multi-candidate".
THEOREM TwoStagesExact == ChainSpec => []TwoStagesCoincide
<1> DEFINE Inv == CandidateIsLive /\ LatestStart /\ TwoStagesCoincide
<1>1. ChainInit => Inv
  BY DEF ChainInit, CandidateIsLive, LatestStart, TwoStagesCoincide
<1>2. ChainTypeOK /\ CandidateIsLive' /\ Inv /\ [ChainLoop]_chainVars => Inv'
  <2> SUFFICES ASSUME ChainTypeOK, CandidateIsLive', Inv, [ChainLoop]_chainVars PROVE Inv'
    OBVIOUS
  <2>1. CASE UNCHANGED chainVars
    BY <2>1 DEF CandidateIsLive, LatestStart, TwoStagesCoincide, chainVars
  <2>2. ASSUME NEW match, NEW gap, NEW abort, ChainBar(match, gap, abort)
        PROVE  Inv'
    <3> SUFFICES ASSUME LastStage(windows) = 1
                 PROVE  LatestStart' /\ TwoStagesCoincide'
      BY <2>2 DEF ChainBar, LatestStart, TwoStagesCoincide
    <3>1. /\ windows \in Seq(Nat \ {0}) /\ Len(windows) = 1
          /\ bar \in Nat /\ windows' = windows
      BY <2>2, ChainsAssumption, GridAssumption DEF ChainTypeOK, ChainBar, LastStage
    <3> DEFINE P(c) == Progress(c, windows, bar, match, gap, abort)
               F(c) == Completes(c, windows, bar, match, gap, abort)
    <3>2. \A c \in live : /\ cand # Idle /\ cand \in Candidate(windows, bar)
                          /\ c \in Candidate(windows, bar) \ {Idle}
                          /\ c.tau <= cand.tau
      BY DEF LatestStart, ChainTypeOK
    <3>3. \A c \in live : /\ F(c) => F(cand)
                          /\ P(c) # Idle => P(c) = c /\ P(cand) = cand
      BY <3>1, <3>2, OlderStart
    <3>4. LatestStart'
      <4>1. CASE 0 \in match
        <5>1. cand' = [stage |-> 0, tau |-> bar]
          BY <2>2, <4>1 DEF ChainBar, ChainNext
        <5>2. \A c \in live : c.tau <= bar
          BY <3>1, <3>2 DEF Candidate
        <5>3. \A c \in live' : c.tau <= bar
          BY <2>2, <4>1, <5>2, <3>3, <3>1 DEF ChainBar, LiveNext
        <5> QED
          BY <5>1, <5>3 DEF LatestStart, Idle
      <4>2. CASE 0 \notin match
        <5>1. cand' = P(cand) /\ live' = { P(c) : c \in live } \ {Idle}
          BY <2>2, <4>2 DEF ChainBar, ChainNext, LiveNext
        <5>2. \A c \in live' : c \in live /\ cand' = cand
          BY <5>1, <3>3
        <5> QED
          BY <5>2, <3>2 DEF LatestStart
      <4> QED
        BY <4>1, <4>2
    <3>5. LiveFires(live, windows, bar, match, gap, abort) <=> F(cand)
      <4>1. F(cand) => cand \in live
        BY IdleStays DEF CandidateIsLive
      <4> QED
        BY <4>1, <3>3 DEF LiveFires
    <3>6. TwoStagesCoincide'
      BY <2>2, <3>5 DEF ChainBar, TwoStagesCoincide
    <3> QED
      BY <3>4, <3>6
  <2> QED
    BY <2>1, <2>2 DEF ChainLoop
<1>3. Inv => TwoStagesCoincide
  OBVIOUS
<1> QED
  BY <1>1, <1>2, <1>3, ChainTyped, NeverFiresSpuriously, PTL DEF ChainSpec
=============================================================================
