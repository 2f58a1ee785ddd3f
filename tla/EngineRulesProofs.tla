-------------------------- MODULE EngineRulesProofs --------------------------
(***************************************************************************)
(* Proofs about the account of a held option leg (EngineRules, HoldPnl),   *)
(* for every leg, every series of bars and any quotes missing from it. A   *)
(* number is a fraction in lowest terms (Floats), so the arithmetic is     *)
(* exact; its rules are proved from Euclid's algorithm. The account is a   *)
(* recursive function of the bars: what holds at each of them follows by   *)
(* induction on the naturals.                                              *)
(***************************************************************************)
EXTENDS EngineRules, FiniteSetTheorems, SequenceTheorems, WellFoundedInduction, TLAPS

-----------------------------------------------------------------------------
(* Numbers: Euclid's algorithm and fractions in lowest terms               *)

\* A set of naturals that holds 0 and every successor holds them all.
LEMMA NatIsAll ==
  ASSUME NEW P, 0 \in P, \A n \in Nat : n \in P => n + 1 \in P
  PROVE  \A n \in Nat : n \in P
<1> DEFINE R == OpToRel(<, Nat)
           Q == Nat \ P
<1>1. IsWellFoundedOn(R, Nat)
  BY NatLessThanWellFounded
<1>2. \A i, j \in Nat : i < j => <<i, j>> \in R
  BY DEF OpToRel
<1> HIDE DEF R
<1>3. SUFFICES ASSUME Q # {} PROVE FALSE
  OBVIOUS
<1>4. PICK m \in Q : \A k \in Q : <<k, m>> \notin R
  BY <1>1, <1>3, WFMin
<1>5. m # 0 /\ m \in Nat
  OBVIOUS
<1>6. m - 1 \in Nat /\ m - 1 < m /\ (m - 1) + 1 = m
  BY <1>5
<1>7. m - 1 \notin Q
  BY <1>2, <1>4, <1>5, <1>6
<1> QED
  BY <1>5, <1>6, <1>7

\* The pairs whose second part is at most n, and a step of Euclid's algorithm.
Pairs(n) == {p \in Nat \X Nat : p[2] <= n}
Rest(p) == <<p[2], p[1] % p[2]>>

\* g is the divisor function on the pairs whose second part is at most n.
Divides(g, n) == g = [p \in Pairs(n) |-> IF p[2] = 0 THEN p[1] ELSE g[Rest(p)]]

\* A step makes the second part smaller.
LEMMA RestIsLess ==
  ASSUME NEW n \in Nat, NEW p \in Pairs(n + 1), p[2] # 0
  PROVE  Rest(p) \in Pairs(n) /\ Rest(p)[2] < p[2] /\ p \in Nat \X Nat
<1>1. p \in Nat \X Nat /\ p[2] <= n + 1
  BY DEF Pairs
<1>2. p[1] \in Nat /\ p[2] \in Nat /\ p[2] > 0
  BY <1>1
<1> DEFINE a == p[1]
           b == p[2]
<1>3. a % b \in 0..(b - 1)
  BY <1>2
<1> QED
  BY <1>1, <1>2, <1>3 DEF Rest, Pairs

\* Two such functions agree where both are defined.
LEMMA GcdUnique ==
  ASSUME NEW n \in Nat, NEW m \in Nat, NEW g, NEW h, Divides(g, n), Divides(h, m), n <= m
  PROVE  \A p \in Pairs(n) : g[p] = h[p]
<1> DEFINE P == {k \in Nat : \A p \in Nat \X Nat : p[2] <= k /\ p[2] <= n => g[p] = h[p]}
<1>1. 0 \in P
  <2> SUFFICES ASSUME NEW p \in Nat \X Nat, p[2] <= 0 PROVE g[p] = h[p]
    OBVIOUS
  <2>1. p[2] = 0 /\ p \in Pairs(n) /\ p \in Pairs(m)
    BY DEF Pairs
  <2> QED
    BY <2>1 DEF Divides
<1>2. ASSUME NEW k \in Nat, k \in P PROVE k + 1 \in P
  <2> SUFFICES ASSUME NEW p \in Nat \X Nat, p[2] <= k + 1, p[2] <= n PROVE g[p] = h[p]
    OBVIOUS
  <2>1. p \in Pairs(n) /\ p \in Pairs(m) /\ p \in Pairs(k + 1)
    BY DEF Pairs
  <2>2. CASE p[2] = 0
    BY <2>1, <2>2 DEF Divides
  <2>3. CASE p[2] # 0
    <3>1. Rest(p) \in Pairs(k) /\ Rest(p)[2] < p[2]
      BY <2>1, <2>3, RestIsLess
    <3>2. Rest(p) \in Nat \X Nat /\ Rest(p)[2] <= k /\ Rest(p)[2] <= n
      BY <3>1 DEF Pairs
    <3>3. g[Rest(p)] = h[Rest(p)]
      BY <1>2, <3>2
    <3> QED
      BY <2>1, <2>3, <3>3 DEF Divides
  <2> QED
    BY <2>2, <2>3
<1>3. \A k \in Nat : k \in P
  <2> HIDE DEF P
  <2> QED
    BY <1>1, <1>2, NatIsAll
<1> QED
  BY <1>3 DEF Pairs

\* There is one for every n.
LEMMA GcdExists == \A n \in Nat : \E g : Divides(g, n)
<1> DEFINE P == {n \in Nat : \E g : Divides(g, n)}
<1>1. 0 \in P
  <2> DEFINE g == [p \in Pairs(0) |-> p[1]]
  <2>1. \A p \in Pairs(0) : p[2] = 0
    BY DEF Pairs
  <2>2. Divides(g, 0)
    BY <2>1 DEF Divides
  <2> QED
    BY <2>2
<1>2. ASSUME NEW n \in Nat, n \in P PROVE n + 1 \in P
  <2>1. PICK g : Divides(g, n)
    BY <1>2
  <2> DEFINE h == [p \in Pairs(n + 1) |-> IF p[2] = 0 THEN p[1] ELSE g[Rest(p)]]
  <2>2. ASSUME NEW p \in Pairs(n + 1), p[2] # 0 PROVE g[Rest(p)] = h[Rest(p)]
    <3>1. Rest(p) \in Pairs(n)
      BY <2>2, RestIsLess
    <3>2. Rest(p) \in Pairs(n + 1)
      BY <3>1 DEF Pairs
    <3> QED
      BY <2>1, <3>1, <3>2 DEF Divides
  <2>3. Divides(h, n + 1)
    BY <2>2 DEF Divides
  <2> QED
    BY <2>3
<1> HIDE DEF P
<1>3. \A n \in Nat : n \in P
  BY <1>1, <1>2, NatIsAll
<1> QED
  BY <1>3 DEF P

\* So Gcd is what its definition says.
LEMMA GcdIs ==
  ASSUME NEW a \in Nat, NEW b \in Nat
  PROVE  Gcd[<<a, b>>] = IF b = 0 THEN a ELSE Gcd[<<b, a % b>>]
<1> DEFINE F(n) == CHOOSE g : Divides(g, n)
           G == [p \in Nat \X Nat |-> F(p[2])[p]]
<1>1. \A n \in Nat : Divides(F(n), n)
  BY GcdExists
<1> HIDE DEF F
<1>2. ASSUME NEW p \in Nat \X Nat
      PROVE  G[p] = IF p[2] = 0 THEN p[1] ELSE G[<<p[2], p[1] % p[2]>>]
  <2>1. p[2] \in Nat /\ p \in Pairs(p[2]) /\ p \in Pairs(p[2] + 1)
    BY DEF Pairs
  <2>2. F(p[2])[p] = IF p[2] = 0 THEN p[1] ELSE F(p[2])[Rest(p)]
    BY <1>1, <2>1 DEF Divides
  <2>3. CASE p[2] # 0
    <3>1. Rest(p) \in Nat \X Nat /\ Rest(p)[2] < p[2] /\ Rest(p)[2] \in Nat
      BY <2>1, <2>3, RestIsLess DEF Pairs
    <3>2. Rest(p) \in Pairs(Rest(p)[2])
      BY <3>1 DEF Pairs
    <3>3. F(Rest(p)[2])[Rest(p)] = F(p[2])[Rest(p)]
      BY <1>1, <2>1, <3>1, <3>2, GcdUnique
    <3>4. G[Rest(p)] = F(Rest(p)[2])[Rest(p)]
      BY <3>1
    <3> QED
      BY <2>2, <2>3, <3>3, <3>4 DEF Rest
  <2> QED
    BY <2>2, <2>3
<1>3. G = [p \in Nat \X Nat |-> IF p[2] = 0 THEN p[1] ELSE G[<<p[2], p[1] % p[2]>>]]
  BY <1>2
<1> HIDE DEF G
<1>4. Gcd = [p \in Nat \X Nat |-> IF p[2] = 0 THEN p[1] ELSE Gcd[<<p[2], p[1] % p[2]>>]]
  BY <1>3 DEF Gcd
<1> QED
  BY <1>4

\* A divisor of a and b that is a combination of them.
IsGcd(g, a, b) ==
  /\ g \in Nat
  /\ \E k, l \in Nat : a = g * k /\ b = g * l
  /\ \E s, t \in Int : s * a + t * b = g

\* It is one of b and a % b, too.
LEMMA Euclid ==
  ASSUME NEW a \in Nat, NEW b \in Nat, b # 0, NEW g, IsGcd(g, b, a % b)
  PROVE  IsGcd(g, a, b)
<1> DEFINE q == a \div b
           r == a % b
<1>1. q \in Nat /\ r \in Nat /\ a = b * q + r
  <2>1. q \in Int /\ r \in 0..(b - 1) /\ a = b * q + r
    OBVIOUS
  <2>2. q \in Nat
    OBVIOUS
  <2> QED
    BY <2>1, <2>2
<1>2. PICK k \in Nat, l \in Nat : b = g * k /\ r = g * l
  BY DEF IsGcd
<1>3. PICK s \in Int, t \in Int : s * b + t * r = g
  BY DEF IsGcd
<1> HIDE DEF q, r
<1>4. g \in Nat
  BY DEF IsGcd
<1>5. a = g * (k * q + l) /\ k * q + l \in Nat
  <2>1. k * q \in Nat
    BY <1>1
  <2>2. a = (g * k) * q + g * l
    BY <1>1, <1>2
  <2>3. (g * k) * q + g * l = g * (k * q + l)
    BY <1>1, <1>4
  <2> QED
    BY <2>1, <2>2, <2>3
<1>6. t * a + (s - t * q) * b = g /\ s - t * q \in Int
  <2>1. t * (b * q + r) + (s - t * q) * b = s * b + t * r
    BY <1>1
  <2>2. s - t * q \in Int
    BY <1>1
  <2> QED
    BY <1>1, <1>3, <2>1, <2>2
<1> QED
  BY <1>2, <1>4, <1>5, <1>6 DEF IsGcd

\* Gcd is one.
LEMMA GcdIsGcd == \A a, b \in Nat : IsGcd(Gcd[<<a, b>>], a, b)
<1> DEFINE P == {n \in Nat : \A a, b \in Nat : b <= n => IsGcd(Gcd[<<a, b>>], a, b)}
<1>1. ASSUME NEW a \in Nat PROVE IsGcd(Gcd[<<a, 0>>], a, 0)
  <2>1. Gcd[<<a, 0>>] = a
    BY GcdIs
  <2>2. a = a * 1 /\ 0 = a * 0 /\ 1 * a + 0 * 0 = a
    OBVIOUS
  <2> QED
    BY <2>1, <2>2 DEF IsGcd
<1>2. 0 \in P
  BY <1>1
<1>3. ASSUME NEW n \in Nat, n \in P PROVE n + 1 \in P
  <2> SUFFICES ASSUME NEW a \in Nat, NEW b \in Nat, b <= n + 1 PROVE IsGcd(Gcd[<<a, b>>], a, b)
    OBVIOUS
  <2>1. CASE b = 0
    BY <1>1, <2>1
  <2>2. CASE b # 0
    <3>1. a % b \in Nat /\ a % b <= n
      <4>1. a % b \in 0..(b - 1)
        BY <2>2
      <4> QED
        BY <4>1
    <3>2. IsGcd(Gcd[<<b, a % b>>], b, a % b)
      BY <1>3, <3>1
    <3>3. Gcd[<<a, b>>] = Gcd[<<b, a % b>>]
      BY <2>2, GcdIs
    <3> QED
      BY <2>2, <3>2, <3>3, Euclid
  <2> QED
    BY <2>1, <2>2
<1> HIDE DEF P
<1>4. \A n \in Nat : n \in P
  BY <1>2, <1>3, NatIsAll
<1> SUFFICES ASSUME NEW a \in Nat, NEW b \in Nat PROVE IsGcd(Gcd[<<a, b>>], a, b)
  OBVIOUS
<1> QED
  BY <1>4, b \in P, b <= b DEF P

\* The fractions in lowest terms; x is n/d in lowest terms.
Ratio == {x \in Int \X Nat : x[2] # 0 /\ \E s, t \in Int : s * x[1] + t * x[2] = 1}
Is(x, n, d) == x \in Ratio /\ x[1] * d = n * x[2]

\* A factor that is not 0 can be dropped.
LEMMA Cancel ==
  ASSUME NEW a \in Int, NEW b \in Int, NEW c \in Int, c # 0, a * c = b * c
  PROVE  a = b
<1>1. (a - b) * c = 0 /\ a - b \in Int
  OBVIOUS
<1>2. \A u \in Int : u * c = 0 => u = 0
  OBVIOUS
<1>3. a - b = 0
  BY <1>1, <1>2
<1> QED
  BY <1>3

\* A multiple of g, divided by g.
LEMMA DivExact ==
  ASSUME NEW g \in Nat, g # 0, NEW k \in Int
  PROVE  (g * k) \div g = k
<1> DEFINE q == (g * k) \div g
           r == (g * k) % g
<1>1. q \in Int /\ r \in 0..(g - 1) /\ g * k = g * q + r
  OBVIOUS
<1> HIDE DEF q, r
<1>2. g * (k - q) = r
  BY <1>1
<1>3. k - q \in Int
  BY <1>1
<1>4. \A u \in Int : u > 0 => g * u >= g
  OBVIOUS
<1>5. \A u \in Int : u < 0 => g * u < 0
  OBVIOUS
<1>6. k - q = 0
  BY <1>1, <1>2, <1>3, <1>4, <1>5
<1> QED
  BY <1>1, <1>6 DEF q

\* A fraction in lowest terms is the one it looks like.
LEMMA RatioIs ==
  ASSUME NEW x \in Ratio
  PROVE  /\ x = <<x[1], x[2]>> /\ x[1] \in Int /\ x[2] \in Nat /\ x[2] # 0 /\ x[2] > 0
         /\ Is(x, x[1], x[2])
  BY DEF Ratio, Is

\* Frac brings a fraction into lowest terms.
LEMMA FracIs ==
  ASSUME NEW n \in Int, NEW d \in Int, d # 0
  PROVE  Is(Frac(n, d), n, d)
<1> DEFINE a == Abs(n)
           b == Abs(d)
           g == Gcd[<<a, b>>]
           m == IF d < 0 THEN -n ELSE n
<1>1. a \in Nat /\ b \in Nat /\ b # 0 /\ m \in Int /\ (m = a \/ m = -a)
  BY DEF Abs
<1>2. IsGcd(g, a, b)
  BY <1>1, GcdIsGcd
<1>3. Frac(n, d) = Lowest(m, b, g)
  BY DEF Frac
<1>4. m * b = n * d /\ m * d = n * b
  BY DEF Abs
<1>5. b = d \/ b = -d
  BY DEF Abs
<1> HIDE DEF a, b, g, m
<1>6. g \in Nat
  BY <1>2 DEF IsGcd
<1>7. PICK k \in Nat, l \in Nat : a = g * k /\ b = g * l
  BY <1>2 DEF IsGcd
<1>8. PICK s \in Int, t \in Int : s * a + t * b = g
  BY <1>2 DEF IsGcd
<1>9. g # 0 /\ l # 0
  BY <1>1, <1>6, <1>7
<1>10. PICK k1 \in Int, s1 \in Int : m = g * k1 /\ s1 * k1 = s * k
  <2>1. CASE m = a
    BY <1>7, <2>1
  <2>2. CASE m = -a
    <3>1. m = g * (-k) /\ (-s) * (-k) = s * k
      BY <1>6, <1>7, <2>2
    <3> QED
      BY <3>1, -k \in Int, -s \in Int
  <2> QED
    BY <1>1, <2>1, <2>2
<1>11. m \div g = k1 /\ b \div g = l
  BY <1>6, <1>7, <1>9, <1>10, DivExact
<1>12. Frac(n, d) = <<k1, l>>
  BY <1>3, <1>9, <1>11 DEF Lowest
<1>13. s1 * k1 + t * l = 1
  <2>1. s * (g * k) + t * (g * l) = g
    BY <1>7, <1>8
  <2>2. (s * k + t * l) * g = 1 * g
    BY <2>1, <1>6
  <2>3. s * k + t * l = 1
    BY <2>2, <1>6, <1>9, Cancel, s * k + t * l \in Int
  <2> QED
    BY <1>10, <2>3
<1>14. <<k1, l>> \in Ratio
  BY <1>9, <1>13 DEF Ratio
<1>15. k1 * d = n * l
  <2>1. (g * k1) * d = n * (g * l)
    BY <1>4, <1>7, <1>10
  <2>2. (k1 * d) * g = (n * l) * g
    BY <2>1, <1>6
  <2> QED
    BY <2>2, <1>6, <1>9, Cancel, k1 * d \in Int, n * l \in Int
<1> QED
  BY <1>12, <1>14, <1>15 DEF Is

\* Equal fractions: the denominator of the one divides that of the other.
LEMMA Divide ==
  ASSUME NEW x \in Ratio, NEW y \in Ratio, x[1] * y[2] = y[1] * x[2]
  PROVE  \E u \in Int : y[2] = x[2] * u
<1>1. PICK s \in Int, t \in Int : s * x[1] + t * x[2] = 1
  BY DEF Ratio
<1>2. x[1] \in Int /\ x[2] \in Int /\ y[1] \in Int /\ y[2] \in Int
  BY RatioIs
<1> DEFINE x1 == x[1]
           x2 == x[2]
           y1 == y[1]
           y2 == y[2]
<1>3. /\ x1 \in Int /\ x2 \in Int /\ y1 \in Int /\ y2 \in Int /\ x1 * y2 = y1 * x2
      /\ s * x1 + t * x2 = 1
  BY <1>1, <1>2
<1> HIDE DEF x1, x2, y1, y2
<1>4. y2 = y2 * (s * x1 + t * x2)
  BY <1>3
<1>5. y2 * (s * x1 + t * x2) = s * (x1 * y2) + t * x2 * y2
  BY <1>3
<1>6. s * (y1 * x2) + t * x2 * y2 = x2 * (s * y1 + t * y2)
  BY <1>3
<1>7. y2 = x2 * (s * y1 + t * y2)
  BY <1>3, <1>4, <1>5, <1>6
<1>8. s * y1 + t * y2 \in Int
  BY <1>3
<1> QED
  BY <1>7, <1>8 DEF x2, y2

\* Equal fractions in lowest terms are the same.
LEMMA LowestIsUnique ==
  ASSUME NEW x \in Ratio, NEW y \in Ratio, x[1] * y[2] = y[1] * x[2]
  PROVE  x = y
<1>1. PICK u \in Int : y[2] = x[2] * u
  BY Divide
<1>2. PICK v \in Int : x[2] = y[2] * v
  BY Divide
<1> DEFINE x2 == x[2]
           y2 == y[2]
<1>3. x2 \in Nat /\ y2 \in Nat /\ x2 > 0 /\ y2 > 0 /\ y2 = x2 * u /\ x2 = y2 * v
  BY <1>1, <1>2, RatioIs
<1>4. x2 = y2
  <2> HIDE DEF x2, y2
  <2>1. u > 0 /\ v > 0
    BY <1>3
  <2>2. x2 * u >= x2 /\ y2 * v >= y2
    BY <1>3, <2>1
  <2> QED
    BY <1>3, <2>2
<1>5. x[1] = y[1]
  BY <1>4, RatioIs, Cancel
<1> QED
  BY <1>4, <1>5, RatioIs

\* So what equals the same fraction is the same.
LEMMA Same ==
  ASSUME NEW x, NEW y, NEW n \in Int, NEW d \in Int, NEW m \in Int, NEW e \in Int,
         d # 0, e # 0, Is(x, n, d), Is(y, m, e), n * e = m * d
  PROVE  x = y
<1>1. x \in Ratio /\ y \in Ratio
  BY DEF Is
<1> DEFINE x1 == x[1]
           x2 == x[2]
           y1 == y[1]
           y2 == y[2]
<1>2. /\ x1 \in Int /\ x2 \in Int /\ y1 \in Int /\ y2 \in Int
      /\ x1 * d = n * x2 /\ y1 * e = m * y2
  BY <1>1, RatioIs DEF Is
<1>3. x1 * y2 = y1 * x2
  <2> HIDE DEF x1, x2, y1, y2
  <2>1. (x1 * y2) * (d * e) = (x1 * d) * (y2 * e)
    BY <1>2
  <2>2. (n * x2) * (y2 * e) = (n * e) * (x2 * y2)
    BY <1>2
  <2>3. (m * d) * (x2 * y2) = (m * y2) * (d * x2)
    BY <1>2
  <2>4. (y1 * e) * (d * x2) = (y1 * x2) * (d * e)
    BY <1>2
  <2>5. (x1 * y2) * (d * e) = (y1 * x2) * (d * e)
    BY <1>2, <2>1, <2>2, <2>3, <2>4
  <2>6. d * e \in Int /\ d * e # 0
    OBVIOUS
  <2> QED
    BY <1>2, <2>5, <2>6, Cancel, x1 * y2 \in Int, y1 * x2 \in Int
<1> QED
  BY <1>1, <1>3, LowestIsUnique

\* A fraction may be written with any other denominator.
LEMMA Rescale ==
  ASSUME NEW x, NEW n \in Int, NEW d \in Int, NEW m \in Int, NEW e \in Int,
         d # 0, Is(x, n, d), n * e = m * d
  PROVE  Is(x, m, e)
<1> DEFINE x1 == x[1]
           x2 == x[2]
<1>1. x \in Ratio /\ x1 \in Int /\ x2 \in Int /\ x1 * d = n * x2
  BY RatioIs DEF Is
<1>2. x1 * e = m * x2
  <2> HIDE DEF x1, x2
  <2>1. (x1 * e) * d = (x1 * d) * e
    BY <1>1
  <2>2. (n * x2) * e = (n * e) * x2
    BY <1>1
  <2>3. (m * d) * x2 = (m * x2) * d
    BY <1>1
  <2>4. (x1 * e) * d = (m * x2) * d
    BY <1>1, <2>1, <2>2, <2>3
  <2> QED
    BY <1>1, <2>4, Cancel, x1 * e \in Int, m * x2 \in Int
<1> QED
  BY <1>1, <1>2 DEF Is

\* Add adds fractions.
LEMMA IsAdd ==
  ASSUME NEW x, NEW y, NEW n \in Int, NEW d \in Int, NEW m \in Int, NEW e \in Int,
         d # 0, e # 0, Is(x, n, d), Is(y, m, e)
  PROVE  Is(Add(x, y), n * e + m * d, d * e) /\ d * e # 0
<1> DEFINE x1 == x[1]
           x2 == x[2]
           y1 == y[1]
           y2 == y[2]
<1>1. /\ x1 \in Int /\ x2 \in Int /\ x2 # 0 /\ y1 \in Int /\ y2 \in Int /\ y2 # 0
      /\ x1 * d = n * x2 /\ y1 * e = m * y2
  BY RatioIs DEF Is
<1>2. Add(x, y) = Frac(x1 * y2 + y1 * x2, x2 * y2)
  BY <1>1 DEF Add
<1> DEFINE z == Add(x, y)
<1> HIDE DEF x1, x2, y1, y2, z
<1>3. x2 * y2 \in Int /\ x2 * y2 # 0 /\ x1 * y2 + y1 * x2 \in Int
  BY <1>1
<1>4. Is(z, x1 * y2 + y1 * x2, x2 * y2)
  BY <1>2, <1>3, FracIs DEF z
<1>5. (x1 * y2 + y1 * x2) * (d * e) = (n * e + m * d) * (x2 * y2)
  <2>1. (x1 * y2 + y1 * x2) * (d * e) = (x1 * d) * (y2 * e) + (y1 * e) * (x2 * d)
    BY <1>1
  <2>2. (n * x2) * (y2 * e) + (m * y2) * (x2 * d) = (n * e + m * d) * (x2 * y2)
    BY <1>1
  <2> QED
    BY <1>1, <2>1, <2>2
<1>6. d * e \in Int /\ d * e # 0 /\ n * e + m * d \in Int
  OBVIOUS
<1> QED
  BY <1>3, <1>4, <1>5, <1>6, Rescale DEF z

\* Mul multiplies them.
LEMMA IsMul ==
  ASSUME NEW x, NEW y, NEW n \in Int, NEW d \in Int, NEW m \in Int, NEW e \in Int,
         d # 0, e # 0, Is(x, n, d), Is(y, m, e)
  PROVE  Is(Mul(x, y), n * m, d * e) /\ d * e # 0
<1> DEFINE x1 == x[1]
           x2 == x[2]
           y1 == y[1]
           y2 == y[2]
<1>1. /\ x1 \in Int /\ x2 \in Int /\ x2 # 0 /\ y1 \in Int /\ y2 \in Int /\ y2 # 0
      /\ x1 * d = n * x2 /\ y1 * e = m * y2
  BY RatioIs DEF Is
<1>2. Mul(x, y) = Frac(x1 * y1, x2 * y2)
  BY DEF Mul
<1> DEFINE z == Mul(x, y)
<1> HIDE DEF x1, x2, y1, y2, z
<1>3. x2 * y2 \in Int /\ x2 * y2 # 0 /\ x1 * y1 \in Int
  BY <1>1
<1>4. Is(z, x1 * y1, x2 * y2)
  BY <1>2, <1>3, FracIs DEF z
<1>5. (x1 * y1) * (d * e) = (n * m) * (x2 * y2)
  <2>1. (x1 * y1) * (d * e) = (x1 * d) * (y1 * e)
    BY <1>1
  <2>2. (n * x2) * (m * y2) = (n * m) * (x2 * y2)
    BY <1>1
  <2> QED
    BY <1>1, <2>1, <2>2
<1>6. d * e \in Int /\ d * e # 0 /\ n * m \in Int
  OBVIOUS
<1> QED
  BY <1>3, <1>4, <1>5, <1>6, Rescale DEF z

\* Div divides by one that is not 0.
LEMMA IsDiv ==
  ASSUME NEW x, NEW y, NEW n \in Int, NEW d \in Int, NEW m \in Int, NEW e \in Int,
         d # 0, e # 0, m # 0, Is(x, n, d), Is(y, m, e)
  PROVE  Is(Div(x, y), n * e, d * m) /\ d * m # 0
<1> DEFINE x1 == x[1]
           x2 == x[2]
           y1 == y[1]
           y2 == y[2]
<1>1. /\ x1 \in Int /\ x2 \in Int /\ x2 # 0 /\ y1 \in Int /\ y2 \in Int /\ y2 # 0
      /\ x1 * d = n * x2 /\ y1 * e = m * y2
  BY RatioIs DEF Is
<1>2. Div(x, y) = Frac(x1 * y2, x2 * y1)
  BY DEF Div
<1> DEFINE z == Div(x, y)
<1> HIDE DEF x1, x2, y1, y2, z
<1>3. y1 # 0
  <2>1. m * y2 # 0
    BY <1>1
  <2> QED
    BY <1>1, <2>1
<1>4. x2 * y1 \in Int /\ x2 * y1 # 0 /\ x1 * y2 \in Int
  BY <1>3, <1>1
<1>5. Is(z, x1 * y2, x2 * y1)
  BY <1>2, <1>4, FracIs DEF z
<1>6. (x1 * y2) * (d * m) = (n * e) * (x2 * y1)
  <2>1. (x1 * y2) * (d * m) = (x1 * d) * (m * y2)
    BY <1>1
  <2>2. (n * x2) * (y1 * e) = (n * e) * (x2 * y1)
    BY <1>1
  <2> QED
    BY <1>1, <2>1, <2>2
<1>7. d * m \in Int /\ d * m # 0 /\ n * e \in Int
  OBVIOUS
<1> QED
  BY <1>4, <1>5, <1>6, <1>7, Rescale DEF z

\* Neg negates one.
LEMMA IsNeg ==
  ASSUME NEW x, NEW n \in Int, NEW d \in Int, Is(x, n, d)
  PROVE  Is(Neg(x), -n, d)
<1>1. x \in Ratio /\ x[1] \in Int /\ x[2] \in Nat /\ x[2] # 0 /\ x[1] * d = n * x[2]
  BY RatioIs DEF Is
<1>2. PICK s \in Int, t \in Int : s * x[1] + t * x[2] = 1
  BY <1>1 DEF Ratio
<1>3. (-s) * (-x[1]) + t * x[2] = 1 /\ -s \in Int /\ -x[1] \in Int
  BY <1>1, <1>2
<1>4. Neg(x) \in Ratio
  BY <1>1, <1>3 DEF Ratio, Neg
<1>5. (-x[1]) * d = (-n) * x[2]
  BY <1>1
<1> QED
  BY <1>4, <1>5 DEF Is, Neg

\* Sub subtracts one from another.
LEMMA IsSub ==
  ASSUME NEW x, NEW y, NEW n \in Int, NEW d \in Int, NEW m \in Int, NEW e \in Int,
         d # 0, e # 0, Is(x, n, d), Is(y, m, e)
  PROVE  Is(Sub(x, y), n * e - m * d, d * e) /\ d * e # 0
<1>1. Is(Neg(y), -m, e) /\ -m \in Int
  BY IsNeg
<1>2. Is(Sub(x, y), n * e + (-m) * d, d * e) /\ d * e # 0
  BY <1>1, IsAdd DEF Sub
<1>3. n * e + (-m) * d = n * e - m * d
  OBVIOUS
<1> QED
  BY <1>2, <1>3

\* A whole number is a fraction over 1.
LEMMA IntIs == ASSUME NEW i \in Int PROVE Int2F(i) \in Ratio /\ Is(Int2F(i), i, 1)
<1>1. 0 * i + 1 * 1 = 1
  OBVIOUS
<1>2. Int2F(i) \in Ratio
  BY <1>1, 1 \in Int, 0 \in Int DEF Ratio, Int2F
<1> QED
  BY <1>2 DEF Is, Int2F

\* The absolute value of a fraction is one.
LEMMA AbsIs ==
  ASSUME NEW x \in Ratio
  PROVE  AbsF(x) \in Ratio
<1>1. AbsF(x) = x \/ AbsF(x) = Neg(x)
  BY RatioIs DEF AbsF, Abs, Neg
<1> QED
  BY <1>1, IsNeg, RatioIs DEF Is

\* Every operation but a division by 0 stays within the fractions.
LEMMA Closed ==
  ASSUME NEW x \in Ratio, NEW y \in Ratio
  PROVE  /\ Add(x, y) \in Ratio /\ Sub(x, y) \in Ratio /\ Mul(x, y) \in Ratio
         /\ Neg(x) \in Ratio /\ AbsF(x) \in Ratio
         /\ y # Zero => Div(x, y) \in Ratio
<1>1. /\ Is(x, x[1], x[2]) /\ Is(y, y[1], y[2]) /\ x[1] \in Int /\ x[2] \in Int /\ y[1] \in Int
      /\ y[2] \in Int
      /\ x[2] # 0 /\ y[2] # 0
  BY RatioIs
<1>2. Add(x, y) \in Ratio
  BY <1>1, IsAdd DEF Is
<1>3. Sub(x, y) \in Ratio
  BY <1>1, IsSub DEF Is
<1>4. Mul(x, y) \in Ratio
  BY <1>1, IsMul DEF Is
<1>5. Neg(x) \in Ratio
  BY <1>1, IsNeg DEF Is
<1>6. ASSUME y # Zero PROVE Div(x, y) \in Ratio
  <2>1. y[1] # 0
    <3>1. ASSUME y[1] = 0 PROVE FALSE
      <4>1. Is(y, 0, 1) /\ Is(Zero, 0, 1)
        BY <1>1, <3>1, IntIs DEF Is, Zero
      <4>2. y = Zero
        BY <4>1, Same, 0 \in Int, 1 \in Int, 1 # 0
      <4> QED
        BY <1>6, <4>2
    <3> QED
      BY <3>1
  <2> QED
    BY <1>1, <2>1, IsDiv DEF Is
<1> QED
  BY <1>2, <1>3, <1>4, <1>5, <1>6, AbsIs

\* 0 and 1 as fractions.
LEMMA Units == 0 \in Int /\ 1 \in Int /\ 1 # 0 /\ Is(Zero, 0, 1) /\ Is(One, 1, 1)
  BY IntIs DEF Zero, One

-----------------------------------------------------------------------------
(* The rules of arithmetic the account rests on                            *)

\* The numerator of a fraction that is not 0.
LEMMA NotZero == ASSUME NEW x \in Ratio, x # Zero PROVE x[1] # 0
<1>1. SUFFICES ASSUME x[1] = 0 PROVE FALSE
  OBVIOUS
<1>2. Is(x, 0, 1) /\ Is(Zero, 0, 1)
  BY <1>1, RatioIs, IntIs DEF Is, Zero
<1> QED
  BY <1>2, Same, 0 \in Int, 1 \in Int, 1 # 0

\* 0 + x = x.
LEMMA AddZero ==
  ASSUME NEW x \in Ratio
  PROVE  Add(Zero, x) = x
<1> DEFINE a == x[1]
           b == x[2]
<1>1. /\ a \in Int /\ b \in Int /\ b # 0 /\ Is(x, a, b)
  BY RatioIs
<1> HIDE DEF a, b
<1>2. /\ Is(Add(Zero, x), 0 * b + a * 1, 1 * b) /\ 1 * b # 0
      /\ (0 * b + a * 1) \in Int /\ (1 * b) \in Int
  <2>1. (0 * b + a * 1) \in Int /\ (1 * b) \in Int
    BY <1>1, Units
  <2> QED
    BY <2>1, <1>1, Units, IsAdd
<1>3. (0 * b + a * 1) * b = a * (1 * b)
  BY <1>1
<1> QED
  BY <1>1, Units, <1>3, <1>2, Same

\* x - x = 0.
LEMMA SubSelf ==
  ASSUME NEW x \in Ratio
  PROVE  Sub(x, x) = Zero
<1> DEFINE a == x[1]
           b == x[2]
<1>1. /\ a \in Int /\ b \in Int /\ b # 0 /\ Is(x, a, b)
  BY RatioIs
<1> HIDE DEF a, b
<1>2. /\ Is(Sub(x, x), a * b - a * b, b * b) /\ b * b # 0
      /\ (a * b - a * b) \in Int /\ (b * b) \in Int
  <2>1. (a * b - a * b) \in Int /\ (b * b) \in Int
    BY <1>1, Units
  <2> QED
    BY <2>1, <1>1, Units, IsSub
<1>3. (a * b - a * b) * 1 = 0 * (b * b)
  BY <1>1
<1> QED
  BY <1>1, Units, <1>3, <1>2, Same

\* x - 0 = x.
LEMMA SubZero ==
  ASSUME NEW x \in Ratio
  PROVE  Sub(x, Zero) = x
<1> DEFINE a == x[1]
           b == x[2]
<1>1. /\ a \in Int /\ b \in Int /\ b # 0 /\ Is(x, a, b)
  BY RatioIs
<1> HIDE DEF a, b
<1>2. /\ Is(Sub(x, Zero), a * 1 - 0 * b, b * 1) /\ b * 1 # 0
      /\ (a * 1 - 0 * b) \in Int /\ (b * 1) \in Int
  <2>1. (a * 1 - 0 * b) \in Int /\ (b * 1) \in Int
    BY <1>1, Units
  <2> QED
    BY <2>1, <1>1, Units, IsSub
<1>3. (a * 1 - 0 * b) * b = a * (b * 1)
  BY <1>1
<1> QED
  BY <1>1, Units, <1>3, <1>2, Same

\* 0 x = 0.
LEMMA MulZero ==
  ASSUME NEW x \in Ratio
  PROVE  Mul(Zero, x) = Zero
<1> DEFINE a == x[1]
           b == x[2]
<1>1. /\ a \in Int /\ b \in Int /\ b # 0 /\ Is(x, a, b)
  BY RatioIs
<1> HIDE DEF a, b
<1>2. /\ Is(Mul(Zero, x), 0 * a, 1 * b) /\ 1 * b # 0
      /\ (0 * a) \in Int /\ (1 * b) \in Int
  <2>1. (0 * a) \in Int /\ (1 * b) \in Int
    BY <1>1, Units
  <2> QED
    BY <2>1, <1>1, Units, IsMul
<1>3. (0 * a) * 1 = 0 * (1 * b)
  BY <1>1
<1> QED
  BY <1>1, Units, <1>3, <1>2, Same

\* x 0 = 0.
LEMMA MulByZero ==
  ASSUME NEW x \in Ratio
  PROVE  Mul(x, Zero) = Zero
<1> DEFINE a == x[1]
           b == x[2]
<1>1. /\ a \in Int /\ b \in Int /\ b # 0 /\ Is(x, a, b)
  BY RatioIs
<1> HIDE DEF a, b
<1>2. /\ Is(Mul(x, Zero), a * 0, b * 1) /\ b * 1 # 0
      /\ (a * 0) \in Int /\ (b * 1) \in Int
  <2>1. (a * 0) \in Int /\ (b * 1) \in Int
    BY <1>1, Units
  <2> QED
    BY <2>1, <1>1, Units, IsMul
<1>3. (a * 0) * 1 = 0 * (b * 1)
  BY <1>1
<1> QED
  BY <1>1, Units, <1>3, <1>2, Same

\* 1 x = x.
LEMMA MulOne ==
  ASSUME NEW x \in Ratio
  PROVE  Mul(One, x) = x
<1> DEFINE a == x[1]
           b == x[2]
<1>1. /\ a \in Int /\ b \in Int /\ b # 0 /\ Is(x, a, b)
  BY RatioIs
<1> HIDE DEF a, b
<1>2. /\ Is(Mul(One, x), 1 * a, 1 * b) /\ 1 * b # 0
      /\ (1 * a) \in Int /\ (1 * b) \in Int
  <2>1. (1 * a) \in Int /\ (1 * b) \in Int
    BY <1>1, Units
  <2> QED
    BY <2>1, <1>1, Units, IsMul
<1>3. (1 * a) * b = a * (1 * b)
  BY <1>1
<1> QED
  BY <1>1, Units, <1>3, <1>2, Same

\* x (y z) = (x y) z.
LEMMA MulAssoc ==
  ASSUME NEW x \in Ratio, NEW y \in Ratio, NEW z \in Ratio
  PROVE  Mul(x, Mul(y, z)) = Mul(Mul(x, y), z)
<1> DEFINE a == x[1]
           b == x[2]
           c == y[1]
           d == y[2]
           e == z[1]
           f == z[2]
<1>1. /\ a \in Int /\ b \in Int /\ b # 0 /\ Is(x, a, b)
      /\ c \in Int /\ d \in Int /\ d # 0 /\ Is(y, c, d)
      /\ e \in Int /\ f \in Int /\ f # 0 /\ Is(z, e, f)
  BY RatioIs
<1> HIDE DEF a, b, c, d, e, f
<1>2. /\ Is(Mul(y, z), c * e, d * f) /\ d * f # 0
      /\ (c * e) \in Int /\ (d * f) \in Int
  <2>1. (c * e) \in Int /\ (d * f) \in Int
    BY <1>1, Units
  <2> QED
    BY <2>1, <1>1, Units, IsMul
<1>3. /\ Is(Mul(x, Mul(y, z)), a * (c * e), b * (d * f)) /\ b * (d * f) # 0
      /\ (a * (c * e)) \in Int /\ (b * (d * f)) \in Int
  <2>1. (a * (c * e)) \in Int /\ (b * (d * f)) \in Int
    BY <1>1, Units, <1>2
  <2> QED
    BY <2>1, <1>1, Units, <1>2, IsMul
<1>4. /\ Is(Mul(x, y), a * c, b * d) /\ b * d # 0
      /\ (a * c) \in Int /\ (b * d) \in Int
  <2>1. (a * c) \in Int /\ (b * d) \in Int
    BY <1>1, Units
  <2> QED
    BY <2>1, <1>1, Units, IsMul
<1>5. /\ Is(Mul(Mul(x, y), z), (a * c) * e, (b * d) * f) /\ (b * d) * f # 0
      /\ ((a * c) * e) \in Int /\ ((b * d) * f) \in Int
  <2>1. ((a * c) * e) \in Int /\ ((b * d) * f) \in Int
    BY <1>1, Units, <1>4
  <2> QED
    BY <2>1, <1>1, Units, <1>4, IsMul
<1>6. (a * (c * e)) * ((b * d) * f) = ((a * c) * e) * (b * (d * f))
  BY <1>1
<1> QED
  BY <1>1, Units, <1>6, <1>3, <1>5, Same

\* x y + x z = x (y + z).
LEMMA Distribute ==
  ASSUME NEW x \in Ratio, NEW y \in Ratio, NEW z \in Ratio
  PROVE  Add(Mul(x, y), Mul(x, z)) = Mul(x, Add(y, z))
<1> DEFINE a == x[1]
           b == x[2]
           c == y[1]
           d == y[2]
           e == z[1]
           f == z[2]
<1>1. /\ a \in Int /\ b \in Int /\ b # 0 /\ Is(x, a, b)
      /\ c \in Int /\ d \in Int /\ d # 0 /\ Is(y, c, d)
      /\ e \in Int /\ f \in Int /\ f # 0 /\ Is(z, e, f)
  BY RatioIs
<1> HIDE DEF a, b, c, d, e, f
<1>2. /\ Is(Mul(x, y), a * c, b * d) /\ b * d # 0
      /\ (a * c) \in Int /\ (b * d) \in Int
  <2>1. (a * c) \in Int /\ (b * d) \in Int
    BY <1>1, Units
  <2> QED
    BY <2>1, <1>1, Units, IsMul
<1>3. /\ Is(Mul(x, z), a * e, b * f) /\ b * f # 0
      /\ (a * e) \in Int /\ (b * f) \in Int
  <2>1. (a * e) \in Int /\ (b * f) \in Int
    BY <1>1, Units
  <2> QED
    BY <2>1, <1>1, Units, IsMul
<1>4. /\ Is(Add(Mul(x, y), Mul(x, z)), (a * c) * (b * f) + (a * e) * (b * d), (b * d) * (b * f))
      /\ (b * d) * (b * f) # 0
      /\ ((a * c) * (b * f) + (a * e) * (b * d)) \in Int /\ ((b * d) * (b * f)) \in Int
  <2>1. ((a * c) * (b * f) + (a * e) * (b * d)) \in Int /\ ((b * d) * (b * f)) \in Int
    BY <1>1, Units, <1>2, <1>3
  <2> QED
    BY <2>1, <1>1, Units, <1>2, <1>3, IsAdd
<1>5. /\ Is(Add(y, z), c * f + e * d, d * f) /\ d * f # 0
      /\ (c * f + e * d) \in Int /\ (d * f) \in Int
  <2>1. (c * f + e * d) \in Int /\ (d * f) \in Int
    BY <1>1, Units
  <2> QED
    BY <2>1, <1>1, Units, IsAdd
<1>6. /\ Is(Mul(x, Add(y, z)), a * (c * f + e * d), b * (d * f)) /\ b * (d * f) # 0
      /\ (a * (c * f + e * d)) \in Int /\ (b * (d * f)) \in Int
  <2>1. (a * (c * f + e * d)) \in Int /\ (b * (d * f)) \in Int
    BY <1>1, Units, <1>5
  <2> QED
    BY <2>1, <1>1, Units, <1>5, IsMul
<1>7. ((a * c) * (b * f) + (a * e) * (b * d)) * (b * (d * f))
        = (a * (c * f + e * d)) * ((b * d) * (b * f))
  BY <1>1
<1> QED
  BY <1>1, Units, <1>7, <1>4, <1>6, Same

\* (y - x) + (z - y) = z - x.
LEMMA Telescope ==
  ASSUME NEW x \in Ratio, NEW y \in Ratio, NEW z \in Ratio
  PROVE  Add(Sub(y, x), Sub(z, y)) = Sub(z, x)
<1> DEFINE a == x[1]
           b == x[2]
           c == y[1]
           d == y[2]
           e == z[1]
           f == z[2]
<1>1. /\ a \in Int /\ b \in Int /\ b # 0 /\ Is(x, a, b)
      /\ c \in Int /\ d \in Int /\ d # 0 /\ Is(y, c, d)
      /\ e \in Int /\ f \in Int /\ f # 0 /\ Is(z, e, f)
  BY RatioIs
<1> HIDE DEF a, b, c, d, e, f
<1>2. /\ Is(Sub(y, x), c * b - a * d, d * b) /\ d * b # 0
      /\ (c * b - a * d) \in Int /\ (d * b) \in Int
  <2>1. (c * b - a * d) \in Int /\ (d * b) \in Int
    BY <1>1, Units
  <2> QED
    BY <2>1, <1>1, Units, IsSub
<1>3. /\ Is(Sub(z, y), e * d - c * f, f * d) /\ f * d # 0
      /\ (e * d - c * f) \in Int /\ (f * d) \in Int
  <2>1. (e * d - c * f) \in Int /\ (f * d) \in Int
    BY <1>1, Units
  <2> QED
    BY <2>1, <1>1, Units, IsSub
<1>4. /\ Is(Add(Sub(y, x), Sub(z, y)), (c * b - a * d) * (f * d) + (e * d - c * f) * (d * b), (d * b) * (f * d))
      /\ (d * b) * (f * d) # 0
      /\ ((c * b - a * d) * (f * d) + (e * d - c * f) * (d * b)) \in Int
      /\ ((d * b) * (f * d)) \in Int
  <2>1. /\ ((c * b - a * d) * (f * d) + (e * d - c * f) * (d * b)) \in Int
        /\ ((d * b) * (f * d)) \in Int
    BY <1>1, Units, <1>2, <1>3
  <2> QED
    BY <2>1, <1>1, Units, <1>2, <1>3, IsAdd
<1>5. /\ Is(Sub(z, x), e * b - a * f, f * b) /\ f * b # 0
      /\ (e * b - a * f) \in Int /\ (f * b) \in Int
  <2>1. (e * b - a * f) \in Int /\ (f * b) \in Int
    BY <1>1, Units
  <2> QED
    BY <2>1, <1>1, Units, IsSub
<1>6. ((c * b - a * d) * (f * d) + (e * d - c * f) * (d * b)) * (f * b)
        = (e * b - a * f) * ((d * b) * (f * d))
  BY <1>1
<1> QED
  BY <1>1, Units, <1>6, <1>4, <1>5, Same

\* x (1 + y) - x = x y.
LEMMA Growth ==
  ASSUME NEW x \in Ratio, NEW y \in Ratio
  PROVE  Sub(Mul(x, Add(One, y)), x) = Mul(x, y)
<1> DEFINE a == x[1]
           b == x[2]
           c == y[1]
           d == y[2]
<1>1. /\ a \in Int /\ b \in Int /\ b # 0 /\ Is(x, a, b)
      /\ c \in Int /\ d \in Int /\ d # 0 /\ Is(y, c, d)
  BY RatioIs
<1> HIDE DEF a, b, c, d
<1>2. /\ Is(Add(One, y), 1 * d + c * 1, 1 * d) /\ 1 * d # 0
      /\ (1 * d + c * 1) \in Int /\ (1 * d) \in Int
  <2>1. (1 * d + c * 1) \in Int /\ (1 * d) \in Int
    BY <1>1, Units
  <2> QED
    BY <2>1, <1>1, Units, IsAdd
<1>3. /\ Is(Mul(x, Add(One, y)), a * (1 * d + c * 1), b * (1 * d)) /\ b * (1 * d) # 0
      /\ (a * (1 * d + c * 1)) \in Int /\ (b * (1 * d)) \in Int
  <2>1. (a * (1 * d + c * 1)) \in Int /\ (b * (1 * d)) \in Int
    BY <1>1, Units, <1>2
  <2> QED
    BY <2>1, <1>1, Units, <1>2, IsMul
<1>4. /\ Is(Sub(Mul(x, Add(One, y)), x), (a * (1 * d + c * 1)) * b - a * (b * (1 * d)), (b * (1 * d)) * b) /\ (b * (1 * d)) * b # 0
      /\ ((a * (1 * d + c * 1)) * b - a * (b * (1 * d))) \in Int /\ ((b * (1 * d)) * b) \in Int
  <2>1. ((a * (1 * d + c * 1)) * b - a * (b * (1 * d))) \in Int /\ ((b * (1 * d)) * b) \in Int
    BY <1>1, Units, <1>3
  <2> QED
    BY <2>1, <1>1, Units, <1>3, IsSub
<1>5. /\ Is(Mul(x, y), a * c, b * d) /\ b * d # 0
      /\ (a * c) \in Int /\ (b * d) \in Int
  <2>1. (a * c) \in Int /\ (b * d) \in Int
    BY <1>1, Units
  <2> QED
    BY <2>1, <1>1, Units, IsMul
<1>6. ((a * (1 * d + c * 1)) * b - a * (b * (1 * d))) * (b * d) = (a * c) * ((b * (1 * d)) * b)
  BY <1>1
<1> QED
  BY <1>1, Units, <1>6, <1>4, <1>5, Same

\* A step that ruins, scaled, takes all there was: (-1 / y) (x y) = 0 - x.
LEMMA Ruined ==
  ASSUME NEW x \in Ratio, NEW y \in Ratio, y # Zero
  PROVE  Mul(Div(Neg(One), y), Mul(x, y)) = Sub(Zero, x)
<1> DEFINE a == x[1]
           b == x[2]
           c == y[1]
           d == y[2]
<1>1. /\ a \in Int /\ b \in Int /\ b # 0 /\ Is(x, a, b)
      /\ c \in Int /\ d \in Int /\ d # 0 /\ Is(y, c, d)
  BY RatioIs
<1>2. c # 0
  BY NotZero, RatioIs
<1> HIDE DEF a, b, c, d
<1>3. /\ Is(Neg(One), -1, 1) /\ 1 # 0
      /\ (-1) \in Int /\ 1 \in Int
  <2>1. (-1) \in Int /\ 1 \in Int
    BY <1>1, Units, <1>2
  <2> QED
    BY <2>1, <1>1, Units, <1>2, IsNeg
<1>4. /\ Is(Div(Neg(One), y), (-1) * d, 1 * c) /\ 1 * c # 0
      /\ ((-1) * d) \in Int /\ (1 * c) \in Int
  <2>1. ((-1) * d) \in Int /\ (1 * c) \in Int /\ c # 0
    BY <1>1, Units, <1>2, <1>3
  <2> QED
    BY <2>1, <1>1, Units, <1>2, <1>3, IsDiv
<1>5. /\ Is(Mul(x, y), a * c, b * d) /\ b * d # 0
      /\ (a * c) \in Int /\ (b * d) \in Int
  <2>1. (a * c) \in Int /\ (b * d) \in Int
    BY <1>1, Units, <1>2
  <2> QED
    BY <2>1, <1>1, Units, <1>2, IsMul
<1>6. /\ Is(Mul(Div(Neg(One), y), Mul(x, y)), ((-1) * d) * (a * c), (1 * c) * (b * d))
      /\ (1 * c) * (b * d) # 0
      /\ (((-1) * d) * (a * c)) \in Int /\ ((1 * c) * (b * d)) \in Int
  <2>1. (((-1) * d) * (a * c)) \in Int /\ ((1 * c) * (b * d)) \in Int
    BY <1>1, Units, <1>2, <1>4, <1>5
  <2> QED
    BY <2>1, <1>1, Units, <1>2, <1>4, <1>5, IsMul
<1>7. /\ Is(Sub(Zero, x), 0 * b - a * 1, 1 * b) /\ 1 * b # 0
      /\ (0 * b - a * 1) \in Int /\ (1 * b) \in Int
  <2>1. (0 * b - a * 1) \in Int /\ (1 * b) \in Int
    BY <1>1, Units, <1>2
  <2> QED
    BY <2>1, <1>1, Units, <1>2, IsSub
<1>8. (((-1) * d) * (a * c)) * (1 * b) = (0 * b - a * 1) * ((1 * c) * (b * d))
  BY <1>1
<1> QED
  BY <1>1, Units, <1>8, <1>6, <1>7, Same

\* A size counted in shares of the equity q, taken times q, of futures.
LEMMA ShareOf ==
  ASSUME NEW q \in Ratio, NEW s \in Ratio, NEW r \in Ratio, NEW w \in Ratio, NEW v \in Ratio,
         q # Zero, v # Zero
  PROVE  Mul(q, Div(Mul(Mul(s, Div(r, q)), w), v)) = Mul(Mul(s, r), Div(w, v))
<1> DEFINE a == q[1]
           b == q[2]
           c == s[1]
           d == s[2]
           e == r[1]
           f == r[2]
           g == w[1]
           h == w[2]
           i == v[1]
           j == v[2]
<1>1. /\ a \in Int /\ b \in Int /\ b # 0 /\ Is(q, a, b)
      /\ c \in Int /\ d \in Int /\ d # 0 /\ Is(s, c, d)
      /\ e \in Int /\ f \in Int /\ f # 0 /\ Is(r, e, f)
      /\ g \in Int /\ h \in Int /\ h # 0 /\ Is(w, g, h)
      /\ i \in Int /\ j \in Int /\ j # 0 /\ Is(v, i, j)
  BY RatioIs
<1>2. a # 0
  BY NotZero, RatioIs
<1>3. i # 0
  BY NotZero, RatioIs
<1> HIDE DEF a, b, c, d, e, f, g, h, i, j
<1>4. /\ Is(Div(r, q), e * b, f * a) /\ f * a # 0
      /\ (e * b) \in Int /\ (f * a) \in Int
  <2>1. (e * b) \in Int /\ (f * a) \in Int /\ a # 0
    BY <1>1, Units, <1>2, <1>3
  <2> QED
    BY <2>1, <1>1, Units, <1>2, <1>3, IsDiv
<1>5. /\ Is(Mul(s, Div(r, q)), c * (e * b), d * (f * a)) /\ d * (f * a) # 0
      /\ (c * (e * b)) \in Int /\ (d * (f * a)) \in Int
  <2>1. (c * (e * b)) \in Int /\ (d * (f * a)) \in Int
    BY <1>1, Units, <1>2, <1>3, <1>4
  <2> QED
    BY <2>1, <1>1, Units, <1>2, <1>3, <1>4, IsMul
<1>6. /\ Is(Mul(Mul(s, Div(r, q)), w), (c * (e * b)) * g, (d * (f * a)) * h)
      /\ (d * (f * a)) * h # 0
      /\ ((c * (e * b)) * g) \in Int /\ ((d * (f * a)) * h) \in Int
  <2>1. ((c * (e * b)) * g) \in Int /\ ((d * (f * a)) * h) \in Int
    BY <1>1, Units, <1>2, <1>3, <1>5
  <2> QED
    BY <2>1, <1>1, Units, <1>2, <1>3, <1>5, IsMul
<1>7. /\ Is(Div(Mul(Mul(s, Div(r, q)), w), v), ((c * (e * b)) * g) * j, ((d * (f * a)) * h) * i)
      /\ ((d * (f * a)) * h) * i # 0
      /\ (((c * (e * b)) * g) * j) \in Int /\ (((d * (f * a)) * h) * i) \in Int
  <2>1. (((c * (e * b)) * g) * j) \in Int /\ (((d * (f * a)) * h) * i) \in Int /\ i # 0
    BY <1>1, Units, <1>2, <1>3, <1>6
  <2> QED
    BY <2>1, <1>1, Units, <1>2, <1>3, <1>6, IsDiv
<1>8. /\ Is(Mul(q, Div(Mul(Mul(s, Div(r, q)), w), v)), a * (((c * (e * b)) * g) * j), b * (((d * (f * a)) * h) * i))
      /\ b * (((d * (f * a)) * h) * i) # 0
      /\ (a * (((c * (e * b)) * g) * j)) \in Int /\ (b * (((d * (f * a)) * h) * i)) \in Int
  <2>1. (a * (((c * (e * b)) * g) * j)) \in Int /\ (b * (((d * (f * a)) * h) * i)) \in Int
    BY <1>1, Units, <1>2, <1>3, <1>7
  <2> QED
    BY <2>1, <1>1, Units, <1>2, <1>3, <1>7, IsMul
<1>9. /\ Is(Mul(s, r), c * e, d * f) /\ d * f # 0
      /\ (c * e) \in Int /\ (d * f) \in Int
  <2>1. (c * e) \in Int /\ (d * f) \in Int
    BY <1>1, Units, <1>2, <1>3
  <2> QED
    BY <2>1, <1>1, Units, <1>2, <1>3, IsMul
<1>10. /\ Is(Div(w, v), g * j, h * i) /\ h * i # 0
      /\ (g * j) \in Int /\ (h * i) \in Int
  <2>1. (g * j) \in Int /\ (h * i) \in Int /\ i # 0
    BY <1>1, Units, <1>2, <1>3
  <2> QED
    BY <2>1, <1>1, Units, <1>2, <1>3, IsDiv
<1>11. /\ Is(Mul(Mul(s, r), Div(w, v)), (c * e) * (g * j), (d * f) * (h * i))
       /\ (d * f) * (h * i) # 0
      /\ ((c * e) * (g * j)) \in Int /\ ((d * f) * (h * i)) \in Int
  <2>1. ((c * e) * (g * j)) \in Int /\ ((d * f) * (h * i)) \in Int
    BY <1>1, Units, <1>2, <1>3, <1>9, <1>10
  <2> QED
    BY <2>1, <1>1, Units, <1>2, <1>3, <1>9, <1>10, IsMul
<1>12. (a * (((c * (e * b)) * g) * j)) * ((d * f) * (h * i))
         = ((c * e) * (g * j)) * (b * (((d * (f * a)) * h) * i))
  BY <1>1
<1> QED
  BY <1>1, Units, <1>12, <1>8, <1>11, Same

\* A size counted in shares of the equity q, taken times q, of premium.
LEMMA ShareOfOne ==
  ASSUME NEW q \in Ratio, NEW s \in Ratio, NEW r \in Ratio, NEW v \in Ratio, q # Zero, v # Zero
  PROVE  Mul(q, Div(Mul(s, Div(r, q)), v)) = Mul(Mul(s, r), Div(One, v))
<1> DEFINE a == q[1]
           b == q[2]
           c == s[1]
           d == s[2]
           e == r[1]
           f == r[2]
           g == v[1]
           h == v[2]
<1>1. /\ a \in Int /\ b \in Int /\ b # 0 /\ Is(q, a, b)
      /\ c \in Int /\ d \in Int /\ d # 0 /\ Is(s, c, d)
      /\ e \in Int /\ f \in Int /\ f # 0 /\ Is(r, e, f)
      /\ g \in Int /\ h \in Int /\ h # 0 /\ Is(v, g, h)
  BY RatioIs
<1>2. a # 0
  BY NotZero, RatioIs
<1>3. g # 0
  BY NotZero, RatioIs
<1> HIDE DEF a, b, c, d, e, f, g, h
<1>4. /\ Is(Div(r, q), e * b, f * a) /\ f * a # 0
      /\ (e * b) \in Int /\ (f * a) \in Int
  <2>1. (e * b) \in Int /\ (f * a) \in Int /\ a # 0
    BY <1>1, Units, <1>2, <1>3
  <2> QED
    BY <2>1, <1>1, Units, <1>2, <1>3, IsDiv
<1>5. /\ Is(Mul(s, Div(r, q)), c * (e * b), d * (f * a)) /\ d * (f * a) # 0
      /\ (c * (e * b)) \in Int /\ (d * (f * a)) \in Int
  <2>1. (c * (e * b)) \in Int /\ (d * (f * a)) \in Int
    BY <1>1, Units, <1>2, <1>3, <1>4
  <2> QED
    BY <2>1, <1>1, Units, <1>2, <1>3, <1>4, IsMul
<1>6. /\ Is(Div(Mul(s, Div(r, q)), v), (c * (e * b)) * h, (d * (f * a)) * g)
      /\ (d * (f * a)) * g # 0
      /\ ((c * (e * b)) * h) \in Int /\ ((d * (f * a)) * g) \in Int
  <2>1. ((c * (e * b)) * h) \in Int /\ ((d * (f * a)) * g) \in Int /\ g # 0
    BY <1>1, Units, <1>2, <1>3, <1>5
  <2> QED
    BY <2>1, <1>1, Units, <1>2, <1>3, <1>5, IsDiv
<1>7. /\ Is(Mul(q, Div(Mul(s, Div(r, q)), v)), a * ((c * (e * b)) * h), b * ((d * (f * a)) * g))
      /\ b * ((d * (f * a)) * g) # 0
      /\ (a * ((c * (e * b)) * h)) \in Int /\ (b * ((d * (f * a)) * g)) \in Int
  <2>1. (a * ((c * (e * b)) * h)) \in Int /\ (b * ((d * (f * a)) * g)) \in Int
    BY <1>1, Units, <1>2, <1>3, <1>6
  <2> QED
    BY <2>1, <1>1, Units, <1>2, <1>3, <1>6, IsMul
<1>8. /\ Is(Mul(s, r), c * e, d * f) /\ d * f # 0
      /\ (c * e) \in Int /\ (d * f) \in Int
  <2>1. (c * e) \in Int /\ (d * f) \in Int
    BY <1>1, Units, <1>2, <1>3
  <2> QED
    BY <2>1, <1>1, Units, <1>2, <1>3, IsMul
<1>9. /\ Is(Div(One, v), 1 * h, 1 * g) /\ 1 * g # 0
      /\ (1 * h) \in Int /\ (1 * g) \in Int
  <2>1. (1 * h) \in Int /\ (1 * g) \in Int /\ g # 0
    BY <1>1, Units, <1>2, <1>3
  <2> QED
    BY <2>1, <1>1, Units, <1>2, <1>3, IsDiv
<1>10. /\ Is(Mul(Mul(s, r), Div(One, v)), (c * e) * (1 * h), (d * f) * (1 * g))
       /\ (d * f) * (1 * g) # 0
      /\ ((c * e) * (1 * h)) \in Int /\ ((d * f) * (1 * g)) \in Int
  <2>1. ((c * e) * (1 * h)) \in Int /\ ((d * f) * (1 * g)) \in Int
    BY <1>1, Units, <1>2, <1>3, <1>8, <1>9
  <2> QED
    BY <2>1, <1>1, Units, <1>2, <1>3, <1>8, <1>9, IsMul
<1>11. (a * ((c * (e * b)) * h)) * ((d * f) * (1 * g))
         = ((c * e) * (1 * h)) * (b * ((d * (f * a)) * g))
  BY <1>1
<1> QED
  BY <1>1, Units, <1>11, <1>7, <1>10, Same

\* A product is 0 only if a factor is.
LEMMA NoZero ==
  ASSUME NEW x \in Ratio, NEW y \in Ratio, x # Zero, y # Zero
  PROVE  Mul(x, y) # Zero
<1> DEFINE a == x[1]
           b == x[2]
           c == y[1]
           d == y[2]
<1>1. /\ a \in Int /\ b \in Int /\ b # 0 /\ Is(x, a, b)
      /\ c \in Int /\ d \in Int /\ d # 0 /\ Is(y, c, d)
  BY RatioIs
<1>2. a # 0 /\ c # 0
  BY NotZero
<1> HIDE DEF a, b, c, d
<1>3. Is(Mul(x, y), a * c, b * d) /\ b * d # 0 /\ a * c # 0 /\ a * c \in Int /\ b * d \in Int
  BY <1>1, <1>2, IsMul
<1>4. SUFFICES ASSUME Mul(x, y) = Zero PROVE FALSE
  OBVIOUS
<1>5. 0 * (b * d) = (a * c) * 1
  BY <1>3, <1>4 DEF Is, Zero, Int2F
<1> QED
  BY <1>3, <1>5

-----------------------------------------------------------------------------
(* Numbers that may be missing                                             *)

\* A number that is finite is a fraction in lowest terms.
LEMMA FiniteIsRatio ==
  ASSUME NEW x \in Number, IsFinite(x)
  PROVE  x \in Ratio
<1> DEFINE a == Abs(x[1])
           b == x[2]
<1>1. /\ x \in Int \X Nat /\ x[1] \in Int /\ b \in Nat /\ b # 0 /\ Gcd[<<a, b>>] = 1
      /\ a \in Nat /\ (a = x[1] \/ a = -x[1])
  BY DEF Number, IsFinite, NaN, Abs
<1> HIDE DEF a, b
<1>2. IsGcd(1, a, b)
  BY <1>1, GcdIsGcd
<1>3. PICK s \in Int, t \in Int : 1 = s * a + t * b
  BY <1>2 DEF IsGcd
<1>4. CASE a = x[1]
  BY <1>1, <1>3, <1>4 DEF Ratio, b
<1>5. CASE a = -x[1]
  <2>1. (-s) * x[1] + t * b = 1 /\ -s \in Int
    BY <1>1, <1>3, <1>5
  <2> QED
    BY <1>1, <2>1 DEF Ratio, b
<1> QED
  BY <1>1, <1>4, <1>5

\* A fraction in lowest terms is a number, and not None.
LEMMA RatioIsNumber == \A x \in Ratio : x \in Number /\ x # None
<1> SUFFICES ASSUME NEW x \in Ratio PROVE x \in Number
  BY NoneIsNoNumber
<1> DEFINE a == Abs(x[1])
           b == x[2]
           g == Gcd[<<a, b>>]
<1>1. /\ x \in Int \X Nat /\ x[1] \in Int /\ b \in Nat /\ b # 0
      /\ a \in Nat /\ (a = x[1] \/ a = -x[1])
  BY RatioIs DEF Ratio, Abs
<1>2. PICK s \in Int, t \in Int : s * x[1] + t * b = 1
  BY DEF Ratio
<1> HIDE DEF a, b, g
<1>3. PICK k \in Nat, l \in Nat : g \in Nat /\ a = g * k /\ b = g * l
  BY <1>1, GcdIsGcd DEF IsGcd, g
<1>4. PICK c \in Int : x[1] = g * c
  <2>1. x[1] = g * k \/ x[1] = g * (-k)
    BY <1>1, <1>3
  <2>2. k \in Int /\ -k \in Int
    BY <1>3
  <2> QED
    BY <2>1, <2>2
<1>5. g * (s * c + t * l) = 1 /\ s * c + t * l \in Int
  BY <1>2, <1>3, <1>4
<1>6. \A u \in Int : g * u = 1 => g = 1
  BY <1>3
<1>7. g = 1
  BY <1>5, <1>6
<1> QED
  BY <1>1, <1>7 DEF Number, a, b, g

\* A fraction with denominator 0 is not finite.
LEMMA OverZero ==
  ASSUME NEW n \in Int
  PROVE  ~IsFinite(Frac(n, 0))
<1> DEFINE a == Abs(n)
<1>1. a \in Nat /\ Abs(0) = 0
  BY DEF Abs
<1> HIDE DEF a
<1>2. Gcd[<<a, 0>>] = a
  BY <1>1, GcdIs, 0 \in Nat
<1>3. a # 0 => 0 \div a = 0
  BY <1>1
<1> QED
  BY <1>1, <1>2, <1>3 DEF Frac, Lowest, IsFinite, NaN, a

\* The sum of two numbers is finite only if both are.
LEMMA FiniteSum ==
  ASSUME NEW x \in Int \X Nat, NEW y \in Int \X Nat, IsFinite(Add(x, y))
  PROVE  IsFinite(x) /\ IsFinite(y)
<1>1. CASE x[2] = 0 /\ y[2] = 0
  BY <1>1 DEF Add, IsFinite, NaN
<1>2. CASE ~(x[2] = 0 /\ y[2] = 0)
  <2> DEFINE n == x[1] * y[2] + y[1] * x[2]
  <2>1. Add(x, y) = Frac(n, x[2] * y[2]) /\ n \in Int
    BY <1>2 DEF Add
  <2>2. x[2] * y[2] # 0
    BY <2>1, OverZero
  <2> QED
    BY <2>2 DEF IsFinite
<1> QED
  BY <1>1, <1>2

\* A move between two numbers is finite only if both are fractions.
LEMMA FiniteMove ==
  ASSUME NEW x \in Number, NEW y \in Number, IsFinite(Sub(x, y))
  PROVE  x \in Ratio /\ y \in Ratio
<1>1. x \in Int \X Nat /\ y \in Int \X Nat /\ Neg(y) \in Int \X Nat
  BY DEF Number, Neg
<1>2. IsFinite(x) /\ IsFinite(Neg(y))
  BY <1>1, FiniteSum DEF Sub
<1> QED
  BY <1>2, FiniteIsRatio DEF Neg, IsFinite

\* What is clipped is one of the three.
LEMMA Clipped ==
  ASSUME NEW x \in Ratio, NEW lo \in Ratio, NEW hi \in Ratio
  PROVE  Clip(x, lo, hi) \in Ratio
  BY DEF Clip, MinF, MaxF

\* The hedge of a quantity that is a fraction is one (delta_hedge_qty).
LEMMA HedgeIsRatio ==
  ASSUME NEW factor \in Ratio, NEW qty \in Ratio, NEW delta \in Ratio,
         NEW unitDelta \in Number, NEW cap \in Ratio
  PROVE  HedgeQty(factor, qty, delta, unitDelta, cap) \in Ratio
<1>1. Zero \in Ratio
  BY IntIs DEF Zero
<1>2. CASE ~IsFinite(unitDelta) \/ unitDelta = Zero
  BY <1>1, <1>2 DEF HedgeQty
<1>3. CASE ~(~IsFinite(unitDelta) \/ unitDelta = Zero)
  <2>1. unitDelta \in Ratio /\ unitDelta # Zero
    BY <1>3, FiniteIsRatio
  <2>2. Div(Neg(Mul(factor, Mul(qty, delta))), unitDelta) \in Ratio
    BY <2>1, Closed
  <2>3. Neg(Mul(cap, AbsF(qty))) \in Ratio /\ Mul(cap, AbsF(qty)) \in Ratio
    BY Closed
  <2> QED
    BY <1>3, <2>2, <2>3, Clipped DEF HedgeQty
<1> QED
  BY <1>2, <1>3

\* Prefix sums: S[i] is the sum of the first i.
IsSums(S, n, x) ==
  S = [i \in 0..n |-> IF i = 0 THEN Zero ELSE Add(S[i - 1], x[i])]

\* There are prefix sums of any length.
LEMMA SumsExist ==
  ASSUME NEW n \in Nat, NEW x
  PROVE  \E S : IsSums(S, n, x)
<1> DEFINE P == {m \in Nat : \E S : IsSums(S, m, x)}
<1>1. 0 \in P
  <2> DEFINE S == [i \in 0..0 |-> Zero]
  <2>1. IsSums(S, 0, x)
    BY DEF IsSums
  <2> QED
    BY <2>1
<1>2. ASSUME NEW m \in Nat, m \in P PROVE m + 1 \in P
  <2>1. PICK S : IsSums(S, m, x)
    BY <1>2
  <2> DEFINE T == [i \in 0..(m + 1) |-> IF i = m + 1 THEN Add(S[m], x[m + 1]) ELSE S[i]]
  <2>2. ASSUME NEW i \in 0..(m + 1)
        PROVE  T[i] = IF i = 0 THEN Zero ELSE Add(T[i - 1], x[i])
    <3>1. CASE i = m + 1
      BY <3>1
    <3>2. CASE i # m + 1
      <4>1. i \in 0..m /\ T[i] = S[i] /\ (i # 0 => i - 1 \in 0..m /\ T[i - 1] = S[i - 1])
        BY <3>2
      <4> QED
        BY <2>1, <4>1 DEF IsSums
    <3> QED
      BY <3>1, <3>2
  <2>3. IsSums(T, m + 1, x)
    <3>1. T = [i \in 0..(m + 1) |-> T[i]]
      OBVIOUS
    <3> HIDE DEF T
    <3> QED
      BY <2>2, <3>1 DEF IsSums
  <2> QED
    BY <2>3
<1> HIDE DEF P
<1>3. \A m \in Nat : m \in P
  BY <1>1, <1>2, NatIsAll
<1> QED
  BY <1>3 DEF P

\* Two arrays of prefix sums agree as far as both go.
LEMMA SumsAgree ==
  ASSUME NEW n \in Nat, NEW m \in 0..n, NEW x, NEW S, NEW T, IsSums(S, n, x), IsSums(T, m, x)
  PROVE  \A i \in 0..m : S[i] = T[i]
<1> DEFINE P == {i \in Nat : i <= m => S[i] = T[i]}
<1>1. 0 \in P
  BY DEF IsSums
<1>2. ASSUME NEW i \in Nat, i \in P PROVE i + 1 \in P
  <2>1. SUFFICES ASSUME i + 1 <= m PROVE S[i + 1] = T[i + 1]
    BY <1>2
  <2>2. /\ i + 1 \in 0..n /\ i + 1 \in 0..m /\ i + 1 # 0 /\ (i + 1) - 1 = i /\ i <= m
    BY <2>1
  <2> QED
    BY <1>2, <2>2 DEF IsSums
<1> HIDE DEF P
<1>3. \A i \in Nat : i \in P
  BY <1>1, <1>2, NatIsAll
<1> QED
  BY <1>3 DEF P

\* The sum of the first n is the sum of the first n - 1 and the n-th.
LEMMA SumIs ==
  ASSUME NEW n \in Nat, NEW x
  PROVE  SumOf(n, x) = IF n = 0 THEN Zero ELSE Add(SumOf(n - 1, x), x[n])
<1> DEFINE F(k) == CHOOSE S : IsSums(S, k, x)
<1>1. \A k \in Nat : IsSums(F(k), k, x)
  BY SumsExist
<1>2. \A k \in Nat : SumOf(k, x) = F(k)[k]
  BY DEF SumOf, IsSums
<1> HIDE DEF F
<1>3. CASE n = 0
  BY <1>1, <1>2, <1>3 DEF IsSums
<1>4. CASE n # 0
  <2>1. n - 1 \in Nat /\ n - 1 \in 0..n /\ n \in 0..n /\ n - 1 \in 0..(n - 1)
    BY <1>4
  <2>2. F(n)[n - 1] = F(n - 1)[n - 1]
    BY <1>1, <2>1, SumsAgree
  <2>3. F(n)[n] = Add(F(n)[n - 1], x[n])
    BY <1>1, <1>4, <2>1 DEF IsSums
  <2> QED
    BY <1>2, <1>4, <2>1, <2>2, <2>3
<1> QED
  BY <1>3, <1>4

-----------------------------------------------------------------------------
(* The account of one leg, bar by bar                                      *)

\* How long an array is.
LEMMA LengthIs ==
  ASSUME NEW n \in Nat, NEW S, NEW f \in [1..n -> S]
  PROVE  Len(f) = n /\ f \in Seq(S)
<1>1. f \in Seq(S)
  BY SeqDef
<1>2. Len(f) \in Nat /\ DOMAIN f = 1..Len(f) /\ DOMAIN f = 1..n
  BY <1>1
<1> QED
  BY <1>1, <1>2

\* The account, bar by bar.
IsAccount(A, legs, step, n) ==
  A = [t \in 1..n |-> IF t = 1 THEN FirstBar(legs) ELSE NextBar(legs, A[t - 1], t, step[t - 1])]

\* There is an account of any length.
LEMMA AccountExists ==
  ASSUME NEW n \in Nat, NEW legs, NEW step
  PROVE  \E A : IsAccount(A, legs, step, n)
<1> DEFINE P == {m \in Nat : \E A : IsAccount(A, legs, step, m)}
<1>1. 0 \in P
  <2> DEFINE A == [t \in 1..0 |-> FirstBar(legs)]
  <2>1. IsAccount(A, legs, step, 0)
    BY DEF IsAccount
  <2> QED
    BY <2>1
<1>2. ASSUME NEW m \in Nat, m \in P PROVE m + 1 \in P
  <2>1. PICK A : IsAccount(A, legs, step, m)
    BY <1>2
  <2> DEFINE X == IF m = 0 THEN FirstBar(legs) ELSE NextBar(legs, A[m], m + 1, step[m])
             B == [t \in 1..(m + 1) |-> IF t = m + 1 THEN X ELSE A[t]]
  <2>2. ASSUME NEW t \in 1..(m + 1)
        PROVE  B[t] = IF t = 1 THEN FirstBar(legs) ELSE NextBar(legs, B[t - 1], t, step[t - 1])
    <3>1. CASE t = m + 1
      BY <3>1
    <3>2. CASE t # m + 1
      <4>1. t \in 1..m /\ B[t] = A[t] /\ (t # 1 => t - 1 \in 1..m /\ B[t - 1] = A[t - 1])
        BY <3>2
      <4> QED
        BY <2>1, <4>1 DEF IsAccount
    <3> QED
      BY <3>1, <3>2
  <2>3. IsAccount(B, legs, step, m + 1)
    <3>1. B = [t \in 1..(m + 1) |-> B[t]]
      OBVIOUS
    <3> HIDE DEF B
    <3> QED
      BY <2>2, <3>1 DEF IsAccount
  <2> QED
    BY <2>3
<1> HIDE DEF P
<1>3. \A m \in Nat : m \in P
  BY <1>1, <1>2, NatIsAll
<1> QED
  BY <1>3 DEF P

\* What the step into t books for one leg, from what the bar before left.
Net(leg, a, t) ==
  Add(Zero, Add(Zero, IF a.equity = Zero THEN Zero
                      ELSE Contribution(leg, a.mem[1], a.equity, t - 1)))

\* The equity the step ends in.
EquityAt(leg, a, t) ==
  IF a.equity = Zero \/ Ruins(Net(leg, a, t)) THEN Zero
  ELSE Mul(a.equity, Add(One, Net(leg, a, t)))

\* What the leg remembers after the step.
MemAt(leg, a, t) ==
  IF a.equity = Zero THEN a.mem[1]
  ELSE Resized(leg, Booked(leg, a.mem[1], a.equity, t - 1), EquityAt(leg, a, t), t)

\* Nothing but the leg is held, for n bars.
NoOther(n) == [t \in 1..(n - 1) |-> Zero]
Account(leg, n) == Compounded(<<leg>>, NoOther(n))

\* The account is what _compound_with_hold makes of the bars, one by one.
LEMMA AccountIs ==
  ASSUME NEW n \in Nat \ {0}, NEW leg
  PROVE  IsAccount(Account(leg, n), <<leg>>, NoOther(n), n)
<1>1. Len(NoOther(n)) = n - 1
  BY LengthIs, n - 1 \in Nat, NoOther(n) \in [1..(n - 1) -> {Zero}] DEF NoOther
<1>2. 1..(Len(NoOther(n)) + 1) = 1..n
  BY <1>1
<1>3. PICK B : IsAccount(B, <<leg>>, NoOther(n), n)
  BY AccountExists
<1> QED
  BY <1>2, <1>3 DEF Account, Compounded, IsAccount

\* The account of one leg at its first bar.
LEMMA BarOne ==
  ASSUME NEW n \in Nat \ {0}, NEW leg
  PROVE  /\ Account(leg, n)[1].equity = One
         /\ Account(leg, n)[1].mem[1] = Seed(leg)
<1>1. 1 \in 1..n /\ 1 \in DOMAIN <<leg>> /\ <<leg>>[1] = leg
  OBVIOUS
<1>2. Account(leg, n)[1] = FirstBar(<<leg>>)
  BY <1>1, AccountIs DEF IsAccount
<1> QED
  BY <1>1, <1>2 DEF FirstBar

\* The account of one leg at every later bar.
LEMMA BarNext ==
  ASSUME NEW n \in Nat \ {0}, NEW leg, NEW t \in 2..n
  PROVE  LET a == Account(leg, n)[t - 1]
             b == Account(leg, n)[t]
         IN /\ b.equity = EquityAt(leg, a, t)
            /\ b.net = Net(leg, a, t)
            /\ b.scale = StepScale(a.equity, b.net, Ruins(b.net))
            /\ b.mem[1] = MemAt(leg, a, t)
<1> DEFINE a == Account(leg, n)[t - 1]
           b == Account(leg, n)[t]
           legs == <<leg>>
           c == [k \in DOMAIN legs |->
                   IF a.equity = Zero THEN Zero
                   ELSE Contribution(legs[k], a.mem[k], a.equity, t - 1)]
<1>1. /\ t \in 1..n /\ t # 1 /\ t - 1 \in 1..(n - 1) /\ DOMAIN legs = 1..1 /\ legs[1] = leg
      /\ 1 \in DOMAIN legs
  OBVIOUS
<1>2. NoOther(n)[t - 1] = Zero
  BY <1>1 DEF NoOther
<1>3. b = StepBooked(legs, a, t, Zero, c)
  BY <1>1, <1>2, AccountIs DEF IsAccount, NextBar
<1>4. Add(Zero, SumOver([k \in DOMAIN legs |-> k], LAMBDA k : c[k])) = Net(leg, a, t)
  <2> DEFINE idx == [k \in DOMAIN legs |-> k]
  <2>1. Len(idx) = 1
    BY <1>1, LengthIs, idx \in [1..1 -> Nat], 1 \in Nat
  <2>2. SumOver(idx, LAMBDA k : c[k]) = SumOf(1, [i \in 1..1 |-> c[idx[i]]])
    BY <2>1 DEF SumOver
  <2>3. SumOf(1, [i \in 1..1 |-> c[idx[i]]]) = Add(SumOf(0, [i \in 1..1 |-> c[idx[i]]]), c[1])
    BY <1>1, SumIs, 1 \in Nat, 1 # 0, 1 - 1 = 0
  <2>4. SumOf(0, [i \in 1..1 |-> c[idx[i]]]) = Zero
    BY SumIs, 0 \in Nat
  <2>5. c[1] = IF a.equity = Zero THEN Zero
               ELSE Contribution(leg, a.mem[1], a.equity, t - 1)
    BY <1>1
  <2> HIDE DEF c
  <2> QED
    BY <2>2, <2>3, <2>4, <2>5 DEF Net
<1> HIDE DEF c
<1>5. b = StepTaken(legs, a, t, c, Net(leg, a, t))
  BY <1>3, <1>4 DEF StepBooked
<1> HIDE DEF a, b
<1>6. b = EndedIn(legs, a, t, c, Net(leg, a, t), Ruins(Net(leg, a, t)), EquityAt(leg, a, t))
  BY <1>5 DEF StepTaken, EquityAt
<1>7. /\ b.equity = EquityAt(leg, a, t) /\ b.net = Net(leg, a, t)
      /\ b.scale = StepScale(a.equity, Net(leg, a, t), Ruins(Net(leg, a, t)))
  BY <1>6 DEF EndedIn
<1>8. b.mem[1] = MemAt(leg, a, t)
  BY <1>1, <1>6 DEF EndedIn, MemAt
<1> QED
  BY <1>7, <1>8 DEF a, b

-----------------------------------------------------------------------------
(* What is held was sized at a price, and the account is in numbers        *)

\* The data of a leg at bar t.
QuotesAt(leg, t) ==
  /\ leg.premium[t] \in Number /\ leg.rollPremium[t] \in Number
  /\ leg.rollFuture[t] \in Number /\ leg.dailyFuture[t] \in Number
  /\ leg.delta[t] \in Number /\ leg.unitDelta[t] \in Number /\ leg.price[t] \in Number
  /\ leg.isRoll[t] \in BOOLEAN /\ leg.active[t] \in BOOLEAN

\* The sizes of a leg.
SizesOk(leg) ==
  /\ leg.sign \in Ratio /\ leg.nav \in Ratio
  /\ leg.multFut \in Number /\ leg.multOpt \in Number
  /\ leg.hedge # None => leg.hedge.factor \in Ratio /\ leg.hedge.cap \in Ratio

\* A leg of n bars.
LegOk(leg, n) == SizesOk(leg) /\ \A t \in 1..n : QuotesAt(leg, t)

\* What a leg remembers.
Mem ==
  [holding : BOOLEAN, premium : Number, ref : Number, equity : Ratio,
   lastFinite : Number, delta : Number, unitDelta : Number]

\* What is held was sized at a price, and at a reference future if it needs one.
WellSized(leg, m) ==
  m.holding => Quotable(m.premium) /\ (Futures(leg) => DenomOk(leg, m.ref))

\* The numbers that are named, and what may be divided by.
LEMMA Simple == /\ NaN \in Number /\ Zero \in Ratio /\ One \in Ratio
                /\ ~IsFinite(NaN) /\ \A x \in Ratio : IsFinite(x)
                /\ \A x \in Number : Quotable(x) => x \in Ratio /\ x # Zero
<1>1. NaN \in Number
  BY DEF NaN, Number
<1>2. \A x \in Ratio : IsFinite(x)
  BY RatioIs DEF IsFinite
<1>3. ASSUME NEW x \in Number, Quotable(x)
      PROVE  x \in Ratio /\ x # Zero
  <2>1. x \in Ratio /\ x[1] > 0
    BY <1>3, FiniteIsRatio DEF Quotable, Positive
  <2> QED
    BY <2>1 DEF Zero, Int2F
<1> QED
  BY <1>1, <1>2, <1>3, IntIs DEF Zero, One, NaN, IsFinite

\* The seed of a leg is sized at a price.
LEMMA SeedSized ==
  ASSUME NEW leg, QuotesAt(leg, 1)
  PROVE  Seed(leg) \in Mem /\ WellSized(leg, Seed(leg))
<1>1. Unsized \in Mem /\ ~Unsized.holding
  BY Simple DEF Unsized, Mem
<1>2. OpenPremium(leg, 1) \in Number /\ Reference(leg, NaN, 1) \in Number
  BY Simple DEF OpenPremium, Reference, QuotesAt
<1> QED
  BY <1>1, <1>2, Simple DEF Seed, Mem, WellSized

\* A held quantity is a fraction, counted as _compound_with_hold counts it.
LEMMA QuantityIs ==
  ASSUME NEW leg, SizesOk(leg), NEW m \in Mem, WellSized(leg, m), m.holding,
         NEW q \in Ratio, q # Zero
  PROVE  /\ Quantity(leg, m, q) \in Ratio /\ Quantity(leg, m, q) # None
         /\ Quantity(leg, m, q)
              = IF Futures(leg)
                THEN Div(Mul(Mul(Mul(leg.sign, leg.nav), Div(m.equity, q)), leg.multOpt),
                         Mul(m.ref, leg.multFut))
                ELSE Div(Mul(Mul(leg.sign, leg.nav), Div(m.equity, q)), m.premium)
         /\ Futures(leg) => /\ m.ref \in Ratio /\ leg.multFut \in Ratio /\ leg.multOpt \in Ratio
                            /\ Mul(m.ref, leg.multFut) # Zero
         /\ m.premium \in Ratio /\ m.premium # Zero
<1>1. m.equity \in Ratio /\ m.premium \in Ratio /\ m.premium # Zero /\ IsFinite(m.premium)
  BY Simple DEF Mem, WellSized
<1> DEFINE size == Mul(Mul(leg.sign, leg.nav), Div(m.equity, q))
<1>2. size \in Ratio
  BY <1>1, Closed DEF SizesOk
<1> HIDE DEF size
<1>3. CASE Futures(leg)
  <2>1. DenomOk(leg, m.ref) /\ m.ref \in Number
    BY <1>3 DEF WellSized, Mem
  <2>2. /\ m.ref \in Ratio /\ m.ref # Zero /\ leg.multFut \in Ratio /\ leg.multFut # Zero
        /\ leg.multOpt \in Ratio /\ IsFinite(m.ref)
    BY <2>1, Simple DEF DenomOk, Quotable, SizesOk
  <2>3. Mul(m.ref, leg.multFut) \in Ratio /\ Mul(m.ref, leg.multFut) # Zero
    BY <2>2, Closed, NoZero
  <2>4. Quantity(leg, m, q) = Div(Mul(size, leg.multOpt), Mul(m.ref, leg.multFut))
    BY <1>3, <2>2 DEF Quantity, size
  <2>5. Mul(size, leg.multOpt) \in Ratio
    BY <1>2, <2>2, Closed
  <2>6. Quantity(leg, m, q) \in Ratio
    BY <2>3, <2>4, <2>5, Closed
  <2> QED
    BY <1>1, <1>3, <2>2, <2>3, <2>4, <2>6, RatioIsNumber DEF size
<1>4. CASE ~Futures(leg)
  <2>1. Quantity(leg, m, q) = Div(size, m.premium)
    BY <1>1, <1>4 DEF Quantity, size
  <2>2. Quantity(leg, m, q) \in Ratio
    BY <1>1, <1>2, <2>1, Closed
  <2> QED
    BY <1>1, <1>4, <2>1, <2>2, RatioIsNumber DEF size
<1> QED
  BY <1>3, <1>4

\* What a step books is a fraction.
LEMMA ContributionIs ==
  ASSUME NEW leg, SizesOk(leg), NEW s \in Nat, QuotesAt(leg, s), QuotesAt(leg, s + 1),
         NEW m \in Mem, WellSized(leg, m), NEW q \in Ratio
  PROVE  Contribution(leg, m, q, s) \in Ratio
<1>1. Zero \in Ratio
  BY Simple
<1>2. SUFFICES ASSUME Accrues(leg, m, q, s)
               PROVE  OptionPnl(leg, m, q, s) \in Ratio /\ HedgePnl(leg, m, q, s) \in Ratio
  BY <1>1, Closed DEF Contribution
<1> DEFINE qty == Quantity(leg, m, q)
<1>3. qty \in Ratio
  BY <1>2, QuantityIs DEF Accrues
<1> HIDE DEF qty
<1>4. OptionPnl(leg, m, q, s) \in Ratio
  <2>1. leg.premium[s + 1] \in Number /\ Base(leg, m, s) \in Number
    BY DEF QuotesAt, Base, Mem
  <2>2. IsFinite(Sub(leg.premium[s + 1], Base(leg, m, s)))
          => Sub(leg.premium[s + 1], Base(leg, m, s)) \in Ratio
    BY <2>1, FiniteMove, Closed
  <2>3. IsFinite(Sub(leg.premium[s + 1], Base(leg, m, s)))
          => Mul(qty, Sub(leg.premium[s + 1], Base(leg, m, s))) \in Ratio
    BY <1>3, <2>2, Closed
  <2> QED
    BY <1>1, <2>3 DEF OptionPnl, qty
<1>5. HedgePnl(leg, m, q, s) \in Ratio
  <2> DEFINE c == Captured(leg, m, q, s)
             move == Sub(leg.price[s + 1], leg.price[s])
  <2>1. c.delta \in Number /\ c.unitDelta \in Number
    BY DEF Captured, Mem, QuotesAt
  <2>2. IsFinite(move) => move \in Ratio
    BY FiniteMove, Closed DEF QuotesAt
  <2> HIDE DEF c, move
  <2>3. SUFFICES ASSUME leg.hedge # None, IsFinite(c.delta), IsFinite(move)
                 PROVE  Mul(HedgeQty(leg.hedge.factor, qty, c.delta, c.unitDelta, leg.hedge.cap), move) \in Ratio
    BY <1>1 DEF HedgePnl, Hedges, qty, c, move
  <2>4. c.delta \in Ratio /\ leg.hedge.factor \in Ratio /\ leg.hedge.cap \in Ratio
    BY <2>1, <2>3, FiniteIsRatio DEF SizesOk
  <2>5. HedgeQty(leg.hedge.factor, qty, c.delta, c.unitDelta, leg.hedge.cap) \in Ratio
    BY <1>3, <2>1, <2>4, HedgeIsRatio
  <2> QED
    BY <2>2, <2>3, <2>5, Closed
<1> QED
  BY <1>4, <1>5

\* Booking keeps the position.
LEMMA BookedSized ==
  ASSUME NEW leg, NEW s \in Nat, QuotesAt(leg, s), QuotesAt(leg, s + 1),
         NEW m \in Mem, WellSized(leg, m), NEW q
  PROVE  /\ Booked(leg, m, q, s) \in Mem
         /\ Booked(leg, m, q, s).holding = m.holding /\ Booked(leg, m, q, s).premium = m.premium
         /\ Booked(leg, m, q, s).ref = m.ref /\ Booked(leg, m, q, s).equity = m.equity
         /\ WellSized(leg, Booked(leg, m, q, s))
<1> DEFINE x == IF IsFinite(leg.premium[s + 1])
                THEN [m EXCEPT !.lastFinite = leg.premium[s + 1]] ELSE m
<1>1. /\ x \in Mem /\ x.holding = m.holding /\ x.premium = m.premium /\ x.ref = m.ref
      /\ x.equity = m.equity
  BY DEF Mem, QuotesAt
<1>2. Booked(leg, m, q, s) = IF ~Accrues(leg, m, q, s) THEN m ELSE Captured(leg, x, q, s)
  BY DEF Booked
<1> HIDE DEF x
<1> DEFINE y == Captured(leg, x, q, s)
<1>3. /\ y \in Mem /\ y.holding = x.holding /\ y.premium = x.premium /\ y.ref = x.ref
      /\ y.equity = x.equity
  BY <1>1 DEF Captured, Mem, QuotesAt
<1> HIDE DEF y
<1> QED
  BY <1>1, <1>2, <1>3 DEF WellSized, y

\* Sizing anew leaves a position sized at a price.
LEMMA ResizedSized ==
  ASSUME NEW leg, NEW t \in Nat, QuotesAt(leg, t), NEW m \in Mem, WellSized(leg, m),
         NEW q \in Ratio
  PROVE  Resized(leg, m, q, t) \in Mem /\ WellSized(leg, Resized(leg, m, q, t))
<1> DEFINE open == OpenPremium(leg, t)
           ref == Reference(leg, m.ref, t)
           c == IF leg.hedge = None THEN m ELSE [m EXCEPT !.delta = NaN, !.unitDelta = NaN]
           anchored == [c EXCEPT !.premium = open, !.lastFinite = open]
<1>1. open \in Number /\ ref \in Number
  BY DEF OpenPremium, Reference, QuotesAt, Mem
<1>2. c \in Mem /\ c.holding = m.holding /\ c.premium = m.premium /\ c.ref = m.ref
  BY Simple DEF Mem
<1>3. Opened(leg, m, q, t) =
        IF ~Quotable(open) \/ q = Zero THEN c
        ELSE IF Futures(leg) /\ ~DenomOk(leg, ref) THEN anchored
        ELSE [anchored EXCEPT !.holding = TRUE, !.equity = q,
                              !.ref = IF Futures(leg) THEN ref ELSE @]
  BY DEF Opened
<1> HIDE DEF open, ref, c
<1>4. /\ anchored \in Mem /\ anchored.premium = open /\ anchored.ref = c.ref
      /\ anchored.holding = c.holding
  BY <1>1, <1>2 DEF Mem
<1> HIDE DEF anchored
<1> DEFINE full == [anchored EXCEPT !.holding = TRUE, !.equity = q,
                              !.ref = IF Futures(leg) THEN ref ELSE @]
<1>5. full \in Mem /\ full.premium = open /\ (Futures(leg) => full.ref = ref)
  BY <1>1, <1>4 DEF Mem
<1> HIDE DEF full
<1>6. Opened(leg, m, q, t) \in Mem /\ WellSized(leg, Opened(leg, m, q, t))
  <2>1. CASE ~Quotable(open) \/ q = Zero
    BY <1>2, <1>3, <2>1 DEF WellSized
  <2>2. CASE Quotable(open) /\ q # Zero /\ Futures(leg) /\ ~DenomOk(leg, ref)
    BY <1>2, <1>3, <1>4, <2>2 DEF WellSized
  <2>3. CASE Quotable(open) /\ q # Zero /\ ~(Futures(leg) /\ ~DenomOk(leg, ref))
    <3>1. Opened(leg, m, q, t) = full
      BY <1>3, <2>3 DEF full
    <3> QED
      BY <1>5, <2>3, <3>1 DEF WellSized
  <2> QED
    BY <2>1, <2>2, <2>3
<1>7. [m EXCEPT !.holding = FALSE] \in Mem /\ ~[m EXCEPT !.holding = FALSE].holding
  BY DEF Mem
<1> QED
  BY <1>6, <1>7 DEF Resized, WellSized

\* An account in numbers, and what is held in it was sized at a price.
Sound(leg, a) == a.equity \in Ratio /\ a.mem[1] \in Mem /\ WellSized(leg, a.mem[1])

\* The net of a step is a fraction; it is the leg's contribution.
LEMMA NetIs ==
  ASSUME NEW leg, SizesOk(leg), NEW t \in Nat, t > 1, QuotesAt(leg, t - 1), QuotesAt(leg, t),
         NEW a, Sound(leg, a)
  PROVE  /\ Net(leg, a, t) \in Ratio /\ EquityAt(leg, a, t) \in Ratio
         /\ Net(leg, a, t) = IF a.equity = Zero THEN Zero
                             ELSE Contribution(leg, a.mem[1], a.equity, t - 1)
<1> DEFINE c == IF a.equity = Zero THEN Zero
                ELSE Contribution(leg, a.mem[1], a.equity, t - 1)
<1>1. t - 1 \in Nat /\ (t - 1) + 1 = t
  OBVIOUS
<1>2. c \in Ratio
  BY <1>1, ContributionIs, Simple DEF Sound
<1>3. Net(leg, a, t) = Add(Zero, Add(Zero, c))
  BY DEF Net
<1> HIDE DEF c
<1>4. Net(leg, a, t) = c
  BY <1>2, <1>3, AddZero
<1>5. EquityAt(leg, a, t) \in Ratio
  <2>1. Add(One, Net(leg, a, t)) \in Ratio
    BY <1>2, <1>4, Simple, Closed
  <2>2. Mul(a.equity, Add(One, Net(leg, a, t))) \in Ratio
    BY <2>1, Closed DEF Sound
  <2> QED
    BY <2>2, Simple DEF EquityAt
<1> QED
  BY <1>2, <1>4, <1>5 DEF c

\* A step keeps the account sound.
LEMMA SoundNext ==
  ASSUME NEW leg, SizesOk(leg), NEW t \in Nat, t > 1, QuotesAt(leg, t - 1), QuotesAt(leg, t),
         NEW a, Sound(leg, a)
  PROVE  MemAt(leg, a, t) \in Mem /\ WellSized(leg, MemAt(leg, a, t))
<1> DEFINE b == Booked(leg, a.mem[1], a.equity, t - 1)
<1>1. t - 1 \in Nat /\ (t - 1) + 1 = t
  OBVIOUS
<1>2. b \in Mem /\ WellSized(leg, b)
  BY <1>1, BookedSized DEF Sound
<1>3. EquityAt(leg, a, t) \in Ratio
  BY NetIs
<1>4. MemAt(leg, a, t) = IF a.equity
        = Zero THEN a.mem[1] ELSE Resized(leg, b, EquityAt(leg, a, t), t)
  BY DEF MemAt
<1> HIDE DEF b
<1> QED
  BY <1>2, <1>3, <1>4, ResizedSized DEF Sound

\* The account is sound at every bar.
LEMMA AccountSound ==
  ASSUME NEW n \in Nat \ {0}, NEW leg, LegOk(leg, n)
  PROVE  \A t \in 1..n : Sound(leg, Account(leg, n)[t])
<1> DEFINE A == Account(leg, n)
           P == {k \in Nat : k + 1 <= n => Sound(leg, A[k + 1])}
<1>1. 0 \in P
  <2>1. QuotesAt(leg, 1)
    BY 1 \in 1..n DEF LegOk
  <2> QED
    BY <2>1, BarOne, SeedSized, Simple DEF Sound
<1>2. ASSUME NEW k \in Nat, k \in P PROVE k + 1 \in P
  <2>1. SUFFICES ASSUME (k + 1) + 1 <= n PROVE Sound(leg, A[(k + 1) + 1])
    OBVIOUS
  <2> DEFINE t == k + 2
  <2>2. /\ t \in 2..n /\ t \in Nat /\ t > 1 /\ t - 1 = k + 1 /\ (k + 1) + 1 = t /\ k + 1 \in 1..n
        /\ t \in 1..n
    BY <2>1
  <2> HIDE DEF t
  <2>3. Sound(leg, A[t - 1]) /\ QuotesAt(leg, t - 1) /\ QuotesAt(leg, t) /\ SizesOk(leg)
    BY <1>2, <2>2 DEF LegOk
  <2>4. A[t].equity = EquityAt(leg, A[t - 1], t) /\ A[t].mem[1] = MemAt(leg, A[t - 1], t)
    BY <2>2, BarNext
  <2> HIDE DEF A, P
  <2>5. Sound(leg, A[t])
    BY <2>2, <2>3, <2>4, NetIs, SoundNext DEF Sound
  <2> QED
    BY <2>2, <2>5
<1> HIDE DEF P, A
<1>3. \A k \in Nat : k \in P
  BY <1>1, <1>2, NatIsAll
<1> QED
  <2> SUFFICES ASSUME NEW t \in 1..n PROVE Sound(leg, A[t])
    BY DEF A
  <2>1. t - 1 \in Nat /\ (t - 1) + 1 = t
    OBVIOUS
  <2>2. t - 1 \in P
    BY <1>3, <2>1
  <2> QED
    BY <2>1, <2>2 DEF P

-----------------------------------------------------------------------------
(* The scaled steps add up                                                 *)

\* x + 0 = x.
LEMMA AddZeroTo ==
  ASSUME NEW x \in Ratio
  PROVE  Add(x, Zero) = x
<1> DEFINE a == x[1]
           b == x[2]
<1>1. a \in Int /\ b \in Int /\ b # 0 /\ Is(x, a, b)
  BY RatioIs
<1> HIDE DEF a, b
<1>2. 0 \in Int /\ 1 \in Int /\ 1 # 0 /\ Is(Zero, 0, 1)
  BY IntIs DEF Zero
<1>3. Is(Add(x, Zero), a * 1 + 0 * b, b * 1) /\ b * 1 # 0
  BY <1>1, <1>2, IsAdd
<1>4. a * 1 + 0 * b \in Int /\ b * 1 \in Int /\ (a * 1 + 0 * b) * b = a * (b * 1)
  BY <1>1
<1> QED
  BY <1>1, <1>3, <1>4, Same

\* The scaled step is the move of the equity.
LEMMA StepAddsUp ==
  ASSUME NEW q \in Ratio, NEW net \in Ratio, NEW e,
         e = IF q = Zero \/ Ruins(net) THEN Zero ELSE Mul(q, Add(One, net))
  PROVE  Mul(StepScale(q, net, Ruins(net)), Mul(q, net)) = Sub(e, q)
<1>1. Zero \in Ratio /\ One \in Ratio /\ Mul(q, net) \in Ratio
  BY Simple, Closed
<1>2. CASE q = Zero
  <2>1. Mul(Zero, Mul(q, net)) = Zero /\ Sub(Zero, Zero) = Zero
    BY <1>1, MulZero, SubSelf
  <2> QED
    BY <1>2, <2>1 DEF StepScale
<1>3. CASE q # Zero /\ Ruins(net)
  <2>1. net # Zero
    <3>1. SUFFICES ASSUME net = Zero PROVE FALSE
      OBVIOUS
    <3>2. Add(One, net) = One /\ IsFinite(net)
      BY <1>1, <3>1, AddZeroTo, Simple
    <3>3. Positive(One)
      BY DEF Positive, One, Int2F
    <3> QED
      BY <1>3, <3>2, <3>3 DEF Ruins
  <2>2. Mul(Div(Neg(One), net), Mul(q, net)) = Sub(Zero, q)
    BY <2>1, Ruined
  <2> QED
    BY <1>3, <2>1, <2>2 DEF StepScale
<1>4. CASE q # Zero /\ ~Ruins(net)
  <2>1. Mul(One, Mul(q, net)) = Mul(q, net) /\ Sub(Mul(q, Add(One, net)), q) = Mul(q, net)
    BY <1>1, MulOne, Growth
  <2> QED
    BY <1>4, <2>1 DEF StepScale
<1> QED
  BY <1>2, <1>3, <1>4

\* The scaled steps add up to the change of the equity, and a wiped account stays so.
LEMMA EquityReconciles ==
  ASSUME NEW n \in Nat \ {0}, NEW leg, LegOk(leg, n)
  PROVE  LET A == Account(leg, n)
             x == [i \in 1..(n - 1) |-> Mul(A[i + 1].scale, Mul(A[i].equity, A[i + 1].net))]
         IN /\ \A t \in 2..n : A[t - 1].equity = Zero => A[t].equity = Zero
            /\ Sub(A[n].equity, One) = SumOf(n - 1, x)
<1> DEFINE A == Account(leg, n)
           x == [i \in 1..(n - 1) |-> Mul(A[i + 1].scale, Mul(A[i].equity, A[i + 1].net))]
           P == {k \in Nat : k + 1 <= n => Sub(A[k + 1].equity, One) = SumOf(k, x)}
<1>1. \A t \in 1..n : A[t].equity \in Ratio
  BY AccountSound DEF Sound
<1>2. ASSUME NEW t \in 2..n
      PROVE  /\ Mul(A[t].scale, Mul(A[t - 1].equity, A[t].net))
                  = Sub(A[t].equity, A[t - 1].equity)
             /\ A[t - 1].equity = Zero => A[t].equity = Zero
  <2> DEFINE a == A[t - 1]
             b == A[t]
  <2>1. t \in Nat /\ t > 1 /\ t - 1 \in 1..n /\ t \in 1..n
    OBVIOUS
  <2>2. Sound(leg, a) /\ QuotesAt(leg, t - 1) /\ QuotesAt(leg, t) /\ SizesOk(leg)
    BY <2>1, AccountSound DEF LegOk
  <2>3. /\ b.equity = EquityAt(leg, a, t) /\ b.net = Net(leg, a, t)
        /\ b.scale = StepScale(a.equity, b.net, Ruins(b.net))
    BY BarNext
  <2> HIDE DEF a, b
  <2>4. b.net \in Ratio /\ a.equity \in Ratio
    BY <2>1, <2>2, <2>3, NetIs DEF Sound
  <2>5. b.equity = IF a.equity
          = Zero \/ Ruins(b.net) THEN Zero ELSE Mul(a.equity, Add(One, b.net))
    BY <2>3 DEF EquityAt
  <2>6. Mul(b.scale, Mul(a.equity, b.net)) = Sub(b.equity, a.equity)
    BY <2>3, <2>4, <2>5, StepAddsUp
  <2> QED
    BY <2>5, <2>6 DEF a, b
<1>3. A[1].equity = One
  BY BarOne
<1> HIDE DEF A
<1>4. 0 \in P
  <2>1. SumOf(0, x) = Zero
    BY SumIs, 0 \in Nat
  <2>2. Sub(One, One) = Zero
    BY SubSelf, Simple
  <2> QED
    BY <1>3, <2>1, <2>2
<1>5. ASSUME NEW k \in Nat, k \in P PROVE k + 1 \in P
  <2>1. SUFFICES ASSUME (k + 1) + 1 <= n PROVE Sub(A[(k + 1) + 1].equity, One) = SumOf(k + 1, x)
    OBVIOUS
  <2> DEFINE t == k + 2
             p == A[t - 1].equity
             q == A[t].equity
  <2>2. /\ t \in 2..n /\ t - 1 = k + 1 /\ (k + 1) + 1 = t /\ t - 1 \in 1..n /\ t \in 1..n
        /\ k + 1 \in 1..(n - 1) /\ k + 1 \in Nat /\ k + 1 # 0 /\ (k + 1) - 1 = k
    BY <2>1
  <2>3. x[k + 1] = Mul(A[t].scale, Mul(A[t - 1].equity, A[t].net))
    BY <2>2
  <2>4. x[k + 1] = Sub(q, p) /\ p \in Ratio /\ q \in Ratio
    BY <1>1, <1>2, <2>2, <2>3
  <2>5. Sub(p, One) = SumOf(k, x)
    BY <1>5, <2>2
  <2> HIDE DEF x, p, q
  <2>6. SumOf(k + 1, x) = Add(SumOf(k, x), x[k + 1])
    BY <2>2, SumIs
  <2>7. Add(Sub(p, One), Sub(q, p)) = Sub(q, One)
    BY <2>4, Telescope, Simple
  <2> QED
    BY <2>2, <2>4, <2>5, <2>6, <2>7 DEF q
<1> HIDE DEF P, x
<1>6. \A k \in Nat : k \in P
  BY <1>4, <1>5, NatIsAll
<1>7. n - 1 \in P /\ (n - 1) + 1 = n
  BY <1>6, n - 1 \in Nat
<1>8. Sub(A[n].equity, One) = SumOf(n - 1, x)
  BY <1>7 DEF P
<1> QED
  BY <1>2, <1>8 DEF x, A

-----------------------------------------------------------------------------
(* The replay holds what the account holds                                 *)

\* A step of the replay that costs are charged on (hold_leg_notional_fractions).
ReplayNext(leg, m, t) ==
  IF ~leg.active[t] THEN [m EXCEPT !.holding = FALSE]
  ELSE IF Opens(leg, m, t) THEN ReplayOpened(leg, m, t) ELSE m

\* The replay, bar by bar.
IsReplay(R, leg, n) ==
  R = [t \in 1..n |-> IF t = 1 THEN ReplaySeed(leg) ELSE ReplayNext(leg, R[t - 1], t)]

\* There is a replay of any length.
LEMMA ReplayExists ==
  ASSUME NEW n \in Nat, NEW leg
  PROVE  \E R : IsReplay(R, leg, n)
<1> DEFINE P == {m \in Nat : \E R : IsReplay(R, leg, m)}
<1>1. 0 \in P
  <2> DEFINE R == [t \in 1..0 |-> ReplaySeed(leg)]
  <2>1. IsReplay(R, leg, 0)
    BY DEF IsReplay
  <2> QED
    BY <2>1
<1>2. ASSUME NEW m \in Nat, m \in P PROVE m + 1 \in P
  <2>1. PICK R : IsReplay(R, leg, m)
    BY <1>2
  <2> DEFINE X == IF m = 0 THEN ReplaySeed(leg) ELSE ReplayNext(leg, R[m], m + 1)
             T == [t \in 1..(m + 1) |-> IF t = m + 1 THEN X ELSE R[t]]
  <2>2. ASSUME NEW t \in 1..(m + 1)
        PROVE  T[t] = IF t = 1 THEN ReplaySeed(leg) ELSE ReplayNext(leg, T[t - 1], t)
    <3>1. CASE t = m + 1
      BY <3>1
    <3>2. CASE t # m + 1
      <4>1. t \in 1..m /\ T[t] = R[t] /\ (t # 1 => t - 1 \in 1..m /\ T[t - 1] = R[t - 1])
        BY <3>2
      <4> QED
        BY <2>1, <4>1 DEF IsReplay
    <3> QED
      BY <3>1, <3>2
  <2>3. IsReplay(T, leg, m + 1)
    <3>1. T = [t \in 1..(m + 1) |-> T[t]]
      OBVIOUS
    <3> HIDE DEF T
    <3> QED
      BY <2>2, <3>1 DEF IsReplay
  <2> QED
    BY <2>3
<1> HIDE DEF P
<1>3. \A m \in Nat : m \in P
  BY <1>1, <1>2, NatIsAll
<1> QED
  BY <1>3 DEF P

\* Replayed is the replay.
LEMMA ReplayIs ==
  ASSUME NEW leg, Len(leg.active) \in Nat
  PROVE  IsReplay(Replayed(leg), leg, Len(leg.active))
<1>1. PICK R : IsReplay(R, leg, Len(leg.active))
  BY ReplayExists
<1> QED
  BY <1>1 DEF Replayed, IsReplay, ReplayNext

\* The replay and the account hold the same position.
SamePosition(r, m) == r.holding = m.holding /\ r.premium = m.premium /\ r.ref = m.ref

\* The replay remembers numbers.
LEMMA ReplaySized ==
  ASSUME NEW leg, NEW t \in Nat, QuotesAt(leg, t), NEW r \in Mem
  PROVE  ReplayNext(leg, r, t) \in Mem
<1>1. OpenPremium(leg, t) \in Number /\ Reference(leg, r.ref, t) \in Number
  BY DEF OpenPremium, Reference, QuotesAt, Mem
<1> QED
  BY <1>1 DEF ReplayNext, ReplayOpened, Mem

\* A step of the replay ends as a sizing of the account does.
LEMMA MirrorsNext ==
  ASSUME NEW leg, Futures(leg), NEW t \in Nat, QuotesAt(leg, t), NEW r \in Mem, NEW m \in Mem,
         SamePosition(r, m), NEW q, q # Zero
  PROVE  SamePosition(ReplayNext(leg, r, t), Resized(leg, m, q, t))
<1> DEFINE open == OpenPremium(leg, t)
           ref == Reference(leg, m.ref, t)
           c == IF leg.hedge = None THEN m ELSE [m EXCEPT !.delta = NaN, !.unitDelta = NaN]
           anchored == [c EXCEPT !.premium = open, !.lastFinite = open]
           full == [anchored EXCEPT !.holding = TRUE, !.equity = q,
                                    !.ref = IF Futures(leg) THEN ref ELSE @]
<1>1. Opened(leg, m, q, t)
        = IF ~Quotable(open) THEN c ELSE IF ~DenomOk(leg, ref) THEN anchored ELSE full
  BY DEF Opened
<1>2. ReplayOpened(leg, r, t) =
        IF ~Quotable(open) THEN r
        ELSE IF DenomOk(leg, ref)
             THEN [r EXCEPT !.premium = open, !.ref = ref, !.holding = TRUE]
             ELSE [r EXCEPT !.premium = open]
  BY DEF ReplayOpened, SamePosition
<1> HIDE DEF open, ref
<1>3. SamePosition(r, c) /\ c.equity = m.equity /\ DOMAIN c = DOMAIN m
  BY DEF SamePosition, Mem
<1>4. SamePosition([r EXCEPT !.premium = open], anchored)
  BY DEF SamePosition, Mem
<1>5. SamePosition([r EXCEPT !.premium = open, !.ref = ref, !.holding = TRUE], full)
  BY DEF SamePosition, Mem
<1> HIDE DEF c, anchored, full
<1>6. SamePosition(ReplayOpened(leg, r, t), Opened(leg, m, q, t))
  BY <1>1, <1>2, <1>3, <1>4, <1>5
<1>7. Opens(leg, r, t) <=> Opens(leg, m, t)
  BY DEF Opens, SamePosition
<1>8. SamePosition([r EXCEPT !.holding = FALSE], [m EXCEPT !.holding = FALSE])
  BY DEF SamePosition, Mem
<1> QED
  BY <1>6, <1>7, <1>8 DEF ReplayNext, Resized

\* So the replay holds what the account holds, until the account is wiped.
LEMMA ReplayFollows ==
  ASSUME NEW n \in Nat \ {0}, NEW leg, LegOk(leg, n), Futures(leg), Len(leg.active) = n
  PROVE  \A t \in 1..n : Account(leg, n)[t].equity # Zero
                           => SamePosition(Replayed(leg)[t], Account(leg, n)[t].mem[1])
<1> DEFINE A == Account(leg, n)
           R == Replayed(leg)
           Follows(t) == R[t] \in Mem /\ (A[t].equity # Zero => SamePosition(R[t], A[t].mem[1]))
           P == {k \in Nat : k + 1 <= n => Follows(k + 1)}
<1>1. IsReplay(R, leg, n)
  BY ReplayIs
<1> HIDE DEF R
<1>2. 0 \in P
  <2>1. QuotesAt(leg, 1) /\ 1 \in 1..n
    BY DEF LegOk
  <2>2. R[1] = Seed(leg) /\ A[1].mem[1] = Seed(leg)
    BY <1>1, <2>1, BarOne DEF IsReplay, ReplaySeed
  <2> HIDE DEF A
  <2> QED
    BY <2>1, <2>2, SeedSized DEF SamePosition
<1>3. ASSUME NEW k \in Nat, k \in P PROVE k + 1 \in P
  <2>1. SUFFICES ASSUME (k + 1) + 1 <= n PROVE Follows((k + 1) + 1)
    OBVIOUS
  <2> DEFINE t == k + 2
  <2>2. /\ t \in 2..n /\ t \in Nat /\ t > 1 /\ t - 1 = k + 1 /\ (k + 1) + 1 = t /\ t - 1 \in 1..n
        /\ t \in 1..n /\ t - 1 \in Nat /\ (t - 1) + 1 = t /\ t # 1
    BY <2>1
  <2> HIDE DEF t
  <2> DEFINE a == A[t - 1]
             b == Booked(leg, a.mem[1], a.equity, t - 1)
  <2>3. Sound(leg, a) /\ QuotesAt(leg, t - 1) /\ QuotesAt(leg, t)
    BY <2>2, AccountSound DEF LegOk
  <2>4. A[t].equity = EquityAt(leg, a, t) /\ A[t].mem[1] = MemAt(leg, a, t)
    BY <2>2, BarNext
  <2>5. R[t] = ReplayNext(leg, R[t - 1], t)
    BY <1>1, <2>2 DEF IsReplay
  <2>6. R[t - 1] \in Mem /\ (a.equity # Zero => SamePosition(R[t - 1], a.mem[1]))
    BY <1>3, <2>2
  <2> HIDE DEF A, P
  <2>7. R[t] \in Mem
    BY <2>2, <2>3, <2>5, <2>6, ReplaySized
  <2>8. ASSUME A[t].equity # Zero PROVE SamePosition(R[t], A[t].mem[1])
    <3>1. a.equity # Zero
      BY <2>4, <2>8 DEF EquityAt
    <3>2. b \in Mem /\ SamePosition(R[t - 1], b)
      BY <2>2, <2>3, <2>6, <3>1, BookedSized DEF Sound, SamePosition
    <3>3. A[t].mem[1] = Resized(leg, b, A[t].equity, t)
      BY <2>4, <3>1 DEF MemAt
    <3> HIDE DEF a, b
    <3> QED
      BY <2>2, <2>3, <2>5, <2>6, <2>8, <3>2, <3>3, MirrorsNext
  <2> QED
    BY <2>2, <2>7, <2>8
<1> HIDE DEF P, A
<1>4. \A k \in Nat : k \in P
  BY <1>2, <1>3, NatIsAll
<1> QED
  <2> SUFFICES ASSUME NEW t \in 1..n PROVE A[t].equity # Zero => SamePosition(R[t], A[t].mem[1])
    BY DEF A, R
  <2>1. t - 1 \in Nat /\ (t - 1) + 1 = t
    OBVIOUS
  <2>2. t - 1 \in P
    BY <1>4, <2>1
  <2> QED
    BY <2>1, <2>2 DEF P

-----------------------------------------------------------------------------
(* Turnover                                                                *)

\* Sides of v: in, out, both and none.
LEMMA AbsTwice ==
  ASSUME NEW x \in Ratio
  PROVE  LET v == AbsF(x)
         IN /\ v \in Ratio /\ AbsF(Sub(v, v)) = Zero /\ AbsF(Sub(v, Zero)) = v
            /\ AbsF(Sub(Zero, v)) = v /\ AbsF(Sub(Zero, Zero)) = Zero
<1> DEFINE v == AbsF(x)
<1>1. v \in Ratio /\ v[1] \in Nat /\ v = <<v[1], v[2]>>
  BY AbsIs, RatioIs DEF AbsF, Abs
<1> HIDE DEF v
<1>2. Sub(v, v) = Zero /\ Sub(v, Zero) = v /\ Sub(Zero, v) = Neg(v) /\ Sub(Zero, Zero) = Zero
  BY <1>1, SubSelf, SubZero, AddZero, Closed, Simple DEF Sub
<1>3. AbsF(Zero) = Zero
  BY DEF AbsF, Abs, Zero, Int2F
<1>4. AbsF(v) = v
  BY <1>1 DEF AbsF, Abs
<1>5. AbsF(Neg(v)) = v
  <2>1. Abs(-v[1]) = v[1]
    BY <1>1 DEF Abs
  <2> QED
    BY <1>1, <2>1 DEF AbsF, Neg
<1> QED
  BY <1>1, <1>2, <1>3, <1>4, <1>5 DEF v

\* v i + v j = v (i + j).
LEMMA IntSum ==
  ASSUME NEW v \in Ratio, NEW i \in Int, NEW j \in Int
  PROVE  Add(Mul(v, Int2F(i)), Mul(v, Int2F(j))) = Mul(v, Int2F(i + j))
<1>1. Int2F(i) \in Ratio /\ Int2F(j) \in Ratio /\ Is(Int2F(i), i, 1) /\ Is(Int2F(j), j, 1)
      /\ Is(Int2F(i + j), i + j, 1) /\ i + j \in Int
  BY IntIs
<1>2. Is(Add(Int2F(i), Int2F(j)), i * 1 + j * 1, 1 * 1)
  BY <1>1, IsAdd, 1 # 0, 1 \in Int
<1>3. Add(Int2F(i), Int2F(j)) = Int2F(i + j)
  BY <1>1, <1>2, Same, i * 1 + j * 1 = i + j, 1 * 1 = 1, 1 # 0, 1 \in Int
<1> QED
  BY <1>1, <1>3, Distribute

\* v times 0, 1 and 2.
LEMMA Doubled ==
  ASSUME NEW v \in Ratio
  PROVE  /\ Mul(v, Int2F(0)) = Zero /\ Mul(v, Int2F(1)) = v /\ Mul(v, Int2F(2)) = Mul(Int2F(2), v)
         /\ Add(v, v) = Mul(Int2F(2), v) /\ Mul(Int2F(2), v) \in Ratio
<1>1. Mul(v, Int2F(0)) = Zero
  BY MulByZero DEF Zero
<1>2. \A i \in Int : Mul(v, Int2F(i)) = Mul(Int2F(i), v)
  BY RatioIs DEF Mul, Int2F
<1>3. Mul(v, Int2F(1)) = v
  BY <1>2, MulOne, 1 \in Int DEF One
<1>4. Add(v, v) = Mul(v, Int2F(1 + 1))
  BY <1>3, IntSum, 1 \in Int
<1>5. Mul(Int2F(2), v) \in Ratio
  BY Closed, IntIs, 2 \in Int
<1> QED
  BY <1>1, <1>2, <1>3, <1>4, <1>5, 1 + 1 = 2, 2 \in Int

\* The members of S up to k.
Upto(S, k) == {t \in S : t <= k}

\* One more at most with each k.
LEMMA OneMore ==
  ASSUME NEW n \in Nat, NEW S \in SUBSET (1..n), NEW k \in Nat
  PROVE  /\ Cardinality(Upto(S, k)) \in Nat
         /\ Cardinality(Upto(S, k + 1)) = Cardinality(Upto(S, k)) + (IF k + 1 \in S THEN 1 ELSE 0)
<1>1. IsFiniteSet(Upto(S, k))
  <2>1. IsFiniteSet(1..n)
    BY FS_Interval, 1 \in Int, n \in Int
  <2>2. Upto(S, k) \in SUBSET (1..n)
    BY DEF Upto
  <2> QED
    BY <2>1, <2>2, FS_Subset
<1>2. Cardinality(Upto(S, k)) \in Nat
  BY <1>1, FS_CardinalityType
<1>3. CASE k + 1 \in S
  <2>1. Upto(S, k + 1) = Upto(S, k) \cup {k + 1} /\ k + 1 \notin Upto(S, k)
    <3>1. \A t \in S : t <= k + 1 <=> (t <= k \/ t = k + 1)
      OBVIOUS
    <3>2. ~(k + 1 <= k)
      OBVIOUS
    <3>3. k + 1 \notin Upto(S, k)
      BY <3>2 DEF Upto
    <3>4. Upto(S, k + 1) = Upto(S, k) \cup {k + 1}
      BY <1>3, <3>1, Zenon DEF Upto
    <3> QED
      BY <3>3, <3>4
  <2> QED
    BY <1>1, <1>2, <1>3, <2>1, FS_AddElement
<1>4. CASE k + 1 \notin S
  <2>1. Upto(S, k + 1) = Upto(S, k)
    <3>1. \A t \in S : t <= k + 1 <=> t <= k
      BY <1>4
    <3> QED
      BY <3>1 DEF Upto
  <2> QED
    BY <1>2, <1>4, <2>1
<1> QED
  BY <1>2, <1>3, <1>4

\* A leg is switched on or off at t; it is rolled at t while it is held.
Switches(leg, t) == leg.active[t] # (t > 1 /\ leg.active[t - 1])

\* The sides a bar is charged for.
Sides(leg, t) ==
  (IF Switches(leg, t) THEN 1 ELSE 0) + (IF HeldAcross(leg, t) THEN 2 ELSE 0)

\* What a bar is charged for is its sides times the size (hold_leg_turnover).
LEMMA TurnoverIs ==
  ASSUME NEW n \in Nat, NEW leg, LegOk(leg, n), NEW t \in 1..n
  PROVE  ScalarTurnover(leg, t) = Mul(AbsF(leg.nav), Int2F(Sides(leg, t)))
<1> DEFINE v == AbsF(leg.nav)
           q == [b \in 1..t |-> IF leg.active[b] THEN AbsF(leg.nav) ELSE Zero]
           was == IF t = 1 THEN Zero ELSE q[t - 1]
           side == IF Switches(leg, t) THEN 1 ELSE 0
           twice == IF HeldAcross(leg, t) THEN 2 ELSE 0
<1>1. leg.nav \in Ratio /\ leg.active[t] \in BOOLEAN /\ (t # 1 => leg.active[t - 1] \in BOOLEAN)
  BY t - 1 \in 1..n \/ t = 1 DEF LegOk, SizesOk, QuotesAt
<1>2. /\ v \in Ratio /\ AbsF(Sub(v, v)) = Zero /\ AbsF(Sub(v, Zero)) = v
      /\ AbsF(Sub(Zero, v)) = v /\ AbsF(Sub(Zero, Zero)) = Zero
  BY <1>1, AbsTwice
<1>3. /\ q[t] = (IF leg.active[t] THEN v ELSE Zero)
      /\ was = (IF t > 1 /\ leg.active[t - 1] THEN v ELSE Zero)
  OBVIOUS
<1>4. ScalarTurnover(leg, t)
        = Add(AbsF(Sub(q[t], was)), IF HeldAcross(leg, t) THEN Mul(Int2F(2), v) ELSE Zero)
  BY DEF ScalarTurnover, Changed
<1> HIDE DEF v, q, was
<1>5. AbsF(Sub(q[t], was)) = IF Switches(leg, t) THEN v ELSE Zero
  BY <1>1, <1>2, <1>3 DEF Switches
<1>6. /\ Mul(v, Int2F(0)) = Zero /\ Mul(v, Int2F(1)) = v /\ Mul(v, Int2F(2)) = Mul(Int2F(2), v)
  BY <1>2, Doubled
<1>7. side \in Int /\ twice \in Int /\ Sides(leg, t) = side + twice
  BY DEF Sides
<1>8. AbsF(Sub(q[t], was)) = Mul(v, Int2F(side))
  BY <1>5, <1>6
<1>9. (IF HeldAcross(leg, t) THEN Mul(Int2F(2), v) ELSE Zero) = Mul(v, Int2F(twice))
  BY <1>6
<1> HIDE DEF side, twice
<1> QED
  BY <1>2, <1>4, <1>7, <1>8, <1>9, IntSum DEF v

\* All bars together are charged a side a switch, two a roll.
LEMMA TurnoverCounts ==
  ASSUME NEW n \in Nat, NEW leg, LegOk(leg, n)
  PROVE  LET switches == {t \in 1..n : Switches(leg, t)}
             rolls == {t \in 2..n : HeldAcross(leg, t)}
         IN SumOf(n, [t \in 1..n |-> ScalarTurnover(leg, t)])
              = Mul(AbsF(leg.nav), Int2F(Cardinality(switches) + 2 * Cardinality(rolls)))
<1> DEFINE switches == {t \in 1..n : Switches(leg, t)}
           rolls == {t \in 2..n : HeldAcross(leg, t)}
           v == AbsF(leg.nav)
           x == [t \in 1..n |-> ScalarTurnover(leg, t)]
           Count(k) == Cardinality(Upto(switches, k)) + 2 * Cardinality(Upto(rolls, k))
           P == {k \in Nat : k <= n => SumOf(k, x) = Mul(v, Int2F(Count(k)))}
<1>1. v \in Ratio
  BY AbsTwice DEF LegOk, SizesOk
<1>2. switches \in SUBSET (1..n) /\ rolls \in SUBSET (1..n)
  OBVIOUS
<1>3. \A t \in 1..n : /\ x[t] = Mul(v, Int2F(Sides(leg, t)))
                      /\ Sides(leg, t)
                           = (IF t \in switches THEN 1 ELSE 0) + (IF t \in rolls THEN 2 ELSE 0)
  <2> SUFFICES ASSUME NEW t \in 1..n
               PROVE  /\ x[t] = Mul(v, Int2F(Sides(leg, t)))
                      /\ Sides(leg, t)
                           = (IF t \in switches THEN 1 ELSE 0) + (IF t \in rolls THEN 2 ELSE 0)
    OBVIOUS
  <2>1. t \in rolls <=> HeldAcross(leg, t)
    BY DEF HeldAcross
  <2>2. t \in switches <=> Switches(leg, t)
    OBVIOUS
  <2> QED
    BY <2>1, <2>2, TurnoverIs DEF Sides
<1>4. /\ Upto(switches, 0) = {} /\ Upto(rolls, 0) = {} /\ Upto(switches, n) = switches
      /\ Upto(rolls, n) = rolls
  BY DEF Upto
<1> HIDE DEF switches, rolls, v, x
<1>5. 0 \in P
  <2>1. Count(0) = 0
    BY <1>4, FS_EmptySet
  <2>2. SumOf(0, x) = Zero
    BY SumIs, 0 \in Nat
  <2> HIDE DEF Count
  <2> QED
    BY <1>1, <2>1, <2>2, Doubled
<1>6. ASSUME NEW k \in Nat, k \in P PROVE k + 1 \in P
  <2>1. SUFFICES ASSUME k + 1 <= n PROVE SumOf(k + 1, x) = Mul(v, Int2F(Count(k + 1)))
    OBVIOUS
  <2>2. k + 1 \in 1..n /\ k + 1 \in Nat /\ k + 1 # 0 /\ (k + 1) - 1 = k /\ k <= n
    BY <2>1
  <2> DEFINE d == (IF k + 1 \in switches THEN 1 ELSE 0) + (IF k + 1 \in rolls THEN 2 ELSE 0)
  <2>3. /\ Cardinality(Upto(switches, k)) \in Nat /\ Cardinality(Upto(rolls, k)) \in Nat
        /\ Cardinality(Upto(switches, k + 1))
             = Cardinality(Upto(switches, k)) + (IF k + 1 \in switches THEN 1 ELSE 0)
        /\ Cardinality(Upto(rolls, k + 1))
             = Cardinality(Upto(rolls, k)) + (IF k + 1 \in rolls THEN 1 ELSE 0)
    BY <1>2, OneMore
  <2>4. Count(k + 1) = Count(k) + d /\ Count(k) \in Int /\ d \in Int
    BY <2>3
  <2>5. x[k + 1] = Mul(v, Int2F(d))
    BY <1>3, <2>2
  <2>6. SumOf(k, x) = Mul(v, Int2F(Count(k)))
    BY <1>6, <2>2
  <2> HIDE DEF Count, d
  <2>7. SumOf(k + 1, x) = Add(SumOf(k, x), x[k + 1])
    BY <2>2, SumIs
  <2> QED
    BY <1>1, <2>4, <2>5, <2>6, <2>7, IntSum
<1> HIDE DEF P
<1>7. n \in P
  BY <1>5, <1>6, NatIsAll
<1>8. SumOf(n, x) = Mul(v, Int2F(Count(n)))
  BY <1>7 DEF P
<1>9. Count(n) = Cardinality(switches) + 2 * Cardinality(rolls)
  BY <1>4
<1> HIDE DEF Count
<1>10. SumOf(n, x) = Mul(v, Int2F(Cardinality(switches) + 2 * Cardinality(rolls)))
  BY <1>8, <1>9
<1> QED
  BY <1>10 DEF switches, rolls, v, x

\* Without futures the fraction at each bar is the size itself.
LEMMA FractionsAgree ==
  ASSUME NEW n \in Nat, NEW leg, LegOk(leg, n), ~Futures(leg), Len(leg.active) = n, NEW t \in 1..n
  PROVE  FractionTurnover(leg, NotionalFractions(leg), t) = ScalarTurnover(leg, t)
<1> DEFINE v == AbsF(leg.nav)
           q == [b \in 1..t |-> IF leg.active[b] THEN AbsF(leg.nav) ELSE Zero]
           f == NotionalFractions(leg)
<1>1. f = [b \in 1..n |-> IF leg.active[b] THEN v ELSE Zero]
  BY DEF NotionalFractions
<1>2. f[t] = q[t] /\ (t # 1 => f[t - 1] = q[t - 1])
  BY <1>1, t = 1 \/ (t - 1 \in 1..n /\ t - 1 \in 1..t)
<1>3. Changed(f, t) = Changed(q, t)
  BY <1>2 DEF Changed
<1>4. v \in Ratio /\ AbsF(Sub(v, v)) = Zero
  BY AbsTwice DEF LegOk, SizesOk
<1>5. CASE HeldAcross(leg, t)
  <2>1. f[t] = v /\ f[t - 1] = v /\ t # 1
    BY <1>1, <1>5, t - 1 \in 1..n \/ t = 1 DEF HeldAcross
  <2> HIDE DEF f, q, v
  <2>2. Changed(f, t) = Zero
    BY <1>4, <2>1 DEF Changed
  <2>3. FractionTurnover(leg, f, t) = Add(Zero, Sub(Add(v, v), Zero))
    BY <1>5, <2>1, <2>2 DEF FractionTurnover
  <2>4. ScalarTurnover(leg, t) = Add(Zero, Mul(Int2F(2), v))
    BY <1>3, <1>5, <2>2 DEF ScalarTurnover, q, v
  <2>5. Add(v, v) = Mul(Int2F(2), v) /\ Mul(Int2F(2), v) \in Ratio
    BY <1>4, Doubled
  <2>6. Sub(Add(v, v), Zero) = Add(v, v)
    BY <2>5, SubZero
  <2> QED
    BY <2>3, <2>4, <2>5, <2>6 DEF f
<1>6. CASE ~HeldAcross(leg, t)
  <2>1. q[t] \in Ratio /\ (IF t = 1 THEN Zero ELSE q[t - 1]) \in Ratio
    <3>1. t = 1 \/ t - 1 \in 1..t
      OBVIOUS
    <3> HIDE DEF v, f
    <3> QED
      BY <1>4, <3>1, Simple DEF v
  <2> HIDE DEF q
  <2>2. Changed(q, t) \in Ratio
    BY <2>1, Closed DEF Changed
  <2>3. ScalarTurnover(leg, t) = Add(Changed(q, t), Zero)
    BY <1>6 DEF ScalarTurnover, q
  <2>4. FractionTurnover(leg, f, t) = Changed(f, t)
    BY <1>6 DEF FractionTurnover
  <2> QED
    BY <1>3, <2>2, <2>3, <2>4, AddZeroTo
<1> QED
  BY <1>5, <1>6

-----------------------------------------------------------------------------
(* Segments                                                                *)

\* What a unit of premium is worth to a position.
Worth(leg, m) ==
  Mul(Mul(Mul(leg.sign, leg.nav), m.equity),
      IF Futures(leg) THEN Div(leg.multOpt, Mul(m.ref, leg.multFut)) ELSE Div(One, m.premium))

\* The last quote once t has come.
Quoted(leg, m, t) == IF IsFinite(leg.premium[t]) THEN leg.premium[t] ELSE m.lastFinite

\* A position that is held into t moves the equity by its worth times the move
\* from the last quote.
LEMMA HeldInto ==
  ASSUME NEW leg, SizesOk(leg), leg.hedge = None, NEW t \in Nat, t > 1,
         QuotesAt(leg, t - 1), QuotesAt(leg, t), NEW a, Sound(leg, a),
         a.mem[1].holding, leg.active[t - 1], leg.active[t], a.mem[1].lastFinite \in Ratio,
         leg.isRoll[t - 1] => leg.rollPremium[t - 1] = a.mem[1].lastFinite,
         EquityAt(leg, a, t) # Zero
  PROVE  /\ Worth(leg, a.mem[1]) \in Ratio /\ Quoted(leg, a.mem[1], t) \in Ratio
         /\ Sub(EquityAt(leg, a, t), a.equity)
              = Mul(Worth(leg, a.mem[1]), Sub(Quoted(leg, a.mem[1], t), a.mem[1].lastFinite))
<1> DEFINE m == a.mem[1]
           q == a.equity
           net == Net(leg, a, t)
           size == Mul(leg.sign, leg.nav)
           last == m.lastFinite
           qty == Quantity(leg, m, q)
           move == Sub(leg.premium[t], last)
           den == Mul(m.ref, leg.multFut)
<1>1. /\ q \in Ratio /\ q # Zero /\ m \in Mem /\ WellSized(leg, m) /\ last \in Ratio
      /\ t - 1 \in Nat /\ (t - 1) + 1 = t
  BY DEF EquityAt, Sound
<1>2. EquityAt(leg, a, t) = Mul(q, Add(One, net))
  BY DEF EquityAt
<1>3. net \in Ratio /\ net = Contribution(leg, m, q, t - 1)
  BY <1>1, NetIs
<1>4. Sub(Mul(q, Add(One, net)), q) = Mul(q, net)
  BY <1>1, <1>3, Growth
<1>5. Accrues(leg, m, q, t - 1)
  BY <1>1 DEF Accrues
<1>6. HedgePnl(leg, m, q, t - 1) = Zero
  BY DEF HedgePnl, Hedges
<1>7. Base(leg, m, t - 1) = last
  BY DEF Base
<1>8. OptionPnl(leg, m, q, t - 1) = IF IsFinite(move) /\ qty # None THEN Mul(qty, move) ELSE Zero
  BY <1>1, <1>7 DEF OptionPnl
<1>9. /\ qty \in Ratio /\ qty # None
      /\ qty = IF Futures(leg) THEN Div(Mul(Mul(size, Div(m.equity, q)), leg.multOpt), den)
               ELSE Div(Mul(size, Div(m.equity, q)), m.premium)
      /\ Futures(leg) => m.ref \in Ratio /\ leg.multFut \in Ratio /\ leg.multOpt \in Ratio /\ den # Zero
      /\ m.premium \in Ratio /\ m.premium # Zero
  BY <1>1, QuantityIs
<1>10. size \in Ratio /\ m.equity \in Ratio
  BY <1>1, Closed DEF SizesOk, Mem
<1>11. net = Add(OptionPnl(leg, m, q, t - 1), Zero)
  BY <1>3, <1>5, <1>6 DEF Contribution
<1>12. leg.premium[t] \in Number
  BY DEF QuotesAt
<1>13. Worth(leg, m)
         = Mul(Mul(size, m.equity), IF Futures(leg) THEN Div(leg.multOpt, den) ELSE Div(One, m.premium))
  BY DEF Worth
<1> HIDE DEF m, q, net, size, last, qty, den
<1>14. Worth(leg, m) \in Ratio /\ Mul(q, qty) = Worth(leg, m)
  <2>1. CASE Futures(leg)
    <3>1. den \in Ratio /\ den # Zero /\ leg.multOpt \in Ratio
      BY <1>9, <2>1, Closed DEF den
    <3>2. Div(leg.multOpt, den) \in Ratio /\ Mul(size, m.equity) \in Ratio
      BY <1>9, <1>10, <2>1, <3>1, Closed
    <3>3. Mul(q, Div(Mul(Mul(size, Div(m.equity, q)), leg.multOpt), den))
            = Mul(Mul(size, m.equity), Div(leg.multOpt, den))
      BY <1>1, <1>10, <3>1, ShareOf
    <3>4. Mul(Mul(size, m.equity), Div(leg.multOpt, den)) \in Ratio
      BY <3>2, Closed
    <3> QED
      BY <1>9, <1>13, <2>1, <3>3, <3>4
  <2>2. CASE ~Futures(leg)
    <3>1. Div(One, m.premium) \in Ratio /\ Mul(size, m.equity) \in Ratio
      BY <1>9, <1>10, Simple, Closed
    <3>2. Mul(q, Div(Mul(size, Div(m.equity, q)), m.premium))
            = Mul(Mul(size, m.equity), Div(One, m.premium))
      BY <1>1, <1>9, <1>10, ShareOfOne
    <3> QED
      BY <1>9, <1>13, <2>2, <3>1, <3>2, Closed
  <2> QED
    BY <2>1, <2>2
<1>15. CASE IsFinite(leg.premium[t])
  <2>1. leg.premium[t] \in Ratio /\ Quoted(leg, m, t) = leg.premium[t]
    BY <1>12, <1>15, FiniteIsRatio DEF Quoted
  <2>2. move \in Ratio /\ IsFinite(move)
    BY <1>1, <2>1, Closed, Simple
  <2>3. Mul(qty, move) \in Ratio /\ Mul(q, Mul(qty, move)) = Mul(Mul(q, qty), move)
    <3>1. qty \in Ratio /\ move \in Ratio /\ q \in Ratio
      BY <1>1, <1>9, <2>2
    <3> HIDE DEF move
    <3>2. Mul(qty, move) \in Ratio
      BY <3>1, Closed
    <3>3. Mul(q, Mul(qty, move)) = Mul(Mul(q, qty), move)
      BY <3>1, MulAssoc
    <3> QED
      BY <3>2, <3>3
  <2>4. net = Mul(qty, move)
    BY <1>8, <1>9, <1>11, <2>2, <2>3, AddZeroTo
  <2> QED
    BY <1>2, <1>4, <1>14, <2>1, <2>3, <2>4 DEF m, q, last
<1>16. CASE ~IsFinite(leg.premium[t])
  <2>1. Quoted(leg, m, t) = last
    BY <1>16 DEF Quoted, last
  <2>2. ~IsFinite(move)
    BY <1>1, <1>12, <1>16, FiniteMove, RatioIsNumber, Simple
  <2>3. net = Zero
    BY <1>8, <1>11, <2>2, AddZeroTo, Simple
  <2>4. Mul(q, net) = Zero /\ Sub(last, last) = Zero /\ Mul(Worth(leg, m), Zero) = Zero
    BY <1>1, <1>14, <2>3, MulByZero, SubSelf
  <2> QED
    BY <1>1, <1>2, <1>4, <1>14, <2>1, <2>4 DEF m, q, last
<1> QED
  BY <1>15, <1>16

\* Until the next open the position stays, and only its last quote moves on.
LEMMA HeldOn ==
  ASSUME NEW leg, leg.hedge = None, NEW t \in Nat, t > 1,
         QuotesAt(leg, t - 1), QuotesAt(leg, t), NEW a, Sound(leg, a),
         a.mem[1].holding, leg.active[t - 1], leg.active[t], ~leg.isRoll[t], a.equity # Zero
  PROVE  LET m == a.mem[1]
             b == MemAt(leg, a, t)
         IN /\ b.holding /\ b.premium = m.premium /\ b.ref = m.ref /\ b.equity = m.equity
            /\ b.lastFinite = Quoted(leg, m, t)
<1> DEFINE m == a.mem[1]
           b == Booked(leg, m, a.equity, t - 1)
<1>1. t - 1 \in Nat /\ (t - 1) + 1 = t /\ m \in Mem /\ WellSized(leg, m)
  BY DEF Sound
<1>2. /\ b.holding /\ b.premium = m.premium /\ b.ref = m.ref /\ b.equity = m.equity
  BY <1>1, BookedSized
<1>3. b.lastFinite = Quoted(leg, m, t)
  <2>1. Accrues(leg, m, a.equity, t - 1)
    BY <1>1 DEF Accrues
  <2>2. b = IF IsFinite(leg.premium[t]) THEN [m EXCEPT !.lastFinite = leg.premium[t]] ELSE m
    BY <1>1, <2>1 DEF Booked, Captured, Hedges
  <2> QED
    BY <1>1, <2>2 DEF Quoted, Mem
<1>4. MemAt(leg, a, t) = Resized(leg, b, EquityAt(leg, a, t), t)
  BY DEF MemAt
<1> HIDE DEF b
<1>5. MemAt(leg, a, t) = b
  BY <1>2, <1>4 DEF Resized, Opens
<1> QED
  BY <1>2, <1>3, <1>5

\* A position is sized at t: SizedAt, for a given account.
SizedIn(leg, A, t) ==
  LET m == A[t].mem[1]
  IN /\ m.holding /\ m.equity = A[t].equity
     /\ t = 1 \/ (leg.active[t] /\ Opens(leg, A[t - 1].mem[1], t)
                  /\ m.premium = OpenPremium(leg, t) /\ Quotable(m.premium))

\* A segment starts at the premium of its open, and quotes move on from it.
LEMMA SegmentStarts ==
  ASSUME NEW n \in Nat \ {0}, NEW leg, LegOk(leg, n), leg.hedge = None, NEW t \in 1..n,
         SizedIn(leg, Account(leg, n), t), Account(leg, n)[t].equity # Zero
  PROVE  LET m == Account(leg, n)[t].mem[1]
         IN /\ m.lastFinite = m.premium /\ leg.active[t]
            /\ leg.isRoll[t] => leg.rollPremium[t] = m.premium
<1> DEFINE A == Account(leg, n)
           m == A[t].mem[1]
<1>1. CASE t = 1
  <2>1. m = Seed(leg) /\ m.holding
    BY <1>1, BarOne DEF SizedIn
  <2> HIDE DEF m
  <2>2. Seed(leg).holding =>
          /\ Seed(leg).lastFinite = OpenPremium(leg, 1) /\ Seed(leg).premium = OpenPremium(leg, 1)
          /\ leg.active[1]
    BY DEF Seed, Unsized
  <2>3. m.lastFinite = m.premium /\ leg.active[t] /\ m.premium = OpenPremium(leg, t)
    BY <1>1, <2>1, <2>2
  <2> QED
    BY <2>3 DEF OpenPremium, m
<1>2. CASE t # 1
  <2> DEFINE a == A[t - 1]
             b == Booked(leg, a.mem[1], a.equity, t - 1)
             e == EquityAt(leg, a, t)
  <2>1. t \in 2..n /\ t \in Nat /\ t - 1 \in Nat /\ (t - 1) + 1 = t /\ t - 1 \in 1..n
    BY <1>2
  <2>2. Sound(leg, a) /\ QuotesAt(leg, t - 1) /\ QuotesAt(leg, t)
    BY <2>1, AccountSound DEF LegOk
  <2>3. A[t].equity = e /\ m = MemAt(leg, a, t) /\ e # Zero
    BY <2>1, BarNext
  <2>4. /\ m.holding /\ leg.active[t] /\ Opens(leg, a.mem[1], t)
        /\ m.premium = OpenPremium(leg, t) /\ Quotable(OpenPremium(leg, t))
    BY <1>2 DEF SizedIn
  <2> HIDE DEF A, m
  <2>5. a.equity # Zero
    BY <2>3 DEF EquityAt
  <2>6. m = Resized(leg, b, e, t)
    BY <2>3, <2>5 DEF MemAt
  <2>7. b.holding = a.mem[1].holding /\ b \in Mem
    BY <2>1, <2>2, BookedSized DEF Sound
  <2> HIDE DEF a, b, e
  <2>8. m = Opened(leg, b, e, t)
    BY <2>4, <2>6, <2>7 DEF Resized, Opens
  <2>9. m.lastFinite = OpenPremium(leg, t)
    <3> DEFINE open == OpenPremium(leg, t)
               anchored == [b EXCEPT !.premium = open, !.lastFinite = open]
               full == [anchored EXCEPT !.holding = TRUE, !.equity = e,
                          !.ref = IF Futures(leg) THEN Reference(leg, b.ref, t) ELSE @]
    <3>1. m = anchored \/ m = full
      BY <2>3, <2>4, <2>8 DEF Opened
    <3>2. anchored.lastFinite = open /\ full.lastFinite = open
      BY <2>7 DEF Mem
    <3> QED
      BY <3>1, <3>2
  <2> QED
    BY <2>4, <2>9 DEF OpenPremium, m, A
<1> QED
  BY <1>1, <1>2

\* If the account is not wiped at e, it was not before.
LEMMA WipedStays ==
  ASSUME NEW n \in Nat \ {0}, NEW leg, LegOk(leg, n), NEW e \in 1..n,
         Account(leg, n)[e].equity # Zero
  PROVE  \A t \in 1..e : Account(leg, n)[t].equity # Zero
<1> DEFINE A == Account(leg, n)
           P == {d \in Nat : d < e => A[e - d].equity # Zero}
<1>1. \A t \in 2..n : A[t - 1].equity = Zero => A[t].equity = Zero
  BY EquityReconciles
<1> HIDE DEF A
<1>2. 0 \in P
  BY e - 0 = e DEF A
<1>3. ASSUME NEW d \in Nat, d \in P PROVE d + 1 \in P
  <2>1. SUFFICES ASSUME d + 1 < e PROVE A[e - (d + 1)].equity # Zero
    OBVIOUS
  <2> DEFINE t == e - d
  <2>2. t \in 2..n /\ t - 1 = e - (d + 1)
    BY <2>1
  <2>3. A[t].equity # Zero
    BY <1>3, <2>1
  <2> HIDE DEF t
  <2> QED
    BY <1>1, <2>2, <2>3
<1> HIDE DEF P
<1>4. \A d \in Nat : d \in P
  BY <1>2, <1>3, NatIsAll
<1> QED
  <2> SUFFICES ASSUME NEW t \in 1..e PROVE A[t].equity # Zero
    BY DEF A
  <2>1. e - t \in Nat /\ e - t < e /\ e - (e - t) = t
    OBVIOUS
  <2>2. e - t \in P
    BY <1>4, <2>1
  <2> QED
    BY <2>1, <2>2 DEF P

\* In a segment that began with m at equity first: at b the position is still m's.
StillHeld(leg, m, first, b) ==
  /\ b.mem[1].holding /\ b.mem[1].premium = m.premium /\ b.mem[1].ref = m.ref
  /\ b.mem[1].equity = m.equity /\ b.mem[1].lastFinite \in Ratio
  /\ Sub(b.equity, first) = Mul(Worth(leg, m), Sub(b.mem[1].lastFinite, m.premium))

\* Along a segment the equity moves by the position times the premium's move.
LEMMA Segment ==
  ASSUME NEW n \in Nat \ {0}, NEW leg, LegOk(leg, n), leg.hedge = None,
         NEW a \in 1..n, NEW e \in 1..n, a < e, SizedIn(leg, Account(leg, n), a),
         \A t \in (a + 1)..e : leg.active[t] /\ (t < e => ~leg.isRoll[t]),
         IsFinite(leg.premium[e]), Account(leg, n)[e].equity # Zero
  PROVE  LET A == Account(leg, n)
         IN Sub(A[e].equity, A[a].equity)
              = Mul(Worth(leg, A[a].mem[1]), Sub(leg.premium[e], A[a].mem[1].premium))
<1> DEFINE A == Account(leg, n)
           m == A[a].mem[1]
           first == A[a].equity
           P == {d \in Nat : a + d < e => StillHeld(leg, m, first, A[a + d])}
<1>1. \A t \in 1..e : A[t].equity # Zero
  BY WipedStays
<1>2. \A t \in 1..n : Sound(leg, A[t]) /\ QuotesAt(leg, t)
  BY AccountSound DEF LegOk
<1>3. /\ m.lastFinite = m.premium /\ leg.active[a]
      /\ leg.isRoll[a] => leg.rollPremium[a] = m.premium
  BY <1>1, a \in 1..e, SegmentStarts
<1>4. m.holding /\ m.premium \in Ratio /\ first \in Ratio /\ first # Zero
  BY <1>1, <1>2, a \in 1..e, Simple DEF SizedIn, Sound, WellSized, Mem
\* What a bar of the segment passes on to the next.
<1>5. ASSUME NEW t \in (a + 1)..e, StillHeld(leg, m, first, A[t - 1])
      PROVE  /\ Quoted(leg, A[t - 1].mem[1], t) \in Ratio /\ Worth(leg, m) \in Ratio
             /\ Sub(A[t].equity, first)
                  = Mul(Worth(leg, m), Sub(Quoted(leg, A[t - 1].mem[1], t), m.premium))
             /\ t < e => StillHeld(leg, m, first, A[t])
  <2> DEFINE p == A[t - 1]
             x == Quoted(leg, p.mem[1], t)
  <2>1. /\ t \in 2..n /\ t \in Nat /\ t > 1 /\ t - 1 \in Nat /\ (t - 1) + 1 = t
        /\ t - 1 \in 1..n /\ t \in 1..n /\ t \in 1..e /\ t - 1 \in 1..e
    OBVIOUS
  <2>2. /\ Sound(leg, p) /\ QuotesAt(leg, t - 1) /\ QuotesAt(leg, t) /\ SizesOk(leg)
        /\ p.equity # Zero
    BY <1>1, <1>2, <2>1 DEF LegOk
  <2>3. A[t].equity = EquityAt(leg, p, t) /\ A[t].mem[1] = MemAt(leg, p, t) /\ A[t].equity # Zero
    BY <1>1, <2>1, BarNext
  <2>4. /\ p.mem[1].holding /\ p.mem[1].lastFinite \in Ratio /\ leg.active[t]
        /\ t < e => ~leg.isRoll[t]
    BY <1>5 DEF StillHeld
  <2>5. leg.active[t - 1]
    <3>1. t - 1 = a \/ t - 1 \in (a + 1)..e
      OBVIOUS
    <3> QED
      BY <1>3, <3>1
  <2>6. leg.isRoll[t - 1] => leg.rollPremium[t - 1] = p.mem[1].lastFinite
    <3>1. CASE t - 1 = a
      BY <1>3, <3>1
    <3>2. CASE t - 1 # a
      <4>1. t - 1 \in (a + 1)..e /\ t - 1 < e
        BY <3>2
      <4> QED
        BY <4>1
    <3> QED
      BY <3>1, <3>2
  <2>7. Worth(leg, p.mem[1]) = Worth(leg, m)
    BY <1>5 DEF StillHeld, Worth
  <2>8. Sub(p.equity, first) = Mul(Worth(leg, m), Sub(p.mem[1].lastFinite, m.premium))
    BY <1>5 DEF StillHeld
  <2>9. /\ p.mem[1].premium = m.premium /\ p.mem[1].ref = m.ref /\ p.mem[1].equity = m.equity
    BY <1>5 DEF StillHeld
  <2> HIDE DEF A, m, first, p, P
  <2>10. /\ Worth(leg, p.mem[1]) \in Ratio /\ x \in Ratio
         /\ Sub(EquityAt(leg, p, t), p.equity)
              = Mul(Worth(leg, p.mem[1]), Sub(x, p.mem[1].lastFinite))
    BY <2>1, <2>2, <2>3, <2>4, <2>5, <2>6, HeldInto
  <2>11. p.equity \in Ratio /\ A[t].equity \in Ratio
    BY <1>2, <2>1, <2>2 DEF Sound
  <2> HIDE DEF x
  <2>12. Sub(A[t].equity, first) = Mul(Worth(leg, m), Sub(x, m.premium))
    <3>1. Sub(A[t].equity, p.equity) = Mul(Worth(leg, m), Sub(x, p.mem[1].lastFinite))
      BY <2>3, <2>7, <2>10
    <3>2. /\ Worth(leg, m) \in Ratio /\ x \in Ratio /\ m.premium \in Ratio /\ first \in Ratio
          /\ p.mem[1].lastFinite \in Ratio /\ p.equity \in Ratio /\ A[t].equity \in Ratio
      BY <1>4, <2>4, <2>7, <2>10, <2>11
    <3> DEFINE k == Worth(leg, m)
               l == p.mem[1].lastFinite
               q == m.premium
               v == p.equity
               w == A[t].equity
    <3>3. Sub(v, first) = Mul(k, Sub(l, q)) /\ Sub(w, v) = Mul(k, Sub(x, l))
      BY <2>8, <3>1
    <3>4. /\ k \in Ratio /\ x \in Ratio /\ q \in Ratio /\ first \in Ratio
          /\ l \in Ratio /\ v \in Ratio /\ w \in Ratio
      BY <3>2
    <3> HIDE DEF k, l, q, v, w
    <3>5. /\ Add(Sub(v, first), Sub(w, v)) = Sub(w, first)
          /\ Add(Sub(l, q), Sub(x, l)) = Sub(x, q)
      BY <3>4, Telescope
    <3>6. Sub(l, q) \in Ratio /\ Sub(x, l) \in Ratio
      BY <3>4, Closed
    <3>7. Add(Mul(k, Sub(l, q)), Mul(k, Sub(x, l))) = Mul(k, Add(Sub(l, q), Sub(x, l)))
      BY <3>4, <3>6, Distribute
    <3>8. Sub(w, first) = Mul(k, Sub(x, q))
      BY <3>3, <3>5, <3>7
    <3> QED
      BY <3>8 DEF k, q, w
  <2>13. ASSUME t < e PROVE StillHeld(leg, m, first, A[t])
    <3>1. LET b == MemAt(leg, p, t)
          IN /\ b.holding /\ b.premium = p.mem[1].premium /\ b.ref = p.mem[1].ref
             /\ b.equity = p.mem[1].equity /\ b.lastFinite = Quoted(leg, p.mem[1], t)
      BY <2>1, <2>2, <2>4, <2>5, <2>13, HeldOn
    <3> QED
      BY <2>3, <2>9, <2>10, <2>12, <3>1 DEF StillHeld, x
  <2> QED
    BY <2>7, <2>10, <2>12, <2>13 DEF x, p
<1>6. Worth(leg, m) \in Ratio /\ StillHeld(leg, m, first, A[a])
  <2>1. Sub(first, first) = Zero /\ Sub(m.premium, m.premium) = Zero
    BY <1>4, SubSelf
  <2>2. Worth(leg, m) \in Ratio
    <3>1. /\ m \in Mem /\ WellSized(leg, m) /\ SizesOk(leg) /\ m.equity \in Ratio
      BY <1>2 DEF Sound, Mem, LegOk
    <3> HIDE DEF m, A, first
    <3>2. /\ Futures(leg) => /\ leg.multOpt \in Ratio /\ Mul(m.ref, leg.multFut) # Zero
                             /\ Mul(m.ref, leg.multFut) \in Ratio
          /\ m.premium \in Ratio /\ m.premium # Zero
      BY <1>4, <3>1, QuantityIs, Closed
    <3>3. Mul(leg.sign, leg.nav) \in Ratio
      BY <3>1, Closed DEF SizesOk
    <3>4. Mul(Mul(leg.sign, leg.nav), m.equity) \in Ratio
      BY <3>1, <3>3, Closed
    <3>5. (IF Futures(leg) THEN Div(leg.multOpt, Mul(m.ref, leg.multFut)) ELSE Div(One, m.premium)) \in Ratio
      BY <3>2, Closed, Simple
    <3> QED
      BY <3>4, <3>5, Closed DEF Worth
  <2>3. Mul(Worth(leg, m), Zero) = Zero
    BY <2>2, MulByZero
  <2> QED
    BY <1>3, <1>4, <2>1, <2>2, <2>3 DEF StillHeld
<1>7. 0 \in P
  BY <1>6, a + 0 = a
<1>8. ASSUME NEW d \in Nat, d \in P PROVE d + 1 \in P
  <2>1. SUFFICES ASSUME a + (d + 1) < e PROVE StillHeld(leg, m, first, A[a + (d + 1)])
    OBVIOUS
  <2> DEFINE t == a + (d + 1)
  <2>2. t \in (a + 1)..e /\ t - 1 = a + d /\ t < e /\ a + d < e
    BY <2>1
  <2>3. StillHeld(leg, m, first, A[t - 1])
    BY <1>8, <2>2
  <2> HIDE DEF t, P
  <2>4. StillHeld(leg, m, first, A[t])
    BY <1>5, <2>2, <2>3
  <2> QED
    BY <2>4 DEF t
<1> HIDE DEF P
<1>9. \A d \in Nat : d \in P
  BY <1>7, <1>8, NatIsAll
<1>10. StillHeld(leg, m, first, A[e - 1])
  <2>1. (e - 1) - a \in Nat /\ a + ((e - 1) - a) = e - 1 /\ e - 1 < e
    OBVIOUS
  <2>2. (e - 1) - a \in P
    BY <1>9, <2>1
  <2> QED
    BY <2>1, <2>2 DEF P
<1>11. Quoted(leg, A[e - 1].mem[1], e) = leg.premium[e]
  BY DEF Quoted
<1> QED
  BY <1>5, <1>10, <1>11, e \in (a + 1)..e

-----------------------------------------------------------------------------
(* What is booked does not depend on a later bar                           *)

\* Two legs have the same data at bar t.
AgreeAt(leg, old, t) ==
  /\ leg.premium[t] = old.premium[t] /\ leg.rollPremium[t] = old.rollPremium[t]
  /\ leg.rollFuture[t] = old.rollFuture[t] /\ leg.dailyFuture[t] = old.dailyFuture[t]
  /\ leg.delta[t] = old.delta[t] /\ leg.unitDelta[t] = old.unitDelta[t]
  /\ leg.price[t] = old.price[t] /\ leg.gate[t] = old.gate[t]
  /\ leg.isRoll[t] = old.isRoll[t] /\ leg.active[t] = old.active[t]

\* Two legs have the same sizes.
SameSizes(leg, old) ==
  /\ leg.sign = old.sign /\ leg.nav = old.nav /\ leg.mode = old.mode
  /\ leg.multFut = old.multFut /\ leg.multOpt = old.multOpt /\ leg.hedge = old.hedge

\* Two such legs open alike.
LEMMA SeedAgrees ==
  ASSUME NEW leg, NEW old, SameSizes(leg, old), AgreeAt(leg, old, 1)
  PROVE  Seed(leg) = Seed(old)
  BY DEF Seed, SameSizes, AgreeAt, OpenPremium, Reference, Futures, DenomOk

\* Two such legs step alike.
LEMMA StepAgrees ==
  ASSUME NEW leg, NEW old, SameSizes(leg, old), NEW t \in Nat,
         AgreeAt(leg, old, t - 1), AgreeAt(leg, old, t), NEW a, NEW rest
  PROVE  NextBar(<<leg>>, a, t, rest) = NextBar(<<old>>, a, t, rest)
<1> DEFINE s == t - 1
<1>1. s \in Int /\ s + 1 = t
  OBVIOUS
<1>2. AgreeAt(leg, old, s) /\ AgreeAt(leg, old, s + 1)
  BY <1>1
<1> HIDE DEF s
<1>3. \A m, q : Quantity(leg, m, q) = Quantity(old, m, q)
  BY DEF Quantity, SameSizes, Futures
<1>4. \A m, q : Accrues(leg, m, q, s) <=> Accrues(old, m, q, s)
  BY <1>2 DEF Accrues, AgreeAt
<1>5. \A m, q : OptionPnl(leg, m, q, s) = OptionPnl(old, m, q, s)
  BY <1>2, <1>3 DEF OptionPnl, Base, AgreeAt
<1>6. \A m, q : Captured(leg, m, q, s) = Captured(old, m, q, s)
  BY <1>2, <1>3 DEF Captured, Hedges, AgreeAt, SameSizes
<1>7. \A m, q : HedgePnl(leg, m, q, s) = HedgePnl(old, m, q, s)
  BY <1>2, <1>3, <1>6 DEF HedgePnl, Hedges, AgreeAt, SameSizes
<1>8. \A m, q : Contribution(leg, m, q, s) = Contribution(old, m, q, s)
  BY <1>4, <1>5, <1>7 DEF Contribution
<1>9. \A m, q : Booked(leg, m, q, s) = Booked(old, m, q, s)
  BY <1>2, <1>4, <1>6 DEF Booked, AgreeAt
<1>10. \A m, q : Resized(leg, m, q, t) = Resized(old, m, q, t)
  <2>1. \A c : Reference(leg, c, t)
          = Reference(old, c, t) /\ (DenomOk(leg, c) <=> DenomOk(old, c))
    BY DEF Reference, DenomOk, AgreeAt, SameSizes
  <2>2. /\ OpenPremium(leg, t)
             = OpenPremium(old, t) /\ \A m : Opens(leg, m, t) <=> Opens(old, m, t)
        /\ (Futures(leg) <=> Futures(old)) /\ leg.hedge = old.hedge
    BY DEF OpenPremium, Opens, AgreeAt, SameSizes, Futures
  <2>3. ASSUME NEW m, NEW q PROVE Opened(leg, m, q, t) = Opened(old, m, q, t)
    <3> DEFINE open == OpenPremium(old, t)
               ref == Reference(old, m.ref, t)
               c == IF old.hedge = None THEN m ELSE [m EXCEPT !.delta = NaN, !.unitDelta = NaN]
               anchored == [c EXCEPT !.premium = open, !.lastFinite = open]
    <3> HIDE DEF c
    <3>1. Opened(old, m, q, t) =
            IF ~Quotable(open) \/ q = Zero THEN c
            ELSE IF Futures(old) /\ ~DenomOk(old, ref) THEN anchored
            ELSE [anchored EXCEPT !.holding = TRUE, !.equity = q,
                                  !.ref = IF Futures(old) THEN ref ELSE @]
      BY DEF Opened, c
    <3> DEFINE open1 == OpenPremium(leg, t)
               ref1 == Reference(leg, m.ref, t)
               c1 == IF leg.hedge = None THEN m ELSE [m EXCEPT !.delta = NaN, !.unitDelta = NaN]
               anchored1 == [c1 EXCEPT !.premium = open1, !.lastFinite = open1]
    <3>2. Opened(leg, m, q, t) =
            IF ~Quotable(open1) \/ q = Zero THEN c1
            ELSE IF Futures(leg) /\ ~DenomOk(leg, ref1) THEN anchored1
            ELSE [anchored1 EXCEPT !.holding = TRUE, !.equity = q,
                                   !.ref = IF Futures(leg) THEN ref1 ELSE @]
      BY DEF Opened
    <3>3. open1 = open /\ ref1 = ref /\ (DenomOk(leg, ref1) <=> DenomOk(old, ref))
      BY <2>1, <2>2
    <3>4. c1 = c
      BY <2>2 DEF c
    <3> HIDE DEF open, ref, open1, ref1, c1
    <3>5. anchored1 = anchored
      BY <3>3, <3>4
    <3> DEFINE r == IF Futures(old) THEN ref ELSE anchored.ref
               r1 == IF Futures(leg) THEN ref1 ELSE anchored1.ref
    <3>6. r1 = r
      BY <2>2, <3>3, <3>5
    <3> HIDE DEF anchored, anchored1, r, r1
    <3>7. Opened(old, m, q, t) =
            IF ~Quotable(open) \/ q = Zero THEN c
            ELSE IF Futures(old) /\ ~DenomOk(old, ref) THEN anchored
            ELSE [anchored EXCEPT !.holding = TRUE, !.equity = q, !.ref = r]
      BY <3>1 DEF r
    <3>8. Opened(leg, m, q, t) =
            IF ~Quotable(open1) \/ q = Zero THEN c1
            ELSE IF Futures(leg) /\ ~DenomOk(leg, ref1) THEN anchored1
            ELSE [anchored1 EXCEPT !.holding = TRUE, !.equity = q, !.ref = r1]
      BY <3>2 DEF r1
    <3> QED
      BY <2>2, <3>3, <3>4, <3>5, <3>6, <3>7, <3>8
  <2> QED
    BY <2>2, <2>3 DEF Resized, AgreeAt
<1>11. DOMAIN <<leg>> = {1} /\ DOMAIN <<old>> = {1} /\ <<leg>>[1] = leg /\ <<old>>[1] = old
  OBVIOUS
<1> DEFINE c(x) == [k \in DOMAIN <<x>> |->
                      IF a.equity = Zero THEN Zero
                      ELSE Contribution(<<x>>[k], a.mem[k], a.equity, t - 1)]
<1>12. c(leg) = c(old)
  BY <1>8, <1>11 DEF s
<1>13. \A x : NextBar(<<x>>, a, t, rest) = StepBooked(<<x>>, a, t, rest, c(x))
  BY DEF NextBar
<1> HIDE DEF c
<1>14. ASSUME NEW booked, NEW net, NEW ruin, NEW e
       PROVE  EndedIn(<<leg>>, a, t, booked, net, ruin, e)
                = EndedIn(<<old>>, a, t, booked, net, ruin, e)
  <2> DEFINE mem(x) == [k \in DOMAIN <<x>> |->
                          IF a.equity = Zero THEN a.mem[k]
                          ELSE Resized(<<x>>[k], Booked(<<x>>[k], a.mem[k], a.equity, t - 1), e, t)]
  <2>1. mem(leg) = mem(old)
    BY <1>9, <1>10, <1>11 DEF s
  <2>2. \A x : EndedIn(<<x>>, a, t, booked, net, ruin, e) =
                 [equity |-> e, net |-> net, booked |-> booked,
                  scale |-> StepScale(a.equity, net, ruin), mem |-> mem(x)]
    BY DEF EndedIn
  <2> HIDE DEF mem
  <2> QED
    BY <2>1, <2>2
<1>15. ASSUME NEW booked
       PROVE  StepBooked(<<leg>>, a, t, rest, booked) = StepBooked(<<old>>, a, t, rest, booked)
  BY <1>11, <1>14 DEF StepBooked, StepTaken
<1> QED
  BY <1>12, <1>13, <1>15

\* So the account of the longer leg is that of the shorter, as far as it goes.
LEMMA AccountsAgree ==
  ASSUME NEW n \in Nat \ {0}, NEW k \in 1..n, NEW leg, NEW old, SameSizes(leg, old),
         \A t \in 1..k : AgreeAt(leg, old, t)
  PROVE  \A t \in 1..k : Account(leg, n)[t] = Account(old, k)[t]
<1> DEFINE A == Account(leg, n)
           B == Account(old, k)
           P == {d \in Nat : d + 1 <= k => A[d + 1] = B[d + 1]}
<1>1. IsAccount(A, <<leg>>, NoOther(n), n) /\ IsAccount(B, <<old>>, NoOther(k), k)
  BY AccountIs
<1> HIDE DEF A, B
<1>2. 0 \in P
  <2>1. A[1] = FirstBar(<<leg>>) /\ B[1] = FirstBar(<<old>>) /\ 1 \in 1..k
    BY <1>1 DEF IsAccount
  <2>2. Seed(leg) = Seed(old)
    BY <2>1, SeedAgrees
  <2>3. FirstBar(<<leg>>) = FirstBar(<<old>>)
    <3>1. DOMAIN <<leg>> = {1} /\ DOMAIN <<old>> = {1} /\ <<leg>>[1] = leg /\ <<old>>[1] = old
      OBVIOUS
    <3> DEFINE mem(x) == [i \in DOMAIN <<x>> |-> Seed(<<x>>[i])]
    <3>2. mem(leg) = mem(old)
      BY <2>2, <3>1
    <3>3. \A x : FirstBar(<<x>>) = [equity |-> One, scale |-> One, net |-> Zero,
                                    booked |-> [i \in DOMAIN <<x>> |-> Zero], mem |-> mem(x)]
      BY DEF FirstBar
    <3> HIDE DEF mem
    <3> QED
      BY <3>1, <3>2, <3>3
  <2> QED
    BY <2>1, <2>3
<1>3. ASSUME NEW d \in Nat, d \in P PROVE d + 1 \in P
  <2>1. SUFFICES ASSUME (d + 1) + 1 <= k PROVE A[(d + 1) + 1] = B[(d + 1) + 1]
    OBVIOUS
  <2> DEFINE t == d + 2
  <2>2. /\ t \in Nat /\ t = (d + 1) + 1 /\ t - 1 = d + 1 /\ t # 1 /\ t \in 1..n /\ t \in 1..k
        /\ t - 1 \in 1..k /\ t - 1 \in 1..(n - 1) /\ t - 1 \in 1..(k - 1)
    BY <2>1
  <2>3. A[t - 1] = B[t - 1]
    BY <1>3, <2>1, <2>2
  <2> HIDE DEF t, P
  <2>4. NoOther(n)[t - 1] = Zero /\ NoOther(k)[t - 1] = Zero
    BY <2>2 DEF NoOther
  <2>5. A[t] = NextBar(<<leg>>, A[t - 1], t, Zero) /\ B[t] = NextBar(<<old>>, B[t - 1], t, Zero)
    BY <1>1, <2>2, <2>4 DEF IsAccount
  <2> QED
    BY <2>2, <2>3, <2>5, StepAgrees
<1> HIDE DEF P
<1>4. \A d \in Nat : d \in P
  BY <1>2, <1>3, NatIsAll
<1> QED
  <2> SUFFICES ASSUME NEW t \in 1..k PROVE A[t] = B[t]
    BY DEF A, B
  <2>1. t - 1 \in Nat /\ (t - 1) + 1 = t
    OBVIOUS
  <2>2. t - 1 \in P
    BY <1>4, <2>1
  <2> QED
    BY <2>1, <2>2 DEF P

-----------------------------------------------------------------------------
(* The theorems                                                            *)

\* A held leg's input and answer are those of the bars that arrived; until a bar
\* is answered for, the answer is that of the bars before it.
Earlier ==
  IF Len(bars) = 1 THEN None
  ELSE Account(HoldLegOf(setup.leg, SubSeq(bars, 1, Len(bars) - 1)), Len(bars) - 1)
HeldInv ==
  /\ setup \in Setups
  /\ Held =>
       /\ bars \in Seq(HeldBar)
       /\ stage # "published" => Len(bars) # 0 /\ answer = Earlier
       /\ stage = "prepared" => input = HoldLegOf(setup.leg, bars)
       /\ stage = "published" =>
            IF Len(bars) = 0 THEN answer = None
            ELSE /\ input = HoldLegOf(setup.leg, bars)
                 /\ answer = Account(input, Len(bars))

\* Every step keeps it.
LEMMA HeldInductive == HeldInv /\ [Next]_vars => HeldInv'
<1> SUFFICES ASSUME HeldInv, [Next]_vars
             PROVE  HeldInv'
  OBVIOUS
<1>1. CASE Arrive
  <2>1. setup' = setup /\ (Held' <=> Held)
    BY <1>1 DEF Arrive, Held
  <2>2. ASSUME Held PROVE bars' \in Seq(HeldBar) /\ Len(bars') # 0 /\ answer' = Earlier'
    <3>1. PICK x \in Bar(setup, Len(bars)) : bars' = Append(bars, x)
      BY <1>1 DEF Arrive
    <3>2. bars \in Seq(HeldBar) /\ Len(bars) \in Nat /\ Len(bars) < Length(setup)
      BY <1>1, <2>2 DEF Arrive, HeldInv
    <3>3. Length(setup) \in Nat /\ setup.kind = "hold" /\ setup \in Setups
      BY <2>2, HeldSetups DEF HeldInv, Held
    <3>4. Len(bars) \in 0..(Length(setup) - 1)
      BY <3>2, <3>3
    <3>5. x \in HeldBar
      BY <3>1, <3>3, <3>4, HeldSetups
    <3>6. bars' \in Seq(HeldBar) /\ Len(bars') = Len(bars) + 1
      BY <3>1, <3>2, <3>5
    <3>7. answer' = Earlier'
      <4>1. /\ Len(bars') - 1 = Len(bars) /\ (Len(bars') = 1 <=> Len(bars) = 0)
            /\ SubSeq(bars', 1, Len(bars)) = bars
        BY <3>1, <3>2, <3>5, <3>6
      <4>2. Earlier' = IF Len(bars)
              = 0 THEN None ELSE Account(HoldLegOf(setup.leg, bars), Len(bars))
        BY <2>1, <4>1, Zenon DEF Earlier
      <4>3. stage = "published" /\ answer' = answer
        BY <1>1 DEF Arrive
      <4> QED
        BY <2>2, <4>2, <4>3 DEF HeldInv
    <3> QED
      BY <1>1, <3>2, <3>6, <3>7 DEF Arrive
  <2>3. stage' = "arrived"
    BY <1>1 DEF Arrive
  <2> QED
    BY <2>1, <2>2, <2>3 DEF HeldInv
<1>2. CASE Prepare
  <2>1. /\ setup' = setup /\ bars' = bars /\ (Held' <=> Held) /\ stage = "arrived"
        /\ stage' = "prepared"
    BY <1>2 DEF Prepare, Held
  <2>2. Held => input' = HoldLegOf(setup.leg, bars)
    BY <1>2 DEF Prepare
  <2>3. Earlier' = Earlier /\ answer' = answer
    BY <1>2, <2>1 DEF Prepare, Earlier
  <2> QED
    BY <2>1, <2>2, <2>3 DEF HeldInv
<1>3. CASE Publish
  <2>1. /\ setup' = setup /\ bars' = bars /\ input' = input /\ (Held' <=> Held)
        /\ stage = "prepared" /\ stage' = "published"
    BY <1>3 DEF Publish, Held
  <2>2. Held => answer' = Compounded(<<input>>, [t \in 1..(Len(bars) - 1) |-> Zero])
    BY <1>3 DEF Publish
  <2>3. Held => answer' = Account(input, Len(bars))
    BY <2>2 DEF Account, NoOther
  <2> QED
    BY <2>1, <2>3 DEF HeldInv
<1>4. CASE UNCHANGED vars
  BY <1>4 DEF vars, HeldInv, Held, Earlier
<1> QED
  BY <1>1, <1>2, <1>3, <1>4 DEF Next

\* The answer published for a held leg is the account of the bars that arrived, in
\* every reachable state (evaluate_signal runs _compound_with_hold over all bars).
THEOREM AnswersAreAccounts == Spec => []HeldInv
<1>1. Init => HeldInv
  <2> SUFFICES ASSUME Init PROVE HeldInv
    OBVIOUS
  <2>1. setup \in Setups /\ bars = <<>> /\ stage = "published" /\ answer = None
    BY DEF Init
  <2>2. bars \in Seq(HeldBar) /\ Len(bars) = 0
    BY <2>1
  <2> QED
    BY <2>1, <2>2 DEF HeldInv
<1> QED
  BY <1>1, HeldInductive, PTL DEF Spec

\* The arrays of a held leg are as long as its bars, and of numbers.
LEMMA HeldLegOk ==
  ASSUME HeldInv, HeldAnswer
  PROVE  LET n == Len(bars)
         IN /\ n \in Nat \ {0} /\ LegOk(input, n) /\ Len(input.active) = n
            /\ answer = Account(input, n)
<1> DEFINE n == Len(bars)
           leg == setup.leg
<1>1. /\ Held /\ stage = "published" /\ bars \in Seq(HeldBar) /\ n \in Nat /\ n # 0
      /\ setup \in Setups /\ setup.kind = "hold"
  BY DEF HeldAnswer, HeldInv, Held
<1>2. input = HoldLegOf(leg, bars) /\ answer = Account(input, n)
  BY <1>1 DEF HeldInv
<1>3. IsHeldLeg(leg)
  BY <1>1, HeldSetups
<1>4. ASSUME NEW t \in 1..n PROVE QuotesAt(input, t)
  <2>1. bars[t] \in HeldBar
    BY <1>1
  <2>2. One \in Number
    BY Simple, RatioIsNumber
  <2> QED
    BY <1>2, <2>1, <2>2 DEF HoldLegOf, QuotesAt, HeldBar
<1>5. SizesOk(input)
  BY <1>2, <1>3, FiniteIsRatio DEF HoldLegOf, SizesOk, IsHeldLeg
<1>6. Len(input.active) = n
  <2>1. input.active = [t \in 1..n |-> bars[t].active]
    BY <1>2 DEF HoldLegOf
  <2>2. \A t \in 1..n : bars[t].active \in BOOLEAN
    <3>1. \A t \in 1..n : bars[t] \in HeldBar
      BY <1>1
    <3> QED
      BY <3>1 DEF HeldBar
  <2> QED
    BY <1>1, <2>1, <2>2, LengthIs, input.active \in [1..n -> BOOLEAN]
<1> QED
  BY <1>1, <1>2, <1>4, <1>5, <1>6 DEF LegOk

\* Under the invariant segments telescope.
LEMMA Telescopes == HeldInv => SegmentTelescopes
<1> SUFFICES ASSUME HeldInv, HeldAnswer, input.hedge = None,
                    NEW a \in 1..Len(bars), NEW e \in 1..Len(bars), a < e, SizedAt(a),
                    \A t \in (a + 1)..e : input.active[t] /\ (t < e => ~input.isRoll[t]),
                    IsFinite(input.premium[e]), answer[e].equity # Zero
             PROVE  Sub(answer[e].equity, answer[a].equity)
                      = Mul(Mul(Mul(Mul(input.sign, input.nav), answer[a].equity),
                                IF Futures(input)
                                THEN Div(input.multOpt, Mul(answer[a].mem[1].ref, input.multFut))
                                ELSE Div(One, answer[a].mem[1].premium)),
                            Sub(input.premium[e], answer[a].mem[1].premium))
  BY DEF SegmentTelescopes
<1> DEFINE n == Len(bars)
           A == Account(input, n)
<1>1. n \in Nat \ {0} /\ LegOk(input, n) /\ answer = A
  BY HeldLegOk
<1>2. SizedIn(input, A, a)
  BY <1>1 DEF SizedAt, SizedIn
<1>3. Sub(A[e].equity, A[a].equity)
        = Mul(Worth(input, A[a].mem[1]), Sub(input.premium[e], A[a].mem[1].premium))
  BY <1>1, <1>2, Segment
<1>4. A[a].mem[1].equity = A[a].equity
  BY <1>2 DEF SizedIn
<1> HIDE DEF A
<1> QED
  BY <1>1, <1>3, <1>4 DEF Worth

\* Under the invariant the replay holds what the account holds.
LEMMA Mirrors == HeldInv => ReplayMirrors
<1> SUFFICES ASSUME HeldInv, HeldAnswer, Futures(input), NEW t \in 1..Len(bars),
                    answer[t].equity # Zero
             PROVE  LET m == answer[t].mem[1]
                    IN /\ Replayed(input)[t].holding = m.holding
                       /\ m.holding => /\ Replayed(input)[t].premium = m.premium
                                       /\ Replayed(input)[t].ref = m.ref
  BY DEF ReplayMirrors
<1>1. SamePosition(Replayed(input)[t], answer[t].mem[1])
  BY HeldLegOk, ReplayFollows
<1> QED
  BY <1>1 DEF SamePosition

\* Under the invariant the turnover counts the trades.
LEMMA Counts == HeldInv => TurnoverCountsTrades
<1> DEFINE n == Len(bars)
           switches == {t \in 1..n : input.active[t] # (t > 1 /\ input.active[t - 1])}
           rolls == {t \in 2..n : input.isRoll[t] /\ input.active[t] /\ (t > 1 /\ input.active[t - 1])}
           idx == [t \in 1..n |-> t]
           sides == Int2F(Cardinality(switches) + 2 * Cardinality(rolls))
<1> SUFFICES ASSUME HeldInv, HeldAnswer
             PROVE  /\ SumOver(idx, LAMBDA t : ScalarTurnover(input, t))
                         = Mul(AbsF(input.nav), sides)
                    /\ ~Futures(input) =>
                         \A t \in 1..n : FractionTurnover(input, NotionalFractions(input), t)
                                           = ScalarTurnover(input, t)
  BY DEF TurnoverCountsTrades
<1>1. n \in Nat /\ LegOk(input, n) /\ Len(input.active) = n
  BY HeldLegOk
<1>2. Len(idx) = n
  BY <1>1, LengthIs, idx \in [1..n -> Nat]
<1>3. switches = {t \in 1..n : Switches(input, t)} /\ rolls = {t \in 2..n : HeldAcross(input, t)}
  BY DEF Switches, HeldAcross
<1> HIDE DEF switches, rolls
<1>4. SumOver(idx, LAMBDA t : ScalarTurnover(input, t))
        = SumOf(n, [t \in 1..n |-> ScalarTurnover(input, t)])
  <2>1. SumOver(idx, LAMBDA t : ScalarTurnover(input, t))
          = SumOf(n, [i \in 1..n |-> ScalarTurnover(input, idx[i])])
    BY <1>2 DEF SumOver
  <2>2. [i \in 1..n |-> ScalarTurnover(input, idx[i])] = [t \in 1..n |-> ScalarTurnover(input, t)]
    OBVIOUS
  <2> QED
    BY <2>1, <2>2
<1>5. SumOf(n, [t \in 1..n |-> ScalarTurnover(input, t)]) = Mul(AbsF(input.nav), sides)
  BY <1>1, <1>3, TurnoverCounts
<1>6. ASSUME ~Futures(input), NEW t \in 1..n
      PROVE  FractionTurnover(input, NotionalFractions(input), t) = ScalarTurnover(input, t)
  BY <1>1, <1>6, FractionsAgree
<1> HIDE DEF sides
<1> QED
  BY <1>4, <1>5, <1>6

\* Under the invariant the booked P&L adds up to the change of the equity.
LEMMA Reconciles == HeldInv => WipeOutReconciles
<1> DEFINE n == Len(bars)
           steps == [t \in 1..(n - 1) |-> t + 1]
           Step(t) == Mul(answer[t].scale, Mul(answer[t - 1].equity, answer[t].net))
<1> SUFFICES ASSUME HeldInv, HeldAnswer
             PROVE  /\ \A t \in 2..n : answer[t - 1].equity = Zero => answer[t].equity = Zero
                    /\ Sub(answer[n].equity, One) = SumOver(steps, Step)
  BY DEF WipeOutReconciles
<1> DEFINE A == Account(input, n)
           x == [i \in 1..(n - 1) |-> Mul(A[i + 1].scale, Mul(A[i].equity, A[i + 1].net))]
<1>1. n \in Nat \ {0} /\ LegOk(input, n) /\ answer = A
  BY HeldLegOk
<1>2. /\ \A t \in 2..n : A[t - 1].equity = Zero => A[t].equity = Zero
      /\ Sub(A[n].equity, One) = SumOf(n - 1, x)
  BY <1>1, EquityReconciles
<1> HIDE DEF A
<1>3. Len(steps) = n - 1 /\ n - 1 \in Nat
  BY <1>1, LengthIs, n - 1 \in Nat, steps \in [1..(n - 1) -> Nat]
<1>4. SumOver(steps, Step) = SumOf(n - 1, [i \in 1..(n - 1) |-> Step(steps[i])])
  BY <1>3 DEF SumOver
<1>5. \A i \in 1..(n - 1) : Step(steps[i]) = x[i]
  <2> SUFFICES ASSUME NEW i \in 1..(n - 1) PROVE Step(steps[i]) = x[i]
    OBVIOUS
  <2>1. steps[i] = i + 1 /\ (i + 1) - 1 = i
    BY <1>1
  <2> QED
    BY <1>1, <2>1
<1>6. [i \in 1..(n - 1) |-> Step(steps[i])] = x
  BY <1>5
<1> QED
  BY <1>1, <1>2, <1>4, <1>6

\* Between a sizing and the next open a held leg's equity moves by the position times
\* the move of the premium, for every leg, every quote and every gap in the quotes:
\* nothing is lost in a gap or booked twice (_compound_with_hold).
THEOREM SegmentsTelescope == Spec => []SegmentTelescopes
  BY AnswersAreAccounts, Telescopes, PTL

\* The booked P&L of a held leg, scaled, adds up to the change of its equity, also
\* through a wipe-out, after which the equity stays 0 (_compound_with_hold, step_scale).
THEOREM WipeOutsReconcile == Spec => []WipeOutReconciles
  BY AnswersAreAccounts, Reconciles, PTL

\* The replay that costs are charged on holds what the account holds, and the turnover
\* it is charged on counts the trades (hold_leg_notional_fractions, hold_leg_turnover).
THEOREM CostsAreOfTheTrades == Spec => []CostsFollowTheAccount
<1>1. HeldInv => CostsFollowTheAccount
  BY Mirrors, Counts DEF CostsFollowTheAccount
<1> QED
  BY <1>1, AnswersAreAccounts, PTL

\* What was published for a bar of a held leg never changes: the account of the
\* longer leg begins with that of the shorter (_compound_with_hold reads no bar
\* after the one it books; the first half of PastStands).
THEOREM AccountNeverChanges == Spec => AccountStands
<1> DEFINE Stands == \A t \in 1..(Len(bars) - 1) : answer'[t] = answer[t]
           n == Len(bars)
<1>1. ASSUME HeldInv, Publish, Held, answer # None PROVE Stands
  <2> DEFINE short == SubSeq(bars, 1, n - 1)
             old == HoldLegOf(setup.leg, short)
  <2>1. /\ stage = "prepared" /\ bars' = bars /\ input' = input
        /\ answer' = Account(input, n)
    BY <1>1 DEF Publish, Account, NoOther
  <2>2. /\ bars \in Seq(HeldBar) /\ n \in Nat /\ n # 0 /\ answer = Earlier
        /\ input = HoldLegOf(setup.leg, bars)
    BY <1>1, <2>1 DEF HeldInv
  <2>3. n # 1 /\ answer = Account(old, n - 1)
    BY <1>1, <2>2 DEF Earlier
  <2>4. n \in Nat /\ n # 0 /\ n # 1
    BY <2>2, <2>3
  <2>5. /\ n \in Nat \ {0} /\ n - 1 \in 1..n /\ (\A t \in 1..(n - 1) : t \in 1..n)
    <3> HIDE DEF n
    <3>1. n \in Nat /\ n > 1
      BY <2>4
    <3> QED
      BY <3>1
  <2>6. Len(short) = n - 1 /\ \A t \in 1..(n - 1) : short[t] = bars[t]
    BY <2>2, <2>5, SubSeqProperties
  <2>7. SameSizes(input, old)
    BY <2>2 DEF SameSizes, HoldLegOf
  <2>8. ASSUME NEW t \in 1..(n - 1) PROVE AgreeAt(input, old, t)
    <3>1. t \in 1..n /\ short[t] = bars[t] /\ Len(short) = n - 1
      BY <2>5, <2>6
    <3> HIDE DEF short
    <3> QED
      BY <2>2, <2>5, <3>1 DEF AgreeAt, HoldLegOf
  <2> HIDE DEF old
  <2>9. \A t \in 1..(n - 1) : Account(input, n)[t] = Account(old, n - 1)[t]
    BY <2>5, <2>7, <2>8, AccountsAgree
  <2> QED
    BY <2>1, <2>3, <2>9
<1>2. HeldInv /\ [Next]_vars => [Publish /\ Held /\ answer # None => Stands]_vars
  BY <1>1
<1> HIDE DEF Stands
<1>3. Spec => [][Publish /\ Held /\ answer # None => Stands]_vars
  BY <1>2, AnswersAreAccounts, PTL DEF Spec
<1> QED
  BY <1>3 DEF Stands, AccountStands
=============================================================================
