------------------------------- MODULE Floats -------------------------------
(***************************************************************************)
(* The numbers of the numerical code: float64 without rounding. A number   *)
(* is a reduced fraction <<n, d>>; the denominator 0 gives NaN and the two *)
(* infinities, so that 0/0, x/0 and inf - inf come out as numpy has them.  *)
(***************************************************************************)
EXTENDS Integers, Sequences

CONSTANT None       \* the code's None: no number, no date, no object

Gcd[p \in Nat \X Nat] == IF p[2] = 0 THEN p[1] ELSE Gcd[<<p[2], p[1] % p[2]>>]

Abs(i) == IF i < 0 THEN -i ELSE i

NaN == <<0, 0>>
Inf == <<1, 0>>
Int2F(i) == <<i, 1>>
Zero == Int2F(0)
One == Int2F(1)

(* NaN, the infinities, and the fractions in lowest terms. *)
Number == {x \in Int \X Nat : x = NaN \/ Gcd[<<Abs(x[1]), x[2]>>] = 1}
ASSUME NoneIsNoNumber == None \notin Number

(* The fraction n / d in lowest terms. *)
Lowest(n, d, g) == IF g = 0 THEN NaN ELSE <<n \div g, d \div g>>
Frac(n, d) == Lowest(IF d < 0 THEN -n ELSE n, Abs(d), Gcd[<<Abs(n), Abs(d)>>])

IsFinite(x) == x[2] # 0
IsNaN(x) == x = NaN

Neg(x) == <<-x[1], x[2]>>
Add(x, y) ==
  IF x[2] = 0 /\ y[2] = 0 THEN IF x = y THEN x ELSE NaN
  ELSE Frac(x[1] * y[2] + y[1] * x[2], x[2] * y[2])
Sub(x, y) == Add(x, Neg(y))
Mul(x, y) == Frac(x[1] * y[1], x[2] * y[2])
Div(x, y) == Frac(x[1] * y[2], x[2] * y[1])
AbsF(x) == <<Abs(x[1]), x[2]>>

(* Comparisons are false on NaN. *)
Less(x, y) == ~IsNaN(x) /\ ~IsNaN(y) /\ x[1] * y[2] < y[1] * x[2]
Leq(x, y) == ~IsNaN(x) /\ ~IsNaN(y) /\ x[1] * y[2] <= y[1] * x[2]
Positive(x) == x[1] > 0
Negative(x) == x[1] < 0

MinF(x, y) == IF Less(y, x) THEN y ELSE x
MaxF(x, y) == IF Less(x, y) THEN y ELSE x
Clip(x, lo, hi) == MinF(MaxF(x, lo), hi)

(* np.where(np.isfinite(x), x, 0.0). *)
FiniteOr0(x) == IF IsFinite(x) THEN x ELSE Zero

(* The sum of the first n of x; the sum and the product of f along a       *)
(* sequence of indices.                                                    *)
SumOf(n, x) ==
  LET S[i \in 0..n] == IF i = 0 THEN Zero ELSE Add(S[i - 1], x[i])
  IN S[n]
SumOver(idx, f(_)) == SumOf(Len(idx), [i \in 1..Len(idx) |-> f(idx[i])])
ProdOver(idx, f(_)) ==
  LET P[i \in 0..Len(idx)] == IF i = 0 THEN One ELSE Mul(P[i - 1], f(idx[i]))
  IN P[Len(idx)]
=============================================================================
