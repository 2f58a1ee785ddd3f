-------------------------- MODULE WeightedPortfolio -------------------------
(***************************************************************************)
(* compute_weighted_portfolio (engine/metrics.py): the returns and equity  *)
(* of legs held at target weights, rebalanced daily, at period boundaries  *)
(* or never, with the transaction costs of engine/costs.py.                *)
(*                                                                         *)
(* A portfolio is a record: legs, a sequence of labels; close, the aligned *)
(* prices of a leg; weight; dates; freq; normalize; rate, the cost per     *)
(* unit of turnover; roll, the turnover of rolls per bar. Arrays start at  *)
(* index 1, bar 0 of the code. Log returns are left out: ln and exp have   *)
(* no exact values.                                                        *)
(***************************************************************************)
EXTENDS Floats, Dates, FiniteSets, SequencesExt

Hundred == Int2F(100)
Bars(p) == 1..Len(p.dates)
SumLegs(p, f(_)) == SumOver(p.legs, f)

(* compute_daily_returns. *)
DailyReturns(close) ==
  [t \in 1..Len(close) |->
     IF t = 1 THEN NaN
     ELSE Div(Sub(close[t], close[t - 1]), close[t - 1])]

(* compute_equity_curve: returns[1] is ignored. *)
EquityCurve(returns, initial) ==
  LET E[t \in 1..Len(returns)] ==
        IF t = 1 THEN initial ELSE Mul(E[t - 1], Add(One, returns[t]))
  IN E

(* _derive_returns_from_equity is compute_daily_returns of the equity, and *)
(* _finite_returns_for_cost holds its non-finite bars flat.                *)
HeldFlatRaw(returns) == returns                                        \* a mutant
HeldFlat(returns) ==
  [t \in 1..Len(returns) |-> IF t = 1 THEN returns[t] ELSE FiniteOr0(returns[t])]

(* _detect_rebalance_boundaries. *)
NewPeriod(d, e, freq) ==
  CASE freq = "weekly"    -> Monday(d) # Monday(e)
    [] freq = "monthly"   -> Month(d) # Month(e) \/ Year(d) # Year(e)
    [] freq = "quarterly" -> Quarter(d) # Quarter(e) \/ Year(d) # Year(e)
    [] freq = "annually"  -> Year(d) # Year(e)
Boundaries(dates, freq) ==
  {t \in 1..Len(dates) : t = 1 \/ NewPeriod(dates[t], dates[t - 1], freq)}

(* The weights the kernels receive: divided by their gross, or as given. *)
Gross(p) == SumLegs(p, LAMBDA l : AbsF(p.weight[l]))
NormWeight(p, l) == IF p.normalize THEN Div(p.weight[l], Gross(p)) ELSE p.weight[l]

LegReturns(p) == [l \in Range(p.legs) |-> DailyReturns(p.close[l])]

(***************************************************************************)
(* Daily rebalancing: fixed weights every day.                             *)
(***************************************************************************)
DailyGross(p) ==
  LET r == LegReturns(p)
  IN [t \in Bars(p) |->
        IF t = 1 THEN NaN
        ELSE SumLegs(p, LAMBDA l : Mul(NormWeight(p, l), FiniteOr0(r[l][t])))]

(* establish_turnover at constant weights: what the trade at bar s moves,  *)
(* from the drifted weights of the step before it.                         *)
DriftTurnover(p, s) ==
  LET r == LegReturns(p)
      base == Add(One, DailyGross(p)[s])
      Drifted(l) ==
        IF IsFinite(base) /\ base # Zero
        THEN Div(Mul(NormWeight(p, l), Add(One, FiniteOr0(r[l][s]))), base)
        ELSE Zero
  IN IF s = 1 THEN SumLegs(p, LAMBDA l : AbsF(NormWeight(p, l)))
     ELSE SumLegs(p, LAMBDA l : AbsF(Sub(NormWeight(p, l), Drifted(l))))
EstablishTurnover(p) == [s \in Bars(p) |-> DriftTurnover(p, s)]

(* split_drag: the cost of the trade at bar s reduces the return of s + 1. *)
Charged(p, returns, turnover) ==
  [t \in Bars(p) |->
     IF t = 1 THEN returns[t]
     ELSE Sub(returns[t], Mul(p.rate, Add(turnover[t - 1], p.roll[t - 1])))]

DailyReturnsOf(p) ==
  IF p.rate = Zero \/ Len(p.dates) < 2 THEN DailyGross(p)
  ELSE Charged(p, DailyGross(p), EstablishTurnover(p))

DailyEquity(p) == EquityCurve(DailyReturnsOf(p), Hundred)
DailyLegEquity(p, l) ==
  [t \in Bars(p) |-> Mul(DailyEquity(p)[t], AbsF(NormWeight(p, l)))]

(***************************************************************************)
(* Buy and hold: the legs drift from their initial allocation.             *)
(***************************************************************************)
HoldLegEquity(p, l) ==
  LET initial == Mul(AbsF(NormWeight(p, l)), Hundred)
      long == EquityCurve(HeldFlat(LegReturns(p)[l]), initial)
  IN [t \in Bars(p) |->
        IF Negative(NormWeight(p, l))
        THEN Sub(Mul(Int2F(2), initial), long[t]) ELSE long[t]]

(* Raw weights put the base of the sum at the gross; it is moved to NAV. *)
HoldGross(p) ==
  LET shift == IF p.normalize THEN Zero ELSE Sub(Hundred, Mul(Gross(p), Hundred))
  IN [t \in Bars(p) |->
        Add(SumLegs(p, LAMBDA l : HoldLegEquity(p, l)[t]), shift)]

EntryTurnover(p) ==
  [s \in Bars(p) |->
     IF s = 1 THEN SumLegs(p, LAMBDA l : AbsF(NormWeight(p, l))) ELSE Zero]

(* The drag is taken from the derived returns, and the curve recompounded. *)
CostAdjusted(p, gross, turnover) ==
  IF p.rate = Zero \/ Len(p.dates) < 2 THEN gross
  ELSE EquityCurve(Charged(p, HeldFlat(DailyReturns(gross)), turnover), Hundred)
HoldEquity(p) == CostAdjusted(p, HoldGross(p), EntryTurnover(p))

(***************************************************************************)
(* Periodic rebalancing. The state of a bar: the value of each leg (or its *)
(* signed notional, when weights are raw), the equity, and the turnover of *)
(* the trade made at the bar.                                              *)
(***************************************************************************)

(* A leg that is not short and is worth exactly 0 is never funded again. *)
Dead(p, l, value) == ~Negative(NormWeight(p, l)) /\ value[l] = Zero

AliveWeight(p, value) ==
  SumLegs(p, LAMBDA l : IF Dead(p, l, value) THEN Zero ELSE AbsF(NormWeight(p, l)))
Redistributed(p, value) ==
  LET total == SumLegs(p, LAMBDA l : value[l])
      alive == AliveWeight(p, value)
      Target(l) == Div(AbsF(NormWeight(p, l)), alive)
  IN IF Positive(total) /\ Positive(alive)
     THEN [value |-> [l \in DOMAIN value |->
                        IF Dead(p, l, value) THEN value[l] ELSE Mul(Target(l), total)],
           turn |-> SumLegs(p, LAMBDA l :
                      IF Dead(p, l, value) THEN Zero
                      ELSE AbsF(Sub(Target(l), Div(value[l], total))))]
     ELSE [value |-> value, turn |-> Zero]

Grown(p, l, v, r) ==
  IF ~IsFinite(r) THEN v
  ELSE Mul(v, IF Negative(NormWeight(p, l)) THEN Sub(One, r) ELSE Add(One, r))

(* The default path: positive values per leg. *)
WithTotal(p, leg, turn) ==
  [leg |-> leg, equity |-> SumLegs(p, LAMBDA l : leg[l]), turn |-> turn]
TradedBar(p, traded, t) ==
  WithTotal(p, [l \in DOMAIN traded.value |->
                  Grown(p, l, traded.value[l], LegReturns(p)[l][t])],
            traded.turn)
PeriodicBar(p, st, t) ==
  TradedBar(p, IF t \in Boundaries(p.dates, p.freq) THEN Redistributed(p, st.leg)
               ELSE [value |-> st.leg, turn |-> Zero], t)

(* The leveraged path: NAV is 100 plus P&L, notionals are reset to w NAV. *)
Earned(p, st, t, notional, turn) ==
  LET Ret(l) == FiniteOr0(LegReturns(p)[l][t])
  IN [leg |-> [l \in DOMAIN notional |-> Mul(notional[l], Add(One, Ret(l)))],
      equity |-> Add(st.equity, SumLegs(p, LAMBDA l : Mul(notional[l], Ret(l)))),
      turn |-> turn]
LeveragedBar(p, st, t) ==
  IF t \in Boundaries(p.dates, p.freq)
  THEN Earned(p, st, t, [l \in DOMAIN st.leg |-> Mul(NormWeight(p, l), st.equity)],
              IF Positive(st.equity)
              THEN SumLegs(p, LAMBDA l :
                     AbsF(Sub(NormWeight(p, l), Div(st.leg[l], st.equity))))
              ELSE Zero)
  ELSE Earned(p, st, t, st.leg, Zero)

Periodic(p) ==
  LET W(l) == IF p.normalize THEN AbsF(NormWeight(p, l)) ELSE NormWeight(p, l)
      S[t \in Bars(p)] ==
        IF t = 1 THEN [leg |-> [l \in Range(p.legs) |-> Mul(W(l), Hundred)],
                       equity |-> Hundred,
                       turn |-> SumLegs(p, LAMBDA l : AbsF(NormWeight(p, l)))]
        ELSE IF p.normalize THEN PeriodicBar(p, S[t - 1], t)
        ELSE LeveragedBar(p, S[t - 1], t)
  IN S

TurnoverOf(bar) == [t \in DOMAIN bar |-> bar[t].turn]
PeriodicTurnover(p) == TurnoverOf(Periodic(p))
NetEquity(p, bar) == CostAdjusted(p, [t \in DOMAIN bar |-> bar[t].equity], TurnoverOf(bar))
PeriodicEquity(p) == NetEquity(p, Periodic(p))
PeriodicLegEquity(p, l) == [t \in Bars(p) |-> AbsF(Periodic(p)[t].leg[l])]

RebalanceDates(p) ==
  IF p.freq \in {"none", "daily"} THEN {}
  ELSE {p.dates[t] : t \in Boundaries(p.dates, p.freq) \ {1}}

(***************************************************************************)
(* compute_weighted_portfolio: refusals and dispatch.                      *)
(***************************************************************************)
Computable(p) ==
  /\ p.legs # <<>> /\ Range(p.legs) \subseteq DOMAIN p.weight
  /\ Len(p.dates) > 0
  /\ \A l \in Range(p.legs) : Len(p.close[l]) = Len(p.dates)
  /\ Gross(p) # Zero

Equity(p) ==
  CASE p.freq = "daily" -> DailyEquity(p)
    [] p.freq = "none"  -> HoldEquity(p)
    [] OTHER            -> PeriodicEquity(p)
LegEquity(p, l) ==
  CASE p.freq = "daily" -> DailyLegEquity(p, l)
    [] p.freq = "none"  -> HoldLegEquity(p, l)
    [] OTHER            -> PeriodicLegEquity(p, l)

(* cumulative_cost_pct: the cost of each step on the equity at its start,  *)
(* in percent of the initial capital; a step without a number costs 0.     *)
Turnover(p) ==
  CASE p.freq = "daily" -> EstablishTurnover(p)
    [] p.freq = "none"  -> EntryTurnover(p)
    [] OTHER            -> PeriodicTurnover(p)
CostPaid(p, equity, turnover) ==
  IF p.rate = Zero \/ Len(p.dates) < 2 THEN Zero
  ELSE Mul(Hundred, SumOver([s \in 1..(Len(p.dates) - 1) |-> s], LAMBDA s :
         FiniteOr0(Mul(Mul(p.rate, Add(turnover[s], p.roll[s])),
                       Div(equity[s], equity[1])))))

DerivedReturns(p, returns) == IF p.rate = Zero THEN returns ELSE HeldFlat(returns)
PortfolioReturns(p, equity) ==
  IF p.freq = "daily" THEN DailyReturnsOf(p) ELSE DerivedReturns(p, DailyReturns(equity))

(***************************************************************************)
(* aggregate_returns: the returns of a month or a year, compounded.        *)
(***************************************************************************)
PeriodKey(d, granularity) == IF granularity = "monthly" THEN d \div 100 ELSE Year(d)

Compound(values) ==
  LET v == SelectSeq(values, LAMBDA x : ~IsNaN(x))
  IN IF v = <<>> THEN NaN
     ELSE Sub(ProdOver([i \in 1..Len(v) |-> i], LAMBDA i : Add(One, v[i])), One)

BucketOf(dates, returns, key, granularity) ==
  LET at == SelectSeq([t \in 1..Len(dates) |-> t],
                      LAMBDA t : PeriodKey(dates[t], granularity) = key)
  IN [i \in 1..Len(at) |-> returns[at[i]]]

(* Periods in order; one whose portfolio returns are all NaN is left out. *)
Aggregated(dates, returns, granularity) ==
  LET keys == {PeriodKey(dates[t], granularity) : t \in 1..Len(dates)}
      value == [k \in keys |-> Compound(BucketOf(dates, returns, k, granularity))]
      kept == SetToSortSeq({k \in keys : ~IsNaN(value[k])}, <)
  IN [i \in 1..Len(kept) |-> [period |-> kept[i], portfolio |-> value[kept[i]]]]

(***************************************************************************)
(* compute_metrics: the level statistics. Volatility, Sharpe, Sortino and  *)
(* the annualised return take roots and powers and are left out.           *)
(***************************************************************************)
TotalReturn(e) ==
  IF Len(e) < 2 \/ e[1] = Zero THEN Zero ELSE Div(Sub(e[Len(e)], e[1]), e[1])

Peak(e) ==
  LET P[t \in 1..Len(e)] == IF t = 1 THEN e[1] ELSE MaxF(P[t - 1], e[t]) IN P
Drawdown(e) ==
  LET P == Peak(e)
  IN [t \in 1..Len(e) |->
        Div(Sub(e[t], P[t]), IF Positive(P[t]) THEN P[t] ELSE One)]
MaxDrawdown(e) ==
  LET D == Drawdown(e)
      M[t \in 1..Len(e)] == IF t = 1 THEN D[1] ELSE MinF(M[t - 1], D[t])
  IN IF Len(e) < 2 THEN Zero ELSE M[Len(e)]
Underwater(e) ==
  IF Len(e) < 2 THEN 0
  ELSE Cardinality({t \in 1..Len(e) : Negative(Drawdown(e)[t])})
=============================================================================
