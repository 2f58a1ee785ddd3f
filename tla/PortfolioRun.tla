---------------------------- MODULE PortfolioRun ----------------------------
(***************************************************************************)
(* _compute_portfolio_uncached (core/api/portfolio.py): from a request and *)
(* the market to the response of POST /api/portfolio/compute. The engine   *)
(* is WeightedPortfolio, a held option leg is an account of HoldPnl.       *)
(*                                                                         *)
(* A request b has legs, a sequence of labels, leg (a record per label),   *)
(* weight, rebalance, returnType, start and end (a date or None), rate,    *)
(* normalize and source. The market mk maps a trading day to the bar of    *)
(* each leg, None where the leg's data has no such day. A series is a      *)
(* function from its dates to numbers; arrays of the engine start at 1.    *)
(***************************************************************************)
EXTENDS WeightedPortfolio, HoldPnl

CONSTANTS
  V2Floor,          \* the first day of the v2 option data
  DayCount          \* the trading days of a year, 252 in the code

ASSUME DayCountAssumption == DayCount \in Nat \ {0}

HoldStreams == {"mid", "bs_mid", "close"}
Priced == {"instrument", "continuous"}

Effective(b, leg) == IF leg.source = None THEN b.source ELSE leg.source
IsHoldLeg(leg) == leg.type = "option_stream" /\ leg.hold /\ leg.stream \in HoldStreams
HoldLabels(b) == {l \in Range(b.legs) : IsHoldLeg(b.leg[l])}
Labels(b, type) == SelectSeq(b.legs, LAMBDA l : b.leg[l].type = type)

(***************************************************************************)
(* Refusals, in the order the code meets them: a sequence of <<condition,  *)
(* reason>>. First is the reason of the first that holds, or None.         *)
(***************************************************************************)
First(rules) ==
  LET hit == {i \in 1..Len(rules) : rules[i][1]}
  IN IF hit = {} THEN None ELSE rules[Min(hit)][2]

(* The validators of LegSpec; missing is the set of absent fields. *)
MalformedLeg(leg) ==
  \/ leg.type = "signal" /\ "signal_spec" \in leg.missing
  \/ /\ leg.type = "option_stream"
     /\ \/ leg.stream \in HoldStreams /\ ~leg.hold
        \/ leg.missing # {}

(* _parse_legs: what an instrument or a continuous leg must name. *)
Unparsable(leg) ==
  CASE leg.type = "instrument" -> leg.missing # {} \/ leg.class = None
    [] leg.type = "continuous" -> leg.missing # {} \/ leg.offset \notin 0..365
    [] OTHER                   -> FALSE

(* check_v2_preconditions and the coverage floor of the v2 options. *)
UnavailableInV2(b, leg) ==
  /\ Effective(b, leg) = "v2"
  /\ leg.type \in Priced \cup {"option_stream"} /\ ~leg.inV2
StartsBeforeV2(b) ==
  /\ b.start # None /\ b.start < V2Floor
  /\ \E l \in Range(b.legs) :
       b.leg[l].type = "option_stream" /\ Effective(b, b.leg[l]) = "v2"

RequestRefusal(b) ==
  LET held == HoldLabels(b) # {}
      legs == Range(b.legs)
  IN First(<<
       <<\E l \in legs : MalformedLeg(b.leg[l]), "leg">>,
       <<b.legs = <<>>, "no legs">>,
       <<~(legs \subseteq DOMAIN b.weight), "weights missing">>,
       <<b.rebalance \notin {"none", "daily", "weekly", "monthly", "quarterly",
                             "annually"}, "rebalance">>,
       <<b.returnType \notin {"normal", "log"}, "return type">>,
       <<held /\ b.rebalance = "daily", "hold daily">>,
       <<held /\ b.returnType = "log", "hold log">>,
       <<b.start # None /\ b.end # None /\ b.end < b.start, "range">>,
       <<\E l \in legs : UnavailableInV2(b, b.leg[l]), "v2 collection">>,
       <<StartsBeforeV2(b), "v2 coverage">>,
       <<\E l \in legs : Unparsable(b.leg[l]), "leg fields">> >>)

(***************************************************************************)
(* The series of the legs.                                                 *)
(***************************************************************************)
InWindow(b, d) == (b.start = None \/ b.start <= d) /\ (b.end = None \/ d <= b.end)
Listed(mk, l) == {d \in DOMAIN mk : mk[d][l] # None}
Sorted(days) == SetToSortSeq(days, <)
BarOf(days, d) == CHOOSE t \in 1..Len(days) : days[t] = d

(* Instruments are fetched whole and clipped later, the other legs within  *)
(* the window; a nested portfolio has a window of its own.                 *)
Evaluated(b, mk, l) ==
  IF b.leg[l].type \in Priced \cup {"portfolio"} THEN Listed(mk, l)
  ELSE {d \in Listed(mk, l) : InWindow(b, d)}

(* get_aligned_prices per source, then across sources: an inner join. *)
InstrumentDates(b, mk) ==
  {d \in DOMAIN mk : \A l \in Range(b.legs) :
                       b.leg[l].type \in Priced => mk[d][l] # None}

(* _build_delta_hedge_arrays: an activation condition, evaluated on the    *)
(* leg's days, takes the place of the gate; a gate compares its level, and *)
(* one that is not a number does not open it; a hedge without either is    *)
(* always on. It is off on a roll when the hedge pauses there.             *)
Compares(op, x, y) ==
  CASE op = "gt" -> Less(y, x)
    [] op = "ge" -> Leq(y, x)
    [] op = "lt" -> Less(x, y)
    [] op = "le" -> Leq(x, y)
GateOpen(hedge, bar) ==
  /\ \/ hedge.activation /\ bar.activated
     \/ ~hedge.activation /\ hedge.gate = None
     \/ /\ ~hedge.activation /\ hedge.gate # None
        /\ IsFinite(bar.gate) /\ Compares(hedge.op, bar.gate, hedge.gate)
  /\ ~(hedge.pause /\ bar.roll)

(* The account of a held option leg: _HoldPnLSpec over the leg's own days. *)
HoldSpec(b, mk, l) ==
  LET days == Sorted(Evaluated(b, mk, l))
      leg == b.leg[l]
      At(f(_)) == [i \in 1..Len(days) |-> f(mk[days[i]][l])]
  IN [sign |-> Int2F(IF Negative(b.weight[l]) THEN -1
                     ELSE IF Positive(b.weight[l]) THEN 1 ELSE 0),
      nav |-> leg.navTimes, mode |-> leg.sizing,
      multFut |-> leg.multFut, multOpt |-> leg.multOpt, hedge |-> leg.hedge,
      premium |-> At(LAMBDA x : x.premium), isRoll |-> At(LAMBDA x : x.roll),
      rollPremium |-> At(LAMBDA x : x.open), active |-> At(LAMBDA x : TRUE),
      rollFuture |-> At(LAMBDA x : x.future),
      dailyFuture |-> At(LAMBDA x : NaN),
      delta |-> At(LAMBDA x : x.delta), price |-> At(LAMBDA x : x.hedgePrice),
      unitDelta |-> At(LAMBDA x : One),
      gate |-> At(LAMBDA x : leg.hedge # None /\ GateOpen(leg.hedge, x))]

(* _evaluate_option_stream_leg of a held leg: 100 times the equity ratio. *)
HoldSeries(b, mk, l) ==
  LET days == Sorted(Evaluated(b, mk, l))
      account == Compounded(<<HoldSpec(b, mk, l)>>,
                            [i \in 1..(Len(days) - 1) |-> Zero])
  IN [d \in Range(days) |-> Mul(Hundred, account[BarOf(days, d)].equity)]

(* A held leg is refused when no premium is a number, or no hedge delta. *)
HoldRefused(b, mk, l) ==
  LET days == Evaluated(b, mk, l)
  IN \/ \A d \in days : ~IsFinite(mk[d][l].premium)
     \/ /\ b.leg[l].hedge # None
        /\ \A d \in days : ~IsFinite(mk[d][l].delta)

(* The value of a leg on a day it has: a close, the synthetic curve of a   *)
(* signal (its summed P&L on 100), the equity of a nested portfolio.       *)
LegSeries(b, mk, l) ==
  LET days == Evaluated(b, mk, l)
  IN CASE b.leg[l].type \in Priced \cup {"portfolio"} ->
            [d \in days |-> mk[d][l].close]
       [] b.leg[l].type = "signal" ->
            [d \in days |-> Mul(Hundred, Add(One, mk[d][l].pnl))]
       [] IsHoldLeg(b.leg[l]) -> HoldSeries(b, mk, l)

(* The legs that make the calendar: a level stream is an overlay, and cash *)
(* is on deposit every day unless it is alone.                             *)
Constraining(b) ==
  LET priced == {l \in Range(b.legs) :
                   \/ b.leg[l].type \in Priced \cup {"signal", "portfolio"}
                   \/ IsHoldLeg(b.leg[l])}
  IN IF priced # {} THEN priced ELSE Range(Labels(b, "cash_rate"))
Shared(b, mk) ==
  {d \in DOMAIN mk : \A l \in Constraining(b) : d \in Evaluated(b, mk, l)}
Calendar(b, mk) == Sorted({d \in Shared(b, mk) : InWindow(b, d)})

(* reindex_rate_series: the last rate observed, as a fraction of 1 a year, *)
(* 0 before the first.                                                     *)
YearlyRate(leg, bar) == IF leg.percent THEN Div(bar.close, Hundred) ELSE bar.close
RateAhead(b, mk, l, d) ==                                              \* a mutant
  LET next == {e \in Evaluated(b, mk, l) : e >= d}
  IN IF next = {} THEN Zero ELSE YearlyRate(b.leg[l], mk[Min(next)][l])
RateAt(b, mk, l, d) ==
  LET seen == {e \in Evaluated(b, mk, l) : e <= d}
  IN IF seen = {} THEN Zero ELSE YearlyRate(b.leg[l], mk[Max(seen)][l])

(* The root of a fraction in lowest terms whose root is a fraction: an     *)
(* instance takes its rates among these. NaN and infinity are their own.   *)
WholeRoot(n) == CHOOSE k \in 0..n : k ^ DayCount = n
YearRoot(x) == IF IsFinite(x) THEN <<WholeRoot(x[1]), WholeRoot(x[2])>> ELSE x

(* daily_accrual_factor and accrue_cash_equity: interest compounds within  *)
(* the year unless the leg asks for simple interest; none on the first bar.*)
DailyFactor(leg, rate) ==
  IF leg.compound THEN YearRoot(Add(One, rate))
  ELSE Add(One, Div(rate, Int2F(DayCount)))
CashCurve(b, mk, l, days) ==
  LET C[t \in 1..Len(days)] ==
        IF t = 1 THEN Hundred
        ELSE Mul(C[t - 1], DailyFactor(b.leg[l], RateAt(b, mk, l, days[t])))
  IN C

(* A rate of -100% or less cannot be compounded, on the first bar either;  *)
(* a rate that is not a number is let through.                             *)
RateRefused(b, mk) ==
  \E l \in Range(Labels(b, "cash_rate")), d \in Range(Calendar(b, mk)) :
    b.leg[l].compound /\ Leq(RateAt(b, mk, l, d), Neg(One))

Aligned(b, mk, l, days) ==
  IF b.leg[l].type = "cash_rate" THEN CashCurve(b, mk, l, days)
  ELSE LET series == LegSeries(b, mk, l) IN [t \in 1..Len(days) |-> series[days[t]]]

DataRefusal(b, mk) ==
  LET priced == {l \in Range(b.legs) : b.leg[l].type \in Priced}
      full == InstrumentDates(b, mk)
  IN First(<<
       <<priced # {} /\ full = {}, "no overlap of instruments">>,
       <<priced # {} /\ ~\E d \in full : InWindow(b, d), "empty range">>,
       <<\E l \in Range(b.legs) : b.leg[l].type = "signal" /\ b.leg[l].fault, "signal">>,
       <<\E l \in HoldLabels(b) : HoldRefused(b, mk, l), "option values">>,
       <<\E l \in Range(b.legs) : b.leg[l].type = "portfolio" /\ b.leg[l].fault, "portfolio">>,
       <<\E l \in Range(Labels(b, "cash_rate")) : Evaluated(b, mk, l) = {}, "cash rate">>,
       <<Constraining(b) = {}, "no price-like legs">>,
       <<Shared(b, mk) = {}, "no overlap">>,
       <<Calendar(b, mk) = <<>>, "empty range">>,
       <<RateRefused(b, mk), "cash rate below -100%">> >>)

(***************************************************************************)
(* The engine's portfolio: weights, alignment, the turnover of rolls.      *)
(***************************************************************************)

(* Labels in the order aligned_closes is filled, overlays left out. *)
Participants(b) ==
  SelectSeq(b.legs, LAMBDA l : b.leg[l].type \in Priced)
    \o Labels(b, "signal") \o SelectSeq(b.legs, LAMBDA l : IsHoldLeg(b.leg[l]))
    \o Labels(b, "portfolio") \o Labels(b, "cash_rate")

(* A held option's series carries its sign; its weight is a magnitude.     *)
(* Weights are percents of NAV when they are not normalized.               *)
Combined(b, l) ==
  LET w == IF IsHoldLeg(b.leg[l]) THEN AbsF(b.weight[l]) ELSE b.weight[l]
  IN IF b.normalize THEN w ELSE Div(w, Hundred)

(* The boundaries of a rolling leg; the first open is not one. *)
RollDates(b, mk, l) ==
  LET rolls == {d \in Listed(mk, l) : InWindow(b, d) /\ mk[d][l].roll}
  IN IF IsHoldLeg(b.leg[l]) /\ rolls # {} THEN rolls \ {Min(rolls)} ELSE rolls
Rolling(b, l) == b.leg[l].type = "continuous" \/ IsHoldLeg(b.leg[l])

Notional(b, l) ==
  LET total == SumOver(Participants(b), LAMBDA k : AbsF(Combined(b, k)))
  IN IF b.normalize /\ total # Zero THEN Div(AbsF(Combined(b, l)), total)
     ELSE AbsF(Combined(b, l))
(* A continuous leg's rolls are read again for the costs and for the trade *)
(* log; a read that fails (lost names the two) leaves the leg without.     *)
Lost(b, l, read) == b.leg[l].type = "continuous" /\ read \in b.leg[l].lost
RollTurnoverAt(b, mk, d) ==
  SumOver(SelectSeq(Participants(b), LAMBDA l : Rolling(b, l) /\ ~Lost(b, l, "costs")),
          LAMBDA l : IF d \in RollDates(b, mk, l)
                     THEN Mul(Int2F(2), Notional(b, l)) ELSE Zero)

Portfolio(b, mk) ==
  LET days == Calendar(b, mk)
      legs == Participants(b)
  IN [legs |-> legs, dates |-> days, freq |-> b.rebalance,
      close |-> [l \in Range(legs) |-> Aligned(b, mk, l, days)],
      weight |-> [l \in Range(legs) |-> Combined(b, l)],
      normalize |-> b.normalize, rate |-> b.rate,
      roll |-> [t \in 1..Len(days) |->
                  IF b.rate = Zero THEN Zero ELSE RollTurnoverAt(b, mk, days[t])]]
=============================================================================
