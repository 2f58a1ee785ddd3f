----------------------------- MODULE EngineRules ----------------------------
(***************************************************************************)
(* What the portfolio engine promises, day by day. A setup is chosen, then *)
(* one bar of data after the other arrives; after each the engine's input  *)
(* is prepared from all the bars there are, and its answer published. kind *)
(* is "hold" for the account of one held option leg (HoldPnl, as signals   *)
(* use it, with bars on which it is inactive) and "portfolio" for a        *)
(* request to /api/portfolio/compute.                                      *)
(***************************************************************************)
EXTENDS PortfolioTrades

CONSTANTS
  Setups,              \* the requests and the held legs
  Bar(_, _),           \* the bars a setup may see after n others
  Length(_),           \* the number of bars of a setup
  Days                 \* the trading days of the portfolio setups, in order

(* A bar of a held leg's data, and a held leg. Any quote may be missing;   *)
(* the size of the leg and of its hedge may not (_validate_nav_times,      *)
(* _finite_positive_factor and _finite_positive_cap of core/api/_models).  *)
HeldBar ==
  [premium : Number, roll : BOOLEAN, open : Number, active : BOOLEAN,
   rollFuture : Number, future : Number, delta : Number]
IsHeldLeg(leg) ==
  /\ {leg.sign, leg.nav, leg.multFut, leg.multOpt} \subseteq Number
  /\ IsFinite(leg.sign) /\ IsFinite(leg.nav)
  /\ leg.hedge # None =>
       /\ {leg.hedge.factor, leg.hedge.cap} \subseteq Number
       /\ IsFinite(leg.hedge.factor) /\ IsFinite(leg.hedge.cap)
ASSUME HeldSetups ==
  \A s \in Setups :
    s.kind = "hold" =>
      /\ IsHeldLeg(s.leg) /\ Length(s) \in Nat
      /\ \A n \in 0..(Length(s) - 1) : Bar(s, n) \subseteq HeldBar

VARIABLES
  setup,
  bars,
  input,               \* the arrays of the held leg, or of the portfolio
  answer,              \* the account, or the response; None: refused
  stage                \* "published", "arrived" or "prepared"
vars == <<setup, bars, input, answer, stage>>

Held == setup.kind = "hold"
Market == [d \in {Days[i] : i \in 1..Len(bars)} |-> bars[BarOf(Days, d)]]

HoldLegOf(leg, x) ==
  LET At(f(_)) == [t \in 1..Len(x) |-> f(x[t])]
  IN [sign |-> leg.sign, nav |-> leg.nav, mode |-> leg.mode,
      multFut |-> leg.multFut, multOpt |-> leg.multOpt, hedge |-> leg.hedge,
      premium |-> At(LAMBDA y : y.premium), isRoll |-> At(LAMBDA y : y.roll),
      rollPremium |-> At(LAMBDA y : y.open), active |-> At(LAMBDA y : y.active),
      rollFuture |-> At(LAMBDA y : y.rollFuture),
      dailyFuture |-> At(LAMBDA y : y.future),
      delta |-> At(LAMBDA y : y.delta), price |-> At(LAMBDA y : y.future),
      unitDelta |-> At(LAMBDA y : One), gate |-> At(LAMBDA y : ~y.roll)]

Init ==
  /\ setup \in Setups
  /\ bars = <<>> /\ input = None /\ answer = None /\ stage = "published"
Arrive ==
  /\ stage = "published" /\ Len(bars) < Length(setup)
  /\ \E x \in Bar(setup, Len(bars)) : bars' = Append(bars, x)
  /\ stage' = "arrived"
  /\ UNCHANGED <<setup, input, answer>>
Prepare ==
  /\ stage = "arrived"
  /\ input' = IF Held THEN HoldLegOf(setup.leg, bars)
              ELSE IF Refusal(setup.body, Market) # None THEN None
              ELSE Portfolio(setup.body, Market)
  /\ stage' = "prepared"
  /\ UNCHANGED <<setup, bars, answer>>
Publish ==
  /\ stage = "prepared"
  /\ answer' = IF Held THEN Compounded(<<input>>, [t \in 1..(Len(bars) - 1) |-> Zero])
               ELSE IF input = None THEN None
               ELSE Response(setup.body, Market, input)
  /\ stage' = "published"
  /\ UNCHANGED <<setup, bars, input>>
Next == Arrive \/ Prepare \/ Publish
Spec == Init /\ [][Next]_vars

(* The states in which input and answer are those of the bars. *)
HeldAnswer == Held /\ stage = "published" /\ bars # <<>>
Answered == ~Held /\ stage = "published" /\ answer # None

(***************************************************************************)
(* The account of a held leg.                                              *)
(***************************************************************************)

(* A bar at which a position is sized: the seed, or an open that worked.   *)
SizedAt(t) ==
  LET m == answer[t].mem[1]
  IN /\ m.holding /\ m.equity = answer[t].equity
     /\ t = 1 \/ (input.active[t] /\ Opens(input, answer[t - 1].mem[1], t)
                  /\ m.premium = OpenPremium(input, t) /\ Quotable(m.premium))

(* Between a sizing and the next open, however many quotes are missing in  *)
(* between, the equity moves by the position times the premium's move from *)
(* the open to the last quote: nothing is lost in a gap or booked twice.   *)
SegmentTelescopes ==
  LET Size(a) == Mul(Mul(input.sign, input.nav), answer[a].equity)
      Unit(a) == IF Futures(input)
                 THEN Div(input.multOpt, Mul(answer[a].mem[1].ref, input.multFut))
                 ELSE Div(One, answer[a].mem[1].premium)
  IN HeldAnswer /\ input.hedge = None =>
       \A a, e \in 1..Len(bars) :
         /\ a < e /\ SizedAt(a)
         /\ \A t \in (a + 1)..e : input.active[t] /\ (t < e => ~input.isRoll[t])
         /\ IsFinite(input.premium[e])
         /\ answer[e].equity # Zero
         => Sub(answer[e].equity, answer[a].equity)
              = Mul(Mul(Size(a), Unit(a)),
                    Sub(input.premium[e], answer[a].mem[1].premium))

(* The replay that costs are charged on walks through the same segments as *)
(* the account: it holds when the account holds, from the same open and    *)
(* the same reference, until the account is wiped.                         *)
ReplayMirrors ==
  LET rep == Replayed(input)
  IN HeldAnswer /\ Futures(input) =>
       \A t \in 1..Len(bars) : answer[t].equity # Zero =>
         LET m == answer[t].mem[1]
         IN /\ rep[t].holding = m.holding
            /\ m.holding => rep[t].premium = m.premium /\ rep[t].ref = m.ref

(* The scale of each step makes the booked P&L add up to the move of the   *)
(* equity even through a wipe-out, after which it stays at 0.              *)
WipeOutReconciles ==
  LET n == Len(bars)
      steps == [t \in 1..(n - 1) |-> t + 1]
  IN HeldAnswer =>
       /\ \A t \in 2..n : answer[t - 1].equity = Zero => answer[t].equity = Zero
       /\ Sub(answer[n].equity, One)
            = SumOver(steps, LAMBDA t :
                Mul(answer[t].scale, Mul(answer[t - 1].equity, answer[t].net)))

(* What the costs of a held leg are charged on: a side for each time it is *)
(* switched on or off, two for each roll it is held across.                *)
TurnoverCountsTrades ==
  LET n == Len(bars)
      Was(t) == t > 1 /\ input.active[t - 1]
      switches == {t \in 1..n : input.active[t] # Was(t)}
      rolls == {t \in 2..n : input.isRoll[t] /\ input.active[t] /\ Was(t)}
      sides == Int2F(Cardinality(switches) + 2 * Cardinality(rolls))
  IN HeldAnswer =>
       /\ SumOver([t \in 1..n |-> t], LAMBDA t : ScalarTurnover(input, t))
            = Mul(AbsF(input.nav), sides)
       /\ ~Futures(input) =>
            \A t \in 1..n : FractionTurnover(input, NotionalFractions(input), t)
                              = ScalarTurnover(input, t)

(* So the costs are charged on the trades the account makes.               *)
CostsFollowTheAccount == ReplayMirrors /\ TurnoverCountsTrades

(***************************************************************************)
(* The portfolio.                                                          *)
(***************************************************************************)
RowsOf(l) == {tr \in answer.trades : tr.holding = l /\ tr.kind = "roll"}

(* Every trade lies on the published calendar, and the rows of a rolling   *)
(* leg cover it with one row per contract: a continuous row starts on the  *)
(* bar after the last one ended, an option row on the bar it ended.        *)
TradesFitTheCalendar ==
  LET b == setup.body
      n == Len(answer.dates)
      Gap(l) == IF IsHoldLeg(b.leg[l]) THEN 0 ELSE 1
  IN Answered =>
       /\ \A tr \in answer.trades :
            tr.open \in 1..n /\ (tr.close # None => tr.close \in tr.open..n)
       /\ \A l \in {k \in Range(b.legs) : Rolling(b, k)} :
            LET rows == RowsOf(l)
                last == CHOOSE r \in rows : \A q \in rows : q.open <= r.open
            IN /\ {r.open : r \in rows}
                    = {1} \cup {r.close + Gap(l) : r \in rows \ {last}}
               /\ last.close = n
               /\ \A r, q \in rows : r.open = q.open => r = q

(* A held option alone at full weight: the P&L of its rows adds up to the  *)
(* change of the portfolio's equity (_synthetic_segment_pnl says so).      *)
RowsTelescope ==
  LET b == setup.body
      rows == SetToSeq(RowsOf(b.legs[1]))
  IN /\ Answered /\ Len(b.legs) = 1 /\ b.rate = Zero
     /\ HoldLabels(b) # {} /\ AbsF(b.weight[b.legs[1]]) = Hundred
     /\ \A i \in 1..Len(rows) : rows[i].pnl # None
     => SumOver([i \in 1..Len(rows) |-> i], LAMBDA i : rows[i].pnl)
          = Sub(answer.equity[Len(answer.equity)], answer.equity[1])

(* The price of the leg a trade belongs to, and a number of contracts that *)
(* is counted at a price.                                                  *)
OwnPrice(tr) ==
  IF setup.body.leg[tr.holding].type # "signal" THEN input.close[tr.holding][tr.open]
  ELSE Market[input.dates[tr.open]][tr.holding].pos[tr.of].price
CountedAt(price, tr) ==
  Mul(tr.quantity, Mul(price, TradeMultiplier(setup.body, tr)))
    = Mul(AbsF(tr.weight), answer.equity[tr.open])
Counted(trades) == {tr \in trades : tr.kind # "roll" /\ tr.quantity # None}

(* A trade is counted at the price of the leg it belongs to, if whatever   *)
(* else trades under the same name has that price on the day. Prices are   *)
(* kept by name (aggregated_positions): where two differ it is the first   *)
(* leg's, for every trade of the name.                                     *)
SizedByItsName ==
  Answered => \A tr \in Counted(answer.trades) :
    LET all == SelectSeq(Claims(setup.body, Market, input), LAMBDA c : c[1] = tr.input)
        prices == {c[2][tr.open] : c \in {d \in Range(all) : d[2] # None}}
    IN /\ CountedAt(all[1][2][tr.open], tr)
       /\ Cardinality(prices) = 1 => CountedAt(OwnPrice(tr), tr)

(* The log of trades tells the curve's story: in its calendar, in P&L and  *)
(* in size.                                                                *)
TradeLogIsTrue == TradesFitTheCalendar /\ RowsTelescope /\ SizedByItsName

(* The curve is a number on every bar, does not move on a bar on which no  *)
(* leg moves, and the returns it is cut into by month and by year compound *)
(* to the same total. (Costs move the curve on flat bars.)                 *)
CompoundsToItsTotal ==
  LET n == Len(answer.dates)
      Flat(t) == \A l \in Range(input.legs) :
                   FiniteOr0(LegReturns(input)[l][t]) = Zero
      Total(buckets) ==
        ProdOver([i \in 1..Len(buckets) |-> i],
                 LAMBDA i : Add(One, buckets[i].portfolio))
      whole == Div(answer.equity[n], answer.equity[1])
  IN Answered =>
       /\ \A t \in 1..n : IsFinite(answer.equity[t])
       /\ input.rate = Zero =>
            \A t \in 2..n : Flat(t) => answer.equity[t] = answer.equity[t - 1]
       /\ \A t \in 1..n : Positive(answer.equity[t])
          => Total(answer.monthly) = whole /\ Total(answer.yearly) = whole

(* A leg that was wiped out gets no money from the others at a rebalance:  *)
(* its equity stays 0 and their sum is the portfolio's. (Normalized        *)
(* weights, no shorts, no costs.)                                          *)
DeadStaysDead ==
  /\ Answered /\ input.normalize /\ input.rate = Zero /\ input.freq # "daily"
  /\ \A l \in Range(input.legs) : ~Negative(input.weight[l])
  => \A t \in 1..Len(answer.dates) :
       /\ answer.equity[t] = SumLegs(input, LAMBDA l : answer.legEquity[l][t])
       /\ t > 1 => \A l \in Range(input.legs) :
            answer.legEquity[l][t - 1] = Zero => answer.legEquity[l][t] = Zero

(* What is reported as paid in costs is what the curve lacks against the   *)
(* returns before costs, earned on the equity that was left.               *)
CostsAreReported ==
  LET n == Len(answer.dates)
      free == [input EXCEPT !.rate = Zero]
      before == PortfolioReturns(free, Equity(free))
      steps == [t \in 1..(n - 1) |-> t + 1]
  IN Answered /\ input.rate # Zero =>
       answer.costPaid = Sub(SumOver(steps, LAMBDA t : Mul(answer.equity[t - 1], FiniteOr0(before[t]))),
                             Sub(answer.equity[n], answer.equity[1]))

(* The curve is a sum of money: it compounds to its total, what is lost    *)
(* does not come back, and what is paid is told.                           *)
CurveIsSound == CompoundsToItsTotal /\ DeadStaysDead /\ CostsAreReported

(* What was published for the past stands when a day is added: the account *)
(* of a held leg; and of a portfolio the curve and its calendar, which are *)
(* extended, and a trade that was over. No number of a bar depends on a    *)
(* later one; but a rate that a cash leg refuses takes the whole answer    *)
(* away.                                                                   *)
AccountStands ==
  [][Publish /\ Held /\ answer # None =>
       \A t \in 1..(Len(bars) - 1) : answer'[t] = answer[t]]_vars

Over(res, tr) ==
  tr.close # None /\ (tr.kind = "roll" => tr.close < Len(res.dates))
CurveStands ==
  [][Publish /\ ~Held /\ answer # None =>
       IF RateRefused(setup.body, Market) THEN answer' = None
       ELSE /\ answer' # None
            /\ IsPrefix(answer.dates, answer'.dates)
            /\ IsPrefix(answer.equity, answer'.equity)
            /\ {tr \in answer.trades : Over(answer, tr)} \subseteq answer'.trades
    ]_vars

PastStands == AccountStands /\ CurveStands
=============================================================================
