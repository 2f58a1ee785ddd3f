--------------------------- MODULE PortfolioTrades --------------------------
(***************************************************************************)
(* The response of _compute_portfolio_uncached: the curves of the engine,  *)
(* and the trade log and positions built after them for display. A trade   *)
(* is a record: holding (the leg), input (whose price sizes it), kind,     *)
(* open and close (bars of the calendar; close is None while it is open),  *)
(* weight (a signed fraction), quantity and, on roll rows, pnl.            *)
(* The order of the log and the names of its blocks are left out.          *)
(***************************************************************************)
EXTENDS PortfolioRun

Fraction(b, l) == Div(b.weight[l], Hundred)

(* _leg_multiplier_and_unit: an unusable multiplier of a future or option  *)
(* leaves the count unknown; anything else is counted in shares.           *)
Multiplier(class, m) ==
  IF class \notin {"FUT", "OPT"} THEN One
  ELSE IF IsFinite(m) /\ Positive(m) THEN m ELSE None

(* _roll_row_quantity; series is a sequence over the calendar, or None. *)
QuantityOf(weight, equity, series, bar, m) ==
  IF series = None \/ m = None THEN None
  ELSE IF ~IsFinite(series[bar]) \/ ~Positive(series[bar]) \/ ~IsFinite(equity[bar])
       THEN None
       ELSE Div(Mul(AbsF(weight), equity[bar]), Mul(series[bar], m))

(***************************************************************************)
(* _build_roll_rows: one row per held contract of a rolling leg.           *)
(***************************************************************************)
RollBars(b, mk, l, days) ==
  {t \in 2..Len(days) : ~Lost(b, l, "rows") /\ days[t] \in RollDates(b, mk, l)}
RowOpens(b, mk, l, days) == <<1>> \o SetToSortSeq(RollBars(b, mk, l, days), <)

(* A continuous row ends the bar before the next opens; an option row ends *)
(* on the next open, whose step books the old contract's last move.        *)
CloseBarInner(b, opens, l, k, n) ==                                    \* a mutant
  IF k = Len(opens) THEN n ELSE opens[k + 1] - 1
CloseBar(b, opens, l, k, n) ==
  IF k = Len(opens) THEN n
  ELSE IF IsHoldLeg(b.leg[l]) THEN opens[k + 1] ELSE opens[k + 1] - 1

(* The arrays of a held option on the calendar (_align_hold_series). *)
OnCalendar(mk, l, days, f(_)) == [t \in 1..Len(days) |-> f(mk[days[t]][l])]

(* The price a row is counted at: the leg's own, or the roll's premium, or *)
(* the future that sizes the leg.                                          *)
SizingSeries(b, mk, l, p) ==
  IF ~IsHoldLeg(b.leg[l]) THEN p.close[l]
  ELSE IF b.leg[l].sizing = "futures_notional"
       THEN OnCalendar(mk, l, p.dates, LAMBDA x : x.future)
       ELSE OnCalendar(mk, l, p.dates, LAMBDA x : x.open)
SizingMultiplier(b, l) ==
  IF IsHoldLeg(b.leg[l]) /\ b.leg[l].sizing = "futures_notional"
  THEN Multiplier("FUT", b.leg[l].multFut)
  ELSE Multiplier(b.leg[l].class, b.leg[l].multiplier)

(* _synthetic_segment_pnl: the leg's return over the segment on its share  *)
(* of NAV; _roll_row_pnl: the count times the price move.                  *)
SyntheticPnl(weight, equity, s, from, to) ==
  IF \/ ~IsFinite(s[from]) \/ ~IsFinite(s[to]) \/ ~IsFinite(equity[from])
     \/ ~Positive(s[from])
  THEN None
  ELSE Mul(Mul(AbsF(weight), equity[from]), Sub(Div(s[to], s[from]), One))
PricePnl(quantity, weight, s, from, to, m) ==
  IF quantity = None \/ m = None \/ ~IsFinite(s[from]) \/ ~IsFinite(s[to]) THEN None
  ELSE LET gain == Mul(Mul(quantity, Sub(s[to], s[from])), m)
       IN IF Negative(weight) THEN Neg(gain) ELSE gain

(* _last_finite_index_in, _finite_at and the prices an option row shows. *)
LastQuoted(s, from, to) ==
  LET quoted == {t \in from..to : IsFinite(s[t])}
  IN IF quoted = {} THEN None ELSE Max(quoted)
RowPrices(b, mk, l, p, from, to) ==
  LET premium == OnCalendar(mk, l, p.dates, LAMBDA x : x.premium)
      open == OnCalendar(mk, l, p.dates, LAMBDA x : x.open)
      last == LastQuoted(premium, from, to)
  IN [open |-> IF IsFinite(open[from]) THEN open[from] ELSE None,
      openFallback |-> IsFinite(open[from]) /\ mk[p.dates[from]][l].openFallback,
      close |-> IF last = None THEN None ELSE premium[last],
      closeFallback |-> last # None /\ mk[p.dates[last]][l].closeFallback]

RollRows(b, mk, l, p, equity) ==
  LET n == Len(p.dates)
      opens == RowOpens(b, mk, l, p.dates)
      w == Fraction(b, l)
      held == IsHoldLeg(b.leg[l])
      Row(k) ==
        LET from == opens[k]
            to == CloseBar(b, opens, l, k, n)
            q == QuantityOf(w, equity, SizingSeries(b, mk, l, p), from,
                            SizingMultiplier(b, l))
        IN [holding |-> l, input |-> IF held THEN l ELSE b.leg[l].collection,
            kind |-> "roll", open |-> from, close |-> to, weight |-> w,
            quantity |-> q,
            pnl |-> IF held THEN SyntheticPnl(w, equity, p.close[l], from, to)
                    ELSE PricePnl(q, w, p.close[l], from, to,
                                  SizingMultiplier(b, l)),
            prices |-> IF held THEN RowPrices(b, mk, l, p, from, to) ELSE None]
  IN {Row(k) : k \in 1..Len(opens)}

(***************************************************************************)
(* The trades of a signal leg. On a day of its index its bar has pos: for  *)
(* each input the side held and the price. Inputs are renamed to what they *)
(* trade (_remap_id): the symbol of a spot, the collection of a rolled     *)
(* input, and the input's own id for a basket.                             *)
(***************************************************************************)
Underlying(input) == IF input.kind = "basket" THEN input.id ELSE input.names

(* A trade of the evaluator: a run of bars on one side, with the bar after *)
(* it as its close, or None when the run reaches the last bar.             *)
SignalTrades(b, mk, l) ==
  LET idx == Sorted(Evaluated(b, mk, l))
      Side(i, t) == mk[idx[t]][l].pos[i].side
      Starts(i) == {t \in 1..Len(idx) :
                      Side(i, t) # 0 /\ (t = 1 \/ Side(i, t - 1) # Side(i, t))}
      End(i, t) ==
        LET later == {u \in t..Len(idx) : Side(i, u) # Side(i, t)}
        IN IF later = {} THEN None ELSE idx[Min(later)]
  IN UNION {{[input |-> i, from |-> idx[t], to |-> End(i, t),
              weight |-> Int2F(Side(i, t))] : t \in Starts(i)}
            : i \in 1..Len(b.leg[l].inputs)}

(* A trade with an end outside the calendar is dropped, an open one stays. *)
(* of keeps the input it was a trade of, which the code's record forgets.  *)
RemappedTrades(b, mk, l, days) ==
  {[holding |-> l, input |-> Underlying(b.leg[l].inputs[tr.input]),
    kind |-> "signal", open |-> BarOf(days, tr.from),
    close |-> IF tr.to = None THEN None ELSE BarOf(days, tr.to),
    of |-> tr.input, weight |-> Mul(tr.weight, Fraction(b, l))]
   : tr \in {x \in SignalTrades(b, mk, l) :
               /\ x.from \in Range(days)
               /\ x.to = None \/ x.to \in Range(days)}}

(* Every other leg is one open holding. *)
DirectInput(b, l) ==
  IF b.leg[l].type = "instrument" THEN b.leg[l].symbol
  ELSE IF b.leg[l].type = "continuous" THEN b.leg[l].collection ELSE l
DirectTrade(b, l) ==
  [holding |-> l, input |-> DirectInput(b, l), kind |-> "holding", open |-> 1,
   close |-> None, weight |-> Fraction(b, l)]

(***************************************************************************)
(* Positions: the price of each input, taken from the first leg that has   *)
(* it, signal legs before direct ones. A series is over the calendar, NaN  *)
(* on a day the signal's index has not; None when the input has no price.  *)
(***************************************************************************)
SignalPrices(b, mk, l, days) ==
  LET inputs == b.leg[l].inputs
      idx == Evaluated(b, mk, l)
      Price(i) == [t \in 1..Len(days) |->
                     IF days[t] \in idx THEN mk[days[t]][l].pos[i].price ELSE NaN]
  IN [i \in 1..Len(inputs) |->
        <<Underlying(inputs[i]),
          IF inputs[i].kind = "basket" THEN None ELSE Price(i)>>]
DirectPrices(b, p) ==
  LET direct == SelectSeq(b.legs, LAMBDA l : b.leg[l].type # "signal"
                                             /\ l \in Range(p.legs))
  IN [k \in 1..Len(direct) |-> <<DirectInput(b, direct[k]), p.close[direct[k]]>>]

Claims(b, mk, p) ==
  LET signals == Labels(b, "signal")
  IN FlattenSeq([k \in 1..Len(signals) |->
                   SignalPrices(b, mk, signals[k], p.dates)]) \o DirectPrices(b, p)
Positions(b, mk, p) ==
  LET claims == Claims(b, mk, p)
      FirstOf(i) == Min({k \in 1..Len(claims) : claims[k][1] = i})
  IN [i \in {claims[k][1] : k \in 1..Len(claims)} |-> claims[FirstOf(i)][2]]

(***************************************************************************)
(* Sizing: the number of contracts or shares the weight buys at the open.  *)
(* A signal's trade takes the multiplier of the collection of the first of *)
(* its inputs with that name; an option overlay is not counted.            *)
(***************************************************************************)
TradeMultiplier(b, tr) ==
  LET leg == b.leg[tr.holding]
      named == {i \in DOMAIN leg.inputs : /\ leg.inputs[i].kind # "basket"
                                          /\ Underlying(leg.inputs[i]) = tr.input}
      input == leg.inputs[Min(named)]
  IN IF leg.type # "signal" THEN Multiplier(leg.class, leg.multiplier)
     ELSE IF named = {} THEN One
     ELSE Multiplier(input.class, input.multiplier)

Sized(b, prices, equity, tr) ==
  LET price == IF tr.input \in DOMAIN prices THEN prices[tr.input] ELSE None
  IN [quantity |-> IF b.leg[tr.holding].type = "option_stream" THEN None
                   ELSE QuantityOf(tr.weight, equity, price, tr.open,
                                   TradeMultiplier(b, tr))] @@ tr

Log(b, mk, p, equity) ==
  LET signals == Range(Labels(b, "signal"))
      rolling == {l \in Range(b.legs) : Rolling(b, l)}
      direct == Range(b.legs) \ (signals \cup rolling)
      prices == Positions(b, mk, p)
      bare == UNION {RemappedTrades(b, mk, l, p.dates) : l \in signals}
                \cup {DirectTrade(b, l) : l \in direct}
  IN {Sized(b, prices, equity, tr) : tr \in bare}
       \cup UNION {RollRows(b, mk, l, p, equity) : l \in rolling}

(***************************************************************************)
(* The response, or the reason there is none.                              *)
(***************************************************************************)
Refusal(b, mk) ==
  IF RequestRefusal(b) # None THEN RequestRefusal(b)
  ELSE IF DataRefusal(b, mk) # None THEN DataRefusal(b, mk)
  ELSE IF ~Computable(Portfolio(b, mk)) THEN "engine" ELSE None

FullRange(b, mk) == <<Min(Shared(b, mk)), Max(Shared(b, mk))>>

(* _compute_level_metrics of an overlay: its first and last values. *)
Overlay(b, mk, l) ==
  LET v == {d \in Evaluated(b, mk, l) : ~IsNaN(mk[d][l].premium)}
  IN IF v = {} THEN None
     ELSE [first |-> mk[Min(v)][l].premium, last |-> mk[Max(v)][l].premium,
           change |-> Sub(mk[Max(v)][l].premium, mk[Min(v)][l].premium)]

Reported(b, mk, p, equity, returns) ==
  [dates |-> p.dates, equity |-> equity, returns |-> returns,
   legEquity |-> [l \in Range(p.legs) |-> LegEquity(p, l)],
   rebalanceDates |-> RebalanceDates(p), costPaid |-> CostPaid(p, equity, Turnover(p)),
   maxDrawdown |-> MaxDrawdown(equity),
   monthly |-> Aggregated(p.dates, returns, "monthly"),
   yearly |-> Aggregated(p.dates, returns, "yearly"),
   fullRange |-> FullRange(b, mk),
   tracking |-> {<<l, Overlay(b, mk, l)>> : l \in
                   {k \in Range(Labels(b, "option_stream")) : ~IsHoldLeg(b.leg[k])}},
   trades |-> Log(b, mk, p, equity)]
WithReturns(b, mk, p, equity) == Reported(b, mk, p, equity, PortfolioReturns(p, equity))
Response(b, mk, p) == WithReturns(b, mk, p, Equity(p))
=============================================================================
