----------------------------- MODULE IntradayRun -----------------------------
(***************************************************************************)
(* A run of the intraday backtest over a range of days                     *)
(* (tcg/core/api/intraday_backtest.py): the request is expanded into a     *)
(* plan per weekday, each plan picks its expiry and strike and is          *)
(* simulated, and the days are aggregated.                                 *)
(*                                                                         *)
(* A date is its day number, a time of day the minutes since midnight in   *)
(* New York, a timestamp the minute in UTC.                                *)
(***************************************************************************)
EXTENDS StraddleDay, Dates

CONSTANT Behind(_)       \* the minutes New York is behind UTC on a day
ASSUME PlainClock == Behind(0) \in Nat

Utc(day, time) == day * 1440 + time + Behind(day)
SessionOpen == 570                       \* 09:30
ExpiryTime == 960                        \* 16:00
FirstDay == DayNumber(20250101)
LastDay == DayNumber(20260731)
DayMultiplier == Int2F(50)               \* ES_MULTIPLIER
IsWeekday(day) == (day - 4) % 7 < 5

(***************************************************************************)
(* The request. Triggers are for the exit only, an override replaces the   *)
(* fields it has, an exclusion wins over an override.                      *)
(***************************************************************************)
Invalid(req) ==
  \/ req.entry.triggers # <<>>
  \/ \E c \in Range(req.custom) : c.entry # None /\ c.entry.triggers \notin {None, <<>>}
  \/ req.hedge.mode = "band_edge" /\ req.hedge.band = None

Or(x, y) == IF x # None THEN x ELSE y
Resolved(base, over) ==
  IF over = None THEN base
  ELSE [at |-> Or(over.at, base.at), tol |-> Or(over.tol, base.tol),
        conds |-> Or(over.conds, base.conds), triggers |-> Or(over.triggers, base.triggers)]

Excluded(req, day) == \E c \in Range(req.custom) : c.date = day /\ c.exclude
Override(req, day) ==
  LET own == SelectSeq(req.custom, LAMBDA c : /\ c.date = day /\ ~c.exclude
                                              /\ (c.entry # None \/ c.exit # None))
  IN IF own = <<>> THEN [entry |-> None, exit |-> None] ELSE Last(own)

PlanOf(req, day) ==
  LET over == Override(req, day)
      At(module) == [module EXCEPT !.at = Utc(day, module.at)]
  IN [day |-> day, entry |-> At(Resolved(req.entry, over.entry)),
      exit |-> At(Resolved(req.exit, over.exit)), excluded |-> Excluded(req, day)]
Weekdays(req) == {d \in req.start..req.end : IsWeekday(d)}
Plans(req) == [i \in 1..Cardinality(Weekdays(req)) |->
                 PlanOf(req, SetToSortSeq(Weekdays(req), <)[i])]

(* What is refused with a 400 before anything is run. *)
Refused(req) ==
  \/ req.start > req.end \/ req.start < FirstDay \/ req.end > LastDay
  \/ \E c \in Range(req.custom) : c.date \notin req.start..req.end \/ ~IsWeekday(c.date)
  \/ \E p \in Range(Plans(req)) : p.exit.at <= p.entry.at
  \/ Weekdays(req) = {}

(* total_days, the denominator of the progress. *)
TotalDays(req) == Cardinality({d \in Weekdays(req) : ~Excluded(req, d)})

(***************************************************************************)
(* A day. chain maps a root and an expiry to its contracts [strike, flag]. *)
(***************************************************************************)
Expiry(chain, req, day) ==
  LET all == {k[2] : k \in DOMAIN chain}
      far == {e \in all : e - day >= req.dte /\ e >= day}
  IN CASE req.mode = "0DTE" -> IF day \in all THEN day ELSE None
       [] req.mode = "NDTE" -> IF far = {} THEN None ELSE Min(far)

Strikes(chain, root, expiry) == {c.strike : c \in {x \in chain[root, expiry] : x.flag = "c"}}
AtTheMoney(strikes, price) ==
  CHOOSE k \in strikes : \A m \in strikes :
    LET mine == AbsF(Sub(k, price))  its == AbsF(Sub(m, price))
    IN Less(mine, its) \/ (mine = its /\ Leq(k, m))
(* The first root that has a call and a put at the strike nearest the money. *)
Contract(chain, expiry, price) ==
  LET roots == SetToSortSeq({k[1] : k \in {x \in DOMAIN chain : x[2] = expiry}}, <)
      Strike(r) == AtTheMoney(Strikes(chain, r, expiry), price)
      Has(r) == /\ Strikes(chain, r, expiry) # {}
                /\ \A f \in {"c", "p"} : [strike |-> Strike(r), flag |-> f] \in chain[r, expiry]
      good == SelectSeq(roots, Has)
  IN IF good = <<>> THEN None ELSE Strike(Head(good))

(* The marks of one series in the time that is fetched. *)
Fetched(plan, rows, field) ==
  LET from == Min({plan.entry.at, Utc(plan.day, SessionOpen)}) - 2
      to == plan.exit.at + plan.exit.tol + 2
      mark == [i \in DOMAIN rows |-> Mark(rows[i].ts, rows[i][field])]
  IN SelectSeq(mark, LAMBDA m : m # None /\ from <= m.ts /\ m.ts < to)

(* _resolve_es_day_open. *)
DayOpen(plan, es) ==
  LET anchor == Min({plan.entry.at, Utc(plan.day, SessionOpen)})
  IN PriceOr(Nearest(es, anchor, 5), PriceOr(Head(es \o <<None>>), None))

Processed(chain, req, plan, rows) ==
  LET expiry == Expiry(chain, req, plan.day)
      es == Fetched(plan, rows, "es")
      now == Nearest(es, plan.entry.at, plan.entry.tol)
      strike == Contract(chain, expiry, now.price)
  IN CASE expiry = None -> Skipped("no_expiry")
       [] expiry # None /\ now = None -> Skipped("no_quote_within_tolerance")
       [] expiry # None /\ now # None /\ strike = None -> Skipped("no_contract")
       [] OTHER ->
            Simulated(
              [side |-> req.side, strike |-> strike, expiry |-> Utc(expiry, ExpiryTime),
               es |-> es, calls |-> Fetched(plan, rows, "c"), puts |-> Fetched(plan, rows, "p"),
               entry |-> plan.entry, exit |-> plan.exit, triggers |-> plan.exit.triggers,
               hedge |-> req.hedge, open |-> DayOpen(plan, es), multiplier |-> DayMultiplier])

(***************************************************************************)
(* The report. Sharpe is kept as the mean and the variance it is made of.  *)
(***************************************************************************)
Traded(results) == SelectSeq(results, LAMBDA r : r.status = "ok")
(* After each day that traded: the sum, its peak, the deepest fall from one. *)
Curve(traded) ==
  LET C[i \in 1..Len(traded)] ==
        LET was == IF i = 1 THEN [cum |-> Zero, peak |-> Zero, down |-> Zero] ELSE C[i - 1]
            cum == Add(was.cum, traded[i].usd)
            peak == MaxF(was.peak, cum)
        IN [cum |-> cum, peak |-> peak, down |-> MinF(was.down, Sub(cum, peak))]
  IN C

Aggregate(results) ==
  LET traded == Traded(results)
      n == Len(traded)
      total == SumOver(traded, LAMBDA r : r.usd)
      mean == IF n = 0 THEN Zero ELSE Div(total, Int2F(n))
      Square(x) == Mul(x, x)
  IN [days |-> Len(results), traded |-> n, skipped |-> Len(results) - n, total |-> total,
      mean |-> mean,
      winRate |-> IF n = 0 THEN None
                  ELSE Frac(Len(SelectSeq(traded, LAMBDA r : Positive(r.usd))), n),
      variance |-> IF n < 2 THEN Zero
                   ELSE Div(SumOver(traded, LAMBDA r : Square(Sub(r.usd, mean))), Int2F(n - 1)),
      drawdown |-> IF n = 0 THEN Zero ELSE Curve(traded)[n].down,
      curve |-> [i \in 1..n |-> Curve(traded)[i].cum]]

Reasons == {"no_quote_within_tolerance", "entry_conditions_unmet", "no_expiry", "no_contract"}
Warnings(results) ==
  LET Days(why) == Len(SelectSeq(results, LAMBDA r : r.status = "skipped" /\ r.why = why))
  IN {[why |-> w, days |-> Days(w)] : w \in {x \in Reasons : Days(x) > 0}}
=============================================================================
