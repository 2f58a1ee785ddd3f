---------------------------- MODULE IntradayRules ---------------------------
(***************************************************************************)
(* What a run of the intraday backtest promises. run_backtest takes the    *)
(* days of its request one after the other; here the minutes of a day      *)
(* arrive one by one, and after each the day is processed on the minutes   *)
(* there are, so that a later minute is seen to change a result or not.    *)
(***************************************************************************)
EXTENDS IntradayRun

CONSTANTS
  Requests,
  Chain,               \* what list_expirations and list_strikes know
  Minutes(_),          \* how many minutes of a plan are quoted
  Row(_, _, _)         \* the rows of a minute: request, plan, minute

VARIABLES
  request,
  plans,               \* the plans still to run
  rows,                \* the minutes of the first of them so far
  day,                 \* its result on those rows; None before the first
  results,
  report,              \* None while running
  stage                \* "posted", "running", "done", "refused"
vars == <<request, plans, rows, day, results, report, stage>>

Init ==
  /\ request \in Requests
  /\ plans = <<>> /\ rows = <<>> /\ day = None /\ results = <<>> /\ report = None
  /\ stage = "posted"

Accept ==
  /\ stage = "posted" /\ ~Invalid(request) /\ ~Refused(request)
  /\ plans' = Plans(request)
  /\ stage' = "running"
  /\ UNCHANGED <<request, rows, day, results, report>>
Refuse ==
  /\ stage = "posted" /\ (Invalid(request) \/ Refused(request))
  /\ stage' = "refused"
  /\ UNCHANGED <<request, plans, rows, day, results, report>>

Exclude ==
  /\ stage = "running" /\ plans # <<>> /\ Head(plans).excluded
  /\ results' = Append(results, [status |-> "excluded", why |-> "excluded"])
  /\ plans' = Tail(plans)
  /\ UNCHANGED <<request, rows, day, report, stage>>
Minute ==
  /\ stage = "running" /\ plans # <<>> /\ ~Head(plans).excluded
  /\ Len(rows) < Minutes(Head(plans))
  /\ \E row \in Row(request, Head(plans), Len(rows)) : rows' = Append(rows, row)
  /\ day' = Processed(Chain, request, Head(plans), rows')
  /\ UNCHANGED <<request, plans, results, report, stage>>
Close ==
  /\ stage = "running" /\ plans # <<>> /\ ~Head(plans).excluded
  /\ Len(rows) = Minutes(Head(plans))
  /\ results' = Append(results, day)
  /\ plans' = Tail(plans)
  /\ rows' = <<>> /\ day' = None
  /\ UNCHANGED <<request, report, stage>>
Finish ==
  /\ stage = "running" /\ plans = <<>>
  /\ report' = [aggregate |-> Aggregate(results), warnings |-> Warnings(results)]
  /\ stage' = "done"
  /\ UNCHANGED <<request, plans, rows, day, results>>

Next == Accept \/ Refuse \/ Exclude \/ Minute \/ Close \/ Finish
Spec == Init /\ [][Next]_vars

Ran == day # None /\ day.status = "ok"
Legs == {"c", "p"}
UnitOf(trigger) == Head(SelectSeq(Head(plans).exit.triggers, LAMBDA t : t.type = trigger)).unit

(***************************************************************************)
(* The P&L a pnl trigger fired on is the one the day is paid, when both    *)
(* legs do trade at that minute: the preview of the hedge on the way to    *)
(* the exit (find_trigger_fire) and the hedge that is booked afterwards    *)
(* over the shorter time (_run_hedge) are two loops that must agree.       *)
(***************************************************************************)
PaidWhatItFiredOn ==
  Ran /\ day.fired # None /\ day.fired.type = "pnl"
    /\ (\A f \in Legs : day.exit[f].bar.ts = day.fired.ts) =>
      day.fired.value = CASE UnitOf("pnl") = "points" -> day.points
                          [] UnitOf("pnl") = "usd" -> day.usd

(***************************************************************************)
(* A trigger that has fired stays fired, on the same entries: no minute    *)
(* that comes later moves either. That needs a future quoted at the entry  *)
(* time and at the anchor of the open, which the nearest bar, earlier or   *)
(* later, stands in for otherwise.                                         *)
(***************************************************************************)
QuotedAt(ts) == \E i \in DOMAIN rows : rows[i].ts = ts /\ Mark(ts, rows[i].es) # None
Timely ==
  LET plan == Head(plans)
  IN QuotedAt(plan.entry.at) /\ QuotedAt(Min({plan.entry.at, Utc(plan.day, SessionOpen)}))
FiredStands ==
  [][ Ran /\ day.fired # None /\ plans' = plans /\ Timely
        /\ day.fired.ts <= Last(rows).ts =>
          day'.status = "ok" /\ day'.fired = day.fired /\ day'.entry = day.entry ]_vars

(***************************************************************************)
(* The hedge trades that are reported explain the hedge's P&L: each        *)
(* quantity earns what the future moves until the next trade, the last     *)
(* until the straddle is off.                                              *)
(***************************************************************************)
TradesExplainHedge ==
  Ran =>
    LET t == day.trades
        Until(i) == IF i = Len(t) THEN day.future[2] ELSE t[i + 1].es
    IN day.hedge = SumOver([i \in DOMAIN t |-> i],
                           LAMBDA i : Mul(t[i].qty, Sub(Until(i), t[i].es)))

(***************************************************************************)
(* A leg is closed no earlier than it was opened, by a trigger or at the   *)
(* exit time, however wide the tolerances, as long as the entry's own does *)
(* not reach past the exit time.                                           *)
(***************************************************************************)
ExitsFollowEntries ==
  Ran /\ Head(plans).entry.at + Head(plans).entry.tol <= Head(plans).exit.at =>
    \A f \in Legs : day.entry[f].bar.ts <= day.exit[f].bar.ts

(***************************************************************************)
(* The report adds up: the curve ends at the total, its drawdown is the    *)
(* deepest fall from any earlier point, the start included, and every day  *)
(* that did not trade is excluded or warned of.                            *)
(***************************************************************************)
ReportAddsUp ==
  report # None =>
    LET agg == report.aggregate
        At(i) == IF i = 0 THEN Zero ELSE agg.curve[i]
        falls == {Sub(At(j), At(i)) : <<i, j>> \in
                    {p \in (0..agg.traded) \X (0..agg.traded) : p[1] <= p[2]}}
        excluded == {d \in Weekdays(request) : Excluded(request, d)}
    IN /\ At(agg.traded) = agg.total
       /\ agg.drawdown \in falls /\ \A x \in falls : Leq(agg.drawdown, x)
       /\ agg.days = Cardinality(Weekdays(request))
       /\ agg.skipped = Cardinality(excluded) + MapThenSumSet(LAMBDA w : w.days, report.warnings)

(***************************************************************************)
(* The books of a day and of the report add up: the P&L of the hedge is    *)
(* that of its trades, no leg is closed before it was opened, and the      *)
(* report is the sum of its days.                                          *)
(***************************************************************************)
BooksAddUp == TradesExplainHedge /\ ExitsFollowEntries /\ ReportAddsUp
=============================================================================
