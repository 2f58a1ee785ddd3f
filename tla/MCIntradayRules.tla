--------------------------- MODULE MCIntradayRules --------------------------
(***************************************************************************)
(* Small instances of IntradayRules: a few minutes of one day per kind of  *)
(* plan, and a run of three weekdays over a change of the clocks.          *)
(*   paid       a pnl trigger under a hedge re-set at every minute         *)
(*   wide       exit and entry conditions, tolerances over several minutes *)
(*   volatile   triggers on sigma and delta, a hedge on a band and sigma   *)
(*   days       an excluded day, an overridden one, one with no expiry     *)
(*   badly      a request that is refused                                  *)
(***************************************************************************)
EXTENDS IntradayRules

(* A kernel of the same shape as Black-76: a call's delta rises with the   *)
(* forward from 0 to 1, a put's is the call's less one.                    *)
MCKernelDelta(forward, strike, left, sigma, flag) ==
  LET call == Clip(Add(Frac(1, 2), Div(Sub(forward, strike), Int2F(8))), Zero, One)
  IN IF flag = "c" THEN call ELSE Sub(call, One)
MCImpliedVol(mark, forward, strike, left, flag) ==
  IF Positive(mark) /\ mark # Int2F(4) THEN Frac(1, 4) ELSE None
MCRootTime(left) == Frac(1, 2)
(* New York goes to summer time on 2025-03-09. *)
MCBehind(d) == IF d < DayNumber(20250309) THEN 300 ELSE 240

Friday == DayNumber(20250307)
Monday10 == DayNumber(20250310)
Tuesday == DayNumber(20250311)
Both(k) == {[strike |-> Int2F(k), flag |-> f] : f \in {"c", "p"}}
MCChain ==
  (<<1, Friday>> :> {[strike |-> Int2F(4), flag |-> "c"]})
    @@ (<<2, Friday>> :> Both(4) \cup Both(8)) @@ (<<1, Monday10>> :> Both(4))

(* Conditions, triggers, hedges. *)
MaxMove(pct) == [type |-> "max_underlying_move", pct |-> pct]
MinPremium(x) == [type |-> "min_premium", points |-> Int2F(x)]
MaxSpread == [type |-> "max_spread", pct |-> Frac(1, 8), ticks |-> One]
Quotes2 == [type |-> "min_quote_size", size |-> 2]
Pnl(unit, amount) == [type |-> "pnl", unit |-> unit, amount |-> Int2F(amount), direction |-> "either"]
Sigma(x) == [type |-> "sigma_move", unit |-> None, amount |-> Int2F(x)]
DeltaOf(x) == [type |-> "net_delta", unit |-> None, amount |-> x]
NoHedge == [enabled |-> FALSE, mode |-> "zero", ratio |-> One, band |-> None, interval |-> None,
            sigma |-> None, conds |-> <<>>]
EachMinute == [NoHedge EXCEPT !.enabled = TRUE, !.mode = "ratio", !.interval = 1]
OnBand == [NoHedge EXCEPT !.enabled = TRUE, !.mode = "band_edge", !.band = Frac(1, 4), !.sigma = One,
           !.conds = <<[type |-> "min_rehedge_delta", threshold |-> Frac(1, 8)]>>]

At(time, tol, conds, triggers) ==
  [at |-> time, tol |-> tol, conds |-> conds, triggers |-> triggers]
Request(kind, from, to, entry, exit, hedge) ==
  [kind |-> kind, start |-> from, end |-> to, side |-> "long", mode |-> "0DTE", dte |-> 0,
   entry |-> entry, exit |-> exit, hedge |-> hedge, custom |-> <<>>]
Custom(d, exclude, entry, exit) ==
  [date |-> d, exclude |-> exclude, entry |-> entry, exit |-> exit]

Paid == Request("paid", Friday, Friday, At(570, 1, <<>>, <<>>),
                At(574, 1, <<>>, <<Pnl("points", 2)>>), EachMinute)
Wide == [Request("wide", Friday, Friday, At(570, 2, <<MaxMove(Frac(1, 2)), MaxSpread>>, <<>>),
                 At(572, 2, <<MinPremium(2)>>, <<Pnl("usd", 100)>>), EachMinute)
           EXCEPT !.side = "short"]
Volatile == Request("volatile", Friday, Friday, At(571, 1, <<Quotes2>>, <<>>),
                    At(574, 1, <<>>, <<Sigma(3), DeltaOf(One)>>), OnBand)
Several == [Request("days", Friday, Tuesday + 1, At(570, 0, <<>>, <<>>),
                    At(571, 0, <<>>, <<>>), NoHedge)
  EXCEPT !.custom = <<Custom(Tuesday + 1, TRUE, None, None),
    Custom(Monday10, FALSE, None, [at |-> 572, tol |-> None, conds |-> None,
                                   triggers |-> <<Pnl("points", 1)>>])>>]
Badly == [Paid EXCEPT !.kind = "badly", !.entry.triggers = <<DeltaOf(One)>>]
Backwards == [Paid EXCEPT !.kind = "badly", !.exit.at = 570]
MCRequests == {Paid, Wide, Volatile, Several, Badly, Backwards}
MCMinutes(plan) == (plan.exit.at - plan.entry.at)
                     + (IF plan.exit.tol = 0 THEN 1 ELSE 2)

(* The rows: a last trade, a two-sided quote, or nothing. *)
Trade(x) == [close |-> Int2F(x), quote |-> None]
TwoSided(x, spread, size) ==
  [close |-> None, quote |-> [mid |-> Int2F(x), spread |-> Frac(spread, 2), size |-> size]]
Nothing == [close |-> None, quote |-> None]
Minute3(plan, n, es, c, p) == [ts |-> Min({plan.entry.at, Utc(plan.day, 570)}) + n,
                               es |-> es, c |-> c, p |-> p]
MCRow(req, plan, n) ==
  CASE req.kind = "paid" ->
         {Minute3(plan, n, Trade(r[1]), Trade(r[2]), Trade(r[3])) :
            r \in {<<4, 2, 2>>, <<6, 4, 2>>, <<8, 5, 1>>}}
         \cup {Minute3(plan, n, Nothing, Trade(1), Nothing),
               Minute3(plan, n, Trade(2), Nothing, Trade(4))}
    [] req.kind = "wide" ->
         {Minute3(plan, n, Trade(r[1]), TwoSided(r[2], r[3], 1), TwoSided(r[4], 1, 1)) :
            r \in {<<4, 4, 1, 4>>, <<5, 4, 2, 4>>, <<8, 2, 2, 8>>, <<7, 8, 1, 1>>}}
         \cup {Minute3(plan, n, Nothing, TwoSided(5, 1, 1), Nothing),
               Minute3(plan, n, Trade(5), Nothing, TwoSided(4, 1, 2))}
    [] req.kind = "volatile" ->
         {Minute3(plan, n, Trade(r[1]), TwoSided(r[2], 1, r[3]), TwoSided(r[4], 1, 2)) :
            r \in {<<4, 2, 2, 2>>, <<6, 4, 1, 2>>, <<8, 5, 2, 4>>}}
         \cup {Minute3(plan, n, Trade(3), Nothing, TwoSided(4, 1, 2))}
    [] req.kind = "days" ->
         {Minute3(plan, n, Trade(r[1]), Trade(r[2]), Trade(2)) : r \in {<<4, 2>>, <<6, 4>>, <<4, 1>>}}
         \cup {Minute3(plan, n, Nothing, Nothing, Nothing)}
=============================================================================
