----------------------------- MODULE StraddleDay -----------------------------
(***************************************************************************)
(* One trading day of the intraday straddle backtest                       *)
(* (tcg/engine/intraday_backtest.py, simulate_day): a call and a put of    *)
(* one strike, each bought or sold at its own first acceptable minute,     *)
(* hedged with the future while both are on, and closed at the exit time   *)
(* or as soon as a trigger fires.                                          *)
(*                                                                         *)
(* Times are minutes.  A bar is [ts, price, quote]; quote is the spread    *)
(* and the smaller size of a two-sided quote, or None.  The pricing kernel *)
(* (py_vollib behind BS76Kernel) is a parameter.                           *)
(***************************************************************************)
EXTENDS Floats, FiniteSets, FiniteSetsExt, SequencesExt

CONSTANTS
  ImpliedVol(_, _, _, _, _),  \* mark, forward, strike, minutes left, flag; None if it fails
  KernelDelta(_, _, _, _, _), \* forward, strike, minutes left, sigma, flag
  RootTime(_)                 \* the square root of minutes left, in years

ASSUME PlainKernel ==
  /\ KernelDelta(One, One, 1, One, "c") \in Int \X Nat
  /\ RootTime(1) \in Int \X Nat

(***************************************************************************)
(* Bars.                                                                   *)
(***************************************************************************)
(* The reader's marks: a two-sided quote wins over the last trade.         *)
Mark(ts, row) ==
  CASE row.quote # None -> [ts |-> ts, price |-> row.quote.mid, quote |-> row.quote]
    [] row.quote = None /\ row.close # None /\ Positive(row.close) ->
         [ts |-> ts, price |-> row.close, quote |-> None]
    [] OTHER -> None

(* snap_nearest: the earlier of two that are equally near; tol None for any. *)
Nearest(bars, ts, tol) ==
  LET Gap(i) == Abs(bars[i].ts - ts)
      best == CHOOSE i \in DOMAIN bars :
                \A j \in DOMAIN bars : Gap(i) < Gap(j) \/ (Gap(i) = Gap(j) /\ i <= j)
  IN IF bars = <<>> \/ (tol # None /\ Gap(best) > tol) THEN None ELSE bars[best]

LastKnownAhead(bars, ts) == Nearest(bars, ts, None)  \* a mutant: the next bar if it is nearer
LastKnown(bars, ts) ==
  LET known == {i \in DOMAIN bars : bars[i].ts <= ts}
  IN IF known = {} THEN None ELSE bars[Max(known)]
PriceOr(bar, x) == IF bar = None THEN x ELSE bar.price

(* The future at a time: what was known, else the first bar there is. *)
FutureAt(es, ts) ==
  IF LastKnown(es, ts) # None THEN LastKnown(es, ts) ELSE Nearest(es, ts, None)

MinutesLeft(day, ts) == Max({day.expiry - ts, 1})

(***************************************************************************)
(* Entry and exit conditions, all of which must hold; of several on the    *)
(* move of the underlying only the first counts.                           *)
(***************************************************************************)
OptionTick(price) == IF Leq(price, Int2F(5)) THEN Frac(1, 20) ELSE Frac(1, 4)
FutureTick == Frac(1, 4)

(* c.pct is a fraction here. *)
Tight(c, bar, tick) ==
  /\ bar.quote # None
  /\ Leq(bar.quote.spread, MaxF(Mul(c.pct, bar.price), Mul(c.ticks, tick)))
Deep(c, bar) == bar.quote # None /\ bar.quote.size # None /\ bar.quote.size >= c.size

LegAccepts(c, bar) ==
  CASE c.type = "max_spread" -> Tight(c, bar, OptionTick(bar.price))
    [] c.type = "min_quote_size" -> Deep(c, bar)
    [] c.type = "min_premium" -> Leq(c.points, bar.price)
    [] c.type = "max_underlying_move" -> TRUE
MoveConds(conds) == SelectSeq(conds, LAMBDA c : c.type = "max_underlying_move")
MoveAccepted(conds, es, open, ts) ==
  LET bar == LastKnown(es, ts)
  IN \/ MoveConds(conds) = <<>>
     \/ /\ bar # None /\ open # None /\ open # Zero
        /\ Leq(Div(AbsF(Sub(bar.price, open)), AbsF(open)), MoveConds(conds)[1].pct)
Qualifies(bar, conds, es, open) ==
  /\ \A i \in DOMAIN conds : LegAccepts(conds[i], bar)
  /\ MoveAccepted(conds, es, open, bar.ts)

(* The open the move is measured from. *)
Reference(day) == IF day.open # None THEN day.open ELSE PriceOr(Head(day.es \o <<None>>), None)

Between(bars, from, tol) == SelectSeq(bars, LAMBDA b : from <= b.ts /\ b.ts <= from + tol)
Acceptable(day, marks, from, tol, conds) ==
  SelectSeq(Between(marks, from, tol), LAMBDA b : Qualifies(b, conds, day.es, Reference(day)))

(* scan_leg_entry: a bar, or why there is none. *)
EntryOf(day, marks) ==
  LET fit == Acceptable(day, marks, day.entry.at, day.entry.tol, day.entry.conds)
  IN IF fit # <<>> THEN [bar |-> Head(fit), why |-> None]
     ELSE [bar |-> None,
           why |-> IF Between(marks, day.entry.at, day.entry.tol) = <<>>
                   THEN "no_quote_within_tolerance" ELSE "entry_conditions_unmet"]

(* scan_leg_exit: a position must close, if need be on the nearest bar. *)
ExitOf(day, marks) ==
  LET fit == Acceptable(day, marks, day.exit.at, day.exit.tol, day.exit.conds)
  IN IF fit # <<>> THEN [bar |-> Head(fit), met |-> TRUE]
     ELSE [bar |-> Nearest(marks, day.exit.at, None), met |-> FALSE]

(* A triggered exit looks at no condition. *)
TriggeredExitFirst(day, marks, ts) ==                \* a mutant: the first bar of the window
  LET near == Between(marks, ts - day.exit.tol, 2 * day.exit.tol)
  IN [bar |-> IF near # <<>> THEN Head(near) ELSE Nearest(marks, ts, None), met |-> near # <<>>]
TriggeredExit(day, marks, ts) ==
  LET near == Nearest(marks, ts, day.exit.tol)
  IN IF near # None THEN [bar |-> near, met |-> TRUE]
     ELSE [bar |-> Nearest(marks, ts, None), met |-> FALSE]

(***************************************************************************)
(* Greeks.                                                                 *)
(***************************************************************************)
UsableVol(sigma) == sigma # None /\ IsFinite(sigma) /\ Positive(sigma)
FallbackIv == Frac(1, 5)

LegDelta(day, forward, ts, mark, flag, fallback) ==
  LET left == MinutesLeft(day, ts)
      own == ImpliedVol(mark, forward, day.strike, left, flag)
      At(sigma) == KernelDelta(forward, day.strike, left, sigma, flag)
      other == IF UsableVol(fallback) THEN fallback ELSE FallbackIv
  IN IF UsableVol(own) /\ IsFinite(At(own)) THEN At(own) ELSE FiniteOr0(At(other))

Side(day) == IF day.side = "long" THEN One ELSE Int2F(-1)
NetDelta(day, forward, ts, call, put, iv) ==
  Mul(Side(day), Add(LegDelta(day, forward, ts, call, "c", iv),
                     LegDelta(day, forward, ts, put, "p", iv)))

(* entry_atm_iv: the mean of the vols that can be had. *)
EntryVol(day, forward, ts, call, put) ==
  LET vol == [f \in {"c", "p"} |->
                ImpliedVol(IF f = "c" THEN call ELSE put, forward, day.strike,
                           MinutesLeft(day, ts), f)]
      good == SelectSeq(<<vol["c"], vol["p"]>>, UsableVol)
  IN IF good = <<>> THEN None
     ELSE Div(SumOver(good, LAMBDA x : x), Int2F(Len(good)))

(***************************************************************************)
(* The hedge. The book is the quantity held and where it was last set.     *)
(***************************************************************************)
TargetQuantity(h, delta) ==
  CASE h.mode = "ratio" -> Neg(Mul(h.ratio, delta))
    [] h.mode = "band_edge" ->
         LET band == IF h.band = None THEN Zero ELSE h.band
         IN Add(Neg(delta), IF Negative(delta) THEN Neg(band) ELSE band)
    [] h.mode = "zero" -> Neg(delta)

Considered(h, book, ts, es, delta, sigma) ==
  \/ h.interval # None /\ h.interval # 0 /\ ts - book.ts >= h.interval
  \/ h.band # None /\ Leq(h.band, AbsF(Sub(delta, book.delta)))
  \/ /\ h.sigma # None /\ sigma # None /\ Positive(sigma)
     /\ Leq(Mul(h.sigma, sigma), AbsF(Sub(es, book.es)))

HedgeAccepts(c, bar, change) ==
  CASE c.type = "max_spread" -> Tight(c, bar, FutureTick)
    [] c.type = "min_quote_size" -> Deep(c, bar)
    [] c.type = "min_rehedge_delta" -> Leq(c.threshold, AbsF(change))

Flat(ts, es) == [qty |-> Zero, ts |-> ts, delta |-> Zero, es |-> es]
Rehedges(day, book, bar, delta, first, endpoint, iv) ==
  LET h == day.hedge
      sigma == IF iv = None THEN None
               ELSE Mul(Mul(book.es, iv), RootTime(MinutesLeft(day, bar.ts)))
      change == Sub(TargetQuantity(h, delta), book.qty)
  IN \/ first
     \/ /\ bar.ts < endpoint
        /\ Considered(h, book, bar.ts, bar.price, delta, sigma)
        /\ \A i \in DOMAIN h.conds : HedgeAccepts(h.conds[i], bar, change)
Rehedged(day, book, bar, delta, first, endpoint, iv) ==
  IF Rehedges(day, book, bar, delta, first, endpoint, iv)
  THEN [qty |-> TargetQuantity(day.hedge, delta), ts |-> bar.ts, delta |-> delta,
        es |-> bar.price]
  ELSE book

(* What the future does from one time to another. *)
Path(es, on, off, onPrice, offPrice) ==
  <<[ts |-> on, price |-> onPrice, quote |-> None]>>
    \o SelectSeq(es, LAMBDA b : on < b.ts /\ b.ts < off)
    \o <<[ts |-> off, price |-> offPrice, quote |-> None]>>
DeltaAt(day, in, bar, iv) ==
  NetDelta(day, bar.price, bar.ts, PriceOr(LastKnown(day.calls, bar.ts), in.call),
           PriceOr(LastKnown(day.puts, bar.ts), in.put), iv)
Move(path, i) == Sub(path[i + 1].price, path[i].price)

(***************************************************************************)
(* Early exit. in is the straddle as entered: on, es, call, put.           *)
(***************************************************************************)
Fires(trig, in, es, delta, pnl, sigma, multiplier) ==
  LET move == AbsF(Sub(es, in.es))
      paid == Add(in.call, in.put)
  IN CASE trig.type = "underlying_move" ->
            IF trig.unit = "points"
            THEN IF Leq(trig.amount, move) THEN move ELSE None
            ELSE IF Leq(Mul(Div(trig.amount, Int2F(100)), in.es), move)
                 THEN Mul(Div(move, in.es), Int2F(100)) ELSE None
       [] trig.type = "sigma_move" ->
            IF sigma # None /\ Positive(sigma) /\ Leq(Mul(trig.amount, sigma), move)
            THEN Div(move, sigma) ELSE None
       [] trig.type = "net_delta" -> IF Leq(trig.amount, AbsF(delta)) THEN AbsF(delta) ELSE None
       [] trig.type = "pnl" ->
            LET p == CASE trig.unit = "points" -> pnl
                       [] trig.unit = "percent" ->
                            IF paid = Zero THEN Zero ELSE Mul(Div(pnl, paid), Int2F(100))
                       [] trig.unit = "usd" -> Mul(pnl, multiplier)
                profit == Leq(trig.amount, p)
                loss == Leq(p, Neg(trig.amount))
            IN IF \/ trig.direction # "loss" /\ profit
                  \/ trig.direction # "profit" /\ loss
               THEN p ELSE None

OptionGain(day, in, ts) ==
  Mul(Side(day), Sub(Add(PriceOr(LastKnown(day.calls, ts), in.call),
                         PriceOr(LastKnown(day.puts, ts), in.put)),
                     Add(in.call, in.put)))

(* The hedge as it would stand at each bar of the way to the exit time: the *)
(* book after bar i, and what it has earned on reaching bar i.              *)
PreviewStale(day, in, path, iv) ==                   \* a mutant: earns on the old quantity
  LET B[i \in 1..Len(path)] ==
        LET was == IF i = 1 THEN [book |-> Flat(in.on, in.es), old |-> Zero, earned |-> Zero]
                   ELSE B[i - 1]
        IN [book |-> IF day.hedge.enabled
                     THEN Rehedged(day, was.book, path[i], DeltaAt(day, in, path[i], iv),
                                   i = 1, day.exit.at, iv)
                     ELSE was.book,
            old |-> was.book.qty,
            earned |-> IF i = 1 THEN Zero
                       ELSE Add(was.earned, Mul(was.old, Move(path, i - 1)))]
  IN B
Preview(day, in, path, iv) ==
  LET B[i \in 1..Len(path)] ==
        LET was == IF i = 1 THEN [book |-> Flat(in.on, in.es), earned |-> Zero] ELSE B[i - 1]
        IN [book |-> IF day.hedge.enabled
                     THEN Rehedged(day, was.book, path[i], DeltaAt(day, in, path[i], iv),
                                   i = 1, day.exit.at, iv)
                     ELSE was.book,
            earned |-> IF i = 1 THEN Zero
                       ELSE Add(was.earned, Mul(was.book.qty, Move(path, i - 1)))]
  IN B

(* find_trigger_fire: the first bar, and at it the first trigger, that fires. *)
Fire(day, path, value, f) ==
  [type |-> day.triggers[f[2]].type, ts |-> path[f[1]].ts, value |-> value[f]]
FirstFire(day, path, value) ==
  LET fired == {f \in DOMAIN value : value[f] # None}
  IN IF fired = {} THEN None
     ELSE Fire(day, path, value, CHOOSE f \in fired : \A g \in fired :
                                   f[1] < g[1] \/ (f[1] = g[1] /\ f[2] <= g[2]))
FireAlong(day, in, iv, path, way) ==
  FirstFire(day, path, [f \in (2..Len(path)) \X (1..Len(day.triggers)) |->
    Fires(day.triggers[f[2]], in, path[f[1]].price, DeltaAt(day, in, path[f[1]], iv),
          Add(OptionGain(day, in, path[f[1]].ts), way[f[1]].earned),
          IF iv = None THEN None
          ELSE Mul(Mul(in.es, iv), RootTime(MinutesLeft(day, path[f[1]].ts))),
          day.multiplier)])
FireAt(day, in, iv) ==
  LET end == FutureAt(day.es, day.exit.at)
      path == Path(day.es, in.on, day.exit.at, in.es, PriceOr(end, in.es))
  IN IF ~Positive(in.es) THEN None
     ELSE FireAlong(day, in, iv, path, Preview(day, in, path, iv))

(***************************************************************************)
(* The hedge that is paid for: over the time both legs are on.             *)
(***************************************************************************)
HedgeRunLate(day, in, off, offPrice, iv) ==           \* a mutant: re-hedges, then earns
  LET path == Path(day.es, in.on, off, in.es, offPrice)
      B[i \in 1..Len(path)] ==
        LET was == IF i = 1 THEN [book |-> Flat(in.on, in.es), trades |-> <<>>, earned |-> Zero]
                   ELSE B[i - 1]
            delta == DeltaAt(day, in, path[i], iv)
            book == Rehedged(day, was.book, path[i], delta, i = 1, off, iv)
        IN [book |-> book,
            trades |-> IF Rehedges(day, was.book, path[i], delta, i = 1, off, iv)
                       THEN Append(was.trades, [ts |-> path[i].ts, es |-> path[i].price,
                                                delta |-> delta, qty |-> book.qty])
                       ELSE was.trades,
            earned |-> IF i = 1 THEN was.earned
                       ELSE Add(was.earned, Mul(book.qty, Move(path, i - 1)))]
  IN B[Len(path)]
HedgeRun(day, in, off, offPrice, iv) ==
  LET path == Path(day.es, in.on, off, in.es, offPrice)
      B[i \in 1..Len(path)] ==
        LET was == IF i = 1 THEN [book |-> Flat(in.on, in.es), trades |-> <<>>, earned |-> Zero]
                   ELSE B[i - 1]
            delta == DeltaAt(day, in, path[i], iv)
            book == Rehedged(day, was.book, path[i], delta, i = 1, off, iv)
        IN [book |-> book,
            trades |-> IF Rehedges(day, was.book, path[i], delta, i = 1, off, iv)
                       THEN Append(was.trades, [ts |-> path[i].ts, es |-> path[i].price,
                                                delta |-> delta, qty |-> book.qty])
                       ELSE was.trades,
            earned |-> IF i = Len(path) THEN was.earned
                       ELSE Add(was.earned, Mul(book.qty, Move(path, i)))]
  IN B[Len(path)]

(***************************************************************************)
(* simulate_day.                                                           *)
(***************************************************************************)
Skipped(why) == [status |-> "skipped", why |-> why]
Entered(day) == [c |-> EntryOf(day, day.calls), p |-> EntryOf(day, day.puts)]
WhyNotEntered(entry) ==
  LET whys == {entry["c"].why, entry["p"].why} \ {None}
  IN CASE whys = {} -> None
       [] "no_quote_within_tolerance" \in whys -> "no_quote_within_tolerance"
       [] OTHER -> "entry_conditions_unmet"

(* The straddle is on while both legs are. *)
Booked(day, in, fired, exit, last, hedge) ==
  LET Gain(leg) == Mul(Side(day), Sub(exit[leg].bar.price, in.entry[leg].bar.price))
      option == Add(Gain("c"), Gain("p"))
  IN [status |-> "ok", why |-> None, entry |-> in.entry, exit |-> exit, on |-> in.on,
      off |-> Min({exit["c"].bar.ts, exit["p"].bar.ts}),
      future |-> <<in.es, PriceOr(last, NaN)>>, fired |-> fired,
      trades |-> hedge.trades, option |-> option, hedge |-> hedge.earned,
      points |-> Add(option, hedge.earned), usd |-> Mul(Add(option, hedge.earned), day.multiplier)]
Hedged(day, in, iv, off, last) ==
  IF day.hedge.enabled /\ off > in.on /\ in.start # None /\ last # None
  THEN HedgeRun(day, in, off, last.price, iv)
  ELSE [trades |-> <<>>, earned |-> Zero]
Settled(day, in, iv, fired, exit) ==
  LET off == Min({exit["c"].bar.ts, exit["p"].bar.ts})
      last == FutureAt(day.es, off)
  IN Booked(day, in, fired, exit, last, Hedged(day, in, iv, off, last))
Left(day, in, iv, fired) ==
  LET Out(marks) == IF fired # None THEN TriggeredExit(day, marks, fired.ts)
                    ELSE ExitOf(day, marks)
  IN Settled(day, in, iv, fired, [c |-> Out(day.calls), p |-> Out(day.puts)])
Watched(day, in, iv) ==
  Left(day, in, iv, IF day.triggers # <<>> /\ in.start # None /\ in.on < day.exit.at
                    THEN FireAt(day, in, iv) ELSE None)
Held(day, entry) ==
  LET on == Max({entry["c"].bar.ts, entry["p"].bar.ts})
      start == FutureAt(day.es, on)
      in == [on |-> on, start |-> start, es |-> PriceOr(start, NaN), entry |-> entry,
             call |-> entry["c"].bar.price, put |-> entry["p"].bar.price]
      wanted == day.triggers # <<>> \/ (day.hedge.enabled /\ day.hedge.sigma # None)
  IN Watched(day, in, IF wanted /\ start # None
                      THEN EntryVol(day, in.es, on, in.call, in.put) ELSE None)

Simulated(day) ==
  LET why == WhyNotEntered(Entered(day))
  IN IF why # None THEN Skipped(why) ELSE Held(day, Entered(day))
=============================================================================
