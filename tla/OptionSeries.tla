---------------------------- MODULE OptionSeries ----------------------------
(***************************************************************************)
(* The series of an option leg (tcg/engine/options/series) over the chains *)
(* the warehouse has (tcg/data/_sql/options.py): each day the contract     *)
(* that the rules of the leg pick, or one contract held from roll to roll. *)
(*                                                                         *)
(* A book is [inst, dates, row, spot]: the instruments by number, each     *)
(* [symbol, cycle, type, expiration, strike], the days asked for, and at   *)
(* each the rows [priced, graded, mid, close, delta] of the instruments    *)
(* that have one (a price, greeks) and the underlying's price, or None. A  *)
(* symbol may be listed under two cycles. A leg is [type, cycles,          *)
(* maturity, selection, offset, stream]. Days are positions in dates; the  *)
(* rows of a day are a sequence of instrument numbers. down says which     *)
(* queries fail, [multi, held, single]: those of several expirations, of   *)
(* held contracts, of the expirations in single. A day for which there is  *)
(* nothing has the contract None or the value NaN; the code that says why  *)
(* is not modelled.                                                        *)
(***************************************************************************)
EXTENDS ContinuousRolling

CONSTANTS
  BusinessDay(_),      \* of the CME calendar
  PushdownK,           \* how many symbols of an expiration a delta query returns
  MaxExpsPerSubchunk   \* expirations of one query
ASSUME OptionQueries ==
  /\ BusinessDay(20240116) \in BOOLEAN
  /\ PushdownK \in Nat \ {0} /\ MaxExpsPerSubchunk \in Nat \ {0}

Once(f) == f @@ <<>>   \* f itself, worked out where it is made
AllUp == [multi |-> FALSE, held |-> FALSE, single |-> {}]

(***************************************************************************)
(* Maturity rules (maturity/resolver.py). Months are counted from year 0.  *)
(***************************************************************************)
MonthOf(d) == 12 * Year(d) + Month(d) - 1
FirstOf(m) == 10000 * (m \div 12) + 100 * (m % 12) + 101
DaysAfter(d, n) == DateOf(DayNumber(d) + n)
PlusMonths(d, n) ==
  Min({FirstOf(MonthOf(d) + n) + DayOf(d) - 1, DaysBefore(FirstOf(MonthOf(d) + n + 1), 1)})
ThirdFriday(m) == DaysAfter(FirstOf(m), 14 + ((4 - Weekday(FirstOf(m))) % 7))
LastOf(m) == LastTradingDay(m \div 12, (m % 12) + 1)

BusinessOnOrBefore(d) ==
  LET near == {n \in 1..30 : BusinessDay(DaysBefore(d, n))}
  IN IF BusinessDay(d) \/ near = {} THEN d ELSE DaysBefore(d, Min(near))
After(ref, friday, next) == IF friday <= ref THEN next ELSE friday
NextThirdFriday(ref, m) == BusinessOnOrBefore(After(ref, ThirdFriday(m), ThirdFriday(m + 1)))

Resolved(rule, ref) ==
  CASE rule.kind = "next_third_friday" -> NextThirdFriday(ref, MonthOf(ref) + rule.n)
    [] rule.kind = "end_of_month" -> LastOf(MonthOf(ref) + rule.n)
    [] rule.kind = "plus_n_days" -> DaysAfter(ref, rule.n)
    [] rule.kind = "fixed" -> rule.n
Shifted(d, offset) ==
  IF offset.unit = "months" THEN PlusMonths(d, offset.value) ELSE DaysAfter(d, offset.value)

(* The listed expiration that is nearest, the earlier of two.              *)
Apart(a, b) == Abs(DayNumber(a) - DayNumber(b))
Closest(listed, target) ==
  CHOOSE e \in listed : \A f \in listed :
    Apart(e, target) < Apart(f, target) \/ (Apart(e, target) = Apart(f, target) /\ e <= f)

(***************************************************************************)
(* What is listed: at all, and with a price on a day.                      *)
(***************************************************************************)
Matching(book, leg) ==
  {k \in DOMAIN book.inst : /\ book.inst[k].type = leg.type
                            /\ leg.cycles = {} \/ book.inst[k].cycle \in leg.cycles}
OnDay(book, leg, i) == Matching(book, leg) \cap DOMAIN book.row[i]
ListedAll(book, leg) == {book.inst[k].expiration : k \in Matching(book, leg)}
LatestAround(book, dte) == DaysAfter(Last(book.dates), Max({3 * dte, 180}))
ListedOn(book, leg, i) ==
  {e \in {book.inst[k].expiration : k \in {j \in OnDay(book, leg, i) : book.row[i][j].priced}} :
     Head(book.dates) <= e /\ e <= LatestAround(book, leg.maturity.n)}

(* A day that lists nothing falls back to all there is around the range.   *)
Around(book, dte, listed) ==
  {e \in listed : /\ DaysBefore(Head(book.dates), Max({dte, 7})) <= e
                  /\ e <= LatestAround(book, dte)}
NearestOf(pool, target) == IF pool = {} THEN None ELSE Closest(pool, target)
NearestToTarget(book, leg, i) ==
  NearestOf(Preferred(Around(book, leg.maturity.n, ListedOn(book, leg, i)),
                      Preferred(ListedOn(book, leg, i),
                                Around(book, leg.maturity.n, ListedAll(book, leg)))),
            DaysAfter(Shifted(book.dates[i], leg.offset), leg.maturity.n))

(* Arithmetic rules give a date; the nearest listed one is taken.          *)
Snapped(listed, target) == IF listed = {} THEN target ELSE Closest(listed, target)
Arithmetic(book, leg, i) ==
  Snapped(ListedAll(book, leg), Resolved(leg.maturity, Shifted(book.dates[i], leg.offset)))

(* At month ends only: on the first day, and then on the last trading day  *)
(* of a month other than that of the last roll.                            *)
RolledAt(book, leg, i) == [exp |-> Arithmetic(book, leg, i), month |-> MonthOf(book.dates[i])]
MonthEndStep(book, leg, last, i) ==
  IF book.dates[i] >= LastOf(MonthOf(book.dates[i])) /\ MonthOf(book.dates[i]) # last.month
  THEN RolledAt(book, leg, i) ELSE last
HeldToMonthEnd(book, leg) ==
  LET M[i \in DOMAIN book.dates] ==
        IF i = 1 THEN RolledAt(book, leg, 1) ELSE MonthEndStep(book, leg, M[i - 1], i)
  IN [i \in DOMAIN book.dates |-> M[i].exp]
Maturities(book, leg) ==
  Once(CASE leg.maturity.kind = "nearest_to_target" ->
              [i \in DOMAIN book.dates |-> NearestToTarget(book, leg, i)]
         [] leg.maturity.kind = "end_of_month" -> HeldToMonthEnd(book, leg)
         [] OTHER -> [i \in DOMAIN book.dates |-> Arithmetic(book, leg, i)])

(***************************************************************************)
(* The queries. query_chain_bulk: one expiration, on the days of a group,  *)
(* within the strikes that the first of these days suggests.               *)
(***************************************************************************)
OfExpiration(book, leg, e, i) == {k \in OnDay(book, leg, i) : book.inst[k].expiration = e}
InOrder(S) == SelectSeq([k \in 1..Max(S \cup {0}) |-> k], LAMBDA k : k \in S)

Within(lo, x, hi) == Leq(lo, x) /\ Leq(x, hi)
InBand(leg, spot, strike) ==
  LET s == leg.selection
  IN CASE s.kind = "strike" -> strike = s.target
       [] s.kind # "strike" /\ (spot = None \/ ~Positive(spot)) -> TRUE
       [] s.kind = "moneyness" /\ spot # None /\ Positive(spot) ->
            Within(Mul(spot, MaxF(Sub(Sub(s.target, s.tolerance), Frac(1, 10)), Frac(1, 100))),
                   strike, Mul(spot, Add(Add(s.target, s.tolerance), Frac(1, 10))))
       [] OTHER -> IF leg.type = "P" THEN Within(Mul(spot, Frac(4, 10)), strike, Mul(spot, Frac(13, 10)))
                   ELSE Within(Mul(spot, Frac(7, 10)), strike, Mul(spot, Frac(16, 10)))
SpotFor(book, leg, e, i) == IF OfExpiration(book, leg, e, i) = {} THEN None ELSE book.spot[i]
SingleFetch(book, leg, e, group) ==
  [i \in group |->
     InOrder({k \in OfExpiration(book, leg, e, i) :
                InBand(leg, SpotFor(book, leg, e, Min(group)), book.inst[k].strike)})]

(* query_chain_bulk_multi: several expirations at once, each on all days   *)
(* of the chunk that lie between the first and the last of its own. For a  *)
(* delta only the best symbols of an expiration and a day, by their greeks *)
(* rows; the full chain if the one after them ties with the first.         *)
Dist(book, leg, k, i) ==
  IF book.row[i][k].delta = None THEN Inf ELSE AbsF(Sub(book.row[i][k].delta, leg.selection.target))
Graded(book, leg, e, i) == {k \in OfExpiration(book, leg, e, i) : book.row[i][k].graded}
RankedBefore(book, leg, i, j, k) ==
  \/ Less(Dist(book, leg, j, i), Dist(book, leg, k, i))
  \/ /\ Dist(book, leg, j, i) = Dist(book, leg, k, i)
     /\ \/ Less(book.inst[j].strike, book.inst[k].strike)
        \/ /\ book.inst[j].strike = book.inst[k].strike
           /\ book.inst[j].symbol < book.inst[k].symbol
BestRow(book, leg, i, rows) ==
  CHOOSE j \in rows : \A k \in rows : ~RankedBefore(book, leg, i, k, j)
BestRows(book, leg, i, rows) ==          \* of each symbol
  {BestRow(book, leg, i, {j \in rows : book.inst[j].symbol = book.inst[k].symbol}) : k \in rows}
Ranked(book, leg, e, i) ==
  SetToSortSeq(BestRows(book, leg, i, Graded(book, leg, e, i)),
               LAMBDA j, k : RankedBefore(book, leg, i, j, k))
TiesBeyond(book, leg, i, ranked) ==
  LET n == PushdownK + 1
  IN /\ Len(ranked) >= n
     /\ Dist(book, leg, ranked[1], i) = Dist(book, leg, ranked[n], i)
     /\ IsFinite(Dist(book, leg, ranked[1], i))
     /\ book.inst[ranked[1]].strike = book.inst[ranked[n]].strike
TopSymbols(book, ranked) ==
  {book.inst[ranked[n]].symbol : n \in 1..Min({Len(ranked), PushdownK})}

Spans(groups, e, i) == Min(groups[e]) <= i /\ i <= Max(groups[e])
DaysIn(groups) == UNION {groups[e] : e \in DOMAIN groups}
InChunk(book, leg, groups, i) ==
  {k \in OnDay(book, leg, i) : /\ book.inst[k].expiration \in DOMAIN groups
                               /\ Spans(groups, book.inst[k].expiration, i)}
FullChunk(book, leg, groups) ==
  [i \in DaysIn(groups) |-> InOrder(InChunk(book, leg, groups, i))]
TopChunk(book, leg, groups) ==
  [i \in DaysIn(groups) |->
     InOrder({k \in InChunk(book, leg, groups, i) :
                book.inst[k].symbol \in
                  TopSymbols(book, Ranked(book, leg, book.inst[k].expiration, i))})]
Overflows(book, leg, groups) ==
  \E e \in DOMAIN groups : \E i \in DaysIn(groups) :
    Spans(groups, e, i) /\ TiesBeyond(book, leg, i, Ranked(book, leg, e, i))
ChunkFetch(book, leg, groups) ==
  IF leg.selection.kind = "delta" /\ ~Overflows(book, leg, groups)
  THEN Once(TopChunk(book, leg, groups)) ELSE Once(FullChunk(book, leg, groups))

(* A chunk has the expirations of a year, or, for the full chains, some of *)
(* them; when its query fails every expiration is fetched on its own, and  *)
(* one for which that fails too covers no day.                             *)
Place(E, e) == Cardinality({f \in E : Year(f) = Year(e) /\ f < e})
ChunkOf(leg, E, e) ==
  {f \in E : /\ Year(f) = Year(e)
             /\ \/ leg.selection.kind = "delta"
                \/ Place(E, f) \div MaxExpsPerSubchunk = Place(E, e) \div MaxExpsPerSubchunk}
Chunks(leg, E) == SetToSortSeq({ChunkOf(leg, E, e) : e \in E}, LAMBDA a, b : Min(a) < Min(b))
ByDate(S) == SetToSortSeq(S, <)
FetchAlone(book, leg, e, group, down) ==
  IF e \in down.single THEN <<>> ELSE Once(SingleFetch(book, leg, e, group))
Parts(book, leg, groups, chunk, down) ==
  IF ~down.multi THEN <<ChunkFetch(book, leg, Once([e \in chunk |-> groups[e]]))>>
  ELSE [n \in DOMAIN ByDate(chunk) |->
          FetchAlone(book, leg, ByDate(chunk)[n], groups[ByDate(chunk)[n]], down)]
Merged(parts) ==
  [i \in UNION {DOMAIN parts[p] : p \in DOMAIN parts} |->
     FlattenSeq([p \in DOMAIN parts |-> IF i \in DOMAIN parts[p] THEN parts[p][i] ELSE <<>>])]
Chains(book, leg, groups, down) ==
  Once(Merged(FlattenSeq([c \in DOMAIN Chunks(leg, DOMAIN groups) |->
                            Parts(book, leg, groups, Chunks(leg, DOMAIN groups)[c], down)])))

(***************************************************************************)
(* The pick of a day (selection/_match.py), of rows in order, or None.     *)
(***************************************************************************)
FirstBest(book, rows, score) ==
  rows[CHOOSE n \in DOMAIN rows : \A m \in DOMAIN rows :
         \/ Less(score[n], score[m])
         \/ /\ score[n] = score[m]
            /\ \/ Less(book.inst[rows[n]].strike, book.inst[rows[m]].strike)
               \/ book.inst[rows[n]].strike = book.inst[rows[m]].strike /\ n <= m]

MatchByStrike(rows) == IF rows = <<>> THEN None ELSE Head(rows)
Tolerated(book, leg, i, k) ==
  IF leg.selection.strict /\ Less(leg.selection.tolerance, Dist(book, leg, k, i)) THEN None ELSE k
MatchByDelta(book, leg, i, usable) ==
  IF usable = <<>> THEN None
  ELSE Tolerated(book, leg, i,
         FirstBest(book, usable, [n \in DOMAIN usable |-> Dist(book, leg, usable[n], i)]))
MatchByMoneyness(book, leg, spot, rows) ==
  IF rows = <<>> \/ spot = None \/ ~Positive(spot) THEN None
  ELSE FirstBest(book, rows,
         [n \in DOMAIN rows |->
            AbsF(Sub(Div(book.inst[rows[n]].strike, spot), leg.selection.target))])
Picked(book, leg, i, rows) ==
  CASE leg.selection.kind = "strike" ->
         MatchByStrike(SelectSeq(rows, LAMBDA k : book.inst[k].strike = leg.selection.target))
    [] leg.selection.kind = "delta" ->
         MatchByDelta(book, leg, i, SelectSeq(rows, LAMBDA k : book.row[i][k].delta # None))
    [] leg.selection.kind = "moneyness" -> MatchByMoneyness(book, leg, book.spot[i], rows)

(* What a row says; a close that was not traded gives way to the mid.      *)
OrNaN(x) == IF x = None THEN NaN ELSE x
StreamOf(row, stream) ==
  IF stream = "close" /\ row.close # None /\ Positive(row.close) THEN row.close
  ELSE OrNaN(IF stream = "close" THEN row.mid ELSE row[stream])
SameSymbol(book, rows, k) == SelectSeq(rows, LAMBDA j : book.inst[j].symbol = book.inst[k].symbol)
QuoteOf(book, leg, i, found) ==
  IF found = <<>> THEN NaN ELSE StreamOf(book.row[i][Head(found)], leg.stream)
RowsOn(chains, i) == IF i \in DOMAIN chains THEN chains[i] ELSE <<>>
QuoteIn(book, leg, chains, k, i) == QuoteOf(book, leg, i, SameSymbol(book, RowsOn(chains, i), k))

(***************************************************************************)
(* _resolve_bulk: the contract of each day.                                *)
(***************************************************************************)
PickedDay(book, leg, chains, i, k) ==
  [contract |-> k, value |-> IF k = None THEN NaN ELSE QuoteIn(book, leg, chains, k, i)]
Grouped(exp) ==
  [e \in Range(exp) \ {None} |-> {i \in DOMAIN exp : exp[i] = e}]
PerDateFrom(book, leg, exp, chains) ==
  [i \in DOMAIN exp |->
     PickedDay(book, leg, chains, i,
               IF exp[i] = None THEN None ELSE Picked(book, leg, i, RowsOn(chains, i)))]
PerDate(book, leg, exp, down) ==
  PerDateFrom(book, leg, exp, Chains(book, leg, Once(Grouped(exp)), down))

(***************************************************************************)
(* _resolve_hold, in two phases: the contract that each segment holds is   *)
(* picked on the first day its expiration has rows, then the quotes of the *)
(* held contracts alone are fetched.                                       *)
(***************************************************************************)
Known(exp) == SelectSeq([i \in DOMAIN exp |-> i], LAMBDA i : exp[i] # None)
StartsAt(exp, known) ==
  SelectSeq([n \in DOMAIN known |-> n], LAMBDA n : n = 1 \/ exp[known[n]] # exp[known[n - 1]])
SplitAt(known, starts) ==
  [s \in DOMAIN starts |->
     SubSeq(known, starts[s], IF s < Len(starts) THEN starts[s + 1] - 1 ELSE Len(known))]
Segments(exp) == SplitAt(Known(exp), StartsAt(exp, Known(exp)))
FirstDays(exp, segs) ==
  [e \in {exp[Head(segs[s])] : s \in DOMAIN segs} |->
     {i \in {Head(segs[s]) : s \in DOMAIN segs} : exp[i] = e}]

(* A day that no query has covered is probed for the whole expiration.     *)
Candidates(book, leg, chains, e, i) ==
  IF i \in DOMAIN chains THEN SelectSeq(chains[i], LAMBDA k : book.inst[k].expiration = e)
  ELSE InOrder(OfExpiration(book, leg, e, i))
OpenOn(book, leg, i, rows) ==
  [open |-> i, rows |-> rows, held |-> Picked(book, leg, i, rows)]
OpenAmong(book, leg, chains, e, days) ==
  IF days = {} THEN [open |-> None, rows |-> <<>>, held |-> None]
  ELSE OpenOn(book, leg, Min(days), Candidates(book, leg, chains, e, Min(days)))
Opening(book, leg, chains, e, seg) ==
  OpenAmong(book, leg, chains, e, {i \in Range(seg) : Candidates(book, leg, chains, e, i) # <<>>})

(* The quotes of a held contract are wanted up to the day the next segment *)
(* opens, as that day is still valued by the contract it closes.           *)
WantedOwn(segs, opens) ==
  [s \in {n \in DOMAIN segs : opens[n].held # None} |->
     [held |-> opens[s].held, from |-> opens[s].open, to |-> Last(segs[s])]]
Wanted(segs, opens) ==
  [s \in {n \in DOMAIN segs : opens[n].held # None} |->
     [held |-> opens[s].held, from |-> opens[s].open,
      to |-> IF s = Len(segs) THEN Last(segs[s])
             ELSE IF opens[s + 1].held # None THEN opens[s + 1].open ELSE Head(segs[s + 1])]]
HeldDuring(book, wanted, year, k, i) ==     \* the windows of a symbol are joined
  LET mine == {s \in DOMAIN wanted : /\ Year(book.dates[wanted[s].from]) = year
                                     /\ book.inst[wanted[s].held].symbol = book.inst[k].symbol}
  IN mine # {} /\ Min({wanted[s].from : s \in mine}) <= i /\ i <= Max({wanted[s].to : s \in mine})
HeldRows(book, leg, wanted, i) ==
  LET years == ByDate({Year(book.dates[wanted[s].from]) : s \in DOMAIN wanted})
  IN FlattenSeq([y \in DOMAIN years |->
       InOrder({k \in OnDay(book, leg, i) : HeldDuring(book, wanted, years[y], k, i)})])
WithHeldRows(book, leg, chains, wanted, down) ==
  [i \in DOMAIN book.dates |->
     RowsOn(chains, i) \o (IF down.held THEN <<>> ELSE HeldRows(book, leg, wanted, i))]
WithProbes(chains, opens) ==
  chains @@ [i \in {opens[s].open : s \in DOMAIN opens} \ {None} |->
               opens[CHOOSE s \in DOMAIN opens : opens[s].open = i].rows]

Idle == [contract |-> None, value |-> NaN, roll |-> FALSE, premium |-> NaN]
HeldDay(book, leg, chains, opens, s, i) ==
  CASE opens[s].held = None -> Idle
    [] opens[s].held # None /\ i < opens[s].open -> [Idle EXCEPT !.contract = opens[s].held]
    [] opens[s].held # None /\ i = opens[s].open ->
         [contract |-> opens[s].held, roll |-> TRUE,
          premium |-> QuoteIn(book, leg, chains, opens[s].held, i),
          value |-> QuoteIn(book, leg, chains,
                      IF s > 1 /\ opens[s - 1].held # None THEN opens[s - 1].held
                      ELSE opens[s].held, i)]
    [] OTHER -> [Idle EXCEPT !.contract = opens[s].held,
                             !.value = QuoteIn(book, leg, chains, opens[s].held, i)]
HeldDays(book, leg, segs, opens, chains) ==
  [i \in DOMAIN book.dates |->
     IF \E s \in DOMAIN segs : i \in Range(segs[s])
     THEN HeldDay(book, leg, chains, opens, CHOOSE s \in DOMAIN segs : i \in Range(segs[s]), i)
     ELSE Idle]
Valued(book, leg, segs, opens, chains, down) ==
  HeldDays(book, leg, segs, opens,
           Once(WithHeldRows(book, leg, WithProbes(chains, opens), Once(Wanted(segs, opens)), down)))
OpenedFrom(book, leg, exp, segs, chains, down) ==
  Valued(book, leg, segs,
         Once([s \in DOMAIN segs |-> Opening(book, leg, chains, exp[Head(segs[s])], segs[s])]),
         chains, down)
HoldOf(book, leg, exp, segs, down) ==
  OpenedFrom(book, leg, exp, segs, Chains(book, leg, Once(FirstDays(exp, segs)), down), down)
Hold(book, leg, exp, down) == HoldOf(book, leg, exp, Once(Segments(exp)), down)
=============================================================================
