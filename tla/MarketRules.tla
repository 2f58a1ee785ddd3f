----------------------------- MODULE MarketRules ----------------------------
(***************************************************************************)
(* What the market data services promise while the warehouses grow: days   *)
(* are loaded one by one, and requests are answered through the cache of   *)
(* the process, which nothing but a restart empties.                       *)
(***************************************************************************)
EXTENDS MarketData, OptionSeries

CONSTANTS
  Worlds,              \* the listings to look at
  Listing(_, _),       \* of a world, at a source: contracts without their rows, names, options
  TradingDays(_),      \* the trading days of a world, in order
  Day(_, _),           \* what a day may load: a close (or None) by source and name
  Configs(_),          \* the continuous futures that are looked at
  Instruments(_),      \* the options, by number
  Legs(_), HeldLegs(_), \* the option legs that are picked anew each day, and that are held
  Asks(_)              \* the requests: [source, specs, window]

VARIABLES
  world,
  days,                \* what each day loaded
  since,               \* how many there were when the process started
  cache,               \* of each source's service
  asked, answer
vars == <<world, days, since, cache, asked, answer>>

Sources == {"v1", "v2"}
ASSUME AsksAssumption ==
  \A w \in Worlds : \A ask \in Asks(w) :
    \/ ask.source = "native"
    \/ /\ ask.source \in Sources /\ ask.specs \in Seq(Range(ask.specs))
       /\ \A spec \in Range(ask.specs) : spec.kind \in {"price", "continuous"}
ASSUME NoneAssumption == None \notin {"not_found", "no_overlap", "no_legs"}

RowsAfter(w, loads, source, name) ==
  LET on == SelectSeq([i \in DOMAIN loads |-> i], LAMBDA i : <<source, name>> \in DOMAIN loads[i])
  IN [k \in DOMAIN on |-> [date |-> TradingDays(w)[on[k]], close |-> loads[on[k]][source, name]]]
Stocked(w, loads, source) ==
  LET L == Listing(w, source)
  IN [contracts |-> [k \in DOMAIN L.contracts |->
                       [L.contracts[k] EXCEPT !.rows = RowsAfter(w, loads, source, L.contracts[k].id)]],
      spots |-> [s \in L.spots |-> RowsAfter(w, loads, source, s)],
      listed |-> L.listed, options |-> L.options]
Warehouse(loads, source) == Stocked(world, loads, source)
Now(source) == Warehouse(days, source)
Book(loads) ==
  [inst |-> Instruments(world), dates |-> SubSeq(TradingDays(world), 1, Len(loads)),
   row |-> [i \in DOMAIN loads |-> loads[i]["option", "rows"]],
   spot |-> [i \in DOMAIN loads |-> loads[i]["option", "spot"]]]

Init ==
  /\ world \in Worlds
  /\ days = <<>> /\ since = 0 /\ cache = [s \in Sources |-> <<>>]
  /\ asked = None /\ answer = None

Load ==
  /\ Len(days) < Len(TradingDays(world))
  /\ \E d \in Day(world, Len(days)) : days' = Append(days, d)
  /\ asked' = None /\ answer' = None
  /\ UNCHANGED <<world, since, cache>>
Serve(source, got) ==
  /\ answer' = got.answer
  /\ cache' = [cache EXCEPT ![source] = got.cache]
GetOne(ask) ==
  Serve(ask.source, Got(ask.source, Now(ask.source), cache[ask.source], Head(ask.specs), ask.window))
GetAligned(ask) ==
  Serve(ask.source, Aligned(ask.source, Now(ask.source), cache[ask.source], ask.specs, ask.window))
GetNative(ask) ==
  /\ answer' = Native(Now("v2"), Head(ask.specs))
  /\ UNCHANGED cache
Ask ==
  \E ask \in Asks(world) :
    /\ CASE ask.source = "native" -> GetNative(ask)
         [] ask.source # "native" /\ Len(ask.specs) = 1 -> GetOne(ask)
         [] OTHER -> GetAligned(ask)
    /\ asked' = ask
    /\ UNCHANGED <<world, days, since>>
Restart ==
  /\ Asks(world) # {}
  /\ cache' = [s \in Sources |-> <<>>] /\ since' = Len(days)
  /\ asked' = None /\ answer' = None
  /\ UNCHANGED <<world, days>>

Next == Load \/ Ask \/ Restart
Spec == Init /\ [][Next]_vars

QuotedAfter(loads, config) == Quoted(Contracts(Warehouse(loads, "v1"), config.cycle))
SeriesAfter(loads, config, adjustment) ==
  Built(QuotedAfter(loads, config), [config EXCEPT !.adjustment = adjustment])
Series(config, adjustment) == SeriesAfter(days, config, adjustment)
QuotedNow(config) == QuotedAfter(days, config)
HolderAt(series, i) ==
  series.contracts[1 + Cardinality({k \in DOMAIN series.rolls : series.rolls[k] <= series.rows[i].date})]

(***************************************************************************)
(* A continuous future of rank r holds on every day the r-th nearest       *)
(* contract that has not expired ("rank=1 is identical to FRONT_MONTH",    *)
(* types/market.py:53); on the day a contract expires the next may already *)
(* have taken over, and where not so many are left it is the last one.     *)
(***************************************************************************)
HoldsTheRankth ==
  \A config \in Configs(world) :
    LET series == Series(config, "none")
        all == QuotedNow(config)
        rank == IF config.strategy = "nth_nearest" THEN config.rank ELSE 1
        Ahead(d, id) ==      \* of the contracts up to id, those that have not expired
          {k \in DOMAIN all : all[k].expiration >= d /\ \E m \in DOMAIN all : m >= k /\ all[m].id = id}
        Expiring(d) == \E k \in DOMAIN all : all[k].expiration = d
    IN config.strategy # "end_of_month" /\ config.offset = 0 =>
         \A i \in DOMAIN series.rows :
           LET d == series.rows[i].date
               n == Cardinality(Ahead(d, HolderAt(series, i)))
               last == Last(all).id
           IN n = rank \/ (Expiring(d) /\ n > rank) \/ (n < rank /\ HolderAt(series, i) = last)

(***************************************************************************)
(* The return over every step of an adjusted series is one that was really *)
(* to be had: that of the contract held at its start, as a quotient in a   *)
(* ratio-adjusted series and as a difference in the other. Only a step to  *)
(* a day that the rolls do not leave to that contract is flat, whatever    *)
(* the two contracts did: their gap is sought among the rows that are left *)
(* of them (adjustment.py:87), and taken from two days when these share    *)
(* none, also where both have traded on one. What follows the last roll is *)
(* not adjusted at all.                                                    *)
(***************************************************************************)
ReturnsAreReal ==
  \A config \in Configs(world) : \A method \in {"ratio", "difference"} :
    LET series == Series(config, method)
        cut == Cut(QuotedNow(config), config)
        Own(id) == cut[CHOOSE k \in DOMAIN cut : cut[k].id = id].rows
        n == Len(series.rows)
    IN /\ \A i \in 1..(n - 1) :
            LET own == Own(HolderAt(series, i))
                from == series.rows[i]  to == series.rows[i + 1]
                a == CloseOn(own, from.date)  b == CloseOn(own, to.date)
            IN IF to.date \notin DatesOf(own) THEN to.close = from.close
               ELSE IF method = "ratio" THEN Div(to.close, from.close) = Div(b, a)
               ELSE Sub(to.close, from.close) = Sub(b, a)
       /\ n > 0 => series.rows[n].close = CloseOn(Own(HolderAt(series, n)), series.rows[n].date)

(***************************************************************************)
(* The clamp of the rolls to the data changes nothing. At an offset of 0   *)
(* it is left out because of that (stitcher.py:121-125); but the n-th      *)
(* nearest is left on the front's expiration, when its successor may not   *)
(* have been listed yet.                                                   *)
(***************************************************************************)
ClampIsNoOp(all, config) ==
  LET held == HeldContracts(all, config)
      schedule == Schedule(all, held, config)
  IN Joined(Trimmed(held, Clamped(held, schedule)), "none") = Joined(Trimmed(held, schedule), "none")

(***************************************************************************)
(* A day that is loaded later leaves the past as it was: the unadjusted    *)
(* series of a future, with an offset too, which puts a roll before the    *)
(* next contract has data until the clamp moves it, and the values, rolls  *)
(* and premiums of a held option leg. An n-th nearest future without an    *)
(* offset is not clamped, and stands only where the clamp would change     *)
(* nothing: a contract that is listed late else takes back the days before *)
(* it, days its predecessor was held and has quotes. The future needs      *)
(* contracts that begin to trade in the order in which they expire, and    *)
(* trade from their first row on; a leg picked by its delta, chains that   *)
(* have greeks when they have prices on the day it rolls: where they have  *)
(* not, the query of the best deltas finds nothing and the next day opens, *)
(* and the whole chain, to which a tie on another day of the year falls    *)
(* back, finds what cannot be picked.                                      *)
(***************************************************************************)
Orderly(all) ==
  /\ \A k \in DOMAIN all : Trades(Head(all[k].rows))
  /\ \A k \in 1..(Len(all) - 1) : FirstTradeable(all[k]) <= FirstTradeable(all[k + 1])
Unclamped(loads, config) ==
  config.strategy = "nth_nearest" /\ config.offset = 0 => ClampIsNoOp(QuotedAfter(loads, config), config)
FuturesStand(before, after) ==
  \A config \in Configs(world) :
    (config.strategy # "end_of_month"
       /\ Orderly(QuotedAfter(before, config)) /\ Orderly(QuotedAfter(after, config))
       /\ Unclamped(before, config) /\ Unclamped(after, config)) =>
      IsPrefix(SeriesAfter(before, config, "none").rows, SeriesAfter(after, config, "none").rows)
HeldStands(was, now) ==
  \A i \in DOMAIN was :
    was[i].value = now[i].value /\ was[i].roll = now[i].roll /\ was[i].premium = now[i].premium
GradedRolls(book, leg, exp) ==
  leg.selection.kind = "delta" =>
    \A s \in DOMAIN Segments(exp) :
      LET i == Head(Segments(exp)[s])
      IN OfExpiration(book, leg, exp[i], i) # {} => Graded(book, leg, exp[i], i) # {}
LegStands(book, more, leg, exp) ==
  GradedRolls(more, leg, exp) =>
    HeldStands(Once(Hold(book, leg, Maturities(book, leg), AllUp)), Once(Hold(more, leg, exp, AllUp)))
LegsStand(book, more) == \A leg \in HeldLegs(world) : LegStands(book, more, leg, Maturities(more, leg))
StandsAfter(before, after) ==
  /\ FuturesStand(before, after)
  /\ before # <<>> => LegsStand(Book(before), Book(after))
PastStands == [][StandsAfter(days, days')]_vars

(***************************************************************************)
(* What is answered through the cache is what the warehouse itself would   *)
(* have answered, to this very request, at some time since the process     *)
(* began; of aligned legs each may be of a time of its own, and what is    *)
(* answered is each of them on all the dates they share.                   *)
(***************************************************************************)
ServedIsOwn ==
  asked # None /\ asked.source \in Sources /\ answer.fault = None =>
    LET Then(n, k) == Fetched(asked.source, Warehouse(SubSeq(days, 1, n), asked.source),
                              asked.specs[k], asked.window)
        legs == DOMAIN asked.specs
    IN IF Len(asked.specs) = 1
       THEN \E n \in since..Len(days) : answer = Then(n, 1)
       ELSE \E at \in [legs -> since..Len(days)] :
              LET Rows(k) == LegRows(asked.specs[k], Then(at[k], k).series)
                  shared == {d \in DatesOf(Rows(1)) : \A k \in legs : d \in DatesOf(Rows(k))}
              IN /\ \A k \in legs : Then(at[k], k).fault = None /\ Then(at[k], k).series # None
                 /\ answer.series = [k \in legs |-> [d \in shared |-> CloseOn(Rows(k), d)]]

(***************************************************************************)
(* The inductive invariant of ServedIsOwn: a cache, within its bound, has  *)
(* one entry for a key, an answer of its warehouse since the process began. *)
(***************************************************************************)
IsCache(entries) ==
  /\ entries = [i \in 1..Len(entries) |-> entries[i]] /\ Len(entries) \in 0..CacheSize
  /\ \A i, j \in DOMAIN entries : entries[i].key = entries[j].key => i = j
Gave(source, key, got) ==
  \E n \in since..Len(days) :
    got = Fetched(source, Warehouse(SubSeq(days, 1, n), source), key[1], key[2])
OwnEntries(source, entries) ==
  \A i \in DOMAIN entries :
    entries[i].value # None /\ Gave(source, entries[i].key, Found(entries[i].value))
CachesAreOwn == \A s \in Sources : IsCache(cache[s]) /\ OwnEntries(s, cache[s])

(***************************************************************************)
(* An option leg has the maturities its rule names: the third Friday that  *)
(* is the next, strictly after the day; from month end to month end the    *)
(* same, but not within the first month. And it is what the narrow queries *)
(* promise to fetch so little for: of each day, or of a roll, the contract that the whole chain of    *)
(* its expiration would have given ("selection is unchanged",              *)
(* engine/options/series/stream_resolver.py:2050), valued at its own       *)
(* quote; on the day of a roll a held leg has the quote of the contract it *)
(* closes, with that of the new one as the premium. Failing queries may    *)
(* lose values, but never put another contract's in their place: where an  *)
(* expiration cannot even be fetched on its own, its days have none, and   *)
(* a leg that holds one opens on what the probe of the roll finds. It is   *)
(* said of days that no other expiration's days surround, unless each is   *)
(* fetched on its own; of rolls on whose day the rule finds a contract;    *)
(* and, where a failed query falls back to the strike band, of contracts   *)
(* in the band.                                                            *)
(***************************************************************************)
OwnQuote(book, leg, k, i) == QuoteOf(book, leg, i, SameSymbol(book, InOrder(OnDay(book, leg, i)), k))
OwnOrLost(book, leg, down, k, i) ==
  {OwnQuote(book, leg, k, i)} \cup (IF down.held THEN {NaN} ELSE {})
PickOn(book, leg, e, i) == Picked(book, leg, i, InOrder(OfExpiration(book, leg, e, i)))
Fetchable(book, leg, down, e, group, k) ==
  k # None /\ (down.multi /\ e \notin down.single =>
                 InBand(leg, SpotFor(book, leg, e, Min(group)), book.inst[k].strike))

Surrounded(groups, i) == \E e, f \in DOMAIN groups : e # f /\ Spans(groups, e, i) /\ i \in groups[f]
DayIsExact(book, leg, down, e, group, k, i, out) ==
  IF e \in down.single THEN out.contract = None /\ out.value = NaN
  ELSE IF Fetchable(book, leg, down, e, group, k)
  THEN out.contract = k /\ out.value = OwnQuote(book, leg, k, i)
  ELSE k = None => out.contract = None
GroupsAreExact(book, leg, down, groups, out) ==
  \A e \in DOMAIN groups : \A i \in groups[e] :
    down.multi \/ ~Surrounded(groups, i) =>
      DayIsExact(book, leg, down, e, groups[e], PickOn(book, leg, e, i), i, out[i])
Alone(exp) ==            \* every expiration on its own, of which one may fail
  {[AllUp EXCEPT !.multi = TRUE, !.single = S] : S \in {{}} \cup {{e} : e \in Range(exp) \ {None}}}
PerDateIsExact(book, leg, exp) ==
  \A down \in {AllUp} \cup Alone(exp) :
    GroupsAreExact(book, leg, down, Once(Grouped(exp)), Once(PerDate(book, leg, exp, down)))

OpensAt(book, leg, down, exp, segs, s, k) ==
  LET e == exp[Head(segs[s])] IN Fetchable(book, leg, down, e, FirstDays(exp, segs)[e], k)
SegmentIsExact(book, leg, down, seg, k, old, out) ==
  \A i \in Range(seg) :
    /\ out[i].contract = k
    /\ out[i].roll = (i = Head(seg))
    /\ IF i # Head(seg) THEN out[i].value \in OwnOrLost(book, leg, down, k, i)
       ELSE /\ out[i].premium = OwnQuote(book, leg, k, i)
            /\ old # None => out[i].value \in OwnOrLost(book, leg, down, old, i)
SegmentsAreExact(book, leg, down, exp, segs, pick, out) ==
  \A s \in DOMAIN segs :
    OpensAt(book, leg, down, exp, segs, s, pick[s]) =>
      SegmentIsExact(book, leg, down, segs[s], pick[s],
        IF s > 1 /\ OpensAt(book, leg, down, exp, segs, s - 1, pick[s - 1])
        THEN pick[s - 1] ELSE None, out)
HoldIsExact(book, leg, down, exp, segs) ==
  SegmentsAreExact(book, leg, down, exp, segs,
    Once([s \in DOMAIN segs |-> PickOn(book, leg, exp[Head(segs[s])], Head(segs[s]))]),
    Once(HoldOf(book, leg, exp, segs, down)))
HeldIsExact(book, leg, exp) ==
  \A down \in {AllUp} \cup {[d EXCEPT !.held = TRUE] : d \in Alone(exp)} : HoldIsExact(book, leg, down, exp, Once(Segments(exp)))
NextThirdFridayAfter(ref) ==
  LET later == {DaysAfter(ref, n) : n \in 1..62}
  IN Min({d \in later : Weekday(d) = 4 /\ DayOf(d) \in 15..21})
MaturityIsItsRule(book, leg, exp) ==
  /\ leg.maturity = [kind |-> "next_third_friday", n |-> 0] =>
       \A i \in DOMAIN exp : exp[i] =
         Snapped(ListedAll(book, leg),
                 BusinessOnOrBefore(NextThirdFridayAfter(Shifted(book.dates[i], leg.offset))))
  /\ leg.maturity.kind = "end_of_month" =>
       \A i \in DOMAIN exp \ {1} :
         LET m == MonthOf(book.dates[i])
         IN exp[i] = IF book.dates[i] = LastOf(m) /\ m # MonthOf(book.dates[1])
                     THEN Arithmetic(book, leg, i) ELSE exp[i - 1]
MaturitiesAreTheirRules(book) ==
  \A leg \in Legs(world) \cup HeldLegs(world) : MaturityIsItsRule(book, leg, Maturities(book, leg))
LegsOver(book) ==
  /\ MaturitiesAreTheirRules(book)
  /\ \A leg \in Legs(world) : PerDateIsExact(book, leg, Maturities(book, leg))
  /\ \A leg \in HeldLegs(world) : HeldIsExact(book, leg, Maturities(book, leg))
LegsAreExact == days # <<>> => LegsOver(Book(days))
=====================
