----------------------------- MODULE MarketData -----------------------------
(***************************************************************************)
(* The market data services: prices, continuous futures and aligned legs   *)
(* of the warehouse v1 (tcg/data/service.py over _sql/instruments.py), of  *)
(* v2 behind v1's protocol (tcg/data/_v2_compat), and of v2 in its own     *)
(* terms (tcg/data/service_v2.py), the first two with a cache each.        *)
(*                                                                         *)
(* A warehouse is [contracts, spots, listed, options]: the futures'        *)
(* contracts, the other instruments' rows by name, the expirations it      *)
(* lists, and the option settlements. A close may be None (SQL's NULL).    *)
(***************************************************************************)
EXTENDS ContinuousRolling

CONSTANT CacheSize
ASSUME CacheSizeAssumption == CacheSize \in Nat \ {0}

Found(series) == [fault |-> None, series |-> series]
Fault(why) == [fault |-> why, series |-> None]

(***************************************************************************)
(* The readers. A NULL close is read as 0.                                 *)
(***************************************************************************)
Read(rows) == [i \in DOMAIN rows |->
                 [rows[i] EXCEPT !.close = IF @ = None THEN Zero ELSE @]]
Contracts(wh, cycle) ==
  LET mine == {c \in Range(wh.contracts) : c.rows # <<>> /\ (cycle = None \/ c.cycle = cycle)}
      read == {[c EXCEPT !.rows = Read(@)] : c \in mine}
  IN SetToSortSeq(read, LAMBDA c, d : \/ c.expiration < d.expiration
                                      \/ c.expiration = d.expiration /\ c.id < d.id)
InWindow(rows, window) ==
  SelectSeq(rows, LAMBDA r : /\ window.start = None \/ window.start <= r.date
                             /\ window.end = None \/ r.date <= window.end)
OrNone(rows) == IF rows = <<>> THEN None ELSE rows

(***************************************************************************)
(* One instrument. v1 answers None for a name it does not know, v2 names   *)
(* what is missing.                                                        *)
(***************************************************************************)
RowsOf(wh, name) ==
  IF name \in DOMAIN wh.spots THEN wh.spots[name]
  ELSE LET c == SelectSeq(wh.contracts, LAMBDA x : x.id = name)
       IN IF c = <<>> THEN <<>> ELSE Head(c).rows
Prices1(wh, spec, window) ==
  IF spec.collection \notin {"INDEX", "FUT", "ETF"} THEN Fault("not_found")
  ELSE Found(OrNone(InWindow(Read(RowsOf(wh, spec.symbol)), window)))
Prices2(wh, spec, window) ==
  LET rows == OrNone(InWindow(Read(RowsOf(wh, spec.symbol)), window))
  IN CASE spec.collection \notin {"INDEX", "FUT", "RATE"} -> Fault("collection_unavailable")
       [] spec.collection \in {"INDEX", "RATE"} /\ spec.symbol \notin DOMAIN wh.spots ->
            Fault("instrument_unavailable")
       [] spec.collection = "FUT" /\ rows = None /\ spec.symbol \notin wh.listed ->
            Fault("contract_unavailable")
       [] OTHER -> Found(rows)

(***************************************************************************)
(* A continuous future, cut to the window after it is built: the contracts *)
(* it was built of are not.                                                *)
(***************************************************************************)
Windowed(built, window) ==
  LET rows == InWindow(built.rows, window)
      rolls == SelectSeq(built.rolls,
                 LAMBDA d : /\ window.start = None \/ window.start <= d
                            /\ window.end = None \/ d <= window.end)
  IN IF built.rows = <<>> \/ rows = <<>> THEN None
     ELSE [built EXCEPT !.rows = rows, !.rolls = rolls]
Futures == {"FUT", "FUT_OTHER"}          \* the second is in neither warehouse
Continuous1(wh, spec, window) ==
  CASE spec.collection \notin Futures -> Fault("not_found")
    [] spec.collection = "FUT_OTHER" -> Found(None)
    [] OTHER -> Found(Windowed(Built(Contracts(wh, spec.config.cycle), spec.config), window))
(* v2 gives all contracts of an object its one cycle, which is not the     *)
(* monthly one; the cycle that is asked for is not looked at.              *)
OneCycle(wh) ==
  LET all == Contracts(wh, None)
  IN [k \in DOMAIN all |-> [all[k] EXCEPT !.cycle = "quarterly"]]
Continuous2(wh, spec, window) ==
  CASE spec.collection \notin Futures -> Fault("not_found")
    [] spec.collection = "FUT_OTHER" -> Fault("collection_unavailable")
    [] OTHER -> Found(Windowed(Built(OneCycle(wh), spec.config), window))

Fetched(source, wh, spec, window) ==
  CASE source = "v1" /\ spec.kind = "price" -> Prices1(wh, spec, window)
    [] source = "v1" /\ spec.kind = "continuous" -> Continuous1(wh, spec, window)
    [] source = "v2" /\ spec.kind = "price" -> Prices2(wh, spec, window)
    [] source = "v2" /\ spec.kind = "continuous" -> Continuous2(wh, spec, window)

(***************************************************************************)
(* The cache of a service: pairs of a key and an answer, the least         *)
(* recently used first. An answer of None is not kept.                     *)
(***************************************************************************)
KeyUnranked(spec, window) ==             \* a mutant: the rank is left out
  IF spec.kind = "price" THEN <<spec, window>>
  ELSE <<[spec EXCEPT !.config.rank = 1], window>>
Key(spec, window) == <<spec, window>>

HasKey(cache, key) == \E i \in DOMAIN cache : cache[i].key = key
IndexOf(cache, key) == CHOOSE i \in DOMAIN cache : cache[i].key = key
Entry(cache, key) == cache[IndexOf(cache, key)]
Without(cache, key) == IF HasKey(cache, key) THEN RemoveAt(cache, IndexOf(cache, key)) ELSE cache
Used(cache, key) == Append(Without(cache, key), Entry(cache, key))
Put(cache, key, value) ==
  LET all == Append(Without(cache, key), [key |-> key, value |-> value])
  IN IF Len(all) > CacheSize THEN Tail(all) ELSE all

(* Through the cache: the answer and the cache after it. *)
Through(cache, key, new) ==
  CASE HasKey(cache, key) ->
         [answer |-> Found(Entry(cache, key).value), cache |-> Used(cache, key)]
    [] ~HasKey(cache, key) /\ new.series # None ->
         [answer |-> new, cache |-> Put(cache, key, new.series)]
    [] OTHER -> [answer |-> new, cache |-> cache]
Got(source, wh, cache, spec, window) ==
  Through(cache, Key(spec, window), Fetched(source, wh, spec, window))

(***************************************************************************)
(* Several legs on the dates they share: a row for a date, as each leg has *)
(* at most one. The legs before one that fails stay in the cache.          *)
(***************************************************************************)
LegRows(spec, series) == IF spec.kind = "price" THEN series ELSE series.rows
Together(specs, series) ==
  LET dates(k) == DatesOf(LegRows(specs[k], series[k]))
      common == {d \in dates(1) : \A k \in DOMAIN specs : d \in dates(k)}
  IN IF common = {} THEN Fault("no_overlap")
     ELSE Found([k \in DOMAIN specs |->
                   [d \in common |-> CloseOn(LegRows(specs[k], series[k]), d)]])
LegAfter(was, got) ==
  CASE was.fault # None -> was
    [] was.fault = None /\ got.answer.fault # None ->
         [was EXCEPT !.fault = got.answer.fault, !.cache = got.cache]
    [] was.fault = None /\ got.answer.fault = None /\ got.answer.series = None ->
         [was EXCEPT !.fault = "not_found", !.cache = got.cache]
    [] OTHER -> [fault |-> None, series |-> Append(was.series, got.answer.series),
                 cache |-> got.cache]
OfLegs(specs, all) ==
  [answer |-> IF specs = <<>> THEN Fault("no_legs")
              ELSE IF all.fault # None THEN Fault(all.fault)
              ELSE Together(specs, all.series),
   cache |-> all.cache]
Aligned(source, wh, cache, specs, window) ==
  LET L[k \in 0..Len(specs)] ==
        IF k = 0 THEN [fault |-> None, series |-> <<>>, cache |-> cache]
        ELSE LET was == L[k - 1]
             IN LegAfter(was, Got(source, wh, was.cache, specs[k], window))
  IN OfLegs(specs, L[Len(specs)])

(***************************************************************************)
(* v2 in its own terms: no cache; a continuous option is the settlement of *)
(* the contract chosen each day from the front expiration's chain.         *)
(***************************************************************************)
FrontClose(wh, d) ==
  LET live == SelectSeq(Contracts(wh, None),
                        LAMBDA c : c.expiration >= d /\ d \in DatesOf(TradedRows(c)))
  IN IF live = <<>> THEN None ELSE CloseOn(Head(live).rows, d)
FrontExpiration(wh, d) ==
  LET ahead == {e \in wh.options.expirations : e >= d}
  IN IF ahead = {} THEN None ELSE Min(ahead)
Target(wh, ask, d) ==
  IF ask.criterion = "strike" THEN ask.target
  ELSE IF FrontClose(wh, d) = None THEN None
  ELSE Mul(ask.target, FrontClose(wh, d))
Chain(wh, ask, d) ==
  {s \in wh.options.settlements :
     /\ s.date = d /\ s.type = ask.type /\ s.expiration = FrontExpiration(wh, d)
     /\ s.value # None /\ Positive(s.value)}
Nearer(target, s, t) ==
  LET mine == AbsF(Sub(s.strike, target))  its == AbsF(Sub(t.strike, target))
  IN Less(mine, its) \/ (mine = its /\ Leq(s.strike, t.strike))
Chosen(chain, target) == CHOOSE s \in chain : \A t \in chain : Nearer(target, s, t)
Chained(chosen) ==
  LET new == SelectSeq([i \in DOMAIN chosen |-> i],
                       LAMBDA i : i > 1 /\ chosen[i].expiration # chosen[i - 1].expiration)
  IN [rows |-> [i \in DOMAIN chosen |-> [date |-> chosen[i].date, close |-> chosen[i].value]],
      rolls |-> [k \in DOMAIN new |-> chosen[new[k]].date],
      contracts |-> [i \in DOMAIN chosen |-> <<chosen[i].expiration, chosen[i].strike>>]]
SettledOn(wh, ask, on) ==
  Chained([i \in DOMAIN on |-> Chosen(Chain(wh, ask, on[i]), Target(wh, ask, on[i]))])
Settlements(wh, ask) ==
  LET dates == {s.date : s \in {x \in wh.options.settlements : InWindow(<<x>>, ask.window) # <<>>}}
  IN IF ask.criterion \notin {"strike", "moneyness"} \/ ~Positive(ask.target)
     THEN Fault("invalid")
     ELSE Found(SettledOn(wh, ask,
            SetToSortSeq({d \in dates : Chain(wh, ask, d) # {} /\ Target(wh, ask, d) # None}, <)))
Native(wh, ask) ==
  CASE ask.kind = "future" ->
         Found(Windowed(Built(OneCycle(wh), ask.config), ask.window))
    [] ask.kind = "option" -> Settlements(wh, ask)
    [] OTHER -> Fault("not_found")
=============================================================================
