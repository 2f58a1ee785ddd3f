---------------------------- MODULE MCMarketRules ---------------------------
(***************************************************************************)
(* Small instances of MarketRules. Instruments are named by numbers, as    *)
(* their names are compared.                                               *)
(*   rolls     three contracts that expire within days of each other, each *)
(*             of which may trade, be NULL or be missing on any day        *)
(*   months    a weekly and a monthly contract of one month, another after *)
(*   service   both warehouses' services, a cache of two answers           *)
(*   options   the days before a third Friday and that day: an option with *)
(*             two listings, two of one strike that may tie in delta, days *)
(*             without prices, without greeks, without one or the other    *)
(*             expiration, without the underlying                          *)
(*   ends      the trading days from one month end to the next             *)
(***************************************************************************)
EXTENDS MarketRules

MCLastTradingDay(y, m) == CASE y = 2024 /\ m = 1 -> 20240131
                            [] y = 2024 /\ m = 2 -> 20240229
                            [] OTHER -> 10000 * y + 100 * m + 28
MCWorlds == {"rolls", "months", "service", "options", "ends"}
Holidays == {20240115, 20240219}
MCBusinessDay(d) == Weekday(d) <= 4 /\ d \notin Holidays
MCTradingDays(w) ==
  CASE w = "rolls" -> <<20240115, 20240116, 20240117, 20240118, 20240119>>
    [] w = "months" -> <<20240126, 20240130, 20240131, 20240201>>
    [] w = "service" -> <<20240115, 20240116, 20240117>>
    [] w = "options" -> <<20240116, 20240117, 20240118, 20240119>>
    [] w = "ends" ->
         <<20240130, 20240131, 20240201, 20240202, 20240205, 20240206, 20240207, 20240208, 20240209,
           20240212, 20240213, 20240214, 20240215, 20240216, 20240220, 20240221, 20240222, 20240223,
           20240226, 20240227, 20240228, 20240229>>

Contract(id, expiration, cycle) ==
  [id |-> id, expiration |-> expiration, cycle |-> cycle, rows |-> <<>>]
NoOptions == [expirations |-> {}, settlements |-> {}]
Options == [expirations |-> {20240116, 20240216},
            settlements |-> {[date |-> d, type |-> "call", expiration |-> e, strike |-> Int2F(k),
                              value |-> Int2F(k)] :
                               d \in {20240115, 20240117}, e \in {20240116, 20240216}, k \in {4, 6}}]
MCListing(w, source) ==
  CASE w = "rolls" ->
         [contracts |-> <<Contract(1, 20240116, "M"), Contract(2, 20240118, "M"),
                          Contract(3, 20240216, "M")>>,
          spots |-> {}, listed |-> {}, options |-> NoOptions]
    [] w = "months" ->
         [contracts |-> <<Contract(1, 20240126, "M"), Contract(2, 20240131, "W"),
                          Contract(3, 20240216, "M")>>,
          spots |-> {}, listed |-> {}, options |-> NoOptions]
    [] w = "service" ->
         [contracts |-> <<Contract(1, 20240116, "M"), Contract(3, 20240216, "M")>>,
          spots |-> {7}, listed |-> {3}, options |-> Options]
    [] OTHER -> [contracts |-> <<>>, spots |-> {}, listed |-> {}, options |-> NoOptions]

(* Loads, as functions of source and name; a contract that has expired has *)
(* no row.                                                                 *)
Expires(name) == CASE name = 1 -> 20240116 [] name = 2 -> 20240118 [] OTHER -> 20240216
ExpiresIn(w, name) ==
  IF w # "months" THEN Expires(name)
  ELSE CASE name = 1 -> 20240126 [] name = 2 -> 20240131 [] OTHER -> 20240216
Quotable(w, n, load) ==
  LET names == {k \in DOMAIN load : MCTradingDays(w)[n + 1] <= ExpiresIn(w, k[2])}
  IN [k \in names |-> load[k]]
Closes(S) == [k \in {<<"v1", q[1]>> : q \in S} |-> (CHOOSE q \in S : q[1] = k[2])[2]]
C(name, x) == <<name, IF x = 0 THEN None ELSE Int2F(x)>>
Loads(w) ==
  CASE w = "rolls" ->
         {Closes(S) : S \in {{C(1, 4), C(2, 5)}, {C(1, 6), C(2, 5), C(3, 8)},
                             {C(2, 6), C(3, 9)}, {C(1, 5), C(2, 0)}, {C(3, 6)}}}
    [] w = "months" ->
         {Closes(S) : S \in {{C(1, 4), C(2, 5)}, {C(1, 5), C(2, 4), C(3, 8)},
                             {C(2, 6), C(3, 7)}, {C(3, 6)}}}
    [] w = "service" ->
         {[k \in Sources \X {7, 1, 3} |->
             IF k[2] = 7 THEN Int2F(x) ELSE Int2F(IF k[1] = "v1" THEN x + 1 ELSE x + 2)] : x \in {1, 3}}
         \cup {[k \in {<<"v1", 1>>, <<"v2", 3>>} |-> Int2F(5)]}

(* Options: a load has a row for each instrument it prices or grades.      *)
Option(symbol, cycle, expiration, strike) ==
  [symbol |-> symbol, cycle |-> cycle, type |-> "P", expiration |-> expiration, strike |-> Int2F(strike)]
MCInstruments(w) ==
  CASE w = "options" ->
         <<Option(1, "M", 20240119, 4), Option(2, "M", 20240119, 5), Option(2, "W", 20240119, 5),
           Option(4, "M", 20240216, 4), Option(3, "M", 20240216, 4),
           Option(5, "W", 20240126, 4), Option(6, "W", 20240126, 5)>>
    [] w = "ends" ->
         <<Option(1, "M", 20240229, 4), Option(2, "M", 20240229, 5),
           Option(3, "M", 20240328, 4), Option(4, "M", 20240328, 5)>>
    [] OTHER -> <<>>
Priced(k, x, close) ==
  [priced |-> TRUE, graded |-> FALSE, mid |-> Int2F(10 * x + k), close |-> Int2F(close), delta |-> None]
Graded0(delta) ==
  [priced |-> FALSE, graded |-> TRUE, mid |-> None, close |-> None, delta |-> Frac(-delta, 20)]
Full(k, x, close, delta) == [Priced(k, x, close) EXCEPT !.graded = TRUE, !.delta = Frac(-delta, 20)]
OptionLoad(rows, spot) ==
  <<"option", "rows">> :> rows @@ <<"option", "spot">> :> (IF spot = 0 THEN None ELSE Int2F(spot))
OptionLoads(w, n) ==
  CASE w = "options" ->
         {OptionLoad(<<Full(1, 1, 1, 4), Full(2, 1, 2, 6), Full(3, 1, 3, 6),
                       Full(4, 1, 4, 4), Full(5, 1, 5, 4), Full(6, 1, 6, 4), Full(7, 1, 7, 6)>>, 4),
          OptionLoad(<<Full(1, 2, 0, 6), Full(2, 2, 2, 9), Full(3, 2, 3, 5),
                       Full(4, 2, 0, 6), Full(5, 2, 5, 5), Full(6, 2, 6, 5), Full(7, 2, 7, 9)>>, 5),
          OptionLoad([k \in {1, 2, 3} |-> Graded0(4 + k)] @@ [k \in {5, 6} |-> Full(k, 3, k, 5)], 0),
          OptionLoad([k \in {1, 4, 5} |-> Priced(k, 4, k)] @@ [k \in {2, 3} |-> Full(k, 4, 0, k)], 5),
          OptionLoad([k \in {1, 2} |-> Priced(k, 5, k)] @@ [k \in {4, 5} |-> Full(k, 5, 1, 5)], 4)}
    [] w = "ends" ->
         {OptionLoad([k \in 1..4 |-> Full(k, n, x, 3 + k)], x) : x \in IF n \in {1, 20} THEN {4, 5} ELSE {4}}

Leg(cycles, kind, n, criterion, target, unit, value, stream) ==
  [type |-> "P", cycles |-> cycles, maturity |-> [kind |-> kind, n |-> n],
   selection |-> [kind |-> criterion, target |-> target, tolerance |-> Frac(1, 10), strict |-> TRUE],
   offset |-> [unit |-> unit, value |-> value], stream |-> stream]
MCLegs(w) ==
  CASE w = "options" ->
         {Leg({}, "nearest_to_target", 5, "delta", Frac(-1, 4), "days", 0, "mid"),
          Leg({"M"}, "next_third_friday", 0, "strike", Int2F(4), "days", 0, "close"),
          Leg({}, "plus_n_days", 3, "moneyness", One, "days", 1, "mid")}
    [] w = "ends" -> {Leg({"M"}, "next_third_friday", 0, "delta", Frac(-1, 4), "days", 0, "mid")}
    [] OTHER -> {}
MCHeldLegs(w) ==
  CASE w = "options" ->
         {Leg({}, "next_third_friday", 0, "delta", Frac(-1, 4), "days", 0, "mid"),
          Leg({}, "next_third_friday", 0, "strike", Int2F(4), "days", 1, "close"),
          Leg({"M", "W"}, "nearest_to_target", 5, "moneyness", One, "days", 0, "mid")}
    [] w = "ends" ->
         {Leg({"M"}, "end_of_month", 0, "delta", Frac(-1, 4), "months", 1, "mid"),
          Leg({}, "end_of_month", 1, "strike", Int2F(5), "days", 0, "close")}
    [] OTHER -> {}

Alive(w, n, load) ==
  LET rows == load["option", "rows"]
      alive == {k \in DOMAIN rows : MCTradingDays(w)[n + 1] <= MCInstruments(w)[k].expiration}
  IN [load EXCEPT !["option", "rows"] = [k \in alive |-> rows[k]]]
MCDay(w, n) ==
  IF w \in {"options", "ends"} THEN {Alive(w, n, load) : load \in OptionLoads(w, n)}
  ELSE {Quotable(w, n, load) : load \in Loads(w)}

MCConfigs(w) ==
  CASE w = "rolls" ->
         {Config("front_month", "none", None, 0, 1), Config("front_month", "none", None, 2, 1),
          Config("nth_nearest", "none", "M", 0, 2), Config("nth_nearest", "none", None, 1, 2)}
    [] w = "months" ->
         {Config("end_of_month", "none", None, 0, 1), Config("end_of_month", "none", None, 1, 1),
          Config("front_month", "none", "M", 0, 1)}
    [] OTHER -> {}

Price(collection, symbol) == [kind |-> "price", collection |-> collection, symbol |-> symbol]
Rolled(rank, adjustment) ==
  [kind |-> "continuous", collection |-> "FUT",
   config |-> Config("nth_nearest", adjustment, None, 0, rank)]
Other == [Rolled(1, "ratio") EXCEPT !.collection = "FUT_OTHER"]
Whole == [start |-> None, end |-> None]
Late == [start |-> 20240116, end |-> 20240117]
AskOf(source, specs, window) == [source |-> source, specs |-> specs, window |-> window]
NativeAsk(kind, criterion) ==
  [kind |-> kind, config |-> Config("front_month", "none", None, 0, 1), window |-> Late,
   criterion |-> criterion, target |-> One, type |-> "call"]
MCAsks(w) ==
  IF w # "service" THEN {}
  ELSE {AskOf("v1", <<Price("INDEX", 7)>>, Whole), AskOf("v1", <<Rolled(1, "ratio")>>, Late),
        AskOf("v1", <<Rolled(2, "ratio")>>, Late), AskOf("v1", <<Price("BOND", 7)>>, Whole),
        AskOf("v1", <<Price("INDEX", 7), Rolled(1, "ratio")>>, Late),
        AskOf("v1", <<Other>>, Late), AskOf("v2", <<Other>>, Late),
        AskOf("v2", <<Price("INDEX", 8)>>, Whole), AskOf("v2", <<Price("FUT", 1)>>, Whole),
        AskOf("v2", <<Rolled(1, "ratio"), Price("ETF", 7)>>, Whole), AskOf("v2", <<>>, Whole),
        AskOf("native", <<NativeAsk("future", None)>>, Late),
        AskOf("native", <<NativeAsk("option", "moneyness")>>, Late),
        AskOf("native", <<NativeAsk("option", "delta")>>, Late)}
=============================================================================
