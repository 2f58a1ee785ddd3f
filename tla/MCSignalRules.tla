---------------------------- MODULE MCSignalRules ---------------------------
(***************************************************************************)
(* Small instances of SignalRules: one request per kind of behaviour.      *)
(*   counters  a crossing counted since a reset, a run of bars, an exit on *)
(*             a hysteresis; a long and a short entry on one input         *)
(*   chain     a THEN-chain reset on actual exits, a windowed count, a     *)
(*             pulse; capped and lagged, with a second input               *)
(*   held      a held option with costs beside a rolling future            *)
(*   basket    a basket and an indicator                                   *)
(*   sources   one instrument from both warehouses                         *)
(***************************************************************************)
EXTENDS SignalRules

N2F(i) == Int2F(i)
Pct(i) == Int2F(i)
MCDays == <<20240102, 20240103, 20240104, 20240105, 20240108, 20240109>>
MCExpirations(name) == {20231201, 20240301}
MCRunIndicator(code, params, series) ==
  [t \in DOMAIN series[1] |->
     IF t = 1 THEN NaN ELSE Div(Add(series[1][t - 1], series[1][t]), Int2F(2))]

(* Instruments, inputs and operands. *)
Of(kind, name, source) ==
  [kind |-> kind, name |-> name, source |-> source, inV2 |-> TRUE, hold |-> FALSE,
   saved |-> None, legs |-> <<>>, nav |-> One, sizing |-> "premium_notional",
   applyMult |-> TRUE, mult |-> <<One, One>>, hedge |-> None]
Spot == Of("spot", "s", None)
Second == Of("spot", "z", None)
Future == Of("continuous", "f", None)
Option == [Of("option", "o", None) EXCEPT !.hold = TRUE, !.nav = Frac(1, 2)]
Basket == [Of("basket", None, None) EXCEPT !.saved = "b"]
Plain(id, inst) == [id |-> id, inst |-> inst, cap |-> None, lag |-> 0]
Price(id) == [kind |-> "instrument", input |-> id, field |-> "close"]
Level0(i) == [kind |-> "constant", value |-> Int2F(i)]
Mean(id) == [kind |-> "indicator", id |-> "mean", input |-> id,
             params |-> [x \in {} |-> 1], series |-> [x \in {} |-> "s"]]

(* Conditions and blocks. *)
Cond(op, args) ==
  [op |-> op, args |-> args, n |-> 1, window |-> 1, mode |-> "rolling", direction |-> "up"]
Block(id, conds) ==
  [id |-> id, name |-> None, conds |-> conds, input |-> None, weight |-> Zero,
   targets |-> None, target |-> None, removedTarget |-> None, enabled |-> TRUE,
   reset |-> None, count |-> 1, links |-> [x \in {} |-> 1], pulse |-> None,
   actualExit |-> "unset"]
Entry(id, input, weight, conds) ==
  [Block(id, conds) EXCEPT !.name = id, !.input = input, !.weight = Pct(weight)]
Exit(id, targets, conds) == [Block(id, conds) EXCEPT !.targets = targets]

Body(inputs, entries, exits, resets) ==
  [source |-> "v1", start |-> MCDays[1], end |-> MCDays[6], inputs |-> inputs,
   entries |-> entries, exits |-> exits, resets |-> resets, indicators |-> <<>>,
   rate |-> Zero]
Request(kind, body) == [kind |-> kind, body |-> body, baskets |-> [b \in {} |-> None]]

Counters == Request("counters", Body(<<Plain("i", Spot)>>,
  << [Entry("a", "i", 60,
        <<[Cond("cross_above", <<Price("i"), Level0(1)>>) EXCEPT !.n = 2, !.mode = "since_reset"]>>)
        EXCEPT !.reset = "r"],
     Entry("b", "i", -40, <<[Cond("ge", <<Price("i"), Level0(2)>>) EXCEPT !.n = 2]>>) >>,
  << Exit("x", <<"a", "b">>,
       <<[Cond("hysteresis", <<Price("i"), Level0(2), Level0(2)>>) EXCEPT !.direction = "up"]>>) >>,
  << Block("r", <<Cond("gt", <<Price("i"), Level0(2)>>)>>) >>))

Chain == Request("chain", Body(
  << [Plain("i", Spot) EXCEPT !.cap = <<Int2F(0), Frac(1, 2)>>, !.lag = 1],
     [Plain("j", Second) EXCEPT !.cap = <<Frac(1, 4), One>>] >>,
  << [Entry("a", "i", 100, <<Cond("gt", <<Price("i"), Level0(1)>>),
                             Cond("gt", <<Price("j"), Level0(1)>>)>>)
        EXCEPT !.links = [x \in {2} |-> 2], !.actualExit = "yes"],
     Entry("b", "i", -50, <<[Cond("cross_above", <<Price("j"), Level0(1)>>) EXCEPT !.window = 2]>>),
     [Entry("c", "j", 50, <<Cond("gt", <<Price("j"), Price("i")>>)>>) EXCEPT !.pulse = "pulse"] >>,
  << Exit("x", <<"a", "b">>, <<Cond("lt", <<Price("i"), Level0(2)>>)>>),
     Exit("y", <<"c">>, <<[Cond("rolling_lt", <<Price("j")>>) EXCEPT !.n = 1]>>) >>,
  <<>>))

Held == Request("held", [Body(
  << Plain("o", Option), Plain("f", Future) >>,
  << Entry("a", "o", -100, <<Cond("ge", <<Price("f"), Level0(2)>>)>>),
     Entry("b", "f", -100, <<Cond("in_range", <<Price("f"), Level0(1), Level0(2)>>)>>) >>,
  << Exit("x", <<"a">>, <<Cond("lt", <<Price("f"), Level0(2)>>)>>) >>,
  <<>>) EXCEPT !.rate = Frac(1, 4)])

Baskets == [Request("basket", [Body(
  << Plain("k", Basket), Plain("i", Spot) >>,
  << Entry("a", "k", 100, <<Cond("gt", <<Price("i"), Mean("i")>>)>>) >>,
  << Exit("x", <<"a">>, <<Cond("lt", <<Price("i"), Mean("i")>>)>>) >>,
  <<>>) EXCEPT !.indicators =
    <<[id |-> "mean", code |-> "mean", params |-> [x \in {} |-> 1], labels |-> <<"s">>,
       base |-> [x \in {} |-> Spot]]>>])
  EXCEPT !.baskets = [b \in {"b"} |->
    [class |-> "equity", legs |-> <<[inst |-> Spot, weight |-> One],
                                    [inst |-> Second, weight |-> Int2F(-2)]>>]]]

Sources == Request("sources", Body(
  << Plain("i", Spot), Plain("j", [Spot EXCEPT !.source = "v2"]) >>,
  << Entry("a", "i", 100, <<Cond("gt", <<Price("i"), Level0(1)>>)>>),
     Entry("b", "j", 100, <<Cond("gt", <<Price("i"), Level0(1)>>)>>) >>, <<>>, <<>>))

MCRequests == {Counters, Chain, Held, Baskets}
SourcesRequests == {Sources}
MCLength(r) ==
  IF r.kind = "counters" THEN 5 ELSE 4

(* Days. A quote is the row of a spot or of a future, or of an option.     *)
Quote(x) == [close |-> x, open |-> x, roll |-> FALSE]
Quotes(name, S) == {(<<"v1", name>> :> Quote(x)) : x \in S}
OptionRow(x, roll) ==
  [close |-> x, open |-> x, roll |-> roll, rollPremium |-> IF roll THEN Int2F(2) ELSE NaN,
   rollFuture |-> NaN, future |-> NaN, delta |-> NaN]
Vals(S) == {Int2F(i) : i \in S}
MCDay(r, n) ==
  CASE r.kind = "counters" -> Quotes("s", Vals({1, 2, 3}) \cup {NaN})
    [] r.kind = "chain" ->
         {a @@ b : a \in Quotes("s", Vals({1, 2, 3})), b \in Quotes("z", Vals({1, 3}) \cup {NaN})}
    [] r.kind = "held" ->
         {(<<"v1", "o">> :> OptionRow(c[1], c[2]))
            @@ (<<"v1", "f">> :> [Quote(Int2F(c[3])) EXCEPT !.roll = c[2]]) :
            c \in ((Vals({1, 4}) \cup {NaN}) \X {FALSE} \X {2, 4})
                   \cup ({One} \X {TRUE} \X {1, 2, 4}) \cup {<<Int2F(4), FALSE, 1>>}}
    [] r.kind = "basket" ->
         {a @@ b : a \in Quotes("s", Vals({1, 2, 4})), b \in Quotes("z", Vals({1, 2}))
                                                          \cup {<<"v1", "z">> :> None}}
    [] r.kind = "sources" ->
         {a @@ (<<"v2", "s">> :> Quote(x)) : a \in Quotes("s", Vals({1, 2})), x \in Vals({1, 3})}
=============================================================================
