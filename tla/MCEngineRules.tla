---------------------------- MODULE MCEngineRules ---------------------------
(***************************************************************************)
(* Small instances of EngineRules: held legs in the two sizing modes and   *)
(* with a hedge, and requests that mix the kinds of leg.                   *)
(***************************************************************************)
EXTENDS EngineRules

Half == Frac(1, 2)
Two == Int2F(2)
N(S) == {Int2F(i) : i \in S}

(* Held legs. *)
HeldLeg(sign, nav, mode, hedge) ==
  [sign |-> Int2F(sign), nav |-> nav, mode |-> mode, multFut |-> One,
   multOpt |-> Two, hedge |-> hedge]
Hedge == [factor |-> One, every |-> 2, cap |-> One, gate |-> None, op |-> "gt",
          activation |-> FALSE, pause |-> TRUE]
HoldSetups ==
  {[kind |-> "hold", leg |-> HeldLeg(1, Half, "premium_notional", None)],
   [kind |-> "hold", leg |-> HeldLeg(-1, Two, "premium_notional", None)],
   [kind |-> "hold", leg |-> HeldLeg(1, Frac(1, 4), "futures_notional", None)],
   [kind |-> "hold", leg |-> HeldLeg(-1, Half, "premium_notional", Hedge)]}

Quiet == [premium |-> One, roll |-> FALSE, open |-> NaN, active |-> TRUE,
          rollFuture |-> NaN, future |-> One, delta |-> NaN]
HoldBars(leg) ==
  CASE leg.hedge # None ->
         {[Quiet EXCEPT !.premium = x, !.delta = y, !.future = z] :
            x \in {One, NaN}, y \in {Half, NaN}, z \in N({1, 2})}
         \cup {[Quiet EXCEPT !.roll = TRUE, !.open = Two]}
    [] leg.mode = "futures_notional" ->
         {[Quiet EXCEPT !.premium = x, !.active = a, !.future = f] :
            x \in {NaN, Two}, a \in BOOLEAN, f \in {NaN, One}}
         \cup {[Quiet EXCEPT !.roll = TRUE, !.open = o, !.rollFuture = f] :
                 o \in {NaN, One}, f \in {NaN, Two}}
    [] OTHER ->
         {[Quiet EXCEPT !.premium = x, !.active = a] :
            x \in {NaN} \cup N({1, 2}), a \in BOOLEAN}
         \cup {[Quiet EXCEPT !.roll = TRUE, !.open = o, !.active = a] :
                 o \in {NaN, Two}, a \in BOOLEAN}

(* Requests. *)
Leg == [type |-> "instrument", source |-> None, missing |-> {}, class |-> "EQ",
        collection |-> "SPOTS", symbol |-> "SPX", offset |-> 0, inV2 |-> TRUE,
        stream |-> "mid", hold |-> FALSE, fault |-> FALSE, percent |-> FALSE,
        compound |-> TRUE, lost |-> {},
        navTimes |-> One, sizing |-> "premium_notional", multFut |-> NaN,
        multOpt |-> NaN, multiplier |-> Two, hedge |-> None, inputs |-> <<>>]
Other == [Leg EXCEPT !.symbol = "NDX"]
Future == [Leg EXCEPT !.type = "continuous", !.class = "FUT", !.collection = "FUT_ES"]
Option == [Leg EXCEPT !.type = "option_stream", !.class = "OPT", !.hold = TRUE,
                      !.collection = "OPT_SP"]
OptionFut == [Option EXCEPT !.sizing = "futures_notional", !.multFut = One, !.multOpt = One]
Level == [Option EXCEPT !.stream = "iv", !.hold = FALSE]
Gated(op) == [Option EXCEPT !.hedge = [Hedge EXCEPT !.gate = One, !.op = op]]
Activated == [Option EXCEPT !.hedge = [Hedge EXCEPT !.activation = TRUE, !.pause = FALSE]]
Cash == [Leg EXCEPT !.type = "cash_rate", !.source = "v2"]
SimpleCash == [Cash EXCEPT !.compound = FALSE, !.percent = TRUE]
Nested == [Leg EXCEPT !.type = "portfolio"]
Input(kind, name) ==
  [id |-> "X", kind |-> kind, names |-> name, class |-> "EQ", multiplier |-> One]
Signal(inputs) == [Leg EXCEPT !.type = "signal", !.inputs = inputs]

Request(legs, leg, weight) ==
  [legs |-> legs, leg |-> leg, weight |-> weight, rebalance |-> "none",
   returnType |-> "normal", start |-> None, end |-> None, rate |-> Zero,
   normalize |-> TRUE, source |-> "v1"]
R1(x, w) == Request(<<"A">>, [l \in {"A"} |-> x], [l \in {"A"} |-> Int2F(w)])
R2(x, y, v, w) ==
  Request(<<"A", "B">>, [l \in {"A", "B"} |-> IF l = "A" THEN x ELSE y],
          [l \in {"A", "B"} |-> Int2F(IF l = "A" THEN v ELSE w)])

Spread == Signal(<<Input("spot", "SPX"), Input("spot", "NDX"), Input("basket", None)>>)

Requests ==
  {[R2(Leg, Other, 1, 1) EXCEPT !.rebalance = f] : f \in {"none", "weekly"}}
  \cup {[R2(Leg, Other, 50, 100) EXCEPT !.rebalance = "weekly", !.normalize = FALSE],
        [R2(Leg, Other, 1, 1) EXCEPT !.rebalance = "monthly", !.rate = Half],
        [R2(Leg, Other, 1, -1) EXCEPT !.rebalance = "daily", !.rate = Half],
        [R2(Leg, [Future EXCEPT !.source = "v2"], 100, 100) EXCEPT
           !.start = 20240102, !.rate = Half],
        [R2(Leg, [Future EXCEPT !.lost = {"costs", "rows"}], 100, 100) EXCEPT
           !.rate = Half],
        R1(Option, 100), R1(Option, -100), R1(Future, 100),
        [R2(Leg, OptionFut, 100, -100) EXCEPT !.end = 20240205],
        R2(Spread, [Leg EXCEPT !.source = "v2"], 100, 100),
        R2(Leg, [Leg EXCEPT !.source = "v2"], 1, 1), R2(Leg, Cash, 1, 1), R1(Cash, 1),
        R1(SimpleCash, 1), R1(Activated, 100),
        R2(Nested, Level, 1, 1), R1(Level, 1), R1(Future, 0),
        [R1(Option, 100) EXCEPT !.rebalance = "daily"]}
  \cup {R1(Gated(op), -100) : op \in {"gt", "ge", "lt", "le"}}
PortfolioSetups == {[kind |-> "portfolio", body |-> b] : b \in Requests}

OptionBar == [premium |-> One, roll |-> FALSE, open |-> NaN, future |-> NaN,
              delta |-> Half, hedgePrice |-> One, gate |-> One, activated |-> FALSE,
              openFallback |-> FALSE, closeFallback |-> FALSE]
Close(S) == {[close |-> x, roll |-> FALSE] : x \in S}
LegBars(b, l) ==
  CASE b.leg[l].type = "instrument" ->
         IF Labels(b, "signal") # <<>> THEN {None} \cup Close(N({1, 2}))
         ELSE Close(IF b.rate = Zero THEN N({0, 1, 2}) ELSE {NaN} \cup N({1, 2}))
    [] b.leg[l].type = "continuous" ->
         {None} \cup {[close |-> x, roll |-> r] : x \in N({1, 2}), r \in BOOLEAN}
    [] b.leg[l].type = "signal" ->
         {None} \cup {[pnl |-> IF s = 0 THEN Zero ELSE One,
                       pos |-> [i \in 1..Len(b.leg[l].inputs) |->
                                  [side |-> IF i = 1 THEN s ELSE -s,
                                   price |-> Int2F(IF s = 0 THEN 3 - i ELSE i)]]]
                      : s \in {0, 1}}
    [] b.leg[l].type = "option_stream" /\ b.leg[l].hedge = None ->
         {[OptionBar EXCEPT !.premium = x, !.roll = r,
             !.open = IF r THEN Two ELSE NaN, !.future = IF r THEN Two ELSE NaN,
             !.closeFallback = ~r]
          : x \in {NaN} \cup N({1, 2}), r \in BOOLEAN}
    [] b.leg[l].type = "option_stream" /\ b.leg[l].hedge # None ->
         {[OptionBar EXCEPT !.hedgePrice = x, !.gate = g, !.activated = (g = Two)]
          : x \in N({1, 2}), g \in {NaN} \cup N({1, 2})}
         \cup {[OptionBar EXCEPT !.roll = TRUE, !.open = Two, !.hedgePrice = Two,
                                 !.activated = TRUE]}
    [] b.leg[l].type = "cash_rate" ->
         {None} \cup Close({Zero} \cup {Mul(x, IF b.leg[l].percent THEN Hundred ELSE One) :
                                       x \in N({-1, 3})})
    [] OTHER -> {None} \cup Close(N({1, 2}))

Markets(b) ==
  {x \in [Range(b.legs) -> UNION {LegBars(b, l) : l \in Range(b.legs)}] :
     \A l \in Range(b.legs) : x[l] \in LegBars(b, l)}

MCDays == <<20231229, 20240102, 20240205, 20240206>>
MCSetups == HoldSetups \cup PortfolioSetups
MCBar(s, n) == IF s.kind = "hold" THEN HoldBars(s.leg) ELSE Markets(s.body)
MCLength(s) ==
  IF s.kind = "hold" THEN 4
  ELSE IF Len(s.body.legs) = 1 THEN 4 ELSE 3
=============================================================================
