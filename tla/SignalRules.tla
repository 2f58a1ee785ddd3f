----------------------------- MODULE SignalRules ----------------------------
(***************************************************************************)
(* What POST /api/signals/compute promises, day by day. A request is       *)
(* chosen, then one day of market data after the other arrives; after each *)
(* the request is evaluated on all the days there are, in the engine's     *)
(* order: the operands are fetched and aligned, the blocks' conditions are *)
(* evaluated, the latch loop runs, and the book is drawn up.               *)
(***************************************************************************)
EXTENDS SignalRequest

CONSTANTS
  Requests,            \* [body, baskets, kind]
  Day(_, _),           \* the days a request may see after n others
  Length(_),           \* the number of days of a request
  Days                 \* the trading days, in order

(***************************************************************************)
(* The conditions of a body, as its types give them before they are parsed *)
(* (types/signal.py): Ops[k] are those on k operands, and counts and       *)
(* windows are integers.                                                   *)
(***************************************************************************)
Ops == << {"rolling_gt", "rolling_lt"},
          {"gt", "lt", "ge", "le", "eq", "cross_above", "cross_below"},
          {"in_range", "hysteresis"} >>
IsCondition(c) ==
  /\ \E k \in 1..3 : c.op \in Ops[k] /\ DOMAIN c.args = 1..k
  /\ c.n \in Int /\ c.window \in Int
ASSUME RequestsAssumption ==
  \A r \in Requests : \A b \in Range(r.body.entries) \cup Range(r.body.exits) :
    \A c \in Range(b.conds) : IsCondition(c)
ASSUME NoneAssumption == None # "validation"

VARIABLES
  request,
  days,                \* the rows of each day so far
  ev,                  \* the aligned operands; None: refused
  run,                 \* the firings of the blocks and the latch loop
  book,                \* the ledger, then with the account compounded from it
  answer,
  stage                \* "published", "arrived", "aligned", "run", "drawn", "settled"
vars == <<request, days, ev, run, book, answer, stage>>

Market == [d \in {Days[i] : i \in 1..Len(days)} |->
             days[CHOOSE i \in 1..Len(days) : Days[i] = d]]
Signal == Parsed(request.baskets, request.body)
Window == Clipped(request.body, Market, Signal.inputs)

Init ==
  /\ request \in Requests
  /\ days = <<>> /\ ev = None /\ run = None /\ book = None /\ answer = None /\ stage = "published"
Arrive ==
  /\ stage = "published" /\ Len(days) < Length(request)
  /\ \E x \in Day(request, Len(days)) : days' = Append(days, x)
  /\ stage' = "arrived"
  /\ UNCHANGED <<request, ev, run, book, answer>>
Align ==
  /\ stage = "arrived"
  /\ ev' = IF Refusal(request.baskets, Market, request.body) # None THEN None
           ELSE Aligned(Window, Market, Signal)
  /\ stage' = "aligned"
  /\ UNCHANGED <<request, days, run, book, answer>>
RunOf(aligned, fires) == [fires |-> fires, loop |-> Loop(aligned, fires)]
Run ==
  /\ stage = "aligned"
  /\ run' = IF ev = None \/ Bars(ev) = 0 THEN None
            ELSE RunOf(ev, Firings(ev))
  /\ stage' = "run"
  /\ UNCHANGED <<request, days, ev, book, answer>>
Draw ==
  /\ stage = "run"
  /\ book' = IF run = None THEN None
             ELSE Ledger(Window, Market, ev, run.fires, run.loop, request.body.rate)
  /\ stage' = "drawn"
  /\ UNCHANGED <<request, days, ev, run, answer>>
Settle ==
  /\ stage = "drawn"
  /\ book' = IF run = None THEN None ELSE [ledger |-> book, account |-> AccountOf(book)]
  /\ stage' = "settled"
  /\ UNCHANGED <<request, days, ev, run, answer>>
Publish ==
  /\ stage = "settled"
  /\ answer' = IF run = None THEN None
               ELSE Response(ev, run.fires, run.loop, book.ledger, book.account)
  /\ stage' = "published"
  /\ UNCHANGED <<request, days, ev, run, book>>
Next == Arrive \/ Align \/ Run \/ Draw \/ Settle \/ Publish
Spec == Init /\ [][Next]_vars

Answered == stage = "published" /\ answer # None
N == Bars(ev)
InputIndex(id) == CHOOSE k \in DOMAIN answer.positions : answer.positions[k].input = id

(***************************************************************************)
(* A day that arrives later changes nothing that was answered before: not  *)
(* a position, not the equity, not a trade but for its close. The counters *)
(* of the conditions, the chains, the latch, the caps and lags, the sizing *)
(* of held contracts and the costs all look backwards only.                *)
(***************************************************************************)
PastStands ==
  [][ stage' = "published" /\ answer # None /\ answer' # None =>
        LET n == Len(answer.timestamps)
            Same(a, b) == n <= Len(b) /\ SubSeq(a, 1, n) = SubSeq(b, 1, n)
        IN /\ Same(answer.timestamps, answer'.timestamps)
           /\ Same(answer.equity, answer'.equity)
           /\ \A k \in DOMAIN answer.positions :
                /\ Same(answer.positions[k].values, answer'.positions[k].values)
                /\ Same(answer.realized[k], answer'.realized[k])
           /\ \A r \in Range(answer.trades) : \E s \in Range(answer'.trades) :
                /\ r.entry = s.entry /\ r.open = s.open
                /\ r.close # None => r = s
                /\ r.close = None /\ s.close # None => s.close > n
    ]_vars

(* The blocks whose conditions open and close positions. *)
Openers(sg) == {b \in Range(sg.entries) : UsableEntry(sg, b)}
Closers(sg) == {b \in Range(sg.exits) : UsableExit(sg, b)}
Deciding(sg) == Openers(sg) \cup Closers(sg)

(***************************************************************************)
(* The running counters of the conditions mean what they say: a crossing   *)
(* counted since a reset fires at every n-th crossing after it, where what *)
(* resets it is the bound reset and, of an entry that is not gated, every  *)
(* exit that aims at it (signal_exec.py:1161-1169; types/signal.py:525-531 *)
(* has the bound reset alone, and none where no reset is bound); a         *)
(* hysteresis fires once per excursion, on the way back; a run of n bars   *)
(* is n bars that all hold; a count in a window, that many crossings.      *)
(***************************************************************************)
CountsSinceReset(c, reset) ==
  LET out == Truth(ev, c, reset)
      pulse == [t \in 1..N |-> Level(ev, c, t)]
      From(t) == Max({1} \cup {b \in 1..t : reset[b]})
  IN \A t \in 1..N :
       out[t] <=> pulse[t] /\ Cardinality({b \in From(t)..t : pulse[b]}) % c.n = 0
OncePerExcursion(c) ==
  LET out == Truth(ev, c, NoReset(ev))
      up == c.op = "hysteresis_up"
      X(i, t) == ArrayOf(ev, c.args[i])[t]
      Out(t) == ~Missing(ev, c, t) /\ Beyond(up, X(1, t), X(2, t))
      Back(t) == ~Missing(ev, c, t) /\ Beyond(up, X(3, t), X(1, t))
  IN \A t \in 1..N : out[t] <=>
       /\ Back(t)
       /\ \E b \in 1..(t - 1) : Out(b) /\ ~out[b] /\ \A m \in (b + 1)..(t - 1) : ~out[m]
EveryBarOfTheRun(c) ==
  LET out == Truth(ev, c, NoReset(ev))
  IN \A t \in 1..N : out[t] <=>
       t >= c.n /\ \A b \in (t - c.n + 1)..t : Level(ev, c, b) /\ ~Missing(ev, c, b)
EnoughInTheWindow(c) ==
  LET out == Truth(ev, c, NoReset(ev))
  IN \A t \in 1..N : out[t] <=>
       Cardinality({b \in 1..t : t - b < c.window /\ Level(ev, c, b)}) >= c.n
Means(c, reset) ==
  CASE Episode(c) -> OncePerExcursion(c)
    [] Crossing(c) /\ c.sinceReset -> CountsSinceReset(c, reset)
    [] Crossing(c) /\ ~c.sinceReset -> EnoughInTheWindow(c)
    [] Rolling(c) \/ c.op = "in_range" -> TRUE
    [] OTHER -> EveryBarOfTheRun(c)
CountersMeanTheirWords ==
  Answered =>
    /\ \A b \in Openers(ev.sg) : \A c \in Range(b.conds) :
         Means(c, EntryWipe(ev, run.fires.exits, b))
    /\ \A b \in Closers(ev.sg) : \A c \in Range(b.conds) : Means(c, ResetOf(ev, b))

(***************************************************************************)
(* The exposure the P&L is computed from is that of the trades the answer  *)
(* reports: at each bar the weights of the trades open lag bars before,    *)
(* clipped to the input's cap, and nothing on a bar on which an operand    *)
(* that decides about the input is missing. A bar without an open trade is *)
(* lifted to a positive lower bound of the cap (signal_exec.py:2178; the   *)
(* comment above that line says it is not).                                *)
(***************************************************************************)
OpenAt(r, t) == r.open <= t /\ (r.close = None \/ t < r.close)
Undecided(id, t) ==
  \E b \in Deciding(ev.sg) :
    /\ b.input = id \/ \E e \in Range(Entries(ev.sg)) : e.input = id /\ Aims(b, e)
    /\ AnyMissing(ev, b)[t]
OpenFor(input, t) ==
  {i \in DOMAIN answer.trades : answer.trades[i].input = input.id
                             /\ OpenAt(answer.trades[i], t - input.lag)}
ExposureIsOfTheTrades ==
  Answered =>
    \A k \in DOMAIN answer.positions : \A t \in 1..N :
      LET p == answer.positions[k]
          input == InputOf(ev.sg, p.input)
          net == SumOver(SetToSortSeq(OpenFor(input, t), <), LAMBDA i : answer.trades[i].weight)
      IN p.values[t] = IF t <= input.lag \/ Undecided(p.input, t) THEN Zero
                       ELSE IF input.cap = None THEN net
                       ELSE Clip(net, input.cap[1], input.cap[2])

(***************************************************************************)
(* The P&L of the inputs and the costs add up to the move of the equity,   *)
(* through a wipe-out too, whatever mix of spot, continuous and held       *)
(* option inputs there is; and the equity is never negative.               *)
(***************************************************************************)
BookAddsUp ==
  Answered =>
    LET steps == [t \in 1..(N - 1) |-> t]
        earned == SumOver([k \in DOMAIN answer.realized |-> k],
                          LAMBDA k : answer.realized[k][N])
        cost == SumOver(steps, LAMBDA t :
                  Mul(book.account[t + 1].scale, Mul(answer.equity[t], book.ledger.drag[t])))
    IN /\ Sub(answer.equity[N], One) = Sub(earned, cost)
       /\ \A t \in 1..N : ~Negative(answer.equity[t])
       /\ \A t \in 2..N : answer.equity[t - 1] = Zero => answer.equity[t] = Zero

(***************************************************************************)
(* Every input is priced on the series of its own warehouse: "every input  *)
(* ref carries its own data_source" (core/api/signals.py:1391).            *)
(***************************************************************************)
PricedOnItsOwnSource ==
  Answered =>
    \A p \in Range(answer.positions) : \A t \in 1..N :
      LET inst == Instrument(ev.sg, p.input)
      IN answer.timestamps[t] \in FetchDates(Window, Market, inst) =>
           p.price[t] = FetchAt(Window, Market, inst, "close", answer.timestamps[t])
=============================================================================
