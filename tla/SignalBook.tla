----------------------------- MODULE SignalBook -----------------------------
(***************************************************************************)
(* The sequential half of evaluate_signal (engine/signal_exec.py): the     *)
(* latch loop over the bars, what its positions earn, and what they cost.  *)
(* SignalLatch checks the loop for any firings; here it runs on the        *)
(* firings of a whole signal. Blocks are named by their index in Entries,  *)
(* Exits and Resets of SignalConditions; bar 0 of the code is 1.           *)
(***************************************************************************)
EXTENDS SignalConditions, HoldPnl

(***************************************************************************)
(* The latch loop. A state has latched (entries), armed and owed (by block *)
(* id), chain (of each gated entry), opens and closes (the ledger), and    *)
(* what the bar did: closed, completed (entries), exited, rearmed (ids).   *)
(***************************************************************************)
BoundBlocks(sg) ==
  LET Bound(b) == b.reset # None IN SelectSeq(Entries(sg) \o Exits(sg), Bound)
BoundIds(sg) == {b.id : b \in Range(BoundBlocks(sg))}
BoundBlock(sg, id) ==
  LET b == BoundBlocks(sg) IN b[Max({i \in DOMAIN b : b[i].id = id})]
Required(sg, id) == Max({1, BoundBlock(sg, id).count})

MayAct(sg, st, id) == id \in BoundIds(sg) => id \in st.armed
Disarm(sg, st, ids) ==
  [st EXCEPT !.armed = @ \ ids,
             !.owed = [id \in DOMAIN @ |-> IF id \in ids THEN Required(sg, id) ELSE @[id]]]

LoopStart(sg) ==
  LET E == DOMAIN Entries(sg)
  IN [latched |-> {}, armed |-> BoundIds(sg), owed |-> [id \in BoundIds(sg) |-> 0],
      chain |-> [e \in E |-> Idle], opens |-> [e \in E |-> <<>>],
      closes |-> [e \in E |-> <<>>],
      closed |-> {}, completed |-> {}, exited |-> {}, rearmed |-> {}]

Cleared(sg, fires, start, t) ==
  LET x == Exits(sg)
      C[i \in 0..Len(x)] ==
        IF i = 0 THEN [start EXCEPT !.closed = {}, !.exited = {}]
        ELSE LET st == C[i - 1]
                 closing == {e \in st.latched : Aims(x[i], Entries(sg)[e])}
             IN IF ~fires.exits[i].truth[t] \/ ~MayAct(sg, st, x[i].id) \/ closing = {}
                THEN st
                ELSE Disarm(sg,
                       [st EXCEPT !.latched = @ \ closing, !.closed = @ \cup closing,
                          !.exited = @ \cup {x[i].id},
                          !.closes = [e \in DOMAIN @ |-> IF e \in closing
                            THEN Append(@[e], [bar |-> t, exit |-> x[i].id]) ELSE @[e]]],
                       {x[i].id})
  IN C[Len(x)]

Advanced(fires, st, t) ==
  LET gated == {e \in DOMAIN st.chain : fires.entries[e].stages # None}
      S(e) == fires.entries[e].stages
  IN [st EXCEPT
        !.chain = [e \in DOMAIN @ |-> IF e \notin gated THEN Idle
           ELSE ChainNext(@[e], S(e).win, t, S(e).match[t], S(e).gap[t], e \in st.closed)],
        !.completed = {e \in gated :
           Completes(st.chain[e], S(e).win, t, S(e).match[t], S(e).gap[t], e \in st.closed)}]

Opening(sg, fires, st, t) ==
  {e \in DOMAIN st.opens : /\ fires.entries[e].truth[t] \/ e \in st.completed
                           /\ MayAct(sg, st, Entries(sg)[e].id)
                           /\ e \notin st.latched}
Entered(sg, fires, st, t) ==
  LET new == Opening(sg, fires, st, t)
  IN Disarm(sg,
       [st EXCEPT !.latched = @ \cup new,
                  !.opens = [e \in DOMAIN @ |-> IF e \in new THEN Append(@[e], t) ELSE @[e]]],
       {Entries(sg)[e].id : e \in new} \cap BoundIds(sg))

Rearmed(sg, fires, start, t) ==
  LET r == Resets(sg)
      R[i \in 0..Len(r)] ==
        IF i = 0 THEN [start EXCEPT !.rearmed = {}]
        ELSE LET st == R[i - 1]
                 counting == {id \in BoundIds(sg) \ st.armed :
                                fires.resets[i].fires[t] /\ BoundBlock(sg, id).reset = r[i].id}
                 done == {id \in counting : st.owed[id] <= 1}
             IN [st EXCEPT !.armed = @ \cup done,
                           !.owed = [id \in DOMAIN @ |->
                                       IF id \in counting THEN @[id] - 1 ELSE @[id]],
                           !.rearmed = IF done = {} THEN @ ELSE @ \cup {r[i].id}]
  IN R[Len(r)]

LoopBar(sg, fires, was, t) ==
  Rearmed(sg, fires, Entered(sg, fires, Advanced(fires, Cleared(sg, fires, was, t), t), t), t)
Loop(ev, fires) ==
  LET L[t \in 0..Bars(ev)] ==
        IF t = 0 THEN LoopStart(ev.sg) ELSE LoopBar(ev.sg, fires, L[t - 1], t)
  IN [t \in 1..Bars(ev) |-> L[t]]

(***************************************************************************)
(* Positions: the weights of the latched entries of an input, then the     *)
(* input's cap, its lag, and zero where an operand of a block of the input *)
(* is missing.                                                             *)
(***************************************************************************)
SignedWeight(b) == Div(b.weight, Int2F(100))
NetWeight(sg, latched, id) ==
  SumOver(SetToSortSeq({e \in latched : Entries(sg)[e].input = id}, <),
          LAMBDA e : SignedWeight(Entries(sg)[e]))

Poisoned(sg, fires, id, t) ==
  \/ \E e \in DOMAIN Entries(sg) :
       Entries(sg)[e].input = id /\ fires.entries[e].missing[t]
  \/ \E x \in DOMAIN Exits(sg) :
       /\ fires.exits[x].missing[t]
       /\ \E e \in DOMAIN Entries(sg) :
            Entries(sg)[e].input = id /\ Aims(Exits(sg)[x], Entries(sg)[e])

CappedOf(input, x) == IF input.cap = None THEN x ELSE Clip(x, input.cap[1], input.cap[2])
PositionLagLast(ev, fires, loop, id) ==                                \* a mutant
  LET input == InputOf(ev.sg, id)
      Net(t) == CappedOf(input, NetWeight(ev.sg, loop[t].latched, id))
  IN [t \in 1..Bars(ev) |->
        IF t <= input.lag \/ Poisoned(ev.sg, fires, id, t - input.lag)
        THEN Zero ELSE Net(t - input.lag)]
PositionRolled(ev, fires, loop, id) ==                                 \* a mutant
  LET input == InputOf(ev.sg, id)
      Net(t) == CappedOf(input, NetWeight(ev.sg, loop[t].latched, id))
      From(t) == IF t > input.lag THEN t - input.lag ELSE Bars(ev) + t - input.lag
  IN [t \in 1..Bars(ev) |->
        IF From(t) < 1 \/ Poisoned(ev.sg, fires, id, t) THEN Zero ELSE Net(From(t))]
Position(ev, fires, loop, id) ==
  LET input == InputOf(ev.sg, id)
      Net(t) == CappedOf(input, NetWeight(ev.sg, loop[t].latched, id))
  IN [t \in 1..Bars(ev) |->
        IF t <= input.lag \/ Poisoned(ev.sg, fires, id, t) THEN Zero
        ELSE Net(t - input.lag)]

PricesOf(ev, id) == ev.at[<<"instrument", Identity(Instrument(ev.sg, id)), "close">>]

(***************************************************************************)
(* Inputs that hold a fixed contract: the roll structure on the calendar   *)
(* (hold_roll_info) and the hedge (hold_hedge_info). A hedge h has future, *)
(* gate (an instrument or None), op, threshold, factor, every, cap, pause, *)
(* and activation, None or a condition with the inputs it reads; what it   *)
(* names is read from the source of the request.                           *)
(***************************************************************************)
Holds(inst) == inst.kind = "option" /\ inst.hold
HoldInputs(sg) == {id \in Range(Referenced(sg)) : Holds(Instrument(sg, id))}
HedgedInputs(sg) == {id \in HoldInputs(sg) : Instrument(sg, id).hedge # None}

OfRequest(inst) == [inst EXCEPT !.source = None]
Activation(h) ==
  [inputs |-> h.inputs, indicators |-> [i \in {} |-> None], entries |-> <<>>, exits |-> <<>>,
   resets |-> <<[enabled |-> TRUE, conds |-> <<h.activation>>]>>]

HedgeFault(q, mk, inst) ==
  LET h == inst.hedge
  IN \/ LeafDates(q, mk, inst) = {}
     \/ LeafDates(q, mk, OfRequest(h.future)) = {}
     \/ h.gate # None /\ LeafDates(q, mk, OfRequest(h.gate)) = {}
     \/ h.activation # None /\ EvalFault(q, mk, Activation(h)) # None
AllDeltaMissing(q, mk, ev, inst) ==
  \A t \in 1..Bars(ev) : ~IsFinite(HoldAt(q, mk, inst, "delta", ev.index[t], NaN))

Above(op, x, y) ==
  CASE op = "gt" -> Less(y, x) [] op = "ge" -> Leq(y, x)
    [] op = "lt" -> Less(x, y) [] op = "le" -> Leq(x, y)
GateOn(q, mk, inst, act, d) ==
  LET h == inst.hedge
  IN CASE h.activation # None ->
            \E t \in DOMAIN act.index :
              act.index[t] = d /\ Truth(act, h.activation, NoReset(act))[t]
       [] h.activation = None /\ h.gate # None ->
            LET level == LeafAt(q, mk, OfRequest(h.gate), "close", d)
            IN /\ d \in LeafDates(q, mk, OfRequest(h.gate)) /\ IsFinite(level)
               /\ Above(h.op, level, h.threshold)
       [] OTHER -> d \in LeafDates(q, mk, inst)

(* The sign of the leg is that of its first open bar, its size nav.        *)
LegSign(pos) ==
  LET open == {t \in DOMAIN pos : pos[t] # Zero}
  IN IF open = {} \/ Positive(pos[Min(open)]) THEN One ELSE Int2F(-1)

HoldLeg(q, mk, ev, id, pos) ==
  LET inst == Instrument(ev.sg, id)
      Held(field, x) == [t \in 1..Bars(ev) |-> HoldAt(q, mk, inst, field, ev.index[t], x)]
      roll == Held("roll", FALSE)
      hedged == inst.hedge # None
      act == IF hedged /\ inst.hedge.activation # None
             THEN Aligned(q, mk, Activation(inst.hedge)) ELSE None
      future == IF hedged THEN OfRequest(inst.hedge.future) ELSE None
  IN [sign |-> LegSign(pos), nav |-> inst.nav, mode |-> inst.sizing,
      multFut |-> inst.mult[1],
      multOpt |-> IF inst.applyMult THEN inst.mult[2] ELSE inst.mult[1],
      hedge |-> IF hedged THEN [factor |-> inst.hedge.factor, every |-> inst.hedge.every,
                                cap |-> inst.hedge.cap] ELSE None,
      premium |-> PricesOf(ev, id), isRoll |-> roll,
      rollPremium |-> Held("rollPremium", NaN), active |-> [t \in DOMAIN pos |-> pos[t] # Zero],
      rollFuture |-> Held("rollFuture", NaN), dailyFuture |-> Held("future", NaN),
      delta |-> Held("delta", NaN),
      price |-> [t \in 1..Bars(ev) |->
        IF hedged THEN IF ev.index[t] \in LeafDates(q, mk, future)
                       THEN LeafAt(q, mk, future, "close", ev.index[t]) ELSE NaN
        ELSE NaN],
      unitDelta |-> [t \in 1..Bars(ev) |-> One],
      gate |-> [t \in 1..Bars(ev) |->
        /\ hedged /\ GateOn(q, mk, inst, act, ev.index[t])
        /\ ~(inst.hedge.pause /\ roll[t])]]

(***************************************************************************)
(* What the positions earn and cost, step t going from bar t to t + 1.     *)
(***************************************************************************)
Earned(pos, price, t) ==
  IF IsFinite(price[t]) /\ IsFinite(price[t + 1]) /\ price[t] # Zero
  THEN Div(Mul(pos[t], Sub(price[t + 1], price[t])), price[t]) ELSE Zero

ReturnAt(price, t) == FiniteOr0(Div(Sub(price[t], price[t - 1]), price[t - 1]))

(* establish_turnover over the inputs that are not held contracts.         *)
PricedTurnover(pos, price, ids, t) ==
  LET gross == SumOver(ids, LAMBDA i : Earned(pos[i], price[i], t - 1))
      base == Add(One, gross)
      Drifted(i) == IF IsFinite(base) /\ base # Zero
                    THEN Div(Mul(pos[i][t - 1], Add(One, ReturnAt(price[i], t))), base)
                    ELSE Zero
  IN IF t = 1 THEN SumOver(ids, LAMBDA i : AbsF(pos[i][1]))
     ELSE SumOver(ids, LAMBDA i : AbsF(Sub(pos[i][t], Drifted(i))))

HeldTurnover(leg, t) ==
  IF Futures(leg) THEN FractionTurnover(leg, NotionalFractions(leg), t)
  ELSE ScalarTurnover(leg, t)

(* A continuous future held through a roll trades both of its sides.       *)
ContinuousTurnover(q, mk, ev, id, pos, t) ==
  IF /\ Instrument(ev.sg, id).kind = "continuous" /\ t \in 2..(Bars(ev) - 1)
     /\ ev.index[t] \in ContinuousRolls(q, mk, Instrument(ev.sg, id))
     /\ Positive(Mul(pos[t - 1], pos[t]))
  THEN Mul(Int2F(2), MinF(AbsF(pos[t - 1]), AbsF(pos[t]))) ELSE Zero

(***************************************************************************)
(* The whole evaluation. rate is the cost per unit of turnover, slippage   *)
(* and fees together. Trades that open at one bar are in the order of      *)
(* their entries (the code's: of the entries' ids).                        *)
(***************************************************************************)
FaultOfHedges(q, mk, ev) ==
  IF Bars(ev) > 0 /\ \E id \in HedgedInputs(ev.sg) :
       \/ HedgeFault(q, mk, Instrument(ev.sg, id))
       \/ AllDeltaMissing(q, mk, ev, Instrument(ev.sg, id))
  THEN "data" ELSE None
OrElse(fault, other) == IF fault # None THEN fault ELSE other
BookFault(q, mk, sg) ==
  IF DuplicateEntry(sg) THEN "validation"
  ELSE OrElse(EvalFault(q, mk, sg), FaultOfHedges(q, mk, Aligned(q, mk, sg)))

TradesOf(sg, loop) ==
  LET last == loop[Len(loop)]
      row == {<<e, k>> : e \in DOMAIN Entries(sg), k \in 1..Len(loop)}
      known == {r \in row : r[2] <= Len(last.opens[r[1]])}
      Before(a, b) ==
        LET open == last.opens[a[1]][a[2]]  other == last.opens[b[1]][b[2]]
        IN open < other \/ (open = other /\ a[1] < b[1])
      sorted == SetToSortSeq(known, Before)
  IN [n \in 1..Len(sorted) |->
        LET e == sorted[n][1]  k == sorted[n][2]
        IN [entry |-> Entries(sg)[e].id, input |-> Entries(sg)[e].input,
            open |-> last.opens[e][k], weight |-> SignedWeight(Entries(sg)[e]),
            close |-> IF k <= Len(last.closes[e]) THEN last.closes[e][k].bar ELSE None,
            exit |-> IF k <= Len(last.closes[e]) THEN last.closes[e][k].exit ELSE None]]

(* What compounding starts from: positions, prices, held legs, costs.      *)
TurnoverAt(q, mk, ev, book, t) ==
  Add(Add(PricedTurnover(book.position, book.price, book.plain, t),
          SumOver(book.plain, LAMBDA id :
            ContinuousTurnover(q, mk, ev, id, book.position[id], t))),
      SumOver([k \in DOMAIN book.leg |-> k], LAMBDA k : HeldTurnover(book.leg[k], t)))
WithCosts(q, mk, ev, rate, book) ==
  [drag |-> [t \in 1..(Bars(ev) - 1) |->
     IF rate = Zero THEN Zero ELSE Mul(rate, TurnoverAt(q, mk, ev, book, t))]] @@ book
WithHeld(q, mk, ev, pos, ids, held) ==
  [position |-> pos, price |-> [id \in Range(ids) |-> PricesOf(ev, id)],
   plain |-> SelectSeq(ids, LAMBDA id : ~Holds(Instrument(ev.sg, id))), held |-> held,
   leg |-> [k \in DOMAIN held |-> HoldLeg(q, mk, ev, held[k], pos[held[k]])]]
Ledger(q, mk, ev, fires, loop, rate) ==
  LET ids == Referenced(ev.sg)
  IN WithCosts(q, mk, ev, rate,
       WithHeld(q, mk, ev, [id \in Range(ids) |-> Position(ev, fires, loop, id)], ids,
                SelectSeq(ids, LAMBDA id : Holds(Instrument(ev.sg, id)))))

AccountOf(ledger) ==
  Compounded(ledger.leg, [t \in DOMAIN ledger.drag |->
    Sub(SumOver(ledger.plain, LAMBDA id : Earned(ledger.position[id], ledger.price[id], t)),
        ledger.drag[t])])

(* realized_pnl: what each input has earned of the equity by each bar.     *)
Realized(ledger, account, id) ==
  LET Contributed(t) ==
        IF id \in Range(ledger.plain)
        THEN Earned(ledger.position[id], ledger.price[id], t)
        ELSE account[t + 1].booked[CHOOSE k \in DOMAIN ledger.held : ledger.held[k] = id]
      P[t \in DOMAIN account] ==
        IF t = 1 THEN Zero
        ELSE Add(P[t - 1], Mul(Mul(account[t].scale, account[t - 1].equity),
                               Contributed(t - 1)))
  IN P
CostsPaid(ledger, account) ==
  Mul(Int2F(100), SumOver([t \in DOMAIN ledger.drag |-> t],
                          LAMBDA t : FiniteOr0(Mul(ledger.drag[t], account[t].equity))))

(* The bars reported for a block: where its conditions fire and where it   *)
(* acted. indicator_series: the arrays of the indicators among the operands. *)
EntryEvent(ev, fires, loop, e) ==
  [fired |-> {t \in 1..Bars(ev) : fires.entries[e].truth[t] \/ e \in loop[t].completed},
   latched |-> Range(loop[Bars(ev)].opens[e]),
   active |-> {t \in 1..Bars(ev) : e \in loop[t].latched}]
ExitEvent(ev, fires, loop, x) ==
  [fired |-> {t \in 1..Bars(ev) : fires.exits[x].truth[t]},
   latched |-> {t \in 1..Bars(ev) : Exits(ev.sg)[x].id \in loop[t].exited}]
ResetEvent(ev, fires, loop, r) ==
  [fired |-> {t \in 1..Bars(ev) : fires.resets[r].fires[t]},
   latched |-> {t \in 1..Bars(ev) : Resets(ev.sg)[r].id \in loop[t].rearmed}]
IndicatorSeries(ev) ==
  LET key == {OperandKey(ev.sg, op) : op \in {o \in Range(Walked(ev.sg)) : o.kind = "indicator"}}
  IN [k \in key |-> ev.at[k]]
=============================================================================
