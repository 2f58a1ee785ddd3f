------------------------------- MODULE HoldPnl ------------------------------
(***************************************************************************)
(* engine/hold_pnl.py: the joint equity of legs that hold a fixed number   *)
(* of option contracts between rolls. A quantity is sized at an open, off  *)
(* the equity of that bar, and its dollar P&L is booked step by step; a    *)
(* futures-notional leg is sized off a reference future, and a delta hedge *)
(* is sized off the option's own quantity.                                 *)
(*                                                                         *)
(* A leg is a record: sign, nav, mode, multFut, multOpt, hedge (None or    *)
(* [factor, every, cap]) and arrays over the bars: premium (of the         *)
(* contract that owns the date), isRoll, rollPremium, active, rollFuture,  *)
(* dailyFuture, and for the hedge delta, price, unitDelta, gate. Bar 0 of  *)
(* the code is index 1; step s of the code goes from index s + 1 to s + 2, *)
(* and is called by the index it starts at.                                *)
(***************************************************************************)
EXTENDS Floats, FiniteSets

(* delta_hedge_qty. *)
HedgeQty(factor, optionQty, delta, unitDelta, cap) ==
  IF ~IsFinite(unitDelta) \/ unitDelta = Zero THEN Zero
  ELSE Clip(Div(Neg(Mul(factor, Mul(optionQty, delta))), unitDelta),
            Neg(Mul(cap, AbsF(optionQty))), Mul(cap, AbsF(optionQty)))

(* _futures_denom_ok. *)
DenomOk(leg, ref) ==
  /\ IsFinite(ref) /\ Positive(ref)
  /\ IsFinite(leg.multFut) /\ Positive(leg.multFut)
  /\ IsFinite(leg.multOpt) /\ Positive(leg.multOpt)

(* What a leg remembers between bars: whether a sized position is held,    *)
(* the open premium, reference future and equity of its segment, the last  *)
(* premium quoted, and the deltas captured at the last hedge rebalance.    *)
Unsized == [holding |-> FALSE, premium |-> NaN, ref |-> NaN, equity |-> One,
            lastFinite |-> NaN, delta |-> NaN, unitDelta |-> NaN]

Futures(leg) == leg.mode = "futures_notional"
OpenPremium(leg, t) == IF leg.isRoll[t] THEN leg.rollPremium[t] ELSE leg.premium[t]
Quotable(x) == IsFinite(x) /\ Positive(x)

(* The reference future of an open at t: the roll's; off a roll the one    *)
(* the segment was sized with, and failing that the day's.                 *)
Reference(leg, carried, t) ==
  IF leg.isRoll[t] \/ IsFinite(leg.rollFuture[t]) THEN leg.rollFuture[t]
  ELSE IF IsFinite(carried) THEN carried ELSE leg.dailyFuture[t]

(* The open of bar 0, before any step. *)
Seed(leg) ==
  LET open == OpenPremium(leg, 1)
      ref == Reference(leg, NaN, 1)
  IN IF ~leg.active[1] \/ ~Quotable(open) \/ (Futures(leg) /\ ~DenomOk(leg, ref))
     THEN Unsized
     ELSE [Unsized EXCEPT !.holding = TRUE, !.premium = open, !.lastFinite = open,
                          !.ref = IF Futures(leg) THEN ref ELSE NaN]

(***************************************************************************)
(* Booking a step: quantity times premium move, as a fraction of the       *)
(* equity at the start of the step.                                        *)
(***************************************************************************)
Accrues(leg, m, equity, s) ==
  m.holding /\ leg.active[s] /\ leg.active[s + 1] /\ equity # Zero

(* The number of contracts, in units of the equity at s; None: unknown. *)
Quantity(leg, m, equity) ==
  LET size == Mul(Mul(leg.sign, leg.nav), Div(m.equity, equity))
  IN IF Futures(leg)
     THEN IF IsFinite(m.ref) /\ m.ref # Zero
          THEN Div(Mul(size, leg.multOpt), Mul(m.ref, leg.multFut)) ELSE None
     ELSE IF IsFinite(m.premium) /\ m.premium # Zero
          THEN Div(size, m.premium) ELSE None

BaseOfBar(leg, m, s) ==                                                \* a mutant
  IF leg.isRoll[s] THEN leg.rollPremium[s] ELSE leg.premium[s]
Base(leg, m, s) == IF leg.isRoll[s] THEN leg.rollPremium[s] ELSE m.lastFinite

OptionPnl(leg, m, equity, s) ==
  LET move == Sub(leg.premium[s + 1], Base(leg, m, s))
      qty == Quantity(leg, m, equity)
  IN IF IsFinite(move) /\ qty # None THEN Mul(qty, move) ELSE Zero

(* The hedge's deltas are taken anew on a rebalance bar, or when there are *)
(* none; s counts from 1 here and from 0 in the code.                      *)
Hedges(leg, s) == leg.hedge # None /\ leg.gate[s]
Captured(leg, m, equity, s) ==
  IF /\ Hedges(leg, s) /\ Quantity(leg, m, equity) # None
     /\ leg.hedge.every <= 1 \/ (s - 1) % leg.hedge.every = 0 \/ ~IsFinite(m.delta)
  THEN [m EXCEPT !.delta = leg.delta[s], !.unitDelta = leg.unitDelta[s]]
  ELSE m
HedgePnl(leg, m, equity, s) ==
  LET c == Captured(leg, m, equity, s)
      move == Sub(leg.price[s + 1], leg.price[s])
      qty == Quantity(leg, m, equity)
  IN IF Hedges(leg, s) /\ qty # None /\ IsFinite(c.delta) /\ IsFinite(move)
     THEN Mul(HedgeQty(leg.hedge.factor, qty, c.delta, c.unitDelta, leg.hedge.cap), move)
     ELSE Zero

Contribution(leg, m, equity, s) ==
  IF Accrues(leg, m, equity, s)
  THEN Add(OptionPnl(leg, m, equity, s), HedgePnl(leg, m, equity, s)) ELSE Zero

(* What booking changes: the last quoted premium and the captured deltas. *)
Booked(leg, m, equity, s) ==
  IF ~Accrues(leg, m, equity, s) THEN m
  ELSE LET q == IF IsFinite(leg.premium[s + 1])
                THEN [m EXCEPT !.lastFinite = leg.premium[s + 1]] ELSE m
       IN Captured(leg, q, equity, s)

(***************************************************************************)
(* Sizing after the step, at bar t with the equity the step ended in.      *)
(***************************************************************************)
Opens(leg, m, t) == leg.isRoll[t] \/ ~m.holding

Opened(leg, m, equity, t) ==
  LET open == OpenPremium(leg, t)
      ref == Reference(leg, m.ref, t)
      c == IF leg.hedge = None THEN m ELSE [m EXCEPT !.delta = NaN, !.unitDelta = NaN]
      anchored == [c EXCEPT !.premium = open, !.lastFinite = open]
  IN IF ~Quotable(open) \/ equity = Zero THEN c
     ELSE IF Futures(leg) /\ ~DenomOk(leg, ref)
          THEN anchored                      \* keeps the last size, if it had one
          ELSE [anchored EXCEPT !.holding = TRUE, !.equity = equity,
                                !.ref = IF Futures(leg) THEN ref ELSE @]

Resized(leg, m, equity, t) ==
  IF ~leg.active[t] THEN [m EXCEPT !.holding = FALSE]
  ELSE IF Opens(leg, m, t) THEN Opened(leg, m, equity, t) ELSE m

(* The factor on the step's contributions that makes them add up to the    *)
(* move of the equity: a wipe-out ends it at 0, not below.                 *)
StepScaleOne(equity, net, ruin) ==                                     \* a mutant
  IF equity = Zero THEN Zero ELSE One
StepScale(equity, net, ruin) ==
  IF equity = Zero THEN Zero
  ELSE IF ~ruin THEN One
  ELSE IF net = Zero THEN Zero ELSE Div(Neg(One), net)

(***************************************************************************)
(* _compound_with_hold: legs is a sequence, step a sequence with the net   *)
(* contribution of everything else. The account after each bar: equity,    *)
(* what was booked in the step before it, its scale, and the legs' memory. *)
(* A step books the legs' contributions, adds up its net, finds out        *)
(* whether it ruins the account, and sizes the legs anew.                  *)
(***************************************************************************)
Ruins(net) == ~IsFinite(net) \/ ~Positive(Add(One, net))
EndedIn(legs, a, t, booked, net, ruin, equity) ==
  [equity |-> equity, net |-> net, booked |-> booked,
   scale |-> StepScale(a.equity, net, ruin),
   mem |-> [k \in DOMAIN legs |->
              IF a.equity = Zero THEN a.mem[k]
              ELSE Resized(legs[k], Booked(legs[k], a.mem[k], a.equity, t - 1), equity, t)]]
StepTaken(legs, a, t, booked, net) ==
  EndedIn(legs, a, t, booked, net, Ruins(net),
          IF a.equity = Zero \/ Ruins(net) THEN Zero ELSE Mul(a.equity, Add(One, net)))
StepBooked(legs, a, t, rest, booked) ==
  StepTaken(legs, a, t, booked,
            Add(rest, SumOver([k \in DOMAIN legs |-> k], LAMBDA k : booked[k])))

FirstBar(legs) ==
  [equity |-> One, scale |-> One, net |-> Zero,
   booked |-> [k \in DOMAIN legs |-> Zero],
   mem |-> [k \in DOMAIN legs |-> Seed(legs[k])]]
NextBar(legs, a, t, rest) ==
  StepBooked(legs, a, t, rest,
    [k \in DOMAIN legs |->
       IF a.equity = Zero THEN Zero
       ELSE Contribution(legs[k], a.mem[k], a.equity, t - 1)])

Compounded(legs, step) ==
  LET A[t \in 1..(Len(step) + 1)] ==
        IF t = 1 THEN FirstBar(legs) ELSE NextBar(legs, A[t - 1], t, step[t - 1])
  IN A

(***************************************************************************)
(* hold_leg_notional_fractions: the same sizing replayed without equity,   *)
(* for the turnover that costs are charged on.                             *)
(***************************************************************************)
ReplaySeed(leg) == Seed(leg)
ReplayOpenedUnanchored(leg, m, t) ==                                   \* a mutant
  LET open == OpenPremium(leg, t)
      ref == Reference(leg, m.ref, t)
  IN IF ~Quotable(open) \/ ~DenomOk(leg, ref) THEN m
     ELSE [m EXCEPT !.premium = open, !.ref = ref, !.holding = TRUE]
ReplayOpened(leg, m, t) ==
  LET open == OpenPremium(leg, t)
      ref == Reference(leg, m.ref, t)
  IN IF ~Quotable(open) THEN m
     ELSE IF DenomOk(leg, ref)
          THEN [m EXCEPT !.premium = open, !.ref = ref, !.holding = TRUE]
          ELSE [m EXCEPT !.premium = open]
Replayed(leg) ==
  LET R[t \in 1..Len(leg.active)] ==
        IF t = 1 THEN ReplaySeed(leg)
        ELSE IF ~leg.active[t] THEN [R[t - 1] EXCEPT !.holding = FALSE]
        ELSE IF Opens(leg, R[t - 1], t) THEN ReplayOpened(leg, R[t - 1], t)
        ELSE R[t - 1]
  IN R

SegmentFraction(leg, m) ==
  IF Quotable(m.premium) /\ IsFinite(m.ref) /\ m.ref # Zero
  THEN Div(Mul(AbsF(leg.nav), Mul(m.premium, leg.multOpt)), Mul(m.ref, leg.multFut))
  ELSE Zero
NotionalFractions(leg) ==
  LET R == Replayed(leg)
  IN [t \in 1..Len(leg.active) |->
        IF Futures(leg)
        THEN IF leg.active[t] /\ R[t].holding THEN SegmentFraction(leg, R[t]) ELSE Zero
        ELSE IF leg.active[t] THEN AbsF(leg.nav) ELSE Zero]

(***************************************************************************)
(* hold_leg_turnover (engine/costs.py): one side per open and close, both  *)
(* sides of a roll the leg is held across; the last bar is not charged.    *)
(***************************************************************************)
HeldAcross(leg, t) == t > 1 /\ leg.isRoll[t] /\ leg.active[t] /\ leg.active[t - 1]
Changed(q, t) == AbsF(Sub(q[t], IF t = 1 THEN Zero ELSE q[t - 1]))

ScalarTurnover(leg, t) ==
  LET q == [b \in 1..t |-> IF leg.active[b] THEN AbsF(leg.nav) ELSE Zero]
  IN Add(Changed(q, t),
         IF HeldAcross(leg, t) THEN Mul(Int2F(2), AbsF(leg.nav)) ELSE Zero)

FractionTurnover(leg, frac, t) ==
  IF HeldAcross(leg, t) THEN
    Add(Changed(frac, t), Sub(Add(frac[t], frac[t - 1]), Changed(frac, t)))
  ELSE Changed(frac, t)

(* roll_turnover_from_flags: the first roll is an open, the others both    *)
(* sides.                                                                  *)
RollTurnover(isRoll, nav, t) ==
  IF ~isRoll[t] THEN Zero
  ELSE IF \E b \in 1..(t - 1) : isRoll[b] THEN Mul(Int2F(2), AbsF(nav)) ELSE AbsF(nav)
=============================================================================
