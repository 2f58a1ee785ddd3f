---------------------------- MODULE SignalRequest ---------------------------
(***************************************************************************)
(* core/api/signals.py: from the body of POST /api/signals/compute to the  *)
(* signal the engine evaluates, and from its result to the answer.         *)
(*                                                                         *)
(* A body has source, start, end, inputs, entries, exits, resets,          *)
(* indicators (a sequence of [id, code, params, labels, base]) and rate.   *)
(* Its blocks are those of SignalConditions, with these differences:       *)
(* targets is None or a sequence of names, target is the single name of    *)
(* older clients, removedTarget the id of still older ones, pulse is None  *)
(* or a string, actualExit is "unset" or a string, and the condition op    *)
(* "hysteresis" has a direction. An integer that is no integer is sent as  *)
(* -1, and a cap that is no pair of numbers as <<>>. A basket input saved  *)
(* under an id gets its legs from the store: baskets, a function from an   *)
(* id to [class, legs].                                                    *)
(***************************************************************************)
EXTENDS SignalBook

CONSTANT V2Floor          \* the first date the v2 warehouse has options for

(***************************************************************************)
(* Inputs (_resolve_basket_inputs, _parse_input).                          *)
(***************************************************************************)
KindOfClass(class) ==
  CASE class \in {"equity", "index"} -> "spot"
    [] class = "future" -> "continuous"
    [] class = "option" -> "option"
    [] OTHER -> None
BadLeg(inst) == inst.name = None \/ (inst.kind = "option" /\ inst.hold)
BadBasket(baskets, inst) ==
  IF inst.saved = None THEN \E leg \in Legs(inst) : BadLeg(leg)
  ELSE \/ inst.saved \notin DOMAIN baskets
       \/ baskets[inst.saved].legs = <<>>
       \/ \E leg \in Legs(baskets[inst.saved]) :
            leg.kind # KindOfClass(baskets[inst.saved].class) \/ BadLeg(leg)
Materialised(baskets, inst) ==
  IF inst.kind = "basket" /\ inst.saved # None
  THEN [inst EXCEPT !.legs = baskets[inst.saved].legs] ELSE inst

BadCap(cap) ==
  cap # None /\ (Len(cap) # 2 \/ \E x \in Range(cap) : ~IsFinite(x) \/ Less(cap[2], cap[1]))
BadInput(baskets, input) ==
  \/ input.id = None \/ BadCap(input.cap) \/ input.lag < 0
  \/ IF input.inst.kind = "basket" THEN BadBasket(baskets, input.inst)
     ELSE input.inst.name = None

(***************************************************************************)
(* Conditions and blocks (_parse_condition, _parse_links, _parse_blocks).  *)
(***************************************************************************)
BadOperand(op) ==
  \/ op = None
  \/ CASE op.kind = "indicator" -> op.id = None \/ op.input = None
       [] op.kind = "instrument" -> op.input = None
       [] op.kind = "constant" -> op.value = None
BadCondition(c) ==
  \/ \E i \in DOMAIN c.args : BadOperand(c.args[i])
  \/ c.op \in {"gt", "lt", "ge", "le", "eq", "rolling_gt", "rolling_lt"} /\ c.n < 1
  \/ Crossing(c) /\ (c.n < 1 \/ c.window < 1 \/ c.mode \notin {"rolling", "since_reset"})
  \/ c.op = "hysteresis" /\ c.direction \notin {"up", "down"}
ParsedCondition(c) ==
  [op |-> IF c.op = "hysteresis"
          THEN IF c.direction = "up" THEN "hysteresis_up" ELSE "hysteresis_down" ELSE c.op,
   args |-> c.args, n |-> c.n, window |-> c.window, sinceReset |-> c.mode = "since_reset"]

TargetsOf(b) ==
  IF b.targets # None THEN b.targets ELSE IF b.target # None THEN <<b.target>> ELSE <<>>
HasTarget(b) == (b.targets # None /\ b.targets # <<>>) \/ b.target # None
Placeholder(b) ==
  b.conds = <<>> /\ b.input = None /\ b.id = None /\ b.weight = Zero /\ ~HasTarget(b)

BadResetBlock(b) ==
  \/ b.input # None \/ b.weight # Zero \/ HasTarget(b) \/ b.removedTarget # None
  \/ b.reset # None \/ b.count # 1 \/ DOMAIN b.links # {} \/ b.pulse # None
  \/ b.actualExit # "unset"
(* i is the index of the block in its section: an id or a name may not     *)
(* repeat that of an earlier entry, placeholders aside.                    *)
BadEntryBlock(blocks, i) ==
  LET b == blocks[i]
  IN \/ HasTarget(b) \/ b.removedTarget # None
     \/ b.weight = Zero \/ Less(Int2F(100), AbsF(b.weight))
     \/ \E j \in 1..(i - 1) :
          /\ ~Placeholder(blocks[j])
          /\ blocks[j].id = b.id \/ (b.name # None /\ blocks[j].name = b.name)
BadExitBlock(b, names) ==
  \/ b.input # None \/ b.removedTarget # None \/ TargetsOf(b) = <<>>
  \/ \E i, j \in DOMAIN TargetsOf(b) : i # j /\ TargetsOf(b)[i] = TargetsOf(b)[j]
  \/ ~(Range(TargetsOf(b)) \subseteq names)
BadBinding(b, resetIds) ==
  \/ b.reset # None /\ b.reset \notin resetIds
  \/ b.count < 1
  \/ \E i \in DOMAIN b.links : i \notin 2..Len(b.conds) \/ b.links[i] < 1
  \/ b.pulse # None /\ b.pulse \notin {"pulse", "sustained"}
  \/ b.actualExit \notin {"unset", "yes", "no"}

BadBlocks(blocks, bad) ==       \* bad: the blocks that their own kind refuses
  \E i \in DOMAIN blocks :
    \/ \E j \in DOMAIN blocks[i].conds : BadCondition(blocks[i].conds[j])
    \/ ~Placeholder(blocks[i]) /\ (blocks[i].id = None \/ i \in bad)
ParsedBlocks(blocks) ==
  [i \in DOMAIN blocks |->
    LET b == blocks[i]
    IN [id |-> b.id, name |-> b.name, input |-> b.input, weight |-> b.weight,
        conds |-> [j \in DOMAIN b.conds |-> ParsedCondition(b.conds[j])],
        targets |-> Range(TargetsOf(b)), enabled |-> b.enabled, reset |-> b.reset,
        count |-> b.count, actualExit |-> ~Placeholder(b) /\ b.actualExit = "yes",
        links |-> IF Placeholder(b) THEN [x \in {} |-> 1] ELSE b.links,
        pulse |-> ~Placeholder(b) /\ b.pulse = "pulse"]]

(* parse_signal *)
Unparsed(baskets, body) ==
  LET ids == {b.id : b \in Range(body.resets)} \ {None}
      names == NamesOf(body.entries)
  IN \/ \E i \in DOMAIN body.inputs : BadInput(baskets, body.inputs[i])
     \/ BadBlocks(body.resets, {i \in DOMAIN body.resets : BadResetBlock(body.resets[i])})
     \/ BadBlocks(body.entries, {i \in DOMAIN body.entries : BadEntryBlock(body.entries, i)
                                                       \/ BadBinding(body.entries[i], ids)})
     \/ BadBlocks(body.exits, {i \in DOMAIN body.exits : BadExitBlock(body.exits[i], names)
                                                     \/ BadBinding(body.exits[i], ids)})
Parsed(baskets, body) ==
  LET Spec(id) == CHOOSE s \in Range(body.indicators) : s.id = id
  IN [inputs |-> [i \in DOMAIN body.inputs |->
                    [body.inputs[i] EXCEPT !.inst = Materialised(baskets, @)]],
      entries |-> ParsedBlocks(body.entries), exits |-> ParsedBlocks(body.exits),
      resets |-> ParsedBlocks(body.resets),
      indicators |-> [id \in {s.id : s \in Range(body.indicators)} |-> Spec(id)]]

(***************************************************************************)
(* compute_signal: the first refusal, or the answer.                       *)
(***************************************************************************)
Options(sg) ==
  UNION {IF i.inst.kind = "basket" THEN {x \in Legs(i.inst) : x.kind = "option"}
         ELSE {x \in {i.inst} : x.kind = "option"} : i \in Range(sg.inputs)}
OnV2(q, inst) == Effective(q, inst) = "v2"

Duplicated(s) == \E i, j \in DOMAIN s : i # j /\ s[i].id = s[j].id
RequestRefusal(baskets, body) ==
  IF Unparsed(baskets, body) THEN "validation"
  ELSE LET on == {x \in Options(Parsed(baskets, body)) : OnV2(body, x)}
       IN IF \E x \in on : ~x.inV2 THEN "v2 collection"
          ELSE IF on # {} /\ body.start # None /\ body.start < V2Floor THEN "v2 coverage"
          ELSE IF Duplicated(body.indicators) THEN "validation" ELSE None

(* The window is that of the days the inputs share; the engine then works  *)
(* within it.                                                              *)
Refusal(baskets, mk, body) ==
  IF RequestRefusal(baskets, body) # None THEN RequestRefusal(baskets, body)
  ELSE LET sg == Parsed(baskets, body)
       IN IF OverlapFault(body, mk, sg.inputs) THEN "data"
          ELSE IF Duplicated(sg.inputs) THEN "validation"
          ELSE BookFault(Clipped(body, mk, sg.inputs), mk, sg)

(* What the answer says of an input: its instrument, with the warehouse    *)
(* named when the instrument names v2 itself.                              *)
InstrumentPayload(inst) ==
  [kind |-> inst.kind, name |-> inst.name, v2 |-> inst.kind # "basket" /\ inst.source = "v2"]

Response(ev, fires, loop, ledger, account) ==
  LET ids == Referenced(ev.sg)
  IN [timestamps |-> ev.index,
      positions |-> [k \in DOMAIN ids |->
        [input |-> ids[k], instrument |-> InstrumentPayload(Instrument(ev.sg, ids[k])),
         values |-> ledger.position[ids[k]], price |-> ledger.price[ids[k]]]],
      realized |-> [k \in DOMAIN ids |-> Realized(ledger, account, ids[k])],
      equity |-> [t \in DOMAIN account |-> account[t].equity],
      paid |-> CostsPaid(ledger, account), trades |-> TradesOf(ev.sg, loop),
      events |-> [entries |-> [e \in DOMAIN Entries(ev.sg) |-> EntryEvent(ev, fires, loop, e)],
                  exits |-> [x \in DOMAIN Exits(ev.sg) |-> ExitEvent(ev, fires, loop, x)],
                  resets |-> [r \in DOMAIN Resets(ev.sg) |-> ResetEvent(ev, fires, loop, r)]],
      indicators |-> IndicatorSeries(ev)]
=============================================================================
