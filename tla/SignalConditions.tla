-------------------------- MODULE SignalConditions --------------------------
(***************************************************************************)
(* The vectorised half of tcg/engine/signal_exec.py: operands are fetched  *)
(* and aligned on one calendar, conditions become arrays of truth values   *)
(* and of missing values, blocks become arrays of firings.                 *)
(*                                                                         *)
(* A signal sg has inputs, a sequence of [id, inst, cap, lag], entries,    *)
(* exits and resets, sequences of blocks, and indicators, a function from  *)
(* an id to [code, params, labels, base]. A block has id, name, conds,     *)
(* input, weight (a fraction), targets (a set of entry names), enabled,    *)
(* reset (an id or None), count, links (a function from the index of a     *)
(* condition to a window; index 1 is the code's 0), pulse and actualExit.  *)
(* A condition has op, args (operands, in the order of the dataclass), n   *)
(* (consecutive_days, lookback or count), window and sinceReset.           *)
(***************************************************************************)
EXTENDS SignalSeries, ChainStep

CONSTANT RunIndicator(_, _, _)   \* user code: (code, params, series) to an array,
                                 \* or None when it raises

Bools(n, f(_)) == [t \in 1..n |-> f(t)]
Never(n) == [t \in 1..n |-> FALSE]

(***************************************************************************)
(* Operands: [kind, value], [kind, input, field] or                        *)
(* [kind, id, input, params, series].                                      *)
(***************************************************************************)
InputIds(sg) == {sg.inputs[i].id : i \in 1..Len(sg.inputs)}
InputOf(sg, id) == sg.inputs[CHOOSE i \in 1..Len(sg.inputs) : sg.inputs[i].id = id]
Instrument(sg, id) == InputOf(sg, id).inst

(* _merge_indicator_effective: an override, else the operand's input for   *)
(* the first label, else the instrument of the indicator's own map.        *)
MergedParams(op, spec) == op.params @@ spec.params
MergeFault(sg, op) ==
  LET spec == sg.indicators[op.id]
  IN \/ op.input \notin InputIds(sg) \/ spec.labels = <<>>
     \/ \E i \in 1..Len(spec.labels) :
          IF spec.labels[i] \in DOMAIN op.series
          THEN op.series[spec.labels[i]] \notin InputIds(sg)
          ELSE i > 1 /\ spec.labels[i] \notin DOMAIN spec.base
MergedFor(sg, op, spec) ==
  [i \in 1..Len(spec.labels) |->
     IF spec.labels[i] \in DOMAIN op.series
     THEN Instrument(sg, op.series[spec.labels[i]])
     ELSE IF i = 1 THEN Instrument(sg, op.input)
     ELSE spec.base[spec.labels[i]]]
MergedSeries(sg, op) == MergedFor(sg, op, sg.indicators[op.id])

(* _operand_key: operands of one key share one series. *)
Identities(insts) == [i \in DOMAIN insts |-> Identity(insts[i])]
OperandKey(sg, op) ==
  CASE op.kind = "constant"   -> <<"constant", op.value>>
    [] op.kind = "instrument" ->
         <<"instrument", Identity(Instrument(sg, op.input)), op.field>>
    [] op.id \notin DOMAIN sg.indicators -> <<"indicator", op.id, "MISSING", op.input>>
    [] OTHER -> <<"indicator", op.id, MergedParams(op, sg.indicators[op.id]),
                  Identities(MergedSeries(sg, op))>>

(* The days of a set in order: the k-th has k - 1 days before it.          *)
InOrder(days) ==
  [k \in 1..Cardinality(days) |->
     CHOOSE d \in days : Cardinality({e \in days : e < d}) = k - 1]

(* _resolve_operand: what fetching an operand may end in, and its series,  *)
(* a function from its days. An indicator runs on the days its series      *)
(* share.                                                                  *)
IndicatorDays(q, mk, sg, op) ==
  {d \in DOMAIN mk : \A i \in 1..Len(MergedSeries(sg, op)) :
                       d \in FetchDates(q, mk, MergedSeries(sg, op)[i])}
IndicatorValues(q, mk, sg, op) ==
  LET insts == MergedSeries(sg, op)
      days == InOrder(IndicatorDays(q, mk, sg, op))
  IN RunIndicator(sg.indicators[op.id].code, MergedParams(op, sg.indicators[op.id]),
                  [i \in 1..Len(insts) |-> [t \in 1..Len(days) |->
                     FetchAt(q, mk, insts[i], "close", days[t])]])
OperandFault(q, mk, sg, op) ==
  CASE op.kind = "constant" -> None
    [] op.kind = "instrument" ->
         IF op.input \notin InputIds(sg) THEN "validation"
         ELSE FetchFault(q, mk, Instrument(sg, op.input), op.field)
    [] op.kind = "indicator" ->
         IF op.id \notin DOMAIN sg.indicators THEN "data"
         ELSE IF MergeFault(sg, op) THEN "validation"
         ELSE LET fault == {FetchFault(q, mk, MergedSeries(sg, op)[i], "close") :
                              i \in 1..Len(MergedSeries(sg, op))} \ {None}
              IN IF fault # {} THEN CHOOSE f \in fault : TRUE
                 ELSE IF IndicatorDays(q, mk, sg, op) = {} THEN "validation"
                 ELSE IF IndicatorValues(q, mk, sg, op) = None THEN "runtime" ELSE None
OperandSeries(q, mk, sg, op) ==
  IF op.kind = "instrument"
  THEN LET inst == Instrument(sg, op.input)
       IN [d \in FetchDates(q, mk, inst) |-> FetchAt(q, mk, inst, op.field, d)]
  ELSE LET days == IndicatorDays(q, mk, sg, op)
           value == IndicatorValues(q, mk, sg, op)
       IN [d \in days |-> value[Cardinality({e \in days : e <= d})]]

(***************************************************************************)
(* Which blocks take part, and the operands of a signal: those of usable   *)
(* exits, of every enabled entry and reset, and the close of each input a  *)
(* usable entry trades. The first operand of a key resolves its series.    *)
(***************************************************************************)
UsableEntry(sg, b) ==
  /\ b.enabled /\ b.id # None /\ b.conds # <<>> /\ b.input \in InputIds(sg)
  /\ b.weight # Zero /\ Leq(AbsF(b.weight), Int2F(100))
UsableReset(b) == b.enabled /\ b.id # None /\ b.conds # <<>>
Entries(sg) == SelectSeq(sg.entries, LAMBDA b : UsableEntry(sg, b))
Resets(sg) == SelectSeq(sg.resets, UsableReset)
NamesOf(blocks) == {b.name : b \in Range(blocks)} \ {None}
UsableExit(sg, b) ==
  /\ b.enabled /\ b.id # None /\ b.conds # <<>>
  /\ b.targets \cap NamesOf(Entries(sg)) # {}
Exits(sg) == SelectSeq(sg.exits, LAMBDA b : UsableExit(sg, b))
Aims(exit, entry) == entry.name # None /\ entry.name \in exit.targets

DuplicateEntry(sg) ==
  LET e == Entries(sg)
  IN \E i, j \in DOMAIN e : /\ i # j
                           /\ \/ e[i].id = e[j].id
                              \/ e[i].name # None /\ e[i].name = e[j].name

(* The elements of s whose key is not that of an earlier one. *)
Firsts(s, key) ==
  LET fresh == SetToSortSeq({i \in DOMAIN s : \A j \in 1..(i - 1) : key[j] # key[i]}, <)
  IN [k \in DOMAIN fresh |-> s[fresh[k]]]
EachOnce(ids) == Firsts(ids, ids)
InputsTraded(entries) == [i \in DOMAIN entries |-> entries[i].input]
Referenced(sg) == EachOnce(InputsTraded(Entries(sg)))

OperandsOf(blocks) ==
  FlattenSeq([i \in DOMAIN blocks |->
    FlattenSeq([j \in DOMAIN blocks[i].conds |-> blocks[i].conds[j].args])])
Walked(sg) ==
  LET On(b) == b.enabled
  IN OperandsOf(Exits(sg) \o SelectSeq(sg.entries, On) \o SelectSeq(sg.resets, On))
ClosesOf(ids) ==
  [i \in DOMAIN ids |-> [kind |-> "instrument", input |-> ids[i], field |-> "close"]]
Operands(sg) == Walked(sg) \o ClosesOf(Referenced(sg))

KeyFault(sg, op) ==
  \/ op.kind = "instrument" /\ op.input \notin InputIds(sg)
  \/ op.kind = "indicator" /\ op.id \in DOMAIN sg.indicators /\ MergeFault(sg, op)
Keyed(sg, op) == Firsts(op, [i \in DOMAIN op |-> OperandKey(sg, op[i])])
Resolving(sg) == Keyed(sg, Operands(sg))

FirstFault(faults) ==
  LET bad == {i \in DOMAIN faults : faults[i] # None}
  IN IF bad = {} THEN None ELSE faults[Min(bad)]
FaultOf(q, mk, sg, op) == FirstFault([i \in DOMAIN op |-> OperandFault(q, mk, sg, op[i])])
EvalFault(q, mk, sg) ==
  IF \E op \in Range(Operands(sg)) : KeyFault(sg, op) THEN "validation"
  ELSE FaultOf(q, mk, sg, Resolving(sg))

(* _union_align: one calendar, NaN where a series has no such day. raw has *)
(* the series of the operands that are no constants.                       *)
OnIndex(sg, op, raw, index) ==
  [sg |-> sg, index |-> index,
   at |-> [k \in {OperandKey(sg, op[i]) : i \in DOMAIN op} |->
     LET i == CHOOSE i \in DOMAIN op : OperandKey(sg, op[i]) = k
     IN [t \in DOMAIN index |->
           IF i \notin DOMAIN raw THEN op[i].value
           ELSE IF index[t] \in DOMAIN raw[i] THEN raw[i][index[t]] ELSE NaN]]]
UnionAligned(sg, op, raw) ==
  OnIndex(sg, op, raw, InOrder(UNION {DOMAIN raw[i] : i \in DOMAIN raw}))
AlignedOf(q, mk, sg, op) ==
  UnionAligned(sg, op, [i \in {k \in DOMAIN op : op[k].kind # "constant"} |->
                          OperandSeries(q, mk, sg, op[i])])
Aligned(q, mk, sg) == AlignedOf(q, mk, sg, Resolving(sg))

(***************************************************************************)
(* Conditions. ev is what Aligned returns; t is a bar, bar 0 being 1.      *)
(***************************************************************************)
Bars(ev) == Len(ev.index)
ArrayOf(ev, op) == ev.at[OperandKey(ev.sg, op)]
Rolling(c) == c.op \in {"rolling_gt", "rolling_lt"}
Crossing(c) == c.op \in {"cross_above", "cross_below"}
Episode(c) == c.op \in {"hysteresis_up", "hysteresis_down"}

Missing(ev, c, t) ==
  \/ \E i \in DOMAIN c.args : IsNaN(ArrayOf(ev, c.args[i])[t])
  \/ Rolling(c) /\ (t <= c.n \/ IsNaN(ArrayOf(ev, c.args[1])[t - c.n]))

ArraysOf(ev, c) == [i \in DOMAIN c.args |-> ArrayOf(ev, c.args[i])]
LevelOf(c, x, t) ==
  CASE c.op = "gt" -> Less(x[2][t], x[1][t])
    [] c.op = "lt" -> Less(x[1][t], x[2][t])
    [] c.op = "ge" -> Leq(x[2][t], x[1][t])
    [] c.op = "le" -> Leq(x[1][t], x[2][t])
    [] c.op = "eq" -> x[1][t] = x[2][t] /\ ~IsNaN(x[1][t])
    [] c.op = "in_range" -> Leq(x[2][t], x[1][t]) /\ Leq(x[1][t], x[3][t])
    [] c.op = "cross_above" ->
         t > 1 /\ Leq(x[1][t - 1], x[2][t - 1]) /\ Less(x[2][t], x[1][t])
    [] c.op = "cross_below" ->
         t > 1 /\ Leq(x[2][t - 1], x[1][t - 1]) /\ Less(x[1][t], x[2][t])
    [] c.op = "rolling_gt" -> t > c.n /\ Less(x[1][t - c.n], x[1][t])
    [] c.op = "rolling_lt" -> t > c.n /\ Less(x[1][t], x[1][t - c.n])
Level(ev, c, t) == LevelOf(c, ArraysOf(ev, c), t)

(* How often f holds in the first t bars: the prefix sums of the windows.  *)
Tally(f) ==
  LET S[t \in 0..Len(f)] == IF t = 0 THEN 0 ELSE S[t - 1] + (IF f[t] THEN 1 ELSE 0)
  IN S

(* _consecutive_true, and the count-in-window of a crossing: a window that *)
(* starts before the first bar satisfies no run, and is cut for a count.   *)
Consecutive(f, n) ==
  IF n <= 1 THEN f
  ELSE LET S == Tally(f)
       IN [t \in DOMAIN f |-> t >= n /\ S[t] - S[t - n] = n]
Windowed(f, window, count) ==
  LET S == Tally(f)
  IN [t \in DOMAIN f |-> S[t] - S[Max({0, t - window})] >= count]

(* _cross_since_reset: a reset wipes the count before the bar's own pulse, *)
(* and so does reaching it.                                                *)
SinceResetLate(f, reset, n) ==                                         \* a mutant
  LET C[t \in 0..Len(f)] ==
        IF t = 0 THEN [seen |-> 0, out |-> FALSE]
        ELSE LET now == C[t - 1].seen + (IF f[t] THEN 1 ELSE 0)
                 out == f[t] /\ now >= n
             IN [seen |-> IF reset[t] \/ out THEN 0 ELSE now, out |-> out]
  IN [t \in DOMAIN f |-> C[t].out]
SinceReset(f, reset, n) ==
  LET C[t \in 0..Len(f)] ==
        IF t = 0 THEN [seen |-> 0, out |-> FALSE]
        ELSE LET before == IF reset[t] THEN 0 ELSE C[t - 1].seen
                 now == before + (IF f[t] THEN 1 ELSE 0)
                 out == f[t] /\ now >= n
             IN [seen |-> IF out THEN 0 ELSE now, out |-> out]
  IN [t \in DOMAIN f |-> C[t].out]

(* _hysteresis_episode: one firing per excursion, on the way back; a bar   *)
(* with a missing value changes nothing.                                   *)
Beyond(up, x, y) == IF up THEN Less(y, x) ELSE Less(x, y)
Hysteresis(n, up, x, enter, exit) ==
  LET H[t \in 0..n] ==
        IF t = 0 THEN [armed |-> FALSE, out |-> FALSE]
        ELSE LET was == H[t - 1].armed
                 fires == was /\ Beyond(up, exit[t], x[t])
             IN IF IsNaN(x[t]) \/ IsNaN(enter[t]) \/ IsNaN(exit[t])
                THEN [armed |-> was, out |-> FALSE]
                ELSE [armed |-> ~fires /\ (was \/ Beyond(up, x[t], enter[t])), out |-> fires]
  IN [t \in 1..n |-> H[t].out]

(* _eval_condition; reset is a Boolean array. A windowed count may hold on *)
(* a bar whose own operand is missing.                                     *)
Counted(n, c, x, level, reset) ==
  CASE Episode(c) -> Hysteresis(n, c.op = "hysteresis_up", x[1], x[2], x[3])
    [] Crossing(c) /\ c.sinceReset -> SinceReset(level, reset, c.n)
    [] Crossing(c) /\ ~c.sinceReset ->
         IF c.n = 1 /\ c.window = 1 THEN level ELSE Windowed(level, c.window, c.n)
    [] Rolling(c) \/ c.op = "in_range" -> level
    [] OTHER -> Consecutive(level, c.n)
TruthOf(n, c, x, reset) == Counted(n, c, x, Bools(n, LAMBDA t : LevelOf(c, x, t)), reset)
Truth(ev, c, reset) == TruthOf(Bars(ev), c, ArraysOf(ev, c), reset)

(***************************************************************************)
(* Blocks. _eval_block_activity: the AND of the conditions, or the firings *)
(* of a THEN-chain; missing is the OR over all of them.                    *)
(***************************************************************************)
Boundaries(b) ==
  IF Len(b.conds) < 2 THEN {}
  ELSE {i \in DOMAIN b.links : i \in 2..Len(b.conds) /\ b.links[i] >= 1}
Chained(b) == Boundaries(b) # {}
(* _link_groups: the stages as sets of condition indices, their windows.   *)
Stages(b) ==
  LET head == <<1>> \o SetToSortSeq(Boundaries(b), <) \o <<Len(b.conds) + 1>>
  IN [s \in 1..(Len(head) - 1) |-> head[s]..(head[s + 1] - 1)]
Windows(b) ==
  LET at == SetToSortSeq(Boundaries(b), <) IN [s \in DOMAIN at |-> b.links[at[s]]]

AnyMissing(ev, b) ==
  Bools(Bars(ev), LAMBDA t : \E i \in DOMAIN b.conds : Missing(ev, b.conds[i], t))

Truths(ev, b, reset) == [i \in DOMAIN b.conds |-> Truth(ev, b.conds[i], reset)]

(* The stages of a chain that match, and that miss a value, at each bar.   *)
StageArrays(ev, b, reset) ==
  LET truth == Truths(ev, b, reset)
      stage == Stages(b)
      S == 0..(Len(stage) - 1)
  IN [match |-> [t \in 1..Bars(ev) |->
                   {s \in S : \A i \in stage[s + 1] : truth[i][t]}],
      gap |-> [t \in 1..Bars(ev) |->
                 {s \in S : \E i \in stage[s + 1] : Missing(ev, b.conds[i], t)}],
      win |-> Windows(b)]

ChainFires(a, abort) ==
  LET C[t \in 0..Len(a.match)] ==
        IF t = 0 THEN Idle
        ELSE ChainNext(C[t - 1], a.win, t, a.match[t], a.gap[t], abort[t])
  IN [t \in DOMAIN a.match |->
        Completes(C[t - 1], a.win, t, a.match[t], a.gap[t], abort[t])]

(* _to_pulse: rising edges, over the bars where nothing is missing.        *)
ToPulse(active, missing) ==
  LET P[t \in 0..Len(active)] ==
        IF t = 0 THEN FALSE ELSE IF missing[t] THEN P[t - 1] ELSE active[t]
  IN [t \in DOMAIN active |-> active[t] /\ ~missing[t] /\ ~P[t - 1]]

AllOf(n, truth) == Bools(n, LAMBDA t : \A i \in DOMAIN truth : truth[i][t])
Pulsed(ev, b, all) == IF b.pulse THEN ToPulse(all, AnyMissing(ev, b)) ELSE all
ActivityOf(ev, b, wipe, abort) ==
  IF Chained(b) THEN ChainFires(StageArrays(ev, b, wipe), abort)
  ELSE Pulsed(ev, b, AllOf(Bars(ev), Truths(ev, b, wipe)))
(* cond_reset: the exits that cancel a chain also wipe the counts of its   *)
(* block.                                                                  *)
Wiped(ev, reset, abort) == Bools(Bars(ev), LAMBDA t : reset[t] \/ abort[t])

(***************************************************************************)
(* Every block's firings over the calendar (evaluate_signal, before the    *)
(* latch loop), by the position of the block in its section.               *)
(***************************************************************************)
NoReset(ev) == Never(Bars(ev))
Clean(active, missing) == [t \in DOMAIN active |-> active[t] /\ ~missing[t]]
ResetFires(ev, r) == Clean(ActivityOf(ev, r, NoReset(ev), NoReset(ev)), AnyMissing(ev, r))

(* _reset_fire_for: of the reset blocks of one id, the last.               *)
ResetOf(ev, b) ==
  LET bound == {i \in DOMAIN Resets(ev.sg) : Resets(ev.sg)[i].id = b.reset}
      counts == \E i \in DOMAIN b.conds : Crossing(b.conds[i]) /\ b.conds[i].sinceReset
  IN IF counts /\ b.reset # None /\ bound # {}
     THEN ResetFires(ev, Resets(ev.sg)[Max(bound)]) ELSE NoReset(ev)

(* exit_truth and exit_nan are kept by id: the last exit of an id speaks   *)
(* for all of them.                                                        *)
ExitOwn(ev, b) ==
  [truth |-> ActivityOf(ev, b, ResetOf(ev, b), NoReset(ev)), missing |-> AnyMissing(ev, b)]
ExitsSpeaking(x, own) == [i \in DOMAIN x |-> own[Max({j \in DOMAIN x : x[j].id = x[i].id})]]
ExitArraysOf(ev, x) == ExitsSpeaking(x, [i \in DOMAIN x |-> ExitOwn(ev, x[i])])
ExitArrays(ev) == ExitArraysOf(ev, Exits(ev.sg))

(* entry_chain_reset: a targeting exit fires with nothing missing.         *)
ChainReset(ev, exits, e) ==
  LET x == Exits(ev.sg)
  IN Bools(Bars(ev), LAMBDA t : \E i \in DOMAIN x :
       Aims(x[i], e) /\ exits[i].truth[t] /\ ~exits[i].missing[t])
Targeted(ev, e) == \E x \in Range(Exits(ev.sg)) : Aims(x, e)
Gated(ev, e) == e.actualExit /\ Targeted(ev, e) /\ Chained(e)

(* What the counts of an entry are wiped by: of one that is gated, the     *)
(* stages are precomputed from the bound reset alone.                      *)
EntryWipe(ev, exits, e) ==
  IF Gated(ev, e) THEN ResetOf(ev, e)
  ELSE Wiped(ev, ResetOf(ev, e), ChainReset(ev, exits, e))
EntryFirings(ev, exits, e, wipe) ==
  [missing |-> AnyMissing(ev, e),
   truth |-> IF Gated(ev, e) THEN NoReset(ev)
             ELSE ActivityOf(ev, e, wipe, ChainReset(ev, exits, e)),
   stages |-> IF Gated(ev, e) THEN StageArrays(ev, e, wipe) ELSE None]
FiringsOf(ev, exits) ==
  LET e == Entries(ev.sg)
      r == Resets(ev.sg)
  IN [exits |-> exits,
      entries |-> [i \in DOMAIN e |-> EntryFirings(ev, exits, e[i], EntryWipe(ev, exits, e[i]))],
      resets |-> [i \in DOMAIN r |-> [fires |-> ResetFires(ev, r[i])]]]
Firings(ev) == FiringsOf(ev, ExitArrays(ev))
=============================================================================
