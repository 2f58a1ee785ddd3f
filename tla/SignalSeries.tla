---------------------------- MODULE SignalSeries ----------------------------
(***************************************************************************)
(* core/api/_series_fetch.py: the series a signal's instruments stand for. *)
(*                                                                         *)
(* A market maps a trading day to the row of each series on that day, or   *)
(* None; a series is named by its warehouse and its name, and one that is  *)
(* in no day's domain is unknown to the warehouse. An instrument is a      *)
(* record: kind ("spot", "continuous", "option", "basket"), name (all that *)
(* identifies it but its source), source ("v1", "v2" or None); an option   *)
(* has hold, nav, sizing, applyMult and hedge, a basket saved (its id or   *)
(* None) and legs, a sequence of [inst, weight]. A request context q has   *)
(* source, start and end (dates or None).                                  *)
(***************************************************************************)
EXTENDS Floats, FiniteSets, SequencesExt

CONSTANT
  Expirations(_)        \* the listed expirations of an option's name

(* effective_data_source: "v1" and "v2" on a ref win over the default. *)
Effective(q, inst) == IF inst.source = None THEN q.source ELSE inst.source
Key(q, inst) == <<Effective(q, inst), inst.name>>

InWindow(q, d) == (q.start = None \/ q.start <= d) /\ (q.end = None \/ d <= q.end)
Known(mk, k) == \E d \in DOMAIN mk : k \in DOMAIN mk[d]
Row(q, mk, inst, d) == mk[d][Key(q, inst)]
Listed(q, mk, inst) ==
  IF Known(mk, Key(q, inst)) THEN {d \in DOMAIN mk : Row(q, mk, inst, d) # None} ELSE {}
Fields == {"close", "open"}

(***************************************************************************)
(* _instrument_identity: what keys an operand. The source is not part of   *)
(* it, nor are the size and the hedge of an option.                        *)
(***************************************************************************)
LeafIdentity(inst) ==
  IF inst.kind = "option" THEN <<"option", inst.name, inst.hold>>
  ELSE <<inst.kind, inst.name>>
Unordered(leg) == [x \in Range(leg) |-> Cardinality({i \in DOMAIN leg : leg[i] = x})]
Identity(inst) ==
  IF inst.kind # "basket" THEN LeafIdentity(inst)
  ELSE IF inst.saved # None THEN <<"basket", "saved", inst.saved>>
  ELSE <<"basket", "inline",
         Unordered([i \in 1..Len(inst.legs) |->
                      <<LeafIdentity(inst.legs[i].inst), inst.legs[i].weight>>])>>

(***************************************************************************)
(* make_signal_fetcher's fetch. A fault is "data", "validation" or None.   *)
(***************************************************************************)
BusinessDays(q, mk) ==
  IF q.start = None \/ q.end = None THEN {} ELSE {d \in DOMAIN mk : InWindow(q, d)}

LeafDates(q, mk, inst) ==
  IF inst.kind = "option" THEN BusinessDays(q, mk)
  ELSE {d \in Listed(q, mk, inst) : InWindow(q, d)}
LeafFault(q, mk, inst, field) ==
  IF LeafDates(q, mk, inst) = {} THEN "data"
  ELSE IF inst.kind # "option" /\ field \notin Fields THEN "validation" ELSE None
LeafAt(q, mk, inst, field, d) ==
  IF d \in Listed(q, mk, inst)
  THEN IF inst.kind = "option" THEN Row(q, mk, inst, d).close
       ELSE Row(q, mk, inst, d)[field]
  ELSE NaN

Legs(inst) == {inst.legs[i].inst : i \in 1..Len(inst.legs)}
SharedDates(q, mk, inst) ==
  {d \in DOMAIN mk : \A leg \in Legs(inst) : d \in LeafDates(q, mk, leg)}

FetchFault(q, mk, inst, field) ==
  IF inst.kind # "basket" THEN LeafFault(q, mk, inst, field)
  ELSE IF \E leg \in Legs(inst) : LeafFault(q, mk, leg, field) = "validation"
       THEN "validation"
  ELSE IF \/ inst.legs = <<>> \/ SharedDates(q, mk, inst) = {}
          \/ \E leg \in Legs(inst) : LeafFault(q, mk, leg, field) = "data"
       THEN "data" ELSE None

FetchDates(q, mk, inst) ==
  IF inst.kind = "basket" THEN SharedDates(q, mk, inst) ELSE LeafDates(q, mk, inst)
FetchAt(q, mk, inst, field, d) ==
  IF inst.kind # "basket" THEN LeafAt(q, mk, inst, field, d)
  ELSE SumOver([i \in 1..Len(inst.legs) |-> i],
               LAMBDA i : Mul(inst.legs[i].weight,
                              LeafAt(q, mk, inst.legs[i].inst, field, d)))

(* fetch_continuous_roll_info: the days on which the series changed        *)
(* contract, by the instrument itself, not by its identity.                *)
ContinuousRolls(q, mk, inst) ==
  {d \in LeafDates(q, mk, inst) : Row(q, mk, inst, d).roll}

(* fetch_hold_roll_info of a held option: x off its listed days.           *)
HoldAt(q, mk, inst, field, d, x) ==
  IF d \in LeafDates(q, mk, inst) \cap Listed(q, mk, inst)
  THEN Row(q, mk, inst, d)[field] ELSE x

(***************************************************************************)
(* compute_input_overlap (core/api/signals.py): the window the signal runs *)
(* in is that of the days its inputs share.                                *)
(***************************************************************************)

(* _date_array_for_leaf_instrument. *)
AxisDates(q, mk, inst) ==
  IF inst.kind # "option" THEN LeafDates(q, mk, inst)
  ELSE LET e == Expirations(inst.name)
       IN {d \in DOMAIN mk : InWindow(q, d) /\ (\E x \in e : x <= d) /\ \E x \in e : d <= x}
(* basket_leg_date_intersection. *)
InputDates(q, mk, inst) ==
  IF inst.kind # "basket" THEN AxisDates(q, mk, inst)
  ELSE {d \in DOMAIN mk : \A leg \in Legs(inst) : d \in AxisDates(q, mk, leg)}

DependsOnOptions(inst) ==
  inst.kind = "option" \/ (inst.kind = "basket" /\ \E leg \in Legs(inst) : leg.kind = "option")
NeedsOverlap(inputs) ==
  Len(inputs) > 1 \/ (Len(inputs) = 1 /\ DependsOnOptions(inputs[1].inst))
Overlap(q, mk, inputs) ==
  {d \in DOMAIN mk : \A i \in 1..Len(inputs) : d \in InputDates(q, mk, inputs[i].inst)}

Clipped(q, mk, inputs) ==
  IF NeedsOverlap(inputs) /\ Overlap(q, mk, inputs) # {}
  THEN [q EXCEPT !.start = Min(Overlap(q, mk, inputs)), !.end = Max(Overlap(q, mk, inputs))]
  ELSE q
OverlapFault(q, mk, inputs) == NeedsOverlap(inputs) /\ Overlap(q, mk, inputs) = {}
=============================================================================
