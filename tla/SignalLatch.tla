----------------------------- MODULE SignalLatch -----------------------------
(***************************************************************************)
(* The sequential latch engine of the signal evaluator                     *)
(* (tcg/engine/signal_exec.py, evaluate_signal): one iteration of the bar  *)
(* loop is the passes clear, chain, enter, reset and emit, in that order.  *)
(*                                                                         *)
(* An entry block opens a position (its latch) when it fires; an exit      *)
(* block closes the positions of the entries it targets; a block bound to  *)
(* a reset block loses its arm when it acts and gets it back only after    *)
(* the reset has fired a given number of times.  What the blocks'          *)
(* conditions say at each bar is up to the market: any combination.        *)
(***************************************************************************)
EXTENDS ChainStep, FiniteSets, FiniteSetsExt

CONSTANT Signals    \* the signals considered
VARIABLES
  signal,       \* the signal under evaluation, a member of Signals
  t,            \* the bar being processed
  phase,        \* the pass about to run
  cursor,       \* the next exit block of the clear pass
  fire,         \* what the blocks' conditions say at bar t
  latched,      \* the entries with an open position
  armed,        \* the bound blocks that may act (block_arm)
  countdown,    \* reset fires a disarmed block still needs (arm_countdown)
  closedNow,    \* entries whose open position was closed at t (closed_this_bar)
  chain,        \* (stage, tau) of each gated entry's chain (seq_stage, seq_tau)
  raw,          \* the same chains under the default rule (_sequence_active)
  completed,    \* gated entries whose chain completes at t (seq_fire_now)
  opens,        \* trade_opens: the bars at which each entry was latched
  closes,       \* trade_closes: the (bar, exit id) that closed each trade
  exitLatched,  \* bars at which each exit id closed something
  resetFired,   \* bars at which each reset fired
  resetLatched, \* bars at which each reset re-armed some block
  position      \* per input, the net position emitted at each bar

armVars == <<armed, countdown>>
ledgerVars == <<latched, opens, closes>>
chainVars == <<chain, raw, completed>>
traceVars == <<exitLatched, resetFired, resetLatched>>
vars == <<signal, t, phase, cursor, fire, closedNow, position,
          armVars, ledgerVars, chainVars, traceVars>>

-----------------------------------------------------------------------------
(* The signal: its usable blocks, their bindings and the grid.             *)

Entries == signal.entries           \* ids of the entry blocks
Exits == DOMAIN signal.exitId       \* the exit blocks in declaration order,
ExitId == signal.exitId             \* the id of each
Targets == signal.targets           \* and the entries each clears
ExitIds == { ExitId[x] : x \in Exits }
Resets == signal.resets             \* ids of the reset blocks
BoundTo == signal.boundTo           \* block id -> the reset it requires (bound_target)
BoundIds == DOMAIN BoundTo
Count == signal.count               \* block id -> fires needed to re-arm (bound_count)
Windows == signal.windows           \* the chain windows of the entries with
Gated == DOMAIN Windows             \* reset_on_actual_exit
Inputs == signal.inputs             \* the instruments positions are taken in
InputOf == signal.inputOf           \* the input of each entry
Weight == signal.weight             \* the signed weight of each entry, in percent
Bars == signal.bars                 \* T, the number of bars of the grid

IsSignal(s) ==
  /\ s.exitId \in Seq(STRING) /\ DOMAIN s.targets = DOMAIN s.exitId
  /\ \A x \in DOMAIN s.targets : s.targets[x] \subseteq s.entries
  /\ DOMAIN s.boundTo \subseteq s.entries \union { s.exitId[x] : x \in DOMAIN s.exitId }
  /\ s.count \in [DOMAIN s.boundTo -> Nat \ {0}]
  /\ DOMAIN s.windows \subseteq s.entries
  /\ \A e \in DOMAIN s.windows : s.windows[e] \in Seq(Nat \ {0}) /\ Len(s.windows[e]) >= 1
  /\ s.inputOf \in [s.entries -> s.inputs] /\ s.weight \in [s.entries -> Int \ {0}]
  /\ s.bars \in Nat

ASSUME SignalsAssumption == \A s \in Signals : IsSignal(s)

-----------------------------------------------------------------------------
(* What the market can make the blocks say at one bar.                     *)

StagesOf(e) == 0 .. LastStage(Windows[e])
Stages == UNION { StagesOf(e) : e \in Gated }

Fires ==
  [ entries : SUBSET (Entries \ Gated),   \* entry_truth of the ordinary entries
    exits   : SUBSET Exits,               \* the exits' own conditions
    exitNan : SUBSET Exits,               \* of which with a missing operand
    resets  : SUBSET Resets,              \* reset_truth and not reset_nan
    match   : [Gated -> SUBSET Stages],   \* the stages that match, per chain
    gap     : [Gated -> SUBSET Stages] ]  \* the stages with a missing operand

Quiet ==
  [ entries |-> {}, exits |-> {}, exitNan |-> {}, resets |-> {},
    match |-> [e \in Gated |-> {}], gap |-> [e \in Gated |-> {}] ]

\* exit_truth is a dict keyed by block id: of the exits sharing an id, the one
\* evaluated last decides for all of them.
Keyed(x) == CHOOSE y \in Exits :
              /\ ExitId[y] = ExitId[x]
              /\ \A z \in Exits : ExitId[z] = ExitId[x] => z <= y

ExitTruth(x) == Keyed(x) \in fire.exits

\* entry_chain_reset: a targeting exit fires on a bar without missing operands.
ChainReset(e) ==
  \E x \in Exits : e \in Targets[x] /\ ExitTruth(x) /\ Keyed(x) \notin fire.exitNan

\* A block without a binding may always act.
MayAct(id) == id \in BoundIds => id \in armed

\* A bound block that acted loses its arm and owes Count fires of its reset.
Disarm(ids) ==
  /\ armed' = armed \ ids
  /\ countdown' = [id \in BoundIds |-> IF id \in ids THEN Count[id] ELSE countdown[id]]

-----------------------------------------------------------------------------
Init ==
  /\ signal \in Signals
  /\ t = 0
  /\ phase = "idle"
  /\ cursor = 1
  /\ fire = Quiet
  /\ latched = {}
  /\ armed = BoundIds
  /\ countdown = [id \in BoundIds |-> 0]
  /\ closedNow = {}
  /\ chain = [e \in Gated |-> Idle]
  /\ raw = [e \in Gated |-> Idle]
  /\ completed = {}
  /\ opens = [e \in Entries |-> <<>>]
  /\ closes = [e \in Entries |-> <<>>]
  /\ exitLatched = [id \in ExitIds |-> {}]
  /\ resetFired = [r \in Resets |-> {}]
  /\ resetLatched = [r \in Resets |-> {}]
  /\ position = [i \in Inputs |-> <<>>]

\* Pass (a): a new bar; the resets that fire at it are recorded.
StartBar(f) ==
  /\ phase = "idle"
  /\ t < Bars
  /\ fire' = f
  /\ resetFired' = [r \in Resets |->
       IF r \in f.resets THEN resetFired[r] \union {t} ELSE resetFired[r]]
  /\ closedNow' = {}
  /\ cursor' = 1
  /\ phase' = "clear"
  /\ UNCHANGED <<signal, t, armVars, ledgerVars, chainVars, exitLatched, resetLatched, position>>

\* Pass (b), one exit block: a firing that may act closes every target that is
\* open, and only then is recorded and consumes the block's arm.
Effective(x) == IF ExitTruth(x) /\ MayAct(ExitId[x])
                  THEN Targets[x] \intersect latched ELSE {}

ClearPass(x) ==
  /\ phase = "clear" /\ cursor = x /\ x \in Exits
  /\ LET closing == Effective(x)
         id == ExitId[x]
     IN  /\ latched' = latched \ closing
         /\ closes' = [e \in Entries |->
              IF e \in closing THEN Append(closes[e], [bar |-> t, exit |-> id])
                               ELSE closes[e]]
         /\ closedNow' = closedNow \union closing
         /\ exitLatched' = [i \in ExitIds |->
              IF i = id /\ closing # {} THEN exitLatched[i] \union {t} ELSE exitLatched[i]]
         /\ Disarm(IF closing # {} THEN {id} \intersect BoundIds ELSE {})
  /\ cursor' = cursor + 1
  /\ UNCHANGED <<signal, t, phase, fire, chainVars, opens, resetFired, resetLatched, position>>

AbortsOnCondition(e) ==                      \* mutant: the exit's condition is enough
  \E x \in Exits : e \in Targets[x] /\ ExitTruth(x)

\* Only a close of the entry's own open position at this bar aborts its chain.
Aborts(e) == e \in closedNow

\* Pass (b.5): the chains of the gated entries take one step.  Beside it runs
\* what the default rule would do, where the bare condition of a targeting exit
\* aborts.
ChainPass ==
  /\ phase = "clear" /\ cursor = Len(ExitId) + 1
  /\ chain' = [e \in Gated |->
       ChainNext(chain[e], Windows[e], t, fire.match[e], fire.gap[e], Aborts(e))]
  /\ raw' = [e \in Gated |->
       ChainNext(raw[e], Windows[e], t, fire.match[e], fire.gap[e], ChainReset(e))]
  /\ completed' = { e \in Gated :
       Completes(chain[e], Windows[e], t, fire.match[e], fire.gap[e], Aborts(e)) }
  /\ phase' = "enter"
  /\ UNCHANGED <<signal, t, cursor, fire, closedNow, armVars, ledgerVars, traceVars, position>>

EnteringTwice ==                             \* mutant: no position-state guard
  { e \in Entries : e \in fire.entries \union completed /\ MayAct(e) }

\* Pass (c): the entries that fire, may act and hold no position open one.
Entering == { e \in Entries : /\ e \in fire.entries \union completed
                              /\ MayAct(e)
                              /\ e \notin latched }

EntryPass ==
  /\ phase = "enter"
  /\ latched' = latched \union Entering
  /\ opens' = [e \in Entries |->
       IF e \in Entering THEN Append(opens[e], t) ELSE opens[e]]
  /\ Disarm(Entering \intersect BoundIds)
  /\ phase' = "reset"
  /\ UNCHANGED <<signal, t, cursor, fire, closedNow, closes, chainVars, traceVars, position>>

\* Pass (c.5): after the entries, each reset that fires counts once towards the
\* re-arm of the disarmed blocks bound to it.
Counting == { id \in BoundIds \ armed : BoundTo[id] \in fire.resets }
RearmingAtOnce == Counting                   \* mutant: the first fire re-arms

Rearming == { id \in Counting : countdown[id] <= 1 }

ResetPass ==
  /\ phase = "reset"
  /\ countdown' = [id \in BoundIds |->
       IF id \in Counting THEN countdown[id] - 1 ELSE countdown[id]]
  /\ armed' = armed \union Rearming
  /\ resetLatched' = [r \in Resets |->
       IF \E id \in Rearming : BoundTo[id] = r
         THEN resetLatched[r] \union {t} ELSE resetLatched[r]]
  /\ phase' = "emit"
  /\ UNCHANGED <<signal, t, cursor, fire, closedNow, ledgerVars, chainVars,
                 exitLatched, resetFired, position>>

\* Pass (d): the net position of each input is the sum of its open entries'
\* weights; the iteration ends.
NetWeight(i) ==
  MapThenSumSet(LAMBDA e : Weight[e], { e \in latched : InputOf[e] = i })

EmitPass ==
  /\ phase = "emit"
  /\ position' = [i \in Inputs |-> Append(position[i], NetWeight(i))]
  /\ t' = t + 1
  /\ fire' = Quiet
  /\ completed' = {}
  /\ phase' = "idle"
  /\ UNCHANGED <<signal, cursor, closedNow, chain, raw, armVars, ledgerVars, traceVars>>

\* A missing exit operand only matters on a bar where the exit fires and targets
\* a chain.  A stage may match on a bar with a gap: a counted crossing does.
Possible(f) ==
  /\ \A e \in Gated : f.match[e] \union f.gap[e] \subseteq StagesOf(e)
  /\ f.exitNan \subseteq { x \in f.exits : Targets[x] \intersect Gated # {} }

Next ==
  \/ \E f \in Fires : Possible(f) /\ StartBar(f)
  \/ \E x \in Exits : ClearPass(x)
  \/ ChainPass
  \/ EntryPass
  \/ ResetPass
  \/ EmitPass

Spec == Init /\ [][Next]_vars

-----------------------------------------------------------------------------
(* Properties                                                              *)

\* The ledger from which trades are paired (the k-th open with the k-th close)
\* agrees with the latch: at most one trade of an entry is open, it is the last,
\* a trade closes on a later bar than it opened, and the next one opens no
\* earlier than that close.
LedgerMatchesLatch ==
  \A e \in Entries :
    /\ Len(opens[e]) = Len(closes[e]) + (IF e \in latched THEN 1 ELSE 0)
    /\ \A k \in 1 .. Len(closes[e]) :
         /\ opens[e][k] < closes[e][k].bar
         /\ k < Len(opens[e]) => closes[e][k].bar <= opens[e][k + 1]

\* The bars at which a bound block acted: opened a position, or closed one.
ActedAt(id) ==
  (IF id \in Entries THEN { opens[id][k] : k \in 1 .. Len(opens[id]) } ELSE {})
  \union (IF id \in ExitIds THEN exitLatched[id] ELSE {})

FiresOf(id) == IF BoundTo[id] \in Resets THEN resetFired[BoundTo[id]] ELSE {}

\* Between two actions of a bound block its reset fired at least Count times,
\* a fire on the bar of the first action included, one on the bar of the second
\* not: the arm is restored for the next bar, never for the same one.
RearmNeedsCount ==
  \A id \in BoundIds : \A a, b \in ActedAt(id) :
    a < b => Cardinality({ r \in FiresOf(id) : a <= r /\ r < b }) >= Count[id]

\* A two-stage candidate the default rule still holds is held too, unless an exit
\* really closed a position of the entry since that candidate's head matched.
ActualExitKeepsCandidate ==
  \A e \in Gated :
    LastStage(Windows[e]) = 1 /\ raw[e] # Idle =>
      \/ chain[e] = raw[e]
      \/ \E k \in 1 .. Len(closes[e]) : closes[e][k].bar > raw[e].tau

\* And a candidate in flight never reaches back across a close of its own entry.
CandidateSinceClose ==
  phase # "clear" =>
    \A e \in Gated : chain[e] # Idle =>
      \A k \in 1 .. Len(closes[e]) : closes[e][k].bar <= chain[e].tau

\* reset_on_actual_exit: a real close of the entry drops its chain's candidate,
\* and the mere condition of an exit, which the default rule obeys, does not.
OnlyClosesDropCandidates == ActualExitKeepsCandidate /\ CandidateSinceClose

-----------------------------------------------------------------------------
(* What the properties rest on                                             *)

Passes == {"clear", "enter", "reset", "emit"}

\* The first bar of which a pass that runs before the given phases tells nothing.
Until(phases) == IF phase \in phases THEN t + 1 ELSE t

TypeOK ==
  /\ signal \in Signals
  /\ t \in Nat /\ phase \in Passes \union {"idle"} /\ fire \in Fires
  /\ latched \subseteq Entries /\ closedNow \subseteq Entries /\ armed \subseteq BoundIds
  /\ countdown \in [BoundIds -> Nat]
  /\ opens \in [Entries -> Seq(Nat)]
  /\ closes \in [Entries -> Seq([bar: Nat, exit: ExitIds])]
  /\ exitLatched \in [ExitIds -> SUBSET Nat] /\ resetFired \in [Resets -> SUBSET Nat]
  /\ DOMAIN chain = Gated /\ DOMAIN raw = Gated
  /\ \A e \in Gated :
       /\ chain[e] \in Candidate(Windows[e], Until(Passes \ {"clear"}))
       /\ raw[e] \in Candidate(Windows[e], Until(Passes \ {"clear"}))

\* What the trades of an entry may already tell at each pass.
LedgerInv ==
  /\ \A e \in Entries :
       /\ \A k \in 1 .. Len(opens[e]) : opens[e][k] < Until({"reset", "emit"})
       /\ \A k \in 1 .. Len(closes[e]) : closes[e][k].bar < Until(Passes)
  /\ LedgerMatchesLatch

\* The fires of a block's reset that the passes have counted since bar a.
CountedSince(id, a) == { r \in FiresOf(id) : a <= r /\ r < Until({"emit"}) }

\* A block that acted is armed again only by the fires counted since, and owes the
\* rest of them while it is not.
ArmInv ==
  /\ \A id \in ExitIds : \A b \in exitLatched[id] : b <= t
  /\ \A id \in BoundIds :
       /\ id \notin armed => countdown[id] >= 1
       /\ \A r \in FiresOf(id) : r < Until(Passes)
       /\ phase \in {"clear", "enter", "reset"} /\ BoundTo[id] \in fire.resets
            => t \in FiresOf(id)
       /\ \A a \in ActedAt(id) :
            Cardinality(CountedSince(id, a))
              + (IF id \in armed THEN 0 ELSE countdown[id]) >= Count[id]
  /\ RearmNeedsCount

\* While the clear pass runs, a candidate reaches back only across the closes of
\* this bar, which its chain has not seen.
ChainInv ==
  /\ phase = "clear" =>
       /\ \A e \in closedNow : \E k \in 1 .. Len(closes[e]) : closes[e][k].bar = t
       /\ \A e \in Gated : chain[e] # Idle /\ e \notin closedNow =>
            \A k \in 1 .. Len(closes[e]) : closes[e][k].bar <= chain[e].tau
  /\ OnlyClosesDropCandidates

LatchInv == TypeOK /\ LedgerInv /\ ArmInv /\ ChainInv
=============================================================================
