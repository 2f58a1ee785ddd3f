---------------------------- MODULE ChainAutomaton ----------------------------
(***************************************************************************)
(* _sequence_active over a whole grid of bars, in lock step with the       *)
(* multi-candidate reference of tests/property/test_temporal_automaton.py. *)
(* Each bar the market decides which stages match, which have a missing    *)
(* operand, and whether a targeting exit fires.  A stage may match on a    *)
(* bar with a missing operand: a crossing counted over a window does.      *)
(***************************************************************************)
EXTENDS ChainStep

CONSTANTS
  Chains,     \* the chains considered, each given by its sequence of windows
  GridBars    \* T, the number of bars of the grid

ASSUME ChainsAssumption ==
  \A w \in Chains : w \in Seq(Nat \ {0}) /\ Len(w) >= 1

ASSUME GridAssumption == GridBars \in Nat

VARIABLES
  windows,    \* the block's chain: windows[r] leads from stage r - 1 to r
  bar,        \* the bar about to be processed
  cand,       \* (stage, tau) of _sequence_active
  live,       \* the reference's set of live candidates
  fired,      \* bars at which _sequence_active fires
  multi       \* bars at which the reference fires

chainVars == <<windows, bar, cand, live, fired, multi>>

ChainStages == 0 .. LastStage(windows)

ChainInit ==
  /\ windows \in Chains
  /\ bar = 0
  /\ cand = Idle
  /\ live = {}
  /\ fired = {}
  /\ multi = {}

\* One iteration of the for loop.
ChainBar(match, gap, abort) ==
  /\ bar < GridBars
  /\ cand' = ChainNext(cand, windows, bar, match, gap, abort)
  /\ fired' = IF Completes(cand, windows, bar, match, gap, abort)
                 THEN fired \union {bar} ELSE fired
  /\ live' = LiveNext(live, windows, bar, match, gap, abort)
  /\ multi' = IF LiveFires(live, windows, bar, match, gap, abort)
                THEN multi \union {bar} ELSE multi
  /\ bar' = bar + 1
  /\ UNCHANGED windows

ChainLoop ==
  \E match, gap \in SUBSET ChainStages, abort \in BOOLEAN : ChainBar(match, gap, abort)

ChainSpec == ChainInit /\ [][ChainLoop]_chainVars

-----------------------------------------------------------------------------
(* Properties                                                              *)

\* Types of the loop state.
ChainTypeOK ==
  /\ windows \in Chains
  /\ bar \in 0 .. GridBars
  /\ cand \in Candidate(windows, bar)
  /\ live \subseteq Candidate(windows, bar) \ {Idle}
  /\ fired \subseteq 0 .. bar - 1
  /\ multi \subseteq 0 .. bar - 1

\* The candidate the O(1) automaton keeps is always one of the partial matches
\* a full scan would keep: overwriting it never invents progress.
CandidateIsLive == cand # Idle => cand \in live

\* The automaton never fires at a bar where the reference does not, for any
\* number of stages (the docstring's "it never fires spuriously").
NeverSpurious == fired \subseteq multi

\* With two stages nothing is lost: both fire at the same bars (the docstring's
\* "2-stage chains coincide with multi-candidate").
TwoStagesCoincide == LastStage(windows) = 1 => fired = multi

\* A live candidate the automaton does not hold can only be an older start of
\* the same chain; this is what makes two stages coincide.
LatestStart ==
  LastStage(windows) = 1 =>
    \A c \in live : cand # Idle /\ c.tau <= cand.tau
=============================================================================
