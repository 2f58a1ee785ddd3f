------------------------------ MODULE ChainStep ------------------------------
(***************************************************************************)
(* One bar of the single-candidate THEN-chain automaton of the signal      *)
(* engine.  The same step runs in two places: the vectorised               *)
(* _sequence_active and, for a block with reset_on_actual_exit, inside the *)
(* per-bar latch loop of evaluate_signal.                                  *)
(*                                                                         *)
(* A candidate is the pair (stage, tau): the highest stage matched so far  *)
(* and the bar of that match; stage -1 is "no candidate".  A chain of m    *)
(* stages has m - 1 windows, win[s] being the number of bars allowed from  *)
(* the match of stage s - 1 to the match of stage s.                       *)
(***************************************************************************)
EXTENDS Integers, Sequences

Idle == [stage |-> -1, tau |-> -1]

\* The index of a chain's last stage.
LastStage(win) == Len(win)

\* Candidates that wait for a further stage at a bar t: the completed one is
\* consumed in the step that completes it, so stage LastStage never persists.
Candidate(win, t) ==
  {Idle} \union [stage: 0 .. LastStage(win) - 1, tau: 0 .. t - 1]

InFlight(c, win) == 0 <= c.stage /\ c.stage < LastStage(win)

\* Steps 1, 2 and 2b: what makes a candidate disappear before it can advance
\* (its window elapsed, a gap on the awaited stage, an exit).
Dropped(c, win, t, gap, abort) ==
  \/ InFlight(c, win) /\ t - c.tau > win[c.stage + 1]
  \/ InFlight(c, win) /\ c.stage + 1 \in gap
  \/ abort

\* Step 3's guard: the awaited stage matches strictly after tau, within window.
Advances(c, win, t, match) ==
  /\ InFlight(c, win)
  /\ c.stage + 1 \in match
  /\ 1 <= t - c.tau /\ t - c.tau <= win[c.stage + 1]

\* The last stage completes at t: the block fires and the candidate is consumed.
Completes(c, win, t, match, gap, abort) ==
  /\ ~Dropped(c, win, t, gap, abort)
  /\ Advances(c, win, t, match)
  /\ c.stage + 1 = LastStage(win)

\* Steps 1 to 3 on the candidate.
Progress(c, win, t, match, gap, abort) ==
  CASE Dropped(c, win, t, gap, abort) -> Idle
    [] Completes(c, win, t, match, gap, abort) -> Idle
    [] /\ ~Dropped(c, win, t, gap, abort)
       /\ ~Completes(c, win, t, match, gap, abort)
       /\ Advances(c, win, t, match) -> [stage |-> c.stage + 1, tau |-> t]
    [] OTHER -> c

ChainNextOverGaps(c, win, t, match, gap, abort) ==    \* mutant: a gap does not abort
  IF 0 \in match THEN [stage |-> 0, tau |-> t]
                 ELSE Progress(c, win, t, match, {}, abort)

ChainNextFirstWins(c, win, t, match, gap, abort) ==   \* mutant: no re-arm in flight
  IF 0 \in match /\ Progress(c, win, t, match, gap, abort) = Idle
    THEN [stage |-> 0, tau |-> t]
    ELSE Progress(c, win, t, match, gap, abort)

\* Step 4: a head match (stage 0) re-arms a candidate AFTER the advance, so the
\* latest start wins.
ChainNext(c, win, t, match, gap, abort) ==
  IF 0 \in match THEN [stage |-> 0, tau |-> t]
                 ELSE Progress(c, win, t, match, gap, abort)

(***************************************************************************)
(* The reference the property tests compare it with: every partial match   *)
(* is kept as a live candidate of its own.                                 *)
(***************************************************************************)
LiveNext(live, win, t, match, gap, abort) ==
  ({ Progress(c, win, t, match, gap, abort) : c \in live } \ {Idle})
    \union (IF 0 \in match THEN {[stage |-> 0, tau |-> t]} ELSE {})

LiveFires(live, win, t, match, gap, abort) ==
  \E c \in live : Completes(c, win, t, match, gap, abort)
=============================================================================
