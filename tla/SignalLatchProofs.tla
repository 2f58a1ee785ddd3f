-------------------------- MODULE SignalLatchProofs --------------------------
(***************************************************************************)
(* Proofs about the latch loop, for any signal and any market: the ledger  *)
(* agrees with the latch, a bound block waits for its reset's fires, and a *)
(* gated chain loses its candidate to real closes only.                    *)
(***************************************************************************)
EXTENDS SignalLatch, SequenceTheorems, FiniteSetTheorems, TLAPS

(***************************************************************************)
(* Data                                                                    *)
(***************************************************************************)

\* What is assumed of a signal, in the module's own words.
LEMMA SignalFacts ==
  ASSUME signal \in Signals
  PROVE  /\ Count \in [BoundIds -> Nat \ {0}]
         /\ BoundIds \subseteq Entries \union ExitIds
         /\ Gated \subseteq Entries
         /\ \A e \in Gated : Windows[e] \in Seq(Nat \ {0}) /\ Len(Windows[e]) >= 1
         /\ Exits = 1 .. Len(ExitId) /\ Len(ExitId) \in Nat
         /\ \A x \in Exits : ExitId[x] \in ExitIds
<1>1. IsSignal(signal)
  BY SignalsAssumption
<1>2. ExitId \in Seq(STRING)
  BY <1>1 DEF IsSignal, ExitId
<1> QED
  BY <1>1, <1>2 DEF IsSignal, Count, BoundIds, BoundTo, Entries, ExitIds, Exits, ExitId,
                    Gated, Windows

\* The signal does not change during the evaluation.
LEMMA SignalFixed ==
  ASSUME [Next]_vars
  PROVE  /\ signal' = signal
         /\ Entries' = Entries /\ Exits' = Exits /\ ExitId' = ExitId /\ ExitIds' = ExitIds
         /\ BoundTo' = BoundTo /\ BoundIds' = BoundIds /\ Count' = Count
         /\ Resets' = Resets /\ Windows' = Windows /\ Gated' = Gated
         /\ Fires' = Fires /\ Targets' = Targets
<1>1. signal' = signal
  BY DEF Next, vars, StartBar, ClearPass, ChainPass, EntryPass, ResetPass, EmitPass
<1> QED
  BY <1>1 DEF Entries, Exits, ExitId, ExitIds, BoundTo, BoundIds, Count, Resets, Windows,
              Gated, Fires, Stages, StagesOf, Targets

LEMMA AppendFacts ==
  ASSUME NEW S, NEW s \in Seq(S), NEW x \in S
  PROVE  /\ Append(s, x) \in Seq(S) /\ Len(Append(s, x)) = Len(s) + 1 /\ Len(s) \in Nat
         /\ \A k \in 1 .. Len(s) : Append(s, x)[k] = s[k]
         /\ Append(s, x)[Len(s) + 1] = x
  BY AppendProperties, LenProperties

LEMMA Inits == Init => LatchInv
<1> SUFFICES ASSUME Init PROVE LatchInv
  OBVIOUS
<1>1. TypeOK
  <2>1. Quiet \in Fires
    BY DEF Quiet, Fires
  <2>2. <<>> \in Seq(Nat) /\ <<>> \in Seq([bar: Nat, exit: ExitIds])
    BY EmptySeq
  <2> QED
    BY <2>1, <2>2 DEF Init, TypeOK, Passes, Candidate
<1>2. LedgerInv
  BY EmptySeq DEF Init, LedgerInv, LedgerMatchesLatch
<1>3. ArmInv
  <2>1. \A id : ActedAt(id) = {} /\ FiresOf(id) = {}
    BY EmptySeq DEF Init, ActedAt, FiresOf
  <2> QED
    BY <2>1 DEF Init, ArmInv, RearmNeedsCount
<1>4. ChainInv
  BY DEF Init, ChainInv, OnlyClosesDropCandidates, ActualExitKeepsCandidate,
         CandidateSinceClose
<1> QED
  BY <1>1, <1>2, <1>3, <1>4 DEF LatchInv

(***************************************************************************)
(* Types                                                                   *)
(***************************************************************************)

\* One step of a chain turns a candidate of bar b into one of bar b + 1.
LEMMA ChainNextType ==
  ASSUME NEW win \in Seq(Nat \ {0}), Len(win) >= 1, NEW b \in Nat,
         NEW c \in Candidate(win, b), NEW match, NEW gap, NEW abort
  PROVE  ChainNext(c, win, b, match, gap, abort) \in Candidate(win, b + 1)
<1>1. Len(win) \in Nat
  OBVIOUS
<1>2. Idle \in Candidate(win, b + 1) /\ c \in Candidate(win, b + 1)
  BY <1>1 DEF Candidate
<1>3. [stage |-> 0, tau |-> b] \in Candidate(win, b + 1)
  BY <1>1 DEF Candidate, LastStage
<1>4. CASE /\ ~Dropped(c, win, b, gap, abort)
           /\ ~Completes(c, win, b, match, gap, abort)
           /\ Advances(c, win, b, match)
  <2>1. Progress(c, win, b, match, gap, abort) = [stage |-> c.stage + 1, tau |-> b]
    BY <1>4 DEF Progress
  <2>2. c # Idle /\ 0 <= c.stage /\ c.stage < Len(win) /\ c.stage + 1 # Len(win)
    BY <1>4 DEF Advances, InFlight, Completes, LastStage, Idle
  <2>3. c.stage \in 0 .. Len(win) - 1
    BY <2>2, <1>1 DEF Candidate, LastStage
  <2>4. [stage |-> c.stage + 1, tau |-> b] \in Candidate(win, b + 1)
    BY <2>2, <2>3, <1>1 DEF Candidate, LastStage
  <2> QED
    BY <1>3, <2>1, <2>4 DEF ChainNext
<1>5. CASE ~(/\ ~Dropped(c, win, b, gap, abort)
             /\ ~Completes(c, win, b, match, gap, abort)
             /\ Advances(c, win, b, match))
  <2>1. Progress(c, win, b, match, gap, abort) \in {Idle, c}
    BY <1>5 DEF Progress
  <2> QED
    BY <1>2, <1>3, <2>1 DEF ChainNext
<1> QED
  BY <1>4, <1>5

LEMMA TypesKept ==
  ASSUME TypeOK, ArmInv, [Next]_vars
  PROVE  TypeOK'
<1>1. /\ signal' = signal /\ Entries' = Entries /\ ExitIds' = ExitIds
      /\ BoundIds' = BoundIds /\ Resets' = Resets /\ Windows' = Windows
      /\ Gated' = Gated /\ Fires' = Fires
  BY SignalFixed
<1>2. /\ Count \in [BoundIds -> Nat \ {0}] /\ Gated \subseteq Entries
      /\ \A x \in Exits : ExitId[x] \in ExitIds
      /\ \A e \in Gated : Windows[e] \in Seq(Nat \ {0}) /\ Len(Windows[e]) >= 1
  BY SignalFacts DEF TypeOK
<1>3. ASSUME NEW f \in Fires, StartBar(f) PROVE TypeOK'
  <2>1. resetFired' \in [Resets -> SUBSET Nat]
    BY <1>3 DEF StartBar, TypeOK
  <2>2. \A e \in Gated :
          /\ chain'[e] \in Candidate(Windows[e], Until(Passes \ {"clear"}))'
          /\ raw'[e] \in Candidate(Windows[e], Until(Passes \ {"clear"}))'
    BY <1>1, <1>3 DEF StartBar, chainVars, TypeOK, Until, Passes, Candidate
  <2> QED
    BY <1>1, <1>3, <2>1, <2>2
    DEF StartBar, TypeOK, Passes, armVars, ledgerVars, chainVars
<1>4. ASSUME NEW x \in Exits, ClearPass(x) PROVE TypeOK'
  <2> DEFINE closing == Effective(x)
             ids == IF closing # {} THEN {ExitId[x]} \intersect BoundIds ELSE {}
  <2>1. /\ latched' \subseteq Entries /\ closedNow' \subseteq Entries
    BY <1>4 DEF ClearPass, TypeOK, Effective
  <2>2. closes' \in [Entries -> Seq([bar: Nat, exit: ExitIds])]
    <3>1. [bar |-> t, exit |-> ExitId[x]] \in [bar: Nat, exit: ExitIds]
      BY <1>2 DEF TypeOK
    <3>2. \A e \in Entries :
            Append(closes[e], [bar |-> t, exit |-> ExitId[x]])
              \in Seq([bar: Nat, exit: ExitIds])
      BY <3>1, AppendFacts DEF TypeOK
    <3> QED
      BY <1>4, <3>2 DEF ClearPass, TypeOK
  <2>3. exitLatched' \in [ExitIds -> SUBSET Nat]
    BY <1>4 DEF ClearPass, TypeOK
  <2>4. armed' \subseteq BoundIds /\ countdown' \in [BoundIds -> Nat]
    BY <1>2, <1>4 DEF ClearPass, Disarm, TypeOK
  <2>5. \A e \in Gated :
          /\ chain'[e] \in Candidate(Windows[e], Until(Passes \ {"clear"}))'
          /\ raw'[e] \in Candidate(Windows[e], Until(Passes \ {"clear"}))'
    BY <1>1, <1>4 DEF ClearPass, chainVars, TypeOK, Until, Passes, Candidate
  <2> QED
    BY <1>1, <1>4, <2>1, <2>2, <2>3, <2>4, <2>5 DEF ClearPass, TypeOK, chainVars
<1>5. ASSUME ChainPass PROVE TypeOK'
  <2>1. phase = "clear" /\ phase' = "enter" /\ t' = t /\ t \in Nat
    BY <1>5 DEF ChainPass, TypeOK
  <2>2. ASSUME NEW e \in Gated
        PROVE  /\ chain'[e] \in Candidate(Windows[e], t + 1)
               /\ raw'[e] \in Candidate(Windows[e], t + 1)
    <3>1. chain[e] \in Candidate(Windows[e], t) /\ raw[e] \in Candidate(Windows[e], t)
      BY <2>1 DEF TypeOK, Until, Passes
    <3>2. /\ chain'[e] = ChainNext(chain[e], Windows[e], t, fire.match[e], fire.gap[e],
                                   Aborts(e))
          /\ raw'[e] = ChainNext(raw[e], Windows[e], t, fire.match[e], fire.gap[e],
                                 ChainReset(e))
      BY <1>5 DEF ChainPass
    <3> QED
      BY <1>2, <2>1, <3>1, <3>2, ChainNextType
  <2>3. DOMAIN chain' = Gated /\ DOMAIN raw' = Gated
    BY <1>5 DEF ChainPass
  <2>4. Until(Passes \ {"clear"})' = t + 1
    BY <2>1 DEF Until, Passes
  <2>5. \A e \in Gated :
          /\ chain'[e] \in Candidate(Windows[e], Until(Passes \ {"clear"}))'
          /\ raw'[e] \in Candidate(Windows[e], Until(Passes \ {"clear"}))'
    BY <1>1, <2>2, <2>4 DEF Candidate
  <2> QED
    BY <1>1, <1>5, <2>1, <2>3, <2>5
    DEF ChainPass, TypeOK, armVars, ledgerVars, traceVars, Passes
<1>6. ASSUME EntryPass PROVE TypeOK'
  <2>1. latched' \subseteq Entries
    BY <1>6 DEF EntryPass, TypeOK, Entering
  <2>2. opens' \in [Entries -> Seq(Nat)]
    <3>1. \A e \in Entries : Append(opens[e], t) \in Seq(Nat)
      BY AppendFacts DEF TypeOK
    <3> QED
      BY <1>6, <3>1 DEF EntryPass, TypeOK
  <2>3. armed' \subseteq BoundIds /\ countdown' \in [BoundIds -> Nat]
    BY <1>2, <1>6 DEF EntryPass, Disarm, TypeOK
  <2>4. \A e \in Gated :
          /\ chain'[e] \in Candidate(Windows[e], Until(Passes \ {"clear"}))'
          /\ raw'[e] \in Candidate(Windows[e], Until(Passes \ {"clear"}))'
    BY <1>1, <1>6 DEF EntryPass, chainVars, TypeOK, Until, Passes, Candidate
  <2> QED
    BY <1>1, <1>6, <2>1, <2>2, <2>3, <2>4
    DEF EntryPass, TypeOK, chainVars, traceVars, Passes
<1>7. ASSUME ResetPass PROVE TypeOK'
  <2>1. armed' \subseteq BoundIds
    BY <1>7 DEF ResetPass, TypeOK, Rearming, Counting
  <2>2. countdown' \in [BoundIds -> Nat]
    <3>1. \A id \in Counting : id \in BoundIds /\ countdown[id] - 1 \in Nat
      BY <1>7 DEF Counting, ArmInv, TypeOK
    <3> QED
      BY <1>7, <3>1 DEF ResetPass, TypeOK
  <2>3. \A e \in Gated :
          /\ chain'[e] \in Candidate(Windows[e], Until(Passes \ {"clear"}))'
          /\ raw'[e] \in Candidate(Windows[e], Until(Passes \ {"clear"}))'
    BY <1>1, <1>7 DEF ResetPass, chainVars, TypeOK, Until, Passes, Candidate
  <2> QED
    BY <1>1, <1>7, <2>1, <2>2, <2>3
    DEF ResetPass, TypeOK, ledgerVars, chainVars, Passes
<1>8. ASSUME EmitPass PROVE TypeOK'
  <2>1. Quiet \in Fires
    BY DEF Quiet, Fires
  <2>2. \A e \in Gated :
          /\ chain'[e] \in Candidate(Windows[e], Until(Passes \ {"clear"}))'
          /\ raw'[e] \in Candidate(Windows[e], Until(Passes \ {"clear"}))'
    BY <1>1, <1>8 DEF EmitPass, TypeOK, Until, Passes, Candidate
  <2>3. t' \in Nat /\ phase' = "idle"
    BY <1>8 DEF EmitPass, TypeOK
  <2> QED
    BY <1>1, <1>8, <2>1, <2>2, <2>3
    DEF EmitPass, TypeOK, armVars, ledgerVars, traceVars
<1>9. ASSUME UNCHANGED vars PROVE TypeOK'
  <2>1. \A e \in Gated :
          /\ chain'[e] \in Candidate(Windows[e], Until(Passes \ {"clear"}))'
          /\ raw'[e] \in Candidate(Windows[e], Until(Passes \ {"clear"}))'
    BY <1>1, <1>9 DEF vars, chainVars, TypeOK, Until, Candidate
  <2> QED
    BY <1>1, <1>9, <2>1 DEF TypeOK, vars, armVars, ledgerVars, chainVars, traceVars
<1> QED
  BY <1>3, <1>4, <1>5, <1>6, <1>7, <1>8, <1>9 DEF Next

(***************************************************************************)
(* The ledger and the latch                                                *)
(***************************************************************************)

\* The part of LedgerInv that is about one entry.
LedgerOf(e) ==
  /\ \A k \in 1 .. Len(opens[e]) : opens[e][k] < Until({"reset", "emit"})
  /\ \A k \in 1 .. Len(closes[e]) : closes[e][k].bar < Until(Passes)
  /\ Len(opens[e]) = Len(closes[e]) + (IF e \in latched THEN 1 ELSE 0)
  /\ \A k \in 1 .. Len(closes[e]) :
       /\ opens[e][k] < closes[e][k].bar
       /\ k < Len(opens[e]) => closes[e][k].bar <= opens[e][k + 1]

LEMMA LedgerParts == LedgerInv <=> \A e \in Entries : LedgerOf(e)
  BY DEF LedgerInv, LedgerMatchesLatch, LedgerOf

\* Types of one entry's trades.
LEMMA TradeTypes ==
  ASSUME TypeOK, NEW e \in Entries
  PROVE  /\ opens[e] \in Seq(Nat) /\ Len(opens[e]) \in Nat
         /\ closes[e] \in Seq([bar: Nat, exit: ExitIds]) /\ Len(closes[e]) \in Nat
         /\ \A k \in 1 .. Len(opens[e]) : opens[e][k] \in Nat
         /\ \A k \in 1 .. Len(closes[e]) : closes[e][k].bar \in Nat
<1>1. opens[e] \in Seq(Nat) /\ closes[e] \in Seq([bar: Nat, exit: ExitIds])
  BY DEF TypeOK
<1>2. \A k \in 1 .. Len(closes[e]) : closes[e][k] \in [bar: Nat, exit: ExitIds]
  BY <1>1, ElementOfSeq
<1> QED
  BY <1>1, <1>2, ElementOfSeq, LenProperties

\* The passes follow one another, and the next bar follows the last.
Onward ==
  \/ t' = t /\ phase' = phase
  \/ t' = t /\ <<phase, phase'>> \in {<<"idle", "clear">>, <<"clear", "enter">>,
                                      <<"enter", "reset">>, <<"reset", "emit">>}
  \/ t' = t + 1 /\ phase = "emit" /\ phase' = "idle"

LEMMA PassesFollow == [Next]_vars => Onward
  BY DEF Next, vars, Onward, StartBar, ClearPass, ChainPass, EntryPass, ResetPass, EmitPass

\* A pass that leaves the trades of an entry alone.
LEMMA LedgerStays ==
  ASSUME TypeOK, NEW e \in Entries, LedgerOf(e),
         opens'[e] = opens[e], closes'[e] = closes[e], (e \in latched') <=> (e \in latched),
         Onward
  PROVE  LedgerOf(e)'
<1>1. /\ \A k \in 1 .. Len(opens[e]) : opens[e][k] \in Nat
      /\ \A k \in 1 .. Len(closes[e]) : closes[e][k].bar \in Nat
      /\ t \in Nat
  BY TradeTypes DEF TypeOK
<1> DEFINE u == Until({"reset", "emit"})
           v == Until({"reset", "emit"})'
<1>2. /\ u <= v /\ u \in Nat /\ v \in Nat
      /\ Until(Passes) <= Until(Passes)'
      /\ Until(Passes) \in Nat /\ Until(Passes)' \in Nat
  BY <1>1 DEF Until, Passes, Onward
<1>3. \A k \in 1 .. Len(opens[e]) : opens[e][k] < Until({"reset", "emit"})'
  <2>1. \A k \in 1 .. Len(opens[e]) : opens[e][k] < u
    BY DEF LedgerOf
  <2> HIDE DEF u, v
  <2>2. \A k \in 1 .. Len(opens[e]) : opens[e][k] < v
    BY <1>1, <1>2, <2>1
  <2> QED
    BY <2>2 DEF v
<1>4. \A k \in 1 .. Len(closes[e]) : closes[e][k].bar < Until(Passes)'
  BY <1>1, <1>2 DEF LedgerOf
<1>5. \A k \in 1 .. Len(opens'[e]) : opens'[e][k] < Until({"reset", "emit"})'
  BY <1>3
<1>6. \A k \in 1 .. Len(closes'[e]) : closes'[e][k].bar < Until(Passes)'
  BY <1>4
<1>7. /\ Len(opens'[e]) = Len(closes'[e]) + (IF e \in latched' THEN 1 ELSE 0)
      /\ \A k \in 1 .. Len(closes'[e]) :
           /\ opens'[e][k] < closes'[e][k].bar
           /\ k < Len(opens'[e]) => closes'[e][k].bar <= opens'[e][k + 1]
  BY DEF LedgerOf
<1> QED
  BY <1>5, <1>6, <1>7 DEF LedgerOf, Until

LEMMA LedgerKept ==
  ASSUME TypeOK, LedgerInv, [Next]_vars
  PROVE  LedgerInv'
<1>1. Entries' = Entries
  BY SignalFixed
<1> SUFFICES ASSUME NEW e \in Entries PROVE LedgerOf(e)'
  BY <1>1 DEF LedgerInv, LedgerMatchesLatch, LedgerOf, Until
<1>2. LedgerOf(e) /\ t \in Nat /\ Onward
  BY LedgerParts, PassesFollow DEF TypeOK
<1>3. ASSUME ledgerVars' = ledgerVars PROVE LedgerOf(e)'
  BY <1>2, <1>3, LedgerStays DEF ledgerVars
<1>4. ASSUME NEW x \in Exits, ClearPass(x) PROVE LedgerOf(e)'
  <2> DEFINE c == [bar |-> t, exit |-> ExitId[x]]
  <2>1. CASE e \in Effective(x)
    <3>1. /\ e \in latched /\ e \notin latched' /\ opens' = opens
          /\ closes'[e] = Append(closes[e], c) /\ phase = "clear" /\ phase' = "clear"
          /\ t' = t
      BY <1>4, <2>1 DEF ClearPass, Effective
    <3>2. c \in [bar: Nat, exit: ExitIds]
      BY SignalFacts DEF TypeOK
    <3>3. /\ Len(closes'[e]) = Len(closes[e]) + 1 /\ Len(closes[e]) \in Nat
          /\ \A k \in 1 .. Len(closes[e]) : closes'[e][k] = closes[e][k]
          /\ closes'[e][Len(closes[e]) + 1] = c /\ c.bar = t
      BY <3>1, <3>2, TradeTypes, AppendFacts
    <3> HIDE DEF c
    <3>4. Until({"reset", "emit"}) = t /\ Until({"reset", "emit"})' = t
          /\ Until(Passes) = t + 1 /\ Until(Passes)' = t + 1
      BY <3>1 DEF Until, Passes
    <3>5. Len(opens[e]) = Len(closes[e]) + 1
      BY <1>2, <3>1 DEF LedgerOf
    <3>6. \A k \in 1 .. Len(opens'[e]) : opens'[e][k] < Until({"reset", "emit"})'
      BY <1>2, <3>1, <3>4 DEF LedgerOf
    <3>7. ASSUME NEW k \in 1 .. Len(closes'[e])
          PROVE  /\ closes'[e][k].bar < t + 1
                 /\ opens'[e][k] < closes'[e][k].bar
                 /\ k < Len(opens'[e]) => closes'[e][k].bar <= opens'[e][k + 1]
      <4>1. CASE k = Len(closes[e]) + 1
        <5>1. closes'[e][k].bar = t /\ ~(k < Len(opens[e]))
          BY <3>3, <3>5, <4>1
        <5>2. opens[e][k] < t
          BY <1>2, <3>3, <3>4, <3>5, <4>1 DEF LedgerOf
        <5> QED
          BY <1>2, <3>1, <5>1, <5>2
      <4>2. CASE k # Len(closes[e]) + 1
        <5>1. k \in 1 .. Len(closes[e])
          BY <3>3, <4>2
        <5>2. closes'[e][k] = closes[e][k]
          BY <3>3, <5>1
        <5>3. /\ closes[e][k].bar < t + 1 /\ opens[e][k] < closes[e][k].bar
              /\ k < Len(opens[e]) => closes[e][k].bar <= opens[e][k + 1]
          BY <1>2, <3>4, <5>1 DEF LedgerOf
        <5> QED
          BY <3>1, <5>2, <5>3
      <4> QED
        BY <4>1, <4>2
    <3>8. Len(opens'[e]) = Len(closes'[e]) + (IF e \in latched' THEN 1 ELSE 0)
      BY <3>1, <3>3, <3>5
    <3>9. \A k \in 1 .. Len(closes'[e]) : closes'[e][k].bar < Until(Passes)'
      BY <3>4, <3>7
    <3> QED
      BY <3>6, <3>7, <3>8, <3>9 DEF LedgerOf, Until
  <2>2. CASE e \notin Effective(x)
    <3>1. /\ (e \in latched') <=> (e \in latched)
          /\ opens' = opens /\ closes'[e] = closes[e]
      BY <1>4, <2>2 DEF ClearPass
    <3> QED
      BY <1>2, <3>1, LedgerStays
  <2> QED
    BY <2>1, <2>2
<1>5. CASE EntryPass
  <2>1. CASE e \in Entering
    <3>1. /\ e \notin latched /\ e \in latched' /\ closes' = closes
          /\ opens'[e] = Append(opens[e], t) /\ phase = "enter" /\ phase' = "reset"
          /\ t' = t
      BY <1>5, <2>1 DEF EntryPass, Entering
    <3>2. /\ Len(opens'[e]) = Len(opens[e]) + 1 /\ Len(opens[e]) \in Nat
          /\ \A k \in 1 .. Len(opens[e]) : opens'[e][k] = opens[e][k]
          /\ opens'[e][Len(opens[e]) + 1] = t
      BY <1>2, <3>1, TradeTypes, AppendFacts
    <3>3. Until({"reset", "emit"}) = t /\ Until({"reset", "emit"})' = t + 1
          /\ Until(Passes) = t + 1 /\ Until(Passes)' = t + 1
      BY <3>1 DEF Until, Passes
    <3>4. Len(opens[e]) = Len(closes[e])
      BY <1>2, <3>1, TradeTypes DEF LedgerOf
    <3>5. ASSUME NEW k \in 1 .. Len(opens'[e]) PROVE opens'[e][k] < Until({"reset", "emit"})'
      <4>1. CASE k = Len(opens[e]) + 1
        BY <1>2, <3>2, <3>3, <4>1
      <4>2. CASE k # Len(opens[e]) + 1
        <5>1. k \in 1 .. Len(opens[e])
          BY <3>2, <4>2
        <5>2. opens'[e][k] = opens[e][k] /\ opens[e][k] < t /\ opens[e][k] \in Nat
          BY <1>2, <3>2, <3>3, <5>1, TradeTypes DEF LedgerOf
        <5> QED
          BY <1>2, <3>3, <5>2
      <4> QED
        BY <4>1, <4>2
    <3>6. ASSUME NEW k \in 1 .. Len(closes'[e])
          PROVE  /\ closes'[e][k].bar < t + 1
                 /\ opens'[e][k] < closes'[e][k].bar
                 /\ k < Len(opens'[e]) => closes'[e][k].bar <= opens'[e][k + 1]
      <4>1. k \in 1 .. Len(closes[e]) /\ k \in 1 .. Len(opens[e]) /\ closes'[e] = closes[e]
        BY <3>1, <3>4
      <4>2. /\ closes[e][k].bar < t + 1 /\ opens[e][k] < closes[e][k].bar
            /\ k < Len(opens[e]) => closes[e][k].bar <= opens[e][k + 1]
            /\ closes[e][k].bar \in Nat
        BY <1>2, <3>3, <4>1, TradeTypes DEF LedgerOf
      <4>3. opens'[e][k] = opens[e][k]
        BY <3>2, <4>1
      <4>4. CASE k = Len(opens[e])
        BY <1>2, <3>2, <4>1, <4>2, <4>3, <4>4
      <4>5. CASE k # Len(opens[e])
        <5>1. k < Len(opens[e]) /\ k + 1 \in 1 .. Len(opens[e])
          BY <3>2, <4>1, <4>5
        <5> QED
          BY <3>2, <4>1, <4>2, <4>3, <5>1
      <4> QED
        BY <4>4, <4>5
    <3>7. Len(opens'[e]) = Len(closes'[e]) + (IF e \in latched' THEN 1 ELSE 0)
      BY <3>1, <3>2, <3>4
    <3>8. \A k \in 1 .. Len(closes'[e]) : closes'[e][k].bar < Until(Passes)'
      BY <3>3, <3>6
    <3> QED
      BY <3>5, <3>6, <3>7, <3>8 DEF LedgerOf, Until
  <2>2. CASE e \notin Entering
    <3>1. /\ (e \in latched') <=> (e \in latched)
          /\ opens'[e] = opens[e] /\ closes' = closes
      BY <1>5, <2>2 DEF EntryPass
    <3> QED
      BY <1>2, <3>1, LedgerStays
  <2> QED
    BY <2>1, <2>2
<1> QED
  BY <1>3, <1>4, <1>5 DEF Next, StartBar, ChainPass, ResetPass, EmitPass, vars


(***************************************************************************)
(* The arms                                                                *)
(***************************************************************************)

\* What a bound block still owes before it may act.
Owed(id) == IF id \in armed THEN 0 ELSE countdown[id]

\* The part of ArmInv that is about one bound block.
ArmOf(id) ==
  /\ id \notin armed => countdown[id] >= 1
  /\ \A r \in FiresOf(id) : r < Until(Passes)
  /\ phase \in {"clear", "enter", "reset"} /\ BoundTo[id] \in fire.resets
       => t \in FiresOf(id)
  /\ \A a \in ActedAt(id) : Cardinality(CountedSince(id, a)) + Owed(id) >= Count[id]
  /\ \A a, b \in ActedAt(id) :
       a < b => Cardinality({ r \in FiresOf(id) : a <= r /\ r < b }) >= Count[id]

LEMMA ArmParts ==
  ArmInv <=> /\ \A id \in ExitIds : \A b \in exitLatched[id] : b <= t
             /\ \A id \in BoundIds : ArmOf(id)
  BY DEF ArmInv, RearmNeedsCount, ArmOf, Owed

\* The bars told of a bound block are bars so far, and finitely many.
LEMMA BarsSoFar ==
  ASSUME TypeOK, LedgerInv, ArmInv, NEW id \in BoundIds
  PROVE  /\ \A a \in ActedAt(id) : a \in Nat /\ a <= t
         /\ \A r \in FiresOf(id) : r \in Nat /\ r <= t
         /\ IsFiniteSet(FiresOf(id))
         /\ \A T \in SUBSET FiresOf(id) : IsFiniteSet(T) /\ Cardinality(T) \in Nat
         /\ Count[id] \in Nat /\ Count[id] >= 1 /\ countdown[id] \in Nat /\ t \in Nat
<1>1. t \in Nat /\ countdown[id] \in Nat /\ Count[id] \in Nat /\ Count[id] >= 1
  BY SignalFacts DEF TypeOK
<1>2. ASSUME NEW a \in ActedAt(id) PROVE a \in Nat /\ a <= t
  <2>1. CASE id \in Entries /\ \E k \in 1 .. Len(opens[id]) : a = opens[id][k]
    <3>1. PICK k \in 1 .. Len(opens[id]) : a = opens[id][k]
      BY <2>1
    <3>2. a \in Nat /\ a < Until({"reset", "emit"})
      BY <2>1, <3>1, TradeTypes DEF LedgerInv
    <3> QED
      BY <1>1, <3>2 DEF Until
  <2>2. CASE id \in ExitIds /\ a \in exitLatched[id]
    BY <2>2 DEF TypeOK, ArmInv
  <2> QED
    BY <2>1, <2>2 DEF ActedAt
<1>3. ASSUME NEW r \in FiresOf(id) PROVE r \in Nat /\ r <= t
  <2>1. r \in Nat
    BY DEF FiresOf, TypeOK
  <2>2. r < Until(Passes)
    BY DEF ArmInv
  <2> QED
    BY <1>1, <2>1, <2>2 DEF Until
<1>4. IsFiniteSet(FiresOf(id))
  <2>1. 0 \in Int /\ t \in Int
    BY <1>1
  <2>2. IsFiniteSet(0 .. t)
    BY <2>1, FS_Interval
  <2>3. FiresOf(id) \subseteq 0 .. t
    BY <1>1, <1>3
  <2> QED
    BY <2>2, <2>3, FS_Subset
<1>5. \A T \in SUBSET FiresOf(id) : IsFiniteSet(T) /\ Cardinality(T) \in Nat
  BY <1>4, FS_Subset, FS_CardinalityType
<1> QED
  BY <1>1, <1>2, <1>3, <1>4, <1>5

\* A step that leaves the arm, the actions and the counted fires of a block alone.
LEMMA ArmStays ==
  ASSUME TypeOK, LedgerInv, ArmInv, NEW id \in BoundIds, BoundTo' = BoundTo, Count' = Count,
         FiresOf(id)' = FiresOf(id), ActedAt(id)' = ActedAt(id),
         (id \in armed') <=> (id \in armed), countdown'[id] = countdown[id],
         \/ t' = t /\ phase' = phase /\ fire' = fire
         \/ t' = t /\ fire' = fire
            /\ <<phase, phase'>> \in {<<"clear", "enter">>, <<"enter", "reset">>}
         \/ t' = t + 1 /\ phase = "emit" /\ phase' = "idle"
  PROVE  ArmOf(id)'
<1>1. ArmOf(id) /\ t \in Nat
  BY ArmParts DEF TypeOK
<1>2. /\ Until({"emit"})' = Until({"emit"}) /\ Until(Passes)' = Until(Passes)
      /\ phase' \in {"clear", "enter", "reset"}
           => phase \in {"clear", "enter", "reset"} /\ t' = t /\ fire' = fire
  BY <1>1 DEF Until, Passes
<1>3. \A a : CountedSince(id, a)' = CountedSince(id, a)
  <2>1. ASSUME NEW a PROVE CountedSince(id, a)' = CountedSince(id, a)
    BY <1>2 DEF CountedSince
  <2> QED
    BY <2>1
<1>4. \A a \in ActedAt(id)' :
         Cardinality(CountedSince(id, a)') + Owed(id)' >= Count'[id]
  BY <1>1, <1>3 DEF ArmOf, Owed
<1>5. \A a, b \in ActedAt(id)' :
         a < b => Cardinality({ r \in FiresOf(id)' : a <= r /\ r < b }) >= Count'[id]
  BY <1>1 DEF ArmOf
<1>6. /\ id \notin armed' => countdown'[id] >= 1
      /\ \A r \in FiresOf(id)' : r < Until(Passes)'
      /\ phase' \in {"clear", "enter", "reset"} /\ BoundTo'[id] \in fire'.resets
           => t' \in FiresOf(id)'
  BY <1>1, <1>2 DEF ArmOf
<1> QED
  BY <1>4, <1>5, <1>6 DEF ArmOf, CountedSince, FiresOf, ActedAt, Owed, Until


\* A bound block that acts loses its arm, and its fires are counted anew.
LEMMA ArmActs ==
  ASSUME TypeOK, LedgerInv, ArmInv, NEW id \in BoundIds, BoundTo' = BoundTo, Count' = Count,
         id \in armed, id \notin armed', countdown'[id] = Count[id],
         FiresOf(id)' = FiresOf(id), ActedAt(id)' \subseteq ActedAt(id) \union {t},
         t' = t, fire' = fire,
         <<phase, phase'>> \in {<<"clear", "clear">>, <<"enter", "reset">>}
  PROVE  ArmOf(id)'
<1>1. ArmOf(id)
  BY ArmParts
<1>2. /\ \A a \in ActedAt(id) : a \in Nat /\ a <= t
      /\ \A T \in SUBSET FiresOf(id) : IsFiniteSet(T) /\ Cardinality(T) \in Nat
      /\ Count[id] \in Nat /\ Count[id] >= 1 /\ t \in Nat
  BY BarsSoFar
<1>3. Until({"emit"}) = t /\ Until(Passes)' = Until(Passes)
  BY DEF Until, Passes
<1>4. ASSUME NEW a \in ActedAt(id)'
      PROVE  Cardinality(CountedSince(id, a)') + Owed(id)' >= Count'[id]
  <2>1. CountedSince(id, a)' \subseteq FiresOf(id)
    BY DEF CountedSince
  <2>2. Cardinality(CountedSince(id, a)') \in Nat
    BY <1>2, <2>1
  <2>3. Owed(id)' = Count[id]
    BY DEF Owed
  <2> QED
    BY <1>2, <2>2, <2>3
<1>5. ASSUME NEW a \in ActedAt(id)', NEW b \in ActedAt(id)', a < b
      PROVE  Cardinality({ r \in FiresOf(id)' : a <= r /\ r < b }) >= Count'[id]
  <2>1. \/ a \in ActedAt(id) /\ a < t
        \/ a = t /\ b \in ActedAt(id) \union {t}
    BY <1>2
  <2>2. a \in ActedAt(id)
    BY <1>2, <1>5
  <2>3. CASE b \in ActedAt(id)
    BY <1>1, <1>5, <2>2, <2>3 DEF ArmOf
  <2>4. CASE b = t
    <3>1. { r \in FiresOf(id) : a <= r /\ r < b } = CountedSince(id, a)
      BY <1>3, <2>4 DEF CountedSince
    <3>2. CountedSince(id, a) \subseteq FiresOf(id)
      BY DEF CountedSince
    <3>3. Cardinality(CountedSince(id, a)) \in Nat
      BY <1>2, <3>2
    <3>4. Cardinality(CountedSince(id, a)) + Owed(id) >= Count[id] /\ Owed(id) = 0
      BY <1>1, <2>2 DEF ArmOf, Owed
    <3>5. Cardinality(CountedSince(id, a)) >= Count[id]
      BY <1>2, <3>3, <3>4
    <3> QED
      BY <3>1, <3>5
  <2> QED
    BY <2>3, <2>4
<1>6. /\ id \notin armed' => countdown'[id] >= 1
      /\ \A r \in FiresOf(id)' : r < Until(Passes)'
      /\ phase' \in {"clear", "enter", "reset"} /\ BoundTo'[id] \in fire'.resets
           => t' \in FiresOf(id)'
  BY <1>1, <1>2, <1>3 DEF ArmOf
<1> QED
  BY <1>4, <1>5, <1>6 DEF ArmOf, CountedSince, FiresOf, ActedAt, Owed, Until

\* A new bar: the resets that fire at it are told, and not counted yet.
LEMMA ArmStarts ==
  ASSUME TypeOK, LedgerInv, ArmInv, NEW id \in BoundIds, NEW f \in Fires, Possible(f),
         StartBar(f)
  PROVE  ArmOf(id)'
<1>1. /\ ArmOf(id) /\ signal' = signal /\ BoundTo' = BoundTo /\ Count' = Count
      /\ Resets' = Resets /\ Entries' = Entries /\ ExitIds' = ExitIds
  BY ArmParts, SignalFixed DEF Next
<1>2. /\ \A a \in ActedAt(id) : a \in Nat /\ a <= t
      /\ \A r \in FiresOf(id) : r \in Nat /\ r <= t
      /\ t \in Nat
  BY BarsSoFar
<1>3. /\ phase = "idle" /\ phase' = "clear" /\ t' = t /\ fire' = f
      /\ UNCHANGED <<armed, countdown, opens, exitLatched>>
      /\ resetFired' = [r \in Resets |->
           IF r \in f.resets THEN resetFired[r] \union {t} ELSE resetFired[r]]
  BY DEF StartBar, armVars, ledgerVars
<1>4. ActedAt(id)' = ActedAt(id)
  BY <1>1, <1>3 DEF ActedAt
<1>5. /\ FiresOf(id) \subseteq FiresOf(id)' /\ FiresOf(id)' \subseteq FiresOf(id) \union {t}
      /\ BoundTo[id] \in f.resets => t \in FiresOf(id)'
  <2>1. f.resets \subseteq Resets
    BY DEF Fires
  <2> QED
    BY <1>1, <1>3, <2>1 DEF FiresOf
<1>6. Until({"emit"}) = t /\ Until({"emit"})' = t /\ Until(Passes)' = t + 1
  BY <1>3 DEF Until, Passes
<1>7. ASSUME NEW a \in ActedAt(id)'
      PROVE  Cardinality(CountedSince(id, a)') + Owed(id)' >= Count'[id]
  <2>1. CountedSince(id, a)' = CountedSince(id, a)
    BY <1>2, <1>5, <1>6 DEF CountedSince
  <2>2. Owed(id)' = Owed(id)
    BY <1>3 DEF Owed
  <2> QED
    BY <1>1, <1>4, <2>1, <2>2 DEF ArmOf
<1>8. ASSUME NEW a \in ActedAt(id)', NEW b \in ActedAt(id)', a < b
      PROVE  Cardinality({ r \in FiresOf(id)' : a <= r /\ r < b }) >= Count'[id]
  <2>1. b <= t /\ b \in Nat
    BY <1>2, <1>4
  <2>2. { r \in FiresOf(id)' : a <= r /\ r < b } = { r \in FiresOf(id) : a <= r /\ r < b }
    BY <1>2, <1>5, <2>1
  <2> QED
    BY <1>1, <1>4, <1>8, <2>2 DEF ArmOf
<1>9. /\ id \notin armed' => countdown'[id] >= 1
      /\ \A r \in FiresOf(id)' : r < Until(Passes)'
      /\ BoundTo'[id] \in fire'.resets => t' \in FiresOf(id)'
  BY <1>1, <1>2, <1>3, <1>5, <1>6 DEF ArmOf
<1> QED
  BY <1>7, <1>8, <1>9 DEF ArmOf, CountedSince, FiresOf, ActedAt, Owed, Until

\* The reset pass counts the fires of the bar.
LEMMA ArmCounts ==
  ASSUME TypeOK, LedgerInv, ArmInv, NEW id \in BoundIds, ResetPass
  PROVE  ArmOf(id)'
<1>1. /\ ArmOf(id) /\ signal' = signal /\ BoundTo' = BoundTo /\ Count' = Count
      /\ Resets' = Resets /\ Entries' = Entries /\ ExitIds' = ExitIds
  BY ArmParts, SignalFixed DEF Next
<1>2. /\ \A a \in ActedAt(id) : a \in Nat /\ a <= t
      /\ \A r \in FiresOf(id) : r \in Nat /\ r <= t
      /\ \A T \in SUBSET FiresOf(id) : IsFiniteSet(T) /\ Cardinality(T) \in Nat
      /\ Count[id] \in Nat /\ countdown[id] \in Nat /\ t \in Nat
  BY BarsSoFar
<1>3. /\ phase = "reset" /\ phase' = "emit" /\ t' = t /\ fire' = fire
      /\ UNCHANGED <<opens, exitLatched, resetFired>>
      /\ countdown'[id] = IF id \in Counting THEN countdown[id] - 1 ELSE countdown[id]
      /\ armed' = armed \union Rearming
  BY DEF ResetPass, ledgerVars
<1>4. ActedAt(id)' = ActedAt(id) /\ FiresOf(id)' = FiresOf(id)
  BY <1>1, <1>3 DEF ActedAt, FiresOf
<1>5. Until({"emit"}) = t /\ Until({"emit"})' = t + 1 /\ Until(Passes)' = t + 1
  BY <1>3 DEF Until, Passes
<1>6. ASSUME NEW a \in ActedAt(id)
      PROVE  Cardinality(CountedSince(id, a)') + Owed(id)' >= Count[id]
  <2> DEFINE S == CountedSince(id, a)
  <2>1. /\ S \subseteq FiresOf(id) /\ IsFiniteSet(S) /\ Cardinality(S) \in Nat
        /\ Cardinality(S) + Owed(id) >= Count[id]
    BY <1>1, <1>2 DEF ArmOf, CountedSince
  <2>2. CASE id \in Counting
    <3>1. id \notin armed /\ countdown[id] >= 1 /\ t \in FiresOf(id)
      BY <1>1, <1>3, <2>2 DEF Counting, ArmOf
    <3>2. CountedSince(id, a)' = S \union {t}
      BY <1>2, <1>4, <1>5, <3>1 DEF CountedSince
    <3>3. t \notin S
      BY <1>2, <1>5 DEF CountedSince
    <3>4. Cardinality(CountedSince(id, a)') = Cardinality(S) + 1
      BY <2>1, <3>2, <3>3, FS_AddElement
    <3>5. Owed(id) = countdown[id]
      BY <3>1 DEF Owed
    <3>6. CASE id \in Rearming
      <4>1. Owed(id)' = 0 /\ countdown[id] <= 1
        BY <1>3, <3>6 DEF Owed, Rearming
      <4> HIDE DEF S
      <4> QED
        BY <1>2, <2>1, <3>4, <3>5, <4>1
    <3>7. CASE id \notin Rearming
      <4>1. Owed(id)' = countdown[id] - 1
        BY <1>3, <2>2, <3>1, <3>7 DEF Owed
      <4> HIDE DEF S
      <4> QED
        BY <1>2, <2>1, <3>4, <3>5, <4>1
    <3> QED
      BY <3>6, <3>7
  <2>3. CASE id \notin Counting
    <3>1. Owed(id)' = Owed(id) /\ Owed(id) \in Nat
      BY <1>2, <1>3, <2>3 DEF Owed, Rearming
    <3>2. S \subseteq CountedSince(id, a)' /\ CountedSince(id, a)' \subseteq FiresOf(id)
      BY <1>2, <1>4, <1>5 DEF CountedSince
    <3>3. IsFiniteSet(CountedSince(id, a)') /\ Cardinality(CountedSince(id, a)') \in Nat
      BY <1>2, <3>2
    <3>4. Cardinality(S) <= Cardinality(CountedSince(id, a)')
      BY <3>2, <3>3, FS_Subset
    <3> HIDE DEF S
    <3> QED
      BY <1>2, <2>1, <3>1, <3>3, <3>4
  <2> QED
    BY <2>2, <2>3
<1>7. \A a, b \in ActedAt(id)' :
         a < b => Cardinality({ r \in FiresOf(id)' : a <= r /\ r < b }) >= Count'[id]
  BY <1>1, <1>4 DEF ArmOf
<1>8. /\ id \notin armed' => countdown'[id] >= 1
      /\ \A r \in FiresOf(id)' : r < Until(Passes)'
  <2>1. id \notin armed' => countdown'[id] >= 1
    BY <1>1, <1>2, <1>3 DEF ArmOf, Rearming, Counting
  <2> QED
    BY <1>2, <1>4, <1>5, <2>1
<1>9. \A a \in ActedAt(id)' :
         Cardinality(CountedSince(id, a)') + Owed(id)' >= Count'[id]
  BY <1>1, <1>4, <1>6
<1> QED
  BY <1>3, <1>7, <1>8, <1>9 DEF ArmOf, CountedSince, FiresOf, ActedAt, Owed, Until


LEMMA ArmKept ==
  ASSUME TypeOK, LedgerInv, ArmInv, [Next]_vars
  PROVE  ArmInv'
<1>1. /\ signal' = signal /\ Entries' = Entries /\ ExitIds' = ExitIds
      /\ BoundTo' = BoundTo /\ BoundIds' = BoundIds /\ Count' = Count /\ Resets' = Resets
  BY SignalFixed
<1>2. t \in Nat /\ t' \in Nat /\ t <= t'
  BY PassesFollow DEF TypeOK, Onward
<1>3. ASSUME NEW id \in ExitIds, NEW b \in exitLatched'[id] PROVE b <= t'
  <2>1. exitLatched'[id] \subseteq exitLatched[id] \union {t}
    BY DEF Next, vars, traceVars, StartBar, ClearPass, ChainPass, EntryPass, ResetPass,
           EmitPass
  <2>2. CASE b = t
    BY <1>2, <2>2
  <2>3. CASE b \in exitLatched[id]
    BY <1>2, <2>3 DEF ArmInv, TypeOK
  <2> QED
    BY <2>1, <2>2, <2>3
<1>4. ASSUME NEW id \in BoundIds PROVE ArmOf(id)'
  <2>1. \A f \in Fires : Possible(f) /\ StartBar(f) => ArmOf(id)'
    BY ArmStarts
  <2>2. ASSUME NEW x \in Exits, ClearPass(x) PROVE ArmOf(id)'
    <3> DEFINE closing == Effective(x)
    <3>1. /\ phase = "clear" /\ phase' = "clear" /\ t' = t /\ fire' = fire
          /\ opens' = opens /\ resetFired' = resetFired
          /\ exitLatched' = [i \in ExitIds |->
               IF i = ExitId[x] /\ closing # {} THEN exitLatched[i] \union {t}
                                                ELSE exitLatched[i]]
          /\ Disarm(IF closing # {} THEN {ExitId[x]} \intersect BoundIds ELSE {})
      BY <2>2 DEF ClearPass
    <3>2. FiresOf(id)' = FiresOf(id)
      BY <1>1, <3>1 DEF FiresOf
    <3>3. CASE closing # {} /\ id = ExitId[x]
      <4>1. id \in armed
        BY <3>3 DEF Effective, MayAct
      <4>2. id \notin armed' /\ countdown'[id] = Count[id]
        BY <3>1, <3>3 DEF Disarm
      <4>3. ActedAt(id)' \subseteq ActedAt(id) \union {t}
        BY <1>1, <3>1 DEF ActedAt
      <4> QED
        BY <1>1, <3>1, <3>2, <4>1, <4>2, <4>3, ArmActs
    <3>4. CASE ~(closing # {} /\ id = ExitId[x])
      <4>1. ((id \in armed') <=> (id \in armed)) /\ countdown'[id] = countdown[id]
        BY <3>1, <3>4 DEF Disarm
      <4>2. ActedAt(id)' = ActedAt(id)
        BY <1>1, <3>1, <3>4 DEF ActedAt
      <4> QED
        BY <1>1, <3>1, <3>2, <4>1, <4>2, ArmStays
    <3> QED
      BY <3>3, <3>4
  <2>3. CASE EntryPass
    <3>1. /\ phase = "enter" /\ phase' = "reset" /\ t' = t /\ fire' = fire
          /\ exitLatched' = exitLatched /\ resetFired' = resetFired
          /\ opens' = [e \in Entries |->
               IF e \in Entering THEN Append(opens[e], t) ELSE opens[e]]
          /\ Disarm(Entering \intersect BoundIds)
      BY <2>3 DEF EntryPass, traceVars
    <3>2. FiresOf(id)' = FiresOf(id)
      BY <1>1, <3>1 DEF FiresOf
    <3>3. CASE id \in Entering
      <4>1. id \in armed /\ id \in Entries
        BY <3>3 DEF Entering, MayAct
      <4>2. id \notin armed' /\ countdown'[id] = Count[id]
        BY <3>1, <3>3 DEF Disarm
      <4>3. opens'[id] = Append(opens[id], t)
        BY <3>1, <3>3, <4>1
      <4>4. ASSUME NEW k \in 1 .. Len(opens'[id])
            PROVE  opens'[id][k] = t \/ \E j \in 1 .. Len(opens[id]) : opens'[id][k] = opens[id][j]
        <5>1. /\ Len(opens'[id]) = Len(opens[id]) + 1 /\ Len(opens[id]) \in Nat
              /\ \A j \in 1 .. Len(opens[id]) : opens'[id][j] = opens[id][j]
              /\ opens'[id][Len(opens[id]) + 1] = t
          BY <1>2, <4>1, <4>3, TradeTypes, AppendFacts
        <5>2. k = Len(opens[id]) + 1 \/ k \in 1 .. Len(opens[id])
          BY <5>1
        <5> QED
          BY <5>1, <5>2
      <4>5. ActedAt(id)' \subseteq ActedAt(id) \union {t}
        BY <1>1, <3>1, <4>1, <4>4 DEF ActedAt
      <4> QED
        BY <1>1, <3>1, <3>2, <4>1, <4>2, <4>5, ArmActs
    <3>4. CASE id \notin Entering
      <4>1. ((id \in armed') <=> (id \in armed)) /\ countdown'[id] = countdown[id]
        BY <3>1, <3>4 DEF Disarm
      <4>2. ActedAt(id)' = ActedAt(id)
        BY <1>1, <3>1, <3>4 DEF ActedAt
      <4> QED
        BY <1>1, <3>1, <3>2, <4>1, <4>2, ArmStays
    <3> QED
      BY <3>3, <3>4
  <2>4. CASE ChainPass \/ EmitPass \/ UNCHANGED vars
    <3>1. /\ UNCHANGED <<armed, countdown, opens, exitLatched, resetFired>>
          /\ \/ t' = t /\ phase' = phase /\ fire' = fire
             \/ t' = t /\ fire' = fire /\ phase = "clear" /\ phase' = "enter"
             \/ t' = t + 1 /\ phase = "emit" /\ phase' = "idle"
      BY <2>4 DEF ChainPass, EmitPass, vars, armVars, ledgerVars, traceVars
    <3>2. ActedAt(id)' = ActedAt(id) /\ FiresOf(id)' = FiresOf(id)
      BY <1>1, <3>1 DEF ActedAt, FiresOf
    <3> QED
      BY <1>1, <3>1, <3>2, ArmStays
  <2> QED
    BY <2>1, <2>2, <2>3, <2>4, ArmCounts DEF Next
<1> QED
  BY <1>1, <1>3, <1>4
  DEF ArmInv, RearmNeedsCount, ArmOf, Owed, CountedSince, FiresOf, ActedAt, Until

(***************************************************************************)
(* The gated chains                                                        *)
(***************************************************************************)

\* The part of ChainInv that is about one gated entry.
ChainOf(e) ==
  /\ phase = "clear" /\ chain[e] # Idle /\ e \notin closedNow =>
       \A k \in 1 .. Len(closes[e]) : closes[e][k].bar <= chain[e].tau
  /\ LastStage(Windows[e]) = 1 /\ raw[e] # Idle =>
       chain[e] = raw[e] \/ \E k \in 1 .. Len(closes[e]) : closes[e][k].bar > raw[e].tau
  /\ phase # "clear" /\ chain[e] # Idle =>
       \A k \in 1 .. Len(closes[e]) : closes[e][k].bar <= chain[e].tau

\* The part that is about the closes of the bar.
ClosesOfTheBar ==
  phase = "clear" =>
    \A e \in closedNow : \E k \in 1 .. Len(closes[e]) : closes[e][k].bar = t

LEMMA ChainParts == ChainInv <=> ClosesOfTheBar /\ \A e \in Gated : ChainOf(e)
  BY DEF ChainInv, OnlyClosesDropCandidates, ActualExitKeepsCandidate,
         CandidateSinceClose, ChainOf, ClosesOfTheBar

\* A candidate's bars.
LEMMA CandidateFacts ==
  ASSUME NEW win \in Seq(Nat \ {0}), NEW b \in Nat, NEW c \in Candidate(win, b), c # Idle
  PROVE  c.tau \in Nat /\ c.tau < b /\ c.stage \in Nat /\ c.stage < LastStage(win)
  BY LenProperties DEF Candidate, LastStage

\* With two stages, a step that ends with a candidate of an earlier bar kept it.
LEMMA TwoStageStep ==
  ASSUME NEW win \in Seq(Nat \ {0}), Len(win) = 1, NEW b \in Nat,
         NEW c \in Candidate(win, b), NEW match, NEW gap, NEW abort,
         Progress(c, win, b, match, gap, abort) # Idle
  PROVE  /\ Progress(c, win, b, match, gap, abort) = c /\ c # Idle
         /\ \A other : ~other => Progress(c, win, b, match, gap, other) = c
<1>1. ~Dropped(c, win, b, gap, abort) /\ ~Completes(c, win, b, match, gap, abort)
  BY DEF Progress
<1>2. ~Advances(c, win, b, match)
  <2> SUFFICES ASSUME Advances(c, win, b, match) PROVE FALSE
    OBVIOUS
  <2>1. c # Idle /\ c.stage = 0
    BY DEF Advances, InFlight, Idle, Candidate, LastStage
  <2> QED
    BY <1>1, <2>1 DEF Completes, LastStage
<1>3. Progress(c, win, b, match, gap, abort) = c
  BY <1>1, <1>2 DEF Progress
<1>4. ASSUME NEW other, ~other PROVE Progress(c, win, b, match, gap, other) = c
  BY <1>1, <1>2, <1>4 DEF Progress, Dropped, Completes
<1> QED
  BY <1>3, <1>4

\* A pass that leaves the closes and the chains of an entry alone.
LEMMA ChainStays ==
  ASSUME NEW e \in Gated, ChainOf(e), Windows' = Windows,
         closes'[e] = closes[e], chain'[e] = chain[e], raw'[e] = raw[e],
         phase' = "clear" => phase \in {"idle", "clear"}
                             /\ (phase = "clear" => (e \in closedNow => e \in closedNow')),
         phase = "clear" => phase' = "clear"
  PROVE  ChainOf(e)'
  BY DEF ChainOf

LEMMA ChainKept ==
  ASSUME TypeOK, LedgerInv, ChainInv, [Next]_vars
  PROVE  ChainInv'
<1>1. /\ signal' = signal /\ Entries' = Entries /\ Windows' = Windows /\ Gated' = Gated
  BY SignalFixed
<1>2. /\ Gated \subseteq Entries /\ t \in Nat
      /\ \A e \in Gated : Windows[e] \in Seq(Nat \ {0}) /\ Len(Windows[e]) >= 1
  BY SignalFacts DEF TypeOK
<1>3. ClosesOfTheBar'
  <2>1. ASSUME NEW x \in Exits, ClearPass(x) PROVE ClosesOfTheBar'
    <3> DEFINE c == [bar |-> t, exit |-> ExitId[x]]
    <3>1. /\ phase = "clear" /\ t' = t /\ closedNow' = closedNow \union Effective(x)
          /\ \A e \in Entries : closes'[e] = IF e \in Effective(x) THEN Append(closes[e], c)
                                                                  ELSE closes[e]
          /\ closedNow \subseteq Entries /\ Effective(x) \subseteq Entries
      BY <2>1 DEF ClearPass, TypeOK, Effective
    <3>2. c \in [bar: Nat, exit: ExitIds] /\ c.bar = t
      BY SignalFacts DEF TypeOK
    <3> HIDE DEF c
    <3>3. ASSUME NEW e \in closedNow' PROVE \E k \in 1 .. Len(closes'[e]) : closes'[e][k].bar = t
      <4>1. CASE e \in Effective(x)
        <5>1. /\ Len(closes'[e]) = Len(closes[e]) + 1 /\ Len(closes[e]) \in Nat
              /\ closes'[e][Len(closes[e]) + 1] = c
          <6>1. e \in Entries /\ closes'[e] = Append(closes[e], c)
            BY <3>1, <4>1
          <6>2. closes[e] \in Seq([bar: Nat, exit: ExitIds])
            BY <6>1, TradeTypes
          <6> QED
            BY <3>2, <6>1, <6>2, AppendFacts
        <5>2. Len(closes[e]) + 1 \in 1 .. Len(closes'[e])
          BY <5>1
        <5> QED
          BY <3>2, <5>1, <5>2
      <4>2. CASE e \notin Effective(x)
        BY <3>1, <3>3, <4>2 DEF ChainInv
      <4> QED
        BY <4>1, <4>2
    <3> QED
      BY <3>1, <3>3 DEF ClosesOfTheBar
  <2>2. CASE phase' = "clear" /\ ~\E x \in Exits : ClearPass(x)
    <3>1. \/ closedNow' = {}
          \/ UNCHANGED <<phase, t, closedNow, closes>>
      BY <2>2 DEF Next, vars, ledgerVars, StartBar, ChainPass, EntryPass, ResetPass, EmitPass
    <3> QED
      BY <3>1 DEF ClosesOfTheBar, ChainInv
  <2>3. CASE phase' # "clear"
    BY <2>3 DEF ClosesOfTheBar
  <2> QED
    BY <2>1, <2>2, <2>3
<1>4. ASSUME NEW e \in Gated PROVE ChainOf(e)'
  <2>1. ChainOf(e) /\ e \in Entries /\ ClosesOfTheBar
    BY <1>2, ChainParts
  <2>2. \A k \in 1 .. Len(closes[e]) : closes[e][k].bar \in Nat /\ closes[e][k].bar <= t
    <3>1. ASSUME NEW k \in 1 .. Len(closes[e]) PROVE closes[e][k].bar \in Nat /\ closes[e][k].bar <= t
      <4>1. closes[e][k].bar \in Nat /\ closes[e][k].bar < Until(Passes)
        BY <2>1, TradeTypes DEF LedgerInv
      <4> QED
        BY <1>2, <4>1 DEF Until
    <3> QED
      BY <3>1
  <2>3. ASSUME NEW x \in Exits, ClearPass(x) PROVE ChainOf(e)'
    <3> DEFINE c == [bar |-> t, exit |-> ExitId[x]]
    <3>1. /\ phase = "clear" /\ phase' = "clear" /\ chain' = chain /\ raw' = raw
          /\ closedNow' = closedNow \union Effective(x)
          /\ closes'[e] = IF e \in Effective(x) THEN Append(closes[e], c) ELSE closes[e]
      BY <2>1, <2>3 DEF ClearPass, chainVars
    <3>2. CASE e \notin Effective(x)
      BY <1>1, <2>1, <3>1, <3>2, ChainStays
    <3>3. CASE e \in Effective(x)
      <4>1. c \in [bar: Nat, exit: ExitIds]
        BY SignalFacts DEF TypeOK
      <4>2. /\ Len(closes'[e]) = Len(closes[e]) + 1 /\ Len(closes[e]) \in Nat
            /\ \A k \in 1 .. Len(closes[e]) : closes'[e][k] = closes[e][k]
        BY <2>1, <3>1, <3>3, <4>1, TradeTypes, AppendFacts
      <4> HIDE DEF c
      <4>3. 1 .. Len(closes[e]) \subseteq 1 .. Len(closes'[e])
        BY <4>2
      <4>4. LastStage(Windows[e]) = 1 /\ raw[e] # Idle =>
              \/ chain[e] = raw[e]
              \/ \E k \in 1 .. Len(closes'[e]) : closes'[e][k].bar > raw[e].tau
        BY <2>1, <4>2, <4>3 DEF ChainOf
      <4> QED
        BY <1>1, <3>1, <3>3, <4>4 DEF ChainOf
    <3> QED
      BY <3>2, <3>3
  <2>4. CASE ChainPass
    <3> DEFINE win == Windows[e]
               m == fire.match[e]
               g == fire.gap[e]
    <3>1. /\ phase = "clear" /\ phase' = "enter" /\ t' = t /\ closes' = closes
          /\ chain'[e] = ChainNext(chain[e], win, t, m, g, Aborts(e))
          /\ raw'[e] = ChainNext(raw[e], win, t, m, g, ChainReset(e))
      BY <2>4 DEF ChainPass, ledgerVars
    <3>2. /\ chain[e] \in Candidate(win, t) /\ raw[e] \in Candidate(win, t)
          /\ win \in Seq(Nat \ {0}) /\ Len(win) >= 1
      BY <1>2, <3>1 DEF TypeOK, Until, Passes
    <3>3. chain'[e] # Idle =>
            \A k \in 1 .. Len(closes[e]) : closes[e][k].bar <= chain'[e].tau
      <4>1. CASE 0 \in m
        <5>1. chain'[e] = [stage |-> 0, tau |-> t]
          BY <3>1, <4>1 DEF ChainNext
        <5> QED
          BY <2>2, <5>1
      <4>2. CASE 0 \notin m /\ e \in closedNow
        BY <3>1, <4>2 DEF ChainNext, Progress, Dropped, Aborts
      <4>3. CASE 0 \notin m /\ e \notin closedNow
        <5>1. chain'[e] = Progress(chain[e], win, t, m, g, Aborts(e))
          BY <3>1, <4>3 DEF ChainNext
        <5>2. CASE chain[e] = Idle
          BY <5>1, <5>2 DEF Progress, Completes, Advances, InFlight, Idle
        <5>3. CASE chain[e] # Idle
          <6>1. chain'[e] \in {Idle, chain[e]} \/ chain'[e].tau = t
            BY <5>1 DEF Progress
          <6>2. \A k \in 1 .. Len(closes[e]) : closes[e][k].bar <= chain[e].tau
            BY <2>1, <3>1, <4>3, <5>3 DEF ChainOf
          <6> QED
            BY <2>2, <6>1, <6>2
        <5> QED
          BY <5>2, <5>3
      <4> QED
        BY <4>1, <4>2, <4>3
    <3>4. ASSUME LastStage(win) = 1, raw'[e] # Idle
          PROVE  \/ chain'[e] = raw'[e]
                 \/ \E k \in 1 .. Len(closes[e]) : closes[e][k].bar > raw'[e].tau
      <4>1. CASE 0 \in m
        BY <3>1, <4>1 DEF ChainNext
      <4>2. CASE 0 \notin m
        <5>1. /\ raw'[e] = Progress(raw[e], win, t, m, g, ChainReset(e))
              /\ chain'[e] = Progress(chain[e], win, t, m, g, Aborts(e))
          BY <3>1, <4>2 DEF ChainNext
        <5>2. Len(win) = 1
          BY <3>4 DEF LastStage
        <5> HIDE DEF win, m, g
        <5>3. /\ raw'[e] = raw[e] /\ raw[e] # Idle
              /\ ~Aborts(e) => Progress(raw[e], win, t, m, g, Aborts(e)) = raw[e]
          <6>1. Progress(raw[e], win, t, m, g, ChainReset(e)) # Idle
            BY <3>4, <5>1
          <6>2. raw[e] \in Candidate(win, t) /\ t \in Nat /\ win \in Seq(Nat \ {0})
            BY <1>2, <3>2
          <6> HIDE DEF ChainReset, Aborts
          <6> QED
            BY <5>1, <5>2, <6>1, <6>2, TwoStageStep
        <5>4. \/ chain[e] = raw[e]
              \/ \E k \in 1 .. Len(closes[e]) : closes[e][k].bar > raw[e].tau
          BY <2>1, <3>4, <5>3 DEF ChainOf, win
        <5>5. CASE chain[e] = raw[e] /\ ~Aborts(e)
          BY <5>1, <5>3, <5>5
        <5>6. CASE chain[e] = raw[e] /\ Aborts(e)
          <6>1. PICK k \in 1 .. Len(closes[e]) : closes[e][k].bar = t
            BY <2>1, <3>1, <5>6 DEF ClosesOfTheBar, Aborts
          <6>2. raw[e].tau \in Nat /\ raw[e].tau < t
            BY <1>2, <3>2, <5>3, CandidateFacts
          <6> QED
            BY <1>2, <5>3, <6>1, <6>2
        <5> QED
          BY <5>3, <5>4, <5>5, <5>6
      <4> QED
        BY <4>1, <4>2
    <3> QED
      BY <1>1, <3>1, <3>3, <3>4 DEF ChainOf
  <2>5. ASSUME UNCHANGED <<closes, chain, raw>>,
               \/ UNCHANGED <<phase, closedNow>>
               \/ phase = "idle" /\ phase' = "clear"
               \/ phase # "clear" /\ phase' # "clear"
        PROVE  ChainOf(e)'
    BY <1>1, <2>1, <2>5, ChainStays
  <2>6. CASE \E f \in Fires : StartBar(f)
    BY <2>5, <2>6 DEF StartBar, ledgerVars, chainVars
  <2>7. CASE EntryPass \/ ResetPass \/ EmitPass \/ UNCHANGED vars
    BY <2>5, <2>7 DEF EntryPass, ResetPass, EmitPass, vars, ledgerVars, chainVars
  <2> QED
    BY <2>3, <2>4, <2>6, <2>7 DEF Next
<1> QED
  BY <1>1, <1>3, <1>4
  DEF ChainInv, OnlyClosesDropCandidates, ActualExitKeepsCandidate,
      CandidateSinceClose, ChainOf, ClosesOfTheBar

(***************************************************************************)
(* The theorems                                                            *)
(***************************************************************************)

\* What the passes have told of the trades, the arms and the chains is as LatchInv
\* says in every reachable state.
THEOREM LatchInvariant == Spec => []LatchInv
<1>1. Init => LatchInv
  BY Inits
<1>2. LatchInv /\ [Next]_vars => LatchInv'
  BY TypesKept, LedgerKept, ArmKept, ChainKept DEF LatchInv
<1> QED
  BY <1>1, <1>2, PTL DEF Spec

\* The ledger from which trades are paired agrees with the latch, for any signal
\* (evaluate_signal: trade_opens, trade_closes).
THEOREM LedgerAgrees == Spec => []LedgerMatchesLatch
<1>1. LatchInv => LedgerMatchesLatch
  BY DEF LatchInv, LedgerInv
<1> QED
  BY <1>1, LatchInvariant, PTL

\* Between two actions of a bound block its reset fired as often as it must, the
\* fires of the second action's bar not counted (evaluate_signal: block_arm,
\* arm_countdown).
THEOREM RearmWaitsForFires == Spec => []RearmNeedsCount
<1>1. LatchInv => RearmNeedsCount
  BY DEF LatchInv, ArmInv
<1> QED
  BY <1>1, LatchInvariant, PTL

\* Under reset_on_actual_exit a chain loses its candidate to a real close of its
\* entry, and never to the mere condition of an exit (evaluate_signal: pass b.5).
THEOREM ClosesDropCandidates == Spec => []OnlyClosesDropCandidates
<1>1. LatchInv => OnlyClosesDropCandidates
  BY DEF LatchInv, ChainInv
<1> QED
  BY <1>1, LatchInvariant, PTL

=============================================================================
