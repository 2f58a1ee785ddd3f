------------------------------- MODULE Autosave -------------------------------
(***************************************************************************)
(* The editor's backend autosave: frontend/src/hooks/useBackendAutosave.js *)
(* with the page that drives it (SignalsPage, IndicatorsPage,              *)
(* PortfolioPage) and the wire to the backend as its environment.          *)
(*                                                                         *)
(* JavaScript runs one callback at a time, so an action is a callback: a   *)
(* re-render with its effects, a click, the debounce timer, the settlement *)
(* of a save's promise, the unmount.  A payload is the version number of   *)
(* the edit it holds.  Each save goes out as one request; the backend may  *)
(* store it at any moment until its promise settles.                       *)
(***************************************************************************)
EXTENDS Naturals, FiniteSets

CONSTANT MaxEvents      \* bound on what the user does

ASSUME MaxEventsAssumption == MaxEvents \in Nat

VARIABLES
  mounted,    \* mountedRef
  enabled,    \* the hook's gate: autosave on, edited, not locked
  payload,    \* the payload prop of the last render
  ref,        \* payloadRef: what a save launched now would send
  pending,    \* pendingRef: the debounce is armed
  flight,     \* controllerRef: the id of the save in flight, or 0
  restart,    \* pendingRestartRef: a save is queued behind it
  status,     \* what the page shows
  wire,       \* saves whose promise has not settled
  awaiting,   \* saveNow promises not settled: on a save id, or on the queue
  store,      \* what the backend holds for the selected document
  sent,       \* what the last save launched for it sends
  due,        \* the newest payload the hook owes a save for, or 0
  edits,      \* versions made so far
  saves,      \* saves launched so far
  events      \* what the user did so far

pageVars == <<mounted, enabled, payload, edits, events>>
hookVars == <<pageVars, ref, pending, flight, restart, status, wire, awaiting,
              store, sent, due, saves>>

Queue == 0     \* pendingRestartDeferredRef, beside the save ids 1, 2, ...

HookInit ==
  /\ mounted = TRUE /\ enabled = FALSE
  /\ payload = 1 /\ ref = 1 /\ edits = 1 /\ store = 1 /\ sent = 1
  /\ pending = FALSE /\ restart = FALSE
  /\ flight = 0 /\ saves = 0 /\ wire = {} /\ awaiting = {}
  /\ status = "idle" /\ due = 0 /\ events = 0

UserActs == mounted /\ events < MaxEvents /\ events' = events + 1

Show(s) == status' = IF mounted' THEN s ELSE status

\* launchSave, with the requests in rest still on the wire.
Launch(rest) ==
  /\ saves' = saves + 1
  /\ wire' = rest \union {[id |-> saves', value |-> ref', aborted |-> FALSE, stored |-> FALSE]}
  /\ flight' = saves'
  /\ sent' = ref'
  /\ due' = 0
  /\ Show("saving")

RunSaveAtOnce ==        \* mutant: a second save goes out beside the first
  /\ Launch(wire)
  /\ UNCHANGED restart

RunSaveDropped ==       \* mutant: nothing is queued behind a save in flight
  IF flight # 0
    THEN UNCHANGED <<restart, saves, wire, flight, sent, due, status>>
    ELSE Launch(wire) /\ UNCHANGED restart

\* runSave: queue behind the save in flight, or launch.
RunSave ==
  IF flight # 0
    THEN /\ restart' = TRUE
         /\ UNCHANGED <<saves, wire, flight, sent, due, status>>
    ELSE Launch(wire) /\ UNCHANGED restart

\* reset(): everything scheduled is discarded, the save in flight is no longer
\* active, and the promises waiting on the queue are settled, with those on the
\* saves that settle in the same step.
Reset(settled) ==
  /\ pending' = FALSE /\ restart' = FALSE /\ flight' = 0 /\ due' = 0
  /\ awaiting' = { a \in awaiting : a.on \notin {Queue} \union settled }
  /\ Show("idle")

Aborted == { [s EXCEPT !.aborted = @ \/ s.id = flight] : s \in wire }

-----------------------------------------------------------------------------
\* A render with a new payload or gate runs the effects: the payload is tracked
\* and the debounce re-armed, or cancelled when the gate is closed.
Render(edited, gate) ==
  /\ UserActs
  /\ edited \/ gate # enabled \/ payload # edits
  /\ edits' = IF edited THEN edits + 1 ELSE edits
  /\ payload' = edits'
  /\ ref' = payload'
  /\ enabled' = gate
  /\ pending' = gate
  /\ due' = IF gate \/ restart THEN ref' ELSE 0
  /\ UNCHANGED <<mounted, flight, restart, status, wire, awaiting, store, sent, saves>>

\* The user selects another document: its content becomes the payload and the
\* page calls reset().  The aborted save belongs to the document left behind.
Select ==
  /\ UserActs
  /\ edits' = edits + 1
  /\ payload' = edits' /\ ref' = edits' /\ store' = edits' /\ sent' = edits'
  /\ enabled' = FALSE
  /\ UNCHANGED <<mounted, saves>>
  /\ wire' = Aborted
  /\ Reset({})

\* The debounce timer, and flush(), which fires it early.
TimerFires ==
  /\ mounted /\ pending
  /\ pending' = FALSE
  /\ UNCHANGED <<pageVars, ref, awaiting, store>>
  /\ RunSave

\* What a saveNow promise waits for: the queued restart when a save is in
\* flight, else the save it launches.
Promised == IF flight # 0 THEN Queue ELSE saves + 1

\* saveNow(override): with an override the payload prop follows in a later render.
SaveNow(override) ==
  /\ UserActs
  /\ edits' = IF override THEN edits + 1 ELSE edits
  /\ ref' = IF override THEN edits' ELSE ref
  /\ pending' = FALSE
  /\ awaiting' = awaiting \union {[version |-> ref', on |-> Promised]}
  /\ UNCHANGED <<mounted, enabled, payload, store>>
  /\ IF flight # 0
       THEN /\ restart' = TRUE /\ due' = ref'
            /\ UNCHANGED <<saves, wire, flight, sent, status>>
       ELSE Launch(wire) /\ UNCHANGED restart

\* The page goes away: an armed debounce is flushed, a save in flight is left
\* alone, and without an armed debounce the queue is emptied.
Unmount ==
  /\ mounted
  /\ mounted' = FALSE
  /\ pending' = FALSE
  /\ UNCHANGED <<enabled, payload, edits, events, ref, awaiting, store>>
  /\ IF pending
       THEN RunSave
       ELSE restart' = FALSE /\ UNCHANGED <<saves, wire, flight, sent, due, status>>

\* The backend stores a request; an aborted one may still arrive, for the
\* document left behind.
Stored(s) ==
  /\ ~s.stored
  /\ wire' = (wire \ {s}) \union {[s EXCEPT !.stored = TRUE]}
  /\ store' = IF s.aborted THEN store ELSE s.value
  /\ UNCHANGED <<pageVars, ref, pending, flight, restart, status, awaiting, sent,
                 due, saves>>

\* controllerRef.current === controller.
StillActive(s) == s.id = flight

RestartDueOnSuccess(outcome) == restart /\ outcome = "ok"   \* mutant: not after a failure

\* Whatever the outcome, the queued save is next.
RestartDue(outcome) == restart

Report(outcome) ==
  /\ flight' = 0
  /\ Show(IF outcome = "ok" THEN "saved" ELSE "error")
  /\ UNCHANGED <<restart, saves, sent, due>>

Outcomes(s) == {"error"} \union (IF s.stored THEN {"ok"} ELSE {})

\* A save's promise settles.  A superseded one changes nothing else; after the
\* active one the queued save goes out, carrying the promises that wait for it,
\* or the page is shown how it ended.
Settle(s, outcome) ==
  /\ UNCHANGED <<pageVars, ref, pending, store>>
  /\ LET others == { a \in awaiting : a.on # s.id }
     IN  CASE ~StillActive(s) ->
                /\ wire' = wire \ {s} /\ awaiting' = others
                /\ UNCHANGED <<flight, restart, status, saves, sent, due>>
           [] StillActive(s) /\ RestartDue(outcome) ->
                /\ restart' = FALSE
                /\ Launch(wire \ {s})
                /\ awaiting' = { IF a.on = Queue THEN [a EXCEPT !.on = saves'] ELSE a :
                                   a \in others }
           [] StillActive(s) /\ ~RestartDue(outcome) ->
                /\ wire' = wire \ {s} /\ awaiting' = others
                /\ Report(outcome)

\* 423: the page's onSave closes the gate, calls reset() and swallows the error,
\* so the promise settles as a superseded one.
SettleLocked(s) ==
  /\ s.id = flight /\ ~s.stored
  /\ enabled' = FALSE
  /\ UNCHANGED <<mounted, payload, edits, events, ref, store, sent, saves>>
  /\ wire' = wire \ {s}
  /\ Reset({s.id})

HookNext ==
  \/ \E edited, gate \in BOOLEAN : Render(edited, gate)
  \/ Select
  \/ TimerFires
  \/ \E override \in BOOLEAN : SaveNow(override)
  \/ Unmount
  \/ \E s \in wire : \/ Stored(s)
                     \/ \E outcome \in Outcomes(s) : Settle(s, outcome)
                     \/ SettleLocked(s)

\* A timer that was armed fires, and a request is answered or fails.
Settles == \E s \in wire : \E outcome \in Outcomes(s) : Settle(s, outcome)

Fairness == WF_hookVars(TimerFires) /\ WF_hookVars(Settles)

HookSpec == HookInit /\ [][HookNext]_hookVars /\ Fairness
-----------------------------------------------------------------------------
(* Properties                                                              *)

\* No out-of-order writes: what the backend holds for a document never goes
\* back to an older edit.
NoStaleWrite == [][store' >= store]_hookVars

\* While the page is there, an edit the hook was asked to save and did not
\* discard is armed, queued, or has gone out in the last save.
NothingForgottenHere == mounted /\ due # 0 => pending \/ restart

\* "saved" is shown only when the backend holds the last payload sent, and
\* "saving" exactly while a save is in flight.
StatusIsTrue ==
  /\ mounted /\ status = "saved" => store = sent
  /\ mounted => (status = "saving" <=> flight # 0)

\* A saveNow promise always has a save that will settle it: one on the wire, or
\* a queued one behind the save in flight.
PromiseHasSave ==
  \A a \in awaiting :
    \/ \E s \in wire : a.on = s.id
    \/ a.on = Queue /\ (mounted => restart /\ flight # 0)

\* The hook's word is good: nothing it was asked to save is forgotten, the status
\* it shows is that of the backend, and each of its promises has a save behind it.
HookKeepsItsWord == NothingForgottenHere /\ StatusIsTrue /\ PromiseHasSave

\* A saveNow promise is settled only when a save of its payload or of a later
\* one has settled, or when everything scheduled is discarded.
PromiseKept ==
  [][\A a \in awaiting :
       (\A b \in awaiting' : b.version # a.version)
         => \/ \E s \in wire : s.value >= a.version /\ \A r \in wire' : r.id # s.id
            \/ a.on = Queue /\ flight # 0 /\ flight' = 0]_hookVars

\* The hook comes to rest: no save in flight or queued, no debounce armed, no
\* promise of a page still there unsettled.
AtRest == flight = 0 /\ ~restart /\ ~pending /\ (mounted => awaiting = {})

EventuallyAtRest == ~AtRest ~> AtRest

\* Whatever is saved, fails, is reset or left: every promise is kept, and the
\* hook comes to rest.
EverythingSettles == PromiseKept /\ EventuallyAtRest

-----------------------------------------------------------------------------
(* What the properties rest on                                             *)

HookTypeOK ==
  /\ mounted \in BOOLEAN /\ enabled \in BOOLEAN
  /\ pending \in BOOLEAN /\ restart \in BOOLEAN
  /\ payload \in Nat /\ ref \in Nat /\ edits \in Nat /\ store \in Nat /\ sent \in Nat
  /\ due \in Nat /\ saves \in Nat /\ events \in Nat
  /\ flight \in 0 .. saves
  /\ status \in {"idle", "saving", "saved", "error"}
  /\ wire \subseteq [id: 1 .. saves, value: Nat, aborted: BOOLEAN, stored: BOOLEAN]
  /\ awaiting \subseteq [version: Nat, on: 0 .. saves]

\* Of the requests on the wire only the active one can still be stored for the
\* selected document; it holds what was last sent for it.
WireFits ==
  /\ \A r, s \in wire : r.id = s.id => r = s
  /\ \A s \in wire : IF s.id = flight
                       THEN ~s.aborted /\ s.value = sent /\ (s.stored => store = sent)
                       ELSE s.aborted
  /\ flight # 0 => \E s \in wire : s.id = flight
  /\ restart => flight # 0

\* Versions only grow on their way from the editor to the backend, and a promise
\* waits for no save of an older one.
VersionsOrdered ==
  /\ store <= sent /\ sent <= ref /\ ref <= edits
  /\ \A a \in awaiting :
       /\ a.version <= ref
       /\ \A s \in wire : a.on = s.id => a.version <= s.value

HookInv == HookTypeOK /\ WireFits /\ VersionsOrdered /\ HookKeepsItsWord
=============================================================================
