----------------------------- MODULE IntradayJobs -----------------------------
(***************************************************************************)
(* Intraday backtests that run in the background: the job store of         *)
(* tcg/core/api/intraday_backtest.py (POST /run-async, GET /progress) and  *)
(* the pages that start a run and poll it (IntradayBacktestPage.jsx).      *)
(*                                                                         *)
(* The backend's event loop and the browser's run one callback at a time;  *)
(* requests and answers travel between them, may be lost, and several      *)
(* pages share one store of bounded size that a restart empties.           *)
(***************************************************************************)
EXTENDS Integers, Sequences, FiniteSets

CONSTANTS
  Pages,        \* mounted instances of the page
  Cap,          \* _JOB_CAP
  Days,         \* total_days, the trading days of a run
  MaxErrors,    \* MAX_CONSECUTIVE_POLL_ERRORS
  MaxJobs       \* bound on the jobs created

ASSUME BoundsAssumption ==
  /\ Cap \in Nat \ {0} /\ MaxErrors \in Nat \ {0}
  /\ Days \in Nat \ {0} /\ MaxJobs \in Nat

VARIABLES
  kept,         \* the job ids of _JOBS; ids follow the order of insertion
  job,          \* the status and days_done of every job created
  nextJob,      \* the id the next job gets
  restarted,    \* the backend was restarted (at most once)
  mounted,      \* the page is there
  view,         \* what it shows: running, result, runError, progress
  start,        \* its POST /run-async: not sent, sent, or replied with a job (0: failed)
  interval,     \* pollRef: the job its timer polls, or 0
  guard,        \* inFlightRef
  errors,       \* consecutiveErrorsRef
  polls,        \* its polls in flight, answered or not
  mine          \* the job the backend created for the last click, or 0

serverVars == <<kept, job, nextJob, restarted>>
refVars == <<interval, guard, errors>>
vars == <<serverVars, mounted, view, start, refVars, polls, mine>>

JobIds == 1 .. MaxJobs
None == 0

Statuses == {"none", "running", "done", "error", "dead"}
Terminal(j) == job[j].status \in {"done", "error"}

NotSent == [phase |-> "none", job |-> None]
Blank == [running |-> FALSE, result |-> None, failed |-> FALSE, progress |-> 0]

Init ==
  /\ kept = {}
  /\ job = [j \in JobIds |-> [status |-> "none", done |-> 0]]
  /\ nextJob = 1 /\ restarted = FALSE
  /\ mounted = [p \in Pages |-> TRUE]
  /\ view = [p \in Pages |-> Blank]
  /\ start = [p \in Pages |-> NotSent]
  /\ interval = [p \in Pages |-> None]
  /\ guard = [p \in Pages |-> FALSE]
  /\ errors = [p \in Pages |-> 0]
  /\ polls = [p \in Pages |-> <<>>]
  /\ mine = [p \in Pages |-> None]

-----------------------------------------------------------------------------
(* The backend *)

Excess == IF Cardinality(kept) < Cap THEN 0 ELSE Cardinality(kept) - Cap + 1

Finished == { j \in kept : Terminal(j) }

PrunedAll ==               \* mutant: every finished job goes
  IF Excess = 0 THEN kept ELSE kept \ Finished

\* _prune_jobs: the oldest finished jobs go, as many as needed; a running one never.
Pruned ==
  kept \ { j \in Finished : Cardinality({ k \in Finished : k < j }) < Excess }

\* post_run_async: the request is valid; a job is stored and its task started.
Stored ==
  /\ nextJob <= MaxJobs
  /\ kept' = Pruned \union {nextJob}
  /\ job' = [job EXCEPT ![nextJob] = [status |-> "running", done |-> 0]]
  /\ nextJob' = nextJob + 1
Post(p) ==
  /\ start[p].phase = "sent"
  /\ Stored
  /\ start' = [start EXCEPT ![p] = [phase |-> "replied", job |-> nextJob]]
  /\ mine' = [mine EXCEPT ![p] = nextJob]
  /\ UNCHANGED <<restarted, mounted, view, refVars, polls>>

\* The request of a page elsewhere, which shows nothing here.
PostElsewhere ==
  /\ Stored
  /\ UNCHANGED <<restarted, mounted, view, start, refVars, polls, mine>>

\* The request is refused (400) before a job exists, or it or its answer is lost.
PostFails(p) ==
  /\ \/ start[p].phase = "sent"
     \/ start[p].phase = "replied" /\ start[p].job # None
  /\ start' = [start EXCEPT ![p] = [phase |-> "replied", job |-> None]]
  /\ UNCHANGED <<serverVars, mounted, view, refVars, polls, mine>>

Day(j) ==
  /\ job[j].status = "running" /\ job[j].done < Days
  /\ job' = [job EXCEPT ![j].done = @ + 1]
  /\ UNCHANGED <<kept, nextJob, restarted, mounted, view, start, refVars, polls, mine>>

EndJob(j) ==
  /\ job[j].status = "running"
  /\ \/ job[j].done = Days /\ job' = [job EXCEPT ![j].status = "done"]
     \/ job' = [job EXCEPT ![j].status = "error"]
  /\ UNCHANGED <<kept, nextJob, restarted, mounted, view, start, refVars, polls, mine>>

\* The process is restarted: the store is in memory, and the tasks die.
Restart ==
  /\ ~restarted /\ restarted' = TRUE
  /\ kept' = {}
  /\ job' = [j \in JobIds |-> IF job[j].status = "running"
                                THEN [job[j] EXCEPT !.status = "dead"] ELSE job[j]]
  /\ UNCHANGED <<nextJob, mounted, view, start, refVars, polls, mine>>

Missed == [answer |-> "missed", done |-> 0]

\* get_progress: a snapshot of the job, or 404 for an unknown id.
Snapshot(j) == IF j \in kept THEN [answer |-> job[j].status, done |-> job[j].done]
                                     ELSE Missed

\* The poll is answered, or lost on the way.
AnswerPoll(p, i) ==
  /\ i \in DOMAIN polls[p] /\ polls[p][i].answer = "pending"
  /\ \E a \in {Snapshot(polls[p][i].job), Missed} :
       polls' = [polls EXCEPT ![p][i].answer = a.answer, ![p][i].done = a.done]
  /\ UNCHANGED <<serverVars, mounted, view, start, refVars, mine>>

-----------------------------------------------------------------------------
(* The page *)

Show(p, v) == view' = IF mounted[p] THEN [view EXCEPT ![p] = v] ELSE view

StopPolling(p) == /\ interval' = [interval EXCEPT ![p] = None]
                  /\ guard' = [guard EXCEPT ![p] = FALSE]

Failed == [running |-> FALSE, result |-> None, failed |-> TRUE, progress |-> 0]

\* onRun: the button is enabled while no run is on.
Click(p) ==
  /\ mounted[p] /\ ~view[p].running /\ nextJob <= MaxJobs
  /\ Show(p, [Blank EXCEPT !.running = TRUE])
  /\ errors' = [errors EXCEPT ![p] = 0]
  /\ start' = [start EXCEPT ![p] = [phase |-> "sent", job |-> None]]
  /\ mine' = [mine EXCEPT ![p] = None]
  /\ UNCHANGED <<serverVars, mounted, interval, guard, polls>>

\* onRun after its await: the timer is started, whether or not the page is
\* still there.
Started(p) ==
  /\ start[p].phase = "replied"
  /\ start' = [start EXCEPT ![p] = NotSent]
  /\ IF start[p].job = None
       THEN StopPolling(p) /\ Show(p, Failed)
       ELSE /\ interval' = [interval EXCEPT ![p] = start[p].job]
            /\ UNCHANGED <<view, guard>>
  /\ UNCHANGED <<serverVars, mounted, errors, polls, mine>>

MayPollAlways(p) == Len(polls[p]) < 2     \* mutant: ticks overlap

MayPoll(p) == ~guard[p]

Tick(p) ==
  /\ interval[p] # None /\ MayPoll(p)
  /\ guard' = [guard EXCEPT ![p] = TRUE]
  /\ polls' = [polls EXCEPT ![p] =
       Append(@, [job |-> interval[p], answer |-> "pending", done |-> 0])]
  /\ UNCHANGED <<serverVars, mounted, view, start, interval, errors, mine>>

Ended(a) == a.answer \in {"done", "error"}

GoodPollKeepsPolling(p, a) ==     \* mutant: an error does not stop the timer
  /\ errors' = [errors EXCEPT ![p] = 0]
  /\ IF a.answer = "done"
       THEN /\ StopPolling(p)
            /\ Show(p, [Blank EXCEPT !.result = a.job])
       ELSE /\ guard' = [guard EXCEPT ![p] = FALSE] /\ UNCHANGED interval
            /\ Show(p, IF a.answer = "error" THEN Failed
                       ELSE [view[p] EXCEPT !.progress = a.done])

\* A poll that was answered: the error count is cleared; the end of the job
\* ends the polling.
GoodPoll(p, a) ==
  /\ errors' = [errors EXCEPT ![p] = 0]
  /\ IF Ended(a)
       THEN /\ StopPolling(p)
            /\ Show(p, IF a.answer = "done" THEN [Blank EXCEPT !.result = a.job] ELSE Failed)
       ELSE /\ guard' = [guard EXCEPT ![p] = FALSE] /\ UNCHANGED interval
            /\ Show(p, [view[p] EXCEPT !.progress = a.done])

\* A poll that missed is tolerated, up to MaxErrors in a row.
MissedPoll(p) ==
  /\ errors' = [errors EXCEPT ![p] = @ + 1]
  /\ IF errors[p] + 1 >= MaxErrors
       THEN StopPolling(p) /\ Show(p, Failed)
       ELSE guard' = [guard EXCEPT ![p] = FALSE] /\ UNCHANGED <<interval, view>>

PollReturns(p, i) ==
  /\ i \in DOMAIN polls[p] /\ polls[p][i].answer # "pending"
  /\ polls' = [polls EXCEPT ![p] =
       [k \in 1 .. Len(@) - 1 |-> IF k < i THEN @[k] ELSE @[k + 1]]]
  /\ IF polls[p][i].answer = "missed" THEN MissedPoll(p) ELSE GoodPoll(p, polls[p][i])
  /\ UNCHANGED <<serverVars, mounted, start, mine>>

\* The cleanup effect; what the page showed is gone.
Unmount(p) ==
  /\ mounted[p]
  /\ mounted' = [mounted EXCEPT ![p] = FALSE]
  /\ view' = [view EXCEPT ![p] = Blank]
  /\ StopPolling(p)
  /\ UNCHANGED <<serverVars, start, errors, polls, mine>>

-----------------------------------------------------------------------------
Exchange(p) == \/ Post(p) \/ PostFails(p) \/ Started(p) \/ Tick(p)
               \/ \E i \in DOMAIN polls[p] : AnswerPoll(p, i) \/ PollReturns(p, i)

Next ==
  \/ \E p \in Pages : Click(p) \/ Exchange(p) \/ Unmount(p)
  \/ \E j \in JobIds : Day(j) \/ EndJob(j)
  \/ PostElsewhere
  \/ Restart

\* Timers tick, a request is answered or fails, and a run, whose queries are
\* under a statement timeout, ends.
Fairness ==
  /\ \A p \in Pages : WF_vars(Exchange(p))
  /\ \A j \in JobIds : WF_vars(Day(j) \/ EndJob(j))

Spec == Init /\ [][Next]_vars /\ Fairness
-----------------------------------------------------------------------------
(* Properties                                                              *)

\* The result on show is that of the page's last click, whatever polls of
\* earlier runs were still under way, and the job is a finished one.
ResultIsOfThisRun ==
  \A p \in Pages : mounted[p] /\ view[p].result # None =>
    view[p].result = mine[p] /\ job[mine[p]].status = "done"

\* A job leaves the store only to make room: it is finished, the store is full,
\* and the finished jobs that stay are newer, so a lost final poll can be
\* retried as long as there is room.
EvictionIsLastResort ==
  [][restarted' = restarted =>
       \A j \in kept \ kept' :
         /\ Terminal(j)
         /\ Cardinality(kept') >= Cap
         /\ \A k \in kept' : Terminal(k) => k > j]_vars

\* A run ends on the page, in a result or in an error, whatever is lost.
RunEnds == \A p \in Pages : view[p].running ~> ~(mounted[p] /\ view[p].running)

\* A timer, even one left behind by a page that is gone, stops.
PollingStops == \A p \in Pages : interval[p] # None ~> interval[p] = None

\* So a page waits for nothing for ever: its run ends and its timer stops.
NothingWaitsForEver == RunEnds /\ PollingStops

-----------------------------------------------------------------------------
(* What the invariants above rest on                                       *)

Views == [running: BOOLEAN, result: JobIds \union {None}, failed: BOOLEAN, progress: Nat]
Polls == [job: JobIds, answer: Statuses \union {"pending", "missed"}, done: Nat]

TypeOK ==
  /\ nextJob \in 1 .. MaxJobs + 1 /\ kept \subseteq 1 .. nextJob - 1
  /\ job \in [JobIds -> [status: Statuses, done: 0 .. Days]]
  /\ restarted \in BOOLEAN
  /\ mounted \in [Pages -> BOOLEAN] /\ view \in [Pages -> Views]
  /\ start \in [Pages -> [phase: {"none", "sent", "replied"}, job: JobIds \union {None}]]
  /\ interval \in [Pages -> JobIds \union {None}]
  /\ guard \in [Pages -> BOOLEAN] /\ errors \in [Pages -> Nat]
  /\ polls \in [Pages -> Seq(Polls)]
  /\ mine \in [Pages -> JobIds \union {None}]

\* A job that was created is running, or is over and stays so.
OnlyCreatedRun == \A j \in JobIds : job[j].status # "none" => j < nextJob

\* A page waits for the start of its last click, or for the one poll its timer
\* has under way, and in both cases shows a run without a result.
OneRunPerPage(p) ==
  /\ view[p].running <=> start[p].phase # "none" \/ interval[p] # None
  /\ view[p].running => view[p].result = None
  /\ start[p].phase # "none" => interval[p] = None
  /\ interval[p] = None => ~guard[p]
  /\ Len(polls[p]) = IF guard[p] THEN 1 ELSE 0

\* And whatever it waits for is about the job of that click.
AllAboutMine(p) ==
  /\ start[p].job # None => start[p].job = mine[p]
  /\ interval[p] # None => interval[p] = mine[p]
  /\ guard[p] => /\ polls[p][1].job = mine[p]
                 /\ polls[p][1].answer = "done" => job[mine[p]].status = "done"
  /\ view[p].result # None => /\ view[p].result = mine[p]
                              /\ job[mine[p]].status = "done"

\* Under which the result on show is inductive.
JobsInv ==
  /\ TypeOK /\ OnlyCreatedRun
  /\ \A p \in Pages : mounted[p] => OneRunPerPage(p) /\ AllAboutMine(p)
=============================================================================
