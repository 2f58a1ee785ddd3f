-------------------------- MODULE IntradayJobsProofs --------------------------
(***************************************************************************)
(* Proofs about the background backtests, for any pages, store, days and   *)
(* number of jobs: the result a page shows is that of its last run, and a  *)
(* job is evicted only as a last resort.                                   *)
(***************************************************************************)
EXTENDS IntradayJobs, FiniteSetTheorems, SequenceTheorems, TLAPS

-----------------------------------------------------------------------------
(* Types                                                                   *)

LEMMA InitTyped == Init => TypeOK /\ OnlyCreatedRun
<1> SUFFICES ASSUME Init PROVE TypeOK /\ OnlyCreatedRun
  OBVIOUS
<1>1. /\ job \in [JobIds -> [status: Statuses, done: 0 .. Days]]
      /\ nextJob \in 1 .. MaxJobs + 1 /\ kept \subseteq 1 .. nextJob - 1
      /\ OnlyCreatedRun
  BY BoundsAssumption DEF Init, OnlyCreatedRun, JobIds, Statuses
<1>2. polls \in [Pages -> Seq(Polls)]
  BY EmptySeq DEF Init
<1>3. /\ view \in [Pages -> Views]
      /\ start \in [Pages -> [phase: {"none", "sent", "replied"}, job: JobIds \union {None}]]
  BY DEF Init, Views, Blank, NotSent, None
<1> QED
  BY <1>1, <1>2, <1>3 DEF Init, TypeOK, None

\* A job that is stored is running, and its id is the next one.
LEMMA StoredTyped ==
  ASSUME TypeOK, OnlyCreatedRun, Stored
  PROVE  /\ nextJob \in JobIds /\ nextJob' \in 1 .. MaxJobs + 1
         /\ kept' \subseteq 1 .. nextJob' - 1
         /\ job' \in [JobIds -> [status: Statuses, done: 0 .. Days]]
         /\ OnlyCreatedRun'
         /\ job[nextJob].status = "none"
         /\ \A j \in JobIds : j # nextJob => job'[j] = job[j]
<1>1. nextJob \in JobIds /\ nextJob' = nextJob + 1 /\ nextJob' \in 1 .. MaxJobs + 1
  BY BoundsAssumption DEF TypeOK, Stored, JobIds
<1>2. kept' \subseteq kept \union {nextJob}
  BY DEF Stored, Pruned
<1>3. kept' \subseteq 1 .. nextJob' - 1
  BY <1>1, <1>2 DEF TypeOK, JobIds
<1>4. job' = [job EXCEPT ![nextJob] = [status |-> "running", done |-> 0]]
  BY DEF Stored
<1>5. [status |-> "running", done |-> 0] \in [status: Statuses, done: 0 .. Days]
  BY BoundsAssumption DEF Statuses
<1>6. job' \in [JobIds -> [status: Statuses, done: 0 .. Days]]
  BY <1>1, <1>4, <1>5 DEF TypeOK
<1>7. OnlyCreatedRun'
  BY <1>1, <1>4 DEF TypeOK, OnlyCreatedRun, JobIds
<1>8. job[nextJob].status = "none"
  BY <1>1 DEF OnlyCreatedRun, JobIds
<1> QED
  BY <1>1, <1>3, <1>4, <1>6, <1>7, <1>8 DEF TypeOK

LEMMA StepTyped ==
  ASSUME TypeOK, OnlyCreatedRun, Next
  PROVE  TypeOK' /\ OnlyCreatedRun'
<1> USE DEF None
<1>1. ASSUME NEW p \in Pages, Click(p) PROVE TypeOK' /\ OnlyCreatedRun'
  <2>1. [Blank EXCEPT !.running = TRUE] \in Views
    BY DEF Blank, Views
  <2>2. view' \in [Pages -> Views]
    BY <1>1, <2>1 DEF Click, Show, TypeOK
  <2> QED
    BY <1>1, <2>2 DEF Click, TypeOK, OnlyCreatedRun, serverVars
<1>2. ASSUME NEW p \in Pages, Post(p) PROVE TypeOK' /\ OnlyCreatedRun'
  <2>1. Stored
    BY <1>2 DEF Post
  <2> QED
    BY <1>2, <2>1, StoredTyped DEF Post, TypeOK, refVars
<1>3. ASSUME NEW p \in Pages, PostFails(p) PROVE TypeOK' /\ OnlyCreatedRun'
  BY <1>3 DEF PostFails, TypeOK, OnlyCreatedRun, serverVars, refVars
<1>4. ASSUME NEW p \in Pages, Started(p) PROVE TypeOK' /\ OnlyCreatedRun'
  <2>1. Failed \in Views
    BY DEF Failed, Views
  <2>2. NotSent \in [phase: {"none", "sent", "replied"}, job: JobIds \union {None}]
    BY DEF NotSent
  <2>3. view' \in [Pages -> Views]
    BY <1>4, <2>1 DEF Started, Show, TypeOK
  <2>4. interval' \in [Pages -> JobIds \union {None}] /\ guard' \in [Pages -> BOOLEAN]
    BY <1>4 DEF Started, StopPolling, TypeOK
  <2> QED
    BY <1>4, <2>2, <2>3, <2>4 DEF Started, TypeOK, OnlyCreatedRun, serverVars
<1>5. ASSUME NEW p \in Pages, Tick(p) PROVE TypeOK' /\ OnlyCreatedRun'
  <2>1. [job |-> interval[p], answer |-> "pending", done |-> 0] \in Polls
    BY <1>5 DEF Tick, TypeOK, Polls
  <2>2. polls' \in [Pages -> Seq(Polls)]
    BY <1>5, <2>1, AppendProperties DEF Tick, TypeOK
  <2> QED
    BY <1>5, <2>2 DEF Tick, TypeOK, OnlyCreatedRun, serverVars
<1>6. ASSUME NEW p \in Pages, NEW i \in DOMAIN polls[p], AnswerPoll(p, i)
      PROVE TypeOK' /\ OnlyCreatedRun'
  <2>1. polls[p] \in Seq(Polls) /\ polls[p][i] \in Polls
    BY <1>6, ElementOfSeq, LenProperties DEF TypeOK
  <2>2. PICK a \in {Snapshot(polls[p][i].job), Missed} :
          polls' = [polls EXCEPT ![p][i].answer = a.answer, ![p][i].done = a.done]
    BY <1>6 DEF AnswerPoll
  <2>3. a.answer \in Statuses \union {"pending", "missed"} /\ a.done \in Nat
    BY <2>1, <2>2 DEF Snapshot, Missed, TypeOK, Polls, Statuses
  <2>4. polls'[p] = [polls[p] EXCEPT ![i] = [polls[p][i] EXCEPT !.answer = a.answer, !.done = a.done]]
    BY <1>6, <2>2 DEF TypeOK
  <2>5. [polls[p][i] EXCEPT !.answer = a.answer, !.done = a.done] \in Polls
    BY <2>1, <2>3 DEF Polls
  <2>6. polls'[p] \in Seq(Polls)
    BY <2>1, <2>4, <2>5, ExceptSeq, LenProperties
  <2>7. polls' \in [Pages -> Seq(Polls)]
    BY <2>2, <2>6 DEF TypeOK
  <2> QED
    BY <1>6, <2>7 DEF AnswerPoll, TypeOK, OnlyCreatedRun, serverVars, refVars
<1>7. ASSUME NEW p \in Pages, NEW i \in DOMAIN polls[p], PollReturns(p, i)
      PROVE TypeOK' /\ OnlyCreatedRun'
  <2>1. polls[p] \in Seq(Polls) /\ polls[p][i] \in Polls
    BY <1>7, ElementOfSeq, LenProperties DEF TypeOK
  <2>2. Failed \in Views /\ [Blank EXCEPT !.result = polls[p][i].job] \in Views
    BY <2>1 DEF TypeOK, Failed, Blank, Views, Polls
  <2>6. [view[p] EXCEPT !.progress = polls[p][i].done] \in Views
    <3>1. view[p] \in Views /\ polls[p][i].done \in Nat
      BY <2>1 DEF TypeOK, Polls
    <3> QED
      BY <3>1 DEF Views
  <2>3. view' \in [Pages -> Views]
    <3>1. view \in [Pages -> Views] /\ p \in Pages
      BY <1>7 DEF TypeOK
    <3>2. \/ view' = view
          \/ \E v \in Views : view' = [view EXCEPT ![p] = v]
      BY <1>7, <2>2, <2>6 DEF PollReturns, MissedPoll, GoodPoll, Show
    <3> QED
      BY <3>1, <3>2
  <2>4. interval' \in [Pages -> JobIds \union {None}] /\ guard' \in [Pages -> BOOLEAN]
        /\ errors' \in [Pages -> Nat]
    <3>1. /\ interval' = interval \/ interval' = [interval EXCEPT ![p] = None]
          /\ guard' = [guard EXCEPT ![p] = FALSE]
          /\ \E n \in {0, errors[p] + 1} : errors' = [errors EXCEPT ![p] = n]
      BY <1>7 DEF PollReturns, MissedPoll, GoodPoll, StopPolling
    <3>2. /\ interval \in [Pages -> JobIds \union {None}] /\ guard \in [Pages -> BOOLEAN]
          /\ errors \in [Pages -> Nat] /\ errors[p] + 1 \in Nat
      BY <1>7 DEF TypeOK
    <3>3. errors' \in [Pages -> Nat]
      BY <3>1, <3>2
    <3> QED
      BY <3>1, <3>2, <3>3
  <2>5. polls' \in [Pages -> Seq(Polls)]
    <3> DEFINE n == Len(polls[p])
    <3>1. n \in Nat /\ DOMAIN polls[p] = 1 .. n /\ \A k \in 1 .. n : polls[p][k] \in Polls
      BY <2>1, LenProperties, ElementOfSeq
    <3>2. polls'[p] = [k \in 1 .. n - 1 |-> IF k < i THEN polls[p][k] ELSE polls[p][k + 1]]
      BY <1>7 DEF PollReturns, TypeOK
    <3> HIDE DEF n
    <3>3. polls'[p] \in [1 .. n - 1 -> Polls] /\ n - 1 \in Nat
      BY <1>7, <3>1, <3>2
    <3>4. polls'[p] \in Seq(Polls)
      BY <3>3, IsASeq
    <3> QED
      BY <1>7, <3>4 DEF PollReturns, TypeOK
  <2> QED
    BY <1>7, <2>3, <2>4, <2>5 DEF PollReturns, TypeOK, OnlyCreatedRun, serverVars
<1>8. ASSUME NEW p \in Pages, Unmount(p) PROVE TypeOK' /\ OnlyCreatedRun'
  <2>1. Blank \in Views
    BY DEF Blank, Views
  <2> QED
    BY <1>8, <2>1 DEF Unmount, StopPolling, TypeOK, OnlyCreatedRun, serverVars
<1>9. ASSUME NEW j \in JobIds, Day(j) \/ EndJob(j) PROVE TypeOK' /\ OnlyCreatedRun'
  <2>1. job' \in [JobIds -> [status: Statuses, done: 0 .. Days]]
    <3>1. job \in [JobIds -> [status: Statuses, done: 0 .. Days]] /\ Days \in Nat
      BY BoundsAssumption DEF TypeOK
    <3>2. CASE Day(j)
      BY <3>1, <3>2 DEF Day
    <3>3. CASE EndJob(j)
      BY <3>1, <3>3 DEF EndJob, Statuses
    <3> QED
      BY <1>9, <3>2, <3>3
  <2>2. OnlyCreatedRun'
    BY <1>9 DEF Day, EndJob, TypeOK, OnlyCreatedRun
  <2> QED
    BY <1>9, <2>1, <2>2 DEF Day, EndJob, TypeOK, refVars
<1>10. CASE PostElsewhere
  <2>1. Stored
    BY <1>10 DEF PostElsewhere
  <2> QED
    BY <1>10, <2>1, StoredTyped DEF PostElsewhere, TypeOK, refVars
<1>11. CASE Restart
  <2>1. job' \in [JobIds -> [status: Statuses, done: 0 .. Days]]
    BY <1>11 DEF Restart, TypeOK, Statuses
  <2>2. OnlyCreatedRun'
    BY <1>11 DEF Restart, TypeOK, OnlyCreatedRun
  <2> QED
    BY <1>11, <2>1, <2>2 DEF Restart, TypeOK, refVars
<1> QED
  BY <1>1, <1>2, <1>3, <1>4, <1>5, <1>6, <1>7, <1>8, <1>9, <1>10, <1>11
  DEF Next, Exchange
-----------------------------------------------------------------------------
(* The result on show                                                      *)

\* What a page shows is untouched by a step that leaves the page alone and in
\* which a finished job stays finished.
LEMMA PageStays ==
  ASSUME TypeOK, NEW p \in Pages,
         mounted[p] => OneRunPerPage(p) /\ AllAboutMine(p),
         mounted'[p] = mounted[p], view'[p] = view[p], start'[p] = start[p],
         interval'[p] = interval[p], guard'[p] = guard[p], polls'[p] = polls[p],
         mine'[p] = mine[p],
         \A j \in JobIds : job[j].status = "done" => job'[j].status = "done"
  PROVE  mounted'[p] => (OneRunPerPage(p) /\ AllAboutMine(p))'
<1>1. mine[p] \in JobIds \union {None} /\ polls[p] \in Seq(Polls)
  BY DEF TypeOK
<1>2. guard[p] /\ mounted[p] => polls[p][1].job \in JobIds
  <2> SUFFICES ASSUME guard[p], mounted[p] PROVE polls[p][1].job \in JobIds
    OBVIOUS
  <2>1. Len(polls[p]) = 1
    BY DEF OneRunPerPage
  <2>2. polls[p][1] \in Polls
    BY <1>1, <2>1, ElementOfSeq
  <2> QED
    BY <2>2 DEF Polls
<1>3. view[p].result \in JobIds \union {None}
  BY DEF TypeOK, Views
<1> QED
  BY <1>2, <1>3 DEF OneRunPerPage, AllAboutMine

\* A finished job stays finished.
LEMMA DoneStays ==
  ASSUME TypeOK, OnlyCreatedRun, Next
  PROVE  \A j \in JobIds : job[j].status = "done" => job'[j].status = "done"
<1> SUFFICES ASSUME NEW k \in JobIds, job[k].status = "done" PROVE job'[k].status = "done"
  OBVIOUS
<1>1. CASE Stored
  <2>1. job[nextJob].status = "none" /\ \A j \in JobIds : j # nextJob => job'[j] = job[j]
    BY <1>1, StoredTyped
  <2> QED
    BY <2>1
<1>2. CASE Restart
  BY <1>2 DEF Restart, TypeOK
<1>3. ASSUME NEW j \in JobIds, Day(j) \/ EndJob(j) PROVE job'[k].status = "done"
  BY <1>3 DEF Day, EndJob, TypeOK
<1>4. CASE UNCHANGED job
  BY <1>4
<1> QED
  BY <1>1, <1>2, <1>3, <1>4
  DEF Next, Exchange, Click, Post, PostElsewhere, PostFails, Started, Tick, AnswerPoll,
      PollReturns, Unmount, serverVars

LEMMA StepShows ==
  ASSUME JobsInv, Next
  PROVE  \A p \in Pages : mounted'[p] => (OneRunPerPage(p) /\ AllAboutMine(p))'
<1> SUFFICES ASSUME NEW p \in Pages, mounted'[p]
             PROVE  (OneRunPerPage(p) /\ AllAboutMine(p))'
  OBVIOUS
<1>0. /\ TypeOK /\ OnlyCreatedRun
      /\ \A q \in Pages : mounted[q] => OneRunPerPage(q) /\ AllAboutMine(q)
  BY DEF JobsInv
<1>1. \A j \in JobIds : job[j].status = "done" => job'[j].status = "done"
  BY <1>0, DoneStays
<1>2. ASSUME mounted'[p] = mounted[p], view'[p] = view[p], start'[p] = start[p],
             interval'[p] = interval[p], guard'[p] = guard[p], polls'[p] = polls[p],
             mine'[p] = mine[p]
      PROVE  (OneRunPerPage(p) /\ AllAboutMine(p))'
  BY <1>0, <1>1, <1>2, PageStays
<1>3. ASSUME mounted[p], guard[p]
      PROVE  /\ Len(polls[p]) = 1 /\ DOMAIN polls[p] = {1} /\ polls[p][1] \in Polls
  <2>1. Len(polls[p]) = 1 /\ polls[p] \in Seq(Polls)
    BY <1>0, <1>3 DEF OneRunPerPage, TypeOK
  <2> QED
    BY <2>1, LenProperties, ElementOfSeq
<1>4. ASSUME mounted[p], ~guard[p] PROVE polls[p] = <<>>
  BY <1>0, <1>4, EmptySeq, LenProperties DEF OneRunPerPage, TypeOK
<1> USE DEF None
<1>5. ASSUME Click(p) PROVE (OneRunPerPage(p) /\ AllAboutMine(p))'
  <2>1. /\ mounted[p] /\ ~view[p].running /\ OneRunPerPage(p)
    BY <1>0, <1>5 DEF Click
  <2>2. start[p].phase = "none" /\ interval[p] = None /\ ~guard[p]
    BY <2>1 DEF OneRunPerPage
  <2>3. /\ view'[p] = [Blank EXCEPT !.running = TRUE]
        /\ start'[p] = [phase |-> "sent", job |-> None] /\ mine'[p] = None
        /\ UNCHANGED <<interval, guard, polls>>
    BY <1>0, <1>5, <2>1 DEF Click, Show, TypeOK
  <2> QED
    BY <2>1, <2>2, <2>3 DEF OneRunPerPage, AllAboutMine, Blank
<1>6. ASSUME Post(p) PROVE (OneRunPerPage(p) /\ AllAboutMine(p))'
  <2>1. /\ mounted[p] /\ OneRunPerPage(p) /\ start[p].phase = "sent"
    BY <1>0, <1>6 DEF Post
  <2>2. interval[p] = None /\ ~guard[p] /\ view[p].running /\ view[p].result = None
    BY <2>1 DEF OneRunPerPage
  <2>3. /\ start'[p] = [phase |-> "replied", job |-> nextJob] /\ mine'[p] = nextJob
        /\ UNCHANGED <<view, interval, guard, polls>>
    BY <1>0, <1>6 DEF Post, TypeOK, refVars
  <2> QED
    BY <2>1, <2>2, <2>3 DEF OneRunPerPage, AllAboutMine
<1>7. ASSUME PostFails(p) PROVE (OneRunPerPage(p) /\ AllAboutMine(p))'
  <2>1. /\ mounted[p] /\ OneRunPerPage(p) /\ AllAboutMine(p)
        /\ start[p].phase \in {"sent", "replied"}
    BY <1>0, <1>7 DEF PostFails
  <2>2. interval[p] = None /\ ~guard[p] /\ view[p].running /\ view[p].result = None
    BY <2>1 DEF OneRunPerPage
  <2>3. /\ start'[p] = [phase |-> "replied", job |-> None]
        /\ UNCHANGED <<view, interval, guard, polls, mine, job>>
    BY <1>0, <1>7 DEF PostFails, TypeOK, refVars, serverVars
  <2> QED
    BY <2>1, <2>2, <2>3 DEF OneRunPerPage, AllAboutMine
<1>8. ASSUME Started(p) PROVE (OneRunPerPage(p) /\ AllAboutMine(p))'
  <2>1. /\ mounted[p] /\ OneRunPerPage(p) /\ AllAboutMine(p) /\ start[p].phase = "replied"
    BY <1>0, <1>8 DEF Started
  <2>2. interval[p] = None /\ ~guard[p] /\ view[p].running /\ view[p].result = None
    BY <2>1 DEF OneRunPerPage
  <2>3. start'[p] = NotSent /\ UNCHANGED <<polls, mine, job>>
    BY <1>0, <1>8 DEF Started, TypeOK, serverVars
  <2>4. CASE start[p].job = None
    <3>1. view'[p] = Failed /\ interval'[p] = None /\ guard'[p] = FALSE
      BY <1>0, <1>8, <2>1, <2>4 DEF Started, StopPolling, Show, TypeOK
    <3> QED
      BY <2>1, <2>2, <2>3, <3>1 DEF OneRunPerPage, AllAboutMine, Failed, NotSent
  <2>5. CASE start[p].job # None
    <3>1. interval'[p] = start[p].job /\ UNCHANGED <<view, guard>>
      BY <1>0, <1>8, <2>5 DEF Started, TypeOK
    <3> QED
      BY <2>1, <2>2, <2>3, <2>5, <3>1 DEF OneRunPerPage, AllAboutMine, NotSent
  <2> QED
    BY <2>4, <2>5
<1>9. ASSUME Tick(p) PROVE (OneRunPerPage(p) /\ AllAboutMine(p))'
  <2>1. /\ mounted[p] /\ OneRunPerPage(p) /\ AllAboutMine(p)
        /\ interval[p] # None /\ ~guard[p]
    BY <1>0, <1>9 DEF Tick, MayPoll
  <2> DEFINE a == [job |-> interval[p], answer |-> "pending", done |-> 0]
  <2>2. guard'[p] = TRUE /\ UNCHANGED <<view, start, interval, mine, job>>
    BY <1>0, <1>9 DEF Tick, TypeOK, serverVars
  <2>3. polls'[p] = Append(<<>>, a)
    BY <1>0, <1>4, <1>9, <2>1 DEF Tick, TypeOK
  <2>4. Len(polls'[p]) = 1 /\ polls'[p][1] = a
    BY <2>3
  <2>5. OneRunPerPage(p)'
    BY <2>1, <2>2, <2>4 DEF OneRunPerPage
  <2>6. AllAboutMine(p)'
    BY <2>1, <2>2, <2>4 DEF AllAboutMine
  <2> QED
    BY <2>5, <2>6
<1>10. ASSUME NEW i \in DOMAIN polls[p], AnswerPoll(p, i)
       PROVE  (OneRunPerPage(p) /\ AllAboutMine(p))'
  <2>1. /\ mounted[p] /\ OneRunPerPage(p) /\ AllAboutMine(p)
        /\ UNCHANGED <<view, start, interval, guard, mine, job>>
    BY <1>0, <1>10 DEF AnswerPoll, serverVars, refVars
  <2>2. guard[p]
    BY <1>4, <1>10, <2>1, EmptySeq, LenProperties
  <2>3. Len(polls[p]) = 1 /\ i = 1 /\ polls[p] \in Seq(Polls) /\ polls[p][1] \in Polls
    BY <1>0, <1>3, <1>10, <2>1, <2>2 DEF TypeOK
  <2>4. PICK a \in {Snapshot(polls[p][i].job), Missed} :
          polls' = [polls EXCEPT ![p][i].answer = a.answer, ![p][i].done = a.done]
    BY <1>10 DEF AnswerPoll
  <2>5. polls'[p] = [polls[p] EXCEPT ![1] = [polls[p][1] EXCEPT !.answer = a.answer, !.done = a.done]]
    BY <1>0, <2>3, <2>4 DEF TypeOK
  <2>6. /\ DOMAIN polls'[p] = DOMAIN polls[p] /\ Len(polls'[p]) = Len(polls[p])
        /\ polls'[p][1] = [polls[p][1] EXCEPT !.answer = a.answer, !.done = a.done]
    BY <2>3, <2>5, LenProperties
  <2>7. polls'[p][1].job = polls[p][1].job /\ polls'[p][1].answer = a.answer
    BY <2>3, <2>6 DEF Polls
  <2>8. a.answer = "done" => job[polls[p][1].job].status = "done"
    BY <2>3, <2>4 DEF Snapshot, Missed
  <2>9. OneRunPerPage(p)'
    BY <2>1, <2>6 DEF OneRunPerPage
  <2>10. AllAboutMine(p)'
    BY <2>1, <2>2, <2>7, <2>8 DEF AllAboutMine
  <2> QED
    BY <2>9, <2>10
<1>11. ASSUME NEW i \in DOMAIN polls[p], PollReturns(p, i)
       PROVE  (OneRunPerPage(p) /\ AllAboutMine(p))'
  <2>1. /\ mounted[p] /\ OneRunPerPage(p) /\ AllAboutMine(p)
        /\ UNCHANGED <<start, mine, job>>
    BY <1>0, <1>11 DEF PollReturns, serverVars
  <2>2. guard[p]
    BY <1>4, <1>11, <2>1, EmptySeq, LenProperties
  <2>3. Len(polls[p]) = 1 /\ i = 1 /\ polls[p][1] \in Polls
    BY <1>3, <1>11, <2>1, <2>2
  <2>4. /\ interval[p] # None /\ interval[p] = mine[p] /\ start[p].phase = "none"
        /\ view[p].running /\ view[p].result = None /\ polls[p][1].job = mine[p]
        /\ start[p].job # None => start[p].job = mine[p]
    BY <1>0, <2>1, <2>2 DEF OneRunPerPage, AllAboutMine, TypeOK
  <2>5. polls'[p] = [k \in 1 .. 0 |-> IF k < i THEN polls[p][k] ELSE polls[p][k + 1]]
    BY <1>0, <1>11, <2>3 DEF PollReturns, TypeOK
  <2>6. Len(polls'[p]) = 0
    <3>1. DOMAIN polls'[p] = {}
      BY <2>5
    <3>2. polls'[p] \in Seq(Polls)
      BY <1>0, StepTyped DEF TypeOK
    <3>3. Len(polls'[p]) \in Nat /\ DOMAIN polls'[p] = 1 .. Len(polls'[p])
      BY <3>2, LenProperties
    <3>4. 1 \notin 1 .. Len(polls'[p])
      BY <3>1, <3>3
    <3> QED
      BY <3>3, <3>4
  <2>7. guard'[p] = FALSE
    BY <1>0, <1>11 DEF PollReturns, MissedPoll, GoodPoll, StopPolling, TypeOK
  <2>8. \/ /\ interval'[p] = None
           /\ view'[p] = Failed
        \/ /\ interval'[p] = None
           /\ view'[p] = [Blank EXCEPT !.result = mine[p]] /\ polls[p][1].answer = "done"
        \/ /\ interval'[p] = interval[p]
           /\ \/ view'[p] = view[p]
              \/ view'[p] = [view[p] EXCEPT !.progress = polls[p][1].done]
    <3>1. \A v : Show(p, v) => view'[p] = v
      BY <1>0, <2>1 DEF Show, TypeOK
    <3>2. StopPolling(p) => interval'[p] = None
      BY <1>0 DEF StopPolling, TypeOK
    <3>3. CASE polls[p][1].answer = "missed"
      <4>1. MissedPoll(p)
        BY <1>11, <2>3, <3>3 DEF PollReturns
      <4> QED
        BY <4>1, <3>1, <3>2 DEF MissedPoll
    <3>4. CASE polls[p][1].answer # "missed"
      <4>1. GoodPoll(p, polls[p][1])
        BY <1>11, <2>3, <3>4 DEF PollReturns
      <4> QED
        BY <4>1, <2>4, <3>1, <3>2 DEF GoodPoll
    <3> QED
      BY <3>3, <3>4
  <2>9. view[p] \in Views
    BY <1>0 DEF TypeOK
  <2>10. /\ view'[p].running <=> interval'[p] # None
         /\ view'[p].running => view'[p].result = None
         /\ view'[p].result # None =>
              view'[p].result = mine[p] /\ polls[p][1].answer = "done"
         /\ interval'[p] # None => interval'[p] = mine[p]
    BY <2>4, <2>8, <2>9 DEF Views, Failed, Blank
  <2>11. OneRunPerPage(p)'
    BY <2>1, <2>4, <2>6, <2>7, <2>10 DEF OneRunPerPage
  <2>12. AllAboutMine(p)'
    BY <2>1, <2>2, <2>4, <2>7, <2>10 DEF AllAboutMine
  <2> QED
    BY <2>11, <2>12
<1>12. ASSUME Unmount(p) PROVE FALSE
  BY <1>0, <1>12 DEF Unmount, TypeOK
<1>13. ASSUME NEW q \in Pages, q # p, Click(q) \/ Exchange(q) \/ Unmount(q)
       PROVE  (OneRunPerPage(p) /\ AllAboutMine(p))'
  <2> USE <1>0 DEF TypeOK
  <2>1. mounted'[p] = mounted[p] /\ mine'[p] = mine[p] /\ start'[p] = start[p]
    BY <1>13 DEF Click, Exchange, Unmount, Post, PostFails, Started, Tick, AnswerPoll, PollReturns
  <2>2. polls'[p] = polls[p]
    BY <1>13 DEF Click, Exchange, Unmount, Post, PostFails, Started, Tick, AnswerPoll, PollReturns
  <2>3. view'[p] = view[p]
    <3>1. \A v : Show(q, v) => view'[p] = view[p]
      BY <1>13 DEF Show
    <3>2. CASE Click(q) \/ Started(q) \/ Unmount(q)
      BY <1>13, <3>1, <3>2 DEF Click, Started, Unmount
    <3>3. CASE \E i \in DOMAIN polls[q] : PollReturns(q, i)
      BY <3>1, <3>3 DEF PollReturns, MissedPoll, GoodPoll
    <3>4. CASE UNCHANGED view
      BY <3>4
    <3> QED
      BY <1>13, <3>2, <3>3, <3>4 DEF Exchange, Post, PostFails, Tick, AnswerPoll
  <2>4. interval'[p] = interval[p] /\ guard'[p] = guard[p]
    BY <1>13 DEF Click, Exchange, Unmount, Post, PostFails, Started, Tick, AnswerPoll, PollReturns,
                 MissedPoll, GoodPoll, StopPolling, refVars
  <2> QED
    BY <1>2, <2>1, <2>2, <2>3, <2>4
<1>14. ASSUME \/ \E j \in JobIds : Day(j) \/ EndJob(j)
              \/ PostElsewhere \/ Restart
       PROVE  (OneRunPerPage(p) /\ AllAboutMine(p))'
  BY <1>2, <1>14 DEF Day, EndJob, PostElsewhere, Restart, refVars
<1> QED
  BY <1>5, <1>6, <1>7, <1>8, <1>9, <1>10, <1>11, <1>12, <1>13, <1>14 DEF Next, Exchange

\* The inductive invariant of the jobs and the pages that wait for them.
THEOREM JobsInvariant == Spec => []JobsInv
<1>1. Init => JobsInv
  <2> SUFFICES ASSUME Init PROVE JobsInv
    OBVIOUS
  <2>1. \A p \in Pages : OneRunPerPage(p) /\ AllAboutMine(p)
    BY DEF Init, OneRunPerPage, AllAboutMine, Blank, NotSent, None
  <2> QED
    BY <2>1, InitTyped DEF JobsInv
<1>2. JobsInv /\ [Next]_vars => JobsInv'
  <2>1. CASE JobsInv /\ Next
    BY <2>1, StepTyped, StepShows DEF JobsInv
  <2>2. CASE JobsInv /\ UNCHANGED vars
    BY <2>2 DEF JobsInv, vars, serverVars, refVars, TypeOK, OnlyCreatedRun, OneRunPerPage,
                AllAboutMine
  <2> QED
    BY <2>1, <2>2
<1> QED
  BY <1>1, <1>2, PTL DEF Spec

\* The result on show is that of the page's last click and of a finished job,
\* whatever answers of earlier polls and lost ones come in between.
THEOREM ShownResultIsOfThisRun == Spec => []ResultIsOfThisRun
<1>1. JobsInv => ResultIsOfThisRun
  BY DEF JobsInv, ResultIsOfThisRun, AllAboutMine
<1> QED
  BY <1>1, JobsInvariant, PTL
-----------------------------------------------------------------------------
(* Eviction                                                                *)

\* The position of an id among the finished ones, by age.
Older(j) == { k \in Finished : k < j }

\* Ages are as the ids: of two finished jobs the one with fewer older ones is
\* the older, and no two have the same number.
LEMMA AgesOrder ==
  ASSUME kept \subseteq Nat, IsFiniteSet(kept),
         NEW j \in Finished, NEW k \in Finished
  PROVE  /\ Cardinality(Older(j)) \in Nat
         /\ k < j <=> Cardinality(Older(k)) < Cardinality(Older(j))
<1>1. IsFiniteSet(Finished) /\ Finished \subseteq Nat
  BY FS_Subset DEF Finished
<1>2. \A i : IsFiniteSet(Older(i)) /\ Cardinality(Older(i)) \in Nat
  BY <1>1, FS_Subset, FS_CardinalityType DEF Older
<1>3. ASSUME NEW a \in Finished, NEW b \in Finished, a < b
      PROVE  Cardinality(Older(a)) < Cardinality(Older(b))
  <2>1. Older(a) \subseteq Older(b) /\ a \in Older(b) /\ a \notin Older(a)
    <3>1. a \in Nat /\ b \in Nat /\ ~(a < a)
      BY <1>1
    <3>2. \A i \in Finished : i < a => i < b
      BY <1>1, <1>3, <3>1
    <3> QED
      BY <1>3, <3>1, <3>2 DEF Older
  <2>2. Cardinality(Older(a)) <= Cardinality(Older(b))
        /\ (Cardinality(Older(a)) = Cardinality(Older(b)) => Older(a) = Older(b))
    BY <1>2, <2>1, FS_Subset
  <2> QED
    BY <1>2, <2>1, <2>2
<1>4. CASE j = k
  BY <1>1, <1>2, <1>4
<1>5. CASE j < k
  BY <1>1, <1>2, <1>3, <1>5
<1>6. CASE k < j
  BY <1>1, <1>2, <1>3, <1>6
<1> QED
  BY <1>1, <1>2, <1>4, <1>5, <1>6

\* Those with fewer than n older ones are at most n.
LEMMA OldestAreFew ==
  ASSUME kept \subseteq Nat, IsFiniteSet(kept), NEW n \in Nat
  PROVE  LET gone == { j \in Finished : Cardinality(Older(j)) < n }
         IN  IsFiniteSet(gone) /\ Cardinality(gone) <= n
<1> DEFINE gone == { j \in Finished : Cardinality(Older(j)) < n }
           age == [j \in gone |-> Cardinality(Older(j))]
<1>1. \A j \in gone : j \in Nat /\ Cardinality(Older(j)) \in 0 .. n - 1
  BY AgesOrder DEF Finished
<1>2. \A j, k \in gone : j # k => age[j] # age[k]
  BY <1>1, AgesOrder
<1>3. age \in Injection(gone, 0 .. n - 1)
  BY <1>1, <1>2 DEF Injection, IsInjective
<1>4. IsFiniteSet(0 .. n - 1) /\ Cardinality(0 .. n - 1) = n
  BY FS_Interval
<1>5. IsFiniteSet(gone)
  BY FS_Subset DEF Finished
<1> QED
  BY <1>3, <1>4, <1>5, FS_Injection

LEMMA PruneIsLastResort ==
  ASSUME JobsInv, Stored
  PROVE  \A j \in kept \ kept' :
           /\ Terminal(j)
           /\ Cardinality(kept') >= Cap
           /\ \A k \in kept' : Terminal(k) => k > j
<1> DEFINE gone == { j \in Finished : Cardinality(Older(j)) < Excess }
           n == Cardinality(kept)
<1>1. /\ nextJob \in JobIds /\ kept \subseteq 1 .. nextJob - 1
      /\ job[nextJob].status = "none"
  BY StoredTyped DEF JobsInv, TypeOK
<1>2. kept \subseteq Nat /\ nextJob \in Nat /\ nextJob \notin kept
  BY <1>1 DEF JobIds
<1>3. IsFiniteSet(kept) /\ n \in Nat
  <2>1. IsFiniteSet(1 .. nextJob - 1)
    BY <1>2, FS_Interval
  <2> QED
    BY <1>1, <2>1, FS_Subset, FS_CardinalityType
<1>4. kept' = (kept \ gone) \union {nextJob}
  BY DEF Stored, Pruned, Older
<1>5. Excess \in Nat /\ (Excess # 0 => Excess = n - Cap + 1)
  BY <1>3, BoundsAssumption DEF Excess
<1>6. IsFiniteSet(gone) /\ Cardinality(gone) <= Excess /\ gone \subseteq kept
  BY <1>2, <1>3, <1>5, OldestAreFew DEF Finished
<1> HIDE DEF gone
<1>7. Cardinality(kept') = n - Cardinality(gone) + 1
  <2>1. IsFiniteSet(kept \ gone) /\ Cardinality(kept \ gone) = n - Cardinality(gone)
    <3>1. kept \cap gone = gone
      BY <1>6
    <3> QED
      BY <1>3, <3>1, FS_Difference
  <2> QED
    BY <1>2, <1>4, <2>1, FS_AddElement
<1> SUFFICES ASSUME NEW j \in kept \ kept'
             PROVE  /\ Terminal(j)
                    /\ Cardinality(kept') >= Cap
                    /\ \A k \in kept' : Terminal(k) => k > j
  OBVIOUS
<1>8. j \in gone /\ j \in Finished /\ Cardinality(Older(j)) < Excess
  BY <1>4 DEF gone
<1>9. Cardinality(kept') >= Cap
  <2>1. Cardinality(Older(j)) \in Nat
    BY <1>2, <1>3, <1>8, AgesOrder
  <2>2. Excess = n - Cap + 1
    BY <1>5, <1>8, <2>1
  <2>3. Cardinality(gone) \in Nat
    BY <1>6, FS_CardinalityType
  <2> QED
    BY <1>3, <1>6, <1>7, <2>2, <2>3, BoundsAssumption
<1>10. ASSUME NEW k \in kept', Terminal(k) PROVE k > j
  <2>1. k # nextJob
    BY <1>1, <1>10 DEF Terminal
  <2>2. k \in Finished /\ ~(Cardinality(Older(k)) < Excess)
    BY <1>4, <1>10, <2>1 DEF gone, Finished
  <2>3. Cardinality(Older(k)) \in Nat /\ Cardinality(Older(j)) \in Nat
    BY <1>2, <1>3, <1>8, <2>2, AgesOrder
  <2>4. Cardinality(Older(j)) < Cardinality(Older(k))
    BY <1>5, <1>8, <2>2, <2>3
  <2>5. j < k
    BY <1>2, <1>3, <1>8, <2>2, <2>4, AgesOrder
  <2> QED
    BY <2>5
<1> QED
  BY <1>8, <1>9, <1>10 DEF Finished

\* A finished run is dropped only to make room in a full store, and the oldest
\* first, so its result can still be fetched as long as there is room.
THEOREM EvictionOnlyForRoom == Spec => EvictionIsLastResort
<1> DEFINE LastResort ==
      restarted' = restarted =>
        \A j \in kept \ kept' :
          /\ Terminal(j)
          /\ Cardinality(kept') >= Cap
          /\ \A k \in kept' : Terminal(k) => k > j
<1>1. JobsInv /\ [Next]_vars => [LastResort]_vars
  <2> SUFFICES ASSUME JobsInv, Next PROVE LastResort
    OBVIOUS
  <2>1. CASE Stored
    BY <2>1, PruneIsLastResort
  <2>2. CASE Restart
    BY <2>2 DEF Restart
  <2>3. CASE UNCHANGED kept
    BY <2>3
  <2> QED
    BY <2>1, <2>2, <2>3
    DEF Next, Exchange, Click, Post, PostElsewhere, PostFails, Started, Tick, AnswerPoll,
        PollReturns, Unmount, Day, EndJob, serverVars
<1> QED
  BY <1>1, JobsInvariant, PTL DEF Spec, EvictionIsLastResort
=============================================================================
