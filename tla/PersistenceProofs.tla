-------------------------- MODULE PersistenceProofs --------------------------
(***************************************************************************)
(* Proofs about the two ends of saving an edit, each about its own module: *)
(*   - the app-data store (AppDataStore), for any number of clients,       *)
(*     documents, contents and stamps;                                     *)
(*   - the autosave hook of the editors (Autosave), for any number of acts *)
(*     of the user: the backend never goes back to an older edit, nothing  *)
(*     the hook was asked to save is forgotten, and its status and its     *)
(*     promises are true.                                                  *)
(***************************************************************************)
EXTENDS AppDataStore, Autosave, TLAPS

-----------------------------------------------------------------------------
(* Rows                                                                    *)

LEMMA NoBodyType == NoBody \in Bodies
  BY NonEmptyAssumption DEF NoBody, Bodies

LEMMA NoRowType == NoRow \in Rows
  BY NoBodyType, ClockAssumption DEF NoRow, Rows

LEMMA NoReqType == NoReq \in Requests
  BY NoBodyType, NonEmptyAssumption DEF NoReq, Requests, Ops

\* Deriving the columns from a document gives a row.
LEMMA ToRowType ==
  ASSUME NEW d \in Docs, NEW b \in Bodies, NEW lk \in BOOLEAN, NEW s \in 0 .. MaxClock
  PROVE  ToRow(d, b, lk, s) \in Rows
<1>1. CategoryProjection(d, b) \in Categories \union {None, "DELETED"}
  BY DEF CategoryProjection, Bodies
<1> QED
  BY <1>1 DEF ToRow, Rows

\* What the archive and the lock route make of a row.
LEMMA ArchivedRowType ==
  ASSUME NEW d \in Docs, row[d] \in Rows, NEW s \in 0 .. MaxClock
  PROVE  /\ ArchivedRow(d, s) \in Rows
         /\ ArchivedRow(d, s).category = "DELETED"
         /\ ArchivedRow(d, s).locked = row[d].locked
         /\ ArchivedRow(d, s).payload.locked = row[d].payload.locked
         /\ ArchivedRow(d, s).stamp = s
         /\ kind[d] = "indicator" => ArchivedRow(d, s).payload.body.deleted
  BY DEF ArchivedRow, Rows, Bodies

LEMMA LockedRowType ==
  ASSUME NEW d \in Docs, row[d] \in Rows, NEW lk \in BOOLEAN, NEW s \in 0 .. MaxClock
  PROVE  /\ LockedRow(d, lk, s) \in Rows
         /\ LockedRow(d, lk, s).category = row[d].category
         /\ LockedRow(d, lk, s).locked = lk
         /\ LockedRow(d, lk, s).payload.locked = lk
         /\ LockedRow(d, lk, s).payload.body = row[d].payload.body
         /\ LockedRow(d, lk, s).stamp = s
  BY DEF LockedRow, Rows

-----------------------------------------------------------------------------
(* Types                                                                   *)

\* What the answers and the writes of a statement do to the types.
LEMMA AnswerType ==
  ASSUME TypeOK, NEW c \in Clients,
         NEW code \in {0, 200, 201, 204, 404, 409, 423}, Answer(c, code)
  PROVE  /\ pc' \in [Clients -> PCs] /\ req' \in [Clients -> Requests]
         /\ seen' \in [Clients -> Rows] /\ stamp' \in [Clients -> 0 .. MaxClock]
         /\ reply' \in [Clients -> {0, 200, 201, 204, 404, 409, 423}]
<1>1. "idle" \in PCs /\ 0 \in 0 .. MaxClock
  BY ClockAssumption DEF PCs
<1> QED
  BY <1>1, NoReqType, NoRowType DEF TypeOK, Answer

LEMMA GotoType ==
  ASSUME TypeOK, NEW c \in Clients, NEW where \in PCs, Goto(c, where)
  PROVE  /\ pc' \in [Clients -> PCs]
         /\ reply' \in [Clients -> {0, 200, 201, 204, 404, 409, 423}]
  BY DEF TypeOK, Goto

LEMMA WriteType ==
  ASSUME TypeOK, NEW c \in Clients, NEW r \in Rows, Write(c, r)
  PROVE  row' \in [Docs -> Rows] /\ present' \subseteq Docs /\ touched' \subseteq Clients
<1>1. req[c].doc \in Docs
  BY DEF TypeOK, Requests
<1> QED
  BY <1>1 DEF TypeOK, Write

LEMMA NoWriteType ==
  ASSUME TypeOK, NoWrite
  PROVE  row' \in [Docs -> Rows] /\ present' \subseteq Docs /\ touched' \subseteq Clients
  BY DEF TypeOK, NoWrite

LEMMA TypeStep == TypeOK /\ [Next]_vars => TypeOK'
<1> SUFFICES ASSUME TypeOK, [Next]_vars PROVE TypeOK'
  OBVIOUS
<1> USE ClockAssumption
<1>1. ASSUME NEW c \in Clients, NEW q \in Requests, Begin(c, q) PROVE TypeOK'
  <2>1. {"get", "stamp"} \subseteq PCs
    BY DEF PCs
  <2> QED
    BY <1>1, <2>1 DEF TypeOK, Begin
<1>2. ASSUME NEW c \in Clients, Get(c) PROVE TypeOK'
  <2>1. CASE req[c].doc \in present
    <3>1. row[req[c].doc] \in Rows /\ "stamp" \in PCs
      BY <2>1 DEF TypeOK, PCs
    <3> QED
      BY <1>2, <2>1, <3>1, GotoType DEF TypeOK, Get
  <2>2. CASE req[c].doc \notin present
    BY <1>2, <2>2, AnswerType DEF TypeOK, Get
  <2> QED
    BY <2>1, <2>2
<1>3. ASSUME NEW c \in Clients, Stamp(c) PROVE TypeOK'
  <2>1. "write" \in PCs /\ clock + 1 \in 0 .. MaxClock
    BY <1>3 DEF PCs, Stamp, TypeOK
  <2> QED
    BY <1>3, <2>1, GotoType DEF TypeOK, Stamp
<1>4. ASSUME NEW c \in Clients, Insert(c) PROVE TypeOK'
  <2> DEFINE b == [req[c].body EXCEPT !.deleted = FALSE]
             r == ToRow(req[c].doc, b, FALSE, stamp[c])
  <2>1. req[c].doc \in Docs /\ req[c].body \in Bodies /\ stamp[c] \in 0 .. MaxClock
    BY DEF TypeOK, Requests
  <2>2. b \in Bodies
    BY <2>1 DEF Bodies
  <2>3. r \in Rows
    BY <2>1, <2>2, ToRowType
  <2>4. CASE req[c].doc \in present
    BY <1>4, <2>4, AnswerType, NoWriteType DEF TypeOK, Insert
  <2>5. CASE req[c].doc \notin present
    <3>1. Answer(c, 201) /\ Write(c, r) /\ UNCHANGED <<kind, clock>>
      BY <1>4, <2>5 DEF Insert
    <3> HIDE DEF r
    <3> QED
      BY <3>1, <2>3, AnswerType, WriteType DEF TypeOK
  <2> QED
    BY <2>4, <2>5
<1>5. ASSUME NEW c \in Clients, Update(c) PROVE TypeOK'
  <2>1. req[c].doc \in Docs /\ req[c].body \in Bodies /\ stamp[c] \in 0 .. MaxClock
        /\ seen[c].payload.locked \in BOOLEAN /\ "whylocked" \in PCs
    BY DEF TypeOK, Requests, Rows, PCs
  <2>2. ToRow(req[c].doc, req[c].body, seen[c].payload.locked, stamp[c]) \in Rows
    BY <2>1, ToRowType
  <2> QED
    BY <1>5, <2>1, <2>2, AnswerType, GotoType, WriteType, NoWriteType
    DEF TypeOK, Update, local
<1>6. ASSUME NEW c \in Clients, Archive(c) PROVE TypeOK'
  <2>1. req[c].doc \in Docs /\ row[req[c].doc] \in Rows /\ stamp[c] \in 0 .. MaxClock
        /\ "whylocked" \in PCs
    BY DEF TypeOK, Requests, PCs
  <2>2. ArchivedRow(req[c].doc, stamp[c]) \in Rows
    BY <2>1, ArchivedRowType
  <2> QED
    BY <1>6, <2>1, <2>2, AnswerType, GotoType, WriteType, NoWriteType
    DEF TypeOK, Archive, local
<1>7. ASSUME NEW c \in Clients, SetLocked(c) PROVE TypeOK'
  <2>1. req[c].doc \in Docs /\ row[req[c].doc] \in Rows /\ stamp[c] \in 0 .. MaxClock
        /\ req[c].lock \in BOOLEAN
    BY DEF TypeOK, Requests
  <2>2. LockedRow(req[c].doc, req[c].lock, stamp[c]) \in Rows
    BY <2>1, LockedRowType
  <2> QED
    BY <1>7, <2>2, AnswerType, WriteType, NoWriteType DEF TypeOK, SetLocked
<1>8. ASSUME NEW c \in Clients, WhyLocked(c) PROVE TypeOK'
  <2>1. "whygone" \in PCs
    BY DEF PCs
  <2> QED
    BY <1>8, <2>1, AnswerType, GotoType, NoWriteType DEF TypeOK, WhyLocked, local
<1>9. ASSUME NEW c \in Clients, WhyGone(c) PROVE TypeOK'
  <2>1. (IF req[c].doc \in present THEN 409 ELSE 404) \in {0, 200, 201, 204, 404, 409, 423}
    OBVIOUS
  <2> QED
    BY <1>9, <2>1, AnswerType, NoWriteType DEF TypeOK, WhyGone
<1>10. CASE Restart
  <2>1. "idle" \in PCs /\ 0 \in 0 .. MaxClock
    BY DEF PCs
  <2> QED
    BY <1>10, <2>1, NoReqType, NoRowType, NoWriteType DEF TypeOK, Restart
<1>11. CASE UNCHANGED vars
  BY <1>11 DEF TypeOK, vars, local
<1> QED
  BY <1>1, <1>2, <1>3, <1>4, <1>5, <1>6, <1>7, <1>8, <1>9, <1>10, <1>11 DEF Next

LEMMA TypeInit == Init => TypeOK
<1>1. "idle" \in PCs /\ 0 \in 0 .. MaxClock
  BY ClockAssumption DEF PCs
<1> QED
  BY <1>1, NoReqType, NoRowType, ClockAssumption DEF Init, TypeOK

\* Table, requests and locals keep their types.
THEOREM Typed == Spec => []TypeOK
  BY TypeInit, TypeStep, PTL DEF Spec

-----------------------------------------------------------------------------
(* What one statement of one request does                                  *)

ClientStep(c) ==
  \/ \E q \in Requests : Begin(c, q)
  \/ Get(c) \/ Stamp(c)
  \/ Insert(c) \/ Update(c) \/ Archive(c) \/ SetLocked(c)
  \/ WhyLocked(c) \/ WhyGone(c)

\* The columns of row r of document d agree with its payload.
Agrees(d, r) ==
  /\ r.locked = r.payload.locked
  /\ r.locked => Lockable(d)
  /\ IF kind[d] = "indicator"
       THEN r.category = CategoryProjection(d, r.payload.body)
       ELSE r.category \in {r.payload.body.category, "DELETED"}

OthersKeep(c) ==
  \A k \in Clients \ {c} :
    pc'[k] = pc[k] /\ req'[k] = req[k] /\ seen'[k] = seen[k] /\ stamp'[k] = stamp[k]

LooksOnly(c) ==
  UNCHANGED <<row, present>> /\ touched' \in {touched, touched \ {c}}

WritesOnce(c) ==
  /\ pc[c] = "write" /\ pc'[c] = "idle" /\ stamp'[c] = 0 /\ clock' = clock
  /\ \E r \in Rows : /\ Write(c, r)
                     /\ r.stamp = stamp[c]
                     /\ Agrees(req[c].doc, r)

LEMMA OthersStep ==
  ASSUME TypeOK, NEW c \in Clients, ClientStep(c)
  PROVE  OthersKeep(c) /\ kind' = kind
<1>1. CASE \E q \in Requests : Begin(c, q)
  BY <1>1 DEF TypeOK, Begin, OthersKeep
<1>2. CASE Get(c)
  BY <1>2 DEF TypeOK, Get, Goto, Answer, OthersKeep
<1>3. CASE Stamp(c)
  BY <1>3 DEF TypeOK, Stamp, Goto, OthersKeep
<1>4. CASE Insert(c)
  <2>1. (Answer(c, 409) \/ Answer(c, 201)) /\ kind' = kind
    BY <1>4 DEF Insert
  <2> QED
    BY <2>1 DEF TypeOK, Answer, OthersKeep
<1>5. CASE Update(c)
  BY <1>5 DEF TypeOK, Update, Answer, Goto, local, OthersKeep
<1>6. CASE Archive(c)
  BY <1>6 DEF TypeOK, Archive, Answer, Goto, local, OthersKeep
<1>7. CASE SetLocked(c)
  BY <1>7 DEF TypeOK, SetLocked, Answer, OthersKeep
<1>8. CASE WhyLocked(c)
  BY <1>8 DEF TypeOK, WhyLocked, Answer, Goto, local, OthersKeep
<1>9. CASE WhyGone(c)
  BY <1>9 DEF TypeOK, WhyGone, Answer, OthersKeep
<1> QED
  BY <1>1, <1>2, <1>3, <1>4, <1>5, <1>6, <1>7, <1>8, <1>9 DEF ClientStep

\* The check-and-set: a PUT that matches is one nobody wrote past, so the row it
\* overwrites is the one it read.
LEMMA CheckAndSet ==
  ASSUME StoreInv, NEW c \in Clients, pc[c] = "write", req[c].op = "PUT", UpdateMatches(c)
  PROVE  c \notin touched /\ row[req[c].doc] = seen[c]
  BY DEF StoreInv, SeenOrTouched, UpdateMatches

\* A statement either leaves the table alone or writes one row whose columns
\* agree with its payload, under the request's own stamp.
LEMMA TableStep ==
  ASSUME StoreInv, NEW c \in Clients, ClientStep(c)
  PROVE  LooksOnly(c) \/ WritesOnce(c)
<1> DEFINE d == req[c].doc
<1>0. /\ d \in Docs /\ req[c].body \in Bodies /\ req[c].lock \in BOOLEAN
      /\ stamp[c] \in 0 .. MaxClock
      /\ TypeOK
  BY DEF StoreInv, TypeOK, Requests
<1>1. CASE \E q \in Requests : Begin(c, q)
  BY <1>1 DEF Begin, LooksOnly
<1>2. CASE Get(c)
  BY <1>2 DEF Get, LooksOnly
<1>3. CASE Stamp(c)
  BY <1>3 DEF Stamp, LooksOnly
<1>4. CASE Insert(c)
  <2>1. CASE d \in present
    BY <1>4, <2>1 DEF Insert, NoWrite, LooksOnly
  <2>2. CASE d \notin present
    <3> DEFINE b == [req[c].body EXCEPT !.deleted = FALSE]
               r == ToRow(d, b, FALSE, stamp[c])
    <3>1. b \in Bodies
      BY <1>0 DEF Bodies
    <3>2. r \in Rows
      BY <1>0, <3>1, ToRowType
    <3>3. r.stamp = stamp[c] /\ Agrees(d, r)
      BY DEF ToRow, Agrees, CategoryProjection
    <3>4. pc[c] = "write" /\ Answer(c, 201) /\ Write(c, r) /\ clock' = clock
      BY <1>4, <2>2 DEF Insert
    <3>5. pc'[c] = "idle" /\ stamp'[c] = 0
      BY <3>4, <1>0 DEF Answer, TypeOK
    <3> HIDE DEF r
    <3> QED
      BY <3>2, <3>3, <3>4, <3>5 DEF WritesOnce
  <2> QED
    BY <2>1, <2>2
<1>5. CASE Update(c)
  <2>1. CASE ~UpdateMatches(c)
    BY <1>5, <2>1 DEF Update, NoWrite, LooksOnly
  <2>2. CASE UpdateMatches(c)
    <3> DEFINE r == ToRow(d, req[c].body, seen[c].payload.locked, stamp[c])
    <3>0. pc[c] = "write" /\ req[c].op = "PUT"
      BY <1>5 DEF Update
    <3>1. /\ row[d] = seen[c] /\ d \in present
          /\ row[d].locked = row[d].payload.locked /\ (row[d].locked => Lockable(d))
      BY <2>2, <3>0, CheckAndSet DEF UpdateMatches, StoreInv, ProjectionsAgree
    <3>2. seen[c].payload.locked \in BOOLEAN
      BY <1>0 DEF TypeOK, Rows
    <3>3. r \in Rows
      BY <1>0, <3>2, ToRowType
    <3>4. r.stamp = stamp[c] /\ Agrees(d, r)
      BY <3>1 DEF ToRow, Agrees, CategoryProjection
    <3>5. Answer(c, 200) /\ Write(c, r) /\ clock' = clock
      BY <1>5, <2>2 DEF Update
    <3>6. pc'[c] = "idle" /\ stamp'[c] = 0
      BY <3>5, <1>0 DEF Answer, TypeOK
    <3> HIDE DEF r
    <3> QED
      BY <3>0, <3>3, <3>4, <3>5, <3>6 DEF WritesOnce
  <2> QED
    BY <2>1, <2>2
<1>6. CASE Archive(c)
  <2>1. CASE ~(d \in present /\ Unlocked(d))
    BY <1>6, <2>1 DEF Archive, NoWrite, LooksOnly
  <2>2. CASE d \in present /\ Unlocked(d)
    <3> DEFINE r == ArchivedRow(d, stamp[c])
    <3>1. /\ row[d] \in Rows
          /\ row[d].locked = row[d].payload.locked /\ (row[d].locked => Lockable(d))
      BY <1>0, <2>2 DEF StoreInv, ProjectionsAgree, TypeOK
    <3>2. /\ r \in Rows /\ r.stamp = stamp[c] /\ r.category = "DELETED"
          /\ r.locked = row[d].locked /\ r.payload.locked = row[d].payload.locked
          /\ kind[d] = "indicator" => r.payload.body.deleted
      BY <1>0, <3>1, ArchivedRowType
    <3>3. Answer(c, 204) /\ Write(c, r) /\ pc[c] = "write" /\ clock' = clock
      BY <1>6, <2>2 DEF Archive
    <3>4. pc'[c] = "idle" /\ stamp'[c] = 0
      BY <3>3, <1>0 DEF Answer, TypeOK
    <3> HIDE DEF r
    <3>5. Agrees(d, r)
      BY <3>1, <3>2 DEF Agrees, CategoryProjection
    <3> QED
      BY <3>2, <3>3, <3>4, <3>5 DEF WritesOnce
  <2> QED
    BY <2>1, <2>2
<1>7. CASE SetLocked(c)
  <2>1. CASE d \notin present
    BY <1>7, <2>1 DEF SetLocked, NoWrite, LooksOnly
  <2>2. CASE d \in present
    <3> DEFINE r == LockedRow(d, req[c].lock, stamp[c])
    <3>1. row[d] \in Rows /\ Agrees(d, row[d]) /\ Lockable(d)
      BY <1>0, <1>7, <2>2
      DEF SetLocked, StoreInv, ProjectionsAgree, RefusalGrounds, TypeOK, Agrees
    <3>2. /\ r \in Rows /\ r.stamp = stamp[c] /\ r.category = row[d].category
          /\ r.locked = req[c].lock /\ r.payload.locked = req[c].lock
          /\ r.payload.body = row[d].payload.body
      BY <1>0, <3>1, LockedRowType
    <3>3. Answer(c, 200) /\ Write(c, r) /\ pc[c] = "write" /\ clock' = clock
      BY <1>7, <2>2 DEF SetLocked
    <3>4. pc'[c] = "idle" /\ stamp'[c] = 0
      BY <3>3, <1>0 DEF Answer, TypeOK
    <3> HIDE DEF r
    <3>5. Agrees(d, r)
      BY <3>1, <3>2 DEF Agrees
    <3> QED
      BY <3>2, <3>3, <3>4, <3>5 DEF WritesOnce
  <2> QED
    BY <2>1, <2>2
<1>8. CASE WhyLocked(c)
  BY <1>8 DEF WhyLocked, NoWrite, LooksOnly
<1>9. CASE WhyGone(c)
  BY <1>9 DEF WhyGone, NoWrite, LooksOnly
<1> QED
  BY <1>1, <1>2, <1>3, <1>4, <1>5, <1>6, <1>7, <1>8, <1>9 DEF ClientStep

-----------------------------------------------------------------------------
(* The inductive invariant                                                 *)

\* What a request does to its own locals in one statement.
LEMMA OwnStep ==
  ASSUME StoreInv, NEW c \in Clients, ClientStep(c)
  PROVE  /\ clock' >= clock
         /\ seen'[c] \in {NoRow, seen[c]} \/ (\E d \in Docs : seen'[c] = row[d])
         /\ \/ stamp'[c] \in {0, stamp[c]} /\ pc'[c] # "write"
            \/ /\ stamp'[c] = clock + 1 /\ clock' = clock + 1
               /\ seen'[c] = seen[c] /\ UNCHANGED row
<1>0. TypeOK /\ clock \in Nat
  BY ClockAssumption DEF StoreInv, TypeOK
<1>1. CASE \E q \in Requests : Begin(c, q)
  BY <1>0, <1>1 DEF Begin, TypeOK
<1>2. CASE Get(c)
  <2>1. req[c].doc \in Docs
    BY <1>0 DEF TypeOK, Requests
  <2> QED
    BY <1>0, <1>2, <2>1 DEF Get, Answer, Goto, TypeOK
<1>3. CASE Stamp(c)
  BY <1>0, <1>3 DEF Stamp, Goto, TypeOK
<1>4. CASE Insert(c)
  <2>1. (Answer(c, 409) \/ Answer(c, 201)) /\ clock' = clock
    BY <1>4 DEF Insert
  <2> QED
    BY <1>0, <2>1 DEF TypeOK, Answer
<1>5. CASE Update(c)
  BY <1>0, <1>5 DEF Update, Answer, Goto, local, TypeOK
<1>6. CASE Archive(c)
  BY <1>0, <1>6 DEF Archive, Answer, Goto, local, TypeOK
<1>7. CASE SetLocked(c)
  BY <1>0, <1>7 DEF SetLocked, Answer, TypeOK
<1>8. CASE WhyLocked(c)
  BY <1>0, <1>8 DEF WhyLocked, Answer, Goto, local, TypeOK
<1>9. CASE WhyGone(c)
  BY <1>0, <1>9 DEF WhyGone, Answer, TypeOK
<1> QED
  BY <1>1, <1>2, <1>3, <1>4, <1>5, <1>6, <1>7, <1>8, <1>9 DEF ClientStep

LEMMA FreshStep ==
  ASSUME StoreInv, NEW c \in Clients, ClientStep(c)
  PROVE  FreshStamps'
<1>0. /\ TypeOK /\ FreshStamps /\ TypeOK'
      /\ clock \in Nat /\ clock' \in Nat /\ clock' >= clock
      /\ \A d \in Docs : row[d].stamp \in Nat
      /\ \A k \in Clients : seen[k].stamp \in Nat /\ stamp[k] \in Nat /\ stamp'[k] \in Nat
  <2>1. TypeOK /\ FreshStamps /\ TypeOK'
    BY TypeStep DEF StoreInv, Next, ClientStep
  <2> QED
    BY <2>1, OwnStep, ClockAssumption DEF TypeOK, Rows
<1>1. OthersKeep(c)
  BY OthersStep DEF StoreInv
<1>2. \/ row' = row
      \/ /\ pc[c] = "write" /\ stamp'[c] = 0 /\ pc'[c] = "idle"
         /\ \A d \in Docs : row'[d].stamp \in {row[d].stamp, stamp[c]}
  <2>1. CASE LooksOnly(c)
    BY <2>1 DEF LooksOnly
  <2>2. CASE WritesOnce(c)
    BY <2>2, <1>0 DEF WritesOnce, Write, TypeOK
  <2> QED
    BY <2>1, <2>2, TableStep
<1>3. /\ \A k \in Clients \ {c} : seen'[k].stamp = seen[k].stamp
      /\ \/ seen'[c].stamp \in {0, seen[c].stamp}
         \/ \E d \in Docs : seen'[c].stamp = row[d].stamp
  BY <1>1, OwnStep DEF OthersKeep, NoRow
<1>4. \A d \in Docs : row'[d].stamp <= clock' /\ row'[d].stamp \in Nat
  BY <1>0, <1>2 DEF FreshStamps
<1>5. \A k \in Clients : seen'[k].stamp <= clock' /\ stamp'[k] <= clock'
  BY <1>0, <1>1, <1>3, OwnStep DEF FreshStamps, OthersKeep
<1>6. \A k \in Clients : pc'[k] = "write" => stamp'[k] # 0
  BY <1>0, <1>1, OwnStep DEF FreshStamps, OthersKeep
<1>7. ASSUME NEW k \in Clients, stamp'[k] # 0
      PROVE  /\ \A j \in Clients \ {k} : stamp'[j] # stamp'[k]
             /\ \A j \in Clients : seen'[j].stamp # stamp'[k]
             /\ \A d \in Docs : row'[d].stamp # stamp'[k]
  <2>1. CASE stamp'[c] = clock + 1 /\ clock' = clock + 1 /\ seen'[c] = seen[c] /\ row' = row
    <3>1. CASE k = c
      BY <2>1, <3>1, <1>0, <1>1 DEF FreshStamps, OthersKeep
    <3>2. CASE k # c
      BY <2>1, <3>2, <1>0, <1>1, <1>7 DEF FreshStamps, OthersKeep
    <3> QED
      BY <3>1, <3>2
  <2>2. CASE stamp'[c] \in {0, stamp[c]}
    <3>1. stamp[k] = stamp'[k]
      BY <2>2, <1>1, <1>7 DEF OthersKeep
    <3>2. \A j \in Clients \ {k} : stamp'[j] # stamp'[k]
      BY <2>2, <3>1, <1>0, <1>1, <1>7 DEF FreshStamps, OthersKeep
    <3>3. \A j \in Clients : seen'[j].stamp # stamp'[k]
      BY <3>1, <1>0, <1>1, <1>3, <1>7 DEF FreshStamps
    <3>4. \A d \in Docs : row'[d].stamp # stamp'[k]
      BY <3>1, <1>0, <1>2, <1>7 DEF FreshStamps
    <3> QED
      BY <3>2, <3>3, <3>4
  <2> QED
    BY <2>1, <2>2, OwnStep
<1> QED
  BY <1>4, <1>5, <1>6, <1>7 DEF FreshStamps

\* The columns still agree with the payload after any statement.
LEMMA ProjectionStep ==
  ASSUME StoreInv, NEW c \in Clients, ClientStep(c)
  PROVE  ProjectionsAgree'
<1>1. kind' = kind /\ TypeOK /\ ProjectionsAgree
  BY OthersStep DEF StoreInv
<1>2. CASE LooksOnly(c)
  BY <1>1, <1>2 DEF LooksOnly, ProjectionsAgree, CategoryProjection, Lockable
<1>3. CASE WritesOnce(c)
  <2>1. PICK r \in Rows : Write(c, r) /\ Agrees(req[c].doc, r)
    BY <1>3 DEF WritesOnce
  <2>2. \A d \in present' : Agrees(d, row'[d])
    <3> SUFFICES ASSUME NEW d \in present' PROVE Agrees(d, row'[d])
      OBVIOUS
    <3>1. req[c].doc \in Docs
      BY <1>1 DEF TypeOK, Requests
    <3>2. CASE d = req[c].doc
      BY <2>1, <3>1, <3>2, <1>1 DEF Write, TypeOK
    <3>3. CASE d # req[c].doc
      BY <2>1, <3>1, <3>3, <1>1 DEF Write, TypeOK, ProjectionsAgree, Agrees
    <3> QED
      BY <3>2, <3>3
  <2> QED
    BY <2>2, <1>1 DEF ProjectionsAgree, Agrees, CategoryProjection, Lockable
<1> QED
  BY <1>2, <1>3, TableStep

\* What a statement leaves another request with: its document as it was, or
\* written under a stamp that is not the one it read.
LEMMA OtherDocument ==
  ASSUME StoreInv, NEW c \in Clients, ClientStep(c), NEW k \in Clients \ {c}
  PROVE  /\ pc'[k] = pc[k] /\ req'[k] = req[k] /\ seen'[k] = seen[k]
         /\ kind' = kind /\ present \subseteq present'
         /\ req[k].doc \in Docs
         /\ \/ /\ row'[req[k].doc] = row[req[k].doc]
               /\ req[k].doc \in present' <=> req[k].doc \in present
               /\ k \in touched' <=> k \in touched
            \/ /\ row'[req[k].doc].stamp # seen[k].stamp
               /\ pc[k] # "idle" => k \in touched'
<1>1. OthersKeep(c) /\ kind' = kind /\ TypeOK
  BY OthersStep DEF StoreInv
<1>2. req[k].doc \in Docs /\ req[c].doc \in Docs
  BY <1>1 DEF TypeOK, Requests
<1>3. CASE LooksOnly(c)
  BY <1>1, <1>2, <1>3 DEF LooksOnly, OthersKeep
<1>4. CASE WritesOnce(c)
  <2>1. PICK r \in Rows : Write(c, r) /\ r.stamp = stamp[c]
    BY <1>4 DEF WritesOnce
  <2>2. CASE req[k].doc # req[c].doc
    BY <1>1, <1>2, <2>1, <2>2 DEF Write, OthersKeep, TypeOK
  <2>3. CASE req[k].doc = req[c].doc
    <3>1. row'[req[k].doc] = r
      BY <1>1, <1>2, <2>1, <2>3 DEF Write, TypeOK
    <3>2. stamp[c] # 0 /\ seen[k].stamp # stamp[c]
      BY <1>4 DEF WritesOnce, StoreInv, FreshStamps
    <3>3. present \subseteq present' /\ (pc[k] # "idle" => k \in touched')
      BY <2>1, <2>3 DEF Write
    <3> QED
      BY <1>1, <1>2, <2>1, <3>1, <3>2, <3>3 DEF OthersKeep
  <2> QED
    BY <2>2, <2>3
<1> QED
  BY <1>3, <1>4, TableStep

\* What a statement of a PUT leaves it with.
LEMMA OwnPut ==
  ASSUME StoreInv, NEW c \in Clients, ClientStep(c),
         req'[c].op = "PUT", pc'[c] \notin {"idle", "get"}
  PROVE  /\ req'[c].doc \in present'
         /\ IF c \in touched' THEN row'[req'[c].doc].stamp # seen'[c].stamp
                              ELSE row'[req'[c].doc] = seen'[c]
<1>0. TypeOK /\ SeenOrTouched
  BY DEF StoreInv
<1>1. CASE \E q \in Requests : Begin(c, q)
  BY <1>0, <1>1 DEF Begin, TypeOK
<1>2. CASE Get(c)
  BY <1>0, <1>2 DEF Get, Answer, Goto, TypeOK
<1>3. CASE Stamp(c)
  BY <1>0, <1>3 DEF Stamp, Goto, TypeOK, SeenOrTouched
<1>4. CASE Insert(c)
  <2>1. Answer(c, 409) \/ Answer(c, 201)
    BY <1>4 DEF Insert
  <2> QED
    BY <1>0, <2>1 DEF TypeOK, Answer
<1>5. CASE Update(c)
  BY <1>0, <1>5 DEF Update, Answer, Goto, NoWrite, local, TypeOK, SeenOrTouched
<1>6. CASE Archive(c)
  BY <1>0, <1>6 DEF Archive, Answer, Goto, NoWrite, local, TypeOK, SeenOrTouched
<1>7. CASE SetLocked(c)
  BY <1>0, <1>7 DEF SetLocked, Answer, TypeOK
<1>8. CASE WhyLocked(c)
  BY <1>0, <1>8 DEF WhyLocked, Answer, Goto, NoWrite, local, TypeOK, SeenOrTouched
<1>9. CASE WhyGone(c)
  BY <1>0, <1>9 DEF WhyGone, Answer, TypeOK
<1> QED
  BY <1>1, <1>2, <1>3, <1>4, <1>5, <1>6, <1>7, <1>8, <1>9 DEF ClientStep

LEMMA SeenStep ==
  ASSUME StoreInv, NEW c \in Clients, ClientStep(c)
  PROVE  SeenOrTouched'
<1> SUFFICES ASSUME NEW k \in Clients, req'[k].op = "PUT", pc'[k] \notin {"idle", "get"}
             PROVE  /\ req'[k].doc \in present'
                    /\ IF k \in touched' THEN row'[req'[k].doc].stamp # seen'[k].stamp
                                         ELSE row'[req'[k].doc] = seen'[k]
  BY DEF SeenOrTouched
<1>1. CASE k = c
  BY <1>1, OwnPut
<1>2. CASE k # c
  <2>1. SeenOrTouched
    BY DEF StoreInv
  <2> QED
    BY <1>2, <2>1, OtherDocument DEF SeenOrTouched
<1> QED
  BY <1>1, <1>2

\* What a statement leaves its own request with on the path of a refusal.
LEMMA OwnGrounds ==
  ASSUME StoreInv, NEW c \in Clients, ClientStep(c)
  PROVE  /\ pc'[c] \in {"get", "whygone"} => req'[c].op = "PUT"
         /\ pc'[c] = "whylocked" =>
              /\ req'[c].op \in {"PUT", "DELETE"}
              /\ \/ req'[c].doc \notin present'
                 \/ kind'[req'[c].doc] # "basket" /\ row'[req'[c].doc].locked
                 \/ c \in touched'
         /\ pc'[c] = "whygone" => c \in touched'
         /\ req'[c].op = "LOCK" => kind'[req'[c].doc] # "basket"
<1>0. TypeOK /\ SeenOrTouched /\ RefusalGrounds /\ kind' = kind
  BY OthersStep DEF StoreInv
<1> USE DEF Lockable
<1>1. CASE \E q \in Requests : Begin(c, q)
  BY <1>0, <1>1 DEF Begin, TypeOK
<1>2. CASE Get(c)
  BY <1>0, <1>2 DEF Get, Answer, Goto, TypeOK, NoReq, RefusalGrounds
<1>3. CASE Stamp(c)
  BY <1>0, <1>3 DEF Stamp, Goto, TypeOK, RefusalGrounds
<1>4. CASE Insert(c)
  <2>1. Answer(c, 409) \/ Answer(c, 201)
    BY <1>4 DEF Insert
  <2> QED
    BY <1>0, <2>1 DEF TypeOK, Answer, NoReq
<1>5. CASE Update(c)
  <2>1. CASE UpdateMatches(c)
    BY <1>0, <1>5, <2>1 DEF Update, Answer, TypeOK, NoReq
  <2>2. CASE ~UpdateMatches(c)
    <3>1. Unlocked(req[c].doc) => c \in touched
      BY <1>0, <1>5, <2>2 DEF Update, UpdateMatches, SeenOrTouched
    <3> QED
      BY <1>0, <1>5, <2>2, <3>1 DEF Update, Goto, NoWrite, local, TypeOK, Unlocked
  <2> QED
    BY <2>1, <2>2
<1>6. CASE Archive(c)
  BY <1>0, <1>6 DEF Archive, Answer, Goto, NoWrite, local, TypeOK, NoReq, Unlocked
<1>7. CASE SetLocked(c)
  BY <1>0, <1>7 DEF SetLocked, Answer, TypeOK, NoReq
<1>8. CASE WhyLocked(c)
  BY <1>0, <1>8
  DEF WhyLocked, Answer, Goto, NoWrite, local, TypeOK, NoReq, RefusalGrounds, SeenOrTouched
<1>9. CASE WhyGone(c)
  BY <1>0, <1>9 DEF WhyGone, Answer, TypeOK, NoReq
<1> QED
  BY <1>1, <1>2, <1>3, <1>4, <1>5, <1>6, <1>7, <1>8, <1>9 DEF ClientStep

LEMMA GroundsStep ==
  ASSUME StoreInv, NEW c \in Clients, ClientStep(c)
  PROVE  RefusalGrounds'
<1>1. ASSUME NEW k \in Clients \ {c}
      PROVE  /\ pc'[k] \in {"get", "whygone"} => req'[k].op = "PUT"
             /\ pc'[k] = "whylocked" =>
                  /\ req'[k].op \in {"PUT", "DELETE"}
                  /\ \/ req'[k].doc \notin present'
                     \/ kind'[req'[k].doc] # "basket" /\ row'[req'[k].doc].locked
                     \/ k \in touched'
             /\ pc'[k] = "whygone" => k \in touched'
             /\ req'[k].op = "LOCK" => kind'[req'[k].doc] # "basket"
  <2>1. RefusalGrounds
    BY DEF StoreInv
  <2> QED
    BY <2>1, OtherDocument DEF RefusalGrounds, Unlocked, Lockable
<1> QED
  BY <1>1, OwnGrounds DEF RefusalGrounds, Unlocked, Lockable

\* A restart of the backend forgets every request and touches no row.
LEMMA RestartStep ==
  ASSUME StoreInv, Restart
  PROVE  /\ ProjectionsAgree' /\ FreshStamps' /\ SeenOrTouched' /\ RefusalGrounds'
         /\ UNCHANGED <<kind, row, present, touched>>
<1>1. /\ UNCHANGED <<kind, row, present, touched, clock>> /\ TypeOK
      /\ \A c \in Clients : /\ pc'[c] = "idle" /\ req'[c] = NoReq
                            /\ seen'[c] = NoRow /\ stamp'[c] = 0
  BY DEF Restart, NoWrite, StoreInv
<1>2. ProjectionsAgree'
  BY <1>1 DEF StoreInv, ProjectionsAgree, CategoryProjection, Lockable
<1>3. FreshStamps'
  BY <1>1, ClockAssumption DEF StoreInv, FreshStamps, NoRow, TypeOK
<1>4. SeenOrTouched' /\ RefusalGrounds'
  <2>1. NoReq.op = "POST"
    BY DEF NoReq
  <2>2. \A c \in Clients : pc'[c] = "idle" /\ req'[c].op = "POST"
    BY <1>1, <2>1
  <2>3. SeenOrTouched'
    BY <2>2 DEF SeenOrTouched
  <2>4. RefusalGrounds'
    BY <2>2 DEF RefusalGrounds
  <2> QED
    BY <2>3, <2>4
<1> QED
  BY <1>1, <1>2, <1>3, <1>4

LEMMA StoreInit == Init => StoreInv
<1> SUFFICES ASSUME Init PROVE StoreInv
  OBVIOUS
<1>1. TypeOK
  BY TypeInit
<1>2. ProjectionsAgree /\ SeenOrTouched
  BY DEF Init, ProjectionsAgree, SeenOrTouched
<1>3. FreshStamps
  BY DEF Init, FreshStamps, NoRow
<1>4. RefusalGrounds
  BY DEF Init, RefusalGrounds, NoReq
<1> QED
  BY <1>1, <1>2, <1>3, <1>4 DEF StoreInv

LEMMA StoreStep == StoreInv /\ [Next]_vars => StoreInv'
<1> SUFFICES ASSUME StoreInv, [Next]_vars PROVE StoreInv'
  OBVIOUS
<1>1. TypeOK'
  BY TypeStep DEF StoreInv
<1>2. CASE \E c \in Clients : ClientStep(c)
  BY <1>1, <1>2, FreshStep, ProjectionStep, SeenStep, GroundsStep DEF StoreInv
<1>3. CASE Restart
  BY <1>1, <1>3, RestartStep DEF StoreInv
<1>4. CASE UNCHANGED vars
  BY <1>1, <1>4
  DEF StoreInv, ProjectionsAgree, FreshStamps, SeenOrTouched, RefusalGrounds, vars, local,
      CategoryProjection, Lockable, Unlocked
<1> QED
  BY <1>2, <1>3, <1>4 DEF Next, ClientStep

\* The inductive invariant holds in every reachable state.
THEOREM StoreInvariant == Spec => []StoreInv
  BY StoreInit, StoreStep, PTL DEF Spec

\* The columns the list queries and the lock guard filter on always agree with
\* the payload the document is rebuilt from.
THEOREM ColumnsAgree == Spec => []ProjectionsAgree
<1>1. StoreInv => ProjectionsAgree
  BY DEF StoreInv
<1> QED
  BY <1>1, StoreInvariant, PTL

-----------------------------------------------------------------------------
(* What a step may never do                                                *)

\* A PUT that succeeds replaces exactly the row it read: no write of another
\* request is lost, in any interleaving of any number of requests.
THEOREM NoLostUpdate == Spec => PutReplacesWhatItRead
<1>1. ASSUME StoreInv, [Next]_vars, NEW c \in Clients,
             pc[c] = "write", req[c].op = "PUT", pc'[c] = "idle", reply'[c] = 200
      PROVE  row[req[c].doc] = seen[c]
  <2>0. TypeOK
    BY <1>1 DEF StoreInv
  <2>1. ASSUME NEW k \in Clients, ClientStep(k) PROVE row[req[c].doc] = seen[c]
    <3>1. CASE k # c
      BY <1>1, <2>1, <3>1, OthersStep, <2>0 DEF OthersKeep
    <3>2. CASE k = c
      <4>1. Update(c)
        BY <1>1, <2>1, <3>2
        DEF ClientStep, Begin, Get, Stamp, Insert, Archive, SetLocked, WhyLocked, WhyGone
      <4>2. CASE UpdateMatches(c)
        BY <1>1, <4>2, CheckAndSet
      <4>3. CASE ~UpdateMatches(c)
        BY <1>1, <2>0, <4>1, <4>3 DEF Update, Goto, TypeOK
      <4> QED
        BY <4>2, <4>3
    <3> QED
      BY <3>1, <3>2
  <2>2. CASE Restart
    <3>1. reply'[c] = 0
      BY <1>1, <2>2 DEF Restart
    <3> QED
      BY <1>1, <3>1
  <2>3. CASE UNCHANGED vars
    BY <1>1, <2>3 DEF vars
  <2> QED
    BY <1>1, <2>1, <2>2, <2>3 DEF Next, ClientStep
<1>2. StoreInv /\ [Next]_vars =>
        [\A c \in Clients :
           pc[c] = "write" /\ req[c].op = "PUT" /\ pc'[c] = "idle" /\ reply'[c] = 200
             => row[req[c].doc] = seen[c]]_vars
  BY <1>1
<1> QED
  BY <1>2, StoreInvariant, PTL DEF Spec, PutReplacesWhatItRead

\* None but the lock route changes the lock of a document that exists.
THEOREM LockBelongsToLockRoute == Spec => OnlyLockRouteLocks
<1> DEFINE ByLockRoute(d) ==
             \E c \in Clients : /\ pc[c] = "write" /\ pc'[c] = "idle"
                                /\ req[c].op = "LOCK" /\ req[c].doc = d
                                /\ req[c].lock = row'[d].locked
<1>1. ASSUME StoreInv, [Next]_vars, NEW d \in present, row'[d].locked # row[d].locked
      PROVE  ByLockRoute(d)
  <2>0. TypeOK /\ d \in Docs /\ row[d] \in Rows
    BY <1>1 DEF StoreInv, TypeOK
  <2>1. ASSUME NEW c \in Clients, ClientStep(c) PROVE ByLockRoute(d)
    <3>0. WritesOnce(c)
      BY <1>1, <2>1, TableStep DEF LooksOnly
    <3>1. req[c].doc = d /\ pc[c] = "write" /\ pc'[c] = "idle" /\ stamp[c] \in 0 .. MaxClock
      BY <1>1, <2>0, <3>0 DEF WritesOnce, Write, TypeOK
    <3>2. CASE Insert(c)
      BY <1>1, <3>1, <3>2 DEF Insert, NoWrite
    <3>3. CASE Update(c)
      <4>1. UpdateMatches(c) /\ req[c].op = "PUT"
        BY <1>1, <3>3 DEF Update, NoWrite
      <4>2. row[d] = seen[c] /\ row[d].locked = row[d].payload.locked
        BY <1>1, <3>1, <4>1, CheckAndSet DEF StoreInv, ProjectionsAgree
      <4>3. row'[d].locked = seen[c].payload.locked
        BY <2>0, <3>1, <3>3, <4>1 DEF Update, Write, ToRow, TypeOK
      <4> QED
        BY <1>1, <4>2, <4>3
    <3>4. CASE Archive(c)
      <4>1. row'[d] = ArchivedRow(d, stamp[c])
        BY <1>1, <2>0, <3>1, <3>4 DEF Archive, Write, NoWrite, TypeOK
      <4> QED
        BY <1>1, <2>0, <3>1, <4>1, ArchivedRowType
    <3>5. CASE SetLocked(c)
      <4>1. row'[d] = LockedRow(d, req[c].lock, stamp[c]) /\ req[c].op = "LOCK"
        BY <1>1, <2>0, <3>1, <3>5 DEF SetLocked, Write, TypeOK
      <4>2. req[c].lock \in BOOLEAN
        BY <2>0 DEF TypeOK, Requests
      <4> QED
        BY <2>0, <3>1, <4>1, <4>2, LockedRowType
    <3> QED
      BY <1>1, <2>1, <3>1, <3>2, <3>3, <3>4, <3>5
      DEF ClientStep, Begin, Get, Stamp, WhyLocked, WhyGone, NoWrite
  <2>2. CASE Restart
    BY <1>1, <2>2, RestartStep
  <2>3. CASE UNCHANGED vars
    BY <1>1, <2>3 DEF vars
  <2> QED
    BY <1>1, <2>1, <2>2, <2>3 DEF Next, ClientStep
<1>2. StoreInv /\ [Next]_vars =>
        [\A d \in present : row'[d].locked # row[d].locked => ByLockRoute(d)]_vars
  BY <1>1
<1> QED
  BY <1>2, StoreInvariant, PTL DEF Spec, OnlyLockRouteLocks

-----------------------------------------------------------------------------
(* The store implements the contract                                       *)

\* A request under way asks for what its method says.
LEMMA AskedFor ==
  ASSUME TypeOK, NEW c \in Clients, pc[c] # "idle"
  PROVE  /\ Asked(c) # Contract!Free
         /\ Asked(c).doc = req[c].doc /\ req[c].doc \in Docs
         /\ req[c].op = "POST" => Asked(c).op = "create"
         /\ req[c].op = "PUT" => Asked(c).op = "replace"
         /\ req[c].op = "DELETE" => Asked(c).op = "archive"
         /\ req[c].op = "LOCK" => Asked(c).op = "lock"
<1>1. req[c].op \in Ops /\ req[c].doc \in Docs
  BY DEF TypeOK, Requests
<1> QED
  BY <1>1 DEF Asked, Contract!Free, Ops

LEMMA Answers ==
  ASSUME TypeOK, NEW c \in Clients, NEW code, Answer(c, code)
  PROVE  Contract!Answer(c, code)
<1>1. Asked(c)' = [op |-> "none"]
  <2>1. pc'[c] = "idle"
    BY DEF TypeOK, Answer
  <2> QED
    BY <2>1 DEF Asked
<1>2. \A k \in Clients \ {c} : Asked(k)' = Asked(k)
  <2>1. \A k \in Clients \ {c} : pc'[k] = pc[k] /\ req'[k] = req[k]
    BY DEF TypeOK, Answer
  <2> QED
    BY <2>1 DEF Asked
<1> QED
  BY <1>1, <1>2 DEF Answer, Contract!Answer, Contract!Free

LEMMA Proceeds ==
  ASSUME TypeOK, NEW c \in Clients, NEW where, where # "idle", pc[c] # "idle",
         Goto(c, where), req' = req
  PROVE  /\ [k \in Clients |-> Asked(k)]' = [k \in Clients |-> Asked(k)]
         /\ reply' = reply
<1>1. ASSUME NEW k \in Clients PROVE Asked(k)' = Asked(k)
  <2>1. req'[k] = req[k] /\ (pc'[k] = "idle" <=> pc[k] = "idle")
    BY DEF TypeOK, Goto
  <2> QED
    BY <2>1 DEF Asked
<1> QED
  BY <1>1 DEF Goto

\* A write of row r, seen from the contract.
LEMMA Writes ==
  ASSUME TypeOK, NEW c \in Clients, pc[c] # "idle", NEW r, Write(c, r)
  PROVE  /\ Contract!Touch(c, req[c].doc)
         /\ present' = present \union {req[c].doc}
         /\ [d \in Docs |-> Saying(d)]' =
              [[d \in Docs |-> Saying(d)] EXCEPT ![req[c].doc] = <<r.category, r.payload.body>>]
         /\ r.locked => { d \in present : row[d].locked }' =
                          { d \in present : row[d].locked } \union {req[c].doc}
         /\ ~r.locked => { d \in present : row[d].locked }' =
                           { d \in present : row[d].locked } \ {req[c].doc}
<1>0. req[c].doc \in Docs /\ row \in [Docs -> Rows]
  BY DEF TypeOK, Requests
<1>1. Contract!Touch(c, req[c].doc)
  <2>1. \A k \in Clients : pc[k] # "idle" <=> Asked(k) # [op |-> "none"]
    BY AskedFor DEF Asked, Contract!Free
  <2>2. \A k \in Clients : pc[k] # "idle" => Asked(k).doc = req[k].doc
    BY AskedFor
  <2> QED
    BY <2>1, <2>2 DEF Write, Contract!Touch, Contract!Free
<1>2. \A d \in Docs : Saying(d)' = IF d = req[c].doc THEN <<r.category, r.payload.body>>
                                                      ELSE Saying(d)
  BY <1>0 DEF Write, Saying
<1>3. \A d \in Docs : row'[d].locked = IF d = req[c].doc THEN r.locked ELSE row[d].locked
  BY <1>0 DEF Write
<1>4. present' = present \union {req[c].doc} /\ present \subseteq Docs
  BY DEF Write, TypeOK
<1> QED
  BY <1>0, <1>1, <1>2, <1>3, <1>4

LEMMA Leaves ==
  ASSUME NoWrite
  PROVE  /\ UNCHANGED <<present, touched>>
         /\ { d \in present : row[d].locked }' = { d \in present : row[d].locked }
         /\ [d \in Docs |-> Saying(d)]' = [d \in Docs |-> Saying(d)]
  BY DEF NoWrite, Saying

\* Each statement is a step of the contract, or none of its business.
Implemented == Contract!Next \/ UNCHANGED Contract!cvars

LEMMA ContractInit == Init => Contract!Init
<1> SUFFICES ASSUME Init PROVE Contract!Init
  OBVIOUS
<1>1. \A c \in Clients : Asked(c) = [op |-> "none"]
  BY DEF Init, Asked
<1>2. \A d \in Docs : Saying(d) = <<None, NoBody>>
  BY DEF Init, Saying, NoRow
<1> QED
  BY <1>1, <1>2 DEF Init, Contract!Init, Contract!Free

LEMMA BeginImplements ==
  ASSUME TypeOK, NEW c \in Clients, NEW q \in Requests, Begin(c, q)
  PROVE  Implemented
<1>1. Asked(c) = Contract!Free
  BY DEF Begin, Asked, Contract!Free
<1>2. Asked(c)' \in Contract!Request
  <2>1. /\ pc'[c] # "idle" /\ req'[c] = q
        /\ q.op \in Ops /\ q.doc \in Docs
    BY DEF Begin, TypeOK, Requests
  <2> QED
    BY <2>1 DEF Asked, Ops, Contract!Request
<1>3. \A k \in Clients \ {c} : Asked(k)' = Asked(k)
  <2>1. \A k \in Clients \ {c} : pc'[k] = pc[k] /\ req'[k] = req[k]
    BY DEF Begin, TypeOK
  <2> QED
    BY <2>1 DEF Asked
<1>4. /\ UNCHANGED <<present, row>> /\ touched' = touched \ {c}
      /\ reply' = [reply EXCEPT ![c] = 0]
  BY DEF Begin
<1>5. Contract!Ask(c, Asked(c)')
  BY <1>1, <1>3, <1>4 DEF Contract!Ask, Saying
<1> QED
  BY <1>2, <1>5 DEF Implemented, Contract!Next

LEMMA GetImplements ==
  ASSUME StoreInv, NEW c \in Clients, Get(c)
  PROVE  Implemented
<1>0. TypeOK /\ pc[c] = "get" /\ pc[c] # "idle" /\ req[c].op = "PUT" /\ UNCHANGED <<row, present>>
  BY DEF Get, StoreInv, RefusalGrounds
<1>1. Asked(c) # Contract!Free /\ Asked(c).op = "replace" /\ Asked(c).doc = req[c].doc
  BY <1>0, AskedFor
<1>2. CASE req[c].doc \in present
  <2>1. Goto(c, "stamp") /\ req' = req /\ touched' = touched \ {c}
    BY <1>2 DEF Get
  <2>2. /\ [k \in Clients |-> Asked(k)]' = [k \in Clients |-> Asked(k)]
        /\ reply' = reply
    BY <1>0, <2>1, Proceeds
  <2>3. Contract!Look(c)
    BY <1>0, <1>1, <2>1, <2>2 DEF Contract!Look, Saying
  <2> QED
    BY <2>3 DEF Implemented, Contract!Next
<1>3. CASE req[c].doc \notin present
  <2>1. Answer(c, 404) /\ touched' = touched
    BY <1>3 DEF Get
  <2>2. Contract!Answer(c, 404)
    BY <1>0, <2>1, Answers
  <2>3. Contract!Refuse(c, 404)
    BY <1>0, <1>1, <1>3, <2>1, <2>2 DEF Contract!Refuse, Contract!Refused, Saying
  <2> QED
    BY <2>3 DEF Implemented, Contract!Next
<1> QED
  BY <1>2, <1>3

LEMMA StampImplements ==
  ASSUME TypeOK, NEW c \in Clients, Stamp(c)
  PROVE  Implemented
<1>1. Goto(c, "write") /\ req' = req /\ pc[c] # "idle" /\ UNCHANGED <<row, present, touched>>
  BY DEF Stamp
<1>2. /\ [k \in Clients |-> Asked(k)]' = [k \in Clients |-> Asked(k)]
      /\ reply' = reply
  BY <1>1, Proceeds
<1> QED
  BY <1>1, <1>2 DEF Implemented, Contract!cvars, Saying

\* What the contract sees of a written row is a content it knows.
LEMMA ContentType ==
  ASSUME NEW r \in Rows
  PROVE  <<r.category, r.payload.body>> \in (Categories \union {None, "DELETED"}) \X Bodies
  BY DEF Rows

LEMMA InsertImplements ==
  ASSUME StoreInv, NEW c \in Clients, Insert(c)
  PROVE  Implemented
<1>0. TypeOK /\ pc[c] = "write" /\ pc[c] # "idle" /\ req[c].op = "POST"
  BY DEF Insert, StoreInv
<1>1. Asked(c) # Contract!Free /\ Asked(c).op = "create" /\ Asked(c).doc = req[c].doc
  BY <1>0, AskedFor
<1>2. CASE req[c].doc \in present
  <2>1. Answer(c, 409) /\ NoWrite
    BY <1>2 DEF Insert
  <2>2. Contract!Answer(c, 409)
    BY <1>0, <2>1, Answers
  <2>3. Contract!Refuse(c, 409)
    BY <1>1, <1>2, <2>1, <2>2, Leaves DEF Contract!Refuse, Contract!Refused
  <2> QED
    BY <2>3 DEF Implemented, Contract!Next
<1>3. CASE req[c].doc \notin present
  <2> DEFINE b == [req[c].body EXCEPT !.deleted = FALSE]
             r == ToRow(req[c].doc, b, FALSE, stamp[c])
             v == <<r.category, r.payload.body>>
  <2>1. Answer(c, 201) /\ Write(c, r)
    BY <1>3 DEF Insert
  <2>2. ~r.locked
    BY DEF ToRow
  <2>3. r \in Rows
    <3>1. req[c].doc \in Docs /\ req[c].body \in Bodies /\ stamp[c] \in 0 .. MaxClock
      BY <1>0 DEF TypeOK, Requests
    <3>2. b \in Bodies
      BY <3>1 DEF Bodies
    <3> QED
      BY <3>1, <3>2, ToRowType
  <2> HIDE DEF r
  <2>4. v \in (Categories \union {None, "DELETED"}) \X Bodies
    BY <2>3, ContentType
  <2>5. Contract!Answer(c, 201)
    BY <1>0, <2>1, Answers
  <2>6. Contract!Create(c, v)
    BY <1>0, <1>1, <1>3, <2>1, <2>2, <2>5, Writes DEF Contract!Create
  <2> QED
    BY <2>4, <2>6 DEF Implemented, Contract!Next
<1> QED
  BY <1>2, <1>3

LEMMA UpdateImplements ==
  ASSUME StoreInv, NEW c \in Clients, Update(c)
  PROVE  Implemented
<1>0. TypeOK /\ pc[c] = "write" /\ pc[c] # "idle" /\ req[c].op = "PUT"
  BY DEF Update, StoreInv
<1>1. Asked(c) # Contract!Free /\ Asked(c).op = "replace" /\ Asked(c).doc = req[c].doc
  BY <1>0, AskedFor
<1>2. CASE ~UpdateMatches(c)
  <2>1. Goto(c, "whylocked") /\ req' = req /\ NoWrite
    BY <1>2 DEF Update, local
  <2>2. /\ [k \in Clients |-> Asked(k)]' = [k \in Clients |-> Asked(k)]
        /\ reply' = reply
    BY <1>0, <2>1, Proceeds
  <2> QED
    BY <2>1, <2>2, Leaves DEF Implemented, Contract!cvars
<1>3. CASE UpdateMatches(c)
  <2> DEFINE r == ToRow(req[c].doc, req[c].body, seen[c].payload.locked, stamp[c])
             v == <<r.category, r.payload.body>>
  <2>1. Answer(c, 200) /\ Write(c, r)
    BY <1>3 DEF Update
  <2>2. c \notin touched /\ row[req[c].doc] = seen[c]
    BY <1>0, <1>3, CheckAndSet
  <2>3. /\ req[c].doc \in present /\ ~row[req[c].doc].locked
        /\ ~seen[c].payload.locked
    BY <1>3, <2>2 DEF UpdateMatches, Unlocked, StoreInv, ProjectionsAgree
  <2>4. ~r.locked
    BY <2>3 DEF ToRow
  <2>5. r \in Rows
    <3>1. /\ req[c].doc \in Docs /\ req[c].body \in Bodies /\ stamp[c] \in 0 .. MaxClock
          /\ seen[c].payload.locked \in BOOLEAN
      BY <1>0 DEF TypeOK, Requests, Rows
    <3> QED
      BY <3>1, ToRowType
  <2> HIDE DEF r
  <2>6. v \in (Categories \union {None, "DELETED"}) \X Bodies
    BY <2>5, ContentType
  <2>7. Contract!Answer(c, 200)
    BY <1>0, <2>1, Answers
  <2>8. /\ Contract!Touch(c, req[c].doc)
        /\ present' = present \union {req[c].doc}
        /\ [x \in Docs |-> Saying(x)]' =
             [[x \in Docs |-> Saying(x)] EXCEPT ![req[c].doc] = <<r.category, r.payload.body>>]
        /\ { x \in present : row[x].locked }' = { x \in present : row[x].locked } \ {req[c].doc}
    BY <1>0, <2>1, <2>4, Writes
  <2>9. /\ present' = present
        /\ { x \in present : row[x].locked }' = { x \in present : row[x].locked }
        /\ req[c].doc \in present \ { x \in present : row[x].locked }
    BY <2>3, <2>8
  <2>10. Contract!Replace(c, v)
    BY <1>1, <2>2, <2>7, <2>8, <2>9 DEF Contract!Replace
  <2> QED
    BY <2>6, <2>10 DEF Implemented, Contract!Next
<1> QED
  BY <1>2, <1>3

LEMMA ArchiveImplements ==
  ASSUME StoreInv, NEW c \in Clients, Archive(c)
  PROVE  Implemented
<1> DEFINE d == req[c].doc
<1>0. TypeOK /\ pc[c] = "write" /\ pc[c] # "idle" /\ req[c].op = "DELETE"
  BY DEF Archive, StoreInv
<1>1. Asked(c) # Contract!Free /\ Asked(c).op = "archive" /\ Asked(c).doc = d
  BY <1>0, AskedFor
<1>2. CASE ~(d \in present /\ Unlocked(d))
  <2>1. Goto(c, "whylocked") /\ req' = req /\ NoWrite
    BY <1>2 DEF Archive, local
  <2>2. /\ [k \in Clients |-> Asked(k)]' = [k \in Clients |-> Asked(k)]
        /\ reply' = reply
    BY <1>0, <2>1, Proceeds
  <2> QED
    BY <2>1, <2>2, Leaves DEF Implemented, Contract!cvars
<1>3. CASE d \in present /\ Unlocked(d)
  <2> DEFINE r == ArchivedRow(d, stamp[c])
             v == <<r.category, r.payload.body>>
  <2>1. Answer(c, 204) /\ Write(c, r)
    BY <1>3 DEF Archive
  <2>2. d \in present /\ ~row[d].locked
    BY <1>3 DEF Unlocked, StoreInv, ProjectionsAgree
  <2>3. r \in Rows /\ r.category = "DELETED" /\ ~r.locked
    <3>1. d \in Docs /\ row[d] \in Rows /\ stamp[c] \in 0 .. MaxClock
      BY <1>0, <2>2 DEF TypeOK, Requests
    <3> QED
      BY <2>2, <3>1, ArchivedRowType
  <2> HIDE DEF r
  <2>4. v \in {"DELETED"} \X Bodies
    BY <2>3, ContentType
  <2>5. Contract!Answer(c, 204)
    BY <1>0, <2>1, Answers
  <2>6. /\ Contract!Touch(c, req[c].doc)
        /\ present' = present \union {req[c].doc}
        /\ [x \in Docs |-> Saying(x)]' =
             [[x \in Docs |-> Saying(x)] EXCEPT ![req[c].doc] = <<r.category, r.payload.body>>]
        /\ { x \in present : row[x].locked }' = { x \in present : row[x].locked } \ {req[c].doc}
    BY <1>0, <2>1, <2>3, Writes
  <2>7. /\ present' = present
        /\ { x \in present : row[x].locked }' = { x \in present : row[x].locked }
        /\ req[c].doc \in present \ { x \in present : row[x].locked }
    BY <2>2, <2>6
  <2>8. Contract!ArchiveDoc(c, v)
    BY <1>1, <2>5, <2>6, <2>7 DEF Contract!ArchiveDoc
  <2> QED
    BY <2>4, <2>8 DEF Implemented, Contract!Next
<1> QED
  BY <1>2, <1>3

LEMMA SetLockedImplements ==
  ASSUME StoreInv, NEW c \in Clients, SetLocked(c)
  PROVE  Implemented
<1> DEFINE d == req[c].doc
<1>0. TypeOK /\ pc[c] = "write" /\ pc[c] # "idle" /\ req[c].op = "LOCK"
  BY DEF SetLocked, StoreInv
<1>1. Asked(c) # Contract!Free /\ Asked(c).op = "lock" /\ Asked(c).doc = d
  BY <1>0, AskedFor
<1>2. CASE d \notin present
  <2>1. Answer(c, 404) /\ NoWrite
    BY <1>2 DEF SetLocked
  <2>2. Contract!Answer(c, 404)
    BY <1>0, <2>1, Answers
  <2>3. Contract!Refuse(c, 404)
    BY <1>1, <1>2, <2>1, <2>2, Leaves DEF Contract!Refuse, Contract!Refused
  <2> QED
    BY <2>3 DEF Implemented, Contract!Next
<1>3. CASE d \in present
  <2> DEFINE r == LockedRow(d, req[c].lock, stamp[c])
  <2>1. Answer(c, 200) /\ Write(c, r)
    BY <1>3 DEF SetLocked
  <2>2. d \in Docs /\ row[d] \in Rows /\ stamp[c] \in 0 .. MaxClock /\ req[c].lock \in BOOLEAN
    BY <1>0 DEF TypeOK, Requests
  <2>3. /\ r.category = row[d].category /\ r.payload.body = row[d].payload.body
        /\ r.locked = req[c].lock
    BY <2>2, LockedRowType
  <2> HIDE DEF r
  <2>4. <<r.category, r.payload.body>> = Saying(d)
    BY <2>3 DEF Saying
  <2>5. Contract!Answer(c, 200)
    BY <1>0, <2>1, Answers
  <2>6. /\ Contract!Touch(c, req[c].doc)
        /\ present' = present \union {req[c].doc}
        /\ [x \in Docs |-> Saying(x)]' =
             [[x \in Docs |-> Saying(x)] EXCEPT ![req[c].doc] = <<r.category, r.payload.body>>]
    BY <1>0, <2>1, Writes
  <2>7. /\ present' = present
        /\ [x \in Docs |-> Saying(x)]' = [x \in Docs |-> Saying(x)]
    <3> DEFINE f == [x \in Docs |-> Saying(x)]
    <3>1. f[req[c].doc] = <<r.category, r.payload.body>>
      BY <2>2, <2>4
    <3>2. [f EXCEPT ![req[c].doc] = <<r.category, r.payload.body>>] = f
      <4> HIDE DEF f
      <4>1. f \in [Docs -> {f[x] : x \in Docs}]
        BY DEF f
      <4> QED
        BY <3>1, <4>1
    <3> QED
      BY <1>3, <2>6, <3>2
  <2>8. \/ { x \in present : row[x].locked }' = { x \in present : row[x].locked } \union {d}
        \/ { x \in present : row[x].locked }' = { x \in present : row[x].locked } \ {d}
    BY <1>0, <2>1, Writes
  <2>9. Contract!SetLock(c)
    BY <1>1, <1>3, <2>5, <2>6, <2>7, <2>8 DEF Contract!SetLock
  <2> QED
    BY <2>9 DEF Implemented, Contract!Next
<1> QED
  BY <1>2, <1>3

LEMMA WhyLockedImplements ==
  ASSUME StoreInv, NEW c \in Clients, WhyLocked(c)
  PROVE  Implemented
<1> DEFINE d == req[c].doc
<1>0. /\ TypeOK /\ pc[c] = "whylocked" /\ pc[c] # "idle" /\ NoWrite
      /\ req[c].op \in {"PUT", "DELETE"}
      /\ d \notin present \/ ~Unlocked(d) \/ c \in touched
  BY DEF WhyLocked, StoreInv, RefusalGrounds
<1>1. /\ Asked(c) # Contract!Free /\ Asked(c).doc = d
      /\ Asked(c).op = IF req[c].op = "PUT" THEN "replace" ELSE "archive"
  BY <1>0, AskedFor
<1>2. CASE d \in present /\ ~Unlocked(d)
  <2>1. Answer(c, 423) /\ row[d].locked
    BY <1>2 DEF WhyLocked, Unlocked
  <2>2. Contract!Answer(c, 423)
    BY <1>0, <2>1, Answers
  <2>3. Contract!Refuse(c, 423)
    BY <1>0, <1>1, <1>2, <2>1, <2>2, Leaves DEF Contract!Refuse, Contract!Refused
  <2> QED
    BY <2>3 DEF Implemented, Contract!Next
<1>3. CASE ~(d \in present /\ ~Unlocked(d)) /\ req[c].op = "DELETE"
  <2>1. Answer(c, 404)
    BY <1>3 DEF WhyLocked
  <2>2. Contract!Answer(c, 404)
    BY <1>0, <2>1, Answers
  <2>3. Contract!Refuse(c, 404)
    BY <1>0, <1>1, <1>3, <2>1, <2>2, Leaves DEF Contract!Refuse, Contract!Refused
  <2> QED
    BY <2>3 DEF Implemented, Contract!Next
<1>4. CASE ~(d \in present /\ ~Unlocked(d)) /\ req[c].op # "DELETE"
  <2>1. Goto(c, "whygone") /\ req' = req
    BY <1>4 DEF WhyLocked, local
  <2>2. /\ [k \in Clients |-> Asked(k)]' = [k \in Clients |-> Asked(k)]
        /\ reply' = reply
    BY <1>0, <2>1, Proceeds
  <2> QED
    BY <1>0, <2>1, <2>2, Leaves DEF Implemented, Contract!cvars
<1> QED
  BY <1>2, <1>3, <1>4

LEMMA WhyGoneImplements ==
  ASSUME StoreInv, NEW c \in Clients, WhyGone(c)
  PROVE  Implemented
<1> DEFINE code == IF req[c].doc \in present THEN 409 ELSE 404
<1>0. /\ TypeOK /\ pc[c] = "whygone" /\ pc[c] # "idle" /\ NoWrite
      /\ Answer(c, code) /\ req[c].op = "PUT" /\ c \in touched
  BY DEF WhyGone, StoreInv, RefusalGrounds
<1>1. Asked(c) # Contract!Free /\ Asked(c).doc = req[c].doc /\ Asked(c).op = "replace"
  BY <1>0, AskedFor
<1>2. Contract!Answer(c, code) /\ code \in {404, 409, 423}
  BY <1>0, Answers
<1>3. Contract!Refuse(c, code)
  BY <1>0, <1>1, <1>2, Leaves DEF Contract!Refuse, Contract!Refused
<1> QED
  BY <1>2, <1>3 DEF Implemented, Contract!Next

LEMMA RestartImplements ==
  ASSUME StoreInv, Restart
  PROVE  Implemented
<1>1. \A c \in Clients : Asked(c)' = [op |-> "none"]
  BY DEF Restart, Asked
<1>2. \A c \in Clients : pc[c] = "idle" <=> Asked(c) = [op |-> "none"]
  BY AskedFor DEF Asked, Contract!Free, StoreInv
<1>3. reply' = [c \in Clients |-> IF pc[c] = "idle" THEN reply[c] ELSE 0] /\ NoWrite
  BY DEF Restart
<1>4. Contract!Lose
  BY <1>1, <1>2, <1>3, Leaves DEF Contract!Lose, Contract!Free
<1> QED
  BY <1>4 DEF Implemented, Contract!Next

LEMMA StepImplements == StoreInv /\ [Next]_vars => Implemented
<1> SUFFICES ASSUME StoreInv, [Next]_vars PROVE Implemented
  OBVIOUS
<1>0. TypeOK
  BY DEF StoreInv
<1>1. ASSUME NEW c \in Clients, ClientStep(c) PROVE Implemented
  BY <1>0, <1>1, BeginImplements, GetImplements, StampImplements, InsertImplements,
     UpdateImplements, ArchiveImplements, SetLockedImplements, WhyLockedImplements,
     WhyGoneImplements
  DEF ClientStep
<1>2. CASE UNCHANGED vars
  BY <1>2 DEF Implemented, Contract!cvars, vars, local, Saying, Asked
<1> QED
  BY <1>1, <1>2, RestartImplements DEF Next, ClientStep

\* Every behaviour of the store is a behaviour of the contract: each request
\* takes effect at one moment or is refused with a reason that holds then.
THEOREM StoreImplementsContract == Spec => ImplementsContract
<1>1. StoreInv /\ [Next]_vars => [Contract!Next]_(Contract!cvars)
  BY StepImplements DEF Implemented
<1> QED
  BY <1>1, ContractInit, StoreInvariant, PTL DEF Spec, ImplementsContract, Contract!Spec

-----------------------------------------------------------------------------
(* The autosave hook                                                       *)

\* A request on the wire, and a promise.
Request == [id: 1 .. saves, value: Nat, aborted: BOOLEAN, stored: BOOLEAN]
Promise == [version: Nat, on: 0 .. saves]

LEMMA Inits == HookInit => HookInv
<1> SUFFICES ASSUME HookInit PROVE HookInv
  OBVIOUS
<1>1. HookTypeOK
  <2>1. 0 \in 0 .. 0 /\ 0 \in Nat /\ 1 \in Nat /\ TRUE \in BOOLEAN /\ FALSE \in BOOLEAN
    OBVIOUS
  <2>2. flight \in 0 .. saves /\ wire = {} /\ awaiting = {} /\ status = "idle"
    BY <2>1 DEF HookInit
  <2> QED
    BY <2>1, <2>2 DEF HookInit, HookTypeOK
<1> QED
  BY <1>1 DEF HookInit, HookInv, WireFits, VersionsOrdered, HookKeepsItsWord,
              NothingForgottenHere, StatusIsTrue, PromiseHasSave

(***************************************************************************)
(* What launching a save and discarding the schedule leave                 *)
(***************************************************************************)

\* A save goes out while every other request on the wire belongs to a document
\* left behind.  The promises are old ones on a request that stays, or wait for it.
LEMMA LaunchKeeps ==
  ASSUME HookInv, NEW rest \in SUBSET wire, \A s \in rest : s.aborted, Launch(rest),
         mounted' \in BOOLEAN, enabled' \in BOOLEAN, pending' \in BOOLEAN,
         payload' \in Nat, ref' \in Nat, edits' \in Nat, events' \in Nat,
         ref <= ref', ref' <= edits', store' = store, restart' = FALSE,
         mounted' => mounted,
         \A a \in awaiting' :
           \/ a.on = saves + 1 /\ a \in [version: Nat, on: Nat] /\ a.version <= ref'
           \/ a \in awaiting /\ \E s \in rest : a.on = s.id
  PROVE  HookInv'
<1> DEFINE n == saves + 1
           new == [id |-> n, value |-> ref', aborted |-> FALSE, stored |-> FALSE]
<1>1. /\ HookTypeOK /\ saves \in Nat /\ n \in Nat /\ rest \subseteq Request
      /\ wire \subseteq Request /\ awaiting \subseteq Promise
  BY DEF HookInv, HookTypeOK, Request, Promise
<1>2. /\ saves' = n /\ flight' = n /\ sent' = ref' /\ due' = 0
      /\ wire' = rest \union {new}
      /\ status' = IF mounted' THEN "saving" ELSE status
  BY DEF Launch, Show
<1>3. new \in [id: 1 .. n, value: Nat, aborted: BOOLEAN, stored: BOOLEAN]
  BY <1>1
<1>4. \A s \in rest : s.id \in Nat /\ s.id # n /\ s.id <= saves /\ s \in wire
  BY <1>1 DEF Request
<1>5. HookTypeOK'
  <2>1. wire' \subseteq [id: 1 .. n, value: Nat, aborted: BOOLEAN, stored: BOOLEAN]
    <3>1. \A i \in 1 .. saves : i \in 1 .. n
      BY <1>1
    <3> HIDE DEF n, new
    <3>2. ASSUME NEW s \in rest
          PROVE  s \in [id: 1 .. n, value: Nat, aborted: BOOLEAN, stored: BOOLEAN]
      BY <1>1, <3>1 DEF Request
    <3> QED
      BY <1>2, <1>3, <3>2 DEF new
  <2>2. awaiting' \subseteq [version: Nat, on: 0 .. n]
    <3> SUFFICES ASSUME NEW a \in awaiting' PROVE a \in [version: Nat, on: 0 .. n]
      OBVIOUS
    <3>1. CASE a \in awaiting
      BY <1>1, <3>1 DEF Promise
    <3>2. CASE a.on = saves + 1 /\ a \in [version: Nat, on: Nat]
      BY <1>1, <3>2
    <3> QED
      BY <3>1, <3>2
  <2>3. status' \in {"idle", "saving", "saved", "error"}
    BY <1>1, <1>2 DEF HookTypeOK
  <2>4. n \in 0 .. n /\ 0 \in Nat /\ store' \in Nat
    BY <1>1 DEF HookTypeOK
  <2> HIDE DEF n
  <2> QED
    BY <1>1, <1>2, <2>1, <2>2, <2>3, <2>4 DEF HookTypeOK
<1> HIDE DEF new
<1>6. new.id = n /\ new.value = ref' /\ new.aborted = FALSE /\ new.stored = FALSE
  BY DEF new
<1> HIDE DEF n
<1>7. WireFits'
  <2>1. \A r, s \in wire' : r.id = s.id => r = s
    BY <1>2, <1>4, <1>6 DEF HookInv, WireFits
  <2>2. \A s \in wire' : IF s.id = n THEN ~s.aborted /\ s.value = ref' /\ ~s.stored
                                     ELSE s.aborted
    BY <1>2, <1>4, <1>6
  <2>3. \E s \in wire' : s.id = n
    BY <1>2, <1>6
  <2> QED
    BY <1>2, <2>1, <2>2, <2>3 DEF WireFits
<1>8. VersionsOrdered'
  <2>1. store' <= sent' /\ sent' <= ref' /\ ref' <= edits'
    BY <1>1, <1>2 DEF HookInv, VersionsOrdered, HookTypeOK
  <2>2. ASSUME NEW a \in awaiting'
        PROVE  a.version <= ref' /\ \A s \in wire' : a.on = s.id => a.version <= s.value
    <3>1. CASE a.on = n /\ a.version <= ref'
      BY <1>2, <1>4, <1>6, <3>1
    <3>2. CASE a \in awaiting /\ \E s \in rest : a.on = s.id
      <4>1. a.version <= ref /\ a.version \in Nat
        BY <1>1, <3>2 DEF HookInv, VersionsOrdered, Promise
      <4>2. a.version <= ref'
        BY <1>1, <4>1 DEF HookTypeOK
      <4>3. \A s \in rest : a.on = s.id => a.version <= s.value
        BY <1>4, <3>2 DEF HookInv, VersionsOrdered
      <4> QED
        BY <1>2, <1>4, <1>6, <3>2, <4>2, <4>3
    <3> QED
      BY <3>1, <3>2 DEF n
  <2> QED
    BY <2>1, <2>2 DEF VersionsOrdered
<1>9. HookKeepsItsWord'
  <2>1. NothingForgottenHere'
    BY <1>2 DEF NothingForgottenHere
  <2>2. StatusIsTrue'
    BY <1>1, <1>2 DEF StatusIsTrue, n
  <2>3. PromiseHasSave'
    <3> SUFFICES ASSUME NEW a \in awaiting' PROVE \E s \in wire' : a.on = s.id
      BY DEF PromiseHasSave
    <3>1. CASE a.on = n
      BY <1>2, <1>6, <3>1
    <3>2. CASE \E s \in rest : a.on = s.id
      BY <1>2, <3>2
    <3> QED
      BY <3>1, <3>2 DEF n
  <2> QED
    BY <2>1, <2>2, <2>3 DEF HookKeepsItsWord
<1> QED
  BY <1>5, <1>7, <1>8, <1>9 DEF HookInv

\* A step that leaves the wire alone and queues what it has to save.
LEMMA ScheduleKeeps ==
  ASSUME HookInv, UNCHANGED <<saves, wire, flight, sent, status, store>>,
         mounted' \in BOOLEAN, enabled' \in BOOLEAN, pending' \in BOOLEAN,
         restart' \in BOOLEAN, payload' \in Nat, ref' \in Nat, edits' \in Nat,
         events' \in Nat, due' \in Nat, ref <= ref', ref' <= edits',
         mounted' => mounted, restart' => flight # 0,
         mounted' /\ due' # 0 => pending' \/ restart',
         mounted' /\ restart => restart',
         \A a \in awaiting' :
           \/ a \in awaiting
           \/ a.on = 0 /\ a \in [version: Nat, on: Nat] /\ a.version <= ref' /\ restart'
  PROVE  HookInv'
<1>1. /\ HookTypeOK /\ wire \subseteq Request /\ awaiting \subseteq Promise /\ saves \in Nat
  BY DEF HookInv, HookTypeOK, Request, Promise
<1>2. \A s \in wire : s.id # 0
  BY <1>1 DEF Request
<1>3. HookTypeOK'
  <2>1. awaiting' \subseteq [version: Nat, on: 0 .. saves]
    BY <1>1 DEF Promise
  <2> QED
    BY <1>1, <2>1 DEF HookTypeOK
<1>4. WireFits'
  BY DEF HookInv, WireFits
<1>5. VersionsOrdered'
  <2>1. store' <= sent' /\ sent' <= ref' /\ ref' <= edits'
    BY <1>1 DEF HookInv, VersionsOrdered, HookTypeOK
  <2>2. ASSUME NEW a \in awaiting'
        PROVE  a.version <= ref' /\ \A s \in wire : a.on = s.id => a.version <= s.value
    <3>1. CASE a \in awaiting
      <4>1. a.version <= ref /\ a.version \in Nat
        BY <1>1, <3>1 DEF HookInv, VersionsOrdered, Promise
      <4>2. a.version <= ref'
        BY <1>1, <4>1 DEF HookTypeOK
      <4> QED
        BY <3>1, <4>2 DEF HookInv, VersionsOrdered
    <3>2. CASE a.on = 0 /\ a.version <= ref'
      BY <1>2, <3>2
    <3> QED
      BY <3>1, <3>2
  <2> QED
    BY <2>1, <2>2 DEF VersionsOrdered
<1>6. HookKeepsItsWord'
  <2>1. StatusIsTrue'
    BY DEF HookInv, HookKeepsItsWord, StatusIsTrue
  <2>2. PromiseHasSave'
    <3> SUFFICES ASSUME NEW a \in awaiting'
                 PROVE  \/ \E s \in wire' : a.on = s.id
                        \/ a.on = 0 /\ (mounted' => restart' /\ flight' # 0)
      BY DEF PromiseHasSave, Queue
    <3>1. CASE a \in awaiting
      BY <3>1 DEF HookInv, HookKeepsItsWord, PromiseHasSave, Queue
    <3>2. CASE a.on = 0 /\ restart'
      BY <3>2
    <3> QED
      BY <3>1, <3>2
  <2> QED
    BY <2>1, <2>2 DEF HookKeepsItsWord, NothingForgottenHere
<1> QED
  BY <1>3, <1>4, <1>5, <1>6 DEF HookInv

\* Everything scheduled is discarded, and what stays on the wire belongs to
\* documents left behind.
LEMMA ResetKeeps ==
  ASSUME HookInv, NEW settled, Reset(settled), saves' = saves,
         mounted' \in BOOLEAN, enabled' \in BOOLEAN, payload' \in Nat, ref' \in Nat,
         edits' \in Nat, store' \in Nat, sent' \in Nat, events' \in Nat, mounted' => mounted,
         ref <= ref', store' <= sent', sent' <= ref', ref' <= edits',
         wire' \subseteq Request, \A r, s \in wire' : r.id = s.id => r = s,
         \A s \in wire' : s.aborted,
         \A s \in wire' : \E r \in wire : r.id = s.id /\ r.value = s.value,
         \A r \in wire : r.id \in settled \/ \E s \in wire' : s.id = r.id
  PROVE  HookInv'
<1>1. /\ HookTypeOK /\ wire \subseteq Request /\ awaiting \subseteq Promise /\ saves \in Nat
  BY DEF HookInv, HookTypeOK, Request, Promise
<1>2. /\ pending' = FALSE /\ restart' = FALSE /\ flight' = 0 /\ due' = 0
      /\ awaiting' \subseteq awaiting
      /\ \A a \in awaiting' : a.on # 0 /\ a.on \notin settled
      /\ status' = IF mounted' THEN "idle" ELSE status
  BY DEF Reset, Show, Queue
<1>3. \A s \in wire' : s.id # 0
  BY DEF Request
<1>4. HookTypeOK'
  <2>1. awaiting' \subseteq [version: Nat, on: 0 .. saves] /\ 0 \in 0 .. saves /\ 0 \in Nat
    BY <1>1, <1>2 DEF Promise
  <2>2. wire' \subseteq [id: 1 .. saves, value: Nat, aborted: BOOLEAN, stored: BOOLEAN]
    BY DEF Request
  <2>3. status' \in {"idle", "saving", "saved", "error"}
    BY <1>1, <1>2 DEF HookTypeOK
  <2> QED
    BY <1>1, <1>2, <2>1, <2>2, <2>3 DEF HookTypeOK
<1>5. WireFits'
  BY <1>2, <1>3 DEF WireFits
<1>6. VersionsOrdered'
  <2>1. ASSUME NEW a \in awaiting'
        PROVE  a.version <= ref' /\ \A s \in wire' : a.on = s.id => a.version <= s.value
    <3>1. a \in awaiting /\ a.version <= ref /\ a.version \in Nat
      BY <1>1, <1>2 DEF HookInv, VersionsOrdered, Promise
    <3>2. a.version <= ref'
      BY <1>1, <3>1 DEF HookTypeOK
    <3> QED
      BY <3>1, <3>2 DEF HookInv, VersionsOrdered
  <2> QED
    BY <2>1 DEF VersionsOrdered
<1>7. HookKeepsItsWord'
  <2>1. PromiseHasSave'
    <3> SUFFICES ASSUME NEW a \in awaiting' PROVE \E s \in wire' : a.on = s.id
      BY DEF PromiseHasSave
    <3>1. PICK r \in wire : a.on = r.id
      BY <1>2 DEF HookInv, HookKeepsItsWord, PromiseHasSave, Queue
    <3> QED
      BY <1>2, <3>1
  <2> QED
    BY <1>2, <2>1 DEF HookKeepsItsWord, NothingForgottenHere, StatusIsTrue
<1> QED
  BY <1>4, <1>5, <1>6, <1>7 DEF HookInv

\* Nothing on the wire is active while no save is in flight.
LEMMA NoneActive ==
  ASSUME HookInv, flight = 0
  PROVE  /\ \A s \in wire : s.aborted
         /\ restart = FALSE
         /\ mounted => \A a \in awaiting : \E s \in wire : a.on = s.id
<1>1. \A s \in wire : s.id # 0
  BY DEF HookInv, HookTypeOK
<1> QED
  BY <1>1 DEF HookInv, WireFits, HookTypeOK, HookKeepsItsWord, PromiseHasSave

(***************************************************************************)
(* The steps                                                               *)
(***************************************************************************)

LEMMA RenderKeeps ==
  ASSUME HookInv, NEW edited \in BOOLEAN, NEW gate \in BOOLEAN, Render(edited, gate)
  PROVE  HookInv'
<1>1. /\ HookTypeOK /\ ref <= edits /\ ref \in Nat /\ edits \in Nat
  BY DEF HookInv, VersionsOrdered, HookTypeOK
<1>2. /\ edits' = (IF edited THEN edits + 1 ELSE edits) /\ ref' = edits'
      /\ payload' = edits' /\ enabled' = gate /\ pending' = gate
      /\ due' = (IF gate \/ restart THEN ref' ELSE 0) /\ events' = events + 1
      /\ UNCHANGED <<mounted, flight, restart, status, wire, awaiting, store, sent, saves>>
  BY DEF Render, UserActs
<1>3. edits' \in Nat /\ ref <= ref' /\ ref' <= edits' /\ ref' \in Nat /\ payload' \in Nat
      /\ events' \in Nat /\ due' \in Nat
  BY <1>1, <1>2 DEF HookTypeOK
<1>4. /\ mounted' /\ due' # 0 => pending' \/ restart'
      /\ restart' => flight # 0
  BY <1>2 DEF HookInv, WireFits
<1>5. mounted' \in BOOLEAN /\ enabled' \in BOOLEAN /\ pending' \in BOOLEAN /\ restart' \in BOOLEAN
  BY <1>1, <1>2 DEF HookTypeOK
<1> QED
  BY <1>2, <1>3, <1>4, <1>5, ScheduleKeeps

LEMMA SelectKeeps ==
  ASSUME HookInv, Select
  PROVE  HookInv'
<1>1. /\ HookTypeOK /\ ref <= edits /\ ref \in Nat /\ edits \in Nat /\ wire \subseteq Request
  BY DEF HookInv, VersionsOrdered, HookTypeOK, Request
<1>2. /\ edits' = edits + 1 /\ payload' = edits' /\ ref' = edits' /\ store' = edits'
      /\ sent' = edits' /\ enabled' = FALSE /\ events' = events + 1
      /\ UNCHANGED <<mounted, saves>> /\ wire' = Aborted /\ Reset({})
  BY DEF Select, UserActs
<1>3. /\ edits' \in Nat /\ ref <= ref' /\ events' \in Nat /\ edits' <= edits'
  BY <1>1, <1>2 DEF HookTypeOK
<1> DEFINE Mark(s) == [s EXCEPT !.aborted = @ \/ s.id = flight]
<1>4. ASSUME NEW s \in wire
      PROVE  /\ Mark(s) \in Request /\ Mark(s).id = s.id /\ Mark(s).value = s.value
             /\ Mark(s).aborted
  <2>1. s \in Request
    BY <1>1
  <2>2. s.aborted \/ s.id = flight
    BY DEF HookInv, WireFits
  <2> QED
    BY <2>1, <2>2 DEF Request
<1>5. wire' = { Mark(s) : s \in wire }
  BY <1>2 DEF Aborted
<1> HIDE DEF Mark
<1>6. /\ wire' \subseteq Request /\ \A s \in wire' : s.aborted
      /\ \A s \in wire' : \E r \in wire : r.id = s.id /\ r.value = s.value
      /\ \A r \in wire : \E s \in wire' : s.id = r.id
      /\ \A r, s \in wire' : r.id = s.id => r = s
  <2>1. \A r, s \in wire : r.id = s.id => r = s
    BY DEF HookInv, WireFits
  <2> QED
    BY <1>4, <1>5, <2>1
<1>7. mounted' \in BOOLEAN /\ enabled' \in BOOLEAN
  BY <1>1, <1>2 DEF HookTypeOK
<1> QED
  BY <1>2, <1>3, <1>6, <1>7, ResetKeeps

\* The debounce timer and the unmount, which flushes an armed debounce.
LEMMA RunSaveKeeps ==
  ASSUME HookInv, mounted, RunSave, mounted' \in BOOLEAN, pending' = FALSE,
         UNCHANGED <<enabled, payload, edits, events, ref, awaiting, store>>
  PROVE  HookInv'
<1>1. /\ HookTypeOK /\ ref <= edits
      /\ ref \in Nat /\ edits \in Nat /\ payload \in Nat /\ events \in Nat /\ due \in Nat
      /\ enabled \in BOOLEAN
  BY DEF HookInv, VersionsOrdered, HookTypeOK
<1>0. ref <= ref /\ pending' \in BOOLEAN
  <2>1. ref <= ref
    BY <1>1
  <2>2. pending' \in BOOLEAN
    OBVIOUS
  <2> QED
    BY <2>1, <2>2
<1>2. CASE flight # 0
  <2>1. restart' = TRUE /\ UNCHANGED <<saves, wire, flight, sent, due, status>>
    BY <1>2 DEF RunSave
  <2> QED
    BY <1>1, <1>0, <1>2, <2>1, ScheduleKeeps
<1>3. CASE flight = 0
  <2>1. Launch(wire) /\ restart' = restart
    BY <1>3 DEF RunSave
  <2>2. /\ \A s \in wire : s.aborted
        /\ restart = FALSE
        /\ \A a \in awaiting : \E s \in wire : a.on = s.id
    BY <1>3, NoneActive
  <2> QED
    BY <1>1, <1>0, <2>1, <2>2, LaunchKeeps
<1> QED
  BY <1>2, <1>3

LEMMA UnmountKeeps ==
  ASSUME HookInv, Unmount
  PROVE  HookInv'
<1>1. CASE pending
  BY <1>1, RunSaveKeeps DEF Unmount
<1>2. CASE ~pending
  <2>1. /\ restart' = FALSE /\ mounted' = FALSE /\ pending' = FALSE
        /\ UNCHANGED <<enabled, payload, edits, events, ref, awaiting, store>>
        /\ UNCHANGED <<saves, wire, flight, sent, due, status>>
    BY <1>2 DEF Unmount
  <2>2. /\ ref <= edits
        /\ ref \in Nat /\ edits \in Nat /\ payload \in Nat /\ events \in Nat /\ due \in Nat
        /\ enabled \in BOOLEAN
    BY DEF HookInv, VersionsOrdered, HookTypeOK
  <2>3. ref <= ref
    BY <2>2
  <2>4. pending' \in BOOLEAN /\ mounted' \in BOOLEAN /\ restart' \in BOOLEAN
    BY <2>1
  <2>5. restart' = FALSE /\ mounted' = FALSE
    BY <2>1
  <2> QED
    BY <2>1, <2>2, <2>3, <2>4, <2>5, ScheduleKeeps
<1> QED
  BY <1>1, <1>2

LEMMA SaveNowKeeps ==
  ASSUME HookInv, NEW override \in BOOLEAN, SaveNow(override)
  PROVE  HookInv'
<1> DEFINE p == [version |-> ref', on |-> Promised]
<1>1. /\ HookTypeOK /\ ref <= edits /\ ref \in Nat /\ edits \in Nat /\ saves \in Nat /\ mounted
  BY DEF HookInv, VersionsOrdered, HookTypeOK, SaveNow, UserActs
<1>2. /\ edits' = (IF override THEN edits + 1 ELSE edits)
      /\ ref' = (IF override THEN edits' ELSE ref)
      /\ pending' = FALSE /\ events' = events + 1
      /\ awaiting' = awaiting \union {p}
      /\ UNCHANGED <<mounted, enabled, payload, store>>
  BY DEF SaveNow, UserActs
<1>3. /\ edits' \in Nat /\ ref' \in Nat /\ ref <= ref' /\ ref' <= edits'
      /\ events' \in Nat /\ payload' \in Nat
  BY <1>1, <1>2 DEF HookTypeOK
<1>4. mounted' \in BOOLEAN /\ enabled' \in BOOLEAN /\ pending' \in BOOLEAN
  BY <1>1, <1>2 DEF HookTypeOK
<1>5. Promised \in Nat /\ (flight # 0 => Promised = 0) /\ (flight = 0 => Promised = saves + 1)
  BY <1>1 DEF Promised, Queue
<1>6. p \in [version: Nat, on: Nat] /\ p.version = ref' /\ p.on = Promised /\ p.version <= ref'
  BY <1>3, <1>5
<1> HIDE DEF p
<1>7. CASE flight # 0
  <2>1. restart' = TRUE /\ due' = ref' /\ UNCHANGED <<saves, wire, flight, sent, status>>
    BY <1>7 DEF SaveNow
  <2> QED
    BY <1>2, <1>3, <1>4, <1>5, <1>6, <1>7, <2>1, ScheduleKeeps
<1>8. CASE flight = 0
  <2>1. Launch(wire) /\ restart' = restart
    BY <1>8 DEF SaveNow
  <2>2. /\ \A s \in wire : s.aborted
        /\ restart = FALSE
        /\ \A a \in awaiting : \E s \in wire : a.on = s.id
    BY <1>1, <1>8, NoneActive
  <2>3. \A a \in awaiting' :
           \/ a.on = saves + 1 /\ a \in [version: Nat, on: Nat] /\ a.version <= ref'
           \/ a \in awaiting /\ \E s \in wire : a.on = s.id
    BY <1>2, <1>5, <1>6, <1>8, <2>2
  <2> QED
    BY <1>2, <1>3, <1>4, <2>1, <2>2, <2>3, LaunchKeeps
<1> QED
  BY <1>7, <1>8

\* The backend stores a request of the selected document only if it is the active
\* one, and then holds what was last sent.
LEMMA StoredKeeps ==
  ASSUME HookInv, NEW s \in wire, Stored(s)
  PROVE  HookInv' /\ store' >= store
<1> DEFINE x == [s EXCEPT !.stored = TRUE]
<1>1. /\ HookTypeOK /\ wire \subseteq Request /\ s \in Request
  BY DEF HookInv, HookTypeOK, Request
<1>2. /\ x \in Request /\ x.id = s.id /\ x.value = s.value /\ x.aborted = s.aborted
      /\ x.stored = TRUE
  BY <1>1 DEF Request
<1>3. /\ wire' = (wire \ {s}) \union {x}
      /\ store' = IF s.aborted THEN store ELSE s.value
      /\ UNCHANGED <<mounted, enabled, payload, edits, events, ref, pending, flight, restart,
                     status, awaiting, sent, due, saves>>
  BY DEF Stored, pageVars
<1> HIDE DEF x
<1>4. /\ ~s.aborted => s.id = flight /\ s.value = sent /\ store' = sent
      /\ s.aborted => s.id # flight /\ store' = store
  BY <1>3 DEF HookInv, WireFits
<1>5. store' \in {store, sent} /\ store <= sent /\ store \in Nat /\ sent \in Nat
  BY <1>4 DEF HookInv, VersionsOrdered, HookTypeOK
<1>6. HookTypeOK'
  <2>1. wire' \subseteq [id: 1 .. saves, value: Nat, aborted: BOOLEAN, stored: BOOLEAN]
    BY <1>1, <1>2, <1>3 DEF Request
  <2> QED
    BY <1>1, <1>3, <1>5, <2>1 DEF HookTypeOK
<1>7. WireFits'
  <2>1. \A q, r \in wire' : q.id = r.id => q = r
    BY <1>2, <1>3 DEF HookInv, WireFits
  <2>2. ASSUME NEW r \in wire'
        PROVE  IF r.id = flight
                 THEN ~r.aborted /\ r.value = sent /\ (r.stored => store' = sent)
                 ELSE r.aborted
    <3>1. CASE r = x
      BY <1>2, <1>4, <3>1 DEF HookInv, WireFits
    <3>2. CASE r \in wire /\ r # s
      BY <1>4, <3>2 DEF HookInv, WireFits
    <3> QED
      BY <1>3, <3>1, <3>2
  <2>3. flight # 0 => \E r \in wire' : r.id = flight
    BY <1>2, <1>3 DEF HookInv, WireFits
  <2>4. restart => flight # 0
    BY DEF HookInv, WireFits
  <2> QED
    BY <1>3, <2>1, <2>2, <2>3, <2>4 DEF WireFits
<1>8. VersionsOrdered'
  <2>1. store' <= sent
    BY <1>5
  <2>2. \A a \in awaiting : \A r \in wire' : a.on = r.id => a.version <= r.value
    BY <1>2, <1>3 DEF HookInv, VersionsOrdered
  <2> QED
    BY <1>3, <2>1, <2>2 DEF HookInv, VersionsOrdered
<1>9. HookKeepsItsWord'
  <2>1. StatusIsTrue'
    <3>1. status = "saved" /\ mounted => flight = 0 /\ store = sent
      BY DEF HookInv, HookKeepsItsWord, StatusIsTrue
    <3>2. flight = 0 => s.id # flight
      BY <1>1 DEF Request
    <3> QED
      BY <1>3, <1>4, <3>1, <3>2 DEF HookInv, HookKeepsItsWord, StatusIsTrue
  <2>2. PromiseHasSave'
    BY <1>2, <1>3 DEF HookInv, HookKeepsItsWord, PromiseHasSave
  <2> QED
    BY <1>3, <2>1, <2>2 DEF HookInv, HookKeepsItsWord, NothingForgottenHere
<1> QED
  BY <1>5, <1>6, <1>7, <1>8, <1>9 DEF HookInv


\* A save of the hook's past settles, or the active one does and its end is shown:
\* the request leaves the wire, with the promises on it.
LEMMA RetiredKeeps ==
  ASSUME HookInv, NEW s \in wire, wire' = wire \ {s},
         awaiting' = { a \in awaiting : a.on # s.id },
         UNCHANGED <<mounted, enabled, payload, edits, events, ref, pending, store,
                     restart, saves, sent, due>>,
         \/ s.id # flight /\ UNCHANGED <<flight, status>>
         \/ /\ s.id = flight /\ ~restart /\ flight' = 0
            /\ status' \in {"idle", "saved", "error"} \/ (~mounted /\ status' = status)
            /\ mounted /\ status' = "saved" => s.stored
  PROVE  HookInv'
<1>1. HookTypeOK /\ wire \subseteq Request /\ awaiting \subseteq Promise
  BY DEF HookInv, HookTypeOK, Request, Promise
<1>2. \A r \in wire : r.id = s.id => r = s
  BY DEF HookInv, WireFits
<1>3. s.id # 0 /\ \A r \in wire : r.id # 0
  BY <1>1 DEF Request
<1>4. HookTypeOK'
  <2>1. flight' \in 0 .. saves
    BY <1>1 DEF HookTypeOK
  <2>2. status' \in {"idle", "saving", "saved", "error"}
    BY <1>1 DEF HookTypeOK
  <2> QED
    BY <1>1, <2>1, <2>2 DEF HookTypeOK
<1>5. WireFits'
  <2>1. CASE s.id # flight /\ flight' = flight
    BY <1>2, <2>1 DEF HookInv, WireFits
  <2>2. CASE s.id = flight /\ ~restart /\ flight' = 0
    <3>1. \A r \in wire' : r.id # flight /\ r.id # 0
      BY <1>2, <1>3, <2>2
    <3> QED
      BY <2>2, <3>1 DEF HookInv, WireFits
  <2> QED
    BY <2>1, <2>2
<1>6. VersionsOrdered'
  BY DEF HookInv, VersionsOrdered
<1>7. NothingForgottenHere'
  BY DEF HookInv, HookKeepsItsWord, NothingForgottenHere
<1>8. StatusIsTrue'
  <2>1. CASE s.id # flight /\ UNCHANGED <<flight, status>>
    BY <2>1 DEF HookInv, HookKeepsItsWord, StatusIsTrue
  <2>2. CASE s.id = flight /\ mounted
    <3>1. s.stored => store = sent
      BY <2>2 DEF HookInv, WireFits
    <3> QED
      BY <1>3, <2>2, <3>1 DEF StatusIsTrue
  <2>3. CASE ~mounted
    BY <2>3 DEF StatusIsTrue
  <2> QED
    BY <2>1, <2>2, <2>3
<1>9. PromiseHasSave'
  <2> SUFFICES ASSUME NEW a \in awaiting, a.on # s.id
               PROVE  \/ \E r \in wire' : a.on = r.id
                      \/ a.on = 0 /\ (mounted => restart /\ flight' # 0)
    BY DEF PromiseHasSave, Queue
  <2>1. CASE \E r \in wire : a.on = r.id
    BY <2>1
  <2>2. CASE a.on = 0 /\ (mounted => restart /\ flight # 0)
    BY <2>2
  <2> QED
    BY <2>1, <2>2 DEF HookInv, HookKeepsItsWord, PromiseHasSave, Queue
<1> QED
  BY <1>4, <1>5, <1>6, <1>7, <1>8, <1>9 DEF HookInv, HookKeepsItsWord

LEMMA SettleKeeps ==
  ASSUME HookInv, NEW s \in wire, NEW outcome \in Outcomes(s), Settle(s, outcome)
  PROVE  HookInv'
<1> DEFINE others == { a \in awaiting : a.on # s.id }
<1>1. /\ HookTypeOK /\ wire \subseteq Request /\ awaiting \subseteq Promise
      /\ ref <= edits /\ ref \in Nat /\ edits \in Nat
      /\ UNCHANGED <<mounted, enabled, payload, edits, events, ref, pending, store>>
  BY DEF HookInv, VersionsOrdered, HookTypeOK, Settle, pageVars, Request, Promise
<1>2. CASE s.id # flight
  <2>1. /\ wire' = wire \ {s} /\ awaiting' = others
        /\ UNCHANGED <<flight, restart, status, saves, sent, due>>
    BY <1>2 DEF Settle, StillActive
  <2> QED
    BY <1>1, <1>2, <2>1, RetiredKeeps
<1>3. CASE s.id = flight /\ restart
  <2>1. /\ restart' = FALSE /\ Launch(wire \ {s})
        /\ awaiting' = { IF a.on = Queue THEN [a EXCEPT !.on = saves'] ELSE a :
                           a \in others }
    BY <1>3 DEF Settle, StillActive, RestartDue
  <2>2. saves' = saves + 1 /\ saves \in Nat /\ saves + 1 \in Nat
    BY <1>1, <2>1 DEF Launch, HookTypeOK
  <2>3. \A r \in wire \ {s} : r.aborted
    BY <1>3 DEF HookInv, WireFits
  <2>4. ASSUME NEW b \in awaiting'
        PROVE  \/ b.on = saves + 1 /\ b \in [version: Nat, on: Nat] /\ b.version <= ref
               \/ b \in awaiting /\ \E r \in wire \ {s} : b.on = r.id
    <3>1. PICK a \in awaiting : /\ a.on # s.id
                                /\ b = IF a.on = 0 THEN [a EXCEPT !.on = saves + 1] ELSE a
      BY <2>1, <2>2 DEF Queue
    <3>2. a \in Promise /\ a.version <= ref
      BY <1>1 DEF HookInv, VersionsOrdered
    <3>3. CASE a.on = 0
      BY <2>2, <3>1, <3>2, <3>3 DEF Promise
    <3>4. CASE a.on # 0
      <4>1. PICK r \in wire : a.on = r.id
        BY <3>4 DEF HookInv, HookKeepsItsWord, PromiseHasSave, Queue
      <4> QED
        BY <3>1, <3>4, <4>1
    <3> QED
      BY <3>3, <3>4
  <2>5. /\ mounted' \in BOOLEAN /\ enabled' \in BOOLEAN /\ pending' \in BOOLEAN
        /\ mounted' => mounted
    BY <1>1 DEF HookTypeOK
  <2>6. /\ payload' \in Nat /\ ref' \in Nat /\ edits' \in Nat /\ events' \in Nat
        /\ ref <= ref' /\ ref' <= edits'
    BY <1>1 DEF HookTypeOK
  <2>7. wire \ {s} \in SUBSET wire /\ store' = store /\ ref' = ref
    BY <1>1
  <2> QED
    BY <2>1, <2>3, <2>4, <2>5, <2>6, <2>7, LaunchKeeps
<1>4. CASE s.id = flight /\ ~restart
  <2>1. /\ wire' = wire \ {s} /\ awaiting' = others /\ Report(outcome)
    BY <1>4 DEF Settle, StillActive, RestartDue
  <2>2. /\ flight' = 0 /\ UNCHANGED <<restart, saves, sent, due>>
        /\ status' = IF mounted THEN (IF outcome = "ok" THEN "saved" ELSE "error") ELSE status
    BY <1>1, <2>1 DEF Report, Show
  <2>3. outcome = "ok" => s.stored
    BY DEF Outcomes
  <2>4. status' \in {"idle", "saved", "error"} \/ (~mounted /\ status' = status)
    BY <2>2
  <2>5. mounted /\ status' = "saved" => s.stored
    <3>1. mounted /\ outcome # "ok" => status' # "saved"
      BY <2>2
    <3> QED
      BY <2>3, <3>1
  <2> QED
    BY <1>1, <1>4, <2>1, <2>2, <2>4, <2>5, RetiredKeeps
<1> QED
  BY <1>2, <1>3, <1>4

LEMMA SettleLockedKeeps ==
  ASSUME HookInv, NEW s \in wire, SettleLocked(s)
  PROVE  HookInv'
<1> DEFINE gone == {s.id}
<1>1. /\ HookTypeOK /\ wire \subseteq Request /\ s.id = flight
      /\ store <= sent /\ sent <= ref /\ ref <= edits
      /\ ref \in Nat /\ edits \in Nat
  BY DEF HookInv, VersionsOrdered, HookTypeOK, SettleLocked, Request
<1>2. /\ enabled' = FALSE /\ wire' = wire \ {s} /\ Reset(gone)
      /\ UNCHANGED <<mounted, payload, edits, events, ref, store, sent, saves>>
  BY DEF SettleLocked
<1>3. /\ \A r \in wire' : r.aborted
      /\ \A q, r \in wire' : q.id = r.id => q = r
      /\ \A r \in wire' : \E q \in wire : q.id = r.id /\ q.value = r.value
      /\ \A r \in wire : r.id \in gone \/ \E q \in wire' : q.id = r.id
      /\ wire' \subseteq Request
  BY <1>1, <1>2 DEF HookInv, WireFits
<1>4. /\ mounted' \in BOOLEAN /\ enabled' \in BOOLEAN
      /\ mounted' => mounted
  BY <1>1, <1>2 DEF HookTypeOK
<1>5. /\ payload' \in Nat /\ ref' \in Nat /\ edits' \in Nat /\ store' \in Nat
      /\ sent' \in Nat /\ events' \in Nat
      /\ ref <= ref' /\ store' <= sent' /\ sent' <= ref' /\ ref' <= edits'
  BY <1>1, <1>2 DEF HookTypeOK
<1> HIDE DEF gone
<1> QED
  BY <1>2, <1>3, <1>4, <1>5, ResetKeeps

LEMMA HookStep == HookInv /\ [HookNext]_hookVars => HookInv'
<1> SUFFICES ASSUME HookInv, [HookNext]_hookVars PROVE HookInv'
  OBVIOUS
<1>1. CASE UNCHANGED hookVars
  BY <1>1 DEF HookInv, HookTypeOK, WireFits, VersionsOrdered, HookKeepsItsWord,
              NothingForgottenHere, StatusIsTrue, PromiseHasSave, hookVars, pageVars
<1>2. CASE TimerFires
  <2>1. mounted /\ mounted' = mounted /\ mounted' \in BOOLEAN
    BY <1>2 DEF TimerFires, pageVars, HookInv, HookTypeOK
  <2> QED
    BY <1>2, <2>1, RunSaveKeeps DEF TimerFires, pageVars
<1>3. CASE Unmount
  BY <1>3, UnmountKeeps
<1>4. CASE Select
  BY <1>4, SelectKeeps
<1> QED
  BY <1>1, <1>2, <1>3, <1>4, RenderKeeps, SaveNowKeeps, StoredKeeps, SettleKeeps,
     SettleLockedKeeps DEF HookNext

(***************************************************************************)
(* The theorems                                                            *)
(***************************************************************************)

\* The wire, the versions and the hook's schedule fit each other in every
\* reachable state.
THEOREM HookInvariant == HookSpec => []HookInv
<1>1. HookInit => HookInv
  BY Inits
<1> QED
  BY <1>1, HookStep, PTL DEF HookSpec

\* Nothing the hook was asked to save is forgotten, the status it shows is that of
\* the backend, and each of its promises has a save behind it
\* (useBackendAutosave.js).
THEOREM HookKeepsWord == HookSpec => []HookKeepsItsWord
<1>1. HookInv => HookKeepsItsWord
  BY DEF HookInv
<1> QED
  BY <1>1, HookInvariant, PTL

\* What the backend holds for a document never goes back to an older edit: one save
\* is out at a time, and it sends the newest payload (useBackendAutosave.js, runSave).
THEOREM NoWriteIsStale == HookSpec => NoStaleWrite
<1>1. HookInv /\ [HookNext]_hookVars => [store' >= store]_hookVars
  <2> SUFFICES ASSUME HookInv, HookNext PROVE store' >= store
    OBVIOUS
  <2>1. store \in Nat /\ store <= edits /\ edits \in Nat
    BY DEF HookInv, HookTypeOK, VersionsOrdered
  <2>2. store >= store
    BY <2>1
  <2>3. CASE Select
    BY <2>1, <2>3 DEF Select
  <2>4. ASSUME NEW s \in wire, Stored(s) PROVE store' >= store
    BY <2>4, StoredKeeps
  <2>5. CASE store' = store
    BY <2>2, <2>5
  <2> QED
    BY <2>3, <2>4, <2>5
    DEF HookNext, Render, TimerFires, SaveNow, Unmount, Settle, SettleLocked
<1> QED
  BY <1>1, HookInvariant, PTL DEF HookSpec, NoStaleWrite

\* A promise that is gone was on a save that left the wire, or on the queue while
\* the save in flight was discarded.
LEMMA DroppedPromise ==
  ASSUME HookInv, HookNext, NEW a \in awaiting, \A b \in awaiting' : b.version # a.version
  PROVE  \/ \E s \in wire : s.value >= a.version /\ \A r \in wire' : r.id # s.id
         \/ a.on = Queue /\ flight # 0 /\ flight' = 0
<1> DEFINE Goal == \/ \E s \in wire : s.value >= a.version /\ \A r \in wire' : r.id # s.id
                   \/ a.on = Queue /\ flight # 0 /\ flight' = 0
<1>1. /\ wire \subseteq Request /\ a \in Promise /\ saves \in Nat
      /\ \A r, s \in wire : r.id = s.id => r = s
  BY DEF HookInv, HookTypeOK, WireFits, Request, Promise
<1>2. a \notin awaiting'
  OBVIOUS
<1>3. a.on = Queue /\ mounted => flight # 0
  <2>1. \A s \in wire : s.id # 0
    BY <1>1 DEF Request
  <2> QED
    BY <2>1 DEF HookInv, HookKeepsItsWord, PromiseHasSave, Queue
<1>4. ASSUME NEW s \in wire, a.on = s.id, \A r \in wire' : r.id # s.id
      PROVE  Goal
  <2>1. a.version <= s.value /\ a.version \in Nat /\ s.value \in Nat
    BY <1>1, <1>4 DEF HookInv, VersionsOrdered, Request, Promise
  <2>2. s.value >= a.version
    BY <2>1
  <2> QED
    BY <1>4, <2>2
<1>5. ASSUME NEW s \in wire, wire' = wire \ {s} PROVE \A r \in wire' : r.id # s.id
  BY <1>1, <1>5
<1>6. ASSUME Select PROVE Goal
  BY <1>2, <1>3, <1>6 DEF Select, Reset, UserActs
<1>7. ASSUME NEW s \in wire, NEW outcome \in Outcomes(s), Settle(s, outcome)
      PROVE  Goal
  <2>1. CASE s.id # flight \/ ~restart
    <3>1. wire' = wire \ {s} /\ awaiting' = { b \in awaiting : b.on # s.id }
      BY <1>7, <2>1 DEF Settle, StillActive, RestartDue
    <3>2. a.on = s.id
      BY <1>2, <3>1
    <3> QED
      BY <1>4, <1>5, <3>1, <3>2
  <2>2. CASE s.id = flight /\ restart
    <3>1. /\ Launch(wire \ {s})
          /\ awaiting' = { IF b.on = Queue THEN [b EXCEPT !.on = saves'] ELSE b :
                             b \in { c \in awaiting : c.on # s.id } }
      BY <1>7, <2>2 DEF Settle, StillActive, RestartDue
    <3>2. a.on = s.id
      <4> SUFFICES ASSUME a.on # s.id PROVE FALSE
        OBVIOUS
      <4> DEFINE b == IF a.on = Queue THEN [a EXCEPT !.on = saves'] ELSE a
      <4>1. b.version = a.version
        BY <1>1 DEF Promise
      <4>2. b \in awaiting'
        BY <3>1
      <4> HIDE DEF b
      <4> QED
        BY <4>1, <4>2
    <3>3. \A r \in wire' : r.id # s.id
      <4>1. wire' = (wire \ {s}) \union
                      {[id |-> saves + 1, value |-> ref', aborted |-> FALSE, stored |-> FALSE]}
        BY <3>1 DEF Launch
      <4>2. s.id \in Nat /\ s.id <= saves
        BY <1>1 DEF Request
      <4> QED
        BY <1>1, <4>1, <4>2
    <3> QED
      BY <1>4, <3>2, <3>3
  <2> QED
    BY <2>1, <2>2
<1>8. ASSUME NEW s \in wire, SettleLocked(s) PROVE Goal
  <2>1. /\ wire' = wire \ {s} /\ flight' = 0 /\ s.id = flight
        /\ awaiting' = { b \in awaiting : b.on \notin {Queue} \union {s.id} }
    BY <1>8 DEF SettleLocked, Reset
  <2>2. flight # 0
    BY <1>1, <2>1 DEF Request
  <2>3. CASE a.on = s.id
    BY <1>4, <1>5, <2>1, <2>3
  <2>4. CASE a.on = Queue
    BY <2>1, <2>2, <2>4
  <2> QED
    BY <1>2, <2>1, <2>3, <2>4
<1>9. ASSUME awaiting \subseteq awaiting' PROVE Goal
  BY <1>2, <1>9
<1> HIDE DEF Goal
<1>10. ASSUME \/ \E edited, gate \in BOOLEAN : Render(edited, gate)
              \/ TimerFires
              \/ Unmount
              \/ \E s \in wire : Stored(s)
       PROVE  awaiting' = awaiting
  BY <1>10 DEF Render, TimerFires, Unmount, Stored
<1>11. ASSUME NEW override \in BOOLEAN, SaveNow(override)
       PROVE  awaiting \subseteq awaiting'
  BY <1>11 DEF SaveNow
<1>12. Goal
  BY <1>6, <1>7, <1>8, <1>9, <1>10, <1>11 DEF HookNext
<1> QED
  BY <1>12 DEF Goal

\* A saveNow promise is settled only when a save of its payload or of a later one
\* has settled, or when everything scheduled is discarded (useBackendAutosave.js,
\* launchSave's finally and reset).
THEOREM PromisesAreKept == HookSpec => PromiseKept
<1>1. HookInv /\ [HookNext]_hookVars =>
        [\A a \in awaiting :
           (\A b \in awaiting' : b.version # a.version)
             => \/ \E s \in wire : s.value >= a.version /\ \A r \in wire' : r.id # s.id
                \/ a.on = Queue /\ flight # 0 /\ flight' = 0]_hookVars
  BY DroppedPromise
<1> QED
  BY <1>1, HookInvariant, PTL DEF HookSpec, PromiseKept
=============================================================================
