----------------------------- MODULE AppDataStore -----------------------------
(***************************************************************************)
(* The app-data documents (indicators, signals, portfolios, baskets) and   *)
(* the API handlers that write them: tcg/persistence/repository.py under   *)
(* tcg/core/api/persistence.py.  The connection runs in autocommit, so a   *)
(* request is a sequence of SQL statements each atomic on its own, and the *)
(* statements of different requests interleave.                            *)
(*                                                                         *)
(*   POST    stamp; INSERT                                                 *)
(*   PUT     SELECT; stamp; UPDATE .. WHERE; [SELECT locked; [SELECT 1]]   *)
(*   DELETE  stamp; UPDATE .. WHERE; [SELECT locked]                       *)
(*   LOCK    stamp; UPDATE                                                 *)
(*                                                                         *)
(* The stamp is _utcnow(), taken before the statement that writes it, so   *)
(* stamps may reach the row out of order; two calls never return the same  *)
(* microsecond here.                                                       *)
(***************************************************************************)
EXTENDS Naturals

CONSTANTS
  Clients,      \* concurrent requests
  Docs,         \* document ids
  Texts,        \* what a document can say (name, definition, legs, ...)
  Categories,   \* the user-facing categories
  None,         \* the category of an active indicator, and "nothing yet"
  MaxClock      \* bound on the number of stamps taken

ASSUME CategoriesAssumption == None \notin Categories /\ "DELETED" \notin Categories \union {None}

ASSUME ClockAssumption == MaxClock \in Nat

ASSUME NonEmptyAssumption == Docs # {} /\ Texts # {}

Kinds == {"indicator", "signal", "basket"}   \* portfolios are stored as signals are
Ops == {"POST", "PUT", "DELETE", "LOCK"}

VARIABLES
  kind,         \* the kind of each document
  present,      \* the documents that have a row
  row,          \* the table rows
  clock,        \* stamps taken so far
  pc,           \* the next statement of each client's request
  req,          \* the request itself
  seen,         \* PUT: the row its SELECT returned
  stamp,        \* the stamp taken for the write
  reply,        \* the status code of the last answer
  touched       \* clients whose document was written since their SELECT or start

local == <<req, seen, stamp>>
vars == <<kind, present, row, clock, pc, local, reply, touched>>

Lockable(d) == kind[d] # "basket"

-----------------------------------------------------------------------------
(* Rows: the projection columns beside the payload.                        *)

Bodies == [text : Texts, category : Categories \union {None}, deleted : BOOLEAN]

\* The content a client can send for a document of its kind.
BodyOf(d, b) ==
  IF kind[d] = "indicator" THEN b.category = None
                           ELSE b.category \in Categories /\ ~b.deleted

CategoryProjection(d, b) ==
  IF kind[d] = "indicator" THEN (IF b.deleted THEN "DELETED" ELSE None)
                           ELSE b.category

\* to_pg_row: the columns are derived from the document, the payload keeps it.
ToRow(d, b, lk, s) ==
  [ category |-> CategoryProjection(d, b), locked |-> lk,
    payload  |-> [body |-> b, locked |-> lk], stamp |-> s ]

Rows == [ category : Categories \union {None, "DELETED"}, locked : BOOLEAN,
          payload : [body : Bodies, locked : BOOLEAN], stamp : 0 .. MaxClock ]

NoBody == [text |-> CHOOSE x \in Texts : TRUE, category |-> None, deleted |-> FALSE]
NoRow == [ category |-> None, locked |-> FALSE,
           payload |-> [body |-> NoBody, locked |-> FALSE], stamp |-> 0 ]
NoReq == [op |-> "POST", doc |-> CHOOSE d \in Docs : TRUE, body |-> NoBody, lock |-> FALSE]

Requests == [op : Ops, doc : Docs, body : Bodies, lock : BOOLEAN]

\* list_by_type and list_by_type_and_category: what a list query returns.
Listed(category) ==
  { d \in present : row[d].category = category }

-----------------------------------------------------------------------------
Init ==
  /\ kind \in [Docs -> Kinds]
  /\ present = {}
  /\ row = [d \in Docs |-> NoRow]
  /\ clock = 0
  /\ pc = [c \in Clients |-> "idle"]
  /\ req = [c \in Clients |-> NoReq]
  /\ seen = [c \in Clients |-> NoRow]
  /\ stamp = [c \in Clients |-> 0]
  /\ reply = [c \in Clients |-> 0]
  /\ touched = {}

\* The handler returns or raises: its locals are gone.
Answer(c, code) ==
  /\ pc' = [pc EXCEPT ![c] = "idle"]
  /\ reply' = [reply EXCEPT ![c] = code]
  /\ req' = [req EXCEPT ![c] = NoReq]
  /\ seen' = [seen EXCEPT ![c] = NoRow]
  /\ stamp' = [stamp EXCEPT ![c] = 0]

Goto(c, where) ==
  /\ pc' = [pc EXCEPT ![c] = where]
  /\ UNCHANGED reply

\* The statement of client c writes the row of its document.
Write(c, r) ==
  /\ row' = [row EXCEPT ![req[c].doc] = r]
  /\ present' = present \union {req[c].doc}
  /\ touched' = touched \union
       { k \in Clients \ {c} : pc[k] # "idle" /\ req[k].doc = req[c].doc }

NoWrite == UNCHANGED <<row, present, touched>>

\* A request arrives.  Only lockable kinds have a lock route.
Begin(c, q) ==
  /\ pc[c] = "idle"
  /\ IF q.op \in {"POST", "PUT"} THEN BodyOf(q.doc, q.body) ELSE q.body = NoBody
  /\ IF q.op = "LOCK" THEN Lockable(q.doc) ELSE ~q.lock
  /\ req' = [req EXCEPT ![c] = q]
  /\ touched' = touched \ {c}
  /\ pc' = [pc EXCEPT ![c] = IF q.op = "PUT" THEN "get" ELSE "stamp"]
  /\ reply' = [reply EXCEPT ![c] = 0]
  /\ UNCHANGED <<kind, present, row, clock, seen, stamp>>

\* get_by_id, which does not look at the category: an archived row is found.
Get(c) ==
  /\ pc[c] = "get"
  /\ IF req[c].doc \in present
       THEN /\ seen' = [seen EXCEPT ![c] = row[req[c].doc]]
            /\ touched' = touched \ {c}
            /\ Goto(c, "stamp") /\ UNCHANGED <<req, stamp>>
       ELSE Answer(c, 404) /\ UNCHANGED touched
  /\ UNCHANGED <<kind, present, row, clock>>

\* _utcnow(), before the writing statement is sent.
Stamp(c) ==
  /\ pc[c] = "stamp"
  /\ clock < MaxClock
  /\ clock' = clock + 1
  /\ stamp' = [stamp EXCEPT ![c] = clock + 1]
  /\ Goto(c, "write")
  /\ UNCHANGED <<kind, present, row, req, seen, touched>>

InsertUpserts(c) ==       \* mutant: INSERT .. ON CONFLICT DO UPDATE
  /\ pc[c] = "write" /\ req[c].op = "POST"
  /\ Answer(c, 201)
  /\ Write(c, ToRow(req[c].doc, req[c].body, FALSE, stamp[c]))
  /\ UNCHANGED <<kind, clock>>

\* create: INSERT, refused by the primary key.
Insert(c) ==
  /\ pc[c] = "write" /\ req[c].op = "POST"
  /\ IF req[c].doc \in present
       THEN Answer(c, 409) /\ NoWrite
       ELSE /\ Answer(c, 201)
            /\ Write(c, ToRow(req[c].doc, [req[c].body EXCEPT !.deleted = FALSE],
                              FALSE, stamp[c]))
  /\ UNCHANGED <<kind, clock>>

Unlocked(d) == Lockable(d) => ~row[d].locked

UpdateMatchesAnyStamp(c) ==   \* mutant: no check-and-set
  req[c].doc \in present /\ Unlocked(req[c].doc)

\* update: the WHERE clause holds the lock guard and the check-and-set on
\* updated_at; the lock flag written back is the one the SELECT returned.
UpdateMatches(c) ==
  /\ req[c].doc \in present
  /\ Unlocked(req[c].doc)
  /\ row[req[c].doc].stamp = seen[c].stamp

Update(c) ==
  /\ pc[c] = "write" /\ req[c].op = "PUT"
  /\ IF UpdateMatches(c)
       THEN /\ Answer(c, 200)
            /\ Write(c, ToRow(req[c].doc, req[c].body, seen[c].payload.locked, stamp[c]))
       ELSE Goto(c, "whylocked") /\ UNCHANGED local /\ NoWrite
  /\ UNCHANGED <<kind, clock>>

ArchivedRowColumnOnly(d, s) ==   \* mutant: the payload is not told
  [row[d] EXCEPT !.category = "DELETED", !.stamp = s]

\* The column becomes DELETED, and an indicator's payload says so too.
ArchivedRow(d, s) ==
  [row[d] EXCEPT !.category = "DELETED",
                 !.payload.body.deleted = @ \/ kind[d] = "indicator",
                 !.stamp = s]

ArchiveUnguarded(c) ==    \* mutant: the lock guard is not in the WHERE clause
  /\ pc[c] = "write" /\ req[c].op = "DELETE"
  /\ LET d == req[c].doc
     IN  IF d \in present
           THEN /\ Answer(c, 204)
                /\ Write(c, ArchivedRow(d, stamp[c]))
           ELSE Goto(c, "whylocked") /\ UNCHANGED local /\ NoWrite
  /\ UNCHANGED <<kind, clock>>

\* archive: the lock guard is in the WHERE clause.
Archive(c) ==
  /\ pc[c] = "write" /\ req[c].op = "DELETE"
  /\ LET d == req[c].doc
     IN  IF d \in present /\ Unlocked(d)
           THEN /\ Answer(c, 204)
                /\ Write(c, ArchivedRow(d, stamp[c]))
           ELSE Goto(c, "whylocked") /\ UNCHANGED local /\ NoWrite
  /\ UNCHANGED <<kind, clock>>

\* Column and payload change together.
LockedRow(d, lk, s) ==
  [row[d] EXCEPT !.locked = lk, !.payload.locked = lk, !.stamp = s]

\* set_locked: no guard.
SetLocked(c) ==
  /\ pc[c] = "write" /\ req[c].op = "LOCK"
  /\ LET d == req[c].doc
     IN  IF d \in present
           THEN /\ Answer(c, 200)
                /\ Write(c, LockedRow(d, req[c].lock, stamp[c]))
           ELSE Answer(c, 404) /\ NoWrite
  /\ UNCHANGED <<kind, clock>>

\* _raise_if_locked, after an UPDATE that matched no row.
WhyLocked(c) ==
  /\ pc[c] = "whylocked"
  /\ LET d == req[c].doc
     IN  CASE d \in present /\ ~Unlocked(d) -> Answer(c, 423)
           [] ~(d \in present /\ ~Unlocked(d)) /\ req[c].op = "DELETE" -> Answer(c, 404)
           [] OTHER -> Goto(c, "whygone") /\ UNCHANGED local
  /\ UNCHANGED <<kind, clock>> /\ NoWrite

\* _row_exists, which tells a lost race (409) from a missing document (404).
WhyGone(c) ==
  /\ pc[c] = "whygone"
  /\ Answer(c, IF req[c].doc \in present THEN 409 ELSE 404)
  /\ UNCHANGED <<kind, clock>> /\ NoWrite

\* The backend process is restarted: every request in flight is lost between
\* two statements.  0 is "no answer".
Restart ==
  /\ \E c \in Clients : pc[c] # "idle"
  /\ pc' = [c \in Clients |-> "idle"]
  /\ reply' = [c \in Clients |-> IF pc[c] = "idle" THEN reply[c] ELSE 0]
  /\ req' = [c \in Clients |-> NoReq]
  /\ seen' = [c \in Clients |-> NoRow]
  /\ stamp' = [c \in Clients |-> 0]
  /\ UNCHANGED <<kind, clock>> /\ NoWrite

Next ==
  \/ \E c \in Clients : \/ \E q \in Requests : Begin(c, q)
                        \/ Get(c) \/ Stamp(c)
                        \/ Insert(c) \/ Update(c) \/ Archive(c) \/ SetLocked(c)
                        \/ WhyLocked(c) \/ WhyGone(c)
  \/ Restart

Spec == Init /\ [][Next]_vars
-----------------------------------------------------------------------------
(* Properties                                                              *)

PCs == {"idle", "get", "stamp", "write", "whylocked", "whygone"}

\* Types of the table, the requests and their locals.
TypeOK ==
  /\ kind \in [Docs -> Kinds]
  /\ present \subseteq Docs
  /\ row \in [Docs -> Rows]
  /\ clock \in 0 .. MaxClock
  /\ pc \in [Clients -> PCs]
  /\ req \in [Clients -> Requests]
  /\ seen \in [Clients -> Rows]
  /\ stamp \in [Clients -> 0 .. MaxClock]
  /\ reply \in [Clients -> {0, 200, 201, 204, 404, 409, 423}]
  /\ touched \subseteq Clients

\* The projection columns, which the list queries and the lock guard filter on,
\* never disagree with the payload the document is rebuilt from: same lock,
\* an indicator is filed as deleted exactly when its payload says so, anything
\* else is filed under the category it shows unless it is archived.
ProjectionsAgree ==
  \A d \in present :
    /\ row[d].locked = row[d].payload.locked
    /\ row[d].locked => Lockable(d)
    /\ IF kind[d] = "indicator"
         THEN row[d].category = CategoryProjection(d, row[d].payload.body)
         ELSE row[d].category \in {row[d].payload.body.category, "DELETED"}

\* A PUT that succeeds replaces exactly the row its handler read: whatever was
\* written in between makes it fail, so no other writer's change is lost and
\* the lock flag it writes back is the current one.
PutReplacesWhatItRead ==
  [][\A c \in Clients :
       pc[c] = "write" /\ req[c].op = "PUT" /\ pc'[c] = "idle" /\ reply'[c] = 200
         => row[req[c].doc] = seen[c]]_vars

\* The lock of a document is owned by the lock route: whatever the order of the
\* statements of the other requests, none of them changes it.
OnlyLockRouteLocks ==
  [][\A d \in present :
       row'[d].locked # row[d].locked =>
         \E c \in Clients : /\ pc[c] = "write" /\ pc'[c] = "idle"
                            /\ req[c].op = "LOCK" /\ req[c].doc = d
                            /\ req[c].lock = row'[d].locked]_vars

\* The store implements the contract: a document's content is its category
\* column and the payload without the lock.
Saying(d) == <<row[d].category, row[d].payload.body>>

Asked(c) ==
  IF pc[c] = "idle" THEN [op |-> "none"]
  ELSE [ op  |-> CASE req[c].op = "POST" -> "create"
                   [] req[c].op = "PUT" -> "replace"
                   [] req[c].op = "DELETE" -> "archive"
                   [] req[c].op = "LOCK" -> "lock",
         doc |-> req[c].doc ]

Contract == INSTANCE PersistenceContract WITH
  Contents <- (Categories \union {None, "DELETED"}) \X Bodies,
  Hidden <- {"DELETED"} \X Bodies,
  Absent <- <<None, NoBody>>,
  locked <- { d \in present : row[d].locked },
  content <- [d \in Docs |-> Saying(d)],
  busy <- [c \in Clients |-> Asked(c)]

\* Every request takes effect at one moment or is refused with a true reason.
ImplementsContract == Contract!Spec

-----------------------------------------------------------------------------
(* What the invariants above rest on                                       *)

\* No stamp is ahead of the clock, and one that is yet to be written is no
\* other request's, no row's, and on no row anybody read.
FreshStamps ==
  /\ \A d \in Docs : row[d].stamp <= clock
  /\ \A c \in Clients :
       /\ seen[c].stamp <= clock /\ stamp[c] <= clock
       /\ pc[c] = "write" => stamp[c] # 0
       /\ stamp[c] # 0 =>
            /\ \A k \in Clients \ {c} : stamp[k] # stamp[c]
            /\ \A k \in Clients : seen[k].stamp # stamp[c]
            /\ \A d \in Docs : row[d].stamp # stamp[c]

\* After its SELECT a PUT holds the row as it is, unless the document was
\* written since, and then its check-and-set cannot match.
SeenOrTouched ==
  \A c \in Clients :
    req[c].op = "PUT" /\ pc[c] \notin {"idle", "get"} =>
      /\ req[c].doc \in present
      /\ IF c \in touched THEN row[req[c].doc].stamp # seen[c].stamp
                          ELSE row[req[c].doc] = seen[c]

\* What sent a request down the path of a refusal: the lock is on, the row is
\* missing, or the document was written since.
RefusalGrounds ==
  \A c \in Clients :
    /\ pc[c] \in {"get", "whygone"} => req[c].op = "PUT"
    /\ pc[c] = "whylocked" =>
         /\ req[c].op \in {"PUT", "DELETE"}
         /\ \/ req[c].doc \notin present
            \/ ~Unlocked(req[c].doc)
            \/ c \in touched
    /\ pc[c] = "whygone" => c \in touched
    /\ req[c].op = "LOCK" => Lockable(req[c].doc)

StoreInv ==
  TypeOK /\ ProjectionsAgree /\ FreshStamps /\ SeenOrTouched /\ RefusalGrounds
=============================================================================
