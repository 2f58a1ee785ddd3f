-------------------------- MODULE PersistenceContract --------------------------
(***************************************************************************)
(* What the app-data API promises about its stored documents, with no SQL  *)
(* and no timestamps: every request takes effect in one step, or is        *)
(* refused with a reason that holds at that moment.                        *)
(*   - A replace (PUT) goes through only if nobody wrote the document      *)
(*     since the request looked at it.                                     *)
(*   - A locked document is touched by the lock route only, which changes  *)
(*     nothing but the lock.                                               *)
(*   - 404 is for an absent document, 409 for one that is there already or *)
(*     was written meanwhile, 423 for a locked one.  The one exception is  *)
(*     the archive (DELETE), which may also answer 404 when it lost a race.*)
(***************************************************************************)
CONSTANTS
  Clients, Docs,
  Contents,   \* what a document can say
  Hidden,     \* of which: what an archived document says
  Absent      \* the content of a document that does not exist

VARIABLES
  present,    \* the documents that exist
  locked,     \* the locked ones
  content,    \* what each document says
  busy,       \* the request each client has in flight, or Free
  touched,    \* clients whose document was written since they last looked at it
  reply       \* the last answer each client got

cvars == <<present, locked, content, busy, touched, reply>>

Free == [op |-> "none"]
Request == [op : {"create", "replace", "archive", "lock"}, doc : Docs]

Init ==
  /\ present = {} /\ locked = {} /\ touched = {}
  /\ content = [d \in Docs |-> Absent]
  /\ busy = [c \in Clients |-> Free]
  /\ reply = [c \in Clients |-> 0]

Answer(c, code) ==
  /\ busy' = [busy EXCEPT ![c] = Free]
  /\ reply' = [reply EXCEPT ![c] = code]

\* Everyone else with a request on d now works on a document that has moved.
Touch(c, d) ==
  touched' = touched \union { k \in Clients \ {c} : busy[k] # Free /\ busy[k].doc = d }

Ask(c, q) ==
  /\ busy[c] = Free
  /\ busy' = [busy EXCEPT ![c] = q]
  /\ touched' = touched \ {c}
  /\ reply' = [reply EXCEPT ![c] = 0]
  /\ UNCHANGED <<present, locked, content>>

Look(c) ==
  /\ busy[c] # Free /\ busy[c].op = "replace"
  /\ touched' = touched \ {c}
  /\ UNCHANGED <<present, locked, content, busy, reply>>

Create(c, v) ==
  /\ busy[c] # Free /\ busy[c].op = "create"
  /\ busy[c].doc \notin present
  /\ present' = present \union {busy[c].doc}
  /\ content' = [content EXCEPT ![busy[c].doc] = v]
  /\ Touch(c, busy[c].doc) /\ Answer(c, 201)
  /\ UNCHANGED locked

Replace(c, v) ==
  /\ busy[c] # Free /\ busy[c].op = "replace"
  /\ busy[c].doc \in present \ locked
  /\ c \notin touched
  /\ content' = [content EXCEPT ![busy[c].doc] = v]
  /\ Touch(c, busy[c].doc) /\ Answer(c, 200)
  /\ UNCHANGED <<present, locked>>

ArchiveDoc(c, v) ==
  /\ busy[c] # Free /\ busy[c].op = "archive"
  /\ busy[c].doc \in present \ locked
  /\ content' = [content EXCEPT ![busy[c].doc] = v]
  /\ Touch(c, busy[c].doc) /\ Answer(c, 204)
  /\ UNCHANGED <<present, locked>>

SetLock(c) ==
  /\ busy[c] # Free /\ busy[c].op = "lock"
  /\ busy[c].doc \in present
  /\ \/ locked' = locked \union {busy[c].doc}
     \/ locked' = locked \ {busy[c].doc}
  /\ Touch(c, busy[c].doc) /\ Answer(c, 200)
  /\ UNCHANGED <<present, content>>

Refused(c, code) ==
  LET d == busy[c].doc
      op == busy[c].op
  IN  \/ code = 404 /\ d \notin present
      \/ code = 404 /\ op = "archive" /\ c \in touched
      \/ code = 409 /\ op = "create" /\ d \in present
      \/ code = 409 /\ op = "replace" /\ c \in touched
      \/ code = 423 /\ op \in {"replace", "archive"} /\ d \in locked

Refuse(c, code) ==
  /\ busy[c] # Free
  /\ Refused(c, code)
  /\ Answer(c, code)
  /\ UNCHANGED <<present, locked, content, touched>>

\* The backend goes away: every request in flight is lost without an effect.
Lose ==
  /\ busy' = [c \in Clients |-> Free]
  /\ reply' = [c \in Clients |-> IF busy[c] = Free THEN reply[c] ELSE 0]
  /\ UNCHANGED <<present, locked, content, touched>>

Next ==
  \/ \E c \in Clients :
       \/ \E q \in Request : Ask(c, q)
       \/ Look(c)
       \/ \E v \in Contents : Create(c, v) \/ Replace(c, v)
       \/ \E v \in Hidden : ArchiveDoc(c, v)
       \/ SetLock(c)
       \/ \E code \in {404, 409, 423} : Refuse(c, code)
  \/ Lose

Spec == Init /\ [][Next]_cvars
===============================================================================
