--------------------------- MODULE PortfolioCache ---------------------------
(***************************************************************************)
(* The on-disk cache of portfolio results (core/cache.py) and the compute  *)
(* path over it (core/api/portfolio.py). A request is served by            *)
(* get_or_compute: SELECT, then UPDATE or DELETE, then on a miss compute   *)
(* and INSERT with eviction; every SQL statement is a step of its own,     *)
(* because the requests run in worker threads over one file. A composed    *)
(* portfolio computes its child through the same cache, so a request is a  *)
(* stack of calls.                                                         *)
(*                                                                         *)
(* A portfolio is its shape and the two fields that choose its warehouse;  *)
(* a result is what it was computed from: the meaning of the request, the  *)
(* COMPUTE_VERSION that ran, and when its oldest warehouse data was read.  *)
(***************************************************************************)
EXTENDS Integers, FiniteSets, Sequences, SequencesExt, FiniteSetsExt

CONSTANTS
  Clients,      \* concurrent requests
  Portfolios,   \* the bodies that may be asked for
  TTL,          \* the lifetime of an entry, in ticks
  MaxEntries,   \* the cap of the cache
  MaxRun,       \* the longest a request runs, in ticks
  MaxNow,       \* bound: the last tick
  MaxAsks,      \* bound: the requests made
  Versions,     \* the values of COMPUTE_VERSION, deployed in order
  None

ASSUME CacheAssumption ==
  /\ {TTL, MaxEntries, MaxRun, MaxNow, MaxAsks} \subseteq Nat
  /\ MaxEntries > 0
  /\ Versions \subseteq Nat /\ Versions # {}

VARIABLES
  table,    \* key -> row of the results table
  calls,    \* client -> its stack of calls, innermost last
  request,  \* client -> the request it makes, and when
  served,   \* the answer given by the last step, or None
  now, asks, version

vars == <<table, calls, request, served, now, asks, version>>

(***************************************************************************)
(* Requests, keys and meanings.                                            *)
(***************************************************************************)
Shapes == {"plain", "composed", "nested"}
Bodies == [shape: Shapes, leg: {None, "v1", "v2"}, body: {"v1", "v2"}]

ASSUME PortfoliosAssumption == Portfolios \subseteq Bodies

(* The warehouse a leg is read from. *)
EffectiveSource(p) == IF p.leg # None THEN p.leg ELSE p.body

(* What a result of p is a result of. *)
Meaning(p) == <<p.shape, EffectiveSource(p)>>

(* The body a composed portfolio computes for its leg. *)
ChildOf(p) == [p EXCEPT !.shape = "plain"]

(* The dump drops a leg's default source, and use_cache at every depth. *)
Dump(p) == [p EXCEPT !.leg = IF @ = "v1" THEN None ELSE @]

KeyUnsalted(p) == [version |-> Min(Versions), body |-> Dump(p)]                 \* a mutant
Key(p) == [version |-> version, body |-> Dump(p)]

Keys == [version: Versions, body: {Dump(p) : p \in Portfolios}
                                  \cup {Dump(ChildOf(p)) : p \in Portfolios}]
Results == [of: Shapes \X {"v1", "v2"}, ver: Versions, read: 0..MaxNow]
Row == [value: Results, created: 0..MaxNow, last: 0..MaxNow]

Phases == {"select", "touch", "expire", "compute", "child", "put", "done"}
Call == [of: Bodies, cached: BOOLEAN, phase: Phases, value: Results \cup {None}]
Requests == [of: Bodies, useCache: BOOLEAN, childCache: BOOLEAN,
             compute: BOOLEAN, at: 0..MaxNow]

ASSUME NoneAssumption ==
  None \notin Requests /\ None \notin Results /\ None \notin {"v1", "v2"}

Without(k) == [x \in DOMAIN table \ {k} |-> table[x]]
Expired(row) == now - row.created > TTL

Init ==
  /\ table = [k \in {} |-> None]
  /\ calls = [c \in Clients |-> <<>>]
  /\ request = [c \in Clients |-> None]
  /\ served = None
  /\ now = 0 /\ asks = 0 /\ version = Min(Versions)

(***************************************************************************)
(* One call of _compute_portfolio_cached.                                  *)
(***************************************************************************)
Top(c) == Last(calls[c])
At(c, phase) == calls[c] # <<>> /\ Top(c).phase = phase

(* The innermost call of c goes on in another phase with a value. *)
Goto(c, phase, value) ==
  /\ calls' = [calls EXCEPT ![c] =
                 Front(@) \o <<[Top(c) EXCEPT !.phase = phase, !.value = value]>>]
  /\ served' = None
  /\ UNCHANGED <<request, now, asks, version>>

(* use_cache = False neither reads nor writes the cache. *)
NewCall(p, useCache) ==
  [of |-> p, cached |-> useCache, value |-> None,
   phase |-> IF useCache THEN "select" ELSE "compute"]

(* A child body carries a use_cache of its own; the parent's overrides it. *)
ChildFlagOwn(parent, own) == own                                    \* a mutant
ChildFlag(parent, own) == parent

Asked(c, p, useCache, childCache, compute) ==
  /\ calls[c] = <<>> /\ asks < MaxAsks
  /\ request' = [request EXCEPT ![c] =
       [of |-> p, useCache |-> useCache, childCache |-> childCache,
        compute |-> compute, at |-> now]]
  /\ calls' = [calls EXCEPT ![c] = <<NewCall(p, useCache)>>]
  /\ asks' = asks + 1 /\ served' = None
  /\ UNCHANGED <<table, now, version>>

(* POST /compute. *)
Ask(c) ==
  \E p \in Portfolios, useCache \in BOOLEAN, childCache \in BOOLEAN :
    /\ p.shape = "plain" => childCache
    /\ Asked(c, p, useCache, childCache, TRUE)

(* POST /cache/get, which shows a stored result and never computes one. *)
Show(c) == \E p \in Portfolios : Asked(c, p, TRUE, TRUE, FALSE)

(* _get_sync: the SELECT, and what its row decides. *)
Select(c) ==
  /\ At(c, "select")
  /\ LET k == Key(Top(c).of)
     IN \/ k \notin DOMAIN table /\ Goto(c, "compute", None)
        \/ k \in DOMAIN table /\ Expired(table[k]) /\ Goto(c, "expire", None)
        \/ k \in DOMAIN table /\ ~Expired(table[k])
           /\ Goto(c, "touch", table[k].value)
  /\ UNCHANGED table

(* _get_sync: the UPDATE of last_access, which matches no row if it went. *)
Touch(c) ==
  /\ At(c, "touch")
  /\ Goto(c, "done", Top(c).value)
  /\ LET k == Key(Top(c).of)
     IN table' = IF k \in DOMAIN table THEN [table EXCEPT ![k].last = now] ELSE table

(* _get_sync: the DELETE by key, which takes whatever row is there now. *)
Expire(c) ==
  /\ At(c, "expire")
  /\ Goto(c, "compute", None)
  /\ table' = Without(Key(Top(c).of))

Result(p, source, read) == [of |-> <<p.shape, source>>, ver |-> version, read |-> read]
Computed(c, read) ==
  Goto(c, IF Top(c).cached THEN "put" ELSE "done",
       Result(Top(c).of, EffectiveSource(Top(c).of), read))

(* _compute_portfolio_uncached of a portfolio without portfolio legs. *)
Compute(c) ==
  /\ At(c, "compute") /\ Top(c).of.shape = "plain" /\ request[c].compute
  /\ Computed(c, now)
  /\ UNCHANGED table

(* _evaluate_portfolio_leg: the child is computed through the cache. *)
CallChild(c) ==
  /\ At(c, "compute") /\ Top(c).of.shape = "composed" /\ request[c].compute
  /\ calls' = [calls EXCEPT ![c] =
       Front(@) \o <<[Top(c) EXCEPT !.phase = "child"],
                     NewCall(ChildOf(Top(c).of),
                             ChildFlag(Top(c).cached, request[c].childCache))>>]
  /\ served' = None
  /\ UNCHANGED <<table, request, now, asks, version>>

(* The child's result, of whatever it is one, becomes the parent's leg. *)
ChildReturns(c) ==
  /\ At(c, "done") /\ Len(calls[c]) = 2
  /\ LET parent == calls[c][1]
     IN calls' = [calls EXCEPT ![c] =
          <<[parent EXCEPT
               !.phase = IF parent.cached THEN "put" ELSE "done",
               !.value = Result(parent.of, Top(c).value.of[2], Top(c).value.read)]>>]
  /\ served' = None
  /\ UNCHANGED <<table, request, now, asks, version>>

(* A portfolio of composed portfolios is refused, a compute may fail, and  *)
(* a show that misses has nothing: the whole request ends, and nothing of  *)
(* it is stored.                                                           *)
Fail(c) ==
  /\ At(c, "compute")
  /\ calls' = [calls EXCEPT ![c] = <<>>]
  /\ request' = [request EXCEPT ![c] = None]
  /\ served' = None
  /\ UNCHANGED <<table, now, asks, version>>

(* The rows an INSERT may leave: one too many drops the least recent.      *)
(* Rows of one time stamp leave in any order.                              *)
Evicted(t) ==
  IF Cardinality(DOMAIN t) <= MaxEntries THEN {t}
  ELSE {[x \in DOMAIN t \ {k} |-> t[x]] :
          k \in {k \in DOMAIN t : \A x \in DOMAIN t : t[k].last <= t[x].last}}

(* _put_sync: INSERT OR REPLACE, COUNT and DELETE in one transaction. *)
Put(c) ==
  /\ At(c, "put")
  /\ Goto(c, "done", Top(c).value)
  /\ LET k == Key(Top(c).of)
         row == [value |-> Top(c).value, created |-> now, last |-> now]
     IN table' \in Evicted([x \in DOMAIN table \cup {k} |->
                              IF x = k THEN row ELSE table[x]])

(* The answer goes out. *)
Serve(c) ==
  /\ At(c, "done") /\ Len(calls[c]) = 1
  /\ served' = [client |-> c, request |-> request[c], value |-> Top(c).value]
  /\ calls' = [calls EXCEPT ![c] = <<>>]
  /\ request' = [request EXCEPT ![c] = None]
  /\ UNCHANGED <<table, now, asks, version>>

(***************************************************************************)
(* The rest of the system.                                                 *)
(***************************************************************************)

(* POST /cache/clear. *)
Clear ==
  /\ DOMAIN table # {}
  /\ table' = [k \in {} |-> None] /\ served' = None
  /\ UNCHANGED <<calls, request, now, asks, version>>

(* The backend stops and a release starts: the file stays. *)
Restart ==
  /\ \E v \in Versions : v > version /\ version' = v
  /\ calls' = [c \in Clients |-> <<>>]
  /\ request' = [c \in Clients |-> None]
  /\ served' = None
  /\ UNCHANGED <<table, now, asks>>

Tick ==
  /\ now < MaxNow
  /\ \A c \in Clients : request[c] # None => now - request[c].at < MaxRun
  /\ now' = now + 1 /\ served' = None
  /\ UNCHANGED <<table, calls, request, asks, version>>

(* The steps of a request that the backend runs. *)
Step(c) ==
  \/ Select(c) \/ Touch(c) \/ Expire(c) \/ Compute(c) \/ CallChild(c)
  \/ ChildReturns(c) \/ Fail(c) \/ Put(c) \/ Serve(c)

Next ==
  \/ \E c \in Clients : Ask(c) \/ Show(c) \/ Step(c)
  \/ Clear \/ Restart \/ Tick

(* The event loop and its worker threads run every request on. *)
Spec == Init /\ [][Next]_vars /\ \A c \in Clients : WF_vars(Step(c))

(***************************************************************************)
(* Properties.                                                             *)
(***************************************************************************)

(* A request with use_cache = False is computed from data read during it,  *)
(* its child's included, whatever the child's own flag says                *)
(* (_compute_portfolio_cached, _child_request).                            *)
FreshWhenBypassed ==
  served # None /\ ~served.request.useCache
    => served.value.read >= served.request.at

(* No answer is older than the lifetime allows. It allows twice the TTL: a *)
(* composed result is stored anew over a child that may itself have come   *)
(* from the cache at the end of its life. Each of the three computes that  *)
(* may lie between adds the time a request runs.                           *)
StalenessBounded ==
  served # None => now - served.value.read <= 2 * TTL + 3 * MaxRun

(* What is served is as fresh as was asked for.                            *)
ServedIsFresh == FreshWhenBypassed /\ StalenessBounded

(* The body that differs from p in its leg's source alone, where that is   *)
(* unset in one and v1 in the other. Under a default of v2 the two read    *)
(* different warehouses, and share a dump.                                 *)
Like(p) == [p EXCEPT !.leg = IF @ = "v1" THEN None ELSE "v1"]
ToldApart(p) ==
  p.body = "v2" /\ p.leg # "v2" =>
    \A q \in Portfolios : [q EXCEPT !.shape = p.shape] # Like(p)

(* An answer is a result of what was asked, by the code that now runs      *)
(* (_portfolio_cache_key): no older release's, no portfolio's of another   *)
(* shape; and no other warehouse's, unless that body is also in use which  *)
(* the dump does not tell from the one asked for.                          *)
ServedMatchesRequest ==
  served # None =>
    /\ served.value.ver = version
    /\ served.value.of[1] = served.request.of.shape
    /\ ToldApart(served.request.of) => served.value.of = Meaning(served.request.of)

(***************************************************************************)
(* What the invariants above rest on.                                      *)
(***************************************************************************)
TypeOK ==
  /\ DOMAIN table \subseteq [version: Versions, body: Bodies]
  /\ table \in [DOMAIN table -> Row]
  /\ calls \in [Clients -> Seq(Call)]
  /\ request \in [Clients -> Requests \cup {None}]
  /\ now \in 0..MaxNow /\ asks \in 0..MaxAsks /\ version \in Versions

(* The bodies a request may compute, its own and its child's. *)
Computable == Portfolios \cup {ChildOf(p) : p \in Portfolios}

(* A client's stack is its request, and below it the child it waits for.   *)
StackFits(c) ==
  LET s == calls[c]
      r == request[c]
  IN /\ r = None <=> s = <<>>
     /\ s # <<>> =>
          /\ r.at <= now /\ now - r.at <= MaxRun
          /\ s[1].of = r.of /\ s[1].cached = r.useCache
          /\ s[Len(s)].phase # "child"
     /\ Len(s) = 2 =>
          /\ s[1].phase = "child" /\ s[1].of.shape = "composed"
          /\ s[2].of = ChildOf(s[1].of) /\ s[2].cached = s[1].cached
     /\ Len(s) <= 2

(* Only a call that uses the cache is at one of its statements, and a call *)
(* past the computation has its value.                                     *)
CallFits(k) ==
  /\ k.phase \in {"select", "touch", "expire", "put"} => k.cached
  /\ k.phase \in {"touch", "put", "done"} => k.value # None

(* How much older than its row a stored result may be.                     *)
AgeOf(shape) == IF shape = "plain" THEN MaxRun ELSE TTL + 2 * MaxRun

RowsAreYoung ==
  \A k \in DOMAIN table :
    /\ table[k].created <= now
    /\ table[k].created - table[k].value.read <= AgeOf(k.body.shape)

(* How much older than the request the value of one of its calls may be.   *)
CallIsYoung(k, at) ==
  /\ k.phase = "put" => at - k.value.read <= AgeOf(k.of.shape) - MaxRun
  /\ k.phase \in {"touch", "done"} => at - k.value.read <= TTL + AgeOf(k.of.shape)
  /\ k.phase = "done" /\ ~k.cached => at <= k.value.read

CacheInv ==
  /\ TypeOK /\ RowsAreYoung
  /\ \A c \in Clients :
       /\ StackFits(c)
       /\ calls[c] # <<>> => CallFits(Last(calls[c]))
                             /\ CallIsYoung(Last(calls[c]), request[c].at)
  /\ ServedIsFresh

(* What is stored under a key, or held by a call, is a result of its body, *)
(* or of the one with its dump.                                            *)
IsOf(value, p) ==
  value.of[1] = p.shape /\ (ToldApart(p) => value.of = Meaning(p))

RowsAreOwn ==
  \A k \in DOMAIN table :
    /\ table[k].value.ver = k.version
    /\ \A p \in Computable : k.body = Dump(p) => IsOf(table[k].value, p)

CallIsOwn(k) ==
  k.phase \in {"touch", "put", "done"} =>
    IsOf(k.value, k.of) /\ k.value.ver = version

OwnValues ==
  /\ RowsAreOwn
  /\ \A c \in Clients : calls[c] # <<>> =>
       request[c].of \in Portfolios /\ CallIsOwn(Last(calls[c]))
  /\ ServedMatchesRequest
=============================================================================
