---------------------------- MODULE Idempotency ----------------------------
(***************************************************************************)
(* The Idempotency-Key middleware (backend/core/middleware/idempotency.py) *)
(* seen from one slot (key, user_id) of the idempotency_keys table: the    *)
(* requests that carry the key, the worker processes whose event loops run *)
(* the middleware, the handlers behind it and the hourly pruner.           *)
(*                                                                         *)
(* A request is the member of Req that stands for one HTTP attempt; a      *)
(* retry is another member with the same hash.  A claim stamps the row     *)
(* with created_at, request_hash and auth_fingerprint in one statement, so *)
(* the row keeps the claiming request as its stamp; two claims never share *)
(* a created_at (microseconds), and each request claims at most once.      *)
(*                                                                         *)
(* Definitions whose name ends in "Fault" are bugs this code could have    *)
(* had; no action uses them.  They show that the properties can fail.      *)
(***************************************************************************)
EXTENDS Naturals, FiniteSets

CONSTANTS
    Req,            \* HTTP attempts that carry the key
    NoReq,          \* no request
    Hash,           \* values of request_hash
    Fp,             \* values of the authorization fingerprint
    DryRun,         \* subset of BOOLEAN: may a request carry X-Dry-Run
    Worker,         \* uvicorn worker processes
    Watchdog,       \* _PENDING_WATCHDOG_SECONDS, in clock ticks
    TTL,            \* _TTL_HOURS, in the same ticks
    HandlerBound,   \* ticks within which a claimed request is settled
    DbErrors        \* may a statement of the middleware raise

ASSUME IdempotencyAssumption ==
    /\ NoReq \notin Req
    /\ DryRun \subseteq BOOLEAN
    /\ Watchdog \in Nat /\ TTL \in Nat /\ HandlerBound \in Nat
    /\ Watchdog < TTL
    /\ DbErrors \in BOOLEAN

VARIABLES
    req,        \* what each attempt carries, and the worker that accepts it
    pc,         \* where its coroutine is
    seen,       \* created_at it observed before a reclaim
    age,        \* ticks since its claim, capped at TTL + 1, while they matter
    row,        \* the table's row for the slot
    answer,     \* the response it got
    source,     \* the attempt whose stored response a replay returned
    executed    \* attempts whose handler committed its side effect

vars == <<req, pc, seen, age, row, answer, source, executed>>

RequestData == [worker : Worker, hash : Hash, fp : Fp, dry : DryRun]

RowState == {"absent", "pending", "complete", "uncacheable"}

Row == [state : RowState, stamp : Req \cup {NoReq}, resp : Req \cup {NoReq}]

Absent == [state |-> "absent", stamp |-> NoReq, resp |-> NoReq]

(* A coroutine that owns the key is between its claim and its last write.  *)
Owning == {"handling", "committed", "ok", "uncacheable", "failed"}

(* Between its lookup and the outcome of its claim a coroutine never       *)
(* awaits: it holds the event loop of its worker.                          *)
Holding == {"claiming", "reclaiming", "lost"}

PC == {"new", "answered", "gone"} \cup Owning \cup Holding

Answer == {"none", "ok", "ok_uncacheable", "replay", "conflict", "in_progress",
           "authz_changed", "uncacheable", "error", "internal_error"}

Owners == {r \in Req : pc[r] \in Owning}

LoopFree(w) == \A q \in Req : req[q].worker = w => pc[q] \notin Holding

TypeOK ==
    /\ req \in [Req -> RequestData]
    /\ pc \in [Req -> PC]
    /\ seen \in [Req -> Req \cup {NoReq}]
    /\ age \in [Req -> 0 .. TTL + 1]
    /\ row \in Row
    /\ answer \in [Req -> Answer]
    /\ source \in [Req -> Req \cup {NoReq}]
    /\ executed \subseteq Req

Init ==
    /\ req \in [Req -> RequestData]
    /\ pc = [r \in Req |-> "new"]
    /\ seen = [r \in Req |-> NoReq]
    /\ age = [r \in Req |-> 0]
    /\ row = Absent
    /\ answer = [r \in Req |-> "none"]
    /\ source = [r \in Req |-> NoReq]
    /\ executed = {}

-----------------------------------------------------------------------------
(* _lookup_row: the classification of the slot for a request.              *)

SameHashFault(r) == TRUE     \* hash pinning forgotten
SameHash(r) == req[row.stamp].hash = req[r].hash

Miss == row.state = "absent"
StuckFault == row.state = "pending" /\ age[row.stamp] >= Watchdog
Stuck == row.state = "pending" /\ age[row.stamp] > Watchdog
InFlight(r) == row.state = "pending" /\ ~Stuck /\ SameHash(r)
ExpiredFault(r) == row.state = "complete" /\ SameHash(r) /\ age[row.stamp] >= TTL
Expired(r) == row.state = "complete" /\ SameHash(r) /\ age[row.stamp] > TTL
Hit(r) == row.state = "complete" /\ SameHash(r) /\ age[row.stamp] <= TTL
Conflict(r) ==
    /\ row.state \in {"pending", "complete"}
    /\ ~Stuck
    /\ ~SameHash(r)
Uncacheable == row.state = "uncacheable"

SameFp(r) == req[row.stamp].fp = req[r].fp

(***************************************************************************)
(* Steps of the coroutine of request r                                     *)
(***************************************************************************)
Respond(r, a) ==
    /\ pc' = [pc EXCEPT ![r] = "answered"]
    /\ answer' = [answer EXCEPT ![r] = a]

(* Replay of the stored response.                                          *)
Replay(r) ==
    /\ Respond(r, "replay")
    /\ source' = [source EXCEPT ![r] = row.resp]

(* First classification, on a free event loop: to claim, to reclaim, a     *)
(* replay, or a 409.  A dry run is looked up like any other request:       *)
(* X-Dry-Run is not part of the request hash.                              *)
AtLookup(r) == pc[r] = "new" /\ LoopFree(req[r].worker)

LookupMiss(r) ==
    /\ AtLookup(r) /\ Miss
    /\ pc' = [pc EXCEPT ![r] = "claiming"]
    /\ UNCHANGED <<req, seen, age, row, answer, source, executed>>

LookupStale(r) ==
    /\ AtLookup(r) /\ (Stuck \/ Expired(r))
    /\ pc' = [pc EXCEPT ![r] = "reclaiming"]
    /\ seen' = [seen EXCEPT ![r] = row.stamp]
    /\ UNCHANGED <<req, age, row, answer, source, executed>>

LookupHit(r) ==
    /\ AtLookup(r) /\ Hit(r) /\ SameFp(r)
    /\ Replay(r)
    /\ UNCHANGED <<req, seen, age, row, executed>>

LookupRefused(r) ==
    /\ AtLookup(r)
    /\ \/ Hit(r) /\ ~SameFp(r) /\ Respond(r, "authz_changed")
       \/ Conflict(r) /\ Respond(r, "conflict")
       \/ InFlight(r) /\ Respond(r, "in_progress")
       \/ Uncacheable /\ Respond(r, "uncacheable")
    /\ UNCHANGED <<req, seen, age, row, source, executed>>

(* The claiming statement succeeded: a fresh pending row carries r's stamp. *)
(* (fault: the HTTP code of the 409 written as the row's state)            *)
OwnFault(r) ==
    /\ row' = [state |-> "in_progress", stamp |-> r, resp |-> NoReq]
    /\ pc' = [pc EXCEPT ![r] = "handling"]
    /\ age' = [age EXCEPT ![r] = 0]

Own(r) ==
    /\ row' = [state |-> "pending", stamp |-> r, resp |-> NoReq]
    /\ pc' = [pc EXCEPT ![r] = "handling"]
    /\ age' = [age EXCEPT ![r] = 0]

Lose(r) ==
    /\ pc' = [pc EXCEPT ![r] = "lost"]
    /\ UNCHANGED <<row, age>>

(* _try_claim: the INSERT fails on the primary key, or for any other error. *)
TryClaim(r) ==
    /\ pc[r] = "claiming"
    /\ \/ row.state = "absent" /\ Own(r)
       \/ (row.state # "absent" \/ DbErrors) /\ Lose(r)
    /\ UNCHANGED <<req, seen, answer, source, executed>>

(* _reclaim_expired: the UPDATE is guarded by created_at and nothing else. *)
StampUnchanged(r) == row.state # "absent" /\ row.stamp = seen[r]

ReclaimExpired(r) ==
    /\ pc[r] = "reclaiming"
    /\ \/ StampUnchanged(r) /\ Own(r)
       \/ (~StampUnchanged(r) \/ DbErrors) /\ Lose(r)
    /\ UNCHANGED <<req, seen, answer, source, executed>>

(* _concurrent_loser_response: classify again; everything that is neither  *)
(* a hit under the same fingerprint nor a conflict is "in progress".       *)
LoserReplay(r) ==
    /\ pc[r] = "lost"
    /\ Hit(r) /\ SameFp(r)
    /\ Replay(r)
    /\ UNCHANGED <<req, seen, age, row, executed>>

(* (fault: the loser tries the INSERT again until it wins)                 *)
LoserRefusedFault(r) ==
    /\ pc[r] = "lost"
    /\ ~(Hit(r) /\ SameFp(r))
    /\ pc' = [pc EXCEPT ![r] = "claiming"]
    /\ UNCHANGED <<req, seen, age, row, answer, source, executed>>

LoserRefused(r) ==
    /\ pc[r] = "lost"
    /\ ~(Hit(r) /\ SameFp(r))
    /\ Respond(r, IF Conflict(r) THEN "conflict" ELSE "in_progress")
    /\ UNCHANGED <<req, seen, age, row, source, executed>>

-----------------------------------------------------------------------------
(* The handler behind call_next.                                           *)

(* Its side effect is committed; a supported dry run previews and commits  *)
(* nothing.                                                                *)
HandlerCommit(r) ==
    /\ pc[r] = "handling"
    /\ ~req[r].dry
    /\ pc' = [pc EXCEPT ![r] = "committed"]
    /\ executed' = executed \cup {r}
    /\ UNCHANGED <<req, seen, age, row, answer, source>>

(* A 2xx whose body is drained; _response_is_cacheable decides its branch. *)
HandlerSucceeds(r) ==
    /\ pc[r] = "committed" \/ (pc[r] = "handling" /\ req[r].dry)
    /\ \E p \in {"ok", "uncacheable"} : pc' = [pc EXCEPT ![r] = p]
    /\ UNCHANGED <<req, seen, age, row, answer, source, executed>>

(* A non-2xx or an exception, before or after the commit.                  *)
HandlerFails(r) ==
    /\ pc[r] \in {"handling", "committed"}
    /\ pc' = [pc EXCEPT ![r] = "failed"]
    /\ UNCHANGED <<req, seen, age, row, answer, source, executed>>

(* An exception while the 2xx body is drained leaves the middleware from   *)
(* outside its except clause: the row stays pending.                       *)
DrainFails(r) ==
    /\ pc[r] = "committed" \/ (pc[r] = "handling" /\ req[r].dry)
    /\ Respond(r, "error")
    /\ UNCHANGED <<req, seen, age, row, source, executed>>

-----------------------------------------------------------------------------
(* The last write of an owner.  None of the three statements checks that   *)
(* the pending row is the owner's own.                                     *)

FinalizeRow(r) ==
    /\ pc[r] = "ok"
    /\ LoopFree(req[r].worker)
    /\ \/ /\ row.state = "pending"
          /\ row' = [row EXCEPT !.state = "complete", !.resp = r]
          /\ Respond(r, "ok")
       \/ /\ row.state # "pending" \/ DbErrors
          /\ Respond(r, "internal_error")
          /\ UNCHANGED row
    /\ UNCHANGED <<req, seen, age, source, executed>>

MarkUncacheable(r) ==
    /\ pc[r] = "uncacheable"
    /\ LoopFree(req[r].worker)
    /\ \/ /\ row.state = "pending"
          /\ row' = [row EXCEPT !.state = "uncacheable"]
       \/ /\ row.state # "pending" \/ DbErrors
          /\ UNCHANGED row
    /\ Respond(r, "ok_uncacheable")
    /\ UNCHANGED <<req, seen, age, source, executed>>

ReleaseRow(r) ==
    /\ pc[r] = "failed"
    /\ LoopFree(req[r].worker)
    /\ \/ row.state = "pending" /\ row' = Absent
       \/ (row.state # "pending" \/ DbErrors) /\ UNCHANGED row
    /\ Respond(r, "error")
    /\ UNCHANGED <<req, seen, age, source, executed>>

-----------------------------------------------------------------------------
(* The environment: the pruner, process crashes, time.                     *)

(* prune_expired_idempotency_keys, run hourly on a worker's event loop.    *)
(* (faults: completed rows pruned one tick early, pending rows one tick    *)
(* early, and pending rows never)                                          *)
PrunableEarlyFault ==
    \/ row.state = "complete" /\ age[row.stamp] >= TTL
    \/ row.state = "pending" /\ age[row.stamp] > Watchdog

PrunablePendingFault ==
    \/ row.state = "complete" /\ age[row.stamp] > TTL
    \/ row.state = "pending" /\ age[row.stamp] >= Watchdog

PrunableNeverFault == row.state = "complete" /\ age[row.stamp] > TTL

Prunable ==
    \/ row.state = "complete" /\ age[row.stamp] > TTL
    \/ row.state = "pending" /\ age[row.stamp] > Watchdog

Prune(w) ==
    /\ LoopFree(w)
    /\ Prunable
    /\ row' = Absent
    /\ UNCHANGED <<req, pc, seen, age, answer, source, executed>>

(* A worker dies with its coroutines and its handler threads; the row and  *)
(* committed effects survive.                                              *)
Crash(w) ==
    LET dying == {r \in Req : req[r].worker = w /\ pc[r] \in Owning \cup Holding}
    IN  /\ dying # {}
        /\ pc' = [r \in Req |-> IF r \in dying THEN "gone" ELSE pc[r]]
        /\ UNCHANGED <<req, seen, age, row, answer, source, executed>>

(* One tick.  HandlerBound is the timing assumption: an owner settles the  *)
(* row within that many ticks of its claim.  Only the ages that a guard or *)
(* a property reads go on: the row's, the owners' and the acknowledged.    *)
Aging(r) == r = row.stamp \/ r \in Owners \/ answer[r] = "ok"

Tick ==
    /\ \A r \in Owners : age[r] < HandlerBound
    /\ age' = [r \in Req |-> IF Aging(r) /\ age[r] <= TTL
                             THEN age[r] + 1 ELSE age[r]]
    /\ UNCHANGED <<req, pc, seen, row, answer, source, executed>>

-----------------------------------------------------------------------------
Handler(r) ==
    \/ HandlerCommit(r) \/ HandlerSucceeds(r) \/ HandlerFails(r) \/ DrainFails(r)

Middleware(r) ==
    \/ LookupMiss(r) \/ LookupStale(r) \/ LookupHit(r) \/ LookupRefused(r)
    \/ TryClaim(r) \/ ReclaimExpired(r) \/ LoserReplay(r) \/ LoserRefused(r)
    \/ FinalizeRow(r) \/ MarkUncacheable(r) \/ ReleaseRow(r)

Next ==
    \/ \E r \in Req : Handler(r) \/ Middleware(r)
    \/ \E w \in Worker : Prune(w) \/ Crash(w)
    \/ Tick

Spec == Init /\ [][Next]_vars

(* A coroutine and its handler run to their end, the pruner keeps being    *)
(* run and time passes.  A new attempt need not be sent.                   *)
Settles(r) == Handler(r) \/ (pc[r] # "new" /\ Middleware(r))

Fairness ==
    /\ \A r \in Req : WF_vars(Settles(r))
    /\ WF_vars(\E w \in Worker : Prune(w))
    /\ WF_vars(Tick)

FairSpec == Spec /\ Fairness

-----------------------------------------------------------------------------
(* Properties                                                              *)

(* Claim-before-execute (idempotency.py:17): at any moment at most one     *)
(* handler runs under the key, and the row it settles is the row it        *)
(* claimed, although no statement after the claim checks who owns it.      *)
OwnerHoldsRow ==
    \A r \in Owners : row.state = "pending" /\ row.stamp = r

(* A stored response always comes from the attempt that stamped the row,   *)
(* so request_hash and fingerprint describe the response they guard.       *)
ResponseMatchesStamp ==
    row.state = "complete" => row.resp = row.stamp /\ answer[row.stamp] = "ok"

(* A replay returns the response of an attempt that was itself answered    *)
(* 2xx, had the same body and ran under the same authorization.            *)
ReplayFaithful ==
    \A r \in Req : answer[r] = "replay" =>
        /\ source[r] \in Req
        /\ answer[source[r]] = "ok"
        /\ req[source[r]].hash = req[r].hash
        /\ req[source[r]].fp = req[r].fp

(* An attempt acknowledged with a cacheable 2xx keeps its row for the TTL: *)
(* no crash, database error, prune or retry of any kind can drop it.       *)
AckedKeepsRow ==
    \A r \in Req : answer[r] = "ok" /\ age[r] <= TTL =>
        row.state = "complete" /\ row.stamp = r

(* What the attempts of the key see of the slot: the attempt whose 2xx is  *)
(* stored, how old it is, and whose 2xx each of them was answered with.    *)
Asked == [r \in Req |-> [hash |-> req[r].hash, fp |-> req[r].fp, dry |-> req[r].dry]]
Kept == IF row.state = "complete" THEN {row.resp} ELSE {}
KeptAge == IF row.state = "complete" THEN age[row.stamp] ELSE 0
Served ==
    [r \in Req |-> IF answer[r] \in {"ok", "ok_uncacheable"} THEN r
                   ELSE IF answer[r] = "replay" THEN source[r] ELSE NoReq]

OnceKept ==
    INSTANCE OncePerKey WITH
        asked <- Asked, running <- Owners, kept <- Kept, age <- KeptAge, served <- Served

(* A row that no statement but the claim compares with its owner makes the *)
(* attempts of a key keep the promise of OncePerKey: one handler runs at a *)
(* time, once for each attempt, and a kept 2xx is replayed to the attempts *)
(* with the same body and authorization, and to no others, until the TTL.  *)
ServesOnce == OnceKept!Spec

(* No second execution within the TTL after an acknowledged cacheable 2xx. *)
Begins(r) == pc[r] \in Holding /\ pc'[r] = "handling"

NoReexecution ==
    [][\A r, q \in Req : Begins(r) /\ answer[q] = "ok" => age[q] > TTL]_vars

(* A key whose 2xx could not be cached blocks every later execution        *)
(* (docstring of _mark_uncacheable, idempotency.py:866-871).               *)
NoReexecutionUncacheable ==
    [][\A r, q \in Req : ~(Begins(r) /\ answer[q] = "ok_uncacheable")]_vars

(* A crashed or failed attempt does not wedge the key: the slot keeps      *)
(* leaving the pending state.                                              *)
KeyNotWedged == []<>(row.state # "pending")

(* A request that was looked up is answered, unless its worker dies.       *)
EveryRequestAnswered ==
    \A r \in Req : pc[r] # "new" ~> pc[r] \in {"answered", "gone"}

(* What the module docstring promises of a replay (idempotency.py:5): the  *)
(* cached response stands for an operation that was executed.              *)
ReplayedWasExecuted ==
    \A r \in Req : answer[r] = "replay" /\ ~req[r].dry => source[r] \in executed
=============================================================================
