----------------------------- MODULE OncePerKey -----------------------------
(***************************************************************************)
(* What the Idempotency-Key middleware promises the attempts that carry    *)
(* one key: one of them at a time runs the handler, and each runs it at    *)
(* most once; a 2xx that was kept is what every like attempt gets, and     *)
(* keeps the handler from running again, until it is older than the TTL.   *)
(*                                                                         *)
(* Idempotency implements this with one row of a table (theorem            *)
(* ServesOncePerKey), whatever crashes and whichever statements fail.      *)
(***************************************************************************)
EXTENDS Naturals

CONSTANTS
    Req,        \* attempts that carry the key
    NoReq,      \* no attempt
    TTL         \* ticks a response is kept

VARIABLES
    asked,      \* body and authorization of each attempt; is it a dry run
    running,    \* the attempt whose handler runs, if any
    executed,   \* attempts whose side effect is committed
    kept,       \* the attempt whose response is kept, if any
    age,        \* its age
    served      \* the attempt whose 2xx each attempt got

vars == <<asked, running, executed, kept, age, served>>

Alike(q, r) == asked[q].hash = asked[r].hash /\ asked[q].fp = asked[r].fp

Init ==
    /\ running = {} /\ executed = {}
    /\ kept = {} /\ age = 0
    /\ served = [r \in Req |-> NoReq]

(* r may run the handler: nobody does, and no response is kept.            *)
Claim(r) ==
    /\ running = {}
    /\ kept # {} => age > TTL
    /\ r \notin executed /\ served[r] = NoReq
    /\ running' = {r}
    /\ kept' = {} /\ age' = 0
    /\ UNCHANGED <<asked, executed, served>>

Execute(r) ==
    /\ r \notin executed /\ ~asked[r].dry
    /\ executed' = executed \cup {r}
    /\ UNCHANGED <<asked, running, kept, age, served>>

(* The handler of r has succeeded: its 2xx is answered and kept ...        *)
Keep(r) ==
    /\ asked[r].dry \/ r \in executed
    /\ running' = {}
    /\ kept' = {r} /\ age' \in 0..TTL
    /\ served' = [served EXCEPT ![r] = r]
    /\ UNCHANGED <<asked, executed>>

(* ... or answered only, as one that cannot be kept.                       *)
Answer(r) ==
    /\ asked[r].dry \/ r \in executed
    /\ running' = {}
    /\ served' = [served EXCEPT ![r] = r]
    /\ UNCHANGED <<asked, executed, kept, age>>

(* The handler fails, its worker dies, or the response cannot be stored.   *)
Quit ==
    /\ running # {}
    /\ running' = {}
    /\ UNCHANGED <<asked, executed, kept, age, served>>

Replay(q, r) ==
    /\ age <= TTL
    /\ served[r] = NoReq /\ Alike(q, r)
    /\ served' = [served EXCEPT ![r] = q]
    /\ UNCHANGED <<asked, running, executed, kept, age>>

Forget ==
    /\ kept # {} /\ age > TTL
    /\ kept' = {} /\ age' = 0
    /\ UNCHANGED <<asked, running, executed, served>>

Tick ==
    /\ kept # {}
    /\ age' = age + 1
    /\ UNCHANGED <<asked, running, executed, kept, served>>

Next ==
    \/ \E r \in Req : Claim(r) \/ \E q \in kept : Replay(q, r)
    \/ \E r \in running : Execute(r) \/ Keep(r) \/ Answer(r)
    \/ Quit \/ Forget \/ Tick

Spec == Init /\ [][Next]_vars
=============================================================================
