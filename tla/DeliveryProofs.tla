--------------------------- MODULE DeliveryProofs ---------------------------
(****************************************************************************)
(* Machine-checked: what is sent is sent once, in order, outside the quiet *)
(* hours and to the host that was checked, and all of it keeps its types;  *)
(* for any number of processes, recipients, clients, events and faults.    *)
(****************************************************************************)
EXTENDS DigestSends, Alerts, Outbound, EventHub, CollectionLemmas

WorkerField == {"step", "window", "todo", "at"}

IsGrid(t) ==
    /\ t = [r \in Recipient |-> t[r]]
    /\ \A r \in Recipient : t[r] = [n \in Window |-> t[r][n]]

Tables ==
    /\ IsGrid(claims) /\ IsGrid(delivered)
    /\ worker = [w \in Worker |-> worker[w]]
    /\ \A w \in Worker : worker[w] = [f \in WorkerField |-> worker[w][f]]

(* Worker w has claimed the digest and is about to deliver it.             *)
On(w, r, n) == worker[w].step = "delivering" /\ worker[w].at = r /\ worker[w].window = n

(* The row that a claim inserts is never taken back: it stands for the     *)
(* delivery from before it begins, and only its inserter delivers.         *)
ClaimsStand ==
    \A r \in Recipient, n \in Window :
        /\ delivered[r][n] \in {0, 1}
        /\ delivered[r][n] = 1 => claims[r][n] # "none"
        /\ \A w \in Worker : On(w, r, n) => claims[r][n] # "none" /\ delivered[r][n] = 0
        /\ \A v, w \in Worker : On(v, r, n) /\ On(w, r, n) => v = w

DigestInv == Tables /\ ClaimsStand
-----------------------------------------------------------------------------
WithCell(t, q, k, x) == [t EXCEPT ![q] = [t[q] EXCEPT ![k] = x]]

(* What writing one cell of such a table does.                             *)
LEMMA CellWritten ==
    ASSUME NEW t, IsGrid(t), NEW q, NEW k, NEW x
    PROVE  /\ IsGrid(WithCell(t, q, k, x))
           /\ \A r \in Recipient, n \in Window :
                 WithCell(t, q, k, x)[r][n] = IF r = q /\ n = k THEN x ELSE t[r][n]
<1> DEFINE row == [t[q] EXCEPT ![k] = x]
           u == WithCell(t, q, k, x)
<1>0. u = [t EXCEPT ![q] = row]
  BY DEF WithCell
<1> HIDE DEF u
<1>1. u = [r \in Recipient |-> u[r]]
  BY <1>0 DEF IsGrid
<1>2. ASSUME NEW r \in Recipient
      PROVE  /\ u[r] = [n \in Window |-> u[r][n]]
             /\ \A n \in Window : u[r][n] = IF r = q /\ n = k THEN x ELSE t[r][n]
  <2>1. t[r] = [n \in Window |-> t[r][n]]
    BY DEF IsGrid
  <2>2. CASE r = q
    <3>1. u[r] = row
      BY <1>0, <2>2 DEF IsGrid
    <3>2. row = [n \in Window |-> IF n = k THEN x ELSE t[r][n]]
      BY <2>1, <2>2
    <3> QED
      BY <2>2, <3>1, <3>2
  <2>3. CASE r # q
    <3>1. u[r] = t[r]
      BY <1>0, <2>3 DEF IsGrid
    <3> QED
      BY <2>1, <2>3, <3>1
  <2> QED
    BY <2>2, <2>3
<1> QED
  BY <1>1, <1>2 DEF IsGrid, u

LEMMA DigestInitHolds == DigestInit => DigestInv
<1> SUFFICES ASSUME DigestInit PROVE DigestInv
  OBVIOUS
<1>1. Tables
  BY DEF DigestInit, Tables, IsGrid, Sleeping, WorkerField
<1>2. \A w \in Worker : worker[w].step = "sleeping"
  BY DEF DigestInit, Sleeping
<1> QED
  BY <1>1, <1>2 DEF DigestInit, DigestInv, ClaimsStand, On

(* A worker that goes elsewhere than to a delivery.                        *)
LEMMA WorkerMoves ==
    ASSUME DigestInv, NEW w \in Worker, NEW e, worker' = [worker EXCEPT ![w] = e],
           e = [f \in WorkerField |-> e[f]], e.step # "delivering",
           IsGrid(claims'),
           \A r \in Recipient, n \in Window : claims[r][n] # "none" => claims'[r][n] # "none",
           UNCHANGED delivered
    PROVE  DigestInv'
<1>1. worker'[w] = e /\ \A v \in Worker : v # w => worker'[v] = worker[v]
  BY DEF DigestInv, Tables
<1>2. \A v \in Worker : \A r, n : On(v, r, n)' => On(v, r, n)
  BY <1>1 DEF On
<1>3. Tables'
  BY <1>1 DEF DigestInv, Tables
<1>4. ClaimsStand'
  BY <1>2 DEF DigestInv, ClaimsStand
<1> QED
  BY <1>3, <1>4 DEF DigestInv

(* The unique index lets one claim through.                                *)
LEMMA ClaimKeeps ==
    ASSUME DigestInv, NEW w \in Worker, Claim(w)
    PROVE  DigestInv'
<1> DEFINE k == worker[w].window
           q == Min(worker[w].todo)
           claimed == [[worker[w] EXCEPT !["step"] = "delivering"] EXCEPT !["at"] = q]
           next == [worker[w] EXCEPT !["todo"] = Remaining(worker[w].todo, q)]
<1>1. /\ worker[w].step = "claiming"
      /\ UNCHANGED delivered
      /\ \/ /\ claims[q][k] = "none"
            /\ claims' = WithCell(claims, q, k, "pending")
            /\ worker' = [worker EXCEPT ![w] = claimed]
         \/ worker' = [worker EXCEPT ![w] = next] /\ UNCHANGED claims
  BY DEF Claim, AtRecipient, WithCell
<1>2. worker[w] = [f \in WorkerField |-> worker[w][f]]
  BY DEF DigestInv, Tables
<1>3. CASE worker' = [worker EXCEPT ![w] = next] /\ UNCHANGED claims
  <2>1. next = [f \in WorkerField |-> next[f]] /\ next.step = "claiming"
    BY <1>1, <1>2 DEF WorkerField
  <2> HIDE DEF next
  <2> QED
    BY <1>1, <1>3, <2>1, WorkerMoves DEF DigestInv, Tables
<1>4. CASE /\ claims[q][k] = "none"
           /\ claims' = WithCell(claims, q, k, "pending")
           /\ worker' = [worker EXCEPT ![w] = claimed]
  <2>1. /\ claimed = [f \in WorkerField |-> claimed[f]]
        /\ claimed.step = "delivering" /\ claimed.at = q /\ claimed.window = k
    BY <1>2 DEF WorkerField
  <2> HIDE DEF claimed, q, k
  <2>2. worker'[w] = claimed /\ \A v \in Worker : v # w => worker'[v] = worker[v]
    BY <1>4 DEF DigestInv, Tables
  <2>3. IsGrid(claims)
    BY DEF DigestInv, Tables
  <2>4. /\ IsGrid(claims')
        /\ \A r \in Recipient, n \in Window :
              claims'[r][n] = IF r = q /\ n = k THEN "pending" ELSE claims[r][n]
    BY <1>4, <2>3, CellWritten
  <2>5. Tables'
    BY <1>1, <1>4, <2>1, <2>2, <2>4 DEF DigestInv, Tables
  <2>6. \A r, n : On(w, r, n)' <=> r = q /\ n = k
    BY <2>1, <2>2 DEF On
  <2>7. \A v \in Worker : \A r, n : v # w => (On(v, r, n)' <=> On(v, r, n))
    BY <2>2 DEF On
  <2>8. ASSUME NEW r \in Recipient, NEW n \in Window
        PROVE  /\ delivered'[r][n] \in {0, 1}
               /\ delivered'[r][n] = 1 => claims'[r][n] # "none"
               /\ \A v \in Worker : On(v, r, n)' => claims'[r][n] # "none" /\ delivered'[r][n] = 0
               /\ \A u, v \in Worker : On(u, r, n)' /\ On(v, r, n)' => u = v
    <3>1. CASE r = q /\ n = k
      <4>1. delivered[r][n] = 0 /\ \A v \in Worker : ~On(v, r, n)
        BY <1>4, <3>1 DEF DigestInv, ClaimsStand
      <4> QED
        BY <1>1, <2>4, <2>6, <2>7, <3>1, <4>1
    <3>2. CASE ~ (r = q /\ n = k)
      <4>1. claims'[r][n] = claims[r][n] /\ ~On(w, r, n)'
        BY <2>4, <2>6, <3>2
      <4> QED
        BY <1>1, <2>7, <4>1 DEF DigestInv, ClaimsStand
    <3> QED
      BY <3>1, <3>2
  <2>9. ClaimsStand'
    BY <2>8 DEF ClaimsStand
  <2> QED
    BY <2>5, <2>9 DEF DigestInv
<1> QED
  BY <1>1, <1>3, <1>4

LEMMA DeliverKeeps ==
    ASSUME DigestInv, NEW w \in Worker, Deliver(w)
    PROVE  DigestInv'
<1> DEFINE q == worker[w].at
           k == worker[w].window
           m == IF delivered[q][k] < 2 THEN delivered[q][k] + 1 ELSE delivered[q][k]
<1>1. /\ worker[w].step = "delivering"
      /\ delivered' = WithCell(delivered, q, k, m)
      /\ UNCHANGED claims
  BY DEF Deliver, WithCell
<1>2. PICK outcome \in {"sent", "failed"} :
        worker' = [worker EXCEPT ![w] = [worker[w] EXCEPT !["step"] = outcome]]
  BY DEF Deliver
<1> DEFINE e == [worker[w] EXCEPT !["step"] = outcome]
<1>3. e = [f \in WorkerField |-> e[f]] /\ e.step = outcome
  BY DEF DigestInv, Tables, WorkerField
<1> HIDE DEF e
<1>4. worker' = [worker EXCEPT ![w] = e]
  BY <1>2 DEF e
<1>5. worker'[w] = e /\ \A v \in Worker : v # w => worker'[v] = worker[v]
  BY <1>4 DEF DigestInv, Tables
<1>6. q \in Recipient /\ k \in Window => m = 1
  BY <1>1 DEF DigestInv, ClaimsStand, On
<1> HIDE DEF m
<1>7. IsGrid(delivered)
  BY DEF DigestInv, Tables
<1>8. /\ IsGrid(delivered')
      /\ \A r \in Recipient, n \in Window :
            delivered'[r][n] = IF r = q /\ n = k THEN m ELSE delivered[r][n]
  BY <1>1, <1>7, CellWritten
<1>9. Tables'
  BY <1>1, <1>3, <1>4, <1>5, <1>8 DEF DigestInv, Tables
<1>10. \A v \in Worker : \A r, n : On(v, r, n)' => v # w /\ On(v, r, n)
  BY <1>3, <1>5 DEF On
<1>11. On(w, q, k)
  BY <1>1 DEF On
<1> HIDE DEF q, k
<1>12. ASSUME NEW r \in Recipient, NEW n \in Window
       PROVE  /\ delivered'[r][n] \in {0, 1}
              /\ delivered'[r][n] = 1 => claims'[r][n] # "none"
              /\ \A v \in Worker : On(v, r, n)' => claims'[r][n] # "none" /\ delivered'[r][n] = 0
              /\ \A u, v \in Worker : On(u, r, n)' /\ On(v, r, n)' => u = v
  <2>1. CASE r = q /\ n = k
    <3>1. claims[r][n] # "none" /\ \A v \in Worker : ~On(v, r, n)'
      BY <1>10, <1>11, <2>1 DEF DigestInv, ClaimsStand
    <3> QED
      BY <1>1, <1>6, <1>8, <2>1, <3>1
  <2>2. CASE ~ (r = q /\ n = k)
    <3>1. delivered'[r][n] = delivered[r][n]
      BY <1>8, <2>2
    <3> QED
      BY <1>1, <1>10, <3>1 DEF DigestInv, ClaimsStand
  <2> QED
    BY <2>1, <2>2
<1>13. ClaimsStand'
  BY <1>12 DEF ClaimsStand
<1> QED
  BY <1>9, <1>13 DEF DigestInv

(* Whatever the outcome, the row keeps saying that the digest was claimed. *)
LEMMA FinishKeeps ==
    ASSUME DigestInv, NEW w \in Worker, Finish(w)
    PROVE  DigestInv'
<1> DEFINE q == worker[w].at
           k == worker[w].window
           s == worker[w].step
           e == [[worker[w] EXCEPT !["step"] = "claiming"] EXCEPT !["todo"] = worker[w].todo \ {q}]
<1>1. /\ s \in {"sent", "failed"}
      /\ worker' = [worker EXCEPT ![w] = e]
      /\ UNCHANGED delivered
      /\ \/ claims' = WithCell(claims, q, k, s)
         \/ UNCHANGED claims
  BY DEF Finish, Outcome, WithCell
<1>2. e = [f \in WorkerField |-> e[f]] /\ e.step # "delivering"
  BY DEF DigestInv, Tables, WorkerField
<1> HIDE DEF e, q, k, s
<1>3. /\ IsGrid(claims')
      /\ \A r \in Recipient, n \in Window : claims[r][n] # "none" => claims'[r][n] # "none"
  <2>1. CASE claims' = WithCell(claims, q, k, s)
    <3>1. IsGrid(claims)
      BY DEF DigestInv, Tables
    <3>2. /\ IsGrid(claims')
          /\ \A r \in Recipient, n \in Window :
                claims'[r][n] = IF r = q /\ n = k THEN s ELSE claims[r][n]
      BY <2>1, <3>1, CellWritten
    <3> QED
      BY <1>1, <3>2
  <2>2. CASE UNCHANGED claims
    BY <2>2 DEF DigestInv, Tables
  <2> QED
    BY <1>1, <2>1, <2>2
<1> QED
  BY <1>1, <1>2, <1>3, WorkerMoves

LEMMA OtherStepsKeep ==
    ASSUME DigestInv, NEW w \in Worker,
           PollDigest(w) \/ ClaimRaises(w) \/ EndPoll(w) \/ LeavePoll(w)
    PROVE  DigestInv'
<1>1. UNCHANGED <<claims, delivered>>
  BY DEF PollDigest, ClaimRaises, EndPoll, LeavePoll
<1>2. CASE PollDigest(w)
  <2> DEFINE e == [step |-> "claiming", window |-> window, todo |-> held, at |-> NoRecipient]
  <2>1. worker' = [worker EXCEPT ![w] = e]
    BY <1>2 DEF PollDigest
  <2>2. e = [f \in WorkerField |-> e[f]] /\ e.step # "delivering"
    BY DEF WorkerField
  <2> HIDE DEF e
  <2> QED
    BY <1>1, <2>1, <2>2, WorkerMoves DEF DigestInv, Tables
<1>3. CASE ClaimRaises(w)
  <2> DEFINE e == [worker[w] EXCEPT !["todo"] = Remaining(worker[w].todo, Min(worker[w].todo))]
  <2>1. worker' = [worker EXCEPT ![w] = e] /\ worker[w].step = "claiming"
    BY <1>3 DEF ClaimRaises, AtRecipient
  <2>2. e = [f \in WorkerField |-> e[f]] /\ e.step # "delivering"
    BY <2>1 DEF DigestInv, Tables, WorkerField
  <2> HIDE DEF e
  <2> QED
    BY <1>1, <2>1, <2>2, WorkerMoves DEF DigestInv, Tables
<1>4. CASE EndPoll(w) \/ LeavePoll(w)
  <2>1. worker' = [worker EXCEPT ![w] = Sleeping]
    BY <1>4 DEF EndPoll, LeavePoll
  <2>2. Sleeping = [f \in WorkerField |-> Sleeping[f]] /\ Sleeping.step # "delivering"
    BY DEF WorkerField, Sleeping
  <2> QED
    BY <1>1, <2>1, <2>2, WorkerMoves DEF DigestInv, Tables
<1> QED
  BY <1>2, <1>3, <1>4

LEMMA DigestStepKeeps == DigestInv /\ [DigestNext]_digestVars => DigestInv'
<1> SUFFICES ASSUME DigestInv, [DigestNext]_digestVars PROVE DigestInv'
  OBVIOUS
<1>1. ASSUME NEW w \in Worker, DigestStep(w) \/ LeavePoll(w) \/ ClaimRaises(w)
      PROVE  DigestInv'
  BY <1>1, ClaimKeeps, DeliverKeeps, FinishKeeps, OtherStepsKeep DEF DigestStep
<1>2. CASE Quieten \/ EndQuiet \/ UNCHANGED digestVars
  BY <1>2 DEF Quieten, EndQuiet, digestVars, DigestInv, Tables, ClaimsStand, On
<1> QED
  BY <1>1, <1>2 DEF DigestNext

(* However many processes poll, die on a claim or fail to deliver it, no   *)
(* recipient gets the digest of a window twice.                            *)
THEOREM DigestDeliveredOnce == DigestSpec => []DigestOnce
<1>1. DigestInv => DigestOnce
  BY DEF DigestInv, ClaimsStand, DigestOnce
<1> QED
  BY <1>1, DigestInitHolds, DigestStepKeeps, PTL DEF DigestSpec

-----------------------------------------------------------------------------
(* The quiet hours and their cache, and a dispatch at each stage.          *)
QuietInv ==
    /\ quietSet \in BOOLEAN /\ quietNow \in BOOLEAN
    /\ cached \in [says : {"nothing", "on", "off"}, age : 0 .. CacheTicks]

Looking == [step : {"look", "seed"}, kind : {"request"}, targets : SUBSET Reader,
            left : SUBSET Reader, aloud : BOOLEAN]
Raising(rows) == [step : {"raise", "decide"}, kind : AlertKind, aloud : BOOLEAN, rows : {rows}]
IsRaising(c) == \E rows : c \in Raising(rows)
IsSent(c) == \E out : c = [step |-> "sent", out |-> out]
Staged(c) == c = NoDispatch \/ c \in Looking \/ IsRaising(c) \/ IsSent(c)

DispatchInv == dispatch = [d \in Dispatcher |-> dispatch[d]] /\ \A d \in Dispatcher : Staged(dispatch[d])

AlertsInv == QuietInv /\ DispatchInv

(* The step says which record it is.                                       *)
LEMMA StageIs ==
    ASSUME NEW c, Staged(c)
    PROVE  /\ c.step \in {"look", "seed"} => c \in Looking
           /\ c.step \in {"raise", "decide"} => IsRaising(c)
<1>1. CASE c = NoDispatch
  BY <1>1 DEF NoDispatch
<1>2. CASE c \in Looking
  BY <1>2 DEF Looking
<1>3. CASE IsRaising(c)
  <2>1. c.step \in {"raise", "decide"}
    BY <1>3 DEF IsRaising, Raising
  <2> QED
    BY <1>3, <2>1
<1>4. CASE IsSent(c)
  BY <1>4 DEF IsSent
<1> QED
  BY <1>1, <1>2, <1>3, <1>4 DEF Staged

(* What a dispatch leaves in the cache.                                    *)
LEMMA ConfigIsCached ==
    ASSUME QuietInv, NEW config \in Configs, cached' = config, UNCHANGED <<quietSet, quietNow>>
    PROVE  QuietInv'
BY AlertsAssumption DEF Configs, QuietInv

(* One dispatch goes on.                                                   *)
LEMMA OneDispatch ==
    ASSUME DispatchInv, NEW d \in Dispatcher, NEW c, Staged(c),
           dispatch' = [dispatch EXCEPT ![d] = c]
    PROVE  DispatchInv'
BY DEF DispatchInv

LEMMA AlertRequestKeeps ==
    ASSUME AlertsInv, NEW d \in Dispatcher, NEW targets \in SUBSET Reader, BeginRequest(d, targets)
    PROVE  AlertsInv'
<1>1. ASSUME NEW aloud \in BOOLEAN,
             dispatch' = [dispatch EXCEPT ![d] =
                [step |-> "look", kind |-> "request", targets |-> targets, left |-> {},
                 aloud |-> aloud]]
      PROVE  DispatchInv'
  <2>1. Staged([step |-> "look", kind |-> "request", targets |-> targets, left |-> {},
                aloud |-> aloud])
    BY DEF Staged, Looking
  <2> QED
    BY <1>1, <2>1, OneDispatch DEF AlertsInv
<1>2. UNCHANGED <<quietSet, quietNow>>
  BY DEF BeginRequest
<1>3. ASSUME NEW config \in Configs, cached' = config,
             dispatch' = [dispatch EXCEPT ![d] =
                [step |-> "look", kind |-> "request", targets |-> targets, left |-> {},
                 aloud |-> ~Suppressed(config)]]
      PROVE  AlertsInv'
  <2>1. (~Suppressed(config)) \in BOOLEAN
    BY DEF Suppressed
  <2> QED
    BY <1>1, <1>2, <1>3, <2>1, ConfigIsCached DEF AlertsInv
<1>4. ASSUME NEW aloud \in BOOLEAN, UNCHANGED cached,
             dispatch' = [dispatch EXCEPT ![d] =
                [step |-> "look", kind |-> "request", targets |-> targets, left |-> {},
                 aloud |-> aloud]]
      PROVE  AlertsInv'
  BY <1>1, <1>2, <1>4 DEF AlertsInv, QuietInv
<1> QED
  BY <1>3, <1>4 DEF BeginRequest

LEMMA LookForReadersKeeps ==
    ASSUME AlertsInv, NEW d \in Dispatcher, LookForReaders(d)
    PROVE  AlertsInv'
<1> DEFINE c == dispatch[d]
           rows == [u \in Reader |-> IF u \in c.targets THEN preference[u]["request"] ELSE NoRowYet]
           seeding == [c EXCEPT !.step = "seed", !.left = Reader]
           raising == [step |-> "raise", kind |-> c.kind, aloud |-> c.aloud,
                       rows |-> rows]
<1>1. c \in Looking
  BY StageIs DEF LookForReaders, AlertsInv, DispatchInv
<1>2. Staged(seeding)
  BY <1>1 DEF Staged, Looking
<1>3. Staged(raising)
  <2> HIDE DEF rows
  <2>1. c.kind \in AlertKind /\ c.aloud \in BOOLEAN
    BY <1>1 DEF Looking, AlertKind
  <2> HIDE DEF c
  <2> QED
    BY <2>1 DEF Staged, IsRaising, Raising
<1>4. \/ dispatch' = [dispatch EXCEPT ![d] = seeding]
      \/ dispatch' = [dispatch EXCEPT ![d] = raising]
  BY DEF LookForReaders
<1> HIDE DEF seeding, raising
<1>5. DispatchInv'
  BY <1>2, <1>3, <1>4, OneDispatch DEF AlertsInv
<1> QED
  BY <1>5 DEF LookForReaders, quietVars, AlertsInv, QuietInv

LEMMA SeedKeeps ==
    ASSUME AlertsInv, NEW d \in Dispatcher, SeedReader(d)
    PROVE  AlertsInv'
<1> DEFINE c == dispatch[d]
<1>1. c \in Looking
  BY StageIs DEF SeedReader, AlertsInv, DispatchInv
<1>2. PICK u \in c.left :
        dispatch' = [dispatch EXCEPT ![d].left = @ \ {u},
                            ![d].step = IF dispatch[d].left = {u} THEN "look" ELSE @]
  BY DEF SeedReader
<1> DEFINE s == IF c.left = {u} THEN "look" ELSE c.step
           seeded == [c EXCEPT !.left = @ \ {u}, !.step = s]
<1>3. dispatch' = [dispatch EXCEPT ![d] = seeded]
  BY <1>1, <1>2 DEF AlertsInv, DispatchInv
<1>4. Staged(seeded)
  BY <1>1 DEF Staged, Looking
<1> HIDE DEF seeded
<1>5. DispatchInv'
  BY <1>3, <1>4, OneDispatch DEF AlertsInv
<1> QED
  BY <1>5 DEF SeedReader, quietVars, AlertsInv, QuietInv

LEMMA BeginPrinterKeeps ==
    ASSUME AlertsInv, NEW d \in Dispatcher, BeginPrinter(d)
    PROVE  AlertsInv'
<1> DEFINE rows == IF AllRows("printer") \subseteq {{}}
                   THEN [u \in Reader |-> OneRow({"in_app"})]
                   ELSE [u \in Reader |-> preference[u]["printer"]]
           raising == [step |-> "raise", kind |-> "printer", aloud |-> FALSE,
                       rows |-> rows]
<1>1. dispatch' = [dispatch EXCEPT ![d] = raising]
  BY DEF BeginPrinter
<1>2. Staged(raising)
  <2> HIDE DEF rows
  <2> QED
    BY DEF Staged, IsRaising, Raising, AlertKind
<1> HIDE DEF raising
<1>3. DispatchInv'
  BY <1>1, <1>2, OneDispatch DEF AlertsInv
<1> QED
  BY <1>3 DEF BeginPrinter, quietVars, AlertsInv, QuietInv

LEMMA RaiseKeeps ==
    ASSUME AlertsInv, NEW d \in Dispatcher, RaiseAlerts(d)
    PROVE  AlertsInv'
<1>1. IsRaising(dispatch[d])
  BY StageIs DEF RaiseAlerts, AlertsInv, DispatchInv
<1>2. PICK rows : dispatch[d] \in Raising(rows)
  BY <1>1 DEF IsRaising
<1> DEFINE decided == [dispatch[d] EXCEPT !.step = "decide"]
<1>3. dispatch' = [dispatch EXCEPT ![d] = decided]
  BY DEF RaiseAlerts
<1>4. decided \in Raising(rows)
  BY <1>2 DEF Raising
<1>5. Staged(decided)
  BY <1>4 DEF Staged, IsRaising
<1> HIDE DEF decided
<1>6. DispatchInv'
  BY <1>3, <1>5, OneDispatch DEF AlertsInv
<1> QED
  BY <1>6 DEF RaiseAlerts, quietVars, AlertsInv, QuietInv

LEMMA DecideKeeps ==
    ASSUME AlertsInv, NEW d \in Dispatcher, DecideAloud(d)
    PROVE  AlertsInv'
<1>1. ASSUME NEW out, dispatch' = [dispatch EXCEPT ![d] = [step |-> "sent", out |-> out]]
      PROVE  DispatchInv'
  <2>1. Staged([step |-> "sent", out |-> out])
    BY DEF Staged, IsSent
  <2> QED
    BY <1>1, <2>1, OneDispatch DEF AlertsInv
<1>2. UNCHANGED <<quietSet, quietNow>>
  BY DEF DecideAloud
<1>3. CASE /\ dispatch' = [dispatch EXCEPT ![d] = [step |-> "sent", out |-> Told(@)]]
           /\ UNCHANGED cached
  BY <1>1, <1>2, <1>3 DEF AlertsInv, QuietInv
<1>4. ASSUME NEW config \in Configs, cached' = config,
             dispatch' = [dispatch EXCEPT ![d] =
                [step |-> "sent", out |-> Told([@ EXCEPT !.aloud = ~Suppressed(config)])]]
      PROVE  AlertsInv'
  BY <1>1, <1>2, <1>4, ConfigIsCached DEF AlertsInv
<1> QED
  BY <1>3, <1>4 DEF DecideAloud

LEMMA AlertsStep ==
    ASSUME AlertsInv, [AlertsNext]_alertVars
    PROVE  AlertsInv'
<1>1. CASE SwitchQuietHours
  BY <1>1, AlertsAssumption DEF SwitchQuietHours, AlertsInv, QuietInv, DispatchInv
<1>2. CASE AlertTime
  <2>1. QuietInv'
    <3>1. CASE cached' = [cached EXCEPT !.age = IF @ < CacheTicks THEN @ + 1 ELSE @] /\ UNCHANGED quietNow
      BY <1>2, <3>1, AlertsAssumption DEF AlertTime, AlertsInv, QuietInv
    <3>2. CASE quietNow' \in {quietNow, ~quietNow} /\ UNCHANGED cached
      BY <1>2, <3>2 DEF AlertTime, AlertsInv, QuietInv
    <3> QED
      BY <1>2, <3>1, <3>2 DEF AlertTime
  <2> QED
    BY <1>2, <2>1 DEF AlertTime, AlertsInv, DispatchInv
<1>3. CASE UNCHANGED <<quietVars, dispatch>>
  BY <1>3 DEF quietVars, AlertsInv, QuietInv, DispatchInv
<1>4. ASSUME NEW u \in Reader,
             GetPreferences(u) \/ UpdatePreferences(u) \/ ChangeDevice(u) \/ ChangeAlert(u)
      PROVE  UNCHANGED <<quietVars, dispatch>>
  BY <1>4 DEF GetPreferences, UpdatePreferences, ChangeDevice, ChangeAlert, Edited
<1>5. ChangeWebhook \/ ChangeMail \/ UNCHANGED alertVars => UNCHANGED <<quietVars, dispatch>>
  BY DEF ChangeWebhook, ChangeMail, Edited, alertVars, quietVars
<1>6. ASSUME NEW d \in Dispatcher, EndDispatch(d) PROVE AlertsInv'
  <2>1. Staged(NoDispatch) /\ dispatch' = [dispatch EXCEPT ![d] = NoDispatch]
    BY <1>6 DEF Staged, EndDispatch
  <2>2. DispatchInv'
    BY <2>1, OneDispatch DEF AlertsInv
  <2> QED
    BY <1>6, <2>2 DEF EndDispatch, quietVars, AlertsInv, QuietInv
<1> QED
  BY <1>1, <1>2, <1>3, <1>4, <1>5, <1>6, AlertRequestKeeps, LookForReadersKeeps, SeedKeeps, BeginPrinterKeeps,
     RaiseKeeps, DecideKeeps DEF AlertsNext

-----------------------------------------------------------------------------
(* A request that has been let through carries its pins to the connection; *)
(* the mode cannot change under it, because no request outlives the        *)
(* process that read the mode.                                             *)
LetThrough == [step : {"checked", "ready"}, guard : Guard, host : Host, seen : SUBSET Net,
               pins : SUBSET Net]
Open == [step : {"open"}, guard : Guard, seen : SUBSET Net, to : Net]

Pinned(q) ==
    /\ q \in {NoRequest} \cup LetThrough \cup Open
    /\ q.step = "checked" => q.guard = "posted"
    /\ q.step \in {"checked", "ready"} /\ itar => q.seen = {"lan"}
    /\ q.step = "ready" /\ q.guard = "pinned" /\ itar => q.pins = {"lan"}
    /\ q.step = "ready" /\ q.guard = "posted" => q.pins = {"wan"}
    /\ q.step = "open" /\ itar => q.seen = {"lan"}
    /\ q.step = "open" /\ q.guard = "pinned" /\ itar => q.to = "lan"
    /\ q.step = "open" /\ q.guard = "posted" => q.to = "wan"

RequestInv ==
    /\ up \in BOOLEAN /\ itar \in BOOLEAN
    /\ address \in [Host -> SUBSET Net]
    /\ configured \subseteq Host
    /\ outbound = [r \in Outgoing |-> outbound[r]]
    /\ \A r \in Outgoing : Pinned(outbound[r])
    /\ ~up => \A r \in Outgoing : outbound[r] = NoRequest

BrokerInv ==
    /\ brokerSet \in Host \cup {NoHost} /\ publisher \in Host \cup {NoHost}
    /\ client \in Host \cup {NoHost}
    /\ brokerCache \in Host \cup {NoHost, "unread"}

OutboundInv == RequestInv /\ BrokerInv

LEMMA NoRequestPinned == Pinned(NoRequest)
BY DEF Pinned, NoRequest

(* One request goes on; the others and the mode stay.                      *)
LEMMA OneRequest ==
    ASSUME RequestInv, up, NEW r \in Outgoing, NEW q, Pinned(q),
           outbound' = [outbound EXCEPT ![r] = q],
           UNCHANGED <<up, itar, address, configured>>
    PROVE  RequestInv'
BY DEF RequestInv, Pinned

LEMMA BeginRequestKeeps ==
    ASSUME RequestInv, NEW r \in Outgoing, BeginRequestOut(r)
    PROVE  RequestInv'
<1>1. PICK h \in Host, guard \in Guard :
        /\ Enforced(h)
        /\ outbound' = [outbound EXCEPT ![r] =
              [step |-> IF guard = "posted" THEN "checked" ELSE "ready",
               guard |-> guard, host |-> h, seen |-> address[h],
               pins |-> IF itar /\ guard \in PinForRequest THEN address[h] ELSE {}]]
  BY DEF BeginRequestOut
<1> DEFINE q == [step |-> IF guard = "posted" THEN "checked" ELSE "ready",
                 guard |-> guard, host |-> h, seen |-> address[h],
                 pins |-> IF itar /\ guard \in PinForRequest THEN address[h] ELSE {}]
<1>2. q \in LetThrough
  BY DEF LetThrough, RequestInv
<1>3. itar => q.seen = {"lan"} /\ (guard = "pinned" => q.pins = {"lan"})
  BY <1>1 DEF Enforced, Private, PinForRequest
<1>4. Pinned(q)
  BY <1>2, <1>3 DEF Pinned
<1>5. outbound' = [outbound EXCEPT ![r] = q]
  BY <1>1
<1> HIDE DEF q
<1> QED
  BY <1>4, <1>5, OneRequest DEF BeginRequestOut

LEMMA ResolveKeeps ==
    ASSUME RequestInv, NEW r \in Outgoing, ResolveAndPin(r)
    PROVE  RequestInv'
<1> DEFINE found == address[outbound[r].host]
           ready == [outbound[r] EXCEPT !.step = "ready", !.pins = found]
<1>0. up
  BY DEF ResolveAndPin, RequestInv, NoRequest
<1>1. outbound[r] \in LetThrough /\ outbound[r].guard = "posted" /\ Pinned(outbound[r])
  BY DEF ResolveAndPin, RequestInv, Pinned, NoRequest, Open
<1>2. \/ found = {"wan"} /\ outbound' = [outbound EXCEPT ![r] = ready]
      \/ outbound' = [outbound EXCEPT ![r] = NoRequest]
  BY DEF ResolveAndPin
<1>3. found = {"wan"} => Pinned(ready)
  <2>1. outbound[r].step \in {"checked", "ready"} /\ (itar => outbound[r].seen = {"lan"})
    BY <1>1 DEF Pinned, LetThrough
  <2>2. found = {"wan"} => ready \in LetThrough /\ ready.seen = outbound[r].seen
    BY <1>1 DEF LetThrough, Net
  <2>3. ready.step = "ready" /\ ready.guard = "posted" /\ ready.pins = found
    BY <1>1 DEF LetThrough
  <2> HIDE DEF ready, found
  <2> QED
    BY <2>1, <2>2, <2>3 DEF Pinned
<1> HIDE DEF ready
<1> QED
  BY <1>0, <1>2, <1>3, NoRequestPinned, OneRequest DEF ResolveAndPin

LEMMA ConnectKeeps ==
    ASSUME RequestInv, NEW r \in Outgoing, ConnectOut(r) \/ CloseRequest(r)
    PROVE  RequestInv'
<1>0. up
  BY DEF ConnectOut, CloseRequest, RequestInv, NoRequest
<1>1. CASE outbound' = [outbound EXCEPT ![r] = NoRequest]
  BY <1>0, <1>1, NoRequestPinned, OneRequest DEF ConnectOut, CloseRequest
<1>2. CASE /\ ConnectOut(r)
           /\ \E to \in Reachable(outbound[r]) :
                 outbound' = [outbound EXCEPT ![r] =
                                [step |-> "open", guard |-> outbound[r].guard, seen |-> outbound[r].seen, to |-> to]]
  <2>1. PICK to \in Reachable(outbound[r]) :
                 outbound' = [outbound EXCEPT ![r] =
                                [step |-> "open", guard |-> outbound[r].guard, seen |-> outbound[r].seen, to |-> to]]
    BY <1>2
  <2>2. outbound[r] \in LetThrough /\ outbound[r].step = "ready" /\ Pinned(outbound[r])
    BY <1>2 DEF ConnectOut, RequestInv, Pinned, NoRequest, Open
  <2>3. to \in Net
    BY <2>1, <2>2 DEF Reachable, RequestInv, LetThrough
  <2> DEFINE q == [step |-> "open", guard |-> outbound[r].guard, seen |-> outbound[r].seen, to |-> to]
  <2>4. Pinned(q)
    BY <2>1, <2>2, <2>3 DEF Pinned, Open, LetThrough, Reachable
  <2>5. outbound' = [outbound EXCEPT ![r] = q]
    BY <2>1
  <2> HIDE DEF q
  <2> QED
    BY <1>0, <1>2, <2>4, <2>5, OneRequest DEF ConnectOut
<1> QED
  BY <1>1, <1>2 DEF ConnectOut, CloseRequest

(* The server starts and stops without a request under way.                *)
LEMMA ServerKeeps ==
    ASSUME RequestInv, Boot \/ StopServer \/ NameMoves \/ Configure
    PROVE  RequestInv'
<1>1. CASE Boot
  <2>1. itar' \in BOOLEAN /\ up' \in BOOLEAN
    BY <1>1 DEF Boot, RequestInv
  <2>2. \A r \in Outgoing : outbound'[r] = NoRequest
    BY <1>1 DEF Boot, RequestInv
  <2>3. \A r \in Outgoing : Pinned(outbound[r])'
    BY <2>2 DEF Pinned, NoRequest
  <2> QED
    BY <1>1, <2>1, <2>2, <2>3 DEF Boot, RequestInv
<1>2. CASE StopServer
  <2>1. \A r \in Outgoing : outbound'[r] = NoRequest
    BY <1>2 DEF StopServer
  <2>2. \A r \in Outgoing : Pinned(outbound[r])'
    BY <2>1 DEF Pinned, NoRequest
  <2> QED
    BY <1>2, <2>1, <2>2 DEF StopServer, RequestInv
<1>3. CASE NameMoves
  BY <1>3 DEF NameMoves, RequestInv, Pinned
<1>4. CASE Configure
  BY <1>4 DEF Configure, RequestInv, Pinned
<1> QED
  BY <1>1, <1>2, <1>3, <1>4

LEMMA BrokerKeeps ==
    ASSUME OutboundInv, [OutboundNext]_outboundVars
    PROVE  BrokerInv'
BY DEF OutboundInv, BrokerInv, OutboundNext, outboundVars, brokerVars, Boot, StopServer, NameMoves,
       Configure, BeginRequestOut, ResolveAndPin, ConnectOut, CloseRequest, SetBroker, PublishEvent,
       ConnectBroker, BrokerAges

LEMMA OutboundStep ==
    ASSUME OutboundInv, [OutboundNext]_outboundVars
    PROVE  OutboundInv'
<1>1. CASE SetBroker \/ PublishEvent \/ ConnectBroker \/ BrokerAges \/ UNCHANGED outboundVars
  BY <1>1, BrokerKeeps DEF SetBroker, PublishEvent, ConnectBroker, BrokerAges, outboundVars,
                           requestVars, OutboundInv, RequestInv, Pinned
<1> QED
  BY <1>1, BrokerKeeps, BeginRequestKeeps, ResolveKeeps, ConnectKeeps, ServerKeeps
     DEF OutboundNext, OutboundInv

LEMMA OutboundStarts == OutboundInit => OutboundInv
BY NoRequestPinned DEF OutboundInit, OutboundInv, RequestInv, BrokerInv, Net

LEMMA OutboundAlways == OutboundSpec => []OutboundInv
BY OutboundStarts, OutboundStep, PTL DEF OutboundSpec

LEMMA OutboundTyped == OutboundInv => OutboundTypeOK
BY DEF OutboundInv, RequestInv, BrokerInv, Pinned, LetThrough, Open, OutboundTypeOK

(* Types: a request is nothing, checked, let through or open.              *)
THEOREM OutboundTypes == OutboundSpec => []OutboundTypeOK
BY OutboundTyped, OutboundAlways, PTL

(* What a pin is worth (PinsHold), whatever the name resolves to between   *)
(* the look and the connection, and across restarts that turn the ITAR     *)
(* mode on or off.                                                         *)
THEOREM PinsAreKept == OutboundSpec => []PinsHold
<1>1. OutboundInv => PinsHold
  BY DEF OutboundInv, RequestInv, Pinned, PinsHold
<1> QED
  BY <1>1, OutboundAlways, PTL

-----------------------------------------------------------------------------
(* What disconnect leaves of the list: clients of it, in their order, none *)
(* of them further back than before.                                       *)
LEMMA WithoutIs ==
    ASSUME NEW S, NEW s \in Seq(S), NEW gone
    PROVE  /\ Without(s, gone) \in Seq(S)
           /\ \E e \in [1 .. Len(Without(s, gone)) -> 1 .. Len(s)] :
                 /\ \A i \in 1 .. Len(Without(s, gone)) : e[i] >= i /\ Without(s, gone)[i] = s[e[i]]
                 /\ \A i, j \in 1 .. Len(Without(s, gone)) : i < j => e[i] < e[j]
<1> DEFINE n == Len(s)
           step == [x \in Seq(S) \X (1 .. n) |->
                       IF s[x[2]] \in gone THEN x[1] ELSE Append(x[1], s[x[2]])]
           kept == CHOOSE f : f = [i \in 0 .. n |->
                       IF i = 0 THEN <<>>
                       ELSE IF s[i] \in gone THEN f[i - 1] ELSE Append(f[i - 1], s[i])]
<1>1. n \in Nat /\ <<>> \in Seq(S)
  OBVIOUS
<1>2. step \in [Seq(S) \X (1 .. n) -> Seq(S)]
  <2> SUFFICES ASSUME NEW t \in Seq(S), NEW k \in 1 .. n PROVE Append(t, s[k]) \in Seq(S)
    OBVIOUS
  <2> QED
    OBVIOUS
<1>3. \A t \in Seq(S), k \in 1 .. n :
         step[<<t, k>>] = IF s[k] \in gone THEN t ELSE Append(t, s[k])
  OBVIOUS
<1> HIDE DEF step
<1>4. \E h \in [0 .. n -> Seq(S)] : h[0] = <<>> /\ \A k \in 1 .. n : h[k] = step[<<h[k - 1], k>>]
  <2> DEFINE V == Seq(S)
             base == <<>>
  <2>1. n \in Nat /\ base \in V /\ step \in [V \X (1 .. n) -> V]
    BY <1>1, <1>2
  <2>2. base = <<>> /\ V = Seq(S)
    OBVIOUS
  <2> HIDE DEF n, V, base
  <2>3. \E h \in [0 .. n -> V] : Iterates(h, n, base, step)
    BY <2>1, Iterated
  <2> QED
    BY <2>2, <2>3 DEF Iterates
<1>5. PICK h \in [0 .. n -> Seq(S)] : h[0] = <<>> /\ \A k \in 1 .. n : h[k] = step[<<h[k - 1], k>>]
  BY <1>4
<1>6. h = [i \in 0 .. n |->
              IF i = 0 THEN <<>>
              ELSE IF s[i] \in gone THEN h[i - 1] ELSE Append(h[i - 1], s[i])]
  <2> SUFFICES ASSUME NEW i \in 0 .. n, i # 0
               PROVE  h[i] = IF s[i] \in gone THEN h[i - 1] ELSE Append(h[i - 1], s[i])
    BY <1>5
  <2>1. i \in 1 .. n /\ i - 1 \in 0 .. n
    BY <1>1
  <2>2. h[i - 1] \in Seq(S)
    BY <2>1
  <2> QED
    BY <1>3, <1>5, <2>1, <2>2
<1>7. kept = [i \in 0 .. n |->
              IF i = 0 THEN <<>>
              ELSE IF s[i] \in gone THEN kept[i - 1] ELSE Append(kept[i - 1], s[i])]
  BY <1>6
<1>8. Without(s, gone) = kept[n]
  BY DEF Without
<1> HIDE DEF kept
<1> DEFINE Good(m) ==
             /\ kept[m] \in Seq(S)
             /\ \E e \in [1 .. Len(kept[m]) -> 1 .. m] :
                   /\ \A i \in 1 .. Len(kept[m]) : e[i] >= i /\ kept[m][i] = s[e[i]]
                   /\ \A i, j \in 1 .. Len(kept[m]) : i < j => e[i] < e[j]
           T == {m \in Nat : m <= n => Good(m)}
<1>9. Good(0)
  <2>1. kept[0] = <<>>
    BY <1>1, <1>7
  <2> DEFINE none == [i \in 1 .. 0 |-> i]
  <2>2. none \in [1 .. Len(kept[0]) -> 1 .. 0]
    BY <2>1
  <2> HIDE DEF none
  <2> QED
    BY <2>1, <2>2
<1>10. ASSUME NEW m \in T, m + 1 <= n PROVE Good(m + 1)
  <2>1. m \in Nat /\ m + 1 \in 1 .. n /\ (m + 1) - 1 = m /\ m + 1 # 0
    BY <1>1, <1>10
  <2>2. kept[m + 1] = IF s[m + 1] \in gone THEN kept[m] ELSE Append(kept[m], s[m + 1])
    <3>1. m + 1 \in 0 .. n
      BY <2>1
    <3>2. kept[m + 1] = IF m + 1 = 0 THEN <<>>
                        ELSE IF s[m + 1] \in gone THEN kept[(m + 1) - 1]
                        ELSE Append(kept[(m + 1) - 1], s[m + 1])
      BY <1>7, <3>1
    <3> QED
      BY <2>1, <3>2
  <2>3. kept[m] \in Seq(S)
    BY <1>1, <1>10, <2>1
  <2>4. PICK e \in [1 .. Len(kept[m]) -> 1 .. m] :
           /\ \A i \in 1 .. Len(kept[m]) : e[i] >= i /\ kept[m][i] = s[e[i]]
           /\ \A i, j \in 1 .. Len(kept[m]) : i < j => e[i] < e[j]
    BY <1>1, <1>10, <2>1
  <2>5. CASE s[m + 1] \in gone
    <3>1. kept[m + 1] = kept[m]
      BY <2>2, <2>5
    <3>2. e \in [1 .. Len(kept[m]) -> 1 .. (m + 1)]
      BY <2>1
    <3> QED
      BY <2>3, <2>4, <3>1, <3>2
  <2>6. CASE s[m + 1] \notin gone
    <3> DEFINE t == kept[m]
               u == kept[m + 1]
               l == Len(t)
               d == [i \in 1 .. (l + 1) |-> IF i <= l THEN e[i] ELSE m + 1]
    <3>1. t \in Seq(S) /\ l \in Nat /\ s[m + 1] \in S
      BY <2>1, <2>3
    <3>2. u = Append(t, s[m + 1])
      BY <2>2, <2>6
    <3>3. u \in Seq(S) /\ Len(u) = l + 1 /\ u[l + 1] = s[m + 1] /\ \A i \in 1 .. l : u[i] = t[i]
      BY <3>1, <3>2, AppendProperties
    <3>4. l <= m
      <4>1. CASE l = 0
        BY <2>1, <4>1
      <4>2. CASE l # 0
        <5>1. l \in 1 .. l
          BY <3>1, <4>2
        <5>2. e[l] \in 1 .. m /\ e[l] >= l
          BY <2>4, <5>1
        <5> QED
          BY <2>1, <3>1, <5>2
      <4> QED
        BY <4>1, <4>2
    <3>5. e \in [1 .. l -> 1 .. m]
      OBVIOUS
    <3>7. \A i \in 1 .. l : e[i] >= i /\ t[i] = s[e[i]]
      BY <2>4
    <3>8. \A i, j \in 1 .. l : i < j => e[i] < e[j]
      BY <2>4
    <3> HIDE DEF t, u, l
    <3>6. d \in [1 .. (l + 1) -> 1 .. (m + 1)]
      BY <2>1, <3>1, <3>5
    <3>9. ASSUME NEW i \in 1 .. (l + 1) PROVE d[i] >= i /\ u[i] = s[d[i]]
      <4>1. CASE i <= l
        <5>1. i \in 1 .. l /\ d[i] = e[i]
          BY <3>1, <4>1
        <5> HIDE DEF d
        <5> QED
          BY <3>3, <3>7, <5>1
      <4>2. CASE i = l + 1
        <5>1. d[i] = m + 1
          BY <3>1, <4>2
        <5> QED
          BY <2>1, <3>1, <3>3, <3>4, <4>2, <5>1
      <4> QED
        BY <3>1, <4>1, <4>2
    <3>10. ASSUME NEW i \in 1 .. (l + 1), NEW j \in 1 .. (l + 1), i < j PROVE d[i] < d[j]
      <4>1. i \in 1 .. l /\ d[i] = e[i] /\ e[i] \in 1 .. m
        BY <3>1, <3>5, <3>10
      <4>2. CASE j <= l
        BY <3>1, <3>8, <3>10, <4>1, <4>2
      <4>3. CASE j = l + 1
        <5>1. d[j] = m + 1
          BY <3>1, <4>3
        <5> QED
          BY <2>1, <4>1, <5>1
      <4> QED
        BY <3>1, <4>2, <4>3
    <3> HIDE DEF d
    <3>11. \E f \in [1 .. Len(u) -> 1 .. (m + 1)] :
              /\ \A i \in 1 .. Len(u) : f[i] >= i /\ u[i] = s[f[i]]
              /\ \A i, j \in 1 .. Len(u) : i < j => f[i] < f[j]
      BY <3>3, <3>6, <3>9, <3>10
    <3> QED
      BY <3>3, <3>11 DEF u
  <2> QED
    BY <2>5, <2>6
<1> HIDE DEF Good
<1>11. T = Nat
  <2>1. T \in SUBSET Nat /\ 0 \in T
    BY <1>9
  <2>2. ASSUME NEW m \in T PROVE m + 1 \in T
    <3>1. m + 1 \in Nat
      OBVIOUS
    <3> QED
      BY <1>10, <3>1
  <2> HIDE DEF T
  <2> QED
    BY <2>1, <2>2, NatInduct
<1>12. Good(n)
  BY <1>1, <1>11
<1> QED
  BY <1>8, <1>12 DEF Good
-----------------------------------------------------------------------------
(* The order of the ids is the order of the commits.                       *)
LEMMA EventsInOrderIs ==
    ASSUME NEW b \in Nat, NEW R, IsFiniteSet(R),
           \A r \in R : r.id \in 0 .. b /\ r.event = r.id,
           \A q, r \in R : q.id = r.id => q = r
    PROVE  /\ EventsInOrder(R) \in Seq(Nat)
           /\ \A m \in DOMAIN EventsInOrder(R) : \E r \in R : EventsInOrder(R)[m] = r.id
           /\ \A k, m \in DOMAIN EventsInOrder(R) :
                 k < m => EventsInOrder(R)[k] < EventsInOrder(R)[m]
<1> DEFINE key == [r \in R |-> r.id]
           n == Cardinality(R)
<1>1. n \in Nat
  BY FS_CardinalityType
<1>2. key \in [R -> 0 .. b] /\ \A q, r \in R : key[q] = key[r] => q = r
  OBVIOUS
<1>3. PICK rows \in [1 .. n -> R] : \A i, j \in 1 .. n : i < j => key[rows[i]] < key[rows[j]]
  <2> HIDE DEF key
  <2> QED
    BY <1>2, Enumerated
<1>4. \E o \in [1 .. n -> R] : \A i, j \in DOMAIN o : i < j => o[i].id < o[j].id
  BY <1>3
<1> DEFINE o == RowsInOrder(R)
           es == EventsInOrder(R)
<1>5. o \in [1 .. n -> R] /\ \A i, j \in 1 .. n : i < j => o[i].id < o[j].id
  <2>1. o \in [1 .. n -> R] /\ \A i, j \in DOMAIN o : i < j => o[i].id < o[j].id
    BY <1>4 DEF RowsInOrder
  <2> QED
    BY <2>1
<1> HIDE DEF o, key
<1>6. es = [i \in 1 .. n |-> o[i].event]
  BY DEF EventsInOrder, o
<1>7. \A i \in 1 .. n : o[i] \in R /\ o[i].event = o[i].id /\ o[i].id \in Nat
  <2>1. \A i \in 1 .. n : o[i] \in R
    BY <1>5
  <2> QED
    BY <2>1
<1> HIDE DEF n, es
<1>8. es \in [1 .. n -> Nat] /\ DOMAIN es = 1 .. n /\ \A i \in 1 .. n : es[i] = o[i].id
  BY <1>6, <1>7
<1>9. es \in Seq(Nat)
  BY <1>1, <1>8
<1>10. /\ \A m \in DOMAIN es : \E r \in R : es[m] = r.id
       /\ \A k, m \in DOMAIN es : k < m => es[k] < es[m]
  BY <1>5, <1>7, <1>8
<1> QED
  BY <1>9, <1>10 DEF es

(* Where a read leaves last_id.                                            *)
LEMMA NewestIdIs ==
    ASSUME NEW b \in Nat, NEW R, \A r \in R : r.id \in 0 .. b
    PROVE  /\ R = {} => NewestId(R) = hub.last
           /\ R # {} => NewestId(R) \in {r.id : r \in R} /\ \A r \in R : r.id <= NewestId(R)
<1>1. ASSUME R # {}
      PROVE  NewestId(R) \in {r.id : r \in R} /\ \A r \in R : r.id <= NewestId(R)
  <2> DEFINE K == {r.id : r \in R}
  <2>1. K \in SUBSET (0 .. b) /\ K # {}
    BY <1>1
  <2>2. NewestId(R) = Max(K)
    BY <1>1 DEF NewestId
  <2> HIDE DEF K
  <2>3. Max(K) \in K /\ \A q \in K : q <= Max(K)
    BY <2>1, GreatestIn
  <2> QED
    BY <2>2, <2>3 DEF K
<1> QED
  BY <1>1 DEF NewestId

-----------------------------------------------------------------------------
Hub == [step : {"asleep", "read", "sending"}, last : Nat, cleaned : Nat]

TableKeeps ==
    /\ tick \in Nat /\ pushed \in Nat /\ serial = pushed
    /\ hub \in Hub /\ hub.last <= pushed
    /\ IsFiniteSet(events)
    /\ \A r \in events : r.id \in 1 .. pushed /\ r.event = r.id /\ r.at \in Nat /\ r.at <= tick
    /\ \A q, r \in events : q.id = r.id => q = r

(* Between the SELECT and the cleanup of the same call no event that lies  *)
(* ahead is old enough to be deleted.                                      *)
AheadIsYoung ==
    hub.step = "read" => \A r \in events : r.id > hub.last => r.at + EventTtl >= tick

TableInv == TableKeeps /\ AheadIsYoung /\ EventsKept

Increasing(s) == \A i, j \in DOMAIN s : i < j => s[i] < s[j]

(* What the broadcaster holds was read after everything its clients have;  *)
(* those it has passed have got the first of it, the others nothing.       *)
LoopKeeps ==
    /\ sockets \in [open : Seq(Client), at : Nat \ {0}, dead : SUBSET Client]
    /\ \A i, j \in DOMAIN sockets.open : sockets.open[i] = sockets.open[j] => i = j
    /\ hub.step # "sending" => sockets.at = 1
    /\ hub.step = "asleep" => outgoing = <<>>
    /\ outgoing \in Seq(Nat) /\ Increasing(outgoing)
    /\ \A m \in DOMAIN outgoing : outgoing[m] <= hub.last

ClientsBehind ==
    /\ received \in [Client -> Seq(Nat)]
    /\ \A i \in DOMAIN sockets.open : \A k \in DOMAIN received[sockets.open[i]] :
          /\ received[sockets.open[i]][k] <= hub.last
          /\ \A m \in DOMAIN outgoing :
                i >= sockets.at \/ m >= 2 => received[sockets.open[i]][k] < outgoing[m]

LoopInv == LoopKeeps /\ ClientsBehind /\ ClientsInOrder

HubInv == TableInv /\ LoopInv

LEMMA HubStarts == HubInit => HubInv
BY EventHubAssumption, FS_EmptySet
   DEF HubInit, HubInv, LoopInv, TableInv, TableKeeps, AheadIsYoung, EventsKept, LoopKeeps, ClientsBehind,
       ClientsInOrder, Increasing, Hub, NewHub, NoSockets

(* A new row has the largest id and is younger than EventTtl.              *)
LEMMA PushKeepsTable == TableInv /\ PushEvent => TableInv'
<1> SUFFICES ASSUME TableInv, PushEvent PROVE TableInv'
  OBVIOUS
<1>1. PICK wait \in 0 .. BusyWait :
         /\ wait <= tick
         /\ events' = events \cup {[id |-> FreshId, at |-> tick - wait, event |-> pushed + 1]}
  BY DEF PushEvent
<1> DEFINE new == [id |-> FreshId, at |-> tick - wait, event |-> pushed + 1]
<1>2. /\ tick \in Nat /\ pushed \in Nat /\ serial = pushed
      /\ hub \in Hub /\ hub.last <= pushed /\ hub.last \in Nat
      /\ tick' = tick /\ hub' = hub /\ taken' = taken /\ pushed' = pushed + 1
      /\ serial' = pushed + 1
  BY DEF TableInv, TableKeeps, PushEvent, FreshId, Hub
<1>3. new.id = pushed + 1 /\ new.event = pushed + 1 /\ new.at = tick - wait
  BY <1>2 DEF FreshId
<1>4. new.at \in Nat /\ new.at <= tick /\ new.at + EventTtl >= tick
  BY <1>1, <1>2, <1>3, EventHubAssumption
<1>5. events' = events \cup {new} /\ IsFiniteSet(events')
  BY <1>1, FS_AddElement DEF TableInv, TableKeeps
<1> HIDE DEF new
<1>6. TableKeeps'
  <2>1. \A r \in events' : r.id \in 1 .. pushed' /\ r.event = r.id /\ r.at \in Nat /\ r.at <= tick'
    BY <1>2, <1>3, <1>4, <1>5 DEF TableInv, TableKeeps
  <2>2. \A q, r \in events' : q.id = r.id => q = r
    BY <1>2, <1>3, <1>5 DEF TableInv, TableKeeps
  <2> QED
    BY <1>2, <1>5, <2>1, <2>2 DEF TableKeeps
<1>7. AheadIsYoung'
  BY <1>2, <1>4, <1>5 DEF TableInv, AheadIsYoung
<1>8. EventsKept'
  <2> SUFFICES ASSUME NEW e \in 1 .. pushed + 1
               PROVE  e \in taken \/ \E r \in events' : r.event = e /\ r.id > hub.last
    BY <1>2 DEF EventsKept
  <2>1. CASE e = pushed + 1
    BY <1>2, <1>3, <1>5, <2>1
  <2>2. CASE e \in 1 .. pushed
    BY <1>5, <2>2 DEF TableInv, EventsKept
  <2> QED
    BY <1>2, <2>1, <2>2
<1> QED
  BY <1>6, <1>7, <1>8 DEF TableInv

(* What a read leaves ahead of it: nothing.                                *)
LEMMA UnreadIs ==
    ASSUME TableInv
    PROVE  /\ pushed \in Nat /\ hub.last \in Nat
           /\ IsFiniteSet(Unread)
           /\ \A r \in Unread : r.id \in 0 .. pushed /\ r.event = r.id /\ hub.last < r.id
           /\ \A q, r \in Unread : q.id = r.id => q = r
           /\ NewestId(Unread) \in hub.last .. pushed
           /\ \A r \in events : r.id <= NewestId(Unread)
<1>1. pushed \in Nat /\ hub.last \in Nat /\ hub.last <= pushed /\ Unread \subseteq events
  BY DEF TableInv, TableKeeps, Hub, Unread
<1>2. IsFiniteSet(Unread)
  BY <1>1, FS_Subset DEF TableInv, TableKeeps
<1>3. \A r \in events : r.id \in 1 .. pushed /\ r.event = r.id
  BY DEF TableInv, TableKeeps
<1>4. /\ \A r \in Unread : r.id \in 0 .. pushed /\ r.event = r.id /\ hub.last < r.id
      /\ \A q, r \in Unread : q.id = r.id => q = r
      /\ \A r \in events : r \in Unread \/ r.id <= hub.last
  BY <1>1, <1>3 DEF Unread, TableInv, TableKeeps
<1>5. /\ Unread = {} => NewestId(Unread) = hub.last
      /\ Unread # {} => /\ NewestId(Unread) \in {r.id : r \in Unread}
                        /\ \A r \in Unread : r.id <= NewestId(Unread)
  BY <1>1, <1>4, NewestIdIs
<1>6. CASE Unread = {}
  BY <1>1, <1>2, <1>4, <1>5, <1>6
<1>7. CASE Unread # {}
  <2>1. PICK q \in Unread : NewestId(Unread) = q.id
    BY <1>5, <1>7
  <2>2. q.id \in 0 .. pushed /\ hub.last < q.id
    BY <1>4
  <2>3. \A r \in events : r.id <= NewestId(Unread)
    <3> SUFFICES ASSUME NEW r \in events PROVE r.id <= q.id
      BY <2>1
    <3>1. r.id \in Nat
      BY <1>1, <1>3
    <3>2. r \in Unread \/ r.id <= hub.last
      BY <1>4
    <3> QED
      BY <1>1, <1>5, <1>7, <2>1, <2>2, <3>1, <3>2
  <2> QED
    BY <1>1, <1>2, <1>4, <2>1, <2>2, <2>3
<1> QED
  BY <1>6, <1>7

LEMMA ReadKeepsTable == TableInv /\ ReadEvents => TableInv'
<1> SUFFICES ASSUME TableInv, ReadEvents PROVE TableInv'
  OBVIOUS
<1> DEFINE new == NewestId(Unread)
<1>1. /\ new \in hub.last .. pushed /\ pushed \in Nat /\ hub.last \in Nat
      /\ \A r \in events : r.id <= new /\ r.id \in Nat
  BY UnreadIs DEF TableInv, TableKeeps
<1>2. /\ hub' = [hub EXCEPT !.step = "read", !.last = new]
      /\ UNCHANGED <<events, serial, pushed, tick>>
      /\ taken' = taken \cup {r.event : r \in Unread}
  BY DEF ReadEvents
<1> HIDE DEF new
<1>3. hub' \in Hub /\ hub'.last = new /\ new \in Nat /\ new <= pushed
  <2>1. hub \in Hub /\ new \in Nat /\ new <= pushed
    BY <1>1 DEF TableInv, TableKeeps
  <2> QED
    BY <1>2, <2>1 DEF Hub
<1>4. TableKeeps'
  BY <1>2, <1>3 DEF TableInv, TableKeeps
<1>5. AheadIsYoung'
  <2> SUFFICES ASSUME NEW r \in events PROVE ~ (r.id > new)
    BY <1>2, <1>3 DEF AheadIsYoung
  <2> QED
    BY <1>1, <1>3
<1>6. EventsKept'
  <2> SUFFICES ASSUME NEW e \in 1 .. pushed PROVE e \in taken'
    BY <1>2 DEF EventsKept
  <2>1. e \in taken \/ \E r \in Unread : r.event = e
    BY DEF TableInv, EventsKept, Unread
  <2> QED
    BY <1>2, <2>1
<1> QED
  BY <1>4, <1>5, <1>6 DEF TableInv

LEMMA CleanKeepsTable == TableInv /\ CleanEvents => TableInv'
<1> SUFFICES ASSUME TableInv, CleanEvents PROVE TableInv'
  OBVIOUS
<1>1. /\ hub.step = "read" /\ UNCHANGED <<serial, pushed, tick, taken>>
      /\ hub \in Hub /\ tick \in Nat
  BY DEF TableInv, TableKeeps, CleanEvents
<1>2. hub' \in Hub /\ hub'.last = hub.last /\ hub'.step = "sending"
  BY <1>1 DEF CleanEvents, Hub
<1>3. events' = events \/ events' = {r \in events : r.at + EventTtl >= tick}
  BY DEF CleanEvents
<1>4. events' \subseteq events /\ IsFiniteSet(events')
  BY <1>3, FS_Subset DEF TableInv, TableKeeps
<1>5. TableKeeps'
  BY <1>1, <1>2, <1>4 DEF TableInv, TableKeeps
<1>6. EventsKept'
  <2>1. \A r \in events : r.id > hub.last => r \in events'
    BY <1>1, <1>3 DEF TableInv, AheadIsYoung
  <2> QED
    BY <1>1, <1>2, <2>1 DEF TableInv, EventsKept
<1> QED
  BY <1>2, <1>5, <1>6 DEF TableInv, AheadIsYoung

(* The loop over the clients, a restart of the server and the time.        *)
LEMMA RestKeepsTable ==
    ASSUME TableInv,
           UNCHANGED <<events, serial, pushed, taken>>,
           \/ UNCHANGED <<tick, hub>>
           \/ tick' = tick /\ hub' = [hub EXCEPT !.step = "asleep"]
           \/ tick' = tick /\ hub' = NewHub
           \/ tick' = tick + 1 /\ hub' = hub /\ hub.step # "read"
    PROVE  TableInv'
<1>1. tick \in Nat /\ tick' \in Nat /\ tick <= tick' /\ hub \in Hub /\ hub.last \in Nat
  BY DEF TableInv, TableKeeps, Hub
<1>2. hub' \in Hub /\ hub'.last <= hub.last /\ (hub'.step = "read" => UNCHANGED <<tick, hub>>)
  BY <1>1 DEF Hub, NewHub
<1>3. TableKeeps'
  <2>1. hub'.last <= pushed
    BY <1>1, <1>2 DEF TableInv, TableKeeps, Hub
  <2>2. \A r \in events : r.at <= tick'
    BY <1>1 DEF TableInv, TableKeeps
  <2> QED
    BY <1>1, <1>2, <2>1, <2>2 DEF TableInv, TableKeeps
<1>4. AheadIsYoung'
  BY <1>2 DEF TableInv, AheadIsYoung
<1>5. EventsKept'
  <2>1. \A r \in events : r.id > hub.last => r.id > hub'.last
    BY <1>1, <1>2 DEF Hub, TableInv, TableKeeps
  <2> QED
    BY <2>1 DEF TableInv, EventsKept
<1> QED
  BY <1>3, <1>4, <1>5 DEF TableInv

LEMMA TableKept == TableInv /\ [HubNext]_hubVars => TableInv'
<1> SUFFICES ASSUME TableInv, [HubNext]_hubVars PROVE TableInv'
  OBVIOUS
<1>1. CASE PushEvent
  BY <1>1, PushKeepsTable
<1>2. CASE ReadEvents
  BY <1>2, ReadKeepsTable
<1>3. CASE CleanEvents
  BY <1>3, CleanKeepsTable
<1>4. CASE SendToClient
  BY <1>4, RestKeepsTable DEF SendToClient
<1>5. CASE EndBroadcast
  BY <1>5, RestKeepsTable DEF EndBroadcast
<1>6. CASE \E c \in Client : Connect(c) \/ Disconnect(c)
  BY <1>6, RestKeepsTable DEF Connect, Disconnect
<1>7. CASE RestartServer
  BY <1>7, RestKeepsTable DEF RestartServer
<1>8. CASE PassTick
  BY <1>8, RestKeepsTable DEF PassTick
<1>9. CASE UNCHANGED hubVars
  BY <1>9, RestKeepsTable DEF hubVars
<1> QED
  BY <1>1, <1>2, <1>3, <1>4, <1>5, <1>6, <1>7, <1>8, <1>9 DEF HubNext

(* A committed event was read or lies ahead, whatever is cleaned away.     *)
THEOREM EventsAreKept == HubSpec => []EventsKept
<1>1. HubInit => TableInv
  BY HubStarts DEF HubInv
<1>2. TableInv /\ [HubNext]_hubVars => TableInv'
  BY TableKept
<1>3. TableInv => EventsKept
  BY DEF TableInv
<1> QED
  BY <1>1, <1>2, <1>3, PTL DEF HubSpec
-----------------------------------------------------------------------------
(* A step of another actor, and the cleanup.                               *)
LEMMA LoopUntouched ==
    ASSUME LoopInv, UNCHANGED <<outgoing, sockets, received>>,
           \/ hub' = hub
           \/ hub.step = "read" /\ hub'.step = "sending" /\ hub'.last = hub.last
    PROVE  LoopInv'
BY DEF LoopInv, LoopKeeps, ClientsBehind, ClientsInOrder, Increasing

LEMMA ReadKeepsLoop ==
    ASSUME TableInv, LoopInv, ReadEvents
    PROVE  LoopInv'
<1> DEFINE new == NewestId(Unread)
           es == EventsInOrder(Unread)
<1>1. /\ new \in hub.last .. pushed /\ pushed \in Nat /\ hub.last \in Nat
      /\ IsFiniteSet(Unread)
      /\ \A r \in Unread : r.id \in 0 .. pushed /\ r.event = r.id /\ hub.last < r.id
      /\ \A q, r \in Unread : q.id = r.id => q = r
      /\ \A r \in events : r.id <= new
  BY UnreadIs
<1>2. /\ hub.step = "asleep"
      /\ hub' = [hub EXCEPT !.step = "read", !.last = new] /\ outgoing' = es
      /\ UNCHANGED <<sockets, received>>
  BY DEF ReadEvents
<1>3. es \in Seq(Nat) /\ Increasing(es) /\ \A m \in DOMAIN es : \E r \in Unread : es[m] = r.id
  BY <1>1, EventsInOrderIs DEF Increasing
<1> HIDE DEF new, es
<1>4. hub'.step = "read" /\ hub'.last = new /\ new \in Nat /\ hub.last <= new
  <2>1. hub \in Hub
    BY DEF TableInv, TableKeeps
  <2> QED
    BY <1>1, <1>2, <2>1 DEF Hub
<1>5. \A m \in DOMAIN es : es[m] <= new /\ hub.last < es[m]
  BY <1>1, <1>3 DEF Unread
<1>6. LoopKeeps'
  BY <1>2, <1>3, <1>4, <1>5 DEF LoopInv, LoopKeeps
<1>7. ClientsBehind'
  <2>1. received \in [Client -> Seq(Nat)] /\ sockets.open \in Seq(Client)
    BY DEF LoopInv, LoopKeeps, ClientsBehind
  <2> SUFFICES ASSUME NEW i \in DOMAIN sockets.open, NEW k \in DOMAIN received[sockets.open[i]]
               PROVE  /\ received[sockets.open[i]][k] <= new
                      /\ \A m \in DOMAIN es : received[sockets.open[i]][k] < es[m]
    BY <1>2, <1>4, <2>1 DEF ClientsBehind
  <2>2. received[sockets.open[i]][k] <= hub.last
    BY DEF LoopInv, ClientsBehind
  <2>3. received[sockets.open[i]] \in Seq(Nat)
    BY <2>1
  <2>4. received[sockets.open[i]][k] \in Nat /\ \A m \in DOMAIN es : es[m] \in Nat
    BY <1>3, <2>3
  <2> QED
    BY <1>1, <1>4, <1>5, <2>2, <2>4
<1> QED
  BY <1>2, <1>6, <1>7 DEF LoopInv, ClientsInOrder

LEMMA SendKeepsLoop ==
    ASSUME LoopInv, SendToClient
    PROVE  LoopInv'
<1> DEFINE open == sockets.open
           at == sockets.at
           c == open[at]
<1>1. /\ sockets \in [open : Seq(Client), at : Nat \ {0}, dead : SUBSET Client]
      /\ at \in 1 .. Len(open) /\ at \in Nat /\ at >= 1
      /\ \A i, j \in DOMAIN open : open[i] = open[j] => i = j
      /\ open \in Seq(Client)
      /\ outgoing \in Seq(Nat) /\ outgoing # <<>>
      /\ hub.step = "sending"
      /\ UNCHANGED <<hub, outgoing>>
  BY DEF LoopInv, LoopKeeps, SendToClient
<1>2. c \in Client /\ at \in DOMAIN open
  BY <1>1
<1>3. \/ /\ received' = [received EXCEPT ![c] = Append(@, Head(outgoing))]
         /\ sockets' = [sockets EXCEPT !.at = @ + 1]
      \/ /\ sockets' = [sockets EXCEPT !.at = @ + 1, !.dead = @ \cup {c}]
         /\ UNCHANGED received
  BY DEF SendToClient
<1>4. /\ sockets' \in [open : Seq(Client), at : Nat \ {0}, dead : SUBSET Client]
      /\ sockets'.open = open /\ sockets'.at = at + 1
  <2> DEFINE new == [sockets EXCEPT !.at = @ + 1]
  <2>1. new \in [open : Seq(Client), at : Nat \ {0}, dead : SUBSET Client]
        /\ new.open = open /\ new.at = at + 1
    BY <1>1
  <2>2. sockets' = new \/ sockets' = [new EXCEPT !.dead = @ \cup {c}]
    BY <1>1, <1>3
  <2> HIDE DEF new
  <2> QED
    BY <1>2, <2>1, <2>2
<1> HIDE DEF open, at, c
<1>5. LoopKeeps'
  BY <1>1, <1>4 DEF LoopInv, LoopKeeps, open
<1>6. outgoing[1] \in Nat /\ 1 \in DOMAIN outgoing /\ Head(outgoing) = outgoing[1]
  BY <1>1
<1>7. received \in [Client -> Seq(Nat)]
  BY DEF LoopInv, ClientsBehind
<1>8. /\ \A i \in DOMAIN open : \A k \in DOMAIN received[open[i]] :
            /\ received[open[i]][k] <= hub.last
            /\ \A m \in DOMAIN outgoing :
                  i >= at \/ m >= 2 => received[open[i]][k] < outgoing[m]
      /\ \A b \in Client : \A i, j \in DOMAIN received[b] : i < j => received[b][i] < received[b][j]
      /\ \A k, m \in DOMAIN outgoing : k < m => outgoing[k] < outgoing[m]
      /\ \A m \in DOMAIN outgoing : outgoing[m] <= hub.last
  BY DEF LoopInv, LoopKeeps, ClientsBehind, ClientsInOrder, Increasing, open, at
<1>9. CASE UNCHANGED received
  <2>1. ClientsBehind'
    <3> SUFFICES ASSUME NEW i \in DOMAIN open, NEW k \in DOMAIN received[open[i]],
                        NEW m \in DOMAIN outgoing, i >= at + 1 \/ m >= 2
                 PROVE  received[open[i]][k] < outgoing[m]
      BY <1>1, <1>4, <1>7, <1>8, <1>9 DEF ClientsBehind
    <3>1. i \in Nat
      BY <1>1
    <3> QED
      BY <1>1, <1>8, <3>1
  <2> QED
    BY <1>5, <1>9, <2>1 DEF LoopInv, ClientsInOrder
<1>10. CASE received' = [received EXCEPT ![c] = Append(@, Head(outgoing))]
  <2> DEFINE old == received[c]
             new == Append(old, outgoing[1])
             l == Len(old)
  <2>1. old \in Seq(Nat) /\ l \in Nat
    BY <1>2, <1>7
  <2>2. new \in Seq(Nat) /\ Len(new) = l + 1 /\ new[l + 1] = outgoing[1] /\ \A i \in 1 .. l : new[i] = old[i]
    BY <1>6, <2>1, AppendProperties
  <2>3. received' = [received EXCEPT ![c] = new]
    BY <1>6, <1>10
  <2>4. DOMAIN new = 1 .. (l + 1) /\ DOMAIN old = 1 .. l
    BY <2>1, <2>2
  <2> HIDE DEF new, l
  <2>5. received' \in [Client -> Seq(Nat)] /\ received'[c] = new
        /\ \A b \in Client : b # c => received'[b] = received[b]
    BY <1>2, <1>7, <2>2, <2>3
  <2>6. \A k \in 1 .. l : old[k] \in Nat /\ old[k] < outgoing[1] /\ old[k] <= hub.last
    <3>1. \A k \in DOMAIN received[open[at]] :
            received[open[at]][k] <= hub.last /\ received[open[at]][k] < outgoing[1]
      BY <1>1, <1>2, <1>6, <1>8
    <3> QED
      BY <2>1, <2>4, <3>1 DEF c
  <2>7. ClientsInOrder'
    <3> SUFFICES ASSUME NEW b \in Client, NEW i \in DOMAIN received'[b], NEW j \in DOMAIN received'[b], i < j
                 PROVE  received'[b][i] < received'[b][j]
      BY DEF ClientsInOrder
    <3>1. CASE b # c
      BY <1>8, <2>5, <3>1
    <3>2. CASE b = c
      <4>1. i \in 1 .. l /\ j \in 1 .. (l + 1) /\ received'[b] = new
        BY <2>1, <2>4, <2>5, <3>2
      <4>2. CASE j <= l
        <5>1. j \in 1 .. l
          BY <2>1, <4>1, <4>2
        <5>2. old[i] < old[j]
          BY <1>2, <1>8, <2>4, <4>1, <5>1
        <5> QED
          BY <2>2, <4>1, <5>1, <5>2
      <4>3. CASE j = l + 1
        <5>1. new[j] = outgoing[1] /\ new[i] = old[i]
          BY <2>2, <4>1, <4>3
        <5> QED
          BY <2>6, <4>1, <5>1
      <4> QED
        BY <2>1, <4>1, <4>2, <4>3
    <3> QED
      BY <3>1, <3>2
  <2>8. ClientsBehind'
    <3> SUFFICES ASSUME NEW i \in DOMAIN open, NEW k \in DOMAIN received'[open[i]]
                 PROVE  /\ received'[open[i]][k] <= hub.last
                        /\ \A m \in DOMAIN outgoing :
                              i >= at + 1 \/ m >= 2 => received'[open[i]][k] < outgoing[m]
      BY <1>1, <1>4, <2>5 DEF ClientsBehind
    <3>1. i \in Nat /\ open[i] \in Client /\ \A m \in DOMAIN outgoing : m \in Nat /\ outgoing[m] \in Nat
      BY <1>1
    <3>2. CASE i # at
      <4>1. received'[open[i]] = received[open[i]]
        BY <1>1, <1>2, <2>5, <3>1, <3>2 DEF c
      <4> QED
        BY <1>1, <1>8, <3>1, <4>1
    <3>3. CASE i = at
      <4>1. received'[open[i]] = new /\ k \in 1 .. (l + 1)
        BY <2>4, <2>5, <3>3 DEF c
      <4>2. \A m \in DOMAIN outgoing : i >= at + 1 \/ m >= 2 => m >= 2 /\ outgoing[1] < outgoing[m]
        BY <1>1, <1>6, <1>8, <3>1, <3>3
      <4>3. CASE k <= l
        <5>1. k \in 1 .. l /\ new[k] = old[k]
          BY <2>1, <2>2, <4>1, <4>3
        <5>2. old[k] \in Nat /\ old[k] < outgoing[1] /\ old[k] <= hub.last
          BY <2>6, <5>1
        <5> QED
          BY <1>6, <3>1, <4>1, <4>2, <5>1, <5>2
      <4>4. CASE k = l + 1
        <5>1. new[k] = outgoing[1]
          BY <2>2, <4>4
        <5> QED
          BY <1>6, <1>8, <4>1, <4>2, <5>1
      <4> QED
        BY <2>1, <4>1, <4>3, <4>4
    <3> QED
      BY <3>2, <3>3
  <2> QED
    BY <1>5, <2>7, <2>8 DEF LoopInv
<1> QED
  BY <1>3, <1>9, <1>10

(* Some clients leave the list: each of the others is no further back.     *)
LEMMA ClosingKeeps ==
    ASSUME LoopInv, NEW gone, NEW es, NEW at \in Nat \ {0}, NEW dead \in SUBSET Client,
           sockets' = [open |-> Without(sockets.open, gone), at |-> at, dead |-> dead],
           received' = received, outgoing' = es, hub'.last = hub.last,
           hub'.step # "sending" => at = 1, hub'.step = "asleep" => es = <<>>,
           \/ es = outgoing /\ at = sockets.at
           \/ es = <<>>
           \/ outgoing # <<>> /\ es = Tail(outgoing)
    PROVE  LoopInv'
<1> DEFINE open == sockets.open
           left == Without(sockets.open, gone)
<1>1. open \in Seq(Client) /\ \A i, j \in DOMAIN open : open[i] = open[j] => i = j
  BY DEF LoopInv, LoopKeeps
<1>2. /\ left \in Seq(Client)
      /\ \E e \in [1 .. Len(left) -> 1 .. Len(open)] :
            /\ \A i \in 1 .. Len(left) : e[i] >= i /\ left[i] = open[e[i]]
            /\ \A i, j \in 1 .. Len(left) : i < j => e[i] < e[j]
  BY <1>1, WithoutIs
<1> HIDE DEF left
<1>3. PICK e \in [1 .. Len(left) -> 1 .. Len(open)] :
         /\ \A i \in 1 .. Len(left) : e[i] >= i /\ left[i] = open[e[i]]
         /\ \A i, j \in 1 .. Len(left) : i < j => e[i] < e[j]
  BY <1>2
<1>4. sockets' = [open |-> left, at |-> at, dead |-> dead]
  BY DEF left
<1>5. sockets' \in [open : Seq(Client), at : Nat \ {0}, dead : SUBSET Client]
      /\ sockets'.open = left /\ sockets'.at = at
  BY <1>2, <1>4
<1>6. DOMAIN open = 1 .. Len(open) /\ DOMAIN left = 1 .. Len(left)
  BY <1>1, <1>2
<1>7. \A i \in DOMAIN left : i \in Nat /\ e[i] \in DOMAIN open /\ e[i] \in Nat /\ e[i] >= i /\ left[i] = open[e[i]]
  BY <1>1, <1>2, <1>3, <1>6
<1>8. outgoing \in Seq(Nat) /\ Increasing(outgoing) /\ \A m \in DOMAIN outgoing : outgoing[m] <= hub.last
  BY DEF LoopInv, LoopKeeps
<1>9. /\ es \in Seq(Nat)
      /\ \/ es = outgoing /\ at = sockets.at
         \/ \A m \in DOMAIN es : /\ m \in Nat /\ m + 1 \in DOMAIN outgoing
                                 /\ es[m] = outgoing[m + 1] /\ m + 1 >= 2
  <2>1. CASE es = outgoing /\ at = sockets.at
    BY <1>8, <2>1
  <2>2. CASE es = <<>>
    BY <1>8, <2>2
  <2>3. CASE outgoing # <<>> /\ es = Tail(outgoing)
    <3>1. es \in Seq(Nat) /\ Len(es) = Len(outgoing) - 1 /\ \A m \in 1 .. Len(es) : es[m] = outgoing[m + 1]
      BY <1>8, <2>3, HeadTailProperties
    <3>2. Len(outgoing) \in Nat /\ DOMAIN outgoing = 1 .. Len(outgoing) /\ DOMAIN es = 1 .. Len(es)
      BY <1>8, <3>1
    <3>3. ASSUME NEW m \in DOMAIN es PROVE m \in Nat /\ m + 1 \in DOMAIN outgoing /\ m + 1 >= 2
      BY <3>1, <3>2
    <3> QED
      BY <3>1, <3>2, <3>3
  <2> QED
    BY <2>1, <2>2, <2>3
<1>10. Increasing(es) /\ \A m \in DOMAIN es : es[m] <= hub.last
  BY <1>8, <1>9 DEF Increasing
<1>11. \A i, j \in DOMAIN left : left[i] = left[j] => i = j
  <2> SUFFICES ASSUME NEW i \in DOMAIN left, NEW j \in DOMAIN left, i < j, left[i] = left[j]
               PROVE  FALSE
    BY <1>7
  <2>1. e[i] < e[j]
    BY <1>3, <1>6
  <2>2. e[i] = e[j]
    BY <1>1, <1>7
  <2> QED
    BY <1>7, <2>1, <2>2
<1>12. LoopKeeps'
  BY <1>5, <1>9, <1>10, <1>11 DEF LoopKeeps, Increasing
<1>13. ClientsBehind'
  <2>1. received \in [Client -> Seq(Nat)]
    BY DEF LoopInv, ClientsBehind
  <2> SUFFICES ASSUME NEW i \in DOMAIN left, NEW k \in DOMAIN received[left[i]]
               PROVE  /\ received[left[i]][k] <= hub.last
                      /\ \A m \in DOMAIN es : i >= at \/ m >= 2 => received[left[i]][k] < es[m]
    BY <1>5, <2>1 DEF ClientsBehind
  <2>2. /\ received[open[e[i]]][k] <= hub.last
        /\ \A m \in DOMAIN outgoing :
              e[i] >= sockets.at \/ m >= 2 => received[open[e[i]]][k] < outgoing[m]
    BY <1>7 DEF LoopInv, ClientsBehind
  <2>3. sockets.at \in Nat
    BY DEF LoopInv, LoopKeeps
  <2>4. \A m \in DOMAIN es : i >= at \/ m >= 2 => received[left[i]][k] < es[m]
    <3>1. CASE es = outgoing /\ at = sockets.at
      BY <1>7, <2>2, <2>3, <3>1
    <3>2. CASE \A m \in DOMAIN es : /\ m \in Nat /\ m + 1 \in DOMAIN outgoing
                                   /\ es[m] = outgoing[m + 1] /\ m + 1 >= 2
      BY <1>7, <2>2, <3>2
    <3> QED
      BY <1>9, <3>1, <3>2
  <2> QED
    BY <1>7, <2>2, <2>4
<1> QED
  BY <1>12, <1>13 DEF LoopInv, ClientsInOrder

LEMMA EndKeepsLoop ==
    ASSUME TableInv, LoopInv, EndBroadcast
    PROVE  LoopInv'
<1>1. hub \in Hub /\ outgoing \in Seq(Nat)
  BY DEF TableInv, TableKeeps, LoopInv, LoopKeeps
<1>2. /\ sockets' = [open |-> Without(sockets.open, sockets.dead), at |-> 1, dead |-> {}]
      /\ received' = received
      /\ outgoing' = <<>> \/ (outgoing # <<>> /\ outgoing' = Tail(outgoing))
      /\ outgoing' = <<>> => hub' = [hub EXCEPT !.step = "asleep"]
      /\ outgoing' # <<>> => hub' = hub
      /\ hub.step = "sending"
  BY DEF EndBroadcast
<1>3. hub'.last = hub.last /\ (hub'.step = "asleep" => outgoing' = <<>>)
  BY <1>1, <1>2 DEF Hub
<1> QED
  BY <1>2, <1>3, ClosingKeeps

LEMMA DisconnectKeepsLoop ==
    ASSUME LoopInv, NEW c \in Client, Disconnect(c)
    PROVE  LoopInv'
<1>1. sockets \in [open : Seq(Client), at : Nat \ {0}, dead : SUBSET Client]
  BY DEF LoopInv, LoopKeeps
<1>2. /\ sockets' = [sockets EXCEPT !.open = Without(@, {c}), !.dead = @ \ {c}]
      /\ UNCHANGED <<hub, outgoing, received>>
  BY DEF Disconnect
<1>3. sockets' = [open |-> Without(sockets.open, {c}), at |-> sockets.at, dead |-> sockets.dead \ {c}]
  BY <1>1, <1>2
<1>4. /\ sockets.at \in Nat \ {0} /\ sockets.dead \ {c} \in SUBSET Client
      /\ hub.step # "sending" => sockets.at = 1
      /\ hub.step = "asleep" => outgoing = <<>>
  BY <1>1 DEF LoopInv, LoopKeeps
<1> QED
  BY <1>2, <1>3, <1>4, ClosingKeeps

(* A new client is the last of the list and has got nothing.               *)
LEMMA ConnectKeepsLoop ==
    ASSUME LoopInv, NEW c \in Client, Connect(c)
    PROVE  LoopInv'
<1> DEFINE open == sockets.open
           new == Append(open, c)
           n == Len(open)
<1>1. /\ sockets \in [open : Seq(Client), at : Nat \ {0}, dead : SUBSET Client]
      /\ open \in Seq(Client) /\ n \in Nat /\ received \in [Client -> Seq(Nat)]
      /\ \A i, j \in DOMAIN open : open[i] = open[j] => i = j
  BY DEF LoopInv, LoopKeeps, ClientsBehind
<1>2. /\ sockets' = [sockets EXCEPT !.open = new, !.dead = @ \ {c}]
      /\ received' = [received EXCEPT ![c] = <<>>]
      /\ UNCHANGED <<hub, outgoing>>
  BY DEF Connect
<1>3. \A i \in DOMAIN open : open[i] # c
  <2>1. ~Contains(open, c) /\ DOMAIN open = 1 .. Len(open)
    BY <1>1 DEF Connect
  <2> HIDE DEF open
  <2> QED
    BY <2>1 DEF Contains
<1>4. /\ new \in Seq(Client) /\ DOMAIN open = 1 .. n /\ DOMAIN new = 1 .. (n + 1)
      /\ Len(new) = n + 1 /\ new[n + 1] = c /\ \A i \in 1 .. n : new[i] = open[i]
  BY <1>1, AppendProperties
<1> HIDE DEF open, new, n
<1>5. /\ sockets' \in [open : Seq(Client), at : Nat \ {0}, dead : SUBSET Client]
      /\ sockets'.open = new /\ sockets'.at = sockets.at
  <2> DEFINE mid == [sockets EXCEPT !.open = new]
  <2>1. mid \in [open : Seq(Client), at : Nat \ {0}, dead : SUBSET Client]
        /\ mid.open = new /\ mid.at = sockets.at
    BY <1>1, <1>4
  <2>2. sockets' = [mid EXCEPT !.dead = @ \ {c}]
    BY <1>1, <1>2
  <2> HIDE DEF mid
  <2> QED
    BY <2>1, <2>2
<1>6. /\ received' \in [Client -> Seq(Nat)] /\ DOMAIN received'[c] = {}
      /\ \A b \in Client : b # c => received'[b] = received[b]
  BY <1>1, <1>2
<1>7. \A i \in DOMAIN new :
         \/ i \in DOMAIN open /\ new[i] = open[i] /\ new[i] # c
         \/ i = n + 1 /\ new[i] = c
  <2> SUFFICES ASSUME NEW i \in 1 .. (n + 1)
               PROVE  \/ i \in 1 .. n /\ new[i] = open[i] /\ new[i] # c
                      \/ i = n + 1 /\ new[i] = c
    BY <1>4
  <2>1. i \in 1 .. n \/ i = n + 1
    BY <1>1
  <2> QED
    BY <1>3, <1>4, <2>1
<1>8. \A i, j \in DOMAIN new : new[i] = new[j] => i = j
  <2> SUFFICES ASSUME NEW i \in DOMAIN new, NEW j \in DOMAIN new, new[i] = new[j] PROVE i = j
    OBVIOUS
  <2> QED
    BY <1>1, <1>7
<1>9. LoopKeeps'
  BY <1>2, <1>5, <1>8 DEF LoopInv, LoopKeeps
<1>10. ClientsBehind'
  <2> SUFFICES ASSUME NEW i \in DOMAIN new, NEW k \in DOMAIN received'[new[i]]
               PROVE  /\ received'[new[i]][k] <= hub.last
                      /\ \A m \in DOMAIN outgoing :
                            i >= sockets.at \/ m >= 2 => received'[new[i]][k] < outgoing[m]
    BY <1>2, <1>5, <1>6 DEF ClientsBehind
  <2>1. i \in DOMAIN open /\ new[i] = open[i] /\ received'[new[i]] = received[open[i]]
    <3>1. new[i] # c
      BY <1>6
    <3>2. new[i] \in Client
      <4>1. new \in Seq(Client) /\ i \in 1 .. Len(new)
        BY <1>4
      <4> QED
        BY <4>1, ElementOfSeq
    <3> QED
      BY <1>6, <1>7, <3>1, <3>2
  <2> QED
    BY <2>1 DEF LoopInv, ClientsBehind, open
<1>11. ClientsInOrder'
  <2> SUFFICES ASSUME NEW b \in Client, NEW i \in DOMAIN received'[b], NEW j \in DOMAIN received'[b], i < j
               PROVE  received'[b][i] < received'[b][j]
    BY DEF ClientsInOrder
  <2> QED
    BY <1>6 DEF LoopInv, ClientsInOrder
<1> QED
  BY <1>9, <1>10, <1>11 DEF LoopInv

LEMMA RestartKeepsLoop ==
    ASSUME LoopInv, RestartServer
    PROVE  LoopInv'
<1>1. /\ hub' = NewHub /\ outgoing' = <<>> /\ sockets' = NoSockets /\ received' = received
      /\ received \in [Client -> Seq(Nat)]
  BY DEF RestartServer, LoopInv, ClientsBehind
<1>2. sockets'.open = <<>>
  BY <1>1 DEF NoSockets
<1>3. LoopKeeps'
  BY <1>1 DEF LoopKeeps, NewHub, NoSockets, Increasing
<1>4. ClientsBehind'
  BY <1>1, <1>2 DEF ClientsBehind
<1> QED
  BY <1>1, <1>3, <1>4 DEF LoopInv, ClientsInOrder

LEMMA LoopKept == HubInv /\ [HubNext]_hubVars => LoopInv'
<1> SUFFICES ASSUME TableInv, LoopInv, [HubNext]_hubVars PROVE LoopInv'
  BY DEF HubInv
<1>1. CASE PushEvent
  BY <1>1, LoopUntouched DEF PushEvent
<1>2. CASE ReadEvents
  BY <1>2, ReadKeepsLoop
<1>3. CASE CleanEvents
  <2>1. hub \in Hub
    BY DEF TableInv, TableKeeps
  <2>2. hub.step = "read" /\ hub'.step = "sending" /\ hub'.last = hub.last
    BY <1>3, <2>1 DEF CleanEvents, Hub
  <2> QED
    BY <1>3, <2>2, LoopUntouched DEF CleanEvents
<1>4. CASE SendToClient
  BY <1>4, SendKeepsLoop
<1>5. CASE EndBroadcast
  BY <1>5, EndKeepsLoop
<1>6. CASE \E c \in Client : Connect(c) \/ Disconnect(c)
  BY <1>6, ConnectKeepsLoop, DisconnectKeepsLoop
<1>7. CASE RestartServer
  BY <1>7, RestartKeepsLoop
<1>8. CASE PassTick
  BY <1>8, LoopUntouched DEF PassTick
<1>9. CASE UNCHANGED hubVars
  BY <1>9, LoopUntouched DEF hubVars
<1> QED
  BY <1>1, <1>2, <1>3, <1>4, <1>5, <1>6, <1>7, <1>8, <1>9 DEF HubNext

(* Whoever comes and goes while the broadcaster walks the list, a client   *)
(* gets no event twice and none before an earlier one.                     *)
THEOREM ClientsGetOrder == HubSpec => []ClientsInOrder
<1>1. HubInit => HubInv
  BY HubStarts
<1>2. HubInv /\ [HubNext]_hubVars => HubInv'
  BY TableKept, LoopKept DEF HubInv
<1>3. HubInv => ClientsInOrder
  BY DEF HubInv, LoopInv
<1> QED
  BY <1>1, <1>2, <1>3, PTL DEF HubSpec

-----------------------------------------------------------------------------
(* Types of the digests: what a worker holds at each of its steps.         *)
DigestWorker == [step : {"sleeping", "claiming", "delivering", "sent", "failed"},
                 window : Window \cup {0}, todo : SUBSET Recipient,
                 at : Recipient \cup {NoRecipient}]

(* Writing one cell of a table by recipient and window.                    *)
LEMMA CellTyped ==
    ASSUME NEW V, NEW t \in [Recipient -> [Window -> V]], NEW r, NEW n, NEW v,
           r \in Recipient /\ n \in Window => v \in V
    PROVE  [t EXCEPT ![r] = [t[r] EXCEPT ![n] = v]] \in [Recipient -> [Window -> V]]
<1>1. CASE r \in Recipient
  <2>1. [t[r] EXCEPT ![n] = v] \in [Window -> V]
    <3>1. CASE n \in Window
      BY <1>1, <3>1
    <3>2. CASE n \notin Window
      BY <1>1, <3>2
    <3> QED
      BY <3>1, <3>2
  <2> QED
    BY <1>1, <2>1
<1>2. CASE r \notin Recipient
  BY <1>2
<1> QED
  BY <1>1, <1>2

LEMMA DigestTypeStarts == DigestInit => DigestTypeOK
<1> SUFFICES ASSUME DigestInit PROVE DigestTypeOK
  OBVIOUS
<1>1. /\ claims \in [Recipient -> [Window -> DeliveryStatus]]
      /\ delivered \in [Recipient -> [Window -> 0..2]]
  BY DEF DigestInit, DeliveryStatus
<1>2. Sleeping \in DigestWorker
  BY DEF Sleeping, DigestWorker
<1>3. worker \in [Worker -> DigestWorker]
  BY <1>2 DEF DigestInit
<1>4. window \in 0..MaxWindows /\ faults \in 0..MaxFaults
  BY DigestAssumption DEF DigestInit
<1> QED
  BY <1>1, <1>3, <1>4 DEF DigestInit, DigestTypeOK, DigestWorker

LEMMA DigestStepTyped == DigestTypeOK /\ [DigestNext]_digestVars => DigestTypeOK'
<1> SUFFICES ASSUME DigestTypeOK, [DigestNext]_digestVars PROVE DigestTypeOK'
  OBVIOUS
<1> DEFINE Windows == window' \in 0..MaxWindows /\ quiet' \in BOOLEAN /\ held' \subseteq Recipient
           Claims == claims' \in [Recipient -> [Window -> DeliveryStatus]]
           Deliveries == delivered' \in [Recipient -> [Window -> 0..2]]
           Workers == worker' \in [Worker -> DigestWorker]
           Faults == faults' \in 0..MaxFaults
<1>1. Windows /\ Claims /\ Deliveries /\ Workers /\ Faults => DigestTypeOK'
  BY DEF DigestTypeOK, DigestWorker
<1>2. /\ UNCHANGED <<window, quiet, held>> => Windows
      /\ UNCHANGED claims => Claims
      /\ UNCHANGED delivered => Deliveries
      /\ UNCHANGED worker => Workers
      /\ UNCHANGED faults => Faults
  BY DEF DigestTypeOK, DigestWorker
<1>3. /\ window \in 0..MaxWindows /\ held \subseteq Recipient
      /\ claims \in [Recipient -> [Window -> DeliveryStatus]]
      /\ delivered \in [Recipient -> [Window -> 0..2]]
      /\ worker \in [Worker -> DigestWorker]
      /\ faults \in 0..MaxFaults
      /\ Recipient \subseteq Nat /\ MaxWindows \in Nat /\ MaxFaults \in Nat
  BY DigestAssumption DEF DigestTypeOK, DigestWorker
<1>4. ASSUME NEW w \in Worker, NEW e \in DigestWorker, worker' = [worker EXCEPT ![w] = e] PROVE Workers
  BY <1>3, <1>4
<1>5. Fault => Faults
  BY <1>3 DEF Fault
<1>6. ASSUME NEW w \in Worker, AtRecipient(w) PROVE Min(worker[w].todo) \in worker[w].todo
  <2>1. worker[w].todo \in SUBSET Nat /\ worker[w].todo # {}
    BY <1>3, <1>6 DEF AtRecipient, DigestWorker
  <2> QED
    BY <2>1, LeastIn DEF Min
<1>7. Sleeping \in DigestWorker
  BY DEF Sleeping, DigestWorker
<1> HIDE DEF Windows, Claims, Deliveries, Workers, Faults
<1>8. CASE Quieten \/ EndQuiet
  <2>1. Windows
    <3>1. CASE Quieten
      BY <1>3, <3>1 DEF Quieten, Windows, DigestTypeOK
    <3>2. CASE EndQuiet
      BY <1>3, <3>2 DEF EndQuiet, Windows
    <3> QED
      BY <1>8, <3>1, <3>2
  <2> QED
    BY <1>1, <1>2, <1>8, <2>1 DEF Quieten, EndQuiet
<1>9. ASSUME NEW w \in Worker, PollDigest(w) PROVE DigestTypeOK'
  <2>1. [step |-> "claiming", window |-> window, todo |-> held, at |-> NoRecipient] \in DigestWorker
    BY <1>3 DEF DigestWorker, Window
  <2> QED
    BY <1>1, <1>2, <1>4, <1>9, <2>1 DEF PollDigest
<1>10. ASSUME NEW w \in Worker, Claim(w) PROVE DigestTypeOK'
  <2> DEFINE n == worker[w].window
             r == Min(worker[w].todo)
  <2>1. r \in Recipient
    BY <1>3, <1>6, <1>10 DEF Claim, DigestWorker
  <2>2. CASE claims[r][n] = "none"
    <3>1. /\ claims' = [claims EXCEPT ![r] = [claims[r] EXCEPT ![n] = "pending"]]
          /\ worker' = [worker EXCEPT ![w] = [worker[w] EXCEPT !.step = "delivering", !.at = r]]
          /\ UNCHANGED <<window, quiet, held, delivered, faults>>
      BY <1>10, <2>2 DEF Claim
    <3> HIDE DEF n, r
    <3>2. Claims
      BY <1>3, <3>1, CellTyped DEF Claims, DeliveryStatus
    <3>3. [worker[w] EXCEPT !.step = "delivering", !.at = r] \in DigestWorker
      BY <1>3, <2>1 DEF DigestWorker
    <3>4. Workers
      BY <1>4, <3>1, <3>3
    <3> QED
      BY <1>1, <1>2, <3>1, <3>2, <3>4
  <2>3. CASE claims[r][n] # "none"
    <3>1. /\ worker' = [worker EXCEPT ![w] = [worker[w] EXCEPT !.todo = @ \ {r}]]
          /\ UNCHANGED <<window, quiet, held, claims, delivered, faults>>
      BY <1>10, <2>3 DEF Claim, Remaining
    <3> HIDE DEF n, r
    <3>2. [worker[w] EXCEPT !.todo = @ \ {r}] \in DigestWorker
      BY <1>3 DEF DigestWorker
    <3>3. Workers
      BY <1>4, <3>1, <3>2
    <3> QED
      BY <1>1, <1>2, <3>1, <3>3
  <2> QED
    BY <2>2, <2>3
<1>11. ASSUME NEW w \in Worker, ClaimRaises(w) PROVE DigestTypeOK'
  <2>1. worker' = [worker EXCEPT ![w] = [worker[w] EXCEPT !.todo = @ \ {Min(worker[w].todo)}]]
    BY <1>11 DEF ClaimRaises, Remaining
  <2>2. [worker[w] EXCEPT !.todo = @ \ {Min(worker[w].todo)}] \in DigestWorker
    BY <1>3 DEF DigestWorker
  <2>3. Workers
    BY <1>4, <2>1, <2>2
  <2> QED
    BY <1>1, <1>2, <1>5, <1>11, <2>3 DEF ClaimRaises
<1>12. ASSUME NEW w \in Worker, Deliver(w) PROVE DigestTypeOK'
  <2> DEFINE n == worker[w].window
             r == worker[w].at
             more == IF delivered[r][n] < 2 THEN delivered[r][n] + 1 ELSE delivered[r][n]
  <2>1. delivered' = [delivered EXCEPT ![r] = [delivered[r] EXCEPT ![n] = more]]
    BY <1>12 DEF Deliver
  <2>2. r \in Recipient /\ n \in Window => more \in 0..2
    <3>1. r \in Recipient /\ n \in Window => delivered[r][n] \in 0..2
      BY <1>3
    <3> HIDE DEF r, n
    <3> QED
      BY <3>1
  <2>3. PICK outcome \in {"sent", "failed"} : worker' = [worker EXCEPT ![w].step = outcome]
    BY <1>12 DEF Deliver
  <2>4. [worker[w] EXCEPT !.step = outcome] \in DigestWorker
    BY <1>3 DEF DigestWorker
  <2> HIDE DEF n, r, more
  <2>5. Deliveries
    BY <1>3, <2>1, <2>2, CellTyped DEF Deliveries
  <2>6. Workers
    BY <1>4, <2>3, <2>4
  <2> QED
    BY <1>1, <1>2, <1>12, <2>5, <2>6 DEF Deliver
<1>13. ASSUME NEW w \in Worker, Finish(w) PROVE DigestTypeOK'
  <2> DEFINE n == worker[w].window
             r == worker[w].at
             outcome == worker[w].step
  <2>1. outcome \in DeliveryStatus
    BY <1>13 DEF Finish, DeliveryStatus
  <2>2. Claims /\ Faults
    <3>1. CASE claims' = [claims EXCEPT ![r] = [claims[r] EXCEPT ![n] = outcome]] /\ UNCHANGED faults
      <4> HIDE DEF n, r, outcome
      <4> QED
        BY <1>2, <1>3, <2>1, <3>1, CellTyped DEF Claims
    <3>2. CASE Fault /\ UNCHANGED claims
      BY <1>2, <1>5, <3>2
    <3> QED
      BY <1>13, <3>1, <3>2 DEF Finish, Outcome
  <2>3. worker' = [worker EXCEPT ![w] = [worker[w] EXCEPT !.step = "claiming", !.todo = @ \ {worker[w].at}]]
    BY <1>13 DEF Finish
  <2>4. [worker[w] EXCEPT !.step = "claiming", !.todo = @ \ {worker[w].at}] \in DigestWorker
    BY <1>3 DEF DigestWorker
  <2>5. Workers
    BY <1>4, <2>3, <2>4
  <2> QED
    BY <1>1, <1>2, <1>13, <2>2, <2>5 DEF Finish
<1>14. ASSUME NEW w \in Worker, EndPoll(w) \/ LeavePoll(w) PROVE DigestTypeOK'
  BY <1>1, <1>2, <1>4, <1>5, <1>7, <1>14 DEF EndPoll, LeavePoll
<1>15. CASE UNCHANGED digestVars
  BY <1>1, <1>2, <1>15 DEF digestVars
<1> QED
  BY <1>8, <1>9, <1>10, <1>11, <1>12, <1>13, <1>14, <1>15 DEF DigestNext, DigestStep

-----------------------------------------------------------------------------
(* The elements of a finite set, in some order.                            *)
LEMMA OrderedElements ==
    ASSUME NEW T, NEW S \in SUBSET T, IsFiniteSet(S)
    PROVE  SetToSeq(S) \in Seq(T)
<1> DEFINE n == Cardinality(S)
<1>1. n \in Nat /\ ExistsBijection(1 .. n, S)
  BY FS_CardinalityType
<1>2. PICK f \in Bijection(1 .. n, S) : TRUE
  BY <1>1 DEF ExistsBijection
<1>3. f \in [1 .. n -> S] /\ \A a, b \in 1 .. n : f[a] = f[b] => a = b
  BY <1>2 DEF Bijection, Injection, IsInjective
<1>4. \E g \in [1 .. n -> S] : IsInjective(g)
  BY <1>3 DEF IsInjective
<1>5. SetToSeq(S) \in [1 .. n -> S]
  BY <1>4 DEF SetToSeq
<1>6. SetToSeq(S) \in [1 .. n -> T]
  BY <1>5
<1>7. ASSUME NEW q \in Nat, NEW g \in [1 .. q -> T] PROVE g \in Seq(T)
  BY DEF Seq
<1> QED
  BY <1>1, <1>6, <1>7, Zenon


(* Types of the alerts: a dispatch carries the rows it read.               *)
AlertRow == [to : Reader, kind : AlertKind, recent : BOOLEAN, read : BOOLEAN, dismissed : BOOLEAN]

AlertsTypeInv == AlertsTypeOK /\ AlertsInv

LEMMA AlertsTypeStarts == AlertsInit => AlertsTypeInv
<1> SUFFICES ASSUME AlertsInit PROVE AlertsTypeInv
  OBVIOUS
<1>1. AlertsInv
  BY AlertsAssumption DEF AlertsInit, AlertsInv, QuietInv, DispatchInv, Staged
<1>2. preference \in [Reader -> [AlertKind -> {NoRowYet} \cup {OneRow(on) : on \in SUBSET AlertChannel}]]
  BY DEF AlertsInit
<1>3. Len(alert) <= MaxAlerts /\ alert \in Seq(AlertRow)
  BY AlertsAssumption DEF AlertsInit
<1>4. webhook \in [row : BOOLEAN, enabled : BOOLEAN, kinds : SUBSET AlertKind]
  <2> DEFINE W == [row : BOOLEAN, enabled : BOOLEAN, kinds : SUBSET AlertKind]
  <2>1. NoWebhook \in W
    BY DEF NoWebhook
  <2>2. [row |-> TRUE, enabled |-> TRUE, kinds |-> {}] \in W
    OBVIOUS
  <2> HIDE DEF W
  <2>3. webhook \in {NoWebhook, [row |-> TRUE, enabled |-> TRUE, kinds |-> {}]}
    BY DEF AlertsInit
  <2>4. webhook \in W
    BY <2>1, <2>2, <2>3
  <2> QED
    BY <2>4 DEF W
<1>7. {refusing, mailing, quietSet, quietNow} \subseteq BOOLEAN
  <2>1. refusing \in BOOLEAN /\ mailing \in BOOLEAN /\ quietSet \in BOOLEAN /\ quietNow \in BOOLEAN
    BY DEF AlertsInit
  <2> QED
    BY <2>1
<1>5. /\ device \in [Reader -> {"none", "registered", "following"}]
      /\ cached \in [says : {"nothing", "on", "off"}, age : 0..CacheTicks]
      /\ edits \in 0..MaxEdits
  BY AlertsAssumption DEF AlertsInit
<1>6. \A d \in Dispatcher : dispatch[d].step \in {"none", "look", "seed", "raise", "decide", "sent"}
  BY DEF AlertsInit, NoDispatch
<1> QED
  BY <1>1, <1>2, <1>3, <1>4, <1>5, <1>6, <1>7 DEF AlertsTypeInv, AlertsTypeOK, AlertRow

(* The steps of a dispatch.                                                *)
LEMMA StagesAre ==
    ASSUME NEW c, Staged(c)
    PROVE  c.step \in {"none", "look", "seed", "raise", "decide", "sent"}
<1>1. CASE c = NoDispatch
  BY <1>1 DEF NoDispatch
<1>2. CASE c \in Looking
  BY <1>2 DEF Looking
<1>3. CASE IsRaising(c)
  BY <1>3 DEF IsRaising, Raising
<1>4. CASE IsSent(c)
  BY <1>4 DEF IsSent
<1> QED
  BY <1>1, <1>2, <1>3, <1>4 DEF Staged

Preferences == [Reader -> [AlertKind -> {NoRowYet} \cup {OneRow(on) : on \in SUBSET AlertChannel}]]

LEMMA SeededRows ==
    ASSUME preference \in Preferences, NEW u \in Reader
    PROVE  [preference EXCEPT ![u] = Seeded(@)] \in Preferences
<1> DEFINE R == {NoRowYet} \cup {OneRow(on) : on \in SUBSET AlertChannel}
<1>1. preference[u] \in [AlertKind -> R]
  BY DEF Preferences
<1>2. OneRow({"in_app"}) \in R
  BY DEF AlertChannel
<1> HIDE DEF R
<1>3. Seeded(preference[u]) \in [AlertKind -> R]
  BY <1>1, <1>2 DEF Seeded
<1>4. preference \in [Reader -> [AlertKind -> R]]
  BY DEF Preferences, R
<1>5. [preference EXCEPT ![u] = Seeded(preference[u])] \in [Reader -> [AlertKind -> R]]
  BY <1>3, <1>4
<1> QED
  BY <1>5 DEF Preferences, R

LEMMA AlertsStepTyped == AlertsTypeInv /\ [AlertsNext]_alertVars => AlertsTypeInv'
<1> SUFFICES ASSUME AlertsTypeInv, [AlertsNext]_alertVars PROVE AlertsTypeInv'
  OBVIOUS
<1> DEFINE Rows == preference' \in Preferences
           Stored == alert' \in Seq(AlertRow) /\ Len(alert') <= MaxAlerts
           Hooks == webhook' \in [row : BOOLEAN, enabled : BOOLEAN, kinds : SUBSET AlertKind]
           Switches == refusing' \in BOOLEAN /\ mailing' \in BOOLEAN
           Devices == device' \in [Reader -> {"none", "registered", "following"}]
           Edits == edits' \in 0 .. MaxEdits
<1>1. AlertsInv'
  BY AlertsStep DEF AlertsTypeInv
<1>2. Rows /\ Stored /\ Hooks /\ Switches /\ Devices /\ Edits => AlertsTypeInv'
  <2> SUFFICES ASSUME Rows, Stored, Hooks, Switches, Devices, Edits PROVE AlertsTypeInv'
    OBVIOUS
  <2>1. \A d \in Dispatcher : (dispatch[d].step)' \in {"none", "look", "seed", "raise", "decide", "sent"}
    <3>1. \A d \in Dispatcher : Staged(dispatch'[d])
      BY <1>1 DEF AlertsInv, DispatchInv, Staged, IsRaising, IsSent, Looking, Raising
    <3> QED
      BY <3>1, StagesAre
  <2>2. QuietInv'
    BY <1>1 DEF AlertsInv
  <2>3. /\ {refusing, mailing, quietSet, quietNow}' \subseteq BOOLEAN
        /\ cached' \in [says : {"nothing", "on", "off"}, age : 0..CacheTicks]
    BY <2>2 DEF QuietInv
  <2> QED
    BY <1>1, <2>1, <2>3 DEF AlertsTypeInv, AlertsTypeOK, Preferences, AlertRow
<1>3. /\ preference \in Preferences
      /\ alert \in Seq(AlertRow) /\ Len(alert) <= MaxAlerts
      /\ webhook \in [row : BOOLEAN, enabled : BOOLEAN, kinds : SUBSET AlertKind]
      /\ refusing \in BOOLEAN /\ mailing \in BOOLEAN
      /\ device \in [Reader -> {"none", "registered", "following"}]
      /\ edits \in 0 .. MaxEdits
      /\ MaxEdits \in Nat /\ MaxAlerts \in Nat
  BY AlertsAssumption DEF AlertsTypeInv, AlertsTypeOK, Preferences, AlertRow
<1>4. /\ UNCHANGED preference => Rows
      /\ UNCHANGED alert => Stored
      /\ UNCHANGED webhook => Hooks
      /\ UNCHANGED <<refusing, mailing>> => Switches
      /\ UNCHANGED device => Devices
      /\ UNCHANGED edits => Edits
      /\ edits < MaxEdits /\ edits' = edits + 1 => Edits
  BY <1>3
<1>5. DispatchInv
  BY DEF AlertsTypeInv, AlertsInv
(* Rows of alerts that are marked.                                         *)
<1>6. ASSUME NEW g, g = [i \in DOMAIN alert |-> g[i]], \A i \in DOMAIN alert : g[i] \in AlertRow,
             alert' = g
      PROVE  Stored
  <2>1. Len(alert) \in Nat /\ DOMAIN alert = 1 .. Len(alert)
    BY <1>3
  <2>2. g \in [1 .. Len(alert) -> AlertRow]
    BY <1>6, <2>1
  <2>3. ASSUME NEW q \in Nat, NEW h \in [1 .. q -> AlertRow] PROVE h \in Seq(AlertRow) /\ Len(h) = q
    BY <2>3
  <2>4. g \in Seq(AlertRow) /\ Len(g) = Len(alert)
    BY <2>1, <2>2, <2>3, Zenon
  <2> QED
    BY <1>3, <1>6, <2>4
<1>7. \A i \in DOMAIN alert : alert[i] \in AlertRow
  BY <1>3
<1> HIDE DEF Rows, Stored, Hooks, Switches, Devices, Edits
<1>8. ASSUME SwitchQuietHours PROVE AlertsTypeInv'
  BY <1>2, <1>4, <1>8 DEF SwitchQuietHours
<1>9. ASSUME AlertTime PROVE AlertsTypeInv'
  <2>1. UNCHANGED <<preference, refusing, webhook, mailing, device, edits>>
    BY <1>9 DEF AlertTime
  <2>2. CASE UNCHANGED alert
    BY <1>2, <1>4, <2>1, <2>2
  <2>3. CASE alert' = [i \in DOMAIN alert |-> [alert[i] EXCEPT !.recent = FALSE]]
    <3> DEFINE g == [i \in DOMAIN alert |-> [alert[i] EXCEPT !.recent = FALSE]]
    <3>1. \A i \in DOMAIN alert : g[i] \in AlertRow
      BY <1>7 DEF AlertRow
    <3>2. g = [i \in DOMAIN alert |-> g[i]] /\ alert' = g
      BY <2>3
    <3> HIDE DEF g
    <3> QED
      BY <1>2, <1>4, <1>6, <2>1, <3>1, <3>2
  <2> QED
    BY <1>9, <2>2, <2>3 DEF AlertTime
<1>10. ASSUME ChangeWebhook PROVE AlertsTypeInv'
  <2>1. Hooks
    <3> DEFINE W == [row : BOOLEAN, enabled : BOOLEAN, kinds : SUBSET AlertKind]
    <3>1. NoWebhook \in W /\ [webhook EXCEPT !.enabled = ~@] \in W
      BY <1>3 DEF NoWebhook
    <3>2. \A kinds \in {{}, {"printer"}} : [row |-> TRUE, enabled |-> TRUE, kinds |-> kinds] \in W
      BY DEF AlertKind
    <3> HIDE DEF W
    <3>3. webhook' \in W
      BY <1>10, <3>1, <3>2 DEF ChangeWebhook
    <3> QED
      BY <3>3 DEF Hooks, W
  <2> QED
    BY <1>2, <1>4, <1>10, <2>1 DEF ChangeWebhook, Edited
<1>11. ASSUME ChangeMail PROVE AlertsTypeInv'
  <2>1. Switches
    BY <1>3, <1>11 DEF ChangeMail, Switches, Edited
  <2> QED
    BY <1>2, <1>4, <1>11, <2>1 DEF ChangeMail, Edited
<1>12. ASSUME NEW u \in Reader, GetPreferences(u) PROVE AlertsTypeInv'
  <2>1. Rows
    BY <1>3, <1>12, SeededRows DEF GetPreferences, Rows
  <2> QED
    BY <1>2, <1>4, <1>12, <2>1 DEF GetPreferences, Edited
<1>13. ASSUME NEW u \in Reader, UpdatePreferences(u) PROVE AlertsTypeInv'
  <2>1. Rows
    <3>1. PICK k \in AlertKind, on \in {{}, AlertChannel} :
            preference' = [preference EXCEPT ![u][k] = OneRow(on)]
      BY <1>13 DEF UpdatePreferences
    <3> DEFINE R == {NoRowYet} \cup {OneRow(o) : o \in SUBSET AlertChannel}
    <3>2. OneRow(on) \in R
      OBVIOUS
    <3>3. preference \in [Reader -> [AlertKind -> R]]
      BY <1>3 DEF Preferences
    <3> HIDE DEF R
    <3>4. [preference[u] EXCEPT ![k] = OneRow(on)] \in [AlertKind -> R]
      BY <3>2, <3>3
    <3>5. preference' = [preference EXCEPT ![u] = [preference[u] EXCEPT ![k] = OneRow(on)]]
      BY <3>1, <3>3
    <3>6. preference' \in [Reader -> [AlertKind -> R]]
      BY <3>3, <3>4, <3>5
    <3> QED
      BY <3>6 DEF Preferences, R, Rows
  <2> QED
    BY <1>2, <1>4, <1>13, <2>1 DEF UpdatePreferences, Edited
<1>14. ASSUME NEW u \in Reader, ChangeDevice(u) PROVE AlertsTypeInv'
  <2>1. Devices
    BY <1>3, <1>14 DEF ChangeDevice, Devices
  <2> QED
    BY <1>2, <1>4, <1>14, <2>1 DEF ChangeDevice, Edited
<1>15. ASSUME NEW u \in Reader, ChangeAlert(u) PROVE AlertsTypeInv'
  <2>1. ASSUME NEW i \in DOMAIN alert, NEW r \in AlertRow, alert' = [alert EXCEPT ![i] = r]
        PROVE  Stored
    <3> DEFINE g == [alert EXCEPT ![i] = r]
    <3>1. \A j \in DOMAIN alert : g[j] \in AlertRow
      BY <1>3, <1>7
    <3>2. g = [j \in DOMAIN alert |-> g[j]] /\ alert' = g
      BY <1>3, <2>1
    <3> HIDE DEF g
    <3> QED
      BY <1>6, <3>1, <3>2
  <2>2. ASSUME NEW i \in DOMAIN alert, alert' = [alert EXCEPT ![i].read = TRUE] PROVE Stored
    <3>1. [alert[i] EXCEPT !.read = TRUE] \in AlertRow
      BY <1>7 DEF AlertRow
    <3>2. alert' = [alert EXCEPT ![i] = [alert[i] EXCEPT !.read = TRUE]]
      BY <1>3, <2>2
    <3> QED
      BY <2>1, <3>1, <3>2
  <2>3. ASSUME NEW i \in DOMAIN alert, alert' = [alert EXCEPT ![i].read = TRUE, ![i].dismissed = TRUE]
        PROVE  Stored
    <3>1. [alert[i] EXCEPT !.read = TRUE, !.dismissed = TRUE] \in AlertRow
      BY <1>7 DEF AlertRow
    <3>2. alert' = [alert EXCEPT ![i] = [alert[i] EXCEPT !.read = TRUE, !.dismissed = TRUE]]
      BY <1>3, <2>3
    <3> QED
      BY <2>1, <3>1, <3>2
  <2>4. ASSUME alert' = [i \in DOMAIN alert |-> [alert[i] EXCEPT !.read = @ \/ alert[i].to = u]]
        PROVE  Stored
    <3> DEFINE g == [i \in DOMAIN alert |-> [alert[i] EXCEPT !.read = alert[i].read \/ alert[i].to = u]]
    <3>1. \A i \in DOMAIN alert : g[i] \in AlertRow
      BY <1>7 DEF AlertRow
    <3>2. g = [i \in DOMAIN alert |-> g[i]] /\ alert' = g
      BY <2>4
    <3> HIDE DEF g
    <3> QED
      BY <1>6, <3>1, <3>2
  <2>5. Stored
    BY <1>15, <2>2, <2>3, <2>4 DEF ChangeAlert
  <2> QED
    BY <1>2, <1>4, <1>15, <2>5 DEF ChangeAlert, readerVars
<1>16. ASSUME NEW d \in Dispatcher, NEW targets \in SUBSET Reader, BeginRequest(d, targets)
       PROVE  AlertsTypeInv'
  BY <1>2, <1>4, <1>16 DEF BeginRequest, readerVars
<1>17. ASSUME NEW d \in Dispatcher,
              LookForReaders(d) \/ BeginPrinter(d) \/ EndDispatch(d) \/ DecideAloud(d)
       PROVE  AlertsTypeInv'
  <2>1. UNCHANGED <<readerVars, alert, refusing, edits>>
    BY <1>17 DEF LookForReaders, BeginPrinter, EndDispatch, DecideAloud
  <2> QED
    BY <1>2, <1>4, <2>1 DEF readerVars
<1>18. ASSUME NEW d \in Dispatcher, SeedReader(d) PROVE AlertsTypeInv'
  <2>1. dispatch[d] \in Looking
    BY <1>5, <1>18, StageIs DEF SeedReader, DispatchInv
  <2>2. PICK u \in dispatch[d].left : preference' = [preference EXCEPT ![u] = Seeded(@)]
    BY <1>18 DEF SeedReader
  <2>3. u \in Reader
    BY <2>1, <2>2 DEF Looking
  <2>4. Rows
    BY <1>3, <2>2, <2>3, SeededRows DEF Rows
  <2> QED
    BY <1>2, <1>4, <1>18, <2>4 DEF SeedReader
<1>19. ASSUME NEW d \in Dispatcher, RaiseAlerts(d) PROVE AlertsTypeInv'
  <2> DEFINE c == dispatch[d]
             S == {UnreadAlert(u, c.kind) : u \in Wanting(c.rows, "in_app")}
  <2>1. c.kind \in AlertKind
    <3>1. IsRaising(c)
      BY <1>5, <1>19, StageIs DEF RaiseAlerts, DispatchInv
    <3> QED
      BY <3>1 DEF IsRaising, Raising
  <2>2. S \in SUBSET AlertRow /\ IsFiniteSet(S)
    <3> HIDE DEF c
    <3>1. Wanting(c.rows, "in_app") \subseteq Reader
      BY DEF Wanting
    <3>2. IsFiniteSet(Wanting(c.rows, "in_app"))
      BY <3>1, FS_Subset, AlertsAssumption
    <3>3. IsFiniteSet(S)
      <4> DEFINE W == Wanting(c.rows, "in_app")
                 f == [u \in W |-> UnreadAlert(u, c.kind)]
      <4>1. f \in [W -> S] /\ \A t \in S : \E u \in W : f[u] = t
        OBVIOUS
      <4>2. f \in Surjection(W, S)
        BY <4>1 DEF Surjection
      <4> HIDE DEF f
      <4> QED
        BY <3>2, <4>2, FS_Surjection
    <3>4. \A u \in Reader : UnreadAlert(u, c.kind) \in AlertRow
      BY <2>1 DEF UnreadAlert, AlertRow
    <3> QED
      BY <3>1, <3>3, <3>4
  <2>3. NewAlerts(c) \in Seq(AlertRow)
    BY <2>2, OrderedElements DEF NewAlerts
  <2>4. alert \o NewAlerts(c) \in Seq(AlertRow)
    BY <1>3, <2>3, ConcatProperties, Zenon
  <2>5. alert' = alert \o NewAlerts(c) /\ Len(alert \o NewAlerts(c)) <= MaxAlerts
    BY <1>19 DEF RaiseAlerts
  <2>6. Stored
    BY <2>4, <2>5 DEF Stored
  <2> QED
    BY <1>2, <1>4, <1>19, <2>6 DEF RaiseAlerts, readerVars
<1>20. ASSUME UNCHANGED alertVars PROVE AlertsTypeInv'
  BY <1>2, <1>4, <1>20 DEF alertVars
<1> QED
  BY <1>8, <1>9, <1>10, <1>11, <1>12, <1>13, <1>14, <1>15, <1>16, <1>17, <1>18, <1>19, <1>20
     DEF AlertsNext
=============================================================================
