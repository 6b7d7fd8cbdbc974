------------------------- MODULE IdempotencyProofs -------------------------
(***************************************************************************)
(* Machine-checked safety of the Idempotency-Key slot, for any number of   *)
(* attempts, bodies, fingerprints and workers, with crashes and database   *)
(* errors.  The one hypothesis is the timing one the source states at      *)
(* _PENDING_WATCHDOG_SECONDS: every handler settles within the watchdog.   *)
(***************************************************************************)
EXTENDS Idempotency, TLAPS

Settled(r) == pc[r] \in {"answered", "gone"}

Fresh(r) == answer[r] = "ok" /\ age[r] <= TTL

(* An owner holds the row, and has not outlived its bound.                 *)
OwnerInv ==
    \A r \in Req : pc[r] \in Owning =>
        row.state = "pending" /\ row.stamp = r /\ age[r] <= HandlerBound

(* A row was stamped by an attempt that still owns it or is over.          *)
StampInv ==
    row.state # "absent" =>
        row.stamp \in Req /\ (pc[row.stamp] \in Owning \/ Settled(row.stamp))

(* What a reclaimer observed stays reclaimable: its claimer is over, and   *)
(* was not acknowledged within the TTL.                                    *)
SeenInv ==
    \A r \in Req : pc[r] = "reclaiming" =>
        seen[r] \in Req /\ Settled(seen[r]) /\ ~Fresh(seen[r])

AnswerInv == \A r \in Req : answer[r] # "none" => pc[r] = "answered"

IInv ==
    /\ TypeOK
    /\ OwnerInv
    /\ StampInv
    /\ SeenInv
    /\ AnswerInv
    /\ ResponseMatchesStamp
    /\ ReplayFaithful
    /\ AckedKeepsRow
-----------------------------------------------------------------------------
(* Every variable keeps its type, whatever the timing.                     *)
THEOREM TypeCorrect == Spec => []TypeOK
<1> USE IdempotencyAssumption
<1> USE DEF RequestData, RowState, Row, Absent, PC, Owning, Holding, Answer
<1>1. Init => TypeOK
  BY DEF Init, TypeOK
<1>2. TypeOK /\ [Next]_vars => TypeOK'
  <2> SUFFICES ASSUME TypeOK, [Next]_vars PROVE TypeOK'
    OBVIOUS
  <2> USE DEF TypeOK
  <2>1. ASSUME NEW r \in Req, LookupMiss(r) PROVE TypeOK'
    BY <2>1 DEF LookupMiss, AtLookup
  <2>2. ASSUME NEW r \in Req, LookupStale(r) PROVE TypeOK'
    BY <2>2 DEF LookupStale, Stuck, Expired
  <2>3. ASSUME NEW r \in Req, LookupHit(r) PROVE TypeOK'
    BY <2>3 DEF LookupHit, Respond, Replay
  <2>4. ASSUME NEW r \in Req, LookupRefused(r) PROVE TypeOK'
    BY <2>4 DEF LookupRefused, Respond
  <2>5. ASSUME NEW r \in Req, TryClaim(r) PROVE TypeOK'
    <3>1. CASE Own(r)
      BY <2>5, <3>1 DEF TryClaim, Own
    <3>2. CASE Lose(r)
      BY <2>5, <3>2 DEF TryClaim, Lose
    <3> QED
      BY <2>5, <3>1, <3>2 DEF TryClaim
  <2>6. ASSUME NEW r \in Req, ReclaimExpired(r) PROVE TypeOK'
    <3>1. CASE StampUnchanged(r) /\ Own(r)
      BY <2>6, <3>1 DEF ReclaimExpired, Own
    <3>2. CASE Lose(r)
      BY <2>6, <3>2 DEF ReclaimExpired, Lose
    <3> QED
      BY <2>6, <3>1, <3>2 DEF ReclaimExpired
  <2>7. ASSUME NEW r \in Req, LoserReplay(r) PROVE TypeOK'
    BY <2>7 DEF LoserReplay, Respond, Replay
  <2>8. ASSUME NEW r \in Req, LoserRefused(r) PROVE TypeOK'
    BY <2>8 DEF LoserRefused, Respond
  <2>9. ASSUME NEW r \in Req, HandlerCommit(r) PROVE TypeOK'
    BY <2>9 DEF HandlerCommit
  <2>10. ASSUME NEW r \in Req, HandlerSucceeds(r) PROVE TypeOK'
    BY <2>10 DEF HandlerSucceeds
  <2>11. ASSUME NEW r \in Req, HandlerFails(r) PROVE TypeOK'
    BY <2>11 DEF HandlerFails
  <2>12. ASSUME NEW r \in Req, DrainFails(r) PROVE TypeOK'
    BY <2>12 DEF DrainFails, Respond
  <2>13. ASSUME NEW r \in Req, FinalizeRow(r) PROVE TypeOK'
    <3>1. CASE Respond(r, "ok") /\ row' = [row EXCEPT !.state = "complete", !.resp = r]
      BY <2>13, <3>1 DEF FinalizeRow, Respond
    <3>2. CASE Respond(r, "internal_error") /\ UNCHANGED row
      BY <2>13, <3>2 DEF FinalizeRow, Respond
    <3> QED
      BY <2>13, <3>1, <3>2 DEF FinalizeRow
  <2>14. ASSUME NEW r \in Req, MarkUncacheable(r) PROVE TypeOK'
    BY <2>14 DEF MarkUncacheable, Respond
  <2>15. ASSUME NEW r \in Req, ReleaseRow(r) PROVE TypeOK'
    BY <2>15 DEF ReleaseRow, Respond
  <2>16. ASSUME NEW w \in Worker, Prune(w) PROVE TypeOK'
    BY <2>16 DEF Prune
  <2>17. ASSUME NEW w \in Worker, Crash(w) PROVE TypeOK'
    BY <2>17 DEF Crash
  <2>18. CASE Tick
    BY <2>18 DEF Tick
  <2>19. CASE UNCHANGED vars
    BY <2>19 DEF vars
  <2> QED
    BY <2>1, <2>2, <2>3, <2>4, <2>5, <2>6, <2>7, <2>8, <2>9, <2>10, <2>11, <2>12, <2>13, <2>14, <2>15, <2>16, <2>17, <2>18, <2>19 DEF Next, Handler, Middleware
<1> QED
  BY <1>1, <1>2, PTL DEF Spec

-----------------------------------------------------------------------------
(* The inductive step.  A step disturbs the conjuncts named under it; the  *)
(* others rest on variables it leaves alone or on the order of program     *)
(* counters it keeps.                                                      *)
LEMMA IInvStep ==
  ASSUME HandlerBound <= Watchdog, IInv, TypeOK', [Next]_vars
  PROVE  IInv'
<1> USE IdempotencyAssumption
<1> USE DEF IInv, TypeOK, RequestData, Row, PC, Owning, Holding, Settled, Fresh
<1>1. ASSUME NEW r \in Req, LookupMiss(r) PROVE IInv'
  <2>1. OwnerInv' /\ StampInv' /\ SeenInv' /\ AnswerInv' /\
       ResponseMatchesStamp' /\ ReplayFaithful' /\ AckedKeepsRow'
    BY <1>1 DEF LookupMiss, AtLookup, OwnerInv, StampInv, SeenInv, AnswerInv,
       ResponseMatchesStamp, ReplayFaithful, AckedKeepsRow
  <2> QED
    BY <2>1
<1>2. ASSUME NEW r \in Req, LookupStale(r) PROVE IInv'
  <2>1. SeenInv'
    BY <1>2 DEF LookupStale, AtLookup, Stuck, Expired, SeenInv, OwnerInv,
       StampInv, AckedKeepsRow
  <2>2. OwnerInv' /\ StampInv' /\ AnswerInv' /\ ResponseMatchesStamp' /\
       ReplayFaithful' /\ AckedKeepsRow'
    BY <1>2 DEF LookupStale, AtLookup, OwnerInv, StampInv, AnswerInv,
       ResponseMatchesStamp, ReplayFaithful, AckedKeepsRow
  <2> QED
    BY <2>1, <2>2
<1>3. ASSUME NEW r \in Req, LookupHit(r) PROVE IInv'
  <2>1. ReplayFaithful'
    BY <1>3 DEF LookupHit, AtLookup, Respond, Replay, Hit, SameHash, SameFp,
       ReplayFaithful, AnswerInv, ResponseMatchesStamp, StampInv
  <2>2. SeenInv'
    BY <1>3 DEF LookupHit, AtLookup, Respond, Replay, SeenInv, AnswerInv
  <2>3. OwnerInv' /\ StampInv' /\ AnswerInv' /\ ResponseMatchesStamp' /\
       AckedKeepsRow'
    BY <1>3 DEF LookupHit, AtLookup, Respond, Replay, OwnerInv, StampInv,
       AnswerInv, ResponseMatchesStamp, AckedKeepsRow
  <2> QED
    BY <2>1, <2>2, <2>3
<1>4. ASSUME NEW r \in Req, LookupRefused(r) PROVE IInv'
  <2>1. OwnerInv' /\ StampInv' /\ SeenInv' /\ AnswerInv' /\
       ResponseMatchesStamp' /\ ReplayFaithful' /\ AckedKeepsRow'
    BY <1>4 DEF LookupRefused, AtLookup, Respond, OwnerInv, StampInv, SeenInv,
       AnswerInv, ResponseMatchesStamp, ReplayFaithful, AckedKeepsRow
  <2> QED
    BY <2>1
<1>5. ASSUME NEW r \in Req, TryClaim(r) PROVE IInv'
  <2>1. OwnerInv'
    BY <1>5 DEF TryClaim, Own, Lose, OwnerInv
  <2>2. StampInv'
    BY <1>5 DEF TryClaim, Own, Lose, StampInv
  <2>3. SeenInv'
    BY <1>5 DEF TryClaim, Own, Lose, SeenInv
  <2>4. AckedKeepsRow'
    BY <1>5 DEF TryClaim, Own, Lose, AckedKeepsRow, AnswerInv
  <2>5. AnswerInv' /\ ResponseMatchesStamp' /\ ReplayFaithful'
    BY <1>5 DEF TryClaim, Own, Lose, AnswerInv, ResponseMatchesStamp,
       ReplayFaithful
  <2> QED
    BY <2>1, <2>2, <2>3, <2>4, <2>5
<1>6. ASSUME NEW r \in Req, ReclaimExpired(r) PROVE IInv'
  <2>1. OwnerInv'
    BY <1>6 DEF ReclaimExpired, StampUnchanged, Own, Lose, OwnerInv, SeenInv
  <2>2. StampInv'
    BY <1>6 DEF ReclaimExpired, StampUnchanged, Own, Lose, StampInv
  <2>3. SeenInv'
    BY <1>6 DEF ReclaimExpired, StampUnchanged, Own, Lose, SeenInv
  <2>4. AckedKeepsRow'
    BY <1>6 DEF ReclaimExpired, StampUnchanged, Own, Lose, AckedKeepsRow,
       SeenInv, AnswerInv
  <2>5. ResponseMatchesStamp'
    BY <1>6 DEF ReclaimExpired, StampUnchanged, Own, Lose,
       ResponseMatchesStamp, AnswerInv
  <2>6. AnswerInv' /\ ReplayFaithful'
    BY <1>6 DEF ReclaimExpired, StampUnchanged, Own, Lose, AnswerInv,
       ReplayFaithful
  <2> QED
    BY <2>1, <2>2, <2>3, <2>4, <2>5, <2>6
<1>7. ASSUME NEW r \in Req, LoserReplay(r) PROVE IInv'
  <2>1. ReplayFaithful'
    BY <1>7 DEF LoserReplay, Respond, Replay, Hit, SameHash, SameFp,
       ReplayFaithful, AnswerInv, ResponseMatchesStamp, StampInv
  <2>2. OwnerInv' /\ StampInv' /\ SeenInv' /\ AnswerInv' /\
       ResponseMatchesStamp' /\ AckedKeepsRow'
    BY <1>7 DEF LoserReplay, Respond, Replay, OwnerInv, StampInv, SeenInv,
       AnswerInv, ResponseMatchesStamp, AckedKeepsRow
  <2> QED
    BY <2>1, <2>2
<1>8. ASSUME NEW r \in Req, LoserRefused(r) PROVE IInv'
  <2>1. OwnerInv' /\ StampInv' /\ SeenInv' /\ AnswerInv' /\
       ResponseMatchesStamp' /\ ReplayFaithful' /\ AckedKeepsRow'
    BY <1>8 DEF LoserRefused, Respond, OwnerInv, StampInv, SeenInv, AnswerInv,
       ResponseMatchesStamp, ReplayFaithful, AckedKeepsRow
  <2> QED
    BY <2>1
<1>9. ASSUME NEW r \in Req, HandlerCommit(r) PROVE IInv'
  <2>1. OwnerInv' /\ StampInv' /\ SeenInv' /\ AnswerInv' /\
       ResponseMatchesStamp' /\ ReplayFaithful' /\ AckedKeepsRow'
    BY <1>9 DEF HandlerCommit, OwnerInv, StampInv, SeenInv, AnswerInv,
       ResponseMatchesStamp, ReplayFaithful, AckedKeepsRow
  <2> QED
    BY <2>1
<1>10. ASSUME NEW r \in Req, HandlerSucceeds(r) PROVE IInv'
  <2>1. OwnerInv' /\ StampInv' /\ SeenInv' /\ AnswerInv' /\
       ResponseMatchesStamp' /\ ReplayFaithful' /\ AckedKeepsRow'
    BY <1>10 DEF HandlerSucceeds, OwnerInv, StampInv, SeenInv, AnswerInv,
       ResponseMatchesStamp, ReplayFaithful, AckedKeepsRow
  <2> QED
    BY <2>1
<1>11. ASSUME NEW r \in Req, HandlerFails(r) PROVE IInv'
  <2>1. OwnerInv' /\ StampInv' /\ SeenInv' /\ AnswerInv' /\
       ResponseMatchesStamp' /\ ReplayFaithful' /\ AckedKeepsRow'
    BY <1>11 DEF HandlerFails, OwnerInv, StampInv, SeenInv, AnswerInv,
       ResponseMatchesStamp, ReplayFaithful, AckedKeepsRow
  <2> QED
    BY <2>1
<1>12. ASSUME NEW r \in Req, DrainFails(r) PROVE IInv'
  <2>1. StampInv'
    BY <1>12 DEF DrainFails, Respond, StampInv, OwnerInv
  <2>2. OwnerInv' /\ SeenInv' /\ AnswerInv' /\ ResponseMatchesStamp' /\
       ReplayFaithful' /\ AckedKeepsRow'
    BY <1>12 DEF DrainFails, Respond, OwnerInv, SeenInv, AnswerInv,
       ResponseMatchesStamp, ReplayFaithful, AckedKeepsRow
  <2> QED
    BY <2>1, <2>2
<1>13. ASSUME NEW r \in Req, FinalizeRow(r) PROVE IInv'
  <2>1. row.state = "pending" /\ row.stamp = r /\ pc[r] = "ok"
    BY <1>13 DEF FinalizeRow, OwnerInv
  <2>2. CASE Respond(r, "ok") /\ row' = [row EXCEPT !.state = "complete", !.resp = r]
    <3>1. OwnerInv' /\ SeenInv' /\ AnswerInv'
      BY <1>13, <2>1, <2>2 DEF FinalizeRow, Respond, OwnerInv, SeenInv, AnswerInv
    <3>2. StampInv' /\ ResponseMatchesStamp' /\ AckedKeepsRow'
      BY <1>13, <2>1, <2>2
         DEF FinalizeRow, Respond, StampInv, ResponseMatchesStamp, AckedKeepsRow
    <3>3. ReplayFaithful'
      BY <1>13, <2>1, <2>2 DEF FinalizeRow, Respond, ReplayFaithful, AnswerInv
    <3> QED
      BY <3>1, <3>2, <3>3
  <2>3. CASE Respond(r, "internal_error") /\ UNCHANGED row
    <3>1. OwnerInv' /\ SeenInv' /\ AnswerInv'
      BY <1>13, <2>1, <2>3 DEF FinalizeRow, Respond, OwnerInv, SeenInv, AnswerInv
    <3>2. StampInv' /\ ResponseMatchesStamp' /\ AckedKeepsRow'
      BY <1>13, <2>1, <2>3
         DEF FinalizeRow, Respond, StampInv, ResponseMatchesStamp, AckedKeepsRow
    <3>3. ReplayFaithful'
      BY <1>13, <2>1, <2>3 DEF FinalizeRow, Respond, ReplayFaithful, AnswerInv
    <3> QED
      BY <3>1, <3>2, <3>3
  <2> QED
    BY <1>13, <2>1, <2>2, <2>3 DEF FinalizeRow
<1>14. ASSUME NEW r \in Req, MarkUncacheable(r) PROVE IInv'
  <2>1. OwnerInv'
    BY <1>14 DEF MarkUncacheable, Respond, OwnerInv
  <2>2. StampInv'
    BY <1>14 DEF MarkUncacheable, Respond, StampInv, OwnerInv
  <2>3. AckedKeepsRow'
    BY <1>14 DEF MarkUncacheable, Respond, AckedKeepsRow, OwnerInv
  <2>4. SeenInv' /\ AnswerInv' /\ ResponseMatchesStamp' /\ ReplayFaithful'
    BY <1>14 DEF MarkUncacheable, Respond, SeenInv, AnswerInv,
       ResponseMatchesStamp, ReplayFaithful
  <2> QED
    BY <2>1, <2>2, <2>3, <2>4
<1>15. ASSUME NEW r \in Req, ReleaseRow(r) PROVE IInv'
  <2>1. OwnerInv'
    BY <1>15 DEF ReleaseRow, Respond, Absent, OwnerInv
  <2>2. StampInv'
    BY <1>15 DEF ReleaseRow, Respond, Absent, StampInv, OwnerInv
  <2>3. AckedKeepsRow'
    BY <1>15 DEF ReleaseRow, Respond, Absent, AckedKeepsRow, OwnerInv
  <2>4. SeenInv' /\ AnswerInv' /\ ResponseMatchesStamp' /\ ReplayFaithful'
    BY <1>15 DEF ReleaseRow, Respond, Absent, SeenInv, AnswerInv,
       ResponseMatchesStamp, ReplayFaithful
  <2> QED
    BY <2>1, <2>2, <2>3, <2>4
<1>16. ASSUME NEW w \in Worker, Prune(w) PROVE IInv'
  <2>1. OwnerInv'
    BY <1>16 DEF Prune, Absent, Prunable, OwnerInv
  <2>2. AckedKeepsRow'
    BY <1>16 DEF Prune, Absent, Prunable, AckedKeepsRow
  <2>3. StampInv' /\ SeenInv' /\ AnswerInv' /\ ResponseMatchesStamp' /\
       ReplayFaithful'
    BY <1>16 DEF Prune, Absent, StampInv, SeenInv, AnswerInv,
       ResponseMatchesStamp, ReplayFaithful
  <2> QED
    BY <2>1, <2>2, <2>3
<1>17. ASSUME NEW w \in Worker, Crash(w) PROVE IInv'
  <2>1. StampInv'
    BY <1>17 DEF Crash, StampInv, OwnerInv
  <2>2. OwnerInv' /\ SeenInv' /\ AnswerInv' /\ ResponseMatchesStamp' /\
       ReplayFaithful' /\ AckedKeepsRow'
    BY <1>17 DEF Crash, OwnerInv, SeenInv, AnswerInv, ResponseMatchesStamp,
       ReplayFaithful, AckedKeepsRow
  <2> QED
    BY <2>1, <2>2
<1>18. CASE Tick
  <2>1. OwnerInv'
    BY <1>18 DEF Tick, Owners, Aging, OwnerInv
  <2>2. SeenInv'
    BY <1>18 DEF Tick, Aging, SeenInv
  <2>3. AckedKeepsRow'
    BY <1>18 DEF Tick, Aging, AckedKeepsRow
  <2>4. StampInv' /\ AnswerInv' /\ ResponseMatchesStamp' /\ ReplayFaithful'
    BY <1>18 DEF Tick, StampInv, AnswerInv, ResponseMatchesStamp,
       ReplayFaithful
  <2> QED
    BY <2>1, <2>2, <2>3, <2>4
<1>19. CASE UNCHANGED vars
  <2>1. OwnerInv' /\ StampInv' /\ SeenInv' /\ AnswerInv' /\
       ResponseMatchesStamp' /\ ReplayFaithful' /\ AckedKeepsRow'
    BY <1>19 DEF vars, OwnerInv, StampInv, SeenInv, AnswerInv,
       ResponseMatchesStamp, ReplayFaithful, AckedKeepsRow
  <2> QED
    BY <2>1
<1> QED
  BY <1>1, <1>2, <1>3, <1>4, <1>5, <1>6, <1>7, <1>8, <1>9, <1>10, <1>11,
     <1>12, <1>13, <1>14, <1>15, <1>16, <1>17, <1>18, <1>19 DEF Next, Handler,
     Middleware

LEMMA IInvariant == ASSUME HandlerBound <= Watchdog PROVE Spec => []IInv
<1>1. Init => IInv
  <2> SUFFICES ASSUME Init PROVE IInv
    OBVIOUS
  <2>1. TypeOK
    BY IdempotencyAssumption
       DEF Init, TypeOK, RequestData, RowState, Row, Absent, PC, Owning, Holding, Answer
  <2> QED
    BY <2>1 DEF Init, IInv, Absent, Owning, OwnerInv, StampInv, SeenInv, AnswerInv,
       ResponseMatchesStamp, ReplayFaithful, AckedKeepsRow
<1>2. IInv /\ TypeOK' /\ [Next]_vars => IInv'
  BY IInvStep
<1> QED
  BY <1>1, <1>2, TypeCorrect, PTL DEF Spec

(* No two handlers run under one key, and each settles its own row.        *)
THEOREM SingleOwner == ASSUME HandlerBound <= Watchdog PROVE Spec => []OwnerHoldsRow
<1>1. IInv => OwnerHoldsRow
  BY DEF IInv, OwnerInv, OwnerHoldsRow, Owners
<1> QED
  BY <1>1, IInvariant, PTL

(* Every replay is faithful to its body and authorization.                 *)
THEOREM ReplaySound == ASSUME HandlerBound <= Watchdog PROVE Spec => []ReplayFaithful
<1>1. IInv => ReplayFaithful
  BY DEF IInv
<1> QED
  BY <1>1, IInvariant, PTL

(* A stored response is guarded by the hash and fingerprint of its own     *)
(* attempt, although no settling statement names its attempt.              *)
THEOREM ResponseOwn == ASSUME HandlerBound <= Watchdog PROVE Spec => []ResponseMatchesStamp
<1>1. IInv => ResponseMatchesStamp
  BY DEF IInv
<1> QED
  BY <1>1, IInvariant, PTL

(* An acknowledged cacheable 2xx is protected for the whole TTL.           *)
THEOREM AckedDurable == ASSUME HandlerBound <= Watchdog PROVE Spec => []AckedKeepsRow
<1>1. IInv => AckedKeepsRow
  BY DEF IInv
<1> QED
  BY <1>1, IInvariant, PTL

(* ... and nothing executes under its key again before the TTL is over.    *)
THEOREM AtMostOncePerTTL == ASSUME HandlerBound <= Watchdog PROVE Spec => NoReexecution
<1> DEFINE Guarded == \A r, q \in Req : Begins(r) /\ answer[q] = "ok" => age[q] > TTL
<1>1. ASSUME IInv, Next PROVE Guarded
  <2> SUFFICES ASSUME NEW r \in Req, NEW q \in Req, Begins(r), answer[q] = "ok"
               PROVE  age[q] > TTL
    OBVIOUS
  <2> USE <1>1
  <2> USE DEF IInv, TypeOK, PC, Owning, Holding, Begins
  <2>1. ASSUME NEW x \in Req, Handler(x) PROVE FALSE
    BY <2>1 DEF Handler, HandlerCommit, HandlerSucceeds, HandlerFails, DrainFails,
       Respond
  <2>2. ASSUME NEW x \in Req,
               LookupMiss(x) \/ LookupStale(x) \/ LookupHit(x) \/ LookupRefused(x)
        PROVE  FALSE
    BY <2>2 DEF LookupMiss, LookupStale, LookupHit, LookupRefused, Respond, Replay
  <2>3. ASSUME NEW x \in Req, LoserReplay(x) \/ LoserRefused(x) PROVE FALSE
    BY <2>3 DEF LoserReplay, LoserRefused, Respond, Replay
  <2>4. ASSUME NEW x \in Req, FinalizeRow(x) \/ MarkUncacheable(x) \/ ReleaseRow(x)
        PROVE  FALSE
    <3>1. \E a \in Answer : Respond(x, a)
      BY <2>4 DEF FinalizeRow, MarkUncacheable, ReleaseRow, Answer
    <3> QED
      BY <3>1 DEF Respond
  <2>5. ASSUME NEW w \in Worker, Prune(w) \/ Crash(w) PROVE FALSE
    BY <2>5 DEF Prune, Crash
  <2>6. ~Tick
    BY DEF Tick
  <2>7. ASSUME NEW x \in Req, TryClaim(x) PROVE age[q] > TTL
    <3>1. row.state = "absent"
      BY <2>7 DEF TryClaim, Lose
    <3> QED
      BY <3>1, IdempotencyAssumption DEF AckedKeepsRow
  <2>8. ASSUME NEW x \in Req, ReclaimExpired(x) PROVE age[q] > TTL
    <3>1. pc[x] = "reclaiming" /\ row.stamp = seen[x]
      BY <2>8 DEF ReclaimExpired, StampUnchanged, Lose
    <3> QED
      BY <3>1, IdempotencyAssumption DEF AckedKeepsRow, SeenInv, Fresh
  <2> QED
    BY <1>1, <2>1, <2>2, <2>3, <2>4, <2>5, <2>6, <2>7, <2>8 DEF Next, Middleware
<1>2. IInv /\ [Next]_vars => [Guarded]_vars
  BY <1>1
<1> QED
  BY <1>2, IInvariant, PTL DEF Spec, NoReexecution
-----------------------------------------------------------------------------
(* The slot as an implementation of OncePerKey.  No attempt runs twice, and*)
(* one that has succeeded has run.                                         *)
RunInv ==
    \A r \in Req :
        /\ pc[r] \in Holding \cup {"new", "handling"} => r \notin executed
        /\ pc[r] \in {"committed", "ok", "uncacheable"} /\ ~req[r].dry => r \in executed

LEMMA RunStep ==
    ASSUME TypeOK, RunInv, [Next]_vars
    PROVE  RunInv'
<1> USE DEF RunInv, TypeOK, PC, Owning, Holding, RequestData
<1>1. ASSUME NEW r \in Req, Handler(r) PROVE RunInv'
  BY <1>1 DEF Handler, HandlerCommit, HandlerSucceeds, HandlerFails, DrainFails, Respond
<1>2. ASSUME NEW r \in Req,
             \/ LookupMiss(r) \/ LookupStale(r) \/ LookupHit(r) \/ LookupRefused(r)
             \/ LoserReplay(r) \/ LoserRefused(r)
      PROVE  RunInv'
  BY <1>2 DEF LookupMiss, LookupStale, LookupHit, LookupRefused, LoserReplay, LoserRefused,
     AtLookup, Respond, Replay
<1>3. ASSUME NEW r \in Req, TryClaim(r) \/ ReclaimExpired(r) PROVE RunInv'
  <2>1. /\ pc[r] \in Holding /\ UNCHANGED <<req, executed>>
        /\ pc' = [pc EXCEPT ![r] = "handling"] \/ pc' = [pc EXCEPT ![r] = "lost"]
    BY <1>3 DEF TryClaim, ReclaimExpired, Own, Lose
  <2> QED
    BY <2>1
<1>4. ASSUME NEW r \in Req, FinalizeRow(r) \/ MarkUncacheable(r) \/ ReleaseRow(r) PROVE RunInv'
  <2>1. pc' = [pc EXCEPT ![r] = "answered"] /\ UNCHANGED <<req, executed>>
    BY <1>4 DEF FinalizeRow, MarkUncacheable, ReleaseRow, Respond
  <2> QED
    BY <2>1
<1>5. ASSUME NEW w \in Worker, Prune(w) \/ Crash(w) PROVE RunInv'
  BY <1>5 DEF Prune, Crash
<1>6. CASE Tick \/ UNCHANGED vars
  BY <1>6 DEF Tick, vars
<1> QED
  BY <1>1, <1>2, <1>3, <1>4, <1>5, <1>6 DEF Next, Middleware

(* What an answer makes of the 2xx that the attempts were served.          *)
LEMMA ServedBy ==
    ASSUME TypeOK, AnswerInv, NEW r \in Req, pc[r] # "answered", NEW a \in Answer, Respond(r, a),
           a # "none", \A q \in Req : q # r => source'[q] = source[q]
    PROVE  /\ Served[r] = NoReq
           /\ a \in {"ok", "ok_uncacheable"} => Served' = [Served EXCEPT ![r] = r]
           /\ a = "replay" => Served' = [Served EXCEPT ![r] = source'[r]]
           /\ a \notin {"ok", "ok_uncacheable", "replay"} => Served' = Served
<1>1. answer[r] = "none"
  BY DEF AnswerInv
<1>2. /\ answer \in [Req -> Answer] /\ answer' = [answer EXCEPT ![r] = a]
  BY DEF TypeOK, Respond
<1>3. Served[r] = NoReq
  BY <1>1 DEF Served
<1>4. \A q \in Req : q # r => Served'[q] = Served[q]
  BY <1>2 DEF Served
<1>5. Served'[r] = IF a \in {"ok", "ok_uncacheable"} THEN r
                   ELSE IF a = "replay" THEN source'[r] ELSE NoReq
  BY <1>2 DEF Served
<1>6. DOMAIN Served = Req /\ DOMAIN Served' = Req
  BY DEF Served
<1>7. Served = [q \in Req |-> Served[q]] /\ Served' = [q \in Req |-> Served'[q]]
  BY DEF Served
<1> QED
  BY <1>3, <1>4, <1>5, <1>6, <1>7

(* The abstract state, seen from the row and the program counters.         *)
LEMMA SoleOwner ==
    ASSUME OwnerInv, NEW r \in Req, pc[r] \in Owning
    PROVE  Owners = {r} /\ Kept = {} /\ KeptAge = 0 /\ row.state = "pending" /\ row.stamp = r
BY DEF OwnerInv, Owners, Kept, KeptAge

LEMMA SlotSame ==
    ASSUME UNCHANGED <<req, row, age>>
    PROVE  Asked' = Asked /\ Kept' = Kept /\ KeptAge' = KeptAge
BY DEF Asked, Kept, KeptAge

(* r neither was an owner nor becomes one, or is one before and after.     *)
LEMMA OwnersSame ==
    ASSUME TypeOK, NEW r \in Req, NEW c \in PC, pc' = [pc EXCEPT ![r] = c],
           pc[r] \in Owning <=> c \in Owning
    PROVE  Owners' = Owners
BY DEF TypeOK, Owners

LEMMA OwnerLeaves ==
    ASSUME TypeOK, OwnerInv, NEW r \in Req, NEW c \in PC \ Owning, pc[r] \in Owning,
           pc' = [pc EXCEPT ![r] = c]
    PROVE  Owners' = {}
<1>1. Owners = {r}
  BY SoleOwner
<1> QED
  BY <1>1 DEF TypeOK, Owners

(* A claim: nobody owns the key, and what was kept has expired.            *)
LEMMA ClaimStep ==
    ASSUME IInv, RunInv, NEW r \in Req, pc[r] \in Holding, Own(r),
           \/ row.state = "absent"
           \/ pc[r] = "reclaiming" /\ row.state # "absent" /\ row.stamp = seen[r],
           UNCHANGED <<req, answer, source, executed>>
    PROVE  OnceKept!Next
<1> USE IdempotencyAssumption DEF IInv
<1>1. Owners = {}
  BY DEF Owners, OwnerInv, SeenInv, Settled, Owning
<1>2. Kept # {} => KeptAge > TTL
  <2> SUFFICES ASSUME row.state = "complete" PROVE age[row.stamp] > TTL
    BY DEF Kept, KeptAge
  <2>1. row.stamp = seen[r] /\ seen[r] \in Req /\ ~Fresh(seen[r]) /\ answer[row.stamp] = "ok"
    BY DEF SeenInv, ResponseMatchesStamp
  <2>2. age[row.stamp] \in Nat /\ TTL \in Nat
    BY <2>1 DEF TypeOK
  <2> QED
    BY <2>1, <2>2 DEF Fresh
<1>3. r \notin executed /\ Served[r] = NoReq
  BY DEF RunInv, AnswerInv, Holding, Served
<1>4. Owners' = {r}
  BY <1>1 DEF TypeOK, Own, Owners, Owning
<1>5. Kept' = {} /\ KeptAge' = 0
  BY DEF Own, Kept, KeptAge
<1>6. Asked' = Asked /\ Served' = Served
  BY DEF Asked, Served
<1>7. OnceKept!Claim(r)
  BY <1>1, <1>2, <1>3, <1>4, <1>5, <1>6 DEF OnceKept!Claim
<1> QED
  BY <1>7 DEF OnceKept!Next

(* A replay gives r what was kept for an attempt alike.                    *)
LEMMA ReplayStep ==
    ASSUME IInv, NEW r \in Req, pc[r] \in {"new", "lost"}, Hit(r), SameFp(r), Replay(r),
           UNCHANGED <<req, seen, age, row, executed>>
    PROVE  OnceKept!Next
<1> DEFINE q == row.resp
<1>1. /\ row.state = "complete" /\ q = row.stamp /\ q \in Req /\ age[q] <= TTL
      /\ req[q].hash = req[r].hash /\ req[q].fp = req[r].fp
  BY DEF Hit, SameHash, SameFp, IInv, ResponseMatchesStamp, StampInv
<1>2. /\ pc' = [pc EXCEPT ![r] = "answered"] /\ source' = [source EXCEPT ![r] = q]
      /\ Respond(r, "replay") /\ source \in [Req -> Req \cup {NoReq}]
  BY DEF Replay, Respond, IInv, TypeOK
<1>3. Owners' = Owners
  BY <1>2, OwnersSame DEF IInv, PC, Owning
<1>4. Served[r] = NoReq /\ Served' = [Served EXCEPT ![r] = q]
  BY <1>2, ServedBy DEF IInv, Answer
<1>5. q \in Kept /\ KeptAge <= TTL
  BY <1>1 DEF Kept, KeptAge
<1>6. OnceKept!Alike(q, r)
  BY <1>1 DEF OnceKept!Alike, Asked
<1>7. Asked' = Asked /\ Kept' = Kept /\ KeptAge' = KeptAge
  BY SlotSame
<1> HIDE DEF q
<1>8. OnceKept!Replay(q, r)
  BY <1>3, <1>4, <1>5, <1>6, <1>7 DEF OnceKept!Replay
<1> QED
  BY <1>5, <1>8 DEF OnceKept!Next

(* Steps that the promise does not see.                                    *)
Unseen == UNCHANGED <<Asked, Owners, executed, Kept, KeptAge, Served>>

LEMMA LookupStep ==
    ASSUME IInv, NEW r \in Req, LookupMiss(r) \/ LookupStale(r) \/ LookupRefused(r) \/ LoserRefused(r)
    PROVE  Unseen
<1>1. UNCHANGED <<req, age, row, executed, source>> /\ pc[r] \in {"new", "lost"}
  BY DEF LookupMiss, LookupStale, LookupRefused, LoserRefused, AtLookup
<1>2. CASE LookupMiss(r) \/ LookupStale(r)
  <2>1. /\ UNCHANGED answer
        /\ pc' = [pc EXCEPT ![r] = "claiming"] \/ pc' = [pc EXCEPT ![r] = "reclaiming"]
    BY <1>2 DEF LookupMiss, LookupStale
  <2>2. Owners' = Owners
    BY <1>1, <2>1, OwnersSame DEF IInv, PC, Owning, Holding
  <2> QED
    BY <1>1, <2>1, <2>2, SlotSame DEF Unseen, Served
<1>3. CASE LookupRefused(r) \/ LoserRefused(r)
  <2>1. PICK a \in {"authz_changed", "conflict", "in_progress", "uncacheable"} : Respond(r, a)
    BY <1>3 DEF LookupRefused, LoserRefused
  <2>2. pc' = [pc EXCEPT ![r] = "answered"]
    BY <2>1 DEF Respond
  <2>3. Owners' = Owners
    BY <1>1, <2>2, OwnersSame DEF IInv, PC, Owning
  <2>4. Served' = Served
    BY <1>1, <2>1, ServedBy DEF IInv, Answer
  <2> QED
    BY <1>1, <2>3, <2>4, SlotSame DEF Unseen
<1> QED
  BY <1>2, <1>3
LEMMA HandlerServes ==
    ASSUME IInv, RunInv, NEW r \in Req, Handler(r)
    PROVE  OnceKept!Next \/ Unseen
<1> USE DEF IInv
<1>1. /\ pc[r] \in {"handling", "committed"} /\ UNCHANGED <<req, age, row, source>>
      /\ Owners = {r} /\ r \in Owners
  <2>1. pc[r] \in {"handling", "committed"} /\ UNCHANGED <<req, age, row, source>>
    BY DEF Handler, HandlerCommit, HandlerSucceeds, HandlerFails, DrainFails
  <2> QED
    BY <2>1, SoleOwner DEF Owning
<1>2. CASE HandlerCommit(r)
  <2>1. Owners' = Owners
    BY <1>2, OwnersSame DEF HandlerCommit, PC, Owning
  <2>2. r \notin executed /\ ~req[r].dry /\ executed' = executed \cup {r} /\ UNCHANGED answer
    BY <1>2 DEF HandlerCommit, RunInv
  <2>3. OnceKept!Execute(r)
    BY <1>1, <2>1, <2>2, SlotSame DEF OnceKept!Execute, Asked, Served
  <2> QED
    BY <1>1, <2>3 DEF OnceKept!Next
<1>3. CASE HandlerSucceeds(r) \/ HandlerFails(r)
  <2>1. PICK c \in {"ok", "uncacheable", "failed"} :
             pc' = [pc EXCEPT ![r] = c] /\ UNCHANGED <<answer, executed>>
    BY <1>3 DEF HandlerSucceeds, HandlerFails
  <2>2. Owners' = Owners
    BY <1>1, <2>1, OwnersSame DEF PC, Owning
  <2> QED
    BY <1>1, <2>1, <2>2, SlotSame DEF Unseen, Served
<1>4. CASE DrainFails(r)
  <2>1. /\ pc' = [pc EXCEPT ![r] = "answered"] /\ Respond(r, "error") /\ UNCHANGED executed
    BY <1>4 DEF DrainFails, Respond
  <2>2. Owners' = {}
    BY <1>1, <2>1, OwnerLeaves DEF PC, Owning
  <2>3. Served' = Served
    BY <1>1, <2>1, ServedBy DEF Answer
  <2>4. OnceKept!Quit
    BY <1>1, <2>1, <2>2, <2>3, SlotSame DEF OnceKept!Quit
  <2> QED
    BY <2>4 DEF OnceKept!Next
<1> QED
  BY <1>2, <1>3, <1>4 DEF Handler

(* The last write of an owner keeps its response, or gives the key up.     *)
LEMMA SettleServes ==
    ASSUME HandlerBound <= Watchdog, IInv, RunInv, NEW r \in Req,
           FinalizeRow(r) \/ MarkUncacheable(r) \/ ReleaseRow(r)
    PROVE  OnceKept!Next
<1> USE DEF IInv
<1>1. /\ pc[r] \in {"ok", "uncacheable", "failed"} /\ UNCHANGED <<req, age, source, executed>>
      /\ pc' = [pc EXCEPT ![r] = "answered"]
  BY DEF FinalizeRow, MarkUncacheable, ReleaseRow, Respond
<1>2. Owners = {r} /\ Kept = {} /\ KeptAge = 0 /\ row.state = "pending" /\ row.stamp = r
  BY <1>1, SoleOwner DEF Owning
<1>3. Owners' = {}
  BY <1>1, OwnerLeaves DEF PC, Owning
<1>4. Asked' = Asked
  BY <1>1 DEF Asked
<1>5. CASE FinalizeRow(r) /\ row'.state = "complete"
  <2>1. /\ pc[r] = "ok" /\ Respond(r, "ok")
        /\ row' = [row EXCEPT !.state = "complete", !.resp = r]
    BY <1>2, <1>5 DEF FinalizeRow
  <2>2. Kept' = {r} /\ KeptAge' = age[r]
    BY <1>1, <1>2, <2>1 DEF Kept, KeptAge, TypeOK, Row
  <2>3. age[r] \in 0..TTL
    <3>1. age[r] <= HandlerBound /\ age[r] \in Nat
      BY <1>1 DEF OwnerInv, Owning, TypeOK
    <3> QED
      BY <3>1, IdempotencyAssumption
  <2>4. Served' = [Served EXCEPT ![r] = r]
    BY <1>1, <2>1, ServedBy DEF Answer
  <2>5. Asked[r].dry \/ r \in executed
    BY <2>1 DEF RunInv, Asked, TypeOK, RequestData
  <2>6. OnceKept!Keep(r)
    BY <1>1, <1>3, <1>4, <2>2, <2>3, <2>4, <2>5 DEF OnceKept!Keep
  <2> QED
    BY <1>2, <2>6 DEF OnceKept!Next
<1>6. CASE MarkUncacheable(r)
  <2>1. pc[r] = "uncacheable" /\ Respond(r, "ok_uncacheable") /\ row'.state # "complete"
    BY <1>2, <1>6 DEF MarkUncacheable, TypeOK, Row
  <2>2. Served' = [Served EXCEPT ![r] = r]
    BY <1>1, <2>1, ServedBy DEF Answer
  <2>3. Asked[r].dry \/ r \in executed
    BY <2>1 DEF RunInv, Asked, TypeOK, RequestData
  <2>4. OnceKept!Answer(r)
    BY <1>1, <1>2, <1>3, <1>4, <2>1, <2>2, <2>3 DEF OnceKept!Answer, Kept, KeptAge
  <2> QED
    BY <1>2, <2>4 DEF OnceKept!Next
<1>7. CASE ReleaseRow(r) \/ (FinalizeRow(r) /\ row'.state # "complete")
  <2>1. row'.state # "complete" /\ (Respond(r, "error") \/ Respond(r, "internal_error"))
    <3>1. CASE ReleaseRow(r)
      BY <1>2, <3>1 DEF ReleaseRow, Absent
    <3>2. CASE FinalizeRow(r) /\ row'.state # "complete"
      BY <3>2 DEF FinalizeRow, TypeOK, Row
    <3> QED
      BY <1>7, <3>1, <3>2
  <2>2. Served' = Served
    BY <1>1, <2>1, ServedBy DEF Answer
  <2>3. OnceKept!Quit
    BY <1>1, <1>2, <1>3, <1>4, <2>1, <2>2 DEF OnceKept!Quit, Kept, KeptAge
  <2> QED
    BY <2>3 DEF OnceKept!Next
<1> QED
  BY <1>5, <1>6, <1>7

LEMMA EnvironmentServes ==
    ASSUME IInv, (\E w \in Worker : Prune(w) \/ Crash(w)) \/ Tick
    PROVE  OnceKept!Next \/ Unseen
<1> USE DEF IInv
<1>1. UNCHANGED <<req, answer, source, executed>> /\ Asked' = Asked /\ Served' = Served
  <2>1. UNCHANGED <<req, answer, source, executed>>
    BY DEF Prune, Crash, Tick
  <2> QED
    BY <2>1 DEF Asked, Served
<1>2. ASSUME NEW w \in Worker, Prune(w) PROVE OnceKept!Next \/ Unseen
  <2>1. row' = Absent /\ UNCHANGED <<pc, age>> /\ Prunable
    BY <1>2 DEF Prune
  <2>2. Owners' = Owners /\ Kept' = {} /\ KeptAge' = 0
    BY <2>1 DEF Owners, Kept, KeptAge, Absent
  <2>3. CASE row.state = "complete"
    <3>1. Kept # {} /\ KeptAge > TTL
      BY <2>1, <2>3 DEF Prunable, Kept, KeptAge
    <3>2. OnceKept!Forget
      BY <1>1, <2>2, <3>1 DEF OnceKept!Forget
    <3> QED
      BY <3>2 DEF OnceKept!Next
  <2>4. CASE row.state # "complete"
    BY <1>1, <2>2, <2>4 DEF Unseen, Kept, KeptAge
  <2> QED
    BY <2>3, <2>4
<1>3. ASSUME NEW w \in Worker, Crash(w) PROVE OnceKept!Next \/ Unseen
  <2>1. UNCHANGED <<age, row>> /\ Owners' \subseteq Owners
    BY <1>3 DEF Crash, Owners, Owning, TypeOK
  <2>2. CASE Owners' = Owners
    BY <1>1, <2>1, <2>2, SlotSame DEF Unseen
  <2>3. CASE Owners' # Owners
    <3>1. PICK r \in Req : pc[r] \in Owning /\ r \notin Owners'
      BY <2>1, <2>3 DEF Owners
    <3>2. Owners = {r}
      BY <3>1, SoleOwner
    <3>3. Owners # {} /\ Owners' = {}
      BY <2>1, <3>1, <3>2
    <3>4. OnceKept!Quit
      BY <1>1, <2>1, <3>3, SlotSame DEF OnceKept!Quit
    <3> QED
      BY <3>4 DEF OnceKept!Next
  <2> QED
    BY <2>2, <2>3
<1>4. CASE Tick
  <2>1. /\ UNCHANGED <<pc, row>> /\ Owners' = Owners /\ Kept' = Kept
        /\ age' = [r \in Req |-> IF Aging(r) /\ age[r] <= TTL THEN age[r] + 1 ELSE age[r]]
    BY <1>4 DEF Tick, Owners, Kept
  <2>2. CASE row.state = "complete"
    <3>1. row.stamp \in Req
      BY <2>2 DEF StampInv
    <3>2. KeptAge' = KeptAge + 1 \/ KeptAge' = KeptAge
      BY <2>1, <2>2, <3>1 DEF KeptAge
    <3>3. Kept # {}
      BY <2>2 DEF Kept
    <3> QED
      BY <1>1, <2>1, <3>2, <3>3 DEF OnceKept!Next, OnceKept!Tick, Unseen
  <2>3. CASE row.state # "complete"
    BY <1>1, <2>1, <2>3 DEF Unseen, KeptAge
  <2> QED
    BY <2>2, <2>3
<1> QED
  BY <1>2, <1>3, <1>4

(* The slot implements OncePerKey: every step claims, runs, keeps, answers,*)
(* replays or forgets as it may, or is not seen, for any number of attempts*)
(* and workers, with crashes and failing statements in every place.        *)
THEOREM ServesOncePerKey ==
    ASSUME HandlerBound <= Watchdog
    PROVE  Spec => ServesOnce
<1>1. Init => RunInv /\ OnceKept!Init
  <2> SUFFICES ASSUME Init PROVE RunInv /\ OnceKept!Init
    OBVIOUS
  <2>1. /\ \A r \in Req : pc[r] = "new" /\ answer[r] = "none"
        /\ row.state = "absent" /\ executed = {}
    BY DEF Init, Absent
  <2>2. Owners = {} /\ Kept = {} /\ KeptAge = 0 /\ Served = [r \in Req |-> NoReq]
    BY <2>1 DEF Owners, Owning, Kept, KeptAge, Served
  <2> QED
    BY <2>1, <2>2 DEF RunInv, OnceKept!Init
<1>2. IInv /\ RunInv /\ [Next]_vars => RunInv'
  BY RunStep DEF IInv
<1>3. IInv /\ RunInv /\ [Next]_vars => [OnceKept!Next]_(OnceKept!vars)
  <2> SUFFICES ASSUME IInv, RunInv, [Next]_vars PROVE OnceKept!Next \/ Unseen
    BY DEF Unseen, OnceKept!vars
  <2>1. ASSUME NEW r \in Req, TryClaim(r) \/ ReclaimExpired(r) PROVE OnceKept!Next \/ Unseen
    <3>1. pc[r] \in Holding /\ UNCHANGED <<req, answer, source, executed>>
      BY <2>1 DEF TryClaim, ReclaimExpired, Holding
    <3>2. CASE Lose(r)
      <4>1. Owners' = Owners
        BY <3>1, <3>2, OwnersSame DEF Lose, IInv, PC, Holding, Owning
      <4> QED
        BY <3>1, <3>2, <4>1, SlotSame DEF Lose, Unseen, Served
    <3>3. CASE Own(r) /\ (row.state = "absent" \/ (pc[r] = "reclaiming" /\ StampUnchanged(r)))
      BY <3>1, <3>3, ClaimStep DEF StampUnchanged
    <3> QED
      BY <2>1, <3>2, <3>3 DEF TryClaim, ReclaimExpired
  <2>2. ASSUME NEW r \in Req, LookupHit(r) \/ LoserReplay(r) PROVE OnceKept!Next
    BY <2>2, ReplayStep DEF LookupHit, LoserReplay, AtLookup
  <2>3. CASE UNCHANGED vars
    BY <2>3, SlotSame DEF vars, Unseen, Owners, Served
  <2> QED
    BY <2>1, <2>2, <2>3, LookupStep, HandlerServes, SettleServes, EnvironmentServes
    DEF Next, Middleware
<1> QED
  BY <1>1, <1>2, <1>3, IInvariant, PTL DEF Spec, ServesOnce, OnceKept!Spec
=============================================================================
