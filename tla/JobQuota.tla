------------------------------ MODULE JobQuota ------------------------------
(***************************************************************************)
(* The job quota of one user (core/quota.py and create_job): the count of  *)
(* the period is compared with the quota, the job committed, and the count *)
(* incremented by a commit of its own, for the period of that moment.      *)
(* Other creators of jobs (bulk, batch, preset, repeat, orders) do not     *)
(* look at the quota.                                                      *)
(***************************************************************************)
EXTENDS Integers, FiniteSets, Functions

CONSTANTS
    Request,    \* requests of the user at one time
    Quota,      \* quota_jobs
    Periods,    \* the last period
    MaxCrashes, \* bound on restarts of the server
    MaxMade     \* bound on jobs created

ASSUME JobQuotaAssumption ==
    /\ IsFiniteSet(Request)
    /\ Quota \in Nat \ {0} /\ Periods \in Nat \ {0}
    /\ MaxCrashes \in Nat /\ MaxMade \in Nat

VARIABLES
    period,     \* _get_period_key of the moment
    usage,      \* jobs_used of each period's row, or NoUsage
    request,    \* where each request is
    made,       \* jobs committed in each period
    lost,       \* jobs committed whose count died with the server
    crashes

quotaVars == <<period, usage, request, made, lost, crashes>>

NoUsage == -1

Idle == [pc |-> "idle", key |-> 0]

QuotaInit ==
    /\ period = 1
    /\ usage = [p \in 1 .. Periods |-> NoUsage]
    /\ request = [r \in Request |-> Idle]
    /\ made = [p \in 1 .. Periods |-> 0]
    /\ lost = 0 /\ crashes = 0

Go(r, pc, key) == request' = [request EXCEPT ![r] = [pc |-> pc, key |-> key]]

Room(used) == used < Quota

(* The row is there: 429, or on to the job.                                *)
CheckQuota(r) ==
    /\ request[r].pc = "idle"
    /\ usage[period] # NoUsage /\ Room(usage[period])
    /\ Go(r, "checked", 0)
    /\ UNCHANGED <<period, usage, made, lost, crashes>>

FindNoRow(r) ==
    /\ request[r].pc = "idle" /\ usage[period] = NoUsage
    /\ Go(r, "inserting", period)
    /\ UNCHANGED <<period, usage, made, lost, crashes>>

(* GET /quotas ends here; create_job goes on with a count of 0.  With the  *)
(* row inserted by another meanwhile the key is not unique: 500.           *)
InsertUsage(r) ==
    /\ request[r].pc = "inserting"
    /\ IF usage[request[r].key] = NoUsage
       THEN /\ usage' = [usage EXCEPT ![request[r].key] = 0]
            /\ Go(r, "checked", 0) \/ Go(r, "idle", 0)
       ELSE Go(r, "idle", 0) /\ UNCHANGED usage
    /\ UNCHANGED <<period, made, lost, crashes>>

CommitJob(r) ==
    /\ request[r].pc = "checked"
    /\ SumFunction(made) < MaxMade
    /\ made' = [made EXCEPT ![period] = @ + 1]
    /\ Go(r, "counting", 0)
    /\ UNCHANGED <<period, usage, lost, crashes>>

(* The upsert adds to the value it finds (fault: ON CONFLICT DO NOTHING).  *)
CountedFault(used) == IF used = NoUsage THEN 1 ELSE used
Counted(used) == IF used = NoUsage THEN 1 ELSE used + 1

CountJob(r) ==
    /\ request[r].pc = "counting"
    /\ usage' = [usage EXCEPT ![period] = Counted(@)]
    /\ Go(r, "idle", 0)
    /\ UNCHANGED <<period, made, lost, crashes>>

(* The request fails before its job is committed.                          *)
DropRequest(r) ==
    /\ request[r].pc = "checked"
    /\ Go(r, "idle", 0)
    /\ UNCHANGED <<period, usage, made, lost, crashes>>

NextPeriod ==
    /\ period < Periods
    /\ period' = period + 1
    /\ UNCHANGED <<usage, request, made, lost, crashes>>

Counting == {r \in Request : request[r].pc = "counting"}

(* The server stops, or the counting statement raises.                     *)
Crash ==
    /\ crashes < MaxCrashes
    /\ crashes' = crashes + 1
    /\ lost' = lost + Cardinality(Counting)
    /\ request' = [r \in Request |-> Idle]
    /\ UNCHANGED <<period, usage, made>>

QuotaStep(r) ==
    \/ CheckQuota(r) \/ FindNoRow(r) \/ InsertUsage(r)
    \/ CommitJob(r) \/ CountJob(r) \/ DropRequest(r)

QuotaNext == (\E r \in Request : QuotaStep(r)) \/ NextPeriod \/ Crash

QuotaSpec == QuotaInit /\ [][QuotaNext]_quotaVars

-----------------------------------------------------------------------------
Used == [p \in 1 .. Periods |-> IF usage[p] = NoUsage THEN 0 ELSE usage[p]]

(* Every job created is counted once, or its count is about to be written, *)
(* or died with the server: concurrent creations lose no count.  The sum   *)
(* is over the periods: in which of them a job counts, and that the limit  *)
(* may be passed between check and count, it does not say.                 *)
EveryJobCounted ==
    SumFunction(made) = SumFunction(Used) + lost + Cardinality(Counting)
=============================================================================
