---------------------------- MODULE DigestSends -----------------------------
(***************************************************************************)
(* The digest of alerts held back during quiet hours (report_runner.py and *)
(* quiet_hours.py): workers poll, and once a window has ended each claims  *)
(* a recipient by inserting a row that is unique for recipient and window, *)
(* delivers, and writes the outcome into the row.  A recipient is a user   *)
(* (quiet_hours_digest_sends) or an organisation with a webhook            *)
(* (quiet_hours_org_digest_sends): the protocol is the same.               *)
(***************************************************************************)
EXTENDS Naturals, FiniteSetsExt

CONSTANTS
    Recipient,      \* numbers, in the order of their newest alerts, organisations last
    NoRecipient,
    Worker,         \* report_runner processes
    MaxWindows,     \* bound on quiet-hours windows
    MaxFaults       \* bound on crashes, raised statements, failed updates

ASSUME DigestAssumption ==
    /\ Recipient \subseteq Nat /\ IsFiniteSet(Recipient)
    /\ NoRecipient \notin Recipient
    /\ MaxWindows \in Nat /\ MaxFaults \in Nat

VARIABLES
    window,     \* windows begun; the last one has ended unless quiet
    quiet,      \* _is_quiet_time_for_config
    held,       \* recipients with an alert of this window
    claims,     \* delivery_status by recipient and window, or "none"
    delivered,  \* deliveries begun, by recipient and window, up to 2
    worker,     \* where each worker is
    faults

digestVars == <<window, quiet, held, claims, delivered, worker, faults>>

Window == 1 .. MaxWindows
DeliveryStatus == {"none", "pending", "sent", "failed"}

Sleeping == [step |-> "sleeping", window |-> 0, todo |-> {}, at |-> NoRecipient]

DigestInit ==
    /\ window = 0 /\ quiet = FALSE
    /\ held = {}
    /\ claims = [r \in Recipient |-> [n \in Window |-> "none"]]
    /\ delivered = [r \in Recipient |-> [n \in Window |-> 0]]
    /\ worker = [w \in Worker |-> Sleeping]
    /\ faults = 0

Quieten ==
    /\ ~quiet /\ window < MaxWindows
    /\ quiet' = TRUE /\ window' = window + 1 /\ held' = {}
    /\ UNCHANGED <<claims, delivered, worker, faults>>

(* The window ends with alerts held back for some recipients.              *)
EndQuiet ==
    /\ quiet /\ quiet' = FALSE /\ held' \in SUBSET Recipient
    /\ UNCHANGED <<window, claims, delivered, worker, faults>>

Fault == faults < MaxFaults /\ faults' = faults + 1

-----------------------------------------------------------------------------
(* process_quiet_hours_digest: nothing to do inside a window; else the     *)
(* alerts of the one that ended last are read and grouped by recipient.    *)
PollDigest(w) ==
    /\ worker[w].step = "sleeping" /\ ~quiet /\ held # {}
    /\ worker' = [worker EXCEPT ![w] = [step |-> "claiming", window |-> window, todo |-> held, at |-> NoRecipient]]
    /\ UNCHANGED <<window, quiet, held, claims, delivered, faults>>

(* After a claim another worker has: on to the next recipient.              *)
Remaining(todo, r) == todo \ {r}

AtRecipient(w) == worker[w].step = "claiming" /\ worker[w].todo # {}

Claim(w) ==
    /\ AtRecipient(w)
    /\ LET n == worker[w].window  r == Min(worker[w].todo)
       IN  IF claims[r][n] = "none"
           THEN /\ claims' = [claims EXCEPT ![r][n] = "pending"]
                /\ worker' = [worker EXCEPT ![w].step = "delivering", ![w].at = r]
           ELSE /\ worker' = [worker EXCEPT ![w].todo = Remaining(@, r)]
                /\ UNCHANGED claims
    /\ UNCHANGED <<window, quiet, held, delivered, faults>>

(* Any error of the INSERT is taken for a claim lost.                      *)
ClaimRaises(w) ==
    /\ AtRecipient(w) /\ Fault
    /\ worker' = [worker EXCEPT ![w].todo = Remaining(@, Min(@))]
    /\ UNCHANGED <<window, quiet, held, claims, delivered>>

(* _deliver_digest_email, _push, _webhook: what they reach is out of the   *)
(* program's hands; failed means an exception, or a webhook's False.       *)
Deliver(w) ==
    /\ worker[w].step = "delivering"
    /\ LET r == worker[w].at  n == worker[w].window
       IN  delivered' = [delivered EXCEPT ![r][n] = IF @ < 2 THEN @ + 1 ELSE @]
    /\ \E outcome \in {"sent", "failed"} : worker' = [worker EXCEPT ![w].step = outcome]
    /\ UNCHANGED <<window, quiet, held, claims, faults>>

(* _update_digest_status (fault: a failed delivery gives the claim back,   *)
(* as the docstring of _claim_digest_send warns against).                  *)
OutcomeFault(outcome) == IF outcome = "failed" THEN "none" ELSE outcome
Outcome(outcome) == outcome

Finish(w) ==
    /\ worker[w].step \in {"sent", "failed"}
    /\ LET r == worker[w].at  n == worker[w].window
       IN  \/ claims' = [claims EXCEPT ![r][n] = Outcome(worker[w].step)] /\ UNCHANGED faults
           \/ Fault /\ UNCHANGED claims
    /\ worker' = [worker EXCEPT ![w].step = "claiming", ![w].todo = @ \ {worker[w].at}]
    /\ UNCHANGED <<window, quiet, held, delivered>>

EndPoll(w) ==
    /\ worker[w].step = "claiming" /\ worker[w].todo = {}
    /\ worker' = [worker EXCEPT ![w] = Sleeping]
    /\ UNCHANGED <<window, quiet, held, claims, delivered, faults>>

(* The process dies, or a statement raises and main_loop logs it.          *)
LeavePoll(w) ==
    /\ worker[w].step # "sleeping" /\ Fault
    /\ worker' = [worker EXCEPT ![w] = Sleeping]
    /\ UNCHANGED <<window, quiet, held, claims, delivered>>

DigestStep(w) ==
    \/ PollDigest(w) \/ Claim(w)
    \/ Deliver(w) \/ Finish(w) \/ EndPoll(w)

DigestNext ==
    \/ Quieten \/ EndQuiet
    \/ \E w \in Worker : DigestStep(w) \/ LeavePoll(w) \/ ClaimRaises(w)

(* main_loop polls again and again.                                        *)
DigestSpec == DigestInit /\ [][DigestNext]_digestVars /\ \A w \in Worker : WF_digestVars(DigestStep(w))

-----------------------------------------------------------------------------
DigestTypeOK ==
    /\ window \in 0 .. MaxWindows /\ quiet \in BOOLEAN
    /\ held \subseteq Recipient
    /\ claims \in [Recipient -> [Window -> DeliveryStatus]]
    /\ delivered \in [Recipient -> [Window -> 0 .. 2]]
    /\ worker \in [Worker -> [step : {"sleeping", "claiming", "delivering", "sent", "failed"},
                              window : Window \cup {0}, todo : SUBSET Recipient,
                              at : Recipient \cup {NoRecipient}]]
    /\ faults \in 0 .. MaxFaults

(* A digest is delivered at most once for its window, whichever of the     *)
(* workers race for it, die on it or fail to deliver it (docstring of      *)
(* _claim_digest_send), even in a poll that the next window overtakes.     *)
DigestOnce == \A r \in Recipient, n \in Window : delivered[r][n] <= 1
=============================================================================
