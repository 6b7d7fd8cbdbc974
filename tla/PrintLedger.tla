---------------------------- MODULE PrintLedger ----------------------------
(***************************************************************************)
(* What a monitor promises of its printer's rows in print_jobs, whatever   *)
(* way it follows the printer: prints are entered in the order in which    *)
(* they were started, each at most once and only when no other runs, and   *)
(* an entry that runs ends once.                                           *)
(*                                                                         *)
(* PrintTracking implements this for a Bambu printer whose database        *)
(* answers: without Revisable while its monitor is not replaced (theorem   *)
(* KeepsItsLedger), with it through any restarts (KeepsLedgerRestarted):   *)
(* a recovery that slept while the print ended completes it once more.     *)
(***************************************************************************)
EXTENDS Naturals, Sequences

CONSTANTS
    Prints,     \* numbers of prints
    Revisable   \* may a recovery complete an entry that has ended

VARIABLE ledger     \* the entries, in the order they were made

Outcome == {"completed", "failed", "cancelled"}

Init == ledger = <<>>

(* The newest print of the printer is entered.                             *)
Enter(p) ==
    /\ \A e \in DOMAIN ledger : ledger[e].status \in Outcome /\ ledger[e].print < p
    /\ ledger' = Append(ledger, [print |-> p, status |-> "running"])

(* The print of a running entry ends, or is taken to.                      *)
Conclude(e, o) ==
    /\ ledger[e].status = "running"
    /\ ledger' = [ledger EXCEPT ![e].status = o]

(* Recovery completes the newest entry, whatever end it was given.         *)
Revise ==
    /\ ledger # <<>> /\ ledger[Len(ledger)].status \in Outcome
    /\ ledger' = [ledger EXCEPT ![Len(ledger)].status = "completed"]

Next ==
    \/ \E p \in Prints : Enter(p)
    \/ \E e \in DOMAIN ledger, o \in Outcome : Conclude(e, o)
    \/ Revisable /\ Revise

Spec == Init /\ [][Next]_ledger
=============================================================================
