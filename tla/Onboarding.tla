------------------------------ MODULE Onboarding ------------------------------
(***************************************************************************)
(* The setup wizard of a fresh install (system/routes_setup.py): the first *)
(* administrator, a printer tried and added, the network address, and the  *)
(* mark that closes the wizard.                                            *)
(*                                                                         *)
(* Each route asks whether setup is still open and acts later.  The plain  *)
(* functions run on threads: the password is hashed between the question   *)
(* and the INSERT, and a printer is probed for seconds after it.  Only the *)
(* username keeps two first administrators apart.  Accounts made by other  *)
(* routes are one action; what users may do afterwards is Organizations.   *)
(***************************************************************************)
EXTENDS Naturals, FiniteSets

CONSTANTS Visitor,     \* browsers in the wizard
          MaxWizard    \* bound: printers added by the wizard

ASSUME SetupAssumption == MaxWizard \in Nat

VARIABLES founders,    \* visitors whose INSERT into users was committed
          otherUsers,  \* users has rows made by other routes
          setupDone,   \* system_config.setup_complete
          hostIp,      \* system_config.host_ip was saved
          wizardRows,  \* printers added by the wizard, each with its slots
          visit        \* [Visitor -> the route that runs, past its question]

setupVars == <<founders, otherUsers, setupDone, hostIp, wizardRows, visit>>

Route == {"admin", "probe", "printer", "complete", "network"}
NotVisiting == "none"

SetupTypeOK ==
    /\ founders \subseteq Visitor
    /\ otherUsers \in BOOLEAN /\ setupDone \in BOOLEAN /\ hostIp \in BOOLEAN
    /\ wizardRows \in 0..MaxWizard
    /\ visit \in [Visitor -> Route \cup {NotVisiting}]

SetupInit ==
    /\ founders = {} /\ otherUsers = FALSE /\ setupDone = FALSE /\ hostIp = FALSE
    /\ wizardRows = 0
    /\ visit = [v \in Visitor |-> NotVisiting]

SetupUsersExist == founders # {} \/ otherUsers

(* Signed in with the token of the wizard, or with an account made since.  *)
WizardUser(v) == v \in founders \/ otherUsers

-----------------------------------------------------------------------------
(* The question each route asks: setup/admin looks at the users only, the  *)
(* probe at both, the others at the mark and at who is signed in.          *)
OpenTo(route, v) ==
    CASE route = "admin" -> ~SetupUsersExist
      [] route = "probe" -> ~setupDone /\ ~SetupUsersExist
      [] OTHER -> ~setupDone /\ WizardUser(v)

AskSetup(v) ==
    /\ visit[v] = NotVisiting
    /\ \E route \in Route : OpenTo(route, v) /\ visit' = [visit EXCEPT ![v] = route]
    /\ UNCHANGED <<founders, otherUsers, setupDone, hostIp, wizardRows>>

EndVisit(v) == visit' = [visit EXCEPT ![v] = NotVisiting]

(* The INSERT; one with a name or address already taken is answered 400.   *)
FoundAccount(v) ==
    /\ visit[v] = "admin"
    /\ founders' = founders \cup {v}
    /\ EndVisit(v)
    /\ UNCHANGED <<otherUsers, setupDone, hostIp, wizardRows>>

(* The probe ends with what the printer said; the database keeps nothing.  *)
(* A password refused, a name taken and every other error end so, too.     *)
NothingKept(v) ==
    /\ visit[v] # NotVisiting
    /\ EndVisit(v)
    /\ UNCHANGED <<founders, otherUsers, setupDone, hostIp, wizardRows>>

(* Printer and slots at one commit.                                        *)
AddWizardPrinter(v) ==
    /\ visit[v] = "printer" /\ wizardRows < MaxWizard
    /\ wizardRows' = wizardRows + 1
    /\ EndVisit(v)
    /\ UNCHANGED <<founders, otherUsers, setupDone, hostIp>>

(* The key is inserted, or updated when its row was there: the second of   *)
(* two inserts fails, with the first one's value in place.                 *)
MarkComplete(v) ==
    /\ visit[v] = "complete"
    /\ setupDone' = TRUE
    /\ EndVisit(v)
    /\ UNCHANGED <<founders, otherUsers, hostIp, wizardRows>>

(* setup_save_network awaits its body after the question.                  *)
SaveNetwork(v) ==
    /\ visit[v] = "network"
    /\ hostIp' = TRUE
    /\ EndVisit(v)
    /\ UNCHANGED <<founders, otherUsers, setupDone, wizardRows>>

(* An administrator makes or deletes accounts; never the last              *)
(* administrator, and the wizard's are administrators.                     *)
OtherAccounts ==
    /\ SetupUsersExist
    /\ \/ otherUsers' = TRUE /\ UNCHANGED founders
       \/ otherUsers /\ \E v \in founders : founders' = founders \ {v} /\ UNCHANGED otherUsers
    /\ UNCHANGED <<setupDone, hostIp, wizardRows, visit>>

SetupNext ==
    \/ \E v \in Visitor : AskSetup(v) \/ FoundAccount(v) \/ NothingKept(v) \/ AddWizardPrinter(v)
                              \/ MarkComplete(v) \/ SaveNetwork(v)
    \/ OtherAccounts

SetupSpec == SetupInit /\ [][SetupNext]_setupVars
=============================================================================
