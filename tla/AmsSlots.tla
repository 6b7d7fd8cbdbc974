------------------------------ MODULE AmsSlots -------------------------------
(***************************************************************************)
(* The row of one filament slot, and who writes it: the two routes that    *)
(* read the printer (printers/routes_ams.py on a thread, routes_bambu.py   *)
(* with bambu_integration.py on the event loop), and the people who        *)
(* assign, confirm and edit (routes_filament_slots.py, routes_crud.py).    *)
(*                                                                         *)
(* A route takes a report, looks for the row of the slot and for the       *)
(* spool with the reported RFID tag, and writes both in one transaction.   *)
(* Nothing keeps the slot from having two rows; the tag of a spool is      *)
(* UNIQUE.  The reel in the machine is external: people change it at any   *)
(* time, so that a report may say anything and be old when it is written.  *)
(***************************************************************************)
EXTENDS Naturals, FiniteSets

CONSTANTS SlotSync       \* synchronisations at a time

VARIABLES mmu,         \* the printer is a Klipper printer with an MMU
          slotRow,     \* the row that first() finds
          twoRows,     \* a second row was made
          taggedSpool, \* where the spool row of the tagged reel says it is
          syncing      \* [SlotSync -> what its route holds]

amsVars == <<mmu, slotRow, twoRows, taggedSpool, syncing>>

Content == {"empty", "plain", "tagged"}   \* a reel without and one with a tag
SpoolName == {"none", "tagged", "other"}  \* spool rows a slot can point to
NoSlotRow == [shows |-> "none", spool |-> "none", confirmed |-> FALSE]
NotSynchronising == [step |-> "none"]

AmsTypeOK ==
    /\ mmu \in BOOLEAN /\ twoRows \in BOOLEAN
    /\ slotRow \in [shows : Content \cup {"none"}, spool : SpoolName, confirmed : BOOLEAN]
    /\ taggedSpool \in {"unknown", "slot", "elsewhere"}
    /\ \A y \in SlotSync :
          \/ syncing[y] = NotSynchronising
          \/ syncing[y].report \in Content /\ syncing[y].route \in {"thread", "loop"}

AmsInit ==
    /\ mmu \in BOOLEAN
    /\ slotRow = NoSlotRow
    /\ twoRows = FALSE
    /\ taggedSpool \in {"unknown", "elsewhere"}
    /\ syncing = [y \in SlotSync |-> NotSynchronising]

-----------------------------------------------------------------------------
(* The report arrives.  One without spools, which any partial report of    *)
(* the printer can be, ends the route and changes nothing.  The route on   *)
(* the loop does not let another run from here to its commit.              *)
TakeSlots(y) ==
    /\ syncing[y] = NotSynchronising
    /\ \E route \in {"thread", "loop"}, reel \in Content :
          /\ route = "loop" =>
                ~mmu /\ \A z \in SlotSync : syncing[z] # NotSynchronising => syncing[z].route = "thread"
          /\ syncing' = [syncing EXCEPT ![y] = [step |-> "report", route |-> route, report |-> reel]]
    /\ UNCHANGED <<mmu, slotRow, twoRows, taggedSpool>>

(* The queries before the first statement that writes, from which on       *)
(* SQLite lets no other transaction write.  The route on the loop passes   *)
(* over empty slots.                                                       *)
LookForSlot(y) ==
    /\ syncing[y] # NotSynchronising /\ syncing[y].step = "report"
    /\ syncing' = [syncing EXCEPT ![y] =
          IF syncing[y].route = "loop" /\ syncing[y].report = "empty" THEN NotSynchronising
          ELSE [step |-> "write", route |-> @.route, report |-> @.report,
                found |-> slotRow # NoSlotRow, known |-> taggedSpool # "unknown"]]
    /\ UNCHANGED <<mmu, slotRow, twoRows, taggedSpool>>

ByTag(y) == ~mmu /\ syncing[y].route = "thread" /\ syncing[y].report = "tagged"

(* What the route makes of the row it found or made.  A reel with a tag    *)
(* takes the slot; any other leaves the spool that was assigned, and       *)
(* unconfirms it when its colour differs and it carries no tag.            *)
Synchronised(y, row) ==
    IF ByTag(y) THEN {[shows |-> "tagged", spool |-> "tagged", confirmed |-> TRUE]}
    ELSE LET shown == [row EXCEPT !.shows = syncing[y].report]
         IN  {shown} \cup
             IF syncing[y].route = "thread" /\ ~mmu /\ shown.shows # "empty" /\ row.spool = "other"
             THEN {[shown EXCEPT !.confirmed = FALSE]} ELSE {}

EndSync(y) == syncing' = [syncing EXCEPT ![y] = NotSynchronising]

StoreSlot(y) ==
    /\ syncing[y] # NotSynchronising /\ syncing[y].step = "write"
    /\ ByTag(y) /\ ~syncing[y].known => taggedSpool = "unknown"
    /\ IF syncing[y].found \/ slotRow = NoSlotRow
       THEN slotRow' \in Synchronised(y, slotRow) /\ UNCHANGED twoRows
       ELSE twoRows' = TRUE /\ UNCHANGED slotRow
    /\ taggedSpool' = IF ByTag(y) THEN "slot" ELSE taggedSpool
    /\ EndSync(y)
    /\ UNCHANGED mmu

\* The connection breaks; or another route has made the spool first.
SyncFails(y) ==
    /\ syncing[y] # NotSynchronising /\ syncing[y].step = "write"
    /\ EndSync(y)
    /\ UNCHANGED <<mmu, slotRow, twoRows, taggedSpool>>

-----------------------------------------------------------------------------
ByHand == slotRow # NoSlotRow /\ UNCHANGED <<mmu, twoRows, syncing>>

AssignByHand ==
    /\ ByHand
    /\ \E spool \in {"tagged", "other"} :
          /\ spool = "tagged" => taggedSpool # "unknown"
          /\ slotRow' = [slotRow EXCEPT !.spool = spool, !.confirmed = FALSE]
          /\ taggedSpool' = IF spool = "tagged" THEN "slot" ELSE taggedSpool

ConfirmSpool ==
    /\ ByHand /\ slotRow.spool # "none"
    /\ slotRow' = [slotRow EXCEPT !.confirmed = TRUE]
    /\ UNCHANGED taggedSpool

(* manual_slot_assignment names a filament; update_filament_slot sets any  *)
(* column, and an empty slot loses its spool there.                        *)
EditSlot ==
    /\ ByHand
    /\ \E shows \in Content, spool \in {"none", slotRow.spool} :
          slotRow' = IF shows = "empty"
                     THEN [shows |-> "empty", spool |-> "none", confirmed |-> FALSE]
                     ELSE [slotRow EXCEPT !.shows = shows, !.spool = spool]
    /\ UNCHANGED taggedSpool

\* The spool is stored, or put on another printer.
TakeSpoolOut ==
    /\ taggedSpool = "slot" /\ taggedSpool' = "elsewhere"
    /\ UNCHANGED <<mmu, slotRow, twoRows, syncing>>

AmsNext ==
    \/ AssignByHand \/ ConfirmSpool \/ EditSlot \/ TakeSpoolOut
    \/ \E y \in SlotSync : TakeSlots(y) \/ LookForSlot(y) \/ StoreSlot(y) \/ SyncFails(y)

AmsSpec == AmsInit /\ [][AmsNext]_amsVars
=============================================================================
