---------------------------- MODULE SpoolLedger ----------------------------
(***************************************************************************)
(* The filament on spools: who writes remaining_weight_g and where a spool *)
(* is (modules/inventory/routes, jobs_lifecycle.complete_job, AMS reports, *)
(* and archives/archive.py, called when a print is archived).              *)
(*                                                                         *)
(* A route computes the new weight from the row it read and stores it as   *)
(* an absolute value, when it differs from the one read; other requests    *)
(* commit in between.  Every deduction is also recorded: a spool_usage row *)
(* or the archive's consumption_json.                                      *)
(*                                                                         *)
(* Where a spool is is written twice, in the spool's own row and in        *)
(* assigned_spool_id of the printer's filament slot.                       *)
(***************************************************************************)
EXTENDS Integers, FiniteSets

CONSTANTS
    Spool,      \* spools
    NoSpool,    \* assigned_spool_id NULL
    SlotNumber, \* slots of the printer, positive
    Full,       \* grams on a new spool
    RouteThread \* of the server, to run a route

ASSUME SpoolLedgerAssumption ==
    /\ NoSpool \notin Spool
    /\ SlotNumber \subseteq Nat \ {0} /\ IsFiniteSet(SlotNumber)
    /\ Full \in Nat

VARIABLES
    spool,      \* the spools table: a row, or NoRow
    assigned,   \* assigned_spool_id of each filament slot
    route,      \* what each thread is about to commit, or NoRoute
    archive,    \* the archive's deduction, between its read and its writes
    floor       \* per spool, the weight its records account for

spoolVars == <<spool, assigned, route, archive, floor>>

Weight == 0 .. Full
Status == {"active", "empty", "archived"}

(* location_printer_id, here whether it is the printer, and location_slot  *)
SpoolRow == [weight : Weight, status : Status, loaded : BOOLEAN, slot : SlotNumber \cup {0}]

NoRow == [status |-> "deleted"]
NoRoute == [spool |-> NoSpool]
NoArchive == [taken |-> 0]

Kept(s) == spool[s] # NoRow

(* max(0, n) (fault: forgotten)                                            *)
PositiveFault(n) == n
Positive(n) == IF n > 0 THEN n ELSE 0

(* The columns of the UPDATE: those that differ from the row read.         *)
Differing(row, want) == [f \in {g \in DOMAIN want : want[g] # row[g]} |-> want[f]]

Overwritten(row, set) == [f \in DOMAIN row |-> IF f \in DOMAIN set THEN set[f] ELSE row[f]]

SpoolInit ==
    /\ spool = [s \in Spool |-> [weight |-> Full, status |-> "active", loaded |-> FALSE, slot |-> 0]]
    /\ assigned = [n \in SlotNumber |-> NoSpool]
    /\ route = [c \in RouteThread |-> NoRoute]
    /\ archive = NoArchive
    /\ floor = [s \in Spool |-> Full]

-----------------------------------------------------------------------------
(* Routes that read and commit later.  used: the grams the usage row will  *)
(* record; slots: the filament slots whose pointer is set.                 *)

Read(c, s, want, used, slots) ==
    /\ route[c] = NoRoute /\ Kept(s)
    /\ route' = [route EXCEPT ![c] =
            [spool |-> s, set |-> Differing(spool[s], want), used |-> used, slots |-> slots]]
    /\ UNCHANGED <<spool, assigned, archive, floor>>

NoSlots == [n \in {} |-> NoSpool]

(* use_spool                                                               *)
UseSpool(c, s) ==
    \E g \in 1 .. Full :
        LET left == Positive(spool[s].weight - g)
        IN  Read(c, s, [weight |-> left,
                        status |-> IF left = 0 THEN "empty" ELSE spool[s].status], g, NoSlots)

(* weigh_spool: the difference is recorded when the scale shows less; a    *)
(* nearly empty spool (10 g, here nothing) becomes empty                   *)
WeighedUse(old, new) == Positive(old - new)

WeighSpool(c, s) ==
    \E w \in Weight :
        Read(c, s, [weight |-> w, status |-> IF w = 0 THEN "empty" ELSE spool[s].status],
             WeighedUse(spool[s].weight, w), NoSlots)

(* update_spool; delete_spool archives                                     *)
UpdateSpool(c, s) ==
    \/ \E w \in Weight : Read(c, s, [weight |-> w], 0, NoSlots)
    \/ \E t \in Status : Read(c, s, [status |-> t], 0, NoSlots)

DeleteSpool(c, s) == Read(c, s, [status |-> "archived"], 0, NoSlots)

(* The slot's pointer is written when it changes.                          *)
PointTo(n, s) == IF assigned[n] = s THEN NoSlots ELSE [m \in {n} |-> s]

(* assign_spool_to_slot and scan_assign_spool                              *)
AssignSpool(c, s) ==
    \E n \in SlotNumber : Read(c, s, [loaded |-> TRUE, slot |-> n], 0, PointTo(n, s))

(* unload_spool: only the pointer of the spool's own slot is cleared       *)
UnloadSpool(c, s) ==
    Read(c, s, [loaded |-> FALSE, slot |-> 0], 0,
         IF spool[s].loaded /\ spool[s].slot # 0 /\ assigned[spool[s].slot] = s
         THEN [n \in {spool[s].slot} |-> NoSpool] ELSE NoSlots)

(* The usage row or archive entry of a deduction (fault: none is written). *)
RecordedFault(s, g) == floor' = floor
Recorded(s, g) == floor' = [floor EXCEPT ![s] = Positive(@ - g)]

Pointers(slots) == [n \in SlotNumber |-> IF n \in DOMAIN slots THEN slots[n] ELSE assigned[n]]

(* The commit.  A weight set below the present one without a usage row is  *)
(* a correction, and the account follows it.                               *)
CommitRoute(c) ==
    /\ route[c] # NoRoute
    /\ route' = [route EXCEPT ![c] = NoRoute]
    /\ LET s == route[c].spool
           row == Overwritten(spool[s], route[c].set)
       IN  IF Kept(s)
           THEN /\ spool' = [spool EXCEPT ![s] = row]
                /\ assigned' = Pointers(route[c].slots)
                /\ Recorded(s, IF route[c].used > 0 THEN route[c].used
                               ELSE Positive(spool[s].weight - row.weight))
           ELSE UNCHANGED <<spool, assigned, floor>>
    /\ UNCHANGED archive

(* load_spool: two rows, as another spool in that slot is put off it       *)
LoadSpool(s) ==
    \E n \in SlotNumber :
        LET there == {o \in Spool \ {s} : Kept(o) /\ spool[o].loaded /\ spool[o].slot = n}
        IN  /\ Kept(s)
            /\ \E out \in SUBSET there :
                /\ Cardinality(out) = (IF there = {} THEN 0 ELSE 1)
                /\ spool' = [o \in Spool |->
                       CASE o = s -> [spool[s] EXCEPT !.loaded = TRUE, !.slot = n]
                         [] o \in out -> [spool[o] EXCEPT !.loaded = FALSE, !.slot = 0]
                         [] OTHER -> spool[o]]
            /\ assigned' = [assigned EXCEPT ![n] = s]
            /\ UNCHANGED <<route, archive, floor>>

(* bulk_update_spools: conditions in the statements; a deleted spool's     *)
(* pointers become NULL by its foreign key                                 *)
BulkSpools(s) ==
    /\ Kept(s)
    /\ \/ \E t \in {"archived", "active"} : spool' = [spool EXCEPT ![s].status = t]
          /\ UNCHANGED assigned
       \/ /\ spool[s].status \in {"archived", "empty"}
          /\ spool' = [spool EXCEPT ![s] = NoRow]
          /\ assigned' = [n \in SlotNumber |-> IF assigned[n] = s THEN NoSpool ELSE assigned[n]]
    /\ UNCHANGED <<route, archive, floor>>

(* The AMS reports a spool by its RFID: place and weight are as measured.  *)
SyncAms(s) ==
    \E n \in SlotNumber, w \in Weight \ {0} :
        /\ Kept(s) /\ assigned[n] = NoSpool
        /\ spool' = [spool EXCEPT ![s].weight = w, ![s].loaded = TRUE, ![s].slot = n]
        /\ assigned' = [assigned EXCEPT ![n] = s]
        /\ Recorded(s, Positive(spool[s].weight - w))
        /\ UNCHANGED <<route, archive>>

-----------------------------------------------------------------------------
(* Deductions                                                              *)

(* complete_job after it has won the row: one transaction; of several      *)
(* active spools located in a slot the last one read is taken.             *)
CompleteDeducts ==
    \E n \in SlotNumber, g \in 1 .. Full, s \in Spool :
        /\ Kept(s)
        /\ spool[s].loaded /\ spool[s].slot = n /\ spool[s].status = "active"
        /\ spool' = [spool EXCEPT ![s].weight = Positive(@ - g)]
        /\ Recorded(s, g)
        /\ UNCHANGED <<assigned, route, archive>>

(* _deduct_filament_consumption: the grams are split evenly over the slots *)
(* that have a spool assigned, from the weights read.                      *)
ArchiveReads ==
    LET slots == {n \in SlotNumber : assigned[n] # NoSpool}
    IN  /\ archive = NoArchive /\ slots # {}
        /\ \E g \in 1 .. Full :
              archive' = [taken |-> g \div Cardinality(slots),
                          of |-> [n \in {m \in slots : Kept(assigned[m])} |-> assigned[n]],
                          read |-> [n \in {m \in slots : Kept(assigned[m])} |-> spool[assigned[n]].weight]]
        /\ archive'.taken > 0
        /\ UNCHANGED <<spool, assigned, route, floor>>

Share(n) == Positive(archive.read[n] - archive.taken)

Entries(s) == Cardinality({n \in DOMAIN archive.of : archive.of[n] = s})

ArchiveDeducts ==
    /\ archive # NoArchive
    /\ spool' = [s \in Spool |->
         IF Kept(s) /\ Entries(s) > 0
         THEN [spool[s] EXCEPT !.weight = Share(CHOOSE n \in DOMAIN archive.of : archive.of[n] = s)]
         ELSE spool[s]]
    /\ floor' = [s \in Spool |-> Positive(floor[s] - Entries(s) * archive.taken)]
    /\ archive' = NoArchive
    /\ UNCHANGED <<assigned, route>>

(* A statement raises, or the thread dies: nothing is committed.           *)
AbandonRoute(c) == route[c] # NoRoute /\ route' = [route EXCEPT ![c] = NoRoute]
                   /\ UNCHANGED <<spool, assigned, archive, floor>>

AbandonArchive == archive # NoArchive /\ archive' = NoArchive
                  /\ UNCHANGED <<spool, assigned, route, floor>>

-----------------------------------------------------------------------------
RouteStep(c, s) ==
    \/ UseSpool(c, s) \/ WeighSpool(c, s) \/ UpdateSpool(c, s) \/ DeleteSpool(c, s)
    \/ AssignSpool(c, s) \/ UnloadSpool(c, s)

SpoolNext ==
    \/ \E c \in RouteThread : CommitRoute(c) \/ AbandonRoute(c) \/ \E s \in Spool : RouteStep(c, s)
    \/ \E s \in Spool : LoadSpool(s) \/ BulkSpools(s) \/ SyncAms(s)
    \/ CompleteDeducts \/ ArchiveReads \/ ArchiveDeducts \/ AbandonArchive

SpoolSpec == SpoolInit /\ [][SpoolNext]_spoolVars

-----------------------------------------------------------------------------
SpoolTypeOK ==
    /\ spool \in [Spool -> SpoolRow \cup {NoRow}]
    /\ assigned \in [SlotNumber -> Spool \cup {NoSpool}]
    /\ floor \in [Spool -> Weight]

(* No gram is taken twice: a spool never shows less than its records and   *)
(* its measured corrections account for, although every writer stores a    *)
(* weight computed from a row it read before.  (What is lost by such a     *)
(* write is a deduction: the spool may show more.)                         *)
NeverOvercharged == \A s \in Spool : Kept(s) => spool[s].weight >= floor[s]
=============================================================================
