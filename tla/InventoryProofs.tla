-------------------------- MODULE InventoryProofs ---------------------------
(****************************************************************************)
(* Machine-checked: no gram is taken from a spool twice, the uploads of    *)
(* one name share a model, the beds hold what was ordered, and the tables  *)
(* keep their types; for any number of spools, grams, models, files, items *)
(* and threads of the server.                                              *)
(****************************************************************************)
EXTENDS SpoolLedger, Library, OrderBook, CollectionLemmas

IsRow(row) == row = [f \in DOMAIN row |-> row[f]] /\ "weight" \in DOMAIN row /\ row.weight \in Nat

(* A spool shows at least what its records account for.                    *)
RowsInv ==
    /\ spool = [s \in Spool |-> spool[s]]
    /\ floor \in [Spool -> Nat]
    /\ \A s \in Spool : Kept(s) => IsRow(spool[s]) /\ spool[s].weight >= floor[s]

(* What a route is about to store is not less than what the records will   *)
(* account for once it is recorded: true when the route reads, and from    *)
(* then on as the account only goes down.                                  *)
RouteInv ==
    /\ route = [c \in RouteThread |-> route[c]]
    /\ \A c \in RouteThread : route[c] # NoRoute =>
          /\ route[c].spool \in Spool /\ route[c].used \in Nat
          /\ "weight" \in DOMAIN route[c].set =>
                /\ route[c].set["weight"] \in Nat
                /\ route[c].used > 0 => route[c].set["weight"] >= floor[route[c].spool] - route[c].used

ArchiveInv ==
    archive # NoArchive =>
        /\ archive.taken \in Nat
        /\ DOMAIN archive.of \subseteq SlotNumber
        /\ \A n \in DOMAIN archive.of : archive.of[n] \in Spool =>
              archive.read[n] \in Nat /\ archive.read[n] >= floor[archive.of[n]]

SpoolInv == RowsInv /\ RouteInv /\ ArchiveInv
-----------------------------------------------------------------------------
LEMMA PositiveBounds ==
    \A n \in Int : Positive(n) \in Nat /\ Positive(n) >= n /\ (n >= 0 => Positive(n) = n)
                   /\ \A m \in Nat : m >= n => m >= Positive(n)
BY DEF Positive

(* As the account goes down, what was read before stays sufficient.        *)
LEMMA AccountsLowered ==
    ASSUME SpoolInv, floor' \in [Spool -> Nat], \A s \in Spool : floor'[s] <= floor[s]
    PROVE  /\ route' = route => RouteInv'
           /\ archive' = archive => ArchiveInv'
<1>1. \A s \in Spool : floor[s] \in Nat /\ floor'[s] \in Nat /\ floor'[s] <= floor[s]
  BY DEF SpoolInv, RowsInv
<1>2. ASSUME route' = route PROVE RouteInv'
  BY <1>1, <1>2 DEF SpoolInv, RouteInv
<1>3. ASSUME archive' = archive PROVE ArchiveInv'
  BY <1>1, <1>3 DEF SpoolInv, ArchiveInv
<1> QED
  BY <1>2, <1>3

(* A deduction is entered in the account.                                  *)
LEMMA RecordedLowers ==
    ASSUME RowsInv, NEW s \in Spool, NEW g \in Nat, Recorded(s, g)
    PROVE  /\ floor' \in [Spool -> Nat]
           /\ \A o \in Spool : floor'[o] <= floor[o] /\ (o # s => floor'[o] = floor[o])
           /\ floor'[s] = Positive(floor[s] - g)
<1>1. floor \in [Spool -> Nat] /\ floor' = [floor EXCEPT ![s] = Positive(floor[s] - g)]
  BY DEF RowsInv, Recorded
<1>2. floor[s] \in Nat
  BY <1>1
<1>3. Positive(floor[s] - g) \in Nat /\ Positive(floor[s] - g) <= floor[s]
  BY <1>2 DEF Positive
<1> QED
  BY <1>1, <1>2, <1>3

(* Spools of which only the place or the status changes.                   *)
LEMMA PlacesChange ==
    ASSUME SpoolInv, spool' = [s \in Spool |-> spool'[s]], UNCHANGED <<route, archive, floor>>,
           \A s \in Spool : Kept(s)' => Kept(s) /\ IsRow(spool'[s]) /\ spool'[s].weight = spool[s].weight
    PROVE  SpoolInv'
<1>1. RowsInv'
  BY DEF SpoolInv, RowsInv
<1> QED
  BY <1>1 DEF SpoolInv, RouteInv, ArchiveInv
-----------------------------------------------------------------------------
LEMMA ReadKeeps ==
    ASSUME SpoolInv, NEW c \in RouteThread, NEW s \in Spool, NEW want, NEW used \in Nat, NEW slots,
           Read(c, s, want, used, slots),
           "weight" \in DOMAIN want =>
                want["weight"] \in Nat /\ (used > 0 => want["weight"] >= floor[s] - used)
    PROVE  SpoolInv'
<1> DEFINE e == [spool |-> s, set |-> Differing(spool[s], want), used |-> used, slots |-> slots]
<1>1. route' = [route EXCEPT ![c] = e] /\ UNCHANGED <<spool, assigned, archive, floor>>
  BY DEF Read
<1>2. "weight" \in DOMAIN e.set => "weight" \in DOMAIN want /\ e.set["weight"] = want["weight"]
  BY DEF Differing
<1>3. e.spool = s /\ e.used = used
  OBVIOUS
<1> HIDE DEF e
<1>4. RouteInv'
  BY <1>1, <1>2, <1>3 DEF SpoolInv, RouteInv
<1> QED
  BY <1>1, <1>4 DEF SpoolInv, RowsInv, ArchiveInv, Kept

LEMMA RouteReads ==
    ASSUME SpoolInv, NEW c \in RouteThread, NEW s \in Spool, RouteStep(c, s)
    PROVE  SpoolInv'
<1>1. Full \in Nat
  BY SpoolLedgerAssumption
<1>2. Kept(s)
  BY DEF RouteStep, UseSpool, WeighSpool, UpdateSpool, DeleteSpool, AssignSpool, UnloadSpool, Read
<1>3. spool[s].weight \in Nat /\ floor[s] \in Nat /\ spool[s].weight >= floor[s]
  BY <1>2 DEF SpoolInv, RowsInv, IsRow
<1>4. CASE UseSpool(c, s)
  <2> DEFINE left(g) == Positive(spool[s].weight - g)
             want(g) == [weight |-> left(g), status |-> IF left(g) = 0 THEN "empty" ELSE spool[s].status]
  <2>1. PICK g \in 1 .. Full : Read(c, s, want(g), g, NoSlots)
    BY <1>4 DEF UseSpool
  <2>2. g \in Nat /\ spool[s].weight - g \in Int
    BY <1>1, <1>3
  <2>3. left(g) \in Nat /\ left(g) >= floor[s] - g
    BY <1>3, <2>2 DEF Positive
  <2>4. want(g)["weight"] = left(g)
    OBVIOUS
  <2> HIDE DEF want, left
  <2> QED
    BY <2>1, <2>2, <2>3, <2>4, ReadKeeps
<1>5. CASE WeighSpool(c, s)
  <2> DEFINE want(w) == [weight |-> w, status |-> IF w = 0 THEN "empty" ELSE spool[s].status]
             used(w) == WeighedUse(spool[s].weight, w)
  <2>1. PICK w \in Weight : Read(c, s, want(w), used(w), NoSlots)
    BY <1>5 DEF WeighSpool
  <2>2. w \in Nat
    BY <1>1 DEF Weight
  <2>3. used(w) \in Nat /\ (used(w) > 0 => w >= floor[s] - used(w))
    BY <1>3, <2>2 DEF WeighedUse, Positive
  <2>4. want(w)["weight"] = w
    OBVIOUS
  <2> HIDE DEF want, used
  <2> QED
    BY <2>1, <2>2, <2>3, <2>4, ReadKeeps
<1>6. ASSUME NEW want, NEW slots, Read(c, s, want, 0, slots), "weight" \in DOMAIN want => want["weight"] \in Nat
      PROVE  SpoolInv'
  BY <1>6, ReadKeeps
<1>7. CASE UpdateSpool(c, s)
  <2>1. ASSUME NEW w \in Weight, Read(c, s, [weight |-> w], 0, NoSlots) PROVE SpoolInv'
    <3>1. [weight |-> w]["weight"] \in Nat
      BY <1>1 DEF Weight
    <3> QED
      BY <1>6, <2>1, <3>1
  <2>2. ASSUME NEW t \in Status, Read(c, s, [status |-> t], 0, NoSlots) PROVE SpoolInv'
    <3>1. "weight" \notin DOMAIN [status |-> t]
      OBVIOUS
    <3> QED
      BY <1>6, <2>2, <3>1
  <2> QED
    BY <1>7, <2>1, <2>2 DEF UpdateSpool
<1>8. CASE DeleteSpool(c, s)
  <2>1. "weight" \notin DOMAIN [status |-> "archived"]
    OBVIOUS
  <2> QED
    BY <1>6, <1>8, <2>1 DEF DeleteSpool
<1>9. CASE AssignSpool(c, s) \/ UnloadSpool(c, s)
  <2>1. ASSUME NEW l, NEW n, NEW slots, Read(c, s, [loaded |-> l, slot |-> n], 0, slots) PROVE SpoolInv'
    <3>1. "weight" \notin DOMAIN [loaded |-> l, slot |-> n]
      OBVIOUS
    <3> QED
      BY <1>6, <2>1, <3>1
  <2> QED
    BY <1>9, <2>1 DEF AssignSpool, UnloadSpool
<1> QED
  BY <1>4, <1>5, <1>7, <1>8, <1>9 DEF RouteStep
-----------------------------------------------------------------------------
LEMMA RowChanged ==
    ASSUME NEW row, IsRow(row), NEW f, NEW v, f = "weight" => v \in Nat
    PROVE  /\ IsRow([row EXCEPT ![f] = v])
           /\ [row EXCEPT ![f] = v].weight = IF f = "weight" THEN v ELSE row.weight
BY DEF IsRow

LEMMA RowIsKept ==
    ASSUME NEW row, IsRow(row)
    PROVE  row # NoRow
BY DEF IsRow, NoRow

(* A new weight that the account, lowered by g, covers.                    *)
LEMMA OneRecorded ==
    ASSUME SpoolInv, NEW s \in Spool, NEW row, IsRow(row), spool' = [spool EXCEPT ![s] = row],
           NEW g \in Nat, Recorded(s, g), row.weight >= floor[s] - g
    PROVE  RowsInv' /\ (route' = route => RouteInv') /\ (archive' = archive => ArchiveInv')
<1>1. /\ floor' \in [Spool -> Nat]
      /\ \A o \in Spool : floor'[o] <= floor[o] /\ (o # s => floor'[o] = floor[o])
      /\ floor'[s] = Positive(floor[s] - g)
  BY RecordedLowers DEF SpoolInv
<1>2. (route' = route => RouteInv') /\ (archive' = archive => ArchiveInv')
  BY <1>1, AccountsLowered
<1>3. floor[s] \in Nat /\ row.weight \in Nat
  BY DEF SpoolInv, RowsInv, IsRow
<1>4. row.weight >= floor'[s]
  BY <1>1, <1>3, PositiveBounds
<1>5. spool = [o \in Spool |-> spool[o]]
  BY DEF SpoolInv, RowsInv
<1>6. spool'[s] = row /\ \A o \in Spool : o # s => spool'[o] = spool[o]
  BY <1>5
<1>7. spool' = [o \in Spool |-> spool'[o]]
  BY <1>5
<1>8. RowsInv'
  BY <1>1, <1>4, <1>6, <1>7 DEF SpoolInv, RowsInv, Kept
<1> QED
  BY <1>2, <1>8

(* What a route stores late, when the row is still there.                  *)
LEMMA CommitCovers ==
    ASSUME SpoolInv, NEW c \in RouteThread, CommitRoute(c)
    PROVE  SpoolInv'
<1> DEFINE s == route[c].spool
           set == route[c].set
           row == Overwritten(spool[s], set)
           g == IF route[c].used > 0 THEN route[c].used ELSE Positive(spool[s].weight - row.weight)
<1>1. /\ route[c] # NoRoute /\ route' = [route EXCEPT ![c] = NoRoute] /\ UNCHANGED archive
      /\ IF Kept(s) THEN spool' = [spool EXCEPT ![s] = row] /\ Recorded(s, g)
                     ELSE UNCHANGED <<spool, floor>>
  BY DEF CommitRoute
<1>2. /\ s \in Spool /\ route[c].used \in Nat
      /\ "weight" \in DOMAIN set =>
            set["weight"] \in Nat /\ (route[c].used > 0 => set["weight"] >= floor[s] - route[c].used)
  BY <1>1 DEF SpoolInv, RouteInv
<1>3. CASE ~Kept(s)
  BY <1>1, <1>3 DEF SpoolInv, RowsInv, RouteInv, ArchiveInv, Kept
<1>4. CASE Kept(s)
  <2>1. IsRow(spool[s]) /\ spool[s].weight >= floor[s] /\ floor[s] \in Nat
    BY <1>2, <1>4 DEF SpoolInv, RowsInv
  <2>2. /\ row.weight = IF "weight" \in DOMAIN set THEN set["weight"] ELSE spool[s].weight
        /\ row = [f \in DOMAIN row |-> row[f]] /\ "weight" \in DOMAIN row
    BY <2>1 DEF IsRow, Overwritten
  <2>3. IsRow(row)
    BY <1>2, <2>1, <2>2 DEF IsRow
  <2>4. spool' = [spool EXCEPT ![s] = row] /\ Recorded(s, g)
    BY <1>1, <1>4
  <2>5. spool[s].weight \in Nat /\ row.weight \in Nat
    BY <2>1, <2>3 DEF IsRow
  <2> HIDE DEF row, set, s
  <2>6. g \in Nat /\ row.weight >= floor[s] - g
    BY <1>2, <2>1, <2>2, <2>5 DEF Positive
  <2> HIDE DEF g
  <2>7. RowsInv' /\ ArchiveInv'
    BY <1>1, <1>2, <2>3, <2>4, <2>6, OneRecorded
  <2>8. \A o \in Spool : floor'[o] \in Nat /\ floor[o] \in Nat /\ floor'[o] <= floor[o]
    BY <1>2, <2>4, <2>6, <2>7, RecordedLowers DEF SpoolInv, RowsInv
  <2>9. RouteInv'
    BY <1>1, <2>8 DEF SpoolInv, RouteInv
  <2> QED
    BY <2>7, <2>9 DEF SpoolInv
<1> QED
  BY <1>3, <1>4

LEMMA CompleteCovers ==
    ASSUME SpoolInv, CompleteDeducts
    PROVE  SpoolInv'
<1>1. PICK g \in 1 .. Full, s \in Spool :
        /\ Kept(s)
        /\ spool' = [spool EXCEPT ![s] = [spool[s] EXCEPT !["weight"] = Positive(spool[s].weight - g)]]
        /\ Recorded(s, g) /\ UNCHANGED <<assigned, route, archive>>
  BY DEF CompleteDeducts
<1> DEFINE row == [spool[s] EXCEPT !["weight"] = Positive(spool[s].weight - g)]
<1>2. g \in Nat
  BY <1>1, SpoolLedgerAssumption
<1>3. IsRow(spool[s]) /\ spool[s].weight \in Nat /\ floor[s] \in Nat /\ spool[s].weight >= floor[s]
  BY <1>1 DEF SpoolInv, RowsInv, IsRow
<1>4. Positive(spool[s].weight - g) \in Nat /\ Positive(spool[s].weight - g) >= floor[s] - g
  BY <1>2, <1>3 DEF Positive
<1>5. IsRow(row) /\ row.weight >= floor[s] - g
  BY <1>3, <1>4, RowChanged
<1> HIDE DEF row
<1>6. spool' = [spool EXCEPT ![s] = row]
  BY <1>1 DEF row
<1> QED
  BY <1>1, <1>2, <1>5, <1>6, OneRecorded DEF SpoolInv

LEMMA SyncKeeps ==
    ASSUME SpoolInv, NEW s \in Spool, SyncAms(s)
    PROVE  SpoolInv'
<1>1. PICK n \in SlotNumber, w \in Weight \ {0} :
        /\ Kept(s)
        /\ spool' = [spool EXCEPT ![s].weight = w, ![s].loaded = TRUE, ![s].slot = n]
        /\ Recorded(s, Positive(spool[s].weight - w)) /\ UNCHANGED <<route, archive>>
  BY DEF SyncAms
<1> DEFINE r1 == [spool[s] EXCEPT !["weight"] = w]
           r2 == [r1 EXCEPT !["loaded"] = TRUE]
           row == [r2 EXCEPT !["slot"] = n]
           g == Positive(spool[s].weight - w)
<1>2. w \in Nat
  BY <1>1, SpoolLedgerAssumption DEF Weight
<1>3. IsRow(spool[s]) /\ spool[s].weight \in Nat /\ floor[s] \in Nat /\ spool[s].weight >= floor[s]
  BY <1>1 DEF SpoolInv, RowsInv, IsRow
<1>4. IsRow(r1) /\ r1.weight = w
  BY <1>2, <1>3, RowChanged
<1>5. IsRow(r2) /\ r2.weight = w
  <2> HIDE DEF r1
  <2> QED
    BY <1>4, RowChanged
<1>6. IsRow(row) /\ row.weight = w
  <2> HIDE DEF r2
  <2> QED
    BY <1>5, RowChanged
<1>7. spool' = [spool EXCEPT ![s] = row] /\ Recorded(s, g)
  <2>1. spool = [o \in Spool |-> spool[o]]
    BY DEF SpoolInv, RowsInv
  <2> QED
    BY <1>1, <2>1
<1>8. g \in Nat /\ w >= floor[s] - g
  BY <1>2, <1>3 DEF Positive
<1> HIDE DEF row, g
<1> QED
  BY <1>1, <1>6, <1>7, <1>8, OneRecorded DEF SpoolInv

(* Only places and statuses change: loading, unloading, bulk updates.      *)
LEMMA LoadKeeps ==
    ASSUME SpoolInv, NEW s \in Spool, LoadSpool(s)
    PROVE  SpoolInv'
<1>1. PICK n \in SlotNumber, out \in SUBSET {o \in Spool \ {s} : Kept(o)} :
        /\ Kept(s) /\ UNCHANGED <<route, archive, floor>>
        /\ spool' = [o \in Spool |->
               CASE o = s -> [[spool[s] EXCEPT !["loaded"] = TRUE] EXCEPT !["slot"] = n]
                 [] o \in out -> [[spool[o] EXCEPT !["loaded"] = FALSE] EXCEPT !["slot"] = 0]
                 [] OTHER -> spool[o]]
  BY DEF LoadSpool
<1>2. ASSUME NEW o \in Spool, Kept(o), NEW b, NEW m
      PROVE  LET row == [[spool[o] EXCEPT !["loaded"] = b] EXCEPT !["slot"] = m]
             IN  IsRow(row) /\ row.weight = spool[o].weight
  <2> DEFINE r1 == [spool[o] EXCEPT !["loaded"] = b]
  <2>1. IsRow(spool[o])
    BY <1>2 DEF SpoolInv, RowsInv
  <2>2. IsRow(r1) /\ r1.weight = spool[o].weight
    BY <2>1, RowChanged
  <2> HIDE DEF r1
  <2>3. IsRow([r1 EXCEPT !["slot"] = m]) /\ [r1 EXCEPT !["slot"] = m].weight = r1.weight
    BY <2>2, RowChanged
  <2> QED
    BY <2>2, <2>3 DEF r1
<1>3. ASSUME NEW o \in Spool, Kept(o)'
      PROVE  Kept(o) /\ IsRow(spool'[o]) /\ spool'[o].weight = spool[o].weight
  <2>1. CASE o = s
    BY <1>1, <1>2, <2>1
  <2>2. CASE o # s /\ o \in out
    BY <1>1, <1>2, <2>2
  <2>3. CASE o # s /\ o \notin out
    <3>1. spool'[o] = spool[o]
      BY <1>1, <2>3
    <3> QED
      BY <1>3, <3>1 DEF Kept, SpoolInv, RowsInv
  <2> QED
    BY <2>1, <2>2, <2>3
<1>4. spool' = [o \in Spool |-> spool'[o]]
  BY <1>1
<1> QED
  BY <1>1, <1>3, <1>4, PlacesChange

LEMMA BulkCovers ==
    ASSUME SpoolInv, NEW s \in Spool, BulkSpools(s)
    PROVE  SpoolInv'
<1>1. Kept(s) /\ UNCHANGED <<route, archive, floor>>
  BY DEF BulkSpools
<1>2. PICK row : /\ spool' = [spool EXCEPT ![s] = row]
                 /\ row = NoRow \/ \E t : row = [spool[s] EXCEPT !["status"] = t]
  BY DEF BulkSpools
<1>3. spool = [o \in Spool |-> spool[o]] /\ IsRow(spool[s])
  BY <1>1 DEF SpoolInv, RowsInv
<1>4. row = NoRow \/ (IsRow(row) /\ row.weight = spool[s].weight)
  BY <1>2, <1>3, RowChanged
<1>5. spool'[s] = row /\ \A o \in Spool : o # s => spool'[o] = spool[o]
  BY <1>2, <1>3
<1>6. spool' = [o \in Spool |-> spool'[o]]
  BY <1>2, <1>3
<1>7. \A o \in Spool : Kept(o)' => Kept(o) /\ IsRow(spool'[o]) /\ spool'[o].weight = spool[o].weight
  BY <1>1, <1>4, <1>5 DEF Kept, SpoolInv, RowsInv
<1> QED
  BY <1>1, <1>6, <1>7, PlacesChange
-----------------------------------------------------------------------------
(* The archive's deduction, split over the slots.                          *)
LEMMA ArchiveReadKeeps ==
    ASSUME SpoolInv, ArchiveReads
    PROVE  SpoolInv'
<1> DEFINE slots == {n \in SlotNumber : assigned[n] # NoSpool}
           there == {m \in slots : Kept(assigned[m])}
<1>1. UNCHANGED <<spool, assigned, route, floor>> /\ slots # {}
  BY DEF ArchiveReads
<1>2. PICK g \in 1 .. Full :
        archive' = [taken |-> g \div Cardinality(slots),
                    of |-> [n \in there |-> assigned[n]],
                    read |-> [n \in there |-> spool[assigned[n]].weight]]
  BY DEF ArchiveReads
<1>3. Cardinality(slots) \in Nat \ {0}
  <2>1. IsFiniteSet(slots)
    BY SpoolLedgerAssumption, FS_Subset
  <2> QED
    BY <1>1, <2>1, FS_CardinalityType, FS_EmptySet
<1> HIDE DEF slots
<1>4. g \div Cardinality(slots) \in Nat
  BY <1>2, <1>3, SpoolLedgerAssumption
<1>5. there \subseteq SlotNumber
  BY DEF slots
<1>6. \A n \in there : assigned[n] \in Spool =>
          spool[assigned[n]].weight \in Nat /\ spool[assigned[n]].weight >= floor[assigned[n]]
  BY DEF SpoolInv, RowsInv, IsRow
<1> HIDE DEF there
<1>7. ArchiveInv'
  BY <1>1, <1>2, <1>4, <1>5, <1>6 DEF ArchiveInv
<1> QED
  BY <1>1, <1>7 DEF SpoolInv, RowsInv, RouteInv, Kept

LEMMA ArchiveDeductKeeps ==
    ASSUME SpoolInv, ArchiveDeducts
    PROVE  SpoolInv'
<1> DEFINE first(s) == CHOOSE n \in DOMAIN archive.of : archive.of[n] = s
<1>1. /\ archive # NoArchive /\ archive' = NoArchive /\ UNCHANGED <<assigned, route>>
      /\ spool' = [s \in Spool |->
            IF Kept(s) /\ Entries(s) > 0 THEN [spool[s] EXCEPT !["weight"] = Share(first(s))] ELSE spool[s]]
      /\ floor' = [s \in Spool |-> Positive(floor[s] - Entries(s) * archive.taken)]
  BY DEF ArchiveDeducts
<1>2. archive.taken \in Nat
  BY <1>1 DEF SpoolInv, ArchiveInv
<1>3. ASSUME NEW s \in Spool
      PROVE  /\ Entries(s) \in Nat
             /\ Entries(s) > 0 =>
                  /\ Share(first(s)) \in Nat
                  /\ Share(first(s)) >= floor[s] - archive.taken
  <2> DEFINE E == {n \in DOMAIN archive.of : archive.of[n] = s}
  <2>1. IsFiniteSet(E)
    BY <1>1, SpoolLedgerAssumption, FS_Subset DEF SpoolInv, ArchiveInv
  <2>2. Entries(s) \in Nat /\ (Entries(s) > 0 => E # {})
    BY <2>1, FS_CardinalityType, FS_EmptySet DEF Entries
  <2>3. ASSUME Entries(s) > 0
        PROVE  Share(first(s)) \in Nat /\ Share(first(s)) >= floor[s] - archive.taken
    <3>1. first(s) \in DOMAIN archive.of /\ archive.of[first(s)] = s
      BY <2>2, <2>3
    <3> HIDE DEF first
    <3>2. archive.read[first(s)] \in Nat /\ archive.read[first(s)] >= floor[s]
      BY <1>1, <3>1 DEF SpoolInv, ArchiveInv
    <3>3. floor[s] \in Nat
      BY DEF SpoolInv, RowsInv
    <3> QED
      BY <1>2, <3>2, <3>3 DEF Share, Positive
  <2> QED
    BY <2>2, <2>3
<1> HIDE DEF first
<1>4. ASSUME NEW s \in Spool
      PROVE  /\ floor'[s] \in Nat /\ floor'[s] <= floor[s]
             /\ Entries(s) > 0 => \A m \in Nat : m >= floor[s] - archive.taken => m >= floor'[s]
  <2>1. floor[s] \in Nat /\ floor'[s] = Positive(floor[s] - Entries(s) * archive.taken)
    BY <1>1 DEF SpoolInv, RowsInv
  <2>2. Entries(s) * archive.taken \in Nat
        /\ (Entries(s) > 0 => Entries(s) * archive.taken >= archive.taken)
    BY <1>2, <1>3
  <2> QED
    BY <1>2, <2>1, <2>2 DEF Positive
<1>5. floor' \in [Spool -> Nat] /\ \A s \in Spool : floor'[s] <= floor[s]
  BY <1>1, <1>4
<1>6. RouteInv'
  BY <1>1, <1>5, AccountsLowered
<1>7. ASSUME NEW s \in Spool, Kept(s)'
      PROVE  IsRow(spool'[s]) /\ spool'[s].weight >= floor'[s]
  <2>1. Kept(s)
    BY <1>1, <1>7 DEF Kept
  <2>2. IsRow(spool[s]) /\ spool[s].weight >= floor[s] /\ spool[s].weight \in Nat /\ floor[s] \in Nat
    BY <2>1 DEF SpoolInv, RowsInv, IsRow
  <2>3. CASE Entries(s) > 0
    <3>1. spool'[s] = [spool[s] EXCEPT !["weight"] = Share(first(s))]
      BY <1>1, <2>1, <2>3
    <3>2. Share(first(s)) \in Nat
      BY <1>3, <2>3
    <3>3. IsRow(spool'[s]) /\ spool'[s].weight = Share(first(s))
      BY <2>2, <3>1, <3>2, RowChanged
    <3> QED
      BY <1>3, <1>4, <2>3, <3>3
  <2>4. CASE ~(Entries(s) > 0)
    <3>1. spool'[s] = spool[s]
      BY <1>1, <2>4
    <3> QED
      BY <1>4, <2>2, <3>1
  <2> QED
    BY <2>3, <2>4
<1>8. RowsInv'
  BY <1>1, <1>5, <1>7 DEF RowsInv
<1>9. ArchiveInv'
  BY <1>1 DEF ArchiveInv, NoArchive
<1> QED
  BY <1>6, <1>8, <1>9 DEF SpoolInv
-----------------------------------------------------------------------------
LEMMA SpoolInitHolds == SpoolInit => SpoolInv
<1> SUFFICES ASSUME SpoolInit PROVE SpoolInv
  OBVIOUS
<1>1. Full \in Nat
  BY SpoolLedgerAssumption
<1>2. \A s \in Spool : IsRow(spool[s]) /\ spool[s].weight = Full
  BY <1>1 DEF SpoolInit, IsRow
<1>3. floor \in [Spool -> Nat] /\ \A s \in Spool : floor[s] = Full
  BY <1>1 DEF SpoolInit
<1>4. spool = [s \in Spool |-> spool[s]]
  BY DEF SpoolInit
<1>5. RowsInv
  BY <1>1, <1>2, <1>3, <1>4 DEF RowsInv
<1> QED
  BY <1>5 DEF SpoolInit, SpoolInv, RouteInv, ArchiveInv, NoRoute, NoArchive

LEMMA SpoolStepKeeps == SpoolInv /\ [SpoolNext]_spoolVars => SpoolInv'
<1> SUFFICES ASSUME SpoolInv, [SpoolNext]_spoolVars PROVE SpoolInv'
  OBVIOUS
<1>1. ASSUME NEW c \in RouteThread, AbandonRoute(c) PROVE SpoolInv'
  BY <1>1 DEF AbandonRoute, SpoolInv, RowsInv, RouteInv, ArchiveInv, Kept
<1>2. CASE AbandonArchive \/ UNCHANGED spoolVars
  BY <1>2 DEF AbandonArchive, spoolVars, SpoolInv, RowsInv, RouteInv, ArchiveInv, Kept
<1>3. ASSUME NEW c \in RouteThread, CommitRoute(c) \/ \E s \in Spool : RouteStep(c, s)
      PROVE  SpoolInv'
  BY <1>3, CommitCovers, RouteReads
<1>4. ASSUME NEW s \in Spool, LoadSpool(s) \/ BulkSpools(s) \/ SyncAms(s) PROVE SpoolInv'
  BY <1>4, LoadKeeps, BulkCovers, SyncKeeps
<1>5. CASE CompleteDeducts \/ ArchiveReads \/ ArchiveDeducts
  BY <1>5, CompleteCovers, ArchiveReadKeeps, ArchiveDeductKeeps
<1> QED
  BY <1>1, <1>2, <1>3, <1>4, <1>5 DEF SpoolNext

(* Every writer stores a weight computed from a row it read before, and    *)
(* still no spool ever shows less than its records account for.            *)
THEOREM NoGramTakenTwice == SpoolSpec => []NeverOvercharged
<1>1. SpoolInv => NeverOvercharged
  BY DEF SpoolInv, RowsInv, NeverOvercharged
<1> QED
  BY <1>1, SpoolInitHolds, SpoolStepKeeps, PTL DEF SpoolSpec

-----------------------------------------------------------------------------
(* What is left of an upload: of a file with a print time first, of one    *)
(* without it after.                                                       *)
LeftSteps ==
    {<<"look", "attach", "store">>, <<"create", "attach", "store">>, <<"attach", "store">>,
     <<"store">>, <<"store", "look", "attach">>, <<"look", "attach">>, <<"create", "attach">>,
     <<"attach">>}

Upload == [does : {"upload"}, name : ModelName, file : FileId, model : 0 .. MaxModels,
           left : LeftSteps]

ModelRow == [row : BOOLEAN, name : ModelName, as_uploaded : BOOLEAN]
FileRow == [row : BOOLEAN, model : 0 .. MaxModels, stored : BOOLEAN, timed : BOOLEAN, job : BOOLEAN]

TablesInv ==
    /\ model \in [ModelId -> ModelRow]
    /\ \A m \in ModelId : model[m].as_uploaded => model[m].row
    /\ file \in [FileId -> FileRow]
    /\ filed \in 0 .. MaxFiles
    /\ scheduling \in 0 .. MaxFiles
    /\ scheduling # 0 => scheduling \in FileId

(* One upload at a time, since the event loop is not given up while there  *)
(* is one; a model of an upload has the name without the printer; between  *)
(* the look that found none and the insert there is none.                  *)
UploadInv ==
    /\ task \in [Coroutine -> Upload \cup {NoTask}]
    /\ \A c, d \in Coroutine : task[c].does = "upload" /\ task[d].does = "upload" => c = d
    /\ \A m \in ModelId : model[m].as_uploaded => model[m].name = "benchy"
    /\ \A c \in Coroutine :
          task[c].does = "upload" /\ Head(task[c].left) = "create" =>
             \A m \in Models : ~model[m].as_uploaded
    /\ UploadsShareModels

LibraryInv == TablesInv /\ UploadInv

LEMMA LibraryBounds == MaxModels \in Nat \ {0} /\ MaxFiles \in Nat \ {0}
<1>1. MaxModels \in {MaxModels, MaxFiles} /\ MaxFiles \in {MaxModels, MaxFiles}
  OBVIOUS
<1> QED
  BY <1>1, LibraryAssumption

LEMMA TaskIs ==
    ASSUME LibraryInv, NEW c \in Coroutine, task[c].does = "upload"
    PROVE  task[c] \in Upload
BY DEF LibraryInv, UploadInv, NoTask

(* The models gain none that an upload made and nobody renamed.            *)
LEMMA NoneGained ==
    ASSUME LibraryInv, UNCHANGED task,
           \A m \in ModelId : model'[m].as_uploaded => model'[m] = model[m]
    PROVE  UploadInv'
<1>1. \A m \in Models' : model'[m].as_uploaded =>
         m \in Models /\ model[m].as_uploaded /\ model'[m].name = model[m].name
  BY DEF Models, LibraryInv, TablesInv
<1>2. \A m \in ModelId : model'[m].as_uploaded => model'[m].name = "benchy"
  BY DEF LibraryInv, UploadInv
<1> QED
  BY <1>1, <1>2 DEF LibraryInv, UploadInv, UploadsShareModels

(* A stage of one upload that leaves the models as they are.               *)
LEMMA OneUpload ==
    ASSUME LibraryInv, UNCHANGED model, NEW c \in Coroutine, NEW t \in Upload \cup {NoTask},
           task[c].does = "upload" \/ LoopFree(c),
           task' = [task EXCEPT ![c] = t],
           t.does = "upload" /\ Head(t.left) = "create" => \A m \in Models : ~model[m].as_uploaded
    PROVE  UploadInv'
<1>1. Models' = Models
  BY DEF Models
<1>2. \A d \in Coroutine : task'[d] = IF d = c THEN t ELSE task[d]
  BY DEF LibraryInv, UploadInv
<1>3. \A d \in Coroutine \ {c} : task[d].does # "upload"
  BY DEF LibraryInv, UploadInv, LoopFree
<1>4. task' \in [Coroutine -> Upload \cup {NoTask}]
  BY DEF LibraryInv, UploadInv
<1> QED
  BY <1>1, <1>2, <1>3, <1>4 DEF LibraryInv, UploadInv, UploadsShareModels

LEMMA LeftTail ==
    ASSUME NEW l \in LeftSteps, Len(l) # 1
    PROVE  Tail(l) \in LeftSteps /\ Head(Tail(l)) # "create"
<1>1. CASE l = <<"look", "attach", "store">>
  <2>1. Tail(l) = <<"attach", "store">>
    BY <1>1
  <2> QED
    BY <2>1 DEF LeftSteps
<1>2. CASE l = <<"create", "attach", "store">>
  <2>1. Tail(l) = <<"attach", "store">>
    BY <1>2
  <2> QED
    BY <2>1 DEF LeftSteps
<1>3. CASE l = <<"attach", "store">>
  <2>1. Tail(l) = <<"store">>
    BY <1>3
  <2> QED
    BY <2>1 DEF LeftSteps
<1>4. CASE l = <<"store", "look", "attach">>
  <2>1. Tail(l) = <<"look", "attach">>
    BY <1>4
  <2> QED
    BY <2>1 DEF LeftSteps
<1>5. CASE l = <<"look", "attach">>
  <2>1. Tail(l) = <<"attach">>
    BY <1>5
  <2> QED
    BY <2>1 DEF LeftSteps
<1>6. CASE l = <<"create", "attach">>
  <2>1. Tail(l) = <<"attach">>
    BY <1>6
  <2> QED
    BY <2>1 DEF LeftSteps
<1>7. CASE l \in {<<"store">>, <<"attach">>}
  BY <1>7
<1> QED
  BY <1>1, <1>2, <1>3, <1>4, <1>5, <1>6, <1>7 DEF LeftSteps

LEMMA OnwardIs ==
    ASSUME NEW t \in Upload
    PROVE  /\ Onward(t) \in Upload \cup {NoTask}
           /\ Onward(t).does = "upload" => Head(Onward(t).left) # "create"
           /\ Head(t.left) \in {"look", "create"} => Onward(t) \in Upload
<1>1. t.left \in LeftSteps
  BY DEF Upload
<1>2. CASE Len(t.left) = 1
  <2>1. t.left \in {<<"store">>, <<"attach">>}
    BY <1>1, <1>2 DEF LeftSteps
  <2> QED
    BY <1>2, <2>1 DEF Onward, NoTask
<1>3. CASE Len(t.left) # 1
  <2>1. /\ Tail(t.left) \in LeftSteps
        /\ Head(Tail(t.left)) # "create"
    BY <1>1, <1>3, LeftTail
  <2>2. Onward(t) = [t EXCEPT !.left = Tail(t.left)]
    BY <1>3 DEF Onward
  <2> QED
    BY <2>1, <2>2 DEF Upload
<1>4. Head(t.left) \in {"look", "create"} => Len(t.left) # 1
  BY <1>1 DEF LeftSteps
<1> QED
  BY <1>2, <1>3, <1>4

-----------------------------------------------------------------------------
LEMMA ModelChanges ==
    ASSUME LibraryInv, CreateModel \/ UpdateModel \/ DeleteModel
    PROVE  LibraryInv'
<1>1. CASE CreateModel
  <2>1. PICK name \in ModelName :
          model' = [model EXCEPT ![NextModel] = [row |-> TRUE, name |-> name, as_uploaded |-> FALSE]]
    BY <1>1 DEF CreateModel, MakeModel
  <2>2. NextModel \in ModelId /\ [row |-> TRUE, name |-> name, as_uploaded |-> FALSE] \in ModelRow
    BY <1>1 DEF CreateModel, CanMakeModel, ModelRow
  <2>3. TablesInv'
    BY <1>1, <2>1, <2>2 DEF CreateModel, LibraryInv, TablesInv
  <2>4. \A m \in ModelId : model'[m].as_uploaded => model'[m] = model[m]
    BY <2>1, <2>2 DEF LibraryInv, TablesInv
  <2> QED
    BY <1>1, <2>3, <2>4, NoneGained DEF CreateModel, LibraryInv
<1>2. CASE UpdateModel
  <2>1. PICK m \in Models, name \in ModelName :
          model' = [model EXCEPT ![m].name = name, ![m].as_uploaded = FALSE]
    BY <1>2 DEF UpdateModel
  <2> DEFINE w == [model[m] EXCEPT !.name = name, !.as_uploaded = FALSE]
  <2>2. m \in ModelId /\ w \in ModelRow /\ ~w.as_uploaded
    BY DEF Models, LibraryInv, TablesInv, ModelRow
  <2>3. model' = [model EXCEPT ![m] = w]
    BY <2>1, <2>2 DEF LibraryInv, TablesInv
  <2> HIDE DEF w
  <2>4. TablesInv'
    BY <1>2, <2>2, <2>3 DEF UpdateModel, LibraryInv, TablesInv
  <2>5. \A n \in ModelId : model'[n].as_uploaded => model'[n] = model[n]
    BY <2>2, <2>3 DEF LibraryInv, TablesInv
  <2> QED
    BY <1>2, <2>4, <2>5, NoneGained DEF UpdateModel, LibraryInv
<1>3. CASE DeleteModel
  <2>1. PICK m \in Models : model' = [model EXCEPT ![m] = NoModel]
    BY <1>3 DEF DeleteModel
  <2>2. m \in ModelId /\ NoModel \in ModelRow /\ ~NoModel.as_uploaded
    BY LibraryAssumption DEF Models, ModelRow, NoModel
  <2>3. TablesInv'
    BY <1>3, <2>1, <2>2 DEF DeleteModel, LibraryInv, TablesInv
  <2>4. \A n \in ModelId : model'[n].as_uploaded => model'[n] = model[n]
    BY <2>1, <2>2 DEF LibraryInv, TablesInv
  <2> QED
    BY <1>3, <2>3, <2>4, NoneGained DEF DeleteModel, LibraryInv
<1> QED
  BY <1>1, <1>2, <1>3

(* A file's row changes, if it is still there.                             *)
LEMMA FileChanged ==
    ASSUME LibraryInv, NEW f \in FileId, NEW changed \in FileRow,
           file' = ChangeFile(f, changed), UNCHANGED <<model, filed, scheduling>>
    PROVE  TablesInv'
BY DEF ChangeFile, LibraryInv, TablesInv

LEMMA FileActions ==
    ASSUME LibraryInv, DeletePrintFile \/ SchedulePrintFile \/ NameJob
    PROVE  LibraryInv'
<1>1. UploadInv'
  BY NoneGained DEF DeletePrintFile, SchedulePrintFile, NameJob, LibraryInv
<1>2. CASE DeletePrintFile
  <2>1. NoFile \in FileRow
    BY LibraryBounds DEF NoFile, FileRow
  <2>2. TablesInv'
    BY <1>2, <2>1 DEF DeletePrintFile, LibraryInv, TablesInv
  <2> QED
    BY <1>1, <2>2 DEF LibraryInv
<1>3. CASE SchedulePrintFile
  <2>1. \A f \in FileId : f \in 0 .. MaxFiles
    BY DEF FileId
  <2>2. TablesInv'
    BY <1>3, <2>1 DEF SchedulePrintFile, LibraryInv, TablesInv
  <2> QED
    BY <1>1, <2>2 DEF LibraryInv
<1>4. CASE NameJob
  <2> DEFINE named == [file[scheduling] EXCEPT !.job = TRUE]
  <2>1. scheduling \in FileId /\ named \in FileRow
    BY <1>4 DEF NameJob, LibraryInv, TablesInv, FileRow
  <2>2. file' = IF file[scheduling].row THEN [file EXCEPT ![scheduling] = named] ELSE file
    BY <1>4 DEF NameJob
  <2> HIDE DEF named
  <2>3. file' \in [FileId -> FileRow]
    BY <2>1, <2>2 DEF LibraryInv, TablesInv
  <2>4. scheduling' = 0 /\ 0 \in 0 .. MaxFiles
    BY <1>4, LibraryBounds DEF NameJob
  <2>5. TablesInv'
    BY <1>4, <2>3, <2>4 DEF NameJob, LibraryInv, TablesInv
  <2> QED
    BY <1>1, <2>5 DEF LibraryInv
<1> QED
  BY <1>2, <1>3, <1>4

-----------------------------------------------------------------------------
LEMMA UploadKeeps ==
    ASSUME LibraryInv, NEW c \in Coroutine, UploadPrintFile(c)
    PROVE  LibraryInv'
<1>1. PICK name \in ModelName, timed \in BOOLEAN :
          /\ file' = [file EXCEPT ![filed'] = [NoFile EXCEPT !.row = TRUE, !.timed = timed]]
          /\ task' = [task EXCEPT ![c] =
                [does |-> "upload", name |-> name, file |-> filed', model |-> 0,
                 left |-> IF timed THEN <<"look", "attach", "store">>
                          ELSE <<"store", "look", "attach">>]]
  BY DEF UploadPrintFile
<1>2. filed' \in FileId /\ filed' \in 0 .. MaxFiles /\ 0 \in 0 .. MaxModels
  BY LibraryBounds DEF UploadPrintFile, LibraryInv, TablesInv, FileId
<1> DEFINE t == [does |-> "upload", name |-> name, file |-> filed', model |-> 0,
                 left |-> IF timed THEN <<"look", "attach", "store">>
                          ELSE <<"store", "look", "attach">>]
           l == IF timed THEN <<"look", "attach", "store">> ELSE <<"store", "look", "attach">>
<1>3. l \in LeftSteps /\ Head(l) # "create"
  BY DEF LeftSteps
<1>4. t \in Upload /\ Head(t.left) # "create"
  <2> HIDE DEF l
  <2> SUFFICES [does |-> "upload", name |-> name, file |-> filed', model |-> 0, left |-> l] \in Upload
    BY <1>3 DEF l
  <2> QED
    BY <1>2, <1>3 DEF Upload
<1>5. task' = [task EXCEPT ![c] = t]
  BY <1>1
<1>6. [NoFile EXCEPT !.row = TRUE, !.timed = timed] \in FileRow
  BY <1>2 DEF NoFile, FileRow
<1>7. TablesInv'
  BY <1>1, <1>2, <1>6 DEF UploadPrintFile, LibraryInv, TablesInv
<1> HIDE DEF t
<1>8. UploadInv'
  BY <1>4, <1>5, OneUpload DEF UploadPrintFile
<1> QED
  BY <1>7, <1>8 DEF LibraryInv

LEMMA Prepended ==
    /\ <<"create">> \o <<"attach", "store">> = <<"create", "attach", "store">>
    /\ <<"create">> \o <<"attach">> = <<"create", "attach">>
<1> DEFINE S == {"create", "attach", "store"}
           t == <<"attach", "store">>
           u == <<"create", "attach", "store">>
           v == <<"attach">>
           w == <<"create", "attach">>
<1>1. /\ "create" \in S
      /\ t \in Seq(S) /\ Len(t) = 2 /\ t[1] = "attach" /\ t[2] = "store"
      /\ u \in Seq(S) /\ Len(u) = 3 /\ u[1] = "create" /\ u[2] = "attach" /\ u[3] = "store"
  OBVIOUS
<1>2. /\ v \in Seq(S) /\ Len(v) = 1 /\ v[1] = "attach"
      /\ w \in Seq(S) /\ Len(w) = 2 /\ w[1] = "create" /\ w[2] = "attach"
  OBVIOUS
<1> HIDE DEF t, u, v, w, S
<1>3. Len(u) = Len(t) + 1 /\ \A i \in 1 .. Len(t) : u[i + 1] = t[i]
  BY <1>1
<1>4. Len(w) = Len(v) + 1 /\ \A i \in 1 .. Len(v) : w[i + 1] = v[i]
  BY <1>2
<1>5. <<"create">> \o t = u
  BY <1>1, <1>3, PrependIs, Zenon
<1>6. <<"create">> \o v = w
  BY <1>1, <1>2, <1>4, PrependIs, Zenon
<1> QED
  BY <1>5, <1>6 DEF t, u, v, w

LEMMA UploadLooks ==
    ASSUME LibraryInv, NEW c \in Coroutine, LookForModel(c)
    PROVE  LibraryInv'
<1>1. /\ task[c].does = "upload" /\ task[c] \in Upload
      /\ Head(task[c].left) = "look" /\ UNCHANGED model
  BY TaskIs DEF LookForModel, AtStep
<1>2. TablesInv'
  BY DEF LookForModel, LibraryInv, TablesInv
<1>3. CASE \E m \in Called(task[c].name) :
             task' = [task EXCEPT ![c] = [Onward(@) EXCEPT !.model = m]]
  <2>1. PICK m \in Called(task[c].name) :
             task' = [task EXCEPT ![c] = [Onward(@) EXCEPT !.model = m]]
    BY <1>3
  <2> DEFINE t == [Onward(task[c]) EXCEPT !.model = m]
  <2>2. m \in 0 .. MaxModels
    BY DEF Called, Models, ModelId
  <2>3. Onward(task[c]) \in Upload /\ Head(Onward(task[c]).left) # "create"
    BY <1>1, OnwardIs DEF Upload
  <2>4. t \in Upload /\ Head(t.left) # "create"
    BY <2>2, <2>3 DEF Upload
  <2>5. task' = [task EXCEPT ![c] = t]
    BY <2>1
  <2> HIDE DEF t
  <2> QED
    BY <1>1, <1>2, <2>4, <2>5, OneUpload DEF LibraryInv
<1>4. CASE /\ Called(task[c].name) = {}
           /\ task' = [task EXCEPT ![c].left = <<"create">> \o Tail(@)]
  <2> DEFINE t == [task[c] EXCEPT !.left = <<"create">> \o Tail(@)]
             l == task[c].left
  <2>1. <<"create">> \o Tail(l) \in LeftSteps
    <3>1. CASE l = <<"look", "attach", "store">>
      <4>1. Tail(l) = <<"attach", "store">>
        BY <3>1
      <4>2. <<"create">> \o <<"attach", "store">> = <<"create", "attach", "store">>
        BY Prepended
      <4> QED
        BY <4>1, <4>2 DEF LeftSteps
    <3>2. CASE l = <<"look", "attach">>
      <4>1. Tail(l) = <<"attach">>
        BY <3>2
      <4>2. <<"create">> \o <<"attach">> = <<"create", "attach">>
        BY Prepended
      <4> QED
        BY <4>1, <4>2 DEF LeftSteps
    <3>3. l \in LeftSteps /\ Head(l) = "look"
      BY <1>1 DEF Upload
    <3> QED
      BY <3>1, <3>2, <3>3 DEF LeftSteps
  <2>2. t \in Upload
    BY <1>1, <2>1 DEF Upload
  <2>3. \A m \in Models : ~model[m].as_uploaded
    BY <1>4 DEF Called, Models, NormalName, LibraryInv, UploadInv
  <2>4. task' = [task EXCEPT ![c] = t]
    BY <1>4
  <2> HIDE DEF t
  <2> QED
    BY <1>1, <1>2, <2>2, <2>3, <2>4, OneUpload DEF LibraryInv
<1> QED
  BY <1>3, <1>4 DEF LookForModel

(* The upload that found no model inserts the only one of its name.        *)
LEMMA UploadCreates ==
    ASSUME LibraryInv, NEW c \in Coroutine, CreateUploaded(c)
    PROVE  LibraryInv'
<1> DEFINE t == [Onward(task[c]) EXCEPT !.model = NextModel]
           made == [row |-> TRUE, name |-> NormalName(task[c].name), as_uploaded |-> TRUE]
<1>1. /\ task[c].does = "upload" /\ task[c] \in Upload
      /\ Head(task[c].left) = "create"
  BY TaskIs DEF CreateUploaded, AtStep
<1>2. NextModel \in ModelId /\ NextModel \in 0 .. MaxModels
  BY DEF CreateUploaded, CanMakeModel, ModelId
<1>3. \A m \in Models : ~model[m].as_uploaded
  BY <1>1 DEF LibraryInv, UploadInv
<1>4. Onward(task[c]) \in Upload /\ Head(Onward(task[c]).left) # "create"
  BY <1>1, OnwardIs DEF Upload
<1>5. t \in Upload /\ Head(t.left) # "create" /\ t.does = "upload"
  BY <1>2, <1>4 DEF Upload
<1>6. task' = [task EXCEPT ![c] = t]
  BY DEF CreateUploaded
<1>7. made \in ModelRow /\ made.row /\ made.name = "benchy"
  BY LibraryAssumption DEF ModelRow, NormalName
<1>8. model' = [model EXCEPT ![NextModel] = made]
  BY DEF CreateUploaded, MakeModel
<1> HIDE DEF t, made
<1>9. TablesInv'
  BY <1>2, <1>7, <1>8 DEF CreateUploaded, LibraryInv, TablesInv
<1>10. \A m \in ModelId : model'[m].as_uploaded => m = NextModel
  BY <1>2, <1>3, <1>8 DEF LibraryInv, TablesInv, Models
<1>11. \A d \in Coroutine : task'[d] = IF d = c THEN t ELSE task[d]
  BY <1>6 DEF LibraryInv, UploadInv
<1>12. \A d \in Coroutine : task'[d].does = "upload" => d = c
  BY <1>1, <1>11 DEF LibraryInv, UploadInv
<1>13. task' \in [Coroutine -> Upload \cup {NoTask}]
  BY <1>5, <1>6 DEF LibraryInv, UploadInv
<1>14. \A m \in ModelId : model'[m].as_uploaded => model'[m].name = "benchy"
  BY <1>2, <1>7, <1>8, <1>10 DEF LibraryInv, TablesInv
<1>15. \A d \in Coroutine : task'[d].does = "upload" => Head(task'[d].left) # "create"
  BY <1>5, <1>11, <1>12
<1>16. UploadsShareModels'
  BY <1>10 DEF UploadsShareModels, Models
<1>17. UploadInv'
  BY <1>12, <1>13, <1>14, <1>15, <1>16 DEF UploadInv
<1> QED
  BY <1>9, <1>17 DEF LibraryInv

LEMMA AttachKeeps ==
    ASSUME LibraryInv, NEW c \in Coroutine, AttachToModel(c) \/ StoreFile(c)
    PROVE  LibraryInv'
<1> DEFINE f == task[c].file
<1>1. task[c].does = "upload" /\ task[c] \in Upload /\ f \in FileId
  <2>1. task[c].does = "upload"
    BY DEF AttachToModel, StoreFile, AtStep
  <2> QED
    BY <2>1, TaskIs DEF Upload
<1>2. file[f] \in FileRow /\ task[c].model \in 0 .. MaxModels
  BY <1>1 DEF LibraryInv, TablesInv, Upload
<1> DEFINE attached == [file[f] EXCEPT !.model = task[c].model]
           kept == [file[f] EXCEPT !.stored = TRUE]
<1>3. attached \in FileRow /\ kept \in FileRow
  BY <1>2 DEF FileRow
<1>4. file' = ChangeFile(f, attached) \/ file' = ChangeFile(f, kept)
  BY DEF AttachToModel, StoreFile
<1> HIDE DEF attached, kept, f
<1>5. TablesInv'
  BY <1>1, <1>3, <1>4, FileChanged DEF AttachToModel, StoreFile
<1>6. task' = [task EXCEPT ![c] = Onward(task[c])] /\ UNCHANGED model
  BY DEF AttachToModel, StoreFile
<1>7. UploadInv'
  BY <1>1, <1>6, OnwardIs, OneUpload
<1> QED
  BY <1>5, <1>7 DEF LibraryInv

LEMMA FailKeeps ==
    ASSUME LibraryInv, NEW c \in Coroutine, TaskFails(c)
    PROVE  LibraryInv'
<1>1. task[c].does = "upload" /\ NoTask.does # "upload"
  BY DEF TaskFails, LibraryInv, UploadInv, Upload, NoTask
<1>2. UploadInv'
  BY <1>1, OneUpload DEF TaskFails
<1> QED
  BY <1>2 DEF TaskFails, LibraryInv, TablesInv

LEMMA LibraryStep ==
    ASSUME LibraryInv, [LibraryNext]_libraryVars
    PROVE  LibraryInv'
<1>1. CASE UNCHANGED libraryVars
  BY <1>1 DEF libraryVars, LibraryInv, TablesInv, UploadInv, UploadsShareModels, Models
<1> QED
  BY <1>1, ModelChanges, FileActions, UploadKeeps, UploadLooks, UploadCreates, AttachKeeps, FailKeeps
     DEF LibraryNext

LEMMA LibraryStarts == LibraryInit => LibraryInv
<1> SUFFICES ASSUME LibraryInit PROVE LibraryInv
  OBVIOUS
<1>1. NoModel \in ModelRow /\ ~NoModel.as_uploaded /\ ~NoModel.row
  BY LibraryAssumption DEF NoModel, ModelRow
<1>2. NoFile \in FileRow /\ 0 \in 0 .. MaxFiles
  BY LibraryBounds DEF NoFile, FileRow
<1>3. TablesInv
  BY <1>1, <1>2 DEF LibraryInit, TablesInv
<1>4. UploadInv
  BY <1>1 DEF LibraryInit, UploadInv, UploadsShareModels, Models, NoTask
<1> QED
  BY <1>3, <1>4 DEF LibraryInv

LEMMA LibraryAlways == LibrarySpec => []LibraryInv
BY LibraryStarts, LibraryStep, PTL DEF LibrarySpec

LEMMA LibraryTyped == LibraryInv => LibraryTypeOK
BY DEF LibraryInv, TablesInv, UploadInv, LibraryTypeOK, ModelRow, FileRow, Upload, NoTask

(* Types: rows of models and files, and at most an upload per coroutine.   *)
THEOREM LibraryTypes == LibrarySpec => []LibraryTypeOK
BY LibraryTyped, LibraryAlways, PTL

(* Uploads share a model by name, for any number of coroutines and ids,    *)
(* because the event loop is held from the look to the insert: threads may *)
(* change the table between the two, but make no model of an upload.       *)
THEOREM OneModelPerName == LibrarySpec => []UploadsShareModels
<1>1. LibraryInv => UploadsShareModels
  BY DEF LibraryInv, UploadInv
<1> QED
  BY <1>1, LibraryAlways, PTL

-----------------------------------------------------------------------------
(* The beds of so many pieces: all but the last are full.                  *)
LEMMA BedsAre ==
    ASSUME NEW n \in Nat
    PROVE  Beds(n) \in Seq(Int) /\ SumFunction(Beds(n)) = n
<1> DEFINE q == (n + PerBed - 1) \div PerBed
           full(k) == IF k * PerBed <= n THEN PerBed ELSE n - (k - 1) * PerBed
           first(k) == [i \in 1 .. k |-> full(i)]
<1>1. PerBed \in Nat /\ PerBed >= 1
  BY OrderAssumption
<1>2. q \in Nat /\ q * PerBed <= n + PerBed - 1 /\ n + PerBed - 1 < q * PerBed + PerBed
  BY <1>1
<1>3. Beds(n) = first(q)
  BY DEF Beds
<1> HIDE DEF q
<1>4. \A k \in Nat : k * PerBed \in Nat /\ (k + 1) * PerBed = k * PerBed + PerBed
  BY <1>1
<1>5. \A k \in Nat \ {0} : full(k) \in Int
  BY <1>1
<1> DEFINE T == {k \in Nat : k <= q =>
                    SumFunction(first(k)) = IF k * PerBed <= n THEN k * PerBed ELSE n}
<1>6. 0 \in T
  <2>1. first(0) \in [{} -> Int]
    OBVIOUS
  <2>2. 0 * PerBed = 0
    BY <1>1
  <2>3. SumFunction(first(0)) = 0
    BY <2>1, SumEmpty
  <2> HIDE DEF first
  <2> QED
    BY <2>2, <2>3
<1>7. ASSUME NEW k \in T PROVE k + 1 \in T
  <2> SUFFICES ASSUME k + 1 <= q
               PROVE  SumFunction(first(k + 1)) = IF (k + 1) * PerBed <= n THEN (k + 1) * PerBed ELSE n
    OBVIOUS
  <2>1. k \in Nat /\ first(k) \in Seq(Int) /\ full(k + 1) \in Int
    BY <1>5
  <2>2. first(k + 1) = Append(first(k), full(k + 1))
    BY <2>1
  <2>3. SumFunction(first(k + 1)) = SumFunction(first(k)) + full(k + 1)
    <3> HIDE DEF first, full
    <3> QED
      BY <2>1, <2>2, SumAppend
  <2>4. k * PerBed <= n
    <3>1. (k + 1) * PerBed <= q * PerBed
      BY <1>1, <1>2, <2>1
    <3> QED
      BY <1>1, <1>2, <1>4, <2>1, <3>1
  <2>5. SumFunction(first(k)) = k * PerBed
    BY <1>2, <2>1, <2>4
  <2>6. full(k + 1) = IF (k + 1) * PerBed <= n THEN PerBed ELSE n - k * PerBed
    BY <2>1
  <2> HIDE DEF first, full
  <2> QED
    BY <1>1, <1>4, <2>1, <2>3, <2>5, <2>6
<1>8. T = Nat
  <2>1. T \in SUBSET Nat
    OBVIOUS
  <2> HIDE DEF T
  <2> QED
    BY <1>6, <1>7, <2>1, NatInduct
<1>9. SumFunction(first(q)) = n
  <2>1. q \in T
    BY <1>2, <1>8
  <2>2. q * PerBed \in Nat /\ n <= q * PerBed
    BY <1>1, <1>2, <1>4
  <2> QED
    BY <1>2, <2>1, <2>2
<1>10. first(q) \in Seq(Int)
  BY <1>2, <1>5
<1> QED
  BY <1>3, <1>9, <1>10

-----------------------------------------------------------------------------
(* What a schedule_order under way has read of the pieces.                 *)
PlanInv ==
    planning.call = "schedule" =>
        \A i \in OrderItem : i \in Planned => planning.pieces[i] \in Nat

OrderInv ==
    /\ quantity \in [OrderItem -> Nat]
    /\ product.needs \in Nat
    /\ beds \in [OrderItem -> Seq(Int)]
    /\ asked \in [OrderItem -> Nat]
    /\ PlanInv
    /\ BedsHoldTheOrder

LEMMA EmptyBeds == <<>> \in Seq(Int) /\ SumFunction(<<>>) = 0
<1>1. ASSUME NEW s, s = <<>> PROVE s \in Seq(Int) /\ s \in [{} -> Int]
  BY <1>1
<1>2. ASSUME NEW s, s = <<>> PROVE SumFunction(s) = 0
  BY <1>1, <1>2, SumEmpty
<1> QED
  BY <1>1, <1>2

LEMMA OrderStarts == OrderInit => OrderInv
BY EmptyBeds DEF OrderInit, OrderInv, PlanInv, BedsHoldTheOrder, NoProduct, NotPlanning

(* Steps that make, schedule and remove no item.                           *)
LEMMA RestKeepsOrder ==
    ASSUME OrderInv, UNCHANGED <<quantity, beds, asked>>, product'.needs \in Nat,
           planning' = planning \/ planning'.call # "schedule"
    PROVE  OrderInv'
BY DEF OrderInv, PlanInv, Planned, BedsHoldTheOrder

LEMMA ProductKeeps ==
    ASSUME OrderInv, CreateProduct \/ ChangeProduct \/ DeleteProduct \/ DeleteConsumable
    PROVE  OrderInv'
<1>1. product'.needs \in Nat
  <2>1. CASE CreateProduct \/ DeleteProduct
    BY <2>1 DEF CreateProduct, DeleteProduct, NoProduct
  <2>2. CASE ChangeProduct \/ DeleteConsumable
    <3>1. PICK f \in {"needs", "uses"}, n \in Nat : product' = [product EXCEPT ![f] = n]
      BY <2>2 DEF ChangeProduct, DeleteConsumable
    <3> QED
      BY <3>1 DEF OrderInv
  <2> QED
    BY <2>1, <2>2
<1> QED
  BY <1>1, RestKeepsOrder DEF CreateProduct, ChangeProduct, DeleteProduct, DeleteConsumable

LEMMA StockKeeps ==
    ASSUME OrderInv,
           \/ CreateConsumable \/ UpdateConsumable \/ BeginAdjust \/ CommitAdjust
           \/ SetOrderStatus \/ AbandonPlanning
    PROVE  OrderInv'
<1>1. UNCHANGED <<quantity, beds, asked, product>>
  BY DEF CreateConsumable, UpdateConsumable, BeginAdjust, CommitAdjust, SetOrderStatus,
     AbandonPlanning
<1>2. planning' = planning \/ planning'.call # "schedule"
  BY DEF CreateConsumable, UpdateConsumable, BeginAdjust, CommitAdjust, SetOrderStatus,
     AbandonPlanning, NotPlanning
<1> QED
  BY <1>1, <1>2, RestKeepsOrder DEF OrderInv

LEMMA ItemKeeps ==
    ASSUME OrderInv, CreateOrder \/ AddItem \/ UpdateItem
    PROVE  OrderInv'
<1>1. UNCHANGED <<product, beds, planning, asked>>
  BY DEF CreateOrder, AddItem, UpdateItem
<1>2. quantity' \in [OrderItem -> Nat]
  BY OrderAssumption DEF CreateOrder, AddItem, UpdateItem, OrderInv
<1> QED
  BY <1>1, <1>2 DEF OrderInv, PlanInv, Planned, BedsHoldTheOrder

LEMMA RemovalKeeps ==
    ASSUME OrderInv, DeleteItem \/ DeleteOrder
    PROVE  OrderInv'
<1>1. PICK gone \in SUBSET OrderItem : RemoveItems(gone)
  BY DEF DeleteItem, DeleteOrder, Items
<1>2. UNCHANGED <<product, planning>>
  BY DEF DeleteItem, DeleteOrder
<1>3. /\ beds' = [i \in OrderItem |-> IF i \in gone THEN <<>> ELSE beds[i]]
      /\ asked' = [i \in OrderItem |-> IF i \in gone THEN 0 ELSE asked[i]]
      /\ quantity' = [i \in OrderItem |-> IF i \in gone THEN 0 ELSE quantity[i]]
  BY <1>1 DEF RemoveItems, LinksAfter
<1>4. /\ quantity' \in [OrderItem -> Nat] /\ asked' \in [OrderItem -> Nat]
      /\ beds' \in [OrderItem -> Seq(Int)]
  BY <1>3, EmptyBeds DEF OrderInv
<1>5. ASSUME NEW i \in OrderItem, i \in gone PROVE SumFunction(beds'[i]) = asked'[i]
  <2>1. beds'[i] = <<>>
    BY <1>3, <1>5
  <2>2. asked'[i] = 0
    BY <1>3, <1>5
  <2> QED
    BY <2>1, <2>2, EmptyBeds
<1>6. ASSUME NEW i \in OrderItem, i \notin gone PROVE SumFunction(beds'[i]) = asked'[i]
  <2>1. beds'[i] = beds[i]
    BY <1>3, <1>6
  <2>2. asked'[i] = asked[i]
    BY <1>3, <1>6
  <2>3. SumFunction(beds[i]) = asked[i]
    BY DEF OrderInv, BedsHoldTheOrder
  <2> QED
    BY <2>1, <2>2, <2>3
<1>7. BedsHoldTheOrder'
  BY <1>5, <1>6 DEF BedsHoldTheOrder
<1> QED
  BY <1>2, <1>4, <1>7 DEF OrderInv, PlanInv, Planned

LEMMA ReadKeepsOrder == OrderInv /\ ReadOrder => OrderInv'
<1> SUFFICES ASSUME OrderInv, ReadOrder PROVE OrderInv'
  OBVIOUS
<1>1. planning'.pieces = [i \in Items |-> quantity[i] * product.needs]
  BY DEF ReadOrder
<1>2. \A i \in Items : quantity[i] * product.needs \in Nat
  BY DEF Items, OrderInv
<1>3. PlanInv'
  BY <1>1, <1>2 DEF PlanInv, Planned
<1> QED
  BY <1>3 DEF ReadOrder, OrderInv, BedsHoldTheOrder

LEMMA CommitKeepsOrder == OrderInv /\ CommitSchedule => OrderInv'
<1> SUFFICES ASSUME OrderInv, CommitSchedule PROVE OrderInv'
  OBVIOUS
<1> DEFINE p(i) == planning.pieces[i]
<1>1. \A i \in OrderItem :
         /\ beds'[i] = IF i \in Planned THEN beds[i] \o Beds(p(i)) ELSE beds[i]
         /\ asked'[i] = asked[i] + (IF i \in Planned THEN p(i) ELSE 0)
  BY DEF CommitSchedule, BedsAfter
<1>2. ASSUME NEW i \in OrderItem
      PROVE  /\ beds'[i] \in Seq(Int) /\ asked'[i] \in Nat
             /\ SumFunction(beds'[i]) = asked'[i]
  <2>1. beds[i] \in Seq(Int) /\ asked[i] \in Nat /\ SumFunction(beds[i]) = asked[i]
    BY DEF OrderInv, BedsHoldTheOrder
  <2>2. CASE i \notin Planned
    BY <1>1, <2>1, <2>2
  <2>3. CASE i \in Planned
    <3>1. p(i) \in Nat
      BY <2>3 DEF CommitSchedule, OrderInv, PlanInv
    <3>2. Beds(p(i)) \in Seq(Int) /\ SumFunction(Beds(p(i))) = p(i)
      BY <3>1, BedsAre
    <3>3. beds'[i] = beds[i] \o Beds(p(i)) /\ asked'[i] = asked[i] + p(i)
      BY <1>1, <2>3
    <3> HIDE DEF p
    <3>4. beds[i] \o Beds(p(i)) \in Seq(Int)
      BY <2>1, <3>2
    <3>5. SumFunction(beds[i] \o Beds(p(i))) = asked[i] + p(i)
      BY <2>1, <3>2, SumConcat
    <3> QED
      BY <2>1, <3>1, <3>3, <3>4, <3>5
  <2> QED
    BY <2>2, <2>3
<1>3. beds' \in [OrderItem -> Seq(Int)] /\ asked' \in [OrderItem -> Nat]
  <2>1. /\ beds' = [i \in OrderItem |-> beds'[i]]
        /\ asked' = [i \in OrderItem |-> asked'[i]]
    BY DEF CommitSchedule, BedsAfter
  <2> QED
    BY <1>2, <2>1
<1>4. UNCHANGED <<quantity, product>> /\ planning'.call # "schedule"
  BY DEF CommitSchedule, NotPlanning
<1> QED
  BY <1>2, <1>3, <1>4 DEF OrderInv, PlanInv, BedsHoldTheOrder

LEMMA OrderKept == OrderInv /\ [OrderNext]_orderVars => OrderInv'
<1> SUFFICES ASSUME OrderInv, [OrderNext]_orderVars PROVE OrderInv'
  OBVIOUS
<1>1. CASE UNCHANGED orderVars
  BY <1>1, RestKeepsOrder DEF orderVars, OrderInv
<1> QED
  BY <1>1, ProductKeeps, StockKeeps, ItemKeeps, RemovalKeeps, ReadKeepsOrder, CommitKeepsOrder
  DEF OrderNext

(* For any quantities, bed size and number of items, the pieces on the     *)
(* beds of the jobs that name an item are those asked for it, although     *)
(* what is scheduled was read before items are changed, deleted and made   *)
(* again under the same id.                                                *)
THEOREM BedsHold == OrderSpec => []BedsHoldTheOrder
<1>1. OrderInv => BedsHoldTheOrder
  BY DEF OrderInv
<1> QED
  BY <1>1, OrderStarts, OrderKept, PTL DEF OrderSpec

-----------------------------------------------------------------------------
(* What the routes are about to store, in the columns and in the slots.    *)
SpoolColumn == [weight |-> Weight, status |-> Status, loaded |-> BOOLEAN, slot |-> SlotNumber \cup {0}]
SetsColumns(set) == /\ DOMAIN set \subseteq DOMAIN SpoolColumn
                    /\ \A f \in DOMAIN set : set[f] \in SpoolColumn[f]
SetsPointers(slots) == \A n \in DOMAIN slots : slots[n] \in Spool \cup {NoSpool}

RoutesTyped ==
    \A c \in RouteThread : route[c] # NoRoute =>
        SetsColumns(route[c].set) /\ SetsPointers(route[c].slots)
ArchiveTyped ==
    archive # NoArchive =>
        \A n \in DOMAIN archive.of : archive.of[n] \in Spool => archive.read[n] \in Weight

SpoolTypeInv == SpoolInv /\ SpoolTypeOK /\ RoutesTyped /\ ArchiveTyped

LEMMA SpoolTypeStarts == SpoolInit => SpoolTypeInv
<1> SUFFICES ASSUME SpoolInit PROVE SpoolTypeInv
  OBVIOUS
<1>1. Full \in Weight
  BY SpoolLedgerAssumption DEF Weight
<1>2. [weight |-> Full, status |-> "active", loaded |-> FALSE, slot |-> 0] \in SpoolRow
  BY <1>1 DEF SpoolRow, Status
<1>3. SpoolTypeOK
  BY <1>1, <1>2 DEF SpoolInit, SpoolTypeOK
<1>4. RoutesTyped /\ ArchiveTyped
  BY DEF SpoolInit, RoutesTyped, ArchiveTyped
<1> QED
  BY <1>3, <1>4, SpoolInitHolds DEF SpoolTypeInv

LEMMA DifferingTyped ==
    ASSUME NEW row, NEW want, SetsColumns(want)
    PROVE  SetsColumns(Differing(row, want))
BY DEF SetsColumns, Differing

LEMMA OverwrittenTyped ==
    ASSUME NEW row \in SpoolRow, NEW set, SetsColumns(set)
    PROVE  Overwritten(row, set) \in SpoolRow
<1> DEFINE names == {"weight", "status", "loaded", "slot"}
           value(f) == IF f \in DOMAIN set THEN set[f] ELSE row[f]
<1>1. DOMAIN row = names
  BY DEF SpoolRow
<1>2. Overwritten(row, set) = [f \in names |-> value(f)]
  BY <1>1 DEF Overwritten
<1>3. \A f \in names : row[f] \in SpoolColumn[f]
  BY DEF SpoolRow, SpoolColumn
<1>4. \A f \in names : value(f) \in SpoolColumn[f]
  BY <1>3 DEF SetsColumns
<1> HIDE DEF value
<1>5. /\ value("weight") \in Weight /\ value("status") \in Status
      /\ value("loaded") \in BOOLEAN /\ value("slot") \in SlotNumber \cup {0}
  BY <1>4 DEF SpoolColumn
<1>6. Overwritten(row, set) = [weight |-> value("weight"), status |-> value("status"),
                               loaded |-> value("loaded"), slot |-> value("slot")]
  BY <1>2
<1> QED
  BY <1>5, <1>6 DEF SpoolRow

(* A row that is there has its columns.                                    *)
LEMMA KeptRow ==
    ASSUME SpoolTypeInv, NEW s \in Spool, Kept(s)
    PROVE  /\ spool[s] \in SpoolRow
           /\ spool[s].weight \in Weight /\ spool[s].status \in Status
<1>1. spool[s] \in SpoolRow
  BY DEF SpoolTypeInv, SpoolTypeOK, Kept
<1> QED
  BY <1>1 DEF SpoolRow

LEMMA RouteSet ==
    ASSUME SpoolTypeInv, NEW c \in RouteThread, NEW e, route' = [route EXCEPT ![c] = e],
           e # NoRoute => SetsColumns(e.set) /\ SetsPointers(e.slots)
    PROVE  RoutesTyped'
BY DEF SpoolTypeInv, SpoolInv, RouteInv, RoutesTyped

LEMMA RouteReadTyped ==
    ASSUME SpoolTypeInv, NEW c \in RouteThread, NEW s \in Spool, NEW want, NEW used, NEW slots,
           Read(c, s, want, used, slots), SetsColumns(want), SetsPointers(slots)
    PROVE  RoutesTyped' /\ UNCHANGED <<spool, assigned, archive, floor>>
<1> DEFINE e == [spool |-> s, set |-> Differing(spool[s], want), used |-> used, slots |-> slots]
<1>1. route' = [route EXCEPT ![c] = e] /\ UNCHANGED <<spool, assigned, archive, floor>>
  BY DEF Read
<1>2. SetsColumns(e.set) /\ SetsPointers(e.slots)
  BY DifferingTyped
<1> HIDE DEF e
<1> QED
  BY <1>1, <1>2, RouteSet

LEMMA WeightClause ==
    ASSUME NEW w \in Weight, NEW t \in Status
    PROVE  /\ SetsColumns([weight |-> w, status |-> t])
           /\ SetsColumns([weight |-> w]) /\ SetsColumns([status |-> t])
<1>1. SetsColumns([weight |-> w, status |-> t])
  BY DEF SetsColumns, SpoolColumn
<1>2. SetsColumns([weight |-> w])
  BY DEF SetsColumns, SpoolColumn
<1>3. SetsColumns([status |-> t])
  BY DEF SetsColumns, SpoolColumn
<1> QED
  BY <1>1, <1>2, <1>3

LEMMA RouteStepTyped ==
    ASSUME SpoolTypeInv, NEW c \in RouteThread, NEW s \in Spool, RouteStep(c, s)
    PROVE  RoutesTyped' /\ UNCHANGED <<spool, assigned, archive, floor>>
<1>1. Full \in Nat /\ 0 \in Weight /\ {"empty", "active", "archived"} \subseteq Status
  BY SpoolLedgerAssumption DEF Weight, Status
<1>2. Kept(s)
  BY DEF RouteStep, UseSpool, WeighSpool, UpdateSpool, DeleteSpool, AssignSpool, UnloadSpool, Read
<1>3. spool[s].weight \in Weight /\ spool[s].status \in Status
  BY <1>2, KeptRow
<1>4. SetsPointers(NoSlots)
  BY DEF SetsPointers, NoSlots
<1>5. CASE UseSpool(c, s)
  <2> DEFINE left(g) == Positive(spool[s].weight - g)
             state(g) == IF left(g) = 0 THEN "empty" ELSE spool[s].status
  <2>1. PICK g \in 1 .. Full : Read(c, s, [weight |-> left(g), status |-> state(g)], g, NoSlots)
    BY <1>5 DEF UseSpool
  <2>2. left(g) \in Weight
    BY <1>1, <1>3 DEF Weight, Positive
  <2>3. state(g) \in Status
    BY <1>1, <1>3
  <2> HIDE DEF left, state
  <2>4. SetsColumns([weight |-> left(g), status |-> state(g)])
    BY <2>2, <2>3, WeightClause
  <2> QED
    BY <1>4, <2>1, <2>4, RouteReadTyped
<1>6. CASE WeighSpool(c, s)
  <2> DEFINE used(w) == WeighedUse(spool[s].weight, w)
             state(w) == IF w = 0 THEN "empty" ELSE spool[s].status
  <2>1. PICK w \in Weight : Read(c, s, [weight |-> w, status |-> state(w)], used(w), NoSlots)
    BY <1>6 DEF WeighSpool
  <2>2. state(w) \in Status
    BY <1>1, <1>3
  <2> HIDE DEF used, state
  <2>3. SetsColumns([weight |-> w, status |-> state(w)])
    BY <2>2, WeightClause
  <2> QED
    BY <1>4, <2>1, <2>3, RouteReadTyped
<1>7. CASE UpdateSpool(c, s) \/ DeleteSpool(c, s)
  <2>1. ASSUME NEW w \in Weight, Read(c, s, [weight |-> w], 0, NoSlots)
        PROVE  RoutesTyped' /\ UNCHANGED <<spool, assigned, archive, floor>>
    <3>1. SetsColumns([weight |-> w])
      BY <1>3, WeightClause
    <3> QED
      BY <1>4, <2>1, <3>1, RouteReadTyped
  <2>2. ASSUME NEW t \in Status, Read(c, s, [status |-> t], 0, NoSlots)
        PROVE  RoutesTyped' /\ UNCHANGED <<spool, assigned, archive, floor>>
    <3>1. SetsColumns([status |-> t])
      BY <1>1, WeightClause
    <3> QED
      BY <1>4, <2>2, <3>1, RouteReadTyped
  <2> QED
    BY <1>1, <1>7, <2>1, <2>2 DEF UpdateSpool, DeleteSpool
<1>8. ASSUME NEW l \in BOOLEAN, NEW n \in SlotNumber \cup {0}, NEW slots, SetsPointers(slots),
             Read(c, s, [loaded |-> l, slot |-> n], 0, slots)
      PROVE  RoutesTyped' /\ UNCHANGED <<spool, assigned, archive, floor>>
  <2>1. SetsColumns([loaded |-> l, slot |-> n])
    BY DEF SetsColumns, SpoolColumn
  <2> QED
    BY <1>8, <2>1, RouteReadTyped
<1>9. CASE AssignSpool(c, s)
  <2>1. \A n : SetsPointers(PointTo(n, s))
    BY <1>4 DEF SetsPointers, PointTo
  <2> QED
    BY <1>8, <1>9, <2>1 DEF AssignSpool
<1>10. CASE UnloadSpool(c, s)
  <2> DEFINE slots == IF spool[s].loaded /\ spool[s].slot # 0 /\ assigned[spool[s].slot] = s
                      THEN [n \in {spool[s].slot} |-> NoSpool] ELSE NoSlots
  <2>1. SetsPointers(slots)
    BY <1>4 DEF SetsPointers
  <2>2. Read(c, s, [loaded |-> FALSE, slot |-> 0], 0, slots)
    BY <1>10 DEF UnloadSpool
  <2> HIDE DEF slots
  <2> QED
    BY <1>8, <2>1, <2>2
<1> QED
  BY <1>5, <1>6, <1>7, <1>9, <1>10 DEF RouteStep

(* A recorded deduction stays within a full spool.                         *)
LEMMA RecordedWithin ==
    ASSUME SpoolTypeInv, NEW s \in Spool, NEW g \in Nat, Recorded(s, g)
    PROVE  floor' \in [Spool -> Weight]
<1>1. floor \in [Spool -> Weight] /\ Full \in Nat
  BY SpoolLedgerAssumption DEF SpoolTypeInv, SpoolTypeOK
<1>2. Positive(floor[s] - g) \in Weight
  BY <1>1 DEF Weight, Positive
<1>3. floor' = [floor EXCEPT ![s] = Positive(floor[s] - g)]
  BY DEF Recorded
<1> QED
  BY <1>1, <1>2, <1>3

LEMMA SpoolSet ==
    ASSUME SpoolTypeInv, NEW s \in Spool, NEW row \in SpoolRow \cup {NoRow},
           spool' = [spool EXCEPT ![s] = row]
    PROVE  spool' \in [Spool -> SpoolRow \cup {NoRow}]
BY DEF SpoolTypeInv, SpoolTypeOK

LEMMA CommitRouteTyped ==
    ASSUME SpoolTypeInv, NEW c \in RouteThread, CommitRoute(c)
    PROVE  SpoolTypeOK' /\ RoutesTyped'
<1> DEFINE s == route[c].spool
           set == route[c].set
           row == Overwritten(spool[s], set)
           g == IF route[c].used > 0 THEN route[c].used ELSE Positive(spool[s].weight - row.weight)
<1>1. /\ route[c] # NoRoute /\ route' = [route EXCEPT ![c] = NoRoute]
      /\ IF Kept(s) THEN /\ spool' = [spool EXCEPT ![s] = row] /\ Recorded(s, g)
                         /\ assigned' = Pointers(route[c].slots)
                     ELSE UNCHANGED <<spool, assigned, floor>>
  BY DEF CommitRoute
<1>2. /\ s \in Spool /\ route[c].used \in Nat
      /\ SetsColumns(set) /\ SetsPointers(route[c].slots)
  BY <1>1 DEF SpoolTypeInv, SpoolInv, RouteInv, RoutesTyped
<1>3. RoutesTyped'
  BY <1>1, RouteSet
<1>4. CASE ~Kept(s)
  BY <1>1, <1>3, <1>4 DEF SpoolTypeInv, SpoolTypeOK
<1>5. CASE Kept(s)
  <2>1. spool[s] \in SpoolRow /\ spool[s].weight \in Weight
    BY <1>2, <1>5, KeptRow
  <2>2. row \in SpoolRow
    BY <1>2, <2>1, OverwrittenTyped
  <2> HIDE DEF row, s, set
  <2>3. row.weight \in Weight
    BY <2>2 DEF SpoolRow
  <2>4. g \in Nat
    BY <1>2, <2>1, <2>3, SpoolLedgerAssumption DEF Weight, Positive
  <2>5. spool' = [spool EXCEPT ![s] = row] /\ Recorded(s, g) /\ assigned' = Pointers(route[c].slots)
    BY <1>1, <1>5
  <2> HIDE DEF g
  <2>6. floor' \in [Spool -> Weight]
    BY <1>2, <2>4, <2>5, RecordedWithin
  <2>7. assigned' \in [SlotNumber -> Spool \cup {NoSpool}]
    BY <1>2, <2>5 DEF Pointers, SetsPointers, SpoolTypeInv, SpoolTypeOK
  <2>8. spool' \in [Spool -> SpoolRow \cup {NoRow}]
    BY <1>2, <2>2, <2>5, SpoolSet
  <2> QED
    BY <1>3, <2>6, <2>7, <2>8 DEF SpoolTypeOK
<1> QED
  BY <1>4, <1>5

LEMMA PlacesTyped ==
    ASSUME SpoolTypeInv, NEW s \in Spool, LoadSpool(s) \/ BulkSpools(s) \/ SyncAms(s)
    PROVE  SpoolTypeOK'
<1>1. /\ floor \in [Spool -> Weight] /\ assigned \in [SlotNumber -> Spool \cup {NoSpool}]
      /\ spool \in [Spool -> SpoolRow \cup {NoRow}]
  BY DEF SpoolTypeInv, SpoolTypeOK
<1>2. CASE LoadSpool(s)
  <2>1. PICK n \in SlotNumber, out \in SUBSET {o \in Spool \ {s} : Kept(o)} :
          /\ Kept(s) /\ UNCHANGED floor /\ assigned' = [assigned EXCEPT ![n] = s]
          /\ spool' = [o \in Spool |->
                 CASE o = s -> [spool[s] EXCEPT !["loaded"] = TRUE, !["slot"] = n]
                   [] o \in out -> [spool[o] EXCEPT !["loaded"] = FALSE, !["slot"] = 0]
                   [] OTHER -> spool[o]]
    BY <1>2 DEF LoadSpool
  <2>2. ASSUME NEW o \in Spool PROVE spool'[o] \in SpoolRow \cup {NoRow}
    <3>1. ASSUME Kept(o), NEW l \in BOOLEAN, NEW m \in SlotNumber \cup {0}
          PROVE  [spool[o] EXCEPT !["loaded"] = l, !["slot"] = m] \in SpoolRow
      <4>1. spool[o] \in SpoolRow
        BY <3>1, KeptRow
      <4> QED
        BY <4>1 DEF SpoolRow
    <3>2. CASE o = s
      BY <2>1, <3>1, <3>2
    <3>3. CASE o # s /\ o \in out
      BY <2>1, <3>1, <3>3
    <3>4. CASE o # s /\ o \notin out
      <4>1. spool'[o] = spool[o]
        BY <2>1, <3>4
      <4> QED
        BY <1>1, <4>1
    <3> QED
      BY <3>2, <3>3, <3>4
  <2>3. spool' \in [Spool -> SpoolRow \cup {NoRow}]
    BY <2>1, <2>2
  <2> QED
    BY <1>1, <2>1, <2>3 DEF SpoolTypeOK
<1>3. CASE BulkSpools(s)
  <2>1. Kept(s) /\ UNCHANGED floor
    BY <1>3 DEF BulkSpools
  <2>2. spool[s] \in SpoolRow
    BY <2>1, KeptRow
  <2>3. ASSUME NEW t \in {"archived", "active"}, spool' = [spool EXCEPT ![s].status = t], UNCHANGED assigned
        PROVE  SpoolTypeOK'
    <3>1. [spool[s] EXCEPT !.status = t] \in SpoolRow
      BY <2>2 DEF SpoolRow, Status
    <3>2. spool' = [spool EXCEPT ![s] = [spool[s] EXCEPT !.status = t]]
      BY <1>1, <2>3
    <3>3. spool' \in [Spool -> SpoolRow \cup {NoRow}]
      BY <3>1, <3>2, SpoolSet
    <3> QED
      BY <1>1, <2>1, <2>3, <3>3 DEF SpoolTypeOK
  <2>4. ASSUME spool' = [spool EXCEPT ![s] = NoRow],
               assigned' = [n \in SlotNumber |-> IF assigned[n] = s THEN NoSpool ELSE assigned[n]]
        PROVE  SpoolTypeOK'
    <3>1. spool' \in [Spool -> SpoolRow \cup {NoRow}]
      BY <2>4, SpoolSet
    <3>2. assigned' \in [SlotNumber -> Spool \cup {NoSpool}]
      BY <1>1, <2>4
    <3> QED
      BY <1>1, <2>1, <3>1, <3>2 DEF SpoolTypeOK
  <2> QED
    BY <1>3, <2>3, <2>4 DEF BulkSpools
<1>4. CASE SyncAms(s)
  <2>1. PICK n \in SlotNumber, w \in Weight \ {0} :
          /\ Kept(s) /\ assigned' = [assigned EXCEPT ![n] = s]
          /\ spool' = [spool EXCEPT ![s].weight = w, ![s].loaded = TRUE, ![s].slot = n]
          /\ Recorded(s, Positive(spool[s].weight - w))
    BY <1>4 DEF SyncAms
  <2> DEFINE row == [spool[s] EXCEPT !.weight = w, !.loaded = TRUE, !.slot = n]
  <2>2. spool[s] \in SpoolRow /\ spool[s].weight \in Weight
    BY <2>1, KeptRow
  <2>3. row \in SpoolRow
    BY <2>2 DEF SpoolRow
  <2>4. spool' = [spool EXCEPT ![s] = row]
    BY <1>1, <2>1
  <2> HIDE DEF row
  <2>5. Positive(spool[s].weight - w) \in Nat
    BY <2>2, SpoolLedgerAssumption DEF Weight, Positive
  <2>6. floor' \in [Spool -> Weight]
    BY <2>1, <2>5, RecordedWithin
  <2>7. spool' \in [Spool -> SpoolRow \cup {NoRow}]
    BY <2>3, <2>4, SpoolSet
  <2> QED
    BY <1>1, <2>1, <2>6, <2>7 DEF SpoolTypeOK
<1> QED
  BY <1>2, <1>3, <1>4

LEMMA CompleteTyped ==
    ASSUME SpoolTypeInv, CompleteDeducts
    PROVE  SpoolTypeOK' /\ UNCHANGED <<route, archive>>
<1>1. PICK g \in 1 .. Full, s \in Spool :
        /\ Kept(s)
        /\ spool' = [spool EXCEPT ![s].weight = Positive(@ - g)]
        /\ Recorded(s, g) /\ UNCHANGED <<assigned, route, archive>>
  BY DEF CompleteDeducts
<1>2. g \in Nat /\ Full \in Nat
  BY SpoolLedgerAssumption
<1>3. spool[s] \in SpoolRow /\ spool[s].weight \in Weight
  BY <1>1, KeptRow
<1> DEFINE left == Positive(spool[s].weight - g)
           row == [spool[s] EXCEPT !.weight = left]
<1>4. left \in Weight
  BY <1>2, <1>3 DEF Weight, Positive
<1>5. spool' = [spool EXCEPT ![s] = row]
  BY <1>1 DEF SpoolTypeInv, SpoolTypeOK
<1> HIDE DEF left
<1>6. row \in SpoolRow
  BY <1>3, <1>4 DEF SpoolRow
<1> HIDE DEF row
<1>7. spool' \in [Spool -> SpoolRow \cup {NoRow}]
  BY <1>5, <1>6, SpoolSet
<1>8. floor' \in [Spool -> Weight]
  BY <1>1, <1>2, RecordedWithin
<1> QED
  BY <1>1, <1>7, <1>8 DEF SpoolTypeInv, SpoolTypeOK

LEMMA ArchiveReadTyped ==
    ASSUME SpoolTypeInv, ArchiveReads
    PROVE  ArchiveTyped'
<1> DEFINE slots == {n \in SlotNumber : assigned[n] # NoSpool}
           there == {m \in slots : Kept(assigned[m])}
<1>1. PICK g \in 1 .. Full :
        archive' = [taken |-> g \div Cardinality(slots),
                    of |-> [n \in there |-> assigned[n]],
                    read |-> [n \in there |-> spool[assigned[n]].weight]]
  BY DEF ArchiveReads
<1>2. \A n \in there : assigned[n] \in Spool => spool[assigned[n]].weight \in Weight
  BY KeptRow
<1> HIDE DEF there, slots
<1> QED
  BY <1>1, <1>2 DEF ArchiveTyped, ArchiveReads

LEMMA ArchiveDeductTyped ==
    ASSUME SpoolTypeInv, ArchiveDeducts
    PROVE  SpoolTypeOK' /\ ArchiveTyped'
<1> DEFINE first(s) == CHOOSE n \in DOMAIN archive.of : archive.of[n] = s
<1>1. /\ archive # NoArchive /\ archive' = NoArchive /\ UNCHANGED <<assigned, route>>
      /\ spool' = [s \in Spool |->
            IF Kept(s) /\ Entries(s) > 0 THEN [spool[s] EXCEPT !["weight"] = Share(first(s))] ELSE spool[s]]
      /\ floor' = [s \in Spool |-> Positive(floor[s] - Entries(s) * archive.taken)]
  BY DEF ArchiveDeducts
<1>2. archive.taken \in Nat /\ Full \in Nat
  BY <1>1, SpoolLedgerAssumption DEF SpoolTypeInv, SpoolInv, ArchiveInv
<1>3. ASSUME NEW s \in Spool
      PROVE  Entries(s) \in Nat /\ (Entries(s) > 0 => Share(first(s)) \in Weight)
  <2> DEFINE E == {n \in DOMAIN archive.of : archive.of[n] = s}
  <2>1. IsFiniteSet(E)
    BY <1>1, SpoolLedgerAssumption, FS_Subset DEF SpoolTypeInv, SpoolInv, ArchiveInv
  <2>2. Entries(s) \in Nat /\ (Entries(s) > 0 => E # {})
    BY <2>1, FS_CardinalityType, FS_EmptySet DEF Entries
  <2>3. ASSUME Entries(s) > 0 PROVE Share(first(s)) \in Weight
    <3>1. first(s) \in DOMAIN archive.of /\ archive.of[first(s)] = s
      BY <2>2, <2>3
    <3> HIDE DEF first
    <3>2. archive.read[first(s)] \in Weight
      BY <1>1, <3>1 DEF SpoolTypeInv, ArchiveTyped
    <3> QED
      BY <1>2, <3>2 DEF Share, Positive, Weight
  <2> QED
    BY <2>2, <2>3
<1> HIDE DEF first
<1>4. ASSUME NEW s \in Spool PROVE floor'[s] \in Weight
  <2>1. floor[s] \in Weight /\ floor'[s] = Positive(floor[s] - Entries(s) * archive.taken)
    BY <1>1 DEF SpoolTypeInv, SpoolTypeOK
  <2>2. Entries(s) * archive.taken \in Nat
    BY <1>2, <1>3
  <2> QED
    BY <1>2, <2>1, <2>2 DEF Positive, Weight
<1>5. ASSUME NEW s \in Spool PROVE spool'[s] \in SpoolRow \cup {NoRow}
  <2>1. CASE Kept(s) /\ Entries(s) > 0
    <3>1. spool'[s] = [spool[s] EXCEPT !["weight"] = Share(first(s))]
      BY <1>1, <2>1
    <3>2. spool[s] \in SpoolRow /\ Share(first(s)) \in Weight
      BY <1>3, <2>1, KeptRow
    <3> QED
      BY <3>1, <3>2 DEF SpoolRow
  <2>2. CASE ~(Kept(s) /\ Entries(s) > 0)
    <3>1. spool'[s] = spool[s]
      BY <1>1, <2>2
    <3> QED
      BY <3>1 DEF SpoolTypeInv, SpoolTypeOK
  <2> QED
    BY <2>1, <2>2
<1>6. floor' \in [Spool -> Weight] /\ spool' \in [Spool -> SpoolRow \cup {NoRow}]
  BY <1>1, <1>4, <1>5
<1> QED
  BY <1>1, <1>6 DEF SpoolTypeInv, SpoolTypeOK, ArchiveTyped

LEMMA SpoolStepTyped == SpoolTypeInv /\ [SpoolNext]_spoolVars => SpoolTypeInv'
<1> SUFFICES ASSUME SpoolTypeInv, [SpoolNext]_spoolVars PROVE SpoolTypeInv'
  OBVIOUS
<1>1. SpoolInv'
  BY SpoolStepKeeps DEF SpoolTypeInv
<1>2. /\ UNCHANGED <<spool, assigned, floor>> => SpoolTypeOK'
      /\ UNCHANGED route => RoutesTyped'
      /\ UNCHANGED archive => ArchiveTyped'
  BY DEF SpoolTypeInv, SpoolTypeOK, RoutesTyped, ArchiveTyped
<1>3. SpoolTypeOK' /\ RoutesTyped' /\ ArchiveTyped' => SpoolTypeInv'
  BY <1>1 DEF SpoolTypeInv
<1>4. ASSUME NEW c \in RouteThread, CommitRoute(c) PROVE SpoolTypeInv'
  <2>1. UNCHANGED archive
    BY <1>4 DEF CommitRoute
  <2> QED
    BY <1>2, <1>3, <1>4, <2>1, CommitRouteTyped
<1>5. ASSUME NEW c \in RouteThread, AbandonRoute(c) PROVE SpoolTypeInv'
  <2>1. route' = [route EXCEPT ![c] = NoRoute] /\ UNCHANGED <<spool, assigned, archive, floor>>
    BY <1>5 DEF AbandonRoute
  <2>2. RoutesTyped'
    BY <2>1, RouteSet
  <2> QED
    BY <1>2, <1>3, <2>1, <2>2
<1>6. ASSUME NEW c \in RouteThread, NEW s \in Spool, RouteStep(c, s) PROVE SpoolTypeInv'
  BY <1>2, <1>3, <1>6, RouteStepTyped
<1>7. ASSUME NEW s \in Spool, LoadSpool(s) \/ BulkSpools(s) \/ SyncAms(s) PROVE SpoolTypeInv'
  <2>1. UNCHANGED <<route, archive>>
    BY <1>7 DEF LoadSpool, BulkSpools, SyncAms
  <2> QED
    BY <1>2, <1>3, <1>7, <2>1, PlacesTyped
<1>8. ASSUME CompleteDeducts PROVE SpoolTypeInv'
  BY <1>2, <1>3, <1>8, CompleteTyped
<1>9. ASSUME ArchiveReads PROVE SpoolTypeInv'
  <2>1. UNCHANGED <<spool, assigned, route, floor>>
    BY <1>9 DEF ArchiveReads
  <2> QED
    BY <1>2, <1>3, <1>9, <2>1, ArchiveReadTyped
<1>10. ASSUME ArchiveDeducts PROVE SpoolTypeInv'
  <2>1. UNCHANGED route
    BY <1>10 DEF ArchiveDeducts
  <2> QED
    BY <1>2, <1>3, <1>10, <2>1, ArchiveDeductTyped
<1>11. ASSUME AbandonArchive \/ UNCHANGED spoolVars PROVE SpoolTypeInv'
  <2>1. UNCHANGED <<spool, assigned, route, floor>>
    BY <1>11 DEF AbandonArchive, spoolVars
  <2>2. ArchiveTyped'
    BY <1>2, <1>11 DEF AbandonArchive, spoolVars, ArchiveTyped
  <2> QED
    BY <1>2, <1>3, <2>1, <2>2
<1> QED
  BY <1>4, <1>5, <1>6, <1>7, <1>8, <1>9, <1>10, <1>11 DEF SpoolNext

-----------------------------------------------------------------------------
(* Nothing negative sums up to something negative.                         *)
LEMMA SumNatural ==
    ASSUME NEW S, IsFiniteSet(S), NEW f \in [S -> Nat]
    PROVE  SumFunction(f) \in Nat
<1> DEFINE over(R) == [x \in R |-> f[x]]
           Good(k) == \A R \in SUBSET S : Cardinality(R) = k => SumFunction(over(R)) \in Nat
           T == {k \in Nat : Good(k)}
<1>1. \A R \in SUBSET S : IsFiniteSet(R) /\ Cardinality(R) \in Nat
  BY FS_Subset, FS_CardinalityType
<1>2. Good(0)
  <2> SUFFICES ASSUME NEW R \in SUBSET S, Cardinality(R) = 0 PROVE SumFunction(over(R)) \in Nat
    OBVIOUS
  <2>1. R = {}
    BY <1>1, FS_EmptySet
  <2>2. over(R) \in [{} -> Int]
    BY <2>1
  <2>3. SumFunction(over(R)) = 0
    <3> HIDE DEF over
    <3> QED
      BY <2>2, SumEmpty
  <2> QED
    BY <2>3
<1>3. ASSUME NEW k \in T PROVE Good(k + 1)
  <2> SUFFICES ASSUME NEW R \in SUBSET S, Cardinality(R) = k + 1
               PROVE  SumFunction(over(R)) \in Nat
    OBVIOUS
  <2>1. k \in Nat /\ (k + 1) - 1 = k /\ k + 1 # 0
    OBVIOUS
  <2>2. PICK x \in R : TRUE
    BY <2>1, FS_EmptySet
  <2>3. /\ over(R) \in [R -> Int] /\ over(R)[x] = f[x] /\ f[x] \in Nat
        /\ [y \in R \ {x} |-> over(R)[y]] = over(R \ {x}) /\ IsFiniteSet(R)
    BY <1>1, <2>2
  <2>4. R \ {x} \in SUBSET S /\ Cardinality(R \ {x}) = k
    <3>1. Cardinality(R \ {x}) = Cardinality(R) - 1
      BY <1>1, <2>2, FS_RemoveElement
    <3> QED
      BY <2>1, <3>1
  <2>5. SumFunction(over(R \ {x})) \in Nat
    BY <2>4
  <2> HIDE DEF over
  <2>6. SumFunction(over(R)) = over(R)[x] + SumFunction(over(R \ {x}))
    BY <2>2, <2>3, SumTakes
  <2> QED
    BY <2>3, <2>5, <2>6
<1>4. Cardinality(S) \in Nat
  BY FS_CardinalityType
<1>5. T = Nat
  <2>1. T \in SUBSET Nat /\ 0 \in T
    BY <1>2
  <2>2. ASSUME NEW k \in T PROVE k + 1 \in T
    <3>1. k + 1 \in Nat
      OBVIOUS
    <3> QED
      BY <1>3, <3>1
  <2> HIDE DEF T
  <2> QED
    BY <2>1, <2>2, NatInduct
<1>6. SumFunction(over(S)) \in Nat
  BY <1>4, <1>5
<1>7. over(S) = f
  OBVIOUS
<1> QED
  BY <1>6, <1>7

(* No bed holds more than fit on it, and none is empty.                    *)
LEMMA BedsHoldFew ==
    ASSUME NEW n \in Nat
    PROVE  Beds(n) \in Seq(1..PerBed)
<1> DEFINE q == (n + PerBed - 1) \div PerBed
<1>1. PerBed \in Nat /\ PerBed >= 1
  BY OrderAssumption
<1>2. q \in Nat /\ q * PerBed <= n + PerBed - 1
  BY <1>1
<1>3. Beds(n) = [i \in 1..q |-> IF i * PerBed <= n THEN PerBed ELSE n - (i - 1) * PerBed]
  BY DEF Beds
<1> HIDE DEF q
<1>4. ASSUME NEW i \in 1..q, i * PerBed > n PROVE n - (i - 1) * PerBed \in 1..PerBed
  <2>1. i * PerBed \in Int /\ (i - 1) * PerBed = i * PerBed - PerBed
    BY <1>1
  <2>2. i * PerBed <= q * PerBed
    BY <1>1, <1>2
  <2>3. q * PerBed \in Int
    BY <1>1, <1>2
  <2> QED
    BY <1>1, <1>2, <1>4, <2>1, <2>2, <2>3
<1>5. \A i \in 1..q : (IF i * PerBed <= n THEN PerBed ELSE n - (i - 1) * PerBed) \in 1..PerBed
  <2>1. \A i \in 1..q : i * PerBed \in Int
    BY <1>1, <1>2
  <2> QED
    BY <1>1, <1>4, <2>1
<1>6. Beds(n) \in [1..q -> 1..PerBed]
  BY <1>3, <1>5
<1>7. ASSUME NEW S, NEW f \in [1..q -> S] PROVE f \in Seq(S)
  <2>1. q \in Nat
    BY <1>2
  <2> QED
    BY <2>1
<1> QED
  BY <1>6, <1>7, Zenon

(* What a plan under way will write is a stock.                            *)
StockInv ==
    /\ planning.call = "adjust" => planning.stock \in 0..MaxStock
    /\ planning.call = "schedule" => planning.left \in 0..MaxStock

OrderTypeInv == OrderTypeOK /\ OrderInv /\ StockInv

LEMMA OrderTypeStarts == OrderInit => OrderTypeInv
<1> SUFFICES ASSUME OrderInit PROVE OrderTypeInv
  OBVIOUS
<1>1. beds \in [OrderItem -> Seq(1..PerBed)]
  BY DEF OrderInit
<1>2. consumable \in [status : {"none", "active", "discontinued"}, stock : 0..MaxStock]
  BY OrderAssumption DEF OrderInit
<1>3. product \in [exists : BOOLEAN, needs : 0..1, uses : 0..1]
  BY DEF OrderInit, NoProduct
<1> QED
  BY <1>1, <1>2, <1>3, OrderStarts
     DEF OrderInit, OrderTypeInv, OrderTypeOK, StockInv, NotPlanning

LEMMA OrderStepTyped == OrderTypeInv /\ [OrderNext]_orderVars => OrderTypeInv'
<1> SUFFICES ASSUME OrderTypeInv, [OrderNext]_orderVars PROVE OrderTypeInv'
  OBVIOUS
<1> DEFINE Stock == [status : {"none", "active", "discontinued"}, stock : 0..MaxStock]
           Product == [exists : BOOLEAN, needs : 0..1, uses : 0..1]
           Orders == order' \in OrderStatus \cup {"none"}
           Items2 == quantity' \in [OrderItem -> Quantity \cup {0}]
           Products == product' \in Product
           Stocks == consumable' \in Stock
           AllBeds == beds' \in [OrderItem -> Seq(1..PerBed)]
<1>1. OrderInv'
  BY OrderKept DEF OrderTypeInv
<1>2. Orders /\ Items2 /\ Products /\ Stocks /\ AllBeds /\ StockInv' => OrderTypeInv'
  BY <1>1 DEF OrderTypeInv, OrderTypeOK, OrderInv
<1>3. /\ UNCHANGED order => Orders
      /\ UNCHANGED quantity => Items2
      /\ UNCHANGED product => Products
      /\ UNCHANGED consumable => Stocks
      /\ UNCHANGED beds => AllBeds
      /\ UNCHANGED planning => StockInv'
      /\ planning' = NotPlanning => StockInv'
  BY DEF OrderTypeInv, OrderTypeOK, StockInv, NotPlanning
<1>4. /\ quantity \in [OrderItem -> Quantity \cup {0}] /\ product \in Product
      /\ consumable \in Stock /\ beds \in [OrderItem -> Seq(1..PerBed)]
      /\ Items \subseteq OrderItem
  BY DEF OrderTypeInv, OrderTypeOK, Items
<1>5. ASSUME NEW e \in Stock, consumable' = e PROVE Stocks
  BY <1>5
<1> HIDE DEF Orders, Items2, Products, Stocks, AllBeds
<1>6. CASE CreateProduct \/ ChangeProduct \/ DeleteProduct
  <2>1. Products
    <3>1. CASE CreateProduct
      BY <3>1 DEF CreateProduct, Products
    <3>2. CASE ChangeProduct
      <4>1. \E n \in 0..1 : product' = [product EXCEPT !.needs = n] \/ product' = [product EXCEPT !.uses = n]
        BY <3>2 DEF ChangeProduct
      <4> QED
        BY <1>4, <4>1 DEF Products
    <3>3. CASE DeleteProduct
      BY <3>3 DEF DeleteProduct, NoProduct, Products
    <3> QED
      BY <1>6, <3>1, <3>2, <3>3
  <2> QED
    BY <1>2, <1>3, <1>6, <2>1 DEF CreateProduct, ChangeProduct, DeleteProduct
<1>7. CASE CreateConsumable \/ UpdateConsumable \/ DeleteConsumable
  <2>1. Stocks
    <3>1. CASE CreateConsumable
      BY <3>1 DEF CreateConsumable, Stocks
    <3>2. CASE UpdateConsumable
      BY <1>4, <3>2 DEF UpdateConsumable, Stocks
    <3>3. CASE DeleteConsumable
      BY <3>3, OrderAssumption DEF DeleteConsumable, Stocks
    <3> QED
      BY <1>7, <3>1, <3>2, <3>3
  <2>2. Products
    <3>1. product' = product \/ product' = [product EXCEPT !.uses = 0]
      BY <1>7 DEF CreateConsumable, UpdateConsumable, DeleteConsumable
    <3> QED
      BY <1>4, <3>1 DEF Products
  <2> QED
    BY <1>2, <1>3, <1>7, <2>1, <2>2 DEF CreateConsumable, UpdateConsumable, DeleteConsumable
<1>8. CASE BeginAdjust
  <2>1. StockInv'
    BY <1>8 DEF BeginAdjust, StockInv
  <2> QED
    BY <1>2, <1>3, <1>8, <2>1 DEF BeginAdjust
<1>9. CASE CommitAdjust
  <2>1. planning.stock \in 0..MaxStock
    BY <1>9 DEF CommitAdjust, OrderTypeInv, StockInv
  <2>2. [consumable EXCEPT !.stock = planning.stock] \in Stock
    BY <1>4, <2>1
  <2>3. Stocks
    BY <1>3, <1>5, <1>9, <2>2 DEF CommitAdjust
  <2> QED
    BY <1>2, <1>3, <1>9, <2>3 DEF CommitAdjust
<1>10. CASE CreateOrder \/ AddItem \/ UpdateItem
  <2>1. Items2
    BY <1>4, <1>10 DEF CreateOrder, AddItem, UpdateItem, Items2
  <2>2. Orders
    BY <1>3, <1>10 DEF CreateOrder, AddItem, UpdateItem, Orders, OrderStatus
  <2> QED
    BY <1>2, <1>3, <1>10, <2>1, <2>2 DEF CreateOrder, AddItem, UpdateItem
<1>11. CASE SetOrderStatus
  <2>1. Orders
    BY <1>11 DEF SetOrderStatus, Orders, OrderStatus
  <2> QED
    BY <1>2, <1>3, <1>11, <2>1 DEF SetOrderStatus
<1>12. CASE DeleteItem \/ DeleteOrder
  <2>1. PICK gone \in SUBSET OrderItem : RemoveItems(gone)
    BY <1>4, <1>12 DEF DeleteItem, DeleteOrder
  <2>2. Items2 /\ AllBeds
    <3>1. Items2
      BY <1>4, <2>1 DEF RemoveItems, Items2
    <3>2. <<>> \in Seq(1..PerBed)
      OBVIOUS
    <3>3. AllBeds
      BY <1>4, <2>1, <3>2 DEF RemoveItems, LinksAfter, AllBeds
    <3> QED
      BY <3>1, <3>3
  <2>3. Orders
    BY <1>3, <1>12 DEF DeleteItem, DeleteOrder, Orders
  <2> QED
    BY <1>2, <1>3, <1>12, <2>2, <2>3 DEF DeleteItem, DeleteOrder
<1>13. CASE ReadOrder
  <2> DEFINE uses == [i \in Items |-> quantity[i] * product.uses]
             used == SumFunction(uses)
  <2>1. used \in Nat
    <3>1. IsFiniteSet(Items)
      BY <1>4, OrderAssumption, FS_Subset
    <3>2. uses \in [Items -> Nat]
      <4>1. \A i \in Items : quantity[i] \in Nat /\ product.uses \in Nat
        <5>1. \A n \in Quantity \cup {0} : n \in Nat
          BY OrderAssumption
        <5>2. \A i \in Items : quantity[i] \in Quantity \cup {0}
          BY <1>4
        <5>3. product.uses \in Nat
          BY <1>4
        <5> QED
          BY <5>1, <5>2, <5>3
      <4>2. \A i \in Items : quantity[i] * product.uses \in Nat
        BY <4>1
      <4> QED
        BY <4>2
    <3> HIDE DEF uses
    <3> QED
      BY <3>1, <3>2, SumNatural
  <2>2. planning'.left = (IF used > consumable.stock THEN 0 ELSE consumable.stock - used)
        /\ planning'.call = "schedule"
    BY <1>13 DEF ReadOrder
  <2> HIDE DEF used
  <2>3. consumable.stock \in 0..MaxStock /\ MaxStock \in Nat
    BY <1>4, OrderAssumption
  <2>4. StockInv'
    BY <2>1, <2>2, <2>3 DEF StockInv
  <2> QED
    BY <1>2, <1>3, <1>13, <2>4 DEF ReadOrder
<1>14. CASE CommitSchedule
  <2>1. AllBeds
    <3>1. ASSUME NEW i \in OrderItem, i \in Planned
          PROVE  beds[i] \o Beds(planning.pieces[i]) \in Seq(1..PerBed)
      <4>1. planning.pieces[i] \in Nat
        BY <1>14, <3>1 DEF CommitSchedule, OrderTypeInv, OrderInv, PlanInv
      <4>2. beds[i] \in Seq(1..PerBed) /\ Beds(planning.pieces[i]) \in Seq(1..PerBed)
        BY <1>4, <4>1, BedsHoldFew
      <4> QED
        BY <4>2, ConcatProperties, Zenon
    <3> QED
      BY <1>4, <1>14, <3>1 DEF CommitSchedule, BedsAfter, AllBeds
  <2>2. Stocks
    <3>1. planning.left \in 0..MaxStock
      BY <1>14 DEF CommitSchedule, OrderTypeInv, StockInv
    <3>2. [consumable EXCEPT !.stock = planning.left] \in Stock
      BY <1>4, <3>1
    <3> QED
      BY <1>3, <1>5, <1>14, <3>2 DEF CommitSchedule
  <2>3. Orders
    BY <1>3, <1>14 DEF CommitSchedule, Orders, OrderStatus
  <2> QED
    BY <1>2, <1>3, <1>14, <2>1, <2>2, <2>3 DEF CommitSchedule
<1>15. CASE AbandonPlanning
  BY <1>2, <1>3, <1>15 DEF AbandonPlanning
<1>16. CASE UNCHANGED orderVars
  BY <1>2, <1>3, <1>16 DEF orderVars
<1> QED
  BY <1>6, <1>7, <1>8, <1>9, <1>10, <1>11, <1>12, <1>13, <1>14, <1>15, <1>16 DEF OrderNext
=============================================================================
