------------------------------ MODULE OrderBook ------------------------------
(***************************************************************************)
(* Orders, the product they sell and the stock they use up:                *)
(* modules/orders/routes/orders_crud.py, products.py, consumables.py.  One *)
(* order with items of one product, which is made of one model and uses    *)
(* one consumable, each once or not at all.  Prices, names and notes are   *)
(* left out, and so are jobs once the row of their item is deleted.        *)
(*                                                                         *)
(* The handlers are plain functions: FastAPI runs them in threads, each    *)
(* with a session of its own that writes at its commit.  Those that write  *)
(* what they computed from an earlier read (schedule_order, the adjustment *)
(* of a stock) are two steps, at most one of them under way (a bound); the *)
(* others read and write one row and are one.  A request that is refused   *)
(* (role, organisation, unknown row) changes nothing and is left out.      *)
(* SQLite gives the id of the last deleted row again: OrderItem are ids.   *)
(***************************************************************************)
EXTENDS Naturals, Sequences, FiniteSetsExt, Functions

CONSTANTS OrderItem,    \* ids of order_items
          PerBed,       \* models.quantity_per_bed
          Quantity,     \* the quantities an item is ordered in
          MaxStock,     \* bound on the stock
          MaxBeds       \* bound on the jobs made for an item

ASSUME OrderAssumption ==
    /\ IsFiniteSet(OrderItem) /\ OrderItem \subseteq Nat \ {0} /\ Quantity \subseteq Nat \ {0} /\ PerBed \in Nat \ {0}
    /\ MaxStock \in Nat /\ MaxBeds \in Nat

VARIABLES order,      \* the status of the order, "none" when there is no row
          quantity,   \* [OrderItem -> quantity], 0 when there is no row
          product,    \* [exists, needs (of the model), uses (of the consumable)], 0: no row
          consumable, \* [status, stock]
          beds,       \* [OrderItem -> pieces on each bed of the jobs that point to it]
          planning,   \* a schedule_order or an adjustment between its reads and its commit
          asked       \* pieces ordered of each item when it was scheduled (no state of the code)

orderVars == <<order, quantity, product, consumable, beds, planning, asked>>

OrderStatus == {"pending", "in_progress", "partial", "fulfilled", "shipped", "cancelled"}
NotPlanning == [call |-> "none"]
NoProduct == [exists |-> FALSE, needs |-> 0, uses |-> 0]

OrderTypeOK ==
    /\ order \in OrderStatus \cup {"none"}
    /\ quantity \in [OrderItem -> Quantity \cup {0}]
    /\ product \in [exists : BOOLEAN, needs : 0..1, uses : 0..1]
    /\ consumable \in [status : {"none", "active", "discontinued"}, stock : 0..MaxStock]
    /\ beds \in [OrderItem -> Seq(1..PerBed)]
    /\ asked \in [OrderItem -> Nat]

OrderInit ==
    /\ order = "none" /\ quantity = [i \in OrderItem |-> 0]
    /\ product = NoProduct
    /\ consumable = [status |-> "none", stock |-> 0]
    /\ beds = [i \in OrderItem |-> <<>>]
    /\ planning = NotPlanning
    /\ asked = [i \in OrderItem |-> 0]

Items == {i \in OrderItem : quantity[i] > 0}

(* The id an INSERT gives: the one after the largest.                      *)
NextItem == {i \in OrderItem : i = Max(Items \cup {0}) + 1}

-----------------------------------------------------------------------------
CreateProduct ==
    /\ ~product.exists
    /\ \E n \in 0..1 : product' = [exists |-> TRUE, needs |-> n, uses |-> 0]
    /\ UNCHANGED <<order, quantity, consumable, beds, planning, asked>>

(* add_product_component, remove_product_component, add_product_consumable *)
(* and remove_product_consumable.                                          *)
ChangeProduct ==
    /\ product.exists
    /\ \/ product.needs = 0 /\ product' = [product EXCEPT !.needs = 1]
       \/ product.needs > 0 /\ product' = [product EXCEPT !.needs = 0]
       \/ /\ product.uses = 0 /\ consumable.status # "none"
          /\ product' = [product EXCEPT !.uses = 1]
       \/ product.uses > 0 /\ product' = [product EXCEPT !.uses = 0]
    /\ UNCHANGED <<order, quantity, consumable, beds, planning, asked>>

(* The items and the links of the product would lose their product_id,     *)
(* which is NOT NULL: the deletion fails while there are any.              *)
DeleteProduct ==
    /\ product.exists /\ Items = {} /\ product.uses = 0
    /\ product' = NoProduct
    /\ UNCHANGED <<order, quantity, consumable, beds, planning, asked>>

CreateConsumable ==
    /\ consumable.status = "none"
    /\ \E s \in 0..MaxStock : consumable' = [status |-> "active", stock |-> s]
    /\ UNCHANGED <<order, quantity, product, beds, planning, asked>>

UpdateConsumable ==
    /\ consumable.status # "none"
    /\ \/ \E status \in {"active", "discontinued"} : consumable' = [consumable EXCEPT !.status = status]
       \/ \E s \in 0..MaxStock : consumable' = [consumable EXCEPT !.stock = s]
    /\ UNCHANGED <<order, quantity, product, beds, planning, asked>>

(* Its links and its usage history go with it.                             *)
DeleteConsumable ==
    /\ consumable.status # "none"
    /\ consumable' = [status |-> "none", stock |-> 0]
    /\ product' = [product EXCEPT !.uses = 0]
    /\ UNCHANGED <<order, quantity, beds, planning, asked>>

BeginAdjust ==
    /\ planning.call = "none" /\ consumable.status # "none"
    /\ \E s \in 0..MaxStock :
          s # consumable.stock /\ planning' = [call |-> "adjust", stock |-> s]
    /\ UNCHANGED <<order, quantity, product, consumable, beds, asked>>

CommitAdjust ==
    /\ planning.call = "adjust"
    /\ consumable' = IF consumable.status = "none" THEN consumable ELSE [consumable EXCEPT !.stock = planning.stock]
    /\ planning' = NotPlanning
    /\ UNCHANGED <<order, quantity, product, beds, asked>>

-----------------------------------------------------------------------------
(* create_order, with its items or without.                                *)
CreateOrder ==
    /\ order = "none"
    /\ order' = "pending"
    /\ \/ UNCHANGED quantity
       \/ /\ product.exists
          /\ \E n \in Quantity : quantity' = [quantity EXCEPT ![Min(OrderItem)] = n]
    /\ UNCHANGED <<product, consumable, beds, planning, asked>>

(* update_order and ship_order ask for no order of the statuses; shipped   *)
(* stands for any of them.                                                 *)
SetOrderStatus ==
    /\ order # "none"
    /\ order' = "shipped"
    /\ UNCHANGED <<quantity, product, consumable, beds, planning, asked>>

AddItem ==
    /\ order # "none" /\ product.exists
    /\ \E i \in NextItem, n \in Quantity : quantity' = [quantity EXCEPT ![i] = n]
    /\ UNCHANGED <<order, product, consumable, beds, planning, asked>>

UpdateItem ==
    /\ \E i \in Items, n \in Quantity : quantity' = [quantity EXCEPT ![i] = n]
    /\ UNCHANGED <<order, product, consumable, beds, planning, asked>>

(* The jobs forget their item, SET NULL (fault: they keep its id).         *)
LinksAfterFault(gone) == beds
LinksAfter(gone) == [i \in OrderItem |-> IF i \in gone THEN <<>> ELSE beds[i]]

RemoveItems(gone) ==
    /\ quantity' = [i \in OrderItem |-> IF i \in gone THEN 0 ELSE quantity[i]]
    /\ beds' = LinksAfter(gone)
    /\ asked' = [i \in OrderItem |-> IF i \in gone THEN 0 ELSE asked[i]]

DeleteItem ==
    /\ \E i \in Items : RemoveItems({i})
    /\ UNCHANGED <<order, product, consumable, planning>>

DeleteOrder ==
    /\ order # "none"
    /\ order' = "none"
    /\ RemoveItems(OrderItem)
    /\ UNCHANGED <<product, consumable, planning>>

-----------------------------------------------------------------------------
(* schedule_order: the beds that hold the pieces, the last one fewer.      *)
Beds(pieces) == [i \in 1 .. (pieces + PerBed - 1) \div PerBed |->
                    IF i * PerBed <= pieces THEN PerBed ELSE pieces - (i - 1) * PerBed]

ReadOrder ==
    /\ planning.call = "none" /\ order # "none"
    /\ planning' = [call     |-> "schedule",
                    pieces   |-> [i \in Items |-> quantity[i] * product.needs],
                    deducts  |-> Items # {} /\ product.uses > 0 /\ consumable.status = "active",
                    left     |-> LET used == SumFunction([i \in Items |-> quantity[i] * product.uses])
                                 IN  IF used > consumable.stock THEN 0 ELSE consumable.stock - used]
    /\ UNCHANGED <<order, quantity, product, consumable, beds, asked>>

Planned == {i \in DOMAIN planning.pieces : planning.pieces[i] > 0}

(* One transaction: an item, the order or the consumable that is gone by   *)
(* now makes it fail as a whole.  A planned item that was deleted and made *)
(* again has the same id.                                                  *)
Fits == /\ Planned \subseteq Items
        /\ Planned # {} \/ planning.deducts => order # "none"
        /\ planning.deducts => consumable.status # "none"

BedsAfter ==
    [i \in OrderItem |-> IF i \in Planned THEN beds[i] \o Beds(planning.pieces[i]) ELSE beds[i]]

CommitSchedule ==
    /\ planning.call = "schedule"
    /\ Fits
    /\ beds' = BedsAfter
    /\ \A i \in OrderItem : Len(beds'[i]) <= MaxBeds
    /\ consumable' = IF planning.deducts THEN [consumable EXCEPT !.stock = planning.left] ELSE consumable
    /\ order' = IF Planned # {} \/ planning.deducts THEN "in_progress" ELSE order
    /\ asked' = [i \in OrderItem |-> asked[i] + (IF i \in Planned THEN planning.pieces[i] ELSE 0)]
    /\ planning' = NotPlanning
    /\ UNCHANGED <<quantity, product>>

(* The commit fails, or the server stops before it.                        *)
AbandonPlanning ==
    /\ planning.call # "none"
    /\ planning' = NotPlanning
    /\ UNCHANGED <<order, quantity, product, consumable, beds, asked>>

OrderNext ==
    \/ CreateProduct \/ ChangeProduct \/ DeleteProduct
    \/ CreateConsumable \/ UpdateConsumable \/ DeleteConsumable \/ BeginAdjust \/ CommitAdjust
    \/ CreateOrder \/ SetOrderStatus \/ AddItem \/ UpdateItem \/ DeleteItem \/ DeleteOrder
    \/ ReadOrder \/ CommitSchedule \/ AbandonPlanning

OrderSpec == OrderInit /\ [][OrderNext]_orderVars

-----------------------------------------------------------------------------
(* The pieces on the beds of the jobs that name an item add up to those    *)
(* ordered when it was scheduled, each time, whatever becomes of the item  *)
(* meanwhile; jobs of a deleted item do not count for the one that gets    *)
(* its id (orders_crud.py:305, "Creates jobs for all items based on        *)
(* product BOM and quantity_per_bed"; jobs_total of the order).            *)
BedsHoldTheOrder ==
    \A i \in OrderItem : SumFunction(beds[i]) = asked[i]
=============================================================================
