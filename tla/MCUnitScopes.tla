------------------------------ MODULE MCUnitScopes ------------------------------
(***************************************************************************)
(* A small instance of UnitScopes: the director, who may act everywhere,   *)
(* someone of the sales department, someone of the warehouse department,   *)
(* and one deal and one warehouse to begin with.                           *)
(***************************************************************************)
EXTENDS UnitScopes

CONSTANTS r1, r2, r3, customer, deal, warehouse

MCCustomers == [c \in {customer} |-> "old"]
MCDeals == [d \in {deal} |-> [customer |-> customer, stage |-> "new", unit |-> "HQ-SALES"]]
MCWarehouses == [w \in {warehouse} |-> [code |-> "MAIN", unit |-> "HQ-WMS", status |-> "active"]]

\* No body names r2 or r3.
Model == INSTANCE TLC
Others == Model!Permutations({r2, r3})

By(scopes, bodies) == {[scopes |-> scopes, body |-> b] : b \in bodies}

NewDealOf(unit, stage) == [op |-> "create_deal", customer |-> customer, stage |-> stage, unit |-> unit]
EditDeal(d, c, stage) == [op |-> "update_deal", deal |-> d, customer |-> c, stage |-> stage]
Build(code, unit) == [op |-> "create_warehouse", code |-> code, unit |-> unit]
Block(w, status) == [op |-> "update_warehouse", warehouse |-> w, status |-> status]
Remove(w) == [op |-> "delete_warehouse", warehouse |-> w]
Put(op, uom) == [op |-> op, sku |-> "bolt", code |-> "MAIN", uom |-> uom]
Ask(op) == [op |-> op]
Rename(w, code, status) == [op |-> "wms_update", warehouse |-> w, code |-> code, status |-> status]

MCSendings ==
    By({Any}, {NewDealOf(None, None), EditDeal(deal, r1, "won"), Remove(warehouse), Build("MAIN", "HQ-SALES"),
               [op |-> "create_customer", name |-> "new"], [op |-> "create_customer", name |-> None],
               Put("upsert_stock", "kg"), Put("inventory", None)})
    \cup By({"HQ-SALES"}, {NewDealOf(None, None), NewDealOf("HQ-WMS", "won"), EditDeal(deal, None, "won"),
               EditDeal(deal, None, "blank"), EditDeal(r1, None, None), [op |-> "deal_history", deal |-> deal],
               [op |-> "list_deals", stage |-> "won"], Put("upsert_stock", None), Ask("list_stock"),
               [op |-> "update_customer", customer |-> r1, name |-> "new"],
               [op |-> "update_customer", customer |-> customer, name |-> None]})
    \cup By({"HQ-WMS", "GONE"}, {Put("upsert_stock", "kg"), Build("MAIN", "HQ-WMS"), Build("MAIN", "GONE"),
               Build("MAIN", None), Block(warehouse, "blocked"), Block(warehouse, "blank"), Block(r1, None), Remove(warehouse),
               [op |-> "deal_history", deal |-> deal], Ask("list_warehouses")})
    \cup By({"GONE"}, {NewDealOf(None, None), EditDeal(deal, None, None)})
    \cup By({}, {Rename(warehouse, "SIDE", None), Rename(r1, "MAIN", "active"), Rename(warehouse, None, None),
               [op |-> "wms_create", code |-> "MAIN", status |-> None], [op |-> "wms_delete", warehouse |-> warehouse]})
===============================================================================
