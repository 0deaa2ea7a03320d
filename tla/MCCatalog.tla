------------------------------- MODULE MCCatalog -------------------------------
(***************************************************************************)
(* A small instance of Catalog: the seed of modules/wms/migrations cut to  *)
(* one unit, the root category and one below it, one template and one      *)
(* item, and a warehouse beside an empty one.                              *)
(***************************************************************************)
EXTENDS Catalog, TLC

CONSTANTS wh, depot, zone, yard, cell, crane, x1, x2, p1, p2,
          pcs, root, signage, width, demo, link1, link2

MCWarehouses == [w \in {wh, depot} |-> [code |-> IF w = wh THEN x1 ELSE x2]]
MCZones == [z \in {zone, yard} |-> [warehouse |-> wh, code |-> IF z = zone THEN x1 ELSE x2]]
MCCells == [c \in {cell} |-> [warehouse |-> wh, zone |-> zone, code |-> x1, by |-> "seed"]]
MCEquipment == [e \in {crane} |-> [warehouse |-> wh, code |-> x1]]
MCAssigned == {[cell |-> cell, equipment |-> crane]}

MCNodes ==
    [n \in {pcs, root, signage} |->
        IF n = signage
        THEN [type |-> "category", parent |-> root, code |-> x2, path |-> <<x1, x2>>, level |-> 1, by |-> "seed"]
        ELSE [type |-> IF n = pcs THEN "unit" ELSE "category", parent |-> None, code |-> x1,
              path |-> <<x1>>, level |-> 0, by |-> "seed"]]

MCTemplates == [t \in {width} |-> [code |-> x1, required |-> TRUE, by |-> "seed"]]

MCItems == [i \in {demo} |->
    [sku |-> p1, unit |-> pcs, category |-> signage, path |-> <<x1, x2>>, by |-> "seed"]]

MCRows == {Related("placed", demo, wh), Related("valued", demo, width), Link(demo, link1, "seed")}

Width(given) == [template |-> width, given |-> given]

MakeItem(sku, unit, category, places, attributes) ==
    [op |-> "createItem", sku |-> sku, unit |-> unit, category |-> category,
     warehouses |-> places, attributes |-> attributes]

ChangeItem(sku, category, places, attributes) ==
    [op |-> "updateItem", item |-> demo, sku |-> sku, unit |-> pcs, category |-> category,
     warehouses |-> places, attributes |-> attributes]

Links(rights) == [op |-> "replaceLinks", left |-> demo, rights |-> rights]

MCBodies ==
    {[op |-> "createNode", type |-> "category", parent |-> signage, code |-> p1],
     [op |-> "createNode", type |-> "category", parent |-> None, code |-> x2],
     [op |-> "createNode", type |-> "unit", parent |-> signage, code |-> p1],
     [op |-> "updateNode", type |-> "category", node |-> signage, parent |-> root, code |-> None],
     [op |-> "updateNode", type |-> "category", node |-> signage, parent |-> None, code |-> x2],
     [op |-> "deleteNode", node |-> signage], [op |-> "deleteNode", node |-> pcs],
     [op |-> "createTemplate", code |-> x1, required |-> FALSE],
     [op |-> "updateTemplate", template |-> width, required |-> FALSE],
     [op |-> "deleteTemplate", template |-> width],
     MakeItem(p2, pcs, signage, {wh}, <<Width(TRUE)>>),
     MakeItem(p1, pcs, None, {}, <<Width(FALSE)>>),
     MakeItem(p2, root, root, {}, <<>>),
     MakeItem(p2, pcs, pcs, {}, <<>>),
     ChangeItem(p1, signage, {depot}, <<>>),
     ChangeItem(p2, None, {wh, depot}, <<Width(TRUE)>>),
     ChangeItem(p1, None, {}, <<>>),
     ChangeItem(p1, root, {}, <<Width(TRUE), Width(TRUE)>>),
     [op |-> "deleteItem", item |-> demo],
     Links(<<link1, link2>>), Links(<<link2, link1>>), Links(<<link2, link2>>)}

\* Two requests of the catalogue beside one that changes warehouses, which are all they see of
\* Storage; or two requests on warehouses, zones, cells and equipment by themselves.
Alone == \A c \in Clients : step[c] = "idle"
Begun == {r \in Requests : pc[r] # "idle"}

MCNext ==
    \/ \E r \in Requests : StorageStep(r) /\ (Alone \/ (Begun = {} /\ warehouses' # warehouses))
    \/ \E c \in Clients : (Alone => Begun = {}) /\ Handle(c) /\ UNCHANGED storageVars

MCSpec == Init /\ [][MCNext]_vars

Symmetry == Permutations(Clients) \cup Permutations(Requests)
===============================================================================
