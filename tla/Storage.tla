-------------------------------- MODULE Storage --------------------------------
(***************************************************************************)
(* Warehouses with their zones, cells and equipment, as modules/wms keeps  *)
(* them.  Every SQL statement is a transaction of its own.  A request with *)
(* one statement is one action, which also chooses what was sent; a change *)
(* of a cell is several: read, change, history, audit.                     *)
(*                                                                         *)
(* A row is named by the request that creates it, which stands for its     *)
(* generated id.  `by' in a cell stands for all fields that a body gives   *)
(* it (label, type, status, sizes): they come from one body.               *)
(***************************************************************************)
EXTENDS FiniteSets, Functions

CONSTANTS
    Requests,           \* invocations of handlers that change rows
    Codes,
    InitialWarehouses,  \* seeded rows, functions from ids to rows
    InitialZones,
    InitialCells,
    InitialEquipment,
    InitialAssigned     \* which equipment stands in which cell

WarehouseIds == Requests \cup DOMAIN InitialWarehouses
ZoneIds == Requests \cup DOMAIN InitialZones
CellIds == Requests \cup DOMAIN InitialCells
EquipmentIds == Requests \cup DOMAIN InitialEquipment

Warehouse == [code : Codes]
Zone == [warehouse : WarehouseIds, code : Codes]
Cell == [warehouse : WarehouseIds, zone : ZoneIds, code : Codes, by : Requests \cup {"seed"}]
Equipment == [warehouse : WarehouseIds, code : Codes]
Entry == [cell : CellIds, kind : {"create", "update", "delete"}, by : Requests]
Assignment == [cell : CellIds, equipment : EquipmentIds]

\* What the handler of a cell was sent.
CellCall == [op : {"create", "update", "delete"}, warehouse : WarehouseIds, zone : ZoneIds,
             cell : CellIds, code : Codes]
NoCall == [op |-> "none"]

\* The foreign keys between the four tables.
References(ws, zs, cs, es) ==
    /\ \A z \in DOMAIN zs : zs[z].warehouse \in DOMAIN ws
    /\ \A c \in DOMAIN cs : cs[c].warehouse \in DOMAIN ws /\ cs[c].zone \in DOMAIN zs
    /\ \A e \in DOMAIN es : es[e].warehouse \in DOMAIN ws

ASSUME SeedFits ==
    /\ InitialWarehouses \in [DOMAIN InitialWarehouses -> Warehouse]
    /\ InitialZones \in [DOMAIN InitialZones -> Zone]
    /\ InitialCells \in [DOMAIN InitialCells -> Cell]
    /\ InitialEquipment \in [DOMAIN InitialEquipment -> Equipment]
    /\ References(InitialWarehouses, InitialZones, InitialCells, InitialEquipment)
    /\ InitialAssigned \subseteq [cell : DOMAIN InitialCells, equipment : DOMAIN InitialEquipment]

VARIABLES
    warehouses, zones, cells, equipment,  \* functions from the ids in use to rows
    assigned,                             \* wms.warehouse_cell_equipment
    history,                              \* wms.warehouse_cell_history
    pc, call, reply

tables == <<warehouses, zones, cells, equipment, assigned, history>>
storageVars == <<tables, pc, call, reply>>

StorageTypeOK ==
    /\ DOMAIN warehouses \subseteq WarehouseIds /\ warehouses \in [DOMAIN warehouses -> Warehouse]
    /\ DOMAIN zones \subseteq ZoneIds /\ zones \in [DOMAIN zones -> Zone]
    /\ DOMAIN cells \subseteq CellIds /\ cells \in [DOMAIN cells -> Cell]
    /\ DOMAIN equipment \subseteq EquipmentIds /\ equipment \in [DOMAIN equipment -> Equipment]
    /\ assigned \subseteq Assignment
    /\ history \subseteq Entry
    /\ pc \in [Requests -> {"idle", "change", "log", "done"}]
    /\ call \in [Requests -> CellCall \cup {NoCall}]
    /\ reply \in [Requests -> {"none", "ok", "not_found", "failed"}]

StorageInit ==
    /\ warehouses = InitialWarehouses /\ zones = InitialZones
    /\ cells = InitialCells /\ equipment = InitialEquipment
    /\ assigned = InitialAssigned /\ history = {}
    /\ pc = [r \in Requests |-> "idle"]
    /\ call = [r \in Requests |-> NoCall]
    /\ reply = [r \in Requests |-> "none"]
-------------------------------------------------------------------------------
With(table, id, row) == [x \in DOMAIN table \cup {id} |-> IF x = id THEN row ELSE table[x]]

\* UNIQUE (warehouse_id, code): no other row has the code.
Free(table, id, warehouse, code) ==
    \A x \in DOMAIN table : table[x].warehouse = warehouse /\ table[x].code = code => x = id

Goto(r, label) == pc' = [pc EXCEPT ![r] = label]
Reply(r, how) == Goto(r, "done") /\ reply' = [reply EXCEPT ![r] = how]

\* Rows are deleted, and with them all rows that refer to them (ON DELETE CASCADE).
Cascade(ws, zs, cs, es) ==
    /\ warehouses' = Restrict(warehouses, DOMAIN warehouses \ ws)
    /\ zones' = Restrict(zones, DOMAIN zones \ zs)
    /\ cells' = Restrict(cells, DOMAIN cells \ cs)
    /\ equipment' = Restrict(equipment, DOMAIN equipment \ es)
    /\ assigned' = {a \in assigned : a.cell \notin cs /\ a.equipment \notin es}
    /\ history' = {h \in history : h.cell \notin cs}

ZonesOf(ws) == {z \in DOMAIN zones : zones[z].warehouse \in ws}
CellsOf(ws, zs) == {c \in DOMAIN cells : cells[c].warehouse \in ws \/ cells[c].zone \in zs}
EquipmentOf(ws) == {e \in DOMAIN equipment : equipment[e].warehouse \in ws}

(* A body without its code, name, type, ... is refused; so is an id that is no UUID. *)
Refuse(r) ==
    /\ pc[r] = "idle"
    /\ Reply(r, "failed")
    /\ UNCHANGED <<tables, call>>

CreateWarehouse(r) ==
    /\ pc[r] = "idle"
    /\ \E code \in Codes :
          \/ /\ \A w \in DOMAIN warehouses : warehouses[w].code # code
             /\ warehouses' = With(warehouses, r, [code |-> code])
             /\ Reply(r, "ok")
          \/ /\ \E w \in DOMAIN warehouses : warehouses[w].code = code
             /\ Reply(r, "failed")
             /\ UNCHANGED warehouses
    /\ UNCHANGED <<zones, cells, equipment, assigned, history, call>>

UpdateWarehouse(r) ==
    /\ pc[r] = "idle"
    /\ \E w \in WarehouseIds, code \in Codes :
          \/ /\ w \notin DOMAIN warehouses
             /\ Reply(r, "not_found")
             /\ UNCHANGED warehouses
          \/ /\ w \in DOMAIN warehouses
             /\ \A x \in DOMAIN warehouses \ {w} : warehouses[x].code # code
             /\ warehouses' = [warehouses EXCEPT ![w].code = code]
             /\ Reply(r, "ok")
          \/ /\ w \in DOMAIN warehouses
             /\ \E x \in DOMAIN warehouses \ {w} : warehouses[x].code = code
             /\ Reply(r, "failed")
             /\ UNCHANGED warehouses
    /\ UNCHANGED <<zones, cells, equipment, assigned, history, call>>

\* A warehouse that is not there is deleted as well; the gateway's copy answers 404.
DeleteWarehouse(r) ==
    /\ pc[r] = "idle"
    /\ \E w \in WarehouseIds :
          /\ Cascade({w}, ZonesOf({w}), CellsOf({w}, ZonesOf({w})), EquipmentOf({w}))
          /\ \/ Reply(r, "ok")
             \/ w \notin DOMAIN warehouses /\ Reply(r, "not_found")
    /\ UNCHANGED call

CreateZone(r) ==
    /\ pc[r] = "idle"
    /\ \E w \in WarehouseIds, code \in Codes :
          \/ /\ w \in DOMAIN warehouses /\ Free(zones, r, w, code)
             /\ zones' = With(zones, r, [warehouse |-> w, code |-> code])
             /\ Reply(r, "ok")
          \/ /\ w \notin DOMAIN warehouses \/ ~Free(zones, r, w, code)
             /\ Reply(r, "failed")
             /\ UNCHANGED zones
    /\ UNCHANGED <<warehouses, cells, equipment, assigned, history, call>>

\* Both ids of the path must fit the row.
UpdateZone(r) ==
    /\ pc[r] = "idle"
    /\ \E w \in WarehouseIds, z \in ZoneIds, code \in Codes :
          \/ /\ z \notin ZonesOf({w})
             /\ Reply(r, "not_found")
             /\ UNCHANGED zones
          \/ /\ z \in ZonesOf({w}) /\ Free(zones, z, w, code)
             /\ zones' = [zones EXCEPT ![z].code = code]
             /\ Reply(r, "ok")
          \/ /\ z \in ZonesOf({w}) /\ ~Free(zones, z, w, code)
             /\ Reply(r, "failed")
             /\ UNCHANGED zones
    /\ UNCHANGED <<warehouses, cells, equipment, assigned, history, call>>

DeleteZone(r) ==
    /\ pc[r] = "idle"
    /\ \E w \in WarehouseIds, z \in ZoneIds :
          LET gone == {z} \cap ZonesOf({w}) IN Cascade({}, gone, CellsOf({}, gone), {})
    /\ Reply(r, "ok")
    /\ UNCHANGED call
-------------------------------------------------------------------------------
\* The foreign keys want the warehouse and the zone, not that the zone is the warehouse's.
CreateCell(r) ==
    /\ pc[r] = "idle"
    /\ \E w \in WarehouseIds, z \in ZoneIds, code \in Codes :
          \/ /\ w \in DOMAIN warehouses /\ z \in DOMAIN zones /\ Free(cells, r, w, code)
             /\ cells' = With(cells, r, [warehouse |-> w, zone |-> z, code |-> code, by |-> r])
             /\ call' = [call EXCEPT ![r] =
                    [op |-> "create", warehouse |-> w, zone |-> z, cell |-> r, code |-> code]]
             /\ Goto(r, "log")
             /\ UNCHANGED reply
          \/ /\ w \notin DOMAIN warehouses \/ z \notin DOMAIN zones \/ ~Free(cells, r, w, code)
             /\ Reply(r, "failed")
             /\ UNCHANGED <<cells, call>>
    /\ UNCHANGED <<warehouses, zones, equipment, assigned, history>>

\* UpdateCell and DeleteCell read the cell first, by its own id alone.
GetCell(r) ==
    /\ pc[r] = "idle"
    /\ \E op \in {"update", "delete"}, w \in WarehouseIds, z \in ZoneIds, c \in CellIds, code \in Codes :
          /\ call' = [call EXCEPT ![r] =
                 [op |-> op, warehouse |-> w, zone |-> z, cell |-> c, code |-> code]]
          /\ \/ c \in DOMAIN cells /\ Goto(r, "change") /\ UNCHANGED reply
             \/ c \notin DOMAIN cells /\ Reply(r, "not_found")
    /\ UNCHANGED tables

\* The row is found with all ids of the path.
Found(r) ==
    /\ call[r].cell \in DOMAIN cells
    /\ cells[call[r].cell].warehouse = call[r].warehouse
    /\ cells[call[r].cell].zone = call[r].zone

UpdateCell(r) ==
    /\ pc[r] = "change" /\ call[r].op = "update"
    /\ \/ /\ Found(r) /\ Free(cells, call[r].cell, call[r].warehouse, call[r].code)
          /\ cells' = [cells EXCEPT ![call[r].cell].code = call[r].code, ![call[r].cell].by = r]
          /\ Goto(r, "log")
          /\ UNCHANGED reply
       \/ /\ ~Found(r) \/ ~Free(cells, call[r].cell, call[r].warehouse, call[r].code)
          /\ Reply(r, "failed")
          /\ UNCHANGED cells
    /\ UNCHANGED <<warehouses, zones, equipment, assigned, history, call>>

\* Nothing looks at how many rows were deleted.
DeleteCell(r) ==
    /\ pc[r] = "change" /\ call[r].op = "delete"
    /\ Cascade({}, {}, IF Found(r) THEN {call[r].cell} ELSE {}, {})
    /\ Goto(r, "log")
    /\ UNCHANGED <<call, reply>>

\* (mutant) an entry is inserted whether its cell is there or not.
LogAnyCell(r) ==
    /\ pc[r] = "log"
    /\ history' = history \cup {[cell |-> call[r].cell, kind |-> call[r].op, by |-> r]}
    /\ Reply(r, "ok")
    /\ UNCHANGED <<warehouses, zones, cells, equipment, assigned, call>>

\* The entry refers to the cell; its failure, and that of the audit after it, is ignored.
LogCellHistory(r) ==
    /\ pc[r] = "log"
    /\ \/ /\ call[r].cell \in DOMAIN cells
          /\ history' = history \cup {[cell |-> call[r].cell, kind |-> call[r].op, by |-> r]}
       \/ UNCHANGED history
    /\ Reply(r, "ok")
    /\ UNCHANGED <<warehouses, zones, cells, equipment, assigned, call>>
-------------------------------------------------------------------------------
CreateEquipment(r) ==
    /\ pc[r] = "idle"
    /\ \E w \in WarehouseIds, code \in Codes :
          \/ /\ w \in DOMAIN warehouses /\ Free(equipment, r, w, code)
             /\ equipment' = With(equipment, r, [warehouse |-> w, code |-> code])
             /\ Reply(r, "ok")
          \/ /\ w \notin DOMAIN warehouses \/ ~Free(equipment, r, w, code)
             /\ Reply(r, "failed")
             /\ UNCHANGED equipment
    /\ UNCHANGED <<warehouses, zones, cells, assigned, history, call>>

UpdateEquipment(r) ==
    /\ pc[r] = "idle"
    /\ \E w \in WarehouseIds, e \in EquipmentIds, code \in Codes :
          \/ /\ e \in EquipmentOf({w}) /\ Free(equipment, e, w, code)
             /\ equipment' = [equipment EXCEPT ![e].code = code]
             /\ Reply(r, "ok")
          \/ /\ e \notin EquipmentOf({w}) \/ ~Free(equipment, e, w, code)
             /\ Reply(r, "failed")
             /\ UNCHANGED equipment
    /\ UNCHANGED <<warehouses, zones, cells, assigned, history, call>>

DeleteEquipment(r) ==
    /\ pc[r] = "idle"
    /\ \E w \in WarehouseIds, e \in EquipmentIds : Cascade({}, {}, {}, {e} \cap EquipmentOf({w}))
    /\ Reply(r, "ok")
    /\ UNCHANGED call

\* INSERT ... ON CONFLICT DO UPDATE: the cell and the equipment may be of two warehouses.
AssignEquipment(r) ==
    /\ pc[r] = "idle"
    /\ \E c \in CellIds, e \in EquipmentIds :
          IF c \in DOMAIN cells /\ e \in DOMAIN equipment
          THEN assigned' = assigned \cup {[cell |-> c, equipment |-> e]} /\ Reply(r, "ok")
          ELSE Reply(r, "failed") /\ UNCHANGED assigned
    /\ UNCHANGED <<warehouses, zones, cells, equipment, history, call>>

UnassignEquipment(r) ==
    /\ pc[r] = "idle"
    /\ \E c \in CellIds, e \in EquipmentIds :
          assigned' = assigned \ {[cell |-> c, equipment |-> e]}
    /\ Reply(r, "ok")
    /\ UNCHANGED <<warehouses, zones, cells, equipment, history, call>>

\* The program stops, or the database does not answer: what was changed stays.
Break(r) ==
    /\ pc[r] \in {"change", "log"}
    /\ Reply(r, "failed")
    /\ UNCHANGED <<tables, call>>

Serve(r) ==
    \/ Refuse(r)
    \/ CreateWarehouse(r) \/ UpdateWarehouse(r) \/ DeleteWarehouse(r)
    \/ CreateZone(r) \/ UpdateZone(r) \/ DeleteZone(r)
    \/ CreateCell(r) \/ GetCell(r) \/ UpdateCell(r) \/ DeleteCell(r) \/ LogCellHistory(r)
    \/ CreateEquipment(r) \/ UpdateEquipment(r) \/ DeleteEquipment(r)
    \/ AssignEquipment(r) \/ UnassignEquipment(r)
    \/ Break(r)

StorageNext == \E r \in Requests : Serve(r)

StorageSpec == StorageInit /\ [][StorageNext]_storageVars
-------------------------------------------------------------------------------
\* Whatever is deleted while a request is under way, no zone, cell, piece of equipment,
\* assignment or history entry refers to a row that is gone.
NothingDangles ==
    /\ References(warehouses, zones, cells, equipment)
    /\ \A a \in assigned : a.cell \in DOMAIN cells /\ a.equipment \in DOMAIN equipment
    /\ \A h \in history : h.cell \in DOMAIN cells

\* "DeleteCell removes a cell and records history" (masterdata_service.go): an answered
\* deletion has removed the cell and can be read in the cell's history.
DeletionsAreRecorded ==
    \A r \in Requests : call[r] # NoCall /\ call[r].op = "delete" /\ reply[r] = "ok" =>
        /\ call[r].cell \notin DOMAIN cells
        /\ \E h \in history : h.by = r /\ h.kind = "delete"
===============================================================================
