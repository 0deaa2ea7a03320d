----------------------------- MODULE StorageProofs -----------------------------
(***************************************************************************)
(* Proofs about Storage, for any number of requests, codes and seeded      *)
(* rows: types, that no row refers to a row that is gone, and that no      *)
(* deletion of a cell is recorded.                                         *)
(***************************************************************************)
EXTENDS Storage, TLAPS

\* A handler that has read a cell knows what it was sent.
CallStands(r) == pc[r] \in {"change", "log"} => call[r] \in CellCall

TypeInv == StorageTypeOK /\ \A r \in Requests : CallStands(r)

TablesFit ==
    /\ DOMAIN warehouses \subseteq WarehouseIds /\ warehouses \in [DOMAIN warehouses -> Warehouse]
    /\ DOMAIN zones \subseteq ZoneIds /\ zones \in [DOMAIN zones -> Zone]
    /\ DOMAIN cells \subseteq CellIds /\ cells \in [DOMAIN cells -> Cell]
    /\ DOMAIN equipment \subseteq EquipmentIds /\ equipment \in [DOMAIN equipment -> Equipment]
    /\ assigned \subseteq Assignment
    /\ history \subseteq Entry

HandlersFit ==
    /\ pc \in [Requests -> {"idle", "change", "log", "done"}]
    /\ call \in [Requests -> CellCall \cup {NoCall}]
    /\ reply \in [Requests -> {"none", "ok", "not_found", "failed"}]
    /\ \A r \in Requests : CallStands(r)

Good == TablesFit /\ NothingDangles

LEMMA TypeInvParts == TypeInv <=> TablesFit /\ HandlersFit
BY DEF TypeInv, StorageTypeOK, TablesFit, HandlersFit

\* Deletions take with them whatever refers to the rows they delete.
LEMMA CascadeIsWhole ==
    ASSUME Good, NEW ws, NEW zs, NEW cs, NEW es,
           ZonesOf(ws) \subseteq zs, CellsOf(ws, zs) \subseteq cs, EquipmentOf(ws) \subseteq es,
           Cascade(ws, zs, cs, es)
    PROVE  Good'
<1>1. /\ DOMAIN warehouses' = DOMAIN warehouses \ ws
      /\ DOMAIN warehouses' \subseteq WarehouseIds
      /\ warehouses' \in [DOMAIN warehouses' -> Warehouse]
  BY DEF Good, TablesFit, Cascade, Restrict
<1>2. /\ DOMAIN zones' = DOMAIN zones \ zs
      /\ DOMAIN zones' \subseteq ZoneIds
      /\ zones' \in [DOMAIN zones' -> Zone]
      /\ \A z \in DOMAIN zones' : zones'[z] = zones[z]
  BY DEF Good, TablesFit, Cascade, Restrict
<1>3. /\ DOMAIN cells' = DOMAIN cells \ cs
      /\ DOMAIN cells' \subseteq CellIds
      /\ cells' \in [DOMAIN cells' -> Cell]
      /\ \A c \in DOMAIN cells' : cells'[c] = cells[c]
  BY DEF Good, TablesFit, Cascade, Restrict
<1>4. /\ DOMAIN equipment' = DOMAIN equipment \ es
      /\ DOMAIN equipment' \subseteq EquipmentIds
      /\ equipment' \in [DOMAIN equipment' -> Equipment]
      /\ \A e \in DOMAIN equipment' : equipment'[e] = equipment[e]
  BY DEF Good, TablesFit, Cascade, Restrict
<1>5. assigned' \subseteq Assignment /\ history' \subseteq Entry
  BY DEF Good, TablesFit, Cascade
<1>6. TablesFit'
  BY <1>1, <1>2, <1>3, <1>4, <1>5 DEF TablesFit
<1>7. \A z \in DOMAIN zones' : zones'[z].warehouse \in DOMAIN warehouses'
  BY <1>1, <1>2 DEF Good, NothingDangles, References, ZonesOf
<1>8. \A c \in DOMAIN cells' : cells'[c].warehouse \in DOMAIN warehouses' /\ cells'[c].zone \in DOMAIN zones'
  BY <1>1, <1>2, <1>3 DEF Good, NothingDangles, References, CellsOf
<1>9. \A e \in DOMAIN equipment' : equipment'[e].warehouse \in DOMAIN warehouses'
  BY <1>1, <1>4 DEF Good, NothingDangles, References, EquipmentOf
<1>10. /\ \A a \in assigned' : a.cell \in DOMAIN cells' /\ a.equipment \in DOMAIN equipment'
       /\ \A h \in history' : h.cell \in DOMAIN cells'
  BY <1>3, <1>4 DEF Good, NothingDangles, Cascade
<1>. QED  BY <1>6, <1>7, <1>8, <1>9, <1>10 DEF Good, NothingDangles, References

LEMMA NothingOfNothing == ZonesOf({}) = {} /\ CellsOf({}, {}) = {} /\ EquipmentOf({}) = {}
BY DEF ZonesOf, CellsOf, EquipmentOf

LEMMA DeletionsAreWhole ==
    ASSUME Good, NEW r \in Requests,
           DeleteWarehouse(r) \/ DeleteZone(r) \/ DeleteCell(r) \/ DeleteEquipment(r)
    PROVE  Good'
<1>1. CASE DeleteWarehouse(r)
  BY <1>1, CascadeIsWhole DEF DeleteWarehouse
<1>2. CASE DeleteZone(r)
  <2>1. PICK gone : Cascade({}, gone, CellsOf({}, gone), {})
    BY <1>2 DEF DeleteZone
  <2>. QED  BY <2>1, CascadeIsWhole, NothingOfNothing
<1>3. CASE DeleteCell(r)
  <2>1. PICK gone : Cascade({}, {}, gone, {})
    BY <1>3 DEF DeleteCell
  <2>. QED  BY <2>1, CascadeIsWhole, NothingOfNothing
<1>4. CASE DeleteEquipment(r)
  <2>1. PICK gone : Cascade({}, {}, {}, gone)
    BY <1>4 DEF DeleteEquipment
  <2>. QED  BY <2>1, CascadeIsWhole, NothingOfNothing
<1>. QED  BY <1>1, <1>2, <1>3, <1>4

\* A row more, or another row under an id that is in use: other rows find what they refer to.
LEMMA WarehousesStayWhole ==
    ASSUME Good, NEW r \in Requests, CreateWarehouse(r) \/ UpdateWarehouse(r)
    PROVE  Good'
<1>1. /\ DOMAIN warehouses \subseteq DOMAIN warehouses'
      /\ DOMAIN warehouses' \subseteq WarehouseIds
      /\ warehouses' \in [DOMAIN warehouses' -> Warehouse]
  <2>1. CASE CreateWarehouse(r)
    <3>1. CASE UNCHANGED warehouses
      BY <3>1 DEF Good, TablesFit
    <3>2. CASE ~UNCHANGED warehouses
      <4>1. PICK code \in Codes : warehouses' = With(warehouses, r, [code |-> code])
        BY <2>1, <3>2 DEF CreateWarehouse
      <4>2. r \in WarehouseIds /\ [code |-> code] \in Warehouse
        BY DEF WarehouseIds, Warehouse
      <4>. QED  BY <4>1, <4>2 DEF Good, TablesFit, With
    <3>. QED  BY <3>1, <3>2
  <2>2. CASE UpdateWarehouse(r)
    <3>1. CASE UNCHANGED warehouses
      BY <3>1 DEF Good, TablesFit
    <3>2. CASE ~UNCHANGED warehouses
      <4>1. PICK w \in DOMAIN warehouses, code \in Codes :
                warehouses' = [warehouses EXCEPT ![w].code = code]
        BY <2>2, <3>2 DEF UpdateWarehouse
      <4>. QED  BY <4>1 DEF Good, TablesFit, Warehouse
    <3>. QED  BY <3>1, <3>2
  <2>. QED  BY <2>1, <2>2
<1>2. UNCHANGED <<zones, cells, equipment, assigned, history>>
  BY DEF CreateWarehouse, UpdateWarehouse
<1>. QED  BY <1>1, <1>2 DEF Good, TablesFit, NothingDangles, References

LEMMA ZonesStayWhole ==
    ASSUME Good, NEW r \in Requests, CreateZone(r) \/ UpdateZone(r)
    PROVE  Good'
<1>1. /\ DOMAIN zones \subseteq DOMAIN zones'
      /\ DOMAIN zones' \subseteq ZoneIds
      /\ zones' \in [DOMAIN zones' -> Zone]
      /\ \A z \in DOMAIN zones' : zones'[z].warehouse \in DOMAIN warehouses
  <2>1. CASE UNCHANGED zones
    BY <2>1 DEF Good, TablesFit, NothingDangles, References
  <2>2. CASE CreateZone(r) /\ ~UNCHANGED zones
    <3>1. PICK w \in DOMAIN warehouses, code \in Codes :
              zones' = With(zones, r, [warehouse |-> w, code |-> code])
      BY <2>2 DEF CreateZone
    <3>2. r \in ZoneIds /\ [warehouse |-> w, code |-> code] \in Zone
      BY DEF ZoneIds, Zone, Good, TablesFit
    <3>3. DOMAIN zones \subseteq ZoneIds /\ zones \in [DOMAIN zones -> Zone]
      BY DEF Good, TablesFit
    <3>4. /\ DOMAIN zones' = DOMAIN zones \cup {r}
          /\ zones' \in [DOMAIN zones' -> Zone]
          /\ zones'[r].warehouse = w
          /\ \A x \in DOMAIN zones \ {r} : zones'[x] = zones[x]
      BY <3>1, <3>2, <3>3 DEF With
    <3>. QED  BY <3>2, <3>3, <3>4 DEF Good, NothingDangles, References
  <2>3. CASE UpdateZone(r) /\ ~UNCHANGED zones
    <3>1. PICK z \in DOMAIN zones, code \in Codes : zones' = [zones EXCEPT ![z].code = code]
      BY <2>3 DEF UpdateZone, ZonesOf
    <3>. QED  BY <3>1 DEF Good, TablesFit, NothingDangles, References, Zone
  <2>. QED  BY <2>1, <2>2, <2>3
<1>2. UNCHANGED <<warehouses, cells, equipment, assigned, history>>
  BY DEF CreateZone, UpdateZone
<1>. QED  BY <1>1, <1>2 DEF Good, TablesFit, NothingDangles, References

LEMMA CellsStayWhole ==
    ASSUME Good, HandlersFit, NEW r \in Requests, CreateCell(r) \/ UpdateCell(r)
    PROVE  Good'
<1>1. /\ DOMAIN cells \subseteq DOMAIN cells'
      /\ DOMAIN cells' \subseteq CellIds
      /\ cells' \in [DOMAIN cells' -> Cell]
      /\ \A c \in DOMAIN cells' : cells'[c].warehouse \in DOMAIN warehouses /\ cells'[c].zone \in DOMAIN zones
  <2>1. CASE UNCHANGED cells
    BY <2>1 DEF Good, TablesFit, NothingDangles, References
  <2>2. CASE CreateCell(r) /\ ~UNCHANGED cells
    <3>1. PICK w \in DOMAIN warehouses, z \in DOMAIN zones, code \in Codes :
              cells' = With(cells, r, [warehouse |-> w, zone |-> z, code |-> code, by |-> r])
      BY <2>2 DEF CreateCell
    <3>2. r \in CellIds /\ [warehouse |-> w, zone |-> z, code |-> code, by |-> r] \in Cell
      BY DEF CellIds, Cell, Good, TablesFit
    <3>3. DOMAIN cells \subseteq CellIds /\ cells \in [DOMAIN cells -> Cell]
      BY DEF Good, TablesFit
    <3>4. /\ DOMAIN cells' = DOMAIN cells \cup {r}
          /\ cells' \in [DOMAIN cells' -> Cell]
          /\ cells'[r].warehouse = w /\ cells'[r].zone = z
          /\ \A x \in DOMAIN cells \ {r} : cells'[x] = cells[x]
      BY <3>1, <3>2, <3>3 DEF With
    <3>. QED  BY <3>2, <3>3, <3>4 DEF Good, NothingDangles, References
  <2>3. CASE UpdateCell(r) /\ ~UNCHANGED cells
    <3>1. /\ call[r].cell \in DOMAIN cells
          /\ cells' = [cells EXCEPT ![call[r].cell].code = call[r].code, ![call[r].cell].by = r]
      BY <2>3 DEF UpdateCell, Found
    <3>2. call[r].code \in Codes
      BY <2>3 DEF UpdateCell, HandlersFit, CallStands, CellCall
    <3>3. DOMAIN cells \subseteq CellIds /\ cells \in [DOMAIN cells -> Cell]
      BY DEF Good, TablesFit
    <3>4. /\ DOMAIN cells' = DOMAIN cells
          /\ cells' \in [DOMAIN cells -> Cell]
          /\ \A c \in DOMAIN cells :
                cells'[c].warehouse = cells[c].warehouse /\ cells'[c].zone = cells[c].zone
      BY <3>1, <3>2, <3>3 DEF Cell
    <3>. QED  BY <3>3, <3>4 DEF Good, NothingDangles, References
  <2>. QED  BY <2>1, <2>2, <2>3
<1>2. UNCHANGED <<warehouses, zones, equipment, assigned, history>>
  BY DEF CreateCell, UpdateCell
<1>. QED  BY <1>1, <1>2 DEF Good, TablesFit, NothingDangles, References

LEMMA EquipmentStaysWhole ==
    ASSUME Good, NEW r \in Requests, CreateEquipment(r) \/ UpdateEquipment(r)
    PROVE  Good'
<1>1. /\ DOMAIN equipment \subseteq DOMAIN equipment'
      /\ DOMAIN equipment' \subseteq EquipmentIds
      /\ equipment' \in [DOMAIN equipment' -> Equipment]
      /\ \A e \in DOMAIN equipment' : equipment'[e].warehouse \in DOMAIN warehouses
  <2>1. CASE UNCHANGED equipment
    BY <2>1 DEF Good, TablesFit, NothingDangles, References
  <2>2. CASE CreateEquipment(r) /\ ~UNCHANGED equipment
    <3>1. PICK w \in DOMAIN warehouses, code \in Codes :
              equipment' = With(equipment, r, [warehouse |-> w, code |-> code])
      BY <2>2 DEF CreateEquipment
    <3>2. r \in EquipmentIds /\ [warehouse |-> w, code |-> code] \in Equipment
      BY DEF EquipmentIds, Equipment, Good, TablesFit
    <3>3. DOMAIN equipment \subseteq EquipmentIds /\ equipment \in [DOMAIN equipment -> Equipment]
      BY DEF Good, TablesFit
    <3>4. /\ DOMAIN equipment' = DOMAIN equipment \cup {r}
          /\ equipment' \in [DOMAIN equipment' -> Equipment]
          /\ equipment'[r].warehouse = w
          /\ \A x \in DOMAIN equipment \ {r} : equipment'[x] = equipment[x]
      BY <3>1, <3>2, <3>3 DEF With
    <3>. QED  BY <3>2, <3>3, <3>4 DEF Good, NothingDangles, References
  <2>3. CASE UpdateEquipment(r) /\ ~UNCHANGED equipment
    <3>1. PICK e \in DOMAIN equipment, code \in Codes : equipment' = [equipment EXCEPT ![e].code = code]
      BY <2>3 DEF UpdateEquipment, EquipmentOf
    <3>. QED  BY <3>1 DEF Good, TablesFit, NothingDangles, References, Equipment
  <2>. QED  BY <2>1, <2>2, <2>3
<1>2. UNCHANGED <<warehouses, zones, cells, assigned, history>>
  BY DEF CreateEquipment, UpdateEquipment
<1>. QED  BY <1>1, <1>2 DEF Good, TablesFit, NothingDangles, References

\* Assignments and history entries are added only beside the rows they refer to.
LEMMA NotesStayWhole ==
    ASSUME Good, HandlersFit, NEW r \in Requests,
           AssignEquipment(r) \/ UnassignEquipment(r) \/ LogCellHistory(r)
    PROVE  Good'
<1>1. UNCHANGED <<warehouses, zones, cells, equipment>>
  BY DEF AssignEquipment, UnassignEquipment, LogCellHistory
<1>2. /\ assigned' \subseteq Assignment
      /\ \A a \in assigned' : a.cell \in DOMAIN cells /\ a.equipment \in DOMAIN equipment
  <2>1. CASE AssignEquipment(r) /\ ~UNCHANGED assigned
    <3>1. PICK c \in DOMAIN cells, e \in DOMAIN equipment :
              assigned' = assigned \cup {[cell |-> c, equipment |-> e]}
      BY <2>1 DEF AssignEquipment
    <3>. QED  BY <3>1 DEF Good, TablesFit, NothingDangles, Assignment
  <2>2. CASE ~AssignEquipment(r) \/ UNCHANGED assigned
    <3>1. assigned' \subseteq assigned
      BY <2>2 DEF UnassignEquipment, LogCellHistory
    <3>. QED  BY <3>1 DEF Good, TablesFit, NothingDangles
  <2>. QED  BY <2>1, <2>2
<1>3. history' \subseteq Entry /\ \A h \in history' : h.cell \in DOMAIN cells
  <2>1. CASE LogCellHistory(r) /\ ~UNCHANGED history
    <3>1. /\ call[r].cell \in DOMAIN cells
          /\ history' = history \cup {[cell |-> call[r].cell, kind |-> call[r].op, by |-> r]}
          /\ call[r] \in CellCall
      BY <2>1 DEF LogCellHistory, HandlersFit, CallStands
    <3>2. [cell |-> call[r].cell, kind |-> call[r].op, by |-> r] \in Entry
      BY <3>1 DEF CellCall, Entry
    <3>. QED  BY <3>1, <3>2 DEF Good, TablesFit, NothingDangles
  <2>2. CASE ~LogCellHistory(r) \/ UNCHANGED history
    <3>1. UNCHANGED history
      BY <2>2 DEF AssignEquipment, UnassignEquipment
    <3>. QED  BY <3>1 DEF Good, TablesFit, NothingDangles
  <2>. QED  BY <2>1, <2>2
<1>. QED  BY <1>1, <1>2, <1>3 DEF Good, TablesFit, NothingDangles, References

\* Handlers.
LEMMA HandlersStayFit ==
    ASSUME TablesFit, HandlersFit, NEW r \in Requests, Serve(r)
    PROVE  HandlersFit'
<1>1. CASE UNCHANGED call /\ (\E how \in {"ok", "not_found", "failed"} : Reply(r, how))
  BY <1>1 DEF HandlersFit, CallStands, Reply, Goto
<1>2. CASE UNCHANGED call /\ UNCHANGED reply /\ Goto(r, "log") /\ pc[r] = "change"
  BY <1>2 DEF HandlersFit, CallStands, Goto
<1>3. CASE CreateCell(r)
  <2>1. CASE UNCHANGED call /\ Reply(r, "failed")
    BY <1>1, <2>1
  <2>2. CASE ~(UNCHANGED call /\ Reply(r, "failed"))
    <3>1. PICK w \in WarehouseIds, z \in ZoneIds, code \in Codes :
              call' = [call EXCEPT ![r] = [op |-> "create", warehouse |-> w, zone |-> z, cell |-> r, code |-> code]]
      BY <1>3, <2>2 DEF CreateCell
    <3>2. [op |-> "create", warehouse |-> w, zone |-> z, cell |-> r, code |-> code] \in CellCall
      BY DEF CellCall, CellIds
    <3>3. Goto(r, "log") /\ UNCHANGED reply
      BY <1>3, <2>2 DEF CreateCell
    <3>. QED  BY <3>1, <3>2, <3>3 DEF HandlersFit, CallStands, Goto
  <2>. QED  BY <2>1, <2>2
<1>4. CASE GetCell(r)
  <2>1. PICK op \in {"update", "delete"}, w \in WarehouseIds, z \in ZoneIds, c \in CellIds, code \in Codes :
            /\ call' = [call EXCEPT ![r] = [op |-> op, warehouse |-> w, zone |-> z, cell |-> c, code |-> code]]
            /\ (Goto(r, "change") /\ UNCHANGED reply) \/ Reply(r, "not_found")
    BY <1>4 DEF GetCell
  <2>2. [op |-> op, warehouse |-> w, zone |-> z, cell |-> c, code |-> code] \in CellCall
    BY DEF CellCall
  <2>. QED  BY <2>1, <2>2 DEF HandlersFit, CallStands, Goto, Reply
<1>5. CASE Refuse(r) \/ Break(r) \/ LogCellHistory(r)
  BY <1>1, <1>5 DEF Refuse, Break, LogCellHistory
<1>6. CASE CreateWarehouse(r) \/ UpdateWarehouse(r) \/ DeleteWarehouse(r)
  BY <1>1, <1>6 DEF CreateWarehouse, UpdateWarehouse, DeleteWarehouse
<1>7. CASE CreateZone(r) \/ UpdateZone(r) \/ DeleteZone(r)
  BY <1>1, <1>7 DEF CreateZone, UpdateZone, DeleteZone
<1>8. CASE UpdateCell(r) \/ DeleteCell(r)
  BY <1>1, <1>2, <1>8 DEF UpdateCell, DeleteCell
<1>9. CASE CreateEquipment(r) \/ UpdateEquipment(r) \/ DeleteEquipment(r)
  BY <1>1, <1>9 DEF CreateEquipment, UpdateEquipment, DeleteEquipment
<1>10. CASE AssignEquipment(r) \/ UnassignEquipment(r)
  BY <1>1, <1>10 DEF AssignEquipment, UnassignEquipment
<1>. QED  BY <1>3, <1>4, <1>5, <1>6, <1>7, <1>8, <1>9, <1>10 DEF Serve

LEMMA InitGood == StorageInit => Good /\ HandlersFit
<1>. SUFFICES ASSUME StorageInit PROVE Good /\ HandlersFit
  OBVIOUS
<1>1. TablesFit
  <2>1. InitialAssigned \subseteq Assignment
    BY SeedFits DEF Assignment, CellIds, EquipmentIds
  <2>. QED  BY SeedFits, <2>1 DEF StorageInit, TablesFit, WarehouseIds, ZoneIds, CellIds, EquipmentIds
<1>2. NothingDangles
  BY SeedFits DEF StorageInit, NothingDangles
<1>3. HandlersFit
  BY DEF StorageInit, HandlersFit, CallStands
<1>. QED  BY <1>1, <1>2, <1>3 DEF Good

LEMMA StepGood == Good /\ HandlersFit /\ [StorageNext]_storageVars => (Good /\ HandlersFit)'
<1>. SUFFICES ASSUME Good, HandlersFit, [StorageNext]_storageVars PROVE (Good /\ HandlersFit)'
  OBVIOUS
<1>1. CASE UNCHANGED storageVars
  <2>1. TablesFit' /\ NothingDangles'
    BY <1>1 DEF Good, TablesFit, NothingDangles, References, storageVars, tables
  <2>2. HandlersFit'
    BY <1>1 DEF HandlersFit, CallStands, storageVars
  <2>. QED  BY <2>1, <2>2 DEF Good
<1>2. ASSUME NEW r \in Requests, Serve(r) PROVE (Good /\ HandlersFit)'
  <2>1. HandlersFit'
    BY <1>2, HandlersStayFit DEF Good
  <2>2. UNCHANGED tables => Good'
    BY DEF Good, TablesFit, NothingDangles, References, tables
  <2>3. Refuse(r) \/ GetCell(r) \/ Break(r) => Good'
    BY <2>2 DEF Refuse, GetCell, Break
  <2>4. Good'
    BY <1>2, <2>3, DeletionsAreWhole, WarehousesStayWhole, ZonesStayWhole, CellsStayWhole,
       EquipmentStaysWhole, NotesStayWhole DEF Serve
  <2>. QED  BY <2>1, <2>4
<1>. QED  BY <1>1, <1>2 DEF StorageNext

\* Every variable keeps its type; every statement of a request leaves rows of the shape the
\* tables have.
THEOREM StorageTypeCorrect == StorageSpec => []StorageTypeOK
<1>1. Good /\ HandlersFit => StorageTypeOK
  BY DEF Good, TablesFit, HandlersFit, StorageTypeOK
<1>. QED  BY InitGood, StepGood, <1>1, PTL DEF StorageSpec

\* No zone, cell, piece of equipment, assignment or history entry ever refers to a row that is
\* gone, however many requests delete and insert at once.
THEOREM NothingEverDangles == StorageSpec => []NothingDangles
<1>1. Good /\ HandlersFit => NothingDangles
  BY DEF Good
<1>. QED  BY InitGood, StepGood, <1>1, PTL DEF StorageSpec
-------------------------------------------------------------------------------
\* What a request leaves alone: all other requests, and a request that has ended.
LEMMA OneServed ==
    ASSUME HandlersFit, NEW r \in Requests, Serve(r)
    PROVE  /\ pc[r] # "done"
           /\ \A q \in Requests \ {r} : pc'[q] = pc[q] /\ call'[q] = call[q]
<1>1. ASSUME pc[r] # "done", UNCHANGED call \/ (\E c : call' = [call EXCEPT ![r] = c]),
             \E label : Goto(r, label)
      PROVE  /\ pc[r] # "done"
             /\ \A q \in Requests \ {r} : pc'[q] = pc[q] /\ call'[q] = call[q]
  BY <1>1 DEF HandlersFit, Goto
<1>2. ASSUME NEW how, Reply(r, how) PROVE \E label : Goto(r, label)
  BY <1>2 DEF Reply
<1>3. CASE Refuse(r) \/ Break(r) \/ LogCellHistory(r)
  BY <1>1, <1>2, <1>3 DEF Refuse, Break, LogCellHistory
<1>4. CASE CreateWarehouse(r) \/ UpdateWarehouse(r) \/ DeleteWarehouse(r)
  BY <1>1, <1>2, <1>4 DEF CreateWarehouse, UpdateWarehouse, DeleteWarehouse
<1>5. CASE CreateZone(r) \/ UpdateZone(r) \/ DeleteZone(r)
  BY <1>1, <1>2, <1>5 DEF CreateZone, UpdateZone, DeleteZone
<1>6. CASE CreateCell(r) \/ GetCell(r)
  BY <1>1, <1>2, <1>6 DEF CreateCell, GetCell
<1>7. CASE UpdateCell(r) \/ DeleteCell(r)
  BY <1>1, <1>2, <1>7 DEF UpdateCell, DeleteCell
<1>8. CASE CreateEquipment(r) \/ UpdateEquipment(r) \/ DeleteEquipment(r)
  BY <1>1, <1>2, <1>8 DEF CreateEquipment, UpdateEquipment, DeleteEquipment
<1>9. CASE AssignEquipment(r) \/ UnassignEquipment(r)
  BY <1>1, <1>2, <1>9 DEF AssignEquipment, UnassignEquipment
<1>. QED  BY <1>3, <1>4, <1>5, <1>6, <1>7, <1>8, <1>9 DEF Serve

\* Only LogCellHistory adds to the history.
LEMMA HistoryAdded ==
    ASSUME NEW r \in Requests, Serve(r), ~LogCellHistory(r)
    PROVE  history' \subseteq history
<1>1. ASSUME NEW ws, NEW zs, NEW cs, NEW es, Cascade(ws, zs, cs, es)
      PROVE  history' \subseteq history
  BY <1>1 DEF Cascade
<1>2. CASE DeleteWarehouse(r) \/ DeleteZone(r) \/ DeleteCell(r) \/ DeleteEquipment(r)
  BY <1>1, <1>2 DEF DeleteWarehouse, DeleteZone, DeleteCell, DeleteEquipment
<1>3. CASE Refuse(r) \/ GetCell(r) \/ Break(r)
  BY <1>3 DEF Refuse, GetCell, Break, tables
<1>4. CASE ~(DeleteWarehouse(r) \/ DeleteZone(r) \/ DeleteCell(r) \/ DeleteEquipment(r)
             \/ Refuse(r) \/ GetCell(r) \/ Break(r))
  BY <1>4 DEF Serve, CreateWarehouse, UpdateWarehouse, CreateZone, UpdateZone, CreateCell, UpdateCell,
     CreateEquipment, UpdateEquipment, AssignEquipment, UnassignEquipment
<1>. QED  BY <1>2, <1>3, <1>4

\* An entry was written last, and is about the cell that its request was sent for.
EntriesAreCalls ==
    \A h \in history : pc[h.by] = "done" /\ h.cell = call[h.by].cell

LEMMA EntriesStayCalls ==
    Good /\ HandlersFit /\ EntriesAreCalls /\ [StorageNext]_storageVars => EntriesAreCalls'
<1>. SUFFICES ASSUME Good, HandlersFit, EntriesAreCalls, [StorageNext]_storageVars
              PROVE  EntriesAreCalls'
  OBVIOUS
<1>1. CASE UNCHANGED storageVars
  BY <1>1 DEF EntriesAreCalls, storageVars, tables
<1>2. ASSUME NEW r \in Requests, Serve(r) PROVE EntriesAreCalls'
  <2>1. \A h \in history : h.by \in Requests \ {r}
    BY <1>2, OneServed DEF Good, TablesFit, Entry, EntriesAreCalls
  <2>2. \A h \in history : pc'[h.by] = "done" /\ h.cell = call'[h.by].cell
    BY <1>2, <2>1, OneServed DEF EntriesAreCalls
  <2>3. CASE LogCellHistory(r)
    <3> DEFINE e == [cell |-> call[r].cell, kind |-> call[r].op, by |-> r]
    <3>1. /\ history' \subseteq history \cup {e}
          /\ pc'[r] = "done" /\ call' = call
      BY <2>3 DEF LogCellHistory, Reply, Goto, HandlersFit
    <3>2. e.by = r /\ e.cell = call[r].cell
      OBVIOUS
    <3> HIDE DEF e
    <3>. QED  BY <2>2, <3>1, <3>2 DEF EntriesAreCalls
  <2>4. CASE ~LogCellHistory(r)
    BY <1>2, <2>2, <2>4, HistoryAdded DEF EntriesAreCalls
  <2>. QED  BY <2>3, <2>4
<1>. QED  BY <1>1, <1>2 DEF StorageNext

\* What DeletionsAreRecorded of Storage asks of every answered deletion, of one request.
Recorded(r) ==
    /\ call[r].cell \notin DOMAIN cells
    /\ \E h \in history : h.by = r /\ h.kind = "delete"

\* No deletion of a cell is ever recorded, at any moment and whatever runs beside it: its
\* entry could only refer to the cell, and refers to rows that are there (DeleteCell and
\* logCellHistory of masterdata_service.go).
NoDeletionIsRecorded ==
    \A r \in Requests : call[r] # NoCall /\ call[r].op = "delete" => ~Recorded(r)

THEOREM DeletionsGoUnrecorded == StorageSpec => []NoDeletionIsRecorded
<1>1. StorageInit => EntriesAreCalls
  BY DEF StorageInit, EntriesAreCalls
<1>2. Good /\ EntriesAreCalls => NoDeletionIsRecorded
  BY DEF Good, NothingDangles, EntriesAreCalls, NoDeletionIsRecorded, Recorded
<1>. QED  BY <1>1, <1>2, InitGood, StepGood, EntriesStayCalls, PTL DEF StorageSpec
===============================================================================
