SPECIFICATION StorageSpec
CONSTANTS
    wh = wh
    zone = zone
    yard = yard
    cell = cell
    crane = crane
    c1 = c1
    c2 = c2
    Requests = {r1, r2}
    Codes = {c1, c2}
    InitialWarehouses <- MCWarehouses
    InitialZones <- MCZones
    InitialCells <- MCCells
    InitialEquipment <- MCEquipment
    InitialAssigned <- MCAssigned
INVARIANT DeletionsAreRecorded
CHECK_DEADLOCK FALSE
