SPECIFICATION Spec
CONSTANTS
    wh = wh
    depot = depot
    zone = zone
    yard = yard
    cell = cell
    crane = crane
    x1 = x1
    x2 = x2
    p1 = p1
    p2 = p2
    pcs = pcs
    root = root
    signage = signage
    width = width
    demo = demo
    link1 = link1
    link2 = link2
    None = None
    Requests = {s1}
    Clients = {c1, c2}
    Codes = {x1, x2, p1}
    Skus = {p1, p2}
    Bodies <- MCBodies
    InitialWarehouses <- MCWarehouses
    InitialZones <- MCZones
    InitialCells <- MCCells
    InitialEquipment <- MCEquipment
    InitialAssigned <- MCAssigned
    InitialNodes <- MCNodes
    InitialTemplates <- MCTemplates
    InitialItems <- MCItems
    InitialRows <- MCRows
PROPERTY DeletionTakesRelated
CHECK_DEADLOCK FALSE
