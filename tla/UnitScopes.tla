------------------------------- MODULE UnitScopes -------------------------------
(***************************************************************************)
(* What the gateway lets a user do with the rows of an organisation unit:  *)
(* deals (crm.deals) and warehouses (wms.warehouse) bear the code of one,  *)
(* and a user whom no role lets act everywhere may read and change those   *)
(* of its own units only.  Stock (wms.stock) names its warehouse by code,  *)
(* no foreign key binds it.  The wms service (modules/wms) writes          *)
(* warehouses and stock too, and asks for nobody's scopes.                 *)
(*                                                                         *)
(* A request has passed the permission guard (module Access) and brings    *)
(* the scopes of its sender.  Each SQL statement is one action.  Rows are  *)
(* named by the requests that make them; texts are trimmed and in the case *)
(* the handlers give them.                                                 *)
(***************************************************************************)
EXTENDS Naturals, FiniteSets

CONSTANTS
    Requests,
    Units,              \* codes of organisation units
    Existing,           \* those in core.org_units
    Any,                \* the scope "*"
    None,               \* a field left out or empty
    WmsUnit,            \* the unit of warehouses that the wms service makes
    Stages,             \* stages of deals, "new" among them
    Stores,             \* codes of warehouses
    Skus,
    Sendings,           \* who sends what: [scopes, body]
    InitialCustomers,   \* crm.customers, a function from ids to names
    InitialDeals,       \* crm.deals, a function from ids to rows
    InitialWarehouses   \* wms.warehouse, a function from ids to rows

CustomerIds == Requests \cup DOMAIN InitialCustomers
DealIds == Requests \cup DOMAIN InitialDeals
WarehouseIds == Requests \cup DOMAIN InitialWarehouses
Names == {"old", "new"}
Measures == {"pcs", "kg"}

Deal == [customer : CustomerIds, stage : Stages, unit : Units]
Event == [deal : DealIds, stage : Stages, by : Requests]
Warehouse == [code : Stores, unit : Units, status : {"blank", "active", "blocked"}]
Stock == [by : Requests, uom : Measures]

CustomerBody == [op : {"create_customer"}, name : {None} \cup Names]
CustomerEdit == [op : {"update_customer"}, customer : CustomerIds, name : {None} \cup Names]
DealBody == [op : {"create_deal"}, customer : CustomerIds, stage : {None} \cup Stages, unit : {None} \cup Units]
DealEdit == [op : {"update_deal"}, deal : DealIds, customer : {None} \cup CustomerIds,
             stage : {None, "blank"} \cup Stages]
DealsQuery == [op : {"list_deals"}, stage : {None} \cup Stages]
HistoryQuery == [op : {"deal_history"}, deal : DealIds]
WarehouseBody == [op : {"create_warehouse"}, code : Stores, unit : {None} \cup Units]
WarehouseEdit == [op : {"update_warehouse"}, warehouse : WarehouseIds,
                  status : {None, "blank", "active", "blocked"}]
WarehouseDrop == [op : {"delete_warehouse"}, warehouse : WarehouseIds]
StockBody == [op : {"upsert_stock"}, sku : Skus, code : Stores, uom : {None} \cup Measures]
InventoryBody == [op : {"inventory"}, sku : Skus, code : Stores, uom : {None} \cup Measures]
StoresQuery == [op : {"list_warehouses", "list_stock"}]
WmsBody == [op : {"wms_create"}, code : {None} \cup Stores, status : {None, "active", "blocked"}]
WmsEdit == [op : {"wms_update"}, warehouse : WarehouseIds, code : {None} \cup Stores,
            status : {None, "active", "blocked"}]
WmsDrop == [op : {"wms_delete"}, warehouse : WarehouseIds]
Body == CustomerBody \cup CustomerEdit \cup DealBody \cup DealEdit \cup DealsQuery \cup HistoryQuery
        \cup WarehouseBody \cup WarehouseEdit \cup WarehouseDrop
        \cup StockBody \cup InventoryBody \cup StoresQuery \cup WmsBody \cup WmsEdit \cup WmsDrop

Sending == [scopes : SUBSET (Units \cup {Any}), body : Body]
NoSending == [scopes |-> {}, body |-> [op |-> "none"]]

ASSUME SendingsAreSendings == Sendings \subseteq Sending
ASSUME SomeUnitsExist ==
    /\ Existing \subseteq Units /\ WmsUnit \in Units
    /\ Any \notin Units /\ None \notin Units /\ None \notin Stores
ASSUME NewIsAStage == "new" \in Stages /\ "blank" \notin Stages /\ None \notin Stages
ASSUME SeedsAreRows ==
    /\ InitialCustomers \in [DOMAIN InitialCustomers -> Names]
    /\ InitialDeals \in [DOMAIN InitialDeals -> Deal]
    /\ InitialWarehouses \in [DOMAIN InitialWarehouses -> Warehouse]
    /\ \A v, w \in DOMAIN InitialWarehouses : InitialWarehouses[v].code = InitialWarehouses[w].code => v = w
ASSUME IdsAreFresh ==
    /\ Requests \cap (DOMAIN InitialCustomers \cup DOMAIN InitialDeals \cup DOMAIN InitialWarehouses) = {}
    /\ DOMAIN InitialDeals \cap DOMAIN InitialWarehouses = {}

VARIABLES
    customers, deals, warehouses,
    events,     \* crm.deal_events
    stock,      \* wms.stock: a function from pairs of a sku and a warehouse's code
    pc,         \* where a request's handler stands
    sent,       \* its sender's scopes and its body
    seen,       \* the warehouse that a stock request looked up
    shown,      \* deals and warehouses whose rows, history or stock its answer shows
    answer,
    had         \* history: the stages each deal has had

tables == <<customers, deals, warehouses, events, stock>>
vars == <<tables, pc, sent, seen, shown, answer, had>>

Labels == {"idle", "customer", "find", "client", "insert", "update", "delete", "check", "upsert",
           "service", "list", "audit", "event", "done"}

TypeOK ==
    /\ DOMAIN customers \subseteq CustomerIds /\ customers \in [DOMAIN customers -> Names]
    /\ DOMAIN deals \subseteq DealIds /\ deals \in [DOMAIN deals -> Deal]
    /\ DOMAIN warehouses \subseteq WarehouseIds /\ warehouses \in [DOMAIN warehouses -> Warehouse]
    /\ events \subseteq Event
    /\ DOMAIN stock \subseteq Skus \X Stores /\ stock \in [DOMAIN stock -> Stock]
    /\ pc \in [Requests -> Labels]
    /\ sent \in [Requests -> Sendings \cup {NoSending}]
    /\ seen \in [Requests -> {None} \cup WarehouseIds]
    /\ shown \in [Requests -> SUBSET (DealIds \cup WarehouseIds)]
    /\ answer \in [Requests -> {"none", "ok", "invalid", "forbidden", "not_found", "failed"}]
    /\ had \subseteq DealIds \X Stages

Init ==
    /\ customers = InitialCustomers
    /\ deals = InitialDeals
    /\ warehouses = InitialWarehouses
    /\ events = {}
    /\ stock = [k \in {} |-> None]
    /\ pc = [r \in Requests |-> "idle"]
    /\ sent = [r \in Requests |-> NoSending]
    /\ seen = [r \in Requests |-> None]
    /\ shown = [r \in Requests |-> {}]
    /\ answer = [r \in Requests |-> "none"]
    /\ had = {<<d, InitialDeals[d].stage>> : d \in DOMAIN InitialDeals}
-------------------------------------------------------------------------------
body(r) == sent[r].body

Goto(r, label) == pc' = [pc EXCEPT ![r] = label] /\ UNCHANGED answer
Finish(r, how) == pc' = [pc EXCEPT ![r] = "done"] /\ answer' = [answer EXCEPT ![r] = how]

With(table, id, row) == [i \in DOMAIN table \cup {id} |-> IF i = id THEN row ELSE table[i]]

Given(new, old) == IF new = None THEN old ELSE new

\* A role for every unit, or the units of the sender's roles and its own.
AllowsAll(r) == Any \in sent[r].scopes
ScopesOf(r) == sent[r].scopes \ {Any}
InScope(r, unit) == AllowsAll(r) \/ unit \in ScopesOf(r)

\* The unit of a new row: the one named, or the only one the sender has.
UnitFor(r) ==
    IF body(r).unit # None THEN body(r).unit
    ELSE IF ~AllowsAll(r) /\ Cardinality(ScopesOf(r)) = 1 THEN CHOOSE u \in ScopesOf(r) : TRUE
    ELSE None

FirstOf ==
    [create_customer |-> "customer", update_customer |-> "customer", create_deal |-> "client",
     update_deal |-> "find", create_warehouse |-> "insert", update_warehouse |-> "find",
     delete_warehouse |-> "find", upsert_stock |-> "check", inventory |-> "upsert",
     wms_create |-> "service", wms_update |-> "service", wms_delete |-> "service",
     list_deals |-> "list", deal_history |-> "find", list_warehouses |-> "list", list_stock |-> "list"]

Receive(r) ==
    /\ pc[r] = "idle"
    /\ \E s \in Sendings :
          /\ sent' = [sent EXCEPT ![r] = s]
          /\ Goto(r, FirstOf[s.body.op])
    /\ UNCHANGED <<tables, seen, shown, had>>
-------------------------------------------------------------------------------
(* Customers belong to no unit *)

AcceptsCustomer(r) == body(r).name # None

CreateCustomer(r) ==
    /\ pc[r] = "customer" /\ body(r).op = "create_customer"
    /\ \/ ~AcceptsCustomer(r) /\ Finish(r, "invalid") /\ UNCHANGED customers
       \/ /\ AcceptsCustomer(r)
          /\ customers' = With(customers, r, body(r).name)
          /\ Goto(r, "audit")
    /\ UNCHANGED <<deals, warehouses, events, stock, sent, seen, shown, had>>

\* A name left out or blank stays as it is.
NameAfter(r) == Given(body(r).name, customers[body(r).customer])

UpdateCustomer(r) ==
    /\ pc[r] = "customer" /\ body(r).op = "update_customer"
    /\ \/ body(r).customer \notin DOMAIN customers /\ Finish(r, "not_found") /\ UNCHANGED customers
       \/ /\ body(r).customer \in DOMAIN customers
          /\ customers' = [customers EXCEPT ![body(r).customer] = NameAfter(r)]
          /\ Goto(r, "audit")
    /\ UNCHANGED <<deals, warehouses, events, stock, sent, seen, shown, had>>
-------------------------------------------------------------------------------
(* Deals *)

\* (mutant) a unit that is named is taken as it is.
NamedUnitPasses(r) == body(r).unit # None \/ UnitFor(r) # None

\* What CreateDeal and CreateWarehouse ask of the unit before they store a row.
UnitPasses(r) == UnitFor(r) # None /\ InScope(r, UnitFor(r))

RefuseUnit(r) == Finish(r, IF UnitFor(r) = None THEN "invalid" ELSE "forbidden")

\* CustomerExists, then the rules for the unit; for an update only the first.
CheckCustomer(r) ==
    /\ pc[r] = "client"
    /\ \/ body(r).customer \notin DOMAIN customers /\ Finish(r, "invalid")
       \/ /\ body(r).customer \in DOMAIN customers
          /\ IF body(r).op = "update_deal" THEN Goto(r, "update")
             ELSE IF UnitPasses(r) THEN Goto(r, "insert") ELSE RefuseUnit(r)
    /\ UNCHANGED <<tables, sent, seen, shown, had>>

\* (mutant) the stage is stored as it came.
StageAsSent(r) == [customer |-> body(r).customer, stage |-> body(r).stage, unit |-> UnitFor(r)]

NewDeal(r) ==
    [customer |-> body(r).customer, stage |-> Given(body(r).stage, "new"), unit |-> UnitFor(r)]

\* INSERT; the foreign key on the unit's code may refuse it.
CreateDeal(r) ==
    /\ pc[r] = "insert" /\ body(r).op = "create_deal"
    /\ \/ UnitFor(r) \notin Existing /\ Finish(r, "invalid") /\ UNCHANGED <<deals, had>>
       \/ /\ UnitFor(r) \in Existing
          /\ deals' = With(deals, r, NewDeal(r))
          /\ had' = had \cup {<<r, NewDeal(r).stage>>}
          /\ Goto(r, "audit")
    /\ UNCHANGED <<customers, warehouses, events, stock, sent, seen, shown>>

IsDeal(d) == d \in DOMAIN deals

\* What an update asks of its fields once the deal is found in scope.
AcceptsDealEdit(r) == body(r).stage # "blank"

\* (mutant) the new stage is told before it is stored.
TellFirst(r) ==
    /\ pc[r] = "find" /\ body(r).op = "update_deal"
    /\ IsDeal(body(r).deal) /\ InScope(r, deals[body(r).deal].unit) /\ AcceptsDealEdit(r)
    /\ events' = events \cup
           {e \in Event : e.deal = body(r).deal /\ e.stage = body(r).stage /\ e.by = r}
    /\ Goto(r, "update")
    /\ UNCHANGED <<customers, deals, warehouses, stock, sent, seen, shown, had>>

\* findDeal, the scope, and what the service asks of the fields.
FindDeal(r) ==
    /\ pc[r] = "find" /\ body(r).op = "update_deal"
    /\ LET d == body(r).deal
       IN  \/ ~IsDeal(d) /\ Finish(r, "not_found")
           \/ IsDeal(d) /\ ~InScope(r, deals[d].unit) /\ Finish(r, "forbidden")
           \/ /\ IsDeal(d) /\ InScope(r, deals[d].unit)
              /\ IF ~AcceptsDealEdit(r) THEN Finish(r, "invalid")
                 ELSE Goto(r, IF body(r).customer = None THEN "update" ELSE "client")
    /\ UNCHANGED <<tables, sent, seen, shown, had>>

\* findDeal and the scope, before the history is read.
FindForHistory(r) ==
    /\ pc[r] = "find" /\ body(r).op = "deal_history"
    /\ LET d == body(r).deal
       IN  \/ ~IsDeal(d) /\ Finish(r, "not_found")
           \/ IsDeal(d) /\ ~InScope(r, deals[d].unit) /\ Finish(r, "forbidden")
           \/ IsDeal(d) /\ InScope(r, deals[d].unit) /\ Goto(r, "list")
    /\ UNCHANGED <<tables, sent, seen, shown, had>>

\* UPDATE by id of the columns given; the unit has no field.
UpdateDeal(r) ==
    /\ pc[r] = "update" /\ body(r).op = "update_deal"
    /\ LET d == body(r).deal
           row == [deals[d] EXCEPT !.customer = Given(body(r).customer, @), !.stage = Given(body(r).stage, @)]
       IN  /\ deals' = [deals EXCEPT ![d] = row]
           /\ had' = had \cup {<<d, row.stage>>}
    /\ Goto(r, "audit")
    /\ UNCHANGED <<customers, warehouses, events, stock, sent, seen, shown>>

Tells(b) == b.op = "create_deal" \/ (b.op = "update_deal" /\ b.stage # None)

\* The stage the statement returned, in a statement of its own; an error is ignored.
AppendDealEvent(r) ==
    /\ pc[r] = "event"
    /\ LET b == body(r)
           e == [deal |-> IF b.op = "create_deal" THEN r ELSE b.deal, stage |-> Given(b.stage, "new"), by |-> r]
       IN  events' \in {events, events \cup {e}}
    /\ Finish(r, "ok")
    /\ UNCHANGED <<customers, deals, warehouses, stock, sent, seen, shown, had>>
-------------------------------------------------------------------------------
(* Warehouses *)

\* INSERT with the rules for the unit: UNIQUE (code), and the unit's foreign key.
CreateWarehouse(r) ==
    /\ pc[r] = "insert" /\ body(r).op = "create_warehouse"
    /\ \/ ~UnitPasses(r) /\ RefuseUnit(r) /\ UNCHANGED warehouses
       \/ /\ UnitPasses(r)
          /\ UnitFor(r) \notin Existing \/ \E w \in DOMAIN warehouses : warehouses[w].code = body(r).code
          /\ Finish(r, "invalid")
          /\ UNCHANGED warehouses
       \/ /\ UnitPasses(r)
          /\ UnitFor(r) \in Existing /\ \A w \in DOMAIN warehouses : warehouses[w].code # body(r).code
          /\ warehouses' = With(warehouses, r, [code |-> body(r).code, unit |-> UnitFor(r), status |-> "active"])
          /\ Goto(r, "audit")
    /\ UNCHANGED <<customers, deals, events, stock, sent, seen, shown, had>>

IsWarehouse(w) == w \in DOMAIN warehouses

\* GetWarehouseByID, the scope, and what the service asks of the fields.
FindWarehouse(r) ==
    /\ pc[r] = "find" /\ body(r).op = "update_warehouse"
    /\ LET w == body(r).warehouse
       IN  \/ ~IsWarehouse(w) /\ Finish(r, "invalid")
           \/ IsWarehouse(w) /\ ~InScope(r, warehouses[w].unit) /\ Finish(r, "forbidden")
           \/ /\ IsWarehouse(w) /\ InScope(r, warehouses[w].unit)
              /\ IF body(r).status = "blank" THEN Finish(r, "invalid") ELSE Goto(r, "update")
    /\ UNCHANGED <<tables, sent, seen, shown, had>>

\* The same for a delete.
FindDoomed(r) ==
    /\ pc[r] = "find" /\ body(r).op = "delete_warehouse"
    /\ LET w == body(r).warehouse
       IN  \/ ~IsWarehouse(w) /\ Finish(r, "invalid")
           \/ IsWarehouse(w) /\ ~InScope(r, warehouses[w].unit) /\ Finish(r, "forbidden")
           \/ IsWarehouse(w) /\ InScope(r, warehouses[w].unit) /\ Goto(r, "delete")
    /\ UNCHANGED <<tables, sent, seen, shown, had>>

UpdateWarehouse(r) ==
    /\ pc[r] = "update" /\ body(r).op = "update_warehouse"
    /\ LET w == body(r).warehouse
       IN  \/ w \notin DOMAIN warehouses /\ Finish(r, "invalid") /\ UNCHANGED warehouses
           \/ /\ w \in DOMAIN warehouses
              /\ warehouses' = [warehouses EXCEPT ![w].status = Given(body(r).status, @)]
              /\ Goto(r, "audit")
    /\ UNCHANGED <<customers, deals, events, stock, sent, seen, shown, had>>

\* The stock of the warehouse stays.
DeleteWarehouse(r) ==
    /\ pc[r] = "delete"
    /\ LET w == body(r).warehouse
       IN  \/ w \notin DOMAIN warehouses /\ Finish(r, "invalid") /\ UNCHANGED warehouses
           \/ /\ w \in DOMAIN warehouses
              /\ warehouses' = [v \in DOMAIN warehouses \ {w} |-> warehouses[v]]
              /\ Goto(r, "audit")
    /\ UNCHANGED <<customers, deals, events, stock, sent, seen, shown, had>>
-------------------------------------------------------------------------------
(* Warehouses, by the wms service: one statement each, and no scopes *)

Taken(code, others) == \E w \in others : warehouses[w].code = code

ServiceCreate(r) ==
    /\ pc[r] = "service" /\ body(r).op = "wms_create"
    /\ LET code == body(r).code
           row == [code |-> code, unit |-> WmsUnit, status |-> Given(body(r).status, "active")]
           fits == code # None /\ WmsUnit \in Existing /\ ~Taken(code, DOMAIN warehouses)
       IN  \/ ~fits /\ Finish(r, "invalid") /\ UNCHANGED warehouses
           \/ fits /\ Finish(r, "ok") /\ warehouses' = With(warehouses, r, row)
    /\ UNCHANGED <<customers, deals, events, stock, sent, seen, shown, had>>

\* UPDATE of every column but the unit: a status left out becomes blank.
ServiceUpdate(r) ==
    /\ pc[r] = "service" /\ body(r).op = "wms_update"
    /\ LET w == body(r).warehouse
           code == body(r).code
           fits == code # None /\ ~Taken(code, DOMAIN warehouses \ {w})
       IN  \/ code = None /\ Finish(r, "invalid") /\ UNCHANGED warehouses
           \/ code # None /\ ~IsWarehouse(w) /\ Finish(r, "not_found") /\ UNCHANGED warehouses
           \/ code # None /\ IsWarehouse(w) /\ ~fits /\ Finish(r, "invalid") /\ UNCHANGED warehouses
           \/ /\ IsWarehouse(w) /\ fits
              /\ warehouses' = [warehouses EXCEPT ![w].code = code, ![w].status = Given(body(r).status, "blank")]
              /\ Finish(r, "ok")
    /\ UNCHANGED <<customers, deals, events, stock, sent, seen, shown, had>>

\* DELETE by id; that there is no such row is no error.
ServiceDelete(r) ==
    /\ pc[r] = "service" /\ body(r).op = "wms_delete"
    /\ warehouses' = [v \in DOMAIN warehouses \ {body(r).warehouse} |-> warehouses[v]]
    /\ Finish(r, "ok")
    /\ UNCHANGED <<customers, deals, events, stock, sent, seen, shown, had>>
-------------------------------------------------------------------------------
(* Stock *)

\* GetWarehouseByCode
StoreOf(code) == {w \in DOMAIN warehouses : warehouses[w].code = code}

\* (mutant) any warehouse there is will do.
CheckStoreExists(r) ==
    /\ pc[r] = "check"
    /\ \/ AllowsAll(r) /\ Goto(r, "upsert") /\ UNCHANGED seen
       \/ \E w \in StoreOf(body(r).code) :
             ~AllowsAll(r) /\ seen' = [seen EXCEPT ![r] = w] /\ Goto(r, "upsert")
    /\ UNCHANGED <<tables, sent, shown, had>>

\* The warehouse and the scope; whoever may act everywhere needs no warehouse.
CheckStore(r) ==
    /\ pc[r] = "check"
    /\ \/ AllowsAll(r) /\ Goto(r, "upsert") /\ UNCHANGED seen
       \/ ~AllowsAll(r) /\ StoreOf(body(r).code) = {} /\ Finish(r, "invalid") /\ UNCHANGED seen
       \/ \E w \in StoreOf(body(r).code) :
             /\ ~AllowsAll(r)
             /\ seen' = [seen EXCEPT ![r] = w]
             /\ IF InScope(r, warehouses[w].unit) THEN Goto(r, "upsert") ELSE Finish(r, "forbidden")
    /\ UNCHANGED <<tables, sent, shown, had>>

Key(r) == <<body(r).sku, body(r).code>>

\* The gateway's INSERT ... ON CONFLICT DO UPDATE: quantity and unit of measure.
UpsertStock(r) ==
    /\ pc[r] = "upsert" /\ body(r).op = "upsert_stock"
    /\ stock' = With(stock, Key(r), [by |-> r, uom |-> Given(body(r).uom, "pcs")])
    /\ Goto(r, "audit")
    /\ UNCHANGED <<customers, deals, warehouses, events, sent, seen, shown, had>>

UomOf(r) == Given(body(r).uom, "pcs")

\* The wms service's: no scopes, and a row that is there keeps its unit of measure.
InventoryUpsert(r) ==
    /\ pc[r] = "upsert" /\ body(r).op = "inventory"
    /\ stock' = With(stock, Key(r),
           [by |-> r, uom |-> IF Key(r) \in DOMAIN stock THEN stock[Key(r)].uom ELSE UomOf(r)])
    /\ Goto(r, "audit")
    /\ UNCHANGED <<customers, deals, warehouses, events, sent, seen, shown, had>>
-------------------------------------------------------------------------------
(* Lists *)

ListDeals(r) ==
    {d \in DOMAIN deals : InScope(r, deals[d].unit) /\ body(r).stage \in {None, deals[d].stage}}
ListWarehouses(r) == {w \in DOMAIN warehouses : InScope(r, warehouses[w].unit)}
\* (mutant) the join alone, without the scopes.
AnyStock(r) == {w \in DOMAIN warehouses : \E s \in Skus : <<s, warehouses[w].code>> \in DOMAIN stock}

ListStock(r) ==
    {w \in DOMAIN warehouses : InScope(r, warehouses[w].unit) /\ \E s \in Skus : <<s, warehouses[w].code>> \in DOMAIN stock}
ListDealEvents(r) == {e.deal : e \in {f \in events : f.deal = body(r).deal}}

List(r) ==
    /\ pc[r] = "list"
    /\ shown' = [shown EXCEPT ![r] =
           CASE body(r).op = "list_deals" -> ListDeals(r)
             [] body(r).op = "deal_history" -> ListDealEvents(r)
             [] body(r).op = "list_warehouses" -> ListWarehouses(r)
             [] body(r).op = "list_stock" -> ListStock(r)]
    /\ Finish(r, "ok")
    /\ UNCHANGED <<tables, sent, seen, had>>

\* The audit entry, a statement of its own whose error is only logged; no request here reads it.
RecordAudit(r) ==
    /\ pc[r] = "audit"
    /\ IF Tells(body(r)) THEN Goto(r, "event") ELSE Finish(r, "ok")
    /\ UNCHANGED <<tables, sent, seen, shown, had>>

\* The program stops, or a statement fails.
Fail(r) ==
    /\ pc[r] \notin {"idle", "done"}
    /\ Finish(r, "failed")
    /\ UNCHANGED <<tables, sent, seen, shown, had>>

Next ==
    \E r \in Requests :
        \/ Receive(r) \/ CreateCustomer(r) \/ UpdateCustomer(r)
        \/ CheckCustomer(r) \/ CreateDeal(r) \/ FindDeal(r) \/ FindForHistory(r)
        \/ UpdateDeal(r) \/ AppendDealEvent(r)
        \/ CreateWarehouse(r) \/ FindWarehouse(r) \/ FindDoomed(r) \/ UpdateWarehouse(r) \/ DeleteWarehouse(r)
        \/ ServiceCreate(r) \/ ServiceUpdate(r) \/ ServiceDelete(r)
        \/ CheckStore(r) \/ UpsertStock(r) \/ InventoryUpsert(r)
        \/ List(r) \/ RecordAudit(r) \/ Fail(r)

Spec == Init /\ [][Next]_vars
-------------------------------------------------------------------------------
Changes(new, old) == {i \in DOMAIN new \cup DOMAIN old : ~(i \in DOMAIN new \cap DOMAIN old /\ new[i] = old[i])}
Moves(r) == pc'[r] # pc[r]

ByWmsService(r) == body(r).op \in {"wms_create", "wms_update", "wms_delete"}

\* Whatever the interleaving, a request of the gateway changes, makes and removes deals and
\* warehouses of its sender's units only ("narrow roles are limited by scopes", PROGRESS.md),
\* though the scope was checked on a row read before; and no deal or warehouse passes to another
\* unit, by the gateway or by the wms service.
ChangesStayInScope ==
    [][/\ \A d \in Changes(deals', deals) : \E r \in Requests : Moves(r) /\ InScope(r, deals'[d].unit)
       /\ \A d \in DOMAIN deals : deals'[d].unit = deals[d].unit
       /\ \A w \in DOMAIN warehouses' \cap DOMAIN warehouses : warehouses'[w].unit = warehouses[w].unit
       /\ \A w \in Changes(warehouses', warehouses) : \E r \in Requests :
             /\ Moves(r)
             /\ \/ ByWmsService(r)
                \/ InScope(r, IF w \in DOMAIN warehouses THEN warehouses[w].unit ELSE warehouses'[w].unit)]_vars

\* Lists, history and stock show rows of the reader's units only.
ShownInScope ==
    \A r \in Requests : \A i \in shown[r] :
        /\ i \in DOMAIN deals => InScope(r, deals[i].unit)
        /\ i \in DOMAIN warehouses => InScope(r, warehouses[i].unit)

\* The wms service gave the warehouse this code.
RenamedTo(w, code) ==
    \E q \in Requests : /\ body(q).op = "wms_update" /\ answer[q] = "ok"
                       /\ body(q).warehouse = w /\ body(q).code = code

\* A sender with limited scopes writes stock through the gateway only under the code of a
\* warehouse of its units that it has looked up, and while that warehouse stands under the code
\* no other has it.  Between the two statements the warehouse may have been deleted, or the wms
\* service may have given it another code, and the code be another unit's by then; nothing else
\* takes the code from it.
StockGoesWhereChecked ==
    [][\A r \in Requests :
          pc[r] = "upsert" /\ pc'[r] = "audit" /\ body(r).op = "upsert_stock" /\ ~AllowsAll(r) =>
             \/ seen[r] \in WarehouseIds \ DOMAIN warehouses
             \/ /\ seen[r] \in DOMAIN warehouses
                /\ InScope(r, warehouses[seen[r]].unit)
                /\ \/ \A w \in DOMAIN warehouses : warehouses[w].code = Key(r)[2] <=> w = seen[r]
                   \/ /\ warehouses[seen[r]].code # Key(r)[2]
                      /\ RenamedTo(seen[r], warehouses[seen[r]].code)]_vars

\* The history of a deal tells only stages that the deal has had, though each event is stored
\* after, and apart from, the change it tells of.
HistoryIsTrue == \A e \in events : <<e.deal, e.stage>> \in had
===============================================================================
