--------------------------- MODULE UnitScopesProofs ---------------------------
(***************************************************************************)
(* Proofs about UnitScopes, for any number of requests, any units and      *)
(* scopes and any rows to begin with: nobody reads or changes rows of      *)
(* another's units, though scopes are checked on rows read before.         *)
(***************************************************************************)
EXTENDS UnitScopes, FiniteSetTheorems, TLAPS

(* A request past its INSERT; an id that no later request can make anew. *)
Past(i) == i \in Requests => pc[i] \in {"audit", "event", "done"}

MyDeal(r) == body(r).deal \in DOMAIN deals /\ InScope(r, deals[body(r).deal].unit)
\* The warehouse has the code it was found under, or the wms service has given it another.
Bears(w, code) == warehouses[w].code = code \/ RenamedTo(w, warehouses[w].code)
MyWarehouse(r, w) == Past(w) /\ (w \in DOMAIN warehouses => InScope(r, warehouses[w].unit))

OpAt(r) ==
    /\ pc[r] # "idle" => sent[r] \in Sendings
    /\ pc[r] = "customer" => body(r).op \in {"create_customer", "update_customer"}
    /\ pc[r] = "find" => body(r).op \in {"update_deal", "deal_history", "update_warehouse", "delete_warehouse"}
    /\ pc[r] = "client" => body(r).op \in {"create_deal", "update_deal"}
    /\ pc[r] = "insert" => body(r).op \in {"create_deal", "create_warehouse"}
    /\ pc[r] = "update" => body(r).op \in {"update_deal", "update_warehouse"}
    /\ pc[r] = "delete" => body(r).op = "delete_warehouse"
    /\ pc[r] = "check" => body(r).op = "upsert_stock"
    /\ pc[r] = "upsert" => body(r).op \in {"upsert_stock", "inventory"}
    /\ pc[r] = "list" => body(r).op \in {"list_deals", "deal_history", "list_warehouses", "list_stock"}
    /\ pc[r] = "event" => Tells(body(r))
    /\ pc[r] = "service" => body(r).op \in {"wms_create", "wms_update", "wms_delete"}
    /\ answer[r] = "ok" => pc[r] = "done"

(* What a handler knows at the step where it stands, whatever others have done since. *)
Knows(r) ==
    /\ OpAt(r)
    /\ body(r).op = "update_deal" /\ pc[r] \in {"client", "update", "audit", "event"} =>
          MyDeal(r) /\ body(r).stage # "blank"
    /\ body(r).op = "deal_history" /\ pc[r] = "list" => MyDeal(r)
    /\ body(r).op = "create_deal" /\ pc[r] = "insert" => UnitPasses(r)
    /\ body(r).op = "create_deal" /\ pc[r] \in {"audit", "event"} =>
          <<r, Given(body(r).stage, "new")>> \in had
    /\ body(r).op = "update_deal" /\ pc[r] \in {"audit", "event"} /\ body(r).stage # None =>
          <<body(r).deal, body(r).stage>> \in had
    /\ body(r).op = "update_warehouse" /\ pc[r] = "update" =>
          MyWarehouse(r, body(r).warehouse) /\ body(r).status # "blank"
    /\ body(r).op = "delete_warehouse" /\ pc[r] = "delete" => MyWarehouse(r, body(r).warehouse)
    /\ body(r).op = "upsert_stock" /\ pc[r] = "upsert" /\ ~AllowsAll(r) =>
          /\ seen[r] \in WarehouseIds /\ MyWarehouse(r, seen[r])
          /\ seen[r] \in DOMAIN warehouses => Bears(seen[r], body(r).code)
    /\ pc[r] # "done" => shown[r] = {}
    /\ \A i \in shown[r] :
          /\ Past(i)
          /\ i \in DOMAIN deals => InScope(r, deals[i].unit)
          /\ i \in DOMAIN warehouses => InScope(r, warehouses[i].unit)

\* A row named by a request is of the kind that the request makes.
Made ==
    /\ \A d \in DOMAIN deals : Past(d) /\ (d \in Requests => body(d).op = "create_deal")
    /\ \A w \in DOMAIN warehouses : Past(w) /\ (w \in Requests => body(w).op \in {"create_warehouse", "wms_create"})

UniqueCodes ==
    \A v, w \in DOMAIN warehouses : warehouses[v].code = warehouses[w].code => v = w

Inv == TypeOK /\ Made /\ UniqueCodes /\ HistoryIsTrue /\ (\A r \in Requests : Knows(r))

(* What no step of r does to the rest. *)
StepOf(r) ==
    /\ \A q \in Requests \ {r} :
          pc'[q] = pc[q] /\ sent'[q] = sent[q] /\ seen'[q] = seen[q] /\ shown'[q] = shown[q]
    /\ Past(r) => pc'[r] \in {"audit", "event", "done"} /\ sent'[r] = sent[r]
    /\ \A d \in DOMAIN deals : d \in DOMAIN deals' /\ deals'[d].unit = deals[d].unit
    /\ \A d \in DOMAIN deals' : d \in DOMAIN deals \/ (d = r /\ ~Past(r))
    /\ \A w \in DOMAIN warehouses' :
          \/ /\ w \in DOMAIN warehouses /\ warehouses'[w].unit = warehouses[w].unit
             /\ warehouses'[w].code = warehouses[w].code \/ RenamedTo(w, warehouses[w].code)'
          \/ w = r /\ ~Past(r)
    /\ \A q \in Requests : answer[q] = "ok" => answer'[q] = "ok" /\ sent'[q] = sent[q]
    /\ \A q \in Requests \ {r} : answer'[q] = answer[q]
    /\ had \subseteq had'
-------------------------------------------------------------------------------
LEMMA BodyTyped ==
    ASSUME NEW s \in Sendings
    PROVE  /\ s.scopes \subseteq Units \cup {Any}
           /\ s.body.op = "create_customer" => s.body \in CustomerBody
           /\ s.body.op = "update_customer" => s.body \in CustomerEdit
           /\ s.body.op = "create_deal" => s.body \in DealBody
           /\ s.body.op = "update_deal" => s.body \in DealEdit
           /\ s.body.op = "list_deals" => s.body \in DealsQuery
           /\ s.body.op = "deal_history" => s.body \in HistoryQuery
           /\ s.body.op = "create_warehouse" => s.body \in WarehouseBody
           /\ s.body.op = "update_warehouse" => s.body \in WarehouseEdit
           /\ s.body.op = "delete_warehouse" => s.body \in WarehouseDrop
           /\ s.body.op = "upsert_stock" => s.body \in StockBody
           /\ s.body.op = "inventory" => s.body \in InventoryBody
           /\ s.body.op = "wms_create" => s.body \in WmsBody
           /\ s.body.op = "wms_update" => s.body \in WmsEdit
           /\ s.body.op = "wms_delete" => s.body \in WmsDrop
           /\ s.body.op \in DOMAIN FirstOf
<1>1. s \in Sending
    BY SendingsAreSendings
<1>2. s.scopes \subseteq Units \cup {Any} /\ s.body \in Body
    BY <1>1 DEF Sending
<1> QED
    BY <1>2 DEF Body, CustomerBody, CustomerEdit, DealBody, DealEdit, DealsQuery, HistoryQuery,
                WarehouseBody, WarehouseEdit, WarehouseDrop, StockBody, InventoryBody, StoresQuery,
                WmsBody, WmsEdit, WmsDrop, FirstOf

LEMMA UnitTyped ==
    ASSUME NEW r \in Requests, sent[r].scopes \subseteq Units \cup {Any},
           body(r).unit \in {None} \cup Units
    PROVE  UnitFor(r) \in {None} \cup Units
<1>1. ASSUME Cardinality(ScopesOf(r)) = 1
      PROVE  (CHOOSE u \in ScopesOf(r) : TRUE) \in ScopesOf(r)
  <2>1. ScopesOf(r) # {}
      BY <1>1, FS_EmptySet
  <2> QED
      BY <2>1
<1>2. ScopesOf(r) \subseteq Units
    BY DEF ScopesOf
<1> QED
    BY <1>1, <1>2 DEF UnitFor

(* Others lose nothing that they know. *)
LEMMA Frame ==
    ASSUME NEW r \in Requests, StepOf(r), NEW q \in Requests, q # r, Knows(q)
    PROVE  Knows(q)'
<1>1. pc'[q] = pc[q] /\ sent'[q] = sent[q] /\ seen'[q] = seen[q] /\ shown'[q] = shown[q]
    BY DEF StepOf
<1>2. ASSUME NEW i, Past(i) PROVE Past(i)'
    BY <1>2 DEF Past, StepOf
<1>3. (AllowsAll(q)' <=> AllowsAll(q)) /\ ScopesOf(q)' = ScopesOf(q)
    BY <1>1 DEF AllowsAll, ScopesOf
<1>4. WarehouseIds' = WarehouseIds
    BY DEF WarehouseIds
<1>5. ASSUME MyDeal(q) PROVE MyDeal(q)'
    BY <1>1, <1>3, <1>5 DEF MyDeal, InScope, StepOf, body
<1>6. ASSUME NEW i, Past(i),
             i \in DOMAIN deals => InScope(q, deals[i].unit),
             i \in DOMAIN warehouses => InScope(q, warehouses[i].unit)
      PROVE  (/\ i \in DOMAIN deals => InScope(q, deals[i].unit)
              /\ i \in DOMAIN warehouses => InScope(q, warehouses[i].unit))'
    BY <1>3, <1>6 DEF StepOf, InScope
<1>7. OpAt(q)'
  <2>1. answer'[q] = answer[q]
      BY DEF StepOf
  <2> QED
      BY <1>1, <2>1 DEF Knows, OpAt, body
<1>8. body(q)' = body(q) /\ (UnitPasses(q) => UnitPasses(q)') /\ (AllowsAll(q)' <=> AllowsAll(q))
  <2>1. body(q)' = body(q) /\ ScopesOf(q)' = ScopesOf(q) /\ (AllowsAll(q)' <=> AllowsAll(q))
      BY <1>1 DEF body, ScopesOf, AllowsAll
  <2>2. UnitFor(q)' = UnitFor(q)
      BY <2>1 DEF UnitFor
  <2> QED
      BY <2>1, <2>2 DEF UnitPasses, InScope
<1>9. had \subseteq had'
    BY DEF StepOf
<1>10. ASSUME body(q).op = "upsert_stock", pc[q] = "upsert", ~AllowsAll(q)
       PROVE  (seen[q] \in DOMAIN warehouses => Bears(seen[q], body(q).code))'
  <2>1. MyWarehouse(q, seen[q]) /\ (seen[q] \in DOMAIN warehouses => Bears(seen[q], body(q).code))
      BY <1>10 DEF Knows
  <2> SUFFICES ASSUME seen[q] \in DOMAIN warehouses' PROVE Bears(seen[q], body(q).code)'
      BY <1>1
  <2>2. /\ seen[q] \in DOMAIN warehouses
        /\ \/ warehouses'[seen[q]].code = warehouses[seen[q]].code
           \/ RenamedTo(seen[q], warehouses[seen[q]].code)'
      BY <1>1, <2>1 DEF MyWarehouse, StepOf
  <2>3. ASSUME NEW code, RenamedTo(seen[q], code) PROVE RenamedTo(seen[q], code)'
      BY <1>1, <2>3 DEF RenamedTo, StepOf, body
  <2>4. CASE RenamedTo(seen[q], warehouses[seen[q]].code)'
      BY <2>4 DEF Bears
  <2>5. CASE warehouses'[seen[q]].code = warehouses[seen[q]].code
    <3>1. CASE warehouses[seen[q]].code = body(q).code
        BY <1>1, <1>8, <2>5, <3>1 DEF Bears
    <3>2. CASE RenamedTo(seen[q], warehouses[seen[q]].code)
      <4>1. RenamedTo(seen[q], warehouses[seen[q]].code)'
          BY <1>1, <2>3, <2>5, <3>2 DEF RenamedTo
      <4> QED
          BY <4>1 DEF Bears
    <3> QED
        BY <2>1, <2>2, <3>1, <3>2 DEF Bears
  <2> QED
      BY <2>2, <2>4, <2>5
<1>11. /\ (body(q).op = "update_deal" /\ pc[q] \in {"client", "update", "audit", "event"} =>
               MyDeal(q) /\ body(q).stage # "blank")'
       /\ (body(q).op = "deal_history" /\ pc[q] = "list" => MyDeal(q))'
       /\ (body(q).op = "create_deal" /\ pc[q] = "insert" => UnitPasses(q))'
    BY <1>1, <1>5, <1>8 DEF Knows
<1>12. /\ (body(q).op = "create_deal" /\ pc[q] \in {"audit", "event"} =>
               <<q, Given(body(q).stage, "new")>> \in had)'
       /\ (body(q).op = "update_deal" /\ pc[q] \in {"audit", "event"} /\ body(q).stage # None =>
               <<body(q).deal, body(q).stage>> \in had)'
    BY <1>1, <1>8, <1>9 DEF Knows, Given
<1>13. /\ (body(q).op = "update_warehouse" /\ pc[q] = "update" =>
               MyWarehouse(q, body(q).warehouse) /\ body(q).status # "blank")'
       /\ (body(q).op = "delete_warehouse" /\ pc[q] = "delete" => MyWarehouse(q, body(q).warehouse))'
  <2>1. MyWarehouse(q, body(q).warehouse) => MyWarehouse(q, body(q).warehouse)'
      BY <1>2, <1>3, <1>8 DEF MyWarehouse, InScope, StepOf
  <2> QED
      BY <1>1, <1>8, <2>1 DEF Knows
<1>14. (body(q).op = "upsert_stock" /\ pc[q] = "upsert" /\ ~AllowsAll(q) =>
               /\ seen[q] \in WarehouseIds /\ MyWarehouse(q, seen[q])
               /\ seen[q] \in DOMAIN warehouses => Bears(seen[q], body(q).code))'
  <2>1. MyWarehouse(q, seen[q]) => MyWarehouse(q, seen[q])'
      BY <1>1, <1>2, <1>3 DEF MyWarehouse, InScope, StepOf
  <2>2. (seen[q] \in WarehouseIds)' <=> seen[q] \in WarehouseIds
      BY <1>1 DEF WarehouseIds
  <2> QED
      BY <1>1, <1>8, <1>10, <2>1, <2>2 DEF Knows
<1>15. (pc[q] # "done" => shown[q] = {})'
    BY <1>1 DEF Knows
<1>16. (\A i \in shown[q] :
          /\ Past(i)
          /\ i \in DOMAIN deals => InScope(q, deals[i].unit)
          /\ i \in DOMAIN warehouses => InScope(q, warehouses[i].unit))'
    BY <1>1, <1>2, <1>6 DEF Knows
<1> QED
    BY <1>7, <1>11, <1>12, <1>13, <1>14, <1>15, <1>16 DEF Knows

(* So a step of r has only to show its own part. *)
LEMMA Assemble ==
    ASSUME Inv, NEW r \in Requests, StepOf(r),
           TypeOK', Knows(r)', UniqueCodes', HistoryIsTrue',
           r \in DOMAIN deals' \ DOMAIN deals => pc'[r] = "audit" /\ body(r)'.op = "create_deal",
           r \in DOMAIN warehouses' \ DOMAIN warehouses =>
              pc'[r] \in {"audit", "done"} /\ body(r)'.op \in {"create_warehouse", "wms_create"}
    PROVE  Inv'
<1>1. \A q \in Requests : Knows(q)'
    BY Frame DEF Inv
<1>2. ASSUME NEW i, Past(i) PROVE Past(i)' /\ (i \in Requests => body(i)' = body(i))
    BY <1>2 DEF Past, StepOf, body
<1>3. \A d \in DOMAIN deals' : Past(d)' /\ (d \in Requests => body(d)'.op = "create_deal")
  <2> SUFFICES ASSUME NEW d \in DOMAIN deals'
               PROVE  Past(d)' /\ (d \in Requests => body(d)'.op = "create_deal")
      OBVIOUS
  <2>1. CASE d \in DOMAIN deals
      BY <1>2, <2>1 DEF Inv, Made
  <2>2. CASE d \notin DOMAIN deals
      BY <2>2 DEF StepOf, Past
  <2> QED
      BY <2>1, <2>2
<1>4. \A w \in DOMAIN warehouses' : Past(w)' /\ (w \in Requests => body(w)'.op \in {"create_warehouse", "wms_create"})
  <2> SUFFICES ASSUME NEW w \in DOMAIN warehouses'
               PROVE  Past(w)' /\ (w \in Requests => body(w)'.op \in {"create_warehouse", "wms_create"})
      OBVIOUS
  <2>1. CASE w \in DOMAIN warehouses
      BY <1>2, <2>1 DEF Inv, Made
  <2>2. CASE w \notin DOMAIN warehouses
      BY <2>2 DEF StepOf, Past
  <2> QED
      BY <2>1, <2>2
<1> QED
    BY <1>1, <1>3, <1>4 DEF Inv, Made
-------------------------------------------------------------------------------
(* Steps that change no table *)

Answers == {"none", "ok", "invalid", "forbidden", "not_found", "failed"}

LEMMA Moving ==
    ASSUME Inv, NEW r \in Requests, NEW label \in Labels,
           pc' = [pc EXCEPT ![r] = label], pc[r] # "done",
           answer' = answer \/ \E how \in Answers : answer' = [answer EXCEPT ![r] = how],
           UNCHANGED <<tables, sent, seen, shown, had>>,
           pc[r] \in {"audit", "event"} => label \in {"event", "done"},
           Knows(r)'
    PROVE  Inv'
<1>a. answer[r] # "ok"
    BY DEF Inv, Knows, OpAt
<1>1. StepOf(r)
    BY <1>a DEF Inv, TypeOK, StepOf, Past, tables
<1>2. TypeOK'
    BY DEF Inv, TypeOK, tables, Answers
<1>3. UniqueCodes' /\ HistoryIsTrue'
    BY DEF Inv, UniqueCodes, HistoryIsTrue, tables
<1>4. deals' = deals /\ warehouses' = warehouses
    BY DEF tables
<1> QED
    BY <1>1, <1>2, <1>3, <1>4, Assemble

\* What a request may do whose next step needs no more than it was sent.
LEMMA Finishing ==
    ASSUME Inv, NEW r \in Requests, NEW how \in Answers, pc[r] \notin {"idle", "done"},
           Finish(r, how), UNCHANGED <<tables, sent, seen, shown, had>>
    PROVE  Inv'
<1>1. pc' = [pc EXCEPT ![r] = "done"] /\ answer' = [answer EXCEPT ![r] = how]
    BY DEF Finish
<1>2. answer' \in [Requests -> Answers] /\ pc'[r] = "done"
    BY <1>1 DEF Inv, TypeOK, Answers
<1>3. Knows(r)'
  <2>1. OpAt(r)'
      BY <1>2 DEF OpAt, Inv, Knows
  <2>2. (\A i \in shown[r] :
          /\ Past(i)
          /\ i \in DOMAIN deals => InScope(r, deals[i].unit)
          /\ i \in DOMAIN warehouses => InScope(r, warehouses[i].unit))'
      BY <1>1 DEF Inv, Knows, TypeOK, Past, InScope, AllowsAll, ScopesOf, tables
  <2> QED
      BY <1>2, <2>1, <2>2 DEF Knows
<1>4. "done" \in Labels
    BY DEF Labels
<1> QED
    BY <1>1, <1>2, <1>3, <1>4, Moving

LEMMA FailInv ==
    ASSUME Inv, NEW r \in Requests, Fail(r)
    PROVE  Inv'
BY Finishing DEF Fail, Answers

\* Going on, with the same in hand.
LEMMA Going ==
    ASSUME Inv, NEW r \in Requests, NEW label \in Labels, Goto(r, label), pc[r] \notin {"idle", "done"},
           UNCHANGED <<tables, sent, seen, shown, had>>
    PROVE  /\ pc'[r] = label /\ pc' = [pc EXCEPT ![r] = label]
           /\ answer' = answer /\ answer[r] # "ok"
           /\ body(r)' = body(r) /\ (MyDeal(r)' <=> MyDeal(r)) /\ sent'[r] \in Sendings
           /\ (UnitPasses(r)' <=> UnitPasses(r)) /\ (AllowsAll(r)' <=> AllowsAll(r))
           /\ (label # "done" /\ pc[r] # "done" => shown'[r] = {})
<1>1. /\ pc'[r] = label /\ pc' = [pc EXCEPT ![r] = label]
      /\ answer' = answer /\ answer[r] # "ok"
    BY DEF Goto, Inv, TypeOK, Knows, OpAt
<1>2. body(r)' = body(r) /\ ScopesOf(r)' = ScopesOf(r) /\ (AllowsAll(r)' <=> AllowsAll(r))
    BY DEF body, ScopesOf, AllowsAll
<1>3. MyDeal(r)' <=> MyDeal(r)
    BY <1>2 DEF MyDeal, InScope, tables
<1>4. UnitFor(r)' = UnitFor(r)
    BY <1>2 DEF UnitFor
<1>5. UnitPasses(r)' <=> UnitPasses(r)
    BY <1>2, <1>4 DEF UnitPasses, InScope
<1>6. sent'[r] \in Sendings /\ (pc[r] # "done" => shown'[r] = {})
    BY DEF Inv, Knows, OpAt
<1> QED
    BY <1>1, <1>2, <1>3, <1>5, <1>6

LEMMA ReceiveInv ==
    ASSUME Inv, NEW r \in Requests, Receive(r)
    PROVE  Inv'
<1>1. PICK s \in Sendings : sent' = [sent EXCEPT ![r] = s] /\ Goto(r, FirstOf[s.body.op])
    BY DEF Receive
<1> DEFINE label == FirstOf[s.body.op]
<1>2. pc[r] = "idle" /\ UNCHANGED <<tables, seen, shown, had>>
    BY DEF Receive
<1>3. /\ sent'[r] = s /\ pc' = [pc EXCEPT ![r] = label] /\ answer' = answer /\ pc'[r] = label
      /\ answer[r] # "ok"
    BY <1>1, <1>2 DEF Inv, TypeOK, Goto, Knows, OpAt
<1>4. s.body.op \in DOMAIN FirstOf
    BY BodyTyped
<1>5. label \in {"customer", "find", "client", "insert", "check", "upsert", "service", "list"}
    BY <1>4 DEF FirstOf
<1>6. TypeOK'
    BY <1>1, <1>2, <1>3, <1>5 DEF Inv, TypeOK, tables, Labels
<1>7. StepOf(r)
    BY <1>1, <1>2, <1>3 DEF Inv, TypeOK, StepOf, Past, tables
<1>8. shown'[r] = {}
    BY <1>2 DEF Inv, Knows
<1>9. body(r)' = s.body
    BY <1>3 DEF body
<1>10. OpAt(r)'
    BY <1>3, <1>4, <1>9 DEF OpAt, FirstOf
<1>11. s.body.op = "create_deal" => label = "client"
    BY DEF FirstOf
<1>12. s.body.op = "upsert_stock" => label = "check"
    BY DEF FirstOf
<1>13. s.body.op = "update_deal" => label = "find"
    BY DEF FirstOf
<1>14. s.body.op = "deal_history" => label = "find"
    BY DEF FirstOf
<1>15. s.body.op = "update_warehouse" => label = "find"
    BY DEF FirstOf
<1>16. s.body.op = "delete_warehouse" => label = "find"
    BY DEF FirstOf
<1>17. Knows(r)'
    BY <1>3, <1>5, <1>8, <1>9, <1>10, <1>11, <1>12, <1>13, <1>14, <1>15, <1>16 DEF Knows
<1>18. UniqueCodes' /\ HistoryIsTrue' /\ deals' = deals /\ warehouses' = warehouses
    BY <1>2 DEF Inv, UniqueCodes, HistoryIsTrue, tables
<1> QED
    BY <1>6, <1>7, <1>17, <1>18, Assemble

LEMMA CheckCustomerInv ==
    ASSUME Inv, NEW r \in Requests, CheckCustomer(r)
    PROVE  Inv'
<1>1. pc[r] = "client" /\ UNCHANGED <<tables, sent, seen, shown, had>>
    BY DEF CheckCustomer
<1>2. CASE \E how \in Answers : Finish(r, how)
    BY <1>1, <1>2, Finishing
<1>3. CASE body(r).op = "update_deal" /\ Goto(r, "update")
  <2>1. MyDeal(r) /\ body(r).stage # "blank"
      BY <1>1, <1>3 DEF Inv, Knows
  <2>2. Knows(r)'
      BY <1>1, <1>3, <2>1, Going DEF Knows, OpAt, Labels
  <2> QED
      BY <1>1, <1>3, <2>2, Going, Moving DEF Labels
<1>4. CASE body(r).op # "update_deal" /\ UnitPasses(r) /\ Goto(r, "insert")
  <2>1. body(r).op = "create_deal"
      BY <1>1, <1>4 DEF Inv, Knows, OpAt
  <2>2. Knows(r)'
      BY <1>1, <1>4, <2>1, Going DEF Knows, OpAt, Labels
  <2> QED
      BY <1>1, <1>4, <2>2, Going, Moving DEF Labels
<1> QED
    BY <1>2, <1>3, <1>4 DEF CheckCustomer, RefuseUnit, Answers

LEMMA FindDealInv ==
    ASSUME Inv, NEW r \in Requests, FindDeal(r)
    PROVE  Inv'
<1>1. pc[r] = "find" /\ body(r).op = "update_deal" /\ UNCHANGED <<tables, sent, seen, shown, had>>
    BY DEF FindDeal
<1>2. CASE \E how \in Answers : Finish(r, how)
    BY <1>1, <1>2, Finishing
<1>3. ASSUME NEW label \in {"update", "client"}, Goto(r, label), MyDeal(r), AcceptsDealEdit(r)
      PROVE  Inv'
  <2>1. label \in Labels
      BY DEF Labels
  <2>2. Knows(r)'
      BY <1>1, <1>3, <2>1, Going DEF Knows, OpAt, AcceptsDealEdit
  <2> QED
      BY <1>1, <1>3, <2>1, <2>2, Going, Moving
<1> QED
    BY <1>2, <1>3 DEF FindDeal, IsDeal, MyDeal, Answers

LEMMA FindForHistoryInv ==
    ASSUME Inv, NEW r \in Requests, FindForHistory(r)
    PROVE  Inv'
<1>1. pc[r] = "find" /\ body(r).op = "deal_history" /\ UNCHANGED <<tables, sent, seen, shown, had>>
    BY DEF FindForHistory
<1>2. CASE \E how \in Answers : Finish(r, how)
    BY <1>1, <1>2, Finishing
<1>3. CASE Goto(r, "list") /\ MyDeal(r)
  <2>1. Knows(r)'
      BY <1>1, <1>3, Going DEF Knows, OpAt, Labels
  <2> QED
      BY <1>1, <1>3, <2>1, Going, Moving DEF Labels
<1> QED
    BY <1>2, <1>3 DEF FindForHistory, IsDeal, MyDeal, Answers

LEMMA FindWarehouseInv ==
    ASSUME Inv, NEW r \in Requests, FindWarehouse(r) \/ FindDoomed(r)
    PROVE  Inv'
<1>1. /\ pc[r] = "find" /\ body(r).op \in {"update_warehouse", "delete_warehouse"}
      /\ UNCHANGED <<tables, sent, seen, shown, had>>
    BY DEF FindWarehouse, FindDoomed
<1>2. CASE \E how \in Answers : Finish(r, how)
    BY <1>1, <1>2, Finishing
<1>3. ASSUME NEW label \in {"update", "delete"}, Goto(r, label),
             label = "update" => body(r).op = "update_warehouse" /\ body(r).status # "blank",
             label = "delete" => body(r).op = "delete_warehouse",
             IsWarehouse(body(r).warehouse), InScope(r, warehouses[body(r).warehouse].unit)
      PROVE  Inv'
  <2>1. label \in Labels
      BY DEF Labels
  <2>2. Past(body(r).warehouse) /\ body(r).warehouse # r
      BY <1>1, <1>3 DEF Inv, Made, IsWarehouse, Past
  <2>3. MyWarehouse(r, body(r).warehouse)'
      BY <1>1, <1>3, <2>2 DEF MyWarehouse, Past, Goto, tables, body, InScope, AllowsAll, ScopesOf
  <2>4. Knows(r)'
      BY <1>1, <1>3, <2>1, <2>3, Going DEF Knows, OpAt
  <2> QED
      BY <1>1, <1>3, <2>1, <2>4, Going, Moving
<1> QED
    BY <1>2, <1>3 DEF FindWarehouse, FindDoomed, Answers

LEMMA RecordAuditInv ==
    ASSUME Inv, NEW r \in Requests, RecordAudit(r)
    PROVE  Inv'
<1>1. pc[r] = "audit" /\ UNCHANGED <<tables, sent, seen, shown, had>>
    BY DEF RecordAudit
<1>2. CASE \E how \in Answers : Finish(r, how)
    BY <1>1, <1>2, Finishing
<1>3. CASE Tells(body(r)) /\ Goto(r, "event")
  <2>1. had' = had
      BY <1>1
  <2>2. Knows(r)'
      BY <1>1, <1>3, <2>1, Going DEF Inv, Knows, OpAt, Labels, Given
  <2> QED
      BY <1>1, <1>3, <2>2, Going, Moving DEF Labels
<1> QED
    BY <1>2, <1>3 DEF RecordAudit, Answers

LEMMA CheckStoreInv ==
    ASSUME Inv, NEW r \in Requests, CheckStore(r)
    PROVE  Inv'
<1>1. pc[r] = "check" /\ UNCHANGED <<tables, sent, shown, had>>
    BY DEF CheckStore
<1>2. body(r).op = "upsert_stock" /\ sent[r] \in Sendings /\ shown[r] = {}
    BY <1>1 DEF Inv, Knows, OpAt
<1>3. CASE (\E how \in Answers : Finish(r, how)) /\ UNCHANGED seen
    BY <1>1, <1>3, Finishing
<1>4. CASE AllowsAll(r) /\ Goto(r, "upsert") /\ UNCHANGED seen
  <2>1. Knows(r)'
      BY <1>1, <1>2, <1>4, Going DEF Knows, OpAt, Labels
  <2> QED
      BY <1>1, <1>4, <2>1, Going, Moving DEF Labels
<1>5. ASSUME NEW w \in StoreOf(body(r).code), seen' = [seen EXCEPT ![r] = w],
             NEW label \in {"upsert", "done"}, pc' = [pc EXCEPT ![r] = label],
             answer' = answer \/ answer' = [answer EXCEPT ![r] = "forbidden"],
             label = "upsert" => InScope(r, warehouses[w].unit)
      PROVE  Inv'
  <2>1. w \in DOMAIN warehouses /\ warehouses[w].code = body(r).code
      BY DEF StoreOf
  <2>2. w \in WarehouseIds /\ Past(w) /\ w # r
      BY <1>1, <2>1 DEF Inv, TypeOK, Made, Past
  <2>3. pc'[r] = label /\ seen'[r] = w /\ body(r)' = body(r) /\ sent'[r] = sent[r]
      BY <1>1, <1>5 DEF Inv, TypeOK, body
  <2>4. MyWarehouse(r, seen[r])' \/ label = "done"
      BY <1>1, <1>5, <2>2, <2>3 DEF MyWarehouse, Past, InScope, AllowsAll, ScopesOf, tables
  <2>5. (seen[r] \in DOMAIN warehouses => Bears(seen[r], body(r).code))'
      BY <1>1, <2>1, <2>3 DEF tables, Bears
  <2>a. answer[r] # "ok" /\ answer'[r] # "ok"
      BY <1>1, <1>5 DEF Inv, TypeOK, Knows, OpAt
  <2>6. (seen[r] \in WarehouseIds)'
      BY <2>2, <2>3 DEF WarehouseIds
  <2>7. OpAt(r)' /\ shown'[r] = {}
      BY <1>1, <1>2, <2>3, <2>a DEF OpAt
  <2>8. Knows(r)'
      BY <1>2, <2>3, <2>4, <2>5, <2>6, <2>7 DEF Knows
  <2>9. TypeOK'
      BY <1>1, <1>5, <2>2 DEF Inv, TypeOK, tables, Labels, Answers
  <2>10. StepOf(r)
      BY <1>1, <1>5, <2>a DEF Inv, TypeOK, StepOf, Past, tables
  <2>11. UniqueCodes' /\ HistoryIsTrue' /\ deals' = deals /\ warehouses' = warehouses
      BY <1>1 DEF Inv, UniqueCodes, HistoryIsTrue, tables
  <2> QED
      BY <2>8, <2>9, <2>10, <2>11, Assemble
<1>6. CASE \E w \in StoreOf(body(r).code) :
             /\ ~AllowsAll(r)
             /\ seen' = [seen EXCEPT ![r] = w]
             /\ IF InScope(r, warehouses[w].unit) THEN Goto(r, "upsert") ELSE Finish(r, "forbidden")
  <2>1. PICK w \in StoreOf(body(r).code) :
             /\ seen' = [seen EXCEPT ![r] = w]
             /\ IF InScope(r, warehouses[w].unit) THEN Goto(r, "upsert") ELSE Finish(r, "forbidden")
      BY <1>6
  <2>2. answer' = answer \/ answer' = [answer EXCEPT ![r] = "forbidden"]
      BY <2>1 DEF Goto, Finish
  <2> QED
      BY <1>5, <2>1, <2>2 DEF Goto, Finish
<1> QED
    BY <1>3, <1>4, <1>6 DEF CheckStore, Answers

LEMMA ListInv ==
    ASSUME Inv, NEW r \in Requests, List(r)
    PROVE  Inv'
<1>1. /\ pc[r] = "list" /\ UNCHANGED <<tables, sent, seen, had>>
      /\ pc' = [pc EXCEPT ![r] = "done"] /\ answer' = [answer EXCEPT ![r] = "ok"]
    BY DEF List, Finish
<1>2. body(r).op \in {"list_deals", "deal_history", "list_warehouses", "list_stock"} /\ sent[r] \in Sendings
    BY <1>1 DEF Inv, Knows, OpAt
<1>3. PICK S : shown' = [shown EXCEPT ![r] = S] /\
             S = CASE body(r).op = "list_deals" -> ListDeals(r)
                   [] body(r).op = "deal_history" -> ListDealEvents(r)
                   [] body(r).op = "list_warehouses" -> ListWarehouses(r)
                   [] body(r).op = "list_stock" -> ListStock(r)
    BY DEF List
<1>4. ASSUME NEW i \in S
      PROVE  /\ i \in DOMAIN deals \/ i \in DOMAIN warehouses
             /\ i \in DOMAIN deals => InScope(r, deals[i].unit)
             /\ i \in DOMAIN warehouses => InScope(r, warehouses[i].unit)
  <2>1. \A d \in DOMAIN deals : d \notin DOMAIN warehouses
      BY IdsAreFresh DEF Inv, Made, TypeOK, DealIds, WarehouseIds
  <2>2. CASE body(r).op = "list_deals"
      BY <1>3, <2>1, <2>2 DEF ListDeals
  <2>3. CASE body(r).op = "list_warehouses"
      BY <1>3, <2>1, <2>3 DEF ListWarehouses
  <2>4. CASE body(r).op = "list_stock"
      BY <1>3, <2>1, <2>4 DEF ListStock
  <2>5. CASE body(r).op = "deal_history"
    <3>1. MyDeal(r)
        BY <1>1, <2>5 DEF Inv, Knows
    <3>2. i = body(r).deal
        BY <1>3, <2>5 DEF ListDealEvents
    <3> QED
        BY <2>1, <3>1, <3>2 DEF MyDeal
  <2> QED
      BY <1>2, <2>2, <2>3, <2>4, <2>5
<1>5. pc'[r] = "done" /\ shown'[r] = S /\ sent'[r] = sent[r] /\ answer[r] # "ok"
    BY <1>1, <1>3 DEF Inv, TypeOK, Knows, OpAt
<1>6. ASSUME NEW i, Past(i) PROVE Past(i)'
    BY <1>1, <1>6 DEF Past, Inv, TypeOK
<1>7. \A i \in S : Past(i)'
    BY <1>4, <1>6 DEF Inv, Made
<1>8. (\A i \in shown[r] :
          /\ Past(i)
          /\ i \in DOMAIN deals => InScope(r, deals[i].unit)
          /\ i \in DOMAIN warehouses => InScope(r, warehouses[i].unit))'
    BY <1>1, <1>4, <1>5, <1>7 DEF InScope, AllowsAll, ScopesOf, tables
<1>9. OpAt(r)'
    BY <1>2, <1>5 DEF OpAt
<1>10. Knows(r)'
    BY <1>5, <1>8, <1>9 DEF Knows
<1>11. TypeOK'
  <2>1. S \in SUBSET (DealIds \cup WarehouseIds)
      BY <1>4 DEF Inv, TypeOK
  <2> QED
      BY <1>1, <1>3, <2>1 DEF Inv, TypeOK, tables, Labels
<1>12. StepOf(r)
    BY <1>1, <1>3, <1>5 DEF Inv, TypeOK, StepOf, Past, tables
<1>13. UniqueCodes' /\ HistoryIsTrue' /\ deals' = deals /\ warehouses' = warehouses
    BY <1>1 DEF Inv, UniqueCodes, HistoryIsTrue, tables
<1> QED
    BY <1>10, <1>11, <1>12, <1>13, Assemble
-------------------------------------------------------------------------------
(* Steps that change a table *)

\* A write elsewhere than to deals and warehouses.
LEMMA WritingElsewhere ==
    ASSUME Inv, NEW r \in Requests, pc[r] \in {"customer", "upsert"}, Goto(r, "audit"),
           UNCHANGED <<deals, warehouses, events, sent, seen, shown, had>>, TypeOK'
    PROVE  Inv'
<1>1. /\ pc' = [pc EXCEPT ![r] = "audit"] /\ pc'[r] = "audit"
      /\ UNCHANGED answer /\ answer[r] # "ok"
    BY DEF Goto, Inv, TypeOK, Knows, OpAt
<1>2. StepOf(r)
    BY <1>1 DEF Inv, TypeOK, StepOf, Past
<1>3. body(r).op \notin {"create_deal", "update_deal"} /\ sent[r] \in Sendings /\ shown[r] = {}
    BY DEF Inv, Knows, OpAt
<1>4. body(r)' = body(r) /\ sent'[r] \in Sendings /\ shown'[r] = {}
    BY <1>3 DEF body
<1>5. Knows(r)'
    BY <1>1, <1>3, <1>4 DEF Knows, OpAt
<1>6. UniqueCodes' /\ HistoryIsTrue'
    BY DEF Inv, UniqueCodes, HistoryIsTrue
<1> QED
    BY <1>2, <1>5, <1>6, Assemble

LEMMA CreateCustomerInv ==
    ASSUME Inv, NEW r \in Requests, CreateCustomer(r)
    PROVE  Inv'
<1>1. /\ pc[r] = "customer" /\ body(r).op = "create_customer"
      /\ UNCHANGED <<deals, warehouses, events, stock, sent, seen, shown, had>>
    BY DEF CreateCustomer
<1>2. CASE Finish(r, "invalid") /\ UNCHANGED customers
    BY <1>1, <1>2, Finishing DEF tables, Answers
<1>3. CASE AcceptsCustomer(r) /\ customers' = With(customers, r, body(r).name) /\ Goto(r, "audit")
  <2>1. body(r).name \in Names
      BY <1>1, <1>3, BodyTyped DEF Inv, Knows, OpAt, body, AcceptsCustomer, CustomerBody
  <2>2. DOMAIN customers' \subseteq CustomerIds /\ customers' \in [DOMAIN customers' -> Names]
      BY <1>3, <2>1 DEF Inv, TypeOK, CustomerIds, With
  <2>3. TypeOK'
      BY <1>1, <1>3, <2>2 DEF Inv, TypeOK, Goto, Labels
  <2> QED
      BY <1>1, <1>3, <2>3, WritingElsewhere
<1> QED
    BY <1>2, <1>3 DEF CreateCustomer

LEMMA UpdateCustomerInv ==
    ASSUME Inv, NEW r \in Requests, UpdateCustomer(r)
    PROVE  Inv'
<1>1. /\ pc[r] = "customer" /\ body(r).op = "update_customer"
      /\ UNCHANGED <<deals, warehouses, events, stock, sent, seen, shown, had>>
    BY DEF UpdateCustomer
<1>2. CASE Finish(r, "not_found") /\ UNCHANGED customers
    BY <1>1, <1>2, Finishing DEF tables, Answers
<1>3. CASE /\ body(r).customer \in DOMAIN customers
           /\ customers' = [customers EXCEPT ![body(r).customer] = NameAfter(r)] /\ Goto(r, "audit")
  <2>1. body(r).name \in {None} \cup Names
      BY <1>1, BodyTyped DEF Inv, Knows, OpAt, body, CustomerEdit
  <2>2. NameAfter(r) \in Names
      BY <1>3, <2>1 DEF Inv, TypeOK, NameAfter, Given
  <2>3. DOMAIN customers' \subseteq CustomerIds /\ customers' \in [DOMAIN customers' -> Names]
      BY <1>3, <2>2 DEF Inv, TypeOK
  <2>4. TypeOK'
      BY <1>1, <1>3, <2>3 DEF Inv, TypeOK, Goto, Labels
  <2> QED
      BY <1>1, <1>3, <2>4, WritingElsewhere
<1> QED
    BY <1>2, <1>3 DEF UpdateCustomer

LEMMA StockInv ==
    ASSUME Inv, NEW r \in Requests, UpsertStock(r) \/ InventoryUpsert(r)
    PROVE  Inv'
<1>1. /\ pc[r] = "upsert" /\ Goto(r, "audit") /\ body(r).op \in {"upsert_stock", "inventory"}
      /\ UNCHANGED <<customers, deals, warehouses, events, sent, seen, shown, had>>
    BY DEF UpsertStock, InventoryUpsert
<1>2. body(r).sku \in Skus /\ body(r).code \in Stores /\ body(r).uom \in {None} \cup Measures
    BY <1>1, BodyTyped DEF Inv, Knows, OpAt, body, StockBody, InventoryBody
<1>3. Key(r) \in Skus \X Stores /\ Given(body(r).uom, "pcs") \in Measures
    BY <1>2 DEF Key, Given, Measures
<1>4. PICK row \in Stock : stock' = With(stock, Key(r), row)
  <2>1. CASE UpsertStock(r)
      BY <1>3, <2>1 DEF UpsertStock, Stock
  <2>2. CASE InventoryUpsert(r)
    <3>1. Key(r) \in DOMAIN stock => stock[Key(r)].uom \in Measures
        BY DEF Inv, TypeOK, Stock
    <3> QED
        BY <1>3, <2>2, <3>1 DEF InventoryUpsert, Stock, UomOf
  <2> QED
      BY <2>1, <2>2
<1>5. DOMAIN stock' \subseteq Skus \X Stores /\ stock' \in [DOMAIN stock' -> Stock]
    BY <1>3, <1>4 DEF Inv, TypeOK, With
<1>6. TypeOK'
    BY <1>1, <1>5 DEF Inv, TypeOK, Goto, Labels
<1> QED
    BY <1>1, <1>6, WritingElsewhere

LEMMA CreateDealInv ==
    ASSUME Inv, NEW r \in Requests, CreateDeal(r)
    PROVE  Inv'
<1>1. /\ pc[r] = "insert" /\ body(r).op = "create_deal"
      /\ UNCHANGED <<customers, warehouses, events, stock, sent, seen, shown>>
    BY DEF CreateDeal
<1>2. CASE Finish(r, "invalid") /\ UNCHANGED <<deals, had>>
    BY <1>1, <1>2, Finishing DEF tables, Answers
<1>3. CASE /\ deals' = With(deals, r, NewDeal(r)) /\ had' = had \cup {<<r, NewDeal(r).stage>>}
           /\ Goto(r, "audit")
  <2>1. /\ sent[r] \in Sendings /\ body(r) \in DealBody /\ UnitPasses(r) /\ shown[r] = {}
        /\ sent[r].scopes \subseteq Units \cup {Any}
      BY <1>1, BodyTyped DEF Inv, Knows, OpAt, body
  <2>2. UnitFor(r) \in Units
      BY <2>1, UnitTyped DEF DealBody, UnitPasses
  <2>3. NewDeal(r) \in Deal /\ NewDeal(r).stage = Given(body(r).stage, "new")
      BY <2>1, <2>2, NewIsAStage DEF NewDeal, Deal, DealBody, Given
  <2>4. r \notin DOMAIN deals
      BY <1>1 DEF Inv, Made, Past
  <2>5. /\ deals' \in [DOMAIN deals' -> Deal] /\ DOMAIN deals' = DOMAIN deals \cup {r}
        /\ \A d \in DOMAIN deals : deals'[d] = deals[d]
      BY <1>3, <2>3, <2>4 DEF Inv, TypeOK, With
  <2>6. /\ pc' = [pc EXCEPT ![r] = "audit"] /\ pc'[r] = "audit"
        /\ UNCHANGED answer /\ answer[r] # "ok"
      BY <1>1, <1>3 DEF Goto, Inv, TypeOK, Knows, OpAt
  <2>7. TypeOK'
      BY <1>1, <1>3, <2>3, <2>5, <2>6 DEF Inv, TypeOK, Labels, DealIds, Deal
  <2>8. StepOf(r)
      BY <1>1, <1>3, <2>5, <2>6 DEF Inv, TypeOK, StepOf, Past
  <2>9. body(r)' = body(r) /\ sent'[r] \in Sendings /\ shown'[r] = {}
      BY <1>1, <2>1 DEF body
  <2>10. (<<r, Given(body(r).stage, "new")>> \in had)'
      BY <1>3, <2>3, <2>9 DEF Given
  <2>11. Knows(r)'
      BY <1>1, <2>6, <2>9, <2>10 DEF Knows, OpAt
  <2>12. UniqueCodes' /\ HistoryIsTrue'
      BY <1>1, <1>3 DEF Inv, UniqueCodes, HistoryIsTrue
  <2> QED
      BY <1>1, <2>6, <2>7, <2>8, <2>9, <2>11, <2>12, Assemble
<1> QED
    BY <1>2, <1>3 DEF CreateDeal

LEMMA UpdateDealInv ==
    ASSUME Inv, NEW r \in Requests, UpdateDeal(r)
    PROVE  Inv'
<1> DEFINE d == body(r).deal
           row == [deals[d] EXCEPT !.customer = Given(body(r).customer, @), !.stage = Given(body(r).stage, @)]
<1>1. /\ pc[r] = "update" /\ body(r).op = "update_deal"
      /\ UNCHANGED <<customers, warehouses, events, stock, sent, seen, shown>>
      /\ deals' = [deals EXCEPT ![d] = row] /\ had' = had \cup {<<d, row.stage>>}
      /\ Goto(r, "audit")
    BY DEF UpdateDeal
<1>2. /\ sent[r] \in Sendings /\ body(r) \in DealEdit /\ MyDeal(r) /\ body(r).stage # "blank" /\ shown[r] = {}
    BY <1>1, BodyTyped DEF Inv, Knows, OpAt, body
<1>3. d \in DOMAIN deals /\ deals[d] \in Deal
    BY <1>2 DEF MyDeal, Inv, TypeOK
<1>4. row \in Deal /\ row.unit = deals[d].unit /\ row.stage = Given(body(r).stage, deals[d].stage)
    BY <1>2, <1>3 DEF Deal, DealEdit, Given
<1>5. /\ deals' \in [DOMAIN deals -> Deal] /\ DOMAIN deals' = DOMAIN deals /\ deals'[d] = row
      /\ \A e \in DOMAIN deals \ {d} : deals'[e] = deals[e]
    BY <1>1, <1>3, <1>4 DEF Inv, TypeOK
<1>6. /\ pc' = [pc EXCEPT ![r] = "audit"] /\ pc'[r] = "audit"
      /\ UNCHANGED answer /\ answer[r] # "ok"
    BY <1>1 DEF Goto, Inv, TypeOK, Knows, OpAt
<1>7. TypeOK'
  <2>1. row.stage \in Stages /\ d \in DealIds
      BY <1>3, <1>4 DEF Deal, Inv, TypeOK
  <2> QED
      BY <1>1, <1>5, <1>6, <2>1 DEF Inv, TypeOK, Labels
<1>8. StepOf(r)
    BY <1>1, <1>4, <1>5, <1>6 DEF Inv, TypeOK, StepOf, Past
<1>9. body(r)' = body(r) /\ sent'[r] \in Sendings /\ shown'[r] = {}
    BY <1>1, <1>2 DEF body
<1>10. MyDeal(r)'
    BY <1>1, <1>2, <1>4, <1>5, <1>9 DEF MyDeal, InScope, AllowsAll, ScopesOf
<1>11. (body(r).stage # None => <<body(r).deal, body(r).stage>> \in had)'
    BY <1>1, <1>4, <1>9 DEF Given
<1>12. Knows(r)'
    BY <1>1, <1>2, <1>6, <1>9, <1>10, <1>11 DEF Knows, OpAt
<1>13. UniqueCodes' /\ HistoryIsTrue'
    BY <1>1 DEF Inv, UniqueCodes, HistoryIsTrue
<1> QED
    BY <1>1, <1>5, <1>7, <1>8, <1>12, <1>13, Assemble

LEMMA AppendDealEventInv ==
    ASSUME Inv, NEW r \in Requests, AppendDealEvent(r)
    PROVE  Inv'
<1> DEFINE b == body(r)
           e == [deal |-> IF b.op = "create_deal" THEN r ELSE b.deal, stage |-> Given(b.stage, "new"), by |-> r]
<1>1. /\ pc[r] = "event" /\ events' \in {events, events \cup {e}}
      /\ pc' = [pc EXCEPT ![r] = "done"] /\ answer' = [answer EXCEPT ![r] = "ok"]
      /\ UNCHANGED <<customers, deals, warehouses, stock, sent, seen, shown, had>>
    BY DEF AppendDealEvent, Finish
<1>2. /\ sent[r] \in Sendings /\ Tells(b) /\ shown[r] = {}
      /\ b.op = "create_deal" => b \in DealBody
      /\ b.op = "update_deal" => b \in DealEdit /\ MyDeal(r) /\ b.stage # "blank"
    BY <1>1, BodyTyped DEF Inv, Knows, OpAt, body
<1>3. <<e.deal, e.stage>> \in had
    BY <1>1, <1>2 DEF Inv, Knows, Tells, Given
<1>4. e \in Event
    BY <1>2, NewIsAStage DEF Event, Tells, Given, DealBody, DealEdit, DealIds
<1>5. TypeOK'
    BY <1>1, <1>4 DEF Inv, TypeOK, Labels
<1>6. HistoryIsTrue'
    BY <1>1, <1>3 DEF Inv, HistoryIsTrue
<1>7. pc'[r] = "done" /\ shown'[r] = {} /\ sent'[r] \in Sendings /\ answer[r] # "ok"
    BY <1>1, <1>2 DEF Inv, TypeOK, Knows, OpAt
<1>8. Knows(r)'
    BY <1>7 DEF Knows, OpAt
<1>9. StepOf(r) /\ UniqueCodes'
    BY <1>1, <1>7 DEF Inv, TypeOK, StepOf, Past, UniqueCodes
<1> QED
    BY <1>1, <1>5, <1>6, <1>8, <1>9, Assemble

\* A write to the warehouses.
LEMMA WritingWarehouses ==
    ASSUME Inv, NEW r \in Requests, pc[r] \in {"insert", "update", "delete"}, Goto(r, "audit"),
           body(r).op \in {"create_warehouse", "update_warehouse", "delete_warehouse"},
           UNCHANGED <<customers, deals, events, stock, sent, seen, shown, had>>,
           DOMAIN warehouses' \subseteq WarehouseIds, warehouses' \in [DOMAIN warehouses' -> Warehouse],
           \A w \in DOMAIN warehouses' :
              \/ /\ w \in DOMAIN warehouses
                 /\ warehouses'[w].unit = warehouses[w].unit /\ warehouses'[w].code = warehouses[w].code
              \/ w = r /\ body(r).op = "create_warehouse",
           UniqueCodes'
    PROVE  Inv'
<1>1. /\ pc' = [pc EXCEPT ![r] = "audit"] /\ pc'[r] = "audit"
      /\ UNCHANGED answer /\ answer[r] # "ok"
    BY DEF Goto, Inv, TypeOK, Knows, OpAt
<1>2. StepOf(r)
    BY <1>1 DEF Inv, TypeOK, StepOf, Past
<1>3. sent[r] \in Sendings /\ shown[r] = {}
    BY DEF Inv, Knows, OpAt
<1>4. body(r)' = body(r) /\ sent'[r] \in Sendings /\ shown'[r] = {}
    BY <1>3 DEF body
<1>5. Knows(r)'
    BY <1>1, <1>4 DEF Knows, OpAt
<1>6. TypeOK'
    BY <1>1 DEF Inv, TypeOK, Labels
<1>7. HistoryIsTrue'
    BY DEF Inv, HistoryIsTrue
<1> QED
    BY <1>1, <1>2, <1>4, <1>5, <1>6, <1>7, Assemble

LEMMA CreateWarehouseInv ==
    ASSUME Inv, NEW r \in Requests, CreateWarehouse(r)
    PROVE  Inv'
<1> DEFINE row == [code |-> body(r).code, unit |-> UnitFor(r), status |-> "active"]
<1>1. /\ pc[r] = "insert" /\ body(r).op = "create_warehouse"
      /\ UNCHANGED <<customers, deals, events, stock, sent, seen, shown, had>>
    BY DEF CreateWarehouse
<1>2. CASE (\E how \in Answers : Finish(r, how)) /\ UNCHANGED warehouses
    BY <1>1, <1>2, Finishing DEF tables
<1>3. CASE /\ UnitPasses(r) /\ (\A w \in DOMAIN warehouses : warehouses[w].code # body(r).code)
           /\ warehouses' = With(warehouses, r, row)
           /\ Goto(r, "audit")
  <2>1. sent[r] \in Sendings /\ body(r) \in WarehouseBody /\ sent[r].scopes \subseteq Units \cup {Any}
      BY <1>1, BodyTyped DEF Inv, Knows, OpAt, body
  <2>2. UnitFor(r) \in Units
      BY <1>3, <2>1, UnitTyped DEF WarehouseBody, UnitPasses
  <2>3. row \in Warehouse
      BY <2>1, <2>2 DEF Warehouse, WarehouseBody
  <2>4. r \notin DOMAIN warehouses
      BY <1>1 DEF Inv, Made, Past
  <2>5. /\ warehouses' \in [DOMAIN warehouses' -> Warehouse] /\ DOMAIN warehouses' = DOMAIN warehouses \cup {r}
        /\ warehouses'[r] = row /\ \A w \in DOMAIN warehouses : warehouses'[w] = warehouses[w]
      BY <1>3, <2>3, <2>4 DEF Inv, TypeOK, With
  <2>6. UniqueCodes'
      BY <1>3, <2>5 DEF Inv, UniqueCodes
  <2>7. DOMAIN warehouses' \subseteq WarehouseIds
      BY <2>5 DEF Inv, TypeOK, WarehouseIds
  <2> QED
      BY <1>1, <1>3, <2>5, <2>6, <2>7, WritingWarehouses
<1> QED
    BY <1>2, <1>3 DEF CreateWarehouse, RefuseUnit, Answers

LEMMA UpdateWarehouseInv ==
    ASSUME Inv, NEW r \in Requests, UpdateWarehouse(r)
    PROVE  Inv'
<1> DEFINE w == body(r).warehouse
<1>1. /\ pc[r] = "update" /\ body(r).op = "update_warehouse"
      /\ UNCHANGED <<customers, deals, events, stock, sent, seen, shown, had>>
    BY DEF UpdateWarehouse
<1>2. CASE Finish(r, "invalid") /\ UNCHANGED warehouses
    BY <1>1, <1>2, Finishing DEF tables, Answers
<1>3. CASE /\ w \in DOMAIN warehouses
           /\ warehouses' = [warehouses EXCEPT ![w].status = Given(body(r).status, @)]
           /\ Goto(r, "audit")
  <2>1. body(r).status \in {None, "blank", "active", "blocked"}
      BY <1>1, BodyTyped DEF Inv, Knows, OpAt, body, WarehouseEdit
  <2>2. body(r).status # "blank"
      BY <1>1 DEF Inv, Knows
  <2>3. warehouses[w] \in Warehouse
      BY <1>3 DEF Inv, TypeOK
  <2>4. /\ warehouses' \in [DOMAIN warehouses' -> Warehouse] /\ DOMAIN warehouses' = DOMAIN warehouses
        /\ \A v \in DOMAIN warehouses :
              warehouses'[v].unit = warehouses[v].unit /\ warehouses'[v].code = warehouses[v].code
      BY <1>3, <2>1, <2>2, <2>3 DEF Inv, TypeOK, Warehouse, Given
  <2>5. UniqueCodes' /\ DOMAIN warehouses' \subseteq WarehouseIds
      BY <2>4 DEF Inv, TypeOK, UniqueCodes
  <2> QED
      BY <1>1, <1>3, <2>4, <2>5, WritingWarehouses
<1> QED
    BY <1>2, <1>3 DEF UpdateWarehouse

LEMMA DeleteWarehouseInv ==
    ASSUME Inv, NEW r \in Requests, DeleteWarehouse(r)
    PROVE  Inv'
<1> DEFINE w == body(r).warehouse
<1>1. /\ pc[r] = "delete" /\ UNCHANGED <<customers, deals, events, stock, sent, seen, shown, had>>
    BY DEF DeleteWarehouse
<1>2. body(r).op = "delete_warehouse"
    BY <1>1 DEF Inv, Knows, OpAt
<1>3. CASE Finish(r, "invalid") /\ UNCHANGED warehouses
    BY <1>1, <1>3, Finishing DEF tables, Answers
<1>4. CASE /\ warehouses' = [v \in DOMAIN warehouses \ {w} |-> warehouses[v]]
           /\ Goto(r, "audit")
  <2>1. /\ DOMAIN warehouses' = DOMAIN warehouses \ {w}
        /\ \A v \in DOMAIN warehouses' : warehouses'[v] = warehouses[v]
      BY <1>4
  <2>2. warehouses' \in [DOMAIN warehouses' -> Warehouse] /\ DOMAIN warehouses' \subseteq WarehouseIds
      BY <1>4, <2>1 DEF Inv, TypeOK
  <2>3. UniqueCodes'
      BY <2>1 DEF Inv, UniqueCodes
  <2> QED
      BY <1>1, <1>2, <1>4, <2>1, <2>2, <2>3, WritingWarehouses
<1> QED
    BY <1>3, <1>4 DEF DeleteWarehouse
\* A write of the wms service: what it may do to the codes is told by its answer.
LEMMA ServiceWriting ==
    ASSUME Inv, NEW r \in Requests, pc[r] = "service", Finish(r, "ok"),
           UNCHANGED <<customers, deals, events, stock, sent, seen, shown, had>>,
           DOMAIN warehouses' \subseteq WarehouseIds, warehouses' \in [DOMAIN warehouses' -> Warehouse],
           \A w \in DOMAIN warehouses' :
              \/ /\ w \in DOMAIN warehouses /\ warehouses'[w].unit = warehouses[w].unit
                 /\ \/ warehouses'[w].code = warehouses[w].code
                    \/ /\ body(r).op = "wms_update" /\ body(r).warehouse = w
                       /\ warehouses'[w].code = body(r).code
              \/ w = r /\ body(r).op = "wms_create",
           UniqueCodes'
    PROVE  Inv'
<1>1. /\ pc' = [pc EXCEPT ![r] = "done"] /\ pc'[r] = "done"
      /\ answer' = [answer EXCEPT ![r] = "ok"] /\ answer'[r] = "ok" /\ answer[r] # "ok"
    BY DEF Finish, Inv, TypeOK, Knows, OpAt
<1>2. body(r)' = body(r) /\ sent[r] \in Sendings /\ shown[r] = {} /\ shown'[r] = {}
    BY DEF body, Inv, Knows, OpAt
<1>3. ASSUME NEW w \in DOMAIN warehouses', body(r).op = "wms_update", body(r).warehouse = w,
             warehouses'[w].code = body(r).code
      PROVE  RenamedTo(w, warehouses[w].code)'
    BY <1>1, <1>2, <1>3 DEF RenamedTo
<1>4. \A w \in DOMAIN warehouses' :
          \/ /\ w \in DOMAIN warehouses /\ warehouses'[w].unit = warehouses[w].unit
             /\ warehouses'[w].code = warehouses[w].code \/ RenamedTo(w, warehouses[w].code)'
          \/ w = r /\ ~Past(r)
    BY <1>3 DEF Past
<1>5. StepOf(r)
  <2>1. Past(r) => pc'[r] \in {"audit", "event", "done"} /\ sent'[r] = sent[r]
      BY <1>1
  <2>2. \A q \in Requests \ {r} :
           /\ pc'[q] = pc[q] /\ sent'[q] = sent[q] /\ seen'[q] = seen[q] /\ shown'[q] = shown[q]
           /\ answer'[q] = answer[q]
      BY <1>1 DEF Inv, TypeOK
  <2>3. \A q \in Requests : answer[q] = "ok" => answer'[q] = "ok" /\ sent'[q] = sent[q]
      BY <1>1, <2>2
  <2> QED
      BY <1>4, <2>1, <2>2, <2>3 DEF StepOf
<1>6. Knows(r)'
    BY <1>1, <1>2 DEF Knows, OpAt
<1>7. TypeOK'
    BY <1>1 DEF Inv, TypeOK, Labels
<1>8. HistoryIsTrue'
    BY DEF Inv, HistoryIsTrue
<1>9. r \in DOMAIN warehouses' \ DOMAIN warehouses => body(r)'.op \in {"create_warehouse", "wms_create"}
    BY <1>2
<1> QED
    BY <1>1, <1>5, <1>6, <1>7, <1>8, <1>9, Assemble

LEMMA ServiceInv ==
    ASSUME Inv, NEW r \in Requests, ServiceCreate(r) \/ ServiceUpdate(r) \/ ServiceDelete(r)
    PROVE  Inv'
<1>1. pc[r] = "service" /\ UNCHANGED <<customers, deals, events, stock, sent, seen, shown, had>>
    BY DEF ServiceCreate, ServiceUpdate, ServiceDelete
<1>2. CASE (\E how \in Answers : Finish(r, how)) /\ UNCHANGED warehouses
    BY <1>1, <1>2, Finishing DEF tables
<1>b. /\ body(r).op = "wms_create" => body(r) \in WmsBody
      /\ body(r).op = "wms_update" => body(r) \in WmsEdit
    BY <1>1, BodyTyped DEF Inv, Knows, OpAt, body
<1>3. ASSUME NEW row, row = [code |-> body(r).code, unit |-> WmsUnit, status |-> Given(body(r).status, "active")],
             body(r).op = "wms_create", body(r).code # None, ~Taken(body(r).code, DOMAIN warehouses),
             warehouses' = With(warehouses, r, row), Finish(r, "ok")
      PROVE  Inv'
  <2>1. row \in Warehouse
      BY <1>b, <1>3, SomeUnitsExist DEF WmsBody, Warehouse, Given
  <2>2. r \notin DOMAIN warehouses
      BY <1>1 DEF Inv, Made, Past
  <2>3. /\ warehouses' \in [DOMAIN warehouses' -> Warehouse] /\ DOMAIN warehouses' = DOMAIN warehouses \cup {r}
        /\ warehouses'[r] = row /\ \A w \in DOMAIN warehouses : warehouses'[w] = warehouses[w]
      BY <1>3, <2>1, <2>2 DEF Inv, TypeOK, With
  <2>4. row.code = body(r).code
      BY <1>3
  <2>5. UniqueCodes'
      BY <1>3, <2>3, <2>4 DEF Inv, UniqueCodes, Taken
  <2>6. DOMAIN warehouses' \subseteq WarehouseIds
      BY <2>3 DEF Inv, TypeOK, WarehouseIds
  <2> QED
      BY <1>1, <1>3, <2>3, <2>5, <2>6, ServiceWriting
<1>4. ASSUME NEW w, w = body(r).warehouse, body(r).op = "wms_update", w \in DOMAIN warehouses,
             body(r).code # None, ~Taken(body(r).code, DOMAIN warehouses \ {w}), Finish(r, "ok"),
             warehouses' = [warehouses EXCEPT ![w].code = body(r).code, ![w].status = Given(body(r).status, "blank")]
      PROVE  Inv'
  <2>1. body(r).code \in Stores /\ Given(body(r).status, "blank") \in {"blank", "active", "blocked"}
      BY <1>b, <1>4 DEF WmsEdit, Given
  <2>2. warehouses[w] \in Warehouse
      BY <1>4 DEF Inv, TypeOK
  <2>3. /\ warehouses' \in [DOMAIN warehouses' -> Warehouse] /\ DOMAIN warehouses' = DOMAIN warehouses
        /\ warehouses'[w].unit = warehouses[w].unit /\ warehouses'[w].code = body(r).code
        /\ \A v \in DOMAIN warehouses \ {w} : warehouses'[v] = warehouses[v]
      BY <1>4, <2>1, <2>2 DEF Inv, TypeOK, Warehouse
  <2>4. UniqueCodes'
      BY <1>4, <2>3 DEF Inv, UniqueCodes, Taken
  <2>5. DOMAIN warehouses' \subseteq WarehouseIds
      BY <2>3 DEF Inv, TypeOK
  <2> QED
      BY <1>1, <1>4, <2>3, <2>4, <2>5, ServiceWriting
<1>5. CASE /\ warehouses' = [v \in DOMAIN warehouses \ {body(r).warehouse} |-> warehouses[v]]
           /\ Finish(r, "ok")
  <2>1. /\ DOMAIN warehouses' \subseteq DOMAIN warehouses
        /\ \A v \in DOMAIN warehouses' : warehouses'[v] = warehouses[v]
      BY <1>5
  <2>2. warehouses' \in [DOMAIN warehouses' -> Warehouse] /\ DOMAIN warehouses' \subseteq WarehouseIds
      BY <1>5, <2>1 DEF Inv, TypeOK
  <2>3. UniqueCodes'
      BY <2>1 DEF Inv, UniqueCodes
  <2> QED
      BY <1>1, <1>5, <2>1, <2>2, <2>3, ServiceWriting
<1>6. CASE ServiceCreate(r)
    BY <1>2, <1>3, <1>6 DEF ServiceCreate, Answers
<1>7. CASE ServiceUpdate(r)
    BY <1>2, <1>4, <1>7 DEF ServiceUpdate, IsWarehouse, Answers
<1>8. CASE ServiceDelete(r)
    BY <1>5, <1>8 DEF ServiceDelete
<1> QED
    BY <1>6, <1>7, <1>8
-------------------------------------------------------------------------------
LEMMA InitInv == Init => Inv
<1> SUFFICES ASSUME Init PROVE Inv
    OBVIOUS
<1>1. TypeOK
    BY SeedsAreRows DEF Init, TypeOK, CustomerIds, DealIds, WarehouseIds, Labels, Deal
<1>2. Made
    BY IdsAreFresh DEF Init, Made, Past
<1>3. UniqueCodes /\ HistoryIsTrue
    BY SeedsAreRows DEF Init, UniqueCodes, HistoryIsTrue
<1>4. \A r \in Requests : Knows(r)
    BY DEF Init, Knows, OpAt
<1> QED
    BY <1>1, <1>2, <1>3, <1>4 DEF Inv

LEMMA NextInv == Inv /\ [Next]_vars => Inv'
<1> SUFFICES ASSUME Inv, [Next]_vars PROVE Inv'
    OBVIOUS
<1>1. ASSUME NEW r \in Requests,
             Receive(r) \/ CreateCustomer(r) \/ UpdateCustomer(r) \/ CheckCustomer(r)
      PROVE  Inv'
    BY <1>1, ReceiveInv, CreateCustomerInv, UpdateCustomerInv, CheckCustomerInv
<1>2. ASSUME NEW r \in Requests,
             \/ CreateDeal(r) \/ FindDeal(r) \/ FindForHistory(r) \/ UpdateDeal(r)
             \/ AppendDealEvent(r)
      PROVE  Inv'
    BY <1>2, CreateDealInv, FindDealInv, FindForHistoryInv, UpdateDealInv, AppendDealEventInv
<1>3. ASSUME NEW r \in Requests,
             \/ CreateWarehouse(r) \/ FindWarehouse(r) \/ FindDoomed(r) \/ UpdateWarehouse(r)
             \/ DeleteWarehouse(r)
      PROVE  Inv'
    BY <1>3, CreateWarehouseInv, FindWarehouseInv, UpdateWarehouseInv, DeleteWarehouseInv
<1>4. ASSUME NEW r \in Requests,
             CheckStore(r) \/ UpsertStock(r) \/ InventoryUpsert(r) \/ List(r) \/ RecordAudit(r) \/ Fail(r)
      PROVE  Inv'
    BY <1>4, CheckStoreInv, StockInv, ListInv, RecordAuditInv, FailInv
<1>6. ASSUME NEW r \in Requests, ServiceCreate(r) \/ ServiceUpdate(r) \/ ServiceDelete(r)
      PROVE  Inv'
    BY <1>6, ServiceInv
<1>5. CASE UNCHANGED vars
  <2>1. UNCHANGED <<customers, deals, warehouses, events, stock, pc, sent, seen, shown, answer, had>>
      BY <1>5 DEF vars, tables
  <2>2. TypeOK' /\ Made' /\ UniqueCodes' /\ HistoryIsTrue'
      BY <2>1 DEF Inv, TypeOK, Made, Past, body, UniqueCodes, HistoryIsTrue
  <2>3. ASSUME NEW r \in Requests PROVE Knows(r)'
    <3>1. StepOf(r)
        BY <2>1 DEF StepOf, Past, Inv, Made
    <3>2. \A q \in Requests \ {r} : Knows(q)'
        BY <3>1, Frame DEF Inv
    <3>3. Knows(r)
        BY DEF Inv
    <3> QED
        BY <2>1, <3>3 DEF Knows, OpAt, MyDeal, MyWarehouse, Bears, RenamedTo, Past, InScope, AllowsAll, ScopesOf,
                          UnitPasses, UnitFor, body
  <2> QED
      BY <2>2, <2>3 DEF Inv
<1> QED
    BY <1>1, <1>2, <1>3, <1>4, <1>5, <1>6 DEF Next

LEMMA AlwaysInv == Spec => []Inv
BY InitInv, NextInv, PTL DEF Spec

\* Rows, handlers and answers have their types; above all, no deal and no warehouse is ever stored
\* without a unit, and no deal with a blank stage.
THEOREM ScopeTypeCorrect == Spec => []TypeOK
<1>1. Inv => TypeOK
    BY DEF Inv
<1> QED
    BY <1>1, AlwaysInv, PTL

\* No list, history or stock ever shows anyone a row of a unit outside its scopes, even though
\* the row that was checked may have changed before the row that is shown was read.
THEOREM NobodySeesOthersRows == Spec => []ShownInScope
<1>1. Inv => ShownInScope
    BY DEF Inv, Knows, ShownInScope
<1> QED
    BY <1>1, AlwaysInv, PTL

\* No event tells of a stage that its deal has not had, in any order of updates and events.
THEOREM HistoryTellsTheTruth == Spec => []HistoryIsTrue
<1>1. Inv => HistoryIsTrue
    BY DEF Inv
<1> QED
    BY <1>1, AlwaysInv, PTL

\* Whatever the gateway writes to deals and warehouses is written by someone whose scopes hold the
\* unit, and neither it nor the wms service moves anything to another unit, though the statements
\* name the row by its id alone.
THEOREM NobodyChangesOthersRows == Spec => ChangesStayInScope
<1> DEFINE Step ==
       /\ \A d \in Changes(deals', deals) : \E r \in Requests : Moves(r) /\ InScope(r, deals'[d].unit)
       /\ \A d \in DOMAIN deals : deals'[d].unit = deals[d].unit
       /\ \A w \in DOMAIN warehouses' \cap DOMAIN warehouses : warehouses'[w].unit = warehouses[w].unit
       /\ \A w \in Changes(warehouses', warehouses) : \E r \in Requests :
             /\ Moves(r)
             /\ \/ ByWmsService(r)
                \/ InScope(r, IF w \in DOMAIN warehouses THEN warehouses[w].unit ELSE warehouses'[w].unit)
<1>1. ASSUME UNCHANGED <<deals, warehouses>> PROVE Step
    BY <1>1 DEF Changes
<1>2. ASSUME Inv, NEW r \in Requests, CreateDeal(r) PROVE Step
  <2>1. CASE UNCHANGED <<deals, warehouses>>
      BY <1>1, <2>1
  <2>2. CASE deals' = With(deals, r, NewDeal(r)) /\ Goto(r, "audit")
    <3>1. pc[r] = "insert" /\ body(r).op = "create_deal" /\ UNCHANGED warehouses /\ Moves(r)
        BY <1>2, <2>2 DEF CreateDeal, Goto, Moves, Inv, TypeOK
    <3>2. r \notin DOMAIN deals /\ InScope(r, UnitFor(r))
        BY <1>2, <3>1 DEF Inv, Knows, Made, Past, UnitPasses
    <3>3. /\ deals'[r].unit = UnitFor(r) /\ DOMAIN deals' = DOMAIN deals \cup {r}
          /\ \A d \in DOMAIN deals : deals'[d] = deals[d]
        BY <2>2, <3>2 DEF With, NewDeal
    <3>4. Changes(deals', deals) \subseteq {r} /\ Changes(warehouses', warehouses) = {}
        BY <3>1, <3>3 DEF Changes
    <3> QED
        BY <3>1, <3>2, <3>3, <3>4
  <2> QED
      BY <1>2, <2>1, <2>2 DEF CreateDeal
<1>3. ASSUME Inv, NEW r \in Requests, UpdateDeal(r) PROVE Step
  <2> DEFINE d == body(r).deal
             row == [deals[d] EXCEPT !.customer = Given(body(r).customer, @), !.stage = Given(body(r).stage, @)]
  <2>1. /\ pc[r] = "update" /\ body(r).op = "update_deal" /\ UNCHANGED warehouses /\ Moves(r)
        /\ deals' = [deals EXCEPT ![d] = row]
      BY <1>3 DEF UpdateDeal, Goto, Moves, Inv, TypeOK
  <2>2. d \in DOMAIN deals /\ InScope(r, deals[d].unit) /\ deals[d] \in Deal
      BY <1>3, <2>1 DEF Inv, Knows, MyDeal, TypeOK
  <2>3. row.unit = deals[d].unit
      BY <2>2 DEF Deal
  <2>4. /\ deals'[d].unit = deals[d].unit /\ DOMAIN deals' = DOMAIN deals
        /\ \A e \in DOMAIN deals \ {d} : deals'[e] = deals[e]
      BY <2>1, <2>2, <2>3
  <2>5. Changes(deals', deals) \subseteq {d} /\ Changes(warehouses', warehouses) = {}
      BY <2>1, <2>4 DEF Changes
  <2> QED
      BY <2>1, <2>2, <2>4, <2>5
<1>4. ASSUME Inv, NEW r \in Requests, CreateWarehouse(r) PROVE Step
  <2>1. CASE UNCHANGED <<deals, warehouses>>
      BY <1>1, <2>1
  <2>2. CASE /\ UnitPasses(r) /\ Goto(r, "audit")
             /\ warehouses' = With(warehouses, r, [code |-> body(r).code, unit |-> UnitFor(r), status |-> "active"])
    <3>1. pc[r] = "insert" /\ UNCHANGED deals /\ Moves(r)
        BY <1>4, <2>2 DEF CreateWarehouse, Goto, Moves, Inv, TypeOK
    <3>2. r \notin DOMAIN warehouses /\ InScope(r, UnitFor(r))
        BY <1>4, <2>2, <3>1 DEF Inv, Made, Past, UnitPasses
    <3>3. /\ warehouses'[r].unit = UnitFor(r) /\ DOMAIN warehouses' = DOMAIN warehouses \cup {r}
          /\ \A w \in DOMAIN warehouses : warehouses'[w] = warehouses[w]
        BY <2>2, <3>2 DEF With
    <3>4. Changes(warehouses', warehouses) \subseteq {r} /\ Changes(deals', deals) = {}
        BY <3>1, <3>3 DEF Changes
    <3> QED
        BY <3>1, <3>2, <3>3, <3>4
  <2> QED
      BY <1>4, <2>1, <2>2 DEF CreateWarehouse
<1>5. ASSUME Inv, NEW r \in Requests, UpdateWarehouse(r) PROVE Step
  <2> DEFINE w == body(r).warehouse
  <2>1. CASE UNCHANGED <<deals, warehouses>>
      BY <1>1, <2>1
  <2>2. CASE /\ w \in DOMAIN warehouses /\ Goto(r, "audit")
             /\ warehouses' = [warehouses EXCEPT ![w].status = Given(body(r).status, @)]
    <3>1. pc[r] = "update" /\ body(r).op = "update_warehouse" /\ UNCHANGED deals /\ Moves(r)
        BY <1>5, <2>2 DEF UpdateWarehouse, Goto, Moves, Inv, TypeOK
    <3>2. InScope(r, warehouses[w].unit) /\ warehouses[w] \in Warehouse
        BY <1>5, <2>2, <3>1 DEF Inv, Knows, MyWarehouse, TypeOK
    <3>3. /\ warehouses'[w].unit = warehouses[w].unit /\ DOMAIN warehouses' = DOMAIN warehouses
          /\ \A v \in DOMAIN warehouses \ {w} : warehouses'[v] = warehouses[v]
        BY <2>2, <3>2 DEF Warehouse
    <3>4. Changes(warehouses', warehouses) \subseteq {w} /\ Changes(deals', deals) = {}
        BY <3>1, <3>3 DEF Changes
    <3> QED
        BY <2>2, <3>1, <3>2, <3>3, <3>4
  <2> QED
      BY <1>5, <2>1, <2>2 DEF UpdateWarehouse
<1>6. ASSUME Inv, NEW r \in Requests, DeleteWarehouse(r) PROVE Step
  <2> DEFINE w == body(r).warehouse
  <2>1. CASE UNCHANGED <<deals, warehouses>>
      BY <1>1, <2>1
  <2>2. CASE /\ w \in DOMAIN warehouses /\ Goto(r, "audit")
             /\ warehouses' = [v \in DOMAIN warehouses \ {w} |-> warehouses[v]]
    <3>1. pc[r] = "delete" /\ body(r).op = "delete_warehouse" /\ UNCHANGED deals /\ Moves(r)
        BY <1>6, <2>2 DEF DeleteWarehouse, Goto, Moves, Inv, TypeOK, Knows, OpAt
    <3>2. InScope(r, warehouses[w].unit)
        BY <1>6, <2>2, <3>1 DEF Inv, Knows, MyWarehouse
    <3>3. /\ DOMAIN warehouses' = DOMAIN warehouses \ {w}
          /\ \A v \in DOMAIN warehouses' : warehouses'[v] = warehouses[v]
        BY <2>2
    <3>4. Changes(warehouses', warehouses) \subseteq {w} /\ Changes(deals', deals) = {}
        BY <3>1, <3>3 DEF Changes
    <3> QED
        BY <2>2, <3>1, <3>2, <3>3, <3>4
  <2> QED
      BY <1>6, <2>1, <2>2 DEF DeleteWarehouse
<1>8. ASSUME Inv, NEW r \in Requests, ServiceCreate(r) \/ ServiceUpdate(r) \/ ServiceDelete(r)
      PROVE  Step
  <2>1. pc[r] = "service" /\ ByWmsService(r) /\ UNCHANGED deals /\ Moves(r)
      BY <1>8 DEF ServiceCreate, ServiceUpdate, ServiceDelete, ByWmsService, Finish, Moves, Inv, TypeOK
  <2>2. \A w \in DOMAIN warehouses' \cap DOMAIN warehouses : warehouses'[w].unit = warehouses[w].unit
    <3>1. CASE ServiceCreate(r)
      <4>1. r \notin DOMAIN warehouses
          BY <1>8, <2>1 DEF Inv, Made, Past
      <4>2. ASSUME NEW row, warehouses' = With(warehouses, r, row)
            PROVE  \A w \in DOMAIN warehouses : warehouses'[w].unit = warehouses[w].unit
          BY <4>1, <4>2 DEF With
      <4> QED
          BY <3>1, <4>2 DEF ServiceCreate
    <3>2. CASE ServiceUpdate(r)
      <4>1. CASE UNCHANGED warehouses
          BY <4>1
      <4>2. ASSUME NEW w \in DOMAIN warehouses, NEW code, NEW status,
                   warehouses' = [warehouses EXCEPT ![w].code = code, ![w].status = status]
            PROVE  \A v \in DOMAIN warehouses : warehouses'[v].unit = warehouses[v].unit
        <5>1. warehouses[w] \in Warehouse
            BY <1>8 DEF Inv, TypeOK
        <5> QED
            BY <4>2, <5>1 DEF Warehouse
      <4>3. CASE /\ body(r).warehouse \in DOMAIN warehouses
                 /\ warehouses' = [warehouses EXCEPT ![body(r).warehouse].code = body(r).code,
                                                     ![body(r).warehouse].status = Given(body(r).status, "blank")]
          BY <4>2, <4>3
      <4> QED
          BY <3>2, <4>1, <4>3 DEF ServiceUpdate, IsWarehouse
    <3>3. CASE ServiceDelete(r)
        BY <3>3 DEF ServiceDelete
    <3> QED
        BY <1>8, <3>1, <3>2, <3>3
  <2>3. Changes(deals', deals) = {}
      BY <2>1 DEF Changes
  <2> QED
      BY <2>1, <2>2, <2>3
<1>7. Inv /\ [Next]_vars => Step
  <2> SUFFICES ASSUME Inv, [Next]_vars PROVE Step
      OBVIOUS
  <2>1. CASE UNCHANGED vars
      BY <1>1, <2>1 DEF vars, tables
  <2>2. ASSUME NEW r \in Requests,
               \/ Receive(r) \/ CreateCustomer(r) \/ UpdateCustomer(r) \/ CheckCustomer(r) \/ FindDeal(r)
               \/ FindForHistory(r) \/ AppendDealEvent(r) \/ FindWarehouse(r) \/ FindDoomed(r)
               \/ CheckStore(r) \/ UpsertStock(r) \/ InventoryUpsert(r) \/ List(r) \/ RecordAudit(r)
               \/ Fail(r)
        PROVE  Step
    <3>1. UNCHANGED <<deals, warehouses>>
        BY <2>2 DEF Receive, CreateCustomer, UpdateCustomer, CheckCustomer, FindDeal, FindForHistory,
                    AppendDealEvent, FindWarehouse, FindDoomed, CheckStore, UpsertStock,
                    InventoryUpsert, List, RecordAudit, Fail, tables
    <3> QED
        BY <1>1, <3>1
  <2> QED
      BY <1>2, <1>3, <1>4, <1>5, <1>6, <1>8, <2>1, <2>2 DEF Next
<1> QED
    BY <1>7, AlwaysInv, PTL DEF Spec, ChangesStayInScope

\* When a sender with limited scopes writes stock through the gateway, the warehouse it looked up
\* is gone, or it stands in the sender's scopes and alone has the code, or the wms service has given
\* it another code since: nothing that the gateway does takes the code from it.
THEOREM StockIsWrittenWhereChecked == Spec => StockGoesWhereChecked
<1> DEFINE Checked(r) ==
       \/ seen[r] \in WarehouseIds \ DOMAIN warehouses
       \/ /\ seen[r] \in DOMAIN warehouses
          /\ InScope(r, warehouses[seen[r]].unit)
          /\ \/ \A w \in DOMAIN warehouses : warehouses[w].code = Key(r)[2] <=> w = seen[r]
             \/ /\ warehouses[seen[r]].code # Key(r)[2]
                /\ RenamedTo(seen[r], warehouses[seen[r]].code)
           Known ==
       \A r \in Requests :
          pc[r] = "upsert" /\ body(r).op = "upsert_stock" /\ ~AllowsAll(r) => Checked(r)
<1>1. Inv => Known
  <2> SUFFICES ASSUME Inv, NEW r \in Requests, pc[r] = "upsert", body(r).op = "upsert_stock", ~AllowsAll(r)
               PROVE  Checked(r)
      OBVIOUS
  <2>1. /\ seen[r] \in WarehouseIds /\ MyWarehouse(r, seen[r])
        /\ seen[r] \in DOMAIN warehouses => Bears(seen[r], body(r).code)
      BY DEF Inv, Knows
  <2>2. Key(r)[2] = body(r).code
      BY DEF Key
  <2>3. CASE seen[r] \notin DOMAIN warehouses
      BY <2>1, <2>3
  <2>4. CASE seen[r] \in DOMAIN warehouses /\ warehouses[seen[r]].code = Key(r)[2]
      BY <2>1, <2>4 DEF MyWarehouse, Inv, UniqueCodes
  <2>5. CASE seen[r] \in DOMAIN warehouses /\ warehouses[seen[r]].code # Key(r)[2]
      BY <2>1, <2>2, <2>5 DEF MyWarehouse, Bears
  <2> QED
      BY <2>3, <2>4, <2>5
<1>2. Known /\ [Next]_vars =>
         \A r \in Requests :
            pc[r] = "upsert" /\ pc'[r] = "audit" /\ body(r).op = "upsert_stock" /\ ~AllowsAll(r) => Checked(r)
    OBVIOUS
<1> QED
    BY <1>1, <1>2, AlwaysInv, PTL DEF Spec, StockGoesWhereChecked
===============================================================================
