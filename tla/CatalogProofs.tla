----------------------------- MODULE CatalogProofs -----------------------------
(***************************************************************************)
(* Proofs about Catalog composed with Storage, for any number of clients   *)
(* and requests and any seed that fits: the tree of nodes, the items on    *)
(* it, the rows between items, warehouses and templates, and the links of  *)
(* an item stay whole.                                                     *)
(***************************************************************************)
EXTENDS Catalog, StorageProofs, FiniteSetTheorems

\* Ids whose maker is through: they are never made anew.
Past(n) == n \in Clients => step[n] = "done"
PastWarehouse(w) == w \in Requests => pc[w] # "idle"

Templates(b) == {b.attributes[a].template : a \in DOMAIN b.attributes}
Placed(c) == {Related("placed", ItemOf(c), w) : w \in sent[c].warehouses}
Valued(c) == {Related("valued", ItemOf(c), t) : t \in Templates(sent[c])}

OpAt(c) ==
    /\ step[c] # "idle" => sent[c] \in Bodies
    /\ step[c] = "insert" => sent[c].op = "createNode"
    /\ step[c] = "change" => sent[c].op = "updateNode"
    /\ step[c] \in {"category", "attributes", "row", "places", "values"} => sent[c].op \in ItemOps
    /\ step[c] \in {"cleanup", "link"} => sent[c].op = "replaceLinks"
    /\ step[c] = "commit" => sent[c].op \in ItemOps \cup {"replaceLinks"}

(* What a handler has read and still holds, unless the node is gone. *)
ParentRead(c) ==
    step[c] = "insert" /\ sent[c].parent # None =>
        LET n == sent[c].parent
        IN  Past(n) /\ (n \in DOMAIN nodes => /\ nodes[n].type = sent[c].type
                                             /\ nodes[n].path = seen[c].path /\ nodes[n].level = seen[c].level)
UnitRead(c) ==
    step[c] \in {"category", "attributes", "row", "places", "values", "commit"} /\ sent[c].op \in ItemOps =>
        LET n == sent[c].unit IN Past(n) /\ (n \in DOMAIN nodes => nodes[n].type = "unit")
CategoryRead(c) ==
    step[c] \in {"attributes", "row", "places", "values", "commit"} /\ sent[c].op \in ItemOps /\ sent[c].category # None =>
        LET n == sent[c].category
        IN  Past(n) /\ (n \in DOMAIN nodes => nodes[n].type = "category" /\ nodes[n].path = seen[c].path)

(* What the locks of its transaction keep. *)
Held(c) ==
    c \in ItemWriters =>
        /\ sent[c].unit \in DOMAIN nodes /\ sent[c].category \in DOMAIN nodes \cup {None}
        /\ ItemOf(c) \in DOMAIN items \cup {c}

(* What its transaction has deleted and inserted. *)
Work(c) ==
    /\ step[c] \notin {"values", "commit", "cleanup", "link"} => dropped[c] = {} /\ added[c] = {}
    /\ \A row \in dropped[c] \cup added[c] :
          IF sent[c].op = "replaceLinks" THEN row.in = "linked"
          ELSE row.in \in {"placed", "valued"} /\ row.owner = ItemOf(c)
    /\ step[c] \in {"values", "commit"} /\ sent[c].op \in ItemOps =>
          /\ OwnRows("placed", ItemOf(c)) \subseteq dropped[c]
          /\ sent[c].warehouses \subseteq DOMAIN warehouses
    /\ step[c] = "values" => added[c] = Placed(c)
    /\ step[c] = "commit" /\ sent[c].op \in ItemOps =>
          /\ OwnRows("valued", ItemOf(c)) \subseteq dropped[c]
          /\ added[c] = Placed(c) \cup Valued(c) /\ Templates(sent[c]) \subseteq DOMAIN templates

Knows(c) == OpAt(c) /\ ParentRead(c) /\ UnitRead(c) /\ CategoryRead(c) /\ Held(c) /\ Work(c)

\* Rows are made by clients that are through, an item by the body it shows.
Made ==
    /\ \A n \in DOMAIN nodes \cup DOMAIN templates \cup DOMAIN items : Past(n)
    /\ \A w \in DOMAIN warehouses : PastWarehouse(w)
    /\ \A i \in DOMAIN items : items[i].by \in Clients =>
          LET c == items[i].by
          IN  /\ Past(c) /\ sent[c].op \in ItemOps
              /\ \A w \in sent[c].warehouses : PastWarehouse(w)
              /\ \A t \in Templates(sent[c]) : Past(t)

OneWriter == \A c, d \in ItemWriters : ItemOf(c) = ItemOf(d) => c = d

TablesTyped ==
    /\ DOMAIN nodes \subseteq NodeIds /\ nodes \in [DOMAIN nodes -> Node]
    /\ DOMAIN templates \subseteq TemplateIds /\ templates \in [DOMAIN templates -> Template]
    /\ DOMAIN items \subseteq ItemIds /\ items \in [DOMAIN items -> Item]
    /\ \A row \in rows : row.in \in Relations

ControlTyped ==
    /\ step \in [Clients -> {"idle", "insert", "change", "category", "attributes", "row", "places",
                             "values", "cleanup", "link", "commit", "done"}]
    /\ sent \in [Clients -> Bodies \cup {NoCall}]
    /\ got \in [Clients -> {"none", "ok", "not_found", "failed"}]
    /\ seen \in [Clients -> [path : Seq(Codes), level : Nat]]
    /\ DOMAIN dropped = Clients /\ DOMAIN added = Clients

Tables == TablesTyped /\ IsTree(nodes) /\ Fit(items, nodes) /\ ItemIsOneBodys /\ RowsReferToRows /\ Made

Inv == Good /\ HandlersFit /\ Tables /\ ControlTyped /\ OneWriter /\ (\A c \in Clients : Knows(c))
-------------------------------------------------------------------------------
(* One client moves: the handlers of the others stand where they stood. *)

OwnStep(c) ==
    /\ step[c] # "done" /\ step'[c] # "idle"
    /\ \A d \in Clients \ {c} :
          /\ step'[d] = step[d] /\ sent'[d] = sent[d] /\ seen'[d] = seen[d]
          /\ dropped'[d] = dropped[d] /\ added'[d] = added[d]
    /\ sent'[c] \in Bodies /\ (step[c] # "idle" => sent'[c] = sent[c])
    /\ ControlTyped'

Stays(c) ==
    /\ step'[c] = step[c] /\ sent'[c] = sent[c] /\ seen'[c] = seen[c]
    /\ dropped'[c] = dropped[c] /\ added'[c] = added[c]

\* What a step may not do to the tables while a handler holds on to what it has read.
Spares(d) ==
    /\ \A n : Past(n) => Past(n)'
    /\ \A n \in DOMAIN nodes' : Past(n) =>
          /\ n \in DOMAIN nodes
          /\ nodes'[n].type = nodes[n].type /\ nodes'[n].path = nodes[n].path /\ nodes'[n].level = nodes[n].level
    /\ \A n \in DOMAIN nodes \ DOMAIN nodes' : ~Holding(d, n)
    /\ \A i \in DOMAIN items \ DOMAIN items' : ~Writing(d, i)
    /\ \A row \in rows' \ rows : row.in \in {"placed", "valued"} => ~Writing(d, row.owner)
    /\ \A t \in DOMAIN templates \ DOMAIN templates' : ~Touches(d, "valued", t)
    /\ \A w \in DOMAIN warehouses \ DOMAIN warehouses' : ~Touches(d, "placed", w)

LEMMA Undisturbed ==
    ASSUME Inv, NEW d \in Clients, Stays(d), Spares(d)
    PROVE  Knows(d)'
<1>. USE DEF Stays
<1>1. Knows(d)
  BY DEF Inv
<1>2. OpAt(d)'
  BY <1>1 DEF Knows, OpAt
<1>3. ParentRead(d)'
  BY <1>1 DEF Knows, ParentRead, Spares
<1>4. UnitRead(d)'
  BY <1>1 DEF Knows, UnitRead, Spares
<1>5. CategoryRead(d)'
  BY <1>1 DEF Knows, CategoryRead, Spares
<1>6. ItemOf(d)' = ItemOf(d) /\ (d \in ItemWriters' <=> d \in ItemWriters)
  BY DEF ItemOf, ItemWriters
<1>7. Held(d)'
  BY <1>1, <1>6 DEF Knows, Held, Spares, Holding, Writing
<1>8. ASSUME step[d] \in {"values", "commit"}, sent[d].op \in ItemOps
      PROVE  \A in \in {"placed", "valued"} : OwnRows(in, ItemOf(d))' \subseteq OwnRows(in, ItemOf(d))
  <2>1. d \in ItemWriters
    BY <1>8 DEF ItemWriters
  <2>. QED  BY <1>6, <2>1 DEF OwnRows, Spares, Writing
<1>9. ASSUME step[d] \in {"values", "commit"}, sent[d].op \in ItemOps
      PROVE  sent[d].warehouses \subseteq DOMAIN warehouses'
  <2>1. Placed(d) \subseteq added[d] /\ sent[d].warehouses \subseteq DOMAIN warehouses
    BY <1>1, <1>9 DEF Knows, Work
  <2>2. ASSUME NEW w \in sent[d].warehouses PROVE Touches(d, "placed", w)
    <3>1. Related("placed", ItemOf(d), w) \in added[d]
      BY <2>1 DEF Placed
    <3>2. Related("placed", ItemOf(d), w).in = "placed" /\ Related("placed", ItemOf(d), w).other = w
      BY DEF Related
    <3>. QED  BY <3>1, <3>2 DEF Touches
  <2>. QED  BY <2>1, <2>2 DEF Spares
<1>10. ASSUME step[d] = "commit", sent[d].op \in ItemOps
       PROVE  Templates(sent[d]) \subseteq DOMAIN templates'
  <2>1. Valued(d) \subseteq added[d] /\ Templates(sent[d]) \subseteq DOMAIN templates
    BY <1>1, <1>10 DEF Knows, Work
  <2>2. ASSUME NEW t \in Templates(sent[d]) PROVE Touches(d, "valued", t)
    <3>1. Related("valued", ItemOf(d), t) \in added[d]
      BY <2>1 DEF Valued
    <3>2. Related("valued", ItemOf(d), t).in = "valued" /\ Related("valued", ItemOf(d), t).other = t
      BY DEF Related
    <3>. QED  BY <3>1, <3>2 DEF Touches
  <2>. QED  BY <2>1, <2>2 DEF Spares
<1>11. Placed(d)' = Placed(d) /\ Valued(d)' = Valued(d)
  BY <1>6 DEF Placed, Valued, Templates
<1>12. Work(d)'
  <2>1. Work(d)
    BY <1>1 DEF Knows
  <2>2. \A row \in dropped[d] \cup added[d] :
           IF sent[d].op = "replaceLinks" THEN row.in = "linked"
           ELSE row.in \in {"placed", "valued"} /\ row.owner = ItemOf(d)
    BY <2>1 DEF Work
  <2>3. step[d] \in {"values", "commit"} /\ sent[d].op \in ItemOps =>
            OwnRows("placed", ItemOf(d))' \subseteq dropped[d]
    BY <2>1, <1>8 DEF Work
  <2>4. step[d] = "commit" /\ sent[d].op \in ItemOps =>
            OwnRows("valued", ItemOf(d))' \subseteq dropped[d]
    BY <2>1, <1>8 DEF Work
  <2>5. Templates(sent[d])' = Templates(sent[d])
    BY DEF Templates
  <2>. QED  BY <2>1, <2>2, <2>3, <2>4, <2>5, <1>6, <1>9, <1>10, <1>11 DEF Work
<1>. QED  BY <1>2, <1>3, <1>4, <1>5, <1>7, <1>12 DEF Knows

LEMMA PastStays ==
    ASSUME NEW c \in Clients, OwnStep(c)
    PROVE  /\ \A n : Past(n) => Past(n)'
           /\ \A d \in Clients : Past(d) => sent'[d] = sent[d]
BY DEF OwnStep, Past

\* What is left to show of a client's step: its own handler, and the tables.
LEMMA Assemble ==
    ASSUME Inv, NEW c \in Clients, OwnStep(c), UNCHANGED storageVars,
           Knows(c)', OneWriter', Tables', \A d \in Clients \ {c} : Spares(d)
    PROVE  Inv'
<1>1. Good' /\ HandlersFit'
  BY StepGood DEF Inv
<1>2. ASSUME NEW d \in Clients \ {c} PROVE Knows(d)'
  <2>1. Stays(d) /\ Spares(d)
    BY DEF OwnStep, Stays
  <2>. QED  BY <2>1, Undisturbed
<1>3. \A d \in Clients : Knows(d)'
  BY <1>2
<1>4. ControlTyped'
  BY DEF OwnStep
<1>. QED  BY <1>1, <1>3, <1>4 DEF Inv

\* A step that leaves the tables alone.
LEMMA TablesStay ==
    ASSUME Inv, NEW c \in Clients, OwnStep(c), UNCHANGED <<storageVars, catalogTables>>
    PROVE  Tables' /\ \A d \in Clients : Spares(d)
<1>. USE DEF catalogTables
<1>1. UNCHANGED warehouses
  BY DEF storageVars, tables
<1>2. UNCHANGED pc
  BY DEF storageVars
<1>3. TablesTyped' /\ IsTree(nodes)' /\ Fit(items, nodes)'
  BY DEF Inv, Tables, TablesTyped, IsTree, Fit
<1>4. RowsReferToRows'
  BY <1>1 DEF Inv, Tables, RowsReferToRows, Relate
<1>5. \A i \in DOMAIN items : items[i].by \in Clients => sent'[items[i].by] = sent[items[i].by]
  BY PastStays DEF Inv, Tables, Made
<1>6. ItemIsOneBodys'
  <2>1. \A in, i : OwnRows(in, i)' = OwnRows(in, i)
    BY DEF OwnRows
  <2>2. ASSUME NEW i \in DOMAIN items, items[i].by \in Clients
        PROVE  /\ {row.other : row \in OwnRows("placed", i)} = sent[items[i].by].warehouses \cap DOMAIN warehouses
               /\ {row.other : row \in OwnRows("valued", i)} = Templates(sent[items[i].by]) \cap DOMAIN templates
    BY <2>2 DEF Inv, Tables, ItemIsOneBodys, Templates
  <2>3. ASSUME NEW i \in DOMAIN items, items[i].by \in Clients
        PROVE  Templates(sent[items[i].by])' = Templates(sent[items[i].by])
    BY <1>5, <2>3 DEF Templates
  <2>. QED  BY <1>1, <1>5, <2>1, <2>2, <2>3 DEF ItemIsOneBodys, Templates
<1>7. Made'
  <2>1. \A n : Past(n) => Past(n)'
    BY PastStays
  <2>2. \A w : PastWarehouse(w)' <=> PastWarehouse(w)
    BY <1>2 DEF PastWarehouse
  <2>3. \A i \in DOMAIN items : items[i].by \in Clients =>
            Templates(sent[items[i].by])' = Templates(sent[items[i].by])
    BY <1>5 DEF Templates
  <2>. QED  BY <1>1, <1>5, <2>1, <2>2, <2>3 DEF Inv, Tables, Made
<1>8. ASSUME NEW d \in Clients PROVE Spares(d)
  BY <1>1, PastStays DEF Spares
<1>. QED  BY <1>3, <1>4, <1>6, <1>7, <1>8 DEF Tables

LEMMA Still ==
    ASSUME Inv, NEW c \in Clients, OwnStep(c), UNCHANGED <<storageVars, catalogTables>>, Knows(c)',
           c \in ItemWriters' => c \in ItemWriters \/ \A d \in ItemWriters : ItemOf(d) # ItemOf(c)'
    PROVE  Inv'
<1>1. \A d \in Clients \ {c} : ItemOf(d)' = ItemOf(d) /\ (d \in ItemWriters' <=> d \in ItemWriters)
  BY DEF OwnStep, ItemOf, ItemWriters
<1>2. c \in ItemWriters => ItemOf(c)' = ItemOf(c)
  BY DEF OwnStep, ItemOf, ItemWriters
<1>3. OneWriter'
  <2>1. ItemWriters' \subseteq Clients
    BY DEF ItemWriters
  <2>. QED  BY <1>1, <1>2, <2>1 DEF Inv, OneWriter
<1>. QED  BY <1>3, TablesStay, Assemble

\* The body, if it came in this step.
Sending(c) ==
    /\ step[c] # "done"
    /\ \/ step[c] # "idle" /\ UNCHANGED sent
       \/ step[c] = "idle" /\ \E b \in Bodies : sent' = [sent EXCEPT ![c] = b]

LEMMA Sent ==
    ASSUME Inv, NEW c \in Clients, Sending(c)
    PROVE  /\ sent' \in [Clients -> Bodies \cup {NoCall}]
           /\ sent'[c] \in Bodies /\ (step[c] # "idle" => sent'[c] = sent[c])
           /\ \A d \in Clients \ {c} : sent'[d] = sent[d]
BY DEF Inv, ControlTyped, Sending, Knows, OpAt

LEMMA Finishing ==
    ASSUME Inv, NEW c \in Clients, Sending(c), UNCHANGED seen,
           NEW how \in {"ok", "not_found", "failed"}, Finish(c, how)
    PROVE  OwnStep(c) /\ Knows(c)' /\ step'[c] = "done" /\ c \notin ItemWriters'
<1>1. ControlTyped'
  BY Sent DEF Finish, Inv, ControlTyped
<1>2. /\ step'[c] = "done" /\ dropped'[c] = {} /\ added'[c] = {}
      /\ \A d \in Clients \ {c} :
            step'[d] = step[d] /\ dropped'[d] = dropped[d] /\ added'[d] = added[d]
  BY DEF Finish, Inv, ControlTyped
<1>3. OwnStep(c)
  BY <1>1, <1>2, Sent DEF OwnStep, Sending
<1>4. Knows(c)'
  BY <1>2, Sent DEF Knows, OpAt, ParentRead, UnitRead, CategoryRead, Held, Work, ItemWriters
<1>. QED  BY <1>2, <1>3, <1>4 DEF ItemWriters

LEMMA Moving ==
    ASSUME Inv, NEW c \in Clients, Sending(c),
           NEW l \in {"insert", "change", "category", "attributes", "row", "places", "values",
                      "cleanup", "link", "commit"}, MoveTo(c, l),
           NEW v \in [path : Seq(Codes), level : Nat], UNCHANGED seen \/ seen' = [seen EXCEPT ![c] = v],
           NEW ds, UNCHANGED dropped \/ dropped' = [dropped EXCEPT ![c] = ds],
           NEW as, UNCHANGED added \/ added' = [added EXCEPT ![c] = as]
    PROVE  OwnStep(c) /\ step'[c] = l
<1>1. ControlTyped'
  <2>1. seen' \in [Clients -> [path : Seq(Codes), level : Nat]]
    BY DEF Inv, ControlTyped
  <2>2. UNCHANGED got /\ step' = [step EXCEPT ![c] = l]
    BY DEF MoveTo
  <2>3. DOMAIN dropped' = Clients /\ DOMAIN added' = Clients
    BY DEF Inv, ControlTyped
  <2>. QED  BY <2>1, <2>2, <2>3, Sent DEF Inv, ControlTyped
<1>2. /\ step'[c] = l
      /\ \A d \in Clients \ {c} :
            /\ step'[d] = step[d] /\ seen'[d] = seen[d]
            /\ dropped'[d] = dropped[d] /\ added'[d] = added[d]
  BY DEF MoveTo, Inv, ControlTyped
<1>. QED  BY <1>1, <1>2, Sent DEF OwnStep, Sending

LEMMA Sends == ASSUME NEW c \in Clients, Handle(c) PROVE Sending(c)
<1>. USE DEF Sending, Take
<1>1. CASE CreateNode(c) \/ InsertNode(c) \/ ReadNode(c) \/ UpdateNode(c) \/ DeleteNode(c)
  BY <1>1 DEF CreateNode, InsertNode, ReadNode, UpdateNode, DeleteNode
<1>2. CASE CreateTemplate(c) \/ UpdateTemplate(c) \/ DeleteTemplate(c)
  BY <1>2 DEF CreateTemplate, UpdateTemplate, DeleteTemplate
<1>3. CASE StartItem(c) \/ ReadCategory(c) \/ ValidateItemAttributes(c) \/ WriteItem(c)
  BY <1>3 DEF StartItem, ReadCategory, ValidateItemAttributes, WriteItem
<1>4. CASE ReplaceItemWarehouses(c) \/ ReplaceAttributeValues(c) \/ Commit(c) \/ DeleteItem(c)
  BY <1>4 DEF ReplaceItemWarehouses, ReplaceAttributeValues, Commit, DeleteItem
<1>5. CASE ReplaceCatalogLinks(c) \/ CleanupLinks(c) \/ InsertLink(c) \/ Abort(c)
  BY <1>5 DEF ReplaceCatalogLinks, CleanupLinks, InsertLink, Abort
<1>. QED  BY <1>1, <1>2, <1>3, <1>4, <1>5 DEF Handle
-------------------------------------------------------------------------------
(* Steps that leave the tables alone. *)

LEMMA Answers ==
    ASSUME Inv, NEW c \in Clients, Sending(c), UNCHANGED <<storageVars, catalogTables, seen>>,
           NEW how \in {"ok", "not_found", "failed"}, Finish(c, how)
    PROVE  Inv'
BY Finishing, Still

LEMMA Taken ==
    ASSUME Inv, NEW c \in Clients, NEW ops, Take(c, ops)
    PROVE  /\ step[c] = "idle" /\ sent'[c] \in Bodies /\ sent'[c].op \in ops
           /\ dropped[c] = {} /\ added[c] = {}
BY DEF Take, Inv, ControlTyped, Knows, Work

\* What was read before the transaction began is still known in it.
LEMMA Carries ==
    ASSUME Inv, NEW c \in Clients, OwnStep(c), UNCHANGED nodes,
           step[c] \in {"category", "attributes", "row", "places", "values"},
           step'[c] \in {"attributes", "row", "places", "values", "commit"}
    PROVE  /\ OpAt(c)' /\ ParentRead(c)' /\ UnitRead(c)' /\ sent'[c] = sent[c] /\ sent[c].op \in ItemOps
           /\ UNCHANGED seen /\ step[c] # "category" => CategoryRead(c)'
<1>1. Knows(c) /\ sent'[c] = sent[c] /\ sent[c] \in Bodies /\ sent[c].op \in ItemOps
  BY DEF Inv, Knows, OpAt, OwnStep
<1>2. OpAt(c)' /\ ParentRead(c)'
  BY <1>1 DEF OpAt, ParentRead
<1>3. UnitRead(c)'
  BY <1>1, PastStays DEF Knows, UnitRead
<1>4. ASSUME UNCHANGED seen, step[c] # "category" PROVE CategoryRead(c)'
  BY <1>1, <1>4, PastStays DEF Knows, CategoryRead
<1>. QED  BY <1>1, <1>2, <1>3, <1>4

LEMMA NodesArePast ==
    ASSUME Inv, NEW n, NEW type, NodeOf(n, type) # {}
    PROVE  n \in DOMAIN nodes /\ nodes[n].type = type /\ Past(n) /\ nodes[n] \in Node
BY DEF Inv, Tables, Made, TablesTyped, NodeOf

LEMMA CreateNodeKeeps ==
    ASSUME Inv, NEW c \in Clients, CreateNode(c), UNCHANGED storageVars
    PROVE  Inv'
<1>. DEFINE b == sent'[c]
<1>1. Sending(c) /\ UNCHANGED catalogTables
  BY Sends DEF Handle, CreateNode
<1>2. /\ step[c] = "idle" /\ b \in Bodies /\ b.op = "createNode" /\ dropped[c] = {} /\ added[c] = {}
  BY Taken DEF CreateNode
<1>3. seen[c] \in [path : Seq(Codes), level : Nat]
  BY DEF Inv, ControlTyped
<1>4. CASE b.parent = None /\ MoveTo(c, "insert") /\ UNCHANGED work
  <2>1. OwnStep(c) /\ step'[c] = "insert"
    BY <1>1, <1>3, <1>4, Moving DEF work
  <2>2. Knows(c)'
    BY <1>2, <1>4, <2>1 DEF work, Knows, OpAt, ParentRead, UnitRead, CategoryRead, Held, Work, ItemWriters, ItemOps
  <2>. QED  BY <1>1, <2>1, <2>2, Still DEF ItemWriters
<1>5. ASSUME NEW p \in NodeOf(b.parent, b.type),
             seen' = [seen EXCEPT ![c] = [path |-> nodes[p].path, level |-> nodes[p].level]],
             MoveTo(c, "insert"), UNCHANGED <<dropped, added>>
      PROVE  Inv'
  <2>. DEFINE v == [path |-> nodes[p].path, level |-> nodes[p].level]
  <2>1. p = b.parent /\ NodeOf(b.parent, b.type) # {}
    BY <1>5 DEF NodeOf
  <2>2. p \in DOMAIN nodes /\ nodes[p].type = b.type /\ Past(p) /\ nodes[p] \in Node
    BY <2>1, NodesArePast
  <2>3. v \in [path : Seq(Codes), level : Nat]
    BY <2>2 DEF Node
  <2>4. OwnStep(c) /\ step'[c] = "insert"
    BY <1>1, <1>5, <2>3, Moving
  <2>5. seen'[c] = v
    BY <1>5 DEF Inv, ControlTyped
  <2>6. UNCHANGED nodes /\ Past(p)'
    BY <1>1, <2>2, <2>4, PastStays DEF catalogTables
  <2>7. ParentRead(c)'
    BY <2>1, <2>2, <2>5, <2>6 DEF ParentRead
  <2>8. Knows(c)'
    BY <1>2, <1>5, <2>4, <2>7 DEF Knows, OpAt, UnitRead, CategoryRead, Held, Work, ItemWriters, ItemOps
  <2>. QED  BY <1>1, <2>4, <2>8, Still DEF ItemWriters
<1>6. CASE Finish(c, "failed") /\ UNCHANGED seen
  BY <1>1, <1>6, Answers
<1>. QED  BY <1>4, <1>5, <1>6 DEF CreateNode

LEMMA ReadNodeKeeps ==
    ASSUME Inv, NEW c \in Clients, ReadNode(c), UNCHANGED storageVars
    PROVE  Inv'
<1>1. Sending(c) /\ UNCHANGED catalogTables
  BY Sends DEF Handle, ReadNode
<1>2. /\ step[c] = "idle" /\ sent'[c] \in Bodies /\ sent'[c].op = "updateNode"
      /\ dropped[c] = {} /\ added[c] = {}
  BY Taken DEF ReadNode
<1>3. seen[c] \in [path : Seq(Codes), level : Nat]
  BY DEF Inv, ControlTyped
<1>4. CASE MoveTo(c, "change") /\ UNCHANGED work
  <2>1. OwnStep(c) /\ step'[c] = "change"
    BY <1>1, <1>3, <1>4, Moving DEF work
  <2>2. Knows(c)'
    BY <1>2, <1>4, <2>1 DEF work, Knows, OpAt, ParentRead, UnitRead, CategoryRead, Held, Work, ItemWriters, ItemOps
  <2>. QED  BY <1>1, <2>1, <2>2, Still DEF ItemWriters
<1>5. CASE Finish(c, "failed") /\ UNCHANGED seen
  BY <1>1, <1>5, Answers
<1>. QED  BY <1>4, <1>5 DEF ReadNode

LEMMA StartItemKeeps ==
    ASSUME Inv, NEW c \in Clients, StartItem(c), UNCHANGED storageVars
    PROVE  Inv'
<1>1. Sending(c) /\ UNCHANGED catalogTables
  BY Sends DEF Handle, StartItem
<1>2. /\ step[c] = "idle" /\ sent'[c] \in Bodies /\ sent'[c].op \in ItemOps
      /\ dropped[c] = {} /\ added[c] = {}
  BY Taken DEF StartItem
<1>3. seen[c] \in [path : Seq(Codes), level : Nat]
  BY DEF Inv, ControlTyped
<1>4. CASE NodeOf(sent'[c].unit, "unit") # {} /\ MoveTo(c, "category") /\ UNCHANGED work
  <2>1. OwnStep(c) /\ step'[c] = "category"
    BY <1>1, <1>3, <1>4, Moving DEF work
  <2>2. sent'[c].unit \in DOMAIN nodes /\ nodes[sent'[c].unit].type = "unit" /\ Past(sent'[c].unit)
    BY <1>4, NodesArePast
  <2>3. UNCHANGED nodes /\ \A n : Past(n) => Past(n)'
    BY <1>1, <2>1, PastStays DEF catalogTables
  <2>4. UnitRead(c)'
    BY <2>2, <2>3 DEF UnitRead
  <2>5. Knows(c)'
    BY <1>2, <1>4, <2>1, <2>4 DEF work, Knows, OpAt, ParentRead, CategoryRead, Held, Work, ItemWriters, ItemOps
  <2>. QED  BY <1>1, <2>1, <2>5, Still DEF ItemWriters
<1>5. CASE Finish(c, "failed") /\ UNCHANGED seen
  BY <1>1, <1>5, Answers
<1>. QED  BY <1>4, <1>5 DEF StartItem

\* An item being prepared has written nothing yet.
LEMMA Prepares ==
    ASSUME Inv, NEW c \in Clients, OwnStep(c), UNCHANGED <<storageVars, catalogTables>>,
           step[c] \in {"category", "attributes"}, step'[c] \in {"attributes", "row"},
           UNCHANGED <<dropped, added>>, CategoryRead(c)'
    PROVE  Inv'
<1>1. OpAt(c)' /\ ParentRead(c)' /\ UnitRead(c)'
  BY Carries DEF catalogTables
<1>2. Held(c)' /\ Work(c)' /\ c \notin ItemWriters'
  BY DEF Inv, Knows, Held, Work, ItemWriters
<1>. QED  BY <1>1, <1>2, Still DEF Knows

LEMMA ReadCategoryKeeps ==
    ASSUME Inv, NEW c \in Clients, ReadCategory(c), UNCHANGED storageVars
    PROVE  Inv'
<1>. DEFINE n == sent[c].category
<1>1. Sending(c) /\ UNCHANGED catalogTables /\ UNCHANGED sent /\ step[c] = "category"
  BY Sends DEF Handle, ReadCategory
<1>2. seen[c] \in [path : Seq(Codes), level : Nat]
  BY DEF Inv, ControlTyped
<1>3. CASE n = None /\ MoveTo(c, "attributes") /\ UNCHANGED work
  <2>1. OwnStep(c) /\ step'[c] = "attributes"
    BY <1>1, <1>2, <1>3, Moving DEF work
  <2>2. CategoryRead(c)'
    BY <1>1, <1>3 DEF CategoryRead
  <2>. QED  BY <1>1, <1>3, <2>1, <2>2, Prepares DEF work
<1>4. CASE /\ NodeOf(n, "category") # {}
           /\ seen' = [seen EXCEPT ![c].path = nodes[n].path]
           /\ MoveTo(c, "attributes")
           /\ UNCHANGED <<dropped, added>>
  <2>. DEFINE v == [seen[c] EXCEPT !.path = nodes[n].path]
  <2>1. n \in DOMAIN nodes /\ nodes[n].type = "category" /\ Past(n) /\ nodes[n] \in Node
    BY <1>4, NodesArePast
  <2>2. v \in [path : Seq(Codes), level : Nat] /\ v.path = nodes[n].path
    BY <1>2, <2>1 DEF Node
  <2>3. seen' = [seen EXCEPT ![c] = v] /\ seen'[c] = v
    BY <1>4 DEF Inv, ControlTyped
  <2>4. OwnStep(c) /\ step'[c] = "attributes"
    BY <1>1, <1>4, <2>2, <2>3, Moving
  <2>5. UNCHANGED nodes /\ Past(n)'
    BY <1>1, <2>1, <2>4, PastStays DEF catalogTables
  <2>6. CategoryRead(c)'
    BY <1>1, <2>1, <2>2, <2>3, <2>5 DEF CategoryRead
  <2>. QED  BY <1>1, <1>4, <2>4, <2>6, Prepares
<1>5. CASE Finish(c, "failed") /\ UNCHANGED seen
  BY <1>1, <1>5, Answers
<1>. QED  BY <1>3, <1>4, <1>5 DEF ReadCategory

LEMMA ValidateKeeps ==
    ASSUME Inv, NEW c \in Clients, ValidateItemAttributes(c), UNCHANGED storageVars
    PROVE  Inv'
<1>1. Sending(c) /\ UNCHANGED catalogTables /\ step[c] = "attributes"
  BY Sends DEF Handle, ValidateItemAttributes
<1>2. seen[c] \in [path : Seq(Codes), level : Nat]
  BY DEF Inv, ControlTyped
<1>3. CASE MoveTo(c, "row") /\ UNCHANGED work
  <2>1. OwnStep(c) /\ step'[c] = "row"
    BY <1>1, <1>2, <1>3, Moving DEF work
  <2>2. CategoryRead(c)'
    BY <1>1, <1>3, <2>1, Carries DEF catalogTables, work
  <2>. QED  BY <1>1, <1>3, <2>1, <2>2, Prepares DEF work
<1>4. CASE Finish(c, "failed") /\ UNCHANGED seen
  BY <1>1, <1>4, Answers
<1>. QED  BY <1>3, <1>4 DEF ValidateItemAttributes

LEMMA WriteItemKeeps ==
    ASSUME Inv, NEW c \in Clients, WriteItem(c), UNCHANGED storageVars
    PROVE  Inv'
<1>1. Sending(c) /\ UNCHANGED <<catalogTables, seen, sent>> /\ step[c] = "row"
  BY Sends DEF Handle, WriteItem
<1>2. seen[c] \in [path : Seq(Codes), level : Nat]
  BY DEF Inv, ControlTyped
<1>3. CASE /\ ItemOf(c) \in DOMAIN items \cup {c} /\ ItemFits(c)
           /\ MoveTo(c, "places")
           /\ UNCHANGED <<dropped, added>>
  <2>1. OwnStep(c) /\ step'[c] = "places"
    BY <1>1, <1>2, <1>3, Moving
  <2>2. /\ OpAt(c)' /\ ParentRead(c)' /\ UnitRead(c)' /\ CategoryRead(c)'
        /\ sent'[c] = sent[c] /\ sent[c].op \in ItemOps
    BY <1>1, <2>1, Carries DEF catalogTables
  <2>3. ItemOf(c)' = ItemOf(c)
    BY <2>2 DEF ItemOf
  <2>4. Held(c)'
    BY <1>1, <1>3, <2>2, <2>3 DEF Held, ItemFits, catalogTables
  <2>5. Work(c)'
    BY <1>1, <1>3, <2>1 DEF Inv, Knows, Work
  <2>6. Knows(c)'
    BY <2>2, <2>4, <2>5 DEF Knows
  <2>7. \A d \in ItemWriters : ItemOf(d) # ItemOf(c)'
    BY <2>3 DEF WriteItem
  <2>. QED  BY <1>1, <2>1, <2>6, <2>7, Still
<1>4. CASE Finish(c, "failed") \/ Finish(c, "not_found")
  BY <1>1, <1>4, Answers
<1>. QED  BY <1>3, <1>4 DEF WriteItem

LEMMA ReplaceWarehousesKeeps ==
    ASSUME Inv, NEW c \in Clients, ReplaceItemWarehouses(c), UNCHANGED storageVars
    PROVE  Inv'
<1>1. Sending(c) /\ UNCHANGED <<catalogTables, seen, sent>> /\ step[c] = "places"
  BY Sends DEF Handle, ReplaceItemWarehouses
<1>2. seen[c] \in [path : Seq(Codes), level : Nat]
  BY DEF Inv, ControlTyped
<1>3. CASE /\ sent[c].warehouses \subseteq DOMAIN warehouses
           /\ dropped' = [dropped EXCEPT ![c] = @ \cup OwnRows("placed", ItemOf(c))]
           /\ added' = [added EXCEPT ![c] = @ \cup {Related("placed", ItemOf(c), o) : o \in sent[c].warehouses}]
           /\ MoveTo(c, "values")
  <2>. DEFINE new == {Related("placed", ItemOf(c), o) : o \in sent[c].warehouses}
              ds == dropped[c] \cup OwnRows("placed", ItemOf(c))
              as == added[c] \cup new
  <2>1. dropped' = [dropped EXCEPT ![c] = ds] /\ added' = [added EXCEPT ![c] = as]
    BY <1>3
  <2>2. OwnStep(c) /\ step'[c] = "values"
    <3>. HIDE DEF ds, as
    <3>. QED  BY <1>1, <1>2, <1>3, <2>1, Moving
  <2>3. /\ OpAt(c)' /\ ParentRead(c)' /\ UnitRead(c)' /\ CategoryRead(c)'
        /\ sent'[c] = sent[c] /\ sent[c].op \in ItemOps
    BY <1>1, <2>2, Carries DEF catalogTables
  <2>4. ItemOf(c)' = ItemOf(c) /\ c \in ItemWriters
    BY <1>1, <2>3 DEF ItemOf, ItemWriters
  <2>5. Held(c)'
    BY <1>1, <2>2, <2>3, <2>4 DEF Inv, Knows, Held, ItemWriters, catalogTables
  <2>6. dropped[c] = {} /\ added[c] = {}
    BY <1>1 DEF Inv, Knows, Work
  <2>7. dropped'[c] = OwnRows("placed", ItemOf(c)) /\ added'[c] = new
    BY <2>1, <2>6 DEF Inv, ControlTyped
  <2>8. Placed(c)' = new
    BY <2>3, <2>4 DEF Placed
  <2>9. \A row \in dropped'[c] \cup added'[c] : row.in = "placed" /\ row.owner = ItemOf(c)
    BY <2>7 DEF OwnRows, Related
  <2>10. OwnRows("placed", ItemOf(c))' \subseteq dropped'[c]
    BY <1>1, <2>4, <2>7 DEF OwnRows, catalogTables
  <2>11. sent'[c].warehouses \subseteq DOMAIN warehouses' /\ sent[c].op # "replaceLinks"
    BY <1>3, <2>3 DEF storageVars, tables, ItemOps
  <2>12. Work(c)'
    <3>. HIDE DEF new
    <3>. QED  BY <2>2, <2>3, <2>4, <2>7, <2>8, <2>9, <2>10, <2>11 DEF Work
  <2>. QED  BY <1>1, <2>2, <2>3, <2>4, <2>5, <2>12, Still DEF Knows
<1>4. CASE Finish(c, "failed")
  BY <1>1, <1>4, Answers
<1>. QED  BY <1>3, <1>4 DEF ReplaceItemWarehouses, Replace

LEMMA ReplaceValuesKeeps ==
    ASSUME Inv, NEW c \in Clients, ReplaceAttributeValues(c), UNCHANGED storageVars
    PROVE  Inv'
<1>1. Sending(c) /\ UNCHANGED <<catalogTables, seen, sent>> /\ step[c] = "values"
  BY Sends DEF Handle, ReplaceAttributeValues
<1>2. seen[c] \in [path : Seq(Codes), level : Nat]
  BY DEF Inv, ControlTyped
<1>3. CASE /\ Templates(sent[c]) \subseteq DOMAIN templates
           /\ dropped' = [dropped EXCEPT ![c] = @ \cup OwnRows("valued", ItemOf(c))]
           /\ added' = [added EXCEPT ![c] = @ \cup {Related("valued", ItemOf(c), o) : o \in Templates(sent[c])}]
           /\ MoveTo(c, "commit")
  <2>. DEFINE new == {Related("valued", ItemOf(c), o) : o \in Templates(sent[c])}
              ds == dropped[c] \cup OwnRows("valued", ItemOf(c))
              as == added[c] \cup new
  <2>1. dropped' = [dropped EXCEPT ![c] = ds] /\ added' = [added EXCEPT ![c] = as]
    BY <1>3
  <2>2. OwnStep(c) /\ step'[c] = "commit"
    <3>. HIDE DEF ds, as
    <3>. QED  BY <1>1, <1>2, <1>3, <2>1, Moving
  <2>3. /\ OpAt(c)' /\ ParentRead(c)' /\ UnitRead(c)' /\ CategoryRead(c)'
        /\ sent'[c] = sent[c] /\ sent[c].op \in ItemOps
    BY <1>1, <2>2, Carries DEF catalogTables
  <2>4. ItemOf(c)' = ItemOf(c) /\ c \in ItemWriters
    BY <1>1, <2>3 DEF ItemOf, ItemWriters
  <2>5. Held(c)'
    BY <1>1, <2>2, <2>3, <2>4 DEF Inv, Knows, Held, ItemWriters, catalogTables
  <2>6. /\ sent[c].op # "replaceLinks"
        /\ \A row \in dropped[c] \cup added[c] : row.in \in {"placed", "valued"} /\ row.owner = ItemOf(c)
        /\ OwnRows("placed", ItemOf(c)) \subseteq dropped[c]
        /\ sent[c].warehouses \subseteq DOMAIN warehouses
        /\ added[c] = Placed(c)
    <3>1. Work(c) /\ sent[c].op # "replaceLinks"
      BY <2>3 DEF Inv, Knows, ItemOps
    <3>. QED  BY <1>1, <2>3, <3>1 DEF Work
  <2>7. dropped'[c] = ds /\ added'[c] = as
    <3>. HIDE DEF ds, as
    <3>. QED  BY <2>1 DEF Inv, ControlTyped
  <2>8. Templates(sent[c])' = Templates(sent[c])
    BY <2>3 DEF Templates
  <2>9. Placed(c)' = Placed(c) /\ Valued(c)' = new
    BY <2>3, <2>4, <2>8 DEF Placed, Valued
  <2>10. \A row \in OwnRows("valued", ItemOf(c)) \cup new : row.in = "valued" /\ row.owner = ItemOf(c)
    BY DEF OwnRows, Related
  <2>11. \A in : OwnRows(in, ItemOf(c))' = OwnRows(in, ItemOf(c))
    BY <1>1, <2>4 DEF OwnRows, catalogTables
  <2>12. UNCHANGED <<warehouses, templates>>
    BY <1>1 DEF storageVars, tables, catalogTables
  <2>13. \A row \in dropped'[c] \cup added'[c] : row.in \in {"placed", "valued"} /\ row.owner = ItemOf(c)
    BY <2>6, <2>7, <2>10
  <2>14. Work(c)'
    <3>. HIDE DEF new
    <3>. QED  BY <1>3, <2>2, <2>3, <2>4, <2>6, <2>7, <2>8, <2>9, <2>11, <2>12, <2>13 DEF Work
  <2>. QED  BY <1>1, <2>2, <2>3, <2>4, <2>5, <2>14, Still DEF Knows
<1>4. CASE Finish(c, "failed")
  BY <1>1, <1>4, Answers
<1>. QED  BY <1>3, <1>4 DEF ReplaceAttributeValues, Replace, Templates

\* Handlers of links know only that what they delete and insert are links.
LEMMA Links ==
    ASSUME Inv, NEW c \in Clients, OwnStep(c), UNCHANGED <<storageVars, catalogTables>>,
           step'[c] \in {"cleanup", "link", "commit"}, sent'[c].op = "replaceLinks",
           \A row \in dropped'[c] \cup added'[c] : row.in = "linked"
    PROVE  Inv'
<1>1. c \notin ItemWriters'
  BY DEF ItemWriters, ItemOps
<1>2. Knows(c)'
  BY DEF Knows, OpAt, ParentRead, UnitRead, CategoryRead, Held, Work, ItemWriters, ItemOps, OwnStep
<1>. QED  BY <1>1, <1>2, Still

LEMMA ReplaceLinksKeeps ==
    ASSUME Inv, NEW c \in Clients, ReplaceCatalogLinks(c), UNCHANGED storageVars
    PROVE  Inv'
<1>1. Sending(c) /\ UNCHANGED <<catalogTables, seen, added>> /\ MoveTo(c, "cleanup")
  BY Sends DEF Handle, ReplaceCatalogLinks
<1>2. seen[c] \in [path : Seq(Codes), level : Nat]
  BY DEF Inv, ControlTyped
<1>3. /\ sent'[c].op = "replaceLinks" /\ added[c] = {}
  BY Taken DEF ReplaceCatalogLinks
<1>4. dropped' = [dropped EXCEPT ![c] = OwnRows("linked", sent'[c].left)]
  BY DEF ReplaceCatalogLinks
<1>5. OwnStep(c) /\ step'[c] = "cleanup"
  BY <1>1, <1>2, <1>4, Moving
<1>6. dropped'[c] = OwnRows("linked", sent'[c].left)
  BY <1>4 DEF Inv, ControlTyped
<1>7. \A row \in dropped'[c] \cup added'[c] : row.in = "linked"
  BY <1>1, <1>3, <1>6 DEF OwnRows
<1>. QED  BY <1>1, <1>3, <1>5, <1>7, Links

LEMMA LinkersKnow ==
    ASSUME Inv, NEW c \in Clients, step[c] \in {"cleanup", "link"}
    PROVE  /\ sent[c].op = "replaceLinks" /\ sent[c] \in Bodies
           /\ \A row \in dropped[c] \cup added[c] : row.in = "linked"
BY DEF Inv, Knows, OpAt, Work

LEMMA CleanupLinksKeeps ==
    ASSUME Inv, NEW c \in Clients, CleanupLinks(c), UNCHANGED storageVars
    PROVE  Inv'
<1>1. /\ Sending(c) /\ UNCHANGED <<catalogTables, seen, sent, added>> /\ MoveTo(c, "link")
      /\ step[c] = "cleanup"
  BY Sends DEF Handle, CleanupLinks
<1>2. seen[c] \in [path : Seq(Codes), level : Nat]
  BY DEF Inv, ControlTyped
<1>3. dropped' = [dropped EXCEPT ![c] = dropped[c] \cap rows]
  BY DEF CleanupLinks
<1>4. OwnStep(c) /\ step'[c] = "link"
  BY <1>1, <1>2, <1>3, Moving
<1>5. dropped'[c] = dropped[c] \cap rows
  BY <1>3 DEF Inv, ControlTyped
<1>. QED  BY <1>1, <1>4, <1>5, LinkersKnow, Links

LEMMA InsertLinkKeeps ==
    ASSUME Inv, NEW c \in Clients, InsertLink(c), UNCHANGED storageVars
    PROVE  Inv'
<1>1. Sending(c) /\ UNCHANGED <<catalogTables, seen, sent>> /\ step[c] = "link"
  BY Sends DEF Handle, InsertLink
<1>2. seen[c] \in [path : Seq(Codes), level : Nat]
  BY DEF Inv, ControlTyped
<1>3. CASE MoveTo(c, "commit") /\ UNCHANGED <<dropped, added>>
  <2>1. OwnStep(c) /\ step'[c] = "commit"
    BY <1>1, <1>2, <1>3, Moving
  <2>. QED  BY <1>1, <1>3, <2>1, LinkersKnow, Links
<1>4. ASSUME added' = [added EXCEPT ![c] = @ \cup {NextLink(c)}], UNCHANGED <<step, got, dropped>>
      PROVE  Inv'
  <2>1. NextLink(c).in = "linked"
    BY DEF NextLink, Link
  <2>. DEFINE as == added[c] \cup {NextLink(c)}
  <2>2. added' = [added EXCEPT ![c] = as]
    BY <1>4
  <2>3. \A row \in as : row.in = "linked"
    BY <1>1, <2>1, LinkersKnow
  <2>. HIDE DEF as
  <2>4. OwnStep(c)
    BY <1>1, <1>4, <2>2, LinkersKnow DEF OwnStep, Inv, ControlTyped
  <2>5. added'[c] = as
    BY <2>2 DEF Inv, ControlTyped
  <2>. QED  BY <1>1, <1>4, <2>3, <2>4, <2>5, LinkersKnow, Links
<1>5. CASE Finish(c, "failed")
  BY <1>1, <1>5, Answers
<1>. QED  BY <1>3, <1>4, <1>5 DEF InsertLink

LEMMA AbortKeeps ==
    ASSUME Inv, NEW c \in Clients, Abort(c), UNCHANGED storageVars
    PROVE  Inv'
BY Sends, Answers DEF Handle, Abort
-------------------------------------------------------------------------------
(* Steps that write. *)

LEMMA Writes ==
    ASSUME Inv, NEW c \in Clients, OwnStep(c), UNCHANGED storageVars, Knows(c)', c \notin ItemWriters',
           Tables', \A d \in Clients \ {c} : Spares(d)
    PROVE  Inv'
<1>1. \A d \in Clients \ {c} : ItemOf(d)' = ItemOf(d) /\ (d \in ItemWriters' <=> d \in ItemWriters)
  BY DEF OwnStep, ItemOf, ItemWriters
<1>2. OneWriter'
  <2>1. ItemWriters' \subseteq Clients
    BY DEF ItemWriters
  <2>. QED  BY <1>1, <2>1 DEF Inv, OneWriter
<1>. QED  BY <1>2, Assemble

\* The row of an item keeps the body it shows.
LEMMA BodyStands ==
    ASSUME Inv, NEW c \in Clients, OwnStep(c), NEW i \in DOMAIN items, items[i].by \in Clients
    PROVE  /\ Past(items[i].by) /\ sent'[items[i].by] = sent[items[i].by]
           /\ \A t \in Templates(sent[items[i].by]) : Past(t)
           /\ {row.other : row \in OwnRows("placed", i)} = sent[items[i].by].warehouses \cap DOMAIN warehouses
           /\ {row.other : row \in OwnRows("valued", i)} = Templates(sent[items[i].by]) \cap DOMAIN templates
<1>1. Past(items[i].by) /\ \A t \in Templates(sent[items[i].by]) : Past(t)
  BY DEF Inv, Tables, Made
<1>2. sent'[items[i].by] = sent[items[i].by]
  BY <1>1, PastStays
<1>. QED  BY <1>1, <1>2 DEF Inv, Tables, ItemIsOneBodys, Templates

\* Items, places and values as they were, and new templates only of this client.
LEMMA BodiesStand ==
    ASSUME Inv, NEW c \in Clients, OwnStep(c), UNCHANGED <<storageVars, rows>>,
           DOMAIN items' = DOMAIN items, \A i \in DOMAIN items : items'[i].by = items[i].by,
           DOMAIN templates' = DOMAIN templates \/ DOMAIN templates' = DOMAIN templates \cup {c}
    PROVE  ItemIsOneBodys'
<1>1. UNCHANGED warehouses
  BY DEF storageVars, tables
<1>2. \A in, i : OwnRows(in, i)' = OwnRows(in, i)
  BY DEF OwnRows
<1>3. ~Past(c)
  BY DEF OwnStep, Past
<1>4. ASSUME NEW i \in DOMAIN items', items'[i].by \in Clients
      PROVE  LET b == sent'[items'[i].by]
             IN  /\ {row.other : row \in OwnRows("placed", i)'} = b.warehouses \cap DOMAIN warehouses'
                 /\ {row.other : row \in OwnRows("valued", i)'} = Templates(b) \cap DOMAIN templates'
  <2>1. i \in DOMAIN items /\ items'[i].by = items[i].by /\ items[i].by \in Clients
    BY <1>4
  <2>2. /\ sent'[items[i].by] = sent[items[i].by]
        /\ \A t \in Templates(sent[items[i].by]) : Past(t)
        /\ {row.other : row \in OwnRows("placed", i)} = sent[items[i].by].warehouses \cap DOMAIN warehouses
        /\ {row.other : row \in OwnRows("valued", i)} = Templates(sent[items[i].by]) \cap DOMAIN templates
    BY <2>1, BodyStands
  <2>3. c \notin Templates(sent[items[i].by])
    BY <1>3, <2>2
  <2>4. Templates(sent[items[i].by]) \cap DOMAIN templates' = Templates(sent[items[i].by]) \cap DOMAIN templates
    BY <2>3
  <2>. QED  BY <1>1, <1>2, <2>1, <2>2, <2>4
<1>. QED  BY <1>4 DEF ItemIsOneBodys, Templates

LEMMA MadeStands ==
    ASSUME Inv, NEW c \in Clients, OwnStep(c), step'[c] = "done", UNCHANGED storageVars,
           \A n \in DOMAIN nodes' : n \in DOMAIN nodes \/ n = c,
           \A t \in DOMAIN templates' : t \in DOMAIN templates \/ t = c,
           \A i \in DOMAIN items' : i \in DOMAIN items \/ i = c,
           \A i \in DOMAIN items' :
              \/ i \in DOMAIN items /\ items'[i].by = items[i].by
              \/ /\ items'[i].by = c /\ step[c] # "idle" /\ sent[c].op \in ItemOps
                 /\ \A w \in sent[c].warehouses : PastWarehouse(w)
                 /\ \A t \in Templates(sent[c]) : Past(t)
    PROVE  Made'
<1>1. \A n : Past(n) => Past(n)'
  BY PastStays
<1>2. Past(c)'
  BY DEF Past
<1>3. \A n \in DOMAIN nodes' \cup DOMAIN templates' \cup DOMAIN items' : Past(n)'
  BY <1>1, <1>2 DEF Inv, Tables, Made
<1>4. \A w : PastWarehouse(w)' <=> PastWarehouse(w)
  BY DEF PastWarehouse, storageVars
<1>5. \A w \in DOMAIN warehouses' : PastWarehouse(w)'
  BY <1>4 DEF Inv, Tables, Made, storageVars, tables
<1>6. ASSUME NEW i \in DOMAIN items', NEW d \in Clients, items'[i].by = d
      PROVE  /\ Past(d)' /\ sent'[d].op \in ItemOps
             /\ \A w \in sent'[d].warehouses : PastWarehouse(w)'
             /\ \A t \in Templates(sent'[d]) : Past(t)'
  <2>1. CASE i \in DOMAIN items /\ items'[i].by = items[i].by
    <3>1. items[i].by = d /\ sent'[d] = sent[d]
      BY <1>6, <2>1, BodyStands
    <3>2. /\ Past(d) /\ sent[d].op \in ItemOps
          /\ \A w \in sent[d].warehouses : PastWarehouse(w)
          /\ \A t \in Templates(sent[d]) : Past(t)
      BY <2>1, <3>1 DEF Inv, Tables, Made
    <3>. QED  BY <1>1, <1>4, <3>1, <3>2
  <2>2. CASE /\ items'[i].by = c /\ step[c] # "idle" /\ sent[c].op \in ItemOps
             /\ \A w \in sent[c].warehouses : PastWarehouse(w)
             /\ \A t \in Templates(sent[c]) : Past(t)
    <3>1. sent'[c] = sent[c] /\ d = c
      BY <1>6, <2>2 DEF OwnStep
    <3>. QED  BY <1>1, <1>2, <1>4, <2>2, <3>1
  <2>. QED  BY <2>1, <2>2
<1>. QED  BY <1>3, <1>5, <1>6 DEF Made, Past, PastWarehouse, Templates

LEMMA InsertNodeKeeps ==
    ASSUME Inv, NEW c \in Clients, InsertNode(c), UNCHANGED storageVars
    PROVE  Inv'
<1>1. /\ Sending(c) /\ UNCHANGED <<templates, items, rows, seen, sent>>
      /\ step[c] = "insert"
  BY Sends DEF Handle, InsertNode
<1>2. CASE UNCHANGED nodes /\ Finish(c, "failed")
  BY <1>1, <1>2, Answers DEF catalogTables
<1>3. CASE /\ sent[c].parent \in DOMAIN nodes \cup {None}
           /\ nodes' = With(nodes, c, NewNode(c)) /\ Finish(c, "ok")
  <2>1. OwnStep(c) /\ Knows(c)' /\ step'[c] = "done" /\ c \notin ItemWriters'
    BY <1>1, <1>3, Finishing
  <2>2. /\ sent[c] \in CreateNodeBody /\ ParentRead(c)
        /\ seen[c] \in [path : Seq(Codes), level : Nat]
    BY <1>1, BodiesAreBodies DEF Inv, Knows, OpAt, ControlTyped
  <2>3. c \notin DOMAIN nodes
    BY <1>1 DEF Inv, Tables, Made, Past
  <2>4. /\ DOMAIN nodes' = DOMAIN nodes \cup {c}
        /\ nodes'[c] = NewNode(c)
        /\ \A n \in DOMAIN nodes : nodes'[n] = nodes[n]
    BY <1>3, <2>3 DEF With
  <2>5. NewNode(c) \in Node
    BY <2>2 DEF NewNode, Node, CreateNodeBody, Writers
  <2>6. TablesTyped'
    <3>1. nodes' \in [DOMAIN nodes' -> Node]
      BY <1>3, <2>4, <2>5 DEF Inv, Tables, TablesTyped, With
    <3>2. DOMAIN nodes' \subseteq NodeIds
      BY <2>4 DEF Inv, Tables, TablesTyped, NodeIds
    <3>. QED  BY <1>1, <3>1, <3>2 DEF Inv, Tables, TablesTyped
  <2>7. IsTree(nodes)'
    <3>1. ASSUME NEW n \in DOMAIN nodes, nodes[n].parent # None
          PROVE  /\ nodes[n].parent \in DOMAIN nodes
                 /\ nodes[n].type = nodes[nodes[n].parent].type
                 /\ nodes[n].path = Append(nodes[nodes[n].parent].path, nodes[n].code)
                 /\ nodes[n].level = nodes[nodes[n].parent].level + 1
      BY <3>1 DEF Inv, Tables, IsTree
    <3>2. ASSUME sent[c].parent # None
          PROVE  LET p == sent[c].parent
                 IN  /\ p \in DOMAIN nodes /\ nodes[p].type = sent[c].type
                     /\ nodes[p].path = seen[c].path /\ nodes[p].level = seen[c].level
      BY <1>1, <1>3, <2>2, <3>2 DEF ParentRead
    <3>3. /\ NewNode(c).parent = sent[c].parent /\ NewNode(c).type = sent[c].type
          /\ NewNode(c).code = sent[c].code /\ NewNode(c).path = Append(seen[c].path, sent[c].code)
          /\ sent[c].parent # None => NewNode(c).level = seen[c].level + 1
      BY DEF NewNode
    <3>4. ASSUME NEW n \in DOMAIN nodes', nodes'[n].parent # None
          PROVE  /\ nodes'[n].parent \in DOMAIN nodes'
                 /\ nodes'[n].type = nodes'[nodes'[n].parent].type
                 /\ nodes'[n].path = Append(nodes'[nodes'[n].parent].path, nodes'[n].code)
                 /\ nodes'[n].level = nodes'[nodes'[n].parent].level + 1
      <4>1. CASE n = c
        BY <2>4, <3>2, <3>3, <3>4, <4>1
      <4>2. CASE n # c
        BY <2>4, <3>1, <3>4, <4>2
      <4>. QED  BY <4>1, <4>2
    <3>. QED  BY <3>4 DEF IsTree
  <2>8. Fit(items, nodes)'
    BY <1>1, <2>4 DEF Inv, Tables, Fit
  <2>9. ItemIsOneBodys'
    BY <1>1, <2>1, BodiesStand
  <2>10. RowsReferToRows'
    BY <1>1 DEF Inv, Tables, RowsReferToRows, Relate, storageVars, tables
  <2>11. Made'
    BY <1>1, <2>1, <2>4, MadeStands
  <2>12. ASSUME NEW d \in Clients \ {c} PROVE Spares(d)
    <3>1. ~Past(c) /\ \A n : Past(n) => Past(n)'
      BY <2>1, PastStays DEF Past, OwnStep
    <3>. QED  BY <1>1, <2>4, <3>1 DEF Spares, storageVars, tables
  <2>. QED  BY <2>1, <2>6, <2>7, <2>8, <2>9, <2>10, <2>11, <2>12, Writes DEF Tables
<1>. QED  BY <1>2, <1>3 DEF InsertNode

LEMMA UpdateNodeKeeps ==
    ASSUME Inv, NEW c \in Clients, UpdateNode(c), UNCHANGED storageVars
    PROVE  Inv'
<1>1. Sending(c) /\ UNCHANGED <<templates, items, rows, seen, sent>>
  BY Sends DEF Handle, UpdateNode
<1>2. CASE UNCHANGED nodes /\ Finish(c, "failed")
  BY <1>1, <1>2, Answers DEF catalogTables
<1>3. ASSUME NEW m \in DOMAIN nodes, nodes' = [nodes EXCEPT ![m].by = c], Finish(c, "ok")
      PROVE  Inv'
  <2>1. OwnStep(c) /\ Knows(c)' /\ step'[c] = "done" /\ c \notin ItemWriters'
    BY <1>1, <1>3, Finishing
  <2>2. nodes \in [DOMAIN nodes -> Node]
    BY DEF Inv, Tables, TablesTyped
  <2>3. /\ DOMAIN nodes' = DOMAIN nodes /\ nodes' \in [DOMAIN nodes -> Node]
        /\ \A n \in DOMAIN nodes :
              /\ nodes'[n].type = nodes[n].type /\ nodes'[n].parent = nodes[n].parent
              /\ nodes'[n].code = nodes[n].code /\ nodes'[n].path = nodes[n].path
              /\ nodes'[n].level = nodes[n].level
    BY <1>3, <2>2 DEF Node, Writers
  <2>4. TablesTyped'
    BY <1>1, <2>3 DEF Inv, Tables, TablesTyped
  <2>5. IsTree(nodes)'
    <3>1. \A k \in DOMAIN nodes : nodes[k].parent # None =>
             /\ nodes[k].parent \in DOMAIN nodes
             /\ nodes[k].type = nodes[nodes[k].parent].type
             /\ nodes[k].path = Append(nodes[nodes[k].parent].path, nodes[k].code)
             /\ nodes[k].level = nodes[nodes[k].parent].level + 1
      BY DEF Inv, Tables, IsTree
    <3>2. ASSUME NEW k \in DOMAIN nodes', nodes'[k].parent # None
          PROVE  /\ nodes'[k].parent \in DOMAIN nodes'
                 /\ nodes'[k].type = nodes'[nodes'[k].parent].type
                 /\ nodes'[k].path = Append(nodes'[nodes'[k].parent].path, nodes'[k].code)
                 /\ nodes'[k].level = nodes'[nodes'[k].parent].level + 1
      <4>. DEFINE p == nodes[k].parent
      <4>1. k \in DOMAIN nodes /\ nodes'[k].parent = p /\ p \in DOMAIN nodes' /\ p # None
        BY <2>3, <3>1, <3>2
      <4>2. nodes'[p].type = nodes[p].type /\ nodes'[p].path = nodes[p].path /\ nodes'[p].level = nodes[p].level
        BY <2>3, <4>1
      <4>3. /\ nodes[k].type = nodes[p].type /\ nodes[k].level = nodes[p].level + 1
            /\ nodes[k].path = Append(nodes[p].path, nodes[k].code)
        BY <3>1, <4>1
      <4>4. /\ nodes'[k].type = nodes[k].type /\ nodes'[k].code = nodes[k].code
            /\ nodes'[k].path = nodes[k].path /\ nodes'[k].level = nodes[k].level
        BY <2>3, <3>2
      <4>. HIDE DEF p
      <4>. QED  BY <4>1, <4>2, <4>3, <4>4
    <3>. QED  BY <3>2 DEF IsTree
  <2>6. Fit(items, nodes)'
    BY <1>1, <2>3 DEF Inv, Tables, Fit
  <2>7. ItemIsOneBodys'
    BY <1>1, <2>1, BodiesStand
  <2>8. RowsReferToRows'
    BY <1>1 DEF Inv, Tables, RowsReferToRows, Relate, storageVars, tables
  <2>9. Made'
    BY <1>1, <2>1, <2>3, MadeStands
  <2>10. ASSUME NEW d \in Clients \ {c} PROVE Spares(d)
    BY <1>1, <2>1, <2>3, PastStays DEF Spares, storageVars, tables
  <2>. QED  BY <2>1, <2>4, <2>5, <2>6, <2>7, <2>8, <2>9, <2>10, Writes DEF Tables
<1>. QED  BY <1>2, <1>3 DEF UpdateNode

LEMMA DeleteNodeKeeps ==
    ASSUME Inv, NEW c \in Clients, DeleteNode(c), UNCHANGED storageVars
    PROVE  Inv'
<1>. DEFINE n == sent'[c].node
<1>1. /\ Sending(c) /\ UNCHANGED <<templates, rows, seen>>
      /\ \A d \in Clients : ~Holding(d, n)
  BY Sends DEF Handle, DeleteNode
<1>2. CASE UNCHANGED <<nodes, items>> /\ \E how \in {"failed", "ok", "not_found"} : Finish(c, how)
  BY <1>1, <1>2, Answers DEF catalogTables
<1>3. CASE (\A i \in DOMAIN items : items[i].unit # n) /\ WithoutNode(n) /\ Finish(c, "ok")
  <2>. HIDE DEF n
  <2>1. OwnStep(c) /\ Knows(c)' /\ step'[c] = "done" /\ c \notin ItemWriters'
    BY <1>1, <1>3, Finishing
  <2>2. /\ nodes \in [DOMAIN nodes -> Node] /\ items \in [DOMAIN items -> Item]
    BY DEF Inv, Tables, TablesTyped
  <2>3. /\ DOMAIN nodes' = DOMAIN nodes \ {n} /\ nodes' \in [DOMAIN nodes' -> Node]
        /\ \A m \in DOMAIN nodes' :
              /\ nodes'[m].type = nodes[m].type /\ nodes'[m].code = nodes[m].code
              /\ nodes'[m].path = nodes[m].path /\ nodes'[m].level = nodes[m].level
              /\ nodes'[m].parent # None => nodes'[m].parent = nodes[m].parent /\ nodes[m].parent # n
    BY <1>3, <2>2 DEF WithoutNode, Node
  <2>4. /\ DOMAIN items' = DOMAIN items /\ items' \in [DOMAIN items' -> Item]
        /\ \A i \in DOMAIN items :
              /\ items'[i].unit = items[i].unit /\ items'[i].path = items[i].path
              /\ items'[i].by = items[i].by
              /\ items'[i].category # None => items'[i].category = items[i].category /\ items[i].category # n
    BY <1>3, <2>2 DEF WithoutNode, Item
  <2>5. TablesTyped'
    BY <1>1, <2>3, <2>4 DEF Inv, Tables, TablesTyped
  <2>6. IsTree(nodes)'
    <3>1. \A m \in DOMAIN nodes : nodes[m].parent # None =>
             /\ nodes[m].parent \in DOMAIN nodes
             /\ nodes[m].type = nodes[nodes[m].parent].type
             /\ nodes[m].path = Append(nodes[nodes[m].parent].path, nodes[m].code)
             /\ nodes[m].level = nodes[nodes[m].parent].level + 1
      BY DEF Inv, Tables, IsTree
    <3>2. ASSUME NEW m \in DOMAIN nodes', nodes'[m].parent # None
          PROVE  /\ nodes'[m].parent \in DOMAIN nodes'
                 /\ nodes'[m].type = nodes'[nodes'[m].parent].type
                 /\ nodes'[m].path = Append(nodes'[nodes'[m].parent].path, nodes'[m].code)
                 /\ nodes'[m].level = nodes'[nodes'[m].parent].level + 1
      <4>. DEFINE p == nodes[m].parent
      <4>1. m \in DOMAIN nodes /\ nodes'[m].parent = p /\ p \in DOMAIN nodes' /\ p # None
        BY <2>3, <3>1, <3>2
      <4>2. nodes'[p].type = nodes[p].type /\ nodes'[p].path = nodes[p].path /\ nodes'[p].level = nodes[p].level
        BY <2>3, <4>1
      <4>3. /\ nodes[m].type = nodes[p].type /\ nodes[m].level = nodes[p].level + 1
            /\ nodes[m].path = Append(nodes[p].path, nodes[m].code)
        BY <3>1, <4>1
      <4>4. /\ nodes'[m].type = nodes[m].type /\ nodes'[m].code = nodes[m].code
            /\ nodes'[m].path = nodes[m].path /\ nodes'[m].level = nodes[m].level
        BY <2>3, <3>2
      <4>. HIDE DEF p
      <4>. QED  BY <4>1, <4>2, <4>3, <4>4
    <3>. QED  BY <3>2 DEF IsTree
  <2>7. Fit(items, nodes)'
    BY <1>3, <2>3, <2>4 DEF Inv, Tables, Fit
  <2>8. ItemIsOneBodys'
    BY <1>1, <2>1, <2>4, BodiesStand
  <2>9. RowsReferToRows'
    BY <1>1, <2>4 DEF Inv, Tables, RowsReferToRows, Relate, storageVars, tables
  <2>10. Made'
    BY <1>1, <2>1, <2>3, <2>4, MadeStands
  <2>11. ASSUME NEW d \in Clients \ {c} PROVE Spares(d)
    BY <1>1, <2>1, <2>3, <2>4, PastStays DEF Spares, storageVars, tables
  <2>. QED  BY <2>1, <2>5, <2>6, <2>7, <2>8, <2>9, <2>10, <2>11, Writes DEF Tables
<1>. QED  BY <1>2, <1>3 DEF DeleteNode

LEMMA TemplatesChange ==
    ASSUME Inv, NEW c \in Clients, OwnStep(c), Knows(c)', step'[c] = "done", c \notin ItemWriters',
           UNCHANGED <<storageVars, nodes, items, rows>>,
           DOMAIN templates' = DOMAIN templates \/ DOMAIN templates' = DOMAIN templates \cup {c},
           templates' \in [DOMAIN templates' -> Template]
    PROVE  Inv'
<1>1. TablesTyped'
  BY DEF Inv, Tables, TablesTyped, TemplateIds
<1>2. IsTree(nodes)' /\ Fit(items, nodes)'
  BY DEF Inv, Tables, IsTree, Fit
<1>3. ItemIsOneBodys'
  BY BodiesStand
<1>4. RowsReferToRows'
  BY DEF Inv, Tables, RowsReferToRows, Relate, storageVars, tables
<1>5. Made'
  BY MadeStands
<1>6. ASSUME NEW d \in Clients \ {c} PROVE Spares(d)
  BY PastStays DEF Spares, storageVars, tables
<1>. QED  BY <1>1, <1>2, <1>3, <1>4, <1>5, <1>6, Writes DEF Tables

LEMMA CreateTemplateKeeps ==
    ASSUME Inv, NEW c \in Clients, CreateTemplate(c), UNCHANGED storageVars
    PROVE  Inv'
<1>. DEFINE b == sent'[c]
            new == [code |-> b.code, required |-> b.required, by |-> c]
<1>1. Sending(c) /\ UNCHANGED <<nodes, items, rows, seen>>
  BY Sends DEF Handle, CreateTemplate
<1>2. b \in TemplateBody
  BY Taken, BodiesAreBodies DEF CreateTemplate
<1>3. CASE templates' = With(templates, c, new) /\ Finish(c, "ok")
  <2>1. b.code \in Codes /\ b.required \in BOOLEAN /\ c \in Writers
    BY <1>2 DEF TemplateBody, Writers
  <2>2. new \in Template
    BY <2>1, Zenon DEF Template
  <2>3. templates \in [DOMAIN templates -> Template]
    BY DEF Inv, Tables, TablesTyped
  <2>4. DOMAIN templates' = DOMAIN templates \cup {c} /\ templates' \in [DOMAIN templates' -> Template]
    <3>. HIDE DEF new
    <3>. QED  BY <1>3, <2>2, <2>3 DEF With
  <2>. QED  BY <1>1, <1>3, <2>4, Finishing, TemplatesChange
<1>4. CASE Finish(c, "failed") /\ UNCHANGED templates
  BY <1>1, <1>4, Answers DEF catalogTables
<1>. QED  BY <1>3, <1>4 DEF CreateTemplate

LEMMA UpdateTemplateKeeps ==
    ASSUME Inv, NEW c \in Clients, UpdateTemplate(c), UNCHANGED storageVars
    PROVE  Inv'
<1>. DEFINE b == sent'[c]
<1>1. Sending(c) /\ UNCHANGED <<nodes, items, rows, seen>>
  BY Sends DEF Handle, UpdateTemplate
<1>2. b \in TemplateEdit
  BY Taken, BodiesAreBodies DEF UpdateTemplate
<1>3. CASE /\ b.template \in DOMAIN templates
           /\ templates' = [templates EXCEPT ![b.template].required = b.required, ![b.template].by = c]
           /\ Finish(c, "ok")
  <2>. DEFINE t == b.template
              row == [[templates[t] EXCEPT !.required = b.required] EXCEPT !.by = c]
  <2>1. b.required \in BOOLEAN /\ c \in Writers
    BY <1>2 DEF TemplateEdit, Writers
  <2>2. templates \in [DOMAIN templates -> Template] /\ templates[t] \in Template
    BY <1>3 DEF Inv, Tables, TablesTyped
  <2>3. row \in Template
    BY <2>1, <2>2 DEF Template
  <2>4. templates' = [templates EXCEPT ![t] = row]
    BY <1>3, <2>2
  <2>5. DOMAIN templates' = DOMAIN templates /\ templates' \in [DOMAIN templates' -> Template]
    <3>. HIDE DEF row, t
    <3>. QED  BY <2>2, <2>3, <2>4
  <2>. QED  BY <1>1, <1>3, <2>5, Finishing, TemplatesChange
<1>4. CASE Finish(c, "not_found") /\ UNCHANGED templates
  BY <1>1, <1>4, Answers DEF catalogTables
<1>. QED  BY <1>3, <1>4 DEF UpdateTemplate

LEMMA DeleteTemplateKeeps ==
    ASSUME Inv, NEW c \in Clients, DeleteTemplate(c), UNCHANGED storageVars
    PROVE  Inv'
<1>. DEFINE t == sent'[c].template
<1>1. /\ Sending(c) /\ UNCHANGED <<nodes, items, seen>>
      /\ \A d \in Clients : ~Touches(d, "valued", t)
      /\ templates' = Restrict(templates, DOMAIN templates \ {t})
      /\ rows' = {row \in rows : row.in = "valued" => row.other # t}
      /\ \E how \in {"ok", "not_found"} : Finish(c, how)
  BY Sends DEF Handle, DeleteTemplate
<1>. HIDE DEF t
<1>2. OwnStep(c) /\ Knows(c)' /\ step'[c] = "done" /\ c \notin ItemWriters'
  BY <1>1, Finishing
<1>3. /\ DOMAIN templates' = DOMAIN templates \ {t}
      /\ templates' \in [DOMAIN templates' -> Template]
  BY <1>1 DEF Restrict, Inv, Tables, TablesTyped
<1>4. TablesTyped'
  BY <1>1, <1>3 DEF Inv, Tables, TablesTyped
<1>5. IsTree(nodes)' /\ Fit(items, nodes)'
  BY <1>1 DEF Inv, Tables, IsTree, Fit
<1>6. UNCHANGED <<warehouses, pc>>
  BY DEF storageVars, tables
<1>7. ItemIsOneBodys'
  <2>1. ASSUME NEW i \in DOMAIN items, NEW e \in Clients, items[i].by = e
        PROVE  /\ {row.other : row \in OwnRows("placed", i)'} = sent'[e].warehouses \cap DOMAIN warehouses
               /\ {row.other : row \in OwnRows("valued", i)'} = Templates(sent'[e]) \cap DOMAIN templates'
    <3>1. /\ sent'[e] = sent[e]
          /\ {row.other : row \in OwnRows("placed", i)} = sent[e].warehouses \cap DOMAIN warehouses
          /\ {row.other : row \in OwnRows("valued", i)} = Templates(sent[e]) \cap DOMAIN templates
      BY <1>2, <2>1, BodyStands
    <3>2. OwnRows("placed", i)' = OwnRows("placed", i)
      BY <1>1 DEF OwnRows
    <3>3. OwnRows("valued", i)' = {row \in OwnRows("valued", i) : row.other # t}
      BY <1>1 DEF OwnRows
    <3>4. {row.other : row \in {row \in OwnRows("valued", i) : row.other # t}} =
              {row.other : row \in OwnRows("valued", i)} \ {t}
      OBVIOUS
    <3>. QED  BY <1>3, <3>1, <3>2, <3>3, <3>4
  <2>. QED  BY <1>1, <1>6, <2>1 DEF ItemIsOneBodys, Templates
<1>8. RowsReferToRows'
  BY <1>1, <1>3, <1>6 DEF Inv, Tables, RowsReferToRows, Relate
<1>9. Made'
  BY <1>1, <1>2, <1>3, MadeStands
<1>10. ASSUME NEW d \in Clients \ {c} PROVE Spares(d)
  BY <1>1, <1>2, <1>3, <1>6, PastStays DEF Spares
<1>. QED  BY <1>2, <1>4, <1>5, <1>7, <1>8, <1>9, <1>10, Writes DEF Tables

LEMMA DeleteItemKeeps ==
    ASSUME Inv, NEW c \in Clients, DeleteItem(c), UNCHANGED storageVars
    PROVE  Inv'
<1>. DEFINE i == sent'[c].item
<1>1. /\ Sending(c) /\ UNCHANGED <<nodes, templates, seen>>
      /\ \A d \in Clients : ~Writing(d, i)
      /\ items' = Restrict(items, DOMAIN items \ {i})
      /\ rows' = rows \ OwnRows("placed", i)
      /\ Finish(c, "ok")
  BY Sends DEF Handle, DeleteItem
<1>. HIDE DEF i
<1>2. OwnStep(c) /\ Knows(c)' /\ step'[c] = "done" /\ c \notin ItemWriters'
  BY <1>1, Finishing
<1>3. /\ DOMAIN items' = DOMAIN items \ {i} /\ items' \in [DOMAIN items' -> Item]
      /\ \A j \in DOMAIN items' : items'[j] = items[j]
  BY <1>1 DEF Restrict, Inv, Tables, TablesTyped
<1>4. TablesTyped'
  BY <1>1, <1>3 DEF Inv, Tables, TablesTyped
<1>5. IsTree(nodes)' /\ Fit(items, nodes)'
  <2>1. IsTree(nodes)'
    BY <1>1 DEF Inv, Tables
  <2>2. ASSUME NEW j \in DOMAIN items'
        PROVE  /\ items'[j].unit \in DOMAIN nodes' /\ nodes'[items'[j].unit].type = "unit"
               /\ items'[j].category # None =>
                     /\ items'[j].category \in DOMAIN nodes'
                     /\ nodes'[items'[j].category].type = "category"
                     /\ items'[j].path = nodes'[items'[j].category].path
    <3>1. j \in DOMAIN items /\ items'[j] = items[j] /\ nodes' = nodes
      BY <1>1, <1>3
    <3>2. Fit(items, nodes)
      BY DEF Inv, Tables
    <3>. QED  BY <3>1, <3>2 DEF Fit
  <2>. QED  BY <2>1, <2>2 DEF Fit
<1>6. UNCHANGED <<warehouses, pc>>
  BY DEF storageVars, tables
<1>7. ItemIsOneBodys'
  <2>1. ASSUME NEW j \in DOMAIN items', NEW e \in Clients, items'[j].by = e
        PROVE  /\ {row.other : row \in OwnRows("placed", j)'} = sent'[e].warehouses \cap DOMAIN warehouses
               /\ {row.other : row \in OwnRows("valued", j)'} = Templates(sent'[e]) \cap DOMAIN templates
    <3>1. j \in DOMAIN items /\ j # i /\ items[j].by = e
      BY <1>3, <2>1
    <3>2. /\ sent'[e] = sent[e]
          /\ {row.other : row \in OwnRows("placed", j)} = sent[e].warehouses \cap DOMAIN warehouses
          /\ {row.other : row \in OwnRows("valued", j)} = Templates(sent[e]) \cap DOMAIN templates
      BY <1>2, <3>1, BodyStands
    <3>3. OwnRows("placed", j)' = OwnRows("placed", j) /\ OwnRows("valued", j)' = OwnRows("valued", j)
      BY <1>1, <3>1 DEF OwnRows
    <3>. QED  BY <3>2, <3>3
  <2>. QED  BY <1>1, <1>6, <2>1 DEF ItemIsOneBodys, Templates
<1>8. RowsReferToRows'
  BY <1>1, <1>3, <1>6 DEF Inv, Tables, RowsReferToRows, Relate, OwnRows
<1>9. Made'
  BY <1>1, <1>2, <1>3, MadeStands
<1>10. ASSUME NEW d \in Clients \ {c} PROVE Spares(d)
  BY <1>1, <1>2, <1>3, <1>6, PastStays DEF Spares
<1>. QED  BY <1>2, <1>4, <1>5, <1>7, <1>8, <1>9, <1>10, Writes DEF Tables

LEMMA CommitsLinks ==
    ASSUME Inv, NEW c \in Clients, Commit(c), sent[c].op = "replaceLinks", UNCHANGED storageVars
    PROVE  Inv'
<1>1. /\ Sending(c) /\ UNCHANGED <<nodes, templates, items, seen, sent>>
      /\ rows' = (rows \ dropped[c]) \cup added[c]
      /\ \E how \in {"ok", "failed"} : Finish(c, how)
  BY Sends DEF Handle, Commit, ItemOps
<1>2. OwnStep(c) /\ Knows(c)' /\ step'[c] = "done" /\ c \notin ItemWriters'
  BY <1>1, Finishing
<1>3. \A row \in dropped[c] \cup added[c] : row.in = "linked"
  BY DEF Inv, Knows, Work
<1>4. TablesTyped'
  <2>1. \A row \in rows' : row.in \in Relations
    BY <1>1, <1>3 DEF Inv, Tables, TablesTyped, Relations
  <2>. QED  BY <1>1, <2>1 DEF Inv, Tables, TablesTyped
<1>5. IsTree(nodes)' /\ Fit(items, nodes)'
  BY <1>1 DEF Inv, Tables, IsTree, Fit
<1>6. UNCHANGED <<warehouses, pc>>
  BY DEF storageVars, tables
<1>7. ItemIsOneBodys'
  <2>1. ASSUME NEW i \in DOMAIN items, NEW e \in Clients, items[i].by = e
        PROVE  /\ {row.other : row \in OwnRows("placed", i)'} = sent'[e].warehouses \cap DOMAIN warehouses
               /\ {row.other : row \in OwnRows("valued", i)'} = Templates(sent'[e]) \cap DOMAIN templates
    <3>1. /\ sent'[e] = sent[e]
          /\ {row.other : row \in OwnRows("placed", i)} = sent[e].warehouses \cap DOMAIN warehouses
          /\ {row.other : row \in OwnRows("valued", i)} = Templates(sent[e]) \cap DOMAIN templates
      BY <1>2, <2>1, BodyStands
    <3>2. OwnRows("placed", i)' = OwnRows("placed", i) /\ OwnRows("valued", i)' = OwnRows("valued", i)
      BY <1>1, <1>3 DEF OwnRows
    <3>. QED  BY <3>1, <3>2
  <2>. QED  BY <1>1, <1>6, <2>1 DEF ItemIsOneBodys, Templates
<1>8. RowsReferToRows'
  BY <1>1, <1>3, <1>6 DEF Inv, Tables, RowsReferToRows, Relate
<1>9. Made'
  BY <1>1, <1>2, MadeStands
<1>10. ASSUME NEW d \in Clients \ {c} PROVE Spares(d)
  BY <1>1, <1>2, <1>3, <1>6, PastStays DEF Spares
<1>. QED  BY <1>2, <1>4, <1>5, <1>7, <1>8, <1>9, <1>10, Writes DEF Tables

\* What the transaction of an item knows when it commits.
LEMMA ReadyToCommit ==
    ASSUME Inv, NEW c \in Clients, step[c] = "commit", sent[c].op \in ItemOps
    PROVE  /\ c \in ItemWriters /\ NewItem(c) \in Item
           /\ ItemOf(c) \in ItemIds /\ ItemOf(c) \in DOMAIN items \cup {c}
           /\ sent[c].unit \in DOMAIN nodes /\ nodes[sent[c].unit].type = "unit"
           /\ sent[c].category # None =>
                 /\ sent[c].category \in DOMAIN nodes /\ nodes[sent[c].category].type = "category"
                 /\ nodes[sent[c].category].path = seen[c].path
           /\ sent[c].warehouses \subseteq DOMAIN warehouses
           /\ Templates(sent[c]) \subseteq DOMAIN templates
           /\ added[c] = Placed(c) \cup Valued(c)
           /\ OwnRows("placed", ItemOf(c)) \subseteq dropped[c]
           /\ OwnRows("valued", ItemOf(c)) \subseteq dropped[c]
           /\ \A row \in dropped[c] : row.in \in {"placed", "valued"} /\ row.owner = ItemOf(c)
<1>1. Knows(c) /\ c \in ItemWriters /\ sent[c].op # "replaceLinks"
  BY DEF Inv, ItemWriters, ItemOps
<1>2. Held(c) /\ UnitRead(c) /\ CategoryRead(c) /\ Work(c) /\ sent[c] \in Bodies
  BY <1>1 DEF Knows, OpAt
<1>3. sent[c] \in ItemBody \/ sent[c] \in ItemEdit
  BY <1>2, BodiesAreBodies DEF ItemOps
<1>4. sent[c].sku \in Skus /\ sent[c].unit \in NodeIds /\ sent[c].category \in NodeIds \cup {None}
  BY <1>3 DEF ItemBody, ItemEdit
<1>5. seen[c].path \in Seq(Codes)
  BY DEF Inv, ControlTyped
<1>6. NewItem(c) \in Item
  BY <1>4, <1>5 DEF NewItem, Item, Writers
<1>7. ItemOf(c) \in ItemIds
  BY <1>3 DEF ItemOf, ItemIds, ItemBody, ItemEdit
<1>8. /\ sent[c].unit \in DOMAIN nodes /\ nodes[sent[c].unit].type = "unit"
      /\ ItemOf(c) \in DOMAIN items \cup {c}
  BY <1>1, <1>2 DEF Held, UnitRead
<1>9. sent[c].category # None =>
        /\ sent[c].category \in DOMAIN nodes /\ nodes[sent[c].category].type = "category"
        /\ nodes[sent[c].category].path = seen[c].path
  BY <1>1, <1>2 DEF Held, CategoryRead
<1>. QED  BY <1>1, <1>2, <1>6, <1>7, <1>8, <1>9 DEF Work

LEMMA CommitsItem ==
    ASSUME Inv, NEW c \in Clients, Commit(c), sent[c].op \in ItemOps, UNCHANGED storageVars
    PROVE  Inv'
<1>. DEFINE i == ItemOf(c)
            new == NewItem(c)
<1>1. /\ Sending(c) /\ UNCHANGED <<nodes, templates, seen, sent>> /\ step[c] = "commit"
      /\ rows' = (rows \ dropped[c]) \cup added[c]
      /\ items' = With(items, i, new)
      /\ \E how \in {"ok", "failed"} : Finish(c, how)
  BY Sends DEF Handle, Commit
<1>2. OwnStep(c) /\ Knows(c)' /\ step'[c] = "done" /\ c \notin ItemWriters'
  BY <1>1, Finishing
<1>3. UNCHANGED <<warehouses, pc>>
  BY DEF storageVars, tables
<1>4. new.unit = sent[c].unit /\ new.category = sent[c].category /\ new.by = c
      /\ (sent[c].category # None => new.path = seen[c].path)
  BY DEF NewItem
<1>5. c \in ItemWriters /\ new \in Item /\ i \in ItemIds /\ i \in DOMAIN items \cup {c}
  BY <1>1, ReadyToCommit
<1>6. /\ DOMAIN items' = DOMAIN items \cup {i} /\ items'[i] = new
      /\ items' \in [DOMAIN items' -> Item]
      /\ \A j \in DOMAIN items \ {i} : items'[j] = items[j]
  <2>. HIDE DEF new, i
  <2>. QED  BY <1>1, <1>5 DEF With, Inv, Tables, TablesTyped
<1>7. \A row \in Placed(c) : row.in = "placed" /\ row.owner = i /\ row.other \in sent[c].warehouses
  BY DEF Placed, Related
<1>8. \A row \in Valued(c) : row.in = "valued" /\ row.owner = i /\ row.other \in Templates(sent[c])
  BY DEF Valued, Related
<1>9. TablesTyped'
  <2>1. \A row \in rows' : row.in \in Relations
    BY <1>1, <1>7, <1>8, ReadyToCommit DEF Inv, Tables, TablesTyped, Relations
  <2>2. DOMAIN items' \subseteq ItemIds
    BY <1>5, <1>6 DEF Inv, Tables, TablesTyped
  <2>. QED  BY <1>1, <1>6, <2>1, <2>2 DEF Inv, Tables, TablesTyped
<1>10. IsTree(nodes)'
  BY <1>1 DEF Inv, Tables, IsTree
<1>11. Fit(items, nodes)'
  <2>1. \A j \in DOMAIN items :
            /\ items[j].unit \in DOMAIN nodes /\ nodes[items[j].unit].type = "unit"
            /\ items[j].category # None =>
                  /\ items[j].category \in DOMAIN nodes
                  /\ nodes[items[j].category].type = "category"
                  /\ items[j].path = nodes[items[j].category].path
    BY DEF Inv, Tables, Fit
  <2>2. /\ new.unit \in DOMAIN nodes /\ nodes[new.unit].type = "unit"
        /\ new.category # None =>
              /\ new.category \in DOMAIN nodes /\ nodes[new.category].type = "category"
              /\ new.path = nodes[new.category].path
    <3>. HIDE DEF new
    <3>. QED  BY <1>1, <1>4, ReadyToCommit
  <2>. HIDE DEF new, i
  <2>. QED  BY <1>1, <1>6, <2>1, <2>2 DEF Fit
<1>12. {row.other : row \in Placed(c)} = sent[c].warehouses
  <2>1. ASSUME NEW o \in sent[c].warehouses PROVE \E row \in Placed(c) : row.other = o
    <3>1. Related("placed", i, o) \in Placed(c) /\ Related("placed", i, o).other = o
      BY DEF Placed, Related
    <3>. QED  BY <3>1
  <2>. QED  BY <1>7, <2>1
<1>13. {row.other : row \in Valued(c)} = Templates(sent[c])
  <2>1. ASSUME NEW o \in Templates(sent[c]) PROVE \E row \in Valued(c) : row.other = o
    <3>1. Related("valued", i, o) \in Valued(c) /\ Related("valued", i, o).other = o
      BY DEF Valued, Related
    <3>. QED  BY <3>1
  <2>. QED  BY <1>8, <2>1
<1>14. ItemIsOneBodys'
  <2>1. OwnRows("placed", i)' = Placed(c) /\ OwnRows("valued", i)' = Valued(c)
    <3>1. i' = i
      BY <1>1 DEF ItemOf
    <3>. HIDE DEF i
    <3>. QED  BY <1>1, <1>7, <1>8, <3>1, ReadyToCommit DEF OwnRows, i
  <2>2. ASSUME NEW j \in DOMAIN items', NEW e \in Clients, items'[j].by = e
        PROVE  /\ {row.other : row \in OwnRows("placed", j)'} = sent'[e].warehouses \cap DOMAIN warehouses
               /\ {row.other : row \in OwnRows("valued", j)'} = Templates(sent'[e]) \cap DOMAIN templates
    <3>1. CASE j = i
      <4>1. e = c /\ sent'[e] = sent[c]
        BY <1>1, <1>4, <1>6, <2>2, <3>1
      <4>2. OwnRows("placed", j)' = Placed(c) /\ OwnRows("valued", j)' = Valued(c)
        BY <1>1, <2>1, <3>1 DEF OwnRows, ItemOf
      <4>. QED  BY <1>1, <1>12, <1>13, <4>1, <4>2, ReadyToCommit
    <3>2. CASE j # i
      <4>1. j \in DOMAIN items /\ items[j].by = e
        BY <1>6, <2>2, <3>2
      <4>2. /\ sent'[e] = sent[e]
            /\ {row.other : row \in OwnRows("placed", j)} = sent[e].warehouses \cap DOMAIN warehouses
            /\ {row.other : row \in OwnRows("valued", j)} = Templates(sent[e]) \cap DOMAIN templates
        BY <1>2, <4>1, BodyStands
      <4>3. OwnRows("placed", j)' = OwnRows("placed", j) /\ OwnRows("valued", j)' = OwnRows("valued", j)
        BY <1>1, <1>7, <1>8, <3>2, ReadyToCommit DEF OwnRows
      <4>. QED  BY <4>2, <4>3
    <3>. QED  BY <3>1, <3>2
  <2>. QED  BY <1>1, <1>3, <2>2 DEF ItemIsOneBodys, Templates
<1>15. RowsReferToRows'
  <2>1. \A row \in rows :
            /\ row.in = "placed" => row.owner \in DOMAIN items /\ row.other \in DOMAIN warehouses
            /\ row.in = "valued" => row.other \in DOMAIN templates
    BY DEF Inv, Tables, RowsReferToRows, Relate
  <2>2. \A row \in rows' :
            /\ row.in = "placed" => row.owner \in DOMAIN items' /\ row.other \in DOMAIN warehouses
            /\ row.in = "valued" => row.other \in DOMAIN templates
    <3>. HIDE DEF i
    <3>. QED  BY <1>1, <1>6, <1>7, <1>8, <2>1, ReadyToCommit
  <2>. QED  BY <1>1, <1>3, <2>2 DEF RowsReferToRows, Relate
<1>16. Made'
  <2>1. /\ \A w \in sent[c].warehouses : PastWarehouse(w)
        /\ \A t \in Templates(sent[c]) : Past(t)
    BY <1>1, ReadyToCommit DEF Inv, Tables, Made
  <2>2. \A j \in DOMAIN items' : j \in DOMAIN items \/ j = c
    BY <1>5, <1>6
  <2>3. \A j \in DOMAIN items' :
           \/ j \in DOMAIN items /\ items'[j].by = items[j].by
           \/ items'[j].by = c /\ step[c] # "idle" /\ sent[c].op \in ItemOps
    BY <1>1, <1>4, <1>6
  <2>. HIDE DEF i, new
  <2>. QED  BY <1>1, <1>2, <2>1, <2>2, <2>3, MadeStands
<1>17. ASSUME NEW d \in Clients \ {c} PROVE Spares(d)
  <2>1. ~Writing(d, i)
    BY <1>5 DEF Inv, OneWriter, Writing
  <2>2. \A row \in rows' \ rows : row.owner = i
    BY <1>1, <1>7, <1>8, ReadyToCommit
  <2>. HIDE DEF i
  <2>. QED  BY <1>1, <1>2, <1>3, <1>6, <2>1, <2>2, PastStays DEF Spares
<1>. QED  BY <1>2, <1>9, <1>10, <1>11, <1>14, <1>15, <1>16, <1>17, Writes DEF Tables

LEMMA HandleKeeps ==
    ASSUME Inv, NEW c \in Clients, Handle(c), UNCHANGED storageVars
    PROVE  Inv'
<1>1. CASE Commit(c)
  <2>1. step[c] = "commit"
    BY <1>1 DEF Commit
  <2>2. sent[c].op \in ItemOps \cup {"replaceLinks"}
    BY <2>1 DEF Inv, Knows, OpAt
  <2>. QED  BY <1>1, <2>2, CommitsItem, CommitsLinks
<1>2. CASE CreateNode(c) \/ InsertNode(c) \/ ReadNode(c) \/ UpdateNode(c) \/ DeleteNode(c)
  BY <1>2, CreateNodeKeeps, InsertNodeKeeps, ReadNodeKeeps, UpdateNodeKeeps, DeleteNodeKeeps
<1>3. CASE CreateTemplate(c) \/ UpdateTemplate(c) \/ DeleteTemplate(c)
  BY <1>3, CreateTemplateKeeps, UpdateTemplateKeeps, DeleteTemplateKeeps
<1>4. CASE StartItem(c) \/ ReadCategory(c) \/ ValidateItemAttributes(c) \/ WriteItem(c)
  BY <1>4, StartItemKeeps, ReadCategoryKeeps, ValidateKeeps, WriteItemKeeps
<1>5. CASE ReplaceItemWarehouses(c) \/ ReplaceAttributeValues(c) \/ DeleteItem(c)
  BY <1>5, ReplaceWarehousesKeeps, ReplaceValuesKeeps, DeleteItemKeeps
<1>6. CASE ReplaceCatalogLinks(c) \/ CleanupLinks(c) \/ InsertLink(c) \/ Abort(c)
  BY <1>6, ReplaceLinksKeeps, CleanupLinksKeeps, InsertLinkKeeps, AbortKeeps
<1>. QED  BY <1>1, <1>2, <1>3, <1>4, <1>5, <1>6 DEF Handle
-------------------------------------------------------------------------------
(* Steps of the warehouses. *)

\* A new warehouse is named by a request that has just begun; requests never return to the start.
LEMMA ServeWarehouses ==
    ASSUME HandlersFit, NEW r \in Requests, Serve(r)
    PROVE  /\ \A w \in DOMAIN warehouses' : w \in DOMAIN warehouses \/ (w = r /\ ~PastWarehouse(r))
           /\ \A w : PastWarehouse(w) => PastWarehouse(w)'
           /\ PastWarehouse(r)'
<1>1. \E l \in {"change", "log", "done"} : pc' = [pc EXCEPT ![r] = l]
  <2>. USE DEF Reply, Goto
  <2>1. CASE Refuse(r) \/ Break(r) \/ CreateWarehouse(r) \/ UpdateWarehouse(r) \/ DeleteWarehouse(r)
    BY <2>1 DEF Refuse, Break, CreateWarehouse, UpdateWarehouse, DeleteWarehouse
  <2>2. CASE CreateZone(r) \/ UpdateZone(r) \/ DeleteZone(r)
    BY <2>2 DEF CreateZone, UpdateZone, DeleteZone
  <2>3. CASE CreateCell(r) \/ GetCell(r) \/ UpdateCell(r) \/ DeleteCell(r) \/ LogCellHistory(r)
    BY <2>3 DEF CreateCell, GetCell, UpdateCell, DeleteCell, LogCellHistory
  <2>4. CASE CreateEquipment(r) \/ UpdateEquipment(r) \/ DeleteEquipment(r)
    BY <2>4 DEF CreateEquipment, UpdateEquipment, DeleteEquipment
  <2>5. CASE AssignEquipment(r) \/ UnassignEquipment(r)
    BY <2>5 DEF AssignEquipment, UnassignEquipment
  <2>. QED  BY <2>1, <2>2, <2>3, <2>4, <2>5 DEF Serve
<1>2. pc \in [Requests -> {"idle", "change", "log", "done"}]
  BY DEF HandlersFit
<1>3. PastWarehouse(r)' /\ \A w : PastWarehouse(w) => PastWarehouse(w)'
  BY <1>1, <1>2 DEF PastWarehouse
<1>4. ASSUME NEW w \in DOMAIN warehouses', w \notin DOMAIN warehouses
      PROVE  w = r /\ ~PastWarehouse(r)
  <2>1. CASE UNCHANGED warehouses
    BY <1>4, <2>1
  <2>2. CASE CreateWarehouse(r)
    BY <1>4, <2>2 DEF CreateWarehouse, With, PastWarehouse
  <2>3. CASE UpdateWarehouse(r)
    BY <1>4, <2>3 DEF UpdateWarehouse
  <2>4. CASE DeleteWarehouse(r)
    BY <1>4, <2>4 DEF DeleteWarehouse, Cascade, Restrict
  <2>5. CASE DeleteZone(r)
    BY <1>4, <2>5 DEF DeleteZone, Cascade, Restrict
  <2>6. CASE DeleteCell(r)
    BY <1>4, <2>6 DEF DeleteCell, Cascade, Restrict
  <2>7. CASE DeleteEquipment(r)
    BY <1>4, <2>7 DEF DeleteEquipment, Cascade, Restrict
  <2>8. CASE Refuse(r) \/ Break(r) \/ CreateZone(r) \/ UpdateZone(r) \/ CreateCell(r) \/ GetCell(r)
    BY <2>1, <2>8 DEF Refuse, Break, CreateZone, UpdateZone, CreateCell, GetCell, tables
  <2>9. CASE UpdateCell(r) \/ LogCellHistory(r) \/ CreateEquipment(r) \/ UpdateEquipment(r)
    BY <2>1, <2>9 DEF UpdateCell, LogCellHistory, CreateEquipment, UpdateEquipment
  <2>10. CASE AssignEquipment(r) \/ UnassignEquipment(r)
    BY <2>1, <2>10 DEF AssignEquipment, UnassignEquipment
  <2>. QED  BY <2>2, <2>3, <2>4, <2>5, <2>6, <2>7, <2>8, <2>9, <2>10 DEF Serve
<1>. QED  BY <1>3, <1>4

LEMMA StorageStepKeeps ==
    ASSUME Inv, NEW r \in Requests, StorageStep(r)
    PROVE  Inv'
<1>1. /\ Serve(r) /\ UNCHANGED <<nodes, templates, items, seen, dropped, added, step, sent, got>>
      /\ \A w \in DOMAIN warehouses \ DOMAIN warehouses', c \in Clients : ~Touches(c, "placed", w)
      /\ rows' = {row \in rows : row.in = "placed" => row.other \in DOMAIN warehouses'}
  BY DEF StorageStep, work
<1>2. Good' /\ HandlersFit'
  BY <1>1, StepGood DEF Inv, StorageNext
<1>3. /\ \A w \in DOMAIN warehouses' : w \in DOMAIN warehouses \/ (w = r /\ ~PastWarehouse(r))
      /\ \A w : PastWarehouse(w) => PastWarehouse(w)'
      /\ PastWarehouse(r)'
  BY <1>1, ServeWarehouses DEF Inv
<1>4. \A n : Past(n)' <=> Past(n)
  BY <1>1 DEF Past
<1>5. TablesTyped' /\ IsTree(nodes)' /\ Fit(items, nodes)' /\ ControlTyped'
  BY <1>1 DEF Inv, Tables, TablesTyped, IsTree, Fit, ControlTyped
<1>6. OneWriter'
  BY <1>1 DEF Inv, OneWriter, ItemWriters, ItemOf
<1>7. Made'
  <2>1. \A w \in DOMAIN warehouses' : PastWarehouse(w)'
    BY <1>3 DEF Inv, Tables, Made
  <2>2. \A n \in DOMAIN nodes \cup DOMAIN templates \cup DOMAIN items : Past(n)'
    BY <1>4 DEF Inv, Tables, Made
  <2>3. ASSUME NEW i \in DOMAIN items, NEW e \in Clients, items[i].by = e
        PROVE  /\ Past(e)' /\ sent[e].op \in ItemOps
               /\ \A w \in sent[e].warehouses : PastWarehouse(w)'
               /\ \A t \in Templates(sent[e]) : Past(t)'
    BY <1>3, <1>4, <2>3 DEF Inv, Tables, Made
  <2>. QED  BY <1>1, <2>1, <2>2, <2>3 DEF Made, Past, PastWarehouse, Templates
<1>8. ItemIsOneBodys'
  <2>1. ASSUME NEW i \in DOMAIN items, NEW e \in Clients, items[i].by = e
        PROVE  /\ {row.other : row \in OwnRows("placed", i)'} = sent[e].warehouses \cap DOMAIN warehouses'
               /\ {row.other : row \in OwnRows("valued", i)'} = Templates(sent[e]) \cap DOMAIN templates
    <3>1. /\ {row.other : row \in OwnRows("placed", i)} = sent[e].warehouses \cap DOMAIN warehouses
          /\ {row.other : row \in OwnRows("valued", i)} = Templates(sent[e]) \cap DOMAIN templates
      BY <2>1 DEF Inv, Tables, ItemIsOneBodys, Templates
    <3>2. \A w \in sent[e].warehouses : PastWarehouse(w)
      BY <2>1 DEF Inv, Tables, Made
    <3>3. sent[e].warehouses \cap DOMAIN warehouses' =
              (sent[e].warehouses \cap DOMAIN warehouses) \cap DOMAIN warehouses'
      BY <1>3, <3>2
    <3>4. OwnRows("placed", i)' = {row \in OwnRows("placed", i) : row.other \in DOMAIN warehouses'}
      BY <1>1 DEF OwnRows
    <3>5. {row.other : row \in {row \in OwnRows("placed", i) : row.other \in DOMAIN warehouses'}} =
              {row.other : row \in OwnRows("placed", i)} \cap DOMAIN warehouses'
      OBVIOUS
    <3>6. OwnRows("valued", i)' = OwnRows("valued", i)
      BY <1>1 DEF OwnRows
    <3>. QED  BY <3>1, <3>3, <3>4, <3>5, <3>6
  <2>2. UNCHANGED <<items, sent, templates>>
    BY <1>1
  <2>3. ASSUME NEW i \in DOMAIN items', NEW e \in Clients, items'[i].by = e
        PROVE  /\ {row.other : row \in OwnRows("placed", i)'} = sent'[e].warehouses \cap DOMAIN warehouses'
               /\ {row.other : row \in OwnRows("valued", i)'} =
                      {sent'[e].attributes[a].template : a \in DOMAIN sent'[e].attributes} \cap DOMAIN templates'
    BY <2>1, <2>2, <2>3 DEF Templates
  <2>. QED  BY <2>3 DEF ItemIsOneBodys
<1>9. RowsReferToRows'
  BY <1>1 DEF Inv, Tables, RowsReferToRows, Relate
<1>10. ASSUME NEW d \in Clients PROVE Knows(d)'
  <2>1. Stays(d)
    BY <1>1 DEF Stays
  <2>2. Spares(d)
    BY <1>1, <1>4 DEF Spares
  <2>. QED  BY <2>1, <2>2, Undisturbed
<1>. QED  BY <1>2, <1>5, <1>6, <1>7, <1>8, <1>9, <1>10 DEF Inv, Tables
-------------------------------------------------------------------------------
LEMMA InitInv == Init => Inv
<1>. SUFFICES ASSUME Init PROVE Inv
  OBVIOUS
<1>. USE DEF Init
<1>1. Good /\ HandlersFit
  BY InitGood
<1>2. TablesTyped
  BY CatalogSeedFits DEF TablesTyped, NodeIds, TemplateIds, ItemIds
<1>3. IsTree(nodes) /\ Fit(items, nodes)
  BY CatalogSeedFits
<1>4. RowsReferToRows
  BY CatalogSeedFits DEF RowsReferToRows, StorageInit
<1>5. ItemIsOneBodys
  BY CatalogSeedFits DEF ItemIsOneBodys
<1>6. Made
  <2>1. \A n \in DOMAIN nodes \cup DOMAIN templates \cup DOMAIN items : Past(n)
    BY IdsAreFresh DEF Past
  <2>2. \A w \in DOMAIN warehouses : PastWarehouse(w)
    BY IdsAreFresh DEF PastWarehouse, StorageInit
  <2>. QED  BY <2>1, <2>2, CatalogSeedFits DEF Made
<1>7. ControlTyped
  <2>1. Nothing \in [path : Seq(Codes), level : Nat]
    BY DEF Nothing
  <2>. QED  BY <2>1 DEF ControlTyped
<1>8. ItemWriters = {}
  BY DEF ItemWriters
<1>9. ASSUME NEW c \in Clients PROVE Knows(c)
  BY <1>8 DEF Knows, OpAt, ParentRead, UnitRead, CategoryRead, Held, Work
<1>. QED  BY <1>1, <1>2, <1>3, <1>4, <1>5, <1>6, <1>7, <1>8, <1>9 DEF Inv, Tables, OneWriter

LEMMA NextInv == Inv /\ [Next]_vars => Inv'
<1>. SUFFICES ASSUME Inv, [Next]_vars PROVE Inv'
  OBVIOUS
<1>1. CASE UNCHANGED vars
  <2>1. UNCHANGED <<nodes, templates, items, rows, seen, dropped, added, step, sent, got>>
        /\ UNCHANGED <<storageVars, warehouses, pc>>
    BY <1>1 DEF vars, catalogVars, catalogTables, work, storageVars, tables
  <2>2. Good' /\ HandlersFit'
    BY <2>1, StepGood DEF Inv
  <2>3. TablesTyped' /\ IsTree(nodes)' /\ Fit(items, nodes)' /\ ControlTyped'
    BY <2>1 DEF Inv, Tables, TablesTyped, IsTree, Fit, ControlTyped
  <2>4. OneWriter'
    BY <2>1 DEF Inv, OneWriter, ItemWriters, ItemOf
  <2>5. Made'
    BY <2>1 DEF Inv, Tables, Made, Past, PastWarehouse, Templates
  <2>6. ItemIsOneBodys'
    BY <2>1 DEF Inv, Tables, ItemIsOneBodys, OwnRows
  <2>7. RowsReferToRows'
    BY <2>1 DEF Inv, Tables, RowsReferToRows, Relate
  <2>8. ASSUME NEW d \in Clients PROVE Knows(d)'
    <3>1. Stays(d)
      BY <2>1 DEF Stays
    <3>2. Spares(d)
      BY <2>1 DEF Spares, Past
    <3>. QED  BY <3>1, <3>2, Undisturbed
  <2>. QED  BY <2>2, <2>3, <2>4, <2>5, <2>6, <2>7, <2>8 DEF Inv, Tables
<1>2. ASSUME NEW r \in Requests, StorageStep(r) PROVE Inv'
  BY <1>2, StorageStepKeeps
<1>3. ASSUME NEW c \in Clients, Handle(c), UNCHANGED storageVars PROVE Inv'
  BY <1>3, HandleKeeps
<1>. QED  BY <1>1, <1>2, <1>3 DEF Next

LEMMA TypesFollow == Inv => TypeOK
<1>. SUFFICES ASSUME Inv PROVE TypeOK
  OBVIOUS
<1>1. StorageTypeOK
  BY DEF Inv, Good, TablesFit, HandlersFit, StorageTypeOK
<1>2. ASSUME NEW c \in Clients, NEW row \in dropped[c] \cup added[c] PROVE row.in \in Relations
  BY <1>2 DEF Inv, Knows, Work, Relations
<1>. QED  BY <1>1, <1>2 DEF Inv, Tables, TablesTyped, ControlTyped, TypeOK
\* No zone, cell, piece of equipment, assignment or history entry refers to a row that is gone,
\* with the catalogue at work beside the warehouses.
THEOREM NothingDanglesBesideCatalog == Spec => []NothingDangles
<1>1. Inv => NothingDangles
  BY DEF Inv, Good
<1>. QED  BY InitInv, NextInv, <1>1, PTL DEF Spec

\* Every variable keeps its type, whatever the catalogue and the warehouses do at once.
THEOREM CatalogTypeCorrect == Spec => []TypeOK
BY InitInv, NextInv, TypesFollow, PTL DEF Spec

\* The nodes stay a tree: a node with a parent is of its type, one level below it and on its
\* path, however many clients make and delete nodes between a look-up and its INSERT.
THEOREM CatalogStaysATree == Spec => []CatalogIsATree
<1>1. Inv => CatalogIsATree
  BY DEF Inv, Tables, CatalogIsATree
<1>. QED  BY InitInv, NextInv, <1>1, PTL DEF Spec

\* Every item has a unit that is one, and shows the path of its category.
THEOREM ItemsStayFit == Spec => []ItemsFitCatalog
<1>1. Inv => ItemsFitCatalog
  BY DEF Inv, Tables, ItemsFitCatalog
<1>. QED  BY InitInv, NextInv, <1>1, PTL DEF Spec

\* Transactions that write one item never mix: its places and values are those of the body
\* that its row shows, less what was deleted since.
THEOREM OneBodyPerItem == Spec => []ItemIsOneBodys
<1>1. Inv => ItemIsOneBodys
  BY DEF Inv, Tables
<1>. QED  BY InitInv, NextInv, <1>1, PTL DEF Spec

\* Places and values refer to items, warehouses and templates that exist, whichever is deleted
\* while a transaction adds the row.
THEOREM RowsAlwaysRefer == Spec => []RowsReferToRows
<1>1. Inv => RowsReferToRows
  BY DEF Inv, Tables
<1>. QED  BY InitInv, NextInv, <1>1, PTL DEF Spec
-------------------------------------------------------------------------------
(* Links. *)

\* The first n links of a body.
Firsts(c, n) == {Link(sent[c].left, sent[c].rights[k], c) : k \in 1 .. n}

\* A replacement between its DELETE and its commit.
Replacing(c) == step[c] \in {"cleanup", "link", "commit"} /\ sent[c].op = "replaceLinks"

\* What it has inserted is a beginning of its body, each link once.
Inserted(c) ==
    \E n \in 0 .. Len(sent[c].rights) :
        /\ added[c] = Firsts(c, n) /\ IsFiniteSet(added[c]) /\ Cardinality(added[c]) = n
        /\ step[c] = "cleanup" => n = 0
        /\ step[c] = "commit" => n = Len(sent[c].rights)

\* What it deletes are links of its item that others had committed: all of the seed, and of each
\* other replacement what is there or nothing.
Deleted(c) ==
    /\ \A row \in dropped[c] :
          row.in = "linked" /\ row.owner = sent[c].left /\ (row.by \in Clients => step[row.by] = "done")
    /\ LinksBy(sent[c].left, "seed") \subseteq dropped[c]
    /\ \A w \in Clients : \/ LinksBy(sent[c].left, w) \subseteq dropped[c]
                          \/ LinksBy(sent[c].left, w) \cap dropped[c] = {}

LinkWork(c) == Replacing(c) => Inserted(c) /\ Deleted(c)

\* Links that are there are those of replacements that are through, each whole.
Whole(i, w) ==
    LinksBy(i, w) # {} =>
        /\ sent[w].op = "replaceLinks" /\ sent[w].left = i
        /\ {row.other : row \in LinksBy(i, w)} = {sent[w].rights[k] : k \in DOMAIN sent[w].rights}
        /\ LinksBy(i, "seed") = {}

LinksFit ==
    /\ \A row \in rows : row.in = "linked" /\ row.by \in Clients => step[row.by] = "done"
    /\ \A i : \A w \in Clients : Whole(i, w)

LinksInv == LinksFit /\ \A c \in Clients : LinkWork(c)

LEMMA LinksFollow == LinksInv => LinksComeAndGoTogether
BY DEF LinksInv, LinksFit, Whole, LinksComeAndGoTogether

LEMMA InitLinks == Init => LinksInv
<1>. SUFFICES ASSUME Init PROVE LinksInv
  OBVIOUS
<1>1. \A row \in rows : row.in = "linked" => row.by \notin Clients
  BY CatalogSeedFits, IdsAreFresh DEF Init
<1>2. \A i : \A w \in Clients : LinksBy(i, w) = {}
  BY <1>1 DEF LinksBy, OwnRows
<1>3. \A c \in Clients : ~Replacing(c)
  BY DEF Init, Replacing
<1>. QED  BY <1>1, <1>2, <1>3 DEF LinksInv, LinksFit, Whole, LinkWork

\* Handlers that are through stay so, with their bodies.
ThroughStays == \A d \in Clients : step[d] = "done" => step'[d] = "done" /\ sent'[d] = sent[d]

\* The links of an item by one writer: as they were, or gone.
KeptOrGone(i, w) == LinksBy(i, w)' = LinksBy(i, w) \/ LinksBy(i, w)' = {}

LEMMA WholeStays ==
    ASSUME ThroughStays, LinksFit, NEW i, NEW w \in Clients, KeptOrGone(i, w),
           LinksBy(i, "seed")' \subseteq LinksBy(i, "seed")
    PROVE  Whole(i, w)'
<1>1. SUFFICES ASSUME LinksBy(i, w)' # {} PROVE Whole(i, w)'
  BY DEF Whole
<1>2. LinksBy(i, w)' = LinksBy(i, w) /\ LinksBy(i, w) # {}
  BY <1>1 DEF KeptOrGone
<1>3. PICK row \in rows : row.in = "linked" /\ row.by = w
  BY <1>2 DEF LinksBy, OwnRows
<1>4. sent'[w] = sent[w]
  BY <1>3 DEF LinksFit, ThroughStays
<1>5. Whole(i, w)
  BY DEF LinksFit
<1>. QED  BY <1>2, <1>4, <1>5 DEF Whole

\* What a step may do to the links a replacement is about without its notice.
LEMMA LinkWorkStays ==
    ASSUME ThroughStays, NEW c \in Clients, Stays(c), LinkWork(c),
           LinksBy(sent[c].left, "seed")' \subseteq LinksBy(sent[c].left, "seed"),
           \A w \in Clients : \/ KeptOrGone(sent[c].left, w)
                             \/ LinksBy(sent[c].left, w)' \cap dropped[c] = {}
    PROVE  LinkWork(c)'
<1>1. SUFFICES ASSUME Replacing(c) PROVE Inserted(c)' /\ Deleted(c)'
  BY DEF LinkWork, Replacing, Stays
<1>2. Inserted(c)'
  <2>1. \A n : Firsts(c, n)' = Firsts(c, n)
    BY DEF Firsts, Stays
  <2>. QED  BY <1>1, <2>1 DEF LinkWork, Inserted, Stays
<1>3. Deleted(c)'
  <2>1. Deleted(c)
    BY <1>1 DEF LinkWork
  <2>2. \A row \in dropped[c] :
           row.in = "linked" /\ row.owner = sent[c].left /\ (row.by \in Clients => step'[row.by] = "done")
    BY <2>1 DEF Deleted, ThroughStays
  <2>3. LinksBy(sent[c].left, "seed")' \subseteq dropped[c]
    BY <2>1 DEF Deleted
  <2>4. ASSUME NEW w \in Clients
        PROVE  \/ LinksBy(sent[c].left, w)' \subseteq dropped[c]
               \/ LinksBy(sent[c].left, w)' \cap dropped[c] = {}
    BY <2>1 DEF Deleted, KeptOrGone
  <2>. QED  BY <2>2, <2>3, <2>4 DEF Deleted, Stays
<1>. QED  BY <1>2, <1>3

\* A handler's step is its own.
LEMMA OneHandled ==
    ASSUME Inv, NEW c \in Clients, Handle(c)
    PROVE  step[c] # "done" /\ \A d \in Clients \ {c} : Stays(d)
<1>1. Sending(c)
  BY Sends
<1>2. \A d \in Clients \ {c} : sent'[d] = sent[d]
  BY <1>1, Sent
<1>3. step[c] # "done"
  BY <1>1 DEF Sending
<1>4. DOMAIN step = Clients /\ DOMAIN seen = Clients /\ DOMAIN dropped = Clients /\ DOMAIN added = Clients
  BY DEF Inv, ControlTyped
<1>. DEFINE Alone == \A d \in Clients \ {c} :
                        /\ step'[d] = step[d] /\ seen'[d] = seen[d]
                        /\ dropped'[d] = dropped[d] /\ added'[d] = added[d]
<1>. USE DEF Finish, MoveTo, catalogTables, work
<1>5. CASE CreateNode(c) \/ InsertNode(c) \/ ReadNode(c) \/ UpdateNode(c) \/ DeleteNode(c)
  <2>1. Alone
    BY <1>4, <1>5 DEF CreateNode, InsertNode, ReadNode, UpdateNode, DeleteNode
  <2>. QED  BY <1>2, <1>3, <2>1 DEF Stays
<1>6. CASE CreateTemplate(c) \/ UpdateTemplate(c) \/ DeleteTemplate(c)
  <2>1. Alone
    BY <1>4, <1>6 DEF CreateTemplate, UpdateTemplate, DeleteTemplate
  <2>. QED  BY <1>2, <1>3, <2>1 DEF Stays
<1>7. CASE StartItem(c) \/ ReadCategory(c) \/ ValidateItemAttributes(c) \/ WriteItem(c)
  <2>1. Alone
    BY <1>4, <1>7 DEF StartItem, ReadCategory, ValidateItemAttributes, WriteItem
  <2>. QED  BY <1>2, <1>3, <2>1 DEF Stays
<1>8. CASE ReplaceItemWarehouses(c) \/ ReplaceAttributeValues(c) \/ Commit(c) \/ DeleteItem(c)
  <2>1. Alone
    BY <1>4, <1>8 DEF ReplaceItemWarehouses, ReplaceAttributeValues, Replace, Commit, DeleteItem
  <2>. QED  BY <1>2, <1>3, <2>1 DEF Stays
<1>9. CASE ReplaceCatalogLinks(c) \/ CleanupLinks(c) \/ InsertLink(c) \/ Abort(c)
  <2>1. Alone
    BY <1>4, <1>9 DEF ReplaceCatalogLinks, CleanupLinks, InsertLink, Abort
  <2>. QED  BY <1>2, <1>3, <2>1 DEF Stays
<1>. QED  BY <1>5, <1>6, <1>7, <1>8, <1>9 DEF Handle

LEMMA OneThrough ==
    ASSUME Inv, NEW c \in Clients, Handle(c)
    PROVE  ThroughStays
BY OneHandled DEF ThroughStays, Stays

\* A step that is not about links.
LEMMA LinksAlone ==
    ASSUME LinksInv, ThroughStays, \A row : row.in = "linked" => (row \in rows' <=> row \in rows),
           \A c \in Clients : Stays(c) \/ ~Replacing(c)'
    PROVE  LinksInv'
<1>1. \A i, w : LinksBy(i, w)' = LinksBy(i, w)
  BY DEF LinksBy, OwnRows
<1>2. LinksFit'
  <2>1. \A i : \A w \in Clients : Whole(i, w)'
    BY <1>1, WholeStays DEF LinksInv, KeptOrGone
  <2>. QED  BY <2>1 DEF LinksInv, LinksFit, ThroughStays
<1>3. ASSUME NEW c \in Clients PROVE LinkWork(c)'
  <2>1. CASE ~Replacing(c)'
    BY <2>1 DEF LinkWork
  <2>2. CASE Stays(c)
    <3>1. LinkWork(c) /\ LinksBy(sent[c].left, "seed")' \subseteq LinksBy(sent[c].left, "seed")
      BY <1>1, <2>2 DEF LinksInv, Stays
    <3>2. \A w \in Clients : KeptOrGone(sent[c].left, w)
      BY <1>1, <2>2 DEF KeptOrGone, Stays
    <3>. QED  BY <2>2, <3>1, <3>2, LinkWorkStays
  <2>. QED  BY <2>1, <2>2
<1>. QED  BY <1>2, <1>3 DEF LinksInv

\* Handlers of nodes, templates and items, and whoever gives up.
LEMMA OtherHandlers ==
    ASSUME Inv, LinksInv, NEW c \in Clients, Handle(c),
           ~ReplaceCatalogLinks(c), ~CleanupLinks(c), ~InsertLink(c), ~(Commit(c) /\ sent[c].op = "replaceLinks")
    PROVE  LinksInv'
<1>. USE DEF Inv, ControlTyped, Finish, MoveTo, Replacing, catalogTables, work
<1>1. CASE CreateNode(c) \/ InsertNode(c) \/ ReadNode(c) \/ UpdateNode(c) \/ DeleteNode(c)
  <2>1. ~Replacing(c)' /\ UNCHANGED rows
    BY <1>1 DEF CreateNode, InsertNode, ReadNode, UpdateNode, DeleteNode
  <2>. QED  BY <2>1, OneHandled, OneThrough, LinksAlone
<1>2. CASE CreateTemplate(c) \/ UpdateTemplate(c) \/ DeleteTemplate(c)
  <2>1. ~Replacing(c)' /\ \A row : row.in = "linked" => (row \in rows' <=> row \in rows)
    BY <1>2 DEF CreateTemplate, UpdateTemplate, DeleteTemplate
  <2>. QED  BY <2>1, OneHandled, OneThrough, LinksAlone
<1>3. CASE StartItem(c) \/ ReadCategory(c) \/ ValidateItemAttributes(c) \/ WriteItem(c)
  <2>1. ~Replacing(c)' /\ UNCHANGED rows
    BY <1>3 DEF StartItem, ReadCategory, ValidateItemAttributes, WriteItem
  <2>. QED  BY <2>1, OneHandled, OneThrough, LinksAlone
<1>4. CASE ReplaceItemWarehouses(c)
  <2>1. ~Replacing(c)' /\ UNCHANGED rows
    BY <1>4 DEF ReplaceItemWarehouses, Replace
  <2>. QED  BY <2>1, OneHandled, OneThrough, LinksAlone
<1>5. CASE ReplaceAttributeValues(c)
  <2>1. sent[c].op \in ItemOps
    BY <1>5 DEF ReplaceAttributeValues, Knows, OpAt
  <2>2. ~Replacing(c)' /\ UNCHANGED rows
    BY <1>5, <2>1 DEF ReplaceAttributeValues, Replace, ItemOps
  <2>. QED  BY <2>2, OneHandled, OneThrough, LinksAlone
<1>6. CASE Commit(c)
  <2>1. \A row \in dropped[c] \cup added[c] : row.in \in {"placed", "valued"}
    BY <1>6 DEF Knows, Work
  <2>2. ~Replacing(c)' /\ \A row : row.in = "linked" => (row \in rows' <=> row \in rows)
    BY <1>6, <2>1 DEF Commit
  <2>. QED  BY <2>2, OneHandled, OneThrough, LinksAlone
<1>7. CASE DeleteItem(c)
  <2>1. ~Replacing(c)' /\ \A row : row.in = "linked" => (row \in rows' <=> row \in rows)
    BY <1>7 DEF DeleteItem, OwnRows
  <2>. QED  BY <2>1, OneHandled, OneThrough, LinksAlone
<1>8. CASE Abort(c)
  <2>1. ~Replacing(c)' /\ UNCHANGED rows
    BY <1>8 DEF Abort
  <2>. QED  BY <2>1, OneHandled, OneThrough, LinksAlone
<1>. QED  BY <1>1, <1>2, <1>3, <1>4, <1>5, <1>6, <1>7, <1>8 DEF Handle

\* The DELETE finds the links committed by now, so all of a replacement or none.
LEMMA DeleteFinds ==
    ASSUME Inv, LinksInv, NEW c \in Clients, ReplaceCatalogLinks(c)
    PROVE  LinksInv'
<1>1. Handle(c) /\ UNCHANGED <<rows, added>> /\ MoveTo(c, "cleanup")
  BY DEF Handle, ReplaceCatalogLinks, catalogTables
<1>2. sent'[c].op = "replaceLinks" /\ sent'[c] \in Bodies /\ added[c] = {}
  BY Taken DEF ReplaceCatalogLinks
<1>3. dropped'[c] = OwnRows("linked", sent'[c].left) /\ step'[c] = "cleanup"
  BY <1>1 DEF ReplaceCatalogLinks, MoveTo, Inv, ControlTyped
<1>4. ThroughStays /\ \A d \in Clients \ {c} : Stays(d)
  BY <1>1, OneHandled, OneThrough
<1>5. \A i, w : LinksBy(i, w)' = LinksBy(i, w)
  BY <1>1 DEF LinksBy, OwnRows
<1>6. LinksFit'
  <2>1. \A i : \A w \in Clients : Whole(i, w)'
    BY <1>4, <1>5, WholeStays DEF LinksInv, KeptOrGone
  <2>. QED  BY <1>1, <1>4, <2>1 DEF LinksInv, LinksFit, ThroughStays
<1>7. ASSUME NEW d \in Clients \ {c} PROVE LinkWork(d)'
  <2>1. LinkWork(d) /\ LinksBy(sent[d].left, "seed")' \subseteq LinksBy(sent[d].left, "seed")
    BY <1>4, <1>5 DEF LinksInv, Stays
  <2>2. \A w \in Clients : KeptOrGone(sent[d].left, w)
    BY <1>4, <1>5 DEF KeptOrGone, Stays
  <2>. QED  BY <1>4, <2>1, <2>2, LinkWorkStays
<1>8. Inserted(c)'
  <2>1. Firsts(c, 0)' = {} /\ added'[c] = {}
    BY <1>1, <1>2 DEF Firsts
  <2>2. sent'[c].rights \in Seq({sent'[c].rights[k] : k \in DOMAIN sent'[c].rights})
    BY <1>2, LinksAreLists
  <2>3. 0 \in 0 .. Len(sent'[c].rights)
    BY <2>2
  <2>4. IsFiniteSet({}) /\ Cardinality({}) = 0
    BY FS_EmptySet
  <2>. QED  BY <1>3, <2>1, <2>3, <2>4 DEF Inserted
<1>9. Deleted(c)'
  <2>1. \A row \in dropped'[c] :
           row.in = "linked" /\ row.owner = sent'[c].left /\ (row.by \in Clients => step'[row.by] = "done")
    BY <1>3, <1>4 DEF OwnRows, LinksInv, LinksFit, ThroughStays
  <2>2. \A w : LinksBy(sent'[c].left, w) \subseteq dropped'[c]
    BY <1>3 DEF LinksBy
  <2>3. \A w : LinksBy(sent[c].left, w)' = LinksBy(sent'[c].left, w)
    BY <1>1 DEF LinksBy, OwnRows
  <2>. QED  BY <2>1, <2>2, <2>3 DEF Deleted
<1>. QED  BY <1>6, <1>7, <1>8, <1>9 DEF LinksInv, LinkWork

\* A step of a replacement that changes no row.
LEMMA StillReplacing ==
    ASSUME Inv, LinksInv, NEW c \in Clients, Handle(c), UNCHANGED rows, (Inserted(c) /\ Deleted(c))'
    PROVE  LinksInv'
<1>1. ThroughStays /\ \A d \in Clients \ {c} : Stays(d)
  BY OneHandled, OneThrough
<1>2. \A i, w : LinksBy(i, w)' = LinksBy(i, w)
  BY DEF LinksBy, OwnRows
<1>3. LinksFit'
  <2>1. \A i : \A w \in Clients : Whole(i, w)'
    BY <1>1, <1>2, WholeStays DEF LinksInv, KeptOrGone
  <2>. QED  BY <1>1, <2>1 DEF LinksInv, LinksFit, ThroughStays
<1>4. ASSUME NEW d \in Clients \ {c} PROVE LinkWork(d)'
  <2>1. LinkWork(d) /\ LinksBy(sent[d].left, "seed")' \subseteq LinksBy(sent[d].left, "seed")
    BY <1>1, <1>2 DEF LinksInv, Stays
  <2>2. \A w \in Clients : KeptOrGone(sent[d].left, w)
    BY <1>1, <1>2 DEF KeptOrGone, Stays
  <2>. QED  BY <1>1, <2>1, <2>2, LinkWorkStays
<1>. QED  BY <1>3, <1>4 DEF LinksInv, LinkWork

LEMMA CleanupKeepsLinks ==
    ASSUME Inv, LinksInv, NEW c \in Clients, CleanupLinks(c)
    PROVE  LinksInv'
<1>1. /\ Handle(c) /\ UNCHANGED <<rows, sent, added>> /\ MoveTo(c, "link") /\ step[c] = "cleanup"
      /\ dropped' = [dropped EXCEPT ![c] = dropped[c] \cap rows]
  BY DEF Handle, CleanupLinks, catalogTables
<1>2. dropped'[c] = dropped[c] \cap rows /\ step'[c] = "link" /\ sent[c].op = "replaceLinks"
  BY <1>1, LinkersKnow DEF MoveTo, Inv, ControlTyped
<1>3. Inserted(c) /\ Deleted(c)
  BY <1>1, <1>2 DEF LinksInv, LinkWork, Replacing
<1>4. Inserted(c)'
  <2>1. \A n : Firsts(c, n)' = Firsts(c, n)
    BY <1>1 DEF Firsts
  <2>. QED  BY <1>1, <1>2, <1>3, <2>1 DEF Inserted
<1>5. Deleted(c)'
  <2>1. ThroughStays
    BY <1>1, OneThrough
  <2>2. \A w : LinksBy(sent[c].left, w)' = LinksBy(sent[c].left, w) /\ LinksBy(sent[c].left, w) \subseteq rows
    BY <1>1 DEF LinksBy, OwnRows
  <2>. QED  BY <1>1, <1>2, <1>3, <2>1, <2>2 DEF Deleted, ThroughStays
<1>. QED  BY <1>1, <1>4, <1>5, StillReplacing

LEMMA InsertKeepsLinks ==
    ASSUME Inv, LinksInv, NEW c \in Clients, InsertLink(c)
    PROVE  LinksInv'
<1>1. Handle(c) /\ UNCHANGED <<rows, sent>> /\ step[c] = "link"
  BY DEF Handle, InsertLink, catalogTables
<1>2. ThroughStays /\ \A d \in Clients \ {c} : Stays(d)
  BY <1>1, OneHandled, OneThrough
<1>3. Inserted(c) /\ Deleted(c) /\ sent[c] \in Bodies /\ sent[c].op = "replaceLinks"
  BY <1>1, LinkersKnow DEF LinksInv, LinkWork, Replacing
<1>4. sent[c].rights \in Seq({sent[c].rights[k] : k \in DOMAIN sent[c].rights})
  BY <1>3, LinksAreLists
<1>5. PICK n \in 0 .. Len(sent[c].rights) :
          added[c] = Firsts(c, n) /\ IsFiniteSet(added[c]) /\ Cardinality(added[c]) = n
  BY <1>3 DEF Inserted
<1>6. \A m : Firsts(c, m)' = Firsts(c, m)
  BY <1>1 DEF Firsts
<1>7. ASSUME UNCHANGED dropped PROVE Deleted(c)'
  <2>1. \A w : LinksBy(sent[c].left, w)' = LinksBy(sent[c].left, w)
    BY <1>1 DEF LinksBy, OwnRows
  <2>. QED  BY <1>1, <1>2, <1>3, <1>7, <2>1 DEF Deleted, ThroughStays
<1>8. CASE Cardinality(added[c]) = Len(sent[c].rights) /\ MoveTo(c, "commit") /\ UNCHANGED <<dropped, added>>
  <2>1. step'[c] = "commit"
    BY <1>8 DEF MoveTo, Inv, ControlTyped
  <2>2. Inserted(c)'
    BY <1>1, <1>5, <1>6, <1>8, <2>1 DEF Inserted
  <2>. QED  BY <1>1, <1>7, <1>8, <2>2, StillReplacing
<1>9. CASE /\ Cardinality(added[c]) < Len(sent[c].rights)
           /\ ~ \E row \in (rows \ dropped[c]) \cup added[c] : SameLink(row, NextLink(c))
           /\ added' = [added EXCEPT ![c] = @ \cup {NextLink(c)}] /\ UNCHANGED <<step, got, dropped>>
  <2>1. NextLink(c) \notin added[c]
    BY <1>9 DEF SameLink, NextLink, Link
  <2>2. added'[c] = added[c] \cup {NextLink(c)}
    BY <1>9 DEF Inv, ControlTyped
  <2>3. IsFiniteSet(added'[c]) /\ Cardinality(added'[c]) = n + 1
    BY <1>5, <2>1, <2>2, FS_AddElement
  <2>4. n + 1 \in 0 .. Len(sent[c].rights)
    BY <1>4, <1>5, <1>9
  <2>5. added'[c] = Firsts(c, n + 1)
    BY <1>5, <2>2 DEF Firsts, NextLink
  <2>6. Inserted(c)'
    BY <1>1, <1>6, <1>9, <2>3, <2>4, <2>5 DEF Inserted
  <2>. QED  BY <1>1, <1>7, <1>9, <2>6, StillReplacing
<1>10. CASE Finish(c, "failed")
  <2>1. ~Replacing(c)'
    BY <1>10 DEF Finish, Replacing, Inv, ControlTyped
  <2>. QED  BY <1>1, <1>2, <2>1, LinksAlone
<1>. QED  BY <1>8, <1>9, <1>10 DEF InsertLink

\* What the commit of a replacement leaves of the links by each writer.
LEMMA CommitLeaves ==
    ASSUME Inv, LinksInv, NEW c \in Clients, Commit(c), sent[c].op = "replaceLinks"
    PROVE  /\ \A i : LinksBy(i, "seed")' \subseteq LinksBy(i, "seed") /\ LinksBy(sent[c].left, "seed")' = {}
           /\ \A i : \A w \in Clients \ {c} : KeptOrGone(i, w)
           /\ LinksBy(sent[c].left, c)' = Firsts(c, Len(sent[c].rights))
           /\ \A i : i # sent[c].left => LinksBy(i, c)' = {}
           /\ \A row \in rows' : row \in rows \/ (row.in = "linked" /\ row.by = c)
<1>. DEFINE i0 == sent[c].left
<1>1. step[c] = "commit" /\ rows' = (rows \ dropped[c]) \cup added[c] /\ UNCHANGED sent
  BY DEF Commit
<1>2. Deleted(c) /\ added[c] = Firsts(c, Len(sent[c].rights))
  BY <1>1 DEF LinksInv, LinkWork, Replacing, Inserted
<1>3. \A row \in added[c] : row.in = "linked" /\ row.owner = i0 /\ row.by = c
  BY <1>2 DEF Firsts, Link
<1>4. \A row \in rows : row.in = "linked" => row.by # c
  BY <1>1 DEF LinksInv, LinksFit
<1>5. ASSUME NEW i, NEW w, w # c PROVE LinksBy(i, w)' = LinksBy(i, w) \ dropped[c]
  BY <1>1, <1>3, <1>5 DEF LinksBy, OwnRows
<1>6. LinksBy(i0, c)' = added[c]
  <2>1. ASSUME NEW row \in added[c] PROVE row \in LinksBy(i0, c)'
    BY <1>1, <1>3 DEF LinksBy, OwnRows
  <2>2. ASSUME NEW row \in rows', row.in = "linked", row.by = c PROVE row \in added[c]
    BY <1>1, <1>4, <2>2
  <2>. QED  BY <2>1, <2>2 DEF LinksBy, OwnRows
<1>7. \A i : i # i0 => LinksBy(i, c)' = {}
  BY <1>1, <1>3, <1>4 DEF LinksBy, OwnRows
<1>8. ASSUME NEW i, NEW w \in Clients \ {c} PROVE KeptOrGone(i, w)
  <2>1. CASE i # i0
    <3>1. LinksBy(i, w) \cap dropped[c] = {}
      BY <1>2, <2>1 DEF Deleted, LinksBy, OwnRows
    <3>. QED  BY <1>5, <3>1 DEF KeptOrGone
  <2>2. CASE i = i0
    BY <1>2, <1>5, <2>2 DEF Deleted, KeptOrGone
  <2>. QED  BY <2>1, <2>2
<1>9. /\ \A i : LinksBy(i, "seed")' \subseteq LinksBy(i, "seed")
      /\ LinksBy(i0, "seed")' = {}
  <2>1. \A i : LinksBy(i, "seed")' = LinksBy(i, "seed") \ dropped[c]
    BY <1>5, IdsAreFresh
  <2>2. LinksBy(i0, "seed") \subseteq dropped[c]
    BY <1>2 DEF Deleted
  <2>3. LinksBy(i0, "seed")' = LinksBy(i0, "seed") \ dropped[c]
    BY <1>1, <2>1
  <2>. QED  BY <2>1, <2>2, <2>3
<1>10. \A row \in rows' : row \in rows \/ (row.in = "linked" /\ row.by = c)
  BY <1>1, <1>3
<1>. QED  BY <1>2, <1>6, <1>7, <1>8, <1>9, <1>10

LEMMA CommitKeepsLinks ==
    ASSUME Inv, LinksInv, NEW c \in Clients, Commit(c), sent[c].op = "replaceLinks"
    PROVE  LinksInv'
<1>1. Handle(c) /\ step[c] = "commit" /\ UNCHANGED sent
  BY DEF Handle, Commit
<1>2. step'[c] = "done"
  BY DEF Commit, Finish, Inv, ControlTyped
<1>3. ThroughStays /\ \A d \in Clients \ {c} : Stays(d)
  BY <1>1, OneHandled, OneThrough
<1>4. sent[c].rights \in Seq({sent[c].rights[k] : k \in DOMAIN sent[c].rights})
  BY <1>1, LinksAreLists DEF Inv, Knows, OpAt
<1>5. ASSUME NEW i, NEW w \in Clients PROVE Whole(i, w)'
  <2>1. CASE w # c
    BY <1>3, <2>1, CommitLeaves, WholeStays DEF LinksInv
  <2>2. CASE w = c /\ i # sent[c].left
    BY <2>2, CommitLeaves DEF Whole
  <2>3. CASE w = c /\ i = sent[c].left
    <3>1. LinksBy(i, w)' = Firsts(c, Len(sent[c].rights)) /\ LinksBy(i, "seed")' = {}
      BY <1>1, <2>3, CommitLeaves
    <3>2. DOMAIN sent[c].rights = 1 .. Len(sent[c].rights)
      BY <1>4
    <3>3. {row.other : row \in Firsts(c, Len(sent[c].rights))} = {sent[c].rights[k] : k \in DOMAIN sent[c].rights}
      <4>1. \A k : Link(sent[c].left, sent[c].rights[k], c).other = sent[c].rights[k]
        BY DEF Link
      <4>2. ASSUME NEW k \in 1 .. Len(sent[c].rights)
            PROVE  sent[c].rights[k] \in {row.other : row \in Firsts(c, Len(sent[c].rights))}
        BY <4>1 DEF Firsts
      <4>3. ASSUME NEW row \in Firsts(c, Len(sent[c].rights))
            PROVE  row.other \in {sent[c].rights[k] : k \in 1 .. Len(sent[c].rights)}
        BY <4>1 DEF Firsts
      <4>. QED  BY <3>2, <4>2, <4>3
    <3>. QED  BY <1>1, <2>3, <3>1, <3>3 DEF Whole
  <2>. QED  BY <2>1, <2>2, <2>3
<1>6. \A row \in rows' : row.in = "linked" /\ row.by \in Clients => step'[row.by] = "done"
  BY <1>2, <1>3, CommitLeaves DEF LinksInv, LinksFit, ThroughStays
<1>7. ASSUME NEW d \in Clients PROVE LinkWork(d)'
  <2>1. CASE d = c
    BY <1>2, <2>1 DEF LinkWork, Replacing
  <2>2. CASE d # c /\ ~Replacing(d)
    BY <1>3, <2>2 DEF LinkWork, Replacing, Stays
  <2>3. CASE d # c /\ Replacing(d)
    <3>1. Stays(d) /\ LinkWork(d)
      BY <1>3, <2>3 DEF LinksInv
    <3>2. LinksBy(sent[d].left, "seed")' \subseteq LinksBy(sent[d].left, "seed")
      BY <3>1, CommitLeaves DEF Stays
    <3>3. \A row \in dropped[d] : row.by # c
      BY <1>1, <2>3, <3>1 DEF LinkWork, Deleted
    <3>4. LinksBy(sent[d].left, c)' \cap dropped[d] = {}
      BY <3>3 DEF LinksBy
    <3>5. \A w \in Clients \ {c} : KeptOrGone(sent[d].left, w)
      BY <3>1, CommitLeaves DEF KeptOrGone, Stays
    <3>. QED  BY <1>3, <3>1, <3>2, <3>4, <3>5, LinkWorkStays
  <2>. QED  BY <2>1, <2>2, <2>3
<1>. QED  BY <1>5, <1>6, <1>7 DEF LinksInv, LinksFit

LEMMA NextLinks == Inv /\ LinksInv /\ [Next]_vars => LinksInv'
<1>. SUFFICES ASSUME Inv, LinksInv, [Next]_vars PROVE LinksInv'
  OBVIOUS
<1>1. CASE UNCHANGED vars
  <2>1. UNCHANGED <<rows, seen, dropped, added, step, sent>>
    BY <1>1 DEF vars, catalogVars, catalogTables, work
  <2>. QED  BY <2>1, LinksAlone DEF ThroughStays, Stays
<1>2. ASSUME NEW r \in Requests, StorageStep(r) PROVE LinksInv'
  <2>1. /\ UNCHANGED <<seen, dropped, added, step, sent>>
        /\ \A row : row.in = "linked" => (row \in rows' <=> row \in rows)
    BY <1>2 DEF StorageStep, work
  <2>. QED  BY <2>1, LinksAlone DEF ThroughStays, Stays
<1>3. ASSUME NEW c \in Clients, Handle(c) PROVE LinksInv'
  BY <1>3, OtherHandlers, DeleteFinds, CleanupKeepsLinks, InsertKeepsLinks, CommitKeepsLinks
<1>. QED  BY <1>1, <1>2, <1>3 DEF Next

\* Whoever replaces the links of an item at once: those of one replacement are there all or not at
\* all, and once one has committed, none of the seed is left beside them.
THEOREM ReplacementsStayWhole == Spec => []LinksComeAndGoTogether
<1>1. Init => Inv /\ LinksInv
  BY InitInv, InitLinks
<1>2. Inv /\ LinksInv /\ [Next]_vars => (Inv /\ LinksInv)'
  BY NextInv, NextLinks
<1>. QED  BY <1>1, <1>2, LinksFollow, PTL DEF Spec
===============================================================================
