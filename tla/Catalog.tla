-------------------------------- MODULE Catalog --------------------------------
(***************************************************************************)
(* The catalogue of modules/wms: nodes (units and the tree of categories), *)
(* attribute templates, items with their warehouses and attribute values,  *)
(* and links, together with the warehouses of Storage that items lie in.   *)
(*                                                                         *)
(* Items and links are written by transactions of several statements under *)
(* READ COMMITTED; each statement is an action.  Rows of the three         *)
(* relations that a transaction deletes and inserts (dropped, added) take  *)
(* effect at its commit; until then they are locked, as is its item.       *)
(*                                                                         *)
(* `by' in a row is the last request that wrote it: of an item, the one    *)
(* whose body it shows in the fields left out (name, barcode, weight); of  *)
(* a link, which is never updated, the one that inserted it: a link that   *)
(* is deleted and inserted again is another row.                           *)
(***************************************************************************)
EXTENDS Storage, Naturals, Sequences

CONSTANTS
    Clients,           \* invocations of handlers of the catalogue
    Bodies,            \* what clients send
    Skus,
    None,              \* NULL, or an id that is left out
    InitialNodes,      \* seeded rows, functions from ids to rows
    InitialTemplates,
    InitialItems,
    InitialRows        \* seeded rows of the three relations

NodeIds == Clients \cup DOMAIN InitialNodes
TemplateIds == Clients \cup DOMAIN InitialTemplates
ItemIds == Clients \cup DOMAIN InitialItems
Writers == Clients \cup {"seed"}

Node == [type : {"unit", "category"}, parent : NodeIds \cup {None}, code : Codes,
         path : Seq(Codes), level : Nat, by : Writers]
Template == [code : Codes, required : BOOLEAN, by : Writers]
Item == [sku : Skus, unit : NodeIds, category : NodeIds \cup {None}, path : Seq(Codes), by : Writers]

\* wms.item_warehouse, wms.attribute_values and wms.catalog_links.
Relations == {"placed", "valued", "linked"}
Related(in, owner, other) == [in |-> in, owner |-> owner, other |-> other]
Link(left, right, by) == [in |-> "linked", owner |-> left, other |-> right, by |-> by]

\* What handlers were sent, of the operations that store it.
CreateNodeBody == [op : {"createNode"}, type : {"unit", "category"}, parent : NodeIds \cup {None}, code : Codes]
TemplateBody == [op : {"createTemplate"}, code : Codes, required : BOOLEAN]
TemplateEdit == [op : {"updateTemplate"}, template : TemplateIds, required : BOOLEAN]
ItemBody == [op : {"createItem"}, sku : Skus, unit : NodeIds, category : NodeIds \cup {None},
             warehouses : SUBSET WarehouseIds, attributes : Seq([template : TemplateIds, given : BOOLEAN])]
ItemEdit == [op : {"updateItem"}, item : ItemIds, sku : Skus, unit : NodeIds, category : NodeIds \cup {None},
             warehouses : SUBSET WarehouseIds, attributes : Seq([template : TemplateIds, given : BOOLEAN])]

\* What the tables must be like: nodes a tree by their paths and levels, items on the path of
\* their category, rows of the relations between rows that exist.
IsTree(ns) ==
    \A n \in DOMAIN ns : ns[n].parent # None =>
        /\ ns[n].parent \in DOMAIN ns
        /\ ns[n].type = ns[ns[n].parent].type
        /\ ns[n].path = Append(ns[ns[n].parent].path, ns[n].code)
        /\ ns[n].level = ns[ns[n].parent].level + 1

Fit(is, ns) ==
    \A i \in DOMAIN is :
        /\ is[i].unit \in DOMAIN ns /\ ns[is[i].unit].type = "unit"
        /\ is[i].category # None =>
              /\ is[i].category \in DOMAIN ns
              /\ ns[is[i].category].type = "category"
              /\ is[i].path = ns[is[i].category].path

Relate(rs, is, ws, ts) ==
    \A row \in rs :
        /\ row.in = "placed" => row.owner \in DOMAIN is /\ row.other \in DOMAIN ws
        /\ row.in = "valued" => row.other \in DOMAIN ts

\* Bodies are well formed, the seed fits, and a new id is new.
ASSUME BodiesAreBodies ==
    \A b \in Bodies :
        /\ b.op = "createNode" => b \in CreateNodeBody
        /\ b.op = "createTemplate" => b \in TemplateBody
        /\ b.op = "updateTemplate" => b \in TemplateEdit
        /\ b.op = "createItem" => b \in ItemBody
        /\ b.op = "updateItem" => b \in ItemEdit
ASSUME LinksAreLists ==
    \A b \in Bodies : b.op = "replaceLinks" => b.rights \in Seq({b.rights[k] : k \in DOMAIN b.rights})
ASSUME CatalogSeedFits ==
    /\ InitialNodes \in [DOMAIN InitialNodes -> Node] /\ IsTree(InitialNodes)
    /\ InitialTemplates \in [DOMAIN InitialTemplates -> Template]
    /\ InitialItems \in [DOMAIN InitialItems -> Item] /\ Fit(InitialItems, InitialNodes)
    /\ \A i \in DOMAIN InitialItems : InitialItems[i].by \notin Clients
    /\ \A row \in InitialRows : row.in \in Relations /\ (row.in = "linked" => row.by = "seed")
    /\ Relate(InitialRows, InitialItems, InitialWarehouses, InitialTemplates)
ASSUME IdsAreFresh ==
    /\ Clients \cap (DOMAIN InitialNodes \cup DOMAIN InitialTemplates \cup DOMAIN InitialItems) = {}
    /\ Requests \cap DOMAIN InitialWarehouses = {}
    /\ "seed" \notin Clients

VARIABLES
    nodes, templates, items,  \* functions from the ids in use to rows
    rows,                     \* the rows of the three relations
    step, sent, got,          \* where a handler stands, its body, its answer
    seen,                     \* the path (and, of a parent, the level) it read
    dropped, added            \* rows its transaction has deleted and inserted

catalogTables == <<nodes, templates, items, rows>>
work == <<seen, dropped, added>>
catalogVars == <<catalogTables, work, step, sent, got>>
vars == <<storageVars, catalogVars>>

Nothing == [path |-> <<>>, level |-> 0]

TypeOK ==
    /\ StorageTypeOK
    /\ DOMAIN nodes \subseteq NodeIds /\ nodes \in [DOMAIN nodes -> Node]
    /\ DOMAIN templates \subseteq TemplateIds /\ templates \in [DOMAIN templates -> Template]
    /\ DOMAIN items \subseteq ItemIds /\ items \in [DOMAIN items -> Item]
    /\ \A row \in rows : row.in \in Relations
    /\ step \in [Clients -> {"idle", "insert", "change", "category", "attributes", "row", "places",
                             "values", "cleanup", "link", "commit", "done"}]
    /\ sent \in [Clients -> Bodies \cup {NoCall}]
    /\ got \in [Clients -> {"none", "ok", "not_found", "failed"}]
    /\ seen \in [Clients -> [path : Seq(Codes), level : Nat]]
    /\ \A c \in Clients : \A row \in dropped[c] \cup added[c] : row.in \in Relations

Init ==
    /\ StorageInit
    /\ nodes = InitialNodes /\ templates = InitialTemplates
    /\ items = InitialItems /\ rows = InitialRows
    /\ step = [c \in Clients |-> "idle"]
    /\ sent = [c \in Clients |-> NoCall]
    /\ got = [c \in Clients |-> "none"]
    /\ seen = [c \in Clients |-> Nothing]
    /\ dropped = [c \in Clients |-> {}]
    /\ added = [c \in Clients |-> {}]
-------------------------------------------------------------------------------
(* Handlers and transactions *)

\* A client's body arrives, of one of the operations.
Take(c, ops) == step[c] = "idle" /\ \E b \in Bodies : b.op \in ops /\ sent' = [sent EXCEPT ![c] = b]

MoveTo(c, label) == step' = [step EXCEPT ![c] = label] /\ UNCHANGED got

\* The answer; an open transaction is rolled back.
Finish(c, how) ==
    /\ step' = [step EXCEPT ![c] = "done"]
    /\ got' = [got EXCEPT ![c] = how]
    /\ dropped' = [dropped EXCEPT ![c] = {}]
    /\ added' = [added EXCEPT ![c] = {}]

NodeOf(id, type) == {n \in DOMAIN nodes : n = id /\ nodes[n].type = type}

ItemOps == {"createItem", "updateItem"}
ItemOf(c) == IF sent[c].op = "createItem" THEN c ELSE sent[c].item

\* Clients whose open transaction has written the row of an item.
ItemWriters == {c \in Clients : step[c] \in {"places", "values", "commit"} /\ sent[c].op \in ItemOps}
Writing(c, i) == c \in ItemWriters /\ ItemOf(c) = i

\* A foreign key of an uncommitted item holds a node.
Holding(c, n) == c \in ItemWriters /\ n \in {sent[c].unit, sent[c].category}

\* An uncommitted row of a relation holds what it refers to.
Touches(c, in, other) == \E row \in dropped[c] \cup added[c] : row.in = in /\ row.other = other
-------------------------------------------------------------------------------
(* Nodes *)

\* A parent is looked up among the nodes of the same type.  The gateway's copy takes none.
CreateNode(c) ==
    /\ Take(c, {"createNode"})
    /\ LET b == sent'[c]
       IN  \/ /\ b.parent = None
              /\ MoveTo(c, "insert")
              /\ UNCHANGED work
           \/ /\ b.parent # None /\ NodeOf(b.parent, b.type) = {}
              /\ Finish(c, "failed")
              /\ UNCHANGED seen
           \/ \E p \in NodeOf(b.parent, b.type) :
              /\ seen' = [seen EXCEPT ![c] = [path |-> nodes[p].path, level |-> nodes[p].level]]
              /\ MoveTo(c, "insert")
              /\ UNCHANGED <<dropped, added>>
    /\ UNCHANGED catalogTables

\* (mutant) a child is on its parent's level.
NodeOnParentsLevel(c) ==
    [type |-> sent[c].type, parent |-> sent[c].parent, code |-> sent[c].code,
     path |-> Append(seen[c].path, sent[c].code), level |-> seen[c].level, by |-> c]

NewNode(c) ==
    [type |-> sent[c].type,
     parent |-> sent[c].parent,
     code |-> sent[c].code,
     path |-> Append(seen[c].path, sent[c].code),
     level |-> IF sent[c].parent = None THEN 0 ELSE seen[c].level + 1,
     by |-> c]

\* UNIQUE (catalog_type, code), and the foreign key on the parent.
InsertNode(c) ==
    /\ step[c] = "insert"
    /\ LET fits == /\ \A n \in DOMAIN nodes : nodes[n].type = sent[c].type => nodes[n].code # sent[c].code
                   /\ sent[c].parent \in DOMAIN nodes \cup {None}
       IN  \/ fits /\ nodes' = With(nodes, c, NewNode(c)) /\ Finish(c, "ok")
           \/ ~fits /\ Finish(c, "failed") /\ UNCHANGED nodes
    /\ UNCHANGED <<templates, items, rows, seen, sent>>

\* A body may not move a node or change its code.
ReadNode(c) ==
    /\ Take(c, {"updateNode"})
    /\ LET b == sent'[c]
           same == \E n \in NodeOf(b.node, b.type) : nodes[n].parent = b.parent /\ b.code \in {None, nodes[n].code}
       IN  \/ same /\ MoveTo(c, "change") /\ UNCHANGED work
           \/ ~same /\ Finish(c, "failed") /\ UNCHANGED seen
    /\ UNCHANGED catalogTables

\* One statement; the gateway's copy, without the look before it, also changes no more.
UpdateNode(c) ==
    /\ step[c] = "change"
    /\ \/ /\ sent[c].node \in DOMAIN nodes
          /\ nodes' = [nodes EXCEPT ![sent[c].node].by = c]
          /\ Finish(c, "ok")
       \/ /\ sent[c].node \notin DOMAIN nodes
          /\ Finish(c, "failed")
          /\ UNCHANGED nodes
    /\ UNCHANGED <<templates, items, rows, seen, sent>>

\* ON DELETE SET NULL: children lose their parent, items their category, but not its path.
WithoutNode(n) ==
    /\ nodes' = [m \in DOMAIN nodes \ {n} |->
           IF nodes[m].parent = n THEN [nodes[m] EXCEPT !.parent = None] ELSE nodes[m]]
    /\ items' = [i \in DOMAIN items |->
           IF items[i].category = n THEN [items[i] EXCEPT !.category = None] ELSE items[i]]

\* Waits for transactions that refer to the node, or hold an item it must change.  A unit in
\* use is kept (ON DELETE RESTRICT).  A node that is not there is deleted as well; the
\* gateway's copy answers an error, and does not look at the type.
DeleteNode(c) ==
    /\ Take(c, {"deleteNode"})
    /\ LET n == sent'[c].node
           gone == DOMAIN nodes \cap {n}
       IN  /\ \A d \in Clients :
                 /\ ~Holding(d, n)
                 /\ \A i \in DOMAIN items : items[i].category = n => ~Writing(d, i)
           /\ \/ gone # {} /\ (\E i \in DOMAIN items : items[i].unit = n)
                 /\ Finish(c, "failed") /\ UNCHANGED <<nodes, items>>
              \/ gone # {} /\ (\A i \in DOMAIN items : items[i].unit # n)
                 /\ WithoutNode(n) /\ Finish(c, "ok")
              \/ gone = {} /\ (\E how \in {"ok", "not_found"} : Finish(c, how)) /\ UNCHANGED <<nodes, items>>
    /\ UNCHANGED <<templates, rows, seen>>
-------------------------------------------------------------------------------
(* Attribute templates of items *)

CreateTemplate(c) ==
    /\ Take(c, {"createTemplate"})
    /\ LET b == sent'[c]
       IN  IF \A t \in DOMAIN templates : templates[t].code # b.code
           THEN /\ templates' = With(templates, c, [code |-> b.code, required |-> b.required, by |-> c])
                /\ Finish(c, "ok")
           ELSE Finish(c, "failed") /\ UNCHANGED templates
    /\ UNCHANGED <<nodes, items, rows, seen>>

\* The code stays.
UpdateTemplate(c) ==
    /\ Take(c, {"updateTemplate"})
    /\ LET b == sent'[c]
       IN  IF b.template \in DOMAIN templates
           THEN /\ templates' = [templates EXCEPT ![b.template].required = b.required, ![b.template].by = c]
                /\ Finish(c, "ok")
           ELSE Finish(c, "not_found") /\ UNCHANGED templates
    /\ UNCHANGED <<nodes, items, rows, seen>>

\* (mutant) the values of the template stay.
KeepValues(c) ==
    /\ Take(c, {"deleteTemplate"})
    /\ LET t == sent'[c].template
       IN  /\ templates' = Restrict(templates, DOMAIN templates \ {t})
           /\ Finish(c, IF t \in DOMAIN templates THEN "ok" ELSE "not_found")
    /\ UNCHANGED <<nodes, items, rows, seen>>

\* ON DELETE CASCADE takes the values of the template.
DeleteTemplate(c) ==
    /\ Take(c, {"deleteTemplate"})
    /\ LET t == sent'[c].template
       IN  /\ \A d \in Clients : ~Touches(d, "valued", t)
           /\ templates' = Restrict(templates, DOMAIN templates \ {t})
           /\ rows' = {row \in rows : row.in = "valued" => row.other # t}
           /\ Finish(c, IF t \in DOMAIN templates THEN "ok" ELSE "not_found")
    /\ UNCHANGED <<nodes, items, seen>>
-------------------------------------------------------------------------------
(* Items *)

\* The unit is looked up among the units.
StartItem(c) ==
    /\ Take(c, ItemOps)
    /\ \/ NodeOf(sent'[c].unit, "unit") # {} /\ MoveTo(c, "category") /\ UNCHANGED work
       \/ NodeOf(sent'[c].unit, "unit") = {} /\ Finish(c, "failed") /\ UNCHANGED seen
    /\ UNCHANGED catalogTables

\* (mutant) any node will do for a category.
ReadAnyCategory(c) ==
    /\ step[c] = "category"
    /\ LET n == sent[c].category
       IN  \/ n = None /\ MoveTo(c, "attributes") /\ UNCHANGED work
           \/ n # None /\ n \notin DOMAIN nodes /\ Finish(c, "failed") /\ UNCHANGED seen
           \/ /\ n \in DOMAIN nodes
              /\ seen' = [seen EXCEPT ![c].path = nodes[n].path]
              /\ MoveTo(c, "attributes")
              /\ UNCHANGED <<dropped, added>>
    /\ UNCHANGED <<catalogTables, sent>>

\* The path of the category is read here, outside the transaction that stores it.
ReadCategory(c) ==
    /\ step[c] = "category"
    /\ LET n == sent[c].category
       IN  \/ n = None /\ MoveTo(c, "attributes") /\ UNCHANGED work
           \/ n # None /\ NodeOf(n, "category") = {} /\ Finish(c, "failed") /\ UNCHANGED seen
           \/ /\ NodeOf(n, "category") # {}
              /\ seen' = [seen EXCEPT ![c].path = nodes[n].path]
              /\ MoveTo(c, "attributes")
              /\ UNCHANGED <<dropped, added>>
    /\ UNCHANGED <<catalogTables, sent>>

\* Known templates of items, each at most once, with a value where one is required (but for
\* JSON).  A required template may be left out altogether.
Valid(attributes) ==
    /\ \A a \in DOMAIN attributes :
          /\ attributes[a].template \in DOMAIN templates
          /\ templates[attributes[a].template].required => attributes[a].given
    /\ \A a, b \in DOMAIN attributes : attributes[a].template = attributes[b].template => a = b

ValidateItemAttributes(c) ==
    /\ step[c] = "attributes"
    /\ \/ Valid(sent[c].attributes) /\ MoveTo(c, "row") /\ UNCHANGED work
       \/ ~Valid(sent[c].attributes) /\ Finish(c, "failed") /\ UNCHANGED seen
    /\ UNCHANGED <<catalogTables, sent>>

\* (mutant) an item without a category has no path, instead of an empty one.
NullPath(c) ==
    [sku |-> sent[c].sku, unit |-> sent[c].unit, category |-> sent[c].category,
     path |-> IF sent[c].category = None THEN None ELSE seen[c].path, by |-> c]

\* Without a category the path is empty.
NewItem(c) ==
    [sku |-> sent[c].sku, unit |-> sent[c].unit, category |-> sent[c].category,
     path |-> IF sent[c].category = None THEN <<>> ELSE seen[c].path, by |-> c]

\* UNIQUE (sku) and the foreign keys on the nodes.
ItemFits(c) ==
    /\ \A i \in DOMAIN items \ {ItemOf(c)} : items[i].sku # sent[c].sku
    /\ sent[c].unit \in DOMAIN nodes
    /\ sent[c].category \in DOMAIN nodes \cup {None}

\* (mutant) transactions that write one item do not wait for each other.
WriteUnlocked(c) ==
    /\ step[c] = "row"
    /\ \/ ItemOf(c) \notin DOMAIN items \cup {c} /\ Finish(c, "not_found")
       \/ ItemOf(c) \in DOMAIN items \cup {c} /\ ~ItemFits(c) /\ Finish(c, "failed")
       \/ /\ ItemOf(c) \in DOMAIN items \cup {c} /\ ItemFits(c)
          /\ MoveTo(c, "places")
          /\ UNCHANGED <<dropped, added>>
    /\ UNCHANGED <<catalogTables, seen, sent>>

\* The transaction begins with the INSERT or UPDATE of the item's row, which waits for
\* transactions that write this row, or a row with the same sku before or after.
WriteItem(c) ==
    /\ step[c] = "row"
    /\ \A d \in ItemWriters :
          /\ ItemOf(d) # ItemOf(c)
          /\ sent[d].sku # sent[c].sku
          /\ ItemOf(d) \in DOMAIN items => items[ItemOf(d)].sku # sent[c].sku
    /\ \/ ItemOf(c) \notin DOMAIN items \cup {c} /\ Finish(c, "not_found")
       \/ ItemOf(c) \in DOMAIN items \cup {c} /\ ~ItemFits(c) /\ Finish(c, "failed")
       \/ /\ ItemOf(c) \in DOMAIN items \cup {c} /\ ItemFits(c)
          /\ MoveTo(c, "places")
          /\ UNCHANGED <<dropped, added>>
    /\ UNCHANGED <<catalogTables, seen, sent>>

OwnRows(in, owner) == {row \in rows : row.in = in /\ row.owner = owner}

\* DELETE of the item's rows of a relation, INSERT of others; what they refer to must exist.
\* (The INSERTs are one action: a row inserted holds what it refers to until the commit.)
Replace(c, in, others, existing, next) ==
    \/ /\ others \subseteq existing
       /\ dropped' = [dropped EXCEPT ![c] = @ \cup OwnRows(in, ItemOf(c))]
       /\ added' = [added EXCEPT ![c] = @ \cup {Related(in, ItemOf(c), o) : o \in others}]
       /\ MoveTo(c, next)
    \/ ~(others \subseteq existing) /\ Finish(c, "failed")

ReplaceItemWarehouses(c) ==
    /\ step[c] = "places"
    /\ Replace(c, "placed", sent[c].warehouses, DOMAIN warehouses, "values")
    /\ UNCHANGED <<catalogTables, seen, sent>>

ReplaceAttributeValues(c) ==
    /\ step[c] = "values"
    /\ Replace(c, "valued", {sent[c].attributes[a].template : a \in DOMAIN sent[c].attributes},
               DOMAIN templates, "commit")
    /\ UNCHANGED <<catalogTables, seen, sent>>

\* The item is read again after the commit; if that fails, so does the request.
Commit(c) ==
    /\ step[c] = "commit"
    /\ rows' = (rows \ dropped[c]) \cup added[c]
    /\ items' = IF sent[c].op \in ItemOps THEN With(items, ItemOf(c), NewItem(c)) ELSE items
    /\ \E how \in {"ok", "failed"} : Finish(c, how)
    /\ UNCHANGED <<nodes, templates, seen, sent>>

\* One DELETE, which waits for a transaction that writes the item.  The warehouses of the
\* item go with it (ON DELETE CASCADE); no foreign key binds its values and links.
DeleteItem(c) ==
    /\ Take(c, {"deleteItem"})
    /\ LET i == sent'[c].item
       IN  /\ \A d \in Clients : ~Writing(d, i)
           /\ items' = Restrict(items, DOMAIN items \ {i})
           /\ rows' = rows \ OwnRows("placed", i)
    /\ Finish(c, "ok")
    /\ UNCHANGED <<nodes, templates, seen>>
-------------------------------------------------------------------------------
(* Links *)

\* The DELETE of the old links sees the rows committed when it starts ...
ReplaceCatalogLinks(c) ==
    /\ Take(c, {"replaceLinks"})
    /\ dropped' = [dropped EXCEPT ![c] = OwnRows("linked", sent'[c].left)]
    /\ MoveTo(c, "cleanup")
    /\ UNCHANGED <<catalogTables, seen, added>>

\* Others that have deleted or inserted links and not yet committed.
Linkers(c) == {d \in Clients \ {c} : step[d] \in {"link", "commit"} /\ sent[d].op = "replaceLinks"}

\* ... waits for those that others are deleting, and deletes what is left of them: a link that
\* another has deleted and inserted again meanwhile is not among them.
CleanupLinks(c) ==
    /\ step[c] = "cleanup"
    /\ \A d \in Linkers(c) : dropped[c] \cap dropped[d] = {}
    /\ dropped' = [dropped EXCEPT ![c] = @ \cap rows]
    /\ MoveTo(c, "link")
    /\ UNCHANGED <<catalogTables, seen, sent, added>>

\* The next link of the body, and whether a row has its primary key.
NextLink(c) == Link(sent[c].left, sent[c].rights[Cardinality(added[c]) + 1], c)
SameLink(row, link) == row.in = "linked" /\ row.owner = link.owner /\ row.other = link.other

\* (mutant) there is no transaction around the INSERTs.
InsertLinkAtOnce(c) ==
    /\ step[c] = "link"
    /\ \/ /\ Cardinality(added[c]) = Len(sent[c].rights)
          /\ MoveTo(c, "commit") /\ UNCHANGED <<rows, dropped, added>>
       \/ /\ Cardinality(added[c]) < Len(sent[c].rights)
          /\ \A d \in Linkers(c) : \A row \in dropped[d] \cup added[d] : ~SameLink(row, NextLink(c))
          /\ IF \E row \in (rows \ dropped[c]) \cup added[c] : SameLink(row, NextLink(c))
             THEN Finish(c, "failed") /\ UNCHANGED rows
             ELSE /\ added' = [added EXCEPT ![c] = @ \cup {NextLink(c)}]
                  /\ rows' = rows \cup {NextLink(c)}
                  /\ UNCHANGED <<step, got, dropped>>
    /\ UNCHANGED <<nodes, templates, items, seen, sent>>

\* INSERTs in the order of the body, each waiting for others that insert or delete the same link.
InsertLink(c) ==
    /\ step[c] = "link"
    /\ \/ /\ Cardinality(added[c]) = Len(sent[c].rights)
          /\ MoveTo(c, "commit") /\ UNCHANGED <<dropped, added>>
       \/ /\ Cardinality(added[c]) < Len(sent[c].rights)
          /\ \A d \in Linkers(c) : \A row \in dropped[d] \cup added[d] : ~SameLink(row, NextLink(c))
          /\ IF \E row \in (rows \ dropped[c]) \cup added[c] : SameLink(row, NextLink(c))
             THEN Finish(c, "failed")
             ELSE added' = [added EXCEPT ![c] = @ \cup {NextLink(c)}] /\ UNCHANGED <<step, got, dropped>>
    /\ UNCHANGED <<catalogTables, seen, sent>>
-------------------------------------------------------------------------------
\* The program stops, the database does not answer, or breaks a deadlock of two replacements.
Abort(c) ==
    /\ step[c] \notin {"idle", "done"}
    /\ Finish(c, "failed")
    /\ UNCHANGED <<catalogTables, seen, sent>>

Handle(c) ==
    \/ CreateNode(c) \/ InsertNode(c) \/ ReadNode(c) \/ UpdateNode(c) \/ DeleteNode(c)
    \/ CreateTemplate(c) \/ UpdateTemplate(c) \/ DeleteTemplate(c)
    \/ StartItem(c) \/ ReadCategory(c) \/ ValidateItemAttributes(c) \/ WriteItem(c)
    \/ ReplaceItemWarehouses(c) \/ ReplaceAttributeValues(c) \/ Commit(c) \/ DeleteItem(c)
    \/ ReplaceCatalogLinks(c) \/ CleanupLinks(c) \/ InsertLink(c)
    \/ Abort(c)

\* A deleted warehouse takes the places of items in it; the DELETE waits for transactions
\* that hold it.
StorageStep(r) ==
    /\ Serve(r)
    /\ \A w \in DOMAIN warehouses \ DOMAIN warehouses', c \in Clients : ~Touches(c, "placed", w)
    /\ rows' = {row \in rows : row.in = "placed" => row.other \in DOMAIN warehouses'}
    /\ UNCHANGED <<nodes, templates, items, work, step, sent, got>>

Next ==
    \/ \E r \in Requests : StorageStep(r)
    \/ \E c \in Clients : Handle(c) /\ UNCHANGED storageVars

Spec == Init /\ [][Next]_vars
-------------------------------------------------------------------------------
\* A category with a parent is one level below it and its path goes through it, whatever is
\* deleted and made again between the look-up of the parent and the INSERT.
CatalogIsATree == IsTree(nodes)

\* An item has a unit that is a unit, and shows the path of the category it has, though the
\* path was read before the item was stored.
ItemsFitCatalog == Fit(items, nodes)

\* The warehouses and values of an item are those of the very body that its row shows, less
\* the warehouses and templates deleted since: two updates of an item never mix.
ItemIsOneBodys ==
    \A i \in DOMAIN items : items[i].by \in Clients =>
        LET b == sent[items[i].by]
        IN  /\ {row.other : row \in OwnRows("placed", i)} = b.warehouses \cap DOMAIN warehouses
            /\ {row.other : row \in OwnRows("valued", i)} =
                   {b.attributes[a].template : a \in DOMAIN b.attributes} \cap DOMAIN templates

LinksBy(i, w) == {row \in OwnRows("linked", i) : row.by = w}

\* The links that a replacement gave an item are there as one: all that its body lists, or none
\* (the transaction of ReplaceCatalogLinks).  Two replacements at once may leave the links of both,
\* because the DELETE of each sees neither the other's rows nor, if it waits, what takes the place
\* of those it waits for; but what no replacement is still to see, the seed, is gone with the first.
LinksComeAndGoTogether ==
    \A c \in Clients : LET b == sent[c]
                      IN  \A i \in {row.owner : row \in rows} : LinksBy(i, c) # {} =>
                             /\ b.op = "replaceLinks" /\ b.left = i
                             /\ {row.other : row \in LinksBy(i, c)} = {b.rights[k] : k \in DOMAIN b.rights}
                             /\ LinksBy(i, "seed") = {}

\* Every place of an item names an item and a warehouse that exist, and every value a template,
\* whichever of the two is deleted while a transaction adds the row.  The owners of values and
\* links are bound by no foreign key; what should become of those of an item that is deleted
\* is DeletionTakesRelated.
RowsReferToRows == Relate(rows, items, warehouses, templates)

\* "DeleteItem removes item and related records" (catalog_repository.go): when a deletion is
\* answered, no row of the three relations is the item's any more.
DeletionTakesRelated ==
    [][\A c \in Clients :
          sent'[c] # NoCall /\ sent'[c].op = "deleteItem" /\ got[c] = "none" /\ got'[c] = "ok" =>
             \A row \in rows' : row.owner # sent'[c].item]_vars
===============================================================================
