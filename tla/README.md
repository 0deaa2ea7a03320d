# ASFP-Pro: a TLA+ model of the ERP backend

This directory holds TLA+ specifications of the backend of ASFP-Pro (Go services over
PostgreSQL, a Tarantool queue and ClickHouse), the TLC configurations that check them on
small instances, and proofs of their main theorems for the TLA+ proof system.

Run a check with `tlc -config <cfg> <module>` (for instance
`tlc -config MCDocuments.cfg MCDocuments`) and a proof with `tlapm <module>.tla`.
`PROJECT.json` is the index: components, runs, the code lines each definition stands for,
mutants that show each property can fail, findings, hazards and theorems.

## 1. Inventory

The repository is a "modular monolith": a **gateway** that serves the whole API, and one
small **service per domain** (`modules/*`) that serves its domain's API again. The README of
a module says that the gateway proxies it. In the code it does not: the gateway has its own
copy of handler, service and repository for every domain, and both programs work on **the
same PostgreSQL schema**. So the programs meet only in the database, and concurrency control
is whatever each statement's transaction gives. PostgreSQL runs under READ COMMITTED.

| Component | State | Operations | What is hard |
|---|---|---|---|
| docs (`modules/docs`, `gateway/internal/docs`) | number sequences, documents, their signers | create / update a document | number allocation under row locks, rollback after a number was taken, deadlocks between signers' rows, two copies that differ |
| crm service (`modules/crm`) | deals, deal history | create a deal | four stores written one after the other with no transaction |
| event queue (`pkg/queue`) | the tube: jobs ready, taken, acknowledged | publish, take, ack | acknowledgement before handling, jobs held for a consumer that gave them up, crashed sessions |
| analytics (`modules/analytics`) | `analytics.events` in ClickHouse | consume events; read-only reports | what a failed or empty message does to the loop |
| core (`gateway/internal/core`) | org units, users, roles, permissions, API tokens | CRUD, permission checks | check-then-act on the unit tree, replaced sets of rows, case of role codes |
| authentication, middleware (`gateway/internal/auth`, `http`) | none of their own | who is asking, may they | three reads at three times, while roles and permissions change |
| crm in the gateway | customers, deals, events | create / update under scopes | no way out of one's scopes; history out of order with updates |
| wms (`modules/wms`, `gateway/internal/wms`) | warehouses, zones, cells, catalogue tree, items, stock | CRUD with validation | materialised paths, replaced link sets, cells of a zone |
| bpm, mes, montage, desks of docs (`modules/*`, `gateway/internal/*`) | processes, forms, tasks; work centres, operations, routes; crews, vehicles, tasks; templates, signers | create, update some columns | concurrent partial edits through three layers that each drop or refuse fields; creates sent twice |
| audit (`pkg/audit`) | append-only log | record, list by cursor | a cursor in another order than the pages |
| web client (`apps/web`) | React state | pages over the API | mostly layout |
| config, db, health, log, s3, deploy | - | start-up, probes, object storage | input and output |

What makes each component correct:

- **docs**: every sequence is gapless and gives no value twice, no valid document is refused
  for its number, an update is applied whole or not at all, time stamps follow statuses, the
  answer shows what was written, and every request ends.
- **crm service, queue, analytics**: nothing refers to a deal that is not stored; messages
  are delivered at most once, and in order but for those whose take or acknowledgement failed; a created deal is published; a published deal
  reaches analytics; the tube drains.
- **core**: paths and levels agree with parents, no cycles, no unit lost that a
  deal or warehouse names; sets of roles are replaced whole; nobody is let in on rights taken away
  before the request came.
- **crm in the gateway, stock**: a user with scopes never reads or changes a deal or warehouse
  outside them, and writes stock only under the code of a warehouse looked up in them; the history of
  a deal tells only what the deal has been.
- **wms**: nothing refers to a row that is gone; paths of the catalogue follow the tree; an
  item's warehouses and values are those of one caller; what is deleted is recorded.
- **bpm, mes, montage, templates and signers**: a code names one record, no edit undoes another's columns, the answer
  shows what was accepted.
- **audit**: pages cover the log once.

## 2. Plan

Modules, in order; each has an MC module and configurations, and a proof module where it
has theorems.

1. `NumberRegister`, `DocumentLedger`, `Documents` (written, proved): the register and the ledger
   as abstract specifications, the transactional programs as their implementation.
2. `LossyFifo`, `DealPipeline` (written, proved): the lossy channel as an abstract
   specification, crm service, queue and consumer as its implementation.
3. `OrgUnits` (written, proved): creating and deleting units with their check-then-act steps;
   the tree with its paths as an invariant. `Access` (written, proved): users, roles, permissions
   and API tokens, and the decision of the middleware; the units are a constant there.
4. `Storage` (written, proved): warehouses and what stands in them. `Catalog` (written,
   proved): the tree of nodes, templates, items and links, composed with `Storage`.
5. `UnitScopes` (written, proved): customers, deals and their history, warehouses and stock under
   the scopes of their reader or writer.
6. `Records` (written, proved): bpm, mes, montage, and the templates and signers of docs, eleven tables of one
   shape.
7. Not begun: pages of the audit log under concurrent commits.

Theorems worth proving: type correctness and the safety invariants of each module, the
three refinements (`Documents` implements `NumberRegister` and `DocumentLedger`, `DealPipeline`
implements `LossyFifo`), the findings of section 4 for all values of the constants, the shape of the unit tree, the rows of storage, the isolation of scopes, that no
edit of a record is lost, what lets a request in, the tree and the rows of the catalogue.

## 3. What is modelled

### Documents

`Documents.tla` models `POST /documents` and `PUT /documents/:id` of both programs. A
**request** is one handler invocation; `Site` says which program serves it. `pc` is where the
handler stands; one action is one SQL statement (or the BEGIN or COMMIT) with the code up to
the next one:

| Action | Code (`modules/docs/internal/repository/repository.go` unless said) |
|---|---|
| `Receive` | handler and service validation: statuses, default `issued` |
| `BeginTx` | `pool.BeginTx`: waits while all connections of the program are out |
| `NextNumber` | `nextNumber`: `SELECT ... FOR UPDATE` and the increment |
| `InsertDocument` | the INSERT, `UNIQUE (number)` and the template's foreign key |
| `InsertDocumentSigners` | `insertDocumentSigners`, unknown or repeated signers fail |
| `UpdateDocumentFields` | `updateDocumentFields` with its `statusClause` (`Stamped`) |
| `UpdateSignerStatus`, `SignersUpdated` | `updateSignerStatuses`, one statement per signer |
| `GetDocumentTx` | `getDocumentTx` and `attachSigners`: inside the transaction in the service, through the pool in the gateway (`gateway/internal/docs/repository.go`, line 476) |
| `Commit` | COMMIT; the reply may be lost |
| `Disconnect`, `DeadlockVictim` | a broken connection; PostgreSQL's deadlock detector |

Committed rows are in `seqRow`, `docRow`, `signRow`; a transaction's own writes in `num`,
`docW`, `signW` until `Commit`, and gone with `Rollback`. Row locks are read off the open
transactions' writes (`HoldsSequence`, `HoldsDocument`, `HoldsSigner`); a statement that
needs a held row is not enabled. `NOW()` is the time the transaction began, so stamps come
from `start`. Left out: titles, payloads and metadata, reads and lists, and the digits of a
number (`Number` is the pair of prefix and value; the padding is the same for all sequences
as seeded and no value outgrows it within the bounds).

`NumberRegister.tla` is what the domain promises with no database in sight: one step takes
the next value of a sequence for a new document. `DocumentLedger.tla` is what the clients of
both routes may rely on: requests are answered one at a time, each against the rows the last
success left, and a request without success leaves no trace. It has none of the transactions,
locks and connections of `Documents`, and no half-done request; `counter`, `doc`, `signers` and
`reply` are there what is committed and answered here. What the answer to an update shows (`seen`)
is no part of it, for the gateway composes that outside its transaction.

### From a deal to analytics

`DealPipeline.tla` models `modules/crm` `DealService.Create`, `pkg/queue` and the consumer
of `modules/analytics`. A request walks through `InsertDeal`, `AppendEvent`, `Publish`,
`RecordAudit`; the consumer through `Take`, `Ack`, `Handle`. Each call to a store ends `ok`,
`failed` (no effect) or `lost` (effect, but an error for the caller): `CrashService` and
`CrashConsumer` stop a program between two steps. The tube is a sequence of jobs with their
states, as Tarantool's FIFO tube keeps them. A job that is taken stays in the hands of the
consumer's session until it is acknowledged or the session ends (`SessionEnds`, `CrashConsumer`),
which makes it ready again in its old place. An error of take or ack ends neither: `Next` returns it
(lines 110-113 and 139-141 of `pkg/queue/tarantool.go`), `Run` sleeps a second and takes the next job,
and the tube goes on holding a job that was taken in a lost reply or not acknowledged. `slipped` keeps
the numbers of such jobs. They come back after later ones, or never while the session lasts.
`Reconnect` makes a new session or, after `MaxReconnects: 5` (line 159), ends in `closed`: the driver
then stays closed, `Run` loops over its error, and only a restart of the program changes that.
`Decoded` is what
`Consumer.Next` unmarshals: the *payload* of the message, not the message.
Left out: amounts, currency and the org unit of a deal; the upper limit of the tube (5000)
and the five second deadline, whose expiry is a `lost` or `failed` call. The delay between two attempts to
connect is left out as well.

`LossyFifo.tla` is what a subscriber can count on: no message twice, and the order they were sent in
but for those that slip (`Slip`), each of which may come late or be lost.

### The organisation tree

`OrgUnits.tla` models `POST`, `PUT` and `DELETE /api/v1/org-units` of the gateway
(`gateway/internal/core`) and the table `core.org_units`. The code runs no transaction here:
each statement is one of its own, so each is one action, and what a handler remembers in
between (`place`) may be out of date.

| Action | Code |
|---|---|
| `Receive` | the three handlers and the checks of the service |
| `GetParent` | `GetOrgUnitByCode`, the parent's id, path and level are kept in `place` |
| `Insert` | `CreateOrgUnit`: the row `NewRow`, both UNIQUE constraints, the parent's foreign key |
| `Update` | `UpdateOrgUnit`: one UPDATE by code (name and description left out) |
| `CheckChildren`, `Delete` | the two statements of `DeleteOrgUnit`; `Without` is ON DELETE SET NULL |
| `RecordAudit` | `recordAudit`, whose failure is only logged |
| `Fail` | the program stops, or the database is out of reach |
| `Refer`, `Release` | the rows of deals and warehouses, whose foreign keys name a unit's code |

A unit's id is the request that created it: ids are generated and never used again. A code
is a sequence of labels and a path the concatenation of codes, since nothing in the service
keeps the separating dot out of a code: `<<A, B>>` is the code "A.B". `EndsAfterDot` says that one
code ends with the other. `named` is where the modules of deals and warehouses
meet this one.

### Warehouses and the catalogue

Both model `modules/wms`, whose rows the gateway's copy (`gateway/internal/wms`) writes too,
with statements that the modules allow. `Storage.tla` has the tables of migration 0002:

| Action | Code |
|---|---|
| `CreateWarehouse` ... `UnassignEquipment` | the service's methods that are one statement each; a refusal is `Refuse` or an answer of the action |
| `Cascade` | the DELETE of a row and ON DELETE CASCADE, down to assignments and history |
| `CreateCell`, `LogCellHistory` | `CreateCell`: the INSERT, then history and audit, whose failure is dropped |
| `GetCell`, `UpdateCell` / `DeleteCell`, `LogCellHistory` | the methods of these names: a read by the cell's id alone, a statement by all ids of the path, the history |
| `Break` | the program stops, the database is out of reach, the five seconds are over |

Foreign keys relate a cell to its zone and to its warehouse, but nothing relates the zone to
that warehouse, and the model allows what the code allows.

`Catalog.tla` EXTENDS it with the tables of migration 0003:

| Action | Code |
|---|---|
| `CreateNode`, `InsertNode` | `CreateCatalogNode`: level and path are those of the parent as read (`seen`) |
| `ReadNode`, `UpdateNode` | `UpdateCatalogNode`, which refuses another parent or code |
| `DeleteNode` | one DELETE; `WithoutNode` is ON DELETE SET NULL, a unit in use is kept |
| `CreateTemplate`, `UpdateTemplate`, `DeleteTemplate` | one statement each |
| `StartItem`, `ReadCategory`, `ValidateItemAttributes` | the reads of `CreateItem` and `UpdateItem`, outside the transaction |
| `WriteItem`, `ReplaceItemWarehouses`, `ReplaceAttributeValues`, `Commit` | the transaction: `upsertItem` or `updateItemRow`, then the two relations |
| `DeleteItem` | one DELETE; no foreign key binds values and links to the item |
| `ReplaceCatalogLinks`, `CleanupLinks`, `InsertLink`, `Commit` | `ReplaceCatalogLinks`: its DELETE, in the two parts that PostgreSQL gives it, and the INSERTs |
| `Abort` | the transaction ends without a commit; deadlocks end so |
| `StorageStep` | a step of `Storage`, with the rows of items that a deleted warehouse takes along |

The rows of the three relations that a transaction has deleted and inserted are `dropped` and
`added` until its commit. `ItemWriters`, `Holding`, `Touches` and `Linkers` are the locks
others wait for. A link bears the request that inserted it (`by`), for a DELETE that has waited
passes over rows that are gone and does not see equal ones that took their place. So two
replacements of the same links can leave the union of both, and `LinksComeAndGoTogether` says what
holds nevertheless. The values and links of an item that is deleted stay behind, though the comment says that related
records go (run `catalog_delete`); `RowsReferToRows` leaves their owners out.
Left out: which of the data types an attribute has (a JSON value is never missing), the
columns that no other row or later decision depends on, and layout versions, which have a
table and no code.

### Users, roles and the way in

`Access.tla` has the tables of users, their roles, roles' permissions and API tokens
(`gateway/internal/core`), and what each request of those routes passes on its way in:

| Action | Code |
|---|---|
| `Receive` | `parseBasicAuth` and the body |
| `Authenticate`, `fetchUserOrgUnits` | `auth.Service.Authenticate`: one SELECT of the user with its roles, one of its units |
| `permissionGuard` | `permission_middleware.go`, `CheckPermission`, `HasPermission`: some role, some scope, of whatever grant |
| `InsertUser`, `UpdateUserRow`, `ValidateRoles` | the first statements of `CreateUser` and `UpdateUser` in their transaction |
| `BeginDelete`, `Delete`, `InsertRow`, `Commit` | `replaceUserRolesTx` and `ReplaceRolePermissions`: the DELETE in the two parts that READ COMMITTED gives it, one INSERT per entry |
| `RoleExists`, `normalizeScope` | the checks of `UpdateRolePermissions` and `CreateAPIToken` |
| `CreateRole`, `CreateAPIToken`, `RevokeAPIToken` | one statement each |
| `RecordAudit`, `Fail`, `DeadlockVictim` | the audit entry, whose failure is dropped; a stop; PostgreSQL's deadlock detector |

`HoldersOfUser`, `HoldersOfRows` and `HoldersOfKey` are the locks of rows and keys that others
wait for; one that waits for itself over others (`Deadlocked`) may be failed. What the rest of the API does after the guard is not here: the guard is the same for it.
Left out: names and descriptions, the hash of a password (its verifier is equality), the lists.

The code promises less than a reader may think, and the properties say so: a role that was
created with a capital letter grants nothing (roles are looked for in lower case);
replacements that change nothing but roles, or a role's permissions, take no common lock, and
the union of two may stay; a permission and a scope may come from different grants; a token is
stored and revoked, but no route accepts one.

### Scopes

`UnitScopes.tla` models `gateway/internal/crm` and the warehouses and stock of
`gateway/internal/wms`, with the wms service (`modules/wms`) as the other writer of both tables. A
request brings its sender's scopes, as `Access` leaves them:

| Action | Code |
|---|---|
| `CreateCustomer`, `UpdateCustomer` | one statement each; customers have no unit |
| `CheckCustomer`, `CreateDeal` | `CreateDeal`: `CustomerExists`, the unit, the INSERT |
| `FindDeal`, `CheckCustomer`, `UpdateDeal` | `UpdateDeal`: the row and its scope, the customer if one is given, the UPDATE by id |
| `AppendDealEvent`, `RecordAudit` | two more statements; the history is stored last |
| `CreateWarehouse`; `FindWarehouse`, `UpdateWarehouse`; `FindDoomed`, `DeleteWarehouse` | the methods of `wms.Service` |
| `ServiceCreate`, `ServiceUpdate`, `ServiceDelete` | the wms service's statements on the same table: no scopes; a creation takes the unit of `WmsUnit`, an update sets every column but the unit, the code included |
| `CheckStore`, `UpsertStock`; `InventoryUpsert` | the two programs' upserts of stock |
| `FindForHistory`, `List` | the history of a deal, the four lists |

Quantities, amounts and currencies are left out. Stock is bound to its warehouse by code alone:
it stays when the warehouse is deleted, or given another code by the wms service, and passes to the
next one of that code, in whatever unit. `StockGoesWhereChecked` says what the check of the scope is
worth nevertheless: in no other way does the code leave the warehouse that was looked up. The programs
differ in what they make of a row that is there: the gateway's statement replaces its unit of
measure, the service's keeps it.

### Records of bpm, mes, montage and docs

`Records.tla` describes eleven tables by the rules of their code, one definition for each function:
`Create*` and `Update*` is what a service asks, `Reads*` what a handler refuses or passes over,
`Takes*` and `Sets*` the columns a repository writes. Five actions interpret them:

| Action | Code |
|---|---|
| `Receive` | the handler and the service, up to the repository's statement |
| `Insert` | the repositories' `Create*`: `UNIQUE (code)` and the foreign keys |
| `Update` | the repositories' `Update*`: `UPDATE ... SET` the columns given `RETURNING` the row |
| `Get` | the repositories' `get*`: an update that gives no column |
| `Fail`, `Retry` | a statement that fails; a reply that is lost and a client that sends the same once more |

`modules/*` and `gateway/internal/*` hold two copies of this code. They agree in all that is
modelled here, so a request stands for either. They differ in how long a list may be, and in where
an id is parsed. `bpm.assignment_rule`, `bpm.escalation` and `mes.work_order` are tables that no
code writes. Statuses may change from any to any; nothing in the repository orders them.

## 4. Runs and their bounds

Passing:

- `documents`: three requests, two to the service and one to the gateway (pools of two, so that the
  gateway's second connection is always to be had). Either all create, over two sequences (one
  starting at 7) with prefixes of their own, from seven bodies that fail at each statement: three are
  the least at which one waits for a lock while another rolls back and a third commits. Or they
  create one document and update it, from ten bodies that list two signers in opposite orders
  (deadlock), unknown and repeated signers, an unknown document and every status (`Workload` keeps
  the two apart). Checks `TypeOK`, `GaplessNumbers`, `NoNumberRefused`, `DocsShowsUpdate`, that
  `Documents` implements `NumberRegister` and `DocumentLedger`, and, under fairness,
  `EveryRequestAnswered`.
- `deal_pipeline`: three deals (a missing title and an unknown customer among the bodies) and
  two faults anywhere: two let a session end, or the consumer stop, after a job has slipped, so that
  it comes back behind later ones. Checks `TypeOK`, `NothingWithoutDeal`, `HeldOnlyByFaults` (what
  keeps a job from the tube, and what lets a later one pass it), that it implements `LossyFifo`,
  and `TubeDrains`: a job leaves the tube, unless a session that stands keeps it after a fault or the
  driver is closed for good. Nothing more is to be had, for the code sets no limit to how long a
  session holds a job that `Next` has given up.
- `org_units`: three concurrent requests of 13 bodies (creations with and without a parent,
  changes, deletions) over two seeded units and four codes, while deals and warehouses come
  and go. The fourth code has a dot: at the top its path is that of the seeded department. Three requests are the least at which one holds a parent it has read, a second
  deletes it and a third makes its code again. Checks `TypeOK`, `TreeShape`,
  `NamedUnitsStay`, `LandsUnderNamedParent`, `ConflictNeedsDots`.

- `catalog`: two requests out of 22 bodies, which cover every operation and every refusal, with
  one request that makes, changes or deletes a warehouse (all that they see of `Storage`); or, by
  themselves, two requests of any kind on `Storage`, over two warehouses, two zones, a cell, a piece of
  equipment and its assignment, so that a deletion falls between the steps of another request's
  insert. Rows carry fresh ids and no request reads what another
  has only planned, so two requests show every conflict of a reader and a writer, or of two
  writers; the third party, a deleted warehouse, comes from `Storage`. Requests of one kind are
  interchangeable (symmetry). Checks `TypeOK`, `NothingDangles`, `CatalogIsATree`,
  `ItemsFitCatalog`, `ItemIsOneBodys`, `RowsReferToRows`, `LinksComeAndGoTogether`.

- `access`: two requests of 21 bodies by the administrator and by a clerk, one of them perhaps on
  its way in while the other takes its sender's roles, password or state away, or both replacing one
  set of rows, in the same or the opposite order. What a property relates is a request and one
  other. Checks `TypeOK`, `CreatedWhole`, `ReplacesWhole`, `AdmittedOnRights`,
  `RefusedOnlyWithoutRight`, `RevokedOnce` and, under fairness, `EveryRequestAnswered`.
- `unit_scopes`: three requests of 36 by four senders (everywhere, sales, warehouse and a unit that
  is gone, that unit alone) and by users of the wms service, over a deal and a warehouse. Three are the least at which a stock
  request has looked up a warehouse that a second deletes or renames and a third makes again. Two of them are
  interchangeable. Checks `TypeOK`, `ShownInScope`, `HistoryIsTrue`, `ChangesStayInScope`,
  `StockGoesWhereChecked`.
- `records`: three requests of 28, each sent at most twice, over seven rows and every table; codes in
  two cases. Two edit one row or make one code while a third reads or repeats. All are
  interchangeable. Checks `TypeOK`, `CodesNameRows`, `NoEditIsLost`, `AnswerShowsEdit`.

Violations, each a disagreement of the code with what the repository says of it. A run shows one
trace; the theorem named with it (section 6) says how far the finding goes:

- `docs_seed_numbers` (`NoNumberRefused`): the seeded sequences share the empty prefix while
  `UNIQUE (number)` spans them all, so the first document of the second one is refused.
  It is refused for good, however often it is tried (`SharedPrefixStops`).
- `docs_gateway_pool` (`EveryRequestAnswered`): the gateway takes a second connection inside
  a transaction; as many updates as the pool has connections wait on each other for ever,
  whatever the size of the pool (`FullPoolStaysFull`).
- `deal_analytics` (`PublishedReachesAnalytics`): without any fault, no `DealCreated`
  reaches `analytics.events`, for the consumer decodes the payload as the envelope and
  drops the job. No behaviour at all gets one there (`NothingReachesAnalytics`).
- `storage_history` (`DeletionsAreRecorded`): "DeleteCell removes a cell and records
  history", but the entry refers to the cell that is gone, and the failed INSERT is dropped.
  In no behaviour is one recorded (`DeletionsGoUnrecorded`).
- `catalog_delete` (`DeletionTakesRelated`): "DeleteItem removes item and related records", but it is
  one DELETE, and no foreign key binds an attribute value or a link to its owner: both stay.

The models show three more behaviours that no run keeps a trace of. The gateway composes the answer
to an update of a document outside its transaction, so it shows the signers of before
(`DocsShowsUpdate` is said of the service alone). A publish that fails, or a stop before it, loses the
event of a created deal: README.md speaks of an outbox, there is none. A child stored between
`CheckChildren` and `Delete` does not stop the deletion of its parent, and becomes a root with its
old path and level.

Two more disagreements with the repository's texts can be read off the models without a run. A
conflict is "org unit with code already exists" (`gateway/internal/core/errors.go:16`), but a free code
gets it too where a dot makes two paths equal: `ConflictNeedsDots` admits this case and no other.
And `docs/masterdata/dynamic-attributes.md` (lines 22 and 93) says that the API enforces the
presence of an attribute that `is_required` and refuses `missing values`, but `validateItemAttributes` looks at the attributes that are sent
(`masterdata_service.go:667-722`, `Valid` in `Catalog`), so one that is left out is never missed.

Deadlock checking is off in every run: once each request is answered the system rests.
The number of requests bounds every counter; no module needs another bound, save
`MaxFaults` in `DealPipeline`.

## 5. Fairness

`Documents`: weak fairness of `Step(r)` for each request: its handler runs, and the database
answers a statement that nothing blocks; a deadlock is broken (`deadlock_timeout`). Neither
arrivals nor failures (`Receive`, a lost COMMIT, `Disconnect`) are fair. The pools and locks
are free once their holders end, which weak fairness of each holder gives.

`DealPipeline`: weak fairness of each handler, of the consumer's loop (`Run` never returns while its
context lives) and of `Reconnect`: the driver's attempts to connect come to an end, in a new session
or, after the last of them, in `closed`. That it connects is not assumed, nor that a session that
stands ever ends. An outcome is a choice at each call; faults are bounded by `MaxFaults`, so calls
succeed in the end. Crashes and restarts are not fair: the deployment starts a program again when it
has stopped, not when its client is closed.

`OrgUnits` states no fairness and no liveness: its handlers take no locks that outlive a
statement, so nothing there can wait.

`Access`: weak fairness of `Step(r)` for each request: the handler runs, a statement that nothing
blocks is answered, a ring of transactions that wait for each other is broken. Arrivals and
failures are not fair.

`UnitScopes` and `Records` state none: no lock there outlives a statement.

`Storage` and `Catalog` state none either: what their requests promise is safety, and a request
that waits for ever is broken by its five seconds (`Abort`).

## 6. Proofs

`DocumentsProofs.tla` proves, for every value of the constants that meets the module's named
assumptions:

- `TypeCorrect`: `Spec => [](TypeOK /\ InputInv)`. `InputInv` says that a request under way
  holds a valid body, without which `TypeOK` is not inductive (a row takes its status from
  the body).
- `NumbersAreGapless`: `Spec => []GaplessNumbers`. `GaplessNumbers` speaks of committed rows
  alone and is not inductive: `NumberInv` adds what an open transaction knows. A transaction
  that holds a sequence has exactly the next value (so no two hold one sequence), its
  uncommitted document bears that value, and a request's own row is not yet committed.
- `OwnPrefixesSuffice`: if no two sequences share a prefix, then `[]NoNumberRefused`. The
  hypothesis is what the seed breaks (run `docs_seed_numbers`).
- `Refinement`: `Spec => ImplementsRegister`: a commit of a create is `Issue`, every other
  step is a stutter.
- `StampsAlwaysMatch`, `DocsAnswersWithUpdate`, `AppliedWholeOrNot`: `[]StampsMatchStatus`,
  `[]DocsShowsUpdate` and `AllOrNothing`. They share one invariant, `UpdateInv`. `Held` says
  that what an open transaction has written is what its body asks for up to the entry it
  stands at (`Marked`: of the entries so far, the last about each signer), with timestamps
  that fit; `RowsFit` says so of the committed rows, and that a document not yet there has
  no signers, so that the overlay of a create's rows is those rows. A step of one request
  touches nothing another holds (`OthersHeld`), which leaves one lemma per action. They need
  `MarksAreLists`: the signer statuses of a body come in an order. (`AllOrNothing` and
  `StampsMatchStatus` are proved only: the run checks the ledger, which says more.)
- `ServesLikeLedger`: `Spec => ImplementsLedger`. A request enters the ledger when it arrives, and a
  COMMIT is its `Succeed`; what statements and the rest of the protocol do is a stutter, save that a
  transaction that begins may be a `Tick`. A statement reads what was committed before the COMMIT
  it leads to, so `LedgerInv` says that this makes no difference (`WrittenAsLedger`): what an open
  transaction has written is at every moment what the ledger would make of the rows *as they now
  stand*. The rows it has written cannot change, because their locks exclude every other commit
  (`LocksExclude`); what a create has inserted bears a number that no other document has or
  is about to get (`NumbersDiffer`); and the replies are those of requests that are through (`LedgerCalls`).
- `OnlyListsDeadlock`: `[]DeadlocksAmongLists`: in every ring of transactions that wait for each
  other each is an update that names two signers or more of one document. Sequence, document and
  signers are locked in this order, so only the order of the signers is left to the client.
- `FullPoolStaysFull`: once each connection of the gateway is out to an update that waits for
  another one, nothing but a broken connection ends it, for a pool of any size.
- `SharedPrefixStops`: of two sequences with one prefix, the one behind (`Lags`: the number it would
  give next is borne by a document) never issues a document again. Its counter stands still, for
  only a create that succeeds moves it, and documents keep their numbers.

`DealPipelineProofs.tla`, likewise:

- `PipelineTypes`, `NothingDangles`, `OnlyFaultsHoldJobs`: types, `NothingWithoutDeal` and
  `HeldOnlyByFaults`. The inductive invariant is `TypeOK` with what each program knows at the
  step where it stands: a handler past its insert has a stored deal, and a consumer past its
  take speaks of a job that was put. With it `HeldOnlyByFaults` is inductive as it stands.
- `SubscriberHasLossyFifo`: `Spec => ImplementsChannel`. A take or an acknowledgement that fails with the
  job in the session is `Slip`, or a stutter where it had slipped before; one that is acknowledged
  is `Deliver` or, in a lost reply, `Lose`, in turn or late by `HeldOnlyByFaults`.
- `NothingReachesAnalytics`: `[]NothingAnalysed`, with or without faults: `analytics.events` stays
  empty, for what `Decoded` makes of any payload has no event type and is not handled.

`OrgUnitsProofs.tla`, likewise:

- `OrgUnitTypes`, `TreeKeepsShape`, `NamedUnitsAreKept`, `UnitsLandWhereNamed`: types and
  the properties of the run. A tree alone is not inductive, for a creation writes what it
  read earlier. `PlaceTrue` adds that the unit a handler remembers is either gone (and its id
  with it, so the foreign key refuses the row) or has still the path and level it read.
- `OnlyDotsClash`: `Spec => ConflictNeedsDots`, for codes with dots and without. By `PathsEndInCodes` the
  two rows of a clash have codes that end one path, and of two ends of one sequence the shorter ends
  the longer (`EndsMeet`).

`StorageProofs.tla` proves `StorageTypeCorrect` and `NothingEverDangles` (`NothingDangles`) for
any number of requests and any seed that meets its foreign keys (`SeedFits`). The invariant
adds that a handler past its read knows what it was sent. One lemma, `CascadeIsWhole`, serves
all deletions: what is deleted must contain whatever refers to it. `DeletionsGoUnrecorded` follows from
both: an entry of the history is of a cell its request was about (`EntriesAreCalls`), it refers to a
row that is there (`NothingDangles`), and a deletion that was carried out has left none.

`CatalogProofs.tla` proves, of the composition with `Storage`, `CatalogTypeCorrect`,
`NothingDanglesBesideCatalog`, `CatalogStaysATree`, `ItemsStayFit` (`ItemsFitCatalog`),
`OneBodyPerItem` (`ItemIsOneBodys`), `RowsAlwaysRefer` (`RowsReferToRows`) and
`ReplacementsStayWhole` (`LinksComeAndGoTogether`), for any clients,
requests, bodies and seed that meet `BodiesAreBodies`, `LinksAreLists`, `CatalogSeedFits` and `IdsAreFresh`. The
steps of the warehouses rest on `StorageProofs`. None of them is inductive: each writes at
one step what was read at another. The invariant adds three things. `Knows` says of a handler
what it has read (`ParentRead`, `UnitRead`, `CategoryRead`: the node, unless it is gone, is as
it was), what its locks keep (`Held`), and what its transaction will delete and insert (`Work`:
at the commit, all rows of the item go and those of its body come). `Made` says that rows are
made by handlers that are through, so that an id that is gone is never made anew, and a new
template or warehouse is not one that an older body named. `OneWriter` says that two
transactions never write one item. `Undisturbed` states once what the steps of others must spare
(`Spares`); for each action there remain its own handler and the tables it writes. The links have an invariant
of their own, `LinksInv`: what a replacement deletes (`Deleted`) is of every other replacement all
that is there or nothing, because its DELETE sees a commit whole or not at all, and all of the seed;
what it has inserted (`Inserted`) is a beginning of its body, whole at the commit.

`UnitScopesProofs.tla` proves `ScopeTypeCorrect`, `NobodySeesOthersRows` (`ShownInScope`),
`NobodyChangesOthersRows` (`ChangesStayInScope`), `StockIsWrittenWhereChecked` and
`HistoryTellsTheTruth`, for any units, scopes, bodies and seed. No property is inductive: a
handler checks a scope on a row it read some statements ago. `Knows` says what it still knows
at each step: that the row lies in its scopes, that the warehouse it saw has the code of the
body or has been given another by the wms service (`RenamedTo`), that the stage it will record is one
the deal had. This survives the steps of others because no row changes its unit, no warehouse its
code but by that service, and an id that is gone is never made anew (`Past`); `Frame` states that once, and `Assemble` leaves each action only its own
request to account for. With `UniqueCodes` the warehouse found again by its code is the one
that was checked.

`RecordsProofs.tla` proves `RecordTypeCorrect`, `CodeNamesOneRow`, `EditsAreKept`
(`NoEditIsLost`) and `AnswersShowTheirEdits`, for any bodies and rows. `OnItsWay` adds that a
body under way has passed the handler and the service, and `InCapitals` that stored codes are
in upper case already, so that two codes which differ differ in the index. The argument about
the code is `HeardIsAsked`: over the eleven tables and every column (`RulesFit`), what handler,
service and repository together take from a body is what it asks for, but for what
`Silent` names, where the code passes over a field without a word.

`AccessProofs.tla` proves `AccessTypeCorrect`, `UsersComeWhole` (`CreatedWhole`),
`ReplacementsAreWhole` (`ReplacesWhole`), `NobodyEntersWithoutRight` (`AdmittedOnRights`),
`NobodyWithRightIsRefused` (`RefusedOnlyWithoutRight`) and `RevocationsLast` (`RevokedOnce`), for
any number of requests and any seed. The invariant has three parts. `Work` says that what a
transaction has inserted is a prefix of what it was asked for, and that, if no other replaces the
same rows without the lock (`Apart`), it deletes every committed row it replaces. That last
part is the difficult one: `NoRowSlipsIn` shows that no commit of another puts such a row there,
because the row of a user has one holder (`UsersAreLocked`) and nobody writes roles of a user
that is not yet in the table (`Made`). `WayIn` relates what a request has read on its way to all
that was in force since it came in. `OnlyReplacementsDeadlock` says `[]DeadlocksAmongReplacements`:
whoever waits for itself (`Deadlocked`) stands at an INSERT of a replacement and waits for another
of the same rows, caught as well, that no lock of a user keeps apart. So deadlocks happen only where
a union may stay, and the creation of a user never fails for one. It needs that what a transaction
deletes is its owner's (`FoundOwn`).

Only model-checked: all liveness properties (fairness and
`ENABLED` are outside the proof system's reach). What the first four violation runs find is proved for
all constants, as far as it is a safety property: that a state once reached does not end, or that what
is promised never happens. What `catalog_delete` finds is one statement, shown by its run.

## 7. Not modelled

- Lists and reports, of every component: they read one statement's snapshot and change nothing.
  The pages of the audit log are the one list with a hazard of its own (section 2, item 7).
- Wire formats, logging, configuration, object storage, start-up and probes, deployment: input and
  output.
- The web client: pages over the API, whose state is what the server answered.
- `wms` layout versions, `bpm.assignment_rule`, `bpm.escalation`, `mes.work_order` and `pkg/rbac`:
  tables and code that no program uses.

`PROJECT.json` gives the reason for each component, and lists the hazards that no property covers.
