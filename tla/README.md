# Verification of Data Connect Hub

TLA+ models of the parts of Data Connect Hub in which several processes, stores
and services act on the same state, the TLC runs that check them on small
instances, and TLAPS proofs for every size of the instance. Every definition
that models code is listed in `PROJECT.json` under `map`, with the lines it
stands for.

## 1. The system

| Component | State it keeps | Operations that change it | Talks to |
|---|---|---|---|
| Meta store, `libs/pg-meta-store` | tables `data_connections`, `data_connection_types` (JSON documents: resource and status), `flight_services` | create, patch, set status, delete of each kind; each a transaction or one statement | PostgreSQL |
| REST service, `services/rest` | none of its own; several replicas | connection and type CRUD, inline credentials, export, readiness, Flight registration, audits | meta store, Kubernetes secrets, Flight service |
| Flight service, `services/flight` | TLS listener (semaphore, channel), registry of connectors | queries, tickets, `check_connection`, `check_credentials`, supported connectors | meta store, secrets, data sources |
| Connectors, `connectors/*` | a cache of readers per connection (moka: capacity, idle and total lifetime) | open, share, expire a reader | data sources |
| Authentication, `libs/kube-utils/src/auth.rs` | caches of token reviews and access reviews | authenticate, authorize | Kubernetes API |
| Secrets, `libs/kube-utils/src/secrets.rs` | none; secrets live in Kubernetes | create (refusing or overwriting), get, delete | Kubernetes API |
| Controller, `dc-controller` | status, finalizer and annotations of Kubernetes objects | reconcile a DataConnectService, register its Flight service, import ConfigMaps and Secrets, create initial types | Kubernetes API, REST service |
| Format readers, Python SDK, tests, docs | none shared | data transformation, client calls | - |

Interactions that carry the risk:

* A handler is a sequence of awaits. Between two of them any other handler, of
  this replica or another, may run; a request may be dropped at any await, when
  its client disconnects or the process stops.
* Nothing spans two systems: a secret and the row that refers to it, a Flight
  registration and the audit that tells the types about it, a status and the
  facts it describes are written by separate calls, any of which may fail, or
  take effect while its answer is lost.
* Integrity that a relational schema would declare is enforced by statements:
  the type a connection refers to sits inside a JSON document, without a foreign
  key.
* Retries are answered from what an earlier attempt left behind.

The hazards this exposes the code to are listed, line by line, in
`PROJECT.json` under `hazards`, with the properties that cover them.

What makes each component correct:

* **Meta store.** References resolve, names are unique per tenant, concurrent
  updates of the two halves of a document are not lost, transactions do not
  deadlock, and each operation looks atomic.
* **Inline creation.** A stored connection keeps the secret that was made for
  it; a failed request leaves no secret.
* **Flight discovery.** Retries do not register the service twice; an audit
  repairs what earlier ones left; the service ends up registered, and the types
  end up knowing of it.
* **Readiness.** Verdicts are right about the secret, the status ends up right,
  and no check hangs on another's pool.
* **TLS accept loop.** Permits come back, stalled clients do not stop accepts,
  finished handshakes are delivered, shutdown completes.
* **Requests.** What a request goes by (a token, a grant, a secret) is no older
  than the caches allow, a request never reads for a tenant it was not granted,
  and one that waits for another's call is answered when that one goes away.
* **Readers.** A stream is the result of the query as of one moment, in order,
  whole or ended by an error that has a reason; values are converted as closely as
  the column allows, or refused; what was opened at the source is closed.
* **Listing.** The tables a pattern selects, each once, while tables come and go.
* **Migration.** What is marked as imported is in the database of this install;
  a connection that a user deleted does not come back; everything is imported in
  the end, also after a reinstall.

## 2. Modules

| Module | Models | Extends / refines |
|---|---|---|
| `StoreSchema` | the two tables, visibility, unique indexes, integrity | |
| `ConnectionStore` | abstract specification: every store operation as one step | extends `StoreSchema` |
| `PgMetaStore` | `store/meta.rs`, statement by statement, with row locks | extends `StoreSchema`, implements `ConnectionStore` |
| `PgMetaStoreProofs` | theorems about `PgMetaStore` | extends it |
| `InlineCreate` | creation with inline credentials or a reference, delete, export | row creation is one step, as `ConnectionStore` promises |
| `InlineCreateProofs` | theorems about `InlineCreate` | extends it |
| `FlightRegistry` | registration by the controller, Flight service and type requests, `audit_data_connection_types` | store calls are single steps, as `ConnectionStore` promises |
| `FlightRegistryProofs` | theorems about `FlightRegistry` | extends it |
| `ConnectionReadiness` | `audit_data_connection` through REST, Flight and the PostgreSQL connector's cache | status writes are single steps |
| `ConnectionReadinessProofs` | theorems about `ConnectionReadiness` | extends it |
| `TlsIncoming` | `tls_incoming` of the Flight service | |
| `ColumnTypes`, `FileFormats`, `Queries` | pure functions of the connectors: column types and conversion of values; file formats, samples and inferred schemas; parsing of JSON queries | |
| `ReaderSession` | one request to a reader: the source, what the client got, what is held | extends the three above |
| `TableReaders`, `FileReaders` | `schema` and `read_tabular` or `read_binary` of the five databases; of S3 and URI with the format readers | extend `ReaderSession` |
| `TabularStream` | abstract specification: what a client may expect of any stream | |
| `DataReaders` | all readers together | extends the readers, implements `TabularStream` |
| `TableListing` | `list_tables` of PostgreSQL, SQLite and S3, and `do_get_tables` | |
| `ConnectorProofs` | theorems about `TableListing` and `DataReaders` | extends both |
| `ReaderErrorsProofs` | that errors of `DataReaders` have a reason | extends `ConnectorProofs` |
| `Clients` | which credentials make a client of each connector | |
| `FlightRequests` | a request through authentication, authorization, dispatch, the client cache and the reader; secret reviews of the REST service | extends `Clients`; a read is one step, as `TabularStream` describes it |
| `FlightServiceProofs` | theorems about `FlightRequests` and `TlsIncoming` | extends both |
| `Migration` | the import of ConfigMaps, Secrets and built-in types, the finalizer, reinstalls | a POST is one step, as `ConnectionStore` promises |
| `MigrationProofs` | theorems about `Migration` | extends it |
| `MC*` | instances for TLC | extend the above |

The composition is by promise: `PgMetaStore` is shown to implement the atomic
operations of `ConnectionStore`, and the modules of the services use store
calls as the atomic steps that this justifies.

### PgMetaStore

A session is a pool connection serving one request. `pc` is the statement it
runs next, `req` its request, `crow`/`trow` the document it is about to write;
`connUpdate`, `typeShare`, `typeUpdate` are the row locks; `types` and `conns`
are committed rows. PostgreSQL is external and is modelled at READ COMMITTED
from how the code uses it: a statement sees what was committed before it, FOR
UPDATE and FOR SHARE exclude each other as documented, a locked read that waited
sees the row as it then is, a write of a name in use by an uncommitted write
waits. `Begin`, `LockConnection`, `ValidateConnectionType`, `InsertConnection`,
`UpdateConnection`, `CommitConnection` are the statements of
`create_data_connection`, `update_data_connection` and
`update_data_connection_status`; `LockType`, `UpdateType`, `CountReferences`,
`DeleteTypeRow`, `CommitType` those of the type operations; `DeleteConnection`
and `CreateType` run as single statements. `Abort` is any statement failing, the
handle being dropped, or the service stopping; a commit and a single statement
may take effect although the caller is told of an error, and `SingleFails` is a
single statement that does not.

Documents are reduced to tenant, name, type reference and status. Parsing of
UUIDs, pagination and the reads are left out; reads change nothing, and a bad
identifier is refused before any statement.

### InlineCreate

Each handler serves one request. A secret is the handler whose credentials it
holds, or `Exported`. `CreateSecret`, `CreateRow` and `Compensate` are the three
calls of `create_connection_with_creds`; the compensation deletes by name.
`LostCreateSecret`, `LostCommit`, `CompensationFails` and `Crash` are the
failures the code cannot undo; variables `lost`, `unclean`, `deleted`, `touched`
record them, so that the properties exempt exactly those cases.

### FlightRegistry

The controller posts on every reconcile (`Register`), may give up waiting
(`ControllerTimeout`) while the handler goes on, and takes 201, 409 and the 400
with `connectors_already_exists` for success. `Probe`, `Compare`,
`InsertFlightService` are `create_flight_service`, also for services that others
post under names of their own; the unique index on namespace and name is
`NameTaken` (one namespace). `WriteRow` is the write of the other requests, a PATCH
of a Flight service being a merge of name, connectors and readiness that is
compared with nothing but the index. `exposed` is a history variable: services that
were stored while a registration under another name was past its comparison, or
whose name or connectors were patched. `ReadFlights`, `ReadTypes`, `UpdateTypeStatus`, `AuditDone`
are `audit_data_connection_types`. A status is the Flight service the formats
and the URL come from. `solo` is a history variable: nobody else wrote since the
handler's audit began.

### ConnectionReadiness

One connection; `Workers` are readiness requests being served. `GetConnection`,
`GetSecret`, `FindFlightService` and `WriteStatus` run in REST, `GetConnector` to
`SelectOne` in the Flight service. `pool` is the cached reader, identified by
the credentials it was opened with; `opening` is the request whose
initialisation the others join (`try_get_with`). `Change` is what the rest of
the world does, `CallFails` and `Dropped` are failures. `solo` is a history
variable: nothing changed or failed since the check began.

### TlsIncoming

`conn` is where each connection is, `loop` the accept task, `permits` the
semaphore, `channel` the bounded channel, `open` whether the server still
receives. Each action is one await point of the accept task or of a handshake
task.

### DataReaders

`provider` and `request` are fixed; `source` is the table, collection or file as
it is now, `view` as it was when the stream began, `pos`, `chunk` and `decoder`
the progress of the loop, `sent` the batches, `held` what the reader occupies at
the source. A value is a kind and a number, a column a name and a type; a row
carries its values, so that a cell can be compared with what it came from. Numbers
are scaled down: a float or an instant counts tenths (`Fine`) of the step that a
Float32 or a millisecond column can tell apart, and integers beyond `Exact` are only
exact to that step as floats. So the casts of the code (`as_float`, `as_millis`) do
lose something in the model, each in the direction in which it rounds. A `special`
value is one that PostgreSQL has and the Rust type has not: NUMERIC NaN, infinite
dates and timestamps, a number of JSON too large for serde_json. A file is a
sequence of half lines, which is the least that lets a read end in the middle of a
line; a CSV field of kind `lines` has a newline within its quotes, where
`read_sample` may cut. `PgReader`, `SqliteReader`, `Neo4jReader`, `EsReader`,
`MilvusReader`, `S3Reader` and `UriReader` are the readers, one disjunct per
await: schema, begin, row or page, end. A statement reads, writes, or is a script of several
(SQLite): PostgreSQL reads in a READ ONLY transaction and refuses a write, SQLite
refuses one under `query_only` unless the script lifts it, and Neo4j, which the code
gives no read mode, executes the statement for the schema and again for the rows,
writes included. `Change` is any other client of the
source, between any two steps; `SourceFails`, `ClientDrops` and `PitExpires` are
the failures. `Stalls` is a call that no timeout ends, or a client that neither
pulls nor goes away: the reader is then stuck, until the call fails or the client
goes after all. `torn` records that a source without snapshots changed under the
stream; the abstract specification then promises nothing but that the stream
goes on or ends.

`TabularStream` is refined under the mapping of `Stream` in `DataReaders`: the
table is what the request asks of the source, the moment of the stream is the
moment `view` was taken, and its isolation depends on the connector: a snapshot
(PostgreSQL, SQLite, Elasticsearch, URI, JSON from S3), appends only (Neo4j,
Milvus queries) or none (other S3 objects).

External, modelled from how the code uses them: the databases, the decoders of
arrow-rs (`Decode`), schema inference, `RecordBatch::try_new` (`Valid`).

### TableListing

`list_tables` is a call for the names and then one call per table for its schema,
between which the catalog changes. S3 shows the objects
whose format is known from the connection's `format_hint` or their extension. Names
and patterns are short sequences of characters, because the property is about matching them: `Like` is SQL's
definition (there is a way to lay the pattern over the name), `sql_like_match`
and `like_prefix` are the code's. The loop of `sql_like_match` is `LikeRound`,
iterated as often as it can at most turn (`Rounds`).

### FlightRequests

Each of `Calls` is one request: `AuthMiddleware`, `Load`, `Hit` and `Insert` (a
cache), `Handle` (dispatch), `Read`. One set `cache` stands for all caches, keyed
by kind; `RowChanges` creates, deletes and patches connections, to another secret
and to another type; `fetched` is an answer on its way to the call that asked, `basis` the
answers a call went by, `past` everything that was ever true. `now` counts time.
`validate_headers` and `Verdict` also cover the secret reviews of the REST
service, whose handlers are in the other modules.

Assumed of the outside: `try_get_with` of moka runs one initialiser per key,
shares its result and keeps only successes, and lets another take over when the
one is dropped; the hash of a token is injective; no answer is under way longer
than `Transit`; identifiers of connections are not used again for another
tenant (`Owner`).

### Migration

`work` is the object each of the three import controllers handles and where it
is, `synced` the annotations, `cr` the InitDataConnectionTypes, `db` the rows the
REST service stored, `cleanup` the finalizer. There is no queue: an object may be
reconciled at any time, and is again and again, thanks to events, requeues and
the informers' resync. One worker per controller, as the code leaves
controller-runtime's default. Reads come from the informers: `fresh` are marks, and
new InitDataConnectionTypes, that they do not show yet (`Lags`, `InformerShows`), so
that a reconcile may begin on a copy without the mark and the finalizer's lists may
miss it. `Post` has the four classes of answers that `restclient.go` tells apart, lost
ones included. History variables: `made` (rows of this install), `removed`,
`late` (marked by a reconcile during which the deletion began), `left` (missed by
a finalizer that fails or lists from a cache that lags), `retried` (cut off, or begun
on a copy without the mark). Fields of imported types and several tenants are
left out.

## 3. Runs

| Run | Instance | Shows |
|---|---|---|
| `meta_store` | 3 sessions, 2 tenants, 4 types, 5 connections, 13 requests, 4 of them made | `ReferencesResolve`, `UniqueNames`, `WaitsGoForward` (no cycle of waits), `AtomicOperations` (refinement of `ConnectionStore`) |
| `meta_store_progress` | 3 sessions, 3 requests | `TransactionsEnd`: every transaction ends |
| `inline_create` | 3 requests of any kind, 2 names, 2 secrets | `RowsHaveSecrets`, `NothingLeft` |
| `readiness` | 2 checks, 2 secrets, 3 contents, 2 changes, 1 failure | `SecretVerdict`, `StatusSettles`, `ChecksEnd` |
| `readiness_cached` (violation) | as above | a check answers ready for credentials the source refuses |
| `flight_registry` | 2 handlers, 3 Flight rows, 2 types, 2 connectors, 2 names, 2 requests, 1 failure | `OneRegistration`, `AuditRepairs`, `EventuallyRegistered` |
| `flight_registry_status` (violation) | 1 failure | the types never learn of a registered service |
| `tls_incoming` | 4 clients (1 stalled), 2 permits, channel of 1 | `PermitsAccounted`, `AcceptsGoOn`, `HandshakesDelivered`, `TasksEnd` |
| `data_readers` | seven connectors, their kinds of query and of file, 3 to 9 versions of each source, batches of 2, 1 change, 1 failure | `StreamsAreTabular` (refinement of `TabularStream`), `CellsFaithful`, `ErrorsHaveReason`, `NothingLeftBehind`, `EverythingReleased` |
| `table_listing` | 3 connectors, patterns with % and _, format hints, 2 changes, 1 failure | `ListingExact`, `ListingErrorsHaveReason` |
| `flight_requests` | 2 requests (3 pairs that meet in a cache, 20 alone), lifetimes of 1, 1 change, 1 failure | `AnswersCurrent`, `ServedWithinTenant`, `EveryRequestAnswered` |
| `migration` | 5 worlds of one object each of two kinds, 2 installs, 1 deletion by a user, 1 failure or lagging cache | `SyncedMeansImported`, `DeletedStayDeleted`, `EverythingImported` |

Each run also checks its module's type invariant. Every property of a passing
run has a mutant in `PROJECT.json`: a plausible bug in one mapped definition
under which TLC finds the property violated.

Bounds, all named constants: `MaxRequests` (requests in a behaviour), `MaxFaults`
(failures; in `Migration` also caches that lag), `MaxChanges` (changes of the world), and the sizes of the sets. They
are enough for the cases of interest: three sessions give a waiter, a holder and
a third party that commits between their statements, and four requests let a
type be deleted, a connection be created for it and both be renamed in one
behaviour; two checks give a verdict overtaken by another; one failure is what
each recovery path is written for, and two requests beside it let a row change
under an audit and back. Two names and three Flight rows let a service be posted
under another name between the comparison and the insertion of the controller's, and
be deleted and made again. Three rows and batches of two give a full batch and a
last one, five half lines of sample end inside a line; two installs are one
reinstall; a lifetime of 1 with `Transit` 1 and `MaxTime` 2 lets an entry expire
and one be used at its last instant. New identifiers are interchangeable and sessions and
handlers are too, which the symmetry sets of the safety runs use; no run with a
liveness property uses symmetry. Deadlock checking is off because behaviours
end when their bounded requests are used up; that waiting is never mutual is
stated by `WaitsGoForward` and `TransactionsEnd` instead.

Fairness:

* `PgMetaStore`: weak fairness of a session's statements. The service polls a
  transaction it has begun and PostgreSQL grants a free lock; nothing is assumed
  of the clients.
* `FlightRegistry`: weak fairness of the handlers' steps and of the controller's
  registration, which every reconcile repeats after its requeue interval.
* `ConnectionReadiness`: weak fairness of a check's steps and of the cache's
  expiry (time to live counts from insertion). Acquiring and connecting have
  timeouts; the SELECT 1 of the check has none, and the source is assumed to answer
  it or to fail. `StatusSettles` is conditional on checks being made: nothing
  makes users ask.
* `TlsIncoming`: weak fairness of the tasks Tokio polls and of timers; strong
  fairness of accepting and of noticing the closed channel, which backoff after
  an accept error disables time and again. Nothing is assumed of clients, and
  the server's receiving only inside `HandshakesDelivered`.

* `DataReaders`: weak fairness of a reader that is not stuck, and of the expiry of a
  point in time that nobody uses. Only the HTTP clients (Elasticsearch, Milvus, S3,
  URI) have timeouts on calls; PostgreSQL and SQLite bound only the wait for a pooled
  connection, Neo4j only connecting, and no client has to pull. `Stalls` can
  therefore happen at any call without a timeout and at any batch, and nothing makes
  a stuck reader go on: `EverythingReleased` is about the others. That is, no loop of
  a reader goes round without getting on.
* `FlightRequests`: weak fairness of each request's steps: calls to the cluster come
  back, if only with a timeout, opening a client is bounded by the acquire and
  connect timeouts, and a read, which need not be, is assumed to end.
* `Migration`: weak fairness of a reconcile under way, of the finalizer and of the
  service's periodic reconcile, and of the informers, which catch up; strong fairness of reconciling each object, whose
  worker may be busy with another, as queues are first in, first out. A reconcile
  that asks for a requeue and one that waits for the resync are not told apart by
  this. Nobody need
  install or delete the service.

## 4. Findings

* **`readiness_cached`**: the connector caches its pool under the connection's
  identifier, so a readiness check after a rotation of the secret tests the old
  credentials; the API description says the status reflects live health.
* **`flight_registry_status`**: when the audit after a registration fails, the
  retry is answered `connectors_already_exists`, which counts as success, and no
  audit follows until some other request makes one.

Observations, where a property had to be stated with an exception, or the model
shows what a comment does not:

* `update_data_connection` reports a violated unique index as a query error
  (500), where the API description lists 409.
* A comment in `services/flight/src/lib.rs` gives 128 concurrent handshakes; the
  semaphore has 1024 permits and 128 is the size of the channel.
* A date of Neo4j beyond what chrono can represent becomes 1970 (`CellsFaithful`).
* PostgreSQL, SQLite and CSV match columns by position: a column renamed between
  the schema and the rows keeps its old label (`CellsFaithful`).
* `NOT LIKE 'sqlite_%'` hides every table whose name begins with `sqlite`, as `_`
  is a wildcard; `sql_like_match` compares a literal `%` in the name of an object
  before it takes the pattern's `%` for a wildcard (`Misjudged`).
* Two registrations under different names that overlap are both stored, though they
  offer the same connectors: the index is on the name, and the comparison of the one
  does not see the other (`exposed`). A PATCH of connectors is not compared at all.
* The 1 MiB sample of a CSV file is cut after the last newline byte; when that is
  within a quoted field that is not the last of its row, a well-formed file is refused
  (`FileFits`).
* PostgreSQL's NUMERIC NaN and infinite dates and timestamps fail the stream
  (`PgFits`).
* Elasticsearch's `float` and Milvus' Float columns are cast from f64 to f32,
  `date_nanos` and Neo4j's nanoseconds are cut to milliseconds, fractional epochs are
  cut to integers, and integers beyond 2^53 lose digits in a Float64 column (`Near`).
* Neo4j executes a statement twice, once for its schema, and has no read-only mode;
  `neo4j/src/lib.rs` leaves protection to the role of the database user. The
  `query_only` of SQLite can be lifted by a query of several statements. That a source
  is only read is thus not a property of this code, and is not claimed here.
* The client cache of SQLite has a capacity and no lifetime (`Lasting`).
* `markSynced` may land after the finalizer has cleared the annotations, and the
  Secret is then not imported into the next, fresh database (`late`). What the
  finalizer fails to list or clear is logged and missed in the same way, and so is a
  mark that its cached list does not show yet (`left`).

## 5. Proofs

`PgMetaStoreProofs` proves, for any sets of sessions, tenants, names,
identifiers, statuses and requests and any consistent initial tables:

* `TypeCorrect`, `Integrity` (`ReferencesResolve`), `NamesUnique`
  (`UniqueNames`), `DeadlockFreedom` (`WaitsGoForward`);
* `Refinement`: `Spec => AtomicOperations`, that the interleaved transactions
  implement `ConnectionStore`.

`ReferencesResolve` is not inductive: that a commit keeps it depends on what its
session read several statements earlier. `IInv` adds what locks guarantee in
between: locks exclude each other and belong to transactions that took them
(`Exclusive`, `Holders`); a locked connection is still the one the new document
was computed from (`ConnsHeld`); a type that was validated stays visible until
the commit (`TypesShared`); a locked type stays, and stays unreferenced after
the count (`TypesHeld`, `Unreferenced`); identifiers are new and names about to
be committed are free (`FreshIds`, `NamesFree`). One lemma per action shows that
it keeps `IInv`. The refinement maps the committed tables to themselves; only
commits and single statements change them, and `IInv` supplies the guards of
the abstract operation at that instant.

`DeadlockFreedom` is the fact that a session only waits for one further on
through its statements (`Progress`), which excludes cycles of any length.

`InlineCreateProofs` proves `InlineTypeCorrect` (`InlineTypeOK`),
`ConnectionsKeepSecrets` (`RowsHaveSecrets`) and `FailuresLeaveNothing`
(`NothingLeft`) for any number of requests. The
strengthening says that a request owns its secret from its creation to its end
(`Holding`), that a secret points back to the request that made it
(`SecretsFit`), and that a row belongs to a finished request or to one whose
commit was lost (`RowsFit`).

`FlightRegistryProofs` proves for any number of handlers, types, connectors and
failures:

* `RegistryTypeCorrect` (`RegistryTypeOK`), from `RegistryInv`, which says what a
  handler at each place serves (`Serving`);
* `DoublesAreExposed` (`OneRegistration`): two services share a connector only if one
  of them is `exposed`. `Compared` carries this over the await between the comparison
  and the insertion: a handler that is about to insert shares a connector only with
  services that are exposed or have its own name, and those the index refuses. So
  retries that overlap the request the controller gave up on never double its service;
* `AuditsRepair` (`AuditRepairs`): `AuditsRight` says of a handler whose audit
  nobody else's write has disturbed (`solo`) that the services it read are those
  of the table, that the types it still has to treat are as it read them, and that
  every other type is right (`ReadRight`). An action property about the last step
  of an audit depends on all its earlier steps, hence the invariant.

`FlightServiceProofs` proves about `FlightRequests`, for any number of requests, any
lifetimes, and any course of grants, secrets and connections:

* `RequestsWellFormed` (`RequestsTypeOK`, with at most one call asking for a key);
* `RequestsAnswersCurrent` (`AnswersCurrent`): `CurrentInv` says that `past` is
  complete up to now, that an answer on its way is from the past and at most
  `Transit` old, and that an entry was inserted at most `Transit` after its
  answer was true and not after now; the bound on use follows from `Usable`;
* `RequestsServedWithinTenant` (`ServedWithinTenant`): `TenantInv` says that rows
  belong to the owners of their identifiers (`RowsOwned`), that every entry and
  every answer under way is about what its key says (`EntriesFit`), and what a
  request has been vouched for at each place on its way (`Served`). Without the
  second, a shared entry could carry another tenant's secret.

and about `TlsIncoming`, for any finite set of clients, any number of permits and any
size of the channel, `TlsTypeCorrect` (`TlsTypeOK`) and `AccountsBalance`
(`PermitsAccounted`). `TlsInv` adds that no stream is in the channel twice
(`Distinct`); without it, receiving one stream could leave a second copy behind
and the length of the channel would not be the number of queued connections.

`ConnectionReadinessProofs` proves for any number of overlapping checks, secrets,
changes and failures `ReadinessTypeCorrect` (`ReadinessTypeOK`) and
`SecretsJudgedRight` (`SecretVerdict`). The verdict is written many awaits after
the secret was read, and may be shared with the check that opened the reader, so
`ReadinessInv` says what a check has at hand at each place (`AtHand`), that one
check at a time opens (`OneOpens`), and that a check which nothing has disturbed
has read the row and the secret that are there now (`Undisturbed`).

`MigrationProofs` proves for any objects, worlds, installs, deletions and failures
`MigrationTypeCorrect` (`MigrationTypeOK`), `MarksMeanImported`
(`SyncedMeansImported`) and `DeletionsLast` (`DeletedStayDeleted`). `MigrationInv`
carries the facts across a reinstall, with the exceptions that the properties name
(a finalizer that fails, one whose cache lags, a mark that comes too late; an import
that was cut off or begun on a copy without its mark): installs and deletions take turns
(`Counted`), rows are of an install so far (`RowsKnown`), a reconcile under way
knows which install it began in (`JobsFit`), a mark about to be set is earned
(`MarksEarned`, `PhaseEarned`), what the finalizer has been through is unmarked
(`Cleared`), so that nothing is marked when the service is gone (`Gone`), and a
Secret whose connection was stored is marked or about to be (`OnceOnly`).

`ConnectorProofs` proves about `TableListing`, for any catalogs, names and patterns:

* `ListsAreExact` (`ListingExact`). The induction is over data and is done by a
  least counterexample (`LeastNat`, from the well-foundedness of <). Of the loop of
  `sql_like_match` the invariant is that some way to lay the pattern over the name
  passes through the current place, if there is any way at all: a way that differs
  can be exchanged for one that takes as little as possible for the % before the
  last, which is why going back to the last % is enough. `Rounds` bounds the turns.
  The exception is `Misjudged`, a name with a literal %;
* `ListingRefusalsHaveReason` (`ListingErrorsHaveReason`), `ListingTypeCorrect`
  (`ListingTypeOK`). `ListingInv` says that what is listed so far and what is still
  to be described make up the names of the first call.

and about `DataReaders`, for any tables, requests and sizes of batches, pages,
samples and reads:

* `ReadersLeaveNothing` (`NothingLeftBehind`), from `ControlInv`: what is held at each
  place (`HeldRight`), also while the reader is stuck;
* `ReadersTypeCorrect` (`ReadersTypeOK`), from `TypeInv`: the announced schema has
  types of Arrow whatever it was inferred from, places are numbers;
* `CellsAreFaithful` (`CellsFaithful`), from `CellsInv`: before the first batch the
  view is the source (`Fresh`), and stays unless the stream is torn (`Steady`); the
  pieces of a file that the decoder has not given yet are, between chunks, the body
  of one line (`DecoderOK`), and every row under way fits the columns of the view
  (`Fit`). A batch then has the values of its columns, or what is `Near` them, for
  each of the seven ways in which arrays are built; what a cast may lose is bounded by
  lemmas about `Floor`, `TowardZero` and `Nearest`.
* `StreamsRefine` (`StreamsAreTabular`): `ReadersSpec` implements `TabularStream`
  under the mapping of `Stream`. `StreamInv` says when the view is fixed
  (`BeginsRight`), and how far a reader is: what it gave, then what it has read, are
  the first `pos` of the rows that the request asks for (`ReadsOn`), of the source
  for a reader that follows appends, of the view for any other. For a decoder this is
  by bytes (`OnTrack`): the rows given and decoded and the piece of a line under way
  end where the undecoded bytes begin. Every step of a reader is then nothing, the
  moment of the stream, an error, a batch or the end (`ReaderStep`), each of them a
  step of `TabularStream` (`StepMaps`). The pages of Elasticsearch need that its order
  is total (`Ordered`), so that the k-th hit is the one with k - 1 before it
  (`Sorted`) and the hits after the last one given are exactly those not given yet
  (`SearchedNext`). Once torn, only the shape of the batches is kept (`SeqsRight`). A statement
  that writes changes the source and takes the view in one step, which is
  `Take` of `TabularStream`, after what its own request wrote (`Writes`); a reader that
  gets stuck does nothing to it.

`ReaderErrorsProofs` adds, for the same:

* `ErrorsAreFounded` (`ErrorsHaveReason`), from `SoundInv` beside `StreamInv`: while
  nothing failed and nothing changed, and the request and the source are in order
  (`Blameless`), no reader comes to an error, its view is the source, and the schema
  that it announced takes every value of the source (`SchemaRight`): by position and
  by the type of the source for PostgreSQL, SQLite and Parquet, by name and by what
  the values may be for Elasticsearch and Milvus, by what was inferred for CSV and
  JSON. `RequestFits` and `SourceFits` say what in order means without the code: an
  integer within the range of its column, a finite number or date, a vector as long as
  it says, the values of a column of a file of one kind and one of them within what
  every sample holds, and texts of several lines only in the last column of a CSV file
  that is not sampled whole.
  Since `StreamInv` has every row that is built among the rows of the source
  (`Within`), every batch is `Valid`. For a file one also needs that a sample is cut
  where a line ends, in CSV maybe within the last field of a row, and in JSON lines
  still holds the first `MaxSample \div 2` of them (`SampleIs`), so that what it infers has the names and kinds of the whole, and that the decoder
  meets bodies and ends of lines in turn, however the reads cut them
  (`DecodeSound`), and no half line at the end (`DecodeEndSound`). Without failures
  and changes, such streams also complete: TLC reaches one that does for every
  connector and every format of the instance.

Assumptions: `ConstantsAssumption`, `InitAssumption`, `RequestsAssumption`,
`InlineAssumption`, `RegistryAssumption`, `TlsAssumption`, `TimesAssumption`,
`OwnerAssumption`, `ReadErrorsAssumption`, `ReadinessAssumption`,
`MigrationAssumption`, `ListingAssumption`, `ReaderAssumption`, `RowAssumption` and
`FileAssumption`: constants are of their kinds, `Null` is not one of the values it
stands beside, the tables a service starts on are consistent, lifetimes and limits
are natural numbers, clients are finitely many, every connection's identifier has
one owner, an object to import is of one kind, names of tables are not empty, rows
of a table that is read by position have a value for each column, whose names
differ, the columns of Parquet have types of Arrow, hits of Elasticsearch differ in
their place in the shard and have values that can be compared, the fields of a row
are in an order and the mark of a failed cell is not a value, an Option has at most
one value, and offsets of Milvus are not negative (it refuses others itself). TLC
evaluates them in every run of their modules.

## 6. Only model-checked

Liveness under fairness (`TransactionsEnd`, `ChecksEnd`, `StatusSettles`,
`EventuallyRegistered`, `AcceptsGoOn`, `HandshakesDelivered`, `TasksEnd`,
`EveryRequestAnswered`, `EverythingReleased`, `EverythingImported`) is out of the
prover's reach, as is anything that needs ENABLED. There are no RECURSIVE
operators; the theorems of the library about induction take an operator as a
parameter, which the provers cannot instantiate, and `ConnectorProofs` argues by a
least counterexample instead.

Every safety property of the passing runs, invariant, action property or refinement,
is also a theorem. That the cases which a theorem speaks of do happen is what TLC and
the mutants show.

## 7. Not modelled

* Reads, listing and pagination of the store; routing, start-up and the table of
  error codes of the REST service: no state changes.
* Parsing inside a record (arrow-rs, serde), TLS and HTTP themselves: external.
* Rendering of manifests by the controller, and the phases and status of a
  DataConnectService.
* The controller's transport that reloads its CA, and which listener
  configurations `configure_tls` accepts.
* Conversions at the edge of their types that lose nothing a property tells apart, or
  that the stores do not hold: PostgreSQL's time 24:00 (becomes 00:00), floats beyond
  the largest f32, digits that serde_json drops of a long JSON number.
* A PATCH whose merged document is not valid any more is a failed write, like any
  other; namespaces of Flight services are one.
* Informers that skip intermediate versions, or show a mark that was taken back; an
  old phase of an InitDataConnectionType only repeats a POST.
* The Python SDK: a client of the modelled calls, without shared state.

## 8. Plan

1. **Reconcile**: phases and status of a DataConnectService: which generation a
   status is about, when the release entry advances.
2. **TLS policy** and the reloadable CA transport.
3. **Python SDK**: token refresh and retries.
