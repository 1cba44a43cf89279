# A TLA+ verification of the opto-sync end-to-end system

This directory models the parts of the repository that decide whether a write
survives: the sync protocol of the Node/PostgreSQL reference server, the
transports, limits and credentials in front of it, the tables and schema
migrations behind it, the clients that retry against it, the older document
endpoints, and the merge, storage and convergence suites. TLC checks the models
on small instances; TLAPS proves, for every instance, the main invariants of the
server, of its readers and clients, of the captured tables, of the schema, of the
document endpoints, of the realtime connections, of the admission before them and
of the repository's own models; that every push and every call to a document
endpoint takes effect at one instant or not at all; and that transactions which
keep the lock order never deadlock.

Paths are relative to `src/`.

## 1. The system

| Part | State | Operations | Module |
|---|---|---|---|
| Protocol tables (`servers/node/src/protocol.ts`) | one `syncer_protocol_state` row (`last_seq`, `min_available_seq`), `docs`, their mirror `records`, `clients` with a watermark and a subject, the `mutations` ledger, the `changes` feed | triggers: next version of a row, capture of every row write, state lock before every statement | `ProtocolStore` |
| Push (`pushCore`, `applyMutation`) | one transaction: identity, remaining mutations, watermark so far, results | claim clientId, replay a duplicate, reject, acknowledge without effect, apply, store watermark, commit, roll back | `SyncServer` |
| Direct SQL (`admin/external-write`), compaction | one transaction each | upsert, delete; remove changes, raise the minimum | `SyncServer` |
| Readers (`pullCore`, `snapshotCore`) | one repeatable-read transaction each | page of changes, reset, snapshot, quota refusal | `SyncReplica` |
| Client (`suite/clients`) | durable queue, mutation counter, records, pull checkpoint | queue, build a push, acknowledge, apply changes, replace records | `SyncClient`, `SyncReplica` |
| Registered handlers (`protocol-handlers.ts`) | savepoint, source row, mirror row | register a capture, decide, write another table, roll back to the savepoint, reset | `TableHandlers` |
| Locks of all of these | rows and tables taken so far | lock, number a change, commit, fail, deadlock victim | `LockOrder` |
| Schema (`migrate.ts`, `index.ts` `init`) | migration history, triggers, mirror, seeds | check, apply, record, serve | `Migrations` |
| Documents (`index.ts`) | rows with a version and a tombstone | read, merge, compare-and-swap, replace, delete, batch, create by e-mail, reset | `DocReconcile` |
| Rust server (`servers/rust`) | rows behind a REST layer | read, merge, upsert | `RustDocuments` |
| Transports (`sync-transports.ts`) | connections, hub, frames in flight | route a frame, answer, hint, retire | `Transports`, `NdjsonFraming` |
| Rate limiter (`operations.ts`) | a window per key | consume, sweep | `RateLimits`, `RateLimiter` |
| Authentication and limits of a request (`auth.ts`, `protocol.ts`, `sync-transports.ts`) | static entries, keys, cached verdicts | load, verify, charge, admit | `AuthConfig`, `Admission` |
| Executable models (`formal/*.mjs`) | a simplified server and clients | push, pull, snapshot, change of filter or tenant | `Convergence`, `PartialSync` |
| Conformance and storage suites (`suite/conformance`, `suite/compatibility`) | documents under a merge policy; browser databases | merge, replay, reconcile; open, upgrade, abort | `MergePolicy`, `StorageUpgrade` |

How they interact: WebSocket frames, TCP lines and HTTP routes are verified and
charged to one limiter, then call the same `pushCore`, `pullCore` and
`snapshotCore`. Everything shared between two calls is in PostgreSQL. Writers
are serialised by the singleton state row, which each of them locks before any
other row; readers take no lock and work on a snapshot of the committed tables.
Clients see only responses, and a hint after a commit says no more than "pull".

What is hard here: statements of readers interleave with whole commits of
writers; a transaction can be rolled back after any statement, and its commit
can succeed although the answer is lost; two version counters and two
descriptions of "what this client has done" (watermark and ledger) must agree
after every mixture of pushes and direct SQL; compaction removes what a slow
reader still needs; handlers of one connection overtake each other; a token is
verified across an await while keys rotate and the clock goes on; merges are
computed outside the database and must not lose each other. The list with source
lines is `hazards` in `PROJECT.json`.

## 2. Modules

| Module | Role |
|---|---|
| `ProtocolStore` | the protocol tables as one record; triggers and `applyMutation` as operators on it |
| `SyncServer` | the core state machine: push, direct SQL, compaction |
| `AtomicSync`, `SyncRefinement` | what the server promises, and the refinement mapping to it |
| `SyncServer_proofs` | theorems about `SyncServer`: its tables, everything ever committed, and that the promise is kept |
| `SyncReplica` | composition with `SyncServer`: readers that install what they get |
| `SyncClient` | composition with `SyncServer`: queues and a network |
| `SyncDevice_proofs` | theorems about both: copies are the server's state at a checkpoint; nothing queued is lost or refused |
| `TableHandlers`, `TableHandlers_proofs` | captured tables, registered handlers, reset; answers, feed and mirrors agree |
| `LockOrder` | the transactions above lock by lock |
| `Migrations` | builds that start against one database |
| `Database`, `Database_proofs` | these beside `LockOrder`; no deadlock, numbers follow commits; the schema is what its history says, and the mirror the documents but for what their copy missed |
| `Documents`, `DocReconcile`, `AtomicDocs`, `DocReconcile_proofs` | rows and what a statement does to one; the endpoints statement by statement; what they promise; that they keep it (and the Rust server its 404) |
| `RustDocuments`, `DocServers` | the Rust server, on the rows of `Documents`; both servers beside each other |
| `Transports`, `NdjsonFraming` | connections and hub; the lines of a TCP stream |
| `Connections`, `Transports_proofs` | these beside each other; counters, hints and answers are right whatever overtakes what, and lines arrive whole however the stream is cut |
| `RateLimits`, `RateLimiter` | what the limiter computes; the limiter over time |
| `Admission` | verification, limits and the limiter (by `RateLimits`) before the handlers |
| `AuthConfig` | configurations, identities, owners in the ledger |
| `Gate`, `Gate_proofs` | these three beside each other; budgets, verdicts and configurations are right for any constants |
| `Convergence`, `PartialSync` | the two models of `formal/` |
| `MergePolicy`, `StorageUpgrade` | merging as the conformance suite pins it; browser storage as its certification drives it |
| `Suites`, `Suites_proofs` | `Convergence`, `PartialSync` and `StorageUpgrade` beside each other; everybody converges, replicas keep to their scope, upgrades are whole |
| `MC*` | small instances for TLC |

An MC module may hold the instances of several independent modules. Its `MCInit`
then chooses a `part`, and `MCNext` takes the steps of that part's module and
leaves the variables of the others as they are: one run explores the union of
the separate state spaces, never their product, and each part has bounds of its
own.

A definition whose comment starts with "Slip" or "Mutant" is a plausible
programming error next to the definition it would replace. No specification uses
it: each property is shown to fail when one of them takes the place of the real
definition (`mutants` in `PROJECT.json`).

### State and code

**`SyncServer`**

* `db` is what is committed, `work` is what the transaction that holds the state
  row sees. One transaction at a time has uncommitted writes, because every
  writer starts by locking that row: `SELECT ... FOR UPDATE` in `pushCore` and
  `admin/compact`, the BEFORE STATEMENT trigger `syncer_protocol_lock_state` for
  direct SQL. `holder` says which kind of transaction it is. (`LockOrder` is
  where this is shown, lock by lock.)
* A row that is absent is the row with revision 0. `docs[t][r].revision` is the
  `version` column, `records[t][r].revision` the mirror's own counter: two
  fields, because two triggers count them.
* `call` is the progress of a push: `todo` is what the loop has not reached,
  `last` the local variable `lastMutationId`, `results` the answer so far. One
  action is one iteration of the loop, with every statement in it:
  `ReplayDuplicate`, `RejectMutation`, `AcknowledgeNoOp`, `ApplyMutation`.
  The errors that end the loop (`CLIENT_OWNERSHIP_CONFLICT`,
  `LEDGER_INCONSISTENT`, `MUTATION_ID_REUSED`, `MUTATION_GAP`) leave no action
  enabled but `Rollback`, which is also what a failpoint, a lost connection or a
  crash of the server comes to at any other point.
* A direct write takes the lock, writes and fires the triggers in `BeginExternal`
  and ends in `CommitAdmin` or `Rollback`; so does a compaction. The 404 of a
  delete that finds no row changes nothing and has no action.
* Documents are abstract; the merge core is the constant operator `Merge`.
  The request hash of the ledger is the request itself (its canonical JSON
  ignores key order, and so does a record; a `baseRevision` of `null` and an
  absent one, which hash differently, are one value here).
* `history` is auxiliary: every change ever committed, so that properties can
  speak of changes that compaction has removed.

**`SyncReplica`.** A read is `OpenRead` (BEGIN and the statement that reads the
state row, which fixes the snapshot) and one of `PullReset`, `PullPage`,
`Snapshot`, `SnapshotRefused`; writers commit in between. Installing the answer
is one action when it runs to its end, and `InterruptPage`/`InterruptSnapshot`
when the callback throws or the process dies, with any part of the answer
installed and the checkpoint not stored; `protocol-restart.mjs` drives exactly
this. `LoseRead` is a lost message, a timeout or a crash. `horizon`
is auxiliary: how far such a partial answer may have reached.

**`SyncClient`.** A request or response once sent stays available and may be
delivered any number of times, at any time, or never. A client acknowledges a
response against the request it answers. Since nothing but the durable queue
survives from step to step, a restart of a client is a step without effect.

**`TableHandlers`.** `db`, `work` and the savepoint's copy `saved` are the tables
of one application table per name: source rows, the mirror, feed, ledger. A push
takes one mutation at a time: the savepoint, the branches of the JSONB handler or
any captured writes and any decision of an application handler, the validation of
what was captured, acknowledgement or `ROLLBACK TO SAVEPOINT`. Registration of a
capture, direct SQL (change of identity included) and the two transactions of the
test-mode reset are actions of their own. `untracked` is auxiliary: rows whose
mirror the code cannot keep, with the reason.

**`LockOrder`.** A transaction is a program of steps; each takes a row, shares a
table or takes it alone, and is kept to the end. `Advance` takes one lock when no
other transaction stands in the way; `Victim` aborts a member of a cycle, as
PostgreSQL does. The programs (`PushTable`, `PushDocs`, `DirectSql`,
`ExternalWrite`, `Compact`, `Reset`, and `GuideSql`, a table captured by the AFTER
ROW trigger alone) list the locks in the order of the statements.

**`Migrations`.** A starter goes through `Begin` (advisory lock), `Check` (history
against the checksums of its build), the pending migrations one by one in one
transaction, `Commit`, `EnsureApp`, `Seed`; it may fail anywhere and start again.
`Write` is a document written by a replica of any build, captured by the trigger
in place; it waits only while a transaction holds the documents' lock (`ddl`).
Migration 2 is two steps, `CopyDocuments` before that lock and `GenericCapture`
under it. Each migration is what it leaves: trigger and mirror. `missed` is
auxiliary: writes since the last copy.

**`DocReconcile`.** A call's `phase` names its next statement: read, merge,
compare-and-swap, back off; the insert by e-mail and its unique violation; `BEGIN`,
row locks, updates and `COMMIT` of a batch. A payload is a token and a document
the set of tokens merged into it, with the newest stamp, so that a lost, repeated
or revived merge is visible. `RustDocuments` has the two or one requests to the
REST layer; each may fail before or after it took effect.

**`Transports`.** `work` holds the frames being handled, each on its own: `Admit`
(verification, in-flight limit), `Commit` or `ReadPage`, `Settle` (answer, then
hints). `server` has the state, hub membership and counter of each connection,
`toServer`/`toClient` its streams, `client` the requests that wait for answers
and the checkpoint reached. `unhinted` is auxiliary. `NdjsonFraming` is a client
that writes lines (`Send`, as `connectTcp` in `ws-transport.mjs` does) and the data
event of the server's socket (`Data`): `read` is how far the network has delivered
what was `written`, characters in, lines out.

**`Admission`.** A call over HTTP is verified on arrival, over TCP on its first
frame with a token (the verdict is remembered by the connection), over a WebSocket
when it is opened. Verification is a step between arrival and
`Resolved`, where the limiter is charged and a push held against its limits, in
the order of the code. `Verify` has the classes of errors that
`authenticateAuthorization` tells apart: keys are fetched when they are stale, or
for a token whose key is missing after the cooldown (`Reloads`); a key service that
is "silent" (a timeout, a failed transport, no key set) makes the call unavailable,
one that is "broken" (another status than 200, no JSON) makes it a denial, as does
a token that is malformed, whatever the service does. `KeyService`, the ageing of
the keys (`CooldownEnds`, `KeysExpire`) and `Tick` go on meanwhile; how `jose`
fetches and keeps keys is external. `misled` is auxiliary: the TCP connections
that were open while the service was broken. **`AuthConfig`** loads entries one by
one, pushes under the identities they give and starts again with another
configuration; static settings may be `given` and have no entry, which the schema
refuses, and beside JWT settings they are refused with or without entries.
`ledger` is the table of client owners, which outlives the server.

**`RateLimiter`** is `consume()`: sweep, then admit and charge, or refuse and tell
when to come back. `unswept`, `recent` and `told` are auxiliary.

**`Convergence`** and **`PartialSync`** follow the classes of the two `.mjs` models
method by method, with the seeded random choices replaced by every choice. What the
generator's workloads have in common is the predicate `Generated`: one content under
an id, deletions later than everything else, no resurrection, no timestamp twice
(the number of a mutation is part of its timestamp).
**`MergePolicy`** merges payloads into a document of nested objects and keyed rows
under the policies the scenarios ask for. **`StorageUpgrade`** serves `open()` calls
one at a time: refuse, connect, `versionchange`, blocked, begin, commit, abort.

## 3. What the runs check

| Run | Instance and bounds | Shows |
|---|---|---|
| `server` | 1 tenant, 2 subjects, 2 clientIds (one usable by both subjects), 1 record, 8 batches, 2 direct writes, compaction to 1 | the invariants of `SyncServer`, durability, refinement of `AtomicSync` |
| `replica` | 2 tenants, 2 records, 1 reader, page limit 1, snapshot quota 1, direct writes up to checkpoint 2, compaction to 2 | a local copy is the state at its checkpoint; a reader gets past every change |
| `replica_mixed` | the same with snapshot quota 2 | finding: an interrupted snapshot leaves mixed records |
| `client` | 2 clients with 2 and 1 mutations, 1 record, requests of up to 2 | exactly once and no loss over a bad network; every mutation settles |
| `tables` | a table with or without a deletion column, 2 records, 2 mutations of 7 (4 without the column), direct SQL and resets up to checkpoint 2, one application handler | answers, feed, mirror and source stay together |
| `database` | 4 orderly transactions; 4 of which two are not; 3 builds on a new or an older database, up to 4 document writes at any time | nobody waits for a waiter; numbers follow commits; schema and history agree, and the mirror lacks only what was written between copy and lock |
| `documents` | 3 calls on 3 documents and one e-mail, 2 attempts, clock to 3; with a lost answer and a reset, 3 of the calls that these disturb; the Rust server with 1 failure | each call is atomic and answered; what is acknowledged is stored |
| `connections` | one WebSocket with 3 frames of any kind; a WebSocket and a TCP connection with one push each and 2 commits; one connection with HTTP pushes, direct SQL and 1 fault; up to 4 lines of length 1 to 6, delivered as they are written in chunks of up to 3, limit 5 | counters and hub exact, answers find their request, everything settles, lines arrive whole |
| `gate` | 3 calls with 2 good tokens and a malformed one over 3 transports, budget 1, window 2, a key service that fails in two ways, keys of three ages; the limiter with 2 keys, budget 2, window 3, clock to 8; configurations of no entry to 3, 2 starts | budgets shared, refusals deserved, configurations judged by what they say |
| `admission_cache` | the calls of one token with a rotated key | finding: a denial that is not terminal is remembered |
| `admission_outage` | the calls of one good token | finding: an answer of the key service that is of no use is taken for a bad token |
| `suites` | three workloads of 4 mutations of 3 clients; 2 tenants with 2 entities and 2 tags, log and scopes up to 4 together; 2 payloads under 7 policies, 3 under the default; 3 tabs, 2 crashes, 7 opens | the repository's own models and suites hold in every order |

All behaviours up to these bounds are explored. The batches of `server` are
chosen so that every branch of `applyMutation` and every error of the loop is
reached: creation with base 0, an upsert without a base, a delete with a right
and a wrong base, a table the protocol does not expose, resurrections with and
without the tombstone's revision, a mutation id that is already recorded (same or
other content), a gap, and the same id twice in one batch. One record is enough
there because each mutation names one record and every counter that relates
records is shared; the reader instance has two records and two tenants, where
pages, filters and snapshots do depend on there being more. Pushes need no bound:
the batches name finitely many ids and each takes effect once.

Where a bound cuts a behaviour off, the case it is there for still happens: three
calls give two that lose the same race and one that wins; two attempts give one
retry and one exhaustion; four orderly transactions cover all pairs and the
chains of three that a cycle among them would need; a clock of 8 holds two windows
and a half of length 3, so that sweeps, window changes and waiting times meet;
lines longer than the limit, as long as it and shorter all occur next to each
other, with chunks that end before, at and after a newline. The calls of `gate` are
narrowed by `InPart` (`MCGate`): a body that is too large is always one principal's
and a foreign client id the other's, a malformed token comes first, at most two of
the three calls are under way at once, and only two are made after a malformed
token, once the key service fails or has been broken, or while the keys are stale.
Three calls are there for the budget, which two principals and three transports
must share; the verdict of a token needs one call to be given it, one to repeat it
and a key service that changes between them. `tables` has one
table: two share nothing but the sequence, which the two records of one already
share.

### The properties

*Server.* `EffectsMatchOutcomes`: an outcome "applied" has exactly one change, at
the checkpoint and the revision it reports, and nothing else has one; this is
exactly-once over lost responses, duplicates inside a batch and rollbacks.
`AppliedOnItsTerms`: no lost update, no record brought back by accident, no change
under another's clientId, with direct SQL racing. `RevisionsFollowFeed` and
`MirrorAgrees`: whoever applies the feed in order, reads a snapshot or is answered
from `docs` sees the same record. `FeedIsContiguous`: a checkpoint names one prefix
of the history. `LedgerMatchesWatermark` and `NothingDurableIsLost`: the two
descriptions of a client agree and are never taken back. `ImplementsAtomicSync` is
the summary: with the history as a log and the ledger as outcomes, each commit of
a push is one indivisible execution of its whole batch.

*Reader and client.* `ReplicaInv` (a local copy is exactly the state at its
checkpoint; the one exception is stated in it: after an interrupted installation,
until the checkpoint has overtaken it), `PagesAreComplete`, `CheckpointsAdvance`,
`CatchesUp`. `NoProtocolError` (none of the errors that transports treat as final
can strike a correct client), `NoWriteIsLost`, `ClientInv` (what a client was told
is durable; the watermarks of both sides agree), `EveryMutationSettles`.

*Tables.* `HandlersInv`: what is live in a source table is live in the mirror with
the same data, and no handler overwrites an edit it has not seen.
`AnswersMatchEffects`: a rejected mutation has left nothing, an applied one exactly
one change, and rejecting a later mutation takes nothing from an earlier one.
`RevisionsNeverRestart`: a rolled-back savepoint leaves no hole, and revisions
count on past deletes and resurrections.

*Database.* Four transactions, all orderly or two of them not (`Workloads`).
`NobodyWaitsForAWaiter` (where all are orderly), `LocksInv`: changes are numbered
without a gap in the order of the commits, and a circle of waiting transactions
always has a disorderly member. `MigrationsInv`: after starts that were broken off
anywhere, the trigger is the one the history names, and the mirror lacks of the
documents what was written between the copy and the lock of migration 2 and nothing
else. `SchemaOnlyMovesForward`.

*Documents.* `DocsInv`: refused payloads are in no document and a failed batch left
nothing, whatever is reset; until the first reset acknowledged merges are stored,
versions count the writes one by one, nothing erased returns, a lost race had a
winner, one caller created an e-mail.
`EachCallIsAtomic`: the endpoints implement `AtomicDocs`, in which a call takes
effect at one instant on the rows as they are at that instant; the merge that was
computed outside the database, and the batch that writes row by row, map to it.
`EveryCallAnswered`. `NotFoundIsTrue` (Rust): 404 only for a document that is not there
and that no client was ever told is stored.

*Connections.* `ConnectionsInv`: the counter that bounds a connection is the number
of its running handlers, the hub holds the open connections and no other, hints
are of commits of others. `AnswersReachTheirRequest`, `EverythingSettles`,
`FramesArriveWhole`.

*Gate.* `AdmissionInv`: a principal has one budget over all transports, and who is
served is entitled to it. `RefusalsAreDeserved`: 429 only for a principal's own
requests; 503 only while the key service is silent; 401 for a good token only while
the service is broken, or on a TCP connection that was open then, and so never on
HTTP, a WebSocket or a later connection once it is back. (The code does answer 401 in
such an outage; that it should not is the finding `admission_outage`.)
`LimiterInv`: forgetting windows changes no decision, the bound of a burst, a
waiting time that is enough, a memory that does not grow. `ConfigurationInv`: a configuration is refused exactly
when its entries clash, wherever they stand, and no caller of a static
configuration is refused for what another caller of it did.

*Suites.* `ModelConverges`, `PartialInv`, `MergesAgree` (payloads that obey the rule
of `06-convergence.mjs` end in one document in every order, repeated or not, and
for clients that reconcile), `UpgradesAreSafe`. `ModelConverges`, `MergesAgree` and
`UpgradesAreSafe` each join an invariant and an action property.

### Fairness

* `CatchesUp` and `EveryMutationSettles` assume recurring retry by the client (the
  sync loops of the suites repeat until they succeed) and a server and network that
  do not fail every single time: strong fairness of opening, answering and
  installing for a reader; weak fairness of sending, strong fairness of delivery,
  of executing, of commit and of receiving the answer about the oldest pending
  mutation for a client. That is the premise `formal/procedure.toml` states ("an
  available server/database and recurring retry"). A lock is held only for one
  transaction, which ends by commit or rollback (weak fairness). Nothing is assumed
  of other writers. A reader that must reset and has more records than the
  snapshot quota is stuck until an operator raises it, as `docs/OPERATIONS.md`
  says: `CatchesUp` excepts it. Compaction that outruns every pull for ever is
  excluded by the bound on changes.
* `EveryCallAnswered` assumes that a handler that can take its next statement takes
  it at last (weak fairness of each call): statements return, and a call that waits
  for a row lock gets it when the holder ends.
* `EverythingSettles` assumes that sockets deliver, the event loop runs what is
  ready and the database answers (weak fairness of each). A connection may break at
  any time and nothing obliges it to.

### Findings

* `replica_mixed`. `formal/procedure.toml:78` says "a crash during replacement
  cannot publish a mixed old/new state". A replacement that is interrupted after
  the old records were cleared and some of the new ones stored leaves such a
  state; `suite/clients/ts/protocol-restart.mjs:126` asserts precisely it.
  `ReplicaInv` bounds the damage: it ends when a later page or snapshot takes the
  checkpoint up to the interrupted one.
* `admission_cache`. `sync-transports.ts:440` says "Terminal outcomes are cached; a
  transient verifier outage is not." A denial for a key that is not known yet is
  cached too, for the rest of the connection's life.
* `admission_outage`. `auth.ts:269` says "A remote key service outage is
  operationally different from a bad token", and `docs/AUTHENTICATION.md:74`
  "Key-fetch timeout, invalid JWKS, or transport failure returns 503". When the key
  endpoint answers with another status than 200 or with what is no JSON, `jose`
  raises its plain `JOSEError`, which the test at `auth.ts:273` does not except: a
  good token is answered 401, and a TCP connection remembers it.

### Other divergences met while modelling

The models are written so that these are excluded by name and the rest is checked:

* `TableHandlers`, `untracked` "rekey": capture takes the record's id from NEW, so
  that an UPDATE of the id leaves the old record live in the mirror
  (`protocol.ts:900`). "reset": `POST /reset` truncates the source and the protocol
  tables in two transactions; a push between them keeps its row without a mirror
  (`index.ts:643`).
* `DocReconcile`: after `POST /reset`, versions start again and a compare-and-swap
  that read before it can store the old document (`index.ts:646`), hence
  `resets = 0` over the second half of `DocsInv`: a call reads version 2 of a
  document, the reset starts it at 1 again, another update takes it to 2 and is
  acknowledged, and the first call's swap finds its version and overwrites that
  update with a merge into the old document; a batch whose COMMIT took effect but
  was not answered says 500 (`index.ts:494`), hence `lost = 0`; the retry after a
  unique violation does not back off (`index.ts:601`).
* `RustDocuments`: two concurrent merges lose one of them (`main.rs:347`), which
  `docs/SERVER_GUIDE.md:147` forbids for shared storage. Only `NotFoundIsTrue` is
  claimed.
* `NdjsonFraming`: the limit is tested before newlines are taken out, so that a
  short line followed by the start of the next can destroy the socket
  (`sync-transports.ts:450`); the property holds for lines that leave room for a
  chunk (`ShortLinesNeverDestroy`).
* `LockOrder`, `GuideSql`: a table captured as `docs/SERVER_GUIDE.md:568` says, with
  the row trigger alone, deadlocks with a push; so does a reset.
  `LocksInv` says that only these do.
* `Migrations`: a document that a replica of an earlier build writes between the
  copy and the lock of migration 2 (`protocol.ts:853`; the triggers are changed from
  `:989` on) is in the feed but not in the mirror, which afterwards counts revisions
  of its own: the next captured change repeats one that the feed already has.
  `docs/MIGRATIONS_AND_RECOVERY.md:27` has the job run before application replicas
  are rolled, that is, while they serve. `MirrorMatchesDocs` says exactly how much
  the mirror can lack.
* `DocReconcile`, `BatchMerge`: `/sync/batch` never reads `deleted_at`; it merges into
  a deleted document, answers `applied: true` and leaves it deleted (`index.ts:475`).
  `docs/SERVER_GUIDE.md:639` has 410 for an update that is not newer, but `:536`
  only for `/doc/:id/sync`, and `:365` gives the batch as it is written. The promise
  `AtomicDocs` therefore merges.
* `PartialSync`, `Risks`: a record whose tags leave the filter is never taken back
  (`partial-sync-schema-model.mjs:83`), and a checkpoint taken from a snapshot page
  passes over deletions (`:127`). `runSeed` does neither; with these risks
  `CheckpointSafety` fails.
* `MergePolicy`, `NewerAgree`: the rule stated in `06-convergence.mjs:22` is not
  enough for objects nested in each other; the property adds that who is newer
  outside is newer inside.

## 4. What is proved

Each theorem holds for every value of the constants that satisfies the named
assumptions of the modules. Most assumptions say only that a constant is of the
type its use requires. Those that say something about the program are:

* `BatchAssumption`, `ClientAssumption`, `RequestAssumption` (`SyncServer`,
  `SyncClient`, `TableHandlers`): an upsert has a payload, which `PushSchema` checks
  before a push begins (`protocol.ts:40`);
* `MergeAssumption`: merging two documents gives a document;
* `RequestAssumption` (`Documents`): a call that is not a batch names one document,
  the one in its path or the e-mail in its body;
* `HandlerAssumption` (`TableHandlers`): a name is either a captured table with the
  JSONB handler or the application's, since the registered handlers are one Map
  from names (`protocol.ts:1230`);
* `ThingAssumption` (`Suites`): entities are compared, which puts them in the order
  of a snapshot, and are finitely many.

| Theorem | States | Module |
|---|---|---|
| `TypeCorrect` | `Spec => []TypeOK` | `SyncServer_proofs` |
| `FeedContiguous` | `Spec => []FeedIsContiguous` | |
| `MirrorAgreement` | `Spec => []MirrorAgrees` | |
| `LedgerCorrect` | `Spec => []LedgerMatchesWatermark` | |
| `Durability` | `Spec => NothingDurableIsLost` | |
| `FeedReplaysRows` | `Spec => []RevisionsFollowFeed` | |
| `ExactlyOnce` | `Spec => []EffectsMatchOutcomes` | |
| `OnItsTerms` | `Spec => []AppliedOnItsTerms` | |
| `PushesAreAtomic` | `Spec => ImplementsAtomicSync` | |
| `ReplicaInvHolds` | `ReplicaSpec => []ReplicaInv` | `SyncDevice_proofs` |
| `PagesHoldEverything` | `ReplicaSpec => []PagesAreComplete` | |
| `CheckpointsOnlyAdvance` | `ReplicaSpec => CheckpointsAdvance` | |
| `NoFinalError` | `ClientSpec => []NoProtocolError` | |
| `WritesAreKept` | `ClientSpec => []NoWriteIsLost` | |
| `ClientInvHolds` | `ClientSpec => []ClientInv` | |
| `HandlersInvHolds` | `Spec => []HandlersInv` | `TableHandlers_proofs` |
| `AnswersMatch` | `Spec => []AnswersMatchEffects` | |
| `RevisionsCountUp` | `Spec => []RevisionsNeverRestart` | |
| `ConnectionsInvHolds` | `Spec => []ConnectionsInv` | `Transports_proofs` |
| `AnswersFindTheirRequest` | `Spec => AnswersReachTheirRequest` | |
| `FramesArriveWholeHolds` | `Framing!Spec => []FramesArriveWhole` | |
| `DocsInvHolds` | `Spec => []DocsInv` | `DocReconcile_proofs` |
| `DocsAreAtomic` | `Spec => EachCallIsAtomic` | |
| `NotFoundIsTrueHolds` | `Rust!Spec => NotFoundIsTrue` | |
| `AdmissionInvHolds` | `Spec => []AdmissionInv` | `Gate_proofs` |
| `RefusalsDeserved` | `Spec => RefusalsAreDeserved` | |
| `LimiterInvHolds` | `Limiter!Spec => []LimiterInv` | |
| `ConfigurationInvHolds` | `Configuration!Spec => []ConfigurationInv` | |
| `OrderlyNeverDeadlock` | orderly programs: nobody waits for a waiter | `Database_proofs` |
| `LocksAgree` | programs that number under the state row, orderly or not: `Spec => []LocksInv` | |
| `CodeNeverDeadlocks` | any workloads: `Spec => []NobodyWaitsForAWaiter` | |
| `CodeLocksAgree` | any number of the programs of the code: `Spec => []LocksInv` | |
| `SchemaGoesForward` | `Schema!Spec => SchemaOnlyMovesForward` | |
| `MigrationsInvHolds` | `Schema!Spec => []MigrationsInv` | |
| `ModelConvergesHolds` | `Spec => ModelConverges` | `Suites_proofs` |
| `ScopesAreIsolated` | whatever the server commits: `Partial!Spec => [](Partial!OnlyTheScope /\ Partial!QueueKeepsItsTenant)` | |
| `PartialInvHolds` | no retagging, no commit during a backfill: `Partial!Spec => []PartialInv` | |
| `UpgradesAreSafeHolds` | `Storage!Spec => UpgradesAreSafe` | |

Behind each group stands an inductive invariant with a theorem of its own
(`InvHolds`, `HistoryHolds`, `TablesShowLog`, `ReplicaIsSafe`, `ClientIsSafe`,
`HandlersAreSafe`, `ConnectionsAreSafe`, `DocsAreSafe`, `AdmissionIsInductive`). TLC checked each on the
instances of section 3 before it was proved, except the parts that say of a running
transaction what abstract execution it has followed (`PushAt`, `ExternalAt`, `Walk`),
which it cannot enumerate; there it checked the refinement they serve. In every
module there are lemmas about the values an operator returns, one lemma per action,
and one that puts the actions together.

**The server, `Inv`.** The committed tables alone do not give an induction: a
commit publishes what the transaction has built. `Inv` therefore says the same
three things (contiguous changes, mirror equal to docs, well-formed rows) of
`work` as of `db`, that `work` has only grown from `db`, and that the ledger of
`work` is dense up to the watermark as it will be stored: `call.last` for the
client that is pushing, the stored one for everybody else (`Reached`). While a
push holds the row, `db` satisfies the ledger condition with its own watermarks;
the two meet in `CommitPush`.

**The history, `HistoryInv`.** Three properties speak of changes that compaction
has removed from the tables, so the second invariant relates a store to a history:
`Agrees(s, H)` says that `H` has the store's changes and none from beyond its
checkpoint (`Recalls`), that every row is what its changes in `H` lead to
(`Follows`), that every outcome has the changes it reports (`Accounted`) and every
change its outcome, its owner and, after a tombstone, its permission
(`Explained`). The invariant is `Agrees(db, history)` together with
`Agrees(work, Ahead)`, where `Ahead` is what the history would be if the
transaction committed now. The step that matters is `ApplyMutation`: that the new
outcome has this one change and no other rests on `NextIsFresh`, which follows
from the dense ledger of `Inv` (no outcome above the watermark) and from
`Explained` (no change without an outcome).

**The refinement, `RefInv`.** `AtomicSync` has neither tables nor transactions, and
decides a mutation by counting the entries of a log. `Logs` and `Shows` tie the two
together: the log has an entry for every number of the history, and what it says of
a record (its number of entries, whether the last is a deletion, the document of the
last upsert) is what `docs` says; `Tells` does the same for a client's outcomes and
ledger rows. Both are claimed of the committed tables and, during a push, of `work`:
there is a batch of which the loop has been through `k` mutations (`PushAt`), and the
log and outcomes that `work` shows are those that `k` steps of the promise lead to
(`Walk`). One iteration of the loop is one such step (`StandsNext`): it rests on
`VerdictIs`, that `applyMutation` decides on the row what the promise decides on the
log, and on `WriteIsEntry`, that a captured write is one entry more. At the commit
nothing of the batch is left, and the walk through it is the fold of the promise
(`WalkIsFold`, by `LeastNatural` as in the document proofs below), while the
outcomes of every other client are untouched (`TellsGrown`, from the dense ledgers
of `Inv`). A commit of direct SQL is one entry, a compaction's commit nothing, and
every other step, rollback included, a stutter.

**Readers, `ReplicaSafe`.** This is `Inv` and `HistoryInv` with two parts more.
`FeedInv`: a number names one change, of the history and of the running
transaction together. `ReaderInv`: what a reader has opened or been answered is
related to its copy. A record's state at a checkpoint is the last of its changes
up to there (`At`); a snapshot that was opened shows `At` its own `lastSeq` for
ever (`ViewOK`), whatever commits or is compacted since; a page holds every change
between two checkpoints (`PageOK`); and the copy shows `At` its checkpoint except
for records that have changes up to the horizon (`Settled`). After an interrupted
replacement not even that is true, and the invariant says why nothing comes of it:
the checkpoint is `Behind` what compaction left, so that no page can follow, only
another snapshot. A page cut by the limit is not empty because a finite set of
naturals has a least element (`LeastNatural`, from the library's well-foundedness
of the naturals).

**Clients, `ClientSafe`.** What a client ever queued is its stream, numbered from
1; its queue is the end of the stream, and every request and reply in the network,
however old, is a slice of it (`Slice`). The server's watermark for a client lies
between what the client has been told and the end of its stream, so that a batch
never starts beyond the next id, and an id that is already there is there with the
same content (`RowOK`): `MUTATION_GAP` and `MUTATION_ID_REUSED` cannot happen.
`PushOK` says this of a push in the middle of its batch.

**Tables, `HandlersSafe`.** The same is claimed of three versions of the tables,
`db`, `work` and the savepoint's `saved`: changes numbered without a hole, each
record's revisions counting up to its mirror's (`FeedOK`), mirrors equal to the
rows they know of (`Tracks`). While a handler runs, `work` differs from `saved` by
at most one change, attributed to its mutation and on its terms (`Attempted`):
then a rollback has nothing to leave behind, and an acknowledgement exactly one
change to answer for. `untracked` says which rows a mirror was not told about.

**Connections, `ConnSafe`.** An id of a connection is one request on its whole
way: waiting, in the queue to the server, being handled, answered (`Ids`), which
makes every answer that carries it an answer to it. Commits that have still to be
hinted have marks of their own, which no connection but the pusher's was left out
of and no hint on its way carries (`MarksOK`, `Hints`); the counter of a
connection is the number of its handlers, and only a connection that is up has
queues (`Serves`). The deep case is `Settle`, in which all connections move.

**Lines of a stream, `FramingSafe`.** `ends` says where each line ends in what was
written (`Laid`); the router has the first `k` lines, and the buffer holds what was
read after `ends[k]` (`Cut`). A data event extends such a cut character by
character (`TakenCuts`). That the whole text then does (`SplitCuts`) would be an
induction over it: a prefix that is not split at a cut would have a shortest one
(`LeastNatural`), and so has the function that `Split` is defined by, whose existence
has to be shown before it can be unfolded (`SplitsExists`). No length is bounded:
when the socket is destroyed, the unfinished line is longer than the limit less the
chunk that came.

**Documents, `DocsSafe`.** `DocsInv` is far from inductive: it does not say what a
handler holds between two statements. `CallOK` does: the rows a batch has pending
are those it has locked, and each is what its merges make of the committed row, one
after the other (`Walk`), so that its version has grown by the number of items
that hit it and its contents lie between the row's and the row's with the batch's
own payloads (`Progress`). `Sources`: whatever a row holds, or held before it was
replaced, came from a call whose answer, present or still to come, permits it; that
alone survives a reset. The rest (`Lasting`) holds until the first: what a call
read is no newer than the row, and of the same version only if it is the same row
(`Races`), which is why compare-and-swap on the version is enough; answers to a row
are finitely many and its version counts them (`CountsOK`).

**Documents, `EachCallIsAtomic`.** Only the writing statements take effect (the swap,
the insert, PUT, DELETE, `COMMIT`); `ArriveShows` maps an arrival to the abstract
one, an answer of 404, 409 or 410 is a refusal, and every other step a stutter. A
swap merged what was read, and by `Races` that is the row as it is. At the commit
of a batch the pending row is a walk over its items and the promise a fold over
them; that the two agree needs no induction principle: a step at which they differed
would have a least number (`LeastNatural`), and the one before it leads to the same
row (`OneFold`).

**The Rust server, `RustSafe`.** A call that was told its document is stored has one
to show for it: rows are replaced, never removed, and what is sent has a version,
because what was read had one. The invariant says nothing of contents, which a
concurrent upsert does replace (section 3).

**The gate, `Fits`.** A fixed window lets through up to two budgets in a window's
length, one before it was opened and one since. `Fits` is that sentence about what
was let through lately and the window that is remembered: what came before the
window is one budget at most, what came in it is what it has counted, and where no
window is remembered, or it is over, one budget is all there is (`TwoBudgets`,
`Forgets`, `Opens`, `Counts`, `TimeGoesOn`). Admission (`AInv`) and the limiter
(`LInv`) claim it of every key. Of the limiter `LInv` says in addition that the
windows it keeps are those it would have and the others are over (`Keeps`), that
what a sweep left is younger than the sweep, and that who was told to come back was
refused in a window that is over by then, or another was opened since
(`TellsTheEnd`); that the time told is long enough is a lemma on rounding up
(`RetryIsLater`). Of admission `AInv` says what was ever said of a token
(`SaidOf`): its owner, or a denial that is owed to the token (nobody's, or signed by
a key that is learned of later) or to a key service that was broken while the
connection was open (`misled`); a connection's memory, a session and a call in
flight repeat no more than that. The keys that are missing are those of rotated
tokens only (`KeysOK`), which is why a good token's denial always has such a cause.
A principal is no address and no verdict
(`AdmissionAssumption`), so that what a denied caller spends is nobody's budget.

**Configurations, `CInv`.** What is loaded is the head of the list, without two
entries that clash (`LoadedOK`): owners of client ids are those of their entries,
so an entry clashes with one before it exactly if its token or a client id of its
own is taken. What the running server has added to the ledger follows the entries,
or a valid claim that names the client once (`AdoptedOK`).

**Locks.** For any transactions and any programs, if each takes the state row
before any other row and no table alone, then nobody ever waits for a waiter, so
no cycle can close. The inductive part is that at most one running transaction is
past the state row; the others that run hold nothing but shared uses of tables,
which stand in nobody's way. Two transactions of a circle are waited for, so one of
the circle did not take the state row first: that much holds of any programs. For
the numbers (`NumbersInv`) a running transaction's go on from the last committed
one, and it holds the state row while it has any or starts them over; a commit can
then disturb nobody else's. The hypotheses (`Orderly`, and `NumbersUnderLock`: numbers
are taken under that row) are proved of the programs of the code, in any number, in
`CodeNeverDeadlocks` and `CodeLocksAgree`; a part of a program may follow another
when the first begins with the state row (`StateFirstExtends`).

**Migrations, `MInv`.** What one starter's transaction sees is a history that goes on
from the committed one and, once it has been compared with its build, is a beginning
of that build's, with the trigger of the last migration in it; no other starter is
in a transaction (`HInv`). At the commit the history is therefore the whole build
(`WholePrefix`), and a start that is broken off leaves the committed history and
trigger as they were. Migration 2 copies the documents before it locks them, and replicas go
on writing in between. `MirrorInv` counts: what the running transaction has copied,
and the writes since (`missed`), make up the documents' version, until the mirror is
committed; from then on every write is captured in both, and the difference stays.
A start that is broken off leaves nothing behind, because the next copy starts the
count again and no other starter is in a transaction. No hypothesis about builds or
writers is needed, for this or for `SchemaGoesForward`.

**Convergence, `ConvergenceSafe`.** What a client has pulled is, of every entity, the
last change up to its checkpoint, and what the server has is the last of all
(`Recent`, `Feeds`): a pull brings the first up to date because the last change
since, if there is one, is the last of all (`RecentSince`). `Told` relates what a
client was told to the ledger, so that a repeated delivery, answered from the
ledger, tells it nothing new. `LatestWins` speaks of workloads of the generator
only: the record is that of the latest mutation of the entity that has come in,
whichever they are. It is kept because a mutation that is not older than the
record wins, except over a deletion, and deletions are the latest there are
(`ResolvedWins`); without that half of `Generated` the order of delivery would show.
When everything has come in, the latest is the reference's own choice, as no
timestamp occurs twice (`ReferenceIs`).

**Partial replicas, `Isolated` and `Complete`.** That a client keeps to its scope needs
nothing of the server: an answer in the network has records of the scope it was
asked for (`AnswerOK`), and one for another scope is ignored. That it is complete
does. The one answer for the present scope is what the server would answer now:
for a page, because nothing is committed while a client fills up (`PageOK`), and
for changes, because what it says of an entity is the last of the relevant commits
up to its checkpoint, and the entity's tags are what they were (`ChangesOK`). Until
the client has filled up, it lacks only records that stand behind the offset in the
order of the snapshot (`ShownIn`, `Rank`); from then on it has what the log up to
its checkpoint leads to. The two hypotheses of `PartialInvHolds` are what `runSeed`
keeps to; with either risk `CheckpointSafety` fails (section 3).

**Browser storage, `StorageSafe`.** The disk has the shape of one version (`Shaped`), the
tabs that are connected have that version open, and a request that waits asks for
it or for the next one, with a row to carry along where there is one to carry
(`Askable`). While an upgrade runs nobody is connected, so the disk cannot change
under it: what it has computed from the disk is what it would compute again, and
it is stored whole or, on an abort or the end of the browser, not at all.

Only model-checked:

* everything under fairness (`CatchesUp`, `EveryMutationSettles`,
  `EveryCallAnswered`, `EverythingSettles`), which the provers cannot reach;
* `NoMixedState`, `RememberedIsTerminal` and `OutageIsNoDenial`, which the code
  violates (section 3);
* `MergesAgree`, whose merge is recursive.

## 5. What is not modelled

* The merge core and the client libraries: other repositories. The models take
  the first as a constant operator, or from what the conformance scenarios pin, and
  the second from how the suites use them.
* Sizes, JSON validation, schemas of strings, signatures of tokens and claims that
  expire, metrics and audit lines, the wording of errors. A request that fails them has no effect.
* The digits of timestamps in `parseTsToMs` (`index.ts:241`): stamps are numbers.
* The reset's effect on readers with a checkpoint from before it (`index.ts:646`):
  a test-mode operation, after which clients are started anew.
* The Fullstack, Dart and Sagitta demo servers: one process, handlers one at a
  time, documents in memory.
* The Supabase recipe, release, compatibility and canary tooling: scripts over
  files and external services. The protocol and client suites are drivers; they
  were read for what the program promises.

## 6. Plan

Every invariant and action property that a run checks and finds true is a theorem,
but for `MergesAgree`. What would say more about the system next:

1. the lost merge of the Rust server as a bound: a document holds at least what the
   last acknowledged call sent;
2. readers across a reset or a restore (`index.ts:646`), once the code gives the
   sequence an epoch they could compare.
