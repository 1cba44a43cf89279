------------------------------ MODULE PartialSync ------------------------------
(***************************************************************************)
(* The partial replication that formal/partial-sync-schema-model.mjs       *)
(* models: a client keeps the records of one tenant that carry a tag of    *)
(* its filter, fills up by pages of a snapshot and follows the log; its    *)
(* filter and its tenant change while answers are on their way.            *)
(***************************************************************************)
EXTENDS Integers, Sequences, FiniteSets

CONSTANTS
  Tenant, Entity, Tag,
  Risks,   \* what runSeed does not do: "retag" a record, "commit" before or between backfill's pages
  MaxCommits, MaxEpochs, MaxPending   \* bounds: the log, changes of scope, mutations

VARIABLES
  log,         \* of the server: every commit; its length is the checkpoint
  scope,       \* of the client: tenant, filter and epoch
  checkpoint,  \* of the client
  records,     \* of the client: entity -> record, NoRecord where it has none
  index,       \* of the client: tag -> entities
  backfill,    \* the offset of the next page, or Done
  network,     \* answers on their way
  pending, quarantined   \* mutations of the client

client == <<scope, checkpoint, records, index, backfill>>
vars == <<log, client, network, pending, quarantined>>

Done == -1
NoRecord == [tenant |-> "none", tags |-> {}, deleted |-> TRUE, revision |-> 0]
Filters == (SUBSET Tag) \ {{}}

\* intersects(): a filter without tags lets everything through.
Intersects(tags, filter) == filter = {} \/ tags \cap filter # {}

Init ==
  /\ log = <<>>
  /\ \E t \in Tenant, f \in Filters : scope = [tenant |-> t, filter |-> f, epoch |-> 1]
  /\ checkpoint = 0 /\ records = [e \in Entity |-> NoRecord] /\ index = [g \in Tag |-> {}]
  /\ backfill = Done /\ network = {} /\ pending = {} /\ quarantined = {}
-----------------------------------------------------------------------------
(* Server *)

\* A record of the server: the last commit of the tenant's entity.
Latest(commits) == CHOOSE i \in commits : \A j \in commits : j <= i
Commits(t, e) == {i \in DOMAIN log : log[i].record.tenant = t /\ log[i].entity = e}
Stored(t, e) == IF Commits(t, e) = {} THEN NoRecord ELSE log[Latest(Commits(t, e))].record

Commit(t, e) ==
  LET before == Stored(t, e) IN
  /\ Len(log) < MaxCommits /\ (backfill = Done \/ "commit" \in Risks)
  /\ \E tags \in Filters, deleted \in BOOLEAN :
       /\ before.revision = 0 => ~deleted
       /\ before.revision > 0 /\ "retag" \notin Risks => tags = before.tags
       /\ log' = Append(log,
            [entity |-> e, priorTags |-> IF before.revision = 0 THEN tags ELSE before.tags,
             record |-> [tenant |-> t, tags |-> tags, deleted |-> deleted, revision |-> before.revision + 1]])
  /\ UNCHANGED <<client, network, pending, quarantined>>

\* snapshot(): of the records in scope, in order, those from an offset on; the
\* checkpoint is that of this page.
InScope(t, filter) == {e \in Entity : ~Stored(t, e).deleted /\ Intersects(Stored(t, e).tags, filter)}
Page(offset, limit) ==
  LET all == InScope(scope.tenant, scope.filter)
      before(e) == Cardinality({x \in all : x < e})
      page == {e \in all : offset <= before(e) /\ before(e) < offset + limit}
  IN [kind |-> "page", scope |-> scope, checkpoint |-> Len(log),
      items |-> [e \in page |-> Stored(scope.tenant, e)],
      next |-> IF offset + limit < Cardinality(all) THEN offset + limit ELSE Done]

\* Mutant: deletions are looked for under the tags they were written with.
RelevantNever(entry, t, filter) == entry.record.tenant = t /\ ~entry.record.deleted /\ Intersects(entry.record.tags, filter)

\* Mutant: changes of all tenants.
RelevantToAll(entry, t, filter) == Intersects(entry.record.tags, filter)

Relevant(entry, t, filter) ==
  /\ entry.record.tenant = t
  /\ IF entry.record.deleted THEN Intersects(entry.priorTags, filter) ELSE Intersects(entry.record.tags, filter)

\* Mutant: the checkpoint is that of the last change sent.
NextCheckpointSent(limit) ==
  LET sent == {i \in DOMAIN log : i > checkpoint /\ i <= checkpoint + limit /\ Relevant(log[i], scope.tenant, scope.filter)}
  IN IF sent = {} THEN checkpoint ELSE CHOOSE i \in sent : \A j \in sent : j <= i

\* Mutant: the checkpoint is the server's.
NextCheckpointAll(limit) == Len(log)

\* Mutant: one further than it was looked through.
NextCheckpointPast(limit) == checkpoint + limit + 1

\* The log is looked through up to here.
NextCheckpoint(limit) == IF checkpoint + limit < Len(log) THEN checkpoint + limit ELSE Len(log)

\* pull(): the relevant entries among the next few of the log. Applied in their
\* order, the last one of an entity is what counts.
Changes(limit) ==
  LET sent == {i \in DOMAIN log : /\ checkpoint < i /\ i <= NextCheckpoint(limit)
                                  /\ Relevant(log[i], scope.tenant, scope.filter)}
  IN [kind |-> "changes", scope |-> scope, checkpoint |-> NextCheckpoint(limit),
      items |-> [e \in {log[i].entity : i \in sent} |-> log[Latest({i \in sent : log[i].entity = e})].record],
      next |-> Done]
-----------------------------------------------------------------------------
(* Client *)

\* One request of a scope is under way at a time: backfill first, then the log.
Awaiting == \E r \in network : r.scope = scope

AskPage ==
  /\ ~Awaiting /\ backfill # Done
  /\ \E limit \in 1..2 : network' = network \cup {Page(backfill, limit)}
  /\ UNCHANGED <<log, client, pending, quarantined>>

AskChanges ==
  /\ ~Awaiting /\ backfill = Done /\ checkpoint < Len(log)
  /\ \E limit \in 1..2 : network' = network \cup {Changes(limit)}
  /\ UNCHANGED <<log, client, pending, quarantined>>

\* Mutant: an entity leaves no tag.
IndexedMore(items) ==
  [g \in Tag |-> index[g] \cup {e \in DOMAIN items : ~items[e].deleted /\ g \in items[e].tags}]

\* indexRecord: an entity leaves all tags, and enters those it has now.
Indexed(items) ==
  [g \in Tag |-> (index[g] \ DOMAIN items) \cup {e \in DOMAIN items : ~items[e].deleted /\ g \in items[e].tags}]

Applied(items) ==
  [e \in Entity |-> IF e \notin DOMAIN items THEN records[e]
                    ELSE IF items[e].deleted THEN NoRecord ELSE items[e]]

\* Mutant: the answers of an earlier scope are applied.
CurrentTenant(r) == r.scope.tenant = scope.tenant

Current(r) == r.scope = scope

Receive(r) ==
  /\ Current(r)
  /\ records' = Applied(r.items) /\ index' = Indexed(r.items)
  /\ checkpoint' = IF r.checkpoint > checkpoint THEN r.checkpoint ELSE checkpoint
  /\ backfill' = IF r.kind = "page" THEN r.next ELSE backfill
  /\ network' = network \ {r}
  /\ UNCHANGED <<log, scope, pending, quarantined>>

IgnoreStale(r) ==
  /\ ~Current(r) /\ network' = network \ {r}
  /\ UNCHANGED <<log, client, pending, quarantined>>

\* An answer is lost; a page or a pull is asked for again.
Lose(r) == network' = network \ {r} /\ UNCHANGED <<log, client, pending, quarantined>>

\* Mutant: what is out of the new filter stays.
KeptAll(filter) == Entity

Kept(filter) == {e \in Entity : ~records[e].deleted /\ Intersects(records[e].tags, filter)}

\* changeFilter: what no longer matches is evicted; then the new scope is filled.
ChangeFilter ==
  /\ scope.epoch < MaxEpochs /\ (checkpoint = Len(log) \/ "commit" \in Risks)
  /\ \E f \in Filters \ {scope.filter} :
       /\ scope' = [scope EXCEPT !.filter = f, !.epoch = @ + 1]
       /\ records' = [e \in Entity |-> IF e \in Kept(f) THEN records[e] ELSE NoRecord]
       /\ index' = [g \in Tag |-> index[g] \cap Kept(f)]
  /\ backfill' = 0
  /\ UNCHANGED <<log, checkpoint, network, pending, quarantined>>

Enqueue ==
  /\ Cardinality(pending \cup quarantined) < MaxPending
  /\ pending' = pending \cup {[tenant |-> scope.tenant, id |-> Cardinality(pending \cup quarantined) + 1]}
  /\ UNCHANGED <<log, client, network, quarantined>>

\* Mutant: the queue goes along.
QuarantineNothing == UNCHANGED <<pending, quarantined>>

\* What was queued for the old tenant is set aside.
Quarantine == quarantined' = quarantined \cup pending /\ pending' = {}

\* Mutant: the index is not cleared.
SwitchTenantKeepsIndex ==
  /\ scope.epoch < MaxEpochs
  /\ \E t \in Tenant \ {scope.tenant}, f \in Filters :
       scope' = [tenant |-> t, filter |-> f, epoch |-> scope.epoch + 1]
  /\ records' = [e \in Entity |-> NoRecord] /\ UNCHANGED index
  /\ checkpoint' = 0 /\ backfill' = 0
  /\ Quarantine
  /\ UNCHANGED <<log, network>>

SwitchTenant ==
  /\ scope.epoch < MaxEpochs
  /\ \E t \in Tenant \ {scope.tenant}, f \in Filters :
       scope' = [tenant |-> t, filter |-> f, epoch |-> scope.epoch + 1]
  /\ records' = [e \in Entity |-> NoRecord] /\ index' = [g \in Tag |-> {}]
  /\ checkpoint' = 0 /\ backfill' = 0
  /\ Quarantine
  /\ UNCHANGED <<log, network>>

Next ==
  \/ \E t \in Tenant, e \in Entity : Commit(t, e)
  \/ AskPage \/ AskChanges
  \/ \E r \in network : Receive(r) \/ IgnoreStale(r) \/ Lose(r)
  \/ ChangeFilter \/ Enqueue \/ SwitchTenant

Spec == Init /\ [][Next]_vars

-----------------------------------------------------------------------------
PartialTypeOK ==
  /\ checkpoint \in 0..Len(log) /\ backfill \in {Done} \cup Nat
  /\ scope.tenant \in Tenant /\ scope.filter \in Filters
  /\ \A r \in network : r.scope.epoch <= scope.epoch

\* The client has records of its tenant only, and finds exactly them by tag:
\* no index, page or pull of another scope is left ("tenant-isolated
\* cache/index/queue state").
OnlyTheScope ==
  /\ \A e \in Entity : ~records[e].deleted =>
       records[e].tenant = scope.tenant /\ Intersects(records[e].tags, scope.filter)
  /\ index = [g \in Tag |-> {e \in Entity : ~records[e].deleted /\ g \in records[e].tags}]

\* Nothing queued for one tenant is sent as another's, or dropped.
QueueKeepsItsTenant ==
  /\ \A m \in pending : m.tenant = scope.tenant
  /\ {m.id : m \in pending \cup quarantined} = 1..Cardinality(pending \cup quarantined)

CaughtUp == backfill = Done /\ checkpoint = Len(log)

\* A client that has filled up and followed the log has exactly the server's
\* records of its scope ("partial/filter checkpoint safety").
CheckpointSafety ==
  CaughtUp => \A e \in Entity : records[e] =
    IF e \in InScope(scope.tenant, scope.filter) THEN Stored(scope.tenant, e) ELSE NoRecord

\* What the client keeps is of its scope and complete, and the queue is its own.
PartialInv == PartialTypeOK /\ OnlyTheScope /\ QueueKeepsItsTenant /\ CheckpointSafety
=============================================================================
