----------------------------- MODULE SyncServer -----------------------------
(***************************************************************************)
(* The writers of the protocol tables in servers/node/src/protocol.ts:     *)
(* pushCore, the direct table writer (admin/external-write) and            *)
(* admin/compact, one PostgreSQL transaction each, statement by statement. *)
(*                                                                         *)
(* Every writer takes the row of syncer_protocol_state FOR UPDATE before   *)
(* it touches any other row (a push and a compaction by their own SELECT,  *)
(* direct SQL by the BEFORE STATEMENT trigger of migration 3), and keeps   *)
(* it until it commits or rolls back.  holder is the kind of transaction   *)
(* that has the lock and work the tables as that transaction sees them; db *)
(* is what has been committed, which is what every reader sees.            *)
(***************************************************************************)
EXTENDS ProtocolStore, Sequences

CONSTANTS
  Identity,      \* authenticated principals: tenant, subject, clientIds
  Batch,         \* the mutation arrays a push may carry, however malformed
  ExternalData,  \* the payloads direct writers store
  MaxExternal,   \* bound: direct writes start only below this checkpoint
  MaxCompact     \* bound: compaction goes no further than this checkpoint

ASSUME IdentityAssumption ==
  Identity \subseteq
    [tenant : Tenant, subject : Subject, clientIds : SUBSET ClientId]

\* PushSchema: at least one mutation; an upsert has a payload, a delete none.
ASSUME BatchAssumption ==
  \A b \in Batch :
    /\ b \in Seq(Mutation) /\ b # <<>>
    /\ \A i \in DOMAIN b : (b[i].op = "upsert") = (b[i].data \in Data)

ASSUME ExternalAssumption == ExternalData \subseteq Data

ASSUME BoundAssumption == MaxExternal \in Nat /\ MaxCompact \in Nat

VARIABLES
  db,        \* committed tables
  holder,    \* who holds the state row: "none", "push", "external", "compact"
  work,      \* the holder's view of the tables; db when nobody holds the row
  call,      \* the push in progress: its identity, its progress, its results
  history    \* auxiliary: every change ever committed, compacted ones included

vars == <<db, holder, work, call, history>>

NoCall ==
  [tenant |-> Nobody, client |-> Nobody, subject |-> Nobody,
   todo |-> <<>>, last |-> 0, results |-> <<>>]

Init ==
  /\ db = EmptyStore
  /\ holder = "none"
  /\ work = EmptyStore
  /\ call = NoCall
  /\ history = {}

-----------------------------------------------------------------------------
(***************************************************************************)
(* Ends of a transaction.  A rollback is any failure before COMMIT: an     *)
(* error thrown by the loop, a failpoint, a lost connection, a crash.      *)
(***************************************************************************)
Commit(s) ==
  /\ db' = s
  /\ work' = s
  /\ holder' = "none"
  /\ call' = NoCall
  /\ history' = history \cup s.changes

Rollback ==
  /\ holder # "none"
  /\ work' = db
  /\ holder' = "none"
  /\ call' = NoCall
  /\ UNCHANGED <<db, history>>

-----------------------------------------------------------------------------
(***************************************************************************)
(* Push.                                                                   *)
(***************************************************************************)

\* A first push claims the clientId for its subject (ON CONFLICT DO NOTHING).
ClaimClient(s, t, c, subject) ==
  IF s.clients[t][c].subject = Nobody
  THEN [s EXCEPT !.clients[t][c] = [subject |-> subject, last |-> 0]]
  ELSE s

BeginPush(id, c, batch) ==
  /\ holder = "none"
  /\ c \in id.clientIds                       \* otherwise CLIENT_ID_FORBIDDEN
  /\ holder' = "push"
  /\ work' = ClaimClient(db, id.tenant, c, id.subject)
  /\ call' = [tenant |-> id.tenant, client |-> c, subject |-> id.subject,
              todo |-> batch, last |-> db.clients[id.tenant][c].last,
              results |-> <<>>]
  /\ UNCHANGED <<db, history>>

\* Otherwise CLIENT_OWNERSHIP_CONFLICT is thrown and only Rollback is left.
\* Slip: any subject may push under any clientId.
AnyoneOwnsClient == TRUE

OwnsClient == work.clients[call.tenant][call.client].subject = call.subject

Pushing == holder = "push" /\ OwnsClient
Current == Head(call.todo)

\* A mutation id at or below the watermark is answered from the ledger, if it
\* is there (else LEDGER_INCONSISTENT) with this content (else
\* MUTATION_ID_REUSED).
IsReplay == Current.id <= call.last

ReplayDuplicate ==
  /\ Pushing /\ call.todo # <<>> /\ IsReplay
  /\ \E e \in Prior(work, call.tenant, call.client, Current.id) :
       /\ e.request = Current
       /\ call' = [call EXCEPT
            !.todo = Tail(@),
            !.results = Append(@, [outcome |-> e, duplicate |-> TRUE])]
  /\ UNCHANGED <<db, holder, work, history>>

\* The next id is executed; any later one is a MUTATION_GAP.
IsNext == Current.id = call.last + 1

Executing == Pushing /\ call.todo # <<>> /\ IsNext

\* Slip: a rejection leaves no ledger row.
RecordApplied(s, e) ==
  [s EXCEPT !.ledger = @ \cup {x \in {e} : x.status = "applied"}]

Record(s, e) == [s EXCEPT !.ledger = @ \cup {e}]

\* The outcome is written to the ledger in the transaction of its effect.
Settle(s, status, noOp, code) ==
  LET e == OutcomeOf(s, call.tenant, call.client, Current, status, noOp, code)
  IN /\ work' = Record(s, e)
     /\ call' = [call EXCEPT
          !.todo = Tail(@),
          !.last = Current.id,
          !.results = Append(@, [outcome |-> e, duplicate |-> FALSE])]
     /\ UNCHANGED <<db, holder, history>>

\* Slips: client and subject swapped; the id of the mutation before.
PushSourceSwapped ==
  [client |-> call.subject, mutation |-> Current.id, subject |-> call.client]

PushSourceLags ==
  [client |-> call.client, mutation |-> call.last, subject |-> call.subject]

\* set_config: the attribution the capture trigger reads.
PushSource ==
  [client |-> call.client, mutation |-> Current.id, subject |-> call.subject]

RejectMutation ==
  /\ Executing
  /\ RejectionCode(work, call.tenant, Current) # "NONE"
  /\ Settle(work, "rejected", FALSE,
            RejectionCode(work, call.tenant, Current))

AcknowledgeNoOp ==
  /\ Executing
  /\ RejectionCode(work, call.tenant, Current) = "NONE"
  /\ IsNoOp(work, call.tenant, Current)
  /\ Settle(work, "applied", TRUE, "NONE")

ApplyMutation ==
  /\ Executing
  /\ RejectionCode(work, call.tenant, Current) = "NONE"
  /\ ~IsNoOp(work, call.tenant, Current)
  /\ Settle(ApplyEffect(work, call.tenant, Current, PushSource),
            "applied", FALSE, "NONE")

\* Slip: the watermark stays where it was.
WatermarkForgotten(s) == s

\* The watermark is stored once, after the loop.
StoreWatermark(s) ==
  [s EXCEPT !.clients[call.tenant][call.client].last = call.last]

CommitPush ==
  /\ Pushing /\ call.todo = <<>>
  /\ Commit(StoreWatermark(work))

-----------------------------------------------------------------------------
(***************************************************************************)
(* Direct SQL on syncer_protocol_docs: no ledger, no revision check; an    *)
(* upsert replaces the document and clears the tombstone, a delete marks   *)
(* it, again if need be.  A delete of an absent row is a 404.              *)
(***************************************************************************)
BeginExternal(s) ==
  /\ holder = "none"
  /\ db.lastSeq < MaxExternal
  /\ holder' = "external"
  /\ work' = s
  /\ UNCHANGED <<db, call, history>>

ExternalUpsert(t, r, d) == BeginExternal(WriteDoc(db, t, r, d, FALSE, External))

ExternalDelete(t, r) ==
  /\ db.docs[t][r].revision > 0
  /\ BeginExternal(WriteDoc(db, t, r, db.docs[t][r].data, TRUE, External))

BeginCompact(through) ==
  /\ holder = "none"
  /\ through <= db.lastSeq                    \* otherwise CHECKPOINT_AHEAD
  /\ holder' = "compact"
  /\ work' = CompactThrough(db, through)
  /\ UNCHANGED <<db, call, history>>

CommitAdmin ==
  /\ holder \in {"external", "compact"}
  /\ Commit(work)

-----------------------------------------------------------------------------
PushStep ==
  \/ ReplayDuplicate
  \/ RejectMutation
  \/ AcknowledgeNoOp
  \/ ApplyMutation

Next ==
  \/ \E id \in Identity, c \in ClientId, b \in Batch : BeginPush(id, c, b)
  \/ PushStep
  \/ CommitPush
  \/ \E t \in Tenant, r \in RecordId, d \in ExternalData : ExternalUpsert(t, r, d)
  \/ \E t \in Tenant, r \in RecordId : ExternalDelete(t, r)
  \/ \E through \in 0 .. MaxCompact : BeginCompact(through)
  \/ CommitAdmin
  \/ Rollback

Spec == Init /\ [][Next]_vars

-----------------------------------------------------------------------------
(***************************************************************************)
(* Properties.                                                             *)
(***************************************************************************)
Result == [outcome : Outcome, duplicate : BOOLEAN]

Call ==
  [tenant : Tenant \cup {Nobody}, client : ClientId \cup {Nobody},
   subject : Subject \cup {Nobody}, todo : Seq(Mutation), last : Nat,
   results : Seq(Result)]

\* The variables have the types of their columns and request fields.
TypeOK ==
  /\ db \in Store
  /\ work \in Store
  /\ holder \in {"none", "push", "external", "compact"}
  /\ call \in Call
  /\ history \in SUBSET Change

\* A committed sequence number between the compaction floor and the last
\* checkpoint names exactly one change: sequence allocation follows commit
\* order (protocol.ts, "The singleton lock makes checkpoint allocation reflect
\* transaction commit order") and compaction removes a prefix and nothing else.
FeedIsContiguous == ChangesContiguous(db)

\* The mirror that snapshots are served from and the docs rows that mutations
\* are decided on agree in every committed state, whoever wrote the row.
MirrorAgrees == MirrorTracksDocs(db)

\* A client's watermark and its ledger rows describe the same prefix of
\* mutation ids, so LEDGER_INCONSISTENT is never thrown for a retry.
LedgerMatchesWatermark == LedgerDense(db, Watermarks(db))

\* The change a mutation caused, looked up by its attribution.
EffectsOf(e) ==
  {ch \in history : /\ ch.tenant = e.tenant
                    /\ ch.source.client = e.client
                    /\ ch.source.mutation = e.request.id}

\* Exactly once: an outcome that says "applied" has exactly one change in the
\* feed's history, at the checkpoint and revision the outcome reports; a
\* rejection or a no-op has none; and no attributed change lacks its outcome.
\* Retries after a lost response and rolled-back batches must not break it.
EffectsMatchOutcomes ==
  /\ \A e \in db.ledger :
       IF e.status = "applied" /\ ~e.noOp
       THEN \E ch \in EffectsOf(e) :
              /\ EffectsOf(e) = {ch}
              /\ ch.seq = e.checkpoint
              /\ ch.revision = e.revision
              /\ ch.record = e.request.record
              /\ ch.op = e.request.op
       ELSE EffectsOf(e) = {}
  /\ \A ch \in history :
       ch.source.client # Nobody =>
         \E e \in db.ledger : ch \in EffectsOf(e)

\* No lost update: a mutation that names the revision it edited is applied to
\* exactly that revision of the record, whatever committed in between.
BaseRevisionHonoured ==
  \A e \in db.ledger : \A ch \in EffectsOf(e) :
    e.request.base # NoBase => ch.revision = e.request.base + 1

\* The change that directly precedes ch on the same record.
Before(ch) ==
  {x \in history : /\ x.tenant = ch.tenant
                   /\ x.record = ch.record
                   /\ x.revision = ch.revision - 1}

\* A push brings a deleted record back only if it says so and names the
\* tombstone it has seen; a direct writer may.
NoAccidentalResurrection ==
  \A ch \in history : \A x \in Before(ch) :
    /\ x.op = "delete"
    /\ ch.op = "upsert"
    /\ ch.source # External
    => \E e \in db.ledger :
         /\ ch \in EffectsOf(e)
         /\ e.request.resurrect
         /\ e.request.base = x.revision

\* The changes of a record carry revisions 1, 2, 3, ... in feed order, and the
\* last of them is what docs shows: a reader that applies them in order ends
\* at the authoritative row.
RevisionsFollowFeed ==
  \A t \in Tenant, r \in RecordId :
    LET feed == {ch \in history : ch.tenant = t /\ ch.record = r}
        row  == db.docs[t][r]
    IN /\ {ch.revision : ch \in feed} = 1 .. row.revision
       /\ \A x, y \in feed : x.seq < y.seq <=> x.revision < y.revision
       /\ \A x \in feed : x.revision = row.revision =>
            /\ (x.op = "delete") = row.deleted
            /\ (~row.deleted => x.data = row.data)

\* Every attributed change was written by the subject its clientId is bound to.
AttributionIsOwner ==
  \A ch \in history :
    ch.source.client # Nobody =>
      ch.source.subject = db.clients[ch.tenant][ch.source.client].subject

\* A mutation is applied on its own terms or not at all: to the revision it
\* names, past a tombstone only where it says so, by the owner of its clientId.
AppliedOnItsTerms == BaseRevisionHonoured /\ NoAccidentalResurrection /\ AttributionIsOwner

\* What is durable stays: an outcome is never rewritten or forgotten, a bound
\* clientId keeps its subject, and the checkpoint, the compaction floor and
\* the watermarks never go back.
DurableStep ==
  /\ db.ledger \subseteq db'.ledger
  /\ db.lastSeq <= db'.lastSeq
  /\ db.minSeq <= db'.minSeq
  /\ \A t \in Tenant, c \in ClientId :
       LET old == db.clients[t][c]
           new == db'.clients[t][c]
       IN /\ old.last <= new.last
          /\ old.subject # Nobody => new.subject = old.subject

NothingDurableIsLost == [][DurableStep]_vars
=============================================================================
