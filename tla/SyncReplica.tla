---------------------------- MODULE SyncReplica ----------------------------
(***************************************************************************)
(* Readers of the change feed: pullCore and snapshotCore of                *)
(* servers/node/src/protocol.ts, and a client that keeps a local copy of   *)
(* its tenant's records with a pull checkpoint, as the client suites       *)
(* install them (suite/clients: applyChanges, replaceAuthoritative,        *)
(* installSnapshot).  The writers of SyncServer run underneath.            *)
(*                                                                         *)
(* A read is two server statements in one REPEATABLE READ transaction: it  *)
(* takes no lock, so pushes, direct writes and compactions commit between  *)
(* them.  An answer can be lost and an installation can be interrupted; a  *)
(* client keeps one read in flight and only its records and its checkpoint *)
(* survive.                                                                *)
(***************************************************************************)
EXTENDS SyncServer

CONSTANTS
  Reader,              \* clients that pull
  ReaderTenant,        \* ReaderTenant[n]: the tenant n authenticates as
  PageLimit,           \* the limit parameter of a pull
  MaxSnapshotRecords   \* config.maxSnapshotRecords

ASSUME ReaderAssumption ==
  /\ ReaderTenant \in [Reader -> Tenant]
  /\ PageLimit \in Nat \ {0}
  /\ MaxSnapshotRecords \in Nat \ {0}

VARIABLES
  replica,   \* a client's durable copy: records, checkpoint
  read       \* its read in flight

replicaVars == <<replica, read>>

Missing == [revision |-> 0, data |-> NoData]

\* horizon is auxiliary: the highest checkpoint of an answer whose
\* installation was interrupted.
FreshReplica ==
  [records |-> [r \in RecordId |-> Missing], checkpoint |-> 0, horizon |-> 0]

\* wants is what the next read asks for.
Idle(wants) ==
  [phase |-> "idle", wants |-> wants, view |-> EmptyStore, answer |-> <<>>]

ReplicaInit ==
  /\ replica = [n \in Reader |-> FreshReplica]
  /\ read = [n \in Reader |-> Idle("pull")]

Newest(changes) == CHOOSE x \in changes : \A y \in changes : y.seq <= x.seq

-----------------------------------------------------------------------------
(***************************************************************************)
(* The server's side.                                                      *)
(***************************************************************************)

\* BEGIN and the first statement, which reads the state row: the transaction
\* sees the tables committed at this moment.  A client takes a snapshot when a
\* pull told it to reset, or before it has any checkpoint.
\* Slip: a client asks for a snapshot whenever it likes.
SnapshotAnyTime(n) == TRUE

MaySnapshot(n) == read[n].wants = "snapshot" \/ replica[n].checkpoint = 0

OpenRead(n, kind) ==
  /\ read[n].phase = "idle"
  /\ \/ kind = "pull" /\ read[n].wants = "pull"
     \/ kind = "snapshot" /\ MaySnapshot(n)
  /\ read' = [read EXCEPT ![n] =
       [phase |-> "open", wants |-> kind, view |-> db, answer |-> <<>>]]
  /\ UNCHANGED replica

\* The tables the statements after the first one see.
\* Slip: READ COMMITTED.
RowsAsCommittedNow(n) == db

Rows(n) == read[n].view

Answered(n, answer) ==
  /\ read' = [read EXCEPT ![n] =
       [phase |-> "answered", wants |-> @.wants, view |-> EmptyStore, answer |-> answer]]
  /\ UNCHANGED replica

Opened(n, kind) == read[n].phase = "open" /\ read[n].wants = kind

\* Slip: off by one at the compaction floor.
ResetOneLate(s, from) == from + 2 < s.minSeq

NeedsReset(s, from) == from + 1 < s.minSeq

PullReset(n) ==
  /\ Opened(n, "pull")
  /\ NeedsReset(read[n].view, replica[n].checkpoint)
  /\ Answered(n, [kind |-> "reset"])

\* The tenant's changes after the checkpoint, and the first PageLimit of them.
Pending(n) ==
  {ch \in Rows(n).changes : /\ ch.tenant = ReaderTenant[n]
                            /\ ch.seq > replica[n].checkpoint
                            /\ ch.seq <= read[n].view.lastSeq}

PageOf(changes) ==
  {ch \in changes :
     Cardinality({x \in changes : x.seq <= ch.seq}) <= PageLimit}

HasMore(changes) == Cardinality(changes) > PageLimit

\* Slips: the checkpoint of the last change, or 0 or none at all if there is no
\* change; the whole feed is claimed although a part of it was sent.
NextOrZero(changes, last, from) ==
  IF changes = {} THEN 0 ELSE Newest(PageOf(changes)).seq

NextFollowsPage(changes, last, from) ==
  IF changes = {} THEN from ELSE Newest(PageOf(changes)).seq

\* A page that is not the last ends at its last change; the last page reaches
\* the checkpoint the transaction saw, past the changes of other tenants.
NextCheckpoint(changes, last, from) ==
  IF HasMore(changes) THEN Newest(PageOf(changes)).seq ELSE last

\* A checkpoint ahead of the view would be CHECKPOINT_AHEAD and end the read.
PullPage(n) ==
  /\ Opened(n, "pull")
  /\ replica[n].checkpoint <= read[n].view.lastSeq
  /\ ~NeedsReset(read[n].view, replica[n].checkpoint)
  /\ Answered(n, [kind |-> "page",
                  checkpoint |-> NextCheckpoint(Pending(n),
                                   read[n].view.lastSeq, replica[n].checkpoint),
                  changes |-> PageOf(Pending(n))])

\* The live mirror rows of the tenant; tombstones are left out.
Live(n) ==
  {r \in RecordId :
     LET row == Rows(n).records[ReaderTenant[n]][r]
     IN row.revision > 0 /\ ~row.deleted}

\* All of the live records or, above the quota, none.
Snapshot(n) ==
  /\ Opened(n, "snapshot")
  /\ Cardinality(Live(n)) <= MaxSnapshotRecords
  /\ Answered(n,
       [kind |-> "snapshot",
        checkpoint |-> read[n].view.lastSeq,
        records |-> [r \in Live(n) |->
          LET row == Rows(n).records[ReaderTenant[n]][r]
          IN [revision |-> row.revision, data |-> row.data]]])

\* SNAPSHOT_QUOTA_EXCEEDED: the client is left where it was.
SnapshotRefused(n) ==
  /\ Opened(n, "snapshot")
  /\ Cardinality(Live(n)) > MaxSnapshotRecords
  /\ read' = [read EXCEPT ![n] = Idle("pull")]
  /\ UNCHANGED replica

-----------------------------------------------------------------------------
(***************************************************************************)
(* The client's side.                                                      *)
(***************************************************************************)
Has(n, kind) == read[n].phase = "answered" /\ read[n].answer.kind = kind

\* Slip: a deleted record stays, without its document.
ShownDeleted(ch) == [revision |-> ch.revision, data |-> ch.data]

\* applyChanges: a delete removes the local record, an upsert replaces it.
Shown(ch) ==
  IF ch.op = "delete" THEN Missing
  ELSE [revision |-> ch.revision, data |-> ch.data]

Apply(records, changes) ==
  [r \in RecordId |->
     LET mine == {ch \in changes : ch.record = r}
     IN IF mine = {} THEN records[r] ELSE Shown(Newest(mine))]

\* replaceAuthoritative: clear, then set.
Replace(snapshot) ==
  [r \in RecordId |-> IF r \in DOMAIN snapshot THEN snapshot[r] ELSE Missing]

ReceiveReset(n) ==
  /\ Has(n, "reset")
  /\ read' = [read EXCEPT ![n] = Idle("snapshot")]
  /\ UNCHANGED replica

\* The callback ran to its end, then the checkpoint was stored.
Installed(n, records) ==
  /\ replica' = [replica EXCEPT ![n] =
       [@ EXCEPT !.records = records,
                 !.checkpoint = read[n].answer.checkpoint]]
  /\ read' = [read EXCEPT ![n] = Idle("pull")]

InstallPage(n) ==
  /\ Has(n, "page")
  /\ Installed(n, Apply(replica[n].records, read[n].answer.changes))

InstallSnapshot(n) ==
  /\ Has(n, "snapshot")
  /\ Installed(n, Replace(read[n].answer.records))

\* The callback threw or the process died before the checkpoint was stored:
\* a part of the answer, or all of it, is in the records.
Interrupted(n, records) ==
  /\ replica' = [replica EXCEPT ![n] =
       [@ EXCEPT !.records = records,
                 !.horizon = IF replica[n].horizon > read[n].answer.checkpoint
                             THEN replica[n].horizon ELSE read[n].answer.checkpoint]]
  /\ read' = [read EXCEPT ![n] = Idle("pull")]

InterruptPage(n) ==
  /\ Has(n, "page")
  /\ \E done \in read[n].answer.changes :
       Interrupted(n, Apply(replica[n].records,
         {ch \in read[n].answer.changes : ch.seq <= done.seq}))

InterruptSnapshot(n) ==
  /\ Has(n, "snapshot")
  /\ \E done \in SUBSET DOMAIN read[n].answer.records :
       Interrupted(n, Replace([r \in done |-> read[n].answer.records[r]]))

\* A lost request or answer, a timeout, a crash of either side.
LoseRead(n) ==
  /\ read[n].phase # "idle" \/ read[n].wants # "pull"
  /\ read' = [read EXCEPT ![n] = Idle("pull")]
  /\ UNCHANGED replica

-----------------------------------------------------------------------------
Answer(n) == PullReset(n) \/ PullPage(n) \/ Snapshot(n) \/ SnapshotRefused(n)

Open(n) == \E kind \in {"pull", "snapshot"} : OpenRead(n, kind)

FollowReset(n) == read[n].wants = "snapshot" /\ OpenRead(n, "snapshot")

ReaderStep(n) ==
  \/ Open(n)
  \/ Answer(n)
  \/ ReceiveReset(n)
  \/ InstallPage(n)
  \/ InstallSnapshot(n)
  \/ InterruptPage(n)
  \/ InterruptSnapshot(n)
  \/ LoseRead(n)

ReplicaNext ==
  \/ Next /\ UNCHANGED replicaVars
  \/ \E n \in Reader : ReaderStep(n) /\ UNCHANGED vars

ReplicaSpec == Init /\ ReplicaInit /\ [][ReplicaNext]_<<vars, replicaVars>>

\* Recurring retry against an available server, and a network and a client
\* process that do not fail every time: nothing is asked of the writers.
ReaderFairness ==
  \A n \in Reader :
    /\ WF_<<vars, replicaVars>>(Open(n) /\ UNCHANGED vars)
    /\ SF_<<vars, replicaVars>>(FollowReset(n) /\ UNCHANGED vars)
    /\ SF_<<vars, replicaVars>>((PullReset(n) \/ PullPage(n)) /\ UNCHANGED vars)
    /\ SF_<<vars, replicaVars>>((Snapshot(n) \/ SnapshotRefused(n)) /\ UNCHANGED vars)
    /\ SF_<<vars, replicaVars>>(ReceiveReset(n) /\ UNCHANGED vars)
    /\ SF_<<vars, replicaVars>>(InstallPage(n) /\ UNCHANGED vars)
    /\ SF_<<vars, replicaVars>>(InstallSnapshot(n) /\ UNCHANGED vars)

FairReplicaSpec == ReplicaSpec /\ ReaderFairness

-----------------------------------------------------------------------------
(***************************************************************************)
(* Properties.                                                             *)
(***************************************************************************)
LocalRecord == {Missing} \cup [revision : Nat \ {0}, data : Data]

\* The local copy holds whole documents; a read is idle, open or answered.
ReplicaTypeOK ==
  /\ \A n \in Reader :
       /\ replica[n].records \in [RecordId -> LocalRecord]
       /\ replica[n].checkpoint \in Nat
       /\ replica[n].horizon \in Nat
  /\ \A n \in Reader :
       /\ read[n].phase \in {"idle", "open", "answered"}
       /\ read[n].wants \in {"pull", "snapshot"}
       /\ read[n].view \in Store

\* The tenant's records as of a checkpoint, by everything ever committed.
RecordsAt(t, k) ==
  [r \in RecordId |->
     LET feed == {ch \in history : ch.tenant = t /\ ch.record = r /\ ch.seq <= k}
     IN IF feed = {} THEN Missing ELSE Shown(Newest(feed))]

\* A local copy is the tenant's records as of its checkpoint, exactly: no
\* change is skipped, none of another tenant's gets in, none from beyond the
\* checkpoint is kept.  Only while an interrupted installation is not yet
\* overtaken by the checkpoint may the copy show later rows.
ReplicaConsistent ==
  \A n \in Reader :
    replica[n].horizon <= replica[n].checkpoint =>
      replica[n].records = RecordsAt(ReaderTenant[n], replica[n].checkpoint)

\* The local copies are well formed and are the server's records.
ReplicaInv == ReplicaTypeOK /\ ReplicaConsistent

\* A page holds every change between the client's checkpoint and the one it
\* hands out, although compaction may run between the two statements of the
\* pull and again before the page arrives.
PagesAreComplete ==
  \A n \in Reader :
    Has(n, "page") =>
      read[n].answer.changes =
        {ch \in history : /\ ch.tenant = ReaderTenant[n]
                          /\ ch.seq > replica[n].checkpoint
                          /\ ch.seq <= read[n].answer.checkpoint}

\* A pull checkpoint never goes back and is never ahead of the server, so a
\* client never meets CHECKPOINT_AHEAD.
CheckpointsAdvance ==
  [][\A n \in Reader :
       /\ replica[n].checkpoint <= replica'[n].checkpoint
       /\ replica'[n].checkpoint <= db'.lastSeq]_<<vars, replicaVars>>

\* A snapshot of the tenant's live records would be refused.
OverQuota(n) ==
  Cardinality({r \in RecordId : LET row == db.records[ReaderTenant[n]][r]
                                IN row.revision > 0 /\ ~row.deleted}) > MaxSnapshotRecords

\* A client that keeps pulling gets past every change that is ever committed,
\* compacted or not, its own tenant's or another's, unless its records are more
\* than a snapshot may hold.  (The bounds end the feed, so the last change of
\* it stands for all.)
CatchesUp ==
  \A n \in Reader : []<>(replica[n].checkpoint = db.lastSeq \/ OverQuota(n))

\* formal/procedure.toml: "a crash during replacement cannot publish a mixed
\* old/new state".
NoMixedState ==
  \A n \in Reader :
    \E k \in 0 .. db.lastSeq :
      replica[n].records = RecordsAt(ReaderTenant[n], k)
=============================================================================
