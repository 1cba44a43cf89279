---------------------------- MODULE TableHandlers ----------------------------
(***************************************************************************)
(* Application tables behind the sync protocol: the generic capture        *)
(* trigger that mirrors their rows and feeds the change log, the           *)
(* registered mutation handlers that write them under a savepoint          *)
(* (servers/node/src/protocol.ts, protocol-handlers.ts, index.ts), direct  *)
(* SQL on them and the test-mode reset.                                    *)
(*                                                                         *)
(* As in SyncServer one transaction at a time holds the state row: db is   *)
(* committed, work is what the push in progress sees.  Mutation ids,       *)
(* replays and clients are SyncServer's subject; here every mutation of a  *)
(* push is new, and the ledger keeps what it was answered.                 *)
(***************************************************************************)
EXTENDS Integers, Sequences, FiniteSets

CONSTANTS
  Table,          \* logical names of application tables with a JSONB handler
  SoftDelete,     \* those of them that have a deletion column
  Record,         \* record ids
  Data,           \* JSON objects
  Merge(_, _),    \* the merge core
  NoData,         \* SQL NULL
  Request,        \* the mutations clients send, without their ids
  WrittenBy,      \* application handlers: the records one may write
  DirectData,     \* payloads of direct SQL
  MaxMutations,   \* bound: mutations ever sent
  MaxDirect       \* bound: direct SQL and resets start only below this checkpoint

ASSUME TablesAssumption ==
  /\ SoftDelete \subseteq Table /\ WrittenBy \subseteq Record
  /\ NoData \notin Data /\ DirectData \subseteq Data
ASSUME MergeAssumption == \A a, b \in Data : Merge(a, b) \in Data
ASSUME BoundsAssumption == MaxMutations \in Nat /\ MaxDirect \in Nat

NoBase == -1
App    == "app"      \* the logical table of an application-specific handler

\* mutationHandlers is a map: a logical table has one handler.
ASSUME HandlerAssumption == App \notin Table

\* A source row, the mirror's row of the same record (revision 0: no row).
SourceRow == [data : Data, deleted : BOOLEAN]
Gone      == [data |-> NoData, deleted |-> FALSE]
MirrorRow == [revision : Nat, data : Data \cup {NoData}, deleted : BOOLEAN]
Unknown   == [revision |-> 0, data |-> NoData, deleted |-> FALSE]

Mutation ==
  [table : Table \cup {App}, record : Record, op : {"upsert", "delete"},
   base : Nat \cup {NoBase}, data : Data \cup {NoData}, resurrect : BOOLEAN]

\* PushSchema: an upsert has a payload.
ASSUME RequestAssumption ==
  Request \subseteq Mutation /\ \A m \in Request : m.op = "upsert" => m.data \in Data

\* Attribution of a change: the mutation it belongs to; 0 for direct SQL.
Change ==
  [seq : Nat \ {0}, table : Table, record : Record, op : {"upsert", "delete"},
   data : Data \cup {NoData}, revision : Nat \ {0}, mutation : Nat]

VARIABLES
  db,          \* committed tables
  work,        \* the tables as the push in progress sees them
  saved,       \* work at SAVEPOINT syncer_protocol_handler
  phase,       \* "idle", "loop", "handling", "decided", "failed"
  todo,        \* mutations the push has not reached
  decision,    \* what the handler decided
  registered,  \* tables with capture triggers
  resetting,   \* the test-mode reset is between its two halves
  untracked    \* auxiliary: rows written or removed behind the trigger's back:
               \* before registration, by a change of id, around a reset

vars == <<db, work, saved, phase, todo, decision, registered, resetting, untracked>>

\* What only direct SQL and operators change.
setup == <<registered, resetting, untracked>>

Undecided == [status |-> "none", noOp |-> FALSE]

EmptyTables ==
  [lastSeq |-> 0,
   source  |-> [t \in Table |-> [r \in Record |-> Gone]],
   mirror  |-> [t \in Table |-> [r \in Record |-> Unknown]],
   changes |-> {},
   ledger  |-> <<>>]

Init ==
  /\ db = EmptyTables /\ work = EmptyTables /\ saved = EmptyTables
  /\ phase = "idle"
  /\ todo = <<>>
  /\ decision = Undecided
  /\ registered = {}
  /\ resetting = FALSE
  /\ untracked = {}

-----------------------------------------------------------------------------
(***************************************************************************)
(* Writes of a source row and the AFTER-ROW trigger.  A physical delete    *)
(* and a set deletion column are both a tombstone for the mirror, which    *)
(* keeps the revision of a record whose source row is gone.                *)
(***************************************************************************)
Exists(w, t, r) == w.source[t][r] # Gone

\* Slip: the trigger is attached to INSERT and UPDATE only.
CaptureSkipsDelete(w, t, r, n) ==
  IF t \notin registered \/ ~Exists(w, t, r) THEN w ELSE
  LET row  == w.source[t][r]
      body == IF row.deleted THEN NoData ELSE row.data
      rev  == w.mirror[t][r].revision + 1
  IN [w EXCEPT
        !.lastSeq = @ + 1,
        !.mirror[t][r] = [revision |-> rev, data |-> body, deleted |-> row.deleted],
        !.changes = @ \cup
          {[seq |-> w.lastSeq + 1, table |-> t, record |-> r,
            op |-> IF row.deleted THEN "delete" ELSE "upsert",
            data |-> body, revision |-> rev, mutation |-> n]}]

\* Slip: the mirror row goes with the source row and its revision restarts.
CaptureForgetsRevision(w, t, r, n) ==
  IF t \notin registered THEN w ELSE
  LET row  == w.source[t][r]
      dead == ~Exists(w, t, r) \/ row.deleted
      body == IF dead THEN NoData ELSE row.data
      rev  == IF w.mirror[t][r].deleted THEN 1 ELSE w.mirror[t][r].revision + 1
  IN [w EXCEPT
        !.lastSeq = @ + 1,
        !.mirror[t][r] = [revision |-> rev, data |-> body, deleted |-> dead],
        !.changes = @ \cup
          {[seq |-> w.lastSeq + 1, table |-> t, record |-> r,
            op |-> IF dead THEN "delete" ELSE "upsert",
            data |-> body, revision |-> rev, mutation |-> n]}]

Capture(w, t, r, n) ==
  IF t \notin registered THEN w ELSE
  LET row  == w.source[t][r]
      dead == ~Exists(w, t, r) \/ row.deleted
      body == IF dead THEN NoData ELSE row.data
      rev  == w.mirror[t][r].revision + 1
  IN [w EXCEPT
        !.lastSeq = @ + 1,
        !.mirror[t][r] = [revision |-> rev, data |-> body, deleted |-> dead],
        !.changes = @ \cup
          {[seq |-> w.lastSeq + 1, table |-> t, record |-> r,
            op |-> IF dead THEN "delete" ELSE "upsert",
            data |-> body, revision |-> rev, mutation |-> n]}]

Write(w, t, r, row, n) == Capture([w EXCEPT !.source[t][r] = row], t, r, n)

Put(w, t, r, d, n) == Write(w, t, r, [data |-> d, deleted |-> FALSE], n)

\* Slip: a soft delete takes the document from the row.
RemoveBlanksRow(w, t, r, n) ==
  Write(w, t, r, [data |-> NoData, deleted |-> t \in SoftDelete], n)

\* DELETE FROM, or the deletion column where the table has one.
Remove(w, t, r, n) ==
  Write(w, t, r,
        IF t \in SoftDelete THEN [w.source[t][r] EXCEPT !.deleted = TRUE] ELSE Gone,
        n)

-----------------------------------------------------------------------------
(***************************************************************************)
(* createPostgresJsonbMutationHandler, on the tables w.                    *)
(***************************************************************************)
Known(w, m) == w.mirror[m.table][m.record].revision > 0
Dead(w, m)  == w.mirror[m.table][m.record].deleted

\* "authoritative source and protocol mirror disagree": thrown before anything
\* is decided.
Disagree(w, m) == Known(w, m) # Exists(w, m.table, m.record) /\ ~Dead(w, m)

Stale(w, m) ==
  m.base # NoBase /\ m.base # w.mirror[m.table][m.record].revision

IsNoOp(w, m) == m.op = "delete" /\ Known(w, m) /\ Dead(w, m) /\ ~Stale(w, m)

\* Slip: a tombstone is no obstacle to an upsert.
JsonbRejectsLive(w, m) ==
  \/ ~Known(w, m) /\ (m.op = "delete" \/ m.base \notin {NoBase, 0})
  \/ Known(w, m) /\ Stale(w, m)

\* NOT_FOUND, TOMBSTONED, REVISION_REQUIRED and REVISION_CONFLICT.
JsonbRejects(w, m) ==
  \/ ~Known(w, m) /\ (m.op = "delete" \/ m.base \notin {NoBase, 0})
  \/ Known(w, m) /\ Stale(w, m)
  \/ m.op = "upsert" /\ Dead(w, m) /\ (~m.resurrect \/ m.base = NoBase)

\* An insert takes the payload; an update of a row that is still there, live
\* or soft-deleted, merges into it.
JsonbWrite(w, m, n) ==
  IF m.op = "delete" THEN Remove(w, m.table, m.record, n)
  ELSE IF Exists(w, m.table, m.record)
       THEN Put(w, m.table, m.record,
                Merge(w.source[m.table][m.record].data, m.data), n)
       ELSE Put(w, m.table, m.record, m.data, n)

\* "captured mutation did not produce a protocol mirror row"
Uncaptured(w, m) == ~Known(w, m)

-----------------------------------------------------------------------------
(***************************************************************************)
(* A push: SAVEPOINT, the handler, validation of its decision, release or  *)
(* rollback of the savepoint, ledger; then the next mutation.              *)
(***************************************************************************)
Mutations(w) == Len(w.ledger) + 1    \* the id of the mutation in progress

BeginPush(batch) ==
  /\ phase = "idle"
  /\ Len(db.ledger) + Len(batch) <= MaxMutations
  /\ phase' = "loop"
  /\ work' = db
  /\ todo' = batch
  /\ UNCHANGED <<db, saved, decision, setup>>

Dispatch ==
  /\ phase = "loop" /\ todo # <<>>
  /\ saved' = work
  /\ phase' = "handling"
  /\ UNCHANGED <<db, work, todo, decision, setup>>

\* The handler has returned, with w in its transaction.
Decide(w, status, noOp) ==
  /\ work' = w
  /\ decision' = [status |-> status, noOp |-> noOp]
  /\ phase' = "decided"
  /\ UNCHANGED <<db, saved, todo, setup>>

\* The handler threw, or what it returned is no valid decision for this
\* mutation: ROLLBACK TO SAVEPOINT, and the error ends the push.
Throw ==
  /\ work' = saved
  /\ phase' = "failed"
  /\ UNCHANGED <<db, saved, todo, decision, setup>>

Handling == phase = "handling"
Current  == Head(todo)

JsonbReject ==
  /\ Handling /\ Current.table \in Table
  /\ ~Disagree(work, Current)
  /\ JsonbRejects(work, Current)
  /\ Decide(work, "rejected", FALSE)

JsonbNoOp ==
  /\ Handling /\ Current.table \in Table
  /\ ~Disagree(work, Current)
  /\ IsNoOp(work, Current)
  /\ Decide(work, "applied", TRUE)

JsonbApply ==
  /\ Handling /\ Current.table \in Table
  /\ ~Disagree(work, Current)
  /\ ~JsonbRejects(work, Current) /\ ~IsNoOp(work, Current)
  /\ LET w == JsonbWrite(work, Current, Mutations(work)) IN
       IF Uncaptured(w, Current) THEN Throw ELSE Decide(w, "applied", FALSE)

JsonbThrow ==
  /\ Handling /\ Current.table \in Table
  /\ Disagree(work, Current)
  /\ Throw

\* An application-specific handler may write any captured rows and decide what
\* it likes, also at odds with what it wrote; the second change under one
\* mutation violates UNIQUE (tenant_id, client_id, mutation_id), and a document
\* for another record is refused by validateHandlerDecision.
\* Slip: the changes table has no such constraint.
NotUnique(n) == FALSE

SecondChange(n) == \E ch \in work.changes : ch.mutation = n

AppWrite(t, r, d) ==
  /\ Handling /\ Current.table = App
  /\ IF SecondChange(Mutations(work))
     THEN Throw
     ELSE /\ work' = Put(work, t, r, d, Mutations(work))
          /\ untracked' = untracked \cup (IF t \in registered THEN {} ELSE {<<t, r, "early">>})
          /\ UNCHANGED <<db, saved, phase, todo, decision, registered, resetting>>

AppDecide(status, noOp) ==
  /\ Handling /\ Current.table = App
  /\ Decide(work, status, noOp)

AppThrow == Handling /\ Current.table = App /\ Throw

Settle(w, d) ==
  /\ work' = [w EXCEPT !.ledger =
       Append(@, [request |-> Current, status |-> d.status, noOp |-> d.noOp,
                  checkpoint |-> w.lastSeq])]
  /\ todo' = Tail(todo)
  /\ decision' = Undecided
  /\ phase' = "loop"
  /\ UNCHANGED <<db, saved, setup>>

\* Slips: the rejected handler's writes are released like an accepted one's;
\* the push is rolled back to its beginning; the sequence is not transactional.
RejectReleases == work
RejectUndoesPush == [db EXCEPT !.ledger = work.ledger]
RejectKeepsSequence == [saved EXCEPT !.lastSeq = work.lastSeq]

\* A rejection is durable, what the handler wrote while deciding is not.
RejectRollsBack == saved

Reject ==
  /\ phase = "decided" /\ decision.status = "rejected"
  /\ Settle(RejectRollsBack, decision)

\* Slip: a success that captured nothing is acknowledged.
CapturedOrTrusted == TRUE

\* MUTATION_NOT_CAPTURED unless the checkpoint advanced or it is a no-op.
Captured == decision.noOp \/ work.lastSeq > saved.lastSeq

Accept ==
  /\ phase = "decided" /\ decision.status = "applied"
  /\ Captured
  /\ Settle(work, decision)

Fail ==
  /\ phase = "decided" /\ decision.status = "applied"
  /\ ~Captured
  /\ phase' = "failed"
  /\ UNCHANGED <<db, work, saved, todo, decision, setup>>

End(w) ==
  /\ db' = w /\ work' = w /\ saved' = w
  /\ phase' = "idle"
  /\ todo' = <<>>
  /\ decision' = Undecided

CommitPush == phase = "loop" /\ todo = <<>> /\ End(work) /\ UNCHANGED setup

\* Any failure of the push, or of its connection.
Rollback ==
  /\ phase \in {"loop", "handling", "decided", "failed"}
  /\ End(db)
  /\ UNCHANGED setup

-----------------------------------------------------------------------------
(***************************************************************************)
(* Direct SQL on a source table: one statement, one transaction, after the *)
(* BEFORE STATEMENT trigger has taken the state row.  Before its table is  *)
(* registered a write is not captured.                                     *)
(***************************************************************************)
\* w replaces the tables, r is the record the trigger sees, lost what it misses.
Direct(w, t, r, lost) ==
  /\ phase = "idle"
  /\ db.lastSeq < MaxDirect
  /\ End(w)
  /\ untracked' =
       IF t \in registered
       THEN {u \in untracked : u[1] # t \/ u[2] # r} \cup lost
       ELSE untracked \cup lost \cup {<<t, r, "early">>}
  /\ UNCHANGED <<registered, resetting>>

DirectPut(t, r, d) == Direct(Put(db, t, r, d, 0), t, r, {})

DirectRemove(t, r) == Exists(db, t, r) /\ Direct(Remove(db, t, r, 0), t, r, {})

DirectErase(t, r) == Exists(db, t, r) /\ Direct(Write(db, t, r, Gone, 0), t, r, {})

\* UPDATE ... SET id: the trigger sees the new identity of the row only.
DirectRekey(t, r, s) ==
  /\ Exists(db, t, r) /\ ~Exists(db, t, s)
  /\ Direct(Write([db EXCEPT !.source[t][r] = Gone], t, s, db.source[t][r], 0),
            t, s, {<<t, r, "rekey">>})

\* syncer_protocol_register_capture: triggers, no copy of what is there.
Register(t) ==
  /\ phase = "idle" /\ t \notin registered
  /\ registered' = registered \cup {t}
  /\ UNCHANGED <<db, work, saved, phase, todo, decision, resetting, untracked>>

\* POST /reset truncates the application table (no row trigger fires), then
\* resetProtocolState truncates the protocol tables in a statement of its own.
\* A TRUNCATE waits for every transaction that has touched its table.
ResetSources ==
  /\ db.lastSeq < MaxDirect
  /\ phase = "idle" /\ registered = Table /\ ~resetting
  /\ End([db EXCEPT !.source = EmptyTables.source])
  /\ resetting' = TRUE
  /\ untracked' = {}
  /\ UNCHANGED registered

ResetProtocol ==
  /\ phase = "idle" /\ resetting
  /\ End([EmptyTables EXCEPT !.source = db.source])
  /\ resetting' = FALSE
  /\ untracked' = {u \in Table \X Record \X {"reset"} : Exists(db, u[1], u[2])}
  /\ UNCHANGED registered

-----------------------------------------------------------------------------
PushStep ==
  \/ Dispatch
  \/ JsonbReject \/ JsonbNoOp \/ JsonbApply \/ JsonbThrow
  \/ \E t \in Table : \E r \in WrittenBy, d \in DirectData : AppWrite(t, r, d)
  \/ \E status \in {"applied", "rejected"}, noOp \in BOOLEAN : AppDecide(status, noOp)
  \/ AppThrow
  \/ Reject \/ Accept \/ Fail
  \/ CommitPush \/ Rollback

DirectStep ==
  \E t \in Table, r \in Record :
    \/ \E d \in DirectData : DirectPut(t, r, d)
    \/ DirectRemove(t, r)
    \/ DirectErase(t, r)
    \/ \E s \in Record : DirectRekey(t, r, s)

Next ==
  \/ \E a \in Request : BeginPush(<<a>>)
  \/ \E a, b \in Request : BeginPush(<<a, b>>)
  \/ PushStep
  \/ DirectStep
  \/ \E t \in Table : Register(t)
  \/ ResetSources \/ ResetProtocol

Spec == Init /\ [][Next]_vars

-----------------------------------------------------------------------------
(***************************************************************************)
(* Properties.                                                             *)
(***************************************************************************)
Outcome ==
  [request : Mutation, status : {"applied", "rejected"}, noOp : BOOLEAN,
   checkpoint : Nat]

Tables ==
  [lastSeq : Nat,
   source  : [Table -> [Record -> SourceRow \cup {Gone}]],
   mirror  : [Table -> [Record -> MirrorRow]],
   changes : SUBSET Change,
   ledger  : Seq(Outcome)]

\* The variables have the types of their columns.
HandlersTypeOK ==
  /\ db \in Tables /\ work \in Tables /\ saved \in Tables
  /\ phase \in {"idle", "loop", "handling", "decided", "failed"}
  /\ todo \in Seq(Mutation)
  /\ decision \in [status : {"none", "applied", "rejected"}, noOp : BOOLEAN]
  /\ registered \subseteq Table /\ resetting \in BOOLEAN
  /\ untracked \subseteq Table \X Record \X {"early", "rekey", "reset"}

\* What is live in the source is live in the mirror, with the same data.
Agrees(t, r) ==
  LET row == db.source[t][r]
      m   == db.mirror[t][r]
      liveRow    == row # Gone /\ ~row.deleted
      liveMirror == m.revision > 0 /\ ~m.deleted
  IN /\ liveRow = liveMirror
     /\ liveRow => m.data = row.data
     /\ row # Gone => m.revision > 0

\* The mirror of a registered table shows its rows after any mixture of pushes,
\* soft and physical deletes and direct SQL.  The exceptions are rows written
\* before the registration, the old identity of a row whose id was changed, and
\* rows that appear in the middle of a reset, until they are written again.
MirrorTracksSource ==
  ~resetting =>
    \A t \in registered, r \in Record :
      (\A why \in {"early", "rekey", "reset"} : <<t, r, why>> \notin untracked)
      => Agrees(t, r)

\* What the client is told and what is in the feed agree: a rejected mutation
\* has left nothing, whatever its handler did before deciding; an applied one
\* has exactly one change, which its answer's checkpoint covers; and what an
\* earlier mutation of the same push did survives the rejection of a later one.
AnswersMatchEffects ==
  \A n \in DOMAIN db.ledger :
    LET effects == {ch \in db.changes : ch.mutation = n}
        answer  == db.ledger[n]
    IN /\ answer.status = "rejected" => effects = {}
       /\ answer.status = "applied" /\ ~answer.noOp =>
            \E ch \in effects : effects = {ch} /\ ch.seq <= answer.checkpoint
       /\ \A ch \in effects : \A k \in 1 .. n - 1 :
            ch.seq > db.ledger[k].checkpoint

\* Savepoints rolled back leave no hole in the checkpoints, and the changes of
\* a record count its revisions up from 1 in feed order, past deletes and
\* resurrections, to the one the mirror shows: a reader that compares revisions
\* never takes an older row for a newer one.
RevisionsNeverRestart ==
  /\ {ch.seq : ch \in db.changes} = 1 .. db.lastSeq
  /\ \A t \in Table, r \in Record :
       LET feed == {ch \in db.changes : ch.table = t /\ ch.record = r}
       IN /\ {ch.revision : ch \in feed} = 1 .. db.mirror[t][r].revision
          /\ \A x, y \in feed : x.seq < y.seq <=> x.revision < y.revision

\* No update is lost and nothing comes back by accident: a mutation that names
\* the revision it edited produces the one after it, and an upsert that follows
\* a tombstone asked for that and named the tombstone.
HandlersHonourBase ==
  \A n \in DOMAIN db.ledger : \A ch \in db.changes :
    LET m == db.ledger[n].request IN
      ch.mutation = n /\ m.table \in Table =>
        /\ m.base # NoBase => ch.revision = m.base + 1
        /\ \A x \in db.changes :
             /\ x.table = ch.table /\ x.record = ch.record
             /\ x.revision + 1 = ch.revision
             /\ x.op = "delete" /\ ch.op = "upsert"
             => m.resurrect /\ m.base = x.revision

\* Sources, mirrors and the mutations that were applied fit together.
HandlersInv == HandlersTypeOK /\ MirrorTracksSource /\ HandlersHonourBase

=============================================================================
