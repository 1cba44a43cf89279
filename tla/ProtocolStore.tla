--------------------------- MODULE ProtocolStore ---------------------------
(***************************************************************************)
(* The protocol tables of the Node/PostgreSQL sync server                  *)
(* (servers/node/src/protocol.ts, ensureProtocolSchema) as one record, and *)
(* the effect of the statements the server runs on them, as operators from *)
(* a store to a store.  A transaction of SyncServer works on a copy of the *)
(* store with these operators.                                             *)
(*                                                                         *)
(* A row that is absent from a table is the row with revision 0: revisions *)
(* of stored rows are positive (CHECK (version > 0)).                      *)
(***************************************************************************)
EXTENDS Integers, FiniteSets

CONSTANTS
  Tenant,         \* tenant_id values
  Subject,        \* authenticated subjects
  ClientId,       \* client_id values
  RecordId,       \* record_id values
  Data,           \* JSON documents
  Merge(_, _),    \* the merge core: stored document, incoming payload
  NoData,         \* SQL NULL in a record column
  Nobody          \* SQL NULL in a subject or client_id column

ASSUME NullAssumption ==
  /\ NoData \notin Data
  /\ Nobody \notin Subject
  /\ Nobody \notin ClientId

ASSUME MergeAssumption == \A a, b \in Data : Merge(a, b) \in Data

(***************************************************************************)
(* Rows.  docs.version and records.revision share the field name revision. *)
(***************************************************************************)
NoBase == -1      \* baseRevision absent or null

Row       == [revision : Nat, data : Data \cup {NoData}, deleted : BOOLEAN]
ClientRow == [subject : Subject \cup {Nobody}, last : Nat]

Mutation ==
  [id : Nat \ {0}, table : {"docs", "other"}, record : RecordId,
   op : {"upsert", "delete"}, base : Nat \cup {NoBase},
   data : Data \cup {NoData}, resurrect : BOOLEAN]

Code == {"NONE", "UNSUPPORTED_TABLE", "NOT_FOUND", "REVISION_CONFLICT",
         "TOMBSTONED", "REVISION_REQUIRED"}

Outcome ==
  [tenant : Tenant, client : ClientId, request : Mutation,
   status : {"applied", "rejected"}, noOp : BOOLEAN, code : Code,
   checkpoint : Nat, revision : Nat]

Source ==
  [client : ClientId \cup {Nobody}, mutation : Nat,
   subject : Subject \cup {Nobody}]

Change ==
  [seq : Nat \ {0}, tenant : Tenant, record : RecordId,
   op : {"upsert", "delete"}, data : Data \cup {NoData},
   revision : Nat \ {0}, source : Source]

Store ==
  [lastSeq : Nat, minSeq : Nat \ {0},
   docs    : [Tenant -> [RecordId -> Row]],
   records : [Tenant -> [RecordId -> Row]],
   clients : [Tenant -> [ClientId -> ClientRow]],
   ledger  : SUBSET Outcome,
   changes : SUBSET Change]

Absent    == [revision |-> 0, data |-> NoData, deleted |-> FALSE]
Unclaimed == [subject |-> Nobody, last |-> 0]

EmptyStore ==
  [lastSeq |-> 0, minSeq |-> 1,
   docs    |-> [t \in Tenant |-> [r \in RecordId |-> Absent]],
   records |-> [t \in Tenant |-> [r \in RecordId |-> Absent]],
   clients |-> [t \in Tenant |-> [c \in ClientId |-> Unclaimed]],
   ledger  |-> {},
   changes |-> {}]

(***************************************************************************)
(* The triggers.  A write of a docs row gets the next version whatever the *)
(* statement says (prepare trigger); the AFTER-ROW capture trigger then    *)
(* takes the next sequence number, bumps the mirror row and appends the    *)
(* change with the attribution of the running transaction.                 *)
(***************************************************************************)
External == [client |-> Nobody, mutation |-> 0, subject |-> Nobody]

\* Slip: the mirror keeps the document of a deleted row.
CaptureKeepsDeletedData(s, t, r, src) ==
  LET row == s.docs[t][r]
      rev == s.records[t][r].revision + 1
  IN [s EXCEPT
        !.lastSeq = @ + 1,
        !.records[t][r] =
          [revision |-> rev, data |-> row.data, deleted |-> row.deleted],
        !.changes = @ \cup
          {[seq |-> s.lastSeq + 1, tenant |-> t, record |-> r,
            op |-> IF row.deleted THEN "delete" ELSE "upsert",
            data |-> row.data, revision |-> rev, source |-> src]}]

CaptureChange(s, t, r, src) ==
  LET row  == s.docs[t][r]
      body == IF row.deleted THEN NoData ELSE row.data
      rev  == s.records[t][r].revision + 1
  IN [s EXCEPT
        !.lastSeq = @ + 1,
        !.records[t][r] =
          [revision |-> rev, data |-> body, deleted |-> row.deleted],
        !.changes = @ \cup
          {[seq |-> s.lastSeq + 1, tenant |-> t, record |-> r,
            op |-> IF row.deleted THEN "delete" ELSE "upsert",
            data |-> body, revision |-> rev, source |-> src]}]

SetDoc(s, t, r, row) == [s EXCEPT !.docs[t][r] = row]

\* Slip: a row that comes back from the dead starts over at version 1.
NextVersionRestarts(row) == IF row.deleted THEN 1 ELSE row.revision + 1

NextVersion(row) == row.revision + 1

WriteDoc(s, t, r, data, deleted, src) ==
  CaptureChange(
    SetDoc(s, t, r, [revision |-> NextVersion(s.docs[t][r]),
                     data |-> data, deleted |-> deleted]),
    t, r, src)

(***************************************************************************)
(* applyMutation.  RejectionCode is the permanent rejection the mutation   *)
(* meets, or "NONE".                                                       *)
(***************************************************************************)
Exists(s, t, m) == s.docs[t][m.record].revision > 0
IsDead(s, t, m) == s.docs[t][m.record].deleted

\* Slip: only a base revision from the future is refused.
StaleIfAhead(s, t, m) ==
  m.base # NoBase /\ m.base > s.docs[t][m.record].revision

Stale(s, t, m) == m.base # NoBase /\ m.base # s.docs[t][m.record].revision

Buried(s, t, m) == m.op = "upsert" /\ IsDead(s, t, m)

\* Slip: resurrect is trusted without the tombstone's revision.
TombstoneNeedNotBeNamed(s, t, m) == FALSE

TombstoneNotNamed(s, t, m) == Buried(s, t, m) /\ m.base = NoBase

RejectionCode(s, t, m) ==
  IF m.table # "docs" THEN "UNSUPPORTED_TABLE"
  ELSE IF ~Exists(s, t, m)
       THEN IF m.op = "delete" \/ Stale(s, t, m) THEN "NOT_FOUND" ELSE "NONE"
  ELSE IF Stale(s, t, m) THEN "REVISION_CONFLICT"
  ELSE IF Buried(s, t, m) /\ ~m.resurrect THEN "TOMBSTONED"
  ELSE IF TombstoneNotNamed(s, t, m) THEN "REVISION_REQUIRED"
  ELSE "NONE"

\* A second delete, under a new mutation id, is acknowledged without effect.
IsNoOp(s, t, m) == m.op = "delete" /\ IsDead(s, t, m)

\* Slip: a resurrection drops the document under the tombstone.
UpsertedDataIfLive(s, t, m) ==
  IF Exists(s, t, m) /\ ~IsDead(s, t, m)
  THEN Merge(s.docs[t][m.record].data, m.data) ELSE m.data

\* The document an accepted upsert stores: an insert takes the payload, an
\* update (of a live row or of a tombstone, which keeps its data) merges it.
UpsertedData(s, t, m) ==
  IF Exists(s, t, m) THEN Merge(s.docs[t][m.record].data, m.data) ELSE m.data

ApplyEffect(s, t, m, src) ==
  IF m.op = "delete"
  THEN WriteDoc(s, t, m.record, s.docs[t][m.record].data, TRUE, src)
  ELSE WriteDoc(s, t, m.record, UpsertedData(s, t, m), FALSE, src)

(***************************************************************************)
(* The mutation ledger.  The stored response names the checkpoint and the  *)
(* revision of the record after the mutation; the request hash is the      *)
(* request itself.                                                         *)
(***************************************************************************)
OutcomeOf(s, t, c, m, status, noOp, code) ==
  [tenant |-> t, client |-> c, request |-> m, status |-> status,
   noOp |-> noOp, code |-> code, checkpoint |-> s.lastSeq,
   revision |-> IF m.table = "docs" THEN s.docs[t][m.record].revision ELSE 0]

Prior(s, t, c, n) ==
  {e \in s.ledger : e.tenant = t /\ e.client = c /\ e.request.id = n}

(***************************************************************************)
(* Compaction removes the changes up to a checkpoint and raises the        *)
(* minimum, which never goes back.                                         *)
(***************************************************************************)
\* Slips: the change at the checkpoint itself survives; the minimum follows the
\* request even when it is lower.
CompactBefore(s, k) ==
  [s EXCEPT !.changes = {ch \in @ : ch.seq >= k},
            !.minSeq  = IF @ > k + 1 THEN @ ELSE k + 1]

CompactMinimumFollows(s, k) ==
  [s EXCEPT !.changes = {ch \in @ : ch.seq > k},
            !.minSeq  = k + 1]

CompactThrough(s, k) ==
  [s EXCEPT !.changes = {ch \in @ : ch.seq > k},
            !.minSeq  = IF @ > k + 1 THEN @ ELSE k + 1]

(***************************************************************************)
(* What the tables of one store must say about each other.                 *)
(***************************************************************************)

\* The retained changes are exactly the sequence numbers from the minimum to
\* the last, one row each: a checkpoint in that range names a unique prefix.
ChangesContiguous(s) ==
  /\ s.minSeq <= s.lastSeq + 1
  /\ {ch.seq : ch \in s.changes} = s.minSeq .. s.lastSeq
  /\ \A x, y \in s.changes : x.seq = y.seq => x = y

\* The mirror that snapshots are read from shows the same row as docs.
MirrorTracksDocs(s) ==
  \A t \in Tenant, r \in RecordId :
    LET row == s.docs[t][r] IN
      s.records[t][r] =
        [row EXCEPT !.data = IF row.deleted THEN NoData ELSE @]

\* An absent row is blank; a stored row has data, deleted or not.
RowsWellFormed(s) ==
  \A t \in Tenant, r \in RecordId :
    IF s.docs[t][r].revision = 0 THEN s.docs[t][r] = Absent
                                 ELSE s.docs[t][r].data \in Data

\* Every mutation id up to the watermark has exactly one ledger row and none
\* above it has one; last[t][c] is the watermark the ledger is held against.
LedgerDense(s, last) ==
  /\ \A t \in Tenant, c \in ClientId :
       \A n \in 1 .. last[t][c] : Prior(s, t, c, n) # {}
  /\ \A e \in s.ledger : e.request.id <= last[e.tenant][e.client]
  /\ \A e, f \in s.ledger :
       e.tenant = f.tenant /\ e.client = f.client /\ e.request.id = f.request.id
       => e = f

\* The watermarks stored in syncer_protocol_clients.
Watermarks(s) == [t \in Tenant |-> [c \in ClientId |-> s.clients[t][c].last]]
=============================================================================
