-------------------------- MODULE SyncServer_proofs --------------------------
(***************************************************************************)
(* Proofs about SyncServer, for every set of tenants, clients, records,    *)
(* documents and batches, in three parts.                                  *)
(*                                                                         *)
(* The tables: the inductive invariant speaks of the committed tables and  *)
(* of the view of the transaction that holds the state row: the first half *)
(* of it is what a rollback falls back to, the second half is what a       *)
(* commit publishes.                                                       *)
(*                                                                         *)
(* Everything ever committed: the tables of a store against a history that *)
(* has all of its changes, compacted or not; the history of the            *)
(* transaction's view is what it would be if it committed now.             *)
(*                                                                         *)
(* The refinement: SyncServer implements AtomicSync.  The state of         *)
(* AtomicSync is what is committed; the invariant says what the running    *)
(* transaction will make of it: direct SQL one entry of the log, a         *)
(* compaction nothing, and a push, after k of its mutations, what          *)
(* AtomicSync makes of the first k mutations of the batch.                 *)
(***************************************************************************)
EXTENDS SyncRefinement, FiniteSetTheorems, WellFoundedInduction, TLAPS

-----------------------------------------------------------------------------
(* The inductive invariant. *)

\* A clientId nobody has claimed has executed nothing.
UnclaimedAtZero(s) ==
  \A t \in Tenant, c \in ClientId :
    s.clients[t][c].subject = Nobody => s.clients[t][c].last = 0

StoreOK(s) ==
  /\ RowsWellFormed(s)
  /\ MirrorTracksDocs(s)
  /\ ChangesContiguous(s)
  /\ UnclaimedAtZero(s)

\* The last mutation id each client has a ledger row for in work: the stored
\* watermark, except for the client whose push is running.
Reached ==
  [t \in Tenant |-> [c \in ClientId |->
     IF holder = "push" /\ t = call.tenant /\ c = call.client
     THEN call.last ELSE db.clients[t][c].last]]

CallOK ==
  holder = "push" =>
    /\ call.tenant \in Tenant
    /\ call.client \in ClientId
    /\ call.subject \in Subject
    /\ \A i \in DOMAIN call.todo :
         (call.todo[i].op = "upsert") = (call.todo[i].data \in Data)
    /\ db.clients[call.tenant][call.client].last <= call.last

\* A transaction only adds to what it started from, and stores no watermark
\* before its end.
Grows(old, new) ==
  /\ old.ledger \subseteq new.ledger
  /\ old.lastSeq <= new.lastSeq
  /\ old.minSeq <= new.minSeq
  /\ \A t \in Tenant, c \in ClientId :
       /\ old.clients[t][c].last = new.clients[t][c].last
       /\ old.clients[t][c].subject # Nobody =>
            new.clients[t][c].subject = old.clients[t][c].subject

Inv ==
  /\ TypeOK
  /\ CallOK
  /\ holder = "none" => work = db
  /\ StoreOK(db)
  /\ StoreOK(work)
  /\ LedgerDense(db, Watermarks(db))
  /\ LedgerDense(work, Reached)
  /\ Grows(db, work)

-----------------------------------------------------------------------------
(* The store operators. *)

LEMMA EmptyStoreOK ==
  /\ EmptyStore \in Store
  /\ StoreOK(EmptyStore)
  /\ LedgerDense(EmptyStore, Watermarks(EmptyStore))
PROOF
<1>1. EmptyStore \in Store
  BY DEF EmptyStore, Store, Absent, Unclaimed, Row, ClientRow
<1>2. RowsWellFormed(EmptyStore) /\ MirrorTracksDocs(EmptyStore)
  BY DEF RowsWellFormed, MirrorTracksDocs, EmptyStore, Absent
<1>3. ChangesContiguous(EmptyStore)
  BY DEF ChangesContiguous, EmptyStore
<1>4. UnclaimedAtZero(EmptyStore)
  BY DEF UnclaimedAtZero, EmptyStore, Unclaimed
<1>5. LedgerDense(EmptyStore, Watermarks(EmptyStore))
  BY DEF LedgerDense, Watermarks, EmptyStore, Unclaimed
<1> QED
  BY <1>1, <1>2, <1>3, <1>4, <1>5 DEF StoreOK

\* One row was written and one change captured.
WroteOne(old, new) ==
  /\ new \in Store /\ StoreOK(new)
  /\ new.ledger = old.ledger /\ new.clients = old.clients
  /\ new.minSeq = old.minSeq /\ new.lastSeq = old.lastSeq + 1

LEMMA IntervalGrows ==
  ASSUME NEW m \in Nat, NEW n \in Nat, m <= n + 1
  PROVE  (m .. n) \cup {n + 1} = m .. (n + 1)
OBVIOUS

\* What the triggers do to the tables when a docs row is written.
LEMMA WriteDocFields ==
  ASSUME NEW s \in Store, NEW t \in Tenant, NEW r \in RecordId,
         NEW data \in Data, NEW deleted \in BOOLEAN, NEW src \in Source,
         NEW w, w = WriteDoc(s, t, r, data, deleted, src)
  PROVE  LET rev == s.records[t][r].revision + 1
             shown == IF deleted THEN NoData ELSE data
         IN /\ w \in Store
            /\ w.ledger = s.ledger
            /\ w.clients = s.clients
            /\ w.minSeq = s.minSeq
            /\ w.lastSeq = s.lastSeq + 1
            /\ w.docs = [s.docs EXCEPT ![t][r] =
                 [revision |-> s.docs[t][r].revision + 1, data |-> data,
                  deleted |-> deleted]]
            /\ w.records = [s.records EXCEPT ![t][r] =
                 [revision |-> rev, data |-> shown, deleted |-> deleted]]
            /\ w.changes = s.changes \cup
                 {[seq |-> s.lastSeq + 1, tenant |-> t, record |-> r,
                   op |-> IF deleted THEN "delete" ELSE "upsert",
                   data |-> shown, revision |-> rev, source |-> src]}
PROOF
<1> DEFINE new == [revision |-> s.docs[t][r].revision + 1, data |-> data,
                   deleted |-> deleted]
           d   == SetDoc(s, t, r, new)
           rev == s.records[t][r].revision + 1
           shown == IF deleted THEN NoData ELSE data
           mirror == [revision |-> rev, data |-> shown, deleted |-> deleted]
           ch  == [seq |-> s.lastSeq + 1, tenant |-> t, record |-> r,
                   op |-> IF deleted THEN "delete" ELSE "upsert",
                   data |-> shown, revision |-> rev, source |-> src]
<1>1. /\ s.docs[t][r] \in Row /\ s.records[t][r] \in Row
      /\ s.docs[t] \in [RecordId -> Row] /\ s.records[t] \in [RecordId -> Row]
      /\ s.lastSeq \in Nat
  BY DEF Store
<1>2. new \in Row /\ mirror \in Row
  BY <1>1 DEF Row
<1>3. ch \in Change
  BY <1>1 DEF Row, Change
<1>4. d = [s EXCEPT !.docs[t][r] = new]
  BY DEF SetDoc
<1>5. w = CaptureChange(d, t, r, src)
  BY DEF WriteDoc, NextVersion
<1>6. /\ new.data = data /\ new.deleted = deleted
      /\ mirror = [revision |-> rev, data |-> shown, deleted |-> deleted]
      /\ ch = [seq |-> s.lastSeq + 1, tenant |-> t, record |-> r,
               op |-> IF deleted THEN "delete" ELSE "upsert",
               data |-> shown, revision |-> rev, source |-> src]
  OBVIOUS
<1> HIDE DEF new, d, mirror, ch
<1>7. /\ d.lastSeq = s.lastSeq /\ d.minSeq = s.minSeq /\ d.records = s.records
      /\ d.clients = s.clients /\ d.ledger = s.ledger /\ d.changes = s.changes
      /\ d.docs = [s.docs EXCEPT ![t][r] = new]
  BY <1>4 DEF Store
<1>8. d \in Store
  BY <1>1, <1>2, <1>4 DEF Store
<1>9. d.docs[t][r] = new
  BY <1>1, <1>7 DEF Store
<1>10. w = [d EXCEPT
              !.lastSeq = d.lastSeq + 1,
              !.records[t][r] = mirror,
              !.changes = d.changes \cup {ch}]
  BY <1>5, <1>6, <1>7, <1>9 DEF CaptureChange
<1>11. /\ w.ledger = d.ledger /\ w.clients = d.clients /\ w.minSeq = d.minSeq
       /\ w.lastSeq = d.lastSeq + 1 /\ w.docs = d.docs
       /\ w.records = [d.records EXCEPT ![t][r] = mirror]
       /\ w.changes = d.changes \cup {ch}
  BY <1>8, <1>10 DEF Store
<1>12. /\ [d.records EXCEPT ![t][r] = mirror] \in [Tenant -> [RecordId -> Row]]
       /\ d.changes \cup {ch} \in SUBSET Change
       /\ d.lastSeq + 1 \in Nat
  BY <1>2, <1>3, <1>8 DEF Store
<1>13. w = [lastSeq |-> w.lastSeq, minSeq |-> w.minSeq, docs |-> w.docs,
            records |-> w.records, clients |-> w.clients, ledger |-> w.ledger,
            changes |-> w.changes]
  BY <1>8, <1>10 DEF Store
<1>14. w \in Store
  BY <1>8, <1>11, <1>12, <1>13 DEF Store
<1>15. /\ w.ledger = s.ledger /\ w.clients = s.clients /\ w.minSeq = s.minSeq
       /\ w.lastSeq = s.lastSeq + 1
       /\ w.docs = [s.docs EXCEPT ![t][r] = new]
       /\ w.records = [s.records EXCEPT ![t][r] = mirror]
       /\ w.changes = s.changes \cup {ch}
  BY <1>7, <1>11
<1> QED
  BY <1>14, <1>15 DEF new, mirror, ch

\* Writing a docs row keeps the tables consistent with each other: the change
\* is appended right after the last one, and mirror and docs move together.
LEMMA WriteDocOK ==
  ASSUME NEW s \in Store, StoreOK(s), NEW t \in Tenant, NEW r \in RecordId,
         NEW data \in Data, NEW deleted \in BOOLEAN, NEW src \in Source
  PROVE  WroteOne(s, WriteDoc(s, t, r, data, deleted, src))
PROOF
<1> DEFINE w   == WriteDoc(s, t, r, data, deleted, src)
           rev == s.records[t][r].revision + 1
           shown == IF deleted THEN NoData ELSE data
           row == [revision |-> s.docs[t][r].revision + 1, data |-> data,
                   deleted |-> deleted]
           mirror == [revision |-> rev, data |-> shown, deleted |-> deleted]
           ch == [seq |-> s.lastSeq + 1, tenant |-> t, record |-> r,
                  op |-> IF deleted THEN "delete" ELSE "upsert",
                  data |-> shown, revision |-> rev, source |-> src]
<1>1. /\ w \in Store
      /\ w.ledger = s.ledger
      /\ w.clients = s.clients
      /\ w.minSeq = s.minSeq
      /\ w.lastSeq = s.lastSeq + 1
      /\ w.docs = [s.docs EXCEPT ![t][r] = row]
      /\ w.records = [s.records EXCEPT ![t][r] = mirror]
      /\ w.changes = s.changes \cup {ch}
  BY WriteDocFields
<1>2. ch.seq = s.lastSeq + 1
  OBVIOUS
<1>3. /\ row.revision = s.docs[t][r].revision + 1
      /\ row.data = data /\ row.deleted = deleted
      /\ mirror.revision = s.records[t][r].revision + 1
      /\ mirror = [revision |-> mirror.revision, data |-> shown, deleted |-> deleted]
      /\ row = [revision |-> row.revision, data |-> data, deleted |-> deleted]
  OBVIOUS
<1> HIDE DEF w, row, mirror, ch
<1>4. /\ s.docs \in [Tenant -> [RecordId -> Row]]
      /\ s.records \in [Tenant -> [RecordId -> Row]]
      /\ s.lastSeq \in Nat /\ s.minSeq \in Nat /\ s.minSeq > 0
      /\ \A x \in s.changes : x.seq \in Nat
  BY DEF Store, Change
<1>5. \A u \in Tenant, q \in RecordId :
        /\ w.docs[u][q] = IF u = t /\ q = r THEN row ELSE s.docs[u][q]
        /\ w.records[u][q] = IF u = t /\ q = r THEN mirror ELSE s.records[u][q]
  BY <1>1, <1>4
<1>6. RowsWellFormed(w)
  <2>1. s.docs[t][r].revision \in Nat
    BY <1>4 DEF Row
  <2>2. row.revision # 0 /\ row.data \in Data
    BY <1>3, <2>1
  <2> QED
    BY <1>5, <2>2 DEF RowsWellFormed, StoreOK
<1>7. MirrorTracksDocs(w)
  <2> SUFFICES ASSUME NEW u \in Tenant, NEW q \in RecordId
               PROVE  w.records[u][q] =
                        [w.docs[u][q] EXCEPT !.data =
                           IF w.docs[u][q].deleted THEN NoData
                           ELSE w.docs[u][q].data]
    BY DEF MirrorTracksDocs
  <2>1. s.records[u][q] =
          [s.docs[u][q] EXCEPT !.data =
             IF s.docs[u][q].deleted THEN NoData ELSE s.docs[u][q].data]
    BY DEF StoreOK, MirrorTracksDocs
  <2>2. CASE u = t /\ q = r
    <3>1. s.records[t][r].revision = s.docs[t][r].revision
      BY <1>4, <2>1, <2>2 DEF Row
    <3>2. mirror = [row EXCEPT !.data = shown]
      BY <1>3, <3>1
    <3> QED
      BY <1>3, <1>5, <2>2, <3>2
  <2>3. CASE ~(u = t /\ q = r)
    BY <1>5, <2>1, <2>3
  <2> QED
    BY <2>2, <2>3
<1>8. ChangesContiguous(w)
  <2>1. /\ s.minSeq <= s.lastSeq + 1
        /\ {x.seq : x \in s.changes} = s.minSeq .. s.lastSeq
        /\ \A x, y \in s.changes : x.seq = y.seq => x = y
    BY DEF StoreOK, ChangesContiguous
  <2>2. {x.seq : x \in w.changes} = s.minSeq .. (s.lastSeq + 1)
    <3>1. {x.seq : x \in w.changes} =
            {x.seq : x \in s.changes} \cup {s.lastSeq + 1}
      BY <1>1, <1>2
    <3>2. (s.minSeq .. s.lastSeq) \cup {s.lastSeq + 1} =
            s.minSeq .. (s.lastSeq + 1)
      BY <1>4, <2>1, IntervalGrows
    <3> QED
      BY <2>1, <3>1, <3>2
  <2>3. \A x \in s.changes : x.seq # ch.seq
    <3>1. \A x \in s.changes : x.seq \in s.minSeq .. s.lastSeq
      BY <2>1
    <3> QED
      BY <1>2, <1>4, <3>1
  <2>4. \A x, y \in w.changes : x.seq = y.seq => x = y
    BY <1>1, <2>1, <2>3
  <2> QED
    BY <1>1, <1>4, <2>1, <2>2, <2>4 DEF ChangesContiguous
<1>9. UnclaimedAtZero(w)
  BY <1>1 DEF UnclaimedAtZero, StoreOK
<1> QED
  BY <1>1, <1>6, <1>7, <1>8, <1>9 DEF StoreOK, WroteOne, w

\* An accepted mutation writes one row, with a document, at a place that
\* exists if the mutation is a delete.
LEMMA ApplyEffectOK ==
  ASSUME NEW s \in Store, StoreOK(s), NEW t \in Tenant, NEW m \in Mutation,
         (m.op = "upsert") = (m.data \in Data),
         RejectionCode(s, t, m) = "NONE", NEW src \in Source
  PROVE  WroteOne(s, ApplyEffect(s, t, m, src))
PROOF
<1>1. m.record \in RecordId /\ m.op \in {"upsert", "delete"}
  BY DEF Mutation
<1>2. s.docs[t][m.record].revision \in Nat
  BY <1>1 DEF Store, Row
<1>3. Exists(s, t, m) => s.docs[t][m.record].data \in Data
  BY <1>1, <1>2 DEF Exists, StoreOK, RowsWellFormed
<1>4. CASE m.op = "delete"
  <2>1. Exists(s, t, m)
    BY <1>4 DEF RejectionCode
  <2>2. s.docs[t][m.record].data \in Data
    BY <1>3, <2>1
  <2>3. ApplyEffect(s, t, m, src) =
          WriteDoc(s, t, m.record, s.docs[t][m.record].data, TRUE, src)
    BY <1>4 DEF ApplyEffect
  <2> QED
    BY <1>1, <2>2, <2>3, WriteDocOK
<1>5. CASE m.op = "upsert"
  <2>1. UpsertedData(s, t, m) \in Data
    BY <1>3, <1>5, MergeAssumption DEF UpsertedData
  <2>2. ApplyEffect(s, t, m, src) =
          WriteDoc(s, t, m.record, UpsertedData(s, t, m), FALSE, src)
    BY <1>5 DEF ApplyEffect
  <2> QED
    BY <1>1, <2>1, <2>2, WriteDocOK
<1> QED
  BY <1>1, <1>4, <1>5

\* Claiming an unclaimed clientId changes its subject and nothing else.
LEMMA ClaimClientOK ==
  ASSUME NEW s \in Store, StoreOK(s), NEW t \in Tenant, NEW c \in ClientId,
         NEW subject \in Subject
  PROVE  LET w == ClaimClient(s, t, c, subject)
         IN /\ w \in Store /\ StoreOK(w) /\ Grows(s, w)
            /\ w.ledger = s.ledger
PROOF
<1> DEFINE w == ClaimClient(s, t, c, subject)
           row == [subject |-> subject, last |-> 0]
<1>1. CASE s.clients[t][c].subject # Nobody
  <2>1. w = s
    BY <1>1 DEF ClaimClient
  <2> QED
    BY <2>1 DEF Grows, Store
<1>2. CASE s.clients[t][c].subject = Nobody
  <2>1. w = [s EXCEPT !.clients[t][c] = row]
    BY <1>2 DEF ClaimClient
  <2>2. row \in ClientRow /\ row.last = 0 /\ row.subject = subject
    BY DEF ClientRow
  <2> HIDE DEF w, row
  <2>3. /\ w.lastSeq = s.lastSeq /\ w.minSeq = s.minSeq /\ w.docs = s.docs
        /\ w.records = s.records /\ w.ledger = s.ledger
        /\ w.changes = s.changes
        /\ w.clients = [s.clients EXCEPT ![t][c] = row]
    BY <2>1 DEF Store
  <2>4. w \in Store
    BY <2>1, <2>2 DEF Store
  <2>5. \A u \in Tenant, d \in ClientId :
          w.clients[u][d] = IF u = t /\ d = c THEN row ELSE s.clients[u][d]
    BY <2>3 DEF Store
  <2>6. s.clients[t][c].last = 0
    BY <1>2 DEF StoreOK, UnclaimedAtZero
  <2>7. UnclaimedAtZero(w)
    BY <2>2, <2>5 DEF UnclaimedAtZero, StoreOK
  <2>8. StoreOK(w)
    BY <2>3, <2>7 DEF StoreOK, RowsWellFormed, MirrorTracksDocs,
                      ChangesContiguous
  <2>9. Grows(s, w)
    BY <1>2, <2>2, <2>3, <2>5, <2>6 DEF Grows, Store
  <2> QED
    BY <2>3, <2>4, <2>8, <2>9 DEF w
<1> QED
  BY <1>1, <1>2

\* Compaction removes a prefix of the feed and leaves the rest gapless.
LEMMA CompactOK ==
  ASSUME NEW s \in Store, StoreOK(s), NEW k \in Nat, k <= s.lastSeq
  PROVE  LET w == CompactThrough(s, k)
         IN /\ w \in Store /\ StoreOK(w) /\ Grows(s, w)
            /\ w.ledger = s.ledger /\ w.clients = s.clients
PROOF
<1> DEFINE w == CompactThrough(s, k)
           floor == IF s.minSeq > k + 1 THEN s.minSeq ELSE k + 1
           kept == {ch \in s.changes : ch.seq > k}
<1>1. w = [s EXCEPT !.changes = kept, !.minSeq = floor]
  BY DEF CompactThrough
<1>2. /\ s.lastSeq \in Nat /\ s.minSeq \in Nat \ {0}
      /\ \A x \in s.changes : x.seq \in Nat
      /\ s.minSeq <= s.lastSeq + 1
      /\ {x.seq : x \in s.changes} = s.minSeq .. s.lastSeq
      /\ \A x, y \in s.changes : x.seq = y.seq => x = y
  BY DEF Store, Change, StoreOK, ChangesContiguous
<1>3. floor \in Nat \ {0} /\ s.minSeq <= floor /\ floor <= s.lastSeq + 1
  BY <1>2
<1>4. {x.seq : x \in kept} = floor .. s.lastSeq
  <2>1. \A x \in kept : x.seq \in floor .. s.lastSeq
    BY <1>2
  <2>2. ASSUME NEW n \in floor .. s.lastSeq
        PROVE  \E x \in kept : x.seq = n
    <3>1. n \in s.minSeq .. s.lastSeq /\ n > k
      BY <1>2, <1>3
    <3>2. PICK x \in s.changes : x.seq = n
      BY <1>2, <3>1
    <3> QED
      BY <3>1, <3>2
  <2> HIDE DEF kept, floor
  <2> QED
    BY <2>1, <2>2
<1>5. kept \subseteq s.changes
  OBVIOUS
<1> HIDE DEF w, floor, kept
<1>6. /\ w.lastSeq = s.lastSeq /\ w.minSeq = floor /\ w.docs = s.docs
      /\ w.records = s.records /\ w.ledger = s.ledger
      /\ w.changes = kept /\ w.clients = s.clients
  BY <1>1 DEF Store
<1>7. w \in Store
  BY <1>1, <1>3, <1>5 DEF Store
<1>8. ChangesContiguous(w)
  BY <1>2, <1>3, <1>4, <1>5, <1>6 DEF ChangesContiguous
<1>9. StoreOK(w)
  BY <1>6, <1>8 DEF StoreOK, RowsWellFormed, MirrorTracksDocs, UnclaimedAtZero
<1>10. Grows(s, w)
  BY <1>2, <1>3, <1>6 DEF Grows
<1> QED
  BY <1>6, <1>7, <1>9, <1>10 DEF w

\* The ledger row of the next mutation id extends a dense ledger.
LEMMA LedgerExtends ==
  ASSUME NEW s, NEW w, NEW last, NEW t \in Tenant, NEW c \in ClientId, NEW e,
         s.ledger \subseteq Outcome, e \in Outcome,
         last \in [Tenant -> [ClientId -> Nat]],
         LedgerDense(s, last),
         e.tenant = t, e.client = c, e.request.id = last[t][c] + 1,
         w.ledger = s.ledger \cup {e}
  PROVE  LedgerDense(w, [last EXCEPT ![t][c] = e.request.id])
PROOF
<1> DEFINE next == [last EXCEPT ![t][c] = e.request.id]
<1>1. \A u \in Tenant, d \in ClientId :
        next[u][d] = IF u = t /\ d = c THEN last[t][c] + 1 ELSE last[u][d]
  OBVIOUS
<1>2. \A x \in s.ledger :
        x.tenant \in Tenant /\ x.client \in ClientId /\ x.request.id \in Nat
  BY DEF Outcome, Mutation
<1>3. /\ \A u \in Tenant, d \in ClientId : \A n \in 1 .. last[u][d] :
           \E x \in s.ledger : x.tenant = u /\ x.client = d /\ x.request.id = n
      /\ \A x \in s.ledger : x.request.id <= last[x.tenant][x.client]
      /\ \A x, y \in s.ledger :
           x.tenant = y.tenant /\ x.client = y.client /\ x.request.id = y.request.id
           => x = y
  BY DEF LedgerDense, Prior
<1> HIDE DEF next
<1>4. ASSUME NEW u \in Tenant, NEW d \in ClientId, NEW n \in 1 .. next[u][d]
      PROVE  Prior(w, u, d, n) # {}
  <2>1. CASE u = t /\ d = c /\ n = last[t][c] + 1
    <3>1. e \in Prior(w, u, d, n)
      BY <2>1 DEF Prior
    <3> QED
      BY <3>1
  <2>2. CASE ~(u = t /\ d = c /\ n = last[t][c] + 1)
    <3>1. last[u][d] \in Nat /\ last[t][c] \in Nat
      OBVIOUS
    <3>a. n \in 1 .. last[u][d]
      BY <1>1, <2>2, <3>1
    <3>2. PICK x \in s.ledger : x.tenant = u /\ x.client = d /\ x.request.id = n
      BY <1>3, <3>a
    <3>3. x \in Prior(w, u, d, n)
      BY <3>2 DEF Prior
    <3> QED
      BY <3>3
  <2> QED
    BY <2>1, <2>2
<1>5. \A x \in w.ledger : x.request.id <= next[x.tenant][x.client]
  BY <1>1, <1>2, <1>3
<1>6. ASSUME NEW x \in w.ledger, NEW y \in w.ledger, x.tenant = y.tenant,
             x.client = y.client, x.request.id = y.request.id
      PROVE  x = y
  BY <1>2, <1>3, <1>6
<1> QED
  BY <1>4, <1>5, <1>6 DEF LedgerDense, next

-----------------------------------------------------------------------------
(* The steps of a transaction. *)

LEMMA NobodyHolds ==
  ASSUME holder # "push", db \in Store
  PROVE  Reached = Watermarks(db)
BY DEF Reached, Watermarks

LEMMA GrowsReflexive ==
  ASSUME NEW s \in Store
  PROVE  Grows(s, s)
BY DEF Grows, Store

LEMMA NoCallTyped == NoCall \in Call
PROOF
<1>1. <<>> \in Seq(Mutation) /\ <<>> \in Seq(Result)
  OBVIOUS
<1> QED
  BY <1>1 DEF NoCall, Call

\* Committing consistent tables, with every watermark stored, re-establishes
\* the invariant.
LEMMA CommitKeepsInv ==
  ASSUME Inv, NEW s, s \in Store, StoreOK(s), LedgerDense(s, Watermarks(s)),
         Commit(s)
  PROVE  Inv'
PROOF
<1>1. db' = s /\ work' = s /\ holder' = "none" /\ call' = NoCall
  BY DEF Commit
<1>2. history' \in SUBSET Change
  BY DEF Commit, Inv, TypeOK, Store
<1>3. TypeOK'
  BY <1>1, <1>2, NoCallTyped DEF TypeOK
<1>4. CallOK'
  BY <1>1 DEF CallOK
<1>5. Reached' = Watermarks(s)
  BY <1>1 DEF Reached, Watermarks
<1>6. Watermarks(db)' = Watermarks(s)
  BY <1>1 DEF Watermarks
<1>7. LedgerDense(db, Watermarks(db))' /\ LedgerDense(work, Reached)'
  BY <1>1, <1>5, <1>6 DEF LedgerDense, Prior
<1>8. StoreOK(db)' /\ StoreOK(work)'
  BY <1>1 DEF StoreOK, RowsWellFormed, MirrorTracksDocs, ChangesContiguous,
              UnclaimedAtZero
<1>9. Grows(db, work)'
  BY <1>1, GrowsReflexive DEF Grows
<1> QED
  BY <1>1, <1>3, <1>4, <1>7, <1>8, <1>9 DEF Inv

LEMMA RollbackKeepsInv ==
  ASSUME Inv, Rollback
  PROVE  Inv'
PROOF
<1>1. db' = db /\ work' = db /\ holder' = "none" /\ call' = NoCall
      /\ history' = history
  BY DEF Rollback
<1>2. TypeOK'
  BY <1>1, NoCallTyped DEF TypeOK, Inv
<1>3. CallOK'
  BY <1>1 DEF CallOK
<1>4. Reached' = Watermarks(db) /\ Watermarks(db)' = Watermarks(db)
  BY <1>1 DEF Reached, Watermarks
<1>5. LedgerDense(db, Watermarks(db))' /\ LedgerDense(work, Reached)'
  BY <1>1, <1>4 DEF LedgerDense, Prior, Inv
<1>6. StoreOK(db)' /\ StoreOK(work)'
  BY <1>1 DEF StoreOK, RowsWellFormed, MirrorTracksDocs, ChangesContiguous,
              UnclaimedAtZero, Inv
<1>7. Grows(db, work)'
  BY <1>1, GrowsReflexive DEF Grows, Inv, TypeOK
<1> QED
  BY <1>1, <1>2, <1>3, <1>5, <1>6, <1>7 DEF Inv

\* The first statements of a direct write or a compaction.
LEMMA AdminBeginKeepsInv ==
  ASSUME Inv, NEW s, s \in Store, StoreOK(s), s.ledger = db.ledger,
         Grows(db, s), holder = "none", holder' \in {"external", "compact"},
         work' = s, UNCHANGED <<db, call, history>>
  PROVE  Inv'
PROOF
<1>1. TypeOK'
  BY DEF TypeOK, Inv
<1>2. CallOK' /\ (holder = "none" => work = db)'
  BY DEF CallOK
<1>3. Reached' = Watermarks(db) /\ Watermarks(db)' = Watermarks(db)
  BY DEF Reached, Watermarks
<1>4. LedgerDense(db, Watermarks(db))' /\ LedgerDense(work, Reached)'
  BY <1>3 DEF LedgerDense, Prior, Inv
<1>5. StoreOK(db)' /\ StoreOK(work)'
  BY DEF StoreOK, RowsWellFormed, MirrorTracksDocs, ChangesContiguous,
         UnclaimedAtZero, Inv
<1>6. Grows(db, work)'
  BY DEF Grows
<1> QED
  BY <1>1, <1>2, <1>4, <1>5, <1>6 DEF Inv

LEMMA BeginPushKeepsInv ==
  ASSUME Inv, NEW id \in Identity, NEW c \in ClientId, NEW b \in Seq(Mutation),
         \A i \in DOMAIN b : (b[i].op = "upsert") = (b[i].data \in Data),
         BeginPush(id, c, b)
  PROVE  Inv'
PROOF
<1> DEFINE t == id.tenant
           n == db.clients[t][c].last
<1>1. /\ holder = "none" /\ holder' = "push"
      /\ work' = ClaimClient(db, t, c, id.subject)
      /\ call' = [tenant |-> t, client |-> c, subject |-> id.subject,
                  todo |-> b, last |-> n, results |-> <<>>]
      /\ db' = db /\ history' = history
  BY DEF BeginPush
<1>2. t \in Tenant /\ id.subject \in Subject
  BY IdentityAssumption
<1>3. db \in Store /\ StoreOK(db) /\ n \in Nat
  BY <1>2 DEF Inv, TypeOK, Store, ClientRow
<1>4. b \in Seq(Mutation)
      /\ \A i \in DOMAIN b : (b[i].op = "upsert") = (b[i].data \in Data)
  OBVIOUS
<1>5. /\ work' \in Store /\ StoreOK(work') /\ Grows(db, work')
      /\ work'.ledger = db.ledger
  BY <1>1, <1>2, <1>3, ClaimClientOK
<1> HIDE DEF n, t
<1>6. call' \in Call
  <2>1. <<>> \in Seq(Result)
    OBVIOUS
  <2> QED
    BY <1>1, <1>2, <1>3, <1>4, <2>1 DEF Call
<1>7. TypeOK'
  BY <1>1, <1>5, <1>6 DEF TypeOK, Inv
<1>8. CallOK'
  BY <1>1, <1>2, <1>3, <1>4 DEF CallOK, n
<1>9. Reached' = Watermarks(db) /\ Watermarks(db)' = Watermarks(db)
  BY <1>1 DEF Reached, Watermarks, n
<1>10. LedgerDense(db, Watermarks(db))' /\ LedgerDense(work, Reached)'
  BY <1>1, <1>5, <1>9 DEF LedgerDense, Prior, Inv
<1>11. StoreOK(db)' /\ StoreOK(work)'
  BY <1>1, <1>3, <1>5 DEF StoreOK, RowsWellFormed, MirrorTracksDocs,
                          ChangesContiguous, UnclaimedAtZero
<1>12. Grows(db, work)'
  BY <1>1, <1>5 DEF Grows
<1> QED
  BY <1>1, <1>7, <1>8, <1>10, <1>11, <1>12 DEF Inv

\* The mutation at the head of the batch, and what is known of the call.
LEMMA CurrentTyped ==
  ASSUME Inv, Pushing, call.todo # <<>>
  PROVE  /\ Current \in Mutation
         /\ (Current.op = "upsert") = (Current.data \in Data)
         /\ Tail(call.todo) \in Seq(Mutation)
         /\ \A i \in DOMAIN Tail(call.todo) :
              (Tail(call.todo)[i].op = "upsert") = (Tail(call.todo)[i].data \in Data)
         /\ call.tenant \in Tenant /\ call.client \in ClientId
         /\ call.subject \in Subject /\ call.last \in Nat
         /\ call.results \in Seq(Result)
         /\ db.clients[call.tenant][call.client].last <= call.last
PROOF
<1>1. /\ call.todo \in Seq(Mutation) /\ call.last \in Nat
      /\ call.results \in Seq(Result) /\ holder = "push"
  BY DEF Inv, TypeOK, Call, Pushing
<1>2. /\ call.tenant \in Tenant /\ call.client \in ClientId
      /\ call.subject \in Subject
      /\ \A i \in DOMAIN call.todo :
           (call.todo[i].op = "upsert") = (call.todo[i].data \in Data)
      /\ db.clients[call.tenant][call.client].last <= call.last
  BY <1>1 DEF Inv, CallOK
<1>3. 1 \in DOMAIN call.todo /\ Current = call.todo[1] /\ Current \in Mutation
  BY <1>1 DEF Current
<1>4. /\ Tail(call.todo) \in Seq(Mutation)
      /\ \A i \in DOMAIN Tail(call.todo) :
           i + 1 \in DOMAIN call.todo /\ Tail(call.todo)[i] = call.todo[i + 1]
  BY <1>1
<1> QED
  BY <1>1, <1>2, <1>3, <1>4

\* A replayed mutation only moves the call along.
LEMMA ReplayKeepsInv ==
  ASSUME Inv, ReplayDuplicate
  PROVE  Inv'
PROOF
<1>1. /\ Pushing /\ call.todo # <<>> /\ holder = "push"
      /\ db' = db /\ holder' = holder /\ work' = work /\ history' = history
  BY DEF ReplayDuplicate, Pushing
<1>2. PICK e \in Prior(work, call.tenant, call.client, Current.id) :
        call' = [call EXCEPT
                   !.todo = Tail(@),
                   !.results = Append(@, [outcome |-> e, duplicate |-> TRUE])]
  BY DEF ReplayDuplicate
<1>3. e \in Outcome /\ call \in Call
  BY DEF Prior, Inv, TypeOK, Store
<1>4. [outcome |-> e, duplicate |-> TRUE] \in Result
  BY <1>3 DEF Result
<1>5. /\ call'.tenant = call.tenant /\ call'.client = call.client
      /\ call'.subject = call.subject /\ call'.last = call.last
      /\ call'.todo = Tail(call.todo)
  BY <1>2, <1>3 DEF Call
<1>6. call' \in Call
  <2>1. Append(call.results, [outcome |-> e, duplicate |-> TRUE]) \in Seq(Result)
    BY <1>1, <1>4, CurrentTyped
  <2>2. Tail(call.todo) \in Seq(Mutation)
    BY <1>1, CurrentTyped
  <2> QED
    BY <1>2, <1>3, <2>1, <2>2 DEF Call
<1>7. TypeOK'
  BY <1>1, <1>6 DEF TypeOK, Inv
<1>8. CallOK'
  BY <1>1, <1>5, CurrentTyped DEF CallOK
<1>9. Reached' = Reached /\ Watermarks(db)' = Watermarks(db)
  BY <1>1, <1>5 DEF Reached, Watermarks
<1>10. LedgerDense(db, Watermarks(db))' /\ LedgerDense(work, Reached)'
  BY <1>1, <1>9 DEF LedgerDense, Prior, Inv
<1>11. StoreOK(db)' /\ StoreOK(work)' /\ Grows(db, work)'
  BY <1>1 DEF StoreOK, RowsWellFormed, MirrorTracksDocs, ChangesContiguous,
              UnclaimedAtZero, Grows, Inv
<1> QED
  BY <1>1, <1>7, <1>8, <1>10, <1>11 DEF Inv

\* Executing the next mutation: whatever tables s the effect left, the outcome
\* is recorded and the call moves on to the next id.
LEMMA SettleKeepsInv ==
  ASSUME Inv, Executing, NEW s \in Store, StoreOK(s),
         s.ledger = work.ledger, s.clients = work.clients,
         s.minSeq = work.minSeq, work.lastSeq <= s.lastSeq,
         NEW status \in {"applied", "rejected"}, NEW noOp \in BOOLEAN,
         NEW code \in Code, Settle(s, status, noOp, code)
  PROVE  Inv'
PROOF
<1> DEFINE t == call.tenant
           c == call.client
           e == OutcomeOf(s, t, c, Current, status, noOp, code)
           w == Record(s, e)
<1>1. /\ Pushing /\ call.todo # <<>> /\ Current.id = call.last + 1
      /\ holder = "push" /\ call \in Call
  BY DEF Executing, IsNext, Pushing, Inv, TypeOK
<1>2. /\ work' = w
      /\ call' = [call EXCEPT
                    !.todo = Tail(@), !.last = Current.id,
                    !.results = Append(@, [outcome |-> e, duplicate |-> FALSE])]
      /\ db' = db /\ holder' = holder /\ history' = history
  BY DEF Settle
<1>3. /\ Current \in Mutation /\ t \in Tenant /\ c \in ClientId
      /\ Tail(call.todo) \in Seq(Mutation) /\ call.last \in Nat
      /\ call.results \in Seq(Result)
      /\ db.clients[t][c].last <= call.last
  BY <1>1, CurrentTyped
<1>4. e \in Outcome
  <2>1. s.lastSeq \in Nat
    BY DEF Store
  <2>2. (IF Current.table = "docs" THEN s.docs[t][Current.record].revision ELSE 0)
          \in Nat
    BY <1>3 DEF Mutation, Store, Row
  <2> QED
    BY <1>3, <2>1, <2>2 DEF OutcomeOf, Outcome
<1>5. e.tenant = t /\ e.client = c /\ e.request = Current
  BY DEF OutcomeOf
<1> HIDE DEF e, w
<1>6. /\ w.lastSeq = s.lastSeq /\ w.minSeq = s.minSeq /\ w.docs = s.docs
      /\ w.records = s.records /\ w.clients = s.clients
      /\ w.changes = s.changes /\ w.ledger = work.ledger \cup {e}
  BY DEF w, Record, Store
<1>7. w \in Store
  BY <1>4 DEF w, Record, Store
<1>8. StoreOK(work)'
  BY <1>2, <1>6 DEF StoreOK, RowsWellFormed, MirrorTracksDocs,
                    ChangesContiguous, UnclaimedAtZero
<1>9. StoreOK(db)'
  BY <1>2 DEF StoreOK, RowsWellFormed, MirrorTracksDocs, ChangesContiguous,
              UnclaimedAtZero, Inv
<1>10. Grows(db, work)'
  <2>1. Grows(db, work)
    BY DEF Inv
  <2>2. db.lastSeq \in Nat /\ work.lastSeq \in Nat /\ s.lastSeq \in Nat
    BY DEF Inv, TypeOK, Store
  <2>3. db.lastSeq <= s.lastSeq
    BY <2>1, <2>2 DEF Grows
  <2> QED
    BY <1>2, <1>6, <2>1, <2>3 DEF Grows
<1>11. call' \in Call
  <2>1. [outcome |-> e, duplicate |-> FALSE] \in Result
    BY <1>4 DEF Result
  <2>2. Append(call.results, [outcome |-> e, duplicate |-> FALSE]) \in Seq(Result)
    BY <1>3, <2>1
  <2>3. Current.id \in Nat
    BY <1>1, <1>3
  <2> QED
    BY <1>1, <1>2, <1>3, <2>2, <2>3 DEF Call
<1>12. TypeOK'
  BY <1>2, <1>7, <1>11 DEF TypeOK, Inv
<1>13. /\ call'.tenant = t /\ call'.client = c /\ call'.subject = call.subject
       /\ call'.last = Current.id /\ call'.todo = Tail(call.todo)
  BY <1>1, <1>2 DEF Call
<1>14. CallOK'
  <2>1. db.clients[t][c].last \in Nat
    BY <1>3 DEF Inv, TypeOK, Store, ClientRow
  <2>2. db.clients[t][c].last <= Current.id
    BY <1>1, <1>3, <2>1
  <2> QED
    BY <1>1, <1>2, <1>3, <1>13, <2>2, CurrentTyped DEF CallOK
<1>15. LedgerDense(db, Watermarks(db))'
  <2>1. Watermarks(db)' = Watermarks(db)
    BY <1>2 DEF Watermarks
  <2> QED
    BY <1>2, <2>1 DEF LedgerDense, Prior, Inv
<1>16. LedgerDense(work, Reached)'
  <2>1. Reached \in [Tenant -> [ClientId -> Nat]]
    BY <1>1, <1>3 DEF Reached, Inv, TypeOK, Store, ClientRow
  <2>2. Reached[t][c] = call.last
    BY <1>1, <1>3 DEF Reached
  <2>3. Reached' = [Reached EXCEPT ![t][c] = e.request.id]
    <3>1. Reached' = [u \in Tenant |-> [d \in ClientId |->
                        IF u = t /\ d = c THEN Current.id
                        ELSE db.clients[u][d].last]]
      BY <1>1, <1>2, <1>13 DEF Reached
    <3>2. Reached = [u \in Tenant |-> [d \in ClientId |->
                        IF u = t /\ d = c THEN call.last
                        ELSE db.clients[u][d].last]]
      BY <1>1 DEF Reached
    <3> QED
      BY <1>3, <1>5, <3>1, <3>2
  <2>4. work.ledger \subseteq Outcome /\ LedgerDense(work, Reached)
    BY DEF Inv, TypeOK, Store
  <2>5. LedgerDense(w, [Reached EXCEPT ![t][c] = e.request.id])
    BY <1>1, <1>3, <1>4, <1>5, <1>6, <2>1, <2>2, <2>4, LedgerExtends
  <2> QED
    BY <1>2, <2>3, <2>5 DEF LedgerDense, Prior
<1> QED
  BY <1>1, <1>2, <1>8, <1>9, <1>10, <1>12, <1>14, <1>15, <1>16 DEF Inv

LEMMA PushStepKeepsInv ==
  ASSUME Inv, RejectMutation \/ AcknowledgeNoOp \/ ApplyMutation
  PROVE  Inv'
PROOF
<1>1. /\ Executing /\ Pushing /\ call.todo # <<>>
      /\ work \in Store /\ StoreOK(work) /\ work.lastSeq \in Nat
  BY DEF RejectMutation, AcknowledgeNoOp, ApplyMutation, Executing, Inv, TypeOK,
         Store
<1>2. /\ Current \in Mutation /\ call.tenant \in Tenant
      /\ (Current.op = "upsert") = (Current.data \in Data)
      /\ call.client \in ClientId /\ call.subject \in Subject
  BY <1>1, CurrentTyped
<1>3. CASE RejectMutation
  <2>1. RejectionCode(work, call.tenant, Current) \in Code
    BY DEF RejectionCode, Code
  <2>2. Settle(work, "rejected", FALSE,
               RejectionCode(work, call.tenant, Current))
    BY <1>3 DEF RejectMutation
  <2>3. work.lastSeq <= work.lastSeq
    BY <1>1
  <2> QED
    BY <1>1, <2>1, <2>2, <2>3, SettleKeepsInv
<1>4. CASE AcknowledgeNoOp
  <2>1. Settle(work, "applied", TRUE, "NONE") /\ "NONE" \in Code
    BY <1>4 DEF AcknowledgeNoOp, Code
  <2>2. work.lastSeq <= work.lastSeq
    BY <1>1
  <2> QED
    BY <1>1, <2>1, <2>2, SettleKeepsInv
<1>5. CASE ApplyMutation
  <2> DEFINE s == ApplyEffect(work, call.tenant, Current, PushSource)
  <2>1. Settle(s, "applied", FALSE, "NONE") /\ "NONE" \in Code
    BY <1>5 DEF ApplyMutation, Code
  <2>2. PushSource \in Source
    BY <1>2 DEF PushSource, Source, Mutation
  <2>3. RejectionCode(work, call.tenant, Current) = "NONE"
    BY <1>5 DEF ApplyMutation
  <2>4. WroteOne(work, s)
    BY <1>1, <1>2, <2>2, <2>3, ApplyEffectOK
  <2> HIDE DEF s
  <2>5. /\ s \in Store /\ StoreOK(s) /\ s.ledger = work.ledger
        /\ s.clients = work.clients /\ s.minSeq = work.minSeq
        /\ work.lastSeq <= s.lastSeq
    BY <1>1, <2>4 DEF WroteOne
  <2> QED
    BY <1>1, <2>1, <2>5, SettleKeepsInv
<1> QED
  BY <1>3, <1>4, <1>5

LEMMA CommitPushKeepsInv ==
  ASSUME Inv, CommitPush
  PROVE  Inv'
PROOF
<1> DEFINE t == call.tenant
           c == call.client
           w == StoreWatermark(work)
<1>1. /\ Commit(w) /\ holder = "push"
      /\ work.clients[t][c].subject = call.subject
  BY DEF CommitPush, Pushing, OwnsClient
<1>2. /\ t \in Tenant /\ c \in ClientId /\ call.subject \in Subject
      /\ call.last \in Nat /\ work \in Store /\ StoreOK(work)
  BY <1>1 DEF Inv, CallOK, TypeOK, Call
<1> HIDE DEF w
<1>3. w = [work EXCEPT !.clients[t][c].last = call.last]
  BY DEF w, StoreWatermark
<1>4. /\ w.lastSeq = work.lastSeq /\ w.minSeq = work.minSeq
      /\ w.docs = work.docs /\ w.records = work.records
      /\ w.ledger = work.ledger /\ w.changes = work.changes
      /\ w.clients = [work.clients EXCEPT ![t][c].last = call.last]
      /\ w = [lastSeq |-> w.lastSeq, minSeq |-> w.minSeq, docs |-> w.docs,
              records |-> w.records, clients |-> w.clients,
              ledger |-> w.ledger, changes |-> w.changes]
  BY <1>2, <1>3 DEF Store
<1>5. /\ w.clients \in [Tenant -> [ClientId -> ClientRow]]
      /\ \A u \in Tenant, d \in ClientId :
           /\ w.clients[u][d].subject = work.clients[u][d].subject
           /\ w.clients[u][d].last = IF u = t /\ d = c THEN call.last
                                     ELSE work.clients[u][d].last
  <2> DEFINE row == [work.clients[t][c] EXCEPT !.last = call.last]
  <2>1. /\ work.clients \in [Tenant -> [ClientId -> ClientRow]]
        /\ work.clients[t][c] \in ClientRow
    BY <1>2 DEF Store
  <2>2. /\ row \in ClientRow /\ row.last = call.last
        /\ row.subject = work.clients[t][c].subject
    BY <1>2, <2>1 DEF ClientRow
  <2>3. w.clients = [work.clients EXCEPT ![t][c] = row]
    BY <1>4
  <2> HIDE DEF row
  <2>4. w.clients \in [Tenant -> [ClientId -> ClientRow]]
    BY <1>2, <2>1, <2>2, <2>3
  <2>5. \A u \in Tenant, d \in ClientId :
          w.clients[u][d] = IF u = t /\ d = c THEN row ELSE work.clients[u][d]
    BY <2>1, <2>3
  <2> QED
    BY <2>2, <2>4, <2>5
<1>6. w \in Store
  BY <1>2, <1>4, <1>5 DEF Store
<1>7. UnclaimedAtZero(w)
  BY <1>1, <1>2, <1>5, NullAssumption DEF UnclaimedAtZero, StoreOK
<1>8. StoreOK(w)
  BY <1>2, <1>4, <1>7 DEF StoreOK, RowsWellFormed, MirrorTracksDocs,
                          ChangesContiguous
<1>9. Watermarks(w) = Reached
  <2>1. \A u \in Tenant, d \in ClientId :
          work.clients[u][d].last = db.clients[u][d].last
    BY DEF Inv, Grows
  <2> QED
    BY <1>1, <1>5, <2>1 DEF Watermarks, Reached
<1>10. LedgerDense(w, Watermarks(w))
  BY <1>4, <1>9 DEF LedgerDense, Prior, Inv
<1> QED
  BY <1>1, <1>6, <1>8, <1>10, CommitKeepsInv

LEMMA CommitAdminKeepsInv ==
  ASSUME Inv, CommitAdmin
  PROVE  Inv'
PROOF
<1>1. Commit(work) /\ holder # "push"
  BY DEF CommitAdmin
<1>2. work \in Store /\ StoreOK(work)
  BY DEF Inv, TypeOK
<1>3. Reached = Watermarks(work)
  BY <1>1 DEF Reached, Watermarks, Inv, Grows
<1>4. LedgerDense(work, Watermarks(work))
  BY <1>3 DEF Inv
<1> QED
  BY <1>1, <1>2, <1>4, CommitKeepsInv

-----------------------------------------------------------------------------
(* The theorems. *)

LEMMA InitInv == Init => Inv
PROOF
<1> SUFFICES ASSUME Init PROVE Inv
  OBVIOUS
<1>1. db = EmptyStore /\ work = EmptyStore /\ holder = "none" /\ call = NoCall
      /\ history = {}
  BY DEF Init
<1>2. TypeOK
  BY <1>1, EmptyStoreOK, NoCallTyped DEF TypeOK
<1>3. CallOK /\ Reached = Watermarks(db)
  BY <1>1 DEF CallOK, Reached, Watermarks
<1>4. Grows(db, work)
  BY <1>1, EmptyStoreOK, GrowsReflexive
<1> QED
  BY <1>1, <1>2, <1>3, <1>4, EmptyStoreOK DEF Inv

LEMMA AdminKeepsInv ==
  ASSUME Inv,
         \/ \E t \in Tenant, r \in RecordId, d \in ExternalData :
              ExternalUpsert(t, r, d)
         \/ \E t \in Tenant, r \in RecordId : ExternalDelete(t, r)
         \/ \E through \in 0 .. MaxCompact : BeginCompact(through)
  PROVE  Inv'
PROOF
<1>1. db \in Store /\ StoreOK(db) /\ db.lastSeq \in Nat
  BY DEF Inv, TypeOK, Store
<1>2. External \in Source
  BY DEF External, Source
<1>3. ASSUME NEW s, WroteOne(db, s), BeginExternal(s)
      PROVE  Inv'
  <2>1. Grows(db, s)
    BY <1>1, <1>3 DEF WroteOne, Grows, Store
  <2> QED
    BY <1>3, <2>1, AdminBeginKeepsInv DEF WroteOne, BeginExternal
<1>4. ASSUME NEW t \in Tenant, NEW r \in RecordId, NEW d \in ExternalData,
             ExternalUpsert(t, r, d)
      PROVE  Inv'
  <2>1. d \in Data
    BY ExternalAssumption
  <2>2. WroteOne(db, WriteDoc(db, t, r, d, FALSE, External))
    BY <1>1, <1>2, <2>1, WriteDocOK
  <2> QED
    BY <1>3, <1>4, <2>2 DEF ExternalUpsert
<1>5. ASSUME NEW t \in Tenant, NEW r \in RecordId, ExternalDelete(t, r)
      PROVE  Inv'
  <2>1. db.docs[t][r].revision \in Nat /\ db.docs[t][r].revision > 0
    BY <1>1, <1>5 DEF ExternalDelete, Store, Row
  <2>2. db.docs[t][r].data \in Data
    BY <1>1, <2>1 DEF StoreOK, RowsWellFormed
  <2>3. WroteOne(db, WriteDoc(db, t, r, db.docs[t][r].data, TRUE, External))
    BY <1>1, <1>2, <2>2, WriteDocOK
  <2> QED
    BY <1>3, <1>5, <2>3 DEF ExternalDelete
<1>6. ASSUME NEW through \in 0 .. MaxCompact, BeginCompact(through)
      PROVE  Inv'
  <2>1. through \in Nat
    BY BoundAssumption
  <2>2. /\ through <= db.lastSeq /\ holder = "none" /\ holder' = "compact"
        /\ work' = CompactThrough(db, through) /\ UNCHANGED <<db, call, history>>
    BY <1>6 DEF BeginCompact
  <2>3. LET s == CompactThrough(db, through)
        IN s \in Store /\ StoreOK(s) /\ s.ledger = db.ledger /\ Grows(db, s)
    BY <1>1, <2>1, <2>2, CompactOK
  <2> QED
    BY <2>2, <2>3, AdminBeginKeepsInv
<1> QED
  BY <1>4, <1>5, <1>6

LEMMA NextKeepsInv == Inv /\ [Next]_vars => Inv'
PROOF
<1> SUFFICES ASSUME Inv, [Next]_vars PROVE Inv'
  OBVIOUS
<1>1. CASE \E id \in Identity, c \in ClientId, b \in Batch : BeginPush(id, c, b)
  BY <1>1, BatchAssumption, BeginPushKeepsInv
<1>2. CASE PushStep
  BY <1>2, ReplayKeepsInv, PushStepKeepsInv DEF PushStep
<1>3. CASE CommitPush
  BY <1>3, CommitPushKeepsInv
<1>4. CASE \E t \in Tenant, r \in RecordId, d \in ExternalData :
             ExternalUpsert(t, r, d)
  BY <1>4, AdminKeepsInv
<1>5. CASE \E t \in Tenant, r \in RecordId : ExternalDelete(t, r)
  BY <1>5, AdminKeepsInv
<1>6. CASE \E through \in 0 .. MaxCompact : BeginCompact(through)
  BY <1>6, AdminKeepsInv
<1>7. CASE CommitAdmin
  BY <1>7, CommitAdminKeepsInv
<1>8. CASE Rollback
  BY <1>8, RollbackKeepsInv
<1>9. CASE UNCHANGED vars
  <2>1. /\ db' = db /\ holder' = holder /\ work' = work /\ call' = call
        /\ history' = history
    BY <1>9 DEF vars
  <2>2. TypeOK' /\ CallOK' /\ (holder = "none" => work = db)'
    BY <2>1 DEF Inv, TypeOK, CallOK
  <2>3. Reached' = Reached /\ Watermarks(db)' = Watermarks(db)
    BY <2>1 DEF Reached, Watermarks
  <2>4. LedgerDense(db, Watermarks(db))' /\ LedgerDense(work, Reached)'
    BY <2>1, <2>3 DEF LedgerDense, Prior, Inv
  <2>5. StoreOK(db)' /\ StoreOK(work)' /\ Grows(db, work)'
    BY <2>1 DEF StoreOK, RowsWellFormed, MirrorTracksDocs, ChangesContiguous,
                UnclaimedAtZero, Grows, Inv
  <2> QED
    BY <2>2, <2>4, <2>5 DEF Inv
<1> QED
  BY <1>1, <1>2, <1>3, <1>4, <1>5, <1>6, <1>7, <1>8, <1>9 DEF Next

\* The invariant holds in every state of every behaviour: consistent committed
\* tables, and a running transaction whose view may be committed at any time.
THEOREM InvHolds == Spec => []Inv
PROOF
<1> QED
  BY InitInv, NextKeepsInv, PTL DEF Spec

\* The columns and request fields keep their types (ensureProtocolSchema).
THEOREM TypeCorrect == Spec => []TypeOK
PROOF
<1>1. Inv => TypeOK
  BY DEF Inv
<1> QED
  BY <1>1, InvHolds, PTL

\* Sequence numbers are allocated in commit order without a gap, and only a
\* prefix of them is ever compacted.
THEOREM FeedContiguous == Spec => []FeedIsContiguous
PROOF
<1>1. Inv => FeedIsContiguous
  BY DEF Inv, StoreOK, FeedIsContiguous
<1> QED
  BY <1>1, InvHolds, PTL

\* Snapshots are served from a mirror that agrees with docs, in every committed
\* state, for pushes and direct writers alike.
THEOREM MirrorAgreement == Spec => []MirrorAgrees
PROOF
<1>1. Inv => MirrorAgrees
  BY DEF Inv, StoreOK, MirrorAgrees
<1> QED
  BY <1>1, InvHolds, PTL

\* The ledger has exactly one outcome for every mutation id up to the watermark
\* and none beyond, so a retry always finds the outcome it asks for.
THEOREM LedgerCorrect == Spec => []LedgerMatchesWatermark
PROOF
<1>1. Inv => LedgerMatchesWatermark
  BY DEF Inv, LedgerMatchesWatermark
<1> QED
  BY <1>1, InvHolds, PTL

\* No step takes back what a commit made durable.
LEMMA NextIsDurable ==
  ASSUME Inv, [Next]_vars
  PROVE  [DurableStep]_vars
PROOF
<1>1. CASE db' = db
  <2>1. db \in Store
    BY DEF Inv, TypeOK
  <2> QED
    BY <1>1, <2>1 DEF DurableStep, Store, ClientRow
<1>2. CASE CommitPush
  <2>1. db' = StoreWatermark(work) /\ holder = "push"
    BY <1>2 DEF CommitPush, Commit, Pushing
  <2>2. /\ call.tenant \in Tenant /\ call.client \in ClientId
        /\ db.clients[call.tenant][call.client].last <= call.last
        /\ work \in Store /\ db \in Store /\ Grows(db, work)
    BY <2>1 DEF Inv, TypeOK, CallOK
  <2>3. /\ db'.ledger = work.ledger /\ db'.lastSeq = work.lastSeq
        /\ db'.minSeq = work.minSeq
        /\ db'.clients =
             [work.clients EXCEPT ![call.tenant][call.client].last = call.last]
    BY <2>1, <2>2 DEF StoreWatermark, Store
  <2>4. ASSUME NEW t \in Tenant, NEW c \in ClientId
        PROVE  /\ db.clients[t][c].last <= db'.clients[t][c].last
               /\ db'.clients[t][c].subject = work.clients[t][c].subject
    <3>1. /\ work.clients \in [Tenant -> [ClientId -> ClientRow]]
          /\ db.clients[t][c].last \in Nat
          /\ db.clients[t][c].last = work.clients[t][c].last
      BY <2>2 DEF Store, ClientRow, Grows
    <3>2. CASE t = call.tenant /\ c = call.client
      <4>1. db'.clients[t][c] = [work.clients[t][c] EXCEPT !.last = call.last]
        BY <2>3, <3>1, <3>2
      <4>2. work.clients[t][c] \in ClientRow
        BY <3>1
      <4> QED
        BY <2>2, <3>2, <4>1, <4>2 DEF ClientRow
    <3>3. CASE ~(t = call.tenant /\ c = call.client)
      <4>1. db'.clients[t][c] = work.clients[t][c]
        BY <2>3, <3>1, <3>3
      <4> QED
        BY <3>1, <4>1
    <3> QED
      BY <3>2, <3>3
  <2>5. ASSUME NEW t \in Tenant, NEW c \in ClientId,
               db.clients[t][c].subject # Nobody
        PROVE  db'.clients[t][c].subject = db.clients[t][c].subject
    BY <2>2, <2>4, <2>5 DEF Grows
  <2>6. /\ db.ledger \subseteq work.ledger /\ db.lastSeq <= work.lastSeq
        /\ db.minSeq <= work.minSeq
    BY <2>2 DEF Grows
  <2> QED
    BY <2>3, <2>4, <2>5, <2>6 DEF DurableStep
<1>3. CASE CommitAdmin
  <2>1. db' = work /\ Grows(db, work) /\ db \in Store
    BY <1>3 DEF CommitAdmin, Commit, Inv, TypeOK
  <2> QED
    BY <2>1 DEF DurableStep, Grows, Store, ClientRow
<1>4. db' = db \/ CommitPush \/ CommitAdmin
  BY DEF Next, vars, BeginPush, PushStep, ReplayDuplicate,
       RejectMutation, AcknowledgeNoOp, ApplyMutation, Settle,
       ExternalUpsert, ExternalDelete, BeginExternal, BeginCompact, Rollback
<1> QED
  BY <1>1, <1>2, <1>3, <1>4

\* No step of any transaction takes back what a commit made durable.
THEOREM Durability == Spec => NothingDurableIsLost
PROOF
<1>1. Inv /\ [Next]_vars => [DurableStep]_vars
  BY NextIsDurable
<1> QED
  BY <1>1, InvHolds, PTL DEF Spec, NothingDurableIsLost

-----------------------------------------------------------------------------
(* Numbers. *)

LEMMA SomeLessThan ==
  \E R : IsWellFoundedOn(R, Nat) /\ \A x, y \in Nat : x < y => <<x, y>> \in R
PROOF
<1>1. \A x, y \in Nat : x < y => <<x, y>> \in OpToRel(<, Nat)
  BY DEF OpToRel
<1> QED
  BY <1>1, NatLessThanWellFounded, Zenon

\* Every nonempty set of natural numbers has a least element.
LEMMA LeastNatural ==
  ASSUME NEW T, T \subseteq Nat, T # {}
  PROVE  \E n \in T : \A m \in T : n <= m
PROOF
<1>1. PICK R : IsWellFoundedOn(R, Nat) /\ \A x, y \in Nat : x < y => <<x, y>> \in R
  BY SomeLessThan
<1>2. IsWellFoundedOn(R, Nat)
  BY <1>1
<1>3. PICK n \in T : \A y \in T : ~(<<y, n>> \in R)
  BY ONLY <1>2, T \subseteq Nat, T # {}, WFMin, Zenon
<1>4. ASSUME NEW m \in T PROVE ~(m < n)
  BY <1>1, <1>3, <1>4, Zenon
<1> QED
  BY <1>4

-----------------------------------------------------------------------------
(* A store and its history H. *)

\* H has the store's changes, none of them from beyond its checkpoint.
Recalls(s, H) ==
  /\ H \subseteq Change
  /\ s.changes \subseteq H
  /\ \A x \in H : x.seq <= s.lastSeq

Feed(H, t, r) == {ch \in H : ch.tenant = t /\ ch.record = r}

\* RevisionsFollowFeed, for one row and its changes.
RowFollows(row, F) ==
  /\ {ch.revision : ch \in F} = 1 .. row.revision
  /\ \A x, y \in F : x.seq < y.seq <=> x.revision < y.revision
  /\ \A x \in F : x.revision = row.revision =>
       /\ (x.op = "delete") = row.deleted
       /\ (~row.deleted => x.data = row.data)

Follows(s, H) ==
  \A t \in Tenant, r \in RecordId : RowFollows(s.docs[t][r], Feed(H, t, r))

\* The changes of mutation n of a client.
Caused(H, t, c, n) ==
  {ch \in H : ch.tenant = t /\ ch.source.client = c /\ ch.source.mutation = n}

Effects(H, e) == Caused(H, e.tenant, e.client, e.request.id)

Reports(e, ch) ==
  /\ ch.seq = e.checkpoint /\ ch.revision = e.revision
  /\ ch.record = e.request.record /\ ch.op = e.request.op

\* EffectsMatchOutcomes and BaseRevisionHonoured, for one outcome.
Accounted(H, e) ==
  /\ IF e.status = "applied" /\ ~e.noOp
     THEN \E ch \in H : Effects(H, e) = {ch} /\ Reports(e, ch)
     ELSE Effects(H, e) = {}
  /\ e.request.base # NoBase => \A ch \in Effects(H, e) : ch.revision = e.request.base + 1

\* NoAccidentalResurrection, for a change and the one before it.
Raises(ch, x) ==
  /\ x.tenant = ch.tenant /\ x.record = ch.record /\ x.revision = ch.revision - 1
  /\ x.op = "delete" /\ ch.op = "upsert" /\ ch.source # External

\* An attributed change has its outcome, its owner, and did not resurrect by
\* accident.
Explained(s, H, ch) ==
  /\ ch.source.client # Nobody =>
       /\ \E e \in s.ledger : ch \in Effects(H, e)
       /\ ch.source.subject \in Subject
       /\ ch.source.subject = s.clients[ch.tenant][ch.source.client].subject
  /\ \A x \in H : Raises(ch, x) =>
       \E e \in s.ledger : /\ ch \in Effects(H, e)
                           /\ e.request.resurrect /\ e.request.base = x.revision

Agrees(s, H) ==
  /\ Recalls(s, H)
  /\ Follows(s, H)
  /\ \A e \in s.ledger : Accounted(H, e)
  /\ \A ch \in H : Explained(s, H, ch)

\* The history of the transaction, if it committed now.
Ahead == history \cup work.changes

HistoryInv == Agrees(db, history) /\ Agrees(work, Ahead)

-----------------------------------------------------------------------------
(* Steps of a store. *)

\* Claims, compactions and watermarks leave the documents, the ledger and the
\* owners alone.
LEMMA QuietAgrees ==
  ASSUME NEW s \in Store, NEW w, NEW H, Agrees(s, H),
         w.docs = s.docs, w.ledger = s.ledger, w.lastSeq = s.lastSeq,
         w.changes \subseteq s.changes,
         \A t \in Tenant, c \in ClientId :
           s.clients[t][c].subject # Nobody =>
             w.clients[t][c].subject = s.clients[t][c].subject
  PROVE  Agrees(w, H)
PROOF
<1>1. Recalls(w, H)
  BY DEF Agrees, Recalls
<1>2. Follows(w, H)
  BY DEF Agrees, Follows
<1>3. \A e \in w.ledger : Accounted(H, e)
  BY DEF Agrees
<1>4. ASSUME NEW ch \in H
      PROVE  Explained(w, H, ch)
  <2>1. Explained(s, H, ch) /\ ch \in Change
    BY <1>4 DEF Agrees, Recalls
  <2>2. ch.source.client # Nobody => ch.tenant \in Tenant /\ ch.source.client \in ClientId
    BY <2>1 DEF Change, Source
  <2>3. ch.source.client # Nobody =>
          ch.source.subject = w.clients[ch.tenant][ch.source.client].subject
    BY <2>1, <2>2, NullAssumption DEF Explained
  <2> QED
    BY <2>1, <2>3 DEF Explained
<1> QED
  BY <1>1, <1>2, <1>3, <1>4 DEF Agrees

\* What one captured write adds to the history.
Adds(s, w, t, r, op, src, ch) ==
  /\ ch \in Change
  /\ ch.tenant = t /\ ch.record = r /\ ch.op = op /\ ch.source = src
  /\ ch.seq = s.lastSeq + 1 /\ w.lastSeq = s.lastSeq + 1
  /\ ch.revision = s.docs[t][r].revision + 1
  /\ w.docs[t][r].revision = ch.revision
  /\ w.changes = s.changes \cup {ch}
  /\ w.ledger = s.ledger /\ w.clients = s.clients

\* A change with the next revision and a later sequence number extends the feed of
\* its row.
LEMMA RowGrows ==
  ASSUME NEW row \in Row, NEW F \in SUBSET Change, RowFollows(row, F),
         NEW new \in Row, new.revision = row.revision + 1,
         NEW ch \in Change, ch.revision = new.revision,
         \A x \in F : x.seq < ch.seq,
         (ch.op = "delete") = new.deleted, ~new.deleted => ch.data = new.data
  PROVE  RowFollows(new, F \cup {ch})
PROOF
<1> DEFINE G == F \cup {ch}
           n == row.revision
<1>1. n \in Nat /\ {x.revision : x \in F} = 1 .. n
  BY DEF Row, RowFollows
<1>2. \A x \in F : x.revision \in 1 .. n
  BY <1>1
<1>3. {x.revision : x \in G} = {x.revision : x \in F} \cup {n + 1}
  OBVIOUS
<1>4. {x.revision : x \in G} = 1 .. new.revision
  BY <1>1, <1>3
<1>5. \A x \in F : x.seq \in Nat /\ x.revision < ch.revision /\ x.seq < ch.seq
  BY <1>1, <1>2 DEF Change
<1>6. ch.seq \in Nat /\ ch.revision \in Nat
  BY DEF Change
<1>7. \A x, y \in G : x.seq < y.seq <=> x.revision < y.revision
  BY <1>1, <1>2, <1>5, <1>6 DEF RowFollows
<1>8. \A x \in G : x.revision = new.revision => x = ch
  BY <1>1, <1>2
<1> QED
  BY <1>4, <1>7, <1>8 DEF RowFollows

\* A captured write adds one change, and the row goes on following its feed.
LEMMA WriteFollows ==
  ASSUME NEW s \in Store, StoreOK(s), NEW H, Recalls(s, H), Follows(s, H),
         NEW t \in Tenant, NEW r \in RecordId, NEW data \in Data,
         NEW deleted \in BOOLEAN, NEW src \in Source
  PROVE  LET w == WriteDoc(s, t, r, data, deleted, src)
         IN
         \E ch : /\ Adds(s, w, t, r, IF deleted THEN "delete" ELSE "upsert", src, ch)
                 /\ Recalls(w, H \cup {ch}) /\ Follows(w, H \cup {ch})
PROOF
<1> DEFINE w     == WriteDoc(s, t, r, data, deleted, src)
           rev   == s.records[t][r].revision + 1
           shown == IF deleted THEN NoData ELSE data
           op    == IF deleted THEN "delete" ELSE "upsert"
           new   == [revision |-> s.docs[t][r].revision + 1, data |-> data,
                     deleted |-> deleted]
           mirror == [revision |-> rev, data |-> shown, deleted |-> deleted]
           ch    == [seq |-> s.lastSeq + 1, tenant |-> t, record |-> r,
                     op |-> IF deleted THEN "delete" ELSE "upsert",
                     data |-> shown, revision |-> rev, source |-> src]
<1>1. /\ w \in Store
      /\ w.ledger = s.ledger
      /\ w.clients = s.clients
      /\ w.minSeq = s.minSeq
      /\ w.lastSeq = s.lastSeq + 1
      /\ w.docs = [s.docs EXCEPT ![t][r] = new]
      /\ w.records = [s.records EXCEPT ![t][r] = mirror]
      /\ w.changes = s.changes \cup {ch}
  BY WriteDocFields
<1>2. /\ s.docs \in [Tenant -> [RecordId -> Row]] /\ s.docs[t][r] \in Row
      /\ s.records[t][r] \in Row /\ s.lastSeq \in Nat
  BY DEF Store
<1>3. rev = s.docs[t][r].revision + 1
  BY <1>2 DEF StoreOK, MirrorTracksDocs, Row
<1>4. ch \in Change /\ new \in Row
  BY <1>2 DEF Change, Row
<1>5. \A u \in Tenant, q \in RecordId :
        w.docs[u][q] = IF u = t /\ q = r THEN new ELSE s.docs[u][q]
  BY <1>1, <1>2
<1>6. Adds(s, w, t, r, op, src, ch)
  BY <1>1, <1>3, <1>4, <1>5 DEF Adds
<1>7. /\ ch.tenant = t /\ ch.record = r /\ ch.seq = s.lastSeq + 1
      /\ ch.revision = rev /\ ch.op = op /\ ch.data = shown
      /\ new.revision = s.docs[t][r].revision + 1
      /\ new.deleted = deleted /\ new.data = data
  OBVIOUS
<1> HIDE DEF w, ch, new
<1>8. H \subseteq Change /\ \A x \in H : x.seq \in Nat /\ x.seq <= s.lastSeq
  BY DEF Recalls, Change
<1>9. Recalls(w, H \cup {ch})
  BY <1>1, <1>2, <1>4, <1>7, <1>8 DEF Recalls
<1>10. ASSUME NEW u \in Tenant, NEW q \in RecordId
       PROVE  RowFollows(w.docs[u][q], Feed(H \cup {ch}, u, q))
  <2>1. RowFollows(s.docs[u][q], Feed(H, u, q)) /\ Feed(H, u, q) \in SUBSET Change
    BY <1>8 DEF Follows, Feed
  <2>2. CASE u = t /\ q = r
    <3>1. Feed(H \cup {ch}, u, q) = Feed(H, u, q) \cup {ch}
      BY <1>7, <2>2 DEF Feed
    <3>2. \A x \in Feed(H, u, q) : x.seq < ch.seq
      BY <1>2, <1>7, <1>8 DEF Feed
    <3>3. (ch.op = "delete") = new.deleted /\ (~new.deleted => ch.data = new.data)
      BY <1>7
    <3>4. RowFollows(new, Feed(H, u, q) \cup {ch})
      BY <1>2, <1>3, <1>4, <1>7, <2>1, <2>2, <3>2, <3>3, RowGrows
    <3> QED
      BY <1>5, <2>2, <3>1, <3>4
  <2>3. CASE ~(u = t /\ q = r)
    <3>1. Feed(H \cup {ch}, u, q) = Feed(H, u, q)
      BY <1>7, <2>3 DEF Feed
    <3> QED
      BY <1>5, <2>1, <2>3, <3>1
  <2> QED
    BY <2>2, <2>3
<1>11. Follows(w, H \cup {ch})
  BY <1>10 DEF Follows
<1> QED
  BY <1>6, <1>9, <1>11 DEF w

\* Nothing in the history of a row follows the change just captured.
LEMMA NewestIsLast ==
  ASSUME NEW s \in Store, NEW H, Recalls(s, H), Follows(s, H),
         NEW w, NEW t \in Tenant, NEW r \in RecordId, NEW op, NEW src, NEW ch,
         Adds(s, w, t, r, op, src, ch)
  PROVE  \A x \in H : ~Raises(x, ch)
PROOF
<1> SUFFICES ASSUME NEW x \in H, Raises(x, ch) PROVE FALSE
  OBVIOUS
<1>1. /\ ch.tenant = t /\ ch.record = r
      /\ ch.revision = s.docs[t][r].revision + 1
      /\ x.tenant = t /\ x.record = r /\ ch.revision = x.revision - 1
  BY DEF Adds, Raises
<1>2. s.docs[t][r].revision \in Nat /\ x \in Feed(H, t, r) /\ x.revision \in Nat
  BY <1>1 DEF Store, Row, Feed, Recalls, Change
<1>3. {y.revision : y \in Feed(H, t, r)} = 1 .. s.docs[t][r].revision
  BY DEF Follows, RowFollows
<1>4. x.revision \in 1 .. s.docs[t][r].revision
  BY <1>2, <1>3
<1> QED
  BY <1>1, <1>2, <1>4

\* A direct write belongs to no mutation.
LEMMA ExternalAgrees ==
  ASSUME NEW s \in Store, StoreOK(s), NEW H, Agrees(s, H),
         NEW t \in Tenant, NEW r \in RecordId, NEW data \in Data,
         NEW deleted \in BOOLEAN
  PROVE  LET w == WriteDoc(s, t, r, data, deleted, External)
         IN Agrees(w, H \cup w.changes)
PROOF
<1> DEFINE w  == WriteDoc(s, t, r, data, deleted, External)
           op == IF deleted THEN "delete" ELSE "upsert"
<1>1. External \in Source
  BY DEF External, Source
<1>2. Recalls(s, H) /\ Follows(s, H)
  BY DEF Agrees
<1> HIDE DEF op
<1>3. PICK ch : /\ Adds(s, w, t, r, op, External, ch)
                /\ Recalls(w, H \cup {ch}) /\ Follows(w, H \cup {ch})
  BY <1>1, <1>2, WriteFollows DEF op
<1> HIDE DEF w
<1>4. /\ ch.source.client = Nobody /\ ch.source = External
      /\ w.ledger = s.ledger /\ w.clients = s.clients
      /\ H \cup w.changes = H \cup {ch}
  BY <1>2, <1>3 DEF Adds, External, Recalls
<1>5. \A e \in s.ledger : Effects(H \cup {ch}, e) = Effects(H, e)
  BY <1>4, NullAssumption DEF Effects, Caused, Store, Outcome
<1>6. \A e \in w.ledger : Accounted(H \cup {ch}, e)
  <2> SUFFICES ASSUME NEW e \in s.ledger PROVE Accounted(H \cup {ch}, e)
    BY <1>4
  <2>1. Accounted(H, e) /\ Effects(H \cup {ch}, e) = Effects(H, e)
    BY <1>5 DEF Agrees
  <2> QED
    BY <2>1 DEF Accounted
<1>7. \A x \in H : ~Raises(x, ch)
  BY <1>2, <1>3, NewestIsLast
<1>8. ASSUME NEW x \in H \cup {ch}
      PROVE  Explained(w, H \cup {ch}, x)
  <2>1. CASE x = ch
    BY <1>4, <2>1 DEF Explained, Raises
  <2>2. CASE x \in H
    <3>1. Explained(s, H, x)
      BY <2>2 DEF Agrees
    <3>2. \A e \in s.ledger : x \in Effects(H \cup {ch}, e) <=> x \in Effects(H, e)
      BY <1>5
    <3> QED
      BY <1>4, <1>7, <2>2, <3>1, <3>2 DEF Explained
  <2> QED
    BY <2>1, <2>2
<1>9. Agrees(w, H \cup {ch})
  BY <1>3, <1>6, <1>8 DEF Agrees
<1> QED
  BY <1>4, <1>9 DEF w

\* A mutation that changes nothing adds its outcome only.
LEMMA RecordAgrees ==
  ASSUME NEW s \in Store, NEW H, Agrees(s, H), NEW e, Accounted(H, e)
  PROVE  LET w == Record(s, e)
         IN Agrees(w, H \cup w.changes) /\ w.changes = s.changes
PROOF
<1> DEFINE w == Record(s, e)
<1>1. /\ w.ledger = s.ledger \cup {e} /\ w.clients = s.clients
      /\ w.docs = s.docs /\ w.changes = s.changes /\ w.lastSeq = s.lastSeq
  BY DEF Record, Store
<1> HIDE DEF w
<1>2. Recalls(w, H) /\ H \cup w.changes = H
  BY <1>1 DEF Agrees, Recalls
<1>3. Follows(w, H)
  BY <1>1 DEF Agrees, Follows
<1>4. \A x \in w.ledger : Accounted(H, x)
  BY <1>1 DEF Agrees
<1>5. ASSUME NEW ch \in H
      PROVE  Explained(w, H, ch)
  <2>1. Explained(s, H, ch)
    BY DEF Agrees
  <2> QED
    BY <1>1, <2>1 DEF Explained
<1>6. Agrees(w, H)
  BY <1>2, <1>3, <1>4, <1>5 DEF Agrees
<1> QED
  BY <1>1, <1>2, <1>6 DEF w

\* Outcome e is the next of its client and reports a write of row r by src, on
\* the terms of its request.
Fits(s, H, t, r, deleted, src, e) ==
  /\ src.client \in ClientId /\ src.subject \in Subject
  /\ src.subject = s.clients[t][src.client].subject
  /\ Caused(H, t, src.client, src.mutation) = {}
  /\ \A x \in s.ledger :
       ~(x.tenant = t /\ x.client = src.client /\ x.request.id = src.mutation)
  /\ e.tenant = t /\ e.client = src.client /\ e.request.id = src.mutation
  /\ e.request.record = r
  /\ e.request.op = IF deleted THEN "delete" ELSE "upsert"
  /\ e.status = "applied" /\ e.noOp = FALSE
  /\ e.checkpoint = s.lastSeq + 1 /\ e.revision = s.docs[t][r].revision + 1
  /\ e.request.base # NoBase => e.request.base = s.docs[t][r].revision
  /\ s.docs[t][r].revision > 0 /\ s.docs[t][r].deleted /\ ~deleted
       => e.request.resurrect /\ e.request.base # NoBase

\* A mutation that is applied adds one change and the outcome that reports it.
LEMMA AttributedAgrees ==
  ASSUME NEW s \in Store, StoreOK(s), NEW H, Agrees(s, H),
         NEW t \in Tenant, NEW r \in RecordId, NEW data \in Data,
         NEW deleted \in BOOLEAN, NEW src \in Source, NEW e,
         Fits(s, H, t, r, deleted, src, e)
  PROVE  LET w == Record(WriteDoc(s, t, r, data, deleted, src), e)
         IN Agrees(w, H \cup w.changes) /\ s.changes \subseteq w.changes
PROOF
<1> DEFINE d  == WriteDoc(s, t, r, data, deleted, src)
           w  == Record(d, e)
           op == IF deleted THEN "delete" ELSE "upsert"
<1>1. Recalls(s, H) /\ Follows(s, H)
  BY DEF Agrees
<1> HIDE DEF op
<1>2. PICK ch : /\ Adds(s, d, t, r, op, src, ch)
                /\ Recalls(d, H \cup {ch}) /\ Follows(d, H \cup {ch})
  BY <1>1, WriteFollows DEF op
<1>3. d \in Store
  BY WriteDocOK DEF WroteOne
<1> HIDE DEF d
<1>4. /\ w.ledger = s.ledger \cup {e} /\ w.clients = s.clients
      /\ w.docs = d.docs /\ w.changes = d.changes /\ w.lastSeq = d.lastSeq
  BY <1>2, <1>3 DEF Record, Store, Adds
<1> HIDE DEF w
<1> DEFINE G == H \cup {ch}
<1>5. /\ ch \in Change /\ ch.source = src /\ ch.tenant = t /\ ch.record = r
      /\ ch.seq = s.lastSeq + 1 /\ ch.revision = s.docs[t][r].revision + 1
      /\ ch.op = op /\ H \cup w.changes = G
  BY <1>1, <1>2, <1>4 DEF Adds, Recalls
<1>6. Recalls(w, G) /\ Follows(w, G)
  BY <1>2, <1>4 DEF Recalls, Follows
<1>7. Effects(G, e) = {ch}
  BY <1>5 DEF Effects, Caused, Fits
<1>8. \A x \in s.ledger : Effects(G, x) = Effects(H, x)
  BY <1>5 DEF Effects, Caused, Fits
<1>9. \A x \in w.ledger : Accounted(G, x)
  <2>1. Accounted(G, e)
    <3>1. Reports(e, ch)
      BY <1>5 DEF Reports, op, Fits
    <3>2. e.request.base # NoBase => ch.revision = e.request.base + 1
      BY <1>5 DEF Fits
    <3>3. e.status = "applied" /\ ~e.noOp
      BY DEF Fits
    <3> QED
      BY <1>7, <3>1, <3>2, <3>3 DEF Accounted
  <2>2. ASSUME NEW x \in s.ledger PROVE Accounted(G, x)
    <3>1. Accounted(H, x) /\ Effects(G, x) = Effects(H, x)
      BY <1>8 DEF Agrees
    <3> QED
      BY <3>1 DEF Accounted
  <2> QED
    BY <1>4, <2>1, <2>2
<1>10. \A x \in H : ~Raises(x, ch)
  BY <1>1, <1>2, NewestIsLast
<1>11. ASSUME NEW x \in G
       PROVE  Explained(w, G, x)
  <2>1. CASE x = ch
    <3>1. ASSUME NEW y \in G, Raises(ch, y)
          PROVE  e.request.resurrect /\ e.request.base = y.revision
      <4>1. /\ y.tenant = t /\ y.record = r /\ y.op = "delete" /\ ~deleted
            /\ y.revision = ch.revision - 1
        BY <1>5, <3>1 DEF Raises, op
      <4>2. s.docs[t][r].revision \in Nat
        BY DEF Store, Row
      <4>3. y.revision = s.docs[t][r].revision /\ y # ch
        BY <1>5, <4>1, <4>2
      <4>4. y \in Feed(H, t, r) /\ y \in Change
        BY <1>1, <4>1, <4>3 DEF Feed, Recalls
      <4>5. y.revision > 0 /\ s.docs[t][r].deleted
        <5>1. RowFollows(s.docs[t][r], Feed(H, t, r)) /\ s.docs[t][r].deleted \in BOOLEAN
          BY <1>1 DEF Follows, Store, Row
        <5>2. (y.op = "delete") = s.docs[t][r].deleted
          BY <4>3, <4>4, <5>1 DEF RowFollows
        <5>3. y.revision > 0
          BY <4>4 DEF Change
        <5> QED
          BY <4>1, <5>1, <5>2, <5>3
      <4> QED
        BY <4>1, <4>3, <4>5 DEF Fits
    <3>2. e \in w.ledger /\ ch \in Effects(G, e)
      BY <1>4, <1>7
    <3>3. /\ ch.source.subject \in Subject
          /\ ch.source.subject = w.clients[ch.tenant][ch.source.client].subject
      BY <1>4, <1>5 DEF Fits
    <3> QED
      BY <2>1, <3>1, <3>2, <3>3 DEF Explained
  <2>2. CASE x \in H
    <3>1. Explained(s, H, x)
      BY <2>2 DEF Agrees
    <3>2. \A y \in s.ledger : x \in Effects(G, y) <=> x \in Effects(H, y)
      BY <1>8
    <3>3. s.ledger \subseteq w.ledger /\ \A y \in G : Raises(x, y) => y \in H
      BY <1>4, <1>10, <2>2
    <3> QED
      BY <1>4, <3>1, <3>2, <3>3 DEF Explained
  <2> QED
    BY <2>1, <2>2
<1>12. Agrees(w, G)
  BY <1>6, <1>9, <1>11 DEF Agrees
<1>13. s.changes \subseteq w.changes
  BY <1>2, <1>4 DEF Adds
<1> QED
  BY <1>5, <1>12, <1>13 DEF w, d

-----------------------------------------------------------------------------
(* The steps of a transaction. *)

\* The next mutation of a client has neither an outcome nor a change yet.
LEMMA NextIsFresh ==
  ASSUME Inv, Agrees(work, Ahead), Executing
  PROVE  /\ Caused(Ahead, call.tenant, call.client, Current.id) = {}
         /\ \A x \in work.ledger :
              ~(x.tenant = call.tenant /\ x.client = call.client /\ x.request.id = Current.id)
PROOF
<1>1. /\ holder = "push" /\ call.tenant \in Tenant /\ call.client \in ClientId
      /\ call.last \in Nat /\ Current.id = call.last + 1
  BY CurrentTyped DEF Executing, Pushing, IsNext
<1>2. Reached[call.tenant][call.client] = call.last
  BY <1>1 DEF Reached
<1>3. \A x \in work.ledger : x.request.id <= Reached[x.tenant][x.client]
  BY DEF Inv, LedgerDense
<1>4. \A x \in work.ledger :
        ~(x.tenant = call.tenant /\ x.client = call.client /\ x.request.id = Current.id)
  BY <1>1, <1>2, <1>3
<1>5. ASSUME NEW ch \in Caused(Ahead, call.tenant, call.client, Current.id)
      PROVE  FALSE
  <2>1. ch \in Ahead /\ ch.source.client # Nobody
    BY <1>1, NullAssumption DEF Caused
  <2>2. PICK x \in work.ledger : ch \in Effects(Ahead, x)
    BY <2>1 DEF Agrees, Explained
  <2>3. x.tenant = call.tenant /\ x.client = call.client /\ x.request.id = Current.id
    BY <2>2 DEF Effects, Caused
  <2> QED
    BY <1>4, <2>3
<1> QED
  BY <1>4, <1>5

\* The invariant in the next state, in terms of that state's tables.
LEMMA HistoryInvNext ==
  ASSUME NEW d, NEW w, NEW H, db' = d, work' = w, history' = H,
         Agrees(d, H), Agrees(w, H \cup w.changes)
  PROVE  HistoryInv'
PROOF
<1>1. Agrees(db, history)'
  BY DEF Agrees, Recalls, Follows, RowFollows, Feed, Accounted, Effects,
         Caused, Reports, Explained, Raises
<1>2. Ahead' = H \cup w.changes
  BY DEF Ahead
<1>3. Agrees(work, Ahead)'
  BY <1>2 DEF Agrees, Recalls, Follows, RowFollows, Feed, Accounted, Effects,
         Caused, Reports, Explained, Raises
<1> QED
  BY <1>1, <1>3 DEF HistoryInv

\* A commit makes the history of the transaction that of the committed tables.
LEMMA CommitKeepsHistory ==
  ASSUME HistoryInv, NEW s, Agrees(s, Ahead), s.changes = work.changes, Commit(s)
  PROVE  HistoryInv'
PROOF
<1>1. db' = s /\ work' = s /\ history' = Ahead /\ Ahead \cup s.changes = Ahead
  BY DEF Commit, Ahead
<1> QED
  BY <1>1, HistoryInvNext

\* Commits store at most a watermark more; a rollback goes back to what was.
LEMMA TransactionEndsKeepHistory ==
  ASSUME Inv, HistoryInv, CommitPush \/ CommitAdmin \/ Rollback
  PROVE  HistoryInv'
PROOF
<1>1. work \in Store /\ db \in Store /\ Agrees(work, Ahead) /\ Agrees(db, history)
  BY DEF Inv, TypeOK, HistoryInv
<1>2. CASE CommitPush
  <2> DEFINE t == call.tenant
             c == call.client
             w == StoreWatermark(work)
  <2>1. /\ Commit(w) /\ t \in Tenant /\ c \in ClientId
    BY <1>2 DEF CommitPush, Pushing, Inv, CallOK
  <2>2. /\ w.lastSeq = work.lastSeq /\ w.docs = work.docs
        /\ w.ledger = work.ledger /\ w.changes = work.changes
        /\ w.clients = [work.clients EXCEPT ![t][c].last = call.last]
    BY <1>1 DEF StoreWatermark, Store
  <2> HIDE DEF w
  <2>3. \A u \in Tenant, d \in ClientId :
          w.clients[u][d].subject = work.clients[u][d].subject
    <3> SUFFICES ASSUME NEW u \in Tenant, NEW d \in ClientId
                 PROVE  w.clients[u][d].subject = work.clients[u][d].subject
      OBVIOUS
    <3>1. work.clients \in [Tenant -> [ClientId -> ClientRow]] /\ work.clients[u][d] \in ClientRow
      BY <1>1 DEF Store
    <3>2. CASE u = t /\ d = c
      <4>1. w.clients[u][d] = [work.clients[u][d] EXCEPT !.last = call.last]
        BY <2>1, <2>2, <3>1, <3>2
      <4> QED
        BY <3>1, <4>1 DEF ClientRow
    <3>3. CASE ~(u = t /\ d = c)
      BY <2>1, <2>2, <3>1, <3>3
    <3> QED
      BY <3>2, <3>3
  <2>4. /\ w.docs = work.docs /\ w.ledger = work.ledger /\ w.lastSeq = work.lastSeq
        /\ w.changes \subseteq work.changes
        /\ \A u \in Tenant, d \in ClientId :
             work.clients[u][d].subject # Nobody =>
               w.clients[u][d].subject = work.clients[u][d].subject
    BY <2>2, <2>3
  <2>5. Agrees(w, Ahead)
    BY ONLY <1>1, <2>4, QuietAgrees
  <2> QED
    BY <2>1, <2>2, <2>5, CommitKeepsHistory
<1>3. CASE CommitAdmin
  BY <1>1, <1>3, CommitKeepsHistory DEF CommitAdmin
<1>4. CASE Rollback
  <2>1. db' = db /\ work' = db /\ history' = history
    BY <1>4 DEF Rollback
  <2>2. history \cup db.changes = history
    BY <1>1 DEF Agrees, Recalls
  <2> QED
    BY <1>1, <2>1, <2>2, HistoryInvNext
<1> QED
  BY <1>2, <1>3, <1>4

\* A clientId with changes has a subject, and a claim leaves it.
LEMMA BeginPushKeepsHistory ==
  ASSUME Inv, HistoryInv, NEW id \in Identity, NEW c \in ClientId, NEW b \in Batch,
         BeginPush(id, c, b)
  PROVE  HistoryInv'
PROOF
<1> DEFINE t == id.tenant
           w == ClaimClient(db, t, c, id.subject)
<1>1. db' = db /\ history' = history /\ work' = w
  BY DEF BeginPush
<1>2. db \in Store /\ Agrees(db, history) /\ t \in Tenant
  BY IdentityAssumption DEF Inv, TypeOK, HistoryInv
<1>3. /\ w.docs = db.docs /\ w.ledger = db.ledger /\ w.lastSeq = db.lastSeq
      /\ w.changes \subseteq db.changes
  BY <1>2 DEF ClaimClient, Store
<1>4. StoreOK(db) /\ id.subject \in Subject
  BY IdentityAssumption DEF Inv
<1>5. Grows(db, w)
  BY <1>2, <1>4, ClaimClientOK
<1> HIDE DEF w
<1>6. \A u \in Tenant, d \in ClientId :
        db.clients[u][d].subject # Nobody =>
          w.clients[u][d].subject = db.clients[u][d].subject
  BY <1>5 DEF Grows
<1>7. Agrees(w, history)
  BY ONLY <1>2, <1>3, <1>6, QuietAgrees
<1>8. history \cup w.changes = history
  BY <1>2, <1>3 DEF Agrees, Recalls
<1> QED
  BY <1>1, <1>2, <1>7, <1>8, HistoryInvNext

\* Direct writes and compactions, from their first statement.
LEMMA AdminKeepsHistory ==
  ASSUME Inv, HistoryInv,
         \/ \E t \in Tenant, r \in RecordId, d \in ExternalData :
              ExternalUpsert(t, r, d)
         \/ \E t \in Tenant, r \in RecordId : ExternalDelete(t, r)
         \/ \E through \in 0 .. MaxCompact : BeginCompact(through)
  PROVE  HistoryInv'
PROOF
<1>1. db \in Store /\ StoreOK(db) /\ Agrees(db, history)
  BY DEF Inv, TypeOK, HistoryInv
<1>2. ASSUME NEW t \in Tenant, NEW r \in RecordId, NEW d \in ExternalData,
             ExternalUpsert(t, r, d)
      PROVE  HistoryInv'
  <2> DEFINE w == WriteDoc(db, t, r, d, FALSE, External)
  <2>1. d \in Data
    BY ExternalAssumption
  <2>2. Agrees(w, history \cup w.changes)
    BY <1>1, <2>1, ExternalAgrees
  <2>3. db' = db /\ history' = history /\ work' = w
    BY <1>2 DEF ExternalUpsert, BeginExternal
  <2> QED
    BY <1>1, <2>2, <2>3, HistoryInvNext
<1>3. ASSUME NEW t \in Tenant, NEW r \in RecordId, ExternalDelete(t, r)
      PROVE  HistoryInv'
  <2> DEFINE w == WriteDoc(db, t, r, db.docs[t][r].data, TRUE, External)
  <2>1. db.docs[t][r].revision \in Nat /\ db.docs[t][r].revision > 0
    BY <1>1, <1>3 DEF ExternalDelete, Store, Row
  <2>2. db.docs[t][r].data \in Data
    BY <1>1, <2>1 DEF StoreOK, RowsWellFormed
  <2>3. Agrees(w, history \cup w.changes)
    BY <1>1, <2>2, ExternalAgrees
  <2>4. db' = db /\ history' = history /\ work' = w
    BY <1>3 DEF ExternalDelete, BeginExternal
  <2> QED
    BY <1>1, <2>3, <2>4, HistoryInvNext
<1>4. ASSUME NEW through \in 0 .. MaxCompact, BeginCompact(through)
      PROVE  HistoryInv'
  <2> DEFINE w == CompactThrough(db, through)
  <2>1. db' = db /\ history' = history /\ work' = w
    BY <1>4 DEF BeginCompact
  <2>2. /\ w.docs = db.docs /\ w.ledger = db.ledger /\ w.lastSeq = db.lastSeq
        /\ w.changes \subseteq db.changes /\ w.clients = db.clients
    BY <1>1 DEF CompactThrough, Store
  <2> HIDE DEF w
  <2>3. Agrees(w, history)
    BY ONLY <1>1, <2>2, QuietAgrees
  <2>4. history \cup w.changes = history
    BY <1>1, <2>2 DEF Agrees, Recalls
  <2> QED
    BY <1>1, <2>1, <2>3, <2>4, HistoryInvNext
<1> QED
  BY <1>2, <1>3, <1>4

\* An outcome with no effect: a permanent rejection or a second delete.
LEMMA OutcomeOnlyKeepsHistory ==
  ASSUME Inv, HistoryInv, RejectMutation \/ AcknowledgeNoOp
  PROVE  HistoryInv'
PROOF
<1>1. /\ Executing /\ work \in Store /\ Agrees(work, Ahead) /\ Agrees(db, history)
  BY DEF RejectMutation, AcknowledgeNoOp, Inv, TypeOK, HistoryInv
<1>2. PICK e : /\ work' = Record(work, e) /\ db' = db /\ history' = history
               /\ e.tenant = call.tenant /\ e.client = call.client /\ e.request = Current
               /\ ~(e.status = "applied" /\ ~e.noOp)
  BY DEF RejectMutation, AcknowledgeNoOp, Settle, OutcomeOf
<1>3. Effects(Ahead, e) = {}
  BY <1>1, <1>2, NextIsFresh DEF Effects
<1>4. Accounted(Ahead, e)
  BY <1>2, <1>3 DEF Accounted
<1> DEFINE w == Record(work, e)
<1>5. Agrees(w, Ahead \cup w.changes) /\ w.changes = work.changes
  BY <1>1, <1>4, RecordAgrees
<1> HIDE DEF w
<1>6. Ahead \cup w.changes = history \cup w.changes
  BY <1>5 DEF Ahead
<1> QED
  BY <1>1, <1>2, <1>5, <1>6, HistoryInvNext DEF w

\* An accepted mutation: its row, its change and its outcome in one step.
LEMMA ApplyKeepsHistory ==
  ASSUME Inv, HistoryInv, ApplyMutation
  PROVE  HistoryInv'
PROOF
<1> DEFINE t   == call.tenant
           m   == Current
           row == work.docs[t][m.record]
           data == IF m.op = "delete" THEN row.data ELSE UpsertedData(work, t, m)
           deleted == m.op = "delete"
           d   == WriteDoc(work, t, m.record, data, deleted, PushSource)
           e   == OutcomeOf(d, t, call.client, m, "applied", FALSE, "NONE")
           w   == Record(d, e)
<1>1. /\ Executing /\ Pushing /\ call.todo # <<>> /\ OwnsClient
      /\ RejectionCode(work, t, m) = "NONE"
      /\ work \in Store /\ StoreOK(work)
      /\ Agrees(work, Ahead) /\ Agrees(db, history)
  BY DEF ApplyMutation, Executing, Pushing, Inv, TypeOK, HistoryInv
<1>2. /\ m \in Mutation /\ t \in Tenant /\ (m.op = "upsert") = (m.data \in Data)
      /\ call.client \in ClientId /\ call.subject \in Subject
  BY <1>1, CurrentTyped
<1>3. /\ m.record \in RecordId /\ m.op \in {"upsert", "delete"} /\ m.table = "docs"
      /\ row \in Row /\ work.lastSeq \in Nat
  BY <1>1, <1>2 DEF Mutation, RejectionCode, Store
<1>4. ApplyEffect(work, t, m, PushSource) = d
  BY DEF ApplyEffect
<1>5. work' = w /\ db' = db /\ history' = history
  BY <1>4 DEF ApplyMutation, Settle
<1>6. data \in Data
  <2>1. Exists(work, t, m) => row.data \in Data
    BY <1>1, <1>2, <1>3 DEF Exists, StoreOK, RowsWellFormed, Row
  <2>2. m.op = "delete" => Exists(work, t, m)
    BY <1>1 DEF RejectionCode
  <2> QED
    BY <1>2, <1>3, <2>1, <2>2, MergeAssumption DEF UpsertedData
<1>7. deleted \in BOOLEAN /\ m.op = (IF deleted THEN "delete" ELSE "upsert")
  BY <1>3
<1>8. /\ PushSource \in Source
      /\ PushSource.client = call.client /\ PushSource.subject = call.subject
      /\ PushSource.mutation = m.id
  BY <1>2 DEF PushSource, Source, Mutation
<1>9. m.base # NoBase => m.base = row.revision
  BY <1>1, <1>3 DEF RejectionCode, Stale
<1>10. row.revision > 0 /\ row.deleted /\ ~deleted => m.resurrect /\ m.base # NoBase
  BY <1>1, <1>3, <1>7 DEF RejectionCode, Exists, Buried, IsDead, TombstoneNotNamed
<1> HIDE DEF data, deleted, m
<1>11. d.lastSeq = work.lastSeq + 1 /\ d.docs[t][m.record].revision = row.revision + 1
  <2>1. Recalls(work, Ahead) /\ Follows(work, Ahead)
    BY <1>1 DEF Agrees
  <2>2. \E ch : Adds(work, d, t, m.record, IF deleted THEN "delete" ELSE "upsert", PushSource, ch)
    BY <1>1, <1>2, <1>3, <1>6, <1>7, <1>8, <2>1, WriteFollows
  <2> QED
    BY <2>2 DEF Adds
<1> HIDE DEF d
<1>12. /\ e.tenant = t /\ e.client = call.client /\ e.request = m
       /\ e.status = "applied" /\ e.noOp = FALSE
       /\ e.checkpoint = work.lastSeq + 1 /\ e.revision = row.revision + 1
  BY <1>3, <1>11 DEF OutcomeOf
<1> HIDE DEF e, t
<1>13. /\ Caused(Ahead, t, PushSource.client, PushSource.mutation) = {}
       /\ \A x \in work.ledger :
            ~(x.tenant = t /\ x.client = PushSource.client /\ x.request.id = PushSource.mutation)
  BY <1>1, <1>8, NextIsFresh DEF m, t
<1>14. PushSource.subject = work.clients[t][PushSource.client].subject
  BY <1>1, <1>8 DEF OwnsClient, t
<1>15. Agrees(w, Ahead \cup w.changes) /\ work.changes \subseteq w.changes
  <2> DEFINE src == PushSource
  <2>1. /\ work \in Store /\ StoreOK(work) /\ Agrees(work, Ahead)
        /\ t \in Tenant /\ m.record \in RecordId /\ data \in Data
        /\ deleted \in BOOLEAN /\ src \in Source
    BY <1>1, <1>2, <1>3, <1>6, <1>7, <1>8
  <2>2. /\ src.client \in ClientId /\ src.subject \in Subject
        /\ src.subject = work.clients[t][src.client].subject
        /\ Caused(Ahead, t, src.client, src.mutation) = {}
        /\ \A x \in work.ledger :
             ~(x.tenant = t /\ x.client = src.client /\ x.request.id = src.mutation)
    BY <1>2, <1>8, <1>13, <1>14
  <2>3. /\ e.tenant = t /\ e.client = src.client /\ e.request.id = src.mutation
        /\ e.request.record = m.record
        /\ e.request.op = IF deleted THEN "delete" ELSE "upsert"
        /\ e.status = "applied" /\ e.noOp = FALSE
        /\ e.checkpoint = work.lastSeq + 1
        /\ e.revision = work.docs[t][m.record].revision + 1
    BY <1>7, <1>8, <1>12
  <2>4. /\ e.request.base # NoBase => e.request.base = work.docs[t][m.record].revision
        /\ work.docs[t][m.record].revision > 0 /\ work.docs[t][m.record].deleted /\ ~deleted
             => e.request.resurrect /\ e.request.base # NoBase
    BY <1>9, <1>10, <1>12
  <2> HIDE DEF src
  <2>5. Fits(work, Ahead, t, m.record, deleted, src, e)
    BY <2>2, <2>3, <2>4 DEF Fits
  <2>6. w = Record(WriteDoc(work, t, m.record, data, deleted, src), e)
    BY DEF d, src
  <2> HIDE DEF w
  <2> QED
    BY ONLY <2>1, <2>5, <2>6, AttributedAgrees
<1> HIDE DEF w
<1>16. Ahead \cup w.changes = history \cup w.changes
  BY <1>15 DEF Ahead
<1> QED
  BY <1>1, <1>5, <1>15, <1>16, HistoryInvNext

-----------------------------------------------------------------------------
(* The theorems. *)

\* At first there is nothing to tell.
LEMMA InitHistory == Init => HistoryInv
PROOF
<1> SUFFICES ASSUME Init PROVE HistoryInv
  OBVIOUS
<1>1. db = EmptyStore /\ work = EmptyStore /\ history = {} /\ Ahead = {}
  BY DEF Init, Ahead, EmptyStore
<1>2. Agrees(EmptyStore, {})
  <2>1. Follows(EmptyStore, {})
    BY DEF Follows, RowFollows, Feed, EmptyStore, Absent
  <2> QED
    BY <2>1 DEF Agrees, Recalls, EmptyStore
<1> QED
  BY <1>1, <1>2 DEF HistoryInv

\* Every step keeps it, given the invariant of the tables.
LEMMA NextKeepsHistory == Inv /\ HistoryInv /\ [Next]_vars => HistoryInv'
PROOF
<1> SUFFICES ASSUME Inv, HistoryInv, [Next]_vars PROVE HistoryInv'
  OBVIOUS
<1>1. CASE \E id \in Identity, c \in ClientId, b \in Batch : BeginPush(id, c, b)
  BY <1>1, BeginPushKeepsHistory
<1>2. CASE RejectMutation \/ AcknowledgeNoOp
  BY <1>2, OutcomeOnlyKeepsHistory
<1>3. CASE ApplyMutation
  BY <1>3, ApplyKeepsHistory
<1>4. CASE CommitPush \/ CommitAdmin \/ Rollback
  BY <1>4, TransactionEndsKeepHistory
<1>5. CASE \/ \E t \in Tenant, r \in RecordId, d \in ExternalData :
                ExternalUpsert(t, r, d)
           \/ \E t \in Tenant, r \in RecordId : ExternalDelete(t, r)
           \/ \E through \in 0 .. MaxCompact : BeginCompact(through)
  BY <1>5, AdminKeepsHistory
<1>6. CASE ReplayDuplicate \/ UNCHANGED vars
  <2>1. db' = db /\ work' = work /\ history' = history
    BY <1>6 DEF ReplayDuplicate, vars
  <2>2. history \cup work.changes = Ahead
    BY DEF Ahead
  <2> QED
    BY <2>1, <2>2, HistoryInvNext DEF HistoryInv
<1> QED
  BY <1>1, <1>2, <1>3, <1>4, <1>5, <1>6 DEF Next, PushStep

\* In every state the tables, and the tables as the transaction would leave them,
\* agree with everything that was ever committed.
THEOREM HistoryHolds == Spec => [](Inv /\ HistoryInv)
PROOF
<1>1. Init => Inv /\ HistoryInv
  BY InitInv, InitHistory
<1>2. (Inv /\ HistoryInv) /\ [Next]_vars => (Inv /\ HistoryInv)'
  BY NextKeepsInv, NextKeepsHistory
<1> QED
  BY <1>1, <1>2, PTL DEF Spec

\* The changes of every record number its revisions in feed order and end in the
\* row of docs, for pushes and direct writers alike, compacted or not.
THEOREM FeedReplaysRows == Spec => []RevisionsFollowFeed
PROOF
<1>1. HistoryInv => RevisionsFollowFeed
  BY DEF HistoryInv, Agrees, Follows, RowFollows, Feed, RevisionsFollowFeed
<1> QED
  BY <1>1, HistoryHolds, PTL

\* Exactly once: every applied outcome has its one change, every other outcome
\* none, and every attributed change its outcome.
THEOREM ExactlyOnce == Spec => []EffectsMatchOutcomes
PROOF
<1>1. ASSUME HistoryInv PROVE EffectsMatchOutcomes
  <2>1. \A e \in db.ledger : Accounted(history, e)
    BY <1>1 DEF HistoryInv, Agrees
  <2>2. \A ch \in history : Explained(db, history, ch)
    BY <1>1 DEF HistoryInv, Agrees
  <2>3. \A e : Effects(history, e) = EffectsOf(e)
    BY DEF Effects, Caused, EffectsOf
  <2>4. ASSUME NEW e \in db.ledger
        PROVE  IF e.status = "applied" /\ ~e.noOp
               THEN \E ch \in EffectsOf(e) :
                      /\ EffectsOf(e) = {ch}
                      /\ ch.seq = e.checkpoint
                      /\ ch.revision = e.revision
                      /\ ch.record = e.request.record
                      /\ ch.op = e.request.op
               ELSE EffectsOf(e) = {}
    BY <2>1, <2>3 DEF Accounted, Reports
  <2>5. ASSUME NEW ch \in history, ch.source.client # Nobody
        PROVE  \E e \in db.ledger : ch \in EffectsOf(e)
    BY <2>2, <2>3, <2>5 DEF Explained
  <2> QED
    BY <2>4, <2>5 DEF EffectsMatchOutcomes
<1> QED
  BY <1>1, HistoryHolds, PTL

\* A mutation is applied to the revision it names, past a tombstone only where it
\* says so, and by the owner of its clientId.
THEOREM OnItsTerms == Spec => []AppliedOnItsTerms
PROOF
<1>1. ASSUME HistoryInv PROVE AppliedOnItsTerms
  <2>1. \A e \in db.ledger : Accounted(history, e)
    BY <1>1 DEF HistoryInv, Agrees
  <2>2. \A ch \in history : Explained(db, history, ch)
    BY <1>1 DEF HistoryInv, Agrees
  <2>3. \A e : Effects(history, e) = EffectsOf(e)
    BY DEF Effects, Caused, EffectsOf
  <2>4. BaseRevisionHonoured
    BY <2>1, <2>3 DEF Accounted, BaseRevisionHonoured
  <2>5. NoAccidentalResurrection
    BY <2>2, <2>3 DEF Explained, Raises, Before, NoAccidentalResurrection
  <2>6. AttributionIsOwner
    BY <2>2 DEF Explained, AttributionIsOwner
  <2> QED
    BY <2>4, <2>5, <2>6 DEF AppliedOnItsTerms
<1> QED
  BY <1>1, HistoryHolds, PTL

-----------------------------------------------------------------------------
(* The refinement. *)

-----------------------------------------------------------------------------
(* A store and the log that AtomicSync has in its place. *)

Entries ==
  [tenant : Tenant, record : RecordId, op : {"upsert", "delete"}, data : Data \cup {NoData}]

Entry(ch) == [tenant |-> ch.tenant, record |-> ch.record, op |-> ch.op, data |-> ch.data]

\* The log l has the entries of H, one for every number up to n.
Logs(l, H, n) ==
  /\ l \in Seq(Entries) /\ Len(l) = n
  /\ \A i \in 1 .. n : \E ch \in H : ch.seq = i
  /\ \A ch \in H : ch.seq \in 1 .. n /\ l[ch.seq] = Entry(ch)

\* What the log says of a row is what docs says.
LogShowsRow(l, t, r, row) ==
  /\ Atomic!Revision(l, t, r) = row.revision
  /\ row.revision > 0 =>
       /\ row.deleted <=> Atomic!Deleted(l, t, r)
       /\ \E i : Atomic!LastOf(Atomic!Stored(l, t, r), i) /\ l[i].data = row.data

Shows(l, s) == \A t \in Tenant, r \in RecordId : LogShowsRow(l, t, r, s.docs[t][r])

-----------------------------------------------------------------------------
(* The operators of AtomicSync on a log that grows by an entry. *)

\* What appending does, in terms of positions.
LEMMA LogGrows ==
  ASSUME NEW l \in Seq(Entries), NEW x \in Entries
  PROVE  LET l2 == Append(l, x)
         IN /\ l2 \in Seq(Entries) /\ Len(l) \in Nat /\ Len(l2) = Len(l) + 1
            /\ \A i \in 1 .. Len(l) : l2[i] = l[i]
            /\ l2[Len(l) + 1] = x
            /\ DOMAIN l = 1 .. Len(l) /\ DOMAIN l2 = 1 .. (Len(l) + 1)
OBVIOUS

\* The module that is instantiated has a Cardinality of its own.
LEMMA SameCardinality == \A S : Atomic!Cardinality(S) = Cardinality(S)
  BY Zenon DEF Atomic!Cardinality, Cardinality

\* A record has finitely many entries, all of them positions of the log.
LEMMA WritesFinite ==
  ASSUME NEW l \in Seq(Entries), NEW t, NEW r
  PROVE  IsFiniteSet(Atomic!WritesTo(l, t, r)) /\ Atomic!WritesTo(l, t, r) \subseteq 1 .. Len(l)
PROOF
<1>1. Len(l) \in Nat /\ DOMAIN l = 1 .. Len(l)
  OBVIOUS
<1>2. Atomic!WritesTo(l, t, r) \subseteq 1 .. Len(l)
  BY <1>1 DEF Atomic!WritesTo
<1>3. IsFiniteSet(1 .. Len(l))
  BY <1>1, FS_Interval
<1> QED
  BY <1>2, <1>3, FS_Subset

\* The entries of a record grow by the last one, if it is the record's.
LEMMA WritesGrow ==
  ASSUME NEW l \in Seq(Entries), NEW x \in Entries, NEW t, NEW r
  PROVE  LET l2 == Append(l, x)
             n  == Len(l) + 1
             mine == x.tenant = t /\ x.record = r
         IN /\ Atomic!WritesTo(l2, t, r) =
                 Atomic!WritesTo(l, t, r) \cup (IF mine THEN {n} ELSE {})
            /\ Atomic!Stored(l2, t, r) =
                 Atomic!Stored(l, t, r) \cup (IF mine /\ x.op = "upsert" THEN {n} ELSE {})
PROOF
<1> DEFINE l2 == Append(l, x)
           n == Len(l) + 1
           mine == x.tenant = t /\ x.record = r
<1>1. /\ Len(l) \in Nat /\ \A i \in 1 .. Len(l) : l2[i] = l[i]
      /\ l2[n] = x /\ DOMAIN l = 1 .. Len(l) /\ DOMAIN l2 = 1 .. n
  BY LogGrows
<1> HIDE DEF l2
<1>2. \A i : i \in 1 .. n <=> i \in 1 .. Len(l) \/ i = n
  BY <1>1
<1>3. n \notin 1 .. Len(l)
  BY <1>1
<1> HIDE DEF n
<1>4. Atomic!WritesTo(l2, t, r) = Atomic!WritesTo(l, t, r) \cup (IF mine THEN {n} ELSE {})
  BY <1>1, <1>2, <1>3 DEF Atomic!WritesTo
<1>5. \A i \in Atomic!WritesTo(l, t, r) : i \in 1 .. Len(l) /\ l2[i] = l[i]
  BY <1>1 DEF Atomic!WritesTo
<1>6. n \notin Atomic!WritesTo(l, t, r)
  BY <1>3, <1>5
<1>7. Atomic!Stored(l2, t, r) =
        Atomic!Stored(l, t, r) \cup (IF mine /\ x.op = "upsert" THEN {n} ELSE {})
  BY <1>1, <1>4, <1>5, <1>6 DEF Atomic!Stored
<1> QED
  BY <1>4, <1>7 DEF l2, n

\* The entry of another row changes nothing.
LEMMA OtherRow ==
  ASSUME NEW l \in Seq(Entries), NEW x \in Entries, NEW t, NEW r, NEW row,
         ~ (x.tenant = t /\ x.record = r), LogShowsRow(l, t, r, row)
  PROVE  LogShowsRow(Append(l, x), t, r, row)
PROOF
<1> DEFINE l2 == Append(l, x)
           W == Atomic!WritesTo(l, t, r)
           S == Atomic!Stored(l, t, r)
<1>1. Atomic!WritesTo(l2, t, r) = W /\ Atomic!Stored(l2, t, r) = S
  <2> DEFINE mine == x.tenant = t /\ x.record = r
             n == Len(l) + 1
  <2>1. /\ Atomic!WritesTo(l2, t, r) = W \cup (IF mine THEN {n} ELSE {})
        /\ Atomic!Stored(l2, t, r) = S \cup (IF mine /\ x.op = "upsert" THEN {n} ELSE {})
    BY WritesGrow
  <2>2. ~ mine
    OBVIOUS
  <2> HIDE DEF W, S, n, mine, l2
  <2> QED
    BY ONLY <2>1, <2>2
<1>2. \A i \in 1 .. Len(l) : l2[i] = l[i]
  BY LogGrows
<1>3. W \subseteq 1 .. Len(l) /\ S \subseteq W
  BY WritesFinite DEF Atomic!Stored
<1> HIDE DEF l2
<1>4. Atomic!Revision(l2, t, r) = Atomic!Revision(l, t, r)
  BY <1>1 DEF Atomic!Revision
<1>5. Atomic!Deleted(l2, t, r) <=> Atomic!Deleted(l, t, r)
  BY <1>1, <1>2, <1>3 DEF Atomic!Deleted
<1>6. \A i : Atomic!LastOf(S, i) => l2[i] = l[i]
  BY <1>2, <1>3 DEF Atomic!LastOf
<1> QED
  BY <1>1, <1>4, <1>5, <1>6 DEF LogShowsRow, l2

\* The entry of a write to the row.
LEMMA SameRow ==
  ASSUME NEW l \in Seq(Entries), NEW x \in Entries, NEW t, NEW r, x.tenant = t, x.record = r,
         NEW row \in Row, NEW new \in Row,
         LogShowsRow(l, t, r, row), new.revision = row.revision + 1,
         new.deleted <=> x.op = "delete",
         x.op = "upsert" => new.data = x.data,
         x.op = "delete" => row.revision > 0 /\ new.data = row.data
  PROVE  LogShowsRow(Append(l, x), t, r, new)
PROOF
<1> DEFINE l2 == Append(l, x)
           n == Len(l) + 1
           W == Atomic!WritesTo(l, t, r)
           S == Atomic!Stored(l, t, r)
<1>1. /\ Atomic!WritesTo(l2, t, r) = W \cup {n}
      /\ Atomic!Stored(l2, t, r) = S \cup (IF x.op = "upsert" THEN {n} ELSE {})
  BY WritesGrow
<1>2. Len(l) \in Nat /\ (\A i \in 1 .. Len(l) : l2[i] = l[i]) /\ l2[n] = x
  BY LogGrows
<1>3. W \subseteq 1 .. Len(l) /\ S \subseteq W /\ IsFiniteSet(W)
  BY WritesFinite DEF Atomic!Stored
<1>8. Cardinality(W) = row.revision
  BY SameCardinality DEF LogShowsRow, Atomic!Revision
<1>9. row.revision > 0 => \E i : Atomic!LastOf(S, i) /\ l[i].data = row.data
  BY DEF LogShowsRow
<1>10. n \in Nat /\ \A i \in W : i \in Nat /\ i < n /\ i \in 1 .. Len(l)
  BY <1>2, <1>3
<1>11. \A i \in S : i \in Nat /\ i <= n
  BY <1>3, <1>10
<1> HIDE DEF l2, n, W, S
<1>4. n \notin W /\ \A i \in W : i < n /\ l2[i] = l[i]
  BY <1>2, <1>10
<1>5. Atomic!Revision(l2, t, r) = new.revision
  <2>1. Cardinality(W \cup {n}) = Cardinality(W) + 1
    BY <1>3, <1>4, FS_AddElement
  <2> QED
    BY <1>1, <1>8, <2>1, SameCardinality DEF Atomic!Revision
<1>6. Atomic!Deleted(l2, t, r) <=> x.op = "delete"
  <2>1. Atomic!LastOf(W \cup {n}, n)
    BY <1>10 DEF Atomic!LastOf
  <2>2. \A i : Atomic!LastOf(W \cup {n}, i) => i = n
    BY <1>10 DEF Atomic!LastOf
  <2> QED
    BY <1>1, <1>2, <2>1, <2>2 DEF Atomic!Deleted, Atomic!LastOf
<1>7. \E i : Atomic!LastOf(Atomic!Stored(l2, t, r), i) /\ l2[i].data = new.data
  <2>1. CASE x.op = "upsert"
    <3>1. Atomic!LastOf(S \cup {n}, n)
      BY <1>10, <1>11 DEF Atomic!LastOf
    <3> QED
      BY <1>1, <1>2, <2>1, <3>1
  <2>2. CASE x.op = "delete"
    <3>1. PICK i : Atomic!LastOf(S, i) /\ l[i].data = row.data
      BY <1>9, <2>2
    <3>2. i \in W
      BY <1>3, <3>1 DEF Atomic!LastOf
    <3> QED
      BY <1>1, <1>4, <2>2, <3>1, <3>2
  <2> QED
    BY <2>1, <2>2 DEF Entries
<1> QED
  BY <1>5, <1>6, <1>7 DEF LogShowsRow, l2

\* A log that has the entries of a history is the log of that history.
LEMMA LogIs ==
  ASSUME NEW l, NEW H, NEW n \in Nat, Logs(l, H, n)
  PROVE  LogOf(H, n) = l
PROOF
<1>1. l \in Seq(Entries) /\ Len(l) = n
  BY DEF Logs
<1>2. ASSUME NEW i \in 1 .. n
      PROVE  LogOf(H, n)[i] = l[i]
  <2> DEFINE ch == CHOOSE ch \in H : ch.seq = i
  <2>1. ch \in H /\ ch.seq = i
    BY DEF Logs
  <2>2. LogOf(H, n)[i] = Entry(ch)
    BY DEF LogOf, Entry
  <2> HIDE DEF ch
  <2>3. l[ch.seq] = Entry(ch)
    BY <2>1 DEF Logs
  <2> QED
    BY <2>1, <2>2, <2>3
<1>3. DOMAIN LogOf(H, n) = 1 .. n /\ LogOf(H, n) = [i \in 1 .. n |-> LogOf(H, n)[i]]
  BY DEF LogOf
<1>4. l = [i \in 1 .. n |-> l[i]]
  BY <1>1
<1> HIDE DEF Logs
<1> QED
  BY ONLY <1>2, <1>3, <1>4

\* One captured write is one entry.
LEMMA WriteIsEntry ==
  ASSUME NEW s \in Store, StoreOK(s), NEW H, Recalls(s, H), NEW l,
         Logs(l, H, s.lastSeq), Shows(l, s),
         NEW t \in Tenant, NEW r \in RecordId, NEW data \in Data, NEW deleted \in BOOLEAN,
         NEW src \in Source,
         deleted => s.docs[t][r].revision > 0 /\ data = s.docs[t][r].data,
         NEW x, x = [tenant |-> t, record |-> r, op |-> IF deleted THEN "delete" ELSE "upsert",
                     data |-> IF deleted THEN NoData ELSE data]
  PROVE  LET w == WriteDoc(s, t, r, data, deleted, src)
         IN
         /\ x \in Entries
         /\ Logs(Append(l, x), H \cup w.changes, w.lastSeq)
         /\ Shows(Append(l, x), w)
         /\ w \in Store /\ w.ledger = s.ledger /\ w.clients = s.clients
         /\ s.changes \subseteq w.changes
PROOF
<1> DEFINE w     == WriteDoc(s, t, r, data, deleted, src)
           rev   == s.records[t][r].revision + 1
           shown == IF deleted THEN NoData ELSE data
           op    == IF deleted THEN "delete" ELSE "upsert"
           new   == [revision |-> s.docs[t][r].revision + 1, data |-> data, deleted |-> deleted]
           mirror == [revision |-> rev, data |-> shown, deleted |-> deleted]
           ch    == [seq |-> s.lastSeq + 1, tenant |-> t, record |-> r,
                     op |-> IF deleted THEN "delete" ELSE "upsert",
                     data |-> shown, revision |-> rev, source |-> src]
           l2    == Append(l, x)
           n     == s.lastSeq
<1>1. /\ w \in Store
      /\ w.ledger = s.ledger
      /\ w.clients = s.clients
      /\ w.minSeq = s.minSeq
      /\ w.lastSeq = s.lastSeq + 1
      /\ w.docs = [s.docs EXCEPT ![t][r] = new]
      /\ w.records = [s.records EXCEPT ![t][r] = mirror]
      /\ w.changes = s.changes \cup {ch}
  BY WriteDocFields
<1>2. /\ s.docs \in [Tenant -> [RecordId -> Row]] /\ s.docs[t][r] \in Row /\ s.lastSeq \in Nat
  BY DEF Store
<1>3. x \in Entries /\ new \in Row
  BY <1>2 DEF Entries, Row
<1>4. ch.seq = n + 1 /\ Entry(ch) = x
  BY DEF Entry
<1>5. /\ l \in Seq(Entries) /\ Len(l) = n /\ n \in Nat
      /\ (\A i \in 1 .. n : \E c \in H : c.seq = i)
      /\ \A c \in H : c.seq \in 1 .. n /\ l[c.seq] = Entry(c)
  BY <1>2 DEF Logs
<1>6. /\ l2 \in Seq(Entries) /\ Len(l2) = n + 1
      /\ (\A i \in 1 .. n : l2[i] = l[i]) /\ l2[n + 1] = x
  BY <1>3, <1>5, LogGrows
<1>7. H \cup w.changes = H \cup {ch}
  BY <1>1 DEF Recalls
<1>8. \A u \in Tenant, q \in RecordId :
        w.docs[u][q] = IF u = t /\ q = r THEN new ELSE s.docs[u][q]
  BY <1>1, <1>2
<1>9. /\ new.revision = s.docs[t][r].revision + 1 /\ new.deleted = deleted /\ new.data = data
      /\ x.tenant = t /\ x.record = r /\ x.op = op /\ x.data = shown
  OBVIOUS
<1> HIDE DEF w, ch, new, n
<1>10. Logs(l2, H \cup {ch}, n + 1)
  <2>1. \A i \in 1 .. (n + 1) : i \in 1 .. n \/ i = n + 1
    BY <1>5
  <2>2. \A i \in 1 .. (n + 1) : \E c \in H \cup {ch} : c.seq = i
    BY <1>4, <1>5, <2>1
  <2>3. \A c \in H \cup {ch} : c.seq \in 1 .. (n + 1) /\ l2[c.seq] = Entry(c)
    BY <1>4, <1>5, <1>6
  <2> HIDE DEF l2
  <2> QED
    BY <1>6, <2>2, <2>3 DEF Logs
<1>11. ASSUME NEW u \in Tenant, NEW q \in RecordId
       PROVE  LogShowsRow(l2, u, q, w.docs[u][q])
  <2>1. LogShowsRow(l, u, q, s.docs[u][q])
    BY DEF Shows
  <2>2. CASE u = t /\ q = r
    <3>1. LogShowsRow(l, t, r, s.docs[t][r])
      BY <2>1, <2>2
    <3>2. /\ new.deleted <=> x.op = "delete"
          /\ x.op = "upsert" => new.data = x.data
          /\ x.op = "delete" => s.docs[t][r].revision > 0 /\ new.data = s.docs[t][r].data
      BY <1>9
    <3>3. LogShowsRow(Append(l, x), t, r, new)
      BY ONLY <1>2, <1>3, <1>5, <1>9, <3>1, <3>2, SameRow
    <3> QED
      BY <1>8, <2>2, <3>3
  <2>3. CASE ~ (u = t /\ q = r)
    <3>1. LogShowsRow(Append(l, x), u, q, s.docs[u][q])
      BY <1>3, <1>5, <1>9, <2>1, <2>3, OtherRow
    <3> QED
      BY <1>8, <2>3, <3>1
  <2> QED
    BY <2>2, <2>3
<1>12. Shows(l2, w)
  BY <1>11 DEF Shows
<1> QED
  BY <1>1, <1>3, <1>7, <1>10, <1>12 DEF n, w

-----------------------------------------------------------------------------
(* What AtomicSync makes of one mutation. *)

\* The document of a stored row.
LEMMA DocumentIs ==
  ASSUME NEW l \in Seq(Entries), NEW t, NEW r, NEW row \in Row, row.revision > 0,
         LogShowsRow(l, t, r, row)
  PROVE  Atomic!Document(l, t, r) = row.data
PROOF
<1> DEFINE S == Atomic!Stored(l, t, r)
           j == CHOOSE i \in S : Atomic!LastOf(S, i)
<1>1. PICK i : Atomic!LastOf(S, i) /\ l[i].data = row.data
  BY DEF LogShowsRow
<1>2. S \subseteq 1 .. Len(l) /\ Len(l) \in Nat
  BY WritesFinite DEF Atomic!Stored
<1>3. i \in S /\ Atomic!LastOf(S, j) /\ j \in S
  BY <1>1 DEF Atomic!LastOf
<1>4. Atomic!Document(l, t, r) = l[j].data
  BY DEF Atomic!Document
<1> HIDE DEF S, j
<1>5. i = j
  <2>1. i <= j /\ j <= i
    BY <1>1, <1>3 DEF Atomic!LastOf
  <2>2. i \in Nat /\ j \in Nat
    BY <1>2, <1>3
  <2> QED
    BY <2>1, <2>2
<1> QED
  BY <1>1, <1>4, <1>5

\* What applyMutation makes of a mutation, in the words of AtomicSync.
VerdictOf(s, t, m) ==
  IF RejectionCode(s, t, m) # "NONE" THEN RejectionCode(s, t, m)
  ELSE IF IsNoOp(s, t, m) THEN "no-op" ELSE "write"

\* AtomicSync decides on the log what applyMutation decides on the row.
LEMMA VerdictIs ==
  ASSUME NEW s \in Store, RowsWellFormed(s), NEW l, Shows(l, s),
         NEW t \in Tenant, NEW m \in Mutation
  PROVE  Atomic!Verdict(l, t, m) = VerdictOf(s, t, m)
PROOF
<1> DEFINE row == s.docs[t][m.record]
           rev == Atomic!Revision(l, t, m.record)
           dead == Atomic!Deleted(l, t, m.record)
           fits == m.base \in {Atomic!NoBase, rev}
<1>1. m.record \in RecordId /\ m.op \in {"upsert", "delete"} /\ m.resurrect \in BOOLEAN
  BY DEF Mutation
<1>2. row \in Row /\ rev = row.revision /\ row.revision \in Nat
  BY <1>1 DEF Store, Row, Shows, LogShowsRow
<1>3. rev > 0 => (row.deleted <=> dead)
  BY <1>1, <1>2 DEF Shows, LogShowsRow
<1>4. rev = 0 => ~ row.deleted
  <2>1. rev = 0 => row = Absent
    BY <1>1, <1>2 DEF RowsWellFormed
  <2> QED
    BY <2>1 DEF Absent
<1>5. /\ Exists(s, t, m) <=> rev > 0
      /\ IsDead(s, t, m) <=> row.deleted
      /\ Stale(s, t, m) <=> ~ fits
  BY <1>2 DEF Exists, IsDead, Stale, NoBase, Atomic!NoBase
<1>6. Atomic!Verdict(l, t, m) =
        IF m.table # "docs" THEN "UNSUPPORTED_TABLE"
        ELSE IF rev = 0 THEN IF m.op = "upsert" /\ fits THEN "write" ELSE "NOT_FOUND"
        ELSE IF ~ fits THEN "REVISION_CONFLICT"
        ELSE IF ~ dead THEN "write"
        ELSE IF m.op = "delete" THEN "no-op"
        ELSE IF ~ m.resurrect THEN "TOMBSTONED"
        ELSE IF m.base = Atomic!NoBase THEN "REVISION_REQUIRED" ELSE "write"
  BY <1>1, <1>2 DEF Atomic!Verdict
<1> HIDE DEF row, rev, dead, fits
<1> QED
  BY <1>1, <1>2, <1>3, <1>4, <1>5, <1>6
     DEF VerdictOf, RejectionCode, IsNoOp, Buried, TombstoneNotNamed, NoBase, Atomic!NoBase

\* The entry of an accepted mutation.
EntryOf(s, t, m) ==
  [tenant |-> t, record |-> m.record, op |-> m.op,
   data |-> IF m.op = "delete" THEN NoData ELSE UpsertedData(s, t, m)]

\* An accepted mutation writes to the log what it writes to the row.
LEMMA WrittenIs ==
  ASSUME NEW s \in Store, NEW l \in Seq(Entries), Shows(l, s),
         NEW t \in Tenant, NEW m \in Mutation
  PROVE  Atomic!Written(l, t, m) = EntryOf(s, t, m)
PROOF
<1> DEFINE row == s.docs[t][m.record]
<1>1. m.record \in RecordId
  BY DEF Mutation
<1>2. row \in Row /\ row.revision \in Nat /\ LogShowsRow(l, t, m.record, row)
  BY <1>1 DEF Store, Row, Shows
<1>3. Atomic!Revision(l, t, m.record) = row.revision
  BY <1>2 DEF LogShowsRow
<1>4. row.revision > 0 => Atomic!Document(l, t, m.record) = row.data
  BY <1>2, DocumentIs
<1> QED
  BY <1>2, <1>3, <1>4 DEF Atomic!Written, EntryOf, UpsertedData, Exists

-----------------------------------------------------------------------------
(* A ledger and the outcomes that AtomicSync has in its place. *)

\* An outcome in the words of AtomicSync.
Told(e) ==
  [request |-> e.request,
   verdict |-> IF e.status = "rejected" THEN e.code
               ELSE IF e.noOp THEN "no-op" ELSE "write"]

Outcomes == [request : Mutation, verdict : Code \cup {"no-op", "write"}]

\* d has what the ledger of s says of the first n mutations of client c, who has
\* no others there.
Tells(d, s, t, c, n) ==
  /\ d \in Seq(Outcomes) /\ Len(d) = n
  /\ \A i \in 1 .. n : Prior(s, t, c, i) # {}
  /\ \A e \in s.ledger :
       e.tenant = t /\ e.client = c => e.request.id \in 1 .. n /\ d[e.request.id] = Told(e)

\* The outcomes a ledger tells are those of the refinement mapping.
LEMMA OutcomesIs ==
  ASSUME NEW d, NEW s, NEW t, NEW c, NEW n \in Nat, Tells(d, s, t, c, n)
  PROVE  OutcomesOf(s, t, c, n) = d
PROOF
<1>1. d \in Seq(Outcomes) /\ Len(d) = n
  BY DEF Tells
<1>2. ASSUME NEW i \in 1 .. n
      PROVE  OutcomesOf(s, t, c, n)[i] = d[i]
  <2> DEFINE e == CHOOSE e \in Prior(s, t, c, i) : TRUE
  <2>1. e \in Prior(s, t, c, i)
    BY DEF Tells
  <2>2. OutcomesOf(s, t, c, n)[i] = Told(e)
    BY DEF OutcomesOf, Told
  <2> HIDE DEF e
  <2>3. e \in s.ledger /\ e.tenant = t /\ e.client = c /\ e.request.id = i
    BY <2>1 DEF Prior
  <2>4. d[e.request.id] = Told(e)
    BY <2>3 DEF Tells
  <2> QED
    BY <2>2, <2>3, <2>4
<1>3. DOMAIN OutcomesOf(s, t, c, n) = 1 .. n
      /\ OutcomesOf(s, t, c, n) = [i \in 1 .. n |-> OutcomesOf(s, t, c, n)[i]]
  BY DEF OutcomesOf
<1>4. d = [i \in 1 .. n |-> d[i]]
  BY <1>1
<1> QED
  BY ONLY <1>2, <1>3, <1>4

\* The outcomes of a dense ledger tell it.
LEMMA DenseTells ==
  ASSUME NEW s \in Store, NEW last, LedgerDense(s, last),
         NEW t \in Tenant, NEW c \in ClientId, last[t][c] \in Nat
  PROVE  Tells(OutcomesOf(s, t, c, last[t][c]), s, t, c, last[t][c])
PROOF
<1> DEFINE n == last[t][c]
           d == OutcomesOf(s, t, c, n)
           E(i) == CHOOSE e \in Prior(s, t, c, i) : TRUE
<1>1. n \in Nat /\ \A i \in 1 .. n : Prior(s, t, c, i) # {}
  BY DEF LedgerDense
<1>2. \A i \in 1 .. n : E(i) \in Prior(s, t, c, i)
  BY <1>1
<1>3. d = [i \in 1 .. n |-> Told(E(i))]
  BY DEF OutcomesOf, Told
<1>4. \A i \in 1 .. n : d[i] = Told(E(i))
  BY <1>3
<1> HIDE DEF E
<1>5. s.ledger \subseteq Outcome
  BY DEF Store
<1>6. ASSUME NEW e \in Outcome PROVE Told(e) \in Outcomes
  BY DEF Told, Outcomes, Outcome
<1>7. \A i \in 1 .. n : Told(E(i)) \in Outcomes
  BY <1>2, <1>5, <1>6 DEF Prior
<1>8. d \in Seq(Outcomes) /\ Len(d) = n
  <2> HIDE DEF n, d
  <2> QED
    BY <1>1, <1>3, <1>7
<1>9. ASSUME NEW e \in s.ledger, e.tenant = t, e.client = c
      PROVE  e.request.id \in 1 .. n /\ d[e.request.id] = Told(e)
  <2>1. e.request.id \in Nat \ {0} /\ e.request.id <= last[e.tenant][e.client]
    BY <1>5 DEF LedgerDense, Outcome, Mutation
  <2>2. e.request.id \in 1 .. n
    BY <1>1, <1>9, <2>1
  <2> DEFINE f == E(e.request.id)
  <2>3. f \in s.ledger /\ f.tenant = t /\ f.client = c /\ f.request.id = e.request.id
    BY <1>2, <2>2 DEF Prior
  <2> HIDE DEF f
  <2>4. f = e
    BY <1>9, <2>3 DEF LedgerDense
  <2> QED
    BY <1>4, <2>2, <2>4 DEF f
<1> HIDE DEF d, n
<1> QED
  BY <1>1, <1>8, <1>9 DEF Tells, n, d

\* The next outcome of the client.
LEMMA TellsNext ==
  ASSUME NEW d, NEW s \in Store, NEW t, NEW c, NEW n \in Nat, Tells(d, s, t, c, n),
         NEW e \in Outcome, e.tenant = t, e.client = c, e.request.id = n + 1,
         NEW w, w.ledger = s.ledger \cup {e}
  PROVE  Told(e) \in Outcomes /\ Tells(Append(d, Told(e)), w, t, c, n + 1)
PROOF
<1> DEFINE x == Told(e)
           d2 == Append(d, x)
<1>1. x \in Outcomes
  BY DEF Told, Outcomes, Outcome
<1>2. d \in Seq(Outcomes) /\ Len(d) = n /\ n \in Nat
  BY DEF Tells
<1>3. /\ d2 \in Seq(Outcomes) /\ Len(d2) = n + 1
      /\ (\A i \in 1 .. n : d2[i] = d[i]) /\ d2[n + 1] = x
  <2> HIDE DEF x
  <2> QED
    BY <1>1, <1>2
<1> HIDE DEF d2
<1>4. \A i \in 1 .. (n + 1) : i \in 1 .. n \/ i = n + 1
  OBVIOUS
<1>5. \A i \in 1 .. (n + 1) : Prior(w, t, c, i) # {}
  <2>1. e \in Prior(w, t, c, n + 1)
    BY DEF Prior
  <2>2. \A i \in 1 .. n : Prior(s, t, c, i) # {} /\ Prior(s, t, c, i) \subseteq Prior(w, t, c, i)
    BY DEF Tells, Prior
  <2> QED
    BY <1>4, <2>1, <2>2
<1>6. ASSUME NEW f \in w.ledger, f.tenant = t, f.client = c
      PROVE  f.request.id \in 1 .. (n + 1) /\ d2[f.request.id] = Told(f)
  <2>1. CASE f = e
    BY <1>3, <2>1
  <2>2. CASE f \in s.ledger
    <3>1. f.request.id \in 1 .. n /\ d[f.request.id] = Told(f)
      BY <1>6, <2>2 DEF Tells
    <3> QED
      BY <1>3, <3>1
  <2> QED
    BY <2>1, <2>2
<1>7. Tells(d2, w, t, c, n + 1)
  BY <1>3, <1>5, <1>6 DEF Tells
<1> QED
  BY <1>1, <1>7 DEF d2

\* What does not touch the ledger leaves what it tells.
LEMMA TellsSame ==
  ASSUME NEW d, NEW s, NEW w, NEW t, NEW c, NEW n, Tells(d, s, t, c, n), w.ledger = s.ledger
  PROVE  Tells(d, w, t, c, n)
BY DEF Tells, Prior

-----------------------------------------------------------------------------
(* The running transaction.  In a push, g[i] is what AtomicSync makes of the *)
(* first i mutations of batch b, k of which the loop has been through.       *)

\* st is what the transaction of the push has made of log and outcomes.
Stands(st, s, H, t, c, n) ==
  /\ st = [log |-> st.log, done |-> st.done, ok |-> TRUE]
  /\ Logs(st.log, H, s.lastSeq) /\ Shows(st.log, s)
  /\ Tells(st.done, s, t, c, n)

\* From start, mutation by mutation.
Walk(t, start, b, k, g) ==
  g[0] = start /\ \A i \in 1 .. k : g[i] = Atomic!Step(t, g[i - 1], b[i])

\* The mutations that are left are those from the k-th on.
RestOfBatch(todo, b, k) ==
  Len(todo) = Len(b) - k /\ \A i \in 1 .. Len(todo) : todo[i] = b[k + i]

\* The push of cl, a transaction that has made w of the tables d, with H for a history;
\* AtomicSync is at start.
PushIs(cl, d, w, H, start, id, c, b, k, g) ==
  /\ c \in id.clientIds
  /\ cl.tenant = id.tenant /\ cl.client = c /\ cl.subject = id.subject
  /\ w.clients = ClaimClient(d, id.tenant, c, id.subject).clients
  /\ RestOfBatch(cl.todo, b, k)
  /\ Walk(id.tenant, start, b, k, g)
  /\ Stands(g[k], w, H, id.tenant, c, cl.last)

\* Where AtomicSync stands before the push of client c.
Start(l, o, t, c) == [log |-> l, done |-> o[t][c], ok |-> TRUE]

PushAt(cl, d, w, H, l, o) ==
  \E id \in Identity, c \in ClientId, b \in Batch : \E k \in 0 .. Len(b) : \E g :
    PushIs(cl, d, w, H, Start(l, o, id.tenant, c), id, c, b, k, g)

\* Direct SQL is one entry more.
Writes(l, x) ==
  \/ \E t \in Tenant, r \in RecordId, d \in ExternalData :
       x = [tenant |-> t, record |-> r, op |-> "upsert", data |-> d]
  \/ \E t \in Tenant, r \in RecordId :
       /\ Atomic!Revision(l, t, r) > 0
       /\ x = [tenant |-> t, record |-> r, op |-> "delete", data |-> NoData]

\* A direct writer has made w of d.
ExternalAt(d, w, H, l) ==
  \E x : /\ Writes(l, x)
         /\ Logs(Append(l, x), H, w.lastSeq) /\ Shows(Append(l, x), w)
         /\ w.ledger = d.ledger /\ w.clients = d.clients

\* A compaction has.
CompactOnly(d, w) ==
  /\ w.lastSeq = d.lastSeq /\ w.changes \subseteq d.changes
  /\ w.docs = d.docs /\ w.ledger = d.ledger /\ w.clients = d.clients

\* The log shows the committed tables, and what has been done to them is on its way to
\* one step of AtomicSync.
RefInv ==
  /\ Logs(AbstractLog, history, db.lastSeq) /\ Shows(AbstractLog, db)
  /\ holder = "push" => PushAt(call, db, work, Ahead, AbstractLog, AbstractOutcome)
  /\ holder = "external" => ExternalAt(db, work, Ahead, AbstractLog)
  /\ holder = "compact" => CompactOnly(db, work)

-----------------------------------------------------------------------------
(* The fold over a batch. *)

\* The equation of the recursive function of Through.
Folds(h, t, start, b) ==
  h = [i \in 0 .. Len(b) |-> IF i = 0 THEN start ELSE Atomic!Step(t, h[i - 1], b[i])]

\* It has one solution at most: two would differ at a first mutation.
LEMMA OneFold ==
  ASSUME NEW g, NEW h, NEW t, NEW start, NEW b, Len(b) \in Nat,
         Folds(g, t, start, b), Folds(h, t, start, b)
  PROVE  g[Len(b)] = h[Len(b)]
PROOF
<1> DEFINE T == {i \in 0 .. Len(b) : g[i] # h[i]}
<1>1. ASSUME T # {} PROVE FALSE
  <2>1. PICK m \in T : \A n \in T : m <= n
    <3>1. T \subseteq Nat
      OBVIOUS
    <3> HIDE DEF T
    <3> QED
      BY <1>1, <3>1, LeastNatural
  <2>2. g[0] = start /\ h[0] = start
    BY DEF Folds
  <2>3. m \in 1 .. Len(b) /\ g[m] # h[m]
    BY <2>1, <2>2
  <2>4. m - 1 \in 0 .. Len(b) /\ m - 1 \notin T
    <3>1. m - 1 \in 0 .. Len(b) /\ ~ (m <= m - 1)
      BY <2>3
    <3> HIDE DEF T
    <3> QED
      BY <2>1, <3>1
  <2>5. g[m - 1] = h[m - 1]
    BY <2>4
  <2>6. g[m] = Atomic!Step(t, g[m - 1], b[m]) /\ h[m] = Atomic!Step(t, h[m - 1], b[m])
    BY <2>3 DEF Folds
  <2> HIDE DEF T
  <2> QED
    BY ONLY <2>3, <2>5, <2>6
<1> QED
  BY <1>1

\* A loop that has been through the whole batch has come to the end of the fold.
LEMMA WalkIsFold ==
  ASSUME NEW t, NEW start, NEW b, NEW g, Len(b) \in Nat, Walk(t, start, b, Len(b), g)
  PROVE  Atomic!Through(t, start, b) = g[Len(b)]
PROOF
<1> DEFINE n == Len(b)
           w == [i \in 0 .. n |-> g[i]]
           h == CHOOSE h : Folds(h, t, start, b)
<1>1. g[0] = start /\ \A i \in 1 .. n : g[i] = Atomic!Step(t, g[i - 1], b[i])
  BY DEF Walk
<1>2. Folds(w, t, start, b)
  <2>1. \A i \in 0 .. n : w[i] = g[i]
    OBVIOUS
  <2>2. ASSUME NEW i \in 0 .. n
        PROVE  w[i] = IF i = 0 THEN start ELSE Atomic!Step(t, w[i - 1], b[i])
    <3>1. CASE i = 0
      BY <1>1, <2>1, <3>1
    <3>2. CASE i # 0
      <4>1. i \in 1 .. n /\ i - 1 \in 0 .. n
        BY <3>2
      <4>2. w[i] = g[i] /\ w[i - 1] = g[i - 1]
        BY <2>1, <4>1
      <4> HIDE DEF w, n
      <4> QED
        BY ONLY <1>1, <3>2, <4>1, <4>2
    <3> QED
      BY <3>1, <3>2
  <2>3. w = [i \in 0 .. n |-> w[i]]
    OBVIOUS
  <2> HIDE DEF w
  <2> QED
    BY ONLY <2>2, <2>3 DEF Folds
<1>3. Folds(h, t, start, b)
  BY <1>2
<1>4. Atomic!Through(t, start, b) = h[n]
  BY DEF Atomic!Through, Folds
<1>5. h[n] = w[n]
  <2> HIDE DEF h, w
  <2> QED
    BY <1>2, <1>3, OneFold
<1>6. w[n] = g[n]
  OBVIOUS
<1> QED
  BY <1>4, <1>5, <1>6

-----------------------------------------------------------------------------
(* One iteration of the loop. *)

\* A mutation that the client has an outcome for changes nothing.
LEMMA StepReplay ==
  ASSUME NEW st, NEW s, NEW H, NEW t, NEW c, NEW n \in Nat, Stands(st, s, H, t, c, n),
         NEW m, m.id \in 1 .. n, st.done[m.id].request = m
  PROVE  Atomic!Step(t, st, m) = st
PROOF
<1>1. st = [log |-> st.log, done |-> st.done, ok |-> TRUE] /\ Len(st.done) = n
  BY DEF Stands, Tells
<1>2. m.id <= Len(st.done)
  BY <1>1
<1>3. Atomic!Step(t, st, m) = [st EXCEPT !.ok = @ /\ st.done[m.id].request = m]
  BY <1>2 DEF Atomic!Step
<1>4. (st.ok /\ st.done[m.id].request = m) = TRUE
  BY <1>1
<1> QED
  BY <1>1, <1>3, <1>4

\* The next mutation has its outcome, and its entry if it is accepted.
LEMMA StepNext ==
  ASSUME NEW st, NEW s, NEW H, NEW t, NEW c, NEW n \in Nat, Stands(st, s, H, t, c, n),
         NEW m, m.id = n + 1, NEW v, v = Atomic!Verdict(st.log, t, m)
  PROVE  Atomic!Step(t, st, m) =
           [log  |-> IF v = "write" THEN Append(st.log, Atomic!Written(st.log, t, m)) ELSE st.log,
            done |-> Append(st.done, [request |-> m, verdict |-> v]),
            ok   |-> TRUE]
PROOF
<1>1. st = [log |-> st.log, done |-> st.done, ok |-> TRUE] /\ Len(st.done) = n
  BY DEF Stands, Tells
<1>2. ~ (m.id <= Len(st.done)) /\ m.id = Len(st.done) + 1
  BY <1>1
<1>3. Atomic!Step(t, st, m) =
        [log  |-> IF v = "write" THEN Append(st.log, Atomic!Written(st.log, t, m)) ELSE st.log,
         done |-> Append(st.done, [request |-> m, verdict |-> v]),
         ok   |-> st.ok]
  BY <1>2 DEF Atomic!Step
<1>4. st.ok = TRUE
  BY <1>1
<1> QED
  BY ONLY <1>3, <1>4

\* The walk of the loop goes on by one mutation.
LEMMA WalkGoesOn ==
  ASSUME NEW t, NEW start, NEW b, NEW k \in Nat, NEW g, Walk(t, start, b, k, g),
         NEW st, st = Atomic!Step(t, g[k], b[k + 1])
  PROVE  \E h : Walk(t, start, b, k + 1, h) /\ h[k + 1] = st
PROOF
<1> DEFINE h == [i \in 0 .. (k + 1) |-> IF i = k + 1 THEN st ELSE g[i]]
<1>1. h[k + 1] = st /\ \A i \in 0 .. k : h[i] = g[i]
  OBVIOUS
<1> HIDE DEF h
<1>2. h[0] = start
  BY <1>1 DEF Walk
<1>3. ASSUME NEW i \in 1 .. (k + 1)
      PROVE  h[i] = Atomic!Step(t, h[i - 1], b[i])
  <2>1. i - 1 \in 0 .. k
    OBVIOUS
  <2>2. h[i - 1] = g[i - 1]
    BY <1>1, <2>1
  <2>3. CASE i = k + 1
    <3>1. i - 1 = k
      BY <2>3
    <3> QED
      BY ONLY <1>1, <2>2, <2>3, <3>1, st = Atomic!Step(t, g[k], b[k + 1])
  <2>4. CASE i # k + 1
    <3>1. i \in 1 .. k /\ i \in 0 .. k
      BY <2>4
    <3>2. g[i] = Atomic!Step(t, g[i - 1], b[i])
      BY <3>1 DEF Walk
    <3> QED
      BY <1>1, <2>2, <3>1, <3>2
  <2> QED
    BY <2>3, <2>4
<1> QED
  BY <1>1, <1>2, <1>3 DEF Walk
-----------------------------------------------------------------------------
(* The steps of a transaction. *)

\* What is seen of a state is what is committed.
LEMMA SeenSame ==
  ASSUME db' = db, history' = history
  PROVE  /\ AbstractLog' = AbstractLog /\ AbstractOutcome' = AbstractOutcome
         /\ AbstractOwner' = AbstractOwner
BY DEF AbstractLog, AbstractOutcome, AbstractOwner

\* A state in which nobody holds the lock, by the log of its tables.
LEMMA QuietRefInv ==
  ASSUME NEW d, NEW H, NEW l, db' = d, history' = H, d.lastSeq \in Nat, holder' = "none",
         Logs(l, H, d.lastSeq), Shows(l, d)
  PROVE  RefInv' /\ AbstractLog' = l
PROOF
<1>1. LogOf(H, d.lastSeq) = l
  BY LogIs
<1>2. AbstractLog' = l
  BY <1>1 DEF AbstractLog
<1>3. Logs(AbstractLog, history, db.lastSeq)' /\ Shows(AbstractLog, db)'
  BY <1>2
<1> QED
  BY <1>2, <1>3 DEF RefInv

\* Empty tables are an empty log.
LEMMA InitRefInv == Init => RefInv /\ Atomic!AInit
PROOF
<1> SUFFICES ASSUME Init PROVE RefInv /\ Atomic!AInit
  OBVIOUS
<1>1. db = EmptyStore /\ work = EmptyStore /\ history = {} /\ holder = "none"
  BY DEF Init
<1>2. <<>> \in Seq(Entries) /\ Len(<<>>) = 0 /\ 1 .. 0 = {}
  OBVIOUS
<1>3. Logs(<<>>, {}, 0)
  BY <1>2 DEF Logs
<1>4. AbstractLog = <<>>
  BY <1>1, <1>3, LogIs DEF AbstractLog, EmptyStore
<1>5. ASSUME NEW t \in Tenant, NEW r \in RecordId
      PROVE  LogShowsRow(<<>>, t, r, EmptyStore.docs[t][r])
  <2>1. Atomic!WritesTo(<<>>, t, r) = {}
    BY DEF Atomic!WritesTo
  <2>2. Atomic!Revision(<<>>, t, r) = 0
    BY <2>1, SameCardinality, FS_EmptySet DEF Atomic!Revision
  <2>3. EmptyStore.docs[t][r].revision = 0
    BY DEF EmptyStore, Absent
  <2> QED
    BY <2>2, <2>3 DEF LogShowsRow
<1>6. Shows(<<>>, EmptyStore)
  BY <1>5 DEF Shows
<1>7. RefInv
  BY <1>1, <1>3, <1>4, <1>6 DEF RefInv, EmptyStore
<1>8. \A t \in Tenant, c \in ClientId :
        /\ EmptyStore.clients[t][c].last = 0 /\ EmptyStore.clients[t][c].subject = Nobody
  BY DEF EmptyStore, Unclaimed
<1>9. AbstractOwner = [t \in Tenant |-> [c \in ClientId |-> Nobody]]
  BY <1>1, <1>8 DEF AbstractOwner
<1>10. \A t \in Tenant, c \in ClientId : OutcomesOf(EmptyStore, t, c, 0) = <<>>
  BY DEF OutcomesOf
<1>11. AbstractOutcome = [t \in Tenant |-> [c \in ClientId |-> <<>>]]
  BY <1>1, <1>8, <1>10 DEF AbstractOutcome
<1> QED
  BY <1>4, <1>7, <1>9, <1>11 DEF Atomic!AInit

\* A push begins where AtomicSync stands, before the first mutation.
LEMMA BeginPushKeepsRef ==
  ASSUME Inv, HistoryInv, RefInv, NEW id \in Identity, NEW c \in ClientId, NEW b \in Batch,
         BeginPush(id, c, b)
  PROVE  RefInv'
PROOF
<1> DEFINE t == id.tenant
           w == ClaimClient(db, t, c, id.subject)
           n == db.clients[t][c].last
           start == Start(AbstractLog, AbstractOutcome, t, c)
           g == [i \in {0} |-> start]
           cl == [tenant |-> t, client |-> c, subject |-> id.subject,
                  todo |-> b, last |-> n, results |-> <<>>]
<1>1. /\ c \in id.clientIds /\ db' = db /\ history' = history /\ work' = w
      /\ call' = cl /\ holder' = "push"
  BY DEF BeginPush
<1>2. /\ db \in Store /\ t \in Tenant /\ n \in Nat /\ LedgerDense(db, Watermarks(db))
      /\ history \cup db.changes = history
  BY IdentityAssumption DEF Inv, TypeOK, HistoryInv, Agrees, Recalls, Store, ClientRow
<1>3. /\ w.docs = db.docs /\ w.ledger = db.ledger /\ w.lastSeq = db.lastSeq
      /\ w.changes = db.changes
  BY <1>2 DEF ClaimClient, Store
<1>4. AbstractOutcome[t][c] = OutcomesOf(db, t, c, n)
  BY <1>2 DEF AbstractOutcome
<1>5. Watermarks(db)[t][c] = n
  BY <1>2 DEF Watermarks
<1> HIDE DEF n, w, t
<1>6. Tells(OutcomesOf(db, t, c, n), db, t, c, n)
  BY <1>2, <1>5, DenseTells
<1>7. Tells(OutcomesOf(db, t, c, n), w, t, c, n)
  BY <1>3, <1>6, TellsSame
<1>8. Logs(AbstractLog, history, w.lastSeq) /\ Shows(AbstractLog, w)
  BY <1>3 DEF RefInv, Shows
<1>9. g[0] = start /\ start = [log |-> start.log, done |-> start.done, ok |-> TRUE]
      /\ start.log = AbstractLog /\ start.done = AbstractOutcome[t][c]
  BY DEF Start
<1>10. b \in Seq(Mutation)
  BY BatchAssumption
<1>11. RestOfBatch(b, b, 0) /\ 0 \in 0 .. Len(b)
  BY <1>10 DEF RestOfBatch
<1> HIDE DEF g, start
<1>12. Walk(t, start, b, 0, g)
  BY <1>9 DEF Walk
<1>13. Stands(g[0], w, history, t, c, n)
  BY <1>4, <1>7, <1>8, <1>9 DEF Stands
<1>14. cl.tenant = t /\ cl.client = c /\ cl.subject = id.subject /\ cl.todo = b /\ cl.last = n
  OBVIOUS
<1> HIDE DEF cl
<1>15. PushIs(cl, db, w, history, start, id, c, b, 0, g)
  BY <1>1, <1>11, <1>12, <1>13, <1>14 DEF PushIs, t, w
<1>16. PushAt(cl, db, w, history, AbstractLog, AbstractOutcome)
  BY <1>11, <1>15 DEF PushAt, start, t
<1>17. Ahead' = history
  BY <1>1, <1>2, <1>3 DEF Ahead
<1>18. AbstractLog' = AbstractLog /\ AbstractOutcome' = AbstractOutcome
  BY <1>1, SeenSame
<1>19. PushAt(call, db, work, Ahead, AbstractLog, AbstractOutcome)'
  BY <1>1, <1>16, <1>17, <1>18
<1> QED
  BY <1>1, <1>18, <1>19 DEF RefInv

\* The loop takes the next mutation off the batch and comes to st.
LEMMA PushGoesOn ==
  ASSUME NEW cl, NEW cl2, NEW d, NEW w, NEW w2, NEW H, NEW H2, NEW start, NEW id, NEW c,
         NEW b \in Seq(Mutation), NEW k \in 0 .. Len(b), NEW g,
         PushIs(cl, d, w, H, start, id, c, b, k, g),
         cl.todo \in Seq(Mutation), cl.todo # <<>>, cl2.todo = Tail(cl.todo),
         cl2.tenant = cl.tenant, cl2.client = cl.client, cl2.subject = cl.subject,
         w2.clients = w.clients,
         NEW st, st = Atomic!Step(id.tenant, g[k], Head(cl.todo)),
         Stands(st, w2, H2, id.tenant, c, cl2.last)
  PROVE  k + 1 \in 0 .. Len(b) /\ \E h : PushIs(cl2, d, w2, H2, start, id, c, b, k + 1, h)
PROOF
<1> DEFINE todo == cl.todo
           rest == Tail(todo)
<1>1. /\ Len(todo) = Len(b) - k /\ \A i \in 1 .. Len(todo) : todo[i] = b[k + i]
      /\ Walk(id.tenant, start, b, k, g)
      /\ c \in id.clientIds
      /\ cl.tenant = id.tenant /\ cl.client = c /\ cl.subject = id.subject
      /\ w.clients = ClaimClient(d, id.tenant, c, id.subject).clients
  BY DEF PushIs, RestOfBatch
<1>2. /\ Len(todo) \in Nat \ {0} /\ Head(todo) = todo[1] /\ Len(rest) = Len(todo) - 1
      /\ \A i \in 1 .. Len(rest) : rest[i] = todo[i + 1]
  OBVIOUS
<1> HIDE DEF todo, rest
<1>3. k \in Nat /\ Len(b) \in Nat /\ k + 1 \in 0 .. Len(b) /\ Head(todo) = b[k + 1]
  BY <1>1, <1>2
<1>4. RestOfBatch(rest, b, k + 1)
  <2>1. Len(rest) = Len(b) - (k + 1)
    BY <1>1, <1>2, <1>3
  <2>2. ASSUME NEW i \in 1 .. Len(rest)
        PROVE  rest[i] = b[(k + 1) + i]
    <3>1. i + 1 \in 1 .. Len(todo) /\ k + (i + 1) = (k + 1) + i
      BY <1>2, <1>3
    <3> QED
      BY <1>1, <1>2, <3>1
  <2> QED
    BY <2>1, <2>2 DEF RestOfBatch
<1>5. st = Atomic!Step(id.tenant, g[k], b[k + 1])
  BY <1>3 DEF todo
<1>6. PICK h : Walk(id.tenant, start, b, k + 1, h) /\ h[k + 1] = st
  BY <1>1, <1>3, <1>5, WalkGoesOn
<1>7. PushIs(cl2, d, w2, H2, start, id, c, b, k + 1, h)
  BY <1>1, <1>4, <1>6 DEF PushIs, rest, todo
<1> QED
  BY <1>3, <1>7

\* A retried mutation is answered as AtomicSync has it, which it leaves alone.
LEMMA ReplayKeepsRef ==
  ASSUME Inv, RefInv, ReplayDuplicate
  PROVE  RefInv'
PROOF
<1> DEFINE m == Current
<1>1. /\ Pushing /\ holder = "push" /\ call.todo # <<>> /\ call \in Call
      /\ call.todo \in Seq(Mutation) /\ call.last \in Nat
      /\ db' = db /\ work' = work /\ history' = history /\ holder' = holder
      /\ work \in Store
  BY DEF ReplayDuplicate, Pushing, Inv, TypeOK, Call
<1>2. PICK e \in Prior(work, call.tenant, call.client, Current.id) :
        /\ e.request = Current
        /\ call' = [call EXCEPT
             !.todo = Tail(@),
             !.results = Append(@, [outcome |-> e, duplicate |-> TRUE])]
  BY DEF ReplayDuplicate
<1>3. PICK cl : cl = call'
  OBVIOUS
<1>4. /\ cl.tenant = call.tenant /\ cl.client = call.client /\ cl.subject = call.subject
      /\ cl.last = call.last /\ cl.todo = Tail(call.todo)
  BY <1>1, <1>2, <1>3 DEF Call
<1>5. PICK id \in Identity, c \in ClientId, b \in Batch : \E k \in 0 .. Len(b) : \E g :
        PushIs(call, db, work, Ahead, Start(AbstractLog, AbstractOutcome, id.tenant, c),
               id, c, b, k, g)
  BY <1>1 DEF RefInv, PushAt
<1>6. PICK k \in 0 .. Len(b) : \E g :
        PushIs(call, db, work, Ahead, Start(AbstractLog, AbstractOutcome, id.tenant, c),
               id, c, b, k, g)
  BY <1>5
<1>7. PICK g :
        PushIs(call, db, work, Ahead, Start(AbstractLog, AbstractOutcome, id.tenant, c),
               id, c, b, k, g)
  BY <1>6
<1> DEFINE start == Start(AbstractLog, AbstractOutcome, id.tenant, c)
<1>8. /\ Stands(g[k], work, Ahead, id.tenant, c, call.last)
      /\ id.tenant = call.tenant /\ c = call.client
  BY <1>7 DEF PushIs
<1>9. /\ e \in work.ledger /\ e.tenant = id.tenant /\ e.client = c /\ e.request = m
  BY <1>2, <1>8 DEF Prior
<1>10. m.id \in 1 .. call.last /\ g[k].done[m.id] = Told(e)
  BY <1>8, <1>9 DEF Stands, Tells
<1>11. g[k].done[m.id].request = m
  BY <1>9, <1>10 DEF Told
<1> HIDE DEF m
<1>12. Atomic!Step(id.tenant, g[k], m) = g[k]
  BY <1>1, <1>8, <1>10, <1>11, StepReplay
<1>13. b \in Seq(Mutation)
  BY BatchAssumption
<1> HIDE DEF start
<1>14. g[k] = Atomic!Step(id.tenant, g[k], Head(call.todo))
  BY <1>12 DEF m, Current
<1>15. Stands(g[k], work, Ahead, id.tenant, c, cl.last)
  BY <1>4, <1>8
<1>16. PushIs(call, db, work, Ahead, start, id, c, b, k, g)
  BY <1>7 DEF start
<1>17. k + 1 \in 0 .. Len(b) /\ \E h : PushIs(cl, db, work, Ahead, start, id, c, b, k + 1, h)
  BY ONLY <1>1, <1>4, <1>13, <1>14, <1>15, <1>16, k \in 0 .. Len(b), PushGoesOn
<1>18. PushAt(cl, db, work, Ahead, AbstractLog, AbstractOutcome)
  BY <1>17 DEF PushAt, start
<1>19. Ahead' = Ahead
  BY <1>1 DEF Ahead
<1>20. AbstractLog' = AbstractLog /\ AbstractOutcome' = AbstractOutcome
  BY <1>1, SeenSame
<1>21. PushAt(call, db, work, Ahead, AbstractLog, AbstractOutcome)'
  BY <1>1, <1>3, <1>18, <1>19, <1>20
<1> QED
  BY <1>1, <1>20, <1>21 DEF RefInv

\* The next mutation, executed by both.
LEMMA StandsNext ==
  ASSUME NEW st, NEW s \in Store, RowsWellFormed(s), NEW H, NEW t \in Tenant, NEW c, NEW n \in Nat,
         Stands(st, s, H, t, c, n),
         NEW m \in Mutation, m.id = n + 1,
         NEW l, l = (IF VerdictOf(s, t, m) = "write"
                     THEN Append(st.log, EntryOf(s, t, m)) ELSE st.log),
         NEW w, NEW H2, Logs(l, H2, w.lastSeq), Shows(l, w),
         NEW e \in Outcome, e.tenant = t, e.client = c, e.request = m,
         Told(e) = [request |-> m, verdict |-> VerdictOf(s, t, m)],
         w.ledger = s.ledger \cup {e}
  PROVE  Stands(Atomic!Step(t, st, m), w, H2, t, c, n + 1)
PROOF
<1> DEFINE v == VerdictOf(s, t, m)
           done == Append(st.done, Told(e))
           next == [log |-> l, done |-> done, ok |-> TRUE]
<1>1. Logs(st.log, H, s.lastSeq) /\ Shows(st.log, s) /\ Tells(st.done, s, t, c, n)
  BY DEF Stands
<1>2. st.log \in Seq(Entries)
  BY <1>1 DEF Logs
<1>3. Atomic!Verdict(st.log, t, m) = v /\ Atomic!Written(st.log, t, m) = EntryOf(s, t, m)
  BY <1>1, <1>2, VerdictIs, WrittenIs
<1> HIDE DEF v
<1>4. Atomic!Step(t, st, m) =
        [log  |-> IF v = "write" THEN Append(st.log, Atomic!Written(st.log, t, m)) ELSE st.log,
         done |-> Append(st.done, [request |-> m, verdict |-> v]),
         ok   |-> TRUE]
  BY <1>3, StepNext
<1>5. Atomic!Step(t, st, m) = next
  BY <1>3, <1>4 DEF v
<1>6. Tells(done, w, t, c, n + 1)
  BY <1>1, TellsNext
<1>7. next.log = l /\ next.done = done /\ next = [log |-> next.log, done |-> next.done, ok |-> TRUE]
  OBVIOUS
<1> HIDE DEF next, done
<1>8. Stands(next, w, H2, t, c, n + 1)
  BY <1>6, <1>7 DEF Stands
<1> QED
  BY <1>5, <1>8

\* The outcome of a mutation is recorded with its effect, and AtomicSync takes the
\* mutation in one step.
LEMMA SettleKeepsRef ==
  ASSUME Inv, RefInv, Executing, NEW s \in Store,
         s.ledger = work.ledger, s.clients = work.clients,
         NEW status \in {"applied", "rejected"}, NEW noOp \in BOOLEAN, NEW code \in Code,
         VerdictOf(work, call.tenant, Current) =
           (IF status = "rejected" THEN code ELSE IF noOp THEN "no-op" ELSE "write"),
         \A l : Logs(l, Ahead, work.lastSeq) /\ Shows(l, work) =>
           LET l2 == IF VerdictOf(work, call.tenant, Current) = "write"
                     THEN Append(l, EntryOf(work, call.tenant, Current)) ELSE l
           IN Logs(l2, history \cup s.changes, s.lastSeq) /\ Shows(l2, s),
         Settle(s, status, noOp, code)
  PROVE  RefInv'
PROOF
<1> DEFINE m == Current
           t == call.tenant
           e == OutcomeOf(s, t, call.client, m, status, noOp, code)
           w == Record(s, e)
           H2 == history \cup s.changes
<1>1. /\ Pushing /\ holder = "push" /\ call.todo # <<>> /\ call \in Call
      /\ call.todo \in Seq(Mutation) /\ m.id = call.last + 1
      /\ work \in Store /\ RowsWellFormed(work)
  BY DEF Executing, IsNext, Pushing, Inv, TypeOK, Call, StoreOK
<1>2. m \in Mutation /\ t \in Tenant /\ call.client \in ClientId /\ call.last \in Nat
  BY <1>1, CurrentTyped
<1>3. /\ work' = w /\ db' = db /\ history' = history /\ holder' = holder
      /\ call' = [call EXCEPT
           !.todo = Tail(@), !.last = Current.id,
           !.results = Append(@, [outcome |-> e, duplicate |-> FALSE])]
  BY DEF Settle
<1>4. e \in Outcome
  <2>1. s.lastSeq \in Nat
    BY DEF Store
  <2>2. (IF m.table = "docs" THEN s.docs[t][m.record].revision ELSE 0) \in Nat
    BY <1>2 DEF Mutation, Store, Row
  <2> QED
    BY <1>2, <2>1, <2>2 DEF OutcomeOf, Outcome
<1>5. /\ e.tenant = t /\ e.client = call.client /\ e.request = m
      /\ e.status = status /\ e.noOp = noOp /\ e.code = code
  BY DEF OutcomeOf
<1>6. PICK cl : cl = call'
  OBVIOUS
<1>7. /\ cl.tenant = t /\ cl.client = call.client /\ cl.subject = call.subject
      /\ cl.last = m.id /\ cl.todo = Tail(call.todo)
  BY <1>1, <1>3, <1>6 DEF Call
<1> HIDE DEF e, w
<1>8. /\ w.lastSeq = s.lastSeq /\ w.docs = s.docs /\ w.clients = s.clients
      /\ w.changes = s.changes /\ w.ledger = work.ledger \cup {e}
  BY DEF w, Record, Store
<1>9. Told(e) = [request |-> m, verdict |-> VerdictOf(work, t, m)]
  BY <1>5 DEF Told
<1>10. PICK id \in Identity, c \in ClientId, b \in Batch : \E k \in 0 .. Len(b) : \E g :
         PushIs(call, db, work, Ahead, Start(AbstractLog, AbstractOutcome, id.tenant, c),
                id, c, b, k, g)
  BY <1>1 DEF RefInv, PushAt
<1>11. PICK k \in 0 .. Len(b) : \E g :
         PushIs(call, db, work, Ahead, Start(AbstractLog, AbstractOutcome, id.tenant, c),
                id, c, b, k, g)
  BY <1>10
<1>12. PICK g :
         PushIs(call, db, work, Ahead, Start(AbstractLog, AbstractOutcome, id.tenant, c),
                id, c, b, k, g)
  BY <1>11
<1> DEFINE start == Start(AbstractLog, AbstractOutcome, id.tenant, c)
           st == g[k]
           st2 == Atomic!Step(id.tenant, st, m)
           l == IF VerdictOf(work, t, m) = "write"
                THEN Append(st.log, EntryOf(work, t, m)) ELSE st.log
<1>13. Stands(st, work, Ahead, t, call.client, call.last) /\ id.tenant = t /\ c = call.client
  BY <1>12 DEF PushIs
<1>14. Logs(st.log, Ahead, work.lastSeq) /\ Shows(st.log, work)
  BY <1>13 DEF Stands
<1>15. Logs(l, H2, s.lastSeq) /\ Shows(l, s)
  BY <1>14
<1>16. Logs(l, H2, w.lastSeq) /\ Shows(l, w)
  BY <1>8, <1>15 DEF Shows
<1>17. Stands(st2, w, H2, id.tenant, c, cl.last)
  <2> HIDE DEF st, H2, m, t
  <2>1. Stands(Atomic!Step(t, st, m), w, H2, t, call.client, call.last + 1)
    BY <1>1, <1>2, <1>4, <1>5, <1>8, <1>9, <1>13, <1>16, StandsNext
  <2> QED
    BY <1>1, <1>7, <1>13, <2>1
<1>18. b \in Seq(Mutation)
  BY BatchAssumption
<1>19. st2 = Atomic!Step(id.tenant, g[k], Head(call.todo))
  BY DEF Current
<1>20. PushIs(call, db, work, Ahead, start, id, c, b, k, g)
  BY <1>12
<1>21. w.clients = work.clients
  BY <1>8
<1> HIDE DEF start, st2, H2
<1>22. k + 1 \in 0 .. Len(b) /\ \E h : PushIs(cl, db, w, H2, start, id, c, b, k + 1, h)
  BY ONLY <1>1, <1>7, <1>17, <1>18, <1>19, <1>20, <1>21, k \in 0 .. Len(b), PushGoesOn
<1>23. PushAt(cl, db, w, H2, AbstractLog, AbstractOutcome)
  BY <1>22 DEF PushAt, start
<1>24. Ahead' = H2
  BY <1>3, <1>8 DEF Ahead, H2
<1>25. AbstractLog' = AbstractLog /\ AbstractOutcome' = AbstractOutcome
  BY <1>3, SeenSame
<1>26. PushAt(call, db, work, Ahead, AbstractLog, AbstractOutcome)'
  BY <1>3, <1>6, <1>23, <1>24, <1>25
<1> QED
  BY <1>1, <1>3, <1>25, <1>26 DEF RefInv

\* A rejection or a second delete is an outcome and nothing else.
LEMMA OutcomeOnlyKeepsRef ==
  ASSUME Inv, RefInv, RejectMutation \/ AcknowledgeNoOp
  PROVE  RefInv'
PROOF
<1> DEFINE v == VerdictOf(work, call.tenant, Current)
           code == RejectionCode(work, call.tenant, Current)
<1>1. Executing /\ work \in Store /\ history \cup work.changes = Ahead
  BY DEF RejectMutation, AcknowledgeNoOp, Inv, TypeOK, Ahead
<1>2. code \in Code /\ "NONE" \in Code
  BY DEF RejectionCode, Code
<1>3. CASE RejectMutation
  <2>1. code # "NONE" /\ Settle(work, "rejected", FALSE, code)
    BY <1>3 DEF RejectMutation
  <2>2. v = code /\ v # "write"
    BY <1>2, <2>1 DEF VerdictOf, Code
  <2>3. v = (IF "rejected" = "rejected" THEN code ELSE IF FALSE THEN "no-op" ELSE "write")
    BY <2>2
  <2> HIDE DEF v, code
  <2> QED
    BY <1>1, <1>2, <2>1, <2>2, <2>3, SettleKeepsRef DEF v
<1>4. CASE AcknowledgeNoOp
  <2>1. code = "NONE" /\ IsNoOp(work, call.tenant, Current) /\ Settle(work, "applied", TRUE, "NONE")
    BY <1>4 DEF AcknowledgeNoOp
  <2>2. v = "no-op" /\ v # "write"
    BY <2>1 DEF VerdictOf
  <2>3. v = (IF "applied" = "rejected" THEN "NONE" ELSE IF TRUE THEN "no-op" ELSE "write")
    BY <2>2
  <2> HIDE DEF v, code
  <2> QED
    BY <1>1, <1>2, <2>1, <2>2, <2>3, SettleKeepsRef DEF v
<1> QED
  BY <1>3, <1>4

\* An accepted mutation is one entry of the log.
LEMMA ApplyKeepsRef ==
  ASSUME Inv, HistoryInv, RefInv, ApplyMutation
  PROVE  RefInv'
PROOF
<1> DEFINE t   == call.tenant
           m   == Current
           row == work.docs[t][m.record]
           data == IF m.op = "delete" THEN row.data ELSE UpsertedData(work, t, m)
           deleted == m.op = "delete"
           d   == WriteDoc(work, t, m.record, data, deleted, PushSource)
           x   == EntryOf(work, t, m)
<1>1. /\ Executing /\ Pushing /\ call.todo # <<>>
      /\ RejectionCode(work, t, m) = "NONE" /\ ~ IsNoOp(work, t, m)
      /\ work \in Store /\ StoreOK(work) /\ Recalls(work, Ahead)
  BY DEF ApplyMutation, Executing, Pushing, Inv, TypeOK, HistoryInv, Agrees
<1>2. /\ m \in Mutation /\ t \in Tenant /\ (m.op = "upsert") = (m.data \in Data)
      /\ call.client \in ClientId /\ call.subject \in Subject
  BY <1>1, CurrentTyped
<1>3. /\ m.record \in RecordId /\ m.op \in {"upsert", "delete"}
      /\ row \in Row /\ row.revision \in Nat
  BY <1>1, <1>2 DEF Mutation, Store, Row
<1>4. ApplyEffect(work, t, m, PushSource) = d
  BY DEF ApplyEffect
<1>5. Settle(d, "applied", FALSE, "NONE") /\ "NONE" \in Code
  BY <1>4 DEF ApplyMutation, Code
<1>6. m.op = "delete" => row.revision > 0
  BY <1>1, <1>3 DEF RejectionCode, Exists
<1>7. data \in Data
  <2>1. Exists(work, t, m) => row.data \in Data
    BY <1>1, <1>2, <1>3 DEF Exists, StoreOK, RowsWellFormed, Row
  <2> QED
    BY <1>2, <1>3, <1>6, <2>1, MergeAssumption DEF UpsertedData, Exists
<1>8. /\ deleted \in BOOLEAN
      /\ deleted => work.docs[t][m.record].revision > 0 /\ data = work.docs[t][m.record].data
  BY <1>6
<1>9. PushSource \in Source
  BY <1>2 DEF PushSource, Source, Mutation
<1>10. x = [tenant |-> t, record |-> m.record, op |-> IF deleted THEN "delete" ELSE "upsert",
            data |-> IF deleted THEN NoData ELSE data]
  BY <1>3 DEF EntryOf
<1>11. VerdictOf(work, t, m) = "write"
  BY <1>1 DEF VerdictOf
<1> HIDE DEF data, deleted, x, m, t
<1>12. ASSUME NEW l, Logs(l, Ahead, work.lastSeq), Shows(l, work)
       PROVE  /\ Logs(Append(l, x), Ahead \cup d.changes, d.lastSeq) /\ Shows(Append(l, x), d)
              /\ d \in Store /\ d.ledger = work.ledger /\ d.clients = work.clients
              /\ work.changes \subseteq d.changes
  <2> DEFINE r == m.record
             src == PushSource
  <2>1. /\ r \in RecordId /\ src \in Source
        /\ deleted => work.docs[t][r].revision > 0 /\ data = work.docs[t][r].data
        /\ x = [tenant |-> t, record |-> r, op |-> IF deleted THEN "delete" ELSE "upsert",
                data |-> IF deleted THEN NoData ELSE data]
    BY <1>3, <1>8, <1>9, <1>10
  <2>2. deleted \in BOOLEAN /\ d = WriteDoc(work, t, r, data, deleted, src)
    BY <1>8
  <2> DEFINE w == WriteDoc(work, t, r, data, deleted, src)
  <2> HIDE DEF r, src, d
  <2>3. /\ x \in Entries
        /\ Logs(Append(l, x), Ahead \cup w.changes, w.lastSeq)
        /\ Shows(Append(l, x), w)
        /\ w \in Store /\ w.ledger = work.ledger /\ w.clients = work.clients
        /\ work.changes \subseteq w.changes
    BY ONLY <1>1, <1>2, <1>7, <1>12, <2>1, <2>2, WriteIsEntry
  <2> QED
    BY <2>2, <2>3
<1> HIDE DEF d
<1>13. PICK l : Logs(l, Ahead, work.lastSeq) /\ Shows(l, work)
  <2>1. PICK id \in Identity, c \in ClientId, b \in Batch : \E k \in 0 .. Len(b) : \E g :
          PushIs(call, db, work, Ahead, Start(AbstractLog, AbstractOutcome, id.tenant, c),
                 id, c, b, k, g)
    BY <1>1 DEF RefInv, PushAt, Pushing
  <2>2. PICK k, g :
          PushIs(call, db, work, Ahead, Start(AbstractLog, AbstractOutcome, id.tenant, c),
                 id, c, b, k, g)
    BY <2>1
  <2> QED
    BY <2>2 DEF PushIs, Stands
<1>14. d \in Store /\ d.ledger = work.ledger /\ d.clients = work.clients
  BY <1>12, <1>13
<1>15. Ahead \cup d.changes = history \cup d.changes
  BY <1>12, <1>13 DEF Ahead
<1>16. \A k : Logs(k, Ahead, work.lastSeq) /\ Shows(k, work) =>
         LET l2 == IF VerdictOf(work, call.tenant, Current) = "write"
                   THEN Append(k, EntryOf(work, call.tenant, Current)) ELSE k
         IN Logs(l2, history \cup d.changes, d.lastSeq) /\ Shows(l2, d)
  BY <1>11, <1>12, <1>15 DEF x, t, m
<1>17. VerdictOf(work, call.tenant, Current) =
         (IF "applied" = "rejected" THEN "NONE" ELSE IF FALSE THEN "no-op" ELSE "write")
  BY <1>11 DEF t, m
<1> QED
  BY <1>1, <1>5, <1>14, <1>16, <1>17, SettleKeepsRef

\* Direct SQL writes one entry; compaction none.
LEMMA AdminKeepsRef ==
  ASSUME Inv, HistoryInv, RefInv,
         \/ \E t \in Tenant, r \in RecordId, d \in ExternalData :
              ExternalUpsert(t, r, d)
         \/ \E t \in Tenant, r \in RecordId : ExternalDelete(t, r)
         \/ \E through \in 0 .. MaxCompact : BeginCompact(through)
  PROVE  RefInv'
PROOF
<1>1. /\ db \in Store /\ StoreOK(db) /\ Recalls(db, history)
      /\ Logs(AbstractLog, history, db.lastSeq) /\ Shows(AbstractLog, db)
  BY DEF Inv, TypeOK, HistoryInv, Agrees, RefInv
<1>2. /\ db' = db /\ history' = history
      /\ AbstractLog' = AbstractLog
  BY SeenSame DEF ExternalUpsert, ExternalDelete, BeginExternal, BeginCompact
<1>3. External \in Source
  BY DEF External, Source
<1>4. ASSUME NEW t \in Tenant, NEW r \in RecordId, NEW data \in Data, NEW deleted \in BOOLEAN,
             deleted => db.docs[t][r].revision > 0 /\ data = db.docs[t][r].data,
             NEW x, x = [tenant |-> t, record |-> r, op |-> IF deleted THEN "delete" ELSE "upsert",
                         data |-> IF deleted THEN NoData ELSE data],
             Writes(AbstractLog, x),
             holder' = "external", work' = WriteDoc(db, t, r, data, deleted, External)
      PROVE  RefInv'
  <2> DEFINE src == External
             w == WriteDoc(db, t, r, data, deleted, src)
  <2>1. work' = w /\ src \in Source
    BY <1>3, <1>4
  <2> HIDE DEF src
  <2>6. /\ t \in Tenant /\ r \in RecordId /\ data \in Data /\ deleted \in BOOLEAN
        /\ deleted => db.docs[t][r].revision > 0 /\ data = db.docs[t][r].data
        /\ x = [tenant |-> t, record |-> r, op |-> IF deleted THEN "delete" ELSE "upsert",
                data |-> IF deleted THEN NoData ELSE data]
    BY <1>4
  <2>2. /\ x \in Entries
        /\ Logs(Append(AbstractLog, x), history \cup w.changes, w.lastSeq)
        /\ Shows(Append(AbstractLog, x), w)
        /\ w \in Store /\ w.ledger = db.ledger /\ w.clients = db.clients
        /\ db.changes \subseteq w.changes
    BY ONLY <1>1, <2>1, <2>6, WriteIsEntry
  <2> HIDE DEF w
  <2>3. ExternalAt(db, w, history \cup w.changes, AbstractLog)
    BY <1>4, <2>2 DEF ExternalAt
  <2>4. Ahead' = history \cup w.changes
    BY <1>2, <2>1 DEF Ahead
  <2>5. ExternalAt(db, work, Ahead, AbstractLog)'
    BY <1>2, <2>1, <2>3, <2>4
  <2> QED
    BY <1>1, <1>2, <1>4, <2>5 DEF RefInv
<1>5. ASSUME NEW t \in Tenant, NEW r \in RecordId, NEW d \in ExternalData,
             ExternalUpsert(t, r, d)
      PROVE  RefInv'
  <2> DEFINE x == [tenant |-> t, record |-> r, op |-> "upsert", data |-> d]
  <2>1. d \in Data
    BY ExternalAssumption
  <2>2. holder' = "external" /\ work' = WriteDoc(db, t, r, d, FALSE, External)
    BY <1>5 DEF ExternalUpsert, BeginExternal
  <2>3. Writes(AbstractLog, x)
    BY DEF Writes
  <2>4. x = [tenant |-> t, record |-> r, op |-> IF FALSE THEN "delete" ELSE "upsert",
             data |-> IF FALSE THEN NoData ELSE d]
    OBVIOUS
  <2> HIDE DEF x
  <2> QED
    BY <1>4, <2>1, <2>2, <2>3, <2>4
<1>6. ASSUME NEW t \in Tenant, NEW r \in RecordId, ExternalDelete(t, r)
      PROVE  RefInv'
  <2> DEFINE x == [tenant |-> t, record |-> r, op |-> "delete", data |-> NoData]
             data == db.docs[t][r].data
  <2>1. db.docs[t][r].revision \in Nat /\ db.docs[t][r].revision > 0
    BY <1>1, <1>6 DEF ExternalDelete, Store, Row
  <2>2. data \in Data
    BY <1>1, <2>1 DEF StoreOK, RowsWellFormed
  <2>3. holder' = "external" /\ work' = WriteDoc(db, t, r, data, TRUE, External)
    BY <1>6 DEF ExternalDelete, BeginExternal
  <2>4. Atomic!Revision(AbstractLog, t, r) > 0
    BY <1>1, <2>1 DEF Shows, LogShowsRow
  <2>5. Writes(AbstractLog, x)
    BY <2>4 DEF Writes
  <2>6. x = [tenant |-> t, record |-> r, op |-> IF TRUE THEN "delete" ELSE "upsert",
             data |-> IF TRUE THEN NoData ELSE data]
    OBVIOUS
  <2>7. TRUE => db.docs[t][r].revision > 0 /\ data = db.docs[t][r].data
    BY <2>1
  <2> HIDE DEF x, data
  <2> QED
    BY <1>4, <2>2, <2>3, <2>5, <2>6, <2>7
<1>7. ASSUME NEW through \in 0 .. MaxCompact, BeginCompact(through)
      PROVE  RefInv'
  <2> DEFINE w == CompactThrough(db, through)
  <2>1. work' = w /\ holder' = "compact"
    BY <1>7 DEF BeginCompact
  <2>2. CompactOnly(db, w)
    BY <1>1 DEF CompactThrough, CompactOnly, Store
  <2> HIDE DEF w
  <2>3. CompactOnly(db, work)'
    BY <1>2, <2>1, <2>2
  <2> QED
    BY <1>1, <1>2, <2>1, <2>3 DEF RefInv
<1> QED
  BY <1>5, <1>6, <1>7

\* What is rolled back was never seen.
LEMMA RollbackKeepsRef ==
  ASSUME Inv, RefInv, Rollback
  PROVE  RefInv'
PROOF
<1>1. db' = db /\ history' = history /\ holder' = "none" /\ AbstractLog' = AbstractLog
  BY SeenSame DEF Rollback
<1> QED
  BY <1>1 DEF RefInv

-----------------------------------------------------------------------------
(* The steps that AtomicSync sees. *)

\* A ledger that grows without a mutation of this client tells the same of it.
LEMMA TellsGrown ==
  ASSUME NEW s \in Store, NEW w \in Store, s.ledger \subseteq w.ledger,
         NEW t \in Tenant, NEW c \in ClientId, NEW n \in Nat, NEW d, Tells(d, s, t, c, n),
         NEW last, LedgerDense(w, last), last[t][c] = n
  PROVE  Tells(d, w, t, c, n)
PROOF
<1>1. d \in Seq(Outcomes) /\ Len(d) = n /\ \A i \in 1 .. n : Prior(s, t, c, i) # {}
  BY DEF Tells
<1>2. \A i \in 1 .. n : Prior(w, t, c, i) # {}
  BY <1>1 DEF Prior
<1>3. ASSUME NEW e \in w.ledger, e.tenant = t, e.client = c
      PROVE  e.request.id \in 1 .. n /\ d[e.request.id] = Told(e)
  <2>1. e.request.id \in Nat \ {0} /\ e.request.id <= last[e.tenant][e.client]
    BY DEF Store, Outcome, Mutation, LedgerDense
  <2>2. e.request.id \in 1 .. n
    BY <1>3, <2>1
  <2>3. PICK f : f \in Prior(s, t, c, e.request.id)
    BY <1>1, <2>2
  <2>4. f \in s.ledger /\ f.tenant = t /\ f.client = c /\ f.request.id = e.request.id
    BY <2>3 DEF Prior
  <2>5. f = e
    BY <1>3, <2>4 DEF LedgerDense
  <2>6. d[f.request.id] = Told(f)
    BY <2>4 DEF Tells
  <2> QED
    BY <2>2, <2>5, <2>6
<1> QED
  BY <1>1, <1>2, <1>3 DEF Tells

\* A commit of direct SQL is one entry, a commit of a compaction nothing.
LEMMA CommitAdminIsAtomic ==
  ASSUME Inv, HistoryInv, RefInv, CommitAdmin
  PROVE  RefInv' /\ (Atomic!ANext \/ UNCHANGED Atomic!abstractVars)
PROOF
<1>1. /\ holder \in {"external", "compact"} /\ db' = work /\ holder' = "none"
      /\ history' = Ahead
      /\ work \in Store /\ db \in Store /\ Recalls(db, history)
      /\ Logs(AbstractLog, history, db.lastSeq) /\ Shows(AbstractLog, db)
  BY DEF CommitAdmin, Commit, Ahead, Inv, TypeOK, HistoryInv, Agrees, RefInv
<1>2. work.lastSeq \in Nat
  BY <1>1 DEF Store
<1>3. work.ledger = db.ledger /\ work.clients = db.clients
  BY <1>1 DEF RefInv, ExternalAt, CompactOnly
<1>4. AbstractOutcome' = AbstractOutcome /\ AbstractOwner' = AbstractOwner
  <2>1. \A t, c, n : OutcomesOf(work, t, c, n) = OutcomesOf(db, t, c, n)
    BY <1>3 DEF OutcomesOf, Prior
  <2> QED
    BY <1>1, <1>3, <2>1 DEF AbstractOutcome, AbstractOwner
<1>5. CASE holder = "external"
  <2>1. PICK x : /\ Writes(AbstractLog, x)
                 /\ Logs(Append(AbstractLog, x), Ahead, work.lastSeq)
                 /\ Shows(Append(AbstractLog, x), work)
    BY <1>5 DEF RefInv, ExternalAt
  <2>2. PICK l : l = Append(AbstractLog, x)
    OBVIOUS
  <2>3. PICK d, H : d = work /\ H = Ahead
    OBVIOUS
  <2>4. RefInv' /\ AbstractLog' = l
    BY <1>1, <1>2, <2>1, <2>2, <2>3, QuietRefInv
  <2>5. Atomic!ANext
    <3>1. CASE \E t \in Tenant, r \in RecordId, y \in ExternalData :
                 x = [tenant |-> t, record |-> r, op |-> "upsert", data |-> y]
      BY <1>4, <2>2, <2>4, <3>1 DEF Atomic!ANext, Atomic!DirectWrite
    <3>2. CASE \E t \in Tenant, r \in RecordId :
                 /\ Atomic!Revision(AbstractLog, t, r) > 0
                 /\ x = [tenant |-> t, record |-> r, op |-> "delete", data |-> NoData]
      BY <1>4, <2>2, <2>4, <3>2 DEF Atomic!ANext, Atomic!DirectDelete
    <3> QED
      BY <2>1, <3>1, <3>2 DEF Writes
  <2> QED
    BY <2>4, <2>5
<1>6. CASE holder = "compact"
  <2>1. /\ work.lastSeq = db.lastSeq /\ work.changes \subseteq db.changes /\ work.docs = db.docs
    BY <1>6 DEF RefInv, CompactOnly
  <2>2. Ahead = history
    BY <1>1, <2>1 DEF Ahead, Recalls
  <2>3. PICK d, H, l : d = work /\ H = history /\ l = AbstractLog
    OBVIOUS
  <2>4. Logs(l, H, d.lastSeq) /\ Shows(l, d)
    BY <1>1, <2>1, <2>3 DEF Shows
  <2>5. RefInv' /\ AbstractLog' = l
    BY <1>1, <1>2, <2>2, <2>3, <2>4, QuietRefInv
  <2> QED
    BY <1>4, <2>3, <2>5 DEF Atomic!abstractVars
<1> QED
  BY <1>1, <1>5, <1>6

\* A commit of a push is the whole batch.
LEMMA CommitPushIsAtomic ==
  ASSUME Inv, HistoryInv, RefInv, CommitPush
  PROVE  RefInv' /\ Atomic!ANext
PROOF
<1> DEFINE t == call.tenant
           c == call.client
           w == StoreWatermark(work)
<1>1. /\ db' = w /\ holder' = "none" /\ history' = history \cup w.changes
      /\ holder = "push" /\ work.clients[t][c].subject = call.subject /\ call.todo = <<>>
      /\ t \in Tenant /\ c \in ClientId /\ call.subject \in Subject /\ call.last \in Nat
      /\ work \in Store /\ db \in Store /\ Grows(db, work)
      /\ LedgerDense(work, Reached) /\ LedgerDense(db, Watermarks(db))
  BY DEF CommitPush, Pushing, OwnsClient, Commit, Inv, TypeOK, CallOK, Call
<1>2. /\ w.lastSeq = work.lastSeq /\ w.docs = work.docs /\ w.ledger = work.ledger
      /\ w.changes = work.changes
      /\ w.clients = [work.clients EXCEPT ![t][c].last = call.last]
  BY <1>1 DEF StoreWatermark, Store
<1> HIDE DEF w
<1>3. \A u \in Tenant, q \in ClientId :
        /\ w.clients[u][q].subject = work.clients[u][q].subject
        /\ w.clients[u][q].last = IF u = t /\ q = c THEN call.last ELSE db.clients[u][q].last
  <2> SUFFICES ASSUME NEW u \in Tenant, NEW q \in ClientId
               PROVE  /\ w.clients[u][q].subject = work.clients[u][q].subject
                      /\ w.clients[u][q].last =
                           IF u = t /\ q = c THEN call.last ELSE db.clients[u][q].last
    OBVIOUS
  <2>1. /\ work.clients \in [Tenant -> [ClientId -> ClientRow]] /\ work.clients[u][q] \in ClientRow
        /\ db.clients[u][q].last = work.clients[u][q].last
    BY <1>1 DEF Store, Grows
  <2>2. CASE u = t /\ q = c
    <3>1. w.clients[u][q] = [work.clients[u][q] EXCEPT !.last = call.last]
      BY <1>1, <1>2, <2>1, <2>2
    <3> QED
      BY <2>1, <2>2, <3>1 DEF ClientRow
  <2>3. CASE ~ (u = t /\ q = c)
    BY <1>1, <1>2, <2>1, <2>3
  <2> QED
    BY <2>2, <2>3
<1>4. PICK id \in Identity, d \in ClientId, b \in Batch : \E k \in 0 .. Len(b) : \E g :
        PushIs(call, db, work, Ahead, Start(AbstractLog, AbstractOutcome, id.tenant, d),
               id, d, b, k, g)
  BY <1>1 DEF RefInv, PushAt
<1>5. PICK k \in 0 .. Len(b) : \E g :
        PushIs(call, db, work, Ahead, Start(AbstractLog, AbstractOutcome, id.tenant, d),
               id, d, b, k, g)
  BY <1>4
<1>6. PICK g :
        PushIs(call, db, work, Ahead, Start(AbstractLog, AbstractOutcome, id.tenant, d),
               id, d, b, k, g)
  BY <1>5
<1> DEFINE start == Start(AbstractLog, AbstractOutcome, t, c)
           st == g[k]
<1>7. /\ id.tenant = t /\ d = c /\ c \in id.clientIds /\ call.subject = id.subject
      /\ work.clients = ClaimClient(db, t, c, id.subject).clients
      /\ Len(call.todo) = Len(b) - k
      /\ Walk(t, start, b, k, g) /\ Stands(st, work, Ahead, t, c, call.last)
  BY <1>6 DEF PushIs, RestOfBatch
<1>8. Len(b) \in Nat /\ k = Len(b)
  <2>1. b \in Seq(Mutation) /\ Len(call.todo) = 0
    BY <1>1, BatchAssumption
  <2> QED
    BY <1>7, <2>1
<1> HIDE DEF start
<1>9. Atomic!Through(t, start, b) = st
  BY <1>7, <1>8, WalkIsFold
<1> HIDE DEF st
<1>10. /\ st.ok = TRUE /\ Logs(st.log, Ahead, work.lastSeq) /\ Shows(st.log, work)
       /\ Tells(st.done, work, t, c, call.last)
  BY <1>7 DEF Stands
<1>11. RefInv' /\ AbstractLog' = st.log
  <2>1. PICK s, H, l : s = w /\ H = history \cup w.changes /\ l = st.log
    OBVIOUS
  <2>2. Logs(l, H, s.lastSeq) /\ Shows(l, s) /\ s.lastSeq \in Nat
    BY <1>1, <1>2, <1>10, <2>1 DEF Ahead, Shows, Store
  <2> QED
    BY <1>1, <2>1, <2>2, QuietRefInv
<1>12. AbstractOutcome' = [AbstractOutcome EXCEPT ![t][c] = st.done]
  <2> DEFINE done(u, q) == OutcomesOf(w, u, q, w.clients[u][q].last)
             old(u, q) == OutcomesOf(db, u, q, db.clients[u][q].last)
  <2>1. done(t, c) = st.done
    <3>1. Tells(st.done, w, t, c, call.last)
      BY <1>2, <1>10, TellsSame
    <3> QED
      BY <1>1, <1>3, <3>1, OutcomesIs
  <2>2. ASSUME NEW u \in Tenant, NEW q \in ClientId, ~ (u = t /\ q = c)
        PROVE  done(u, q) = old(u, q)
    <3> DEFINE n == db.clients[u][q].last
    <3>1. n \in Nat /\ Watermarks(db)[u][q] = n /\ Reached[u][q] = n
      BY <1>1, <2>2 DEF Watermarks, Reached, Store, ClientRow
    <3>2. w.clients[u][q].last = n
      BY <1>3, <2>2
    <3> HIDE DEF n
    <3>3. Tells(OutcomesOf(db, u, q, n), db, u, q, n)
      BY <1>1, <3>1, DenseTells
    <3>4. Tells(OutcomesOf(db, u, q, n), work, u, q, n)
      <4>1. db.ledger \subseteq work.ledger
        BY <1>1 DEF Grows
      <4> QED
        BY <1>1, <3>1, <3>3, <4>1, TellsGrown
    <3>5. Tells(OutcomesOf(db, u, q, n), w, u, q, n)
      BY <1>2, <3>4, TellsSame
    <3>6. OutcomesOf(w, u, q, n) = OutcomesOf(db, u, q, n)
      BY <3>1, <3>5, OutcomesIs
    <3> QED
      BY <3>2, <3>6 DEF n
  <2>3. AbstractOutcome' = [u \in Tenant |-> [q \in ClientId |-> done(u, q)]]
    BY <1>1 DEF AbstractOutcome
  <2>4. AbstractOutcome = [u \in Tenant |-> [q \in ClientId |-> old(u, q)]]
    BY DEF AbstractOutcome
  <2> HIDE DEF done, old
  <2>5. AbstractOutcome' = [u \in Tenant |-> [q \in ClientId |->
                              IF u = t /\ q = c THEN st.done ELSE old(u, q)]]
    BY <2>1, <2>2, <2>3
  <2>6. [AbstractOutcome EXCEPT ![t][c] = st.done] =
          [u \in Tenant |-> [q \in ClientId |-> IF u = t /\ q = c THEN st.done ELSE old(u, q)]]
    BY <1>1, <2>4
  <2> QED
    BY <2>5, <2>6
<1>13. /\ AbstractOwner[t][c] \in {Nobody, id.subject}
       /\ AbstractOwner' = [AbstractOwner EXCEPT ![t][c] = id.subject]
  <2> DEFINE own(s, u, q) == s.clients[u][q].subject
  <2>1. \A u \in Tenant, q \in ClientId :
          own(work, u, q) = IF u = t /\ q = c THEN id.subject ELSE own(db, u, q)
    <3> SUFFICES ASSUME NEW u \in Tenant, NEW q \in ClientId
                 PROVE  own(work, u, q) = IF u = t /\ q = c THEN id.subject ELSE own(db, u, q)
      OBVIOUS
    <3>1. CASE u = t /\ q = c
      BY <1>1, <1>7, <3>1
    <3>2. CASE ~ (u = t /\ q = c)
      <4>1. ClaimClient(db, t, c, id.subject).clients[u][q] = db.clients[u][q]
        BY <1>1, <3>2 DEF ClaimClient, Store
      <4> QED
        BY <1>7, <3>2, <4>1
    <3> QED
      BY <3>1, <3>2
  <2>2. own(db, t, c) \in {Nobody, id.subject}
    BY <1>1, <1>7 DEF Grows
  <2>3. AbstractOwner' = [u \in Tenant |-> [q \in ClientId |-> own(w, u, q)]]
    BY <1>1 DEF AbstractOwner
  <2>4. AbstractOwner = [u \in Tenant |-> [q \in ClientId |-> own(db, u, q)]]
    BY DEF AbstractOwner
  <2>5. \A u \in Tenant, q \in ClientId :
          own(w, u, q) = IF u = t /\ q = c THEN id.subject ELSE own(db, u, q)
    BY <1>3, <2>1
  <2> HIDE DEF own
  <2>6. AbstractOwner' = [u \in Tenant |-> [q \in ClientId |->
                            IF u = t /\ q = c THEN id.subject ELSE own(db, u, q)]]
    BY <2>3, <2>5
  <2>7. [AbstractOwner EXCEPT ![t][c] = id.subject] =
          [u \in Tenant |-> [q \in ClientId |->
             IF u = t /\ q = c THEN id.subject ELSE own(db, u, q)]]
    BY <1>1, <2>4
  <2> QED
    BY <1>1, <2>2, <2>4, <2>6, <2>7
<1>14. start = [log |-> AbstractLog, done |-> AbstractOutcome[t][c], ok |-> TRUE]
  BY DEF start, Start
<1>15. Atomic!AtomicPush(id, c, b)
  BY <1>7, <1>9, <1>10, <1>11, <1>12, <1>13, <1>14 DEF Atomic!AtomicPush
<1> QED
  BY <1>1, <1>11, <1>15 DEF Atomic!ANext

-----------------------------------------------------------------------------
(* The theorems. *)

\* Every step keeps the invariant and is a step of AtomicSync or none.
LEMMA NextIsAtomic ==
  Inv /\ HistoryInv /\ RefInv /\ [Next]_vars => RefInv' /\ [Atomic!ANext]_(Atomic!abstractVars)
PROOF
<1> SUFFICES ASSUME Inv, HistoryInv, RefInv, [Next]_vars
             PROVE  RefInv' /\ (Atomic!ANext \/ UNCHANGED Atomic!abstractVars)
  OBVIOUS
<1>1. ASSUME db' = db, history' = history
      PROVE  UNCHANGED Atomic!abstractVars
  BY <1>1, SeenSame DEF Atomic!abstractVars
<1>2. CASE \E id \in Identity, c \in ClientId, b \in Batch : BeginPush(id, c, b)
  BY <1>1, <1>2, BeginPushKeepsRef DEF BeginPush
<1>3. CASE ReplayDuplicate
  BY <1>1, <1>3, ReplayKeepsRef DEF ReplayDuplicate
<1>4. CASE RejectMutation \/ AcknowledgeNoOp
  BY <1>1, <1>4, OutcomeOnlyKeepsRef DEF RejectMutation, AcknowledgeNoOp, Settle
<1>5. CASE ApplyMutation
  BY <1>1, <1>5, ApplyKeepsRef DEF ApplyMutation, Settle
<1>6. CASE CommitPush
  BY <1>6, CommitPushIsAtomic
<1>7. CASE \/ \E t \in Tenant, r \in RecordId, d \in ExternalData :
                ExternalUpsert(t, r, d)
           \/ \E t \in Tenant, r \in RecordId : ExternalDelete(t, r)
           \/ \E through \in 0 .. MaxCompact : BeginCompact(through)
  BY <1>1, <1>7, AdminKeepsRef DEF ExternalUpsert, ExternalDelete, BeginExternal, BeginCompact
<1>8. CASE CommitAdmin
  BY <1>8, CommitAdminIsAtomic
<1>9. CASE Rollback
  BY <1>1, <1>9, RollbackKeepsRef DEF Rollback
<1>10. CASE UNCHANGED vars
  <2>1. /\ db' = db /\ history' = history /\ work' = work /\ holder' = holder /\ call' = call
        /\ Ahead' = Ahead
    BY <1>10 DEF vars, Ahead
  <2>2. AbstractLog' = AbstractLog /\ AbstractOutcome' = AbstractOutcome
    BY <2>1, SeenSame
  <2>3. RefInv'
    BY <2>1, <2>2 DEF RefInv
  <2> QED
    BY <1>1, <2>1, <2>3
<1> QED
  BY <1>2, <1>3, <1>4, <1>5, <1>6, <1>7, <1>8, <1>9, <1>10 DEF Next, PushStep

\* In every state the log shows the tables, and the running transaction is on its way to
\* the effect that AtomicSync gives it in one step.
THEOREM TablesShowLog == Spec => [](Inv /\ HistoryInv /\ RefInv)
PROOF
<1>1. Init => Inv /\ HistoryInv /\ RefInv
  BY InitInv, InitHistory, InitRefInv
<1>2. (Inv /\ HistoryInv /\ RefInv) /\ [Next]_vars => (Inv /\ HistoryInv /\ RefInv)'
  BY NextKeepsInv, NextKeepsHistory, NextIsAtomic
<1> QED
  BY <1>1, <1>2, PTL DEF Spec

\* Whatever clients push, retry and lose, and whatever direct SQL and compaction do in
\* between, the committed tables are those of a server that executes every batch in one
\* step or not at all.
THEOREM PushesAreAtomic == Spec => ImplementsAtomicSync
PROOF
<1>1. Init => Atomic!AInit
  BY InitRefInv
<1>2. Inv /\ HistoryInv /\ RefInv /\ [Next]_vars => [Atomic!ANext]_(Atomic!abstractVars)
  BY NextIsAtomic
<1> QED
  BY <1>1, <1>2, TablesShowLog, PTL DEF Spec, ImplementsAtomicSync, Atomic!ASpec
==============================================================================
