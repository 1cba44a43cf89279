-------------------------- MODULE SyncDevice_proofs --------------------------
(***************************************************************************)
(* Proofs about the two halves of a client device, SyncReplica and         *)
(* SyncClient.                                                             *)
(*                                                                         *)
(* A client that pulls page by page, falls back to a snapshot when its     *)
(* checkpoint was compacted away, and may be interrupted while it installs *)
(* either, shows the server's records as of its checkpoint.  The inductive *)
(* invariant is stated for one reader as an operator of the committed      *)
(* tables, the history, the local copy and the read in flight, so that a   *)
(* step of a writer and a step of the reader are lemmas about values.      *)
(*                                                                         *)
(* Over a network that loses, repeats, delays and reorders messages, a     *)
(* client that numbers its mutations, sends the oldest pending ones again  *)
(* and again and acknowledges exactly what a response is about never meets *)
(* a final protocol error and loses no mutation.  The invariant says that  *)
(* every request, response, ledger row and queue is a slice of the one     *)
(* stream the client has numbered, and that no slice in flight starts      *)
(* beyond the first mutation the client has not been told about.           *)
(***************************************************************************)
EXTENDS SyncReplica, SyncClient, SyncServer_proofs, FunctionTheorems

-----------------------------------------------------------------------------
(* The feed. *)

Numbered(H) == \A x, y \in H : x.seq = y.seq => x = y

Payloads(H) == \A ch \in H : ch.op = "upsert" => ch.data \in Data

\* Sequence numbers name one change each, of the history and of the running
\* transaction together; a transaction adds changes after the last committed one.
FeedInv ==
  /\ Numbered(Ahead)
  /\ Payloads(Ahead)
  /\ \A ch \in work.changes : ch.seq <= db.lastSeq => ch \in history

\* The changes of a record between two checkpoints.
Between(H, t, r, lo, hi) ==
  {ch \in H : ch.tenant = t /\ ch.record = r /\ ch.seq > lo /\ ch.seq <= hi}

\* The changes of a tenant between two checkpoints.
Page(H, t, lo, hi) == {ch \in H : ch.tenant = t /\ ch.seq > lo /\ ch.seq <= hi}

Latest(F) == IF F = {} THEN Missing ELSE Shown(Newest(F))

\* The record as of checkpoint k.
At(H, t, r, k) ==
  Latest({ch \in H : ch.tenant = t /\ ch.record = r /\ ch.seq <= k})

ShowsRow(row, shown) ==
  shown = IF row.revision > 0 /\ ~row.deleted
          THEN [revision |-> row.revision, data |-> row.data] ELSE Missing

\* Committed tables s, with everything ever committed before them.
TablesOK(s, H) ==
  /\ s \in Store /\ ChangesContiguous(s)
  /\ Recalls(s, H) /\ Numbered(H) /\ Payloads(H)
  /\ \A t \in Tenant, r \in RecordId :
       ShowsRow(s.records[t][r], At(H, t, r, s.lastSeq))

-----------------------------------------------------------------------------
(* One reader of tenant t: its copy and its read rd. *)

\* Outside of what an interrupted installation has touched, the copy shows the
\* records as of its checkpoint.
Settled(H, t, copy) ==
  \A r \in RecordId :
    Between(H, t, r, copy.checkpoint, copy.horizon) = {} =>
      copy.records[r] = At(H, t, r, copy.checkpoint)

\* A pull from this checkpoint is told to reset.
Behind(copy, minSeq) == copy.checkpoint + 1 < minSeq

\* An interrupted snapshot may have wiped anything, but then no page can follow.
CopyOK(s, H, t, copy) ==
  /\ copy \in [records : [RecordId -> LocalRecord], checkpoint : Nat, horizon : Nat]
  /\ copy.checkpoint <= s.lastSeq /\ copy.horizon <= s.lastSeq
  /\ \/ Settled(H, t, copy)
     \/ Behind(copy, s.minSeq) /\ copy.checkpoint < copy.horizon

\* Tables as they once were.
ViewOK(s, H, t, view) ==
  /\ view.lastSeq <= s.lastSeq /\ view.minSeq <= s.minSeq
  /\ view.minSeq <= view.lastSeq + 1
  /\ view.changes = {ch \in H : ch.seq >= view.minSeq /\ ch.seq <= view.lastSeq}
  /\ \A r \in RecordId : ShowsRow(view.records[t][r], At(H, t, r, view.lastSeq))

PageOK(s, H, t, copy, answer) ==
  /\ answer.checkpoint \in copy.checkpoint .. s.lastSeq
  /\ answer.changes = Page(H, t, copy.checkpoint, answer.checkpoint)
  /\ Settled(H, t, copy)

SnapshotOK(s, H, t, copy, answer) ==
  /\ answer.checkpoint \in copy.checkpoint .. s.lastSeq
  /\ DOMAIN answer.records \subseteq RecordId
  /\ \A r \in RecordId :
       At(H, t, r, answer.checkpoint) =
         IF r \in DOMAIN answer.records THEN answer.records[r] ELSE Missing
  /\ copy.checkpoint = 0 \/ (Behind(copy, s.minSeq) /\ copy.checkpoint < answer.checkpoint)

ReadOK(s, H, t, copy, rd) ==
  /\ rd = [phase |-> rd.phase, wants |-> rd.wants, view |-> rd.view, answer |-> rd.answer]
  /\ rd.phase \in {"idle", "open", "answered"}
  /\ rd.wants \in {"pull", "snapshot"}
  /\ rd.view \in Store
  /\ rd.phase = "idle" /\ rd.wants = "snapshot" => Behind(copy, s.minSeq)
  /\ rd.phase = "open" =>
       /\ ViewOK(s, H, t, rd.view)
       /\ copy.checkpoint <= rd.view.lastSeq
       /\ rd.wants = "pull" => Settled(H, t, copy) \/ Behind(copy, rd.view.minSeq)
       /\ rd.wants = "snapshot" => copy.checkpoint = 0 \/ Behind(copy, rd.view.minSeq)
  /\ rd.phase = "answered" =>
       /\ rd.answer.kind \in {"reset", "page", "snapshot"}
       /\ rd.answer.kind = "reset" => Behind(copy, s.minSeq)
       /\ rd.answer.kind = "page" => PageOK(s, H, t, copy, rd.answer)
       /\ rd.answer.kind = "snapshot" => SnapshotOK(s, H, t, copy, rd.answer)

ReaderOK(s, H, t, copy, rd) == CopyOK(s, H, t, copy) /\ ReadOK(s, H, t, copy, rd)

ReaderInv ==
  /\ DOMAIN replica = Reader /\ DOMAIN read = Reader
  /\ \A n \in Reader : ReaderOK(db, history, ReaderTenant[n], replica[n], read[n])

-----------------------------------------------------------------------------
(* The last of a set of changes. *)

\* A set of changes up to some checkpoint has a last one.
LEMMA NewestExists ==
  ASSUME NEW F, F \subseteq Change, F # {}, NEW k \in Nat, \A x \in F : x.seq <= k
  PROVE  Newest(F) \in F /\ \A y \in F : y.seq <= Newest(F).seq
PROOF
<1> DEFINE T == {k - x.seq : x \in F}
<1>1. \A x \in F : x.seq \in Nat
  BY DEF Change
<1>2. T \subseteq Nat /\ T # {}
  BY <1>1
<1>3. PICK n \in T : \A m \in T : n <= m
  BY <1>2, LeastNatural
<1>4. PICK x \in F : n = k - x.seq
  BY <1>3
<1>5. \A y \in F : y.seq <= x.seq
  <2> SUFFICES ASSUME NEW y \in F PROVE y.seq <= x.seq
    OBVIOUS
  <2>1. n <= k - y.seq
    BY <1>3
  <2> QED
    BY <1>1, <1>4, <2>1
<1> QED
  BY <1>5 DEF Newest

LEMMA NewestIs ==
  ASSUME NEW F, F \subseteq Change, Numbered(F), NEW x \in F, \A y \in F : y.seq <= x.seq
  PROVE  Newest(F) = x
PROOF
<1>1. Newest(F) \in F /\ \A y \in F : y.seq <= Newest(F).seq
  BY DEF Newest
<1>2. Newest(F).seq \in Nat /\ x.seq \in Nat
  BY <1>1 DEF Change
<1>3. Newest(F).seq = x.seq
  BY <1>1, <1>2
<1> QED
  BY <1>1, <1>3 DEF Numbered

LEMMA FeedFinite ==
  ASSUME NEW F, F \subseteq Change, Numbered(F), NEW k \in Nat, \A x \in F : x.seq <= k
  PROVE  IsFiniteSet(F)
PROOF
<1> DEFINE f == [x \in F |-> x.seq]
<1>1. \A x \in F : x.seq \in 0 .. k
  BY DEF Change
<1>2. f \in Injection(F, 0 .. k)
  BY <1>1 DEF Numbered, Injection, IsInjective
<1>3. IsFiniteSet(0 .. k)
  BY FS_Interval
<1> QED
  BY <1>2, <1>3, FS_Injection

-----------------------------------------------------------------------------
(* Pages. *)

\* PageOf takes the changes up to NextCheckpoint, no more and no fewer.
LEMMA PageIsPrefix ==
  ASSUME NEW F, F \subseteq Change, Numbered(F), NEW from \in Nat, NEW last \in Nat,
         from <= last, \A x \in F : x.seq > from /\ x.seq <= last
  PROVE  LET next == NextCheckpoint(F, last, from)
         IN next \in from .. last /\ PageOf(F) = {ch \in F : ch.seq <= next}
PROOF
<1> DEFINE UpTo(ch) == {x \in F : x.seq <= ch.seq}
           next == NextCheckpoint(F, last, from)
<1>1. \A x \in F : x.seq \in Nat
  BY DEF Change
<1>2. IsFiniteSet(F)
  BY FeedFinite
<1>3. \A S \in SUBSET F : IsFiniteSet(S) /\ Cardinality(S) \in Nat
  BY <1>2, FS_Subset, FS_CardinalityType
<1>4. ASSUME NEW S \in SUBSET F, NEW T \in SUBSET S
      PROVE  Cardinality(T) <= Cardinality(S)
  BY <1>3, FS_Subset
<1>5. PageOf(F) = {ch \in F : Cardinality(UpTo(ch)) <= PageLimit}
  BY DEF PageOf
<1>6. PageLimit \in Nat /\ PageLimit >= 1
  BY ReaderAssumption
<1>7. CASE HasMore(F)
  <2>1. F # {}
    BY <1>6, <1>7, FS_EmptySet DEF HasMore
  <2> DEFINE T == {x.seq : x \in F}
  <2>2. PICK n \in T : \A m \in T : n <= m
    BY <1>1, <2>1, LeastNatural
  <2>3. PICK first \in F : \A x \in F : first.seq <= x.seq
    BY <2>2
  <2>4. UpTo(first) = {first}
    BY <1>1, <2>3 DEF Numbered
  <2>5. first \in PageOf(F)
    BY <1>5, <1>6, <2>4, FS_Singleton
  <2>6. PageOf(F) \subseteq F /\ PageOf(F) \subseteq Change /\ PageOf(F) # {}
    BY <1>5, <2>5
  <2> DEFINE p == Newest(PageOf(F))
  <2>7. p \in PageOf(F) /\ \A y \in PageOf(F) : y.seq <= p.seq
    BY <2>6, NewestExists
  <2>8. next = p.seq
    BY <1>7 DEF NextCheckpoint
  <2> HIDE DEF p
  <2>9. ASSUME NEW ch \in F, ch.seq <= p.seq
        PROVE  ch \in PageOf(F)
    <3>1. p \in F /\ Cardinality(UpTo(p)) <= PageLimit
      BY <1>5, <2>7
    <3>2. UpTo(ch) \subseteq UpTo(p)
      BY <1>1, <2>9, <3>1
    <3>3. Cardinality(UpTo(ch)) <= Cardinality(UpTo(p))
      BY <1>4, <3>2
    <3>4. Cardinality(UpTo(ch)) \in Nat /\ Cardinality(UpTo(p)) \in Nat
      BY <1>3
    <3> QED
      BY <1>5, <1>6, <3>1, <3>3, <3>4
  <2>10. PageOf(F) = {ch \in F : ch.seq <= next}
    BY <2>6, <2>7, <2>8, <2>9
  <2>11. next \in from .. last
    BY <1>1, <2>6, <2>7, <2>8
  <2> QED
    BY <2>10, <2>11
<1>8. CASE ~HasMore(F)
  <2>1. next = last
    BY <1>8 DEF NextCheckpoint
  <2>2. ASSUME NEW ch \in F
        PROVE  Cardinality(UpTo(ch)) <= PageLimit
    <3>1. UpTo(ch) \in SUBSET F /\ F \in SUBSET F
      OBVIOUS
    <3>2. Cardinality(UpTo(ch)) <= Cardinality(F)
      BY <1>4, <3>1
    <3>3. Cardinality(UpTo(ch)) \in Nat /\ Cardinality(F) \in Nat
      BY <1>3, <3>1
    <3> QED
      BY <1>6, <1>8, <3>2, <3>3 DEF HasMore
  <2>3. PageOf(F) = {ch \in F : ch.seq <= next}
    BY <1>5, <2>1, <2>2
  <2> QED
    BY <2>1, <2>3
<1> QED
  BY <1>7, <1>8

\* The record as of a checkpoint is a whole document, or missing.
LEMMA AtTyped ==
  ASSUME NEW H, H \subseteq Change, Payloads(H), NEW t, NEW r, NEW k \in Nat
  PROVE  At(H, t, r, k) \in LocalRecord
PROOF
<1> DEFINE F == {ch \in H : ch.tenant = t /\ ch.record = r /\ ch.seq <= k}
<1>1. CASE F = {}
  BY <1>1 DEF At, Latest, LocalRecord
<1>2. CASE F # {}
  <2>1. Newest(F) \in H
    BY <1>2, NewestExists
  <2>2. Newest(F).revision \in Nat \ {0} /\ Newest(F).op \in {"upsert", "delete"}
    BY <2>1 DEF Change
  <2>3. Shown(Newest(F)) \in LocalRecord
    BY <2>1, <2>2 DEF Shown, Payloads, LocalRecord
  <2> QED
    BY <1>2, <2>3 DEF At, Latest
<1> QED
  BY <1>1, <1>2

\* A record without changes between two checkpoints is the same at both.
LEMMA AtQuiet ==
  ASSUME NEW H, H \subseteq Change, NEW t, NEW r, NEW lo \in Nat, NEW hi \in Nat,
         lo <= hi, Between(H, t, r, lo, hi) = {}
  PROVE  At(H, t, r, lo) = At(H, t, r, hi)
PROOF
<1>1. \A ch \in H : ch.seq \in Nat
  BY DEF Change
<1>2. {ch \in H : ch.tenant = t /\ ch.record = r /\ ch.seq <= lo} =
        {ch \in H : ch.tenant = t /\ ch.record = r /\ ch.seq <= hi}
  BY <1>1 DEF Between
<1> QED
  BY <1>2 DEF At

\* Applying the changes between two checkpoints brings every record that has one
\* to the second of them.
LEMMA ApplyPage ==
  ASSUME NEW H, H \subseteq Change, Numbered(H), NEW t, NEW lo \in Nat, NEW hi \in Nat,
         lo <= hi, NEW records, NEW r \in RecordId
  PROVE  Apply(records, Page(H, t, lo, hi))[r] =
           IF Between(H, t, r, lo, hi) = {} THEN records[r] ELSE At(H, t, r, hi)
PROOF
<1> DEFINE page == Page(H, t, lo, hi)
           mine == {ch \in page : ch.record = r}
           feed == {ch \in H : ch.tenant = t /\ ch.record = r /\ ch.seq <= hi}
<1>1. mine = Between(H, t, r, lo, hi)
  BY DEF Between, Page
<1>2. Apply(records, page)[r] = IF mine = {} THEN records[r] ELSE Shown(Newest(mine))
  BY DEF Apply
<1>3. CASE mine = {}
  BY <1>1, <1>2, <1>3
<1>4. CASE mine # {}
  <2>1. mine \subseteq Change /\ feed \subseteq Change /\ mine \subseteq feed
    BY DEF Page
  <2>2. \A x \in H : x.seq \in Nat
    BY DEF Change
  <2> DEFINE new == Newest(mine)
  <2>3. new \in mine /\ \A y \in mine : y.seq <= new.seq
    BY <1>4, <2>1, NewestExists
  <2> HIDE DEF new
  <2>4. \A y \in feed : y.seq <= new.seq
    BY <2>2, <2>3 DEF Page
  <2>5. Newest(feed) = new
    <3>1. Numbered(feed) /\ new \in feed
      BY <2>1, <2>3 DEF Numbered
    <3> QED
      BY <2>1, <2>4, <3>1, NewestIs
  <2>6. At(H, t, r, hi) = Shown(new)
    BY <1>4, <2>1, <2>5 DEF At, Latest
  <2> QED
    BY <1>1, <1>2, <1>4, <2>6 DEF new
<1> QED
  BY <1>3, <1>4

-----------------------------------------------------------------------------
(* The writers. *)

\* What a captured write adds to a store, as far as the feed is concerned.
AppendsOne(s, w) ==
  \E ch \in Change :
    /\ w.changes = s.changes \cup {ch} /\ ch.seq = s.lastSeq + 1
    /\ ch.op = "upsert" => ch.data \in Data

LEMMA WriteAppendsOne ==
  ASSUME NEW s \in Store, NEW t \in Tenant, NEW r \in RecordId, NEW data \in Data,
         NEW deleted \in BOOLEAN, NEW src \in Source
  PROVE  AppendsOne(s, WriteDoc(s, t, r, data, deleted, src))
PROOF
<1> DEFINE w     == WriteDoc(s, t, r, data, deleted, src)
           rev   == s.records[t][r].revision + 1
           shown == IF deleted THEN NoData ELSE data
           new   == [revision |-> s.docs[t][r].revision + 1, data |-> data,
                     deleted |-> deleted]
           mirror == [revision |-> rev, data |-> shown, deleted |-> deleted]
           ch    == [seq |-> s.lastSeq + 1, tenant |-> t, record |-> r,
                     op |-> IF deleted THEN "delete" ELSE "upsert",
                     data |-> shown, revision |-> rev, source |-> src]
<1>1. /\ w \in Store
      /\ w.ledger = s.ledger
      /\ w.clients = s.clients
      /\ w.minSeq = s.minSeq
      /\ w.lastSeq = s.lastSeq + 1
      /\ w.docs = [s.docs EXCEPT ![t][r] = new]
      /\ w.records = [s.records EXCEPT ![t][r] = mirror]
      /\ w.changes = s.changes \cup {ch}
  BY WriteDocFields
<1>2. ch \in Change
  BY DEF Store, Row, Change
<1>3. ch.seq = s.lastSeq + 1 /\ (ch.op = "upsert" => ch.data \in Data)
  OBVIOUS
<1> HIDE DEF w, ch
<1> QED
  BY <1>1, <1>2, <1>3 DEF AppendsOne, w

\* A step inside a transaction leaves the feed as it was, drops changes from it
\* or appends one.
LEMMA WorkKeepsFeed ==
  ASSUME Inv, HistoryInv, FeedInv, db' = db, history' = history,
         work'.changes \subseteq work.changes \/ AppendsOne(work, work')
  PROVE  FeedInv'
PROOF
<1>1. /\ db.lastSeq \in Nat /\ work.lastSeq \in Nat /\ db.lastSeq <= work.lastSeq
      /\ work \in Store
  BY DEF Inv, TypeOK, Store, Grows
<1>2. \A x \in Ahead : x \in Change /\ x.seq \in Nat /\ x.seq <= work.lastSeq
  BY DEF HistoryInv, Agrees, Recalls, Change
<1>3. Ahead' = history \cup work'.changes
  BY DEF Ahead
<1>4. CASE work'.changes \subseteq work.changes
  <2>1. Ahead' \subseteq Ahead
    BY <1>3, <1>4 DEF Ahead
  <2> QED
    BY <1>4, <2>1 DEF FeedInv, Numbered, Payloads
<1>5. CASE AppendsOne(work, work')
  <2>1. PICK ch \in Change :
          /\ work'.changes = work.changes \cup {ch} /\ ch.seq = work.lastSeq + 1
          /\ ch.op = "upsert" => ch.data \in Data
    BY <1>5 DEF AppendsOne
  <2>2. Ahead' = Ahead \cup {ch}
    BY <1>3, <2>1 DEF Ahead
  <2>3. \A x \in Ahead : x.seq # ch.seq
    BY <1>1, <1>2, <2>1
  <2>4. Numbered(Ahead)'
    BY <2>2, <2>3 DEF FeedInv, Numbered
  <2>5. Payloads(Ahead)'
    BY <2>1, <2>2 DEF FeedInv, Payloads
  <2>6. \A x \in work'.changes : x.seq <= db.lastSeq => x \in history
    BY <1>1, <2>1 DEF FeedInv
  <2> QED
    BY <2>4, <2>5, <2>6 DEF FeedInv
<1> QED
  BY <1>4, <1>5

LEMMA InitFeed == Init => FeedInv
  BY DEF Init, FeedInv, Ahead, EmptyStore, Numbered, Payloads

LEMMA NextKeepsFeed == Inv /\ HistoryInv /\ FeedInv /\ [Next]_vars => FeedInv'
PROOF
<1> SUFFICES ASSUME Inv, HistoryInv, FeedInv, [Next]_vars PROVE FeedInv'
  OBVIOUS
<1>1. db \in Store /\ work \in Store /\ StoreOK(db) /\ StoreOK(work)
  BY DEF Inv, TypeOK
<1>2. External \in Source
  BY DEF External, Source
<1>3. ASSUME NEW id \in Identity, NEW c \in ClientId, NEW b \in Batch, BeginPush(id, c, b)
      PROVE  FeedInv'
  <2>1. work = db /\ db' = db /\ history' = history
        /\ work' = ClaimClient(db, id.tenant, c, id.subject)
    BY <1>3 DEF BeginPush, Inv
  <2>2. work'.changes = work.changes
    BY <1>1, <2>1 DEF ClaimClient, Store
  <2> QED
    BY <2>1, <2>2, WorkKeepsFeed
<1>4. CASE ReplayDuplicate \/ RejectMutation \/ AcknowledgeNoOp
  <2>1. db' = db /\ history' = history /\ work'.changes = work.changes
    BY <1>1, <1>4 DEF ReplayDuplicate, RejectMutation, AcknowledgeNoOp, Settle, Record, Store
  <2> QED
    BY <2>1, WorkKeepsFeed
<1>5. CASE ApplyMutation
  <2> DEFINE t == call.tenant
             m == Current
             d == ApplyEffect(work, t, m, PushSource)
  <2>1. Executing /\ Pushing /\ call.todo # <<>> /\ RejectionCode(work, t, m) = "NONE"
    BY <1>5 DEF ApplyMutation, Executing, Pushing
  <2>2. /\ m \in Mutation /\ t \in Tenant /\ (m.op = "upsert") = (m.data \in Data)
        /\ call.client \in ClientId /\ call.subject \in Subject
    BY <2>1, CurrentTyped
  <2>3. PushSource \in Source /\ m.record \in RecordId
    BY <2>2 DEF PushSource, Source, Mutation
  <2>4. Exists(work, t, m) => work.docs[t][m.record].data \in Data
    BY <1>1, <2>2, <2>3 DEF Exists, StoreOK, RowsWellFormed, Store, Row
  <2>5. m.op \in {"upsert", "delete"}
    BY <2>2 DEF Mutation
  <2>6. AppendsOne(work, d)
    <3>1. CASE m.op = "delete"
      <4>1. Exists(work, t, m)
        BY <2>1, <3>1 DEF RejectionCode
      <4>2. d = WriteDoc(work, t, m.record, work.docs[t][m.record].data, TRUE, PushSource)
        BY <3>1 DEF ApplyEffect
      <4> QED
        BY <1>1, <2>2, <2>3, <2>4, <4>1, <4>2, WriteAppendsOne
    <3>2. CASE m.op = "upsert"
      <4>1. UpsertedData(work, t, m) \in Data
        BY <2>2, <2>4, <3>2, MergeAssumption DEF UpsertedData
      <4>2. d = WriteDoc(work, t, m.record, UpsertedData(work, t, m), FALSE, PushSource)
        BY <3>2 DEF ApplyEffect
      <4> QED
        BY <1>1, <2>2, <2>3, <4>1, <4>2, WriteAppendsOne
    <3> QED
      BY <2>5, <3>1, <3>2
  <2>7. WroteOne(work, d)
    BY <1>1, <2>1, <2>2, <2>3, ApplyEffectOK
  <2>8. d \in Store
    BY <2>7 DEF WroteOne
  <2> HIDE DEF d
  <2>9. PICK e : work' = Record(d, e) /\ db' = db /\ history' = history
    BY <1>5 DEF ApplyMutation, Settle, d
  <2>10. work'.changes = d.changes
    BY <2>8, <2>9 DEF Record, Store
  <2>11. AppendsOne(work, work')
    BY <2>6, <2>10 DEF AppendsOne
  <2> QED
    BY <2>9, <2>11, WorkKeepsFeed
<1>6. CASE CommitPush \/ CommitAdmin
  <2>1. PICK s : Commit(s) /\ s.changes = work.changes
    <3>1. StoreWatermark(work).changes = work.changes
      BY <1>1 DEF StoreWatermark, Store
    <3> QED
      BY <1>6, <3>1 DEF CommitPush, CommitAdmin
  <2>2. db' = s /\ work' = s /\ history' = history \cup s.changes
    BY <2>1 DEF Commit
  <2>3. Ahead' = Ahead
    BY <2>1, <2>2 DEF Ahead
  <2> QED
    BY <2>2, <2>3 DEF FeedInv
<1>7. CASE Rollback
  <2>1. db' = db /\ work' = db /\ history' = history
    BY <1>7 DEF Rollback
  <2>2. db.changes \subseteq history
    BY DEF HistoryInv, Agrees, Recalls
  <2>3. Ahead' \subseteq Ahead
    BY <2>1, <2>2 DEF Ahead
  <2> QED
    BY <2>1, <2>2, <2>3 DEF FeedInv, Numbered, Payloads
<1>8. ASSUME NEW s, BeginExternal(s), AppendsOne(db, s) PROVE FeedInv'
  <2>1. work = db /\ db' = db /\ history' = history /\ work' = s
    BY <1>8 DEF BeginExternal, Inv
  <2> QED
    BY <1>8, <2>1, WorkKeepsFeed
<1>9. ASSUME NEW t \in Tenant, NEW r \in RecordId, NEW d \in ExternalData,
             ExternalUpsert(t, r, d)
      PROVE  FeedInv'
  <2>1. d \in Data
    BY ExternalAssumption
  <2> QED
    BY <1>1, <1>2, <1>8, <1>9, <2>1, WriteAppendsOne DEF ExternalUpsert
<1>10. ASSUME NEW t \in Tenant, NEW r \in RecordId, ExternalDelete(t, r)
       PROVE  FeedInv'
  <2>1. db.docs[t][r].revision > 0 /\ db.docs[t][r].revision \in Nat
    BY <1>1, <1>10 DEF ExternalDelete, Store, Row
  <2>2. db.docs[t][r].data \in Data
    BY <1>1, <2>1 DEF StoreOK, RowsWellFormed
  <2> QED
    BY <1>1, <1>2, <1>8, <1>10, <2>2, WriteAppendsOne DEF ExternalDelete
<1>11. ASSUME NEW through \in 0 .. MaxCompact, BeginCompact(through)
       PROVE  FeedInv'
  <2>1. work = db /\ db' = db /\ history' = history
        /\ work' = CompactThrough(db, through)
    BY <1>11 DEF BeginCompact, Inv
  <2>2. work'.changes \subseteq work.changes
    BY <1>1, <2>1 DEF CompactThrough, Store
  <2> QED
    BY <2>1, <2>2, WorkKeepsFeed
<1>12. CASE UNCHANGED vars
  <2>1. db' = db /\ history' = history /\ work' = work
    BY <1>12 DEF vars
  <2> QED
    BY <2>1, WorkKeepsFeed
<1> QED
  BY <1>3, <1>4, <1>5, <1>6, <1>7, <1>9, <1>10, <1>11, <1>12 DEF Next, PushStep

\* The committed tables and the history after a step of the writers.
Extends(s, H, w, G) ==
  /\ H \subseteq G /\ G \subseteq Change
  /\ s.lastSeq <= w.lastSeq /\ s.minSeq <= w.minSeq
  /\ \A ch \in G : ch \notin H => ch.seq > s.lastSeq

LEMMA NextExtends ==
  ASSUME Inv, HistoryInv, HistoryInv', FeedInv, [Next]_vars
  PROVE  Extends(db, history, db', history')
PROOF
<1>1. history \subseteq Change /\ history' \subseteq Change
  BY DEF HistoryInv, Agrees, Recalls
<1>2. db \in Store /\ work \in Store
  BY DEF Inv, TypeOK
<1>3. db.lastSeq <= db'.lastSeq /\ db.minSeq <= db'.minSeq
  <2>1. [DurableStep]_vars
    BY NextIsDurable
  <2> QED
    BY <1>2, <2>1 DEF DurableStep, vars, Store
<1>4. history' \subseteq history \cup work.changes
  <2>1. StoreWatermark(work).changes = work.changes
    BY <1>2 DEF StoreWatermark, Store
  <2> QED
    BY <2>1 DEF Next, vars, BeginPush, PushStep, ReplayDuplicate, RejectMutation,
       AcknowledgeNoOp, ApplyMutation, Settle, CommitPush, CommitAdmin, Commit, Rollback,
       ExternalUpsert, ExternalDelete, BeginExternal, BeginCompact
<1>5. history \subseteq history'
  BY DEF Next, vars, BeginPush, PushStep, ReplayDuplicate, RejectMutation,
     AcknowledgeNoOp, ApplyMutation, Settle, CommitPush, CommitAdmin, Commit, Rollback,
     ExternalUpsert, ExternalDelete, BeginExternal, BeginCompact
<1>6. \A ch \in history' : ch \notin history => ch.seq > db.lastSeq
  <2>1. \A ch \in work.changes : ch.seq \in Nat /\ db.lastSeq \in Nat
    BY <1>2 DEF Store, Change
  <2> QED
    BY <1>4, <2>1 DEF FeedInv
<1> QED
  BY <1>1, <1>3, <1>5, <1>6 DEF Extends

\* The committed mirror shows every record as the feed's last change left it.
LEMMA TablesAreOK ==
  ASSUME Inv, HistoryInv, FeedInv
  PROVE  TablesOK(db, history)
PROOF
<1>1. /\ db \in Store /\ ChangesContiguous(db) /\ MirrorTracksDocs(db)
      /\ Recalls(db, history) /\ Follows(db, history)
  BY DEF Inv, TypeOK, StoreOK, HistoryInv, Agrees
<1>2. Numbered(history) /\ Payloads(history)
  BY DEF FeedInv, Numbered, Payloads, Ahead
<1>3. ASSUME NEW t \in Tenant, NEW r \in RecordId
      PROVE  ShowsRow(db.records[t][r], At(history, t, r, db.lastSeq))
  <2> DEFINE F   == Feed(history, t, r)
             row == db.docs[t][r]
  <2>1. F = {ch \in history : ch.tenant = t /\ ch.record = r /\ ch.seq <= db.lastSeq}
    BY <1>1 DEF Feed, Recalls
  <2>2. RowFollows(row, F) /\ F \subseteq Change /\ row \in Row
    BY <1>1 DEF Follows, Recalls, Feed, Store
  <2>3. db.records[t][r] = [row EXCEPT !.data = IF row.deleted THEN NoData ELSE @]
    BY <1>1 DEF MirrorTracksDocs
  <2>4. /\ db.records[t][r].revision = row.revision
        /\ db.records[t][r].deleted = row.deleted
        /\ ~row.deleted => db.records[t][r].data = row.data
    BY <2>2, <2>3 DEF Row
  <2>5. At(history, t, r, db.lastSeq) = Latest(F)
    BY <2>1 DEF At
  <2> HIDE DEF F, row
  <2>6. row.revision \in Nat /\ {ch.revision : ch \in F} = 1 .. row.revision
    BY <2>2 DEF RowFollows, Row
  <2>7. CASE row.revision = 0
    <3>1. \A ch \in F : ch.revision \in 1 .. 0
      BY <2>6, <2>7
    <3>2. F = {}
      BY <3>1
    <3> QED
      BY <2>4, <2>5, <2>7, <3>2 DEF ShowsRow, Latest
  <2>8. CASE row.revision > 0
    <3>1. PICK x \in F : x.revision = row.revision
      BY <2>6, <2>8
    <3>2. \A y \in F : y.revision \in 1 .. row.revision /\ y.seq \in Nat
      BY <2>2, <2>6 DEF Change
    <3>3. \A y \in F : y.seq <= x.seq
      BY <2>2, <3>1, <3>2 DEF RowFollows
    <3>4. Numbered(F)
      BY <1>2 DEF F, Feed, Numbered
    <3>5. Newest(F) = x
      BY <2>2, <3>3, <3>4, NewestIs
    <3>6. (x.op = "delete") = row.deleted /\ (~row.deleted => x.data = row.data)
      BY <2>2, <3>1 DEF RowFollows
    <3>7. row.deleted \in BOOLEAN
      BY <2>2 DEF Row
    <3>8. Latest(F) = Shown(x)
      BY <3>1, <3>5 DEF Latest
    <3> QED
      BY <2>4, <2>5, <2>8, <3>1, <3>6, <3>7, <3>8 DEF ShowsRow, Shown
  <2> QED
    BY <2>6, <2>7, <2>8
<1> QED
  BY <1>1, <1>2, <1>3 DEF TablesOK

-----------------------------------------------------------------------------
(* The reader's invariant under the steps of the writers. *)

\* What is committed later is after every checkpoint handed out so far.
LEMMA WriterKeepsReader ==
  ASSUME NEW s \in Store, NEW H, NEW w \in Store, NEW G, Extends(s, H, w, G),
         NEW t \in Tenant, NEW copy, NEW rd, ReaderOK(s, H, t, copy, rd)
  PROVE  ReaderOK(w, G, t, copy, rd)
PROOF
<1>1. /\ s.lastSeq \in Nat /\ s.minSeq \in Nat /\ w.lastSeq \in Nat /\ w.minSeq \in Nat
      /\ s.lastSeq <= w.lastSeq /\ s.minSeq <= w.minSeq
      /\ H \subseteq G
  BY DEF Store, Extends
<1>2. \A ch \in G : ch.seq \in Nat /\ (ch.seq <= s.lastSeq => ch \in H)
  BY <1>1 DEF Extends, Change
<1>3. /\ CopyOK(s, H, t, copy) /\ ReadOK(s, H, t, copy, rd)
      /\ copy.checkpoint \in Nat /\ copy.horizon \in Nat
      /\ copy.checkpoint <= s.lastSeq /\ copy.horizon <= s.lastSeq
  BY DEF ReaderOK, CopyOK
<1>4. \A r : \A k \in Nat : k <= s.lastSeq => At(G, t, r, k) = At(H, t, r, k)
  <2> SUFFICES ASSUME NEW r, NEW k \in Nat, k <= s.lastSeq
               PROVE  At(G, t, r, k) = At(H, t, r, k)
    OBVIOUS
  <2>1. {ch \in G : ch.tenant = t /\ ch.record = r /\ ch.seq <= k} =
          {ch \in H : ch.tenant = t /\ ch.record = r /\ ch.seq <= k}
    BY <1>1, <1>2
  <2> QED
    BY <2>1 DEF At
<1>5. \A r : Between(G, t, r, copy.checkpoint, copy.horizon) =
               Between(H, t, r, copy.checkpoint, copy.horizon)
  BY <1>1, <1>2, <1>3 DEF Between
<1>6. Settled(H, t, copy) => Settled(G, t, copy)
  BY <1>3, <1>4, <1>5 DEF Settled
<1>7. \A m \in Nat : m <= s.minSeq /\ Behind(copy, m) => Behind(copy, w.minSeq)
  BY <1>1, <1>3 DEF Behind
<1>8. CopyOK(w, G, t, copy)
  BY <1>1, <1>3, <1>6, <1>7 DEF CopyOK
<1>9. rd.view \in Store
  BY <1>3 DEF ReadOK
<1>10. ViewOK(s, H, t, rd.view) => ViewOK(w, G, t, rd.view)
  <2> SUFFICES ASSUME ViewOK(s, H, t, rd.view) PROVE ViewOK(w, G, t, rd.view)
    OBVIOUS
  <2>1. rd.view.lastSeq \in Nat /\ rd.view.minSeq \in Nat
    BY <1>9 DEF Store
  <2>2. /\ rd.view.lastSeq <= s.lastSeq /\ rd.view.lastSeq <= w.lastSeq
        /\ rd.view.minSeq <= w.minSeq /\ rd.view.minSeq <= rd.view.lastSeq + 1
    BY <1>1, <2>1 DEF ViewOK
  <2>3. rd.view.changes =
          {ch \in G : ch.seq >= rd.view.minSeq /\ ch.seq <= rd.view.lastSeq}
    BY <1>1, <1>2, <2>1, <2>2 DEF ViewOK
  <2>4. \A r \in RecordId : ShowsRow(rd.view.records[t][r], At(G, t, r, rd.view.lastSeq))
    BY <1>4, <2>1, <2>2 DEF ViewOK
  <2> QED
    BY <2>2, <2>3, <2>4 DEF ViewOK
<1>11. PageOK(s, H, t, copy, rd.answer) => PageOK(w, G, t, copy, rd.answer)
  <2> SUFFICES ASSUME PageOK(s, H, t, copy, rd.answer) PROVE PageOK(w, G, t, copy, rd.answer)
    OBVIOUS
  <2>1. /\ rd.answer.checkpoint \in copy.checkpoint .. s.lastSeq
        /\ rd.answer.checkpoint \in Nat
    BY <1>1, <1>3 DEF PageOK
  <2>2. Page(G, t, copy.checkpoint, rd.answer.checkpoint) =
          Page(H, t, copy.checkpoint, rd.answer.checkpoint)
    BY <1>1, <1>2, <1>3, <2>1 DEF Page
  <2> QED
    BY <1>1, <1>3, <1>6, <2>1, <2>2 DEF PageOK
<1>12. SnapshotOK(s, H, t, copy, rd.answer) => SnapshotOK(w, G, t, copy, rd.answer)
  BY <1>1, <1>3, <1>4, <1>7 DEF SnapshotOK
<1>13. ReadOK(w, G, t, copy, rd)
  BY <1>1, <1>3, <1>6, <1>7, <1>10, <1>11, <1>12 DEF ReadOK
<1> QED
  BY <1>8, <1>13 DEF ReaderOK

-----------------------------------------------------------------------------
(* The reader's invariant under its own steps. *)

LEMMA IdleOK ==
  ASSUME NEW s, NEW H, NEW t, NEW copy, NEW wants \in {"pull", "snapshot"},
         wants = "snapshot" => Behind(copy, s.minSeq)
  PROVE  ReadOK(s, H, t, copy, Idle(wants))
BY EmptyStoreOK DEF ReadOK, Idle

\* A transaction that begins now sees the committed tables.
LEMMA ViewNow ==
  ASSUME NEW s, NEW H, TablesOK(s, H), NEW t \in Tenant
  PROVE  ViewOK(s, H, t, s)
PROOF
<1>1. /\ s \in Store /\ ChangesContiguous(s) /\ Recalls(s, H) /\ Numbered(H)
      /\ \A r \in RecordId : ShowsRow(s.records[t][r], At(H, t, r, s.lastSeq))
  BY DEF TablesOK
<1>2. /\ s.lastSeq \in Nat /\ s.minSeq \in Nat /\ s.minSeq <= s.lastSeq + 1
      /\ {ch.seq : ch \in s.changes} = s.minSeq .. s.lastSeq
      /\ s.changes \subseteq H
  BY <1>1 DEF Store, ChangesContiguous, Recalls
<1>3. ASSUME NEW ch \in H, ch.seq >= s.minSeq, ch.seq <= s.lastSeq
      PROVE  ch \in s.changes
  <2>1. ch.seq \in s.minSeq .. s.lastSeq
    BY <1>1, <1>2, <1>3 DEF Recalls, Change
  <2>2. PICK x \in s.changes : x.seq = ch.seq
    BY <1>2, <2>1
  <2> QED
    BY <1>1, <1>2, <2>2 DEF Numbered
<1>4. \A ch \in s.changes : ch.seq \in s.minSeq .. s.lastSeq
  BY <1>2
<1>5. s.changes = {ch \in H : ch.seq >= s.minSeq /\ ch.seq <= s.lastSeq}
  BY <1>2, <1>3, <1>4
<1> QED
  BY <1>1, <1>2, <1>5 DEF ViewOK

LEMMA OpenOK ==
  ASSUME NEW s, NEW H, TablesOK(s, H), NEW t \in Tenant, NEW copy, NEW rd,
         ReaderOK(s, H, t, copy, rd), rd.phase = "idle", NEW kind,
         \/ kind = "pull"
         \/ kind = "snapshot" /\ (rd.wants = "snapshot" \/ copy.checkpoint = 0)
  PROVE  ReadOK(s, H, t, copy, [phase |-> "open", wants |-> kind, view |-> s, answer |-> <<>>])
PROOF
<1>1. s \in Store /\ ViewOK(s, H, t, s)
  BY ViewNow DEF TablesOK
<1>2. CopyOK(s, H, t, copy) /\ ReadOK(s, H, t, copy, rd)
  BY DEF ReaderOK
<1>3. kind \in {"pull", "snapshot"} /\ copy.checkpoint <= s.lastSeq
  BY <1>2 DEF CopyOK
<1>4. kind = "pull" => Settled(H, t, copy) \/ Behind(copy, s.minSeq)
  BY <1>2 DEF CopyOK
<1>5. kind = "snapshot" => copy.checkpoint = 0 \/ Behind(copy, s.minSeq)
  BY <1>2 DEF ReadOK
<1> QED
  BY <1>1, <1>3, <1>4, <1>5 DEF ReadOK

AnswerTo(rd, answer) ==
  [phase |-> "answered", wants |-> rd.wants, view |-> EmptyStore, answer |-> answer]

LEMMA AnsweredOK ==
  ASSUME NEW s, NEW H, NEW t, NEW copy, NEW rd, ReadOK(s, H, t, copy, rd), NEW answer,
         \/ answer.kind = "reset" /\ Behind(copy, s.minSeq)
         \/ answer.kind = "page" /\ PageOK(s, H, t, copy, answer)
         \/ answer.kind = "snapshot" /\ SnapshotOK(s, H, t, copy, answer)
  PROVE  ReadOK(s, H, t, copy, AnswerTo(rd, answer))
PROOF
<1>1. rd.wants \in {"pull", "snapshot"}
  BY DEF ReadOK
<1> QED
  BY <1>1, EmptyStoreOK DEF ReadOK, AnswerTo

\* What an open read has to go by.
LEMMA OpenFacts ==
  ASSUME NEW s \in Store, NEW H, H \subseteq Change, NEW t, NEW copy, NEW rd,
         ReaderOK(s, H, t, copy, rd), rd.phase = "open"
  PROVE  /\ s.lastSeq \in Nat /\ s.minSeq \in Nat
         /\ rd.view.lastSeq \in Nat /\ rd.view.minSeq \in Nat
         /\ copy.checkpoint \in Nat /\ copy.checkpoint <= rd.view.lastSeq
         /\ rd.view.lastSeq <= s.lastSeq /\ rd.view.minSeq <= s.minSeq
         /\ rd.view.minSeq <= rd.view.lastSeq + 1
         /\ ViewOK(s, H, t, rd.view)
         /\ \A ch \in H : ch.seq \in Nat /\ ch.seq > 0
BY DEF ReaderOK, CopyOK, ReadOK, ViewOK, Store, Change

LEMMA ResetOK ==
  ASSUME NEW s \in Store, NEW H, H \subseteq Change, NEW t, NEW copy, NEW rd,
         ReaderOK(s, H, t, copy, rd), rd.phase = "open",
         NeedsReset(rd.view, copy.checkpoint)
  PROVE  Behind(copy, s.minSeq)
PROOF
<1>1. /\ s.minSeq \in Nat /\ rd.view.minSeq \in Nat /\ copy.checkpoint \in Nat
      /\ rd.view.minSeq <= s.minSeq
  BY OpenFacts
<1> QED
  BY <1>1 DEF NeedsReset, Behind

\* A page is cut from changes that a compaction may since have removed.
LEMMA PullPageOK ==
  ASSUME NEW s \in Store, NEW H, H \subseteq Change, Numbered(H), NEW t, NEW copy, NEW rd,
         ReaderOK(s, H, t, copy, rd), rd.phase = "open", rd.wants = "pull",
         ~NeedsReset(rd.view, copy.checkpoint), NEW F,
         F = {ch \in rd.view.changes : /\ ch.tenant = t /\ ch.seq > copy.checkpoint
                                       /\ ch.seq <= rd.view.lastSeq}
  PROVE  PageOK(s, H, t, copy,
           [kind |-> "page",
            checkpoint |-> NextCheckpoint(F, rd.view.lastSeq, copy.checkpoint),
            changes |-> PageOf(F)])
PROOF
<1> DEFINE lo   == copy.checkpoint
           last == rd.view.lastSeq
           next == NextCheckpoint(F, last, lo)
<1>1. /\ s.lastSeq \in Nat /\ last \in Nat /\ rd.view.minSeq \in Nat /\ lo \in Nat
      /\ lo <= last /\ last <= s.lastSeq /\ ViewOK(s, H, t, rd.view)
      /\ \A ch \in H : ch.seq \in Nat
  BY OpenFacts
<1>2. rd.view.minSeq <= lo + 1
  BY <1>1 DEF NeedsReset
<1>3. F = Page(H, t, lo, last)
  BY <1>1, <1>2 DEF ViewOK, Page
<1>4. F \subseteq Change /\ Numbered(F)
  BY <1>3 DEF Numbered, Page
<1>5. next \in lo .. last /\ PageOf(F) = {ch \in F : ch.seq <= next}
  BY <1>1, <1>3, <1>4, PageIsPrefix DEF Page
<1>6. Settled(H, t, copy)
  BY <1>1, <1>2 DEF ReaderOK, ReadOK, Behind
<1> HIDE DEF next
<1>7. next \in lo .. s.lastSeq
  BY <1>1, <1>5
<1>8. PageOf(F) = Page(H, t, lo, next)
  BY <1>1, <1>3, <1>5 DEF Page
<1> QED
  BY <1>6, <1>7, <1>8 DEF PageOK, next

LEMMA TakeSnapshotOK ==
  ASSUME NEW s \in Store, NEW H, H \subseteq Change, NEW t, NEW copy, NEW rd,
         ReaderOK(s, H, t, copy, rd), rd.phase = "open", rd.wants = "snapshot",
         NEW live, live = {r \in RecordId : /\ rd.view.records[t][r].revision > 0
                                            /\ ~rd.view.records[t][r].deleted}
  PROVE  SnapshotOK(s, H, t, copy,
           [kind |-> "snapshot", checkpoint |-> rd.view.lastSeq,
            records |-> [r \in live |-> [revision |-> rd.view.records[t][r].revision,
                                         data |-> rd.view.records[t][r].data]]])
PROOF
<1>1. /\ s.lastSeq \in Nat /\ s.minSeq \in Nat /\ rd.view.lastSeq \in Nat
      /\ rd.view.minSeq \in Nat /\ copy.checkpoint \in Nat
      /\ copy.checkpoint <= rd.view.lastSeq /\ rd.view.lastSeq <= s.lastSeq
      /\ rd.view.minSeq <= s.minSeq /\ rd.view.minSeq <= rd.view.lastSeq + 1
      /\ ViewOK(s, H, t, rd.view)
  BY OpenFacts
<1>2. copy.checkpoint = 0 \/ Behind(copy, rd.view.minSeq)
  BY DEF ReaderOK, ReadOK
<1>3. copy.checkpoint = 0 \/ (Behind(copy, s.minSeq) /\ copy.checkpoint < rd.view.lastSeq)
  BY <1>1, <1>2 DEF Behind
<1>4. \A r \in RecordId : ShowsRow(rd.view.records[t][r], At(H, t, r, rd.view.lastSeq))
  BY <1>1 DEF ViewOK
<1> QED
  BY <1>1, <1>3, <1>4 DEF SnapshotOK, ShowsRow

\* The copy after an installation ran to its end, or was interrupted.
Installs(copy, records, k) == [copy EXCEPT !.records = records, !.checkpoint = k]

Breaks(copy, records, k) ==
  [copy EXCEPT !.records = records, !.horizon = IF @ > k THEN @ ELSE k]

LEMMA ApplyTyped ==
  ASSUME NEW H, H \subseteq Change, Numbered(H), Payloads(H),
         NEW t, NEW lo \in Nat, NEW hi \in Nat,
         lo <= hi, NEW records \in [RecordId -> LocalRecord]
  PROVE  /\ Apply(records, Page(H, t, lo, hi)) \in [RecordId -> LocalRecord]
         /\ \A r \in RecordId :
              Apply(records, Page(H, t, lo, hi))[r] =
                IF Between(H, t, r, lo, hi) = {} THEN records[r] ELSE At(H, t, r, hi)
PROOF
<1> DEFINE page == Page(H, t, lo, hi)
<1> HIDE DEF page
<1>1. ASSUME NEW r \in RecordId
      PROVE  Apply(records, page)[r] \in LocalRecord
  <2>1. Apply(records, page)[r] =
          IF Between(H, t, r, lo, hi) = {} THEN records[r] ELSE At(H, t, r, hi)
    BY ApplyPage DEF page
  <2>2. At(H, t, r, hi) \in LocalRecord
    BY AtTyped
  <2> QED
    BY <2>1, <2>2
<1>2. Apply(records, page) \in [RecordId -> LocalRecord]
  BY <1>1 DEF Apply
<1>3. ASSUME NEW r \in RecordId
      PROVE  Apply(records, page)[r] =
               IF Between(H, t, r, lo, hi) = {} THEN records[r] ELSE At(H, t, r, hi)
  BY ApplyPage DEF page
<1> QED
  BY <1>2, <1>3 DEF page

\* A page takes the copy from its checkpoint to the page's, wherever earlier
\* interruptions have left it.
LEMMA InstallPageOK ==
  ASSUME NEW s, NEW H, TablesOK(s, H), NEW t, NEW copy, NEW rd,
         ReaderOK(s, H, t, copy, rd), rd.phase = "answered", rd.answer.kind = "page"
  PROVE  CopyOK(s, H, t,
           Installs(copy, Apply(copy.records, rd.answer.changes), rd.answer.checkpoint))
PROOF
<1> DEFINE lo  == copy.checkpoint
           hi  == rd.answer.checkpoint
           rec == Apply(copy.records, rd.answer.changes)
           new == Installs(copy, rec, hi)
<1>1. /\ H \subseteq Change /\ Numbered(H) /\ Payloads(H) /\ s.lastSeq \in Nat
      /\ CopyOK(s, H, t, copy) /\ PageOK(s, H, t, copy, rd.answer)
      /\ \A ch \in H : ch.seq \in Nat
  BY DEF TablesOK, Recalls, Store, ReaderOK, ReadOK, Change
<1>2. /\ copy \in [records : [RecordId -> LocalRecord], checkpoint : Nat, horizon : Nat]
      /\ lo \in Nat /\ copy.horizon \in Nat /\ copy.horizon <= s.lastSeq
      /\ copy.records \in [RecordId -> LocalRecord]
  BY <1>1 DEF CopyOK
<1>3. /\ hi \in Nat /\ lo <= hi /\ hi <= s.lastSeq /\ Settled(H, t, copy)
      /\ rd.answer.changes = Page(H, t, lo, hi)
  BY <1>1, <1>2 DEF PageOK
<1>4. /\ rec \in [RecordId -> LocalRecord]
      /\ \A r \in RecordId :
           rec[r] = IF Between(H, t, r, lo, hi) = {} THEN copy.records[r] ELSE At(H, t, r, hi)
  <2>1. rec = Apply(copy.records, Page(H, t, lo, hi))
    BY <1>3
  <2>2. lo \in Nat /\ hi \in Nat /\ lo <= hi /\ copy.records \in [RecordId -> LocalRecord]
    BY <1>2, <1>3
  <2>3. /\ Apply(copy.records, Page(H, t, lo, hi)) \in [RecordId -> LocalRecord]
        /\ \A r \in RecordId :
             Apply(copy.records, Page(H, t, lo, hi))[r] =
               IF Between(H, t, r, lo, hi) = {} THEN copy.records[r] ELSE At(H, t, r, hi)
    <3>1. PICK a, b, records : a = lo /\ b = hi /\ records = copy.records
      OBVIOUS
    <3>2. a \in Nat /\ b \in Nat /\ a <= b /\ records \in [RecordId -> LocalRecord]
      BY <2>2, <3>1
    <3>3. /\ Apply(records, Page(H, t, a, b)) \in [RecordId -> LocalRecord]
          /\ \A r \in RecordId :
               Apply(records, Page(H, t, a, b))[r] =
                 IF Between(H, t, r, a, b) = {} THEN records[r] ELSE At(H, t, r, b)
      BY <1>1, <3>2, ApplyTyped
    <3> QED
      BY <3>1, <3>3
  <2> HIDE DEF rec
  <2> QED
    BY <2>1, <2>3
<1> HIDE DEF rec
<1>6. /\ new.records = rec /\ new.checkpoint = hi /\ new.horizon = copy.horizon
      /\ new \in [records : [RecordId -> LocalRecord], checkpoint : Nat, horizon : Nat]
  BY <1>2, <1>3, <1>4 DEF Installs
<1>7. ASSUME NEW r \in RecordId, Between(H, t, r, hi, copy.horizon) = {}
      PROVE  rec[r] = At(H, t, r, hi)
  <2>1. CASE Between(H, t, r, lo, hi) = {}
    <3>1. Between(H, t, r, lo, copy.horizon) = {}
      BY <1>1, <1>2, <1>3, <1>7, <2>1 DEF Between
    <3>2. copy.records[r] = At(H, t, r, lo)
      BY <1>3, <3>1 DEF Settled
    <3> QED
      BY <1>1, <1>2, <1>3, <1>4, <2>1, <3>2, AtQuiet
  <2>2. CASE Between(H, t, r, lo, hi) # {}
    BY <1>4, <2>2
  <2> QED
    BY <2>1, <2>2
<1>8. Settled(H, t, new)
  BY <1>6, <1>7 DEF Settled
<1> HIDE DEF new
<1>9. CopyOK(s, H, t, new)
  BY <1>2, <1>3, <1>6, <1>8 DEF CopyOK
<1> QED
  BY <1>9 DEF new, rec

\* A part of a page disturbs no record without a change in it.
LEMMA InterruptPageOK ==
  ASSUME NEW s, NEW H, TablesOK(s, H), NEW t, NEW copy, NEW rd,
         ReaderOK(s, H, t, copy, rd), rd.phase = "answered", rd.answer.kind = "page",
         NEW done \in rd.answer.changes
  PROVE  CopyOK(s, H, t,
           Breaks(copy,
                  Apply(copy.records, {ch \in rd.answer.changes : ch.seq <= done.seq}),
                  rd.answer.checkpoint))
PROOF
<1> DEFINE lo  == copy.checkpoint
           hi  == rd.answer.checkpoint
           mid == done.seq
           part == {ch \in rd.answer.changes : ch.seq <= mid}
           rec == Apply(copy.records, part)
           new == Breaks(copy, rec, hi)
<1>1. /\ H \subseteq Change /\ Numbered(H) /\ Payloads(H) /\ s.lastSeq \in Nat
      /\ CopyOK(s, H, t, copy) /\ PageOK(s, H, t, copy, rd.answer)
      /\ \A ch \in H : ch.seq \in Nat
  BY DEF TablesOK, Recalls, Store, ReaderOK, ReadOK, Change
<1>2. /\ copy \in [records : [RecordId -> LocalRecord], checkpoint : Nat, horizon : Nat]
      /\ lo \in Nat /\ copy.horizon \in Nat /\ copy.horizon <= s.lastSeq
      /\ lo <= s.lastSeq /\ copy.records \in [RecordId -> LocalRecord]
  BY <1>1 DEF CopyOK
<1>3. /\ hi \in Nat /\ lo <= hi /\ hi <= s.lastSeq /\ Settled(H, t, copy)
      /\ rd.answer.changes = Page(H, t, lo, hi)
  BY <1>1, <1>2 DEF PageOK
<1>4. mid \in Nat /\ lo <= mid /\ mid <= hi
  BY <1>1, <1>2, <1>3 DEF Page
<1>5. part = Page(H, t, lo, mid)
  BY <1>1, <1>3, <1>4 DEF Page
<1> HIDE DEF part, mid
<1>6. rec \in [RecordId -> LocalRecord]
  BY <1>1, <1>2, <1>4, <1>5, ApplyTyped
<1>7. \A r \in RecordId :
        rec[r] = IF Between(H, t, r, lo, mid) = {} THEN copy.records[r] ELSE At(H, t, r, mid)
  BY <1>1, <1>2, <1>4, <1>5, ApplyTyped
<1> HIDE DEF rec
<1>8. /\ new.records = rec /\ new.checkpoint = lo
      /\ new.horizon = (IF copy.horizon > hi THEN copy.horizon ELSE hi)
      /\ new \in [records : [RecordId -> LocalRecord], checkpoint : Nat, horizon : Nat]
  BY <1>2, <1>3, <1>6 DEF Breaks
<1>9. new.horizon \in Nat /\ copy.horizon <= new.horizon /\ hi <= new.horizon
      /\ new.horizon <= s.lastSeq
  BY <1>1, <1>2, <1>3, <1>8
<1>10. ASSUME NEW r \in RecordId, Between(H, t, r, lo, new.horizon) = {}
       PROVE  rec[r] = At(H, t, r, lo)
  <2>1. Between(H, t, r, lo, mid) = {} /\ Between(H, t, r, lo, copy.horizon) = {}
    BY <1>1, <1>2, <1>3, <1>4, <1>9, <1>10 DEF Between
  <2>2. copy.records[r] = At(H, t, r, lo)
    BY <1>3, <2>1 DEF Settled
  <2> QED
    BY <1>7, <2>1, <2>2
<1>11. Settled(H, t, new)
  BY <1>8, <1>10 DEF Settled
<1> HIDE DEF new
<1>12. CopyOK(s, H, t, new)
  BY <1>2, <1>8, <1>9, <1>11 DEF CopyOK
<1> QED
  BY <1>12 DEF new, rec, part, mid

\* A snapshot replaces whatever the copy held.
LEMMA InstallSnapshotOK ==
  ASSUME NEW s, NEW H, TablesOK(s, H), NEW t, NEW copy, NEW rd,
         ReaderOK(s, H, t, copy, rd), rd.phase = "answered", rd.answer.kind = "snapshot"
  PROVE  CopyOK(s, H, t, Installs(copy, Replace(rd.answer.records), rd.answer.checkpoint))
PROOF
<1> DEFINE hi  == rd.answer.checkpoint
           rec == Replace(rd.answer.records)
           new == Installs(copy, rec, hi)
<1>1. /\ H \subseteq Change /\ Payloads(H) /\ s.lastSeq \in Nat
      /\ CopyOK(s, H, t, copy) /\ SnapshotOK(s, H, t, copy, rd.answer)
  BY DEF TablesOK, Recalls, Store, ReaderOK, ReadOK
<1>2. /\ copy \in [records : [RecordId -> LocalRecord], checkpoint : Nat, horizon : Nat]
      /\ copy.checkpoint \in Nat /\ copy.horizon \in Nat /\ copy.horizon <= s.lastSeq
  BY <1>1 DEF CopyOK
<1>3. hi \in Nat /\ hi <= s.lastSeq
  BY <1>1, <1>2 DEF SnapshotOK
<1>4. \A r \in RecordId : rec[r] = At(H, t, r, hi)
  BY <1>1 DEF SnapshotOK, Replace
<1>5. rec \in [RecordId -> LocalRecord]
  <2>1. \A r \in RecordId : rec[r] \in LocalRecord
    BY <1>1, <1>3, <1>4, AtTyped
  <2> QED
    BY <2>1 DEF Replace
<1> HIDE DEF rec
<1>6. /\ new.records = rec /\ new.checkpoint = hi /\ new.horizon = copy.horizon
      /\ new \in [records : [RecordId -> LocalRecord], checkpoint : Nat, horizon : Nat]
  BY <1>2, <1>3, <1>5 DEF Installs
<1>7. Settled(H, t, new)
  BY <1>4, <1>6 DEF Settled
<1> HIDE DEF new
<1>8. CopyOK(s, H, t, new)
  BY <1>2, <1>3, <1>6, <1>7 DEF CopyOK
<1> QED
  BY <1>8 DEF new, rec

\* A part of a snapshot may lack any record: only another snapshot can follow,
\* unless there was nothing before.
LEMMA InterruptSnapshotOK ==
  ASSUME NEW s, NEW H, TablesOK(s, H), NEW t, NEW copy, NEW rd,
         ReaderOK(s, H, t, copy, rd), rd.phase = "answered", rd.answer.kind = "snapshot",
         NEW done \in SUBSET DOMAIN rd.answer.records
  PROVE  CopyOK(s, H, t,
           Breaks(copy, Replace([r \in done |-> rd.answer.records[r]]),
                  rd.answer.checkpoint))
PROOF
<1> DEFINE lo  == copy.checkpoint
           hi  == rd.answer.checkpoint
           rec == Replace([r \in done |-> rd.answer.records[r]])
           new == Breaks(copy, rec, hi)
<1>1. /\ H \subseteq Change /\ Payloads(H) /\ s.lastSeq \in Nat
      /\ CopyOK(s, H, t, copy) /\ SnapshotOK(s, H, t, copy, rd.answer)
      /\ \A ch \in H : ch.seq \in Nat /\ ch.seq > 0
  BY DEF TablesOK, Recalls, Store, ReaderOK, ReadOK, Change
<1>2. /\ copy \in [records : [RecordId -> LocalRecord], checkpoint : Nat, horizon : Nat]
      /\ lo \in Nat /\ copy.horizon \in Nat /\ copy.horizon <= s.lastSeq /\ lo <= s.lastSeq
  BY <1>1 DEF CopyOK
<1>3. /\ hi \in Nat /\ lo <= hi /\ hi <= s.lastSeq
      /\ lo = 0 \/ (Behind(copy, s.minSeq) /\ lo < hi)
  BY <1>1, <1>2 DEF SnapshotOK
<1>4. \A r \in RecordId :
        rec[r] = IF r \in done THEN At(H, t, r, hi) ELSE Missing
  BY <1>1 DEF SnapshotOK, Replace
<1>5. rec \in [RecordId -> LocalRecord]
  <2>1. \A r \in RecordId : rec[r] \in LocalRecord
    BY <1>1, <1>3, <1>4, AtTyped DEF LocalRecord
  <2> QED
    BY <2>1 DEF Replace
<1> HIDE DEF rec
<1>6. /\ new.records = rec /\ new.checkpoint = lo
      /\ new.horizon = (IF copy.horizon > hi THEN copy.horizon ELSE hi)
      /\ new \in [records : [RecordId -> LocalRecord], checkpoint : Nat, horizon : Nat]
  BY <1>2, <1>3, <1>5 DEF Breaks
<1>7. new.horizon \in Nat /\ hi <= new.horizon /\ new.horizon <= s.lastSeq
  BY <1>1, <1>2, <1>3, <1>6
<1>8. CASE lo = 0
  <2>1. ASSUME NEW r \in RecordId, Between(H, t, r, lo, new.horizon) = {}
        PROVE  rec[r] = At(H, t, r, lo)
    <3>1. {ch \in H : ch.tenant = t /\ ch.record = r /\ ch.seq <= hi} = {}
      BY <1>1, <1>3, <1>7, <1>8, <2>1 DEF Between
    <3>2. {ch \in H : ch.tenant = t /\ ch.record = r /\ ch.seq <= lo} = {}
      BY <1>1, <1>8
    <3>3. At(H, t, r, hi) = Missing /\ At(H, t, r, lo) = Missing
      BY <3>1, <3>2 DEF At, Latest
    <3> QED
      BY <1>4, <3>3
  <2>2. Settled(H, t, new)
    BY <1>6, <2>1 DEF Settled
  <2> HIDE DEF new
  <2> QED
    BY <1>2, <1>6, <1>7, <2>2 DEF CopyOK, new, rec
<1>9. CASE Behind(copy, s.minSeq) /\ lo < hi
  <2>1. Behind(new, s.minSeq) /\ new.checkpoint < new.horizon
    BY <1>2, <1>3, <1>6, <1>7, <1>9 DEF Behind
  <2> HIDE DEF new
  <2> QED
    BY <1>2, <1>6, <1>7, <2>1 DEF CopyOK, new, rec
<1> QED
  BY <1>3, <1>8, <1>9

-----------------------------------------------------------------------------
(* A step of one reader. *)

LEMMA OneReaderMoves ==
  ASSUME ReaderInv, NEW n \in Reader, NEW copy, NEW rd, db' = db, history' = history,
         replica' = [replica EXCEPT ![n] = copy] \/ (replica' = replica /\ copy = replica[n]),
         read' = [read EXCEPT ![n] = rd],
         ReaderOK(db, history, ReaderTenant[n], copy, rd)
  PROVE  ReaderInv'
PROOF
<1>1. /\ DOMAIN replica' = Reader /\ replica'[n] = copy
      /\ \A m \in Reader : m # n => replica'[m] = replica[m]
  BY DEF ReaderInv
<1>2. /\ DOMAIN read' = Reader /\ read'[n] = rd
      /\ \A m \in Reader : m # n => read'[m] = read[m]
  BY DEF ReaderInv
<1>3. ASSUME NEW m \in Reader
      PROVE  ReaderOK(db, history, ReaderTenant[m], replica'[m], read'[m])
  <2>1. CASE m = n
    BY <1>1, <1>2, <2>1
  <2>2. CASE m # n
    BY <1>1, <1>2, <2>2 DEF ReaderInv
  <2> QED
    BY <2>1, <2>2
<1> QED
  BY <1>1, <1>2, <1>3 DEF ReaderInv

\* The server answers, or refuses, the read it has opened.
LEMMA AnswerKeepsReader ==
  ASSUME TablesOK(db, history), ReaderInv, NEW n \in Reader, Answer(n), UNCHANGED vars
  PROVE  ReaderInv'
PROOF
<1> DEFINE t == ReaderTenant[n]
           copy == replica[n]
           rd == read[n]
<1>1. /\ db' = db /\ history' = history
      /\ db \in Store /\ history \subseteq Change /\ Numbered(history)
      /\ ReaderOK(db, history, t, copy, rd) /\ CopyOK(db, history, t, copy)
      /\ ReadOK(db, history, t, copy, rd) /\ t \in Tenant
  BY ReaderAssumption DEF vars, TablesOK, Recalls, ReaderInv, ReaderOK
<1>2. ASSUME NEW answer, ReadOK(db, history, t, copy, AnswerTo(rd, answer)), Answered(n, answer)
      PROVE  ReaderInv'
  <2>1. replica' = replica /\ read' = [read EXCEPT ![n] = AnswerTo(rd, answer)]
    BY <1>2 DEF Answered, AnswerTo, ReaderInv
  <2>2. ReaderOK(db, history, t, copy, AnswerTo(rd, answer))
    BY <1>1, <1>2 DEF ReaderOK
  <2> HIDE DEF t, copy, rd
  <2> QED
    BY <1>1, <2>1, <2>2, OneReaderMoves DEF t, copy
<1>3. CASE PullReset(n)
  <2> DEFINE answer == [kind |-> "reset"]
  <2>1. rd.phase = "open" /\ NeedsReset(rd.view, copy.checkpoint) /\ Answered(n, answer)
    BY <1>3 DEF PullReset, Opened
  <2>2. Behind(copy, db.minSeq)
    BY <1>1, <2>1, ResetOK
  <2>3. answer.kind = "reset"
    OBVIOUS
  <2> HIDE DEF answer
  <2>4. ReadOK(db, history, t, copy, AnswerTo(rd, answer))
    BY <1>1, <2>2, <2>3, AnsweredOK
  <2> QED
    BY <1>2, <2>1, <2>4
<1>4. CASE PullPage(n)
  <2> DEFINE F == Pending(n)
             answer == [kind |-> "page",
                        checkpoint |-> NextCheckpoint(F, rd.view.lastSeq, copy.checkpoint),
                        changes |-> PageOf(F)]
  <2>1. /\ rd.phase = "open" /\ rd.wants = "pull"
        /\ ~NeedsReset(rd.view, copy.checkpoint) /\ Answered(n, answer)
    BY <1>4 DEF PullPage, Opened
  <2>2. F = {ch \in rd.view.changes : /\ ch.tenant = t /\ ch.seq > copy.checkpoint
                                      /\ ch.seq <= rd.view.lastSeq}
    BY DEF Pending, Rows
  <2>3. PageOK(db, history, t, copy, answer)
    <3> HIDE DEF F
    <3> QED
      BY <1>1, <2>1, <2>2, PullPageOK
  <2>4. answer.kind = "page"
    OBVIOUS
  <2> HIDE DEF answer
  <2>5. ReadOK(db, history, t, copy, AnswerTo(rd, answer))
    BY <1>1, <2>3, <2>4, AnsweredOK
  <2> QED
    BY <1>2, <2>1, <2>5
<1>5. CASE Snapshot(n)
  <2> DEFINE live == Live(n)
             answer == [kind |-> "snapshot", checkpoint |-> rd.view.lastSeq,
                        records |-> [r \in live |->
                          [revision |-> rd.view.records[t][r].revision,
                           data |-> rd.view.records[t][r].data]]]
  <2>1. rd.phase = "open" /\ rd.wants = "snapshot" /\ Answered(n, answer)
    BY <1>5 DEF Snapshot, Opened, Rows
  <2>2. live = {r \in RecordId : /\ rd.view.records[t][r].revision > 0
                                 /\ ~rd.view.records[t][r].deleted}
    BY DEF Live, Rows
  <2>3. SnapshotOK(db, history, t, copy, answer)
    <3> HIDE DEF live
    <3> QED
      BY <1>1, <2>1, <2>2, TakeSnapshotOK
  <2>4. answer.kind = "snapshot"
    OBVIOUS
  <2> HIDE DEF answer
  <2>5. ReadOK(db, history, t, copy, AnswerTo(rd, answer))
    BY <1>1, <2>3, <2>4, AnsweredOK
  <2> QED
    BY <1>2, <2>1, <2>5
<1>6. CASE SnapshotRefused(n)
  <2>1. replica' = replica /\ read' = [read EXCEPT ![n] = Idle("pull")]
    BY <1>6 DEF SnapshotRefused
  <2>2. ReaderOK(db, history, t, copy, Idle("pull"))
    BY <1>1, IdleOK DEF ReaderOK
  <2> QED
    BY <1>1, <2>1, <2>2, OneReaderMoves
<1> QED
  BY <1>3, <1>4, <1>5, <1>6 DEF Answer

\* The client installs what it received, as far as it gets.
LEMMA InstallKeepsReader ==
  ASSUME TablesOK(db, history), ReaderInv, NEW n \in Reader, UNCHANGED vars,
         InstallPage(n) \/ InstallSnapshot(n) \/ InterruptPage(n) \/ InterruptSnapshot(n)
  PROVE  ReaderInv'
PROOF
<1> DEFINE t == ReaderTenant[n]
           copy == replica[n]
           rd == read[n]
           hi == rd.answer.checkpoint
<1>1. db' = db /\ history' = history /\ ReaderOK(db, history, t, copy, rd)
  BY DEF vars, ReaderInv
<1>2. ASSUME NEW new, CopyOK(db, history, t, new),
             replica' = [replica EXCEPT ![n] = new], read' = [read EXCEPT ![n] = Idle("pull")]
      PROVE  ReaderInv'
  <2>1. ReaderOK(db, history, t, new, Idle("pull"))
    BY <1>2, IdleOK DEF ReaderOK
  <2> QED
    BY <1>1, <1>2, <2>1, OneReaderMoves
<1>3. ASSUME NEW records, Installed(n, records), CopyOK(db, history, t, Installs(copy, records, hi))
      PROVE  ReaderInv'
  <2>1. replica' = [replica EXCEPT ![n] = Installs(copy, records, hi)]
        /\ read' = [read EXCEPT ![n] = Idle("pull")]
    BY <1>3 DEF Installed, Installs
  <2> QED
    BY <1>2, <1>3, <2>1
<1>4. ASSUME NEW records, Interrupted(n, records), CopyOK(db, history, t, Breaks(copy, records, hi))
      PROVE  ReaderInv'
  <2>1. replica' = [replica EXCEPT ![n] = Breaks(copy, records, hi)]
        /\ read' = [read EXCEPT ![n] = Idle("pull")]
    BY <1>4 DEF Interrupted, Breaks
  <2> QED
    BY <1>2, <1>4, <2>1
<1>5. CASE InstallPage(n)
  <2>1. rd.phase = "answered" /\ rd.answer.kind = "page"
        /\ Installed(n, Apply(copy.records, rd.answer.changes))
    BY <1>5 DEF InstallPage, Has
  <2>2. CopyOK(db, history, t, Installs(copy, Apply(copy.records, rd.answer.changes), hi))
    BY <1>1, <2>1, InstallPageOK
  <2> QED
    BY <1>3, <2>1, <2>2
<1>6. CASE InstallSnapshot(n)
  <2>1. rd.phase = "answered" /\ rd.answer.kind = "snapshot"
        /\ Installed(n, Replace(rd.answer.records))
    BY <1>6 DEF InstallSnapshot, Has
  <2>2. CopyOK(db, history, t, Installs(copy, Replace(rd.answer.records), hi))
    BY <1>1, <2>1, InstallSnapshotOK
  <2> QED
    BY <1>3, <2>1, <2>2
<1>7. CASE InterruptPage(n)
  <2>1. rd.phase = "answered" /\ rd.answer.kind = "page"
    BY <1>7 DEF InterruptPage, Has
  <2>2. PICK done \in rd.answer.changes :
          Interrupted(n, Apply(copy.records, {ch \in rd.answer.changes : ch.seq <= done.seq}))
    BY <1>7 DEF InterruptPage
  <2>3. CopyOK(db, history, t,
          Breaks(copy, Apply(copy.records, {ch \in rd.answer.changes : ch.seq <= done.seq}), hi))
    BY <1>1, <2>1, InterruptPageOK
  <2> QED
    BY <1>4, <2>2, <2>3
<1>8. CASE InterruptSnapshot(n)
  <2>1. rd.phase = "answered" /\ rd.answer.kind = "snapshot"
    BY <1>8 DEF InterruptSnapshot, Has
  <2>2. PICK done \in SUBSET DOMAIN rd.answer.records :
          Interrupted(n, Replace([r \in done |-> rd.answer.records[r]]))
    BY <1>8 DEF InterruptSnapshot
  <2>3. CopyOK(db, history, t, Breaks(copy, Replace([r \in done |-> rd.answer.records[r]]), hi))
    BY <1>1, <2>1, InterruptSnapshotOK
  <2> QED
    BY <1>4, <2>2, <2>3
<1> QED
  BY <1>5, <1>6, <1>7, <1>8

LEMMA ReaderStepKeepsReader ==
  ASSUME TablesOK(db, history), ReaderInv, NEW n \in Reader, ReaderStep(n), UNCHANGED vars
  PROVE  ReaderInv'
PROOF
<1> DEFINE t == ReaderTenant[n]
           copy == replica[n]
           rd == read[n]
<1>1. /\ db' = db /\ history' = history /\ t \in Tenant
      /\ ReaderOK(db, history, t, copy, rd) /\ CopyOK(db, history, t, copy)
      /\ ReadOK(db, history, t, copy, rd)
  BY ReaderAssumption DEF vars, ReaderInv, ReaderOK
<1>2. ASSUME NEW new, ReadOK(db, history, t, copy, new), UNCHANGED replica,
             read' = [read EXCEPT ![n] = new]
      PROVE  ReaderInv'
  <2>1. ReaderOK(db, history, t, copy, new)
    BY <1>1, <1>2 DEF ReaderOK
  <2> QED
    BY <1>1, <1>2, <2>1, OneReaderMoves
<1>3. CASE Open(n)
  <2>1. PICK kind \in {"pull", "snapshot"} : OpenRead(n, kind)
    BY <1>3 DEF Open
  <2> DEFINE new == [phase |-> "open", wants |-> kind, view |-> db, answer |-> <<>>]
  <2>2. rd.phase = "idle" /\ UNCHANGED replica /\ read' = [read EXCEPT ![n] = new]
    BY <2>1 DEF OpenRead
  <2>3. \/ kind = "pull"
        \/ kind = "snapshot" /\ (rd.wants = "snapshot" \/ copy.checkpoint = 0)
    BY <2>1 DEF OpenRead, MaySnapshot
  <2>4. ReadOK(db, history, t, copy, new)
    BY <1>1, <2>2, <2>3, OpenOK
  <2> QED
    BY <1>2, <2>2, <2>4
<1>4. CASE ReceiveReset(n)
  <2>1. rd.phase = "answered" /\ rd.answer.kind = "reset"
        /\ UNCHANGED replica /\ read' = [read EXCEPT ![n] = Idle("snapshot")]
    BY <1>4 DEF ReceiveReset, Has
  <2>2. ReadOK(db, history, t, copy, Idle("snapshot"))
    <3>1. Behind(copy, db.minSeq)
      BY <1>1, <2>1 DEF ReadOK
    <3> QED
      BY <3>1, IdleOK
  <2> QED
    BY <1>2, <2>1, <2>2
<1>5. CASE LoseRead(n)
  <2>1. UNCHANGED replica /\ read' = [read EXCEPT ![n] = Idle("pull")]
    BY <1>5 DEF LoseRead
  <2>2. ReadOK(db, history, t, copy, Idle("pull"))
    BY IdleOK
  <2> QED
    BY <1>2, <2>1, <2>2
<1> QED
  BY <1>3, <1>4, <1>5, AnswerKeepsReader, InstallKeepsReader DEF ReaderStep

-----------------------------------------------------------------------------
(* The theorems. *)

ReplicaSafe == Inv /\ HistoryInv /\ FeedInv /\ ReaderInv

\* A client without a checkpoint shows a tenant without a history.
LEMMA ReplicaInitInv == Init /\ ReplicaInit => ReaderInv
PROOF
<1> SUFFICES ASSUME Init, ReplicaInit PROVE ReaderInv
  OBVIOUS
<1>1. history = {} /\ db = EmptyStore /\ db.lastSeq = 0 /\ db.minSeq = 1
  BY DEF Init, EmptyStore
<1>2. DOMAIN replica = Reader /\ DOMAIN read = Reader
  BY DEF ReplicaInit
<1>3. ASSUME NEW n \in Reader
      PROVE  ReaderOK(db, history, ReaderTenant[n], replica[n], read[n])
  <2> DEFINE t == ReaderTenant[n]
  <2>1. replica[n] = FreshReplica /\ read[n] = Idle("pull")
    BY DEF ReplicaInit
  <2>2. \A r, k : At(history, t, r, k) = Missing
    BY <1>1 DEF At, Latest
  <2>3. Missing \in LocalRecord
    BY DEF LocalRecord
  <2>4. FreshReplica \in [records : [RecordId -> LocalRecord], checkpoint : Nat, horizon : Nat]
    BY <2>3 DEF FreshReplica
  <2>5. /\ FreshReplica.checkpoint = 0 /\ FreshReplica.horizon = 0
        /\ \A r \in RecordId : FreshReplica.records[r] = Missing
    BY DEF FreshReplica
  <2>6. Settled(history, t, FreshReplica)
    BY <2>2, <2>5 DEF Settled
  <2>7. CopyOK(db, history, t, FreshReplica)
    BY <1>1, <2>4, <2>5, <2>6 DEF CopyOK
  <2>8. ReadOK(db, history, t, FreshReplica, Idle("pull"))
    BY IdleOK
  <2> QED
    BY <2>1, <2>7, <2>8 DEF ReaderOK
<1> QED
  BY <1>2, <1>3 DEF ReaderInv

LEMMA ReplicaNextInv ==
  ReplicaSafe /\ [ReplicaNext]_<<vars, replicaVars>> => ReplicaSafe'
PROOF
<1> SUFFICES ASSUME ReplicaSafe, [ReplicaNext]_<<vars, replicaVars>> PROVE ReplicaSafe'
  OBVIOUS
<1>1. Inv /\ HistoryInv /\ FeedInv /\ ReaderInv
  BY DEF ReplicaSafe
<1>2. [Next]_vars
  BY DEF ReplicaNext
<1>3. Inv'
  BY <1>1, <1>2, NextKeepsInv
<1>4. HistoryInv'
  BY <1>1, <1>2, NextKeepsHistory
<1>5. FeedInv'
  BY <1>1, <1>2, NextKeepsFeed
<1>6. CASE UNCHANGED replicaVars
  <2>1. Extends(db, history, db', history')
    BY <1>1, <1>2, <1>4, NextExtends
  <2>2. db \in Store /\ db' \in Store
    BY <1>1, <1>3 DEF Inv, TypeOK
  <2>3. replica' = replica /\ read' = read
    BY <1>6 DEF replicaVars
  <2>4. ASSUME NEW n \in Reader
        PROVE  ReaderOK(db', history', ReaderTenant[n], replica[n], read[n])
    <3>1. ReaderTenant[n] \in Tenant /\ ReaderOK(db, history, ReaderTenant[n], replica[n], read[n])
      BY <1>1, ReaderAssumption DEF ReaderInv
    <3> QED
      BY <2>1, <2>2, <3>1, WriterKeepsReader
  <2>5. ReaderInv'
    BY <1>1, <2>3, <2>4 DEF ReaderInv
  <2> QED
    BY <1>3, <1>4, <1>5, <2>5 DEF ReplicaSafe
<1>7. ASSUME NEW n \in Reader, ReaderStep(n), UNCHANGED vars
      PROVE  ReplicaSafe'
  <2>1. ReaderInv'
    BY <1>1, <1>7, TablesAreOK, ReaderStepKeepsReader
  <2> QED
    BY <1>3, <1>4, <1>5, <2>1 DEF ReplicaSafe
<1> QED
  BY <1>6, <1>7 DEF ReplicaNext

THEOREM ReplicaIsSafe == ReplicaSpec => []ReplicaSafe
PROOF
<1>1. Init /\ ReplicaInit => ReplicaSafe
  BY InitInv, InitHistory, InitFeed, ReplicaInitInv DEF ReplicaSafe
<1> QED
  BY <1>1, ReplicaNextInv, PTL DEF ReplicaSpec

\* The invariant of one reader says what the copy shows.
LEMMA CopyShowsRecords ==
  ASSUME NEW s, NEW H, H \subseteq Change, NEW t, NEW copy, CopyOK(s, H, t, copy),
         copy.horizon <= copy.checkpoint
  PROVE  copy.records = [r \in RecordId |-> At(H, t, r, copy.checkpoint)]
PROOF
<1>1. /\ copy.checkpoint \in Nat /\ copy.horizon \in Nat
      /\ copy.records \in [RecordId -> LocalRecord]
  BY DEF CopyOK
<1>2. Settled(H, t, copy)
  BY <1>1 DEF CopyOK
<1>3. \A ch \in H : ch.seq \in Nat
  BY DEF Change
<1>4. \A r \in RecordId : Between(H, t, r, copy.checkpoint, copy.horizon) = {}
  BY <1>1, <1>3 DEF Between
<1>5. \A r \in RecordId : copy.records[r] = At(H, t, r, copy.checkpoint)
  BY <1>2, <1>4 DEF Settled
<1> QED
  BY <1>1, <1>5

\* A client's copy is well formed and, unless an interrupted installation is not
\* yet overtaken, it is the tenant's records as of its checkpoint, whatever was
\* compacted, lost or interrupted on the way, for any number of clients, tenants
\* and records and any page size and quota.
THEOREM ReplicaInvHolds == ReplicaSpec => []ReplicaInv
PROOF
<1>1. ReplicaSafe => ReplicaInv
  <2> SUFFICES ASSUME ReplicaSafe PROVE ReplicaInv
    OBVIOUS
  <2>1. ReaderInv /\ history \subseteq Change
    BY DEF ReplicaSafe, HistoryInv, Agrees, Recalls
  <2>2. ReplicaTypeOK
    BY <2>1 DEF ReplicaTypeOK, ReaderInv, ReaderOK, CopyOK, ReadOK
  <2>3. ASSUME NEW n \in Reader, replica[n].horizon <= replica[n].checkpoint
        PROVE  replica[n].records = RecordsAt(ReaderTenant[n], replica[n].checkpoint)
    <3> DEFINE t == ReaderTenant[n]
               k == replica[n].checkpoint
    <3>1. CopyOK(db, history, t, replica[n])
      BY <2>1 DEF ReaderInv, ReaderOK
    <3>2. replica[n].records = [r \in RecordId |-> At(history, t, r, k)]
      BY <2>1, <2>3, <3>1, CopyShowsRecords
    <3>3. RecordsAt(t, k) = [r \in RecordId |-> At(history, t, r, k)]
      BY DEF RecordsAt, At, Latest
    <3> QED
      BY <3>2, <3>3
  <2> QED
    BY <2>2, <2>3 DEF ReplicaInv, ReplicaConsistent
<1> QED
  BY <1>1, ReplicaIsSafe, PTL

\* pullCore: a page holds every change between the client's checkpoint and the
\* one it hands out, although compactions commit while the page is on its way.
THEOREM PagesHoldEverything == ReplicaSpec => []PagesAreComplete
PROOF
<1>1. ReplicaSafe => PagesAreComplete
  BY DEF ReplicaSafe, ReaderInv, ReaderOK, ReadOK, PageOK, Page, Has, PagesAreComplete
<1> QED
  BY <1>1, ReplicaIsSafe, PTL

\* A checkpoint never goes back and never passes the server's last sequence
\* number.
THEOREM CheckpointsOnlyAdvance == ReplicaSpec => CheckpointsAdvance
PROOF
<1> DEFINE Advance ==
      \A n \in Reader :
        /\ replica[n].checkpoint <= replica'[n].checkpoint
        /\ replica'[n].checkpoint <= db'.lastSeq
<1>1. ReplicaSafe /\ ReplicaSafe' /\ [ReplicaNext]_<<vars, replicaVars>> => Advance
  <2> SUFFICES ASSUME ReplicaSafe, ReplicaSafe', [ReplicaNext]_<<vars, replicaVars>>,
                      NEW n \in Reader
               PROVE  /\ replica[n].checkpoint <= replica'[n].checkpoint
                      /\ replica'[n].checkpoint <= db'.lastSeq
    OBVIOUS
  <2>1. replica'[n].checkpoint <= db'.lastSeq
    BY DEF ReplicaSafe, ReaderInv, ReaderOK, CopyOK
  <2>2. /\ DOMAIN replica = Reader /\ DOMAIN replica' = Reader
        /\ db.lastSeq \in Nat /\ \A m \in Reader : replica[m].checkpoint \in Nat
        /\ \A m \in Reader : /\ replica[m] \in [records : [RecordId -> LocalRecord],
                                                checkpoint : Nat, horizon : Nat]
                             /\ ReadOK(db, history, ReaderTenant[m], replica[m], read[m])
    BY DEF ReplicaSafe, ReaderInv, ReaderOK, CopyOK, Inv, TypeOK, Store
  <2>3. ASSUME NEW m \in Reader, NEW records, Installed(m, records),
               read[m].phase = "answered", read[m].answer.kind \in {"page", "snapshot"}
        PROVE  replica[n].checkpoint <= replica'[n].checkpoint
    <3>1. read[m].answer.checkpoint >= replica[m].checkpoint
      <4> DEFINE kind == read[m].answer.kind
                 to == read[m].answer.checkpoint
      <4>1. ReadOK(db, history, ReaderTenant[m], replica[m], read[m])
            /\ replica[m].checkpoint \in Nat
        BY <2>2
      <4>2. /\ kind = "page" =>
                 PageOK(db, history, ReaderTenant[m], replica[m], read[m].answer)
            /\ kind = "snapshot" =>
                 SnapshotOK(db, history, ReaderTenant[m], replica[m], read[m].answer)
        BY <2>3, <4>1 DEF ReadOK
      <4>3. to \in replica[m].checkpoint .. db.lastSeq
        BY <2>3, <4>2 DEF PageOK, SnapshotOK
      <4> QED
        BY <2>2, <4>1, <4>3
    <3>2. replica'[m].checkpoint = read[m].answer.checkpoint
      BY <2>2, <2>3 DEF Installed
    <3>3. m # n => replica'[n] = replica[n]
      BY <2>2, <2>3 DEF Installed
    <3> QED
      BY <2>2, <3>1, <3>2, <3>3
  <2>4. ASSUME NEW m \in Reader, NEW records, Interrupted(m, records)
        PROVE  replica[n].checkpoint <= replica'[n].checkpoint
    <3>1. replica'[n].checkpoint = replica[n].checkpoint
      BY <2>2, <2>4 DEF Interrupted
    <3> QED
      BY <2>2, <3>1
  <2>5. ASSUME UNCHANGED replica
        PROVE  replica[n].checkpoint <= replica'[n].checkpoint
    BY <2>2, <2>5
  <2>6. ASSUME NEW m \in Reader, ReaderStep(m)
        PROVE  replica[n].checkpoint <= replica'[n].checkpoint
    <3>1. CASE InstallPage(m) \/ InstallSnapshot(m)
      BY <2>3, <3>1 DEF InstallPage, InstallSnapshot, Has
    <3>2. CASE InterruptPage(m) \/ InterruptSnapshot(m)
      BY <2>4, <3>2 DEF InterruptPage, InterruptSnapshot
    <3>3. CASE Open(m) \/ Answer(m) \/ ReceiveReset(m) \/ LoseRead(m)
      BY <2>5, <3>3 DEF Open, OpenRead, Answer, PullReset, PullPage, Snapshot, Answered,
         SnapshotRefused, ReceiveReset, LoseRead
    <3> QED
      BY <2>6, <3>1, <3>2, <3>3 DEF ReaderStep
  <2>7. replica[n].checkpoint <= replica'[n].checkpoint
    BY <2>5, <2>6 DEF ReplicaNext, replicaVars
  <2> QED
    BY <2>1, <2>7
<1> QED
  BY <1>1, ReplicaIsSafe, PTL DEF ReplicaSpec, CheckpointsAdvance

-----------------------------------------------------------------------------
(* The queue of mutations. *)

-----------------------------------------------------------------------------
(* The inductive invariant. *)

\* q is the part of the stream that starts at position first.
Slice(stream, q, first) ==
  /\ first \in Nat \ {0}
  /\ first + Len(q) <= Len(stream) + 1
  /\ \A i \in 1 .. Len(q) : q[i] = stream[first + i - 1]

\* How many mutations the client has been told about.
Done(c) == Len(issued[c]) - Len(pending[c])

Executed(c) == db.clients[Principal[c].tenant][c].last

StreamOK(stream) ==
  \A i \in 1 .. Len(stream) :
    stream[i].id = i /\ (stream[i].op = "upsert") = (stream[i].data \in Data)

QueueTypes ==
  /\ issued \in [ClientId -> Seq(Mutation)]
  /\ pending \in [ClientId -> Seq(Mutation)]
  /\ told \in [ClientId -> SUBSET Outcome]

\* The queue of c is the end of its stream; what precedes it was told, and is
\* executed.
QueueOK(c) ==
  /\ StreamOK(issued[c])
  /\ Slice(issued[c], pending[c], Done(c) + 1)
  /\ Done(c) <= Executed(c) /\ Executed(c) <= Len(issued[c])
  /\ \A i \in 1 .. Done(c) : \E e \in told[c] : e.request = issued[c][i]
  /\ \A e \in told[c] : e \in db.ledger /\ e.client = c

RequestOK(request) ==
  /\ request.client \in ClientId
  /\ request.batch \in Seq(Mutation) /\ request.batch # <<>>
  /\ \E first \in 1 .. Done(request.client) + 1 :
       Slice(issued[request.client], request.batch, first)

ReplyOK(reply) ==
  /\ reply.client \in ClientId
  /\ reply.batch \in Seq(Mutation)
  /\ \E first \in 1 .. Done(reply.client) + 1 :
       /\ Slice(issued[reply.client], reply.batch, first)
       /\ first + Len(reply.batch) <= Executed(reply.client) + 1
  /\ \A x \in reply.results : x.outcome \in db.ledger /\ x.outcome.client = reply.client
  /\ \A i \in 1 .. Len(reply.batch) :
       \E x \in reply.results : x.outcome.request = reply.batch[i]

\* The ledger holds outcomes of queued mutations only.
RowOK(e) ==
  /\ e.tenant = Principal[e.client].tenant
  /\ e.request.id \in 1 .. Len(issued[e.client])
  /\ e.request = issued[e.client][e.request.id]

OwnerOK(c) ==
  work.clients[Principal[c].tenant][c].subject \in {Nobody, Principal[c].subject}

\* The running push: results, then what is left to do, are a slice of the
\* client's stream, and what is left starts no later than at the next id.
PushOK ==
  LET c == call.client
  IN /\ c \in ClientId
     /\ call.tenant = Principal[c].tenant /\ call.subject = Principal[c].subject
     /\ OwnsClient
     /\ call.last <= Len(issued[c])
     /\ \E first \in 1 .. Done(c) + 1 :
          /\ Slice(issued[c], call.todo, first + Len(call.results))
          /\ first + Len(call.results) <= call.last + 1
          /\ \A i \in 1 .. Len(call.results) :
               call.results[i].outcome.request = issued[c][first + i - 1]
     /\ \A i \in 1 .. Len(call.results) :
          call.results[i].outcome \in work.ledger /\ call.results[i].outcome.client = c

ClientSafe ==
  /\ QueueTypes
  /\ \A c \in ClientId : QueueOK(c)
  /\ \A request \in requests : RequestOK(request)
  /\ \A reply \in replies : ReplyOK(reply)
  /\ \A e \in work.ledger : RowOK(e)
  /\ \A c \in ClientId : OwnerOK(c)
  /\ holder = "push" => PushOK

-----------------------------------------------------------------------------
(* Slices and filters. *)

\* The queue q without its first g elements.
Rest(q, g) == [n \in 1 .. (Len(q) - g) |-> q[g + n]]

\* Filtering out a prefix leaves the rest in order.
LEMMA FilterTail ==
  ASSUME NEW q, Len(q) \in Nat, NEW g \in 0 .. Len(q)
  PROVE  Filter(q, (g + 1) .. Len(q)) = Rest(q, g)
PROOF
<1> DEFINE len == Len(q)
           P == (g + 1) .. len
           nth(n) == CHOOSE i \in P : Cardinality({j \in P : j <= i}) = n
<1>1. Cardinality(P) = len - g
  <2>1. g + 1 \in Int /\ len \in Int
    OBVIOUS
  <2>2. Cardinality((g + 1) .. len) = IF g + 1 > len THEN 0 ELSE len - (g + 1) + 1
    BY <2>1, FS_Interval
  <2> QED
    BY <2>2
<1>2. ASSUME NEW i \in P PROVE Cardinality({j \in P : j <= i}) = i - g
  <2>1. {j \in P : j <= i} = (g + 1) .. i
    OBVIOUS
  <2>2. Cardinality((g + 1) .. i) = i - g
    BY FS_Interval
  <2> QED
    BY <2>1, <2>2
<1>3. ASSUME NEW n \in 1 .. (len - g) PROVE nth(n) = g + n
  <2>1. g + n \in P /\ Cardinality({j \in P : j <= g + n}) = n
    BY <1>2
  <2> DEFINE x == nth(n)
  <2>2. x \in P /\ Cardinality({j \in P : j <= x}) = n
    BY <2>1
  <2> HIDE DEF x
  <2>3. x - g = n
    BY <1>2, <2>2
  <2>4. x = g + n
    BY <2>2, <2>3
  <2> QED
    BY <2>4 DEF x
<1>4. Filter(q, P) = [n \in 1 .. Cardinality(P) |-> q[nth(n)]]
  BY DEF Filter
<1> HIDE DEF nth
<1>5. [n \in 1 .. Cardinality(P) |-> q[nth(n)]] = [n \in 1 .. (len - g) |-> q[g + n]]
  BY <1>1, <1>3
<1> QED
  BY <1>4, <1>5 DEF Rest

\* What is left of a slice that reaches the end of the stream is one, too.
LEMMA RestIsSlice ==
  ASSUME NEW S, NEW stream \in Seq(S), NEW queue \in Seq(S), NEW d \in Nat,
         NEW g \in Nat, g <= Len(queue), Slice(stream, queue, d + 1),
         Len(queue) = Len(stream) - d
  PROVE  /\ Rest(queue, g) \in Seq(S) /\ Len(Rest(queue, g)) = Len(queue) - g
         /\ Slice(stream, Rest(queue, g), d + g + 1)
PROOF
<1>1. PICK l \in Nat, s \in Nat : l = Len(queue) /\ s = Len(stream)
  OBVIOUS
<1>2. PICK n \in Nat : n = l - g
  BY <1>1
<1>3. PICK rest : rest = [i \in 1 .. n |-> queue[g + i]]
  OBVIOUS
<1>4. Rest(queue, g) = rest
  BY <1>1, <1>2, <1>3 DEF Rest
<1>5. \A i \in 1 .. n : g + i \in 1 .. l
  BY <1>1, <1>2
<1>a. \A j \in 1 .. l : queue[j] \in S
  BY <1>1
<1>6. \A i \in 1 .. n : queue[g + i] \in S
  BY <1>5, <1>a
<1>7. rest \in [1 .. n -> S]
  BY <1>3, <1>6
<1>8. rest \in Seq(S) /\ Len(rest) = n
  BY ONLY <1>2, <1>7
<1>9. ASSUME NEW i \in 1 .. n PROVE rest[i] = stream[d + g + 1 + i - 1]
  <2>1. queue[g + i] = stream[d + 1 + (g + i) - 1]
    BY <1>1, <1>5 DEF Slice
  <2>2. d + 1 + (g + i) - 1 = d + g + 1 + i - 1
    OBVIOUS
  <2> QED
    BY <1>3, <2>1, <2>2
<1>10. d + g + 1 \in Nat \ {0} /\ d + g + 1 + n <= s + 1
  BY <1>1, <1>2
<1>11. Slice(stream, rest, d + g + 1)
  BY <1>1, <1>8, <1>9, <1>10 DEF Slice
<1> QED
  BY <1>1, <1>2, <1>4, <1>8, <1>11

\* What a response takes out of a queue is a prefix of it.
LEMMA AcknowledgesPrefix ==
  ASSUME NEW stream \in Seq(Mutation), StreamOK(stream),
         NEW queue \in Seq(Mutation), NEW d \in Nat,
         Slice(stream, queue, d + 1), Len(queue) = Len(stream) - d,
         NEW reply, reply.batch \in Seq(Mutation), NEW first \in 1 .. d + 1,
         Slice(stream, reply.batch, first)
  PROVE  \E g \in 0 .. Len(queue) :
           /\ Acknowledge(queue, reply) = Rest(queue, g)
           /\ g > 0 => d + g <= first + Len(reply.batch) - 1
PROOF
<1> DEFINE len  == Len(queue)
           last == first + Len(reply.batch) - 1
           g    == IF last > d THEN last - d ELSE 0
           P    == {i \in DOMAIN queue :
                      \A j \in DOMAIN reply.batch : reply.batch[j].id # queue[i].id}
<1>1. /\ len \in Nat /\ DOMAIN queue = 1 .. len /\ len = Len(stream) - d
      /\ Len(reply.batch) \in Nat /\ DOMAIN reply.batch = 1 .. Len(reply.batch)
      /\ Len(stream) \in Nat
  OBVIOUS
<1>2. last \in Nat /\ last <= Len(stream) /\ g \in 0 .. len
  BY <1>1 DEF Slice
<1>a. /\ last = first + Len(reply.batch) - 1
      /\ last <= d => g = 0
      /\ last > d => g = last - d
  BY <1>1, <1>2
<1>3. \A i \in 1 .. len : queue[i].id = d + i
  <2> SUFFICES ASSUME NEW i \in 1 .. len PROVE queue[i].id = d + i
    OBVIOUS
  <2>1. queue[i] = stream[d + 1 + i - 1]
    BY DEF Slice
  <2>2. d + 1 + i - 1 = d + i /\ d + i \in 1 .. Len(stream)
    BY <1>1
  <2>3. queue[i] = stream[d + i]
    BY <2>1, <2>2
  <2> QED
    BY <2>2, <2>3 DEF StreamOK
<1>4. \A j \in 1 .. Len(reply.batch) : reply.batch[j].id = first + j - 1
  <2> SUFFICES ASSUME NEW j \in 1 .. Len(reply.batch)
               PROVE  reply.batch[j].id = first + j - 1
    OBVIOUS
  <2>1. reply.batch[j] = stream[first + j - 1]
    BY DEF Slice
  <2>2. first + j - 1 \in 1 .. Len(stream)
    BY <1>1, <1>2
  <2> QED
    BY <2>1, <2>2 DEF StreamOK
<1> HIDE DEF g, last, len
<1>5. P = (g + 1) .. len
  <2>1. ASSUME NEW i \in 1 .. len, i > g, NEW j \in 1 .. Len(reply.batch)
        PROVE  reply.batch[j].id # queue[i].id
    <3>1. queue[i].id = d + i /\ reply.batch[j].id = first + j - 1
      BY <1>3, <1>4
    <3>2. i > last - d
      <4>1. /\ last \in Nat /\ g \in Nat /\ i \in Nat /\ i > g
            /\ last <= d => g = 0
            /\ last > d => g = last - d
        BY <1>1, <1>2, <1>a, <2>1
      <4>2. CASE last <= d
        BY ONLY <4>1, <4>2, d \in Nat
      <4>3. CASE last > d
        BY ONLY <4>1, <4>3, d \in Nat
      <4> QED
        BY ONLY <4>1, <4>2, <4>3, d \in Nat
    <3>3. first + j - 1 <= last
      BY <1>1, <1>2, <1>a
    <3>4. first + j - 1 < d + i
      BY <1>1, <1>2, <3>2, <3>3
    <3> QED
      BY <1>1, <3>1, <3>4
  <2>2. ASSUME NEW i \in 1 .. len, i <= g
        PROVE  \E j \in 1 .. Len(reply.batch) : reply.batch[j].id = queue[i].id
    <3> DEFINE j == d + i - first + 1
    <3>1. j \in 1 .. Len(reply.batch) /\ first + j - 1 = d + i
      BY <1>1, <1>2, <1>a, <2>2
    <3> HIDE DEF j
    <3> QED
      BY <1>3, <1>4, <3>1
  <2>3. ASSUME NEW i \in 1 .. len PROVE i \in P <=> i > g
    <3>1. g \in Nat /\ i \in Nat /\ (i > g \/ i <= g)
      BY <1>1, <1>2
    <3> QED
      BY <1>1, <2>1, <2>2, <3>1
  <2>4. P \subseteq 1 .. len
    BY <1>1
  <2> HIDE DEF P
  <2>5. P \subseteq (g + 1) .. len
    <3> SUFFICES ASSUME NEW i \in P PROVE i \in (g + 1) .. len
      OBVIOUS
    <3> QED
      BY <1>1, <1>2, <2>3, <2>4
  <2>6. (g + 1) .. len \subseteq P
    <3> SUFFICES ASSUME NEW i \in (g + 1) .. len PROVE i \in P
      OBVIOUS
    <3>1. i \in 1 .. len /\ i > g
      BY <1>1, <1>2
    <3> QED
      BY <2>3, <3>1
  <2> QED
    BY <2>5, <2>6
<1>6. Acknowledge(queue, reply) = Filter(queue, P)
  BY DEF Acknowledge
<1> HIDE DEF P
<1>7. Filter(queue, (g + 1) .. Len(queue)) = Rest(queue, g)
  BY <1>1, <1>2, FilterTail DEF len
<1>8. g > 0 => d + g <= last
  BY <1>2, <1>a
<1> QED
  BY <1>2, <1>a, <1>5, <1>6, <1>7, <1>8 DEF len

LEMMA SliceGrows ==
  ASSUME NEW stream \in Seq(Mutation), NEW m \in Mutation, NEW q, Len(q) \in Nat,
         NEW first, Slice(stream, q, first)
  PROVE  Slice(Append(stream, m), q, first)
PROOF
<1>1. /\ Len(Append(stream, m)) = Len(stream) + 1 /\ Len(stream) \in Nat
      /\ \A i \in 1 .. Len(stream) : Append(stream, m)[i] = stream[i]
  OBVIOUS
<1>2. /\ first \in Nat \ {0} /\ first + Len(q) <= Len(stream) + 1
      /\ \A i \in 1 .. Len(q) : q[i] = stream[first + i - 1]
  BY DEF Slice
<1>3. \A i \in 1 .. Len(q) : first + i - 1 \in 1 .. Len(stream)
  BY <1>1, <1>2
<1>4. \A i \in 1 .. Len(q) : q[i] = Append(stream, m)[first + i - 1]
  BY <1>1, <1>2, <1>3
<1>5. first + Len(q) <= Len(Append(stream, m)) + 1
  BY <1>1, <1>2
<1> QED
  BY <1>2, <1>4, <1>5 DEF Slice

\* The first k of the queue.
LEMMA SliceHead ==
  ASSUME NEW stream \in Seq(Mutation), NEW q \in Seq(Mutation), NEW first,
         Slice(stream, q, first), NEW k \in 1 .. Len(q)
  PROVE  /\ SubSeq(q, 1, k) \in Seq(Mutation) /\ SubSeq(q, 1, k) # <<>>
         /\ Slice(stream, SubSeq(q, 1, k), first)
PROOF
<1> DEFINE h == SubSeq(q, 1, k)
<1>1. h \in Seq(Mutation) /\ Len(h) = k /\ \A i \in 1 .. k : h[i] = q[i]
  OBVIOUS
<1>2. h # <<>> /\ Len(q) \in Nat /\ Len(stream) \in Nat
  BY <1>1
<1> HIDE DEF h
<1>3. Slice(stream, h, first)
  <2>1. /\ first \in Nat \ {0} /\ first + Len(q) <= Len(stream) + 1 /\ k <= Len(q)
        /\ \A i \in 1 .. Len(q) : q[i] = stream[first + i - 1]
    BY DEF Slice
  <2>2. \A i \in 1 .. Len(h) : h[i] = stream[first + i - 1]
    BY <1>1, <1>2, <2>1
  <2> QED BY <1>1, <1>2, <2>1, <2>2 DEF Slice
<1> QED
  BY <1>1, <1>2, <1>3 DEF h

\* The batch loses its head to the results.
LEMMA SliceMoves ==
  ASSUME NEW stream \in Seq(Mutation), NEW todo \in Seq(Mutation), todo # <<>>,
         NEW at \in Nat \ {0}, Slice(stream, todo, at)
  PROVE  /\ Slice(stream, Tail(todo), at + 1)
         /\ at <= Len(stream) /\ Head(todo) = stream[at]
PROOF
<1>1. /\ Tail(todo) \in Seq(Mutation) /\ Len(Tail(todo)) = Len(todo) - 1
      /\ Len(todo) \in Nat \ {0} /\ Len(stream) \in Nat
      /\ \A i \in 1 .. Len(Tail(todo)) : Tail(todo)[i] = todo[i + 1]
      /\ Head(todo) = todo[1]
  OBVIOUS
<1>2. /\ at + Len(todo) <= Len(stream) + 1
      /\ \A i \in 1 .. Len(todo) : todo[i] = stream[at + i - 1]
  BY <1>1 DEF Slice
<1>3. at <= Len(stream) /\ (at + 1) + Len(Tail(todo)) <= Len(stream) + 1
  BY <1>1, <1>2
<1>4. Head(todo) = stream[at]
  <2>1. at + 1 - 1 = at
    OBVIOUS
  <2> QED
    BY <1>1, <1>2, <2>1
<1>5. \A i \in 1 .. Len(Tail(todo)) : Tail(todo)[i] = stream[(at + 1) + i - 1]
  <2> SUFFICES ASSUME NEW i \in 1 .. Len(Tail(todo))
               PROVE  Tail(todo)[i] = stream[(at + 1) + i - 1]
    OBVIOUS
  <2>1. i + 1 \in 1 .. Len(todo) /\ at + (i + 1) - 1 = (at + 1) + i - 1
    BY <1>1
  <2> QED
    BY <1>1, <1>2, <2>1
<1>6. at + 1 \in Nat \ {0}
  OBVIOUS
<1> QED
  BY <1>3, <1>4, <1>5, <1>6 DEF Slice

-----------------------------------------------------------------------------
(* What a step of the server leaves to the clients. *)

LEMMA PrincipalTyped ==
  ASSUME NEW c \in ClientId
  PROVE  /\ Principal[c] \in Identity /\ Principal[c].tenant \in Tenant
         /\ Principal[c].subject \in Subject
BY ClientAssumption, IdentityAssumption

LEMMA ClientTyped ==
  ASSUME Inv, ClientSafe, NEW c \in ClientId
  PROVE  /\ issued[c] \in Seq(Mutation) /\ pending[c] \in Seq(Mutation)
         /\ Len(issued[c]) \in Nat /\ Len(pending[c]) \in Nat
         /\ Done(c) \in Nat /\ Executed(c) \in Nat
         /\ Executed(c) = work.clients[Principal[c].tenant][c].last
PROOF
<1>1. issued[c] \in Seq(Mutation) /\ pending[c] \in Seq(Mutation)
  BY DEF ClientSafe, QueueTypes
<1>2. Len(issued[c]) \in Nat /\ Len(pending[c]) \in Nat
  BY <1>1
<1>3. Done(c) \in Nat
  <2>1. Slice(issued[c], pending[c], Done(c) + 1)
    BY DEF ClientSafe, QueueOK
  <2> QED
    BY <1>2, <2>1 DEF Slice, Done
<1>4. Executed(c) \in Nat /\ Executed(c) = work.clients[Principal[c].tenant][c].last
  BY PrincipalTyped DEF Executed, Inv, TypeOK, Store, ClientRow, Grows
<1> QED
  BY <1>1, <1>2, <1>3, <1>4

\* The queues stand as long as the watermarks do not pass them.
LEMMA ServerKeepsQueues ==
  ASSUME Inv, ClientSafe, UNCHANGED <<issued, pending, told, requests>>,
         db.ledger \subseteq db'.ledger,
         \A c \in ClientId : /\ Executed(c)' \in Nat /\ Executed(c) <= Executed(c)'
                             /\ Executed(c)' <= Len(issued[c])
  PROVE  /\ QueueTypes'
         /\ \A c \in ClientId : QueueOK(c)'
         /\ \A request \in requests' : RequestOK(request)'
         /\ \A reply \in replies : ReplyOK(reply)'
PROOF
<1>1. QueueTypes'
  BY DEF ClientSafe, QueueTypes
<1>2. \A c \in ClientId : Done(c)' = Done(c)
  BY DEF Done
<1>3. ASSUME NEW c \in ClientId PROVE QueueOK(c)'
  <2>1. QueueOK(c) /\ Done(c) \in Nat /\ Executed(c) \in Nat
    BY ClientTyped DEF ClientSafe
  <2>2. Done(c) <= Executed(c)'
    BY <2>1 DEF QueueOK
  <2> QED
    BY <1>2, <2>1, <2>2 DEF QueueOK
<1>4. ASSUME NEW request \in requests' PROVE RequestOK(request)'
  BY <1>2, <1>4 DEF ClientSafe, RequestOK
<1>5. ASSUME NEW reply \in replies PROVE ReplyOK(reply)'
  <2> DEFINE c == reply.client
  <2>1. ReplyOK(reply) /\ c \in ClientId
    BY DEF ClientSafe, ReplyOK
  <2>2. PICK first \in 1 .. Done(c) + 1 :
          Slice(issued[c], reply.batch, first) /\ first + Len(reply.batch) <= Executed(c) + 1
    BY <2>1 DEF ReplyOK
  <2>3. /\ Done(c) \in Nat /\ Executed(c) \in Nat /\ Executed(c)' \in Nat
        /\ Executed(c) <= Executed(c)' /\ Len(reply.batch) \in Nat
    BY <2>1, ClientTyped DEF ReplyOK
  <2>4. first + Len(reply.batch) <= Executed(c)' + 1
    BY <2>2, <2>3
  <2>5. \E f \in 1 .. Done(c)' + 1 :
          /\ Slice(issued'[c], reply.batch, f)
          /\ f + Len(reply.batch) <= Executed(c)' + 1
    BY <1>2, <2>1, <2>2, <2>4
  <2>6. \A x \in reply.results : x.outcome \in db'.ledger /\ x.outcome.client = c
    BY <2>1 DEF ReplyOK
  <2>7. \A i \in 1 .. Len(reply.batch) : \E x \in reply.results : x.outcome.request = reply.batch[i]
    BY <2>1 DEF ReplyOK
  <2> QED
    BY <2>1, <2>5, <2>6, <2>7 DEF ReplyOK
<1> QED
  BY <1>1, <1>3, <1>4, <1>5

\* A transaction that has not committed disturbs no queue.
LEMMA UncommittedKeepsQueues ==
  ASSUME Inv, ClientSafe, UNCHANGED clientVars, db' = db
  PROVE  /\ QueueTypes'
         /\ \A c \in ClientId : QueueOK(c)'
         /\ \A request \in requests' : RequestOK(request)'
         /\ \A reply \in replies' : ReplyOK(reply)'
PROOF
<1>1. UNCHANGED <<issued, pending, told, requests>> /\ replies' = replies
  BY DEF clientVars
<1>2. ASSUME NEW c \in ClientId
      PROVE  /\ Executed(c)' \in Nat /\ Executed(c) <= Executed(c)'
             /\ Executed(c)' <= Len(issued[c])
  <2>1. Executed(c)' = Executed(c)
    BY DEF Executed
  <2>2. QueueOK(c) /\ Executed(c) \in Nat
    BY ClientTyped DEF ClientSafe
  <2> QED
    BY <2>1, <2>2 DEF QueueOK
<1> QED
  BY <1>1, <1>2, ServerKeepsQueues

\* Work that keeps ledger and owners, by someone who is not pushing.
LEMMA AdminKeepsClients ==
  ASSUME Inv, ClientSafe, UNCHANGED clientVars, holder' # "push",
         db' = db \/ db' = work,
         work'.ledger \subseteq work.ledger,
         \A t \in Tenant, c \in ClientId :
           \/ work'.clients[t][c].subject = work.clients[t][c].subject
           \/ work'.clients[t][c].subject = Nobody
  PROVE  ClientSafe'
PROOF
<1>1. UNCHANGED <<issued, pending, told, requests>> /\ replies' = replies
  BY DEF clientVars
<1>2. ASSUME NEW c \in ClientId
      PROVE  /\ Executed(c)' \in Nat /\ Executed(c) <= Executed(c)'
             /\ Executed(c)' <= Len(issued[c])
  <2>1. QueueOK(c) /\ Executed(c) \in Nat
        /\ Executed(c) = work.clients[Principal[c].tenant][c].last
    BY ClientTyped DEF ClientSafe
  <2>2. Executed(c)' = Executed(c)
    BY <2>1 DEF Executed
  <2> QED
    BY <2>1, <2>2 DEF QueueOK
<1>3. db.ledger \subseteq db'.ledger
  BY DEF Inv, Grows
<1>4. \A e \in work'.ledger : RowOK(e)'
  BY <1>1 DEF ClientSafe, RowOK
<1>5. \A c \in ClientId : OwnerOK(c)'
  BY PrincipalTyped DEF ClientSafe, OwnerOK
<1> QED
  BY <1>1, <1>2, <1>3, <1>4, <1>5, ServerKeepsQueues DEF ClientSafe

LEMMA DeliverKeepsClients ==
  ASSUME Inv, ClientSafe, NEW request \in requests, Deliver(request), UNCHANGED clientVars
  PROVE  ClientSafe'
PROOF
<1> DEFINE c == request.client
           t == Principal[c].tenant
           s == Principal[c].subject
<1>1. RequestOK(request) /\ c \in ClientId
  BY DEF ClientSafe, RequestOK
<1>2. /\ holder = "none" /\ holder' = "push" /\ db' = db /\ work = db
      /\ work' = ClaimClient(db, t, c, s)
      /\ call' = [tenant |-> t, client |-> c, subject |-> s, todo |-> request.batch,
                  last |-> db.clients[t][c].last, results |-> <<>>]
  BY DEF Deliver, BeginPush, Inv
<1>3. /\ db \in Store /\ t \in Tenant /\ s \in Subject
      /\ issued' = issued /\ pending' = pending
  BY <1>1, PrincipalTyped DEF Inv, TypeOK, clientVars
<1>4. /\ work'.ledger = work.ledger
      /\ \A u \in Tenant, d \in ClientId :
           work'.clients[u][d].subject =
             IF u = t /\ d = c /\ work.clients[t][c].subject = Nobody
             THEN s ELSE work.clients[u][d].subject
  <2> HIDE DEF c, t, s
  <2>1. CASE db.clients[t][c].subject = Nobody
    <3> DEFINE row == [subject |-> s, last |-> 0]
    <3>1. work' = [db EXCEPT !.clients[t][c] = row]
      BY <1>2, <2>1 DEF ClaimClient
    <3>2. row.subject = s
      OBVIOUS
    <3> HIDE DEF row
    <3>3. work'.clients = [db.clients EXCEPT ![t][c] = row] /\ work'.ledger = db.ledger
      BY <1>3, <3>1 DEF Store
    <3>4. db.clients \in [Tenant -> [ClientId -> ClientRow]]
      BY <1>3 DEF Store
    <3>5. \A u \in Tenant, d \in ClientId :
            work'.clients[u][d] = IF u = t /\ d = c THEN row ELSE db.clients[u][d]
      BY <1>1, <1>3, <3>3, <3>4
    <3> QED
      BY <1>2, <2>1, <3>2, <3>3, <3>5
  <2>2. CASE db.clients[t][c].subject # Nobody
    <3>1. work' = db
      BY <1>2, <2>2 DEF ClaimClient
    <3> QED
      BY <1>2, <2>2, <3>1
  <2> QED
    BY <2>1, <2>2
<1>5. \A e \in work'.ledger : RowOK(e)'
  BY <1>3, <1>4 DEF ClientSafe, RowOK
<1>6. \A d \in ClientId : OwnerOK(d)'
  BY <1>4, PrincipalTyped DEF ClientSafe, OwnerOK
<1>7. PushOK'
  <2>1. PICK first \in 1 .. Done(c) + 1 : Slice(issued[c], request.batch, first)
    BY <1>1 DEF RequestOK
  <2>2. Done(c)' = Done(c) /\ Done(c) \in Nat
    BY <1>1, <1>3, ClientTyped DEF Done
  <2>3. Executed(c) = db.clients[t][c].last /\ Executed(c) \in Nat
        /\ Executed(c) <= Len(issued[c]) /\ Done(c) <= Executed(c)
    BY <1>1, ClientTyped DEF Executed, ClientSafe, QueueOK
  <2>4. work'.clients[t][c].subject = s
    <3>1. work.clients[t][c].subject \in {Nobody, s}
      BY <1>1 DEF ClientSafe, OwnerOK
    <3> QED
      BY <1>1, <1>3, <1>4, <3>1
  <2>5. /\ call'.client = c /\ call'.tenant = t /\ call'.subject = s
        /\ call'.todo = request.batch /\ call'.last = Executed(c) /\ call'.results = <<>>
    BY <1>2, <2>3
  <2>6. OwnsClient'
    BY <2>4, <2>5 DEF OwnsClient
  <2>7. Len(call'.results) = 0 /\ 1 .. Len(call'.results) = {}
    BY <2>5
  <2>8. first + 0 = first /\ first <= Executed(c) + 1
    BY <2>2, <2>3
  <2> HIDE DEF t, s
  <2>9. \E f \in 1 .. Done(c)' + 1 :
          /\ Slice(issued'[c], call'.todo, f + Len(call'.results))
          /\ f + Len(call'.results) <= call'.last + 1
          /\ \A i \in 1 .. Len(call'.results) :
               call'.results[i].outcome.request = issued'[c][f + i - 1]
    <3>1. Slice(issued'[c], call'.todo, first + Len(call'.results))
      BY <1>3, <2>1, <2>5, <2>7, <2>8
    <3>2. first + Len(call'.results) <= call'.last + 1
      BY <2>5, <2>7, <2>8
    <3> QED
      BY <2>2, <2>7, <3>1, <3>2
  <2> HIDE DEF c
  <2> QED
    BY <1>1, <1>3, <2>3, <2>5, <2>6, <2>7, <2>9 DEF PushOK, t, s
<1> QED
  BY <1>2, <1>5, <1>6, <1>7, UncommittedKeepsQueues DEF ClientSafe

\* A mutation of the batch is answered: its outcome e, a row of the ledger, joins
\* the results, and the client's stream goes on with the next one.
LEMMA PushAdvances ==
  ASSUME Inv, ClientSafe, Pushing, call.todo # <<>>, UNCHANGED <<issued, pending>>,
         NEW e \in Outcome, e.request = Current, e.client = call.client,
         work.ledger \subseteq work'.ledger, e \in work'.ledger,
         work'.clients = work.clients, NEW dup, NEW last \in Nat,
         last = call.last \/ last = Current.id, Current.id <= last,
         call'.tenant = call.tenant, call'.client = call.client,
         call'.subject = call.subject, call'.last = last,
         call'.todo = Tail(call.todo),
         call'.results = Append(call.results, [outcome |-> e, duplicate |-> dup])
  PROVE  PushOK'
PROOF
<1>c. PICK c : c = call.client
  OBVIOUS
<1> DEFINE len == Len(call.results)
           stream == issued[c]
<1>1. /\ PushOK /\ c \in ClientId /\ call.todo \in Seq(Mutation)
      /\ call.results \in Seq(Result) /\ len \in Nat /\ call.last \in Nat
  BY <1>c DEF Pushing, ClientSafe, PushOK, Inv, TypeOK, Call
<1>2. /\ stream \in Seq(Mutation) /\ Len(stream) \in Nat /\ Done(c) \in Nat
      /\ Done(c)' = Done(c) /\ StreamOK(stream)
  BY <1>1, ClientTyped DEF Done, ClientSafe, QueueOK
<1>3. PICK first \in 1 .. Done(c) + 1 :
        /\ Slice(stream, call.todo, first + len)
        /\ first + len <= call.last + 1
        /\ \A i \in 1 .. len : call.results[i].outcome.request = stream[first + i - 1]
  BY <1>c, <1>1 DEF PushOK
<1>4. first \in Nat \ {0}
  BY <1>2
<1> DEFINE results == Append(call.results, [outcome |-> e, duplicate |-> dup])
<1>5. /\ Len(results) = len + 1
      /\ results[len + 1].outcome = e
      /\ \A i \in 1 .. len : results[i] = call.results[i]
  BY <1>1
<1> HIDE DEF len, stream, results
<1>6. /\ Slice(stream, Tail(call.todo), first + (len + 1))
      /\ first + len <= Len(stream) /\ Current = stream[first + len]
  <2>1. PICK at : at = first + len
    OBVIOUS
  <2>2. at \in Nat \ {0} /\ Slice(stream, call.todo, at) /\ at + 1 = first + (len + 1)
    BY <1>1, <1>3, <1>4, <2>1
  <2>3. Slice(stream, Tail(call.todo), at + 1) /\ at <= Len(stream) /\ Head(call.todo) = stream[at]
    BY <1>1, <1>2, <2>2, SliceMoves
  <2> QED
    BY <2>1, <2>2, <2>3 DEF Current
<1>7. Current.id = first + len
  <2>1. first + len \in 1 .. Len(stream)
    BY <1>1, <1>2, <1>4, <1>6
  <2> QED
    BY <1>2, <1>6, <2>1 DEF StreamOK
<1>8. first + (len + 1) <= last + 1
  BY <1>1, <1>3, <1>4, <1>7
<1>9. last <= Len(stream)
  BY <1>c, <1>1, <1>2, <1>6, <1>7 DEF PushOK, stream
<1>10. ASSUME NEW i \in 1 .. (len + 1)
       PROVE  /\ results[i].outcome.request = stream[first + i - 1]
              /\ results[i].outcome \in work'.ledger /\ results[i].outcome.client = c
  <2>1. CASE i = len + 1
    <3>1. first + i - 1 = first + len
      BY <1>1, <1>4, <2>1
    <3> QED
      BY <1>c, <1>5, <1>6, <2>1, <3>1
  <2>2. CASE i # len + 1
    <3>1. i \in 1 .. len
      BY <1>1, <2>2
    <3>2. call.results[i].outcome \in work.ledger /\ call.results[i].outcome.client = c
      BY <1>c, <1>1, <3>1 DEF PushOK, len
    <3> QED
      BY <1>3, <1>5, <3>1, <3>2
  <2> QED
    BY <2>1, <2>2
<1>11. call'.client = c /\ call'.results = results /\ issued'[c] = stream
       /\ call'.last = last /\ call'.todo = Tail(call.todo)
  BY <1>c DEF results, stream
<1>12. OwnsClient' /\ call'.tenant = Principal[c].tenant /\ call'.subject = Principal[c].subject
  BY <1>c, <1>1 DEF OwnsClient, PushOK
<1>13. \E f \in 1 .. Done(c)' + 1 :
         /\ Slice(issued'[c], call'.todo, f + Len(call'.results))
         /\ f + Len(call'.results) <= call'.last + 1
         /\ \A i \in 1 .. Len(call'.results) :
              call'.results[i].outcome.request = issued'[c][f + i - 1]
  <2>1. first \in 1 .. Done(c)' + 1 /\ Len(call'.results) = len + 1
    BY <1>2, <1>5, <1>11
  <2> QED
    BY <1>6, <1>8, <1>10, <1>11, <2>1
<1>14. \A i \in 1 .. Len(call'.results) :
         call'.results[i].outcome \in work'.ledger /\ call'.results[i].outcome.client = c
  BY <1>5, <1>10, <1>11
<1> QED
  BY ONLY <1>1, <1>9, <1>11, <1>12, <1>13, <1>14 DEF PushOK

LEMMA PushStepKeepsClients ==
  ASSUME Inv, ClientSafe, PushStep, UNCHANGED clientVars
  PROVE  ClientSafe'
PROOF
<1>1. /\ Pushing /\ call.todo # <<>> /\ holder = "push" /\ holder' = holder /\ db' = db
      /\ call \in Call /\ UNCHANGED <<issued, pending>>
  BY DEF PushStep, ReplayDuplicate, RejectMutation, AcknowledgeNoOp, ApplyMutation,
     Executing, Settle, Pushing, Inv, TypeOK, clientVars
<1>2. /\ Current \in Mutation /\ call.tenant \in Tenant /\ call.client \in ClientId
      /\ call.last \in Nat /\ work \in Store /\ StoreOK(work) /\ call.subject \in Subject
      /\ (Current.op = "upsert") = (Current.data \in Data)
  BY <1>1, CurrentTyped DEF Inv, TypeOK
<1>3. ASSUME \A c \in ClientId : OwnerOK(c)', \A e \in work'.ledger : RowOK(e)', PushOK'
      PROVE  ClientSafe'
  BY <1>1, <1>3, UncommittedKeepsQueues DEF ClientSafe
<1>4. CASE ReplayDuplicate
  <2>1. PICK e \in Prior(work, call.tenant, call.client, Current.id) :
          /\ e.request = Current
          /\ call' = [call EXCEPT
               !.todo = Tail(@),
               !.results = Append(@, [outcome |-> e, duplicate |-> TRUE])]
    BY <1>4 DEF ReplayDuplicate
  <2>2. work' = work /\ Current.id <= call.last
    BY <1>4 DEF ReplayDuplicate, IsReplay
  <2>3. e \in work.ledger /\ e.client = call.client /\ e \in Outcome
    BY <1>2, <2>1 DEF Prior, Store
  <2>4. /\ call'.tenant = call.tenant /\ call'.client = call.client
        /\ call'.subject = call.subject /\ call'.last = call.last
        /\ call'.todo = Tail(call.todo)
        /\ call'.results = Append(call.results, [outcome |-> e, duplicate |-> TRUE])
    BY <1>1, <2>1 DEF Call
  <2>5. e.request = Current
    BY <2>1
  <2>6. PushOK'
    <3>1. PICK last \in Nat : last = call.last
      BY <1>2
    <3>2. last = call.last /\ Current.id <= last
      BY <2>2, <3>1
    <3>3. work.ledger \subseteq work'.ledger /\ e \in work'.ledger /\ work'.clients = work.clients
      BY <2>2, <2>3
    <3>4. PICK dup : dup = TRUE
      OBVIOUS
    <3>5. /\ call'.tenant = call.tenant /\ call'.client = call.client
          /\ call'.subject = call.subject /\ call'.last = last
          /\ call'.todo = Tail(call.todo) /\ e.request = Current
          /\ call'.results = Append(call.results, [outcome |-> e, duplicate |-> dup])
      BY <2>4, <2>5, <3>1, <3>4
    <3> QED
      BY <1>1, <2>3, <3>2, <3>3, <3>5, PushAdvances
  <2>7. \A c \in ClientId : OwnerOK(c)'
    BY <2>2 DEF ClientSafe, OwnerOK
  <2>8. \A x \in work'.ledger : RowOK(x)'
    BY <1>1, <2>2 DEF ClientSafe, RowOK
  <2> QED
    BY <1>3, <2>6, <2>7, <2>8
<1>5. ASSUME Executing, NEW s \in Store, s.ledger = work.ledger, s.clients = work.clients,
             NEW status \in {"applied", "rejected"}, NEW noOp \in BOOLEAN, NEW code \in Code,
             Settle(s, status, noOp, code)
      PROVE  ClientSafe'
  <2>c. PICK c : c = call.client
    OBVIOUS
  <2>e. PICK e : e = OutcomeOf(s, call.tenant, call.client, Current, status, noOp, code)
    OBVIOUS
  <2>1. /\ work' = Record(s, e)
        /\ call' = [call EXCEPT
             !.todo = Tail(@), !.last = Current.id,
             !.results = Append(@, [outcome |-> e, duplicate |-> FALSE])]
    BY <1>5, <2>e DEF Settle
  <2>2. /\ e.tenant = call.tenant /\ e.client = c /\ e.request = Current
    BY <2>c, <2>e DEF OutcomeOf
  <2>3. e \in Outcome
    <3>1. s.lastSeq \in Nat
      BY <1>5 DEF Store
    <3>2. (IF Current.table = "docs" THEN s.docs[call.tenant][Current.record].revision ELSE 0)
            \in Nat
      BY <1>2, <1>5 DEF Mutation, Store, Row
    <3> QED
      BY <1>2, <1>5, <2>e, <3>1, <3>2 DEF OutcomeOf, Outcome
  <2>4. work'.ledger = work.ledger \cup {e} /\ work'.clients = work.clients
    BY <1>5, <2>1 DEF Record, Store
  <2>5. /\ call'.tenant = call.tenant /\ call'.client = call.client
        /\ call'.subject = call.subject /\ call'.last = Current.id
        /\ call'.todo = Tail(call.todo)
        /\ call'.results = Append(call.results, [outcome |-> e, duplicate |-> FALSE])
    BY <1>1, <2>1 DEF Call
  <2>6. Current.id = call.last + 1 /\ Current.id \in Nat
    BY <1>2, <1>5 DEF Executing, IsNext
  <2>7. PushOK'
    BY <1>1, <2>c, <2>2, <2>3, <2>4, <2>5, <2>6, PushAdvances
  <2>8. \A d \in ClientId : OwnerOK(d)'
    BY <2>4 DEF ClientSafe, OwnerOK
  <2>9. RowOK(e)'
    <3>1. /\ PushOK /\ call.todo \in Seq(Mutation) /\ Len(call.results) \in Nat
          /\ issued[c] \in Seq(Mutation) /\ Len(issued[c]) \in Nat /\ StreamOK(issued[c])
          /\ Done(c) \in Nat
      BY <1>1, <1>2, <2>c, ClientTyped DEF ClientSafe, QueueOK, Call
    <3>2. PICK first \in 1 .. Done(c) + 1 :
            Slice(issued[c], call.todo, first + Len(call.results))
      BY <2>c, <3>1 DEF PushOK
    <3>3. /\ first + Len(call.results) <= Len(issued[c])
          /\ Current = issued[c][first + Len(call.results)]
      <4>1. PICK at, stream : at = first + Len(call.results) /\ stream = issued[c]
        OBVIOUS
      <4>2. at \in Nat \ {0} /\ stream \in Seq(Mutation) /\ Slice(stream, call.todo, at)
        BY <3>1, <3>2, <4>1
      <4>3. call.todo \in Seq(Mutation) /\ call.todo # <<>>
        BY <1>1, <3>1
      <4>4. at <= Len(stream) /\ Head(call.todo) = stream[at]
        BY ONLY <4>2, <4>3, SliceMoves
      <4> QED
        BY <4>1, <4>4 DEF Current
    <3>4. first + Len(call.results) \in 1 .. Len(issued[c])
      BY <3>1, <3>3
    <3>5. Current.id = first + Len(call.results)
      BY <3>1, <3>3, <3>4 DEF StreamOK
    <3> QED
      BY <1>1, <2>c, <2>2, <3>1, <3>3, <3>4, <3>5 DEF RowOK, PushOK
  <2>10. \A x \in work'.ledger : RowOK(x)'
    BY <1>1, <2>4, <2>9 DEF ClientSafe, RowOK
  <2> QED
    BY <1>3, <2>7, <2>8, <2>10
<1>6. CASE RejectMutation
  <2>1. RejectionCode(work, call.tenant, Current) \in Code
    BY DEF RejectionCode, Code
  <2> QED
    BY <1>2, <1>5, <1>6, <2>1 DEF RejectMutation
<1>7. CASE AcknowledgeNoOp
  <2>1. "NONE" \in Code
    BY DEF Code
  <2> QED
    BY <1>2, <1>5, <1>7, <2>1 DEF AcknowledgeNoOp
<1>8. CASE ApplyMutation
  <2> DEFINE s == ApplyEffect(work, call.tenant, Current, PushSource)
  <2>1. Settle(s, "applied", FALSE, "NONE") /\ "NONE" \in Code /\ Executing
    BY <1>8 DEF ApplyMutation, Code
  <2>2. PushSource \in Source
    BY <1>2 DEF PushSource, Source, Mutation
  <2>3. RejectionCode(work, call.tenant, Current) = "NONE"
    BY <1>8 DEF ApplyMutation
  <2>4. WroteOne(work, s)
    BY <1>2, <2>2, <2>3, ApplyEffectOK
  <2> HIDE DEF s
  <2> QED
    BY <1>5, <2>1, <2>4 DEF WroteOne
<1> QED
  BY <1>4, <1>6, <1>7, <1>8 DEF PushStep

\* The commit publishes the outcomes and the watermark the response speaks of.
LEMMA CommitKeepsClients ==
  ASSUME Inv, ClientSafe, CommitAndReply
  PROVE  ClientSafe'
PROOF
<1>c. PICK c, t : c = call.client /\ t = call.tenant
  OBVIOUS
<1>r. PICK reply :
        reply = [client |-> c, batch |-> AnsweredBatch,
                 results |-> {call.results[i] : i \in DOMAIN call.results}]
  OBVIOUS
<1> DEFINE w == StoreWatermark(work)
<1>1. /\ holder = "push" /\ Pushing /\ PushOK /\ db' = w /\ work' = w /\ holder' = "none"
      /\ UNCHANGED <<issued, pending, told, requests>> /\ replies' = replies \cup {reply}
  BY <1>c, <1>r DEF CommitAndReply, CommitPush, Commit, Pushing, ClientSafe
<1>2. /\ c \in ClientId /\ t = Principal[c].tenant /\ t \in Tenant
      /\ call.last \in Nat /\ work \in Store /\ call.results \in Seq(Result)
      /\ Len(call.results) \in Nat /\ DOMAIN call.results = 1 .. Len(call.results)
      /\ Executed(c) <= call.last /\ call.last <= Len(issued[c])
  BY <1>c, <1>1 DEF PushOK, Inv, TypeOK, CallOK, Call, Executed
<1>3. /\ w.ledger = work.ledger
      /\ \A u \in Tenant, d \in ClientId :
           /\ w.clients[u][d].subject = work.clients[u][d].subject
           /\ w.clients[u][d].last = IF u = t /\ d = c THEN call.last
                                     ELSE work.clients[u][d].last
  <2> HIDE DEF w
  <2> DEFINE row == [work.clients[t][c] EXCEPT !.last = call.last]
  <2>1. /\ work.clients \in [Tenant -> [ClientId -> ClientRow]]
        /\ work.clients[t][c] \in ClientRow
    BY <1>2 DEF Store
  <2>2. row.last = call.last /\ row.subject = work.clients[t][c].subject
    BY <1>2, <2>1 DEF ClientRow
  <2>3. w.clients = [work.clients EXCEPT ![t][c] = row] /\ w.ledger = work.ledger
    BY <1>c, <1>2 DEF Store, StoreWatermark, w
  <2> HIDE DEF row
  <2>4. \A u \in Tenant, d \in ClientId :
          w.clients[u][d] = IF u = t /\ d = c THEN row ELSE work.clients[u][d]
    BY <1>2, <2>1, <2>3
  <2> QED
    BY <2>2, <2>3, <2>4
<1>4. db.ledger \subseteq db'.ledger /\ db'.ledger = work.ledger
  BY <1>1, <1>3 DEF Inv, Grows
<1>5. ASSUME NEW d \in ClientId
      PROVE  /\ Executed(d)' \in Nat /\ Executed(d) <= Executed(d)'
             /\ Executed(d)' <= Len(issued[d])
  <2>1. /\ QueueOK(d) /\ Executed(d) \in Nat /\ Principal[d].tenant \in Tenant
        /\ Executed(d) = work.clients[Principal[d].tenant][d].last
    BY ClientTyped, PrincipalTyped DEF ClientSafe
  <2>2. Executed(d)' = IF d = c THEN call.last ELSE Executed(d)
    BY <1>1, <1>2, <1>3, <2>1 DEF Executed
  <2> QED
    BY <1>2, <2>1, <2>2 DEF QueueOK
<1> HIDE DEF w
<1>6. /\ QueueTypes' /\ \A d \in ClientId : QueueOK(d)'
      /\ \A request \in requests' : RequestOK(request)'
      /\ \A old \in replies : ReplyOK(old)'
  BY <1>1, <1>4, <1>5, ServerKeepsQueues
<1>7. \A e \in work'.ledger : RowOK(e)'
  BY <1>1, <1>3 DEF ClientSafe, RowOK
<1>8. \A d \in ClientId : OwnerOK(d)'
  BY <1>1, <1>3, PrincipalTyped DEF ClientSafe, OwnerOK
<1>9. ReplyOK(reply)'
  <2> DEFINE len == Len(call.results)
             batch == AnsweredBatch
  <2>1. PICK first \in 1 .. Done(c) + 1 :
          /\ Slice(issued[c], call.todo, first + len)
          /\ first + len <= call.last + 1
          /\ \A i \in 1 .. len : call.results[i].outcome.request = issued[c][first + i - 1]
    BY <1>c, <1>1 DEF PushOK
  <2>2. /\ \A i \in 1 .. len : /\ call.results[i].outcome.request \in Mutation
                               /\ call.results[i].outcome \in work.ledger
                               /\ call.results[i].outcome.client = c
    <3>1. \A i \in 1 .. len : call.results[i] \in Result
      BY <1>2
    <3>2. \A x \in Result : x.outcome.request \in Mutation
      BY DEF Result, Outcome
    <3>3. \A i \in 1 .. len : /\ call.results[i].outcome \in work.ledger
                             /\ call.results[i].outcome.client = c
      BY <1>c, <1>1 DEF PushOK
    <3> QED
      BY <3>1, <3>2, <3>3
  <2>3. /\ batch = [i \in 1 .. len |-> call.results[i].outcome.request]
        /\ batch \in Seq(Mutation) /\ Len(batch) = len
        /\ \A i \in 1 .. len : batch[i] = call.results[i].outcome.request
    <3>1. batch = [i \in 1 .. len |-> call.results[i].outcome.request]
      BY <1>2 DEF AnsweredBatch
    <3>2. batch \in [1 .. len -> Mutation]
      BY <2>2, <3>1
    <3> QED
      BY <1>2, <3>1, <3>2
  <2> HIDE DEF len, batch
  <2>4. Done(c)' = Done(c) /\ Done(c) \in Nat /\ Len(issued[c]) \in Nat
    BY <1>1, <1>2, ClientTyped DEF Done
  <2>5. Executed(c)' = call.last
    BY <1>1, <1>2, <1>3 DEF Executed
  <2>6. Slice(issued[c], batch, first) /\ first + Len(batch) <= Executed(c)' + 1
    <3>1. first \in Nat \ {0} /\ first + len <= Len(issued[c]) + 1
      BY <1>2, <2>1, <2>4 DEF len
    <3> QED
      BY <2>1, <2>3, <2>5, <3>1 DEF Slice
  <2>7. \E f \in 1 .. Done(c)' + 1 :
          Slice(issued'[c], batch, f) /\ f + Len(batch) <= Executed(c)' + 1
    BY <1>1, <2>4, <2>6
  <2>8. /\ reply.client = c /\ reply.batch = batch
        /\ reply.results = {call.results[i] : i \in 1 .. len}
    BY <1>2, <1>r DEF len, batch
  <2>9. \A x \in reply.results : x.outcome \in db'.ledger /\ x.outcome.client = c
    BY <1>4, <2>2, <2>8
  <2>10. \A i \in 1 .. Len(batch) : \E x \in reply.results : x.outcome.request = batch[i]
    BY <2>3, <2>8
  <2> QED
    BY <1>2, <2>3, <2>7, <2>8, <2>9, <2>10 DEF ReplyOK
<1> QED
  BY <1>1, <1>6, <1>7, <1>8, <1>9 DEF ClientSafe

-----------------------------------------------------------------------------
(* What a step of a client leaves to the messages and the server. *)

\* Whatever is a slice of a stream stays one when streams only grow and clients
\* are told about no fewer mutations.
LEMMA MessagesKept ==
  ASSUME Inv, ClientSafe, UNCHANGED vars,
         \A c \in ClientId :
           /\ Done(c)' \in Nat /\ Done(c) <= Done(c)'
           /\ Len(issued'[c]) \in Nat /\ Len(issued[c]) <= Len(issued'[c])
           /\ \A i \in 1 .. Len(issued[c]) : issued'[c][i] = issued[c][i]
           /\ \A q \in Seq(Mutation), first \in Nat :
                Slice(issued[c], q, first) => Slice(issued'[c], q, first)
  PROVE  /\ \A request \in requests : RequestOK(request)'
         /\ \A reply \in replies : ReplyOK(reply)'
         /\ \A e \in work'.ledger : RowOK(e)'
         /\ \A c \in ClientId : OwnerOK(c)'
         /\ holder' = "push" => PushOK'
PROOF
<1>1. db' = db /\ work' = work /\ holder' = holder /\ call' = call
  BY DEF vars
<1>2. \A c \in ClientId : Executed(c)' = Executed(c)
  BY <1>1 DEF Executed
<1>3. ASSUME NEW request \in requests PROVE RequestOK(request)'
  <2>1. RequestOK(request) /\ request.client \in ClientId
    BY DEF ClientSafe, RequestOK
  <2>2. PICK first \in 1 .. Done(request.client) + 1 :
          Slice(issued[request.client], request.batch, first)
    BY <2>1 DEF RequestOK
  <2>3. Done(request.client) \in Nat
    BY <2>1, ClientTyped
  <2>4. first \in 1 .. Done(request.client)' + 1 /\ first \in Nat
    BY <2>1, <2>2, <2>3
  <2>5. Slice(issued'[request.client], request.batch, first)
    BY <2>1, <2>2, <2>4 DEF RequestOK
  <2> QED
    BY <2>1, <2>4, <2>5 DEF RequestOK
<1>4. ASSUME NEW reply \in replies PROVE ReplyOK(reply)'
  <2>1. ReplyOK(reply) /\ reply.client \in ClientId
    BY DEF ClientSafe, ReplyOK
  <2>2. PICK first \in 1 .. Done(reply.client) + 1 :
          /\ Slice(issued[reply.client], reply.batch, first)
          /\ first + Len(reply.batch) <= Executed(reply.client) + 1
    BY <2>1 DEF ReplyOK
  <2>3. Done(reply.client) \in Nat
    BY <2>1, ClientTyped
  <2>4. first \in 1 .. Done(reply.client)' + 1 /\ first \in Nat
    BY <2>1, <2>2, <2>3
  <2>5. Slice(issued'[reply.client], reply.batch, first)
    BY <2>1, <2>2, <2>4 DEF ReplyOK
  <2>6. \E f \in 1 .. Done(reply.client)' + 1 :
          /\ Slice(issued'[reply.client], reply.batch, f)
          /\ f + Len(reply.batch) <= Executed(reply.client)' + 1
    BY <1>2, <2>1, <2>2, <2>4, <2>5
  <2> QED
    BY <1>1, <2>1, <2>6 DEF ReplyOK
<1>5. ASSUME NEW e \in work'.ledger PROVE RowOK(e)'
  <2>1. RowOK(e) /\ e.client \in ClientId
    BY <1>1, <1>5 DEF ClientSafe, Inv, TypeOK, Store, Outcome
  <2>2. Len(issued[e.client]) \in Nat
    BY <2>1, ClientTyped
  <2> QED
    BY <2>1, <2>2 DEF RowOK
<1>6. \A c \in ClientId : OwnerOK(c)'
  BY <1>1 DEF ClientSafe, OwnerOK
<1>7. ASSUME holder' = "push" PROVE PushOK'
  <2>c. PICK c : c = call.client
    OBVIOUS
  <2> DEFINE len == Len(call.results)
  <2>1. /\ PushOK /\ c \in ClientId /\ len \in Nat /\ call.last \in Nat
        /\ call.todo \in Seq(Mutation)
    BY <1>1, <1>7, <2>c DEF ClientSafe, PushOK, Inv, TypeOK, Call
  <2>2. Done(c) \in Nat /\ Len(issued[c]) \in Nat
    BY <2>1, ClientTyped
  <2>3. PICK first \in 1 .. Done(c) + 1 :
          /\ Slice(issued[c], call.todo, first + len)
          /\ first + len <= call.last + 1
          /\ \A i \in 1 .. len : call.results[i].outcome.request = issued[c][first + i - 1]
    BY <2>1, <2>c DEF PushOK
  <2>4. call.last <= Len(issued[c])
    BY <2>1, <2>c DEF PushOK
  <2> HIDE DEF len
  <2>5. first \in 1 .. Done(c)' + 1 /\ first + len \in Nat /\ call.last <= Len(issued'[c])
    BY <2>1, <2>2, <2>4
  <2>6. Slice(issued'[c], call.todo, first + len)
    BY <2>1, <2>3, <2>5
  <2>7. \A i \in 1 .. len : call.results[i].outcome.request = issued'[c][first + i - 1]
    <3> SUFFICES ASSUME NEW i \in 1 .. len
                 PROVE  call.results[i].outcome.request = issued'[c][first + i - 1]
      OBVIOUS
    <3>1. first + i - 1 \in 1 .. Len(issued[c])
      BY <2>1, <2>2, <2>3, <2>4
    <3> QED
      BY <2>1, <2>3, <3>1
  <2>8. \E f \in 1 .. Done(c)' + 1 :
          /\ Slice(issued'[c], call.todo, f + len)
          /\ f + len <= call.last + 1
          /\ \A i \in 1 .. len : call.results[i].outcome.request = issued'[c][f + i - 1]
    BY <2>3, <2>5, <2>6, <2>7
  <2>9. OwnsClient' /\ call'.tenant = Principal[c].tenant /\ call'.subject = Principal[c].subject
    BY <1>1, <2>1, <2>c DEF OwnsClient, PushOK
  <2>10. \A i \in 1 .. Len(call'.results) :
          call'.results[i].outcome \in work'.ledger /\ call'.results[i].outcome.client = c
    BY <1>1, <2>1, <2>c DEF PushOK
  <2>11. call'.client = c /\ len = Len(call'.results) /\ call'.todo = call.todo
         /\ call'.last = call.last /\ call'.results = call.results
    BY <1>1, <2>c DEF len
  <2>12. \E f \in 1 .. Done(c)' + 1 :
          /\ Slice(issued'[c], call'.todo, f + Len(call'.results))
          /\ f + Len(call'.results) <= call'.last + 1
          /\ \A i \in 1 .. Len(call'.results) :
               call'.results[i].outcome.request = issued'[c][f + i - 1]
    BY <2>8, <2>11
  <2>13. c \in ClientId /\ call'.client = c /\ call'.last <= Len(issued'[c])
    BY <2>1, <2>5, <2>11
  <2> QED
    BY ONLY <2>9, <2>10, <2>12, <2>13 DEF PushOK
<1> QED
  BY <1>3, <1>4, <1>5, <1>6, <1>7

LEMMA EnqueueKeepsClients ==
  ASSUME Inv, ClientSafe, NEW c \in ClientId, NEW m \in Intent, Enqueue(c, m), UNCHANGED vars
  PROVE  ClientSafe'
PROOF
<1>1. PICK new : new = [m EXCEPT !.id = NextId(c)]
  OBVIOUS
<1> DEFINE stream == issued[c]
           queue  == pending[c]
<1>2. /\ issued' = [issued EXCEPT ![c] = Append(stream, new)]
      /\ pending' = [pending EXCEPT ![c] = Append(queue, new)]
      /\ UNCHANGED <<told, requests, replies>> /\ db' = db
  BY <1>1 DEF Enqueue, Queue, vars
<1>3. /\ stream \in Seq(Mutation) /\ queue \in Seq(Mutation)
      /\ Len(stream) \in Nat /\ Len(queue) \in Nat /\ Done(c) \in Nat
      /\ QueueTypes /\ QueueOK(c)
  BY ClientTyped DEF ClientSafe
<1>4. /\ new \in Mutation /\ new.id = Len(stream) + 1
      /\ (new.op = "upsert") = (new.data \in Data)
  <2>1. /\ m \in Mutation /\ (m.op = "upsert") = (m.data \in Data)
        /\ NextId(c) = Len(stream) + 1 /\ NextId(c) \in Nat \ {0}
    BY <1>3, ClientAssumption DEF NextId
  <2> QED
    BY <1>1, <2>1 DEF Mutation
<1>5. /\ issued'[c] = Append(stream, new) /\ pending'[c] = Append(queue, new)
      /\ Append(stream, new) \in Seq(Mutation) /\ Append(queue, new) \in Seq(Mutation)
      /\ Len(Append(stream, new)) = Len(stream) + 1 /\ Len(Append(queue, new)) = Len(queue) + 1
      /\ Append(stream, new)[Len(stream) + 1] = new /\ Append(queue, new)[Len(queue) + 1] = new
      /\ \A i \in 1 .. Len(stream) : Append(stream, new)[i] = stream[i]
      /\ \A i \in 1 .. Len(queue) : Append(queue, new)[i] = queue[i]
      /\ \A d \in ClientId : d # c => issued'[d] = issued[d] /\ pending'[d] = pending[d]
      /\ issued' \in [ClientId -> Seq(Mutation)] /\ pending' \in [ClientId -> Seq(Mutation)]
  BY <1>2, <1>3, <1>4 DEF QueueTypes
<1> HIDE DEF stream, queue
<1>6. Done(c)' = Done(c) /\ Len(queue) = Len(stream) - Done(c)
  BY <1>3, <1>5 DEF Done, stream, queue
<1>7. \A d \in ClientId : Done(d)' = Done(d) /\ Executed(d)' = Executed(d)
  BY <1>2, <1>5, <1>6 DEF Done, Executed
<1>8. \A q \in Seq(Mutation), first \in Nat :
        Slice(stream, q, first) => Slice(Append(stream, new), q, first)
  BY <1>3, <1>4, SliceGrows
<1>9. \A d \in ClientId :
        /\ Done(d)' \in Nat /\ Done(d) <= Done(d)'
        /\ Len(issued'[d]) \in Nat /\ Len(issued[d]) <= Len(issued'[d])
        /\ \A i \in 1 .. Len(issued[d]) : issued'[d][i] = issued[d][i]
        /\ \A q \in Seq(Mutation), first \in Nat :
             Slice(issued[d], q, first) => Slice(issued'[d], q, first)
  <2> SUFFICES ASSUME NEW d \in ClientId
               PROVE  /\ Done(d)' \in Nat /\ Done(d) <= Done(d)'
                      /\ Len(issued'[d]) \in Nat /\ Len(issued[d]) <= Len(issued'[d])
                      /\ \A i \in 1 .. Len(issued[d]) : issued'[d][i] = issued[d][i]
                      /\ \A q \in Seq(Mutation), first \in Nat :
                           Slice(issued[d], q, first) => Slice(issued'[d], q, first)
    OBVIOUS
  <2>1. Done(d) \in Nat /\ Len(issued[d]) \in Nat
    BY ClientTyped
  <2>2. CASE d = c
    <3>1. issued[d] = stream /\ issued'[d] = Append(stream, new) /\ Done(d)' = Done(d)
      BY <1>5, <1>7, <2>2 DEF stream
    <3>2. Len(stream) + 1 \in Nat /\ Len(stream) <= Len(stream) + 1
      BY <1>3
    <3>3. /\ Len(issued'[d]) \in Nat /\ Len(issued[d]) <= Len(issued'[d])
          /\ \A i \in 1 .. Len(issued[d]) : issued'[d][i] = issued[d][i]
      BY <1>5, <3>1, <3>2
    <3>4. \A q \in Seq(Mutation), first \in Nat :
            Slice(issued[d], q, first) => Slice(issued'[d], q, first)
      BY <1>8, <3>1
    <3> QED
      BY <2>1, <3>1, <3>3, <3>4
  <2>3. CASE d # c
    BY <1>5, <1>7, <2>1, <2>3
  <2> QED
    BY <2>2, <2>3
<1>10. QueueTypes'
  BY <1>2, <1>3, <1>5 DEF QueueTypes
<1>11. ASSUME NEW d \in ClientId PROVE QueueOK(d)'
  <2>1. CASE d # c
    <3>1. QueueOK(d) /\ issued'[d] = issued[d] /\ pending'[d] = pending[d]
          /\ told' = told /\ db' = db
      BY <1>2, <1>5, <2>1 DEF ClientSafe
    <3> QED
      BY <1>7, <3>1 DEF QueueOK
  <2>2. CASE d = c
    <3>1. StreamOK(Append(stream, new))
      <4> SUFFICES ASSUME NEW i \in 1 .. (Len(stream) + 1)
                   PROVE  /\ Append(stream, new)[i].id = i
                          /\ (Append(stream, new)[i].op = "upsert") =
                               (Append(stream, new)[i].data \in Data)
        BY <1>5 DEF StreamOK
      <4>1. CASE i = Len(stream) + 1
        BY <1>4, <1>5, <4>1
      <4>2. CASE i # Len(stream) + 1
        <5>1. i \in 1 .. Len(stream)
          BY <1>3, <4>2
        <5>2. StreamOK(stream)
          BY <1>3 DEF QueueOK, stream
        <5> QED
          BY <1>5, <5>1, <5>2 DEF StreamOK
      <4> QED
        BY <4>1, <4>2
    <3>2. Slice(Append(stream, new), Append(queue, new), Done(c) + 1)
      <4>1. Slice(stream, queue, Done(c) + 1)
        BY <1>3 DEF QueueOK, stream, queue
      <4>2. \A i \in 1 .. Len(queue) : queue[i] = stream[Done(c) + 1 + i - 1]
        BY <4>1 DEF Slice
      <4>3. ASSUME NEW i \in 1 .. (Len(queue) + 1)
            PROVE  Append(queue, new)[i] = Append(stream, new)[Done(c) + 1 + i - 1]
        <5>1. CASE i = Len(queue) + 1
          <6>1. Done(c) + 1 + i - 1 = Len(stream) + 1
            BY <1>3, <1>6, <5>1
          <6> QED
            BY <1>5, <5>1, <6>1
        <5>2. CASE i # Len(queue) + 1
          <6>1. i \in 1 .. Len(queue) /\ Done(c) + 1 + i - 1 \in 1 .. Len(stream)
            BY <1>3, <1>6, <5>2
          <6> QED
            BY <1>5, <4>2, <6>1
        <5> QED
          BY <5>1, <5>2
      <4>4. /\ Done(c) + 1 \in Nat \ {0}
            /\ Done(c) + 1 + Len(Append(queue, new)) <= Len(Append(stream, new)) + 1
        BY <1>3, <1>5, <1>6
      <4> QED
        BY <1>5, <4>3, <4>4 DEF Slice
    <3>3. Done(c) <= Executed(c) /\ Executed(c) <= Len(Append(stream, new))
      <4>1. Executed(c) \in Nat /\ Done(c) <= Executed(c) /\ Executed(c) <= Len(stream)
        BY <1>3, ClientTyped DEF QueueOK, stream
      <4> QED
        BY <1>3, <1>5, <4>1
    <3>4. \A i \in 1 .. Done(c) : \E e \in told[c] : e.request = Append(stream, new)[i]
      <4>1. \A i \in 1 .. Done(c) : i \in 1 .. Len(stream)
        BY <1>3, <1>6
      <4> QED
        BY <1>3, <1>5, <4>1 DEF QueueOK, stream
    <3>5. \A e \in told[c] : e \in db.ledger /\ e.client = c
      BY <1>3 DEF QueueOK
    <3>6. told' = told /\ db' = db /\ Done(c)' = Done(c) /\ Executed(c)' = Executed(c)
          /\ issued'[c] = Append(stream, new) /\ pending'[c] = Append(queue, new)
      BY <1>2, <1>5, <1>7
    <3> QED
      BY <2>2, <3>1, <3>2, <3>3, <3>4, <3>5, <3>6 DEF QueueOK
  <2> QED
    BY <2>1, <2>2
<1>12. /\ \A request \in requests : RequestOK(request)'
       /\ \A reply \in replies : ReplyOK(reply)'
       /\ \A e \in work'.ledger : RowOK(e)'
       /\ \A d \in ClientId : OwnerOK(d)'
       /\ holder' = "push" => PushOK'
  BY <1>9, MessagesKept
<1>13. requests' = requests /\ replies' = replies
  BY <1>2
<1> QED
  BY <1>10, <1>11, <1>12, <1>13 DEF ClientSafe

\* Streams and counts stand: what may change is one queue, and what was told.
LEMMA StreamsStand ==
  ASSUME Inv, ClientSafe, issued' = issued,
         \A c \in ClientId : Done(c)' \in Nat /\ Done(c) <= Done(c)'
  PROVE  \A c \in ClientId :
           /\ Done(c)' \in Nat /\ Done(c) <= Done(c)'
           /\ Len(issued'[c]) \in Nat /\ Len(issued[c]) <= Len(issued'[c])
           /\ \A i \in 1 .. Len(issued[c]) : issued'[c][i] = issued[c][i]
           /\ \A q \in Seq(Mutation), first \in Nat :
                Slice(issued[c], q, first) => Slice(issued'[c], q, first)
PROOF
<1>1. \A c \in ClientId : Len(issued[c]) \in Nat
  BY ClientTyped
<1>2. \A n \in Nat : n <= n
  OBVIOUS
<1> QED
  BY <1>1, <1>2

LEMMA SendKeepsClients ==
  ASSUME Inv, ClientSafe, NEW c \in ClientId, NEW k \in 1 .. PushLimit, Send(c, k),
         UNCHANGED vars
  PROVE  ClientSafe'
PROOF
<1>1. PICK new : new = [client |-> c, batch |-> SubSeq(pending[c], 1, k)]
  OBVIOUS
<1>2. /\ k \in 1 .. Len(pending[c]) /\ requests' = requests \cup {new}
      /\ issued' = issued /\ pending' = pending /\ told' = told /\ replies' = replies
      /\ db' = db
  BY <1>1 DEF Send, vars
<1>3. \A d \in ClientId : Done(d) \in Nat /\ Done(d)' = Done(d) /\ Executed(d)' = Executed(d)
  BY <1>2, ClientTyped DEF Done, Executed
<1>4. \A d \in ClientId : Done(d)' \in Nat /\ Done(d) <= Done(d)'
  BY <1>3
<1>5. /\ \A request \in requests : RequestOK(request)'
      /\ \A reply \in replies : ReplyOK(reply)'
      /\ \A e \in work'.ledger : RowOK(e)'
      /\ \A d \in ClientId : OwnerOK(d)'
      /\ holder' = "push" => PushOK'
  BY <1>2, <1>4, StreamsStand, MessagesKept
<1>6. QueueTypes'
  BY <1>2 DEF ClientSafe, QueueTypes
<1>7. \A d \in ClientId : QueueOK(d)'
  BY <1>2, <1>3 DEF ClientSafe, QueueOK
<1>8. RequestOK(new)'
  <2>1. /\ issued[c] \in Seq(Mutation) /\ pending[c] \in Seq(Mutation) /\ Done(c) \in Nat
        /\ Slice(issued[c], pending[c], Done(c) + 1)
    BY ClientTyped DEF ClientSafe, QueueOK
  <2>2. /\ SubSeq(pending[c], 1, k) \in Seq(Mutation) /\ SubSeq(pending[c], 1, k) # <<>>
        /\ Slice(issued[c], SubSeq(pending[c], 1, k), Done(c) + 1)
    BY <1>2, <2>1, SliceHead
  <2>3. new.client = c /\ new.batch = SubSeq(pending[c], 1, k)
    BY <1>1
  <2>4. Done(c) + 1 \in 1 .. Done(c)' + 1
    BY <1>3, <2>1
  <2> QED
    BY <1>2, <2>2, <2>3, <2>4 DEF RequestOK
<1> QED
  BY <1>2, <1>5, <1>6, <1>7, <1>8 DEF ClientSafe

\* A response settles what it is about, be it the first time or not.
LEMMA ReceiveKeepsClients ==
  ASSUME Inv, ClientSafe, NEW reply \in replies, Receive(reply), UNCHANGED vars
  PROVE  ClientSafe'
PROOF
<1> DEFINE c == reply.client
           stream == issued[c]
           queue  == pending[c]
           batch  == reply.batch
           news   == {x.outcome : x \in reply.results}
<1>1. ReplyOK(reply) /\ c \in ClientId /\ batch \in Seq(Mutation)
  BY DEF ClientSafe, ReplyOK
<1>2. /\ stream \in Seq(Mutation) /\ queue \in Seq(Mutation)
      /\ Len(stream) \in Nat /\ Len(queue) \in Nat /\ Len(batch) \in Nat
      /\ Done(c) \in Nat /\ Executed(c) \in Nat /\ QueueTypes /\ QueueOK(c)
      /\ Len(queue) = Len(stream) - Done(c)
  BY <1>1, ClientTyped DEF ClientSafe, Done
<1>3. PICK first \in 1 .. Done(c) + 1 :
        Slice(stream, batch, first) /\ first + Len(batch) <= Executed(c) + 1
  BY <1>1 DEF ReplyOK
<1>4. StreamOK(stream) /\ Slice(stream, queue, Done(c) + 1)
  BY <1>2 DEF QueueOK
<1>5. PICK g \in 0 .. Len(queue) :
        /\ Acknowledge(queue, reply) = Rest(queue, g)
        /\ g > 0 => Done(c) + g <= first + Len(batch) - 1
  <2> DEFINE d == Done(c)
  <2>1. d \in Nat /\ Slice(stream, queue, d + 1) /\ Len(queue) = Len(stream) - d
        /\ first \in 1 .. d + 1
    BY <1>2, <1>3, <1>4
  <2> HIDE DEF d, c, stream, queue
  <2>2. \E g \in 0 .. Len(queue) :
          /\ Acknowledge(queue, reply) = Rest(queue, g)
          /\ g > 0 => d + g <= first + Len(batch) - 1
    BY <1>1, <1>2, <1>3, <1>4, <2>1, AcknowledgesPrefix
  <2> QED
    BY <2>2 DEF d
<1> DEFINE rest == Rest(queue, g)
<1>a. g \in Nat /\ g <= Len(queue)
  BY <1>2
<1>6. /\ rest \in Seq(Mutation) /\ Len(rest) = Len(queue) - g
      /\ Slice(stream, rest, Done(c) + g + 1)
  <2>1. PICK d \in Nat : d = Done(c)
    BY <1>2
  <2>2. Slice(stream, queue, d + 1) /\ Len(queue) = Len(stream) - d
    BY <1>2, <1>4, <2>1
  <2> HIDE DEF c, stream, queue
  <2>3. /\ Rest(queue, g) \in Seq(Mutation) /\ Len(Rest(queue, g)) = Len(queue) - g
        /\ Slice(stream, Rest(queue, g), d + g + 1)
    BY <1>2, <1>a, <2>2, RestIsSlice
  <2> QED
    BY <2>1, <2>3
<1>7. /\ pending' = [pending EXCEPT ![c] = rest]
      /\ told' = [told EXCEPT ![c] = @ \cup news]
      /\ issued' = issued /\ requests' = requests /\ replies' = replies /\ db' = db
  BY <1>5 DEF Receive, vars
<1> HIDE DEF stream, queue, batch, news, rest
<1>8. /\ pending'[c] = rest /\ told'[c] = told[c] \cup news
      /\ \A d \in ClientId : d # c => pending'[d] = pending[d] /\ told'[d] = told[d]
      /\ pending' \in [ClientId -> Seq(Mutation)] /\ told' \in [ClientId -> SUBSET Outcome]
  <2>1. db.ledger \subseteq Outcome
    BY DEF Inv, TypeOK, Store
  <2>2. news \subseteq Outcome
    BY <1>1, <2>1 DEF ReplyOK, news
  <2> QED
    BY <1>1, <1>2, <1>6, <1>7, <2>2 DEF QueueTypes
<1>9. /\ Done(c)' = Done(c) + g /\ Done(c) + g \in Nat
      /\ \A d \in ClientId : d # c => Done(d)' = Done(d)
      /\ \A d \in ClientId : Executed(d)' = Executed(d)
  <2>1. Len(rest) = Len(queue) - g /\ g \in Nat
    BY <1>2, <1>6
  <2>2. Done(c)' = Len(stream) - Len(rest)
    BY <1>7, <1>8 DEF Done, stream
  <2>3. Done(c)' = Done(c) + g /\ Done(c) + g \in Nat
    <3>1. PICK d \in Nat, l \in Nat, k \in Nat :
            d = Done(c) /\ l = Len(stream) /\ k = Len(queue) /\ k = l - d
      BY <1>2
    <3>2. PICK x : x = Done(c)'
      OBVIOUS
    <3>3. x = l - (k - g)
      BY <2>1, <2>2, <3>1, <3>2
    <3>4. x = d + g
      <4>1. PICK h \in Nat : h = g
        BY <1>a
      <4>2. l \in Int /\ k \in Int /\ k = l - d /\ x = l - (k - h)
        BY <3>1, <3>3, <4>1
      <4>3. x = d + h
        BY ONLY <4>2
      <4> QED
        BY <4>1, <4>3
    <3> QED
      BY <1>a, <3>1, <3>2, <3>4
  <2>4. \A d \in ClientId : d # c => Done(d)' = Done(d)
    BY <1>7, <1>8 DEF Done
  <2>5. \A d \in ClientId : Executed(d)' = Executed(d)
    BY <1>7 DEF Executed
  <2> QED
    BY <2>3, <2>4, <2>5
<1>10. \A d \in ClientId : Done(d)' \in Nat /\ Done(d) <= Done(d)'
  <2> SUFFICES ASSUME NEW d \in ClientId PROVE Done(d)' \in Nat /\ Done(d) <= Done(d)'
    OBVIOUS
  <2>1. Done(d) \in Nat
    BY ClientTyped
  <2>2. CASE d = c
    BY <1>2, <1>9, <2>2
  <2>3. CASE d # c
    BY <1>9, <2>1, <2>3
  <2> QED
    BY <2>2, <2>3
<1>11. /\ \A request \in requests : RequestOK(request)'
       /\ \A r \in replies : ReplyOK(r)'
       /\ \A e \in work'.ledger : RowOK(e)'
       /\ \A d \in ClientId : OwnerOK(d)'
       /\ holder' = "push" => PushOK'
  BY <1>7, <1>10, StreamsStand, MessagesKept
<1>12. QueueTypes'
  BY <1>2, <1>7, <1>8 DEF QueueTypes
<1>13. ASSUME NEW d \in ClientId, d # c PROVE QueueOK(d)'
  <2>1. QueueOK(d) /\ pending'[d] = pending[d] /\ told'[d] = told[d]
    BY <1>8, <1>13 DEF ClientSafe
  <2> QED
    BY <1>7, <1>9, <1>13, <2>1 DEF QueueOK
<1>14. QueueOK(c)'
  <2>1. Slice(stream, rest, Done(c) + g + 1)
    BY <1>6
  <2>2. Done(c) + g <= Executed(c) /\ Executed(c) <= Len(stream)
    <3>1. Done(c) <= Executed(c) /\ Executed(c) <= Len(stream)
      BY <1>2 DEF QueueOK, stream
    <3>2. CASE g = 0
      BY <1>2, <3>1, <3>2
    <3>3. CASE g > 0
      BY <1>2, <1>3, <1>5, <3>1, <3>3
    <3> QED
      BY <1>2, <3>2, <3>3
  <2>3. ASSUME NEW i \in 1 .. (Done(c) + g)
        PROVE  \E e \in told'[c] : e.request = stream[i]
    <3>1. CASE i <= Done(c)
      <4>1. i \in 1 .. Done(c)
        BY <1>2, <1>9, <3>1
      <4>2. \E e \in told[c] : e.request = stream[i]
        BY <1>2, <4>1 DEF QueueOK, stream
      <4> QED
        BY <1>8, <4>2
    <3>2. CASE i > Done(c)
      <4> DEFINE j == i - first + 1
      <4>1. j \in 1 .. Len(batch) /\ first + j - 1 = i
        BY <1>2, <1>3, <1>5, <1>9, <3>2
      <4> HIDE DEF j
      <4>2. batch[j] = stream[i]
        <5>1. batch[j] = stream[first + j - 1]
          BY <1>3, <4>1 DEF Slice
        <5> QED
          BY <4>1, <5>1
      <4>3. PICK x \in reply.results : x.outcome.request = batch[j]
        BY <1>1, <4>1 DEF ReplyOK, batch
      <4>4. x.outcome \in told'[c]
        BY <1>8 DEF news
      <4> QED
        BY <4>2, <4>3, <4>4
    <3> QED
      BY <1>2, <1>9, <3>1, <3>2
  <2>4. \A e \in told'[c] : e \in db.ledger /\ e.client = c
    <3>1. \A e \in told[c] : e \in db.ledger /\ e.client = c
      BY <1>2 DEF QueueOK
    <3>2. \A e \in news : e \in db.ledger /\ e.client = c
      BY <1>1 DEF ReplyOK, news
    <3> QED
      BY <1>8, <3>1, <3>2
  <2>5. issued'[c] = stream /\ pending'[c] = rest /\ Done(c)' = Done(c) + g
        /\ Executed(c)' = Executed(c) /\ db' = db
    BY <1>1, <1>7, <1>8, <1>9 DEF stream
  <2> HIDE DEF c
  <2> QED
    BY <1>4, <2>1, <2>2, <2>3, <2>4, <2>5 DEF QueueOK
<1> QED
  BY <1>7, <1>11, <1>12, <1>13, <1>14 DEF ClientSafe

-----------------------------------------------------------------------------
(* The theorems. *)

LEMMA ClientInitSafe == Init /\ ClientInit => ClientSafe
PROOF
<1> SUFFICES ASSUME Init, ClientInit PROVE ClientSafe
  OBVIOUS
<1>1. /\ db = EmptyStore /\ work = EmptyStore /\ holder = "none"
      /\ \A c \in ClientId : issued[c] = <<>> /\ pending[c] = <<>> /\ told[c] = {}
      /\ requests = {} /\ replies = {}
      /\ DOMAIN issued = ClientId /\ DOMAIN pending = ClientId /\ DOMAIN told = ClientId
  BY DEF Init, ClientInit
<1>2. QueueTypes
  <2>1. <<>> \in Seq(Mutation)
    OBVIOUS
  <2> QED
    BY <2>1 DEF QueueTypes, ClientInit
<1>3. ASSUME NEW c \in ClientId PROVE QueueOK(c) /\ OwnerOK(c)
  <2>1. Principal[c].tenant \in Tenant
    BY PrincipalTyped
  <2>2. Executed(c) = 0 /\ work.clients[Principal[c].tenant][c].subject = Nobody
    BY <1>1, <2>1 DEF Executed, EmptyStore, Unclaimed
  <2>3. Len(issued[c]) = 0 /\ Len(pending[c]) = 0 /\ Done(c) = 0
    BY <1>1 DEF Done
  <2>4. StreamOK(issued[c]) /\ Slice(issued[c], pending[c], Done(c) + 1)
    BY <2>3 DEF StreamOK, Slice
  <2> QED
    BY <1>1, <2>2, <2>3, <2>4 DEF QueueOK, OwnerOK
<1>4. work.ledger = {}
  BY <1>1 DEF EmptyStore
<1> QED
  BY <1>1, <1>2, <1>3, <1>4 DEF ClientSafe

LEMMA ClientNextSafe ==
  Inv /\ ClientSafe /\ [ClientNext]_clientServerVars => Inv' /\ ClientSafe'
PROOF
<1> SUFFICES ASSUME Inv, ClientSafe, [ClientNext]_clientServerVars
             PROVE  Inv' /\ ClientSafe'
  OBVIOUS
<1>1. CASE UNCHANGED vars /\ UNCHANGED clientVars
  <2>1. Inv'
    BY <1>1, NextKeepsInv
  <2>2. \A c \in ClientId : Done(c)' = Done(c)
    BY <1>1 DEF clientVars, Done
  <2>3. db' = db /\ work' = work /\ holder' = holder /\ issued' = issued
        /\ pending' = pending /\ told' = told /\ requests' = requests /\ replies' = replies
    BY <1>1 DEF vars, clientVars
  <2>4. \A c \in ClientId : Done(c)' \in Nat /\ Done(c) <= Done(c)'
    BY <2>2, ClientTyped
  <2>5. /\ \A e \in work'.ledger : RowOK(e)'
        /\ \A d \in ClientId : OwnerOK(d)'
        /\ holder' = "push" => PushOK'
    BY <1>1, <2>3, <2>4, StreamsStand, MessagesKept
  <2>6. ClientSafe'
    BY <1>1, <2>3, <2>5, UncommittedKeepsQueues DEF ClientSafe
  <2> QED
    BY <2>1, <2>6
<1>2. CASE ClientStep /\ UNCHANGED vars
  <2>1. Inv'
    BY <1>2, NextKeepsInv
  <2>2. ClientSafe'
    BY <1>2, EnqueueKeepsClients, SendKeepsClients, ReceiveKeepsClients DEF ClientStep
  <2> QED
    BY <2>1, <2>2
<1>3. CASE CommitAndReply
  <2>1. CommitPush
    BY <1>3 DEF CommitAndReply
  <2> QED
    BY <1>3, <2>1, CommitPushKeepsInv, CommitKeepsClients
<1>4. ASSUME NEW request \in requests, Deliver(request), UNCHANGED clientVars
      PROVE  Inv' /\ ClientSafe'
  <2> DEFINE c == request.client
             b == request.batch
  <2>1. RequestOK(request) /\ c \in ClientId /\ b \in Seq(Mutation)
    BY DEF ClientSafe, RequestOK
  <2>2. PICK first \in 1 .. Done(c) + 1 : Slice(issued[c], b, first)
    BY <2>1 DEF RequestOK
  <2>3. /\ StreamOK(issued[c]) /\ Len(issued[c]) \in Nat /\ Done(c) \in Nat
        /\ Len(b) \in Nat /\ DOMAIN b = 1 .. Len(b)
    BY <2>1, ClientTyped DEF ClientSafe, QueueOK
  <2>4. ASSUME NEW i \in DOMAIN b
        PROVE  (b[i].op = "upsert") = (b[i].data \in Data)
    <3>1. PICK n \in Nat, s \in Nat : n = Len(b) /\ s = Len(issued[c])
      BY <2>3
    <3>2. first \in Nat /\ first >= 1 /\ i \in 1 .. n
      BY <2>2, <2>3, <2>4, <3>1
    <3>3. first + n <= s + 1 /\ b[i] = issued[c][first + i - 1]
      BY <2>2, <3>1, <3>2 DEF Slice
    <3>4. first + i - 1 \in 1 .. s
      BY <3>1, <3>2, <3>3
    <3>5. b[i] = issued[c][first + i - 1] /\ first + i - 1 \in 1 .. Len(issued[c])
      BY <3>1, <3>3, <3>4
    <3> QED
      BY <2>3, <3>5 DEF StreamOK
  <2>5. Principal[c] \in Identity /\ BeginPush(Principal[c], c, b)
    BY <1>4, <2>1, PrincipalTyped DEF Deliver
  <2> HIDE DEF b, c
  <2>6. Inv'
    BY <2>1, <2>4, <2>5, BeginPushKeepsInv
  <2>7. ClientSafe'
    BY <1>4, DeliverKeepsClients
  <2> QED
    BY <2>6, <2>7
<1>5. CASE PushStep /\ UNCHANGED clientVars
  BY <1>5, PushStepKeepsClients, ReplayKeepsInv, PushStepKeepsInv DEF PushStep
<1>6. ASSUME UNCHANGED clientVars, NEW s, BeginExternal(s),
             s.ledger = db.ledger, s.clients = db.clients
      PROVE  ClientSafe'
  <2>1. holder' # "push" /\ db' = db /\ work = db /\ work' = s
    BY <1>6 DEF BeginExternal, Inv
  <2> QED
    BY <1>6, <2>1, AdminKeepsClients
<1>7. ASSUME UNCHANGED clientVars, NEW t \in Tenant, NEW r \in RecordId, NEW d \in ExternalData,
             ExternalUpsert(t, r, d)
      PROVE  Inv' /\ ClientSafe'
  <2>1. Inv'
    BY <1>7, AdminKeepsInv
  <2>2. d \in Data /\ External \in Source /\ db \in Store
    BY ExternalAssumption DEF External, Source, Inv, TypeOK
  <2>3. WroteOne(db, WriteDoc(db, t, r, d, FALSE, External))
    BY <2>2, WriteDocOK DEF Inv
  <2> QED
    BY <1>6, <1>7, <2>1, <2>3 DEF ExternalUpsert, WroteOne
<1>8. ASSUME UNCHANGED clientVars, NEW t \in Tenant, NEW r \in RecordId, ExternalDelete(t, r)
      PROVE  Inv' /\ ClientSafe'
  <2>1. Inv'
    BY <1>8, AdminKeepsInv
  <2>2. External \in Source /\ db \in Store /\ StoreOK(db)
    BY DEF External, Source, Inv, TypeOK
  <2>3. db.docs[t][r].revision \in Nat /\ db.docs[t][r].revision > 0
    BY <1>8, <2>2 DEF ExternalDelete, Store, Row
  <2>4. db.docs[t][r].data \in Data
    BY <2>2, <2>3 DEF StoreOK, RowsWellFormed
  <2>5. WroteOne(db, WriteDoc(db, t, r, db.docs[t][r].data, TRUE, External))
    BY <2>2, <2>4, WriteDocOK
  <2> QED
    BY <1>6, <1>8, <2>1, <2>5 DEF ExternalDelete, WroteOne
<1>9. CASE CommitAdmin /\ UNCHANGED clientVars
  <2>1. Inv'
    BY <1>9, CommitAdminKeepsInv
  <2>2. holder' # "push" /\ db' = work /\ work' = work
    BY <1>9 DEF CommitAdmin, Commit
  <2> QED
    BY <1>9, <2>1, <2>2, AdminKeepsClients
<1>10. CASE Rollback /\ UNCHANGED clientVars
  <2>1. Inv'
    BY <1>10, RollbackKeepsInv
  <2>2. holder' # "push" /\ db' = db /\ work' = db
    BY <1>10 DEF Rollback
  <2>3. \A t \in Tenant, c \in ClientId :
          \/ work'.clients[t][c].subject = work.clients[t][c].subject
          \/ work'.clients[t][c].subject = Nobody
    BY <2>2 DEF Inv, Grows
  <2>4. work'.ledger \subseteq work.ledger
    BY <2>2 DEF Inv, Grows
  <2> QED
    BY <1>10, <2>1, <2>2, <2>3, <2>4, AdminKeepsClients
<1> QED
  BY <1>1, <1>2, <1>3, <1>4, <1>5, <1>7, <1>8, <1>9, <1>10
     DEF ClientNext, ServerStep, clientServerVars

\* Invariants of the server under SyncServer's own specification hold here too.
THEOREM ClientIsSafe == ClientSpec => [](Inv /\ ClientSafe)
PROOF
<1>1. Init /\ ClientInit => Inv /\ ClientSafe
  BY InitInv, ClientInitSafe
<1> QED
  BY <1>1, ClientNextSafe, PTL DEF ClientSpec

LEMMA HeadOfSlice ==
  ASSUME NEW stream \in Seq(Mutation), NEW todo \in Seq(Mutation), todo # <<>>,
         NEW n, Slice(stream, todo, n)
  PROVE  n \in 1 .. Len(stream) /\ Head(todo) = stream[n]
PROOF
<1>1. Len(todo) \in Nat \ {0} /\ Len(stream) \in Nat /\ Head(todo) = todo[1]
  OBVIOUS
<1>2. n \in Nat \ {0} /\ n + Len(todo) <= Len(stream) + 1 /\ todo[1] = stream[n + 1 - 1]
  BY <1>1 DEF Slice
<1>3. n + 1 - 1 = n
  BY <1>2
<1> QED
  BY <1>1, <1>2, <1>3

\* The mutation a push is about to execute is the next one of the client's
\* stream or one the ledger holds.
LEMMA CurrentIsNextOrSettled ==
  ASSUME Inv, ClientSafe, holder = "push", call.todo # <<>>
  PROVE  \/ IsNext
         \/ \E e \in Prior(work, call.tenant, call.client, Current.id) :
              e.request = Current
PROOF
<1>c. PICK c, t, last : c = call.client /\ t = call.tenant /\ last = call.last
  OBVIOUS
<1> DEFINE stream == issued[c]
           len == Len(call.results)
<1>1. /\ PushOK /\ c \in ClientId /\ t \in Tenant /\ t = Principal[c].tenant
      /\ call.todo \in Seq(Mutation) /\ len \in Nat /\ last \in Nat
  <2>1. PushOK
    BY DEF ClientSafe
  <2>2. call \in Call
    BY DEF Inv, TypeOK
  <2>3. c \in ClientId /\ t = Principal[c].tenant
    BY <1>c, <2>1 DEF PushOK
  <2>4. call.todo \in Seq(Mutation) /\ call.results \in Seq(Result) /\ call.last \in Nat
    BY <2>2 DEF Call
  <2>5. Len(call.results) \in Nat
    BY <2>4
  <2> QED
    BY <1>c, <2>1, <2>3, <2>4, <2>5, PrincipalTyped
<1>2. stream \in Seq(Mutation) /\ Len(stream) \in Nat /\ StreamOK(stream) /\ Done(c) \in Nat
  BY <1>1, ClientTyped DEF ClientSafe, QueueOK
<1>3. PICK first \in 1 .. Done(c) + 1 :
        Slice(stream, call.todo, first + len) /\ first + len <= last + 1
  BY <1>c, <1>1 DEF PushOK
<1>4. first \in Nat \ {0}
  BY <1>2
<1>5. PICK n : n = first + len
  OBVIOUS
<1> HIDE DEF stream, len
<1>6. Slice(stream, call.todo, n) /\ n <= last + 1 /\ call.todo # <<>>
  BY <1>3, <1>5
<1>7. n \in 1 .. Len(stream) /\ Current = stream[n]
  BY <1>1, <1>2, <1>6, HeadOfSlice DEF Current
<1>8. Current.id = n
  BY <1>2, <1>7 DEF StreamOK
<1>9. CASE n = last + 1
  BY <1>c, <1>8, <1>9 DEF IsNext
<1>10. CASE n <= last
  <2>1. Reached[t][c] = last
    BY <1>c, <1>1 DEF Reached
  <2>2. Prior(work, t, c, n) # {}
    <3>1. LedgerDense(work, Reached) /\ n \in 1 .. Reached[t][c]
      BY <1>1, <1>2, <1>7, <1>10, <2>1 DEF Inv
    <3> QED
      BY <1>1, <3>1 DEF LedgerDense
  <2>3. PICK e \in Prior(work, t, c, n) : TRUE
    BY <2>2
  <2>4. e \in work.ledger /\ e.client = c /\ e.request.id = n
    BY <2>3 DEF Prior
  <2>5. e.request = stream[n]
    BY <2>4 DEF ClientSafe, RowOK, stream
  <2> QED
    BY <1>c, <1>7, <1>8, <2>3, <2>5
<1> QED
  BY <1>1, <1>2, <1>6, <1>7, <1>9, <1>10

\* A client that numbers its mutations and sends them as they were queued never
\* meets a push error that is final for its transport, whatever the network
\* does with its requests.
THEOREM NoFinalError == ClientSpec => []NoProtocolError
PROOF
<1>1. Inv /\ ClientSafe => NoProtocolError
  <2> SUFFICES ASSUME Inv, ClientSafe, holder = "push"
               PROVE  /\ OwnsClient
                      /\ call.todo # <<>> =>
                           \/ IsNext
                           \/ \E e \in Prior(work, call.tenant, call.client, Current.id) :
                                e.request = Current
    BY DEF NoProtocolError
  <2>1. OwnsClient
    BY DEF ClientSafe, PushOK
  <2> QED
    BY <2>1, CurrentIsNextOrSettled
<1> QED
  BY <1>1, ClientIsSafe, PTL

\* The queue and what the client was told are all it ever queued.
THEOREM WritesAreKept == ClientSpec => []NoWriteIsLost
PROOF
<1>1. Inv /\ ClientSafe => NoWriteIsLost
  <2> SUFFICES ASSUME Inv, ClientSafe, NEW c \in ClientId, NEW i \in DOMAIN issued[c]
               PROVE  \/ \E j \in DOMAIN pending[c] : pending[c][j] = issued[c][i]
                      \/ \E e \in told[c] : e.request = issued[c][i]
    BY DEF NoWriteIsLost
  <2>1. PICK d \in Nat, s \in Nat, p \in Nat :
          /\ d = Done(c) /\ s = Len(issued[c]) /\ p = Len(pending[c])
          /\ DOMAIN issued[c] = 1 .. s /\ DOMAIN pending[c] = 1 .. p
    BY ClientTyped
  <2>2. d = s - p
    BY <2>1 DEF Done
  <2>3. QueueOK(c)
    BY DEF ClientSafe
  <2>4. CASE i <= d
    <3>1. i \in 1 .. Done(c)
      BY <2>1, <2>4
    <3> QED
      BY <2>3, <3>1 DEF QueueOK
  <2>5. CASE i > d
    <3>0. i \in 1 .. s
      BY <2>1
    <3>1. i - d \in 1 .. p /\ d + 1 + (i - d) - 1 = i
      BY ONLY <2>2, <2>5, <3>0, d \in Nat, s \in Nat, p \in Nat
    <3>2. \A j \in 1 .. p : pending[c][j] = issued[c][d + 1 + j - 1]
      BY <2>1, <2>3 DEF QueueOK, Slice
    <3>3. pending[c][i - d] = issued[c][i]
      BY <3>1, <3>2
    <3> QED
      BY <2>1, <3>1, <3>3
  <2> QED
    BY <2>1, <2>4, <2>5
<1> QED
  BY <1>1, ClientIsSafe, PTL

\* The ids of a queue that ends a stream.
LEMMA IdsOfQueue ==
  ASSUME Inv, ClientSafe, NEW c \in ClientId
  PROVE  Ids(pending[c]) = (Done(c) + 1) .. Len(issued[c])
PROOF
<1>1. PICK d \in Nat, s \in Nat, p \in Nat :
        /\ d = Done(c) /\ s = Len(issued[c]) /\ p = Len(pending[c])
        /\ DOMAIN pending[c] = 1 .. p
  BY ClientTyped
<1>2. d = s - p
  BY <1>1 DEF Done
<1>3. QueueOK(c)
  BY DEF ClientSafe
<1>4. ASSUME NEW j \in 1 .. p PROVE pending[c][j].id = d + j
  <2>1. pending[c][j] = issued[c][d + 1 + j - 1]
    BY <1>1, <1>3 DEF QueueOK, Slice
  <2>2. d + 1 + j - 1 = d + j /\ d + j \in 1 .. s
    BY <1>2
  <2> QED
    BY <1>1, <1>3, <2>1, <2>2 DEF QueueOK, StreamOK
<1>5. Ids(pending[c]) = {pending[c][j].id : j \in 1 .. p}
  BY <1>1 DEF Ids
<1>6. ASSUME NEW k \in (d + 1) .. s PROVE \E j \in 1 .. p : pending[c][j].id = k
  <2>1. k - d \in 1 .. p /\ d + (k - d) = k
    BY <1>2
  <2> QED
    BY <1>4, <2>1
<1>7. ASSUME NEW j \in 1 .. p PROVE pending[c][j].id \in (d + 1) .. s
  <2>1. d + j \in (d + 1) .. s
    BY <1>2
  <2> QED
    BY <1>4, <2>1
<1>8. Ids(pending[c]) = (d + 1) .. s
  BY <1>5, <1>6, <1>7
<1> QED
  BY <1>1, <1>8

\* Queue, outcomes told and ledger describe one stream of mutations.
THEOREM ClientInvHolds == ClientSpec => []ClientInv
PROOF
<1>1. Inv /\ ClientSafe => ClientInv
  <2> SUFFICES ASSUME Inv, ClientSafe PROVE ClientInv
    OBVIOUS
  <2>1. \A c \in ClientId : QueueOK(c)
    BY DEF ClientSafe
  <2>2. ClientTypeOK
    <3>1. \A c \in ClientId : DOMAIN issued[c] = 1 .. Len(issued[c])
      BY ClientTyped
    <3>2. ASSUME NEW c \in ClientId
          PROVE  /\ \A i \in DOMAIN issued[c] : issued[c][i].id = i
                 /\ \A e \in told[c] : e.client = c
      BY <2>1, <3>1 DEF QueueOK, StreamOK
    <3>3. told \in [ClientId -> SUBSET Outcome]
      BY DEF ClientSafe, QueueTypes
    <3>4. issued \in [ClientId -> Seq(Mutation)] /\ pending \in [ClientId -> Seq(Mutation)]
      BY DEF ClientSafe, QueueTypes
    <3> QED
      BY <3>2, <3>3, <3>4 DEF ClientTypeOK
  <2>3. ToldIsDurable
    BY <2>1 DEF ToldIsDurable, QueueOK
  <2>4. WatermarksAgree
    <3> SUFFICES ASSUME NEW c \in ClientId
                 PROVE  /\ Executed(c) <= Len(issued[c])
                        /\ Len(issued[c]) - Len(pending[c]) <= Executed(c)
                        /\ Ids(pending[c]) =
                             (Len(issued[c]) - Len(pending[c]) + 1) .. Len(issued[c])
      BY DEF WatermarksAgree, Executed
    <3>1. Done(c) = Len(issued[c]) - Len(pending[c])
      BY DEF Done
    <3>2. Executed(c) <= Len(issued[c]) /\ Done(c) <= Executed(c)
      BY <2>1 DEF QueueOK
    <3> QED
      BY <3>1, <3>2, IdsOfQueue
  <2> QED
    BY <2>2, <2>3, <2>4 DEF ClientInv
<1> QED
  BY <1>1, ClientIsSafe, PTL
==============================================================================
