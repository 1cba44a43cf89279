------------------------ MODULE TableHandlers_proofs ------------------------
(***************************************************************************)
(* Proofs about TableHandlers: whatever handlers write before they decide, *)
(* however often savepoints and pushes are rolled back and whatever direct *)
(* SQL does between pushes, answers, change log, mirrors and source rows   *)
(* fit together.  The invariant holds of three versions of the tables: the *)
(* committed ones, those at the savepoint and those the push sees; during  *)
(* a handler the last two differ by at most one captured change.           *)
(***************************************************************************)
EXTENDS TableHandlers, TLAPS

-----------------------------------------------------------------------------
(* The inductive invariant. *)

Feed(w, t, r) == {ch \in w.changes : ch.table = t /\ ch.record = r}

\* The changes F of a record count up to what its mirror row m shows.
CountsUp(m, F) ==
  /\ {ch.revision : ch \in F} = 1 .. m.revision
  /\ \A x, y \in F : x.seq < y.seq <=> x.revision < y.revision
  /\ \A x \in F : x.revision = m.revision => (x.op = "delete") = m.deleted

FeedOK(w) ==
  /\ {ch.seq : ch \in w.changes} = 1 .. w.lastSeq
  /\ \A x, y \in w.changes : x.seq = y.seq => x = y
  /\ \A t \in Table, r \in Record : CountsUp(w.mirror[t][r], Feed(w, t, r))

EffectsOf(w, n) == {ch \in w.changes : ch.mutation = n}

\* AnswersMatchEffects, for the n-th mutation.
AnswerOK(w, n) ==
  /\ w.ledger[n].status = "rejected" => EffectsOf(w, n) = {}
  /\ w.ledger[n].status = "applied" /\ ~w.ledger[n].noOp =>
       \E ch \in EffectsOf(w, n) :
         EffectsOf(w, n) = {ch} /\ ch.seq <= w.ledger[n].checkpoint
  /\ \A ch \in EffectsOf(w, n) : \A k \in 1 .. n - 1 :
       ch.seq > w.ledger[k].checkpoint

\* x is the change before ch on its record, a tombstone that ch lifts.
Lifts(ch, x) ==
  /\ x.table = ch.table /\ x.record = ch.record
  /\ x.revision + 1 = ch.revision
  /\ x.op = "delete" /\ ch.op = "upsert"

\* HandlersHonourBase, for one change of mutation m.
Honours(w, m, ch) ==
  m.table \in Table =>
    /\ m.base # NoBase => ch.revision = m.base + 1
    /\ \A x \in w.changes : Lifts(ch, x) => m.resurrect /\ m.base = x.revision

\* The n-th answer and the changes of its mutation.
SettledOK(w, n) ==
  /\ w.ledger[n].checkpoint <= w.lastSeq
  /\ AnswerOK(w, n)
  /\ \A ch \in EffectsOf(w, n) : Honours(w, w.ledger[n].request, ch)

LedgerOK(w) ==
  /\ \A ch \in w.changes : ch.mutation <= Len(w.ledger)
  /\ \A n \in 1 .. Len(w.ledger) : SettledOK(w, n)

\* w has one change more than s, attributed to mutation n.
OneMore(s, w, n, ch) ==
  /\ ch \in Change
  /\ w.changes = s.changes \cup {ch}
  /\ w.lastSeq = s.lastSeq + 1
  /\ ch.seq = s.lastSeq + 1
  /\ ch.revision = s.mirror[ch.table][ch.record].revision + 1
  /\ ch.mutation = n

\* What the handler of mutation m has done since the savepoint.
Attempted(s, w, m) ==
  /\ w.ledger = s.ledger
  /\ \/ w.changes = s.changes /\ w.lastSeq = s.lastSeq /\ w.mirror = s.mirror
     \/ \E ch : OneMore(s, w, Len(s.ledger) + 1, ch) /\ Honours(s, m, ch)

\* Agrees, for any version of the tables.
AgreesIn(w, t, r) ==
  LET row == w.source[t][r]
      m   == w.mirror[t][r]
      liveRow    == row # Gone /\ ~row.deleted
      liveMirror == m.revision > 0 /\ ~m.deleted
  IN /\ liveRow = liveMirror
     /\ liveRow => m.data = row.data
     /\ row # Gone => m.revision > 0

Tracked(lost, t, r) ==
  \A why \in {"early", "rekey", "reset"} : <<t, r, why>> \notin lost

\* The mirror follows the rows it has been told about, and knows nothing of a
\* table that is not registered; reg: those that are; lost: rows it was not told
\* about; off: a reset is under way.
Tracks(w, reg, lost, off) ==
  /\ ~off =>
       \A t \in reg, r \in Record : Tracked(lost, t, r) => AgreesIn(w, t, r)
  /\ \A t \in Table \ reg, r \in Record :
       w.mirror[t][r] = Unknown /\ (Exists(w, t, r) => <<t, r, "early">> \in lost)

\* What db, work and saved have in common.
VersionOK(w) == w \in Tables /\ FeedOK(w) /\ Tracks(w, registered, untracked, resetting)

HandlersSafe ==
  /\ VersionOK(db) /\ VersionOK(work) /\ VersionOK(saved)
  /\ LedgerOK(db) /\ LedgerOK(saved)
  /\ phase \in {"idle", "loop", "handling", "decided", "failed"}
  /\ phase = "idle" => work = db /\ saved = db
  /\ phase = "loop" => LedgerOK(work)
  /\ phase \in {"handling", "decided"} =>
       todo # <<>> /\ Attempted(saved, work, Current)
  /\ phase = "handling" /\ Current.table \in Table => work = saved
  /\ todo \in Seq(Mutation)
  /\ \A i \in DOMAIN todo : todo[i].op = "upsert" => todo[i].data \in Data
  /\ decision \in [status : {"none", "applied", "rejected"}, noOp : BOOLEAN]
  /\ registered \subseteq Table /\ resetting \in BOOLEAN
  /\ untracked \subseteq Table \X Record \X {"early", "rekey", "reset"}
  /\ resetting => registered = Table

-----------------------------------------------------------------------------
(* Writes of a source row. *)

\* A row, to the mirror: gone or marked, it is dead.
IsDead(row) == row = Gone \/ row.deleted

\* v is s after a captured write of row, with change ch.
Caught(s, v, t, r, row, n, ch) ==
  /\ OneMore(s, v, n, ch)
  /\ ch.table = t /\ ch.record = r
  /\ (ch.op = "delete") = IsDead(row)
  /\ ch.data = IF IsDead(row) THEN NoData ELSE row.data
  /\ v.mirror = [s.mirror EXCEPT ![t][r] =
       [revision |-> ch.revision, data |-> ch.data, deleted |-> IsDead(row)]]

LEMMA RowTyped ==
  ASSUME NEW row \in SourceRow \cup {Gone}
  PROVE  /\ row.deleted \in BOOLEAN /\ IsDead(row) \in BOOLEAN
         /\ row # Gone => row.data \in Data
PROOF
<1>1. CASE row \in SourceRow
  BY <1>1 DEF SourceRow, IsDead
<1>2. CASE row = Gone
  <2>1. row.deleted = FALSE
    BY <1>2 DEF Gone
  <2> QED
    BY <1>2, <2>1 DEF IsDead
<1> QED
  BY <1>1, <1>2

LEMMA WriteFields ==
  ASSUME NEW s \in Tables, NEW t \in Table, NEW r \in Record,
         NEW row \in SourceRow \cup {Gone}, NEW n \in Nat,
         NEW v, v = Write(s, t, r, row, n)
  PROVE  /\ v \in Tables /\ v.ledger = s.ledger
         /\ v.source = [s.source EXCEPT ![t][r] = row]
         /\ t \notin registered =>
              v.changes = s.changes /\ v.mirror = s.mirror /\ v.lastSeq = s.lastSeq
         /\ t \in registered => \E ch : Caught(s, v, t, r, row, n, ch)
PROOF
<1> DEFINE u    == [s EXCEPT !.source[t][r] = row]
           dead == IsDead(row)
           body == IF dead THEN NoData ELSE row.data
           rev  == s.mirror[t][r].revision + 1
           m    == [revision |-> rev, data |-> body, deleted |-> dead]
           ch   == [seq |-> s.lastSeq + 1, table |-> t, record |-> r,
                    op |-> IF dead THEN "delete" ELSE "upsert",
                    data |-> body, revision |-> rev, mutation |-> n]
<1>1. /\ s.lastSeq \in Nat /\ s.changes \subseteq Change /\ s.ledger \in Seq(Outcome)
      /\ s.source \in [Table -> [Record -> SourceRow \cup {Gone}]]
      /\ s.mirror \in [Table -> [Record -> MirrorRow]]
      /\ s.mirror[t][r].revision \in Nat
  BY DEF Tables, MirrorRow
<1>2. row.deleted \in BOOLEAN /\ (row # Gone => row.data \in Data) /\ dead \in BOOLEAN
  BY RowTyped
<1>3. m \in MirrorRow /\ ch \in Change
  BY <1>1, <1>2 DEF MirrorRow, Change, IsDead
<1>4. /\ u \in Tables /\ u.ledger = s.ledger /\ u.lastSeq = s.lastSeq
      /\ u.mirror = s.mirror /\ u.changes = s.changes
      /\ u.source = [s.source EXCEPT ![t][r] = row]
  BY DEF Tables
<1>5. u.source[t][r] = row
  BY <1>1, <1>4
<1>6. v = Capture(u, t, r, n)
  BY DEF Write
<1>7. /\ m = [revision |-> rev, data |-> body, deleted |-> dead]
      /\ ch = [seq |-> s.lastSeq + 1, table |-> t, record |-> r,
               op |-> IF dead THEN "delete" ELSE "upsert",
               data |-> body, revision |-> rev, mutation |-> n]
      /\ ch.seq = s.lastSeq + 1 /\ ch.table = t /\ ch.record = r /\ ch.mutation = n
      /\ ch.revision = rev /\ ch.data = body /\ (ch.op = "delete") = dead
  BY <1>2
<1> HIDE DEF u, m, ch
<1>8. CASE t \notin registered
  BY <1>4, <1>6, <1>8 DEF Capture
<1>9. CASE t \in registered
  <2>1. v = [u EXCEPT !.lastSeq = u.lastSeq + 1, !.mirror[t][r] = m,
                      !.changes = u.changes \cup {ch}]
    BY <1>4, <1>5, <1>6, <1>7, <1>9 DEF Capture, Exists, IsDead
  <2>2. /\ v.ledger = u.ledger /\ v.source = u.source /\ v.lastSeq = u.lastSeq + 1
        /\ v.mirror = [u.mirror EXCEPT ![t][r] = m] /\ v.changes = u.changes \cup {ch}
        /\ v = [lastSeq |-> v.lastSeq, source |-> v.source, mirror |-> v.mirror,
                changes |-> v.changes, ledger |-> v.ledger]
    BY <1>4, <2>1 DEF Tables
  <2>3. /\ [u.mirror EXCEPT ![t][r] = m] \in [Table -> [Record -> MirrorRow]]
        /\ u.changes \cup {ch} \in SUBSET Change /\ u.lastSeq + 1 \in Nat
    BY <1>3, <1>4 DEF Tables
  <2>4. v \in Tables
    BY <1>4, <2>2, <2>3 DEF Tables
  <2>5. OneMore(s, v, n, ch)
    BY <1>3, <1>4, <1>7, <2>2 DEF OneMore
  <2>6. Caught(s, v, t, r, row, n, ch)
    BY <1>4, <1>7, <2>2, <2>5 DEF Caught
  <2> QED
    BY <1>4, <1>9, <2>2, <2>4, <2>6
<1> QED
  BY <1>8, <1>9

\* A change with the next revision and a later sequence number goes on counting.
LEMMA OneMoreCounts ==
  ASSUME NEW m \in MirrorRow, NEW F \in SUBSET Change, CountsUp(m, F),
         NEW new \in MirrorRow, new.revision = m.revision + 1,
         NEW ch \in Change, ch.revision = new.revision,
         \A x \in F : x.seq < ch.seq, (ch.op = "delete") = new.deleted
  PROVE  CountsUp(new, F \cup {ch})
PROOF
<1> DEFINE G == F \cup {ch}
<1>1. PICK n \in Nat : n = m.revision /\ {x.revision : x \in F} = 1 .. n
  BY DEF MirrorRow, CountsUp
<1>2. \A x \in F : x.revision \in 1 .. n
  BY <1>1
<1>3. {x.revision : x \in G} = {x.revision : x \in F} \cup {n + 1}
  BY <1>1
<1>4. {x.revision : x \in G} = 1 .. new.revision
  BY <1>1, <1>3
<1>5. \A x \in F : x.seq \in Nat /\ x.revision < ch.revision /\ x.seq < ch.seq
  BY <1>1, <1>2 DEF Change
<1>6. ch.seq \in Nat /\ ch.revision \in Nat
  BY DEF Change
<1>7. \A x, y \in G : x.seq < y.seq <=> x.revision < y.revision
  BY <1>1, <1>2, <1>5, <1>6 DEF CountsUp
<1>8. \A x \in G : x.revision = new.revision => x = ch
  BY <1>1, <1>2
<1> QED
  BY <1>4, <1>7, <1>8 DEF CountsUp

LEMMA IntervalGrows ==
  ASSUME NEW n \in Nat
  PROVE  (1 .. n) \cup {n + 1} = 1 .. (n + 1)
OBVIOUS

\* The change log of a version that caught a write.
LEMMA CaughtFeed ==
  ASSUME NEW s \in Tables, FeedOK(s), NEW v \in Tables, NEW t \in Table, NEW r \in Record,
         NEW row \in SourceRow \cup {Gone}, NEW n \in Nat, NEW ch,
         Caught(s, v, t, r, row, n, ch)
  PROVE  FeedOK(v)
PROOF
<1>1. /\ ch \in Change /\ v.changes = s.changes \cup {ch} /\ v.lastSeq = s.lastSeq + 1
      /\ ch.seq = s.lastSeq + 1 /\ ch.table = t /\ ch.record = r
      /\ ch.revision = s.mirror[t][r].revision + 1
      /\ (ch.op = "delete") = IsDead(row)
  BY DEF Caught, OneMore
<1> DEFINE m == [revision |-> ch.revision, data |-> ch.data, deleted |-> IsDead(row)]
<1>2. v.mirror = [s.mirror EXCEPT ![t][r] = m]
  BY DEF Caught
<1>3. s.lastSeq \in Nat /\ s.changes \subseteq Change
      /\ s.mirror \in [Table -> [Record -> MirrorRow]]
      /\ \A x \in s.changes : x.seq \in 1 .. s.lastSeq
  BY DEF Tables, FeedOK
<1>4. IsDead(row) \in BOOLEAN
  BY RowTyped
<1>5. m \in MirrorRow /\ m.revision = ch.revision /\ m.deleted = IsDead(row)
  BY <1>1, <1>4 DEF MirrorRow, Change
<1> HIDE DEF m
<1>6. \A u \in Table, q \in Record :
        v.mirror[u][q] = IF u = t /\ q = r THEN m ELSE s.mirror[u][q]
  BY <1>2, <1>3
<1>7. {x.seq : x \in v.changes} = 1 .. v.lastSeq
  <2>1. {x.seq : x \in v.changes} = {x.seq : x \in s.changes} \cup {s.lastSeq + 1}
    BY <1>1
  <2> QED
    BY <1>1, <1>3, <2>1, IntervalGrows DEF FeedOK
<1>8. \A x, y \in v.changes : x.seq = y.seq => x = y
  <2>1. \A x \in s.changes : x.seq # ch.seq
    BY <1>1, <1>3
  <2> QED
    BY <1>1, <2>1 DEF FeedOK
<1>9. ASSUME NEW u \in Table, NEW q \in Record
      PROVE  CountsUp(v.mirror[u][q], Feed(v, u, q))
  <2>1. /\ CountsUp(s.mirror[u][q], Feed(s, u, q)) /\ Feed(s, u, q) \in SUBSET Change
        /\ s.mirror[u][q] \in MirrorRow
    <3>1. CountsUp(s.mirror[u][q], Feed(s, u, q))
      BY DEF FeedOK
    <3> QED
      BY <1>3, <3>1 DEF Feed
  <2>2. CASE u = t /\ q = r
    <3>1. Feed(v, u, q) = Feed(s, u, q) \cup {ch}
      BY <1>1, <2>2 DEF Feed
    <3>2. \A x \in Feed(s, u, q) : x.seq < ch.seq
      BY <1>1, <1>3 DEF Feed
    <3>3. m.revision = s.mirror[u][q].revision + 1 /\ (ch.op = "delete") = m.deleted
      BY <1>1, <1>5, <2>2
    <3>4. CountsUp(m, Feed(s, u, q) \cup {ch})
      BY <1>1, <1>5, <2>1, <3>2, <3>3, OneMoreCounts
    <3> QED
      BY <1>6, <2>2, <3>1, <3>4
  <2>3. CASE ~(u = t /\ q = r)
    <3>1. Feed(v, u, q) = Feed(s, u, q)
      BY <1>1, <2>3 DEF Feed
    <3> QED
      BY <1>6, <2>1, <2>3, <3>1
  <2> QED
    BY <2>2, <2>3
<1> QED
  BY <1>7, <1>8, <1>9 DEF FeedOK

\* What a captured write has written is what its mirror shows.
LEMMA CaughtShows ==
  ASSUME NEW s \in Tables, NEW v \in Tables, NEW t \in Table, NEW r \in Record,
         NEW row \in SourceRow \cup {Gone}, NEW n \in Nat, NEW ch,
         Caught(s, v, t, r, row, n, ch), v.source[t][r] = row
  PROVE  AgreesIn(v, t, r)
PROOF
<1>1. ch.revision \in Nat /\ ch.revision > 0
  BY DEF Caught, OneMore, Change
<1>2. v.mirror[t][r] = [revision |-> ch.revision, data |-> ch.data, deleted |-> IsDead(row)]
  BY DEF Caught, Tables
<1>3. v.mirror[t][r].revision > 0 /\ v.mirror[t][r].deleted = IsDead(row)
      /\ v.mirror[t][r].data = ch.data
  BY <1>1, <1>2
<1>4. ch.data = IF IsDead(row) THEN NoData ELSE row.data
  BY DEF Caught
<1>5. row.deleted \in BOOLEAN
  BY RowTyped
<1> QED
  BY <1>3, <1>4, <1>5 DEF AgreesIn, IsDead

\* A write keeps the mirrors in step, if the rows it hides from the trigger are
\* marked as lost.
LEMMA WriteTracks ==
  ASSUME NEW s \in Tables, NEW t \in Table, NEW r \in Record,
         NEW row \in SourceRow \cup {Gone}, NEW n \in Nat,
         NEW v, v = Write(s, t, r, row, n), registered \subseteq Table,
         NEW lost, NEW new, NEW off, Tracks(s, registered, lost, off),
         \A u \in Table, q \in Record :
           Tracked(new, u, q) => Tracked(lost, u, q) \/ (u = t /\ q = r),
         \A u \in Table \ registered, q \in Record :
           <<u, q, "early">> \in lost => <<u, q, "early">> \in new,
         t \notin registered => <<t, r, "early">> \in new
  PROVE  Tracks(v, registered, new, off)
PROOF
<1>1. /\ v \in Tables /\ v.source = [s.source EXCEPT ![t][r] = row]
      /\ t \notin registered => v.mirror = s.mirror
      /\ t \in registered => \E ch : Caught(s, v, t, r, row, n, ch)
  BY WriteFields
<1>2. s.source \in [Table -> [Record -> SourceRow \cup {Gone}]]
      /\ s.mirror \in [Table -> [Record -> MirrorRow]]
  BY DEF Tables
<1>3. v.source[t][r] = row /\ \A u \in Table, q \in Record :
        ~(u = t /\ q = r) => v.source[u][q] = s.source[u][q]
  BY <1>1, <1>2
<1>4. \A u \in Table, q \in Record :
        ~(u = t /\ q = r) => v.mirror[u][q] = s.mirror[u][q]
  <2>1. CASE t \in registered
    <3>1. PICK m : v.mirror = [s.mirror EXCEPT ![t][r] = m]
      BY <1>1, <2>1 DEF Caught
    <3> QED
      BY <1>2, <3>1
  <2>2. CASE t \notin registered
    BY <1>1, <2>2
  <2> QED
    BY <2>1, <2>2
<1>5. ASSUME ~off, NEW u \in registered, NEW q \in Record, Tracked(new, u, q)
      PROVE  AgreesIn(v, u, q)
  <2>1. CASE u = t /\ q = r
    <3>1. PICK ch : Caught(s, v, t, r, row, n, ch)
      BY <1>1, <1>5, <2>1
    <3> QED
      BY <1>1, <1>3, <2>1, <3>1, CaughtShows
  <2>2. CASE ~(u = t /\ q = r)
    <3>1. u \in Table /\ AgreesIn(s, u, q)
      BY <1>5, <2>2 DEF Tracks
    <3>2. v.source[u][q] = s.source[u][q] /\ v.mirror[u][q] = s.mirror[u][q]
      BY <1>3, <1>4, <2>2, <3>1
    <3> QED
      BY <3>1, <3>2 DEF AgreesIn
  <2> QED
    BY <2>1, <2>2
<1>6. ASSUME NEW u \in Table \ registered, NEW q \in Record
      PROVE  v.mirror[u][q] = Unknown /\ (Exists(v, u, q) => <<u, q, "early">> \in new)
  <2>1. s.mirror[u][q] = Unknown /\ (Exists(s, u, q) => <<u, q, "early">> \in lost)
    BY DEF Tracks
  <2>2. CASE u = t /\ q = r
    BY <1>1, <2>1, <2>2
  <2>3. CASE ~(u = t /\ q = r)
    BY <1>3, <1>4, <2>1, <2>3 DEF Exists
  <2> QED
    BY <2>2, <2>3
<1> QED
  BY <1>5, <1>6 DEF Tracks

\* More marks never hurt.
LEMMA MarksOnlyHelp ==
  ASSUME NEW w, NEW lost, NEW new, NEW off, Tracks(w, registered, lost, off), lost \subseteq new,
         registered \subseteq Table
  PROVE  Tracks(w, registered, new, off)
BY DEF Tracks, Tracked

-----------------------------------------------------------------------------
(* Answers. *)

\* A change never lifts itself.
LEMMA HonoursStays ==
  ASSUME NEW s \in Tables, NEW v, NEW n, NEW ch, OneMore(s, v, n, ch), NEW m,
         Honours(s, m, ch)
  PROVE  Honours(v, m, ch)
PROOF
<1>1. ch.revision \in Nat /\ v.changes = s.changes \cup {ch}
  BY DEF OneMore, Change
<1>2. ~Lifts(ch, ch)
  BY <1>1 DEF Lifts
<1> QED
  BY <1>1, <1>2 DEF Honours

\* One more change of a later mutation leaves the earlier answers true.
LEMMA AnswersStay ==
  ASSUME NEW s \in Tables, FeedOK(s), LedgerOK(s), NEW v, NEW n \in Nat,
         NEW ch, ch.table \in Table, ch.record \in Record,
         OneMore(s, v, n, ch), n \notin 1 .. Len(s.ledger),
         \A k \in 1 .. Len(s.ledger) : v.ledger[k] = s.ledger[k]
  PROVE  \A k \in 1 .. Len(s.ledger) : SettledOK(v, k)
PROOF
<1> SUFFICES ASSUME NEW k \in 1 .. Len(s.ledger) PROVE SettledOK(v, k)
  OBVIOUS
<1>1. /\ ch \in Change /\ v.changes = s.changes \cup {ch} /\ v.lastSeq = s.lastSeq + 1
      /\ ch.mutation = n
      /\ ch.revision = s.mirror[ch.table][ch.record].revision + 1
  BY DEF OneMore
<1>2. s.lastSeq \in Nat /\ s.changes \subseteq Change /\ s.ledger \in Seq(Outcome)
      /\ s.mirror \in [Table -> [Record -> MirrorRow]]
  BY DEF Tables
<1>3. SettledOK(s, k) /\ Len(s.ledger) \in Nat
  BY <1>2 DEF LedgerOK
<1>4. EffectsOf(v, k) = EffectsOf(s, k)
  BY <1>1 DEF EffectsOf
<1>5. s.ledger[k] \in Outcome /\ s.ledger[k].checkpoint \in Nat
  <2>1. s.ledger[k] \in Outcome
    BY <1>2
  <2> QED
    BY <2>1 DEF Outcome
<1>6. v.ledger[k].checkpoint <= v.lastSeq
  BY <1>1, <1>2, <1>3, <1>5 DEF SettledOK
<1>7. AnswerOK(v, k)
  <2>1. \A j \in 1 .. k - 1 : v.ledger[j] = s.ledger[j]
    BY <1>3
  <2> QED
    BY <1>3, <1>4, <2>1 DEF SettledOK, AnswerOK
<1>8. ASSUME NEW x \in EffectsOf(v, k) PROVE Honours(v, v.ledger[k].request, x)
  <2>1. x \in s.changes /\ x \in Change /\ Honours(s, s.ledger[k].request, x)
    BY <1>2, <1>3, <1>4, <1>8 DEF SettledOK, EffectsOf
  <2>2. ~Lifts(x, ch)
    <3> SUFFICES ASSUME ch.table = x.table, ch.record = x.record,
                        ch.revision + 1 = x.revision
                 PROVE  FALSE
      BY DEF Lifts
    <3>1. x \in Feed(s, ch.table, ch.record)
      BY <2>1 DEF Feed
    <3>2. CountsUp(s.mirror[ch.table][ch.record], Feed(s, ch.table, ch.record))
      BY DEF FeedOK
    <3>3. x.revision \in 1 .. s.mirror[ch.table][ch.record].revision
      BY <3>1, <3>2 DEF CountsUp
    <3>4. s.mirror[ch.table][ch.record].revision \in Nat
      BY <1>2 DEF MirrorRow
    <3> QED
      BY <1>1, <3>3, <3>4
  <2> QED
    BY <1>1, <2>1, <2>2 DEF Honours
<1> QED
  BY <1>6, <1>7, <1>8 DEF SettledOK

\* The answer to a mutation that left nothing, or its one change, behind.
LEMMA AnswerSettles ==
  ASSUME NEW s \in Tables, FeedOK(s), LedgerOK(s), NEW w \in Tables,
         NEW e \in Outcome, Attempted(s, w, e.request), e.checkpoint = w.lastSeq,
         e.status = "rejected" => w.lastSeq = s.lastSeq,
         e.status = "applied" /\ ~e.noOp => w.lastSeq > s.lastSeq,
         NEW v, v = [w EXCEPT !.ledger = Append(w.ledger, e)]
  PROVE  /\ v \in Tables /\ LedgerOK(v)
         /\ v.changes = w.changes /\ v.lastSeq = w.lastSeq
         /\ v.source = w.source /\ v.mirror = w.mirror
PROOF
<1>1. /\ s.lastSeq \in Nat /\ w.lastSeq \in Nat /\ s.changes \subseteq Change
      /\ s.ledger \in Seq(Outcome) /\ w.ledger = s.ledger
  BY DEF Tables, Attempted
<1>2. PICK n \in Nat : n = Len(s.ledger)
  BY <1>1
<1>3. PICK l : l = Append(s.ledger, e)
  OBVIOUS
<1>4. /\ l \in Seq(Outcome) /\ Len(l) = n + 1 /\ l[n + 1] = e
      /\ \A k \in 1 .. n : l[k] = s.ledger[k]
  BY <1>1, <1>2, <1>3
<1>5. /\ v \in Tables /\ v.ledger = l
      /\ v.changes = w.changes /\ v.lastSeq = w.lastSeq
      /\ v.source = w.source /\ v.mirror = w.mirror
  BY <1>1, <1>3, <1>4 DEF Tables
<1>6. /\ \A x \in s.changes : x.mutation \in Nat /\ x.mutation <= n
      /\ \A k \in 1 .. n : SettledOK(s, k)
  BY <1>1, <1>2 DEF LedgerOK, Change
<1>7. \A k \in 1 .. n : s.ledger[k].checkpoint \in Nat /\ s.ledger[k].checkpoint <= s.lastSeq
  <2>1. \A k \in 1 .. n : s.ledger[k] \in Outcome
    BY <1>1, <1>2
  <2> QED
    BY <1>6, <2>1 DEF SettledOK, Outcome
<1>8. CASE w.changes = s.changes /\ w.lastSeq = s.lastSeq
  <2>1. \A x \in v.changes : x.mutation <= n + 1
    BY <1>5, <1>6, <1>8
  <2>2. EffectsOf(v, n + 1) = {}
    BY <1>5, <1>6, <1>8 DEF EffectsOf
  <2>3. SettledOK(v, n + 1)
    <3>1. v.ledger[n + 1] = e /\ e.checkpoint <= v.lastSeq
      BY <1>1, <1>4, <1>5
    <3>2. ~(e.status = "applied" /\ ~e.noOp)
      BY <1>1, <1>8
    <3>3. AnswerOK(v, n + 1)
      BY <2>2, <3>1, <3>2 DEF AnswerOK
    <3> QED
      BY <2>2, <3>1, <3>3 DEF SettledOK
  <2>4. ASSUME NEW k \in 1 .. n PROVE SettledOK(v, k)
    <3>1. \A j \in 1 .. k - 1 : v.ledger[j] = s.ledger[j]
      BY <1>4, <1>5
    <3>2. v.ledger[k] = s.ledger[k] /\ EffectsOf(v, k) = EffectsOf(s, k)
      BY <1>4, <1>5, <1>8 DEF EffectsOf
    <3>3. AnswerOK(v, k)
      BY <1>6, <3>1, <3>2 DEF SettledOK, AnswerOK
    <3> QED
      <4>1. SettledOK(s, k) /\ v.changes = s.changes /\ v.lastSeq = s.lastSeq
        BY <1>5, <1>6, <1>8
      <4>2. \A m, x : Honours(s, m, x) => Honours(v, m, x)
        BY <4>1 DEF Honours
      <4> QED
        BY <3>2, <3>3, <4>1, <4>2 DEF SettledOK
  <2>5. \A k \in 1 .. n + 1 : SettledOK(v, k)
    BY ONLY <2>3, <2>4, n \in Nat
  <2> QED
    BY <1>4, <1>5, <2>1, <2>5 DEF LedgerOK
<1>9. CASE ~(w.changes = s.changes /\ w.lastSeq = s.lastSeq)
  <2>1. PICK ch : OneMore(s, w, n + 1, ch) /\ Honours(s, e.request, ch)
    BY <1>2, <1>9 DEF Attempted
  <2>2. /\ ch \in Change /\ w.changes = s.changes \cup {ch} /\ w.lastSeq = s.lastSeq + 1
        /\ ch.seq = s.lastSeq + 1 /\ ch.mutation = n + 1
    BY <2>1 DEF OneMore
  <2>3. OneMore(s, v, n + 1, ch)
    BY <1>5, <2>1 DEF OneMore
  <2>4. \A x \in v.changes : x.mutation <= n + 1
    BY <1>5, <1>6, <2>2
  <2>5. EffectsOf(v, n + 1) = {ch}
    BY <1>5, <1>6, <2>2 DEF EffectsOf
  <2>6. e.status # "rejected"
    BY <1>1, <2>2
  <2>7. AnswerOK(v, n + 1)
    <3>1. v.ledger[n + 1] = e /\ \A k \in 1 .. n : v.ledger[k] = s.ledger[k]
      BY <1>4, <1>5
    <3>2. \A k \in 1 .. n : ch.seq > s.ledger[k].checkpoint
      BY <1>1, <1>7, <2>2
    <3>3. ch.seq <= e.checkpoint
      BY <1>1, <2>2
    <3>4. \A k \in 1 .. (n + 1) - 1 : k \in 1 .. n
      OBVIOUS
    <3> QED
      BY <2>5, <2>6, <3>1, <3>2, <3>3, <3>4 DEF AnswerOK
  <2>8. Honours(v, e.request, ch)
    BY <2>1, <2>3, HonoursStays
  <2>9. SettledOK(v, n + 1)
    <3>1. v.ledger[n + 1] = e /\ e.checkpoint <= v.lastSeq
      BY <1>1, <1>4, <1>5
    <3> QED
      BY <2>5, <2>7, <2>8, <3>1 DEF SettledOK
  <2>10. \A k \in 1 .. n : SettledOK(v, k)
    <3>1. ch.table \in Table /\ ch.record \in Record
      BY <2>2 DEF Change
    <3>2. n + 1 \notin 1 .. Len(s.ledger) /\ n + 1 \in Nat
      BY <1>2
    <3>3. \A k \in 1 .. Len(s.ledger) : v.ledger[k] = s.ledger[k]
      BY <1>2, <1>4, <1>5
    <3> QED
      BY <1>2, <2>3, <3>1, <3>2, <3>3, AnswersStay
  <2>11. \A k \in 1 .. n + 1 : SettledOK(v, k)
    BY ONLY <2>9, <2>10, n \in Nat
  <2> QED
    BY <1>4, <1>5, <2>4, <2>11 DEF LedgerOK
<1> QED
  BY <1>5, <1>8, <1>9

-----------------------------------------------------------------------------
(* The JSONB handler. *)

\* What the handler writes, and that it is a tombstone just for a delete.
LEMMA JsonbRow ==
  ASSUME NEW w \in Tables, NEW m \in Mutation, m.table \in Table,
         m.op = "upsert" => m.data \in Data, NEW n \in Nat,
         ~Disagree(w, m), ~JsonbRejects(w, m), ~IsNoOp(w, m)
  PROVE  \E row \in SourceRow \cup {Gone} :
           /\ JsonbWrite(w, m, n) = Write(w, m.table, m.record, row, n)
           /\ IsDead(row) = (m.op = "delete")
PROOF
<1> DEFINE t == m.table
           r == m.record
           old == w.source[t][r]
<1>1. r \in Record /\ m.op \in {"upsert", "delete"} /\ w.mirror[t][r] \in MirrorRow
      /\ old \in SourceRow \cup {Gone}
  BY DEF Mutation, Tables
<1>2. CASE m.op = "delete"
  <2>1. Exists(w, t, r)
    BY <1>1, <1>2 DEF Disagree, JsonbRejects, IsNoOp, Known, Dead, MirrorRow, Exists
  <2>2. old \in SourceRow
    BY <1>1, <2>1 DEF Exists
  <2> DEFINE row == IF t \in SoftDelete THEN [old EXCEPT !.deleted = TRUE] ELSE Gone
  <2>3. row \in SourceRow \cup {Gone} /\ IsDead(row)
    BY <2>2 DEF SourceRow, IsDead
  <2>4. JsonbWrite(w, m, n) = Write(w, t, r, row, n)
    BY <1>2 DEF JsonbWrite, Remove
  <2> HIDE DEF row
  <2> QED
    BY <1>2, <2>3, <2>4 DEF IsDead
<1>3. ASSUME NEW d \in Data
      PROVE  /\ [data |-> d, deleted |-> FALSE] \in SourceRow
             /\ IsDead([data |-> d, deleted |-> FALSE]) = FALSE
  <2>1. [data |-> d, deleted |-> FALSE] # Gone
    <3>1. [data |-> d, deleted |-> FALSE].data = d /\ Gone.data = NoData
      BY DEF Gone
    <3> QED
      BY <3>1, TablesAssumption
  <2> QED
    BY <2>1 DEF SourceRow, IsDead
<1>4. CASE m.op # "delete"
  <2>1. m.data \in Data
    BY <1>1, <1>4
  <2>2. CASE Exists(w, t, r)
    <3>1. old.data \in Data
      BY <1>1, <2>2, RowTyped DEF Exists
    <3>2. Merge(old.data, m.data) \in Data
      BY <2>1, <3>1, MergeAssumption
    <3>3. JsonbWrite(w, m, n) =
            Write(w, t, r, [data |-> Merge(old.data, m.data), deleted |-> FALSE], n)
      BY <1>4, <2>2 DEF JsonbWrite, Put
    <3> QED
      BY <1>3, <1>4, <3>2, <3>3
  <2>3. CASE ~Exists(w, t, r)
    <3>1. JsonbWrite(w, m, n) = Write(w, t, r, [data |-> m.data, deleted |-> FALSE], n)
      BY <1>4, <2>3 DEF JsonbWrite, Put
    <3> QED
      BY <1>3, <1>4, <2>1, <3>1
  <2> QED
    BY <2>2, <2>3
<1> QED
  BY <1>2, <1>4

\* The change it captures honours the revision the mutation names.
LEMMA JsonbHonours ==
  ASSUME NEW w \in Tables, FeedOK(w), NEW m \in Mutation, m.table \in Table,
         NEW n \in Nat, ~JsonbRejects(w, m),
         NEW row \in SourceRow \cup {Gone}, IsDead(row) = (m.op = "delete"),
         NEW v, NEW ch, Caught(w, v, m.table, m.record, row, n, ch)
  PROVE  Honours(w, m, ch)
PROOF
<1> DEFINE t == m.table
           r == m.record
           old == w.mirror[t][r]
<1>1. /\ r \in Record /\ m.op \in {"upsert", "delete"} /\ m.base \in Nat \cup {NoBase}
      /\ m.resurrect \in BOOLEAN
  BY DEF Mutation
<1>2. old.revision \in Nat /\ old.deleted \in BOOLEAN
  <2>1. old \in MirrorRow
    BY <1>1 DEF Tables
  <2> QED
    BY <2>1 DEF MirrorRow
<1>3. /\ ch \in Change /\ ch.revision = old.revision + 1 /\ ch.table = t /\ ch.record = r
      /\ (ch.op = "delete") = (m.op = "delete")
  BY DEF Caught, OneMore
<1>4. ASSUME m.base # NoBase PROVE m.base = old.revision
  <2>1. CASE Known(w, m)
    BY <1>4, <2>1 DEF JsonbRejects, Stale
  <2>2. CASE ~Known(w, m)
    <3>1. old.revision = 0 /\ m.base = 0
      BY <1>2, <1>4, <2>2 DEF JsonbRejects, Known
    <3> QED
      BY <3>1
  <2> QED
    BY <2>1, <2>2
<1>5. ASSUME NEW x \in w.changes, Lifts(ch, x) PROVE m.resurrect /\ m.base = x.revision
  <2>1. x \in Change /\ x \in Feed(w, t, r) /\ x.revision + 1 = ch.revision
        /\ x.op = "delete" /\ m.op = "upsert"
    BY <1>1, <1>3, <1>5 DEF Lifts, Feed, Tables
  <2>2. x.revision = old.revision
    BY <1>2, <1>3, <2>1 DEF Change
  <2>3. old.deleted
    <3>1. CountsUp(old, Feed(w, t, r))
      BY <1>1 DEF FeedOK
    <3> QED
      BY <1>2, <2>1, <2>2, <3>1 DEF CountsUp
  <2>4. m.resurrect /\ m.base # NoBase
    BY <2>1, <2>3 DEF JsonbRejects, Dead
  <2> QED
    BY <1>4, <2>2, <2>4
<1> QED
  BY <1>3, <1>4, <1>5 DEF Honours

\* A table that is not registered is written by no JSONB handler to the end.
LEMMA JsonbDecides ==
  ASSUME NEW w \in Tables, FeedOK(w), NEW lost, NEW off, Tracks(w, registered, lost, off),
         registered \subseteq Table,
         NEW m \in Mutation, m.table \in Table, m.op = "upsert" => m.data \in Data,
         ~Disagree(w, m), ~JsonbRejects(w, m), ~IsNoOp(w, m),
         NEW v, v = JsonbWrite(w, m, Len(w.ledger) + 1), ~Uncaptured(v, m)
  PROVE  v \in Tables /\ FeedOK(v) /\ Tracks(v, registered, lost, off) /\ Attempted(w, v, m)
PROOF
<1> DEFINE t == m.table
           r == m.record
<1>1. PICK n \in Nat : n = Len(w.ledger) + 1
  BY DEF Tables
<1>2. PICK row \in SourceRow \cup {Gone} :
        v = Write(w, t, r, row, n) /\ IsDead(row) = (m.op = "delete")
  BY <1>1, JsonbRow
<1>3. r \in Record
  BY DEF Mutation
<1>4. /\ v \in Tables /\ v.ledger = w.ledger
      /\ t \notin registered => v.mirror = w.mirror
      /\ t \in registered => \E ch : Caught(w, v, t, r, row, n, ch)
  <2>1. t \in Table /\ v = Write(w, t, r, row, n)
    BY <1>2
  <2> HIDE DEF t, r
  <2>2. /\ v \in Tables /\ v.ledger = w.ledger
        /\ v.source = [w.source EXCEPT ![t][r] = row]
        /\ t \notin registered =>
             v.changes = w.changes /\ v.mirror = w.mirror /\ v.lastSeq = w.lastSeq
        /\ t \in registered => \E ch : Caught(w, v, t, r, row, n, ch)
    BY <1>3, <2>1, WriteFields
  <2> QED
    BY <2>2
<1>5. t \in registered
  <2> SUFFICES ASSUME t \notin registered PROVE FALSE
    OBVIOUS
  <2>1. v.mirror[t][r] = Unknown
    BY <1>3, <1>4 DEF Tracks
  <2>2. Unknown.revision = 0
    BY DEF Unknown
  <2> QED
    BY <2>1, <2>2 DEF Uncaptured, Known
<1>6. PICK ch : Caught(w, v, t, r, row, n, ch)
  BY <1>4, <1>5
<1>7. FeedOK(v)
  BY <1>3, <1>4, <1>6, CaughtFeed
<1>8. Tracks(v, registered, lost, off)
  BY <1>2, <1>3, <1>5, WriteTracks
<1>9. Honours(w, m, ch)
  BY <1>2, <1>6, JsonbHonours
<1>10. OneMore(w, v, Len(w.ledger) + 1, ch)
  BY <1>1, <1>6 DEF Caught
<1> QED
  BY <1>4, <1>7, <1>8, <1>9, <1>10 DEF Attempted

-----------------------------------------------------------------------------
(* The steps. *)

LEMMA CurrentTyped ==
  ASSUME HandlersSafe, todo # <<>>
  PROVE  Current \in Mutation /\ (Current.op = "upsert" => Current.data \in Data)
PROOF
<1>1. todo \in Seq(Mutation) /\ \A i \in DOMAIN todo : todo[i].op = "upsert" => todo[i].data \in Data
  BY DEF HandlersSafe
<1>2. 1 \in DOMAIN todo /\ Head(todo) = todo[1] /\ todo[1] \in Mutation
  BY <1>1
<1> QED
  BY <1>1, <1>2 DEF Current

\* A step inside a push.
LEMMA InPush ==
  ASSUME HandlersSafe, UNCHANGED <<db, registered, resetting>>,
         untracked \subseteq untracked',
         untracked' \subseteq Table \X Record \X {"early", "rekey", "reset"},
         work' \in Tables, FeedOK(work'), Tracks(work', registered, untracked', resetting),
         saved' \in Tables, FeedOK(saved'), Tracks(saved', registered, untracked', resetting),
         LedgerOK(saved'),
         phase' \in {"loop", "handling", "decided", "failed"},
         phase' = "loop" => LedgerOK(work'),
         phase' \in {"handling", "decided"} =>
           todo' # <<>> /\ Attempted(saved', work', Head(todo')),
         phase' = "handling" /\ Head(todo').table \in Table => work' = saved',
         todo' \in Seq(Mutation),
         \A i \in DOMAIN todo' : todo'[i].op = "upsert" => todo'[i].data \in Data,
         decision' \in [status : {"none", "applied", "rejected"}, noOp : BOOLEAN]
  PROVE  HandlersSafe'
PROOF
<1>1. VersionOK(db)'
  <2>1. db \in Tables /\ FeedOK(db) /\ Tracks(db, registered, untracked, resetting)
        /\ registered \subseteq Table
    BY DEF HandlersSafe, VersionOK
  <2>2. Tracks(db, registered, untracked', resetting)
    BY <2>1, MarksOnlyHelp
  <2> QED
    BY <2>1, <2>2 DEF VersionOK
<1>2. VersionOK(work)' /\ VersionOK(saved)'
  BY DEF VersionOK
<1>3. LedgerOK(db)' /\ LedgerOK(saved)'
  BY DEF HandlersSafe
<1> QED
  BY <1>1, <1>2, <1>3 DEF HandlersSafe, Current

\* The end of a push, and every direct write and reset.
LEMMA EndSafe ==
  ASSUME HandlersSafe, NEW w \in Tables, FeedOK(w), LedgerOK(w), End(w),
         registered' = registered, resetting' \in BOOLEAN,
         resetting' => registered = Table,
         untracked' \subseteq Table \X Record \X {"early", "rekey", "reset"},
         Tracks(w, registered, untracked', resetting')
  PROVE  HandlersSafe'
PROOF
<1>1. /\ db' = w /\ work' = w /\ saved' = w /\ phase' = "idle" /\ todo' = <<>>
      /\ decision' = [status |-> "none", noOp |-> FALSE]
  BY DEF End, Undecided
<1>2. VersionOK(db)' /\ VersionOK(work)' /\ VersionOK(saved)'
  BY <1>1 DEF VersionOK
<1>3. LedgerOK(db)' /\ LedgerOK(saved)'
  BY <1>1
<1>4. <<>> \in Seq(Mutation) /\ DOMAIN <<>> = {}
  OBVIOUS
<1>5. registered \subseteq Table
  BY DEF HandlersSafe
<1> QED
  BY <1>1, <1>2, <1>3, <1>4, <1>5 DEF HandlersSafe

LEMMA Versions ==
  ASSUME HandlersSafe
  PROVE  /\ db \in Tables /\ FeedOK(db) /\ Tracks(db, registered, untracked, resetting)
         /\ work \in Tables /\ FeedOK(work) /\ Tracks(work, registered, untracked, resetting)
         /\ saved \in Tables /\ FeedOK(saved) /\ Tracks(saved, registered, untracked, resetting)
         /\ LedgerOK(db) /\ LedgerOK(saved)
         /\ registered \subseteq Table /\ resetting \in BOOLEAN
         /\ untracked \subseteq Table \X Record \X {"early", "rekey", "reset"}
BY DEF HandlersSafe, VersionOK

LEMMA Queued ==
  ASSUME HandlersSafe
  PROVE  /\ todo \in Seq(Mutation)
         /\ \A i \in DOMAIN todo : todo[i].op = "upsert" => todo[i].data \in Data
         /\ decision \in [status : {"none", "applied", "rejected"}, noOp : BOOLEAN]
BY DEF HandlersSafe

LEMMA BeginPushSafe ==
  ASSUME HandlersSafe, NEW batch \in Seq(Mutation), BeginPush(batch),
         \A i \in DOMAIN batch : batch[i].op = "upsert" => batch[i].data \in Data
  PROVE  HandlersSafe'
PROOF
<1>1. /\ phase' = "loop" /\ work' = db /\ todo' = batch /\ saved' = saved
      /\ decision' = decision /\ db' = db
      /\ registered' = registered /\ resetting' = resetting /\ untracked' = untracked
  BY DEF BeginPush, setup
<1> QED
  BY <1>1, Versions, Queued, InPush

LEMMA DispatchSafe ==
  ASSUME HandlersSafe, Dispatch
  PROVE  HandlersSafe'
PROOF
<1>1. /\ phase = "loop" /\ todo # <<>> /\ saved' = work /\ phase' = "handling"
      /\ work' = work /\ todo' = todo /\ decision' = decision /\ db' = db
      /\ registered' = registered /\ resetting' = resetting /\ untracked' = untracked
  BY DEF Dispatch, setup
<1>2. LedgerOK(work)
  BY <1>1 DEF HandlersSafe
<1>3. Attempted(work, work, Head(todo))
  BY DEF Attempted
<1> QED
  BY <1>1, <1>2, <1>3, Versions, Queued, InPush

LEMMA ThrowSafe ==
  ASSUME HandlersSafe, Throw
  PROVE  HandlersSafe'
PROOF
<1>1. /\ work' = saved /\ phase' = "failed" /\ saved' = saved
      /\ todo' = todo /\ decision' = decision /\ db' = db
      /\ registered' = registered /\ resetting' = resetting /\ untracked' = untracked
  BY DEF Throw, setup
<1> QED
  BY <1>1, Versions, Queued, InPush

LEMMA DecideSafe ==
  ASSUME HandlersSafe, todo # <<>>, NEW w \in Tables, FeedOK(w),
         Tracks(w, registered, untracked, resetting), Attempted(saved, w, Current),
         NEW status \in {"applied", "rejected"}, NEW noOp \in BOOLEAN,
         Decide(w, status, noOp)
  PROVE  HandlersSafe'
PROOF
<1>1. /\ work' = w /\ phase' = "decided" /\ saved' = saved /\ todo' = todo
      /\ decision' = [status |-> status, noOp |-> noOp] /\ db' = db
      /\ registered' = registered /\ resetting' = resetting /\ untracked' = untracked
  BY DEF Decide, setup
<1>2. Attempted(saved', work', Head(todo'))
  BY <1>1 DEF Current
<1>3. decision' \in [status : {"none", "applied", "rejected"}, noOp : BOOLEAN]
  BY <1>1
<1> QED
  BY <1>1, <1>2, <1>3, Versions, Queued, InPush

\* The handlers of this module and the decisions of any other.
LEMMA HandlerSafe ==
  ASSUME HandlersSafe,
         \/ JsonbReject \/ JsonbNoOp \/ JsonbApply \/ JsonbThrow \/ AppThrow
         \/ \E status \in {"applied", "rejected"}, noOp \in BOOLEAN : AppDecide(status, noOp)
  PROVE  HandlersSafe'
PROOF
<1>1. phase = "handling"
  BY DEF JsonbReject, JsonbNoOp, JsonbApply, JsonbThrow, AppThrow, AppDecide, Handling
<1>2. /\ todo # <<>> /\ Attempted(saved, work, Current)
      /\ Current.table \in Table => work = saved
  BY <1>1 DEF HandlersSafe
<1>3. Current \in Mutation /\ (Current.op = "upsert" => Current.data \in Data)
  BY <1>2, CurrentTyped
<1>4. CASE JsonbReject
  BY <1>2, <1>4, Versions, DecideSafe DEF JsonbReject
<1>5. CASE JsonbNoOp
  BY <1>2, <1>5, Versions, DecideSafe DEF JsonbNoOp
<1>6. CASE JsonbThrow \/ AppThrow
  BY <1>6, ThrowSafe DEF JsonbThrow, AppThrow
<1>7. CASE \E status \in {"applied", "rejected"}, noOp \in BOOLEAN : AppDecide(status, noOp)
  BY <1>2, <1>7, Versions, DecideSafe DEF AppDecide
<1>8. CASE JsonbApply
  <2>1. PICK v : v = JsonbWrite(work, Current, Mutations(work))
    OBVIOUS
  <2>2. /\ Current.table \in Table /\ ~Disagree(work, Current)
        /\ ~JsonbRejects(work, Current) /\ ~IsNoOp(work, Current)
        /\ IF Uncaptured(v, Current) THEN Throw ELSE Decide(v, "applied", FALSE)
    BY <1>8, <2>1 DEF JsonbApply
  <2>3. CASE Uncaptured(v, Current)
    BY <2>2, <2>3, ThrowSafe
  <2>4. CASE ~Uncaptured(v, Current)
    <3>1. v = JsonbWrite(work, Current, Len(work.ledger) + 1)
      BY <2>1 DEF Mutations
    <3> DEFINE m == Current
    <3> HIDE DEF m
    <3>2. m \in Mutation /\ m.table \in Table /\ (m.op = "upsert" => m.data \in Data)
          /\ ~Disagree(work, m) /\ ~JsonbRejects(work, m) /\ ~IsNoOp(work, m)
          /\ v = JsonbWrite(work, m, Len(work.ledger) + 1) /\ ~Uncaptured(v, m)
      BY <1>3, <2>2, <2>4, <3>1 DEF m
    <3>3. /\ work \in Tables /\ FeedOK(work) /\ registered \subseteq Table
          /\ Tracks(work, registered, untracked, resetting)
      BY Versions
    <3>4. v \in Tables /\ FeedOK(v) /\ Tracks(v, registered, untracked, resetting)
          /\ Attempted(work, v, m)
      BY <3>2, <3>3, JsonbDecides
    <3>5. Attempted(saved, v, Current)
      BY <1>2, <2>2, <3>4 DEF m
    <3> QED
      BY <1>2, <2>2, <2>4, <3>4, <3>5, DecideSafe
  <2> QED
    BY <2>3, <2>4
<1> QED
  BY <1>4, <1>5, <1>6, <1>7, <1>8

\* A version whose change log and mirrors another one shares.
LEMMA SameFeed ==
  ASSUME NEW s, FeedOK(s), NEW v, v.changes = s.changes, v.lastSeq = s.lastSeq,
         v.mirror = s.mirror
  PROVE  FeedOK(v)
BY DEF FeedOK, Feed

LEMMA SameLedger ==
  ASSUME NEW s, LedgerOK(s), NEW v, v.changes = s.changes, v.lastSeq = s.lastSeq,
         v.ledger = s.ledger
  PROVE  LedgerOK(v)
PROOF
<1>1. \A k : EffectsOf(v, k) = EffectsOf(s, k)
  BY DEF EffectsOf
<1>2. \A k : AnswerOK(s, k) => AnswerOK(v, k)
  BY <1>1 DEF AnswerOK
<1>3. \A m, ch : Honours(s, m, ch) => Honours(v, m, ch)
  BY DEF Honours
<1>4. \A k : SettledOK(s, k) => SettledOK(v, k)
  BY <1>1, <1>2, <1>3 DEF SettledOK
<1> QED
  BY <1>4 DEF LedgerOK

LEMMA PayloadRow ==
  ASSUME NEW d \in DirectData
  PROVE  [data |-> d, deleted |-> FALSE] \in SourceRow \cup {Gone}
BY TablesAssumption DEF SourceRow

\* An application handler writes one captured change or is stopped.
LEMMA AppWriteSafe ==
  ASSUME HandlersSafe, NEW t \in Table, NEW r \in WrittenBy, NEW d \in DirectData,
         AppWrite(t, r, d)
  PROVE  HandlersSafe'
PROOF
<1>1. phase = "handling" /\ Current.table = App
  BY DEF AppWrite, Handling
<1>2. todo # <<>> /\ Attempted(saved, work, Current)
  BY <1>1 DEF HandlersSafe
<1>3. CASE SecondChange(Mutations(work))
  BY <1>3, ThrowSafe DEF AppWrite
<1>4. CASE ~SecondChange(Mutations(work))
  <2>1. PICK n \in Nat : n = Len(work.ledger) + 1
    BY Versions DEF Tables
  <2>2. PICK row \in SourceRow \cup {Gone} : row = [data |-> d, deleted |-> FALSE]
    BY PayloadRow
  <2>3. PICK v : v = Write(work, t, r, row, n)
    OBVIOUS
  <2>4. PICK new : new = untracked \cup (IF t \in registered THEN {} ELSE {<<t, r, "early">>})
    OBVIOUS
  <2>5. /\ work' = v /\ untracked' = new
        /\ db' = db /\ saved' = saved /\ phase' = phase /\ todo' = todo
        /\ decision' = decision /\ registered' = registered /\ resetting' = resetting
    BY <1>4, <2>1, <2>2, <2>3, <2>4 DEF AppWrite, Mutations, Put
  <2>6. r \in Record
    BY TablesAssumption
  <2>7. /\ work.ledger = saved.ledger /\ work.changes = saved.changes
        /\ work.lastSeq = saved.lastSeq /\ work.mirror = saved.mirror
    <3>1. \A ch \in work.changes : ch.mutation # n
      BY <1>4, <2>1 DEF SecondChange, Mutations
    <3>2. ~\E ch : OneMore(saved, work, Len(saved.ledger) + 1, ch)
      BY <1>2, <2>1, <3>1 DEF Attempted, OneMore
    <3> QED
      BY <1>2, <3>2 DEF Attempted
  <2>8. /\ v \in Tables /\ v.ledger = work.ledger
        /\ t \notin registered =>
             v.changes = work.changes /\ v.mirror = work.mirror /\ v.lastSeq = work.lastSeq
        /\ t \in registered => \E ch : Caught(work, v, t, r, row, n, ch)
    <3>1. work \in Tables
      BY Versions
    <3>2. /\ v \in Tables /\ v.ledger = work.ledger
          /\ v.source = [work.source EXCEPT ![t][r] = row]
          /\ t \notin registered =>
               v.changes = work.changes /\ v.mirror = work.mirror /\ v.lastSeq = work.lastSeq
          /\ t \in registered => \E ch : Caught(work, v, t, r, row, n, ch)
      BY <2>3, <2>6, <3>1, WriteFields
    <3> QED
      BY <3>2
  <2>9. FeedOK(v) /\ Attempted(saved, v, Current)
    <3>1. CASE t \in registered
      <4>1. PICK ch : Caught(work, v, t, r, row, n, ch)
        BY <2>8, <3>1
      <4>2. FeedOK(v)
        BY <2>6, <2>8, <4>1, Versions, CaughtFeed
      <4>3. OneMore(saved, v, Len(saved.ledger) + 1, ch)
        BY <2>1, <2>7, <4>1 DEF Caught, OneMore
      <4>4. Honours(saved, Current, ch)
        BY <1>1, HandlerAssumption DEF Honours
      <4> QED
        BY <2>7, <2>8, <4>2, <4>3, <4>4 DEF Attempted
    <3>2. CASE t \notin registered
      BY <2>7, <2>8, <3>2, Versions, SameFeed DEF Attempted
    <3> QED
      BY <3>1, <3>2
  <2>10. untracked \subseteq new /\ new \subseteq Table \X Record \X {"early", "rekey", "reset"}
    BY <2>4, <2>6, Versions
  <2>11. Tracks(v, registered, new, resetting)
    <3>1. \A u \in Table, q \in Record : Tracked(new, u, q) => Tracked(untracked, u, q)
      BY <2>10 DEF Tracked
    <3>2. t \notin registered => <<t, r, "early">> \in new
      BY <2>4
    <3> QED
      BY <2>3, <2>6, <2>10, <3>1, <3>2, Versions, WriteTracks
  <2>12. Tracks(saved, registered, new, resetting)
    BY <2>10, Versions, MarksOnlyHelp
  <2>13. App \notin Table /\ Head(todo').table = App
    BY <1>1, <2>5, HandlerAssumption DEF Current
  <2>14. Attempted(saved', work', Head(todo'))
    BY <2>5, <2>9 DEF Current
  <2> QED
    BY <1>1, <1>2, <2>5, <2>8, <2>9, <2>10, <2>11, <2>12, <2>13, <2>14,
       Versions, Queued, InPush
<1> QED
  BY <1>3, <1>4

\* The answer to the mutation, and on to the next one.
LEMMA SettleSafe ==
  ASSUME HandlersSafe, todo # <<>>, NEW w \in Tables, FeedOK(w),
         Tracks(w, registered, untracked, resetting), Attempted(saved, w, Current),
         decision.status \in {"applied", "rejected"},
         decision.status = "rejected" => w.lastSeq = saved.lastSeq,
         decision.status = "applied" /\ ~decision.noOp => w.lastSeq > saved.lastSeq,
         Settle(w, decision)
  PROVE  HandlersSafe'
PROOF
<1>1. PICK e : e = [request |-> Current, status |-> decision.status,
                    noOp |-> decision.noOp, checkpoint |-> w.lastSeq]
  OBVIOUS
<1>2. decision.noOp \in BOOLEAN /\ w.lastSeq \in Nat /\ Current \in Mutation
  BY Queued, CurrentTyped DEF Tables
<1>3. e \in Outcome
  BY <1>1, <1>2 DEF Outcome
<1>4. PICK v : v = [w EXCEPT !.ledger = Append(w.ledger, e)]
  OBVIOUS
<1>5. /\ work' = v /\ todo' = Tail(todo) /\ phase' = "loop"
      /\ decision' = [status |-> "none", noOp |-> FALSE]
      /\ saved' = saved /\ db' = db
      /\ registered' = registered /\ resetting' = resetting /\ untracked' = untracked
  BY <1>1, <1>4 DEF Settle, setup, Undecided
<1>6. /\ e.request = Current /\ e.status = decision.status /\ e.noOp = decision.noOp
      /\ e.checkpoint = w.lastSeq
  BY <1>1
<1>7. /\ Attempted(saved, w, e.request) /\ e.checkpoint = w.lastSeq
      /\ e.status = "rejected" => w.lastSeq = saved.lastSeq
      /\ e.status = "applied" /\ ~e.noOp => w.lastSeq > saved.lastSeq
  BY <1>6
<1>8. /\ v \in Tables /\ LedgerOK(v)
      /\ v.changes = w.changes /\ v.lastSeq = w.lastSeq
      /\ v.source = w.source /\ v.mirror = w.mirror
  BY <1>3, <1>4, <1>7, Versions, AnswerSettles
<1>9. FeedOK(v)
  BY <1>8, SameFeed
<1>10. Tracks(v, registered, untracked, resetting)
  BY <1>8 DEF Tracks, AgreesIn, Exists
<1>11. /\ Tail(todo) \in Seq(Mutation)
       /\ \A i \in DOMAIN Tail(todo) :
            Tail(todo)[i].op = "upsert" => Tail(todo)[i].data \in Data
  <2>1. todo \in Seq(Mutation) /\ todo # <<>>
    BY Queued
  <2>2. Tail(todo) \in Seq(Mutation) /\ \A i \in DOMAIN Tail(todo) :
          Tail(todo)[i] = todo[i + 1] /\ i + 1 \in DOMAIN todo
    BY <2>1
  <2> QED
    BY <2>2, Queued
<1> QED
  BY <1>5, <1>8, <1>9, <1>10, <1>11, Versions, InPush

LEMMA AnswerSafe ==
  ASSUME HandlersSafe, Reject \/ Accept
  PROVE  HandlersSafe'
PROOF
<1>1. phase = "decided"
  BY DEF Reject, Accept
<1>2. todo # <<>> /\ Attempted(saved, work, Current)
  BY <1>1 DEF HandlersSafe
<1>3. CASE Reject
  <2>1. Settle(saved, decision) /\ decision.status = "rejected"
    BY <1>3 DEF Reject, RejectRollsBack
  <2>2. Attempted(saved, saved, Current)
    BY DEF Attempted
  <2> QED
    BY <1>2, <2>1, <2>2, Versions, SettleSafe
<1>4. CASE Accept
  BY <1>2, <1>4, Versions, SettleSafe DEF Accept, Captured
<1> QED
  BY <1>3, <1>4

LEMMA FailSafe ==
  ASSUME HandlersSafe, Fail
  PROVE  HandlersSafe'
PROOF
<1>1. /\ work' = work /\ phase' = "failed" /\ saved' = saved
      /\ todo' = todo /\ decision' = decision /\ db' = db
      /\ registered' = registered /\ resetting' = resetting /\ untracked' = untracked
  BY DEF Fail, setup
<1> QED
  BY <1>1, Versions, Queued, InPush

LEMMA PushEndSafe ==
  ASSUME HandlersSafe, CommitPush \/ Rollback
  PROVE  HandlersSafe'
PROOF
<1>1. registered' = registered /\ resetting' = resetting /\ untracked' = untracked
  BY DEF CommitPush, Rollback, setup
<1>2. resetting => registered = Table
  BY DEF HandlersSafe
<1>3. CASE CommitPush
  <2>1. LedgerOK(work) /\ End(work)
    BY <1>3 DEF CommitPush, HandlersSafe
  <2> QED
    BY <1>1, <1>2, <2>1, Versions, EndSafe
<1>4. CASE Rollback
  BY <1>1, <1>2, <1>4, Versions, EndSafe DEF Rollback
<1> QED
  BY <1>3, <1>4

-----------------------------------------------------------------------------
(* Direct SQL, registration and resets. *)

\* s is db, or db without a row that a change of id has removed.
LEMMA DirectSafe ==
  ASSUME HandlersSafe, NEW t \in Table, NEW r \in Record, NEW s \in Tables,
         s.lastSeq = db.lastSeq, s.changes = db.changes, s.mirror = db.mirror,
         s.ledger = db.ledger,
         NEW gone \in SUBSET (Table \X Record \X {"early", "rekey", "reset"}),
         Tracks(s, registered, untracked \cup gone, resetting),
         \A u \in gone : u[2] # r,
         NEW row \in SourceRow \cup {Gone}, NEW v, v = Write(s, t, r, row, 0),
         Direct(v, t, r, gone)
  PROVE  HandlersSafe'
PROOF
<1>1. FeedOK(s) /\ LedgerOK(s) /\ registered \subseteq Table /\ resetting \in BOOLEAN
  BY Versions, SameFeed, SameLedger
<1>2. /\ v \in Tables /\ v.ledger = s.ledger
      /\ t \notin registered =>
           v.changes = s.changes /\ v.mirror = s.mirror /\ v.lastSeq = s.lastSeq
      /\ t \in registered => \E ch : Caught(s, v, t, r, row, 0, ch)
  <2>1. PICK n \in Nat : n = 0
    OBVIOUS
  <2>2. v = Write(s, t, r, row, n)
    BY <2>1
  <2>3. /\ v \in Tables /\ v.ledger = s.ledger
        /\ v.source = [s.source EXCEPT ![t][r] = row]
        /\ t \notin registered =>
             v.changes = s.changes /\ v.mirror = s.mirror /\ v.lastSeq = s.lastSeq
        /\ t \in registered => \E ch : Caught(s, v, t, r, row, n, ch)
    BY <2>2, WriteFields
  <2> QED
    BY <2>1, <2>3
<1>3. FeedOK(v) /\ LedgerOK(v)
  <2>1. CASE t \in registered
    <3>1. PICK ch : Caught(s, v, t, r, row, 0, ch)
      BY <1>2, <2>1
    <3>2. FeedOK(v)
      BY <1>1, <1>2, <3>1, CaughtFeed
    <3>3. OneMore(s, v, 0, ch) /\ ch.table = t /\ ch.record = r
      BY <3>1 DEF Caught
    <3>4. \A k \in 1 .. Len(s.ledger) : SettledOK(v, k)
      <4>1. PICK n \in Nat : n = 0
        OBVIOUS
      <4>2. OneMore(s, v, n, ch) /\ n \notin 1 .. Len(s.ledger)
        BY <3>3, <4>1 DEF Tables
      <4> QED
        BY <1>1, <1>2, <3>3, <4>2, AnswersStay
    <3>5. \A x \in v.changes : x.mutation <= Len(v.ledger)
      <4>1. Len(s.ledger) \in Nat
        BY DEF Tables
      <4> QED
        BY <1>1, <1>2, <3>3, <4>1 DEF LedgerOK, OneMore
    <3> QED
      BY <1>2, <3>2, <3>4, <3>5 DEF LedgerOK
  <2>2. CASE t \notin registered
    BY <1>1, <1>2, <2>2, SameFeed, SameLedger
  <2> QED
    BY <2>1, <2>2
<1>4. PICK new : new = IF t \in registered
                       THEN {u \in untracked : u[1] # t \/ u[2] # r} \cup gone
                       ELSE untracked \cup gone \cup {<<t, r, "early">>}
  OBVIOUS
<1>5. untracked' = new /\ End(v) /\ registered' = registered /\ resetting' = resetting
  BY <1>4 DEF Direct
<1>6. new \subseteq Table \X Record \X {"early", "rekey", "reset"}
  BY <1>4, Versions
<1>7. Tracks(v, registered, new, resetting)
  <2>1. ASSUME NEW u \in Table, NEW q \in Record, Tracked(new, u, q)
        PROVE  Tracked(untracked \cup gone, u, q) \/ (u = t /\ q = r)
    BY <1>4, <2>1 DEF Tracked
  <2>2. \A u \in Table \ registered, q \in Record :
          <<u, q, "early">> \in untracked \cup gone => <<u, q, "early">> \in new
    BY <1>4
  <2>3. t \notin registered => <<t, r, "early">> \in new
    BY <1>4
  <2> QED
    <3>1. PICK n \in Nat : n = 0
      OBVIOUS
    <3>2. v = Write(s, t, r, row, n)
      BY <3>1
    <3>3. PICK lost : lost = untracked \cup gone
      OBVIOUS
    <3>4. /\ \A u \in Table, q \in Record :
               Tracked(new, u, q) => Tracked(lost, u, q) \/ (u = t /\ q = r)
          /\ \A u \in Table \ registered, q \in Record :
               <<u, q, "early">> \in lost => <<u, q, "early">> \in new
      BY <2>1, <2>2, <3>3
    <3>5. Tracks(s, registered, lost, resetting)
      BY <3>3
    <3> QED
      BY <1>1, <2>3, <3>2, <3>4, <3>5, WriteTracks
<1>8. resetting => registered = Table
  BY DEF HandlersSafe
<1> QED
  BY <1>1, <1>2, <1>3, <1>5, <1>6, <1>7, <1>8, EndSafe

LEMMA DirectStepSafe ==
  ASSUME HandlersSafe, DirectStep
  PROVE  HandlersSafe'
PROOF
<1>1. PICK t \in Table, r \in Record :
        \/ \E d \in DirectData : DirectPut(t, r, d)
        \/ DirectRemove(t, r) \/ DirectErase(t, r)
        \/ \E s \in Record : DirectRekey(t, r, s)
  BY DEF DirectStep
<1>2. db \in Tables /\ Tracks(db, registered, untracked, resetting) /\ registered \subseteq Table
      /\ db.source \in [Table -> [Record -> SourceRow \cup {Gone}]]
      /\ db.source[t][r] \in SourceRow \cup {Gone}
  BY Versions DEF Tables
<1>3. ASSUME NEW row \in SourceRow \cup {Gone}, Direct(Write(db, t, r, row, 0), t, r, {})
      PROVE  HandlersSafe'
  <2>1. untracked \cup {} = untracked
    OBVIOUS
  <2>2. PICK v : v = Write(db, t, r, row, 0)
    OBVIOUS
  <2> QED
    BY <1>2, <1>3, <2>1, <2>2, DirectSafe
<1>4. CASE \E d \in DirectData : DirectPut(t, r, d)
  BY <1>3, <1>4, PayloadRow DEF DirectPut, Put
<1>5. CASE DirectRemove(t, r)
  <2>1. db.source[t][r] \in SourceRow
    BY <1>2, <1>5 DEF DirectRemove, Exists
  <2>2. [db.source[t][r] EXCEPT !.deleted = TRUE] \in SourceRow
    BY <2>1 DEF SourceRow
  <2> QED
    BY <1>3, <1>5, <2>2 DEF DirectRemove, Remove
<1>6. CASE DirectErase(t, r)
  BY <1>3, <1>6 DEF DirectErase
<1>7. CASE \E s \in Record : DirectRekey(t, r, s)
  <2>1. PICK s \in Record : DirectRekey(t, r, s)
    BY <1>7
  <2>2. r # s
    BY <2>1 DEF DirectRekey
  <2>3. PICK w : w = [db EXCEPT !.source[t][r] = Gone]
    OBVIOUS
  <2>4. /\ w \in Tables /\ w.lastSeq = db.lastSeq /\ w.changes = db.changes
        /\ w.mirror = db.mirror /\ w.ledger = db.ledger
        /\ w.source = [db.source EXCEPT ![t][r] = Gone]
    BY <1>2, <2>3 DEF Tables
  <2>5. PICK gone : gone = {<<t, r, "rekey">>}
    OBVIOUS
  <2>6. Tracks(w, registered, untracked \cup gone, resetting)
    <3>1. \A u \in Table, q \in Record : w.mirror[u][q] = db.mirror[u][q] /\
            w.source[u][q] = IF u = t /\ q = r THEN Gone ELSE db.source[u][q]
      BY <1>2, <2>4
    <3>2. ASSUME ~resetting, NEW u \in registered, NEW q \in Record,
                 Tracked(untracked \cup gone, u, q)
          PROVE  AgreesIn(w, u, q)
      <4>1. Tracked(untracked, u, q) /\ ~(u = t /\ q = r)
        BY <2>5, <3>2 DEF Tracked
      <4>2. AgreesIn(db, u, q)
        BY <1>2, <3>2, <4>1 DEF Tracks
      <4> QED
        BY <1>2, <3>1, <4>1, <4>2 DEF AgreesIn
    <3>3. \A u \in Table \ registered, q \in Record :
            w.mirror[u][q] = Unknown /\
            (Exists(w, u, q) => <<u, q, "early">> \in untracked \cup gone)
      <4>1. \A u \in Table, q \in Record : Exists(w, u, q) => Exists(db, u, q)
        BY <3>1 DEF Exists
      <4>2. \A u \in Table \ registered, q \in Record :
              db.mirror[u][q] = Unknown /\
              (Exists(db, u, q) => <<u, q, "early">> \in untracked)
        BY <1>2 DEF Tracks
      <4> SUFFICES ASSUME NEW u \in Table \ registered, NEW q \in Record
                   PROVE  /\ w.mirror[u][q] = Unknown
                          /\ Exists(w, u, q) => <<u, q, "early">> \in untracked \cup gone
        OBVIOUS
      <4>3. w.mirror[u][q] = Unknown
        <5>1. db.mirror[u][q] = Unknown
          BY <4>2
        <5> QED
          BY <2>4, <5>1
      <4>4. Exists(w, u, q) => <<u, q, "early">> \in untracked
        BY <4>1, <4>2
      <4> QED
        BY <4>3, <4>4
    <3> QED
      BY <3>2, <3>3 DEF Tracks
  <2>7. PICK v : v = Write(w, t, s, db.source[t][r], 0)
    OBVIOUS
  <2>8. Direct(v, t, s, gone)
    BY <2>1, <2>3, <2>5, <2>7 DEF DirectRekey
  <2>9. gone \in SUBSET (Table \X Record \X {"early", "rekey", "reset"})
        /\ \A u \in gone : u[2] # s
    BY <2>2, <2>5
  <2> QED
    BY <1>2, <2>4, <2>6, <2>7, <2>8, <2>9, DirectSafe
<1> QED
  BY <1>1, <1>4, <1>5, <1>6, <1>7

\* Registration copies nothing: the rows that are there are marked.
LEMMA RegisterSafe ==
  ASSUME HandlersSafe, NEW t \in Table, Register(t)
  PROVE  HandlersSafe'
PROOF
<1>1. /\ phase = "idle" /\ t \notin registered /\ registered' = registered \cup {t}
      /\ db' = db /\ work' = work /\ saved' = saved /\ phase' = phase /\ todo' = todo
      /\ decision' = decision /\ resetting' = resetting /\ untracked' = untracked
  BY DEF Register
<1>2. PICK reg : reg = registered \cup {t}
  OBVIOUS
<1>3. ASSUME NEW w \in Tables, Tracks(w, registered, untracked, resetting)
      PROVE  Tracks(w, reg, untracked, resetting)
  <2>1. ASSUME NEW r \in Record, Tracked(untracked, t, r)
        PROVE  AgreesIn(w, t, r)
    <3>1. w.mirror[t][r] = Unknown /\ w.source[t][r] = Gone
      <4>1. w.mirror[t][r] = Unknown /\ (Exists(w, t, r) => <<t, r, "early">> \in untracked)
        BY <1>1, <1>3 DEF Tracks
      <4> QED
        BY <2>1, <4>1 DEF Tracked, Exists
    <3>2. Unknown.revision = 0
      BY DEF Unknown
    <3> QED
      BY <3>1, <3>2 DEF AgreesIn
  <2>2. ASSUME ~resetting, NEW u \in reg, NEW r \in Record, Tracked(untracked, u, r)
        PROVE  AgreesIn(w, u, r)
    BY <1>2, <1>3, <2>1, <2>2 DEF Tracks
  <2>3. \A u \in Table \ reg, r \in Record :
          w.mirror[u][r] = Unknown /\ (Exists(w, u, r) => <<u, r, "early">> \in untracked)
    BY <1>2, <1>3 DEF Tracks
  <2> QED
    BY <2>2, <2>3 DEF Tracks
<1>4. \A w : VersionOK(w) => w \in Tables /\ FeedOK(w) /\ Tracks(w, reg, untracked, resetting)
  BY <1>3 DEF VersionOK
<1>5. VersionOK(db)' /\ VersionOK(work)' /\ VersionOK(saved)'
  <2>1. VersionOK(db) /\ VersionOK(work) /\ VersionOK(saved)
    BY DEF HandlersSafe
  <2> QED
    BY <1>1, <1>2, <1>4, <2>1 DEF VersionOK
<1>6. LedgerOK(db)' /\ LedgerOK(saved)'
  BY <1>1, Versions
<1>7. /\ (phase = "idle" => work = db /\ saved = db)'
      /\ (phase = "loop" => LedgerOK(work))'
      /\ (phase \in {"handling", "decided"} => todo # <<>> /\ Attempted(saved, work, Current))'
      /\ (phase = "handling" /\ Current.table \in Table => work = saved)'
  BY <1>1 DEF HandlersSafe
<1>8. registered' \subseteq Table /\ (resetting => registered = Table)'
  <2>1. registered \subseteq Table /\ (resetting => registered = Table)
    BY DEF HandlersSafe
  <2> QED
    BY <1>1, <2>1
<1>9. /\ (todo \in Seq(Mutation))'
      /\ (\A i \in DOMAIN todo : todo[i].op = "upsert" => todo[i].data \in Data)'
      /\ (decision \in [status : {"none", "applied", "rejected"}, noOp : BOOLEAN])'
      /\ (resetting \in BOOLEAN)'
      /\ (untracked \subseteq Table \X Record \X {"early", "rekey", "reset"})'
  BY <1>1, Queued, Versions
<1> QED
  BY ONLY <1>1, <1>5, <1>6, <1>7, <1>8, <1>9 DEF HandlersSafe

LEMMA EmptyVersion ==
  /\ EmptyTables \in Tables /\ FeedOK(EmptyTables) /\ LedgerOK(EmptyTables)
  /\ EmptyTables.changes = {} /\ EmptyTables.lastSeq = 0
  /\ \A t \in Table, r \in Record :
       EmptyTables.source[t][r] = Gone /\ EmptyTables.mirror[t][r] = Unknown
PROOF
<1>1. Unknown \in MirrorRow /\ Unknown.revision = 0
  BY DEF Unknown, MirrorRow
<1>2. /\ EmptyTables.lastSeq = 0 /\ EmptyTables.changes = {} /\ EmptyTables.ledger = <<>>
      /\ EmptyTables.source = [t \in Table |-> [r \in Record |-> Gone]]
      /\ EmptyTables.mirror = [t \in Table |-> [r \in Record |-> Unknown]]
  BY DEF EmptyTables
<1>3. EmptyTables \in Tables
  BY <1>1 DEF EmptyTables, Tables
<1>4. ASSUME NEW t \in Table, NEW r \in Record
      PROVE  CountsUp(EmptyTables.mirror[t][r], Feed(EmptyTables, t, r))
  <2>1. Feed(EmptyTables, t, r) = {} /\ EmptyTables.mirror[t][r].revision = 0
    BY <1>1, <1>2 DEF Feed
  <2>2. 1 .. 0 = {}
    OBVIOUS
  <2> QED
    BY <2>1, <2>2 DEF CountsUp
<1>5. FeedOK(EmptyTables)
  <2>1. {ch.seq : ch \in {}} = 1 .. 0
    OBVIOUS
  <2> QED
    BY <1>2, <1>4, <2>1 DEF FeedOK
<1>6. LedgerOK(EmptyTables)
  BY <1>2 DEF LedgerOK
<1> QED
  BY <1>2, <1>3, <1>5, <1>6

\* The two halves of the reset.
LEMMA ResetSafe ==
  ASSUME HandlersSafe, ResetSources \/ ResetProtocol
  PROVE  HandlersSafe'
PROOF
<1>1. registered = Table /\ registered' = registered
  BY DEF HandlersSafe, ResetSources, ResetProtocol
<1>2. EmptyTables.source \in [Table -> [Record -> SourceRow \cup {Gone}]]
  BY EmptyVersion DEF Tables
<1>3. CASE ResetSources
  <2>1. PICK w : w = [db EXCEPT !.source = EmptyTables.source]
    OBVIOUS
  <2>2. /\ w \in Tables /\ w.lastSeq = db.lastSeq /\ w.changes = db.changes
        /\ w.mirror = db.mirror /\ w.ledger = db.ledger
    BY <1>2, <2>1, Versions DEF Tables
  <2>3. FeedOK(w) /\ LedgerOK(w)
    BY <2>2, Versions, SameFeed, SameLedger
  <2>4. End(w) /\ resetting' = TRUE /\ untracked' = {}
    BY <1>3, <2>1 DEF ResetSources
  <2>5. Tracks(w, registered, {}, TRUE)
    BY <1>1 DEF Tracks
  <2> QED
    BY <1>1, <2>2, <2>3, <2>4, <2>5, EndSafe
<1>4. CASE ResetProtocol
  <2>1. PICK w : w = [EmptyTables EXCEPT !.source = db.source]
    OBVIOUS
  <2>2. db.source \in [Table -> [Record -> SourceRow \cup {Gone}]]
    BY Versions DEF Tables
  <2>3. /\ w \in Tables /\ w.lastSeq = EmptyTables.lastSeq /\ w.changes = EmptyTables.changes
        /\ w.mirror = EmptyTables.mirror /\ w.ledger = EmptyTables.ledger
        /\ w.source = db.source
    BY <2>1, <2>2, EmptyVersion DEF Tables
  <2>4. FeedOK(w) /\ LedgerOK(w)
    BY <2>3, EmptyVersion, SameFeed, SameLedger
  <2>5. PICK new : new = {u \in Table \X Record \X {"reset"} : Exists(db, u[1], u[2])}
    OBVIOUS
  <2>6. End(w) /\ resetting' = FALSE /\ untracked' = new
    BY <1>4, <2>1, <2>5 DEF ResetProtocol
  <2>7. ASSUME NEW t \in Table, NEW r \in Record, Tracked(new, t, r)
        PROVE  AgreesIn(w, t, r)
    <3>1. w.source[t][r] = Gone
      BY <2>3, <2>5, <2>7 DEF Tracked, Exists
    <3>2. w.mirror[t][r].revision = 0
      BY <2>3, EmptyVersion DEF Unknown
    <3> QED
      BY <3>1, <3>2 DEF AgreesIn
  <2>8. Tracks(w, registered, new, FALSE)
    BY <1>1, <2>7 DEF Tracks
  <2>9. new \subseteq Table \X Record \X {"early", "rekey", "reset"}
    BY <2>5
  <2> QED
    BY <1>1, <2>3, <2>4, <2>6, <2>8, <2>9, EndSafe
<1> QED
  BY <1>3, <1>4

-----------------------------------------------------------------------------
(* The invariant and what follows from it. *)

LEMMA InitSafe == Init => HandlersSafe
PROOF
<1> SUFFICES ASSUME Init PROVE HandlersSafe
  OBVIOUS
<1>1. /\ db = EmptyTables /\ work = EmptyTables /\ saved = EmptyTables /\ phase = "idle"
      /\ todo = <<>> /\ decision = [status |-> "none", noOp |-> FALSE]
      /\ registered = {} /\ resetting = FALSE /\ untracked = {}
  BY DEF Init, Undecided
<1>2. Tracks(EmptyTables, {}, {}, FALSE)
  BY EmptyVersion DEF Tracks, Exists
<1>3. VersionOK(db) /\ VersionOK(work) /\ VersionOK(saved)
  BY <1>1, <1>2, EmptyVersion DEF VersionOK
<1>4. LedgerOK(db) /\ LedgerOK(saved)
  BY <1>1, EmptyVersion
<1>5. todo \in Seq(Mutation) /\ DOMAIN todo = {}
  BY <1>1
<1>6. decision \in [status : {"none", "applied", "rejected"}, noOp : BOOLEAN]
  BY <1>1
<1> QED
  BY <1>1, <1>3, <1>4, <1>5, <1>6 DEF HandlersSafe

LEMMA NextSafe == HandlersSafe /\ [Next]_vars => HandlersSafe'
PROOF
<1> SUFFICES ASSUME HandlersSafe, [Next]_vars PROVE HandlersSafe'
  OBVIOUS
<1>1. CASE UNCHANGED vars
  BY <1>1 DEF vars, HandlersSafe, VersionOK, Current
<1>2. ASSUME NEW a \in Request, NEW b \in Request, NEW batch,
             batch = <<a>> \/ batch = <<a, b>>, BeginPush(batch)
      PROVE  HandlersSafe'
  <2>1. /\ a \in Mutation /\ (a.op = "upsert" => a.data \in Data)
        /\ b \in Mutation /\ (b.op = "upsert" => b.data \in Data)
    BY RequestAssumption
  <2>2. batch \in Seq(Mutation) /\ \A i \in DOMAIN batch : batch[i] \in {a, b}
    <3>1. CASE batch = <<a>>
      <4>1. <<a>> \in Seq(Mutation) /\ \A i \in DOMAIN <<a>> : <<a>>[i] = a
        BY <2>1
      <4> QED
        BY <3>1, <4>1
    <3>2. CASE batch = <<a, b>>
      <4>1. /\ <<a, b>> \in Seq(Mutation)
            /\ \A i \in DOMAIN <<a, b>> : <<a, b>>[i] = a \/ <<a, b>>[i] = b
        BY <2>1
      <4> QED
        BY <3>2, <4>1
    <3> QED
      BY <1>2, <3>1, <3>2
  <2> QED
    BY <1>2, <2>1, <2>2, BeginPushSafe
<1>3. CASE \/ \E a \in Request : BeginPush(<<a>>)
           \/ \E a, b \in Request : BeginPush(<<a, b>>)
  BY <1>2, <1>3
<1>4. CASE PushStep
  <2>1. CASE \E t \in Table : \E r \in WrittenBy, d \in DirectData : AppWrite(t, r, d)
    BY <2>1, AppWriteSafe
  <2>2. CASE Dispatch \/ Reject \/ Accept \/ Fail \/ CommitPush \/ Rollback
    BY <2>2, DispatchSafe, AnswerSafe, FailSafe, PushEndSafe
  <2>3. CASE \/ JsonbReject \/ JsonbNoOp \/ JsonbApply \/ JsonbThrow \/ AppThrow
             \/ \E status \in {"applied", "rejected"}, noOp \in BOOLEAN :
                  AppDecide(status, noOp)
    BY <2>3, HandlerSafe
  <2> QED
    BY <1>4, <2>1, <2>2, <2>3 DEF PushStep
<1>5. CASE \E t \in Table : Register(t)
  BY <1>5, RegisterSafe
<1> QED
  BY <1>1, <1>3, <1>4, <1>5, DirectStepSafe, ResetSafe DEF Next

\* Answers, change log, mirrors and source rows fit together in every state.
THEOREM HandlersAreSafe == Spec => []HandlersSafe
PROOF
BY InitSafe, NextSafe, PTL DEF Spec

LEMMA SafeIsTyped == HandlersSafe => HandlersTypeOK
BY DEF HandlersSafe, VersionOK, HandlersTypeOK

\* The mirror of a registered table shows its rows, and what is applied honours
\* the revision it names: HandlersInv, whatever the tables, records and bounds.
THEOREM HandlersInvHolds == Spec => []HandlersInv
PROOF
<1>1. ASSUME HandlersSafe PROVE MirrorTracksSource
  BY <1>1, Versions DEF Tracks, AgreesIn, Tracked, MirrorTracksSource, Agrees
<1>2. ASSUME HandlersSafe PROVE HandlersHonourBase
  <2> SUFFICES ASSUME NEW n \in DOMAIN db.ledger, NEW ch \in db.changes,
                      NEW m, m = db.ledger[n].request,
                      ch.mutation = n, m.table \in Table
               PROVE  /\ m.base # NoBase => ch.revision = m.base + 1
                      /\ \A x \in db.changes :
                           /\ x.table = ch.table /\ x.record = ch.record
                           /\ x.revision + 1 = ch.revision
                           /\ x.op = "delete" /\ ch.op = "upsert"
                           => m.resurrect /\ m.base = x.revision
    BY DEF HandlersHonourBase
  <2>1. n \in 1 .. Len(db.ledger)
    BY <1>2, Versions DEF Tables
  <2>2. SettledOK(db, n)
    BY <1>2, <2>1, Versions DEF LedgerOK
  <2>3. Honours(db, m, ch)
    BY <2>2 DEF SettledOK, EffectsOf
  <2> QED
    BY <2>3 DEF Honours, Lifts
<1>3. HandlersSafe => HandlersInv
  BY <1>1, <1>2, SafeIsTyped DEF HandlersInv
<1> QED
  BY <1>3, HandlersAreSafe, PTL

\* A rejected mutation leaves nothing, an applied one exactly its change, for
\* any handlers: AnswersMatchEffects.
THEOREM AnswersMatch == Spec => []AnswersMatchEffects
PROOF
<1>1. ASSUME HandlersSafe PROVE AnswersMatchEffects
  <2> SUFFICES ASSUME NEW n \in DOMAIN db.ledger PROVE AnswerOK(db, n)
    BY DEF AnswersMatchEffects, AnswerOK, EffectsOf
  <2>1. n \in 1 .. Len(db.ledger)
    BY <1>1, Versions DEF Tables
  <2> QED
    BY <1>1, <2>1, Versions DEF LedgerOK, SettledOK
<1> QED
  BY <1>1, HandlersAreSafe, PTL

\* Checkpoints have no holes and the revisions of a record count up from 1 to
\* its mirror's, in feed order: RevisionsNeverRestart.
THEOREM RevisionsCountUp == Spec => []RevisionsNeverRestart
PROOF
<1>1. ASSUME HandlersSafe PROVE RevisionsNeverRestart
  BY <1>1, Versions DEF RevisionsNeverRestart, FeedOK, CountsUp, Feed
<1> QED
  BY <1>1, HandlersAreSafe, PTL
=============================================================================
