-------------------------- MODULE DocReconcile_proofs --------------------------
(***************************************************************************)
(* What a document row may contain: an inductive invariant of the          *)
(* handlers, and the proof that every call takes effect at one instant.    *)
(***************************************************************************)
EXTENDS DocServers, FiniteSetTheorems, WellFoundedInduction, TLAPS

(* The invariant of one call: q is the call, c its record, R the rows and L *)
(* the locks.                                                               *)

Pending == UNION {[S -> Row] : S \in SUBSET Key}

Calls == [phase : Phases, request : {<<>>} \cup {<<r>> : r \in Request},
          attempt : 1..MaxAttempts, seen : Row, first : Nat, at : Nat \ {0},
          pending : Pending, found : SUBSET (Nat \ {0}), answer : Answers]

Ask(c) == c.request[1]
Named(c) == {Ask(c).items[i].key : i \in c.found}
Mine(q, c) == {<<q, i>> : i \in DOMAIN Ask(c).items}
View(c, k, row) == IF k \in DOMAIN c.pending THEN c.pending[k] ELSE row

\* Writes of a batch in row k.
Hits(q, c, k) == {<<q, i>> : i \in {j \in c.found : Ask(c).items[j].key = k}}

\* A phase belongs to an endpoint, and so does an answer.
Form(c) ==
  /\ c.phase = "new" => c = New
  /\ c.phase # "new" => c.request # <<>>
  /\ c.answer = "none" <=> c.phase # "done"
  /\ c.phase \in {"read", "write", "insert", "backoff"} => Ask(c).op \in {"sync", "profile"}
  /\ c.phase = "insert" => Ask(c).op = "profile"
  /\ c.phase \in {"put", "delete"} => Ask(c).op = c.phase
  /\ c.phase \in {"lock", "merge", "rollback"} \/ c.answer = "flushed" => Ask(c).op = "batch"
  /\ c.answer \in Accepted \ {"flushed"} => Ask(c).op # "batch"

\* The items a batch has been through, and the rows it will write.
Listed(c) ==
  c.phase # "new" =>
    /\ c.found \subseteq 1..(c.at - 1) /\ c.at <= Len(Ask(c).items) + 1
    /\ DOMAIN c.pending = Named(c)
    /\ Ask(c).op # "batch" => c.found = {}

Holds(q, c, L) == c.phase # "done" => \A k \in DOMAIN c.pending : L[k] = q

\* Row k after the items the batch has been through: g[i] after i items.
Walk(q, c, k, row, g) ==
  /\ g[0] = row /\ g[c.at - 1] = View(c, k, row)
  /\ \A i \in 1..(c.at - 1) :
       g[i] = IF i \in c.found /\ Ask(c).items[i].key = k
              THEN Merged(g[i - 1], <<q, i>>, Ask(c).items[i].stamp, FALSE)
              ELSE g[i - 1]

Progress(q, c, k, row) ==
  /\ IsFiniteSet(Hits(q, c, k))
  /\ View(c, k, row).version = row.version + Cardinality(Hits(q, c, k))
  /\ row.data \subseteq View(c, k, row).data
  /\ View(c, k, row).data \subseteq row.data \cup Mine(q, c)
  /\ \A i \in c.found :
       Ask(c).items[i].key = k /\ Ask(c).items[i].stamp = NoStamp => <<q, i>> \in View(c, k, row).data
  /\ \E g : Walk(q, c, k, row, g)

Merging(q, c, R, L) ==
  c.phase = "merge" =>
    LET k == Ask(c).items[c.at].key
    IN c.at <= Len(Ask(c).items) /\ L[k] = q /\ c.seen = View(c, k, R[k])

Batched(q, c, R, L) ==
  /\ c.phase \in {"lock", "merge"} => \A k \in Key : Progress(q, c, k, R[k])
  /\ Merging(q, c, R, L)

CallOK(q, c, R, L) == Form(c) /\ Listed(c) /\ Holds(q, c, L) /\ Batched(q, c, R, L)

\* What a call read, and what has become of the row since.
Races(c, R) ==
  LET k == Ask(c).items[1].key
      n == c.first + c.attempt
  IN
  /\ c.phase = "read" => R[k].version >= n - 1
  /\ c.phase = "backoff" => R[k].version >= n
  /\ c.phase \in {"write", "insert"} =>
       /\ c.seen.version >= n - 1 /\ R[k].version >= c.seen.version
       /\ R[k].version = c.seen.version => R[k] = c.seen
  /\ c.phase = "insert" => c.seen.version = 0
  /\ c.phase = "write" /\ Ask(c).op = "sync" =>
       c.seen.version > 0 /\ ~ Expired(c.seen, Ask(c).items[1].stamp)
  /\ c.answer = "created" => R[k].version > 0

\* The items a call was told are stored are in R, or were and are in E.
Durable(q, c, R, E) ==
  \A i \in (IF c.answer = "flushed" THEN c.found
            ELSE IF c.answer \in Accepted \ {"deleted"} THEN {1} ELSE {}) :
    LET it == Ask(c).items[i]
    IN it.stamp = NoStamp => <<q, i>> \in R[it.key].data \cup E[it.key]

\* The items a call was told changed row k.
On(q, c, k) ==
  {<<q, i>> : i \in {j \in DOMAIN Ask(c).items :
     /\ c.answer \in Accepted /\ Ask(c).items[j].key = k
     /\ c.answer = "flushed" => j \in c.found}}

AnsweredIn(C, k) == UNION {On(q, C[q], k) : q \in Call}

-----------------------------------------------------------------------------
(* The invariant *)

StateOK ==
  /\ rows \in [Key -> Row] /\ now \in Stamp /\ lock \in [Key -> Call \cup {NoCall}]
  /\ call \in [Call -> Calls] /\ erased \in [Key -> SUBSET Token]
  /\ reset \in {"idle", "profiles", "seed"} /\ (reset # "idle" => resets > 0)
  /\ lost \in 0..MaxLost /\ resets \in 0..MaxResets

\* Without a row there is nothing in it, and nobody holds it.
RowsOK ==
  \A k \in Key :
    /\ rows[k].version = 0 => rows[k] = NoRow
    /\ lock[k] # NoCall => rows[k].version > 0 /\ call[lock[k]].phase \in {"lock", "merge", "rollback"}

CallsOK == \A q \in Call : CallOK(q, call[q], rows, lock)

\* A call whose items may be in a document.
MayBeStored(c, n) ==
  /\ c.phase = "done" /\ c.answer \notin {"missing", "gone", "conflict"}
  /\ c.answer = "error" /\ Ask(c).op = "batch" => n > 0

Stored(C, n) == {t \in Token : MayBeStored(C[t[1]], n)}

\* Whatever is in a row, was, or was read from one by a call that will write
\* it back, came from such a call.
Sources ==
  /\ \A k \in Key : rows[k].data \cup erased[k] \subseteq Stored(call, lost)
  /\ \A q \in Call : call[q].phase # "new" /\ Ask(call[q]).op # "batch" =>
       call[q].seen.data \subseteq Stored(call, lost)

AnswersFinite == \A k \in Key : IsFiniteSet(AnsweredIn(call, k))

RacesOK == \A q \in Call : call[q].phase # "new" => Races(call[q], rows)

DurableOK == \A q \in Call : call[q].phase # "new" => Durable(q, call[q], rows, erased)

CountsOK ==
  lost = 0 => \A k \in Key :
    rows[k].version = (IF k \in Seed THEN 1 ELSE 0) + Cardinality(AnsweredIn(call, k))

\* Until the reset.
Lasting == RacesOK /\ DurableOK /\ CountsOK /\ NothingErasedReturns /\ OneCreator

DocsSafe ==
  /\ StateOK /\ RowsOK /\ CallsOK /\ Sources /\ AnswersFinite
  /\ resets = 0 => Lasting

-----------------------------------------------------------------------------
(* The values that statements give a row *)

LEMMA MergedRow ==
  ASSUME NEW row \in Row, NEW t \in Token, NEW s \in Stamp, NEW b \in BOOLEAN
  PROVE  /\ Merged(row, t, s, b) \in Row
         /\ Merged(row, t, s, b).version = row.version + 1
         /\ row.data \subseteq Merged(row, t, s, b).data
         /\ Merged(row, t, s, b).data \subseteq row.data \cup {t}
         /\ s = NoStamp => t \in Merged(row, t, s, b).data
PROOF
<1> DEFINE m == Merged(row, t, s, b)
<1>1. row.version \in Nat /\ row.data \in SUBSET Token /\ row.stamp \in Stamp /\ row.deleted \in Stamp
  BY DEF Row
<1>2. NoStamp \in Stamp /\ 0 \in Stamp
  BY DocumentsAssumption DEF NoStamp, Stamp
<1>3. m.version = row.version + 1
  BY DEF Merged
<1>4. m.data = IF Vetoed(row, s) THEN row.data ELSE row.data \cup {t}
  BY DEF Merged
<1>5. m \in Row
  BY <1>1, <1>2 DEF Merged, Row
<1>6. s = NoStamp => ~ Vetoed(row, s)
  BY DEF Vetoed
<1> QED
  BY <1>3, <1>4, <1>5, <1>6

Revived(row, t, s) == Merged(row, t, s, TRUE)

LEMMA RevivedRow ==
  ASSUME NEW row \in Row, NEW t \in Token, NEW s \in Stamp
  PROVE  /\ Revived(row, t, s) \in Row
         /\ Revived(row, t, s).version = row.version + 1
         /\ row.data \subseteq Revived(row, t, s).data
         /\ Revived(row, t, s).data \subseteq row.data \cup {t}
         /\ s = NoStamp => t \in Revived(row, t, s).data
PROOF
<1>1. \A b \in BOOLEAN :
        /\ Merged(row, t, s, b) \in Row
        /\ Merged(row, t, s, b).version = row.version + 1
        /\ row.data \subseteq Merged(row, t, s, b).data
        /\ Merged(row, t, s, b).data \subseteq row.data \cup {t}
        /\ s = NoStamp => t \in Merged(row, t, s, b).data
  BY ONLY row \in Row, t \in Token, s \in Stamp, MergedRow
<1>2. TRUE \in BOOLEAN
  OBVIOUS
<1> QED
  BY ONLY <1>1, <1>2, Zenon DEF Revived

LEMMA ReplacedRow ==
  ASSUME NEW row \in Row, NEW t \in Token, NEW s \in Stamp
  PROVE  /\ Replaced(row, t, s) \in Row
         /\ Replaced(row, t, s).version = row.version + 1
         /\ Replaced(row, t, s).data = {t}
PROOF
<1>1. row.version \in Nat /\ 0 \in Stamp
  BY DocumentsAssumption DEF Row, Stamp
<1> QED
  BY <1>1 DEF Replaced, Row

LEMMA TombstoneRow ==
  ASSUME NEW row \in Row, NEW time \in Stamp
  PROVE  /\ Tombstone(row, time) \in Row
         /\ Tombstone(row, time).version = row.version + 1
         /\ Tombstone(row, time).data = row.data
PROOF
<1>1. PICK v \in Nat, d \in SUBSET Token, s \in Stamp, x \in Stamp :
        row = [version |-> v, data |-> d, stamp |-> s, deleted |-> x]
  BY DEF Row
<1>2. [row EXCEPT !.version = row.version + 1]
        = [version |-> v + 1, data |-> d, stamp |-> s, deleted |-> x]
  BY <1>1
<1>3. Tombstone(row, time) = [[row EXCEPT !.version = row.version + 1] EXCEPT !.deleted = time]
  BY DEF Tombstone
<1>4. Tombstone(row, time) = [version |-> v + 1, data |-> d, stamp |-> s, deleted |-> time]
  BY <1>2, <1>3
<1> QED
  BY <1>1, <1>4 DEF Row

LEMMA FirstRows ==
  NoRow \in Row /\ Seeded \in Row /\ NoRow.version = 0 /\ Seeded.version = 1
    /\ NoRow.data = {} /\ Seeded.data = {}
PROOF
<1>1. 0 \in Stamp
  BY DocumentsAssumption DEF Stamp
<1> QED
  BY <1>1 DEF NoRow, Seeded, Row, NoStamp

-----------------------------------------------------------------------------
(* What a call asks for *)

LEMMA Requests ==
  ASSUME NEW r \in Request
  PROVE  /\ r.op \in {"sync", "profile", "put", "delete", "batch"}
         /\ Len(r.items) \in Nat /\ DOMAIN r.items = 1..Len(r.items)
         /\ \A i \in 1..Len(r.items) : r.items[i].key \in Key /\ r.items[i].stamp \in Stamp
         /\ r.op # "batch" => Len(r.items) = 1
PROOF
<1>1. r \in Asking
  BY RequestAssumption
<1>2. r.items \in Seq(Item) /\ r.op \in {"sync", "profile", "put", "delete", "batch"}
  BY <1>1 DEF Asking
<1>3. \A i \in 1..Len(r.items) : r.items[i] \in Item
  BY <1>2
<1> QED
  BY <1>2, <1>3, RequestAssumption DEF Item

LEMMA Asks ==
  ASSUME NEW c \in Calls, c.phase # "new", Form(c)
  PROVE  c.request = <<Ask(c)>> /\ Ask(c) \in Request
PROOF
<1>1. c.request # <<>> /\ c.request \in {<<>>} \cup {<<r>> : r \in Request}
  BY DEF Form, Calls
<1>2. PICK r \in Request : c.request = <<r>>
  BY <1>1
<1> QED
  BY <1>2 DEF Ask

\* The token of an item is one.
LEMMA ItemToken ==
  ASSUME NEW q \in Call, NEW i \in Nat \ {0}
  PROVE  <<q, i>> \in Token
PROOF
  BY DEF Token

-----------------------------------------------------------------------------
(* What the steps of others leave alone *)

\* A row the batch has not written is as it is in the database.
LEMMA Untouched ==
  ASSUME NEW q \in Call, NEW c \in Calls, Listed(c), c.phase # "new",
         NEW k \in Key, k \notin DOMAIN c.pending, NEW row \in Row
  PROVE  Progress(q, c, k, row)
PROOF
<1>1. \A i \in c.found : Ask(c).items[i].key # k
  BY DEF Listed, Named
<1>2. Hits(q, c, k) = {}
  BY <1>1 DEF Hits
<1>3. View(c, k, row) = row
  BY DEF View
<1>4. c.at \in Nat \ {0} /\ row.version \in Nat
  BY DEF Calls, Row
<1> DEFINE g == [i \in 0..(c.at - 1) |-> row]
<1>5. Walk(q, c, k, row, g)
  <2>1. g[0] = row /\ g[c.at - 1] = View(c, k, row)
    BY <1>3, <1>4
  <2>2. ASSUME NEW i \in 1..(c.at - 1) PROVE g[i] = row /\ g[i - 1] = row
    BY <1>4
  <2> HIDE DEF g
  <2> QED
    BY <1>1, <2>1, <2>2 DEF Walk
<1>6. IsFiniteSet({}) /\ Cardinality({}) = 0
  BY FS_EmptySet
<1>7. row.version = row.version + 0
  BY <1>4
<1> QED
  BY <1>1, <1>2, <1>3, <1>5, <1>6, <1>7 DEF Progress

LEMMA CallKept ==
  ASSUME NEW q \in Call, NEW c \in Calls,
         NEW R \in [Key -> Row], NEW R2 \in [Key -> Row], NEW L, NEW L2,
         CallOK(q, c, R, L), \A k \in Key : L[k] = q => L2[k] = q /\ R2[k] = R[k]
  PROVE  CallOK(q, c, R2, L2)
PROOF
<1>1. DOMAIN c.pending \subseteq Key
  BY DEF Calls, Pending
<1>2. Form(c) /\ Listed(c) /\ Holds(q, c, L) /\ Batched(q, c, R, L)
  BY DEF CallOK
<1>3. Holds(q, c, L2)
  BY <1>1, <1>2 DEF Holds
<1>4. ASSUME c.phase \in {"lock", "merge"}, NEW k \in Key PROVE Progress(q, c, k, R2[k])
  <2>1. CASE k \in DOMAIN c.pending
    <3>1. L[k] = q
      BY <1>2, <1>4, <2>1 DEF Holds
    <3>2. R2[k] = R[k]
      BY <3>1
    <3> QED
      BY <1>2, <1>4, <3>2 DEF Batched
  <2>2. CASE k \notin DOMAIN c.pending
    <3>1. R2[k] \in Row /\ c.phase # "new"
      BY <1>4
    <3> QED
      BY <1>2, <2>2, <3>1, Untouched
  <2> QED
    BY <2>1, <2>2
<1>5. ASSUME c.phase = "merge" PROVE Merging(q, c, R2, L2)
  <2> DEFINE k == Ask(c).items[c.at].key
  <2>1. c.at <= Len(Ask(c).items) /\ L[k] = q /\ c.seen = View(c, k, R[k])
    BY <1>2, <1>5 DEF Batched, Merging
  <2>2. k \in Key
    <3>1. Ask(c) \in Request
      BY <1>2, <1>5, Asks
    <3> QED
      BY <3>1, <2>1, Requests DEF Calls
  <2> QED
    BY <2>1, <2>2 DEF Merging
<1>6. Batched(q, c, R2, L2)
  BY <1>4, <1>5 DEF Batched, Merging
<1> QED
  BY <1>2, <1>3, <1>6 DEF CallOK

\* Versions only grow, and grow when the row changes.
Moves(R, R2) ==
  \A k \in Key : R2[k] = R[k] \/ R2[k].version > R[k].version

LEMMA RacesKept ==
  ASSUME NEW c \in Calls, Form(c), c.phase # "new",
         NEW R \in [Key -> Row], NEW R2 \in [Key -> Row], Races(c, R), Moves(R, R2)
  PROVE  Races(c, R2)
PROOF
<1> DEFINE k == Ask(c).items[1].key
<1> DEFINE n == c.first + c.attempt
<1>0. CASE Ask(c).op = "batch"
  <2>1. c.phase \notin {"read", "write", "insert", "backoff"} /\ c.answer # "created"
    BY <1>0 DEF Form, Accepted
  <2> QED
    BY <2>1 DEF Races
<1> SUFFICES ASSUME Ask(c).op # "batch" PROVE Races(c, R2)
  BY <1>0
<1>1. k \in Key
  <2>1. Ask(c) \in Request
    BY Asks
  <2>2. Len(Ask(c).items) = 1
    BY <2>1, Requests
  <2>3. 1 \in 1..Len(Ask(c).items)
    BY <2>2
  <2> QED
    BY <2>1, <2>3, Requests
<1>2. PICK v \in Nat : v = R[k].version
  BY <1>1 DEF Row
<1>3. PICK v2 \in Nat : v2 = R2[k].version
  BY <1>1 DEF Row
<1>4. R2[k] = R[k] \/ v2 > v
  BY <1>1, <1>2, <1>3 DEF Moves
<1>5. v2 >= v
  BY <1>2, <1>3, <1>4
<1>6. PICK m \in Nat : m = n
  BY LimitsAssumption DEF Calls
<1>7. PICK s \in Nat : s = c.seen.version
  BY DEF Calls, Row
<1>8. c.phase = "read" => v2 >= m - 1
  BY <1>2, <1>5, <1>6 DEF Races
<1>9. c.phase = "backoff" => v2 >= m
  BY <1>2, <1>5, <1>6 DEF Races
<1>10. c.phase \in {"write", "insert"} =>
        s >= m - 1 /\ v2 >= s /\ (v2 = s => R2[k] = c.seen)
  <2> SUFFICES ASSUME c.phase \in {"write", "insert"}
               PROVE  s >= m - 1 /\ v2 >= s /\ (v2 = s => R2[k] = c.seen)
    OBVIOUS
  <2>1. s >= m - 1 /\ v >= s /\ (v = s => R[k] = c.seen)
    BY <1>2, <1>6, <1>7 DEF Races
  <2>2. v2 = s => v2 = v
    BY <1>5, <2>1
  <2> QED
    BY <1>4, <1>5, <2>1, <2>2
<1>11. c.answer = "created" => v2 > 0
  BY <1>2, <1>5 DEF Races
<1> QED
  BY <1>3, <1>6, <1>7, <1>8, <1>9, <1>10, <1>11 DEF Races

Replaces(C, q, d, D) == D = [C EXCEPT ![q] = d]

LEMMA StoredGrows ==
  ASSUME NEW C \in [Call -> Calls], NEW q \in Call, C[q].phase # "done", NEW d, NEW D,
         Replaces(C, q, d, D), NEW n \in Nat, NEW n2 \in Nat, n2 >= n
  PROVE  Stored(C, n) \subseteq Stored(D, n2)
PROOF
<1> USE DEF Replaces
<1> SUFFICES ASSUME NEW t \in Token, MayBeStored(C[t[1]], n) PROVE MayBeStored(D[t[1]], n2)
  BY DEF Stored
<1>1. t[1] \in Call /\ t[1] # q
  BY DEF Token, MayBeStored
<1>2. D[t[1]] = C[t[1]]
  BY <1>1
<1>3. n > 0 => n2 > 0
  OBVIOUS
<1> QED
  BY <1>2, <1>3 DEF MayBeStored

LEMMA AnswersMove ==
  ASSUME NEW C \in [Call -> Calls], NEW q \in Call, C[q].answer \notin Accepted, NEW d, NEW D,
         Replaces(C, q, d, D), NEW k
  PROVE  /\ AnsweredIn(D, k) = AnsweredIn(C, k) \cup On(q, d, k)
         /\ AnsweredIn(C, k) \cap On(q, d, k) = {}
PROOF
<1> USE DEF Replaces
<1>1. \A c \in Call : c # q => D[c] = C[c]
  OBVIOUS
<1>2. D[q] = d
  OBVIOUS
<1>3. On(q, C[q], k) = {}
  BY DEF On
<1>4. \A c, e : \A t \in On(c, e, k) : t[1] = c
  BY DEF On
<1>5. \A t \in AnsweredIn(C, k) : t[1] # q
  BY <1>3, <1>4 DEF AnsweredIn
<1>6. \A t \in On(q, d, k) : t[1] = q
  BY <1>4
<1>7. AnsweredIn(D, k) \subseteq AnsweredIn(C, k) \cup On(q, d, k)
  BY <1>1, <1>2 DEF AnsweredIn
<1>8. AnsweredIn(C, k) \subseteq AnsweredIn(D, k)
  <2> SUFFICES ASSUME NEW c \in Call, NEW t \in On(c, C[c], k) PROVE t \in AnsweredIn(D, k)
    BY DEF AnsweredIn
  <2>1. c # q
    BY <1>3
  <2> QED
    BY <1>1, <2>1 DEF AnsweredIn
<1>9. On(q, d, k) \subseteq AnsweredIn(D, k)
  BY <1>2 DEF AnsweredIn
<1> QED
  BY <1>5, <1>6, <1>7, <1>8, <1>9

\* What the properties say of answers is what the invariant says.
LEMMA AnswersAre ==
  ASSUME CallsOK, StateOK, NEW k
  PROVE  AnswersOn(k) = AnsweredIn(call, k)
PROOF
<1>1. \A q \in Call : call[q].answer \in Accepted => call[q].phase # "new"
  BY DEF CallsOK, CallOK, Form, Accepted
<1>2. ASSUME NEW t \in AnswersOn(k) PROVE t \in AnsweredIn(call, k)
  <2>0. PICK q \in Call : t \in Tokens(q)
    BY <1>2 DEF AnswersOn
  <2>1. PICK i \in DOMAIN Ask(call[q]).items : t = <<q, i>>
    BY <2>0 DEF Tokens, Req, Ask
  <2>2. t[1] = q /\ t[2] = i
    BY <2>1
  <2>3. t \in On(q, call[q], k)
    BY <1>2, <2>1, <2>2 DEF AnswersOn, On, Req, Ask
  <2> QED
    BY <2>3 DEF AnsweredIn
<1>3. ASSUME NEW q \in Call, NEW t \in On(q, call[q], k) PROVE t \in AnswersOn(k)
  <2>1. PICK i \in DOMAIN Ask(call[q]).items :
          /\ t = <<q, i>> /\ call[q].answer \in Accepted /\ Ask(call[q]).items[i].key = k
          /\ call[q].answer = "flushed" => i \in call[q].found
    BY <1>3 DEF On
  <2>2. Arrived(q)
    BY <1>1, <2>1 DEF Arrived
  <2>3. t[1] = q /\ t[2] = i /\ t \in Tokens(q)
    BY <2>1 DEF Tokens, Req, Ask
  <2> QED
    BY <2>1, <2>2, <2>3 DEF AnswersOn, Req, Ask
<1> QED
  BY <1>2, <1>3 DEF AnsweredIn

LEMMA DurableKept ==
  ASSUME NEW q \in Call, NEW c \in Calls, c.phase # "new", Form(c), Listed(c),
         NEW R, NEW R2, NEW E, NEW E2, Durable(q, c, R, E),
         \A k \in Key : R[k].data \cup E[k] \subseteq R2[k].data \cup E2[k]
  PROVE  Durable(q, c, R2, E2)
PROOF
<1>1. Ask(c) \in Request
  BY Asks
<1>2. \A i \in 1..Len(Ask(c).items) : Ask(c).items[i].key \in Key
  BY <1>1, Requests
<1>3. c.answer \in Accepted \ {"flushed"} => 1 \in 1..Len(Ask(c).items)
  <2>1. Ask(c).op # "batch" => Len(Ask(c).items) = 1
    BY <1>1, Requests
  <2>2. c.answer \in Accepted \ {"flushed"} => Ask(c).op # "batch"
    BY ONLY Form(c) DEF Form
  <2>3. Len(Ask(c).items) = 1 => 1 \in 1..Len(Ask(c).items)
    OBVIOUS
  <2> QED
    BY ONLY <2>1, <2>2, <2>3, Zenon
<1>4. c.found \subseteq 1..Len(Ask(c).items)
  <2>1. c.at \in Nat /\ Len(Ask(c).items) \in Nat
    BY <1>1, Requests DEF Calls
  <2> QED
    BY <2>1 DEF Listed
<1> QED
  BY <1>2, <1>3, <1>4 DEF Durable, Accepted

-----------------------------------------------------------------------------
(* A step of one call *)

LEMMA CallsMove ==
  ASSUME StateOK, CallsOK, StateOK', NEW q \in Call, NEW d \in Calls,
         call' = [call EXCEPT ![q] = d],
         \A k \in Key : lock[k] \notin {NoCall, q} => lock'[k] = lock[k] /\ rows'[k] = rows[k],
         CallOK(q, d, rows', lock')
  PROVE  CallsOK'
PROOF
<1> SUFFICES ASSUME NEW c \in Call PROVE CallOK(c, call'[c], rows', lock')
  BY DEF CallsOK
<1>1. CASE c = q
  <2>1. call'[c] = d
    BY <1>1 DEF StateOK
  <2> QED
    BY <1>1, <2>1
<1>2. CASE c # q
  <2>1. call'[c] = call[c] /\ call[c] \in Calls
    BY <1>2 DEF StateOK
  <2>2. rows \in [Key -> Row] /\ rows' \in [Key -> Row]
    BY DEF StateOK
  <2>3. CallOK(c, call[c], rows, lock)
    BY DEF CallsOK
  <2>4. \A k \in Key : lock[k] = c => lock'[k] = c /\ rows'[k] = rows[k]
    BY <1>2, CallAssumption
  <2>5. CallOK(c, call[c], rows', lock')
    BY <2>1, <2>2, <2>3, <2>4, CallKept
  <2> QED
    BY <2>1, <2>5
<1> QED
  BY <1>1, <1>2

LEMMA RacesMove ==
  ASSUME StateOK, CallsOK, RacesOK, StateOK', NEW q \in Call, NEW d \in Calls,
         call' = [call EXCEPT ![q] = d], Moves(rows, rows'), Races(d, rows')
  PROVE  RacesOK'
PROOF
<1> SUFFICES ASSUME NEW c \in Call, call'[c].phase # "new" PROVE Races(call'[c], rows')
  BY DEF RacesOK
<1>1. CASE c = q
  BY <1>1 DEF StateOK
<1>2. CASE c # q
  <2>1. call'[c] = call[c] /\ call[c] \in Calls
    BY <1>2 DEF StateOK
  <2>2. rows \in [Key -> Row] /\ rows' \in [Key -> Row]
    BY DEF StateOK
  <2>3. Form(call[c]) /\ Races(call[c], rows) /\ call[c].phase # "new"
    BY <2>1 DEF CallsOK, CallOK, RacesOK
  <2>4. Races(call[c], rows')
    BY <2>1, <2>2, <2>3, RacesKept
  <2> QED
    BY <2>1, <2>4
<1> QED
  BY <1>1, <1>2

LEMMA DurableMove ==
  ASSUME StateOK, CallsOK, DurableOK, StateOK', NEW q \in Call, NEW d \in Calls,
         call' = [call EXCEPT ![q] = d], Durable(q, d, rows', erased'),
         \A k \in Key : rows[k].data \cup erased[k] \subseteq rows'[k].data \cup erased'[k]
  PROVE  DurableOK'
PROOF
<1> SUFFICES ASSUME NEW c \in Call, call'[c].phase # "new"
             PROVE  Durable(c, call'[c], rows', erased')
  BY DEF DurableOK
<1>1. CASE c = q
  BY <1>1 DEF StateOK
<1>2. CASE c # q
  <2>1. call'[c] = call[c] /\ call[c] \in Calls
    BY <1>2 DEF StateOK
  <2>2. Form(call[c]) /\ Listed(call[c]) /\ Durable(c, call[c], rows, erased) /\ call[c].phase # "new"
    BY <2>1 DEF CallsOK, CallOK, DurableOK
  <2>3. Durable(c, call[c], rows', erased')
    BY <2>1, <2>2, DurableKept
  <2> QED
    BY <2>1, <2>3
<1> QED
  BY <1>1, <1>2

\* Who creates a row finds none, so that nobody created it before.
LEMMA CreatorMove ==
  ASSUME StateOK, RacesOK, CallsOK, OneCreator, NEW q \in Call, NEW d \in Calls,
         call' = [call EXCEPT ![q] = d],
         d.answer = "created" => rows[Ask(d).items[1].key].version = 0
  PROVE  OneCreator'
PROOF
<1>1. call'[q] = d /\ \A c \in Call : c # q => call'[c] = call[c]
  BY DEF StateOK
<1>2. \A c \in Call : K(c) = Ask(call[c]).items[1].key
  BY DEF K, Item1, Req, Ask
<1>3. \A c \in Call : K(c)' = Ask(call'[c]).items[1].key
  BY DEF K, Item1, Req, Ask
<1>4. \A c \in Call : call[c].answer = "created" => call[c].phase # "new"
  BY DEF CallsOK, CallOK, Form
<1>5. ASSUME NEW c \in Call, call[c].answer = "created"
      PROVE  rows[Ask(call[c]).items[1].key].version # 0
  <2>1. Races(call[c], rows)
    BY <1>4, <1>5 DEF RacesOK
  <2> QED
    BY <1>5, <2>1 DEF Races
<1> SUFFICES ASSUME NEW c \in Call, NEW e \in Call, call'[c].answer = "created",
                    call'[e].answer = "created", K(c)' = K(e)'
             PROVE  c = e
  BY DEF OneCreator
<1>6. CASE c # q /\ e # q
  BY <1>1, <1>2, <1>3, <1>6 DEF OneCreator
<1>7. CASE c = q /\ e # q
  BY <1>1, <1>3, <1>5, <1>7
<1>8. CASE c # q /\ e = q
  BY <1>1, <1>3, <1>5, <1>8
<1> QED
  BY <1>6, <1>7, <1>8

\* What a call that is not a batch has read stays accounted for.
LEMMA SourcesMove ==
  ASSUME StateOK, Sources, StateOK', NEW q \in Call, NEW d \in Calls, d.phase # "new",
         call[q].phase # "done", call' = [call EXCEPT ![q] = d], lost' >= lost,
         Ask(d).op # "batch" => d.seen.data \subseteq Stored(call', lost'),
         \A k \in Key : rows'[k].data \cup erased'[k]
                          \subseteq rows[k].data \cup erased[k] \cup Stored(call', lost')
  PROVE  Sources'
PROOF
<1>1. lost \in Nat /\ lost' \in Nat /\ call \in [Call -> Calls]
  BY LimitsAssumption DEF StateOK
<1>2. Stored(call, lost) \subseteq Stored(call', lost')
  <2>1. Replaces(call, q, d, call')
    BY DEF Replaces
  <2> QED
    BY <1>1, <2>1, StoredGrows
<1>3. \A k \in Key : rows'[k].data \cup erased'[k] \subseteq Stored(call', lost')
  BY <1>2 DEF Sources
<1>4. ASSUME NEW c \in Call, call'[c].phase # "new", Ask(call'[c]).op # "batch"
      PROVE  call'[c].seen.data \subseteq Stored(call', lost')
  <2>1. CASE c = q
    BY <1>1, <1>4, <2>1
  <2>2. CASE c # q
    <3>1. call'[c] = call[c]
      BY <1>1, <2>2
    <3> QED
      BY <1>2, <1>4, <3>1 DEF Sources
  <2> QED
    BY <2>1, <2>2
<1> QED
  BY <1>3, <1>4 DEF Sources

-----------------------------------------------------------------------------
(* Records of calls, field by field *)

Rec(phase, request, attempt, seen, first, at, pending, found, answer) ==
  [phase |-> phase, request |-> request, attempt |-> attempt, seen |-> seen, first |-> first,
   at |-> at, pending |-> pending, found |-> found, answer |-> answer]

LEMMA PhaseSet ==
  ASSUME NEW c \in Calls, NEW p
  PROVE  [c EXCEPT !.phase = p]
           = Rec(p, c.request, c.attempt, c.seen, c.first, c.at, c.pending, c.found, c.answer)
PROOF
<1>1. PICK g, r, m, s, f, t, w, h, a :
        c = [phase |-> g, request |-> r, attempt |-> m, seen |-> s, first |-> f,
         at |-> t, pending |-> w, found |-> h, answer |-> a]
  BY DEF Calls
<1>2. PICK d1 : d1 = [c EXCEPT !.phase = p]
  OBVIOUS
<1>3. d1 = [phase |-> p, request |-> r, attempt |-> m, seen |-> s, first |-> f,
         at |-> t, pending |-> w, found |-> h, answer |-> a]
  BY ONLY <1>1, <1>2
<1>4. c.at = t /\ c.attempt = m
  BY ONLY <1>1
<1>5. [c EXCEPT !.phase = p] = d1
  BY ONLY <1>2, <1>4, Zenon
<1>6. d1 = Rec(p, c.request, c.attempt, c.seen, c.first, c.at, c.pending, c.found, c.answer)
  BY <1>1, <1>3 DEF Rec
<1> QED
  BY ONLY <1>5, <1>6, Zenon

LEMMA AtSet ==
  ASSUME NEW c \in Calls
  PROVE  [c EXCEPT !.at = @ + 1]
           = Rec(c.phase, c.request, c.attempt, c.seen, c.first, c.at + 1, c.pending, c.found, c.answer)
PROOF
<1>1. PICK g, r, m, s, f, t, w, h, a :
        c = [phase |-> g, request |-> r, attempt |-> m, seen |-> s, first |-> f,
         at |-> t, pending |-> w, found |-> h, answer |-> a]
  BY DEF Calls
<1>2. PICK d1 : d1 = [c EXCEPT !.at = t + 1]
  OBVIOUS
<1>3. d1 = [phase |-> g, request |-> r, attempt |-> m, seen |-> s, first |-> f,
         at |-> t + 1, pending |-> w, found |-> h, answer |-> a]
  BY ONLY <1>1, <1>2
<1>4. c.at = t /\ c.attempt = m
  BY ONLY <1>1
<1>5. [c EXCEPT !.at = @ + 1] = d1
  BY ONLY <1>2, <1>4, Zenon
<1>6. d1 = Rec(c.phase, c.request, c.attempt, c.seen, c.first, c.at + 1, c.pending, c.found, c.answer)
  BY <1>1, <1>3 DEF Rec
<1> QED
  BY ONLY <1>5, <1>6, Zenon

LEMMA AnswerSet ==
  ASSUME NEW c \in Calls, NEW p, NEW z
  PROVE  [c EXCEPT !.phase = p, !.answer = z]
           = Rec(p, c.request, c.attempt, c.seen, c.first, c.at, c.pending, c.found, z)
PROOF
<1>1. PICK g, r, m, s, f, t, w, h, a :
        c = [phase |-> g, request |-> r, attempt |-> m, seen |-> s, first |-> f,
         at |-> t, pending |-> w, found |-> h, answer |-> a]
  BY DEF Calls
<1>2. PICK d1 : d1 = [c EXCEPT !.phase = p]
  OBVIOUS
<1>3. d1 = [phase |-> p, request |-> r, attempt |-> m, seen |-> s, first |-> f,
         at |-> t, pending |-> w, found |-> h, answer |-> a]
  BY ONLY <1>1, <1>2
<1>4. PICK d2 : d2 = [d1 EXCEPT !.answer = z]
  OBVIOUS
<1>5. d2 = [phase |-> p, request |-> r, attempt |-> m, seen |-> s, first |-> f,
         at |-> t, pending |-> w, found |-> h, answer |-> z]
  BY ONLY <1>3, <1>4
<1>6. c.at = t /\ c.attempt = m
  BY ONLY <1>1
<1>7. [c EXCEPT !.phase = p, !.answer = z] = d2
  BY ONLY <1>2, <1>4, <1>6, Zenon
<1>8. d2 = Rec(p, c.request, c.attempt, c.seen, c.first, c.at, c.pending, c.found, z)
  BY <1>1, <1>5 DEF Rec
<1> QED
  BY ONLY <1>7, <1>8, Zenon

LEMMA AttemptSet ==
  ASSUME NEW c \in Calls, NEW p
  PROVE  [c EXCEPT !.phase = p, !.attempt = @ + 1]
           = Rec(p, c.request, c.attempt + 1, c.seen, c.first, c.at, c.pending, c.found, c.answer)
PROOF
<1>1. PICK g, r, m, s, f, t, w, h, a :
        c = [phase |-> g, request |-> r, attempt |-> m, seen |-> s, first |-> f,
         at |-> t, pending |-> w, found |-> h, answer |-> a]
  BY DEF Calls
<1>2. PICK d1 : d1 = [c EXCEPT !.phase = p]
  OBVIOUS
<1>3. d1 = [phase |-> p, request |-> r, attempt |-> m, seen |-> s, first |-> f,
         at |-> t, pending |-> w, found |-> h, answer |-> a]
  BY ONLY <1>1, <1>2
<1>4. PICK d2 : d2 = [d1 EXCEPT !.attempt = m + 1]
  OBVIOUS
<1>5. d2 = [phase |-> p, request |-> r, attempt |-> m + 1, seen |-> s, first |-> f,
         at |-> t, pending |-> w, found |-> h, answer |-> a]
  BY ONLY <1>3, <1>4
<1>6. c.at = t /\ c.attempt = m
  BY ONLY <1>1
<1>7. [c EXCEPT !.phase = p, !.attempt = @ + 1] = d2
  BY ONLY <1>2, <1>4, <1>6, Zenon
<1>8. d2 = Rec(p, c.request, c.attempt + 1, c.seen, c.first, c.at, c.pending, c.found, c.answer)
  BY <1>1, <1>5 DEF Rec
<1> QED
  BY ONLY <1>7, <1>8, Zenon

LEMMA SeenSet ==
  ASSUME NEW c \in Calls, NEW p, NEW y
  PROVE  [c EXCEPT !.phase = p, !.seen = y]
           = Rec(p, c.request, c.attempt, y, c.first, c.at, c.pending, c.found, c.answer)
PROOF
<1>1. PICK g, r, m, s, f, t, w, h, a :
        c = [phase |-> g, request |-> r, attempt |-> m, seen |-> s, first |-> f,
         at |-> t, pending |-> w, found |-> h, answer |-> a]
  BY DEF Calls
<1>2. PICK d1 : d1 = [c EXCEPT !.phase = p]
  OBVIOUS
<1>3. d1 = [phase |-> p, request |-> r, attempt |-> m, seen |-> s, first |-> f,
         at |-> t, pending |-> w, found |-> h, answer |-> a]
  BY ONLY <1>1, <1>2
<1>4. PICK d2 : d2 = [d1 EXCEPT !.seen = y]
  OBVIOUS
<1>5. d2 = [phase |-> p, request |-> r, attempt |-> m, seen |-> y, first |-> f,
         at |-> t, pending |-> w, found |-> h, answer |-> a]
  BY ONLY <1>3, <1>4
<1>6. c.at = t /\ c.attempt = m
  BY ONLY <1>1
<1>7. [c EXCEPT !.phase = p, !.seen = y] = d2
  BY ONLY <1>2, <1>4, <1>6, Zenon
<1>8. d2 = Rec(p, c.request, c.attempt, y, c.first, c.at, c.pending, c.found, c.answer)
  BY <1>1, <1>5 DEF Rec
<1> QED
  BY ONLY <1>7, <1>8, Zenon

LEMMA MergeSet ==
  ASSUME NEW c \in Calls, NEW p, NEW x, NEW y
  PROVE  [c EXCEPT !.phase = p, !.at = @ + 1, !.found = x, !.pending = y]
           = Rec(p, c.request, c.attempt, c.seen, c.first, c.at + 1, y, x, c.answer)
PROOF
<1>1. PICK g, r, m, s, f, t, w, h, a :
        c = [phase |-> g, request |-> r, attempt |-> m, seen |-> s, first |-> f,
         at |-> t, pending |-> w, found |-> h, answer |-> a]
  BY DEF Calls
<1>2. PICK d1 : d1 = [c EXCEPT !.phase = p]
  OBVIOUS
<1>3. d1 = [phase |-> p, request |-> r, attempt |-> m, seen |-> s, first |-> f,
         at |-> t, pending |-> w, found |-> h, answer |-> a]
  BY ONLY <1>1, <1>2
<1>4. PICK d2 : d2 = [d1 EXCEPT !.at = t + 1]
  OBVIOUS
<1>5. d2 = [phase |-> p, request |-> r, attempt |-> m, seen |-> s, first |-> f,
         at |-> t + 1, pending |-> w, found |-> h, answer |-> a]
  BY ONLY <1>3, <1>4
<1>6. PICK d3 : d3 = [d2 EXCEPT !.found = x]
  OBVIOUS
<1>7. d3 = [phase |-> p, request |-> r, attempt |-> m, seen |-> s, first |-> f,
         at |-> t + 1, pending |-> w, found |-> x, answer |-> a]
  BY ONLY <1>5, <1>6
<1>8. PICK d4 : d4 = [d3 EXCEPT !.pending = y]
  OBVIOUS
<1>9. d4 = [phase |-> p, request |-> r, attempt |-> m, seen |-> s, first |-> f,
         at |-> t + 1, pending |-> y, found |-> x, answer |-> a]
  BY ONLY <1>7, <1>8
<1>10. c.at = t /\ c.attempt = m
  BY ONLY <1>1
<1>11. [c EXCEPT !.phase = p, !.at = @ + 1, !.found = x, !.pending = y] = d4
  BY ONLY <1>2, <1>4, <1>6, <1>8, <1>10, Zenon
<1>12. d4 = Rec(p, c.request, c.attempt, c.seen, c.first, c.at + 1, y, x, c.answer)
  BY <1>1, <1>9 DEF Rec
<1> QED
  BY ONLY <1>11, <1>12, Zenon
LEMMA ReadSet ==
  ASSUME NEW c \in Calls, NEW y, NEW x
  PROVE  [c EXCEPT !.seen = y, !.first = x]
           = Rec(c.phase, c.request, c.attempt, y, x, c.at, c.pending, c.found, c.answer)
PROOF
<1>1. PICK g, r, m, s, f, t, w, h, a :
        c = [phase |-> g, request |-> r, attempt |-> m, seen |-> s, first |-> f,
         at |-> t, pending |-> w, found |-> h, answer |-> a]
  BY DEF Calls
<1>2. PICK d1 : d1 = [c EXCEPT !.seen = y]
  OBVIOUS
<1>3. d1 = [phase |-> g, request |-> r, attempt |-> m, seen |-> y, first |-> f,
         at |-> t, pending |-> w, found |-> h, answer |-> a]
  BY ONLY <1>1, <1>2
<1>4. PICK d2 : d2 = [d1 EXCEPT !.first = x]
  OBVIOUS
<1>5. d2 = [phase |-> g, request |-> r, attempt |-> m, seen |-> y, first |-> x,
         at |-> t, pending |-> w, found |-> h, answer |-> a]
  BY ONLY <1>3, <1>4
<1>6. c.at = t /\ c.attempt = m
  BY ONLY <1>1
<1>7. [c EXCEPT !.seen = y, !.first = x] = d2
  BY ONLY <1>2, <1>4, <1>6, Zenon
<1>8. d2 = Rec(c.phase, c.request, c.attempt, y, x, c.at, c.pending, c.found, c.answer)
  BY <1>1, <1>5 DEF Rec
<1> QED
  BY ONLY <1>7, <1>8, Zenon
LEMMA PhaseOf ==
  ASSUME NEW g, NEW r, NEW m, NEW s, NEW f, NEW t, NEW w, NEW h, NEW a, NEW p
  PROVE  [Rec(g, r, m, s, f, t, w, h, a) EXCEPT !.phase = p] = Rec(p, r, m, s, f, t, w, h, a)
PROOF
  BY DEF Rec

-----------------------------------------------------------------------------
(* Steps that only the call itself notices *)

Open == {"lock", "merge", "rollback"}

LEMMA Here ==
  ASSUME DocsSafe, NEW q \in Call, call[q].phase # "new"
  PROVE  /\ call[q] \in Calls /\ CallOK(q, call[q], rows, lock)
         /\ Form(call[q]) /\ Listed(call[q]) /\ Batched(q, call[q], rows, lock)
         /\ Req(q) = Ask(call[q]) /\ Req(q) \in Request
         /\ Req(q).op # "batch" => K(q) = Ask(call[q]).items[1].key /\ K(q) \in Key
                                     /\ Item1(q).stamp \in Stamp
PROOF
<1>1. call[q] \in Calls /\ CallOK(q, call[q], rows, lock)
  BY DEF DocsSafe, StateOK, CallsOK
<1>2. Form(call[q]) /\ Listed(call[q]) /\ Batched(q, call[q], rows, lock)
  BY <1>1 DEF CallOK
<1>3. Req(q) = Ask(call[q])
  BY DEF Req, Ask
<1>4. Req(q) \in Request
  BY <1>1, <1>2, <1>3, Asks
<1>5. ASSUME Req(q).op # "batch"
      PROVE  K(q) = Ask(call[q]).items[1].key /\ K(q) \in Key /\ Item1(q).stamp \in Stamp
  <2>1. Len(Req(q).items) = 1
    BY <1>4, <1>5, Requests
  <2>2. 1 \in 1..Len(Req(q).items)
    BY <2>1
  <2>3. Req(q).items[1].key \in Key /\ Req(q).items[1].stamp \in Stamp
    BY <1>4, <2>2, Requests
  <2> QED
    BY <1>3, <2>3 DEF K, Item1
<1> QED
  BY <1>1, <1>2, <1>3, <1>4, <1>5

LEMMA SoloStep ==
  ASSUME DocsSafe, NEW q \in Call, NEW d \in Calls, UNCHANGED <<rows, background, erased, lost>>,
         call' = [call EXCEPT ![q] = d], call[q].phase # "done", d.phase # "new",
         d.answer \notin Accepted,
         lock' \in [Key -> Call \cup {NoCall}],
         \A k \in Key : lock'[k] # lock[k] => {lock[k], lock'[k]} \subseteq {NoCall, q} /\ rows[k].version > 0,
         \A k \in Key : lock'[k] = q => d.phase \in Open,
         CallOK(q, d, rows, lock'),
         Ask(d).op # "batch" => d.seen.data \subseteq Stored(call, lost),
         resets = 0 => Races(d, rows)
  PROVE  DocsSafe'
PROOF
<1>0. Replaces(call, q, d, call')
  BY DEF Replaces
<1>1. /\ rows' = rows /\ erased' = erased /\ lost' = lost /\ resets' = resets
      /\ now' = now /\ reset' = reset
  BY DEF background
<1>2. StateOK
  BY DEF DocsSafe
<1>3. call' \in [Call -> Calls] /\ call \in [Call -> Calls]
  BY <1>2 DEF StateOK
<1>4. StateOK'
  BY <1>1, <1>2, <1>3 DEF StateOK
<1>5. RowsOK'
  <2> SUFFICES ASSUME NEW k \in Key
               PROVE  /\ rows[k].version = 0 => rows[k] = NoRow
                      /\ lock'[k] # NoCall => rows[k].version > 0 /\ call'[lock'[k]].phase \in Open
    BY <1>1 DEF RowsOK, Open
  <2>1. /\ rows[k].version = 0 => rows[k] = NoRow
        /\ lock[k] # NoCall => rows[k].version > 0 /\ call[lock[k]].phase \in Open
    BY DEF DocsSafe, RowsOK, Open
  <2>2. CASE lock'[k] = q
    <3>1. call'[q].phase \in Open
      BY <1>3, <2>2
    <3>2. rows[k].version > 0
      BY <2>1, <2>2, CallAssumption
    <3> QED
      BY <2>1, <2>2, <3>1, <3>2
  <2>3. CASE lock'[k] # q
    <3>1. lock'[k] # NoCall => lock'[k] = lock[k]
      BY <2>3
    <3>2. lock'[k] # NoCall => lock'[k] \in Call /\ call'[lock'[k]] = call[lock'[k]]
      BY <1>3, <2>3
    <3> QED
      BY <2>1, <3>1, <3>2
  <2> QED
    BY <2>2, <2>3
<1>6. CallsOK'
  <2>1. \A k \in Key : lock[k] \notin {NoCall, q} => lock'[k] = lock[k] /\ rows'[k] = rows[k]
    BY <1>1
  <2>2. CallOK(q, d, rows', lock')
    BY <1>1
  <2> QED
    BY <1>2, <1>4, <2>1, <2>2, CallsMove DEF DocsSafe
<1>7. call[q].answer = "none"
  BY <1>3 DEF DocsSafe, CallsOK, CallOK, Form
<1>8. \A k : AnsweredIn(call', k) = AnsweredIn(call, k)
  <2> TAKE k
  <2>1. call[q].answer \notin Accepted
    BY <1>7 DEF Accepted
  <2>2. AnsweredIn(call', k) = AnsweredIn(call, k) \cup On(q, d, k)
    BY ONLY <1>0, <1>3, <2>1, AnswersMove, q \in Call
  <2>3. On(q, d, k) = {}
    BY DEF On
  <2> QED
    BY <2>2, <2>3
<1>9. AnswersFinite'
  BY <1>8 DEF AnswersFinite, DocsSafe
<1>10. Stored(call, lost) \subseteq Stored(call', lost')
  <2>1. lost \in Nat /\ lost' \in Nat /\ lost' >= lost
    BY <1>1, <1>2, LimitsAssumption DEF StateOK
  <2> QED
    BY <1>0, <1>3, <2>1, StoredGrows
<1>11. Sources'
  <2>1. Sources
    BY DEF DocsSafe
  <2>2. lost' >= lost
    BY <1>1, <1>2, LimitsAssumption DEF StateOK
  <2>3. Ask(d).op # "batch" => d.seen.data \subseteq Stored(call', lost')
    BY <1>10
  <2>4. \A k \in Key : rows'[k].data \cup erased'[k]
                         \subseteq rows[k].data \cup erased[k] \cup Stored(call', lost')
    BY <1>1
  <2> QED
    BY <1>2, <1>4, <2>1, <2>2, <2>3, <2>4, SourcesMove
<1>12. ASSUME resets = 0 PROVE Lasting'
  <2>1. RacesOK /\ DurableOK /\ CountsOK /\ NothingErasedReturns /\ OneCreator
    BY <1>12 DEF DocsSafe, Lasting
  <2>2. Moves(rows, rows')
    BY <1>1 DEF Moves
  <2>3. RacesOK'
    BY <1>1, <1>2, <1>4, <1>6, <1>12, <2>1, <2>2, RacesMove DEF DocsSafe
  <2>4. Durable(q, d, rows', erased')
    BY DEF Durable, Accepted
  <2>5. DurableOK'
    BY <1>1, <1>2, <1>4, <2>1, <2>4, DurableMove DEF DocsSafe
  <2>6. CountsOK'
    BY <1>1, <1>8, <2>1 DEF CountsOK
  <2>7. NothingErasedReturns'
    BY <1>1, <2>1 DEF NothingErasedReturns
  <2>8. OneCreator'
    <3>1. d.answer # "created"
      BY DEF Accepted
    <3> QED
      BY <1>2, <2>1, <3>1, CreatorMove DEF DocsSafe
  <2> QED
    BY <2>3, <2>5, <2>6, <2>7, <2>8 DEF Lasting
<1> QED
  BY <1>1, <1>4, <1>5, <1>6, <1>9, <1>11, <1>12 DEF DocsSafe

LEMMA QuietStep ==
  ASSUME DocsSafe, NEW q \in Call, NEW d \in Calls, UNCHANGED quiet,
         call' = [call EXCEPT ![q] = d], call[q].phase # "done", d.phase # "new",
         d.answer \notin Accepted \cup {"error"},
         call[q].phase \in Open => d.phase \in Open,
         CallOK(q, d, rows, lock),
         Ask(d).op # "batch" => d.seen.data \subseteq Stored(call, lost),
         resets = 0 => Races(d, rows)
  PROVE  DocsSafe'
PROOF
<1>1. UNCHANGED <<rows, background, erased, lost>> /\ lock' = lock
  BY DEF quiet, background
<1>2. lock' \in [Key -> Call \cup {NoCall}]
  BY <1>1 DEF DocsSafe, StateOK
<1>3. \A k \in Key : lock'[k] = q => d.phase \in Open
  BY <1>1, CallAssumption DEF DocsSafe, RowsOK, Open
<1> QED
  BY <1>1, <1>2, <1>3, SoloStep

\* The call goes on with the same items.
LEMMA SameBatch ==
  ASSUME NEW q \in Call, NEW c \in Calls, NEW d \in Calls, NEW R, NEW L, CallOK(q, c, R, L),
         c.phase \notin {"new", "done"}, d.phase # "new", Form(d),
         d.request = c.request, d.at = c.at, d.pending = c.pending, d.found = c.found,
         d.phase \in {"lock", "merge"} => c.phase \in {"lock", "merge"},
         Merging(q, d, R, L)
  PROVE  CallOK(q, d, R, L)
PROOF
<1>1. Ask(d) = Ask(c)
  BY DEF Ask
<1>2. Listed(d)
  BY <1>1 DEF Listed, CallOK, Named
<1>3. Holds(q, d, L)
  BY DEF Holds, CallOK
<1>4. ASSUME NEW k, NEW row, Progress(q, c, k, row) PROVE Progress(q, d, k, row)
  <2>1. Hits(q, d, k) = Hits(q, c, k) /\ View(d, k, row) = View(c, k, row) /\ Mine(q, d) = Mine(q, c)
    BY <1>1 DEF Hits, View, Mine
  <2>2. \A g : Walk(q, c, k, row, g) => Walk(q, d, k, row, g)
    BY <1>1, <2>1 DEF Walk
  <2> QED
    BY <1>1, <1>4, <2>1, <2>2 DEF Progress
<1>5. Batched(q, d, R, L)
  BY <1>4 DEF Batched, CallOK
<1> QED
  BY <1>2, <1>3, <1>5 DEF CallOK

LEMMA Continue ==
  ASSUME DocsSafe, UNCHANGED quiet, NEW q \in Call, call[q].phase \notin {"new", "done"},
         NEW p \in Phases, NEW m \in 1..MaxAttempts, NEW s \in Row, NEW f \in Nat, NEW a \in Answers,
         NEW d, d = Rec(p, call[q].request, m, s, f, call[q].at, call[q].pending, call[q].found, a),
         call' = [call EXCEPT ![q] = d], p # "new",
         a \notin Accepted \cup {"error"}, Form(d),
         p # "merge", p = "lock" => call[q].phase \in {"lock", "merge"},
         call[q].phase \in Open => p \in Open,
         Req(q).op # "batch" => s.data \subseteq Stored(call, lost),
         resets = 0 => Races(d, rows)
  PROVE  DocsSafe'
PROOF
<1> DEFINE c == call[q]
<1>1. c \in Calls /\ CallOK(q, c, rows, lock) /\ Req(q) = Ask(c)
  BY Here
<1>2. d \in Calls
  BY <1>1 DEF Calls, Rec
<1>3. d.phase = p /\ d.request = c.request /\ d.at = c.at /\ d.pending = c.pending
        /\ d.found = c.found /\ d.seen = s /\ d.answer = a
  BY DEF Rec
<1>4. Ask(d) = Ask(c)
  BY <1>3 DEF Ask
<1>5. Merging(q, d, rows, lock)
  BY <1>3 DEF Merging
<1>6. CallOK(q, d, rows, lock)
  <2>1. d.phase \in {"lock", "merge"} => c.phase \in {"lock", "merge"}
    BY <1>3
  <2>2. c.phase \notin {"new", "done"} /\ d.phase # "new"
    BY <1>3
  <2> HIDE DEF c
  <2> QED
    BY ONLY <1>1, <1>2, <1>3, <1>5, <2>1, <2>2, SameBatch, q \in Call, Form(d)
<1> QED
  BY <1>1, <1>2, <1>3, <1>4, <1>6, QuietStep

LEMMA ArriveSafe ==
  ASSUME DocsSafe, NEW q \in Call, Arrive(q)
  PROVE  DocsSafe'
PROOF
<1>1. PICK r \in Request :
        Goes(q, [New EXCEPT !.request = <<r>>,
                            !.phase = IF r.op = "batch" THEN "lock"
                                      ELSE IF r.op \in {"sync", "profile"} THEN "read" ELSE r.op])
  BY DEF Arrive
<1>2. PICK p : p = IF r.op = "batch" THEN "lock"
                   ELSE IF r.op \in {"sync", "profile"} THEN "read" ELSE r.op
  OBVIOUS
<1>3. PICK d : d = Rec(p, <<r>>, 1, NoRow, 0, 1, <<>>, {}, "none")
  OBVIOUS
<1>4. call' = [call EXCEPT ![q] = d]
  <2>1. PICK e : e = [New EXCEPT !.request = <<r>>]
    OBVIOUS
  <2>2. e = Rec("new", <<r>>, 1, NoRow, 0, 1, <<>>, {}, "none")
    BY <2>1 DEF New, Rec
  <2>3. [e EXCEPT !.phase = p] = d
    <3>1. [Rec("new", <<r>>, 1, NoRow, 0, 1, <<>>, {}, "none") EXCEPT !.phase = p]
            = Rec(p, <<r>>, 1, NoRow, 0, 1, <<>>, {}, "none")
      BY ONLY PhaseOf
    <3> QED
      BY ONLY <1>3, <2>2, <3>1
  <2>4. Goes(q, [e EXCEPT !.phase = p])
    BY ONLY <1>1, <1>2, <2>1, Zenon
  <2> QED
    BY <2>3, <2>4 DEF Goes
<1>5. /\ d.phase = p /\ d.request = <<r>> /\ d.attempt = 1 /\ d.seen = NoRow /\ d.first = 0
      /\ d.at = 1 /\ d.pending = <<>> /\ d.found = {} /\ d.answer = "none"
  BY <1>3 DEF Rec
<1>6. r.op \in {"sync", "profile", "put", "delete", "batch"} /\ Len(r.items) \in Nat
  BY Requests
<1>7. p \in Phases \ {"new", "done", "merge", "rollback", "write", "insert", "backoff"}
  BY <1>2, <1>6 DEF Phases
<1>8. d \in Calls
  <2>1. NoRow \in Row /\ 1 \in 1..MaxAttempts
    BY FirstRows, LimitsAssumption
  <2>2. <<>> \in Pending
    <3>1. <<>> \in [{} -> Row] /\ {} \in SUBSET Key
      OBVIOUS
    <3> QED
      BY <3>1 DEF Pending
  <2>3. "none" \in Answers
    BY DEF Answers
  <2> QED
    BY <1>3, <1>7, <2>1, <2>2, <2>3 DEF Calls, Rec
<1>9. Ask(d) = r
  BY <1>5 DEF Ask
<1>10. Form(d)
  <2>1. d.request # <<>>
    BY <1>5
  <2>2. p = "lock" => r.op = "batch"
    BY <1>2, <1>6
  <2>3. p = "read" => r.op \in {"sync", "profile"}
    BY <1>2, <1>6
  <2>4. p \in {"put", "delete"} => r.op = p
    BY <1>2, <1>6
  <2> QED
    BY <1>5, <1>7, <1>9, <2>1, <2>2, <2>3, <2>4 DEF Form, Accepted, Phases
<1>11. Listed(d)
  BY <1>5, <1>6, <1>9 DEF Listed, Named
<1>12. Holds(q, d, lock)
  BY <1>5 DEF Holds
<1>13. \A k \in Key : Progress(q, d, k, rows[k])
  BY <1>5, <1>7, <1>8, <1>11, Untouched DEF DocsSafe, StateOK
<1>14. CallOK(q, d, rows, lock)
  BY <1>5, <1>7, <1>10, <1>11, <1>12, <1>13 DEF CallOK, Batched, Merging
<1>15. call[q].phase = "new" /\ UNCHANGED quiet
  BY DEF Arrive
<1>16. Races(d, rows)
  <2>1. CASE p = "read"
    <3>1. r.op # "batch"
      BY <1>2, <1>6, <2>1
    <3>2. r.items[1].key \in Key
      <4>1. Len(r.items) = 1
        BY <3>1, Requests
      <4> QED
        BY <4>1, Requests
    <3>3. rows[r.items[1].key].version \in Nat
      BY <3>2 DEF DocsSafe, StateOK, Row
    <3>4. rows[r.items[1].key].version >= 0 + 1 - 1
      BY <3>3
    <3> QED
      BY <1>5, <1>9, <2>1, <3>4 DEF Races
  <2>2. CASE p # "read"
    BY <1>5, <1>7, <2>2 DEF Races
  <2> QED
    BY <2>1, <2>2
<1>17. d.seen.data \subseteq Stored(call, lost)
  BY <1>5, FirstRows
<1> QED
  BY <1>4, <1>5, <1>7, <1>8, <1>14, <1>15, <1>16, <1>17, QuietStep DEF Open, Accepted

\* An answer that nothing was stored.
LEMMA Declined ==
  ASSUME DocsSafe, UNCHANGED quiet, NEW q \in Call, call[q].phase \notin {"new", "done"} \cup Open,
         NEW a \in {"missing", "gone", "conflict"}, Goes(q, Answered(q, a))
  PROVE  DocsSafe'
PROOF
<1> DEFINE c == call[q]
<1>1. /\ c \in Calls /\ Form(c) /\ Req(q) = Ask(c)
  BY Here
<1>2. PICK d : d = Rec("done", c.request, c.attempt, c.seen, c.first, c.at, c.pending, c.found, a)
  OBVIOUS
<1>3. call' = [call EXCEPT ![q] = d]
  <2>1. Answered(q, a) = [c EXCEPT !.phase = "done", !.answer = a]
    BY DEF Answered
  <2>2. Answered(q, a) = d
    BY ONLY <1>1, <1>2, <2>1, AnswerSet
  <2> QED
    BY <2>2 DEF Goes
<1>4. d.phase = "done" /\ d.answer = a /\ d.request = c.request
  BY <1>2 DEF Rec
<1>5. Ask(d) = Ask(c)
  BY <1>4 DEF Ask
<1>6. Form(d)
  BY <1>1, <1>4, <1>5 DEF Form, Accepted
<1>7. Races(d, rows)
  BY <1>4 DEF Races
<1>8. Req(q).op # "batch" => c.seen.data \subseteq Stored(call, lost)
  BY <1>1 DEF DocsSafe, Sources
<1>9. "done" \in Phases /\ a \in Answers /\ a \notin Accepted \cup {"error"}
  BY DEF Phases, Answers, Accepted
<1>10. c.attempt \in 1..MaxAttempts /\ c.seen \in Row /\ c.first \in Nat
  BY <1>1 DEF Calls
<1> QED
  BY <1>2, <1>3, <1>6, <1>7, <1>8, <1>9, <1>10, Continue

LEMMA ReadSafe ==
  ASSUME DocsSafe, NEW q \in Call, Read(q)
  PROVE  DocsSafe'
PROOF
<1> DEFINE c == call[q]
<1> DEFINE row == rows[K(q)]
<1>1. c.phase = "read" /\ UNCHANGED quiet
  BY DEF Read
<1>2. c \in Calls /\ Form(c) /\ Req(q) = Ask(c) /\ Req(q) \in Request
  BY <1>1, Here
<1>3. Req(q).op \in {"sync", "profile"}
  BY <1>1, <1>2 DEF Form
<1>4. K(q) = Ask(c).items[1].key /\ K(q) \in Key /\ Item1(q).stamp \in Stamp
  BY <1>1, <1>3, Here
<1>5. row \in Row /\ row.version \in Nat
  BY <1>4 DEF DocsSafe, StateOK, Row
<1>6. row.data \subseteq Stored(call, lost)
  BY <1>4 DEF DocsSafe, Sources
<1>7. PICK f : f = IF c.attempt = 1 THEN row.version ELSE c.first
  OBVIOUS
<1>8. f \in Nat /\ c.attempt \in 1..MaxAttempts /\ c.first \in Nat /\ c.attempt \in Nat
  BY <1>2, <1>5, <1>7 DEF Calls
<1>9. PICK seen : seen = [c EXCEPT !.seen = row, !.first = f]
  OBVIOUS
<1>10. seen = Rec(c.phase, c.request, c.attempt, row, f, c.at, c.pending, c.found, c.answer)
  BY ONLY <1>2, <1>9, ReadSet
<1>11. [c EXCEPT !.seen = row, !.first = IF c.attempt = 1 THEN row.version ELSE @] = seen
  BY ONLY <1>7, <1>9, Zenon
<1>12. \/ Goes(q, Answered(q, "missing"))
       \/ row.version = 0 /\ Req(q).op = "profile" /\ Goes(q, [seen EXCEPT !.phase = "insert"])
       \/ Goes(q, Answered(q, "gone"))
       \/ /\ row.version > 0 /\ ~ (Req(q).op = "sync" /\ Expired(row, Item1(q).stamp))
          /\ Goes(q, [seen EXCEPT !.phase = "write"])
  <2> DEFINE s2 == [c EXCEPT !.seen = row, !.first = IF c.attempt = 1 THEN row.version ELSE @]
  <2>1. \/ Goes(q, Answered(q, "missing"))
        \/ row.version = 0 /\ Req(q).op = "profile" /\ Goes(q, [s2 EXCEPT !.phase = "insert"])
        \/ Goes(q, Answered(q, "gone"))
        \/ /\ row.version > 0 /\ ~ (Req(q).op = "sync" /\ Expired(row, Item1(q).stamp))
           /\ Goes(q, [s2 EXCEPT !.phase = "write"])
    BY DEF Read
  <2>2. s2 = seen
    BY <1>11
  <2> HIDE DEF s2, row
  <2> QED
    BY ONLY <2>1, <2>2, Zenon
<1>13. c.phase \notin {"new", "done"} \cup Open
  BY <1>1 DEF Open
<1>14. ASSUME NEW p \in {"insert", "write"}, Goes(q, [seen EXCEPT !.phase = p]),
              p = "insert" => row.version = 0 /\ Req(q).op = "profile",
              p = "write" => row.version > 0 /\ ~ (Req(q).op = "sync" /\ Expired(row, Item1(q).stamp))
       PROVE  DocsSafe'
  <2>1. PICK d : d = Rec(p, c.request, c.attempt, row, f, c.at, c.pending, c.found, c.answer)
    OBVIOUS
  <2>2. call' = [call EXCEPT ![q] = d]
    <3>1. [Rec(c.phase, c.request, c.attempt, row, f, c.at, c.pending, c.found, c.answer)
            EXCEPT !.phase = p] = d
      BY ONLY <2>1, PhaseOf
    <3>2. [seen EXCEPT !.phase = p] = d
      BY ONLY <1>10, <3>1
    <3> QED
      BY <1>14, <3>2 DEF Goes
  <2>3. /\ d.phase = p /\ d.answer = c.answer /\ d.request = c.request /\ d.first = f
        /\ d.attempt = c.attempt /\ d.seen = row
    BY <2>1 DEF Rec
  <2>4. Ask(d) = Ask(c)
    BY <2>3 DEF Ask
  <2>5. c.answer = "none"
    BY <1>1, <1>2 DEF Form
  <2>6. Form(d)
    <3>1. d.phase \in {"insert", "write"} /\ d.answer = "none" /\ Ask(d).op \in {"sync", "profile"}
            /\ (d.phase = "insert" => Ask(d).op = "profile") /\ d.request # <<>>
      BY <1>1, <1>2, <1>3, <1>14, <2>3, <2>4, <2>5 DEF Form
    <3> QED
      BY ONLY <3>1 DEF Form, Accepted
  <2>7. ASSUME resets = 0 PROVE Races(d, rows)
    <3>1. Races(c, rows)
      BY <1>1, <2>7 DEF DocsSafe, Lasting, RacesOK
    <3>2. row.version >= c.first + c.attempt - 1
      BY ONLY <1>1, <1>4, <1>5, <1>8, <3>1 DEF Races
    <3>3. row.version >= f + c.attempt - 1
      BY <1>5, <1>7, <1>8, <3>2
    <3>4. p = "write" /\ Ask(c).op = "sync" => row.version > 0 /\ ~ Expired(row, Ask(c).items[1].stamp)
      BY <1>2, <1>14 DEF Item1
    <3>5. row.version >= row.version
      BY <1>5
    <3>6. d.phase \in {"insert", "write"} /\ d.answer = "none"
      BY <1>14, <2>3, <2>5
    <3>7. rows[Ask(d).items[1].key] = row
      BY <1>4, <2>4
    <3>8. d.seen.version >= d.first + d.attempt - 1
      BY <2>3, <3>3
    <3>9. d.phase = "insert" => d.seen.version = 0
      BY <1>14, <2>3
    <3>10. d.phase = "write" /\ Ask(d).op = "sync" =>
             d.seen.version > 0 /\ ~ Expired(d.seen, Ask(d).items[1].stamp)
      BY <2>3, <2>4, <3>4
    <3> HIDE DEF row
    <3> QED
      BY ONLY <1>5, <1>8, <2>3, <3>5, <3>6, <3>7, <3>8, <3>9, <3>10 DEF Races
  <2>8. p \in Phases /\ p \notin {"new", "merge", "lock"} /\ c.answer \in Answers
          /\ c.answer \notin Accepted \cup {"error"}
    BY <2>5 DEF Phases, Answers, Accepted
  <2>9. c.phase \notin Open
    BY <1>1 DEF Open
  <2> QED
    BY <1>1, <1>5, <1>6, <1>8, <1>13, <2>1, <2>2, <2>6, <2>7, <2>8, Continue
<1>15. CASE Goes(q, Answered(q, "missing"))
  BY <1>1, <1>13, <1>15, Declined
<1>16. CASE Goes(q, Answered(q, "gone"))
  BY <1>1, <1>13, <1>16, Declined
<1> QED
  BY ONLY <1>12, <1>14, <1>15, <1>16

\* Only the phase changes.
LEMMA PhaseOnly ==
  ASSUME DocsSafe, UNCHANGED quiet, NEW q \in Call, call[q].phase \notin {"new", "done"},
         NEW p \in {"backoff", "rollback"}, Goes(q, [call[q] EXCEPT !.phase = p]),
         p = "backoff" => call[q].phase \notin Open /\ Req(q).op \in {"sync", "profile"},
         p = "rollback" => Req(q).op = "batch",
         p = "backoff" /\ resets = 0 => rows[K(q)].version >= call[q].first + call[q].attempt
  PROVE  DocsSafe'
PROOF
<1> DEFINE c == call[q]
<1>1. /\ c \in Calls /\ Form(c) /\ Req(q) = Ask(c)
  BY Here
<1>2. PICK d : d = Rec(p, c.request, c.attempt, c.seen, c.first, c.at, c.pending, c.found, c.answer)
  OBVIOUS
<1>3. call' = [call EXCEPT ![q] = d]
  <2>1. [c EXCEPT !.phase = p] = d
    BY ONLY <1>1, <1>2, PhaseSet
  <2> QED
    BY <2>1 DEF Goes
<1>4. /\ d.phase = p /\ d.answer = c.answer /\ d.request = c.request /\ d.first = c.first
      /\ d.attempt = c.attempt
  BY <1>2 DEF Rec
<1>5. Ask(d) = Ask(c)
  BY <1>4 DEF Ask
<1>6. c.answer = "none"
  BY <1>1 DEF Form
<1>7. Form(d)
  <2>1. d.phase \in {"backoff", "rollback"} /\ d.answer = "none" /\ d.request # <<>>
    BY <1>1, <1>4, <1>6 DEF Form
  <2>2. d.phase = "backoff" => Ask(d).op \in {"sync", "profile"}
    BY <1>1, <1>4, <1>5
  <2>3. d.phase = "rollback" => Ask(d).op = "batch"
    BY <1>1, <1>4, <1>5
  <2> QED
    BY ONLY <2>1, <2>2, <2>3 DEF Form, Accepted
<1>8. ASSUME resets = 0 PROVE Races(d, rows)
  <2>1. CASE p = "backoff"
    <3>1. K(q) = Ask(c).items[1].key /\ K(q) \in Key
      BY <2>1, Here
    <3>2. rows[K(q)].version \in Nat /\ c.first \in Nat /\ c.attempt \in Nat
      BY <1>1, <3>1 DEF DocsSafe, StateOK, Row, Calls
    <3>3. rows[Ask(d).items[1].key].version >= d.first + d.attempt
      BY <1>4, <1>5, <1>8, <2>1, <3>1
    <3>4. d.phase = "backoff" /\ d.answer = "none"
      BY <1>4, <1>6, <2>1
    <3> QED
      BY ONLY <1>4, <1>5, <3>1, <3>2, <3>3, <3>4 DEF Races
  <2>2. CASE p = "rollback"
    BY <1>4, <1>6, <2>2 DEF Races
  <2> QED
    BY <2>1, <2>2
<1>9. Req(q).op # "batch" => c.seen.data \subseteq Stored(call, lost)
  BY <1>1 DEF DocsSafe, Sources
<1>10. p \in Phases /\ p \notin {"new", "merge", "lock"} /\ c.answer \in Answers
         /\ c.answer \notin Accepted \cup {"error"} /\ (c.phase \in Open => p \in Open)
  BY <1>6 DEF Phases, Answers, Accepted, Open
<1>11. c.attempt \in 1..MaxAttempts /\ c.seen \in Row /\ c.first \in Nat
  BY <1>1 DEF Calls
<1> QED
  BY <1>2, <1>3, <1>7, <1>8, <1>9, <1>10, <1>11, Continue

LEMMA LoseRaceSafe ==
  ASSUME DocsSafe, NEW q \in Call, LoseRace(q)
  PROVE  DocsSafe'
PROOF
<1> DEFINE c == call[q]
<1>1. c.phase = "write" /\ rows[K(q)].version # c.seen.version /\ UNCHANGED quiet
        /\ Goes(q, [call[q] EXCEPT !.phase = "backoff"])
  BY DEF LoseRace, Current
<1>2. c \in Calls /\ Form(c) /\ Req(q) = Ask(c)
  BY <1>1, Here
<1>3. Req(q).op \in {"sync", "profile"}
  BY <1>1, <1>2 DEF Form
<1>4. K(q) = Ask(c).items[1].key /\ K(q) \in Key
  BY <1>1, <1>3, Here
<1>5. rows[K(q)].version \in Nat /\ c.first \in Nat /\ c.attempt \in Nat /\ c.seen.version \in Nat
  BY <1>2, <1>4 DEF DocsSafe, StateOK, Row, Calls
<1>6. ASSUME resets = 0 PROVE rows[K(q)].version >= c.first + c.attempt
  <2>1. Races(c, rows)
    BY <1>1, <1>6 DEF DocsSafe, Lasting, RacesOK
  <2>2. c.seen.version >= c.first + c.attempt - 1 /\ rows[K(q)].version >= c.seen.version
    BY ONLY <1>1, <1>4, <1>5, <2>1 DEF Races
  <2>3. PICK v \in Nat, f \in Nat, m \in Nat, s \in Nat :
          v = rows[K(q)].version /\ f = c.first /\ m = c.attempt /\ s = c.seen.version
    BY ONLY <1>5
  <2>4. s >= f + m - 1 /\ v >= s /\ v # s
    BY ONLY <1>1, <2>2, <2>3
  <2>5. v >= f + m
    BY ONLY <2>4, v \in Nat, f \in Nat, m \in Nat, s \in Nat
  <2> QED
    BY ONLY <2>3, <2>5
<1> QED
  BY <1>1, <1>3, <1>6, PhaseOnly DEF Open

\* A call that was outrun begins again, or gives up.
LEMMA NextAttemptSafe ==
  ASSUME DocsSafe, UNCHANGED quiet, NEW q \in Call, call[q].phase \in {"backoff", "insert"},
         Goes(q, NextAttempt(q)),
         resets = 0 => rows[K(q)].version >= call[q].first + call[q].attempt
  PROVE  DocsSafe'
PROOF
<1> DEFINE c == call[q]
<1>1. c \in Calls /\ Form(c) /\ Req(q) = Ask(c)
  BY Here
<1>2. Req(q).op \in {"sync", "profile"}
  BY <1>1 DEF Form
<1>3. K(q) = Ask(c).items[1].key /\ K(q) \in Key
  BY <1>2, Here
<1>4. rows[K(q)].version \in Nat /\ c.first \in Nat /\ c.attempt \in 1..MaxAttempts /\ c.seen \in Row
        /\ c.attempt \in Nat
  BY <1>1, <1>3 DEF DocsSafe, StateOK, Row, Calls
<1>5. c.answer = "none" /\ c.phase \notin {"new", "done"} \cup Open
  BY <1>1 DEF Form, Open
<1>6. CASE c.attempt < Attempts(q)
  <2>1. Goes(q, [c EXCEPT !.phase = "read", !.attempt = @ + 1])
    BY <1>6 DEF NextAttempt
  <2>2. c.attempt + 1 \in 1..MaxAttempts
    BY <1>4, <1>6, LimitsAssumption DEF Attempts
  <2>3. PICK m \in 1..MaxAttempts : m = c.attempt + 1
    BY <2>2
  <2>4. PICK d : d = Rec("read", c.request, m, c.seen, c.first, c.at, c.pending, c.found, c.answer)
    OBVIOUS
  <2>5. call' = [call EXCEPT ![q] = d]
    <3>1. [c EXCEPT !.phase = "read", !.attempt = @ + 1] = d
      BY ONLY <1>1, <2>3, <2>4, AttemptSet
    <3> QED
      BY <2>1, <3>1 DEF Goes
  <2>6. d.phase = "read" /\ d.answer = "none" /\ d.request = c.request /\ d.first = c.first /\ d.attempt = m
    BY <1>5, <2>4 DEF Rec
  <2>7. Ask(d) = Ask(c)
    BY <2>6 DEF Ask
  <2>8. d.request # <<>> /\ Ask(d).op \in {"sync", "profile"}
    BY <1>1, <1>2, <1>5, <2>6, <2>7 DEF Form
  <2>9. Form(d)
    BY ONLY <2>6, <2>8 DEF Form, Accepted
  <2>10. ASSUME resets = 0 PROVE Races(d, rows)
    <3>1. rows[K(q)].version >= c.first + c.attempt
      BY <2>10
    <3>2. rows[Ask(d).items[1].key].version >= c.first + m - 1
      BY <1>3, <1>4, <2>3, <2>7, <3>1
    <3> QED
      BY ONLY <1>3, <1>4, <2>3, <2>6, <2>7, <3>2 DEF Races
  <2>11. c.seen.data \subseteq Stored(call, lost)
    BY <1>1, <1>2, <1>5 DEF DocsSafe, Sources
  <2>12. "read" \in Phases /\ "none" \in Answers /\ "none" \notin Accepted \cup {"error"}
    BY DEF Phases, Answers, Accepted
  <2> QED
    BY <1>4, <1>5, <2>4, <2>5, <2>9, <2>10, <2>11, <2>12, Continue
<1>7. CASE ~ (c.attempt < Attempts(q))
  <2>1. Goes(q, Answered(q, "conflict"))
    BY <1>7 DEF NextAttempt
  <2> QED
    BY <1>5, <2>1, Declined
<1> QED
  BY <1>6, <1>7

LEMMA BackoffSafe ==
  ASSUME DocsSafe, NEW q \in Call, Backoff(q)
  PROVE  DocsSafe'
PROOF
<1> DEFINE c == call[q]
<1>1. c.phase = "backoff" /\ Goes(q, NextAttempt(q)) /\ UNCHANGED quiet
  BY DEF Backoff
<1>2. c \in Calls /\ Form(c) /\ Req(q) = Ask(c)
  BY <1>1, Here
<1>3. K(q) = Ask(c).items[1].key /\ K(q) \in Key
  BY <1>1, <1>2, Here DEF Form
<1>4. rows[K(q)].version \in Nat /\ c.first \in Nat /\ c.attempt \in Nat
  BY <1>2, <1>3 DEF DocsSafe, StateOK, Row, Calls
<1>5. ASSUME resets = 0 PROVE rows[K(q)].version >= c.first + c.attempt
  <2>1. Races(c, rows)
    BY <1>1, <1>5 DEF DocsSafe, Lasting, RacesOK
  <2> QED
    BY ONLY <1>1, <1>3, <1>4, <2>1 DEF Races
<1> QED
  BY <1>1, <1>5, NextAttemptSafe

LEMMA InsertRefusedSafe ==
  ASSUME DocsSafe, NEW q \in Call, InsertRefused(q)
  PROVE  DocsSafe'
PROOF
<1> DEFINE c == call[q]
<1>1. c.phase = "insert" /\ rows[K(q)].version # 0 /\ Goes(q, NextAttempt(q)) /\ UNCHANGED quiet
  BY DEF InsertRefused, EmailFree
<1>2. c \in Calls /\ Form(c) /\ Req(q) = Ask(c)
  BY <1>1, Here
<1>3. K(q) = Ask(c).items[1].key /\ K(q) \in Key
  BY <1>1, <1>2, Here DEF Form
<1>4. rows[K(q)].version \in Nat /\ c.first \in Nat /\ c.attempt \in Nat /\ c.seen.version \in Nat
  BY <1>2, <1>3 DEF DocsSafe, StateOK, Row, Calls
<1>5. ASSUME resets = 0 PROVE rows[K(q)].version >= c.first + c.attempt
  <2>1. Races(c, rows)
    BY <1>1, <1>5 DEF DocsSafe, Lasting, RacesOK
  <2>2. c.seen.version = 0 /\ c.seen.version >= c.first + c.attempt - 1
    BY ONLY <1>1, <1>3, <1>4, <2>1 DEF Races
  <2>3. PICK v \in Nat, f \in Nat, m \in Nat, s \in Nat :
          v = rows[K(q)].version /\ f = c.first /\ m = c.attempt /\ s = c.seen.version
    BY ONLY <1>4
  <2>4. s >= f + m - 1 /\ s = 0 /\ v # 0
    BY ONLY <1>1, <2>2, <2>3
  <2>5. v >= f + m
    BY ONLY <2>4, v \in Nat, f \in Nat, m \in Nat, s \in Nat
  <2> QED
    BY ONLY <2>3, <2>5
<1> QED
  BY <1>1, <1>5, NextAttemptSafe

LEMMA DeleteNothingSafe ==
  ASSUME DocsSafe, NEW q \in Call, DeleteNothing(q)
  PROVE  DocsSafe'
PROOF
  BY Declined DEF DeleteNothing, Open

LEMMA BatchThrowSafe ==
  ASSUME DocsSafe, NEW q \in Call, BatchThrow(q) \/ BatchVictim(q)
  PROVE  DocsSafe'
PROOF
<1>1. call[q].phase = "lock" /\ Goes(q, [call[q] EXCEPT !.phase = "rollback"]) /\ UNCHANGED quiet
  BY DEF BatchThrow, BatchVictim, Deadlocked, Waiting, Locking
<1>2. Req(q).op = "batch"
  BY <1>1, Here DEF Form
<1> QED
  BY <1>1, <1>2, PhaseOnly

-----------------------------------------------------------------------------
(* Batches *)

LEMMA ViewRow ==
  ASSUME NEW c \in Calls, NEW k \in Key, NEW row \in Row
  PROVE  View(c, k, row) \in Row
PROOF
<1>1. PICK S \in SUBSET Key : c.pending \in [S -> Row]
  BY DEF Calls, Pending
<1> QED
  BY <1>1 DEF View

\* One item more: the row takes the merge, or nothing happens to it.
LEMMA OneItem ==
  ASSUME NEW q \in Call, NEW c \in Calls, NEW d \in Calls, NEW k \in Key, NEW row \in Row,
         Progress(q, c, k, row), Ask(c) \in Request, d.request = c.request,
         c.found \subseteq 1..(c.at - 1), c.at <= Len(Ask(c).items), d.at = c.at + 1,
         d.found \subseteq c.found \cup {c.at}, c.found \subseteq d.found,
         View(d, k, row) =
           IF c.at \in d.found /\ Ask(c).items[c.at].key = k
           THEN Merged(View(c, k, row), <<q, c.at>>, Ask(c).items[c.at].stamp, FALSE)
           ELSE View(c, k, row)
  PROVE  Progress(q, d, k, row)
PROOF
<1> DEFINE n == c.at
<1> DEFINE it == Ask(c).items
<1> DEFINE hit == n \in d.found /\ it[n].key = k
<1> DEFINE v == View(c, k, row)
<1> DEFINE w == View(d, k, row)
<1> DEFINE m == Merged(v, <<q, n>>, it[n].stamp, FALSE)
<1>1. n \in Nat \ {0} /\ n \notin c.found
  BY DEF Calls
<1>2. Ask(d) = Ask(c) /\ Mine(q, d) = Mine(q, c)
  BY DEF Ask, Mine
<1>3. n \in DOMAIN it /\ it[n].stamp \in Stamp
  BY <1>1, Requests
<1>4. v \in Row /\ <<q, n>> \in Token
  BY <1>1, ViewRow, ItemToken
<1>5. /\ m.version = v.version + 1 /\ v.data \subseteq m.data /\ m.data \subseteq v.data \cup {<<q, n>>}
      /\ it[n].stamp = NoStamp => <<q, n>> \in m.data
  <2>1. \A b \in BOOLEAN :
          LET x == Merged(v, <<q, n>>, it[n].stamp, b)
          IN  /\ x.version = v.version + 1 /\ v.data \subseteq x.data /\ x.data \subseteq v.data \cup {<<q, n>>}
              /\ it[n].stamp = NoStamp => <<q, n>> \in x.data
    BY ONLY <1>3, <1>4, MergedRow
  <2>2. FALSE \in BOOLEAN
    OBVIOUS
  <2> QED
    BY ONLY <2>1, <2>2, Zenon
<1>6. <<q, n>> \in Mine(q, c)
  BY <1>3 DEF Mine
<1>7. /\ IsFiniteSet(Hits(q, c, k)) /\ v.version = row.version + Cardinality(Hits(q, c, k))
      /\ row.data \subseteq v.data /\ v.data \subseteq row.data \cup Mine(q, c)
      /\ \A i \in c.found : it[i].key = k /\ it[i].stamp = NoStamp => <<q, i>> \in v.data
  BY DEF Progress
<1>8. PICK g : Walk(q, c, k, row, g)
  BY DEF Progress
<1>9. w = IF hit THEN m ELSE v
  OBVIOUS
<1>10. <<q, n>> \notin Hits(q, c, k)
  BY <1>1 DEF Hits
<1>11. Hits(q, d, k) = IF hit THEN Hits(q, c, k) \cup {<<q, n>>} ELSE Hits(q, c, k)
  BY <1>2 DEF Hits
<1>12. PICK h : h = [i \in 0..n |-> IF i < n THEN g[i] ELSE w]
  OBVIOUS
<1>0. n \in Nat /\ n > 0 /\ d.at - 1 = n
  BY <1>1
<1>13. Walk(q, d, k, row, h)
  <2>1. h[0] = row /\ h[d.at - 1] = View(d, k, row)
    <3>1. h[0] = g[0] /\ h[n] = w /\ d.at - 1 = n
      <4> HIDE DEF n, w
      <4> QED
        BY ONLY <1>0, <1>12
    <3> QED
      BY <1>8, <3>1 DEF Walk
  <2>2. ASSUME NEW i \in 1..(d.at - 1)
        PROVE  h[i] = IF i \in d.found /\ Ask(d).items[i].key = k
                      THEN Merged(h[i - 1], <<q, i>>, Ask(d).items[i].stamp, FALSE)
                      ELSE h[i - 1]
    <3>1. CASE i < n
      <4>1. h[i] = g[i] /\ h[i - 1] = g[i - 1] /\ i \in 1..(n - 1)
        <5>1. i \in 1..n
          BY <1>0, <2>2
        <5> HIDE DEF n, w
        <5> QED
          BY ONLY <1>0, <1>12, <3>1, <5>1
      <4>2. i \in d.found <=> i \in c.found
        BY <1>1, <3>1
      <4> QED
        BY <1>2, <1>8, <4>1, <4>2 DEF Walk
    <3>2. CASE ~ (i < n)
      <4>1. i = n
        BY <1>1, <3>2
      <4>2. h[n] = w /\ h[n - 1] = g[n - 1]
        <5> HIDE DEF n, w
        <5> QED
          BY ONLY <1>0, <1>12
      <4>3. g[n - 1] = v
        BY <1>8 DEF Walk
      <4> QED
        BY <1>2, <1>9, <4>1, <4>2, <4>3
    <3> QED
      BY <3>1, <3>2
  <2> QED
    BY <2>1, <2>2 DEF Walk
<1>14. IsFiniteSet(Hits(q, d, k)) /\ w.version = row.version + Cardinality(Hits(q, d, k))
  <2>1. CASE hit
    <3>1. Hits(q, d, k) = Hits(q, c, k) \cup {<<q, n>>}
      BY <1>11, <2>1
    <3>2. IsFiniteSet(Hits(q, d, k)) /\ Cardinality(Hits(q, d, k)) = Cardinality(Hits(q, c, k)) + 1
      BY ONLY <1>7, <1>10, <3>1, FS_AddElement
    <3>3. Cardinality(Hits(q, c, k)) \in Nat /\ row.version \in Nat
      <4>1. Cardinality(Hits(q, c, k)) \in Nat
        BY ONLY <1>7, FS_CardinalityType
      <4>2. row.version \in Nat
        BY ONLY row \in Row DEF Row
      <4> QED
        BY ONLY <4>1, <4>2
    <3>4. w.version = v.version + 1
      BY <1>5, <1>9, <2>1
    <3> HIDE DEF v, w, hit
    <3> QED
      BY ONLY <1>7, <3>2, <3>3, <3>4
  <2>2. CASE ~ hit
    BY <1>7, <1>9, <1>11, <2>2
  <2> QED
    BY <2>1, <2>2
<1>15. row.data \subseteq w.data /\ w.data \subseteq row.data \cup Mine(q, d)
  <2>1. CASE hit
    <3>1. w = m
      BY <1>9, <2>1
    <3> HIDE DEF v, w, m, hit
    <3> QED
      BY ONLY <1>2, <1>5, <1>6, <1>7, <3>1
  <2>2. CASE ~ hit
    <3>1. w = v
      BY <1>9, <2>2
    <3> HIDE DEF v, w, hit
    <3> QED
      BY ONLY <1>2, <1>7, <3>1
  <2> QED
    BY <2>1, <2>2
<1>16. ASSUME NEW i \in d.found, Ask(d).items[i].key = k, Ask(d).items[i].stamp = NoStamp
       PROVE  <<q, i>> \in w.data
  <2>1. v.data \subseteq w.data
    BY <1>5, <1>9
  <2>2. CASE i = n
    <3>1. hit
      BY <1>2, <1>16, <2>2
    <3> QED
      BY <1>2, <1>5, <1>9, <1>16, <2>2, <3>1
  <2>3. CASE i # n
    <3>1. i \in c.found
      BY <2>3
    <3> QED
      BY <1>2, <1>7, <1>16, <2>1, <3>1
  <2> QED
    BY <2>2, <2>3
<1> QED
  BY <1>13, <1>14, <1>15, <1>16 DEF Progress

LEMMA BatchMissingSafe ==
  ASSUME DocsSafe, NEW q \in Call, BatchMissing(q)
  PROVE  DocsSafe'
PROOF
<1> DEFINE c == call[q]
<1>1. /\ c.phase = "lock" /\ c.at <= Len(Req(q).items) /\ UNCHANGED quiet
      /\ Goes(q, [call[q] EXCEPT !.at = @ + 1])
  BY DEF BatchMissing, Locking, Left
<1>2. /\ c \in Calls /\ Form(c) /\ Listed(c) /\ Req(q) = Ask(c) /\ Req(q) \in Request
      /\ CallOK(q, c, rows, lock)
  BY <1>1, Here
<1>3. PICK d : d = Rec(c.phase, c.request, c.attempt, c.seen, c.first, c.at + 1, c.pending, c.found, c.answer)
  OBVIOUS
<1>4. call' = [call EXCEPT ![q] = d]
  <2>1. [c EXCEPT !.at = @ + 1] = d
    BY ONLY <1>2, <1>3, AtSet
  <2> QED
    BY <1>1, <2>1 DEF Goes
<1>5. c.at \in Nat \ {0} /\ c.at + 1 \in Nat \ {0} /\ Len(Ask(c).items) \in Nat
  BY <1>2, Requests DEF Calls
<1>6. d \in Calls
  BY <1>2, <1>3, <1>5 DEF Calls, Rec
<1>7. /\ d.phase = "lock" /\ d.request = c.request /\ d.at = c.at + 1 /\ d.pending = c.pending
      /\ d.found = c.found /\ d.answer = c.answer
  BY <1>1, <1>3 DEF Rec
<1>8. Ask(d) = Ask(c)
  BY <1>7 DEF Ask
<1>9. Ask(c).op = "batch" /\ c.answer = "none"
  BY <1>1, <1>2 DEF Form
<1>10. Form(d)
  <2>1. d.request # <<>>
    BY <1>1, <1>2, <1>7 DEF Form
  <2> QED
    BY <1>7, <1>8, <1>9, <2>1 DEF Form, Accepted
<1>11. c.found \subseteq 1..(c.at - 1) /\ DOMAIN c.pending = Named(c)
  BY <1>1, <1>2 DEF Listed
<1>12. Listed(d)
  BY <1>1, <1>2, <1>5, <1>7, <1>8, <1>9, <1>11 DEF Listed, Named
<1>13. Holds(q, d, lock)
  BY <1>1, <1>2, <1>7 DEF CallOK, Holds
<1>14. ASSUME NEW k \in Key PROVE Progress(q, d, k, rows[k])
  <2>1. Progress(q, c, k, rows[k]) /\ rows[k] \in Row
    BY <1>1, <1>2 DEF CallOK, Batched, DocsSafe, StateOK
  <2>2. c.at \notin d.found /\ View(d, k, rows[k]) = View(c, k, rows[k])
    BY <1>5, <1>7, <1>11 DEF View
  <2> QED
    BY <1>1, <1>2, <1>6, <1>7, <1>11, <2>1, <2>2, OneItem
<1>15. CallOK(q, d, rows, lock)
  BY <1>7, <1>10, <1>12, <1>13, <1>14 DEF CallOK, Batched, Merging
<1>16. Races(d, rows)
  BY <1>7, <1>9 DEF Races
<1>17. d.answer \notin Accepted \cup {"error"}
  BY <1>7, <1>9 DEF Accepted
<1> QED
  BY <1>1, <1>4, <1>6, <1>7, <1>8, <1>9, <1>15, <1>16, <1>17, QuietStep DEF Open

LEMMA BatchLockSafe ==
  ASSUME DocsSafe, NEW q \in Call, BatchLock(q)
  PROVE  DocsSafe'
PROOF
<1> DEFINE c == call[q]
<1> DEFINE k0 == At(q).key
<1>1. /\ c.phase = "lock" /\ c.at <= Len(Req(q).items) /\ rows[k0].version > 0 /\ Free(k0, q)
      /\ lock' = [lock EXCEPT ![k0] = q]
      /\ Goes(q, [call[q] EXCEPT !.phase = "merge", !.seen = Seen(q, k0)])
      /\ UNCHANGED <<rows, background, erased, lost>>
  BY DEF BatchLock, Locking, Left, ForUpdate
<1>2. /\ c \in Calls /\ Form(c) /\ Listed(c) /\ Req(q) = Ask(c) /\ Req(q) \in Request
      /\ CallOK(q, c, rows, lock)
  BY <1>1, Here
<1>3. k0 = Ask(c).items[c.at].key /\ k0 \in Key
  <2>1. c.at \in 1..Len(Req(q).items)
    BY <1>1, <1>2, Requests DEF Calls
  <2> QED
    BY <1>2, <2>1, Requests DEF At
<1>4. Seen(q, k0) = View(c, k0, rows[k0]) /\ rows[k0] \in Row
  BY <1>3 DEF Seen, View, DocsSafe, StateOK
<1>5. PICK s : s = View(c, k0, rows[k0])
  OBVIOUS
<1>6. s \in Row
  BY <1>2, <1>3, <1>4, <1>5, ViewRow
<1>7. PICK d : d = Rec("merge", c.request, c.attempt, s, c.first, c.at, c.pending, c.found, c.answer)
  OBVIOUS
<1>8. call' = [call EXCEPT ![q] = d]
  <2>1. [c EXCEPT !.phase = "merge", !.seen = s] = d
    BY ONLY <1>2, <1>7, SeenSet
  <2>2. Goes(q, [c EXCEPT !.phase = "merge", !.seen = s])
    BY ONLY <1>1, <1>4, <1>5, Zenon
  <2> QED
    BY <2>1, <2>2 DEF Goes
<1>9. d \in Calls
  BY <1>2, <1>6, <1>7 DEF Calls, Rec, Phases
<1>10. /\ d.phase = "merge" /\ d.request = c.request /\ d.at = c.at /\ d.pending = c.pending
       /\ d.found = c.found /\ d.answer = c.answer /\ d.seen = s
  BY <1>7 DEF Rec
<1>11. Ask(d) = Ask(c)
  BY <1>10 DEF Ask
<1>12. Ask(c).op = "batch" /\ c.answer = "none" /\ c.request # <<>>
  BY <1>1, <1>2 DEF Form
<1>13. Form(d)
  BY <1>10, <1>11, <1>12 DEF Form, Accepted
<1>14. lock \in [Key -> Call \cup {NoCall}]
  BY DEF DocsSafe, StateOK
<1>15. lock' \in [Key -> Call \cup {NoCall}] /\ lock'[k0] = q
       /\ \A k \in Key : lock[k] = q => lock'[k] = q
  BY <1>1, <1>3, <1>14
<1>16. rows \in [Key -> Row]
  BY DEF DocsSafe, StateOK
<1>17. CallOK(q, c, rows, lock')
  BY ONLY <1>2, <1>15, <1>16, q \in Call, CallKept
<1>18. Merging(q, d, rows, lock')
  BY <1>1, <1>2, <1>3, <1>5, <1>10, <1>11, <1>15 DEF Merging, View
<1>19. CallOK(q, d, rows, lock')
  <2>1. c.phase \notin {"new", "done"} /\ d.phase # "new" /\ c.phase \in {"lock", "merge"}
    BY <1>1, <1>10
  <2> HIDE DEF c
  <2> QED
    BY ONLY <1>2, <1>9, <1>10, <1>13, <1>17, <1>18, <2>1, q \in Call, SameBatch
<1>20. \A k \in Key : lock'[k] # lock[k] => {lock[k], lock'[k]} \subseteq {NoCall, q} /\ rows[k].version > 0
  BY <1>1, <1>3, <1>14 DEF Free
<1>21. Races(d, rows)
  BY <1>10, <1>12 DEF Races
<1>22. d.phase \in Open /\ d.answer \notin Accepted
  BY <1>10, <1>12 DEF Open, Accepted
<1> QED
  BY <1>1, <1>8, <1>9, <1>10, <1>11, <1>12, <1>15, <1>19, <1>20, <1>21, <1>22, SoloStep

LEMMA BatchMergeSafe ==
  ASSUME DocsSafe, NEW q \in Call, BatchMerge(q)
  PROVE  DocsSafe'
PROOF
<1> DEFINE c == call[q]
<1> DEFINE k0 == At(q).key
<1> DEFINE row == Merged(c.seen, <<q, c.at>>, At(q).stamp, FALSE)
<1>1. /\ c.phase = "merge" /\ lock' = [lock EXCEPT ![k0] = q]
      /\ Goes(q, [call[q] EXCEPT !.phase = "lock", !.at = @ + 1, !.found = c.found \cup {c.at},
                    !.pending = [k \in DOMAIN c.pending \cup {k0} |-> IF k = k0 THEN row ELSE c.pending[k]]])
      /\ UNCHANGED <<rows, background, erased, lost>>
  BY DEF BatchMerge
<1>2. /\ c \in Calls /\ Form(c) /\ Listed(c) /\ Req(q) = Ask(c) /\ Req(q) \in Request
      /\ CallOK(q, c, rows, lock) /\ Batched(q, c, rows, lock)
  BY <1>1, Here
<1>3. c.at <= Len(Ask(c).items) /\ k0 = Ask(c).items[c.at].key /\ lock[k0] = q
        /\ c.seen = View(c, k0, rows[k0])
  BY <1>1, <1>2 DEF Batched, Merging, At
<1>4. c.at \in 1..Len(Ask(c).items) /\ c.at \in Nat \ {0} /\ c.at + 1 \in Nat \ {0} /\ Len(Ask(c).items) \in Nat
  BY <1>2, <1>3, Requests DEF Calls
<1>5. k0 \in Key /\ At(q).stamp = Ask(c).items[c.at].stamp /\ At(q).stamp \in Stamp
  BY <1>2, <1>3, <1>4, Requests DEF At
<1>6. row \in Row
  <2>1. c.seen \in Row /\ <<q, c.at>> \in Token
    BY <1>2, <1>4, ItemToken DEF Calls
  <2>2. \A b \in BOOLEAN : Merged(c.seen, <<q, c.at>>, At(q).stamp, b) \in Row
    BY ONLY <1>5, <2>1, MergedRow
  <2>3. FALSE \in BOOLEAN
    OBVIOUS
  <2> QED
    BY ONLY <2>2, <2>3, Zenon
<1>7. PICK w : w = [k \in DOMAIN c.pending \cup {k0} |-> IF k = k0 THEN row ELSE c.pending[k]]
  OBVIOUS
<1>8. PICK f : f = c.found \cup {c.at}
  OBVIOUS
<1>9. w \in Pending
  <2>1. PICK S \in SUBSET Key : c.pending \in [S -> Row]
    BY <1>2 DEF Calls, Pending
  <2>2. w \in [S \cup {k0} -> Row] /\ S \cup {k0} \in SUBSET Key
    <3> HIDE DEF row, k0
    <3> QED
      BY ONLY <1>5, <1>6, <1>7, <2>1
  <2> QED
    BY <2>2 DEF Pending
<1>10. PICK d : d = Rec("lock", c.request, c.attempt, c.seen, c.first, c.at + 1, w, f, c.answer)
  OBVIOUS
<1>11. call' = [call EXCEPT ![q] = d]
  <2>1. [c EXCEPT !.phase = "lock", !.at = @ + 1, !.found = f, !.pending = w] = d
    BY ONLY <1>2, <1>10, MergeSet
  <2>2. Goes(q, [c EXCEPT !.phase = "lock", !.at = @ + 1, !.found = f, !.pending = w])
    <3> HIDE DEF row, k0
    <3> QED
      BY ONLY <1>1, <1>7, <1>8, Zenon
  <2> QED
    BY <2>1, <2>2 DEF Goes
<1>12. d \in Calls
  <2>1. f \in SUBSET (Nat \ {0})
    BY <1>2, <1>4, <1>8 DEF Calls
  <2> QED
    BY <1>2, <1>4, <1>9, <1>10, <2>1 DEF Calls, Rec, Phases
<1>13. /\ d.phase = "lock" /\ d.request = c.request /\ d.at = c.at + 1 /\ d.pending = w
       /\ d.found = f /\ d.answer = c.answer
  BY <1>10 DEF Rec
<1>14. Ask(d) = Ask(c)
  BY <1>13 DEF Ask
<1>15. Ask(c).op = "batch" /\ c.answer = "none" /\ c.request # <<>>
  BY <1>1, <1>2 DEF Form
<1>16. Form(d)
  BY <1>13, <1>14, <1>15 DEF Form, Accepted
<1>17. c.found \subseteq 1..(c.at - 1) /\ DOMAIN c.pending = Named(c)
  BY <1>1, <1>2 DEF Listed
<1>18. Listed(d)
  <2>1. DOMAIN w = Named(c) \cup {k0}
    BY <1>7, <1>17
  <2>2. Named(d) = Named(c) \cup {Ask(c).items[c.at].key}
    BY <1>8, <1>13, <1>14 DEF Named
  <2>3. f \subseteq 1..(d.at - 1) /\ d.at <= Len(Ask(d).items) + 1
    BY <1>4, <1>8, <1>13, <1>14, <1>17
  <2> QED
    BY <1>3, <1>13, <1>14, <1>15, <2>1, <2>2, <2>3 DEF Listed
<1>19. lock' = lock
  BY <1>1, <1>3, <1>5 DEF DocsSafe, StateOK
<1>20. Holds(q, d, lock)
  <2>1. \A k \in DOMAIN c.pending : lock[k] = q
    BY <1>1, <1>2 DEF CallOK, Holds
  <2> QED
    BY <1>3, <1>7, <1>13, <2>1 DEF Holds
<1>21. ASSUME NEW k \in Key PROVE Progress(q, d, k, rows[k])
  <2>1. Progress(q, c, k, rows[k]) /\ rows[k] \in Row
    BY <1>1, <1>2 DEF Batched, DocsSafe, StateOK
  <2>2. View(d, k, rows[k]) =
          IF c.at \in d.found /\ Ask(c).items[c.at].key = k
          THEN Merged(View(c, k, rows[k]), <<q, c.at>>, Ask(c).items[c.at].stamp, FALSE)
          ELSE View(c, k, rows[k])
    <3>1. CASE k = k0
      <4>1. View(d, k, rows[k]) = row
        BY <1>7, <1>13, <3>1 DEF View
      <4> QED
        BY <1>3, <1>5, <1>8, <1>13, <3>1, <4>1
    <3>2. CASE k # k0
      <4>1. View(d, k, rows[k]) = View(c, k, rows[k])
        BY <1>7, <1>13, <3>2 DEF View
      <4> QED
        BY <1>3, <3>2, <4>1
    <3> QED
      BY <3>1, <3>2
  <2>3. d.found \subseteq c.found \cup {c.at} /\ c.found \subseteq d.found
    BY <1>8, <1>13
  <2> QED
    BY <1>2, <1>3, <1>12, <1>13, <1>17, <2>1, <2>2, <2>3, OneItem
<1>22. CallOK(q, d, rows, lock)
  BY <1>13, <1>16, <1>18, <1>20, <1>21 DEF CallOK, Batched, Merging
<1>23. Races(d, rows)
  BY <1>13, <1>15 DEF Races
<1>24. d.answer \notin Accepted \cup {"error"}
  BY <1>13, <1>15 DEF Accepted
<1>25. UNCHANGED quiet
  BY <1>1, <1>19 DEF quiet, background
<1> QED
  BY <1>1, <1>11, <1>12, <1>13, <1>14, <1>15, <1>22, <1>23, <1>24, <1>25, QuietStep DEF Open

LEMMA BatchRollbackSafe ==
  ASSUME DocsSafe, NEW q \in Call, BatchRollback(q)
  PROVE  DocsSafe'
PROOF
<1> DEFINE c == call[q]
<1>1. /\ c.phase = "rollback" /\ lock' = Unlocked(q) /\ Goes(q, Answered(q, "error"))
      /\ UNCHANGED <<rows, background, erased, lost>>
  BY DEF BatchRollback
<1>2. /\ c \in Calls /\ Form(c) /\ Listed(c) /\ Req(q) = Ask(c)
  BY <1>1, Here
<1>3. PICK d : d = Rec("done", c.request, c.attempt, c.seen, c.first, c.at, c.pending, c.found, "error")
  OBVIOUS
<1>4. call' = [call EXCEPT ![q] = d]
  <2>1. Answered(q, "error") = [c EXCEPT !.phase = "done", !.answer = "error"]
    BY DEF Answered
  <2>2. Answered(q, "error") = d
    BY ONLY <1>2, <1>3, <2>1, AnswerSet
  <2> QED
    BY <1>1, <2>2 DEF Goes
<1>5. d \in Calls
  BY <1>2, <1>3 DEF Calls, Rec, Phases, Answers
<1>6. /\ d.phase = "done" /\ d.request = c.request /\ d.at = c.at /\ d.pending = c.pending
      /\ d.found = c.found /\ d.answer = "error"
  BY <1>3 DEF Rec
<1>7. Ask(d) = Ask(c)
  BY <1>6 DEF Ask
<1>8. Ask(c).op = "batch" /\ c.request # <<>>
  BY <1>1, <1>2 DEF Form
<1>9. Form(d)
  BY <1>6, <1>7, <1>8 DEF Form, Accepted
<1>10. Listed(d)
  BY <1>1, <1>2, <1>6, <1>7 DEF Listed, Named
<1>11. CallOK(q, d, rows, lock')
  BY <1>6, <1>9, <1>10 DEF CallOK, Holds, Batched, Merging
<1>12. lock \in [Key -> Call \cup {NoCall}]
  BY DEF DocsSafe, StateOK
<1>13. /\ lock' \in [Key -> Call \cup {NoCall}] /\ \A k \in Key : lock'[k] # q
       /\ \A k \in Key : lock'[k] # lock[k] => lock[k] = q /\ lock'[k] = NoCall
  BY <1>1, <1>12, CallAssumption DEF Unlocked
<1>14. \A k \in Key : lock[k] = q => rows[k].version > 0
  BY CallAssumption DEF DocsSafe, RowsOK
<1>15. Races(d, rows)
  BY <1>6 DEF Races
<1>16. d.answer \notin Accepted
  BY <1>6 DEF Accepted
<1> QED
  BY <1>1, <1>4, <1>5, <1>6, <1>7, <1>8, <1>11, <1>13, <1>14, <1>15, <1>16, SoloStep

-----------------------------------------------------------------------------
(* Steps that store *)

LEMMA OnFinite ==
  ASSUME NEW q \in Call, NEW c, Ask(c) \in Request, NEW k
  PROVE  IsFiniteSet(On(q, c, k))
PROOF
<1> DEFINE n == Len(Ask(c).items)
<1>1. n \in Nat /\ DOMAIN Ask(c).items = 1..n
  BY Requests
<1>2. IsFiniteSet({q}) /\ IsFiniteSet(1..n)
  <2>1. 1 \in Int /\ n \in Int
    BY <1>1
  <2>2. IsFiniteSet(1..n)
    BY ONLY <2>1, FS_Interval
  <2> QED
    BY <2>2, FS_Singleton
<1>3. IsFiniteSet({q} \X (1..n))
  BY ONLY <1>2, FS_Product
<1>4. On(q, c, k) \in SUBSET ({q} \X (1..n))
  BY <1>1 DEF On
<1> QED
  BY ONLY <1>3, <1>4, FS_Subset

\* What a call that stores does, whatever it stores.
LEMMA StoringStep ==
  ASSUME DocsSafe, NEW q \in Call, NEW d \in Calls, call' = [call EXCEPT ![q] = d],
         call[q].phase \notin {"new", "done"}, d.phase = "done", d.request = call[q].request,
         Form(d), Listed(d), Ask(d).op # "batch" => d.seen = call[q].seen,
         UNCHANGED <<reset, resets>>, now' \in Stamp, rows' \in [Key -> Row],
         erased' \in [Key -> SUBSET Token], lock' \in [Key -> Call \cup {NoCall}], lost' \in 0..MaxLost,
         (d.answer \in Accepted /\ lost' = lost) \/ (d.answer = "error" /\ lost' = lost + 1),
         \A k \in Key : lock[k] \notin {NoCall, q} => rows'[k] = rows[k],
         \A k \in Key : lock'[k] # lock[k] => lock[k] = q /\ lock'[k] = NoCall,
         \A k \in Key : lock'[k] # q,
         \A k \in Key : rows'[k] = rows[k] \/ rows'[k].version > 0,
         \A k \in Key : rows'[k].data \cup erased'[k]
                          \subseteq rows[k].data \cup erased[k] \cup Stored(call, lost) \cup Mine(q, d),
         resets = 0 =>
           /\ \A k \in Key : rows[k].data \cup erased[k] \subseteq rows'[k].data \cup erased'[k]
           /\ \A k \in Key : rows'[k].data \cap erased'[k] = {}
           /\ Moves(rows, rows') /\ Races(d, rows') /\ Durable(q, d, rows', erased')
           /\ d.answer = "created" => rows[Ask(d).items[1].key].version = 0
           /\ d.answer \in Accepted =>
                \A k \in Key : rows'[k].version = rows[k].version + Cardinality(On(q, d, k))
  PROVE  DocsSafe'
PROOF
<1>1. Replaces(call, q, d, call')
  BY DEF Replaces
<1>2. StateOK /\ RowsOK /\ CallsOK /\ Sources /\ AnswersFinite
  BY DEF DocsSafe
<1>3. call \in [Call -> Calls] /\ call' \in [Call -> Calls] /\ call'[q] = d
  BY <1>2 DEF StateOK
<1>4. lost \in Nat /\ lost' \in Nat /\ lost' >= lost
  BY <1>2, LimitsAssumption DEF StateOK
<1>5. StateOK'
  BY <1>2, <1>3 DEF StateOK
<1>6. RowsOK'
  <2> SUFFICES ASSUME NEW k \in Key
               PROVE  /\ rows'[k].version = 0 => rows'[k] = NoRow
                      /\ lock'[k] # NoCall => rows'[k].version > 0 /\ call'[lock'[k]].phase \in Open
    BY DEF RowsOK, Open
  <2>1. /\ rows[k].version = 0 => rows[k] = NoRow
        /\ lock[k] # NoCall => rows[k].version > 0 /\ call[lock[k]].phase \in Open
    BY <1>2 DEF RowsOK, Open
  <2>2. rows'[k].version = 0 => rows'[k] = NoRow
    BY <2>1
  <2>3. ASSUME lock'[k] # NoCall PROVE rows'[k].version > 0 /\ call'[lock'[k]].phase \in Open
    <3>1. lock'[k] = lock[k] /\ lock[k] \in Call \ {q} /\ lock[k] # NoCall
      BY <2>3
    <3>2. rows'[k] = rows[k] /\ call'[lock'[k]] = call[lock[k]]
      BY <1>3, <3>1
    <3> QED
      BY <2>1, <3>1, <3>2
  <2> QED
    BY <2>2, <2>3
<1>7. CallsOK'
  <2>1. \A k \in Key : lock[k] \notin {NoCall, q} => lock'[k] = lock[k] /\ rows'[k] = rows[k]
    OBVIOUS
  <2>2. CallOK(q, d, rows', lock')
    BY DEF CallOK, Holds, Batched, Merging
  <2> QED
    BY <1>2, <1>5, <2>1, <2>2, CallsMove
<1>8. call[q].answer = "none" /\ call[q].answer \notin Accepted
  BY <1>2, <1>3 DEF CallsOK, CallOK, Form, Accepted
<1>9. \A k : /\ AnsweredIn(call', k) = AnsweredIn(call, k) \cup On(q, d, k)
             /\ AnsweredIn(call, k) \cap On(q, d, k) = {}
  BY ONLY <1>1, <1>3, <1>8, AnswersMove, q \in Call
<1>10. Ask(d) \in Request
  BY Asks
<1>11. AnswersFinite'
  <2> SUFFICES ASSUME NEW k \in Key PROVE IsFiniteSet(AnsweredIn(call', k))
    BY DEF AnswersFinite
  <2>1. IsFiniteSet(AnsweredIn(call, k)) /\ IsFiniteSet(On(q, d, k))
    BY <1>2, <1>10, OnFinite DEF AnswersFinite
  <2>2. IsFiniteSet(AnsweredIn(call, k) \cup On(q, d, k))
    BY ONLY <2>1, FS_Union
  <2> QED
    BY <1>9, <2>2
<1>12. Stored(call, lost) \subseteq Stored(call', lost')
  BY <1>1, <1>3, <1>4, StoredGrows
<1>13. Mine(q, d) \subseteq Stored(call', lost')
  <2> SUFFICES ASSUME NEW t \in Mine(q, d) PROVE t \in Stored(call', lost')
    OBVIOUS
  <2>0. PICK i \in DOMAIN Ask(d).items : t = <<q, i>>
    BY DEF Mine
  <2>1. i \in Nat \ {0}
    BY <1>10, Requests
  <2>2. <<q, i>> \in Token /\ <<q, i>>[1] = q
    BY <2>1, ItemToken
  <2>3. MayBeStored(d, lost')
    BY <1>4 DEF MayBeStored, Accepted
  <2> QED
    BY <1>3, <2>0, <2>2, <2>3 DEF Stored
<1>14. Sources'
  <2>1. Ask(d).op # "batch" => d.seen.data \subseteq Stored(call', lost')
    <3>1. Ask(d) = Ask(call[q])
      BY DEF Ask
    <3>2. Ask(call[q]).op # "batch" => call[q].seen.data \subseteq Stored(call, lost)
      BY <1>2 DEF Sources
    <3>3. Ask(d).op # "batch" => d.seen = call[q].seen
      OBVIOUS
    <3> QED
      BY ONLY <1>12, <3>1, <3>2, <3>3
  <2>2. \A k \in Key : rows'[k].data \cup erased'[k]
                         \subseteq rows[k].data \cup erased[k] \cup Stored(call', lost')
    BY <1>12, <1>13
  <2>3. d.phase # "new" /\ call[q].phase # "done"
    OBVIOUS
  <2> QED
    BY <1>2, <1>4, <1>5, <2>1, <2>2, <2>3, SourcesMove
<1>15. ASSUME resets = 0 PROVE Lasting'
  <2>1. RacesOK /\ DurableOK /\ CountsOK /\ NothingErasedReturns /\ OneCreator
    BY <1>15 DEF DocsSafe, Lasting
  <2>2. RacesOK'
    BY <1>2, <1>5, <1>15, <2>1, RacesMove
  <2>3. DurableOK'
    BY <1>2, <1>5, <1>15, <2>1, DurableMove
  <2>4. CountsOK'
    <3> SUFFICES ASSUME lost' = 0, NEW k \in Key
                 PROVE  rows'[k].version = (IF k \in Seed THEN 1 ELSE 0) + Cardinality(AnsweredIn(call', k))
      BY DEF CountsOK
    <3>1. lost = 0 /\ d.answer \in Accepted
      BY <1>4
    <3>2. rows[k].version = (IF k \in Seed THEN 1 ELSE 0) + Cardinality(AnsweredIn(call, k))
      BY <2>1, <3>1 DEF CountsOK
    <3>3. rows'[k].version = rows[k].version + Cardinality(On(q, d, k))
      BY <1>15, <3>1
    <3>4. IsFiniteSet(AnsweredIn(call, k)) /\ IsFiniteSet(On(q, d, k))
      BY <1>2, <1>10, OnFinite DEF AnswersFinite
    <3>5. Cardinality(AnsweredIn(call, k)) \in Nat /\ Cardinality(On(q, d, k)) \in Nat
      BY <3>4, FS_CardinalityType
    <3>6. Cardinality(AnsweredIn(call, k) \cup On(q, d, k))
            = Cardinality(AnsweredIn(call, k)) + Cardinality(On(q, d, k))
                - Cardinality(AnsweredIn(call, k) \cap On(q, d, k))
      BY ONLY <3>4, FS_Union
    <3>7. Cardinality(AnsweredIn(call, k) \cap On(q, d, k)) = 0
      BY <1>9, FS_EmptySet
    <3>8. Cardinality(AnsweredIn(call', k)) = Cardinality(AnsweredIn(call, k)) + Cardinality(On(q, d, k))
      <4>1. AnsweredIn(call', k) = AnsweredIn(call, k) \cup On(q, d, k)
        BY <1>9
      <4>2. Cardinality(AnsweredIn(call', k)) = Cardinality(AnsweredIn(call, k) \cup On(q, d, k))
        BY <4>1
      <4> QED
        BY ONLY <3>5, <3>6, <3>7, <4>2
    <3> QED
      BY ONLY <3>2, <3>3, <3>5, <3>8
  <2>5. NothingErasedReturns'
    BY <1>15 DEF NothingErasedReturns
  <2>6. OneCreator'
    BY <1>2, <1>15, <2>1, CreatorMove
  <2> QED
    BY <2>2, <2>3, <2>4, <2>5, <2>6 DEF Lasting
<1> QED
  BY <1>5, <1>6, <1>7, <1>11, <1>14, <1>15 DEF DocsSafe

\* One row is written by one statement.
LEMMA OneRow ==
  ASSUME DocsSafe, NEW q \in Call, call[q].phase \in {"write", "insert", "put", "delete"},
         lock[K(q)] = NoCall, NEW row \in Row, row.version > 0, NEW a \in Accepted \ {"flushed"},
         Store(q, row, call[q], a), UNCHANGED <<reset, resets>>, now' \in Stamp,
         erased' \in [Key -> SUBSET Token],
         \A k \in Key : k # K(q) => erased'[k] = erased[k],
         row.data \cup erased'[K(q)]
           \subseteq rows[K(q)].data \cup erased[K(q)] \cup Stored(call, lost) \cup {<<q, 1>>},
         resets = 0 =>
           /\ row.version = rows[K(q)].version + 1
           /\ rows[K(q)].data \cup erased[K(q)] \subseteq row.data \cup erased'[K(q)]
           /\ row.data \cap erased'[K(q)] = {}
           /\ a # "deleted" /\ Item1(q).stamp = NoStamp => <<q, 1>> \in row.data
           /\ a = "created" => rows[K(q)].version = 0
  PROVE  DocsSafe'
PROOF
<1> DEFINE c == call[q]
<1> DEFINE k0 == K(q)
<1>1. /\ c \in Calls /\ Form(c) /\ Listed(c) /\ Req(q) = Ask(c) /\ Req(q) \in Request
  BY Here
<1>2. Ask(c).op \in {"sync", "profile", "put", "delete"} /\ c.phase \notin {"new", "done"} \cup Open
  BY <1>1 DEF Form, Open
<1>3. k0 = Ask(c).items[1].key /\ k0 \in Key
  BY <1>1, <1>2, Here
<1>4. PICK b \in {a, "error"} :
        /\ call' = [call EXCEPT ![q] = [c EXCEPT !.phase = "done", !.answer = b]]
        /\ (b = a /\ lost' = lost) \/ (b = "error" /\ lost < MaxLost /\ lost' = lost + 1)
  <2>1. \/ Goes(q, [c EXCEPT !.phase = "done", !.answer = a]) /\ lost' = lost
        \/ /\ lost < MaxLost /\ lost' = lost + 1
           /\ Goes(q, [c EXCEPT !.phase = "done", !.answer = "error"])
    BY DEF Store
  <2> DEFINE Done(b) == [c EXCEPT !.phase = "done", !.answer = b]
  <2>2. \/ call' = [call EXCEPT ![q] = Done(a)] /\ lost' = lost
        \/ /\ lost < MaxLost /\ lost' = lost + 1
           /\ call' = [call EXCEPT ![q] = Done("error")]
    BY ONLY <2>1, Zenon DEF Goes
  <2> HIDE DEF Done
  <2>3. \E b \in {a, "error"} :
          /\ call' = [call EXCEPT ![q] = Done(b)]
          /\ (b = a /\ lost' = lost) \/ (b = "error" /\ lost < MaxLost /\ lost' = lost + 1)
    <3>1. CASE call' = [call EXCEPT ![q] = Done(a)] /\ lost' = lost
      BY ONLY <3>1
    <3>2. CASE /\ lost < MaxLost /\ lost' = lost + 1
               /\ call' = [call EXCEPT ![q] = Done("error")]
      BY ONLY <3>2, Zenon
    <3> QED
      BY ONLY <2>2, <3>1, <3>2, Zenon
  <2> QED
    BY ONLY <2>3, Zenon DEF Done
<1>5. rows' = [rows EXCEPT ![k0] = row] /\ lock' = lock
  BY DEF Store
<1>6. PICK d : d = Rec("done", c.request, c.attempt, c.seen, c.first, c.at, c.pending, c.found, b)
  OBVIOUS
<1>7. call' = [call EXCEPT ![q] = d]
  <2>1. [c EXCEPT !.phase = "done", !.answer = b] = d
    BY ONLY <1>1, <1>6, AnswerSet
  <2> QED
    BY <1>4, <2>1
<1>8. /\ d.phase = "done" /\ d.request = c.request /\ d.at = c.at /\ d.pending = c.pending
      /\ d.found = c.found /\ d.answer = b /\ d.seen = c.seen
  BY <1>6 DEF Rec
<1>9. Ask(d) = Ask(c) /\ Mine(q, d) = Mine(q, c)
  BY <1>8 DEF Ask, Mine
<1>10. b \in Answers /\ b # "flushed" /\ b # "none"
  BY DEF Accepted, Answers
<1>11. d \in Calls
  BY <1>1, <1>6, <1>10 DEF Calls, Rec, Phases
<1>12. Form(d)
  <2>1. c.request # <<>>
    BY <1>1, <1>2 DEF Form
  <2> QED
    BY <1>2, <1>8, <1>9, <1>10, <2>1 DEF Form
<1>13. Listed(d)
  BY <1>1, <1>2, <1>8, <1>9 DEF Listed, Named
<1>14. DOMAIN Ask(c).items = {1}
  <2>1. Len(Ask(c).items) = 1 /\ DOMAIN Ask(c).items = 1..Len(Ask(c).items)
    BY <1>1, <1>2, Requests
  <2> QED
    BY <2>1
<1>15. StateOK
  BY DEF DocsSafe
<1>16. rows \in [Key -> Row] /\ lock \in [Key -> Call \cup {NoCall}]
  BY <1>15 DEF StateOK
<1>17. rows' \in [Key -> Row] /\ lock' \in [Key -> Call \cup {NoCall}]
  BY <1>5, <1>16
<1>18. rows'[k0] = row /\ \A k \in Key : k # k0 => rows'[k] = rows[k]
  BY <1>3, <1>5, <1>16
<1>19. lost' \in 0..MaxLost
  BY <1>4, <1>15, LimitsAssumption DEF StateOK
<1>20. (b \in Accepted /\ lost' = lost) \/ (b = "error" /\ lost' = lost + 1)
  BY <1>4
<1>21. \A k \in Key : lock[k] \notin {NoCall, q} => rows'[k] = rows[k]
  BY <1>18
<1>22. \A k \in Key : lock'[k] # q
  BY <1>2, <1>5, CallAssumption DEF DocsSafe, RowsOK, Open
<1>23. \A k \in Key : rows'[k] = rows[k] \/ rows'[k].version > 0
  BY <1>18
<1>24. <<q, 1>> \in Mine(q, d)
  BY <1>9, <1>14 DEF Mine
<1>25. \A k \in Key : rows'[k].data \cup erased'[k]
                        \subseteq rows[k].data \cup erased[k] \cup Stored(call, lost) \cup Mine(q, d)
  <2> SUFFICES ASSUME NEW k \in Key
               PROVE  rows'[k].data \cup erased'[k]
                        \subseteq rows[k].data \cup erased[k] \cup Stored(call, lost) \cup Mine(q, d)
    OBVIOUS
  <2>1. CASE k = k0
    BY <1>18, <1>24, <2>1
  <2>2. CASE k # k0
    BY <1>18, <2>2
  <2> QED
    BY <2>1, <2>2
<1>26. ASSUME resets = 0
       PROVE  /\ \A k \in Key : rows[k].data \cup erased[k] \subseteq rows'[k].data \cup erased'[k]
              /\ \A k \in Key : rows'[k].data \cap erased'[k] = {}
              /\ Moves(rows, rows') /\ Races(d, rows') /\ Durable(q, d, rows', erased')
              /\ d.answer = "created" => rows[Ask(d).items[1].key].version = 0
              /\ d.answer \in Accepted =>
                   \A k \in Key : rows'[k].version = rows[k].version + Cardinality(On(q, d, k))
  <2>1. \A k \in Key : rows[k].data \cap erased[k] = {}
    BY <1>26 DEF DocsSafe, Lasting, NothingErasedReturns
  <2>2. ASSUME NEW k \in Key
        PROVE  /\ rows[k].data \cup erased[k] \subseteq rows'[k].data \cup erased'[k]
               /\ rows'[k].data \cap erased'[k] = {}
    <3>1. CASE k = k0
      BY <1>18, <1>26, <3>1
    <3>2. CASE k # k0
      BY <1>18, <2>1, <3>2
    <3> QED
      BY <3>1, <3>2
  <2>3. rows[k0].version \in Nat
    BY <1>3, <1>16 DEF Row
  <2>4. Moves(rows, rows')
    BY <1>18, <1>26, <2>3 DEF Moves
  <2>5. Races(d, rows')
    BY <1>3, <1>8, <1>9, <1>18 DEF Races
  <2>6. Durable(q, d, rows', erased')
    <3> SUFFICES ASSUME b \notin {"error", "deleted"}, Ask(c).items[1].stamp = NoStamp
                 PROVE  <<q, 1>> \in rows'[k0].data \cup erased'[k0]
      BY <1>3, <1>8, <1>9, <1>10 DEF Durable, Accepted
    <3>1. b = a /\ Item1(q).stamp = NoStamp
      BY <1>1 DEF Item1
    <3> QED
      BY <1>18, <1>26, <3>1
  <2>7. ASSUME d.answer \in Accepted, NEW k \in Key
        PROVE  rows'[k].version = rows[k].version + Cardinality(On(q, d, k))
    <3>1. CASE k = k0
      <4>1. On(q, d, k) = {<<q, 1>>}
        BY <1>3, <1>8, <1>9, <1>10, <1>14, <2>7, <3>1 DEF On
      <4>2. Cardinality({<<q, 1>>}) = 1
        BY FS_Singleton
      <4>3. row.version = rows[k0].version + 1
        BY <1>26
      <4> QED
        BY <1>18, <3>1, <4>1, <4>2, <4>3
    <3>2. CASE k # k0
      <4>1. On(q, d, k) = {}
        BY <1>3, <1>9, <1>14, <3>2 DEF On
      <4>2. Cardinality({}) = 0
        BY FS_EmptySet
      <4>3. rows'[k].version = rows[k].version /\ rows[k].version \in Nat
        BY <1>16, <1>18, <3>2 DEF Row
      <4> QED
        BY <4>1, <4>2, <4>3
    <3> QED
      BY <3>1, <3>2
  <2>8. d.answer = "created" => rows[Ask(d).items[1].key].version = 0
    BY <1>3, <1>4, <1>8, <1>9, <1>26
  <2> QED
    BY <2>2, <2>4, <2>5, <2>6, <2>7, <2>8
<1>27. \A k \in Key : lock'[k] # lock[k] => lock[k] = q /\ lock'[k] = NoCall
  BY <1>5
<1> QED
  BY <1>2, <1>7, <1>8, <1>11, <1>12, <1>13, <1>17, <1>19, <1>20, <1>21, <1>22, <1>23, <1>25, <1>26,
     <1>27, StoringStep

\* A call that is not a batch holds nothing, and its payload is nowhere yet.
LEMMA BeforeStoring ==
  ASSUME DocsSafe, NEW q \in Call, call[q].phase \in {"write", "insert", "put", "delete"}
  PROVE  /\ call[q] \in Calls /\ Form(call[q]) /\ Req(q) = Ask(call[q]) /\ Req(q).op # "batch"
         /\ K(q) = Ask(call[q]).items[1].key /\ K(q) \in Key /\ Item1(q).stamp \in Stamp
         /\ rows[K(q)] \in Row /\ erased \in [Key -> SUBSET Token] /\ now \in Stamp
         /\ <<q, 1>> \in Token /\ <<q, 1>> \notin rows[K(q)].data \cup erased[K(q)]
         /\ call[q].seen \in Row /\ call[q].seen.data \subseteq Stored(call, lost)
         /\ Free(K(q), q) \/ rows[K(q)].version = 0 => lock[K(q)] = NoCall
         /\ resets = 0 => Races(call[q], rows) /\ rows[K(q)].data \cap erased[K(q)] = {}
PROOF
<1>1. call[q] \in Calls /\ Form(call[q]) /\ Req(q) = Ask(call[q])
  BY Here
<1>2. Req(q).op # "batch"
  BY <1>1 DEF Form
<1>3. K(q) = Ask(call[q]).items[1].key /\ K(q) \in Key /\ Item1(q).stamp \in Stamp
  BY <1>2, Here
<1>4. rows[K(q)] \in Row /\ erased \in [Key -> SUBSET Token] /\ now \in Stamp /\ rows[K(q)].version \in Nat
  BY <1>3 DEF DocsSafe, StateOK, Row
<1>5. <<q, 1>> \in Token /\ <<q, 1>>[1] = q
  BY ItemToken
<1>6. <<q, 1>> \notin Stored(call, lost)
  BY <1>5 DEF Stored, MayBeStored
<1>7. rows[K(q)].data \cup erased[K(q)] \subseteq Stored(call, lost)
  BY <1>3 DEF DocsSafe, Sources
<1>8. call[q].seen \in Row /\ call[q].seen.data \subseteq Stored(call, lost)
  BY <1>1, <1>2 DEF DocsSafe, Sources, Calls
<1>9. Free(K(q), q) \/ rows[K(q)].version = 0 => lock[K(q)] = NoCall
  BY <1>3, <1>4 DEF Free, DocsSafe, RowsOK
<1>10. resets = 0 => Races(call[q], rows) /\ rows[K(q)].data \cap erased[K(q)] = {}
  BY <1>3 DEF DocsSafe, Lasting, RacesOK, NothingErasedReturns
<1> QED
  BY <1>1, <1>2, <1>3, <1>4, <1>5, <1>6, <1>7, <1>8, <1>9, <1>10

LEMMA SwapSafe ==
  ASSUME DocsSafe, NEW q \in Call, Swap(q)
  PROVE  DocsSafe'
PROOF
<1> DEFINE c == call[q]
<1> DEFINE k == K(q)
<1>1. /\ c.phase = "write" /\ Free(k, q) /\ rows[k].version = c.seen.version
      /\ Store(q, Merged(c.seen, <<q, 1>>, Item1(q).stamp, TRUE), call[q], "merged")
      /\ UNCHANGED <<background, erased>>
  BY DEF Swap, Current
<1>2. /\ c \in Calls /\ Req(q) = Ask(c) /\ k = Ask(c).items[1].key /\ k \in Key /\ Item1(q).stamp \in Stamp
      /\ rows[k] \in Row /\ erased \in [Key -> SUBSET Token] /\ now \in Stamp
      /\ <<q, 1>> \in Token /\ <<q, 1>> \notin rows[k].data \cup erased[k]
      /\ c.seen \in Row /\ c.seen.data \subseteq Stored(call, lost) /\ lock[k] = NoCall
      /\ resets = 0 => Races(c, rows) /\ rows[k].data \cap erased[k] = {}
  BY <1>1, BeforeStoring
<1>3. PICK row : row = Revived(c.seen, <<q, 1>>, Item1(q).stamp)
  OBVIOUS
<1>4. /\ row \in Row /\ row.version = c.seen.version + 1 /\ c.seen.data \subseteq row.data
      /\ row.data \subseteq c.seen.data \cup {<<q, 1>>}
      /\ Item1(q).stamp = NoStamp => <<q, 1>> \in row.data
  <2>1. c.seen \in Row /\ <<q, 1>> \in Token /\ Item1(q).stamp \in Stamp
    BY <1>2
  <2> QED
    BY ONLY <1>3, <2>1, RevivedRow
<1>5. c.seen.version \in Nat /\ row.version > 0
  BY <1>2, <1>4 DEF Row
<1>6. ASSUME resets = 0 PROVE rows[k] = c.seen
  BY <1>1, <1>2, <1>6 DEF Races
<1>7. Store(q, row, call[q], "merged") /\ "merged" \in Accepted \ {"flushed"}
  BY <1>1, <1>3 DEF Accepted, Revived
<1>8. /\ UNCHANGED <<reset, resets>> /\ now' \in Stamp /\ erased' = erased
  BY <1>1, <1>2 DEF background
<1>9. row.data \cup erased'[k] \subseteq rows[k].data \cup erased[k] \cup Stored(call, lost) \cup {<<q, 1>>}
  BY <1>2, <1>4, <1>8
<1>10. ASSUME resets = 0
       PROVE  /\ row.version = rows[k].version + 1
              /\ rows[k].data \cup erased[k] \subseteq row.data \cup erased'[k]
              /\ row.data \cap erased'[k] = {}
              /\ Item1(q).stamp = NoStamp => <<q, 1>> \in row.data
  <2>1. rows[k] = c.seen
    BY <1>6, <1>10
  <2>2. rows[k].data \cap erased[k] = {}
    BY <1>2, <1>10
  <2> HIDE DEF c, k
  <2> QED
    BY ONLY <1>2, <1>4, <1>8, <2>1, <2>2
<1> QED
  BY <1>1, <1>2, <1>4, <1>5, <1>7, <1>8, <1>9, <1>10, OneRow

LEMMA InsertSafe ==
  ASSUME DocsSafe, NEW q \in Call, Insert(q)
  PROVE  DocsSafe'
PROOF
<1> DEFINE c == call[q]
<1> DEFINE k == K(q)
<1>1. /\ c.phase = "insert" /\ rows[k].version = 0
      /\ Store(q, Merged(NoRow, <<q, 1>>, Item1(q).stamp, TRUE), call[q], "created")
      /\ UNCHANGED <<background, erased>>
  BY DEF Insert, EmailFree
<1>2. /\ k \in Key /\ Item1(q).stamp \in Stamp
      /\ rows[k] \in Row /\ erased \in [Key -> SUBSET Token] /\ now \in Stamp
      /\ <<q, 1>> \in Token /\ <<q, 1>> \notin rows[k].data \cup erased[k] /\ lock[k] = NoCall
      /\ resets = 0 => rows[k].data \cap erased[k] = {}
  BY <1>1, BeforeStoring
<1>3. rows[k] = NoRow /\ NoRow \in Row
  BY <1>1, <1>2, FirstRows DEF DocsSafe, RowsOK
<1>4. PICK row : row = Revived(NoRow, <<q, 1>>, Item1(q).stamp)
  OBVIOUS
<1>5. /\ row \in Row /\ row.version = 1 /\ row.data \subseteq {<<q, 1>>}
      /\ Item1(q).stamp = NoStamp => <<q, 1>> \in row.data
  <2>1. NoRow \in Row /\ <<q, 1>> \in Token /\ Item1(q).stamp \in Stamp
    BY <1>2, <1>3
  <2>2. /\ row \in Row /\ row.version = NoRow.version + 1
        /\ row.data \subseteq NoRow.data \cup {<<q, 1>>}
        /\ Item1(q).stamp = NoStamp => <<q, 1>> \in row.data
    BY ONLY <1>4, <2>1, RevivedRow
  <2> QED
    BY <2>2, FirstRows
<1>6. Store(q, row, call[q], "created") /\ "created" \in Accepted \ {"flushed"}
  BY <1>1, <1>4 DEF Accepted, Revived
<1>7. UNCHANGED <<reset, resets>> /\ now' \in Stamp /\ erased' = erased
  BY <1>1, <1>2 DEF background
<1>8. rows[k].data = {} /\ rows[k].version = 0
  BY <1>3, FirstRows
<1>9. row.data \cup erased'[k] \subseteq rows[k].data \cup erased[k] \cup Stored(call, lost) \cup {<<q, 1>>}
  BY <1>5, <1>7
<1>10. /\ row.version = rows[k].version + 1 /\ row.version > 0
       /\ rows[k].data \cup erased[k] \subseteq row.data \cup erased'[k]
       /\ row.data \cap erased'[k] = {}
  BY <1>2, <1>5, <1>7, <1>8
<1> QED
  BY <1>1, <1>2, <1>5, <1>6, <1>7, <1>9, <1>10, OneRow

LEMMA PutSafe ==
  ASSUME DocsSafe, NEW q \in Call, Put(q)
  PROVE  DocsSafe'
PROOF
<1> DEFINE c == call[q]
<1> DEFINE k == K(q)
<1>1. /\ c.phase = "put" /\ Free(k, q)
      /\ Store(q, Replaced(rows[k], <<q, 1>>, Item1(q).stamp), call[q], "replaced")
      /\ erased' = [erased EXCEPT ![k] = @ \cup rows[k].data]
      /\ UNCHANGED background
  BY DEF Put
<1>2. /\ k \in Key /\ Item1(q).stamp \in Stamp
      /\ rows[k] \in Row /\ erased \in [Key -> SUBSET Token] /\ now \in Stamp
      /\ <<q, 1>> \in Token /\ <<q, 1>> \notin rows[k].data \cup erased[k] /\ lock[k] = NoCall
  BY <1>1, BeforeStoring
<1>3. PICK row : row = Replaced(rows[k], <<q, 1>>, Item1(q).stamp)
  OBVIOUS
<1>4. row \in Row /\ row.version = rows[k].version + 1 /\ row.data = {<<q, 1>>}
  BY <1>2, <1>3, ReplacedRow
<1>5. rows[k].version \in Nat /\ rows[k].data \in SUBSET Token
  BY <1>2 DEF Row
<1>6. Store(q, row, call[q], "replaced") /\ "replaced" \in Accepted \ {"flushed"}
  BY <1>1, <1>3 DEF Accepted
<1>7. UNCHANGED <<reset, resets>> /\ now' \in Stamp
  BY <1>1, <1>2 DEF background
<1>8. erased'[k] = erased[k] \cup rows[k].data /\ erased' \in [Key -> SUBSET Token]
        /\ \A j \in Key : j # k => erased'[j] = erased[j]
  BY <1>1, <1>2, <1>5
<1>9. row.data \cup erased'[k] \subseteq rows[k].data \cup erased[k] \cup Stored(call, lost) \cup {<<q, 1>>}
  BY <1>4, <1>8
<1>10. /\ row.version = rows[k].version + 1 /\ row.version > 0
       /\ rows[k].data \cup erased[k] \subseteq row.data \cup erased'[k]
       /\ row.data \cap erased'[k] = {} /\ <<q, 1>> \in row.data
  BY <1>2, <1>4, <1>5, <1>8
<1> QED
  BY <1>1, <1>2, <1>4, <1>6, <1>7, <1>8, <1>9, <1>10, OneRow

LEMMA DeleteSafe ==
  ASSUME DocsSafe, NEW q \in Call, Delete(q)
  PROVE  DocsSafe'
PROOF
<1> DEFINE c == call[q]
<1> DEFINE k == K(q)
<1>1. /\ c.phase = "delete" /\ Free(k, q) /\ now' \in now..MaxTime
      /\ Store(q, Tombstone(rows[k], now'), call[q], "deleted")
      /\ UNCHANGED <<reset, resets, erased>>
  BY DEF Delete
<1>2. /\ k \in Key /\ rows[k] \in Row /\ erased \in [Key -> SUBSET Token] /\ now \in Stamp
      /\ lock[k] = NoCall /\ (resets = 0 => rows[k].data \cap erased[k] = {})
  BY <1>1, BeforeStoring
<1>3. now' \in Stamp
  BY <1>1, <1>2, DocumentsAssumption DEF Stamp
<1>4. PICK row : row = Tombstone(rows[k], now')
  OBVIOUS
<1>5. row \in Row /\ row.version = rows[k].version + 1 /\ row.data = rows[k].data
  BY <1>2, <1>3, <1>4, TombstoneRow
<1>6. rows[k].version \in Nat
  BY <1>2 DEF Row
<1>7. Store(q, row, call[q], "deleted") /\ "deleted" \in Accepted \ {"flushed"}
  BY <1>1, <1>4 DEF Accepted
<1>8. row.data \cup erased'[k] \subseteq rows[k].data \cup erased[k] \cup Stored(call, lost) \cup {<<q, 1>>}
  BY <1>1, <1>5
<1>9. /\ row.version = rows[k].version + 1 /\ row.version > 0
      /\ rows[k].data \cup erased[k] \subseteq row.data \cup erased'[k]
      /\ resets = 0 => row.data \cap erased'[k] = {}
  BY <1>1, <1>2, <1>5, <1>6
<1> QED
  BY <1>1, <1>2, <1>3, <1>5, <1>7, <1>8, <1>9, OneRow

\* What COMMIT makes of a row.
LEMMA Written ==
  ASSUME DocsSafe, NEW q \in Call, call[q].phase = "lock", ~ Left(q), NEW k \in Key
  PROVE  LET c == call[q]
             row == View(c, k, rows[k])
         IN /\ row \in Row /\ rows[k] \in Row /\ rows[k].version \in Nat
            /\ c.found \subseteq DOMAIN Ask(c).items
            /\ On(q, [c EXCEPT !.phase = "done", !.answer = "flushed"], k) = Hits(q, c, k)
            /\ row.version = rows[k].version + Cardinality(Hits(q, c, k))
            /\ Cardinality(Hits(q, c, k)) \in Nat
            /\ row = rows[k] \/ row.version > rows[k].version
            /\ rows[k].data \subseteq row.data /\ row.data \subseteq rows[k].data \cup Mine(q, c)
            /\ \A i \in c.found :
                 Ask(c).items[i].key = k /\ Ask(c).items[i].stamp = NoStamp => <<q, i>> \in row.data
            /\ \E g : Walk(q, c, k, rows[k], g)
            /\ c.at - 1 = Len(Ask(c).items)
PROOF
<1> DEFINE c == call[q]
<1> DEFINE row == View(c, k, rows[k])
<1> DEFINE d == [c EXCEPT !.phase = "done", !.answer = "flushed"]
<1>1. /\ c \in Calls /\ Listed(c) /\ Req(q) = Ask(c) /\ Req(q) \in Request
      /\ Batched(q, c, rows, lock)
  BY Here
<1>2. rows[k] \in Row /\ rows[k].version \in Nat
  BY DEF DocsSafe, StateOK, Row
<1>3. row \in Row /\ row.version \in Nat
  BY <1>1, <1>2, ViewRow DEF Row
<1>4. Progress(q, c, k, rows[k])
  BY <1>1 DEF Batched
<1>5. c.found \subseteq 1..(c.at - 1) /\ c.at <= Len(Ask(c).items) + 1 /\ DOMAIN c.pending = Named(c)
  BY <1>1 DEF Listed
<1>6. DOMAIN Ask(c).items = 1..Len(Ask(c).items) /\ Len(Ask(c).items) \in Nat
  BY <1>1, Requests
<1>7. c.at \in Nat /\ ~ (c.at <= Len(Ask(c).items))
  BY <1>1 DEF Calls, Left
<1>8. c.at - 1 = Len(Ask(c).items) /\ c.found \subseteq DOMAIN Ask(c).items
  BY <1>5, <1>6, <1>7
<1>9. On(q, d, k) = Hits(q, c, k)
  <2>1. d = Rec("done", c.request, c.attempt, c.seen, c.first, c.at, c.pending, c.found, "flushed")
    BY <1>1, AnswerSet
  <2>2. d.request = c.request /\ d.found = c.found /\ d.answer = "flushed"
    BY <2>1 DEF Rec
  <2>3. Ask(d) = Ask(c)
    BY <2>2 DEF Ask
  <2> HIDE DEF d, c
  <2> QED
    BY <1>8, <2>2, <2>3 DEF On, Hits, Accepted
<1>10. Cardinality(Hits(q, c, k)) \in Nat
  BY <1>4, FS_CardinalityType DEF Progress
<1>11. row.version = rows[k].version + Cardinality(Hits(q, c, k))
  BY <1>4 DEF Progress
<1>12. row = rows[k] \/ row.version > rows[k].version
  <2>1. CASE Cardinality(Hits(q, c, k)) = 0
    <3>1. Hits(q, c, k) = {}
      BY <1>4, <2>1, FS_EmptySet DEF Progress
    <3>2. k \notin Named(c)
      BY <3>1 DEF Hits, Named
    <3> QED
      BY <1>5, <3>2 DEF View
  <2>2. CASE Cardinality(Hits(q, c, k)) # 0
    BY <1>2, <1>10, <1>11, <2>2
  <2> QED
    BY <2>1, <2>2
<1>13. /\ rows[k].data \subseteq row.data /\ row.data \subseteq rows[k].data \cup Mine(q, c)
       /\ \A i \in c.found :
            Ask(c).items[i].key = k /\ Ask(c).items[i].stamp = NoStamp => <<q, i>> \in row.data
       /\ \E g : Walk(q, c, k, rows[k], g)
  BY <1>4 DEF Progress
<1> QED
  BY <1>2, <1>3, <1>8, <1>9, <1>10, <1>11, <1>12, <1>13

LEMMA BatchCommitSafe ==
  ASSUME DocsSafe, NEW q \in Call, BatchCommit(q)
  PROVE  DocsSafe'
PROOF
<1> DEFINE c == call[q]
<1> DEFINE Row2(k) == View(c, k, rows[k])
<1>1. /\ c.phase = "lock" /\ ~ Left(q) /\ rows' = [k \in Key |-> Seen(q, k)]
      /\ lock' = Unlocked(q) /\ UNCHANGED <<background, erased>>
  BY DEF BatchCommit
<1>2. /\ c \in Calls /\ Form(c) /\ Listed(c) /\ Req(q) = Ask(c) /\ Req(q) \in Request
      /\ CallOK(q, c, rows, lock)
  BY <1>1, Here
<1>3. PICK b \in {"flushed", "error"} :
        /\ Goes(q, Answered(q, b))
        /\ (b = "flushed" /\ lost' = lost) \/ (b = "error" /\ lost < MaxLost /\ lost' = lost + 1)
  BY DEF BatchCommit
<1>4. PICK d : d = Rec("done", c.request, c.attempt, c.seen, c.first, c.at, c.pending, c.found, b)
  OBVIOUS
<1>5. [c EXCEPT !.phase = "done", !.answer = b] = d
  BY ONLY <1>2, <1>4, AnswerSet
<1>6. call' = [call EXCEPT ![q] = d]
  BY <1>3, <1>5 DEF Goes, Answered
<1>7. d \in Calls
  BY <1>2, <1>4 DEF Calls, Rec, Phases, Answers
<1>8. /\ d.phase = "done" /\ d.request = c.request /\ d.at = c.at /\ d.pending = c.pending
      /\ d.found = c.found /\ d.answer = b /\ d.seen = c.seen
  BY <1>4 DEF Rec
<1>9. Ask(d) = Ask(c) /\ Mine(q, d) = Mine(q, c)
  BY <1>8 DEF Ask, Mine
<1>10. Ask(c).op = "batch" /\ c.request # <<>>
  BY <1>1, <1>2 DEF Form
<1>11. Form(d)
  BY <1>8, <1>9, <1>10 DEF Form, Accepted
<1>12. Listed(d)
  BY <1>1, <1>2, <1>8, <1>9 DEF Listed, Named
<1>13. lock \in [Key -> Call \cup {NoCall}] /\ rows \in [Key -> Row] /\ erased \in [Key -> SUBSET Token]
         /\ lost \in 0..MaxLost /\ now \in Stamp
  BY DEF DocsSafe, StateOK
<1>14. \A k \in Key : rows'[k] = Row2(k)
  BY <1>1 DEF Seen, View
<1>15. ASSUME NEW k \in Key
       PROVE  /\ Row2(k) \in Row /\ rows[k] \in Row /\ rows[k].version \in Nat
              /\ Row2(k).version = rows[k].version + Cardinality(Hits(q, c, k))
              /\ Row2(k) = rows[k] \/ Row2(k).version > rows[k].version
              /\ rows[k].data \subseteq Row2(k).data /\ Row2(k).data \subseteq rows[k].data \cup Mine(q, c)
              /\ \A i \in c.found :
                   Ask(c).items[i].key = k /\ Ask(c).items[i].stamp = NoStamp => <<q, i>> \in Row2(k).data
              /\ c.found \subseteq DOMAIN Ask(c).items
              /\ b = "flushed" => On(q, d, k) = Hits(q, c, k)
  BY <1>1, <1>5, Written
<1>16. rows' \in [Key -> Row]
  BY <1>1, <1>15 DEF Seen, View
<1>17. lost' \in 0..MaxLost
  BY <1>3, <1>13, LimitsAssumption
<1>18. (d.answer \in Accepted /\ lost' = lost) \/ (d.answer = "error" /\ lost' = lost + 1)
  BY <1>3, <1>8 DEF Accepted
<1>19. /\ lock' \in [Key -> Call \cup {NoCall}] /\ \A k \in Key : lock'[k] # q
       /\ \A k \in Key : lock'[k] # lock[k] => lock[k] = q /\ lock'[k] = NoCall
  BY <1>1, <1>13, CallAssumption DEF Unlocked
<1>20. \A k \in Key : lock[k] \notin {NoCall, q} => rows'[k] = rows[k]
  <2> SUFFICES ASSUME NEW k \in Key, lock[k] # q PROVE rows'[k] = rows[k]
    OBVIOUS
  <2>1. k \notin DOMAIN c.pending
    BY <1>1, <1>2 DEF CallOK, Holds
  <2> QED
    BY <1>14, <2>1 DEF View
<1>21. \A k \in Key : rows'[k] = rows[k] \/ rows'[k].version > rows[k].version
  BY <1>14, <1>15
<1>22. \A k \in Key : rows'[k] = rows[k] \/ rows'[k].version > 0
  <2> SUFFICES ASSUME NEW k \in Key PROVE rows'[k] = rows[k] \/ rows'[k].version > 0
    OBVIOUS
  <2>1. rows[k].version \in Nat /\ rows'[k].version \in Nat
    BY <1>13, <1>16 DEF Row
  <2> QED
    BY <1>21, <2>1
<1>23. /\ \A k \in Key : rows'[k].data \subseteq rows[k].data \cup Mine(q, d)
       /\ \A k \in Key : rows[k].data \subseteq rows'[k].data
  BY <1>9, <1>14, <1>15
<1>24. erased' = erased /\ UNCHANGED <<reset, resets>> /\ now' \in Stamp /\ erased' \in [Key -> SUBSET Token]
  BY <1>1, <1>13 DEF background
<1>25. \A k \in Key : rows'[k].data \cup erased'[k]
                        \subseteq rows[k].data \cup erased[k] \cup Stored(call, lost) \cup Mine(q, d)
  BY <1>23, <1>24
<1>26. ASSUME resets = 0
       PROVE  /\ \A k \in Key : rows[k].data \cup erased[k] \subseteq rows'[k].data \cup erased'[k]
              /\ \A k \in Key : rows'[k].data \cap erased'[k] = {}
              /\ Moves(rows, rows') /\ Races(d, rows') /\ Durable(q, d, rows', erased')
              /\ d.answer = "created" => rows[Ask(d).items[1].key].version = 0
              /\ d.answer \in Accepted =>
                   \A k \in Key : rows'[k].version = rows[k].version + Cardinality(On(q, d, k))
  <2>1. ASSUME NEW k \in Key PROVE Mine(q, d) \cap erased[k] = {}
    <3>1. erased[k] \subseteq Stored(call, lost)
      BY DEF DocsSafe, Sources
    <3>2. \A t \in Mine(q, d) : t[1] = q
      BY DEF Mine
    <3>3. \A t \in Stored(call, lost) : t[1] # q
      BY <1>1 DEF Stored, MayBeStored
    <3> QED
      BY <3>1, <3>2, <3>3
  <2>2. \A k \in Key : rows[k].data \cap erased[k] = {}
    BY <1>26 DEF DocsSafe, Lasting, NothingErasedReturns
  <2>3. \A k \in Key : rows'[k].data \cap erased'[k] = {}
    BY <1>23, <1>24, <2>1, <2>2
  <2>4. Moves(rows, rows')
    BY <1>21 DEF Moves
  <2>5. Races(d, rows')
    BY <1>8 DEF Races
  <2>6. Durable(q, d, rows', erased')
    <3> SUFFICES ASSUME b = "flushed", NEW i \in c.found, Ask(c).items[i].stamp = NoStamp
                 PROVE  <<q, i>> \in rows'[Ask(c).items[i].key].data
      BY <1>8, <1>9 DEF Durable, Accepted
    <3>1. i \in DOMAIN Ask(c).items
      <4>1. i \in 1..(c.at - 1) /\ c.at <= Len(Ask(c).items) + 1
        BY <1>1, <1>2 DEF Listed
      <4>2. Len(Ask(c).items) \in Nat /\ DOMAIN Ask(c).items = 1..Len(Ask(c).items) /\ c.at \in Nat
        BY <1>2, Requests DEF Calls
      <4> QED
        BY <4>1, <4>2
    <3>2. Ask(c).items[i].key \in Key
      BY <1>2, <3>1, Requests
    <3> QED
      BY <1>14, <1>15, <3>2
  <2>7. d.answer \in Accepted =>
          \A k \in Key : rows'[k].version = rows[k].version + Cardinality(On(q, d, k))
    BY <1>8, <1>14, <1>15 DEF Accepted
  <2>8. d.answer # "created"
    BY <1>8
  <2> QED
    BY <1>23, <1>24, <2>3, <2>4, <2>5, <2>6, <2>7, <2>8
<1>27. c.phase \notin {"new", "done"} /\ Ask(d).op = "batch"
  BY <1>1, <1>9, <1>10
<1> QED
  BY <1>6, <1>7, <1>8, <1>11, <1>12, <1>16, <1>17, <1>18, <1>19, <1>20, <1>22, <1>24, <1>25, <1>26,
     <1>27, StoringStep

-----------------------------------------------------------------------------
(* The reset *)

\* It takes rows nobody holds.
LEMMA ResetStep ==
  ASSUME DocsSafe, StateOK', UNCHANGED <<call, lock, lost>>, resets' # 0,
         \A k \in Key : rows'[k] = rows[k] \/ lock[k] = NoCall,
         \A k \in Key : rows'[k].version = 0 => rows'[k] = NoRow,
         \A k \in Key : rows'[k].data \cup erased'[k] \subseteq rows[k].data \cup erased[k]
  PROVE  DocsSafe'
PROOF
<1>1. StateOK /\ RowsOK /\ CallsOK /\ Sources /\ AnswersFinite
  BY DEF DocsSafe
<1>2. RowsOK'
  BY <1>1 DEF RowsOK
<1>3. CallsOK'
  <2> SUFFICES ASSUME NEW q \in Call PROVE CallOK(q, call[q], rows', lock')
    BY DEF CallsOK
  <2>1. call[q] \in Calls /\ rows \in [Key -> Row] /\ rows' \in [Key -> Row]
    BY <1>1 DEF StateOK
  <2>2. CallOK(q, call[q], rows, lock)
    BY <1>1 DEF CallsOK
  <2>3. \A k \in Key : lock[k] = q => lock'[k] = q /\ rows'[k] = rows[k]
    BY CallAssumption
  <2> QED
    BY <2>1, <2>2, <2>3, CallKept
<1>4. Sources'
  BY <1>1 DEF Sources
<1>5. AnswersFinite'
  BY <1>1 DEF AnswersFinite
<1> QED
  BY <1>2, <1>3, <1>4, <1>5 DEF DocsSafe

LEMMA EraseSafe ==
  ASSUME DocsSafe, NEW K0 \in SUBSET Key, Erase(K0), resets' \in 1..MaxResets,
         reset' \in {"idle", "profiles", "seed"}
  PROVE  DocsSafe'
PROOF
<1>1. /\ \A k \in K0 : lock[k] = NoCall
      /\ rows' = [k \in Key |-> IF k \in K0 THEN NoRow ELSE rows[k]]
      /\ erased' = [k \in Key |-> IF k \in K0 THEN erased[k] \cup rows[k].data ELSE erased[k]]
      /\ UNCHANGED <<now, lock, call, lost>>
  BY DEF Erase
<1>2. StateOK /\ RowsOK
  BY DEF DocsSafe
<1>3. \A k \in Key : rows[k] \in Row /\ rows[k].data \in SUBSET Token /\ erased[k] \in SUBSET Token
  BY <1>2 DEF StateOK, Row
<1>4. rows' \in [Key -> Row]
  BY <1>1, <1>3, FirstRows
<1>5. erased' \in [Key -> SUBSET Token]
  BY <1>1, <1>3
<1>6. resets' # 0 /\ resets' > 0 /\ resets' \in 0..MaxResets
  BY LimitsAssumption
<1>7. StateOK'
  BY <1>1, <1>2, <1>4, <1>5, <1>6 DEF StateOK
<1>8. \A k \in Key : rows'[k] = rows[k] \/ lock[k] = NoCall
  BY <1>1
<1>9. \A k \in Key : rows'[k].version = 0 => rows'[k] = NoRow
  BY <1>1, <1>2 DEF RowsOK
<1>10. \A k \in Key : rows'[k].data \cup erased'[k] \subseteq rows[k].data \cup erased[k]
  BY <1>1, FirstRows
<1> QED
  BY <1>1, <1>6, <1>7, <1>8, <1>9, <1>10, ResetStep

LEMMA ResetSafe ==
  ASSUME DocsSafe, ResetDocs \/ ResetProfiles \/ ResetSeed
  PROVE  DocsSafe'
PROOF
<1>1. StateOK /\ RowsOK /\ Doc \subseteq Key /\ Email \subseteq Key
  BY DEF DocsSafe, Key
<1>2. resets \in 0..MaxResets /\ MaxResets \in Nat /\ (reset # "idle" => resets > 0)
  BY <1>1, LimitsAssumption DEF StateOK
<1>3. CASE ResetDocs
  <2>1. resets < MaxResets /\ resets' = resets + 1 /\ reset' = "profiles" /\ Erase(Doc)
    BY <1>3 DEF ResetDocs
  <2>2. resets' \in 1..MaxResets
    BY <1>2, <2>1
  <2> QED
    BY <1>1, <2>1, <2>2, EraseSafe
<1>4. CASE ResetProfiles
  <2>1. reset = "profiles" /\ resets' = resets /\ reset' = "seed" /\ Erase(Email)
    BY <1>4 DEF ResetProfiles
  <2>2. resets' \in 1..MaxResets
    BY <1>2, <2>1
  <2> QED
    BY <1>1, <2>1, <2>2, EraseSafe
<1>5. CASE ResetSeed
  <2>1. /\ reset = "seed" /\ reset' = "idle"
        /\ rows' = [k \in Key |-> IF k \in Seed /\ rows[k].version = 0 THEN Seeded ELSE rows[k]]
        /\ UNCHANGED <<now, lock, call, erased, lost, resets>>
    BY <1>5 DEF ResetSeed
  <2>2. rows' \in [Key -> Row]
    BY <1>1, <2>1, FirstRows DEF StateOK
  <2>3. StateOK'
    BY <1>1, <2>1, <2>2 DEF StateOK
  <2>4. resets' # 0
    BY <1>2, <2>1
  <2>5. \A k \in Key : rows'[k] = rows[k] \/ lock[k] = NoCall
    <3>1. \A k \in Key : rows[k].version = 0 => lock[k] = NoCall
      BY <1>1 DEF RowsOK
    <3> QED
      BY <2>1, <3>1
  <2>6. \A k \in Key : rows'[k].version = 0 => rows'[k] = NoRow
    BY <1>1, <2>1, FirstRows DEF RowsOK
  <2>7. \A k \in Key : rows'[k].data \cup erased'[k] \subseteq rows[k].data \cup erased[k]
    BY <2>1, FirstRows
  <2> QED
    BY <2>1, <2>3, <2>4, <2>5, <2>6, <2>7, ResetStep
<1> QED
  BY <1>3, <1>4, <1>5

-----------------------------------------------------------------------------
(* The invariant holds *)

LEMMA InitSafe == Init => DocsSafe
PROOF
<1> SUFFICES ASSUME Init PROVE DocsSafe
  OBVIOUS
<1>1. /\ rows = [k \in Key |-> IF k \in Seed THEN Seeded ELSE NoRow]
      /\ now = 1 /\ lock = [k \in Key |-> NoCall] /\ call = [q \in Call |-> New]
      /\ reset = "idle" /\ lost = 0 /\ resets = 0 /\ erased = [k \in Key |-> {}]
  BY DEF Init
<1>2. New \in Calls
  <2>1. <<>> \in [{} -> Row] /\ {} \in SUBSET Key
    OBVIOUS
  <2>2. <<>> \in Pending
    BY <2>1 DEF Pending
  <2>3. 1 \in 1..MaxAttempts
    BY LimitsAssumption
  <2> QED
    BY <2>2, <2>3, FirstRows DEF New, Calls, Phases, Answers
<1>3. New.phase = "new" /\ New.answer = "none" /\ New.pending = <<>>
  BY DEF New
<1>4. \A q \in Call : call[q] = New
  BY <1>1
<1>5. 0 \in 0..MaxLost /\ 0 \in 0..MaxResets
  BY LimitsAssumption
<1>6. rows \in [Key -> Row]
  BY <1>1, FirstRows
<1>7. StateOK
  <2>1. 1 \in Stamp
    BY DocumentsAssumption DEF Stamp
  <2> QED
    BY <1>1, <1>2, <1>5, <1>6, <2>1 DEF StateOK
<1>8. RowsOK
  BY <1>1, FirstRows DEF RowsOK
<1>9. CallsOK
  <2>1. DOMAIN New.pending = {}
    BY <1>3
  <2>2. ASSUME NEW q \in Call PROVE CallOK(q, New, rows, lock)
    BY <1>3, <2>1 DEF CallOK, Form, Listed, Holds, Batched, Merging, Accepted
  <2> QED
    BY <1>4, <2>2 DEF CallsOK
<1>10. Sources
  BY <1>1, <1>3, <1>4, FirstRows DEF Sources
<1>11. \A k : AnsweredIn(call, k) = {}
  BY <1>3, <1>4 DEF AnsweredIn, On, Accepted
<1>12. AnswersFinite
  BY <1>11, FS_EmptySet DEF AnswersFinite
<1>13. RacesOK /\ DurableOK /\ OneCreator
  BY <1>3, <1>4 DEF RacesOK, DurableOK, OneCreator
<1>14. CountsOK
  <2>1. Cardinality({}) = 0
    BY FS_EmptySet
  <2> QED
    BY <1>1, <1>11, <2>1, FirstRows DEF CountsOK
<1>15. NothingErasedReturns
  BY <1>1 DEF NothingErasedReturns
<1> QED
  BY <1>7, <1>8, <1>9, <1>10, <1>12, <1>13, <1>14, <1>15 DEF DocsSafe, Lasting

LEMMA NextSafe == DocsSafe /\ [Next]_vars => DocsSafe'
PROOF
<1> SUFFICES ASSUME DocsSafe, [Next]_vars PROVE DocsSafe'
  OBVIOUS
<1>1. ASSUME NEW q \in Call, Arrive(q) PROVE DocsSafe'
  BY <1>1, ArriveSafe
<1>2. ASSUME NEW q \in Call, Sync(q) PROVE DocsSafe'
  BY <1>2, ReadSafe, SwapSafe, LoseRaceSafe, BackoffSafe, InsertSafe, InsertRefusedSafe DEF Sync
<1>3. ASSUME NEW q \in Call, Put(q) \/ Delete(q) \/ DeleteNothing(q) PROVE DocsSafe'
  BY <1>3, PutSafe, DeleteSafe, DeleteNothingSafe
<1>4. ASSUME NEW q \in Call, Batch(q) PROVE DocsSafe'
  BY <1>4, BatchLockSafe, BatchMissingSafe, BatchMergeSafe, BatchThrowSafe, BatchCommitSafe,
     BatchRollbackSafe DEF Batch
<1>5. CASE ResetDocs \/ ResetProfiles \/ ResetSeed
  BY <1>5, ResetSafe
<1>6. CASE UNCHANGED vars
  BY <1>6 DEF vars, DocsSafe, StateOK, RowsOK, CallsOK, Sources, AnswersFinite, Lasting, RacesOK,
     DurableOK, CountsOK, NothingErasedReturns, OneCreator, K, Item1, Req
<1> QED
  BY <1>1, <1>2, <1>3, <1>4, <1>5, <1>6 DEF Next, Handle

\* The state and all that the calls have been answered hang together: for every
\* set of calls, documents and e-mails, and every number of attempts.
THEOREM DocsAreSafe == Spec => []DocsSafe
PROOF
<1>1. Init => DocsSafe
  BY InitSafe
<1>2. DocsSafe /\ [Next]_vars => DocsSafe'
  BY NextSafe
<1> QED
  BY <1>1, <1>2, PTL DEF Spec

LEMMA SafeIsInv == DocsSafe => DocsInv
PROOF
<1> SUFFICES ASSUME DocsSafe PROVE DocsInv
  OBVIOUS
<1>1. StateOK /\ RowsOK /\ CallsOK /\ Sources /\ (resets = 0 => Lasting)
  BY DEF DocsSafe
<1>2. ASSUME NEW q \in Call PROVE Req(q) = Ask(call[q]) /\ K(q) = Ask(call[q]).items[1].key
  BY DEF Req, Ask, K, Item1
<1>3. DocsTypeOK
  <2>1. \A k \in Key : lock[k] # NoCall => call[lock[k]].phase \in {"lock", "merge", "rollback"}
    BY <1>1 DEF RowsOK
  <2>2. ASSUME NEW q \in Call
        PROVE  /\ call[q].phase \in Phases /\ call[q].answer \in Answers
               /\ call[q].seen \in Row /\ call[q].attempt \in 1..MaxAttempts
               /\ \A k \in DOMAIN call[q].pending : lock[k] = q \/ call[q].phase = "done"
    <3>1. call[q] \in Calls
      BY <1>1 DEF StateOK
    <3>2. call[q].phase # "done" => \A k \in DOMAIN call[q].pending : lock[k] = q
      BY <1>1 DEF CallsOK, CallOK, Holds
    <3> QED
      BY <3>1, <3>2 DEF Calls
  <2> QED
    BY <1>1, <2>1, <2>2 DEF StateOK, DocsTypeOK
<1>4. ASSUME NEW q \in Call, NEW k \in Key, Ever(k) \cap Tokens(q) # {}
      PROVE  MayBeStored(call[q], lost)
  <2>1. PICK t \in Tokens(q) : t \in Ever(k)
    BY <1>4
  <2>2. t[1] = q
    BY <2>1 DEF Tokens
  <2>3. t \in Stored(call, lost)
    BY <1>1, <2>1 DEF Sources, Ever
  <2> QED
    BY <2>2, <2>3 DEF Stored
<1>5. RefusedIsNotStored
  BY <1>4 DEF RefusedIsNotStored, MayBeStored
<1>6. FailedFlushAppliesNothing
  BY <1>2, <1>4 DEF FailedFlushAppliesNothing, MayBeStored
<1>7. ASSUME resets = 0
      PROVE  /\ AcknowledgedIsDurable /\ VersionCountsAnswers /\ NothingErasedReturns
             /\ EveryLostRaceHasAWinner /\ OneCreator
  <2>1. RacesOK /\ DurableOK /\ CountsOK /\ NothingErasedReturns /\ OneCreator
    BY <1>1, <1>7 DEF Lasting
  <2>2. AcknowledgedIsDurable
    BY <1>2, <2>1 DEF AcknowledgedIsDurable, DurableOK, Durable, Taken, Ever, Arrived
  <2>3. VersionCountsAnswers
    BY <1>1, <2>1, AnswersAre DEF VersionCountsAnswers, CountsOK
  <2>4. EveryLostRaceHasAWinner
    <3>1. \A q \in Call : call[q].phase \in {"read", "backoff"} => Races(call[q], rows)
      BY <2>1 DEF RacesOK
    <3> QED
      BY <1>2, <3>1 DEF EveryLostRaceHasAWinner, Races
  <2> QED
    BY <2>1, <2>2, <2>3, <2>4
<1> QED
  BY <1>3, <1>5, <1>6, <1>7 DEF DocsInv

\* Every payload answered 200 is in its document or was replaced later, none
\* answered 404, 409 or 410 ever was, a failed flush left nothing behind, the
\* version of a row counts the answers that changed it, nothing that was
\* replaced comes back, a lost race has a winner and a new e-mail one creator.
THEOREM DocsInvHolds == Spec => []DocsInv
PROOF
  BY DocsAreSafe, SafeIsInv, PTL

-----------------------------------------------------------------------------
(* Every call takes effect at one instant *)

Asked == [q \in Call |-> call[q].request]
Outcome(c) ==
  IF c.phase # "done" THEN "open" ELSE IF c.answer \in Accepted THEN "applied" ELSE "refused"
Outcomes == [q \in Call |-> Outcome(call[q])]

\* What the abstract call does to the rows.
Effect(q, r, found, time) ==
  LET k == r.items[1].key
      stamp == r.items[1].stamp
  IN \/ r.op = "put" /\ rows' = [rows EXCEPT ![k] = Replaced(rows[k], <<q, 1>>, stamp)]
     \/ r.op = "delete" /\ rows' = [rows EXCEPT ![k] = Tombstone(rows[k], time)]
     \/ /\ r.op \in {"sync", "profile"}
        /\ rows' = [rows EXCEPT ![k] = Merged(rows[k], <<q, 1>>, stamp, TRUE)]
     \/ r.op = "batch" /\ rows' = Flushed(rows, q, r.items, found)

LEMMA AbstractVars ==
  UNCHANGED <<rows, Asked, Outcomes>> => UNCHANGED Abstract!vars
PROOF
  BY DEF Abstract!vars, Asked, Outcomes, Outcome

LEMMA AbstractAsk ==
  ASSUME NEW q \in Call, NEW r \in Request, Asked[q] = <<>>, Asked' = [Asked EXCEPT ![q] = <<r>>],
         UNCHANGED <<rows, Outcomes>>
  PROVE  Abstract!AtomicNext
PROOF
<1>1. Abstract!Ask(q)
  BY DEF Abstract!Ask, Asked, Outcomes, Outcome
<1> QED
  BY <1>1 DEF Abstract!AtomicNext

LEMMA AbstractRefuse ==
  ASSUME NEW q \in Call, Asked[q] # <<>>, Outcomes[q] = "open",
         Outcomes' = [Outcomes EXCEPT ![q] = "refused"], UNCHANGED <<rows, Asked>>
  PROVE  Abstract!AtomicNext
PROOF
<1>1. Abstract!Refuse(q)
  BY DEF Abstract!Refuse, Asked, Outcomes, Outcome
<1> QED
  BY <1>1 DEF Abstract!AtomicNext

LEMMA AbstractApply ==
  ASSUME NEW q \in Call, NEW r \in Request, Asked[q] = <<r>>, Outcomes[q] = "open",
         r.op = "sync" =>
           LET i == r.items[1]
           IN rows[i.key].version > 0 /\ (rows[i.key].deleted > 0 => i.stamp > rows[i.key].deleted),
         NEW found \in SUBSET DOMAIN r.items, NEW time \in Stamp,
         Effect(q, r, found, time),
         Outcomes' = [Outcomes EXCEPT ![q] = "applied"], UNCHANGED Asked
  PROVE  Abstract!AtomicNext
PROOF
<1>1. rows' = Abstract!Effect(rows, q, r, found, time)
  BY DEF Effect, Abstract!Effect, Replaced, Abstract!Replaced, Tombstone, Abstract!Tombstone,
     Merged, Abstract!Merged, Vetoed, Abstract!Vetoed, NoStamp, Abstract!NoStamp,
     Flushed, Abstract!Flushed, Through, Abstract!Through
<1>2. time \in Abstract!Stamp
  BY DEF Stamp, Abstract!Stamp
<1>3. Asked[q][1] = r
  OBVIOUS
<1>4. Abstract!Apply(q)
  <2>1. /\ Asked[q] # <<>> /\ Outcomes[q] = "open" /\ Asked[q][1] = r
        /\ Asked[q][1].op = "sync" =>
             LET i == Asked[q][1].items[1]
             IN rows[i.key].version > 0 /\ (rows[i.key].deleted > 0 => i.stamp > rows[i.key].deleted)
        /\ \E f \in SUBSET DOMAIN Asked[q][1].items, u \in Abstract!Stamp :
             rows' = Abstract!Effect(rows, q, Asked[q][1], f, u)
    BY <1>1, <1>2, <1>3
  <2>2. Outcomes' = [Outcomes EXCEPT ![q] = "applied"] /\ Asked' = Asked
    OBVIOUS
  <2> QED
    BY ONLY <2>1, <2>2 DEF Abstract!Apply, Asked, Outcomes, Outcome
<1> QED
  BY <1>4 DEF Abstract!AtomicNext

\* What a step of one call shows.
LEMMA Shown ==
  ASSUME StateOK, NEW q \in Call, NEW d, call' = [call EXCEPT ![q] = d]
  PROVE  /\ Asked[q] = call[q].request /\ Outcomes[q] = Outcome(call[q])
         /\ Asked' = [Asked EXCEPT ![q] = d.request]
         /\ Outcomes' = [Outcomes EXCEPT ![q] = Outcome(d)]
PROOF
<1>1. call'[q] = d /\ \A c \in Call : c # q => call'[c] = call[c]
  BY DEF StateOK
<1>2. Asked' = [c \in Call |-> call'[c].request] /\ Outcomes' = [c \in Call |-> Outcome(call'[c])]
  BY DEF Asked, Outcomes, Outcome
<1>3. Asked[q] = call[q].request /\ Outcomes[q] = Outcome(call[q])
  BY DEF Asked, Outcomes
<1>4. Asked' = [Asked EXCEPT ![q] = d.request]
  <2>1. \A c \in Call : call'[c].request = IF c = q THEN d.request ELSE Asked[c]
    BY <1>1 DEF Asked
  <2>2. Asked' = [c \in Call |-> IF c = q THEN d.request ELSE Asked[c]]
    BY ONLY <1>2, <2>1
  <2>3. Asked = [c \in Call |-> Asked[c]]
    BY DEF Asked
  <2>4. [Asked EXCEPT ![q] = d.request] = [c \in Call |-> IF c = q THEN d.request ELSE Asked[c]]
    BY ONLY <2>3, q \in Call
  <2> QED
    BY ONLY <2>2, <2>4
<1>5. Outcomes' = [Outcomes EXCEPT ![q] = Outcome(d)]
  <2>1. \A c \in Call : Outcome(call'[c]) = IF c = q THEN Outcome(d) ELSE Outcomes[c]
    BY <1>1 DEF Outcomes
  <2>2. Outcomes' = [c \in Call |-> IF c = q THEN Outcome(d) ELSE Outcomes[c]]
    BY ONLY <1>2, <2>1
  <2>3. Outcomes = [c \in Call |-> Outcomes[c]]
    BY DEF Outcomes
  <2>4. [Outcomes EXCEPT ![q] = Outcome(d)] = [c \in Call |-> IF c = q THEN Outcome(d) ELSE Outcomes[c]]
    BY ONLY <2>3, q \in Call
  <2> QED
    BY ONLY <2>2, <2>4
<1> QED
  BY <1>3, <1>4, <1>5

LEMMA Silent ==
  ASSUME DocsSafe, NEW q \in Call, NEW d, call' = [call EXCEPT ![q] = d], rows' = rows,
         d.request = call[q].request, call[q].phase # "done", d.phase # "done"
  PROVE  UNCHANGED Abstract!vars
PROOF
<1>1. /\ Asked[q] = call[q].request /\ Outcomes[q] = Outcome(call[q])
      /\ Asked' = [Asked EXCEPT ![q] = d.request]
      /\ Outcomes' = [Outcomes EXCEPT ![q] = Outcome(d)]
  BY Shown DEF DocsSafe
<1>2. Outcome(d) = Outcome(call[q])
  BY DEF Outcome
<1>3. Asked' = Asked /\ Outcomes' = Outcomes
  BY <1>1, <1>2 DEF Asked, Outcomes
<1> QED
  BY <1>3, AbstractVars

\* A call that was asked, and what becomes of it when it is answered.
LEMMA AnsweredCall ==
  ASSUME DocsSafe, NEW q \in Call, call[q].phase \notin {"new", "done"}, NEW a,
         Goes(q, Answered(q, a))
  PROVE  /\ Req(q) \in Request /\ Asked[q] = <<Req(q)>> /\ Outcomes[q] = "open"
         /\ Asked' = Asked
         /\ Outcomes' = [Outcomes EXCEPT ![q] = IF a \in Accepted THEN "applied" ELSE "refused"]
PROOF
<1> DEFINE c == call[q]
<1>1. c \in Calls /\ Form(c) /\ Req(q) = Ask(c) /\ Req(q) \in Request
  BY Here
<1>2. PICK d : d = Rec("done", c.request, c.attempt, c.seen, c.first, c.at, c.pending, c.found, a)
  OBVIOUS
<1>3. call' = [call EXCEPT ![q] = d]
  <2>1. Answered(q, a) = [c EXCEPT !.phase = "done", !.answer = a]
    BY DEF Answered
  <2>2. Answered(q, a) = d
    BY ONLY <1>1, <1>2, <2>1, AnswerSet
  <2> QED
    BY <2>2 DEF Goes
<1>4. d.phase = "done" /\ d.answer = a /\ d.request = c.request
  BY <1>2 DEF Rec
<1>5. /\ Asked[q] = call[q].request /\ Outcomes[q] = Outcome(call[q])
      /\ Asked' = [Asked EXCEPT ![q] = d.request]
      /\ Outcomes' = [Outcomes EXCEPT ![q] = Outcome(d)]
  BY <1>3, Shown DEF DocsSafe
<1>6. Outcome(c) = "open" /\ Outcome(d) = IF a \in Accepted THEN "applied" ELSE "refused"
  BY <1>4 DEF Outcome
<1>7. c.request = <<Req(q)>>
  BY <1>1, Asks
<1>8. Asked' = Asked
  BY <1>4, <1>5 DEF Asked
<1> QED
  BY <1>1, <1>5, <1>6, <1>7, <1>8

LEMMA Refusing ==
  ASSUME DocsSafe, NEW q \in Call, call[q].phase \notin {"new", "done"}, NEW a, a \notin Accepted,
         Goes(q, Answered(q, a)), rows' = rows
  PROVE  Abstract!AtomicNext
PROOF
<1>1. /\ Asked[q] = <<Req(q)>> /\ Outcomes[q] = "open" /\ Asked' = Asked
      /\ Outcomes' = [Outcomes EXCEPT ![q] = IF a \in Accepted THEN "applied" ELSE "refused"]
  BY AnsweredCall
<1>2. Asked[q] # <<>> /\ Outcomes' = [Outcomes EXCEPT ![q] = "refused"]
  BY <1>1
<1> QED
  BY <1>1, <1>2, AbstractRefuse

LEMMA Applying ==
  ASSUME DocsSafe, NEW q \in Call, call[q].phase \notin {"new", "done"}, NEW a \in Accepted,
         Goes(q, Answered(q, a)),
         Req(q).op = "sync" =>
           rows[K(q)].version > 0 /\ (rows[K(q)].deleted > 0 => Item1(q).stamp > rows[K(q)].deleted),
         NEW found \in SUBSET DOMAIN Req(q).items, NEW time \in Stamp,
         Effect(q, Req(q), found, time)
  PROVE  Abstract!AtomicNext
PROOF
<1>1. /\ Req(q) \in Request /\ Asked[q] = <<Req(q)>> /\ Outcomes[q] = "open" /\ Asked' = Asked
      /\ Outcomes' = [Outcomes EXCEPT ![q] = IF a \in Accepted THEN "applied" ELSE "refused"]
  BY AnsweredCall
<1>2. Outcomes' = [Outcomes EXCEPT ![q] = "applied"]
  BY <1>1
<1>3. Req(q).op = "sync" =>
        LET i == Req(q).items[1]
        IN rows[i.key].version > 0 /\ (rows[i.key].deleted > 0 => i.stamp > rows[i.key].deleted)
  BY DEF K, Item1
<1> QED
  BY <1>1, <1>2, <1>3, AbstractApply

LEMMA ArriveShows ==
  ASSUME DocsSafe, NEW q \in Call, Arrive(q)
  PROVE  Abstract!AtomicNext
PROOF
<1>1. call[q].phase = "new" /\ UNCHANGED quiet
  BY DEF Arrive
<1>2. PICK r \in Request :
        Goes(q, [New EXCEPT !.request = <<r>>,
                            !.phase = IF r.op = "batch" THEN "lock"
                                      ELSE IF r.op \in {"sync", "profile"} THEN "read" ELSE r.op])
  BY DEF Arrive
<1>3. PICK p : p = IF r.op = "batch" THEN "lock"
                   ELSE IF r.op \in {"sync", "profile"} THEN "read" ELSE r.op
  OBVIOUS
<1>4. PICK e : e = [New EXCEPT !.request = <<r>>]
  OBVIOUS
<1>5. e = Rec("new", <<r>>, 1, NoRow, 0, 1, <<>>, {}, "none")
  BY <1>4 DEF New, Rec
<1>6. PICK d : d = [e EXCEPT !.phase = p]
  OBVIOUS
<1>7. d = Rec(p, <<r>>, 1, NoRow, 0, 1, <<>>, {}, "none")
  <2>1. [Rec("new", <<r>>, 1, NoRow, 0, 1, <<>>, {}, "none") EXCEPT !.phase = p]
          = Rec(p, <<r>>, 1, NoRow, 0, 1, <<>>, {}, "none")
    BY ONLY PhaseOf
  <2> QED
    BY ONLY <1>5, <1>6, <2>1
<1>8. call' = [call EXCEPT ![q] = d]
  <2>1. Goes(q, d)
    BY ONLY <1>2, <1>3, <1>4, <1>6, Zenon
  <2> QED
    BY <2>1 DEF Goes
<1>9. d.request = <<r>> /\ d.phase = p
  BY <1>7 DEF Rec
<1>10. p # "done" /\ r.op \in {"sync", "profile", "put", "delete", "batch"}
  BY <1>3, Requests
<1>11. call[q] = New /\ New.request = <<>>
  BY <1>1 DEF DocsSafe, CallsOK, CallOK, Form, New
<1>12. /\ Asked[q] = call[q].request /\ Outcomes[q] = Outcome(call[q])
       /\ Asked' = [Asked EXCEPT ![q] = d.request]
       /\ Outcomes' = [Outcomes EXCEPT ![q] = Outcome(d)]
  BY <1>8, Shown DEF DocsSafe
<1>13. Outcome(d) = Outcome(call[q])
  BY <1>1, <1>9, <1>10 DEF Outcome
<1>14. Outcomes' = Outcomes
  BY <1>12, <1>13 DEF Outcomes
<1>15. rows' = rows
  BY <1>1 DEF quiet
<1> QED
  BY <1>9, <1>11, <1>12, <1>14, <1>15, AbstractAsk

LEMMA ReadShows ==
  ASSUME DocsSafe, NEW q \in Call, Read(q)
  PROVE  Abstract!AtomicNext \/ UNCHANGED Abstract!vars
PROOF
<1> DEFINE c == call[q]
<1> DEFINE row == rows[K(q)]
<1>1. c.phase = "read" /\ rows' = rows
  BY DEF Read, quiet
<1>2. c \in Calls
  BY <1>1, Here
<1>3. PICK f : f = IF c.attempt = 1 THEN row.version ELSE c.first
  OBVIOUS
<1>4. PICK seen : seen = [c EXCEPT !.seen = row, !.first = f]
  OBVIOUS
<1>5. seen = Rec(c.phase, c.request, c.attempt, row, f, c.at, c.pending, c.found, c.answer)
  BY ONLY <1>2, <1>4, ReadSet
<1>6. [c EXCEPT !.seen = row, !.first = IF c.attempt = 1 THEN row.version ELSE @] = seen
  BY ONLY <1>3, <1>4, Zenon
<1>7. \/ \E a \in {"missing", "gone"} : Goes(q, Answered(q, a))
      \/ \E p \in {"insert", "write"} : Goes(q, [seen EXCEPT !.phase = p])
  <2> DEFINE s2 == [c EXCEPT !.seen = row, !.first = IF c.attempt = 1 THEN row.version ELSE @]
  <2>1. \/ \E a \in {"missing", "gone"} : Goes(q, Answered(q, a))
        \/ \E p \in {"insert", "write"} : Goes(q, [s2 EXCEPT !.phase = p])
    BY DEF Read
  <2>2. s2 = seen
    BY <1>6
  <2> HIDE DEF s2, row
  <2> QED
    BY ONLY <2>1, <2>2, Zenon
<1>8. ASSUME NEW p \in {"insert", "write"}, Goes(q, [seen EXCEPT !.phase = p])
      PROVE  UNCHANGED Abstract!vars
  <2>1. PICK d : d = Rec(p, c.request, c.attempt, row, f, c.at, c.pending, c.found, c.answer)
    OBVIOUS
  <2>2. call' = [call EXCEPT ![q] = d]
    <3>1. [Rec(c.phase, c.request, c.attempt, row, f, c.at, c.pending, c.found, c.answer)
            EXCEPT !.phase = p] = d
      BY ONLY <2>1, PhaseOf
    <3>2. [seen EXCEPT !.phase = p] = d
      BY ONLY <1>5, <3>1
    <3> QED
      BY <1>8, <3>2 DEF Goes
  <2>3. d.phase = p /\ d.request = c.request
    BY <2>1 DEF Rec
  <2> QED
    BY <1>1, <2>2, <2>3, Silent
<1>9. ASSUME NEW a \in {"missing", "gone"}, Goes(q, Answered(q, a)) PROVE Abstract!AtomicNext
  <2>1. a \notin Accepted
    BY DEF Accepted
  <2> QED
    BY <1>1, <1>9, <2>1, Refusing
<1> QED
  BY ONLY <1>7, <1>8, <1>9, Zenon

LEMMA AttemptShows ==
  ASSUME DocsSafe, NEW q \in Call, LoseRace(q) \/ Backoff(q) \/ InsertRefused(q)
  PROVE  Abstract!AtomicNext \/ UNCHANGED Abstract!vars
PROOF
<1> DEFINE c == call[q]
<1>1. c.phase \in {"write", "backoff", "insert"} /\ rows' = rows
  BY DEF LoseRace, Backoff, InsertRefused, quiet
<1>2. c \in Calls
  BY <1>1, Here
<1>3. CASE LoseRace(q)
  <2>1. PICK d : d = Rec("backoff", c.request, c.attempt, c.seen, c.first, c.at, c.pending, c.found, c.answer)
    OBVIOUS
  <2>2. [c EXCEPT !.phase = "backoff"] = d
    BY ONLY <1>2, <2>1, PhaseSet
  <2>3. call' = [call EXCEPT ![q] = d]
    BY <1>3, <2>2 DEF LoseRace, Goes
  <2>4. d.phase = "backoff" /\ d.request = c.request
    BY <2>1 DEF Rec
  <2> QED
    BY <1>1, <2>3, <2>4, Silent
<1>4. CASE Goes(q, NextAttempt(q)) /\ c.attempt < Attempts(q)
  <2>1. PICK d : d = Rec("read", c.request, c.attempt + 1, c.seen, c.first, c.at, c.pending, c.found, c.answer)
    OBVIOUS
  <2>2. [c EXCEPT !.phase = "read", !.attempt = @ + 1] = d
    BY ONLY <1>2, <2>1, AttemptSet
  <2>3. call' = [call EXCEPT ![q] = d]
    BY <1>4, <2>2 DEF NextAttempt, Goes
  <2>4. d.phase = "read" /\ d.request = c.request
    BY <2>1 DEF Rec
  <2> QED
    BY <1>1, <2>3, <2>4, Silent
<1>5. CASE Goes(q, NextAttempt(q)) /\ ~ (c.attempt < Attempts(q))
  <2>1. Goes(q, Answered(q, "conflict")) /\ "conflict" \notin Accepted
    BY <1>5 DEF NextAttempt, Accepted
  <2> QED
    BY <1>1, <2>1, Refusing
<1> QED
  BY <1>3, <1>4, <1>5 DEF Backoff, InsertRefused

\* A batch that goes on, or that is undone.
LEMMA BatchShows ==
  ASSUME DocsSafe, NEW q \in Call,
         \/ BatchLock(q) \/ BatchMissing(q) \/ BatchMerge(q) \/ BatchThrow(q) \/ BatchVictim(q)
         \/ BatchRollback(q)
  PROVE  Abstract!AtomicNext \/ UNCHANGED Abstract!vars
PROOF
<1> DEFINE c == call[q]
<1>1. c.phase \in {"lock", "merge", "rollback"} /\ rows' = rows
  BY DEF BatchLock, BatchMissing, BatchMerge, BatchThrow, BatchVictim, BatchRollback, Deadlocked,
     Waiting, Locking, quiet
<1>2. c \in Calls
  BY <1>1, Here
<1>3. CASE BatchLock(q)
  <2>1. PICK y : y = Seen(q, At(q).key)
    OBVIOUS
  <2>2. PICK d : d = Rec("merge", c.request, c.attempt, y, c.first, c.at, c.pending, c.found, c.answer)
    OBVIOUS
  <2>3. [c EXCEPT !.phase = "merge", !.seen = y] = d
    BY ONLY <1>2, <2>2, SeenSet
  <2>4. call' = [call EXCEPT ![q] = d]
    BY <1>3, <2>1, <2>3 DEF BatchLock, Goes
  <2>5. d.phase = "merge" /\ d.request = c.request
    BY <2>2 DEF Rec
  <2> QED
    BY <1>1, <2>4, <2>5, Silent
<1>4. CASE BatchMissing(q)
  <2>1. PICK d : d = Rec(c.phase, c.request, c.attempt, c.seen, c.first, c.at + 1, c.pending, c.found, c.answer)
    OBVIOUS
  <2>2. [c EXCEPT !.at = @ + 1] = d
    BY ONLY <1>2, <2>1, AtSet
  <2>3. call' = [call EXCEPT ![q] = d]
    BY <1>4, <2>2 DEF BatchMissing, Goes
  <2>4. d.phase = c.phase /\ d.request = c.request
    BY <2>1 DEF Rec
  <2> QED
    BY <1>1, <2>3, <2>4, Silent
<1>5. CASE BatchMerge(q)
  <2> DEFINE row == Merged(c.seen, <<q, c.at>>, At(q).stamp, FALSE)
  <2>1. Goes(q, [call[q] EXCEPT !.phase = "lock", !.at = @ + 1, !.found = c.found \cup {c.at},
                   !.pending = [k \in DOMAIN c.pending \cup {At(q).key} |->
                                  IF k = At(q).key THEN row ELSE c.pending[k]]])
    BY <1>5 DEF BatchMerge
  <2>2. PICK w : w = [k \in DOMAIN c.pending \cup {At(q).key} |->
                        IF k = At(q).key THEN row ELSE c.pending[k]]
    OBVIOUS
  <2>3. PICK f : f = c.found \cup {c.at}
    OBVIOUS
  <2>4. PICK d : d = Rec("lock", c.request, c.attempt, c.seen, c.first, c.at + 1, w, f, c.answer)
    OBVIOUS
  <2>5. [c EXCEPT !.phase = "lock", !.at = @ + 1, !.found = f, !.pending = w] = d
    BY ONLY <1>2, <2>4, MergeSet
  <2>6. Goes(q, [c EXCEPT !.phase = "lock", !.at = @ + 1, !.found = f, !.pending = w])
    <3> HIDE DEF row
    <3> QED
      BY ONLY <2>1, <2>2, <2>3, Zenon
  <2>7. call' = [call EXCEPT ![q] = d]
    BY <2>5, <2>6 DEF Goes
  <2>8. d.phase = "lock" /\ d.request = c.request
    BY <2>4 DEF Rec
  <2> QED
    BY <1>1, <2>7, <2>8, Silent
<1>6. CASE BatchThrow(q) \/ BatchVictim(q)
  <2>1. PICK d : d = Rec("rollback", c.request, c.attempt, c.seen, c.first, c.at, c.pending, c.found, c.answer)
    OBVIOUS
  <2>2. [c EXCEPT !.phase = "rollback"] = d
    BY ONLY <1>2, <2>1, PhaseSet
  <2>3. call' = [call EXCEPT ![q] = d]
    BY <1>6, <2>2 DEF BatchThrow, BatchVictim, Goes
  <2>4. d.phase = "rollback" /\ d.request = c.request
    BY <2>1 DEF Rec
  <2> QED
    BY <1>1, <2>3, <2>4, Silent
<1>7. CASE BatchRollback(q)
  <2>1. Goes(q, Answered(q, "error")) /\ "error" \notin Accepted
    BY <1>7 DEF BatchRollback, Accepted
  <2> QED
    BY <1>1, <2>1, Refusing
<1> QED
  BY <1>3, <1>4, <1>5, <1>6, <1>7

-----------------------------------------------------------------------------
(* The folded row *)

LEMMA SomeLessThan ==
  \E R : IsWellFoundedOn(R, Nat) /\ \A x, y \in Nat : x < y => <<x, y>> \in R
PROOF
<1>1. \A x, y \in Nat : x < y => <<x, y>> \in OpToRel(<, Nat)
  BY DEF OpToRel
<1> QED
  BY <1>1, NatLessThanWellFounded, Zenon

LEMMA LeastNatural ==
  ASSUME NEW T, T \subseteq Nat, T # {}
  PROVE  \E n \in T : \A m \in T : n <= m
PROOF
<1>1. PICK R : IsWellFoundedOn(R, Nat) /\ \A x, y \in Nat : x < y => <<x, y>> \in R
  BY SomeLessThan
<1>2. IsWellFoundedOn(R, Nat)
  BY <1>1
<1>3. PICK n \in T : \A y \in T : ~(<<y, n>> \in R)
  BY ONLY <1>2, T \subseteq Nat, T # {}, WFMin, Zenon
<1>4. ASSUME NEW m \in T PROVE ~(m < n)
  BY <1>1, <1>3, <1>4, Zenon
<1> QED
  BY <1>4

\* The equation of the recursive function of Through.
Folds(g, row, k, q, items, found) ==
  g = [i \in 0..Len(items) |->
         IF i = 0 THEN row
         ELSE IF i \in found /\ items[i].key = k
              THEN Merged(g[i - 1], <<q, i>>, items[i].stamp, FALSE) ELSE g[i - 1]]

\* It has one solution at most: two would differ at a first item.
LEMMA OneFold ==
  ASSUME NEW g, NEW h, NEW row, NEW k, NEW q, NEW items, NEW found, Len(items) \in Nat,
         Folds(g, row, k, q, items, found), Folds(h, row, k, q, items, found)
  PROVE  g[Len(items)] = h[Len(items)]
PROOF
<1> DEFINE T == {i \in 0..Len(items) : g[i] # h[i]}
<1>1. ASSUME T # {} PROVE FALSE
  <2>1. PICK m \in T : \A n \in T : m <= n
    <3>1. T \subseteq Nat
      OBVIOUS
    <3> HIDE DEF T
    <3> QED
      BY <1>1, <3>1, LeastNatural
  <2>2. g[0] = row /\ h[0] = row
    BY DEF Folds
  <2>3. m \in 1..Len(items) /\ g[m] # h[m]
    BY <2>1, <2>2
  <2>4. m - 1 \in 0..Len(items) /\ m - 1 \notin T
    <3>1. m - 1 \in 0..Len(items) /\ ~ (m <= m - 1)
      BY <2>3
    <3> HIDE DEF T
    <3> QED
      BY <2>1, <3>1
  <2>5. g[m - 1] = h[m - 1]
    BY <2>4
  <2>6. /\ g[m] = (IF m \in found /\ items[m].key = k
                   THEN Merged(g[m - 1], <<q, m>>, items[m].stamp, FALSE) ELSE g[m - 1])
        /\ h[m] = (IF m \in found /\ items[m].key = k
                   THEN Merged(h[m - 1], <<q, m>>, items[m].stamp, FALSE) ELSE h[m - 1])
    BY <2>3 DEF Folds
  <2> HIDE DEF T
  <2> QED
    BY ONLY <2>3, <2>5, <2>6
<1> QED
  BY <1>1

\* A batch that has been through its items left each row as their fold.
LEMMA WalkIsFold ==
  ASSUME NEW q, NEW c, NEW k, NEW row, NEW g, Walk(q, c, k, row, g),
         Len(Ask(c).items) \in Nat, c.at - 1 = Len(Ask(c).items)
  PROVE  Through(row, k, q, Ask(c).items, c.found) = View(c, k, row)
PROOF
<1> DEFINE items == Ask(c).items
<1> DEFINE n == Len(items)
<1> DEFINE w == [i \in 0..n |-> g[i]]
<1> DEFINE h == CHOOSE h : Folds(h, row, k, q, items, c.found)
<1>1. /\ g[0] = row /\ g[n] = View(c, k, row)
      /\ \A i \in 1..n :
           g[i] = IF i \in c.found /\ items[i].key = k
                  THEN Merged(g[i - 1], <<q, i>>, items[i].stamp, FALSE) ELSE g[i - 1]
  BY DEF Walk
<1>2. Folds(w, row, k, q, items, c.found)
  <2>1. \A i \in 0..n : w[i] = g[i]
    OBVIOUS
  <2>2. ASSUME NEW i \in 0..n
        PROVE  w[i] = IF i = 0 THEN row
                      ELSE IF i \in c.found /\ items[i].key = k
                           THEN Merged(w[i - 1], <<q, i>>, items[i].stamp, FALSE) ELSE w[i - 1]
    <3>1. CASE i = 0
      BY <1>1, <2>1, <3>1
    <3>2. CASE i # 0
      <4>1. i \in 1..n /\ i - 1 \in 0..n
        BY <3>2
      <4>2. w[i] = g[i] /\ w[i - 1] = g[i - 1]
        BY <2>1, <4>1
      <4> HIDE DEF w, n, items
      <4> QED
        BY ONLY <1>1, <3>2, <4>1, <4>2
    <3> QED
      BY <3>1, <3>2
  <2>3. w = [i \in 0..n |-> w[i]]
    OBVIOUS
  <2> HIDE DEF w
  <2> QED
    BY ONLY <2>2, <2>3 DEF Folds
<1>3. Folds(h, row, k, q, items, c.found)
  BY <1>2
<1>4. Through(row, k, q, items, c.found) = h[n]
  BY DEF Through, Folds
<1>5. h[n] = w[n]
  <2> HIDE DEF h, w
  <2> QED
    BY <1>2, <1>3, OneFold
<1>6. w[n] = g[n]
  OBVIOUS
<1> QED
  BY <1>1, <1>4, <1>5, <1>6

-----------------------------------------------------------------------------
(* Steps that take effect *)

\* A stored row is answered, if the database's answer is not lost.
LEMMA StoreShows ==
  ASSUME DocsSafe, NEW q \in Call, NEW row, NEW a, Store(q, row, call[q], a), lost' = 0
  PROVE  Goes(q, Answered(q, a)) /\ rows' = [rows EXCEPT ![K(q)] = row]
PROOF
<1>1. lost \in Nat
  BY LimitsAssumption DEF DocsSafe, StateOK
<1>2. lost' # lost + 1
  BY <1>1
<1> QED
  BY <1>2 DEF Store, Answered

LEMMA SwapShows ==
  ASSUME DocsSafe, NEW q \in Call, Swap(q), lost' = 0, resets = 0
  PROVE  Abstract!AtomicNext
PROOF
<1> DEFINE c == call[q]
<1>1. /\ c.phase = "write" /\ rows[K(q)].version = c.seen.version
      /\ Store(q, Merged(c.seen, <<q, 1>>, Item1(q).stamp, TRUE), call[q], "merged")
  BY DEF Swap, Current
<1>2. /\ Form(c) /\ Req(q) = Ask(c) /\ K(q) = Ask(c).items[1].key
      /\ Item1(q).stamp \in Stamp /\ rows[K(q)] \in Row /\ Races(c, rows) /\ Req(q).op # "batch"
      /\ now \in Stamp
  BY <1>1, BeforeStoring
<1>3. Req(q).op \in {"sync", "profile"}
  BY <1>1, <1>2 DEF Form
<1>4. rows[K(q)] = c.seen
  BY <1>1, <1>2 DEF Races
<1>5. /\ Goes(q, Answered(q, "merged"))
      /\ rows' = [rows EXCEPT ![K(q)] = Merged(c.seen, <<q, 1>>, Item1(q).stamp, TRUE)]
  BY <1>1, StoreShows
<1>6. rows' = [rows EXCEPT ![K(q)] = Merged(rows[K(q)], <<q, 1>>, Item1(q).stamp, TRUE)]
  BY <1>4, <1>5
<1>7. Effect(q, Req(q), {}, now)
  BY <1>3, <1>6 DEF Effect, K, Item1
<1>8. ASSUME Req(q).op = "sync"
      PROVE  rows[K(q)].version > 0 /\ (rows[K(q)].deleted > 0 => Item1(q).stamp > rows[K(q)].deleted)
  <2>1. c.seen.version > 0 /\ ~ Expired(c.seen, Item1(q).stamp)
    BY <1>1, <1>2, <1>8 DEF Races, Item1
  <2>2. rows[K(q)].deleted \in Nat /\ Item1(q).stamp \in Nat
    BY <1>2, DocumentsAssumption DEF Row, Stamp
  <2> QED
    BY <1>4, <2>1, <2>2 DEF Expired
<1>9. "merged" \in Accepted /\ c.phase \notin {"new", "done"}
  BY <1>1 DEF Accepted
<1>10. {} \in SUBSET DOMAIN Req(q).items
  OBVIOUS
<1> QED
  BY <1>2, <1>5, <1>7, <1>8, <1>9, <1>10, Applying

LEMMA InsertShows ==
  ASSUME DocsSafe, NEW q \in Call, Insert(q), lost' = 0
  PROVE  Abstract!AtomicNext
PROOF
<1> DEFINE c == call[q]
<1>1. /\ c.phase = "insert" /\ rows[K(q)].version = 0
      /\ Store(q, Merged(NoRow, <<q, 1>>, Item1(q).stamp, TRUE), call[q], "created")
  BY DEF Insert, EmailFree
<1>2. /\ Form(c) /\ Req(q) = Ask(c) /\ K(q) \in Key /\ now \in Stamp
  BY <1>1, BeforeStoring
<1>3. Req(q).op = "profile"
  BY <1>1, <1>2 DEF Form
<1>4. rows[K(q)] = NoRow
  BY <1>1, <1>2 DEF DocsSafe, RowsOK
<1>5. /\ Goes(q, Answered(q, "created"))
      /\ rows' = [rows EXCEPT ![K(q)] = Merged(NoRow, <<q, 1>>, Item1(q).stamp, TRUE)]
  BY <1>1, StoreShows
<1>6. rows' = [rows EXCEPT ![K(q)] = Merged(rows[K(q)], <<q, 1>>, Item1(q).stamp, TRUE)]
  BY <1>4, <1>5
<1>7. Effect(q, Req(q), {}, now)
  BY <1>3, <1>6 DEF Effect, K, Item1
<1>8. "created" \in Accepted /\ c.phase \notin {"new", "done"}
  BY <1>1 DEF Accepted
<1>9. {} \in SUBSET DOMAIN Req(q).items /\ Req(q).op # "sync"
  BY <1>3
<1> QED
  BY <1>2, <1>5, <1>7, <1>8, <1>9, Applying

LEMMA PutShows ==
  ASSUME DocsSafe, NEW q \in Call, Put(q), lost' = 0
  PROVE  Abstract!AtomicNext
PROOF
<1>1. /\ call[q].phase = "put"
      /\ Store(q, Replaced(rows[K(q)], <<q, 1>>, Item1(q).stamp), call[q], "replaced")
  BY DEF Put
<1>2. Form(call[q]) /\ Req(q) = Ask(call[q]) /\ now \in Stamp
  BY <1>1, BeforeStoring
<1>3. Req(q).op = "put"
  BY <1>1, <1>2 DEF Form
<1>4. /\ Goes(q, Answered(q, "replaced"))
      /\ rows' = [rows EXCEPT ![K(q)] = Replaced(rows[K(q)], <<q, 1>>, Item1(q).stamp)]
  BY <1>1, StoreShows
<1>5. Effect(q, Req(q), {}, now)
  BY <1>3, <1>4 DEF Effect, K, Item1
<1>6. "replaced" \in Accepted /\ call[q].phase \notin {"new", "done"}
  BY <1>1 DEF Accepted
<1>7. {} \in SUBSET DOMAIN Req(q).items /\ Req(q).op # "sync"
  BY <1>3
<1> QED
  BY <1>2, <1>4, <1>5, <1>6, <1>7, Applying

LEMMA DeleteShows ==
  ASSUME DocsSafe, NEW q \in Call, Delete(q), lost' = 0
  PROVE  Abstract!AtomicNext
PROOF
<1>1. /\ call[q].phase = "delete" /\ now' \in now..MaxTime
      /\ Store(q, Tombstone(rows[K(q)], now'), call[q], "deleted")
  BY DEF Delete
<1>2. Form(call[q]) /\ Req(q) = Ask(call[q]) /\ now \in Stamp
  BY <1>1, BeforeStoring
<1>3. Req(q).op = "delete" /\ now' \in Stamp
  BY <1>1, <1>2, DocumentsAssumption DEF Form, Stamp
<1>4. PICK time \in Stamp : time = now'
  BY <1>3
<1>5. /\ Goes(q, Answered(q, "deleted"))
      /\ rows' = [rows EXCEPT ![K(q)] = Tombstone(rows[K(q)], time)]
  BY <1>1, <1>4, StoreShows
<1>6. Effect(q, Req(q), {}, time)
  BY <1>3, <1>5 DEF Effect, K, Item1
<1>7. "deleted" \in Accepted /\ call[q].phase \notin {"new", "done"}
  BY <1>1 DEF Accepted
<1>8. {} \in SUBSET DOMAIN Req(q).items /\ Req(q).op # "sync"
  BY <1>3
<1> QED
  BY <1>4, <1>5, <1>6, <1>7, <1>8, Applying

LEMMA CommitShows ==
  ASSUME DocsSafe, NEW q \in Call, BatchCommit(q), lost' = 0
  PROVE  Abstract!AtomicNext
PROOF
<1> DEFINE c == call[q]
<1>1. c.phase = "lock" /\ ~ Left(q) /\ rows' = [k \in Key |-> Seen(q, k)]
  BY DEF BatchCommit
<1>2. /\ Form(c) /\ Req(q) = Ask(c) /\ Req(q) \in Request
  BY <1>1, Here
<1>3. Req(q).op = "batch" /\ Len(Ask(c).items) \in Nat
  BY <1>1, <1>2, Requests DEF Form
<1>4. lost \in Nat /\ now \in Stamp /\ DOMAIN rows = Key
  BY LimitsAssumption DEF DocsSafe, StateOK
<1>5. Goes(q, Answered(q, "flushed"))
  <2>1. lost' # lost + 1
    BY <1>4
  <2> QED
    BY <2>1 DEF BatchCommit
<1>6. ASSUME NEW k \in Key PROVE Seen(q, k) = Through(rows[k], k, q, Req(q).items, c.found)
  <2>1. c.at - 1 = Len(Ask(c).items) /\ \E g : Walk(q, c, k, rows[k], g)
    BY <1>1, Written
  <2>2. Through(rows[k], k, q, Ask(c).items, c.found) = View(c, k, rows[k])
    BY <1>3, <2>1, WalkIsFold
  <2> QED
    BY <1>2, <2>2 DEF Seen, View
<1>7. rows' = Flushed(rows, q, Req(q).items, c.found)
  BY <1>1, <1>4, <1>6 DEF Flushed
<1>8. Effect(q, Req(q), c.found, now)
  BY <1>3, <1>7 DEF Effect
<1>9. c.found \in SUBSET DOMAIN Req(q).items
  <2>1. c.found \subseteq 1..(c.at - 1) /\ c.at <= Len(Ask(c).items) + 1 /\ c.at \in Nat
    BY <1>1, Here DEF Listed, Calls
  <2>2. DOMAIN Req(q).items = 1..Len(Req(q).items)
    BY <1>2, Requests
  <2> QED
    BY <1>2, <1>3, <2>1, <2>2
<1>10. "flushed" \in Accepted /\ c.phase \notin {"new", "done"}
  BY <1>1 DEF Accepted
<1> QED
  BY <1>3, <1>4, <1>5, <1>8, <1>9, <1>10, Applying

LEMMA NextShows ==
  ASSUME DocsSafe, Next, lost' = 0, resets' = 0
  PROVE  Abstract!AtomicNext \/ UNCHANGED Abstract!vars
PROOF
<1>1. resets \in Nat /\ (reset # "idle" => resets > 0)
  BY LimitsAssumption DEF DocsSafe, StateOK
<1>2. ~ (ResetDocs \/ ResetProfiles \/ ResetSeed)
  BY <1>1 DEF ResetDocs, ResetProfiles, ResetSeed
<1>3. PICK q \in Call : Arrive(q) \/ Handle(q)
  BY <1>2 DEF Next
<1>4. CASE Arrive(q)
  BY <1>4, ArriveShows
<1>5. CASE Sync(q)
  <2>1. CASE Swap(q)
    <3>1. resets = 0
      BY <2>1 DEF Swap, background
    <3> QED
      BY <2>1, <3>1, SwapShows
  <2>2. CASE Insert(q)
    BY <2>2, InsertShows
  <2>3. CASE Read(q)
    BY <2>3, ReadShows
  <2>4. CASE LoseRace(q) \/ Backoff(q) \/ InsertRefused(q)
    BY <2>4, AttemptShows
  <2> QED
    BY <1>5, <2>1, <2>2, <2>3, <2>4 DEF Sync
<1>6. CASE Put(q)
  BY <1>6, PutShows
<1>7. CASE Delete(q)
  BY <1>7, DeleteShows
<1>8. CASE DeleteNothing(q)
  <2>1. call[q].phase = "delete" /\ Goes(q, Answered(q, "missing")) /\ rows' = rows
    BY <1>8 DEF DeleteNothing, quiet
  <2>2. "missing" \notin Accepted
    BY DEF Accepted
  <2> QED
    BY <2>1, <2>2, Refusing
<1>9. CASE Batch(q)
  BY <1>9, BatchShows, CommitShows DEF Batch
<1> QED
  BY <1>3, <1>4, <1>5, <1>6, <1>7, <1>8, <1>9 DEF Handle

LEMMA InitShows == Init => Abstract!AtomicInit
PROOF
<1> SUFFICES ASSUME Init PROVE Abstract!AtomicInit
  OBVIOUS
<1>1. /\ rows = [k \in Key |-> IF k \in Seed THEN Seeded ELSE NoRow]
      /\ call = [q \in Call |-> New]
  BY DEF Init
<1>2. New.request = <<>> /\ New.phase # "done"
  BY DEF New
<1>3. rows \in [Key -> {NoRow, Seeded}]
  BY <1>1
<1>4. rows \in [Abstract!Key -> {Abstract!NoRow, Abstract!Seeded}]
  <2>1. Abstract!Key = Key /\ Abstract!NoRow = NoRow /\ Abstract!Seeded = Seeded
    BY DEF Abstract!Key, Key, Abstract!NoRow, NoRow, Abstract!Seeded, Seeded, Abstract!NoStamp, NoStamp
  <2> QED
    BY ONLY <1>3, <2>1
<1> QED
  BY <1>1, <1>2, <1>4 DEF Abstract!AtomicInit

\* Merges computed outside the database, and batches that write one document
\* at a time, take effect at one instant, whole, on the documents as they are
\* at that instant: up to the first lost answer and the first reset the
\* handlers implement AtomicDocs.
THEOREM DocsAreAtomic == Spec => EachCallIsAtomic
PROOF
<1>1. Init => Abstract!AtomicInit
  BY InitShows
<1>2. DocsSafe /\ [Next]_vars => [lost' = 0 /\ resets' = 0 => Abstract!AtomicNext]_(Abstract!vars)
  <2> SUFFICES ASSUME DocsSafe, [Next]_vars, lost' = 0 /\ resets' = 0
               PROVE  Abstract!AtomicNext \/ UNCHANGED Abstract!vars
    OBVIOUS
  <2>1. CASE Next
    BY <2>1, NextShows
  <2>2. CASE UNCHANGED vars
    <3>1. UNCHANGED <<rows, Asked, Outcomes>>
      BY <2>2 DEF vars, Asked, Outcomes, Outcome
    <3> QED
      BY <3>1, AbstractVars
  <2> QED
    BY <2>1, <2>2
<1> QED
  BY <1>1, <1>2, DocsAreSafe, PTL DEF Spec, EachCallIsAtomic

-----------------------------------------------------------------------------
(* The Rust server. *)

\* A call knows the document it is about, whatever it has read it can send, and
\* when it was told that its document is stored, there is one.
RustCallOK(c, r) ==
  /\ c = [phase |-> c.phase, request |-> c.request, seen |-> c.seen, shown |-> c.shown, answer |-> c.answer]
  /\ c.phase # "new" => c.request[1].items[1].key \in Key
  /\ c.seen.version \in Nat
  /\ c.answer = "stored" => c.phase = "done" /\ r[c.request[1].items[1].key].version # 0

RustSafe ==
  /\ rustRows = [k \in Key |-> rustRows[k]] /\ \A k \in Key : rustRows[k].version \in Nat
  /\ rustCall = [q \in Call |-> rustCall[q]] /\ \A q \in Call : RustCallOK(rustCall[q], rustRows)

\* One call moves, and documents stay documents.
LEMMA RustMoves ==
  ASSUME RustSafe, NEW q \in Call, NEW c, rustCall' = [rustCall EXCEPT ![q] = c],
         RustCallOK(c, rustRows'),
         rustRows' = [k \in Key |-> rustRows'[k]],
         \A k \in Key : rustRows'[k].version \in Nat /\ (rustRows[k].version # 0 => rustRows'[k].version # 0)
  PROVE  RustSafe'
PROOF
<1>1. PICK g : g = rustCall'
  OBVIOUS
<1>2. /\ g = [p \in Call |-> g[p]] /\ g[q] = c
      /\ \A p \in Call : p # q => g[p] = rustCall[p]
  BY <1>1 DEF RustSafe
<1>3. PICK r : r = rustRows'
  OBVIOUS
<1>4. ASSUME NEW p \in Call PROVE RustCallOK(g[p], r)
  <2>1. CASE p = q
    BY <1>2, <1>3, <2>1
  <2>2. CASE p # q
    <3>1. g[p] = rustCall[p] /\ RustCallOK(rustCall[p], rustRows)
      BY <1>2, <2>2 DEF RustSafe
    <3>2. PICK d : d = rustCall[p]
      OBVIOUS
    <3>3. RustCallOK(d, rustRows)
      BY <3>1, <3>2
    <3>4. d.answer = "stored" => d.request[1].items[1].key \in Key
      BY <3>3 DEF RustCallOK
    <3>5. RustCallOK(d, r)
      BY <1>3, <3>3, <3>4 DEF RustCallOK
    <3> QED
      BY <3>1, <3>2, <3>5
  <2> QED
    BY <2>1, <2>2
<1> QED
  BY <1>1, <1>2, <1>3, <1>4 DEF RustSafe

LEMMA RustStarts == Rust!Init => RustSafe
PROOF
<1> SUFFICES ASSUME Rust!Init PROVE RustSafe
  OBVIOUS
<1>1. /\ rustRows = [k \in Key |-> IF k \in Seed THEN Seeded ELSE NoRow]
      /\ rustCall = [q \in Call |-> Rust!New]
  BY DEF Rust!Init, Rust!Key, Key, Rust!Seeded, Seeded, Rust!NoRow, NoRow, Rust!NoStamp, NoStamp
<1>2. RustCallOK(Rust!New, rustRows)
  BY DEF RustCallOK, Rust!New, Rust!NoRow
<1>3. NoRow.version = 0 /\ Seeded.version = 1
  BY DEF Seeded, NoRow
<1> QED
  BY <1>1, <1>2, <1>3 DEF RustSafe

LEMMA RustKeeps ==
  ASSUME RustSafe, Rust!Next
  PROVE  RustSafe'
PROOF
<1>1. PICK q \in Call :
        Rust!Arrive(q) \/ Rust!GetDoc(q) \/ Rust!GetDocFails(q) \/ Rust!UpsertDoc(q) \/ Rust!UpsertFails(q)
  BY DEF Rust!Next
<1>2. PICK c : c = rustCall[q]
  OBVIOUS
<1>3. RustCallOK(c, rustRows)
  BY <1>2 DEF RustSafe
<1>4. \A k \in Key : rustRows[k].version \in Nat
  BY DEF RustSafe
<1>5. ASSUME UNCHANGED rustRows, NEW d, rustCall' = [rustCall EXCEPT ![q] = d], RustCallOK(d, rustRows)
      PROVE  RustSafe'
  <2>1. rustRows' = rustRows
    BY <1>5
  <2>2. RustCallOK(d, rustRows')
    BY <1>5, <2>1
  <2>3. rustRows' = [k \in Key |-> rustRows'[k]]
    BY <2>1 DEF RustSafe
  <2>4. \A k \in Key : rustRows'[k].version \in Nat /\ (rustRows[k].version # 0 => rustRows'[k].version # 0)
    BY <1>4, <2>1
  <2>5. rustCall' = [rustCall EXCEPT ![q] = d]
    BY <1>5
  <2> QED
    BY <2>2, <2>3, <2>4, <2>5, RustMoves
<1>6. ASSUME NEW a, a # "stored", c.phase # "new"
      PROVE  RustCallOK([c EXCEPT !.phase = "done", !.answer = a], rustRows)
  <2>1. PICK d : d = [c EXCEPT !.phase = "done", !.answer = a]
    OBVIOUS
  <2>2. d = [phase |-> "done", request |-> c.request, seen |-> c.seen, shown |-> c.shown, answer |-> a]
    BY <1>3, <2>1 DEF RustCallOK
  <2>3. c.seen.version \in Nat /\ c.request[1].items[1].key \in Key
    BY <1>3, <1>6 DEF RustCallOK
  <2>4. /\ d = [phase |-> d.phase, request |-> d.request, seen |-> d.seen, shown |-> d.shown, answer |-> d.answer]
        /\ d.request = c.request /\ d.seen = c.seen /\ d.answer = a
    BY <2>2
  <2>5. RustCallOK(d, rustRows)
    BY <1>6, <2>3, <2>4 DEF RustCallOK
  <2> QED
    BY <2>1, <2>5
<1>7. CASE Rust!Arrive(q)
  <2>1. PICK r \in RustRequest :
          /\ r.op \in {"sync", "put"}
          /\ rustCall' = [rustCall EXCEPT ![q] =
               [Rust!New EXCEPT !.request = <<r>>, !.phase = IF r.op = "sync" THEN "read" ELSE "upsert"]]
    BY <1>7 DEF Rust!Arrive, Rust!Goes
  <2>2. r.items[1].key \in Key
    <3>1. r \in Asking /\ Len(r.items) = 1
      BY <2>1, RustAssumption, RequestAssumption
    <3>2. r.items \in Seq(Item)
      BY <3>1 DEF Asking
    <3>3. r.items[1] \in Item
      BY <3>1, <3>2
    <3> QED
      BY <3>3 DEF Item
  <2>3. RustCallOK([Rust!New EXCEPT !.request = <<r>>, !.phase = IF r.op = "sync" THEN "read" ELSE "upsert"], rustRows)
    <3>1. PICK phase, d : /\ phase = IF r.op = "sync" THEN "read" ELSE "upsert"
                          /\ d = [Rust!New EXCEPT !.request = <<r>>, !.phase = phase]
      OBVIOUS
    <3>2. d = [phase |-> phase, request |-> <<r>>, seen |-> Rust!NoRow, shown |-> {}, answer |-> "none"]
      BY <3>1 DEF Rust!New
    <3>3. Rust!NoRow.version = 0 /\ <<r>>[1] = r
      BY DEF Rust!NoRow
    <3>4. /\ d = [phase |-> d.phase, request |-> d.request, seen |-> d.seen, shown |-> d.shown, answer |-> d.answer]
          /\ d.seen.version = 0 /\ d.request[1] = r /\ d.answer = "none"
      BY <3>2, <3>3
    <3>5. RustCallOK(d, rustRows)
      BY <2>2, <3>4 DEF RustCallOK
    <3> QED
      BY <3>1, <3>5
  <2>4. UNCHANGED rustRows
    BY <1>7 DEF Rust!Arrive
  <2> QED
    BY <1>5, <2>1, <2>3, <2>4
<1>8. CASE Rust!GetDoc(q)
  <2>1. c.phase = "read" /\ UNCHANGED rustRows
    BY <1>2, <1>8 DEF Rust!GetDoc
  <2>2. PICK k : k = c.request[1].items[1].key
    OBVIOUS
  <2>3. k \in Key
    BY <1>3, <2>1, <2>2 DEF RustCallOK
  <2>4. rustCall' = [rustCall EXCEPT ![q] =
          IF rustRows[k].version = 0 THEN [c EXCEPT !.phase = "done", !.answer = "missing"]
          ELSE [c EXCEPT !.phase = "upsert", !.seen = rustRows[k]]]
    BY <1>2, <1>8, <2>2 DEF Rust!GetDoc, Rust!Goes, Rust!Answered, Rust!It, Rust!Req
  <2>5. RustCallOK([c EXCEPT !.phase = "done", !.answer = "missing"], rustRows)
    BY <1>6, <2>1
  <2>6. RustCallOK([c EXCEPT !.phase = "upsert", !.seen = rustRows[k]], rustRows)
    <3>1. PICK d : d = [c EXCEPT !.phase = "upsert", !.seen = rustRows[k]]
      OBVIOUS
    <3>2. d = [phase |-> "upsert", request |-> c.request, seen |-> rustRows[k], shown |-> c.shown, answer |-> c.answer]
      BY <1>3, <3>1 DEF RustCallOK
    <3>3. c.request[1].items[1].key \in Key /\ c.answer # "stored" /\ rustRows[k].version \in Nat
      BY <1>3, <1>4, <2>1, <2>3 DEF RustCallOK
    <3>4. /\ d = [phase |-> d.phase, request |-> d.request, seen |-> d.seen, shown |-> d.shown, answer |-> d.answer]
          /\ d.request = c.request /\ d.seen = rustRows[k] /\ d.answer = c.answer
      BY <3>2
    <3>5. RustCallOK(d, rustRows)
      BY <3>3, <3>4 DEF RustCallOK
    <3> QED
      BY <3>1, <3>5
  <2> QED
    BY <1>5, <2>1, <2>4, <2>5, <2>6
<1>9. CASE Rust!GetDocFails(q) \/ Rust!UpsertFails(q)
  <2>1. c.phase # "new" /\ UNCHANGED rustRows
    BY <1>2, <1>9 DEF Rust!GetDocFails, Rust!UpsertFails
  <2>2. rustCall' = [rustCall EXCEPT ![q] = [c EXCEPT !.phase = "done", !.answer = "error"]]
    BY <1>2, <1>9 DEF Rust!GetDocFails, Rust!UpsertFails, Rust!Goes, Rust!Answered
  <2>3. RustCallOK([c EXCEPT !.phase = "done", !.answer = "error"], rustRows)
    BY <1>6, <2>1
  <2> QED
    BY <1>5, <2>1, <2>2, <2>3
<1>10. CASE Rust!UpsertDoc(q)
  <2>1. c.phase = "upsert"
    BY <1>2, <1>10 DEF Rust!UpsertDoc
  <2>2. PICK k, row : k = c.request[1].items[1].key /\ row = Rust!Sent(q)
    OBVIOUS
  <2>3. k \in Key
    BY <1>3, <2>1, <2>2 DEF RustCallOK
  <2>4. row.version \in Nat \ {0}
    <3>1. c.seen.version \in Nat
      BY <1>3 DEF RustCallOK
    <3>2. CASE Rust!Req(q).op = "put"
      <4>1. row = [Rust!Seeded EXCEPT !.data = {<<q, 1>>}, !.stamp = Rust!It(q).stamp]
        BY <2>2, <3>2 DEF Rust!Sent
      <4>2. row.version = 1
        BY <4>1 DEF Rust!Seeded, Rust!NoRow
      <4> QED
        BY <4>2
    <3>3. CASE Rust!Req(q).op # "put"
      <4>1. row = Rust!Merged(rustCall[q].seen, <<q, 1>>, Rust!It(q).stamp, FALSE)
        BY <2>2, <3>3 DEF Rust!Sent
      <4>2. row.version = c.seen.version + 1
        BY <1>2, <4>1 DEF Rust!Merged
      <4> QED
        BY <3>1, <4>2
    <3> QED
      BY <3>2, <3>3
  <2>5. rustRows' = [rustRows EXCEPT ![k] = row]
    BY <1>2, <1>10, <2>2 DEF Rust!UpsertDoc, Rust!It, Rust!Req
  <2>6. PICK r : r = rustRows'
    OBVIOUS
  <2>7. /\ r = [j \in Key |-> r[j]] /\ r[k] = row
        /\ \A j \in Key : j # k => r[j] = rustRows[j]
    BY <2>3, <2>5, <2>6 DEF RustSafe
  <2>8. \A j \in Key : r[j].version \in Nat /\ (rustRows[j].version # 0 => r[j].version # 0)
    BY <1>4, <2>4, <2>7
  <2>9. PICK d : /\ rustCall' = [rustCall EXCEPT ![q] = d]
                 /\ \/ d = [[c EXCEPT !.phase = "done", !.answer = "stored"] EXCEPT !.shown = row.data]
                    \/ d = [c EXCEPT !.phase = "done", !.answer = "error"]
    BY <1>2, <1>10, <2>2 DEF Rust!UpsertDoc, Rust!Goes, Rust!Answered
  <2>10. RustCallOK(d, r)
    BY <1>3, <2>1, <2>2, <2>3, <2>4, <2>7, <2>9 DEF RustCallOK
  <2> QED
    BY <2>6, <2>7, <2>8, <2>9, <2>10, RustMoves
<1> QED
  BY <1>1, <1>7, <1>8, <1>9, <1>10

LEMMA MissingIsMissing ==
  ASSUME RustSafe, Rust!Next, NEW q \in Call, rustCall[q].answer = "none", rustCall'[q].answer = "missing"
  PROVE  /\ rustRows[Rust!It(q).key].version = 0
         /\ \A p \in Call : rustCall[p].answer = "stored" => Rust!It(p).key # Rust!It(q).key
PROOF
<1>1. PICK p \in Call :
        Rust!Arrive(p) \/ Rust!GetDoc(p) \/ Rust!GetDocFails(p) \/ Rust!UpsertDoc(p) \/ Rust!UpsertFails(p)
  BY DEF Rust!Next
<1>2. PICK g : g = rustCall'
  OBVIOUS
<1>3. \A d : rustCall' = [rustCall EXCEPT ![p] = d] => g[p] = d /\ (p # q => g[q] = rustCall[q])
  BY <1>2 DEF RustSafe
<1>4. PICK c : c = rustCall[p]
  OBVIOUS
<1>5. c = [phase |-> c.phase, request |-> c.request, seen |-> c.seen, shown |-> c.shown, answer |-> c.answer]
  BY <1>4 DEF RustSafe, RustCallOK
<1>6. g[q].answer = "missing"
  BY <1>2
<1>7. PICK d : rustCall' = [rustCall EXCEPT ![p] = d]
  BY <1>1 DEF Rust!Arrive, Rust!GetDoc, Rust!GetDocFails, Rust!UpsertDoc, Rust!UpsertFails, Rust!Goes
<1>8. p = q
  BY <1>3, <1>6, <1>7
<1>9. \A b : rustCall' = [rustCall EXCEPT ![p] = b] => b.answer = "missing"
  BY <1>3, <1>6, <1>8
<1>10. CASE Rust!GetDoc(p)
  <2>1. rustRows[Rust!It(q).key].version = 0
    <3>1. SUFFICES ASSUME rustRows[Rust!It(p).key].version # 0 PROVE FALSE
      BY <1>8
    <3>2. rustCall' = [rustCall EXCEPT ![p] = [c EXCEPT !.phase = "upsert", !.seen = rustRows[Rust!It(p).key]]]
      BY <1>4, <1>10, <3>1 DEF Rust!GetDoc, Rust!Goes
    <3>3. [c EXCEPT !.phase = "upsert", !.seen = rustRows[Rust!It(p).key]].answer = "missing"
      BY <1>9, <3>2
    <3>4. c.answer = "missing"
      BY <1>5, <3>3
    <3> QED
      BY <1>4, <1>8, <3>4
  <2>2. ASSUME NEW o \in Call, rustCall[o].answer = "stored", Rust!It(o).key = Rust!It(q).key PROVE FALSE
    <3>1. RustCallOK(rustCall[o], rustRows)
      BY DEF RustSafe
    <3>2. rustRows[rustCall[o].request[1].items[1].key].version # 0
      BY <2>2, <3>1 DEF RustCallOK
    <3> QED
      BY <2>1, <2>2, <3>2 DEF Rust!It, Rust!Req
  <2> QED
    BY <2>1, <2>2
<1>11. CASE Rust!GetDocFails(p) \/ Rust!UpsertFails(p)
  <2>1. rustCall' = [rustCall EXCEPT ![p] = [c EXCEPT !.phase = "done", !.answer = "error"]]
    BY <1>4, <1>11 DEF Rust!GetDocFails, Rust!UpsertFails, Rust!Goes, Rust!Answered
  <2>2. [c EXCEPT !.phase = "done", !.answer = "error"].answer = "error"
    BY <1>5
  <2> QED
    BY <1>9, <2>1, <2>2
<1>12. CASE Rust!UpsertDoc(p)
  <2>1. PICK b : /\ rustCall' = [rustCall EXCEPT ![p] = b]
                 /\ \/ b = [[c EXCEPT !.phase = "done", !.answer = "stored"] EXCEPT !.shown = Rust!Sent(p).data]
                    \/ b = [c EXCEPT !.phase = "done", !.answer = "error"]
    BY <1>4, <1>12 DEF Rust!UpsertDoc, Rust!Goes, Rust!Answered
  <2>2. b.answer \in {"stored", "error"}
    BY <1>5, <2>1
  <2> QED
    BY <1>9, <2>1, <2>2
<1>13. CASE Rust!Arrive(p)
  <2>1. PICK r : rustCall' = [rustCall EXCEPT ![p] =
          [Rust!New EXCEPT !.request = <<r>>, !.phase = IF r.op = "sync" THEN "read" ELSE "upsert"]]
    BY <1>13 DEF Rust!Arrive, Rust!Goes
  <2>2. [Rust!New EXCEPT !.request = <<r>>, !.phase = IF r.op = "sync" THEN "read" ELSE "upsert"].answer = "none"
    BY DEF Rust!New
  <2> QED
    BY <1>9, <2>1, <2>2
<1> QED
  BY <1>1, <1>10, <1>11, <1>12, <1>13

\* Through any failures of the REST layer, before or after they took effect, the
\* Rust server (main.rs, sync_document) answers 404 only for a document that is
\* not there and that no client was told is stored.
THEOREM NotFoundIsTrueHolds == Rust!Spec => NotFoundIsTrue
PROOF
<1>1. Rust!Init => RustSafe
  BY RustStarts
<1>2. RustSafe /\ [Rust!Next]_(Rust!vars) => RustSafe'
  <2> SUFFICES ASSUME RustSafe, [Rust!Next]_(Rust!vars) PROVE RustSafe'
    OBVIOUS
  <2>1. CASE UNCHANGED Rust!vars
    BY <2>1 DEF Rust!vars, RustSafe
  <2> QED
    BY <2>1, RustKeeps
<1>3. RustSafe /\ [Rust!Next]_(Rust!vars) =>
        [\A q \in Call : rustCall[q].answer = "none" /\ rustCall'[q].answer = "missing" =>
           /\ rustRows[Rust!It(q).key].version = 0
           /\ \A p \in Call : rustCall[p].answer = "stored" => Rust!It(p).key # Rust!It(q).key]_(Rust!vars)
  BY MissingIsMissing
<1> QED
  BY <1>1, <1>2, <1>3, PTL DEF Rust!Spec, NotFoundIsTrue, Rust!NotFoundIsTrue
=============================================================================
