------------------------------ MODULE LockOrder ------------------------------
(***************************************************************************)
(* The order in which the transactions of the sync database take their     *)
(* locks (servers/node/src/protocol.ts, protocol-handlers.ts).  SyncServer *)
(* and TableHandlers treat a push, a captured statement and a compaction   *)
(* as one step each; here they take their locks one by one, wait for each  *)
(* other, number their changes and commit.  Locks are kept to the end of   *)
(* the transaction.  A transaction that is part of a cycle is aborted by   *)
(* PostgreSQL.                                                             *)
(***************************************************************************)
EXTENDS Integers, Sequences, FiniteSets

CONSTANTS
  Txn,        \* transactions
  Workloads   \* what they may be about: for each the steps it takes

\* A row is taken alone ("row"); a table is used by many ("use") or, by
\* TRUNCATE, alone ("all").
Resource == {"state", "client", "mirror", "source", "docMirror", "doc", "clients", "records",
             "docs", "changes", "mutations", "app"}
Step == [on : Resource, mode : {"row", "use", "all"}, act : {"lock", "number", "clear"}]

Rows == {"state", "client", "mirror", "source", "docMirror", "doc"}

ASSUME ProgramAssumption ==
  \A w \in Workloads :
    /\ w \in [Txn -> Seq(Step)]
    /\ \A t \in Txn : \A i \in DOMAIN w[t] : (w[t][i].mode = "row") <=> (w[t][i].on \in Rows)

VARIABLES
  program,   \* the steps of each transaction
  at,        \* steps a transaction has taken
  status,    \* running, committed, failed or (deadlock) victim
  numbers,   \* sequence numbers it gave its changes, not yet visible
  lastSeq,   \* syncer_protocol_state.last_seq, committed
  feed       \* numbers of the committed changes, in the order of the commits

vars == <<program, at, status, numbers, lastSeq, feed>>

Row(r) == [on |-> r, mode |-> "row", act |-> "lock"]
Use(r) == [on |-> r, mode |-> "use", act |-> "lock"]
All(r) == [on |-> r, mode |-> "all", act |-> "lock"]

\* Mutant: a bare sequence numbers the changes.
Sequenced == [on |-> "changes", mode |-> "use", act |-> "number"]

\* UPDATE syncer_protocol_state: the row is locked, the change gets its number.
Number == [on |-> "state", mode |-> "row", act |-> "number"]
-----------------------------------------------------------------------------
(* The programs of one record and one client, for which they compete most. *)

\* pushCore begins with the state row and the client's row.
PushBegins == <<Row("state"), Use("clients"), Row("client")>>

\* The capture trigger: number, mirror, change.
Capture(mirror) == <<Number, Use("records"), Row(mirror), Use("changes")>>

\* Mutant: the push takes the state row when it captures its first change.
PushLate == <<Use("clients"), Row("client"), Use("records"), Row("mirror"), Use("app"),
              Row("source")>> \o Capture("mirror") \o <<Use("mutations")>>

\* A push to a registered table: the handler takes the mirror, then the source.
PushTable == PushBegins \o <<Use("records"), Row("mirror"), Use("app"), Row("source")>>
               \o Capture("mirror") \o <<Use("mutations")>>

\* A push to the built-in documents.
PushDocs == PushBegins \o <<Use("docs"), Row("doc")>> \o Capture("docMirror") \o <<Use("mutations")>>

\* Direct SQL on a table registered with syncer_protocol_register_capture: the
\* BEFORE STATEMENT trigger takes the state row first.
DirectSql == <<Use("app"), Row("state"), Row("source")>> \o Capture("mirror")

\* Direct SQL on a table with the AFTER ROW trigger of SERVER_GUIDE.md alone.
GuideSql == <<Use("app"), Row("source")>> \o Capture("mirror")

\* The external-write endpoint.
ExternalWrite == <<Use("docs"), Row("state"), Row("doc")>> \o Capture("docMirror")

Compact == <<Row("state"), Use("changes")>>

\* TRUNCATE takes the tables, UPDATE the state row.
Reset == <<All("changes"), All("mutations"), All("clients"), All("records"), All("docs"),
           [Row("state") EXCEPT !.act = "clear"]>>
-----------------------------------------------------------------------------
Init ==
  /\ program \in Workloads
  /\ at = [t \in Txn |-> 0] /\ status = [t \in Txn |-> "running"]
  /\ numbers = [t \in Txn |-> <<>>] /\ lastSeq = 0 /\ feed = <<>>

Running(t) == status[t] = "running"
Due(t) == Running(t) /\ at[t] < Len(program[t])
NextStep(t) == program[t][at[t] + 1]

\* Mutant: statements lock their tables whole.
ClashWhole(s, h) == s.on = h.on

Clash(s, h) == s.on = h.on /\ ({s.mode, h.mode} # {"use"})

\* t cannot take its next step while u runs.
WaitsFor(t, u) ==
  /\ t # u /\ Due(t) /\ Running(u)
  /\ \E i \in 1..at[u] : Clash(NextStep(t), program[u][i])

\* Mutant: numbers start from the smallest.
LatestRolledBack(t) == lastSeq - 1

Latest(t) == IF numbers[t] = <<>> THEN lastSeq ELSE numbers[t][Len(numbers[t])]

Advance(t) ==
  /\ Due(t) /\ \A u \in Txn : ~ WaitsFor(t, u)
  /\ at' = [at EXCEPT ![t] = @ + 1]
  /\ numbers' = [numbers EXCEPT ![t] =
       IF NextStep(t).act = "number" THEN Append(@, Latest(t) + 1) ELSE @]
  /\ UNCHANGED <<program, status, lastSeq, feed>>

Clears(t) == \E i \in DOMAIN program[t] : program[t][i].act = "clear"

Commit(t) ==
  /\ Running(t) /\ at[t] = Len(program[t])
  /\ status' = [status EXCEPT ![t] = "committed"]
  /\ lastSeq' = IF Clears(t) THEN 0 ELSE Latest(t)
  /\ feed' = IF Clears(t) THEN <<>> ELSE feed \o numbers[t]
  /\ UNCHANGED <<program, at, numbers>>

\* Rolled back: an error, a statement timeout, a lost connection.
Fail(t) ==
  /\ Running(t)
  /\ status' = [status EXCEPT ![t] = "failed"]
  /\ UNCHANGED <<program, at, numbers, lastSeq, feed>>

\* A cycle of waiting transactions.
Cycle(S) == \A t \in S : (\E u \in S : WaitsFor(t, u)) /\ (\E u \in S : WaitsFor(u, t))

Victim(t) ==
  /\ \E S \in SUBSET Txn : t \in S /\ Cycle(S)
  /\ status' = [status EXCEPT ![t] = "victim"]
  /\ UNCHANGED <<program, at, numbers, lastSeq, feed>>

Next == \E t \in Txn : Advance(t) \/ Commit(t) \/ Fail(t) \/ Victim(t)

Spec == Init /\ [][Next]_vars

-----------------------------------------------------------------------------
LockTypeOK ==
  /\ program \in Workloads
  /\ at \in [Txn -> Nat] /\ \A t \in Txn : at[t] <= Len(program[t])
  /\ status \in [Txn -> {"running", "committed", "failed", "victim"}]
  /\ numbers \in [Txn -> Seq(Nat \ {0})] /\ lastSeq \in Nat /\ feed \in Seq(Nat \ {0})

\* The transactions that take the state row before any other, and all of them.
OrderlyPrograms == {PushTable, PushDocs, DirectSql, ExternalWrite, Compact}
Programs == OrderlyPrograms \cup {GuideSql, Reset}

\* No rows are waited for but at the end of the chain: whoever is waited for is
\* not waiting itself, so that no cycle can close.  ("A direct SQL statement must
\* use the same order", protocol.ts.)
NobodyWaitsForAWaiter ==
  (\A t \in Txn : program[t] \in OrderlyPrograms) =>
    \A t, u, v \in Txn : ~ (WaitsFor(t, u) /\ WaitsFor(u, v))

\* Sequence numbers follow the order of the commits: at every moment the committed
\* changes are numbered without a gap, so that a reader that has read up to a
\* number never misses a smaller one ("The singleton lock makes checkpoint
\* allocation reflect transaction commit order. A bare sequence cannot").
CommitOrderIsFeedOrder == feed = [n \in 1..lastSeq |-> n]

\* Programs that take the state row before any other row, and no table alone.
StateFirst(p) == \A i \in DOMAIN p :
  /\ p[i].mode # "all" /\ p[i].act # "clear"
  /\ p[i].mode = "row" => \E j \in 1..i : p[j].mode = "row" /\ p[j].on = "state"

Orderly == \A t \in Txn : StateFirst(program[t])

\* Programs that number their changes, and start the numbers over, under the lock of
\* the state row.
NumbersUnderState(p) == \A i \in DOMAIN p : p[i].act # "lock" => p[i].on = "state"

NumbersUnderLock == \A t \in Txn : NumbersUnderState(program[t])

\* Transactions wait for each other in a circle only where one that does not take
\* the state row first takes part.
CirclesNeedTheDisorderly ==
  \A S \in (SUBSET Txn) \ {{}} : Cycle(S) => \E t \in S : ~ StateFirst(program[t])

\* Locks, numbers and commits agree.
LocksInv == LockTypeOK /\ CommitOrderIsFeedOrder /\ CirclesNeedTheDisorderly
=============================================================================
