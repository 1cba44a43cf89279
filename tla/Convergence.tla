------------------------------ MODULE Convergence ------------------------------
(***************************************************************************)
(* The reduced model of formal/model-based-convergence.mjs: clients with   *)
(* queues of immutable mutations, a server that resolves whole entities by *)
(* the latest timestamp, and a transport that drops, repeats and reorders  *)
(* requests and loses answers.  Timestamps are numbers, a value is the     *)
(* mutation that wrote it.                                                 *)
(***************************************************************************)
EXTENDS Integers, Sequences, SequencesExt

CONSTANTS
  Client, Entity,
  Workloads,    \* what may be sent: of each client, per id, the contents sent under it
  Base          \* bound: the revisions a resurrection names

Op == {"upsert", "delete", "resurrect"}

ASSUME MutationAssumption ==
  \A w \in Workloads : \A c \in Client :
    w[c] \in Seq((SUBSET [entity : Entity, op : Op, at : Nat, base : 0..Base]) \ {{}})

VARIABLES
  mutations,    \* one of the workloads
  records,      \* of each entity: Absent, a value or a tombstone
  ledger,       \* of each client: what came under each id, and its outcome
  changes,      \* the change feed; its length is the checkpoint
  pending,      \* of each client: ids it has no answer for
  rejections,   \* and those it was told are rejected, durably
  view,         \* what it pulled: entity -> record
  seen          \* up to this checkpoint

Ids(c) == DOMAIN mutations[c]

vars == <<mutations, records, ledger, changes, pending, rejections, view, seen>>

Absent == [deleted |-> FALSE, at |-> 0, value |-> <<>>, revision |-> 0]
Known(r) == r.revision > 0

Init ==
  /\ mutations \in Workloads
  /\ records = [e \in Entity |-> Absent]
  /\ ledger = [c \in Client |-> <<>>] /\ changes = <<>>
  /\ pending = [c \in Client |-> Ids(c)]
  /\ rejections = [c \in Client |-> {}]
  /\ view = [c \in Client |-> [e \in Entity |-> Absent]]
  /\ seen = [c \in Client |-> 0]
-----------------------------------------------------------------------------
(* ServerModel.push *)

Watermark(c) == Len(ledger[c])

NotOlder(m, r) == ~Known(r) \/ m.at >= r.at

\* Mutant: a later upsert revives a tombstone.
OutcomeRevives(m, r) ==
  CASE m.op = "resurrect" /\ r.deleted -> "resurrected"
    [] m.op = "upsert" /\ NotOlder(m, r) -> "written"
    [] m.op = "delete" /\ NotOlder(m, r) -> "deleted"
    [] OTHER -> "noop"

Outcome(m, r) ==
  CASE m.op = "resurrect" /\ ~(r.deleted /\ m.base = r.revision) -> "resurrection-base-mismatch"
    [] m.op = "resurrect" /\ r.deleted /\ m.base = r.revision -> "resurrected"
    [] m.op = "upsert" /\ r.deleted -> "explicit-resurrection-required"
    [] m.op = "upsert" /\ ~r.deleted /\ NotOlder(m, r) -> "written"
    [] m.op = "delete" /\ NotOlder(m, r) -> "deleted"
    [] OTHER -> "noop"

Rejected(outcome) == outcome \in {"resurrection-base-mismatch", "explicit-resurrection-required"}

\* Mutant: a deletion is forgotten (the file's own checker control).
AfterDropped(m, r, id) ==
  CASE Outcome(m, r) = "deleted" -> Absent
    [] Outcome(m, r) \in {"written", "resurrected"} ->
         [deleted |-> FALSE, at |-> m.at, value |-> id, revision |-> r.revision + 1]
    [] OTHER -> r

\* The record after mutation m, sent under id.
After(m, r, id) ==
  CASE Outcome(m, r) = "deleted" ->
         [deleted |-> TRUE, at |-> m.at, value |-> <<>>, revision |-> r.revision + 1]
    [] Outcome(m, r) \in {"written", "resurrected"} ->
         [deleted |-> FALSE, at |-> m.at, value |-> id, revision |-> r.revision + 1]
    [] OTHER -> r

\* The first delivery of the next id takes effect, and is entered in the ledger
\* together with its outcome; only a record that changes is a change.
Resolve(c, i, m) ==
  LET r == records[m.entity]
      after == After(m, r, <<c, i>>)
  IN /\ ledger' = [ledger EXCEPT ![c] = Append(@, [content |-> m, outcome |-> Outcome(m, r)])]
     /\ records' = [records EXCEPT ![m.entity] = after]
     /\ changes' = IF after = r THEN changes ELSE Append(changes, [entity |-> m.entity, record |-> after])

\* Mutant: a rejected mutation stays pending.
AcknowledgeKeeps(c, i, outcome) ==
  /\ pending' = IF Rejected(outcome) THEN pending ELSE [pending EXCEPT ![c] = @ \ {i}]
  /\ rejections' = IF Rejected(outcome) THEN [rejections EXCEPT ![c] = @ \cup {i}] ELSE rejections

\* ClientModel.acknowledge
Acknowledge(c, i, outcome) ==
  /\ pending' = [pending EXCEPT ![c] = @ \ {i}]
  /\ rejections' = IF Rejected(outcome) THEN [rejections EXCEPT ![c] = @ \cup {i}] ELSE rejections

AnswerLost == UNCHANGED <<pending, rejections>>

DeliverNext(c, i, lost) ==
  /\ i = Watermark(c) + 1
  /\ \E m \in mutations[c][i] :
       /\ Resolve(c, i, m)
       /\ IF lost THEN AnswerLost ELSE Acknowledge(c, i, Outcome(m, records[m.entity]))
  /\ UNCHANGED <<mutations, view, seen>>

\* Mutant: a repeated mutation is answered as applied.
DeliverAgainApplied(c, i) ==
  /\ i <= Watermark(c) /\ ledger[c][i].content \in mutations[c][i]
  /\ Acknowledge(c, i, "noop")
  /\ UNCHANGED <<mutations, records, ledger, changes, view, seen>>

\* Mutant: a repeated mutation is resolved anew.
DeliverAgainAnew(c, i) ==
  /\ i <= Watermark(c) /\ ledger[c][i].content \in mutations[c][i]
  /\ LET m == ledger[c][i].content IN
       /\ ledger' = [ledger EXCEPT ![c][i].outcome = Outcome(m, records[m.entity])]
       /\ Acknowledge(c, i, Outcome(m, records[m.entity]))
  /\ UNCHANGED <<mutations, records, changes, view, seen>>

\* Mutant: a repeated mutation is not answered.
DeliverAgainSilent(c, i) ==
  /\ i <= Watermark(c) /\ ledger[c][i].content \in mutations[c][i]
  /\ UNCHANGED vars

\* A repeated mutation gets its outcome of then; other content under its id, and
\* an id out of order, are protocol conflicts, which leave everything as it was.
DeliverAgain(c, i) ==
  /\ i <= Watermark(c) /\ ledger[c][i].content \in mutations[c][i]
  /\ Acknowledge(c, i, ledger[c][i].outcome)
  /\ UNCHANGED <<mutations, records, ledger, changes, view, seen>>

\* Mutant: only the last change is taken.
PullLatest(c) ==
  /\ seen[c] < Len(changes)
  /\ LET change == changes[Len(changes)] IN view' = [view EXCEPT ![c][change.entity] = change.record]
  /\ seen' = [seen EXCEPT ![c] = Len(changes)]
  /\ UNCHANGED <<mutations, records, ledger, changes, pending, rejections>>

\* ClientModel.pull: the changes after the checkpoint, in order; the last of an
\* entity stays.
Unseen(c, e) == {i \in seen[c] + 1 .. Len(changes) : changes[i].entity = e}
Pull(c) ==
  /\ seen[c] < Len(changes)
  /\ view' = [view EXCEPT ![c] = [e \in Entity |->
       IF Unseen(c, e) = {} THEN view[c][e]
       ELSE changes[CHOOSE i \in Unseen(c, e) : \A j \in Unseen(c, e) : j <= i].record]]
  /\ seen' = [seen EXCEPT ![c] = Len(changes)]
  /\ UNCHANGED <<mutations, records, ledger, changes, pending, rejections>>

Deliver(c) == \E i \in Ids(c) : DeliverAgain(c, i) \/ \E lost \in BOOLEAN : DeliverNext(c, i, lost)
Next == \E c \in Client : Deliver(c) \/ Pull(c)

Spec == Init /\ [][Next]_vars

-----------------------------------------------------------------------------
(* ClientModel.visible: pending mutations over what was pulled *)

OverlayOf(c, i, r) ==
  LET m == CHOOSE m \in mutations[c][i] : TRUE IN
  CASE m.op = "delete" -> [deleted |-> TRUE, at |-> m.at, value |-> <<>>, revision |-> r.revision]
    [] m.op = "upsert" -> [deleted |-> FALSE, at |-> m.at, value |-> <<c, i>>, revision |-> r.revision]
    [] OTHER -> r

Visible(c) ==
  LET mine(e) == {i \in pending[c] : \A m \in mutations[c][i] : m.entity = e /\ m.op # "resurrect"}
  IN [e \in Entity |->
       IF mine(e) = {} THEN view[c][e]
       ELSE OverlayOf(c, CHOOSE i \in mine(e) : \A j \in mine(e) : j <= i, view[c][e])]

Semantic(r) == [deleted |-> r.deleted, at |-> r.at, value |-> r.value]
-----------------------------------------------------------------------------
ConvergenceTypeOK ==
  /\ \A c \in Client : Watermark(c) <= Len(mutations[c]) /\ seen[c] \in 0..Len(changes)
  /\ \A c \in Client : pending[c] \subseteq Ids(c) /\ rejections[c] \subseteq Ids(c) \ pending[c]

\* referenceFinal: the latest mutation of each entity.
Content(id) == CHOOSE m \in mutations[id[1]][id[2]] : TRUE
Sent == UNION {{c} \X Ids(c) : c \in Client}
Reference(e) ==
  LET all == {id \in Sent : Content(id).entity = e}
      last == CHOOSE id \in all : \A other \in all : Content(other).at <= Content(id).at
      m == Content(last)
  IN IF all = {} THEN Semantic(Absent)
     ELSE [deleted |-> m.op = "delete", at |-> m.at, value |-> IF m.op = "delete" THEN <<>> ELSE last]

\* What generateLogicalMutations makes: one content under each id, deletions
\* later than every other mutation, no resurrections, and no timestamp twice
\* (a timestamp has the mutation's number in it).
Generated ==
  \A id \in Sent :
    /\ mutations[id[1]][id[2]] = {Content(id)} /\ Content(id).op # "resurrect"
    /\ \A other \in Sent : Content(other).at = Content(id).at => other = id
    /\ Content(id).op = "delete" =>
         \A other \in Sent : Content(other).op = "delete" \/ Content(other).at < Content(id).at

\* A client that is answered and has pulled sees what the server has.
ViewsAreTheServers ==
  \A c \in Client : pending[c] = {} /\ seen[c] = Len(changes) => Visible(c) = records

\* No rejection goes under with a lost answer.
RejectionsAreTold ==
  \A c \in Client : \A i \in Ids(c) \ pending[c] : Rejected(ledger[c][i].outcome) <=> i \in rejections[c]

ConvergenceInv == ConvergenceTypeOK /\ ViewsAreTheServers /\ RejectionsAreTold

AllCommitted == \A c \in Client : Watermark(c) = Len(mutations[c])

\* When the last mutation comes in, in whatever order, however often, the server
\* has what one pass over the mutations gives; what is repeated later changes
\* nothing.
ServerConverges ==
  Generated /\ AllCommitted' =>
    IF AllCommitted THEN UNCHANGED records
    ELSE \A e \in Entity : Semantic(records'[e]) = Reference(e)

\* A client id and mutation id have one content and one outcome for ever ("stable
\* mutation identity").
OutcomesAreFinal == \A c \in Client : IsPrefix(ledger[c], ledger'[c])

\* A tombstone stays until a resurrection that names its revision ("explicit
\* tombstone replay"), whatever is repeated or comes late.
NoZombie ==
  \A e \in Entity : records[e].deleted =>
       \/ records'[e].deleted
       \/ \E c \in Client : Len(ledger'[c]) > Len(ledger[c]) /\
            LET m == Last(ledger'[c]).content IN
            m.entity = e /\ m.op = "resurrect" /\ m.base = records[e].revision

\* In whatever order mutations come, however often, and whichever answers are
\* lost: everybody ends with the same records and knows what was rejected,
\* outcomes are final and tombstones stay.
ModelConverges == [][ConvergenceInv' /\ ServerConverges /\ OutcomesAreFinal /\ NoZombie]_vars
=============================================================================
