----------------------------- MODULE AtomicSync -----------------------------
(***************************************************************************)
(* What the sync server promises, without transactions, locks, sequence    *)
(* numbers, mirror or ledger tables: a push is one indivisible step that   *)
(* executes each mutation id of a client once, in order, or has no effect  *)
(* at all; every accepted write is one entry of a single log.              *)
(***************************************************************************)
EXTENDS Integers, Sequences, FiniteSets

CONSTANTS Tenant, ClientId, RecordId, Merge(_, _), NoData, Nobody,
          Identity, Batch, ExternalData

NoBase == -1

VARIABLES
  log,       \* accepted writes, oldest first
  outcome,   \* outcome[t][c][n]: the request of mutation n and how it ended
  owner      \* owner[t][c]: the subject a clientId is bound to

abstractVars == <<log, outcome, owner>>

AInit ==
  /\ log = <<>>
  /\ outcome = [t \in Tenant |-> [c \in ClientId |-> <<>>]]
  /\ owner = [t \in Tenant |-> [c \in ClientId |-> Nobody]]

-----------------------------------------------------------------------------
(* A record as the log shows it. *)

WritesTo(l, t, r) == {i \in DOMAIN l : l[i].tenant = t /\ l[i].record = r}

Revision(l, t, r) == Cardinality(WritesTo(l, t, r))

LastOf(S, i) == i \in S /\ \A j \in S : j <= i

Deleted(l, t, r) == \E i \in WritesTo(l, t, r) : LastOf(WritesTo(l, t, r), i) /\ l[i].op = "delete"

Stored(l, t, r) == {i \in WritesTo(l, t, r) : l[i].op = "upsert"}

\* A tombstone keeps the document it buried, for a resurrection to merge into.
Document(l, t, r) ==
  l[CHOOSE i \in Stored(l, t, r) : LastOf(Stored(l, t, r), i)].data

-----------------------------------------------------------------------------
(* One mutation: refused for good, acknowledged without effect, or written. *)

Verdict(l, t, m) ==
  LET rev  == Revision(l, t, m.record)
      dead == Deleted(l, t, m.record)
      fits == m.base \in {NoBase, rev}
  IN IF m.table # "docs" THEN "UNSUPPORTED_TABLE"
     ELSE IF rev = 0 THEN IF m.op = "upsert" /\ fits THEN "write" ELSE "NOT_FOUND"
     ELSE IF ~ fits THEN "REVISION_CONFLICT"
     ELSE IF ~ dead THEN "write"
     ELSE IF m.op = "delete" THEN "no-op"
     ELSE IF ~ m.resurrect THEN "TOMBSTONED"
     ELSE IF m.base = NoBase THEN "REVISION_REQUIRED" ELSE "write"

Written(l, t, m) ==
  [tenant |-> t, record |-> m.record, op |-> m.op,
   data |-> IF m.op = "delete" THEN NoData
            ELSE IF Revision(l, t, m.record) = 0 THEN m.data
            ELSE Merge(Document(l, t, m.record), m.data)]

\* st.done is the client's outcomes so far, st.ok whether the push stands.
Step(t, st, m) ==
  LET n == Len(st.done)
      v == Verdict(st.log, t, m)
  IN IF m.id <= n THEN [st EXCEPT !.ok = @ /\ st.done[m.id].request = m]
     ELSE IF m.id # n + 1 THEN [st EXCEPT !.ok = FALSE]
     ELSE [log  |-> IF v = "write" THEN Append(st.log, Written(st.log, t, m)) ELSE st.log,
           done |-> Append(st.done, [request |-> m, verdict |-> v]),
           ok   |-> st.ok]

\* What a batch makes of st, mutation by mutation.
Through(t, st, batch) ==
  LET after[i \in 0 .. Len(batch)] ==
        IF i = 0 THEN st ELSE Step(t, after[i - 1], batch[i])
  IN after[Len(batch)]

AtomicPush(id, c, batch) ==
  LET t   == id.tenant
      end == Through(t, [log |-> log, done |-> outcome[t][c], ok |-> TRUE], batch)
  IN /\ c \in id.clientIds
     /\ owner[t][c] \in {Nobody, id.subject}
     /\ end.ok
     /\ log' = end.log
     /\ outcome' = [outcome EXCEPT ![t][c] = end.done]
     /\ owner' = [owner EXCEPT ![t][c] = id.subject]

\* Direct SQL: the document as given, or a tombstone over any stored record.
DirectWrite(t, r, d) ==
  /\ log' = Append(log, [tenant |-> t, record |-> r, op |-> "upsert",
                         data |-> d])
  /\ UNCHANGED <<outcome, owner>>

DirectDelete(t, r) ==
  /\ Revision(log, t, r) > 0
  /\ log' = Append(log, [tenant |-> t, record |-> r, op |-> "delete",
                         data |-> NoData])
  /\ UNCHANGED <<outcome, owner>>

ANext ==
  \/ \E id \in Identity, c \in ClientId, b \in Batch : AtomicPush(id, c, b)
  \/ \E t \in Tenant, r \in RecordId, d \in ExternalData : DirectWrite(t, r, d)
  \/ \E t \in Tenant, r \in RecordId : DirectDelete(t, r)

\* What SyncServer implements (compaction and rollback are stutters here).
ASpec == AInit /\ [][ANext]_abstractVars
=============================================================================
