--------------------------- MODULE SyncRefinement ---------------------------
(***************************************************************************)
(* SyncServer implements AtomicSync.  The log of AtomicSync is the         *)
(* committed history in sequence order; its outcomes are the ledger rows   *)
(* up to each watermark.                                                   *)
(***************************************************************************)
EXTENDS SyncServer

\* The first n changes of a history, without numbers and attribution.
LogOf(H, n) ==
  [i \in 1 .. n |->
     LET ch == CHOOSE ch \in H : ch.seq = i
     IN [tenant |-> ch.tenant, record |-> ch.record, op |-> ch.op, data |-> ch.data]]

\* The outcomes of the first n mutations of a client.
OutcomesOf(s, t, c, n) ==
  [i \in 1 .. n |->
     LET e == CHOOSE e \in Prior(s, t, c, i) : TRUE
     IN [request |-> e.request,
         verdict |-> IF e.status = "rejected" THEN e.code
                     ELSE IF e.noOp THEN "no-op" ELSE "write"]]

AbstractLog == LogOf(history, db.lastSeq)

AbstractOutcome ==
  [t \in Tenant |-> [c \in ClientId |-> OutcomesOf(db, t, c, db.clients[t][c].last)]]

AbstractOwner ==
  [t \in Tenant |-> [c \in ClientId |-> db.clients[t][c].subject]]

Atomic == INSTANCE AtomicSync WITH
  log <- AbstractLog, outcome <- AbstractOutcome, owner <- AbstractOwner

\* Every commit of a push is one atomic execution of its whole batch, every
\* other commit one direct write or nothing: the interleaving of statements,
\* failpoints and rollbacks of the real transactions is invisible.
ImplementsAtomicSync == Atomic!ASpec
=============================================================================
