------------------------------ MODULE MCTables ------------------------------
(***************************************************************************)
(* Small instances of TableHandlers: a table with a deletion column or,    *)
(* where the initial state says so, one without; every branch of the JSONB *)
(* handler, application handlers, direct SQL and the reset.                *)
(***************************************************************************)
EXTENDS TableHandlers

CONSTANTS tasks, r1, r2, p, q

VARIABLE softDelete   \* the table has a deletion column

MCTable == {tasks}
MCRecord == {r1, r2}
MCData == {{p}, {q}, {p, q}}
MCDirectData == {{q}}
MCWrittenBy == {r1}
MCMerge(a, b) == a \cup b

Upsert(base, resurrect) ==
  [table |-> tasks, record |-> r1, op |-> "upsert", base |-> base, data |-> {p},
   resurrect |-> resurrect]

Delete(base) ==
  [table |-> tasks, record |-> r1, op |-> "delete", base |-> base, data |-> NoData,
   resurrect |-> FALSE]

\* Creation, a blind upsert, a delete of the first revision, a resurrection that
\* names the tombstone; where rows are kept also an upsert that would resurrect
\* without naming one, a blind delete, and an application handler.
Both == {Upsert(0, FALSE), Upsert(NoBase, FALSE), Delete(1), Upsert(2, TRUE)}
MCRequest ==
  Both \cup {Upsert(NoBase, TRUE), Delete(NoBase), [Upsert(NoBase, FALSE) EXCEPT !.table = App]}

Hard == INSTANCE TableHandlers WITH SoftDelete <- {}, Request <- Both

MCInit == Init /\ softDelete \in BOOLEAN

MCNext ==
  \/ softDelete /\ Next /\ UNCHANGED softDelete
  \/ ~softDelete /\ Hard!Next /\ UNCHANGED softDelete

MCSpec == MCInit /\ [][MCNext]_<<vars, softDelete>>
=============================================================================
