------------------------------- MODULE Database -------------------------------
(***************************************************************************)
(* The database the replicas share: the transactions that compete for its  *)
(* rows (protocol.ts, protocol-handlers.ts) and, each over its own         *)
(* variables, the builds that bring its schema up to date (index.ts init,  *)
(* migrate.ts).                                                            *)
(***************************************************************************)
EXTENDS LockOrder

CONSTANTS Starter, Build, Initial, MaxWrites   \* of the schema

VARIABLES db, docs, phase, work, ddl, seeded, missed   \* of the schema

schemaVars == <<db, docs, phase, work, ddl, seeded, missed>>

Schema == INSTANCE Migrations

\* Three migrations are known to the model; a build has the first at least.
ASSUME SchemaAssumption ==
  /\ Build \in [Starter -> Seq(STRING)] /\ \A s \in Starter : Len(Build[s]) \in 1..3
  /\ \A h \in Initial : h \in Seq(STRING) /\ Len(h) \in 0..3

\* The schema, its history and the mirror agree, but for the writes that the copy
\* of migration 2 missed.
MigrationsInv == Schema!MigrationsInv

\* Migrations are never applied again, edited or taken back, a build serves its
\* own schema only, and a start does not undo an edit.
SchemaOnlyMovesForward == Schema!SchemaOnlyMovesForward
=============================================================================
