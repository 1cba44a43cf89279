----------------------------- MODULE MCDatabase -----------------------------
(***************************************************************************)
(* A small instance of Database.  The initial state chooses what a         *)
(* behaviour is about: transactions that keep the order of locks, others   *)
(* among which a reset and the trigger of SERVER_GUIDE.md do not, or the   *)
(* start of builds against one database.                                   *)
(***************************************************************************)
EXTENDS Database, TLC

CONSTANTS t1, t2, t3, t4, s1, s2, s3

VARIABLE part

\* Transactions that compete for one record, one document and one client.
MCOrderly == t1 :> PushTable @@ t2 :> DirectSql @@ t3 :> PushDocs @@ t4 :> Compact
MCDisorderly == t1 :> PushDocs @@ t2 :> GuideSql @@ t3 :> Reset @@ t4 :> ExternalWrite
MCWorkloads == {MCOrderly, MCDisorderly}

\* An earlier build, this one, and one whose second migration was edited, against
\* a new and an older database.
MCBuilds == (s1 :> <<"a", "b">>) @@ (s2 :> <<"a", "b", "c">>) @@ (s3 :> <<"a", "x", "c">>)
MCInitial == {<<>>, <<"a">>}

MCInit ==
  /\ Init /\ Schema!Init
  /\ part \in {"locks", "schema"}
  /\ part = "locks" => db.history = <<>>
  /\ part = "schema" => program = MCOrderly

MCNext ==
  \/ part = "locks" /\ Next /\ UNCHANGED <<part, schemaVars>>
  \/ part = "schema" /\ Schema!Next /\ UNCHANGED <<part, vars>>

MCSpec == MCInit /\ [][MCNext]_<<part, vars, schemaVars>>
=============================================================================
