------------------------------ MODULE Migrations ------------------------------
(***************************************************************************)
(* Starting the server (servers/node/src/index.ts init, migrate.ts,        *)
(* ensureProtocolSchema in protocol.ts): replicas and migration jobs of    *)
(* different builds run the schema migrations against one database, while  *)
(* replicas of an earlier build go on writing documents.  A transaction's  *)
(* changes are private until it commits; one document stands for all.      *)
(***************************************************************************)
EXTENDS Integers, Sequences, FiniteSets

CONSTANTS
  Starter,      \* processes that start: migration jobs and servers
  Build,        \* the checksums of the migrations each was built with, one to three
  Initial,      \* histories of migrations the database may begin with
  MaxWrites     \* bound: document writes

VARIABLES
  db,        \* committed: history, trigger, mirror
  docs,      \* version of the document, and the last revision in the change feed
  phase,     \* of each starter
  work,      \* its transaction's view of db
  ddl,       \* the starter that holds the documents table exclusively, if any
  seeded,    \* the seed document of the reference application
  missed     \* auxiliary: writes since the documents were last copied for a mirror

vars == <<db, docs, phase, work, ddl, seeded, missed>>

\* The capture trigger each migration leaves on the documents; the mirror has
\* the document's revision from migration 2 on (0: no row).
Trigger(n) == <<"none", "document", "generic", "registered">>[n + 1]
HasMirror(n) == n >= 2

Init == \E h \in Initial :
  LET written == IF h = <<>> THEN 0 ELSE 1 IN
  /\ docs = [version |-> written, change |-> written]
  /\ db = [history |-> h, trigger |-> Trigger(Len(h)), mirror |-> IF HasMirror(Len(h)) THEN written ELSE 0]
  /\ phase = [s \in Starter |-> "new"] /\ work = [s \in Starter |-> db]
  /\ ddl = {} /\ seeded = "absent" /\ missed = 0

InTransaction == {"locked", "applying", "copied"}
-----------------------------------------------------------------------------
(* ensureProtocolSchema *)

\* Mutant: the advisory lock is not taken.
Unlocked == TRUE

\* pg_advisory_xact_lock: one transaction at a time.
LockFree == \A s \in Starter : phase[s] \notin InTransaction

Begin(s) ==
  /\ phase[s] = "new" /\ LockFree
  /\ phase' = [phase EXCEPT ![s] = "locked"] /\ work' = [work EXCEPT ![s] = db]
  /\ UNCHANGED <<db, docs, ddl, seeded, missed>>

\* Mutant: a newer database is not noticed.
ValidateKnown(applied, expected) ==
  \A v \in DOMAIN applied : v \in DOMAIN expected => applied[v] = expected[v]

\* Every applied migration is known, with the same name and checksum.
Validate(applied, expected) ==
  \A v \in DOMAIN applied : v \in DOMAIN expected /\ applied[v] = expected[v]

Check(s) ==
  /\ phase[s] = "locked"
  /\ phase' = [phase EXCEPT ![s] =
       IF Validate(work[s].history, Build[s]) THEN "applying" ELSE "refused"]
  /\ UNCHANGED <<db, docs, work, ddl, seeded, missed>>

Applied(s) == Len(work[s].history)
Pending(s, n) == phase[s] = "applying" /\ Applied(s) = n - 1 /\ Applied(s) < Len(Build[s])
Recorded(s, n) == Append(work[s].history, Build[s][n])

\* Changing the triggers of the documents table waits for its writers and keeps
\* them out until the transaction ends.
Exclusive(s) == ddl \subseteq {s} /\ ddl' = {s}

\* Migration 1: the tables, the upgrade of unscoped ones, document capture.
CreateSchema(s) ==
  /\ Pending(s, 1) /\ Exclusive(s)
  /\ work' = [work EXCEPT ![s].history = Recorded(s, 1), ![s].trigger = Trigger(1)]
  /\ UNCHANGED <<db, docs, phase, seeded, missed>>

\* Migration 2, up to its first change of a trigger: documents are copied into
\* the new mirror.  Writers are not kept out yet.
CopyDocuments(s) ==
  /\ Pending(s, 2)
  /\ work' = [work EXCEPT ![s].mirror = docs.version]
  /\ phase' = [phase EXCEPT ![s] = "copied"] /\ missed' = 0
  /\ UNCHANGED <<db, docs, ddl, seeded>>

\* The rest of migration 2: generic capture replaces document capture.
GenericCapture(s) ==
  /\ phase[s] = "copied" /\ Exclusive(s)
  /\ work' = [work EXCEPT ![s].history = Recorded(s, 2), ![s].trigger = Trigger(2)]
  /\ phase' = [phase EXCEPT ![s] = "applying"]
  /\ UNCHANGED <<db, docs, seeded, missed>>

\* Migration 3: the documents are registered again, with the statement lock.
OrderedCapture(s) ==
  /\ Pending(s, 3) /\ Exclusive(s)
  /\ work' = [work EXCEPT ![s].history = Recorded(s, 3), ![s].trigger = Trigger(3)]
  /\ UNCHANGED <<db, docs, phase, seeded, missed>>

\* Mutant: the connection goes back to the pool in its transaction.
UnlockLater(s) == ddl

Unlock(s) == ddl \ {s}

\* Mutant: the transaction writes back the mirror it read.
CommitCopy(s) ==
  /\ phase[s] = "applying" /\ Applied(s) >= Len(Build[s])
  /\ db' = work[s]
  /\ phase' = [phase EXCEPT ![s] = "migrated"] /\ ddl' = Unlock(s)
  /\ UNCHANGED <<docs, work, seeded, missed>>

\* What the transaction wrote becomes visible.  Writers may have captured in the
\* mirror meanwhile, where the transaction did not touch it.
Commit(s) ==
  /\ phase[s] = "applying" /\ Applied(s) >= Len(Build[s])
  /\ db' = [work[s] EXCEPT !.mirror = IF HasMirror(Len(db.history)) THEN db.mirror ELSE @]
  /\ phase' = [phase EXCEPT ![s] = "migrated"] /\ ddl' = Unlock(s)
  /\ UNCHANGED <<docs, work, seeded, missed>>

\* Mutant: the history is written outside the transaction.
FailPartly(s) ==
  /\ phase[s] \in InTransaction \cup {"migrated", "ensured"}
  /\ phase' = [phase EXCEPT ![s] = "failed"] /\ ddl' = Unlock(s)
  /\ db' = [db EXCEPT !.history = work[s].history]
  /\ UNCHANGED <<docs, work, seeded, missed>>

\* An error or a crash: PostgreSQL rolls the whole transaction back.
Fail(s) ==
  /\ phase[s] \in InTransaction \cup {"migrated", "ensured"}
  /\ phase' = [phase EXCEPT ![s] = "failed"] /\ ddl' = Unlock(s)
  /\ UNCHANGED <<db, docs, work, seeded, missed>>

\* The process is started again.
Restart(s) ==
  /\ phase[s] = "failed" /\ phase' = [phase EXCEPT ![s] = "new"]
  /\ UNCHANGED <<db, docs, work, ddl, seeded, missed>>
-----------------------------------------------------------------------------
(* init() *)

\* The tables of the reference application, under a lock of their own, in one
\* transaction that finds them or makes them.
EnsureApp(s) ==
  /\ phase[s] = "migrated"
  /\ phase' = [phase EXCEPT ![s] = "ensured"]
  /\ UNCHANGED <<db, docs, work, ddl, seeded, missed>>

\* Mutant: ON CONFLICT DO UPDATE.
SeedOver(s) ==
  /\ phase[s] = "ensured" /\ seeded' = "seed"
  /\ phase' = [phase EXCEPT ![s] = "serving"]
  /\ UNCHANGED <<db, docs, work, ddl, missed>>

\* Seed documents are inserted where they are missing; then the server listens.
Seed(s) ==
  /\ phase[s] = "ensured" /\ seeded' = IF seeded = "absent" THEN "seed" ELSE seeded
  /\ phase' = [phase EXCEPT ![s] = "serving"]
  /\ UNCHANGED <<db, docs, work, ddl, missed>>
-----------------------------------------------------------------------------
(* Replicas that serve, of this build or an earlier one *)

\* A document is written; the trigger in place captures it, at the revision it
\* counts in the mirror or, without one, at the document's version.
Write ==
  /\ Len(db.history) >= 1 /\ ddl = {} /\ docs.version < MaxWrites
  /\ docs' = [version |-> docs.version + 1,
              change |-> IF HasMirror(Len(db.history)) THEN db.mirror + 1 ELSE docs.version + 1]
  /\ db' = [db EXCEPT !.mirror = IF HasMirror(Len(db.history)) THEN @ + 1 ELSE @]
  /\ missed' = IF HasMirror(Len(db.history)) THEN missed ELSE missed + 1
  /\ UNCHANGED <<phase, work, ddl, seeded>>

EditSeed ==
  /\ seeded = "seed" /\ seeded' = "edited"
  /\ \E s \in Starter : phase[s] = "serving"
  /\ UNCHANGED <<db, docs, phase, work, ddl, missed>>

Migrate(s) ==
  \/ Begin(s) \/ Check(s) \/ CreateSchema(s) \/ CopyDocuments(s) \/ GenericCapture(s)
  \/ OrderedCapture(s) \/ Commit(s) \/ EnsureApp(s) \/ Seed(s)

Next == (\E s \in Starter : Migrate(s) \/ Fail(s) \/ Restart(s)) \/ Write \/ EditSeed

Spec == Init /\ [][Next]_vars
-----------------------------------------------------------------------------
\* Values are of their kind, and the documents are locked only by one
\* transaction that has not ended.
MigrationsTypeOK ==
  /\ db.trigger \in {"none", "document", "generic", "registered"} /\ db.mirror \in Nat
  /\ phase \in [Starter -> InTransaction \cup {"new", "refused", "failed", "migrated", "ensured", "serving"}]
  /\ ddl \subseteq {s \in Starter : phase[s] \in InTransaction} /\ Cardinality(ddl) <= 1
  /\ seeded \in {"absent", "seed", "edited"} /\ missed \in Nat

\* The history says what the schema is, however often the migrations were broken
\* off ("all pending migrations and their history rows commit in one
\* transaction", docs/MIGRATIONS_AND_RECOVERY.md).
HistoryIsTheSchema == db.trigger = Trigger(Len(db.history))

\* The mirror lacks of a document exactly the writes that came between its copy
\* and the lock of the migration that committed, whichever attempts were broken
\* off before; and the last change in the feed has the revision of the mirror,
\* unless it is one of those.
MirrorMatchesDocs ==
  HasMirror(Len(db.history)) =>
    db.mirror + missed = docs.version /\ docs.change \in {db.mirror, docs.version}

\* The schema, its history and the mirror agree, but for what the copy missed.
MigrationsInv == MigrationsTypeOK /\ HistoryIsTheSchema /\ MirrorMatchesDocs

\* Whichever builds start in whichever order: applied migrations are never
\* applied again, edited or taken back; a build gets past the migrations only on
\* the schema it was built for; a start does not put back the seed over an edit.
SchemaOnlyMovesForward ==
  [][/\ db'.history = db.history \/ SubSeq(db'.history, 1, Len(db.history)) = db.history
     /\ \A s \in Starter : phase[s] # "migrated" /\ phase'[s] = "migrated" => db'.history = Build[s]
     /\ seeded = "edited" => seeded' = "edited"]_vars
=============================================================================
