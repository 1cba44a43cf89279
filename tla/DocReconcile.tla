----------------------------- MODULE DocReconcile -----------------------------
(***************************************************************************)
(* The document endpoints of the node server                               *)
(* (servers/node/src/index.ts): merge under compare-and-swap with bounded  *)
(* retries, replace, soft delete, batches in one transaction with row      *)
(* locks, profiles keyed by a unique e-mail, and the test-mode reset.      *)
(* Every statement is one step: between two statements of a call the       *)
(* others run.                                                             *)
(***************************************************************************)
EXTENDS Documents

CONSTANTS
  MaxAttempts,  \* MAX_CAS_ATTEMPTS
  MaxLost,      \* bound: answers of the database that are lost
  MaxResets     \* bound: POST /reset, answered in test mode only

NoCall == "none"

ASSUME CallAssumption == NoCall \notin Call

ASSUME LimitsAssumption ==
  MaxAttempts \in Nat \ {0} /\ {MaxLost, MaxResets} \subseteq Nat

VARIABLES
  rows,     \* committed rows
  now,      \* the database's clock
  lock,     \* the batch that holds a row, or NoCall
  call,     \* the handlers
  reset,    \* "idle", or what POST /reset does next
  erased,   \* auxiliary: tokens a replacement or a reset took away
  lost,     \* auxiliary: lost answers so far
  resets    \* auxiliary: resets so far

vars == <<rows, now, lock, call, reset, erased, lost, resets>>
background == <<now, reset, resets>>
quiet == <<rows, now, lock, reset, erased, lost, resets>>

New == [phase |-> "new", request |-> <<>>, attempt |-> 1, seen |-> NoRow, first |-> 0,
        at |-> 1, pending |-> <<>>, found |-> {}, answer |-> "none"]

Req(q)   == call[q].request[1]
Item1(q) == Req(q).items[1]
K(q)     == Item1(q).key
Attempts(q) == IF Req(q).noRetry THEN 1 ELSE MaxAttempts

Goes(q, c) == call' = [call EXCEPT ![q] = c]
Answered(q, a) == [call[q] EXCEPT !.phase = "done", !.answer = a]

Init ==
  /\ rows = [k \in Key |-> IF k \in Seed THEN Seeded ELSE NoRow]
  /\ now = 1
  /\ lock = [k \in Key |-> NoCall]
  /\ call = [q \in Call |-> New]
  /\ reset = "idle" /\ lost = 0 /\ resets = 0
  /\ erased = [k \in Key |-> {}]

Arrive(q) ==
  /\ call[q].phase = "new"
  /\ \E r \in Request :
       Goes(q, [New EXCEPT !.request = <<r>>,
                           !.phase = IF r.op = "batch" THEN "lock"
                                     ELSE IF r.op \in {"sync", "profile"} THEN "read" ELSE r.op])
  /\ UNCHANGED quiet

\* A single statement waits for the row lock of a batch.
Free(k, q) == lock[k] \in {NoCall, q}

\* The statement is executed and its call answered; when the database's answer
\* is lost, the client is told that the call failed.
Store(q, row, c, a) ==
  /\ rows' = [rows EXCEPT ![K(q)] = row]
  /\ \/ Goes(q, [c EXCEPT !.phase = "done", !.answer = a]) /\ UNCHANGED lost
     \/ /\ lost < MaxLost /\ lost' = lost + 1
        /\ Goes(q, [c EXCEPT !.phase = "done", !.answer = "error"])
  /\ UNCHANGED lock
-----------------------------------------------------------------------------
(* POST /doc/:id/sync and POST /profile/sync *)

\* A tombstone yields only to an update stamped after it.
Expired(row, stamp) == row.deleted > 0 /\ (stamp = NoStamp \/ stamp <= row.deleted)

Read(q) ==
  LET row == rows[K(q)]
      seen == [call[q] EXCEPT !.seen = row,
                              !.first = IF call[q].attempt = 1 THEN row.version ELSE @]
  IN
  /\ call[q].phase = "read"
  /\ \/ /\ row.version = 0 /\ Req(q).op = "sync"
        /\ Goes(q, Answered(q, "missing"))
     \/ /\ row.version = 0 /\ Req(q).op = "profile"
        /\ Goes(q, [seen EXCEPT !.phase = "insert"])
     \/ /\ row.version > 0 /\ Req(q).op = "sync" /\ Expired(row, Item1(q).stamp)
        /\ Goes(q, Answered(q, "gone"))
     \/ /\ row.version > 0 /\ ~ (Req(q).op = "sync" /\ Expired(row, Item1(q).stamp))
        /\ Goes(q, [seen EXCEPT !.phase = "write"])
  /\ UNCHANGED quiet

\* Mutant: UPDATE ... WHERE id = $3 alone.
CurrentOrNot(q) == rows[K(q)].version > 0

\* UPDATE ... WHERE version = $2: the merge computed from the row that was read.
Current(q) == rows[K(q)].version = call[q].seen.version

Swap(q) ==
  /\ call[q].phase = "write" /\ Free(K(q), q) /\ Current(q)
  /\ Store(q, Merged(call[q].seen, <<q, 1>>, Item1(q).stamp, TRUE), call[q], "merged")
  /\ UNCHANGED <<background, erased>>

LoseRace(q) ==
  /\ call[q].phase = "write" /\ Free(K(q), q) /\ ~ Current(q)
  /\ Goes(q, [call[q] EXCEPT !.phase = "backoff"])
  /\ UNCHANGED quiet

\* Mutant: the loop retries the UPDATE without reading again.
NextUpdate(q) ==
  IF call[q].attempt < Attempts(q)
  THEN [call[q] EXCEPT !.phase = "write", !.attempt = @ + 1]
  ELSE Answered(q, "conflict")

\* The next attempt reads and merges again; the last one answers 409.
NextAttempt(q) ==
  IF call[q].attempt < Attempts(q)
  THEN [call[q] EXCEPT !.phase = "read", !.attempt = @ + 1]
  ELSE Answered(q, "conflict")

Backoff(q) ==
  /\ call[q].phase = "backoff"
  /\ Goes(q, NextAttempt(q))
  /\ UNCHANGED quiet

\* Mutant: the column has no unique index.
EmailUnchecked(q) == TRUE

\* UNIQUE (email).
EmailFree(q) == rows[K(q)].version = 0

Insert(q) ==
  /\ call[q].phase = "insert" /\ EmailFree(q)
  /\ Store(q, Merged(NoRow, <<q, 1>>, Item1(q).stamp, TRUE), call[q], "created")
  /\ UNCHANGED <<background, erased>>

\* 23505: another client won; the attempt is spent without a pause.
InsertRefused(q) ==
  /\ call[q].phase = "insert" /\ ~ EmailFree(q)
  /\ Goes(q, NextAttempt(q))
  /\ UNCHANGED quiet
-----------------------------------------------------------------------------
(* PUT and DELETE /doc/:id *)

Put(q) ==
  /\ call[q].phase = "put" /\ Free(K(q), q)
  /\ Store(q, Replaced(rows[K(q)], <<q, 1>>, Item1(q).stamp), call[q], "replaced")
  /\ erased' = [erased EXCEPT ![K(q)] = @ \cup rows[K(q)].data]
  /\ UNCHANGED background

Delete(q) ==
  /\ call[q].phase = "delete" /\ Free(K(q), q) /\ rows[K(q)].version > 0
  /\ now' \in now..MaxTime
  /\ Store(q, Tombstone(rows[K(q)], now'), call[q], "deleted")
  /\ UNCHANGED <<reset, resets, erased>>

DeleteNothing(q) ==
  /\ call[q].phase = "delete" /\ rows[K(q)].version = 0
  /\ Goes(q, Answered(q, "missing"))
  /\ UNCHANGED quiet
-----------------------------------------------------------------------------
(* POST /sync/batch *)

At(q) == Req(q).items[call[q].at]
Left(q) == call[q].at <= Len(Req(q).items)

\* A row as the batch's transaction sees it: its own writes first.
Seen(q, k) == IF k \in DOMAIN call[q].pending THEN call[q].pending[k] ELSE rows[k]

Locking(q) == call[q].phase = "lock" /\ Left(q) /\ At(q).sound

\* Mutant: a plain SELECT.
NoLock(q) == lock

ForUpdate(q) == [lock EXCEPT ![At(q).key] = q]

\* SELECT ... FOR UPDATE, in the order of the request.
BatchLock(q) ==
  /\ Locking(q) /\ rows[At(q).key].version > 0 /\ Free(At(q).key, q)
  /\ lock' = ForUpdate(q)
  /\ Goes(q, [call[q] EXCEPT !.phase = "merge", !.seen = Seen(q, At(q).key)])
  /\ UNCHANGED <<rows, background, erased, lost>>

BatchMissing(q) ==
  /\ Locking(q) /\ rows[At(q).key].version = 0
  /\ Goes(q, [call[q] EXCEPT !.at = @ + 1])
  /\ UNCHANGED quiet

\* Mutant: there is no BEGIN.
BatchMergeCommits(q) ==
  /\ call[q].phase = "merge" /\ Free(At(q).key, q)
  /\ rows' = [rows EXCEPT ![At(q).key] =
               Merged(call[q].seen, <<q, call[q].at>>, At(q).stamp, FALSE)]
  /\ Goes(q, [call[q] EXCEPT !.phase = "lock", !.at = @ + 1, !.found = @ \cup {call[q].at}])
  /\ UNCHANGED <<lock, background, erased, lost>>

\* UPDATE by id alone: it keeps deleted_at, and waits only if the row is not
\* already locked.
BatchMerge(q) ==
  /\ call[q].phase = "merge" /\ Free(At(q).key, q)
  /\ lock' = [lock EXCEPT ![At(q).key] = q]
  /\ LET row == Merged(call[q].seen, <<q, call[q].at>>, At(q).stamp, FALSE)
     IN Goes(q, [call[q] EXCEPT !.phase = "lock", !.at = @ + 1, !.found = @ \cup {call[q].at},
                   !.pending = [k \in DOMAIN @ \cup {At(q).key} |->
                                  IF k = At(q).key THEN row ELSE @[k]]])
  /\ UNCHANGED <<rows, background, erased, lost>>

\* An item that is not an object makes the handler throw.
BatchThrow(q) ==
  /\ call[q].phase = "lock" /\ Left(q) /\ ~ At(q).sound
  /\ Goes(q, [call[q] EXCEPT !.phase = "rollback"])
  /\ UNCHANGED quiet

\* Mutant: the connection goes back to the pool with its transaction open.
StillLocked(q) == lock

Unlocked(q) == [k \in Key |-> IF lock[k] = q THEN NoCall ELSE lock[k]]

\* The answer to COMMIT may be lost after it took effect: the handler then
\* sends a ROLLBACK that has nothing to undo and answers 500.
BatchCommit(q) ==
  /\ call[q].phase = "lock" /\ ~ Left(q)
  /\ rows' = [k \in Key |-> Seen(q, k)]
  /\ lock' = Unlocked(q)
  /\ \/ Goes(q, Answered(q, "flushed")) /\ UNCHANGED lost
     \/ lost < MaxLost /\ lost' = lost + 1 /\ Goes(q, Answered(q, "error"))
  /\ UNCHANGED <<background, erased>>

BatchRollback(q) ==
  /\ call[q].phase = "rollback"
  /\ lock' = Unlocked(q)
  /\ Goes(q, Answered(q, "error"))
  /\ UNCHANGED <<rows, background, erased, lost>>

\* PostgreSQL aborts a transaction that waits for itself.
Waiting(q) == Locking(q) /\ ~ Free(At(q).key, q)

Deadlocked(q) ==
  \E S \in SUBSET Call : q \in S /\ \A c \in S : Waiting(c) /\ lock[At(c).key] \in S

BatchVictim(q) ==
  /\ Deadlocked(q)
  /\ Goes(q, [call[q] EXCEPT !.phase = "rollback"])
  /\ UNCHANGED quiet
-----------------------------------------------------------------------------
(* POST /reset: TRUNCATE waits for the batches, then the seeds are inserted. *)

Erase(K0) ==
  /\ \A k \in K0 : lock[k] = NoCall
  /\ rows' = [k \in Key |-> IF k \in K0 THEN NoRow ELSE rows[k]]
  /\ erased' = [k \in Key |-> IF k \in K0 THEN erased[k] \cup rows[k].data ELSE erased[k]]
  /\ UNCHANGED <<now, lock, call, lost>>

ResetDocs ==
  /\ reset = "idle" /\ resets < MaxResets
  /\ reset' = "profiles" /\ resets' = resets + 1
  /\ Erase(Doc)

ResetProfiles ==
  /\ reset = "profiles" /\ reset' = "seed"
  /\ Erase(Email)
  /\ UNCHANGED resets

\* ON CONFLICT (id) DO NOTHING.
ResetSeed ==
  /\ reset = "seed" /\ reset' = "idle"
  /\ rows' = [k \in Key |-> IF k \in Seed /\ rows[k].version = 0 THEN Seeded ELSE rows[k]]
  /\ UNCHANGED <<now, lock, call, erased, lost, resets>>

Sync(q) == Read(q) \/ Swap(q) \/ LoseRace(q) \/ Backoff(q) \/ Insert(q) \/ InsertRefused(q)
Batch(q) == BatchLock(q) \/ BatchMissing(q) \/ BatchMerge(q) \/ BatchThrow(q)
              \/ BatchCommit(q) \/ BatchRollback(q) \/ BatchVictim(q)
Handle(q) == Sync(q) \/ Put(q) \/ Delete(q) \/ DeleteNothing(q) \/ Batch(q)

Next ==
  \/ \E q \in Call : Arrive(q) \/ Handle(q)
  \/ ResetDocs \/ ResetProfiles \/ ResetSeed

Spec == Init /\ [][Next]_vars

\* The event loop and the database run every handler on.
FairSpec == Spec /\ \A q \in Call : WF_vars(Handle(q))
-----------------------------------------------------------------------------
(* What is checked. *)

Phases == {"new", "read", "write", "insert", "backoff", "put", "delete", "lock", "merge",
           "rollback", "done"}
Answers == {"none", "merged", "created", "replaced", "deleted", "flushed", "missing", "gone",
            "conflict", "error"}

\* Type invariant; a row is locked only by a batch that is still open.
DocsTypeOK ==
  /\ rows \in [Key -> Row] /\ now \in Stamp /\ lost \in 0..MaxLost /\ resets \in 0..MaxResets
  /\ erased \in [Key -> SUBSET Token] /\ reset \in {"idle", "profiles", "seed"}
  /\ \A k \in Key : lock[k] # NoCall => call[lock[k]].phase \in {"lock", "merge", "rollback"}
  /\ \A q \in Call :
       /\ call[q].phase \in Phases /\ call[q].answer \in Answers
       /\ call[q].seen \in Row /\ call[q].attempt \in 1..MaxAttempts
       /\ \A k \in DOMAIN call[q].pending : lock[k] = q \/ call[q].phase = "done"

Accepted == {"merged", "created", "replaced", "deleted", "flushed"}
Arrived(q) == call[q].phase # "new"
Tokens(q) == {<<q, i>> : i \in DOMAIN Req(q).items}
Ever(k) == rows[k].data \cup erased[k]

\* Items a call was told were merged or stored.
Taken(q) == IF call[q].answer = "flushed" THEN call[q].found
            ELSE IF call[q].answer \in Accepted \ {"deleted"} THEN {1} ELSE {}

\* Every payload answered 200 is in its document, unless it was older than the
\* document it met or was taken away by a later replacement
\* (docs/SERVER_GUIDE.md section 3: the durable mutations are exactly the
\* acknowledged mutations).
AcknowledgedIsDurable ==
  \A q \in {c \in Call : Arrived(c)} : \A i \in Taken(q) :
    LET it == Req(q).items[i] IN it.stamp = NoStamp => <<q, i>> \in Ever(it.key)

\* No payload answered 404, 409 or 410 is or was in any document.
RefusedIsNotStored ==
  \A q \in {c \in Call : Arrived(c)} :
    call[q].answer \in {"missing", "gone", "conflict"} =>
      \A k \in Key : Ever(k) \cap Tokens(q) = {}

\* A batch answered 500 left nothing behind (section 7: "the flush failed"
\* means "nothing was applied", so that retrying it whole is safe), if only the
\* answer to its COMMIT was not lost.
FailedFlushAppliesNothing ==
  lost = 0 => \A q \in Call :
    call[q].answer = "error" /\ Req(q).op = "batch" =>
      \A k \in Key : Ever(k) \cap Tokens(q) = {}

\* The items answered as stored in row k.
AnswersOn(k) ==
  {t \in UNION {Tokens(q) : q \in {c \in Call : Arrived(c)}} :
    /\ Req(t[1]).items[t[2]].key = k
    /\ call[t[1]].answer \in Accepted
    /\ call[t[1]].answer = "flushed" => t[2] \in call[t[1]].found}

\* The version of a row counts the answers that changed it, one by one: no
\* write is applied twice, none slips in unanswered (section 3, invariant 3).
VersionCountsAnswers ==
  lost = 0 => \A k \in Key :
    rows[k].version = (IF k \in Seed THEN 1 ELSE 0) + Cardinality(AnswersOn(k))

\* A handler that read a document before it was replaced never writes the old
\* contents back.
NothingErasedReturns == \A k \in Key : rows[k].data \cap erased[k] = {}

\* Compare-and-swap never fails without progress: a call on its n-th retry has
\* seen at least n - 1 writes of others, so 409 means real contention.
EveryLostRaceHasAWinner ==
  \A q \in Call :
    LET n == call[q].first + call[q].attempt
    IN /\ call[q].phase = "read" => rows[K(q)].version >= n - 1
       /\ call[q].phase = "backoff" => rows[K(q)].version >= n

\* Of the clients that race to create an e-mail, one is told it created it.
OneCreator ==
  \A q, c \in Call :
    call[q].answer = "created" /\ call[c].answer = "created" /\ K(q) = K(c) => q = c

\* What is stored is what was answered, and versions tell who won.  The reset of
\* the test mode starts the versions again, so that a call that read a row before
\* it may take another row of the same version for it: that ends the second part.
DocsInv ==
  /\ DocsTypeOK /\ RefusedIsNotStored /\ FailedFlushAppliesNothing
  /\ resets = 0 =>
       /\ AcknowledgedIsDurable /\ VersionCountsAnswers /\ NothingErasedReturns
       /\ EveryLostRaceHasAWinner /\ OneCreator

\* Every call that arrives is answered: batches that lock documents in opposite
\* orders do not wait forever, and no lock outlives its batch.
EveryCallAnswered == []<>(\A q \in Call : call[q].phase \in {"new", "done"})

\* The handlers implement AtomicDocs: merges computed outside the database, and
\* batches that write one document at a time, take effect at one instant.
Abstract == INSTANCE AtomicDocs WITH
  asked   <- [q \in Call |-> call[q].request],
  outcome <- [q \in Call |-> IF call[q].phase # "done" THEN "open"
                             ELSE IF call[q].answer \in Accepted THEN "applied" ELSE "refused"]

\* Up to the first lost answer, which refuses what is stored, and the first
\* reset, after which a merge of what was read before it may be stored.
EachCallIsAtomic ==
  Abstract!AtomicInit /\ [][lost' = 0 /\ resets' = 0 => Abstract!AtomicNext]_(Abstract!vars)
=============================================================================
