------------------------------ MODULE Documents ------------------------------
(***************************************************************************)
(* Rows of syncer_test_docs and syncer_test_docs_profiles, the calls that  *)
(* write them and what each statement does to a row                        *)
(* (servers/node/src/index.ts).  The payload of a call is a token; a       *)
(* document is the set of tokens merged into it.                           *)
(***************************************************************************)
EXTENDS Integers, Sequences, FiniteSets

CONSTANTS
  Call,       \* HTTP requests
  Doc,        \* ids of syncer_test_docs
  Seed,       \* SEED_DOCS: ids that exist from the start
  Email,      \* unique e-mails of syncer_test_docs_profiles
  Request,    \* what calls ask for
  MaxTime     \* bound: NOW() and the stamps clients send

ASSUME DocumentsAssumption == Doc \cap Email = {} /\ Seed \subseteq Doc /\ MaxTime \in Nat \ {0}

Key == Doc \cup Email

\* updatedAt of a payload, in milliseconds: 0 when absent or unreadable.
NoStamp == 0
Stamp == 0..MaxTime

Token == Call \X (Nat \ {0})

\* version 0: there is no row.  deleted: deleted_at, 0 for NULL.
Row == [version : Nat, data : SUBSET Token, stamp : Stamp, deleted : Stamp]
NoRow == [version |-> 0, data |-> {}, stamp |-> NoStamp, deleted |-> 0]
Seeded == [NoRow EXCEPT !.version = 1]

\* sound: the item is an object, so that reading its fields does not throw.
Item == [key : Key, stamp : Stamp, sound : BOOLEAN]

\* What a call asks for; all but batches have one item.
Asking ==
  [op : {"sync", "profile", "put", "delete", "batch"}, items : Seq(Item), noRetry : BOOLEAN]

ASSUME RequestAssumption ==
  Request \subseteq Asking /\ \A r \in Request : r.op # "batch" => Len(r.items) = 1

\* The merge core drops a payload whose stamp is older than the document's.
Vetoed(row, stamp) == stamp # NoStamp /\ stamp < row.stamp

\* Mutant: the version moves only when the merge changes the document.
MergedIfNewer(row, token, stamp, revive) ==
  IF Vetoed(row, stamp) THEN row
  ELSE [version |-> row.version + 1, data |-> row.data \cup {token},
        stamp |-> IF stamp = NoStamp THEN row.stamp ELSE stamp,
        deleted |-> IF revive THEN 0 ELSE row.deleted]

\* The UPDATE of a merge; revive: it also clears deleted_at.
Merged(row, token, stamp, revive) ==
  [version |-> row.version + 1,
   data    |-> IF Vetoed(row, stamp) THEN row.data ELSE row.data \cup {token},
   stamp   |-> IF stamp = NoStamp \/ Vetoed(row, stamp) THEN row.stamp ELSE stamp,
   deleted |-> IF revive THEN 0 ELSE row.deleted]

Replaced(row, token, stamp) ==
  [version |-> row.version + 1, data |-> {token}, stamp |-> stamp, deleted |-> 0]

Tombstone(row, time) == [row EXCEPT !.version = @ + 1, !.deleted = time]

\* Row k after the items of a batch that name it and found their document, in
\* the order of the request.
Through(row, k, call, items, found) ==
  LET after[i \in 0..Len(items)] ==
        IF i = 0 THEN row
        ELSE IF i \in found /\ items[i].key = k
             THEN Merged(after[i - 1], <<call, i>>, items[i].stamp, FALSE)
             ELSE after[i - 1]
  IN after[Len(items)]

Flushed(rows, call, items, found) ==
  [k \in DOMAIN rows |-> Through(rows[k], k, call, items, found)]
=============================================================================
