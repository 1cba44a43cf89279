------------------------------ MODULE AtomicDocs ------------------------------
(***************************************************************************)
(* What document reconciliation promises (docs/SERVER_GUIDE.md sections 3  *)
(* and 7): a call takes effect at one instant, whole, on the documents as  *)
(* they are at that instant, or it has no effect.                          *)
(***************************************************************************)
EXTENDS Documents

VARIABLES
  rows,       \* the stored documents
  asked,      \* requests of the calls that have arrived
  outcome     \* "open", "applied" or "refused"

vars == <<rows, asked, outcome>>

\* Effect of call q asking r on the rows db.  found: the items of a batch whose
\* document existed when the batch reached it; time: NOW().
Effect(db, q, r, found, time) ==
  LET k == r.items[1].key
      stamp == r.items[1].stamp
      To(row) == [db EXCEPT ![k] = row]
  IN CASE r.op = "put" -> To(Replaced(db[k], <<q, 1>>, stamp))
       [] r.op = "delete" -> To(Tombstone(db[k], time))
       [] r.op \in {"sync", "profile"} -> To(Merged(db[k], <<q, 1>>, stamp, TRUE))
       [] r.op = "batch" -> Flushed(db, q, r.items, found)

AtomicInit ==
  /\ rows \in [Key -> {NoRow, Seeded}]
  /\ asked = [q \in Call |-> <<>>]
  /\ outcome = [q \in Call |-> "open"]

Ask(q) ==
  /\ asked[q] = <<>>
  /\ \E r \in Request : asked' = [asked EXCEPT ![q] = <<r>>]
  /\ UNCHANGED <<rows, outcome>>

\* A deleted document takes a synchronisation only with a newer stamp.
Apply(q) ==
  /\ asked[q] # <<>> /\ outcome[q] = "open"
  /\ asked[q][1].op = "sync" =>
       LET i == asked[q][1].items[1]
       IN rows[i.key].version > 0 /\ (rows[i.key].deleted > 0 => i.stamp > rows[i.key].deleted)
  /\ \E found \in SUBSET DOMAIN asked[q][1].items, time \in Stamp :
       rows' = Effect(rows, q, asked[q][1], found, time)
  /\ outcome' = [outcome EXCEPT ![q] = "applied"]
  /\ UNCHANGED asked

Refuse(q) ==
  /\ asked[q] # <<>> /\ outcome[q] = "open"
  /\ outcome' = [outcome EXCEPT ![q] = "refused"]
  /\ UNCHANGED <<rows, asked>>

AtomicNext == \E q \in Call : Ask(q) \/ Apply(q) \/ Refuse(q)

AtomicSpec == AtomicInit /\ [][AtomicNext]_vars
=============================================================================
