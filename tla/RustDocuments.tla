---------------------------- MODULE RustDocuments ----------------------------
(***************************************************************************)
(* The document endpoints of the Rust MASH server (servers/rust), which    *)
(* keeps its rows behind a REST layer: read, merge and upsert are separate *)
(* requests, and the upsert does not ask for a version.  Any request to    *)
(* the REST layer may fail, before or after it took effect.                *)
(***************************************************************************)
EXTENDS Documents

CONSTANT MaxFailures   \* bound: requests to the REST layer that fail

VARIABLES
  rows,      \* the table behind the REST layer
  call,      \* the handlers
  failures

vars == <<rows, call, failures>>

New == [phase |-> "new", request |-> <<>>, seen |-> NoRow, shown |-> {}, answer |-> "none"]

Req(q) == call[q].request[1]
It(q)  == Req(q).items[1]
Goes(q, c) == call' = [call EXCEPT ![q] = c]
Answered(q, a) == [call[q] EXCEPT !.phase = "done", !.answer = a]
Fails == failures < MaxFailures /\ failures' = failures + 1

Init ==
  /\ rows = [k \in Key |-> IF k \in Seed THEN Seeded ELSE NoRow]
  /\ call = [q \in Call |-> New] /\ failures = 0

Arrive(q) ==
  /\ call[q].phase = "new"
  /\ \E r \in {x \in Request : x.op \in {"sync", "put"}} :
       Goes(q, [New EXCEPT !.request = <<r>>, !.phase = IF r.op = "sync" THEN "read" ELSE "upsert"])
  /\ UNCHANGED <<rows, failures>>

GetDoc(q) ==
  /\ call[q].phase = "read"
  /\ Goes(q, IF rows[It(q).key].version = 0 THEN Answered(q, "missing")
             ELSE [call[q] EXCEPT !.phase = "upsert", !.seen = rows[It(q).key]])
  /\ UNCHANGED <<rows, failures>>

\* Mutant: a failed request looks like an empty result.
GetDocEmpty(q) ==
  /\ call[q].phase = "read" /\ Fails
  /\ Goes(q, Answered(q, "missing"))
  /\ UNCHANGED rows

GetDocFails(q) ==
  /\ call[q].phase = "read" /\ Fails
  /\ Goes(q, Answered(q, "error"))
  /\ UNCHANGED rows

\* What the handler sends: a document whole, whatever is stored by now.
Sent(q) ==
  IF Req(q).op = "put" THEN [Seeded EXCEPT !.data = {<<q, 1>>}, !.stamp = It(q).stamp]
  ELSE Merged(call[q].seen, <<q, 1>>, It(q).stamp, FALSE)

\* resolution=merge-duplicates: the row replaces the stored one; the answer
\* shows the stored row.
UpsertDoc(q) ==
  /\ call[q].phase = "upsert"
  /\ rows' = [rows EXCEPT ![It(q).key] = Sent(q)]
  /\ \/ /\ Goes(q, [Answered(q, "stored") EXCEPT !.shown = Sent(q).data])
        /\ UNCHANGED failures
     \/ Fails /\ Goes(q, Answered(q, "error"))

UpsertFails(q) ==
  /\ call[q].phase = "upsert" /\ Fails
  /\ Goes(q, Answered(q, "error"))
  /\ UNCHANGED rows

Next == \E q \in Call :
  Arrive(q) \/ GetDoc(q) \/ GetDocFails(q) \/ UpsertDoc(q) \/ UpsertFails(q)

Spec == Init /\ [][Next]_vars
-----------------------------------------------------------------------------
\* 404 is answered only for a document that is not there, and that nobody was
\* ever told is stored: a failing REST layer must not look like "document not
\* found" (main.rs, get_doc), nor a write that failed like success (upsert_doc).
NotFoundIsTrue ==
  [][\A q \in Call : call[q].answer = "none" /\ call'[q].answer = "missing" =>
       /\ rows[It(q).key].version = 0
       /\ \A p \in Call : call[p].answer = "stored" => It(p).key # It(q).key]_vars
=============================================================================
