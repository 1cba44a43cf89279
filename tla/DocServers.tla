------------------------------ MODULE DocServers ------------------------------
(***************************************************************************)
(* The two servers of the document endpoints beside each other: the node   *)
(* server on its own tables, and the Rust server on rows behind a REST     *)
(* layer.                                                                  *)
(***************************************************************************)
EXTENDS DocReconcile

CONSTANTS
  RustRequest,   \* what the calls of the Rust server ask for
  MaxFailures    \* bound: requests to the REST layer that fail

ASSUME RustAssumption == RustRequest \subseteq Request /\ MaxFailures \in Nat

VARIABLES rustRows, rustCall, rustFailures

rustVars == <<rustRows, rustCall, rustFailures>>

Rust == INSTANCE RustDocuments WITH
  rows <- rustRows, call <- rustCall, failures <- rustFailures, Request <- RustRequest

\* The Rust server answers 404 only for a document that is not there, and that
\* nobody was ever told is stored: a failing REST layer must not look like
\* "document not found" (main.rs, get_doc), nor a write that failed like success
\* (upsert_doc).
NotFoundIsTrue == Rust!NotFoundIsTrue
=============================================================================
