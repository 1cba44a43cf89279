-------------------------------- MODULE MCDocs --------------------------------
(***************************************************************************)
(* Small instances of DocServers.  The initial state chooses what a        *)
(* behaviour is about: calls on documents, batches, clients that race to   *)
(* create an e-mail, lost answers and resets, or the Rust server.          *)
(***************************************************************************)
EXTENDS DocServers

CONSTANTS a, b, c, mail, q1, q2, q3

MCCall == {q1, q2, q3}
MCDoc == {a, b, c}
MCSeed == {a, b}
MCEmail == {mail}

It(k, stamp) == [key |-> k, stamp |-> stamp, sound |-> TRUE]
Bad(k) == [key |-> k, stamp |-> NoStamp, sound |-> FALSE]
Ask(op, items) == [op |-> op, items |-> items, noRetry |-> FALSE]
Once(r) == [r EXCEPT !.noRetry = TRUE]

\* Updates without a stamp, at the tombstone's and after it; replace; delete;
\* documents that are not there.
SyncA == Ask("sync", <<It(a, NoStamp)>>)
OnDocs ==
  {SyncA, Once(SyncA), Ask("sync", <<It(a, 2)>>), Ask("sync", <<It(a, 3)>>),
   Ask("put", <<It(a, NoStamp)>>), Ask("delete", <<It(a, NoStamp)>>),
   Ask("sync", <<It(c, NoStamp)>>), Ask("put", <<It(c, NoStamp)>>), Ask("delete", <<It(c, NoStamp)>>),
   Ask("batch", <<It(c, 3), It(a, NoStamp)>>)}
\* Batches in both lock orders, one that names a document twice and one that
\* throws after its first write, among single writers.
OnBatches ==
  {Ask("batch", <<It(a, NoStamp), It(b, NoStamp)>>),
   Ask("batch", <<It(b, NoStamp), It(a, 3), It(a, NoStamp)>>),
   Ask("batch", <<It(a, NoStamp), Bad(b)>>),
   SyncA, Ask("put", <<It(b, NoStamp)>>), Ask("delete", <<It(a, NoStamp)>>)}
OnMail == {Ask("profile", <<It(mail, NoStamp)>>), Ask("profile", <<It(mail, 2)>>)}
OnFaults == {SyncA, Ask("delete", <<It(a, NoStamp)>>), Ask("batch", <<It(a, NoStamp)>>),
             Ask("profile", <<It(mail, NoStamp)>>)}
OnRust == {Ask(op, <<It(k, NoStamp)>>) : op \in {"sync", "put"}, k \in {a, c}}
MCRequest == OnDocs \cup OnBatches \cup OnMail \cup OnFaults \cup OnRust

VARIABLE part

\* Answers are lost and resets run in the last part only.
Asked == {Req(q) : q \in {q \in Call : Arrived(q)}}
InPart ==
  CASE part = "docs"    -> Asked \subseteq OnDocs /\ lost + resets = 0
    [] part = "batches" -> Asked \subseteq OnBatches /\ lost + resets = 0
    [] part = "mail"    -> Asked \subseteq OnMail /\ lost + resets = 0
    [] part = "faults"  -> Asked \subseteq OnFaults

MCInit == Init /\ Rust!Init /\ part \in {"docs", "batches", "mail", "faults", "rust"}

MCNext ==
  \/ part # "rust" /\ Next /\ UNCHANGED <<part, rustVars>> /\ InPart'
  \/ part = "rust" /\ Rust!Next /\ UNCHANGED <<part, vars>>

MCSpec == MCInit /\ [][MCNext]_<<vars, part, rustVars>>
MCFairSpec == MCSpec /\ \A q \in Call : WF_vars(Handle(q))
=============================================================================
