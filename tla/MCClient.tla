------------------------------ MODULE MCClient ------------------------------
(***************************************************************************)
(* Small instance of SyncClient: two clients of two principals contend for *)
(* one record over an unreliable network.                                  *)
(***************************************************************************)
EXTENDS SyncClient

CONSTANTS t1, s1, s2, c1, c2, r1, p

MCTenant == {t1}
MCSubject == {s1, s2}
MCClientId == {c1, c2}
MCRecordId == {r1}
MCData == {p}
MCMerge(a, b) == b

MCIdentity ==
  {[tenant |-> t1, subject |-> IF c = c1 THEN s1 ELSE s2, clientIds |-> {c}] :
     c \in ClientId}

MCPrincipal ==
  [c \in ClientId |-> CHOOSE id \in MCIdentity : c \in id.clientIds]

Intended(op, base, data) ==
  [id |-> 1, table |-> "docs", record |-> r1, op |-> op, base |-> base,
   data |-> data, resurrect |-> FALSE]

MCMaxQueued == [c \in ClientId |-> IF c = c1 THEN 2 ELSE 1]

MCIntent == {Intended("upsert", NoBase, p), Intended("delete", NoBase, NoData)}

\* Bound: one client writes and deletes, in either order; the other writes, and is
\* rejected after a deletion.
Kinds ==
  /\ Len(issued[c1]) = 2 => issued[c1][1].op # issued[c1][2].op
  /\ \A i \in DOMAIN issued[c2] : issued[c2][i].op = "upsert"

MCSpec == Init /\ ClientInit /\ [][ClientNext /\ Kinds']_clientServerVars /\ RetryFairness
=============================================================================
