----------------------------- MODULE MCReplica -----------------------------
(***************************************************************************)
(* Small instance of SyncReplica: two tenants share the sequence, a page   *)
(* holds one change, a snapshot one record.  The writers are direct SQL on *)
(* any record and one client with an upsert and a delete to push.          *)
(***************************************************************************)
EXTENDS SyncReplica

CONSTANTS t1, t2, s1, c1, r1, r2, n1, d

MCTenant == {t1, t2}
MCSubject == {s1}
MCClientId == {c1}
MCRecordId == {r1, r2}
MCData == {d}
MCMerge(a, b) == b

MCIdentity == {[tenant |-> t1, subject |-> s1, clientIds |-> {c1}]}

Upsert(n, r) ==
  [id |-> n, table |-> "docs", record |-> r, op |-> "upsert", base |-> NoBase,
   data |-> d, resurrect |-> FALSE]

Delete(n, r) ==
  [id |-> n, table |-> "docs", record |-> r, op |-> "delete", base |-> NoBase,
   data |-> NoData, resurrect |-> FALSE]

MCBatch == { <<Upsert(1, r1), Delete(2, r1)>> }

MCReader == {n1}
MCReaderTenant == [n \in MCReader |-> t1]
=============================================================================
