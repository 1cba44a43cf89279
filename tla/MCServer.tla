------------------------------ MODULE MCServer ------------------------------
(***************************************************************************)
(* Small instance of SyncServer: the batches cover every branch of         *)
(* applyMutation and every error of the push loop, and two principals of   *)
(* one tenant contend for the record and for a clientId.                   *)
(***************************************************************************)
EXTENDS SyncRefinement

CONSTANTS t1, s1, s2, c1, c2, r1, p, q

MCTenant == {t1}
MCSubject == {s1, s2}
MCClientId == {c1, c2}
MCRecordId == {r1}
MCData == {{p}, {q}, {p, q}}
MCExternalData == {{q}}
MCMerge(a, b) == a \cup b

MCIdentity ==
  {[tenant |-> t1, subject |-> s1, clientIds |-> {c1}],
   [tenant |-> t1, subject |-> s2, clientIds |-> {c1, c2}]}

Upsert(n, base, d, resurrect) ==
  [id |-> n, table |-> "docs", record |-> r1, op |-> "upsert", base |-> base,
   data |-> d, resurrect |-> resurrect]

Delete(n, base) ==
  [id |-> n, table |-> "docs", record |-> r1, op |-> "delete", base |-> base,
   data |-> NoData, resurrect |-> FALSE]

Unsupported(n) == [Upsert(n, NoBase, {p}, FALSE) EXCEPT !.table = "other"]

MCBatch ==
  { <<Upsert(1, 0, {p}, FALSE)>>,
    <<Upsert(1, NoBase, {q}, FALSE)>>,
    <<Upsert(1, NoBase, {q}, FALSE), Delete(2, 1)>>,
    <<Delete(1, NoBase), Unsupported(2)>>,
    <<Upsert(2, 2, {p}, TRUE)>>,
    <<Delete(2, NoBase), Delete(2, NoBase)>>,
    <<Upsert(2, 2, {p}, TRUE), Upsert(1, NoBase, {q}, FALSE)>>,
    <<Upsert(2, NoBase, {q}, TRUE)>> }
=============================================================================
