----------------------------- MODULE MergePolicy -----------------------------
(***************************************************************************)
(* What merging a payload into a document does, under the server's policy  *)
(* (servers/node/src/index.ts) and the others a request may ask for in     *)
(* test mode, and the orders in which the conformance suite                *)
(* (suite/conformance/scenarios) and the clients' convergence suite apply  *)
(* payloads.  The merge core itself is a native addon, external: it is     *)
(* modelled from what those suites pin.                                    *)
(***************************************************************************)
EXTENDS Integers, Sequences, FiniteSets, SequencesExt

CONSTANTS
  Cases   \* [policy, payload]: a policy [array, guarded, fww], and the payloads
          \* that are sent under it, before their values are filled in

VARIABLES
  policy,
  payload,   \* a sequence of shapes
  doc,       \* replica -> document
  applied,   \* replica -> the payloads merged into it
  last       \* replica -> the last of them, 0 before

vars == <<policy, payload, doc, applied, last>>

Replica == 1..2   \* two runs of the same payloads, in orders of their own
NoObject == [present |-> FALSE, updated |-> 0, synced |-> 0, created |-> 0, fields |-> <<>>]
Object(updated, synced, created, fields) ==
  [present |-> TRUE, updated |-> updated, synced |-> synced, created |-> created, fields |-> fields]

NoId == ""   \* a row with no match key

\* The seed document: two keyed rows, written at stamp 1.
Seed ==
  [shared |-> NoObject, inner |-> NoObject,
   items |-> [i \in 1..2 |-> [id |-> <<"a", "b">>[i], at |-> Object(1, 0, 1, [k \in {"f"} |-> 0])]]]

\* A payload: its number is the value of all its fields.
Filled(o, n) == [o EXCEPT !.fields = [k \in o.fields |-> n]]
Payload(n) ==
  LET s == payload[n] IN
  [shared |-> Filled(s.shared, n), inner |-> Filled(s.inner, n),
   items |-> [i \in DOMAIN s.items |-> [id |-> s.items[i].id, at |-> Filled(s.items[i].at, n)]]]
-----------------------------------------------------------------------------
\* A value both sides have; 0 stands for an absent one.
Both(a, b) == a # 0 /\ b # 0

\* Mutant: the later of the two keys decides.
RejectedByBoth(base, incoming) ==
  /\ policy.guarded
  /\ Both(base.updated, incoming.updated) /\ base.updated > incoming.updated
  /\ Both(base.synced, incoming.synced) => base.synced > incoming.synced

\* Mutant: arrival decides.
RejectedNever(base, incoming) == FALSE

\* Any key that says the base is newer rejects the whole object; so does, if it
\* is asked for, a first-write key that says the payload came later.
Rejected(base, incoming) ==
  /\ policy.guarded
  /\ \/ Both(base.updated, incoming.updated) /\ base.updated > incoming.updated
     \/ Both(base.synced, incoming.synced) /\ base.synced > incoming.synced
     \/ policy.fww /\ Both(base.created, incoming.created) /\ base.created < incoming.created

Latest(base, incoming) == IF incoming = 0 THEN base ELSE incoming

\* Mutant: the base's fields over the payload's.
OverlayKeeps(base, incoming) ==
  Object(Latest(base.updated, incoming.updated), Latest(base.synced, incoming.synced), Latest(base.created, incoming.created),
         [k \in DOMAIN base.fields \cup DOMAIN incoming.fields |->
            IF k \in DOMAIN base.fields THEN base.fields[k] ELSE incoming.fields[k]])

\* The payload's fields over the base's.
Overlay(base, incoming) ==
  Object(Latest(base.updated, incoming.updated), Latest(base.synced, incoming.synced), Latest(base.created, incoming.created),
         [k \in DOMAIN base.fields \cup DOMAIN incoming.fields |->
            IF k \in DOMAIN incoming.fields THEN incoming.fields[k] ELSE base.fields[k]])

MergedObject(base, incoming) ==
  IF ~incoming.present \/ (base.present /\ Rejected(base, incoming)) THEN base
  ELSE IF base.present THEN Overlay(base, incoming) ELSE incoming

Item(id, at) == [id |-> id, at |-> at]

\* Mutant: union appends what is there.
UnionAppends(base, incoming) == Append(base, incoming)

Union(base, incoming) == IF incoming \in ToSet(base) THEN base ELSE Append(base, incoming)

\* Mutant: what is not there yet goes to the front.
ByKeyFirst(base, incoming) ==
  IF incoming.id = NoId THEN Union(base, incoming)
  ELSE IF \E i \in DOMAIN base : base[i].id = incoming.id
  THEN [i \in DOMAIN base |-> IF base[i].id = incoming.id THEN Item(incoming.id, MergedObject(base[i].at, incoming.at)) ELSE base[i]]
  ELSE <<incoming>> \o base

\* Rows with the same identity merge in place, others are appended; a row without
\* one is kept once.
ByKey(base, incoming) ==
  IF incoming.id = NoId THEN Union(base, incoming)
  ELSE IF \E i \in DOMAIN base : base[i].id = incoming.id
  THEN [i \in DOMAIN base |-> IF base[i].id = incoming.id THEN Item(incoming.id, MergedObject(base[i].at, incoming.at)) ELSE base[i]]
  ELSE Append(base, incoming)

\* Rows merge by position, identities like any field: a row keeps its own if the
\* incoming one has none or is rejected.
ByIndex(base, incoming) ==
  [i \in DOMAIN base \cup DOMAIN incoming |->
     IF i \notin DOMAIN incoming THEN base[i]
     ELSE IF i \notin DOMAIN base THEN incoming[i]
     ELSE Item(IF incoming[i].id = NoId \/ Rejected(base[i].at, incoming[i].at) THEN base[i].id ELSE incoming[i].id,
               MergedObject(base[i].at, incoming[i].at))]

MergedItems(base, incoming) ==
  CASE incoming = <<>> -> base   \* the payload has no array
    [] incoming # <<>> /\ policy.array = "replace" -> incoming
    [] incoming # <<>> /\ policy.array = "append" -> base \o incoming
    [] incoming # <<>> /\ policy.array = "union" -> FoldLeft(Union, base, incoming)
    [] incoming # <<>> /\ policy.array = "index" -> ByIndex(base, incoming)
    [] incoming # <<>> /\ policy.array = "key" -> FoldLeft(ByKey, base, incoming)

\* A rejected object takes what is nested in it along.
Merged(d, p) ==
  [shared |-> MergedObject(d.shared, p.shared),
   inner |-> IF p.shared.present /\ d.shared.present /\ Rejected(d.shared, p.shared) THEN d.inner
             ELSE MergedObject(d.inner, p.inner),
   items |-> MergedItems(d.items, p.items)]
-----------------------------------------------------------------------------
Init ==
  /\ \E case \in Cases : policy = case.policy /\ payload = case.payload
  /\ doc = [r \in Replica |-> Seed] /\ applied = [r \in Replica |-> {}] /\ last = [r \in Replica |-> 0]

\* Mutant: a payload is not taken for merged.
SyncUnnoticed(r, n) ==
  /\ n \notin applied[r]
  /\ doc' = [doc EXCEPT ![r] = Merged(@, Payload(n))]
  /\ last' = [last EXCEPT ![r] = n]
  /\ UNCHANGED <<policy, payload, applied>>

Sync(r, n) ==
  /\ n \notin applied[r]
  /\ doc' = [doc EXCEPT ![r] = Merged(@, Payload(n))]
  /\ applied' = [applied EXCEPT ![r] = @ \cup {n}]
  /\ last' = [last EXCEPT ![r] = n]
  /\ UNCHANGED <<policy, payload>>

\* The same payload again, as after a lost answer.
Replay(r) ==
  /\ last[r] # 0
  /\ Len(doc[r].items) < 5   \* bound: append grows with every replay
  /\ doc' = [doc EXCEPT ![r] = Merged(@, Payload(last[r]))]
  /\ UNCHANGED <<policy, payload, applied, last>>

Next == \E r \in Replica : Replay(r) \/ \E n \in DOMAIN payload : Sync(r, n)

Spec == Init /\ [][Next]_vars
-----------------------------------------------------------------------------
MergeTypeOK ==
  /\ policy.array \in {"replace", "append", "union", "index", "key"}
  /\ \A r \in Replica : applied[r] \subseteq DOMAIN payload /\ last[r] \in applied[r] \cup {0}

\* The rule of scenarios/06-convergence.mjs, for every object node: one writer,
\* or all with timestamps of their own and the keys of the older among the
\* newer's.
Nodes == {"shared", "inner"} \cup {payload[n].items[i].id : <<n, i>> \in {m \in (DOMAIN payload) \X (1..2) : m[2] \in DOMAIN payload[m[1]].items}}
At(n, node) ==
  CASE node = "shared" -> payload[n].shared
    [] node = "inner" -> payload[n].inner
    [] OTHER -> LET found == SelectSeq(payload[n].items, LAMBDA item : item.id = node)
                IN IF found = <<>> THEN [NoObject EXCEPT !.fields = {}] ELSE found[1].at
Writers(node) == {n \in DOMAIN payload : At(n, node).present}
Keys(n, node) ==
  At(n, node).fields \cup (IF node = "shared" /\ payload[n].inner.present THEN {"inner"} ELSE {})
Older(m, n, node) == At(m, node).updated < At(n, node).updated
RuleHolds ==
  \A node \in Nodes : \A m, n \in Writers(node) : m # n =>
    /\ At(m, node).updated > 0 /\ (Older(m, n, node) \/ Older(n, m, node))
    /\ Older(m, n, node) => Keys(m, node) \subseteq Keys(n, node)

\* What the rule leaves out: who is newer outside is newer inside.
NewerAgree == \A m, n \in Writers("inner") : Older(m, n, "shared") => Older(m, n, "inner")

\* normalizeKeyedArrays: rows are compared by identity.
Normal(d) == [d EXCEPT !.items = ToSet(@)]

Complete(r) == applied[r] = DOMAIN payload
SameResult == (\A r \in Replica : Complete(r)) => Normal(doc[1]) = Normal(doc[2])

\* The policy the server merges by.
Deployed == policy = [array |-> "key", guarded |-> TRUE, fww |-> FALSE]

\* In every order, with replays, payloads that obey the rule end in one document.
RuleConverges == Deployed /\ RuleHolds /\ NewerAgree => SameResult

\* verify: a client merges the server's document into its own payload.
Reconciled(r, n) == Merged(Payload(n), doc[r])

\* Whatever client does so has the server's document ("agrees with every other
\* client").
ReconcileAgrees ==
  Deployed /\ RuleHolds /\ NewerAgree =>
    \A r \in Replica : Complete(r) => \A n \in DOMAIN payload : Normal(Reconciled(r, n)) = Normal(doc[r])

MergeInv == MergeTypeOK /\ RuleConverges /\ ReconcileAgrees

\* A payload that is sent again accumulates nothing; only append does.
ReplayChangesNothing ==
  \A r \in Replica : applied'[r] = applied[r] /\ policy.array # "append" => doc'[r] = doc[r]

Identities(d) == [i \in DOMAIN d.items |-> d.items[i].id]

\* Merging by key keeps the rows, their order and their identities.
IdentitiesStay ==
  policy.array = "key" =>
    \A r \in Replica :
      LET ids == Identities(doc'[r]) IN
      /\ IsPrefix(Identities(doc[r]), ids)
      /\ \A i, j \in DOMAIN ids : ids[i] = ids[j] /\ ids[i] # NoId => i = j

NotOlder(a, b) ==
  a.present => /\ b.present /\ a.updated <= b.updated /\ a.synced <= b.synced
               /\ policy.fww /\ a.created > 0 => b.created <= a.created

\* No order of payloads takes an object back behind a timestamp it had, or, by
\* the first write, past it.
StampsNeverFall ==
  policy.guarded => \A r \in Replica :
       /\ NotOlder(doc[r].shared, doc'[r].shared) /\ NotOlder(doc[r].inner, doc'[r].inner)
       /\ \A i \in DOMAIN doc[r].items : NotOlder(doc[r].items[i].at, doc'[r].items[i].at)

\* Payloads that obey the rule end in one document, for the replicas and the
\* clients that reconcile with them; sent again they change nothing, rows keep
\* their identity and place, and no object falls behind its timestamps.
MergesAgree == []MergeInv /\ [][ReplayChangesNothing /\ IdentitiesStay /\ StampsNeverFall]_vars
=============================================================================
