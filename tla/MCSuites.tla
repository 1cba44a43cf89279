------------------------------- MODULE MCSuites -------------------------------
(***************************************************************************)
(* Small instances of Suites and of the merge conformance suite.  The      *)
(* initial state chooses what a behaviour is about.                        *)
(***************************************************************************)
EXTENDS Suites, TLC

CONSTANTS ts, dart, rust, alpha, beta, acme, globex, red, blue, t1, t2, t3

VARIABLES part, policy, payload, doc, applied, last

mergeVars == <<policy, payload, doc, applied, last>>
-----------------------------------------------------------------------------
\* Four mutations of up to three clients, deletions later than every upsert; and
\* a client that sends a second content under an id, and clients that resurrect.
Up(e, at) == {[entity |-> e, op |-> "upsert", at |-> at, base |-> 0]}
Del(e, at) == {[entity |-> e, op |-> "delete", at |-> at, base |-> 0]}
Res(e, at, base) == {[entity |-> e, op |-> "resurrect", at |-> at, base |-> base]}

MCWorkloads ==
  {(ts :> <<Up(alpha, 3), Del(alpha, 11)>>) @@ (dart :> <<Up(beta, 1), Del(alpha, 10)>>) @@ (rust :> <<>>),
   (ts :> <<Up(alpha, 3)>>) @@ (dart :> <<Up(alpha, 4), Up(beta, 1)>>) @@ (rust :> <<Del(alpha, 10)>>),
   (ts :> <<Up(alpha, 3) \cup Del(alpha, 10), Res(alpha, 12, 1)>>) @@
     (dart :> <<Del(alpha, 11), Res(alpha, 13, 2)>>) @@ (rust :> <<>>)}

\* More commits, or more changes of scope.
FewScopes == Len(log') + scope'.epoch <= 4

\* Payloads: nested objects, rows, and rows under every policy.
None == [present |-> FALSE, updated |-> 0, synced |-> 0, created |-> 0, fields |-> {}]
Objects(updates, synceds, keys) ==
  {[present |-> TRUE, updated |-> u, synced |-> s, created |-> 0, fields |-> k]
   : u \in updates, s \in synceds, k \in keys}
Shape(shared, inner, items) == [shared |-> shared, inner |-> inner, items |-> items]
Row(id, object) == [id |-> id, at |-> object]
Rows(items) == Shape(None, None, items)

NestedShapes ==
  {Shape(o, i, <<>>) : o \in Objects(0..2, {0}, {{"f"}, {"f", "g"}}),
                       i \in {None} \cup Objects(0..2, {0}, {{"f"}, {"g"}})}
RowOne == Rows(<<Row("b", CHOOSE o \in Objects({0}, {0}, {{"f"}}) : TRUE), Row("c", CHOOSE o \in Objects({0}, {0}, {{"f"}}) : TRUE)>>)
RowShapes == {Rows(<<Row(id, o)>>) : id \in {"a", "c"}, o \in Objects(1..2, {0}, {{"f"}, {"f", "g"}})}
Stamped(createds) == {[o EXCEPT !.created = c] : o \in Objects({0, 2}, {0, 1, 2}, {{"f"}}), c \in createds}
MixedShapes(createds) ==
  {Rows(<<Row("a", o)>>) : o \in Stamped(createds)}
  \cup {Rows(<<Row("b", o), Row("c", o)>>) : o \in Objects({0}, {0}, {{"f"}, {"g"}})}
  \cup {Rows(<<Row("", o)>>) : o \in Objects({0}, {0}, {{"f"}})}

Default == [array |-> "key", guarded |-> TRUE, fww |-> FALSE]
FirstWriteWins == [Default EXCEPT !.fww = TRUE]
Unguarded == {[array |-> a, guarded |-> FALSE, fww |-> FALSE] : a \in {"replace", "append", "union", "index", "key"}}

\* Three rows, of which two share an identity.
Triples == {t \in [1..3 -> RowShapes] : Cardinality({t[n].items[1].id : n \in 1..3}) = 2}

MCCases ==
  [policy : {Default}, payload : [1..2 -> NestedShapes] \cup Triples]
  \cup [policy : {Default} \cup Unguarded, payload : [1..2 -> MixedShapes({0})]]
  \cup [policy : {FirstWriteWins}, payload : [1..2 -> MixedShapes(0..2)]]

Merge == INSTANCE MergePolicy WITH Cases <- MCCases

Alike == Permutations({acme, globex}) \cup Permutations({red, blue})
-----------------------------------------------------------------------------
MCInit ==
  /\ Merge!Init /\ Storage!Init
  /\ \/ part = "merge"
     \/ policy = Default /\ payload = <<RowOne, RowOne>> /\ part \in {"convergence", "partial", "storage"}
  /\ Init /\ (part # "convergence" => mutations = CHOOSE w \in MCWorkloads : TRUE)
  /\ Partial!Init /\ (part # "partial" => scope.filter = {red, blue})

MCNext ==
  \/ /\ part = "convergence" /\ Next
     /\ UNCHANGED <<part, partialVars, mergeVars, storageVars>>
  \/ /\ part = "partial" /\ Partial!Next /\ FewScopes
     /\ UNCHANGED <<part, vars, mergeVars, storageVars>>
  \/ /\ part = "merge" /\ Merge!Next
     /\ UNCHANGED <<part, vars, partialVars, storageVars>>
  \/ /\ part = "storage" /\ Storage!Next
     /\ UNCHANGED <<part, vars, partialVars, mergeVars>>

MCSpec == MCInit /\ [][MCNext]_<<part, vars, partialVars, mergeVars, storageVars>>

\* Payloads that obey the rule end in one document; sent again they change
\* nothing, rows keep their place, and no object falls behind its timestamps.
MergesAgree == Merge!MergesAgree
=============================================================================
