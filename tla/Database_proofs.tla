--------------------------- MODULE Database_proofs ---------------------------
(***************************************************************************)
(* The database, in two parts.  The locks: transactions that all take the  *)
(* state row before any other row cannot deadlock, whatever they lock      *)
(* after it and however many there are; where some do not, one of those is *)
(* part of every circle; and transactions that number their changes under  *)
(* the state row number them in the order in which they commit.  The       *)
(* schema: whichever builds start in whichever order, and wherever their   *)
(* transactions are broken off, the history of the migrations says what    *)
(* the schema is and only grows, and where nobody serves below migration   *)
(* 2 the mirror has the documents at their last revision.                  *)
(***************************************************************************)
EXTENDS Database, FiniteSetTheorems, TLAPS

HoldsState(t) ==
  Running(t) /\ \E i \in 1..at[t] : program[t][i].mode = "row" /\ program[t][i].on = "state"

\* The state row has one holder.
OneHolder == \A t, u \in Txn : HoldsState(t) /\ HoldsState(u) => t = u

AtOK == program \in Workloads /\ at \in [Txn -> Nat] /\ \A t \in Txn : at[t] <= Len(program[t])

LInv == AtOK /\ OneHolder

LEMMA StepTypes ==
  ASSUME program \in Workloads, NEW t \in Txn, NEW i \in 1..Len(program[t])
  PROVE  /\ i \in DOMAIN program[t]
         /\ program[t][i] \in Step
         /\ (program[t][i].mode = "row") <=> (program[t][i].on \in Rows)
<1>1. program[t] \in Seq(Step)
  BY ProgramAssumption
<1>2. i \in DOMAIN program[t]
  BY <1>1
<1> QED BY <1>1, <1>2, ProgramAssumption

\* Whoever is waited for holds the state row: it holds a row, or the waiter would
\* not have to wait, and rows come after the state row.
LEMMA WaitedForHoldsState ==
  ASSUME AtOK, NEW t \in Txn, NEW u \in Txn, StateFirst(program[t]), StateFirst(program[u]),
         WaitsFor(t, u)
  PROVE  HoldsState(u)
<1>1. PICK i \in 1..at[u] : Clash(NextStep(t), program[u][i])
  BY DEF WaitsFor
<1>2. Running(u) /\ Due(t)
  BY DEF WaitsFor
<1>3. i \in 1..Len(program[u]) /\ at[t] + 1 \in 1..Len(program[t])
  <2>1. at[u] \in Nat /\ at[u] <= Len(program[u]) /\ at[t] \in Nat /\ at[t] < Len(program[t])
    BY <1>2 DEF AtOK, Due
  <2>2. Len(program[t]) \in Nat /\ Len(program[u]) \in Nat
    BY ProgramAssumption
  <2> QED BY <2>1, <2>2
<1>4. program[u][i].mode = "row"
  <2>1. /\ program[u][i].mode \in {"row", "use", "all"}
        /\ NextStep(t).mode \in {"row", "use", "all"}
        /\ i \in DOMAIN program[u] /\ at[t] + 1 \in DOMAIN program[t]
    BY <1>3, StepTypes DEF Step, NextStep, AtOK
  <2>2. program[u][i].mode # "all" /\ NextStep(t).mode # "all"
    BY <2>1 DEF StateFirst, NextStep
  <2>3. NextStep(t).on = program[u][i].on /\ {NextStep(t).mode, program[u][i].mode} # {"use"}
    BY <1>1 DEF Clash
  <2>4. (NextStep(t).mode = "row") <=> (program[u][i].mode = "row")
    BY <1>3, <2>3, StepTypes DEF NextStep, AtOK
  <2> QED BY <2>1, <2>2, <2>3, <2>4
<1>5. PICK j \in 1..i : program[u][j].mode = "row" /\ program[u][j].on = "state"
  BY <1>3, <1>4, StepTypes DEF StateFirst
<1>6. j \in 1..at[u]
  BY <1>5, <1>3 DEF AtOK
<1> QED BY <1>2, <1>5, <1>6 DEF HoldsState

\* Nobody waits for who is waiting.
NoChain == \A t, u, v \in Txn : ~ (WaitsFor(t, u) /\ WaitsFor(u, v))

LEMMA OneHolderStops ==
  ASSUME Orderly, LInv PROVE NoChain
<1> SUFFICES ASSUME NEW t \in Txn, NEW u \in Txn, NEW v \in Txn, WaitsFor(t, u), WaitsFor(u, v)
             PROVE  FALSE
  BY DEF NoChain
<1>1. HoldsState(u) /\ HoldsState(v)
  BY WaitedForHoldsState DEF LInv, Orderly
<1>2. u # v
  BY DEF WaitsFor
<1> QED BY <1>1, <1>2 DEF LInv, OneHolder

LEMMA InitHolds == Init => LInv
<1> SUFFICES ASSUME Init PROVE LInv
  OBVIOUS
<1>1. AtOK
  <2>1. \A t \in Txn : Len(program[t]) \in Nat
    BY ProgramAssumption
  <2> QED BY <2>1 DEF Init, AtOK
<1>2. OneHolder
  BY DEF OneHolder, HoldsState, Init
<1> QED BY <1>1, <1>2 DEF LInv

LEMMA AdvanceKeeps ==
  ASSUME LInv, NEW t \in Txn, Advance(t) PROVE LInv'
<1>1. at[t] \in Nat /\ at[t] < Len(program[t]) /\ Running(t)
  BY DEF Advance, Due, LInv, AtOK
<1>2. Len(program[t]) \in Nat
  BY ProgramAssumption
<1>3. AtOK'
  BY <1>1, <1>2 DEF Advance, AtOK, LInv
<1>4. ASSUME NEW u \in Txn, HoldsState(u)' , ~ HoldsState(u)
      PROVE  /\ u = t /\ NextStep(t).mode = "row" /\ NextStep(t).on = "state"
  <2>1. Running(u) /\ status' = status
    BY <1>4 DEF HoldsState, Advance, Running
  <2>2. PICK i \in 1..at'[u] : program[u][i].mode = "row" /\ program[u][i].on = "state"
    BY <1>4 DEF HoldsState, Advance
  <2>3. i \notin 1..at[u]
    BY <2>1, <2>2, <1>4 DEF HoldsState
  <2>4. at' = [at EXCEPT ![t] = @ + 1] /\ at \in [Txn -> Nat]
    BY DEF Advance, LInv, AtOK
  <2>5. u = t
    BY <2>2, <2>3, <2>4
  <2>6. i = at[t] + 1
    BY <2>2, <2>3, <2>4, <2>5
  <2> QED BY <2>2, <2>5, <2>6 DEF NextStep
<1>5. ASSUME NEW u \in Txn, u # t, HoldsState(u), NextStep(t).mode = "row", NextStep(t).on = "state"
      PROVE  FALSE
  <2>1. PICK i \in 1..at[u] : program[u][i].mode = "row" /\ program[u][i].on = "state"
    BY <1>5 DEF HoldsState
  <2>2. Clash(NextStep(t), program[u][i])
    BY <1>5, <2>1 DEF Clash
  <2>3. WaitsFor(t, u)
    BY <1>5, <2>1, <2>2 DEF WaitsFor, HoldsState, Advance
  <2> QED BY <2>3 DEF Advance
<1>6. OneHolder'
  <2> SUFFICES ASSUME NEW u \in Txn, NEW v \in Txn, HoldsState(u)', HoldsState(v)', u # v
               PROVE  FALSE
    BY DEF OneHolder
  <2>1. CASE HoldsState(u) /\ HoldsState(v)
    BY <2>1 DEF LInv, OneHolder
  <2>2. CASE ~ HoldsState(u) /\ HoldsState(v)
    BY <2>2, <1>4, <1>5
  <2>3. CASE HoldsState(u) /\ ~ HoldsState(v)
    BY <2>3, <1>4, <1>5
  <2>4. CASE ~ HoldsState(u) /\ ~ HoldsState(v)
    BY <2>4, <1>4
  <2> QED BY <2>1, <2>2, <2>3, <2>4
<1> QED BY <1>3, <1>6 DEF LInv

\* A transaction that ends gives up what it holds.
LEMMA EndKeeps ==
  ASSUME LInv, NEW t \in Txn, at' = at, program' = program,
         NEW s, s # "running", status' = [status EXCEPT ![t] = s]
  PROVE  LInv'
<1>1. AtOK'
  BY DEF LInv, AtOK
<1>2. ASSUME NEW u \in Txn, HoldsState(u)' PROVE HoldsState(u)
  BY <1>2 DEF HoldsState, Running, LInv, AtOK
<1>3. OneHolder'
  BY <1>2 DEF LInv, OneHolder
<1> QED BY <1>1, <1>3 DEF LInv

LEMMA NextKeepsLInv == LInv /\ [Next]_vars => LInv'
<1> SUFFICES ASSUME LInv, [Next]_vars PROVE LInv'
  OBVIOUS
<1>1. ASSUME NEW t \in Txn, Advance(t) PROVE LInv'
  BY <1>1, AdvanceKeeps
<1>2. ASSUME NEW t \in Txn, Commit(t) \/ Fail(t) \/ Victim(t) PROVE LInv'
  BY <1>2, EndKeeps DEF Commit, Fail, Victim
<1>3. CASE UNCHANGED vars
  BY <1>3 DEF vars, LInv, AtOK, OneHolder, HoldsState, Running
<1> QED BY <1>1, <1>2, <1>3 DEF Next

\* However many transactions run, and whatever they lock: when each takes the
\* state row first, whoever is waited for is not waiting, and no cycle can close.
THEOREM OrderlyNeverDeadlock == Spec => [](Orderly => NoChain)
<1>1. Init => LInv
  BY InitHolds
<1>2. LInv /\ [Next]_vars => LInv'
  BY NextKeepsLInv
<1>3. LInv => (Orderly => NoChain)
  BY OneHolderStops
<1> QED BY <1>1, <1>2, <1>3, PTL DEF Spec

-----------------------------------------------------------------------------
(* Numbers and commits. *)

\* The numbers of a running transaction go on from the last committed one, and it
\* holds the state row while it has any.
Numbering(t) ==
  Running(t) =>
    /\ numbers[t] = [i \in 1..Len(numbers[t]) |-> lastSeq + i]
    /\ numbers[t] # <<>> => HoldsState(t)

NumbersInv ==
  /\ LInv /\ LockTypeOK /\ CommitOrderIsFeedOrder
  /\ \A t \in Txn : Numbering(t)

\* A circle has two transactions that are waited for.
LEMMA CirclesAreDisorderly ==
  ASSUME LInv PROVE CirclesNeedTheDisorderly
<1> SUFFICES ASSUME NEW S \in (SUBSET Txn) \ {{}}, Cycle(S), \A t \in S : StateFirst(program[t])
             PROVE  FALSE
  BY DEF CirclesNeedTheDisorderly
<1>1. PICK t \in S : TRUE
  OBVIOUS
<1>2. PICK u \in S : WaitsFor(t, u)
  BY <1>1 DEF Cycle
<1>3. PICK v \in S : WaitsFor(u, v)
  BY <1>2 DEF Cycle
<1>4. HoldsState(u) /\ HoldsState(v)
  BY <1>1, <1>2, <1>3, WaitedForHoldsState DEF LInv
<1>5. u # v
  BY <1>3 DEF WaitsFor
<1> QED BY <1>4, <1>5 DEF LInv, OneHolder

\* The last number of a run of numbers.
LEMMA LatestIs ==
  ASSUME LockTypeOK, NEW t \in Txn, Running(t), Numbering(t)
  PROVE  /\ Len(numbers[t]) \in Nat
         /\ Latest(t) = lastSeq + Len(numbers[t])
<1>1. numbers[t] \in Seq(Nat \ {0}) /\ lastSeq \in Nat
  BY DEF LockTypeOK
<1>2. numbers[t] = [i \in 1..Len(numbers[t]) |-> lastSeq + i] /\ Len(numbers[t]) \in Nat
  BY <1>1 DEF Numbering
<1>3. CASE numbers[t] = <<>>
  BY <1>1, <1>3 DEF Latest
<1>4. CASE numbers[t] # <<>>
  <2>1. Len(numbers[t]) \in 1..Len(numbers[t])
    BY <1>1, <1>4
  <2>2. numbers[t][Len(numbers[t])] = lastSeq + Len(numbers[t])
    BY <1>2, <2>1
  <2> QED BY <1>4, <2>2 DEF Latest
<1> QED BY <1>2, <1>3, <1>4

\* Appending the next number, or a run of them, to numbers without a gap.
LEMMA NextNumber ==
  ASSUME NEW s \in Seq(Nat \ {0}), NEW k \in Nat, s = [i \in 1..Len(s) |-> k + i]
  PROVE  LET s2 == Append(s, k + Len(s) + 1)
         IN s2 \in Seq(Nat \ {0}) /\ s2 = [i \in 1..Len(s2) |-> k + i]
<1> DEFINE n == Len(s)
           s2 == Append(s, k + n + 1)
<1>1. n \in Nat /\ k + n + 1 \in Nat \ {0}
  OBVIOUS
<1>2. s2 \in Seq(Nat \ {0}) /\ Len(s2) = n + 1
  BY <1>1
<1>3. ASSUME NEW i \in 1..(n + 1) PROVE s2[i] = k + i
  <2>1. CASE i = n + 1
    BY <1>1, <2>1
  <2>2. CASE i # n + 1
    <3>1. i \in 1..n
      BY <1>1, <2>2
    <3> QED BY <3>1
  <2> QED BY <2>1, <2>2
<1>4. s2 = [i \in 1..Len(s2) |-> s2[i]]
  BY <1>2
<1> HIDE DEF s2, n
<1>5. s2 = [i \in 1..Len(s2) |-> k + i]
  BY ONLY <1>2, <1>3, <1>4
<1> QED BY <1>2, <1>5 DEF s2, n

LEMMA NextRun ==
  ASSUME NEW f \in Seq(Nat \ {0}), NEW k \in Nat, f = [i \in 1..k |-> i],
         NEW s \in Seq(Nat \ {0}), s = [i \in 1..Len(s) |-> k + i]
  PROVE  f \o s \in Seq(Nat \ {0}) /\ f \o s = [i \in 1..(k + Len(s)) |-> i]
<1> DEFINE n == Len(s)
           g == f \o s
<1>1. n \in Nat /\ Len(f) = k
  OBVIOUS
<1>2. g \in Seq(Nat \ {0}) /\ Len(g) = k + n
  BY <1>1
<1>3. ASSUME NEW i \in 1..(k + n) PROVE g[i] = i
  <2>1. CASE i <= k
    <3>1. i \in 1..k
      BY <1>1, <2>1
    <3>2. g[i] = f[i]
      BY <1>1, <3>1
    <3> QED BY <3>1, <3>2
  <2>2. CASE i > k
    <3>1. i - k \in 1..n
      BY <1>1, <2>2
    <3>2. g[i] = s[i - k]
      BY <1>1, <2>2, <3>1
    <3>3. s[i - k] = k + (i - k)
      BY <3>1
    <3> QED BY <3>1, <3>2, <3>3
  <2> QED BY <1>1, <2>1, <2>2
<1>4. g = [i \in 1..(k + n) |-> g[i]]
  BY <1>2
<1> HIDE DEF g, n
<1>5. g = [i \in 1..(k + n) |-> i]
  BY ONLY <1>3, <1>4
<1> QED BY <1>2, <1>5 DEF g, n

LEMMA InitNumbers == Init => NumbersInv
<1> SUFFICES ASSUME Init PROVE NumbersInv
  OBVIOUS
<1>1. \A t \in Txn : Len(program[t]) \in Nat
  BY ProgramAssumption
<1>2. <<>> \in Seq(Nat \ {0}) /\ Len(<<>>) = 0 /\ <<>> = [i \in 1..0 |-> i]
  OBVIOUS
<1>3. <<>> = [i \in 1..0 |-> lastSeq + i]
  OBVIOUS
<1>4. LockTypeOK
  BY <1>1, <1>2 DEF Init, LockTypeOK
<1>5. CommitOrderIsFeedOrder
  BY <1>2 DEF Init, CommitOrderIsFeedOrder
<1>6. \A t \in Txn : Numbering(t)
  BY <1>2, <1>3 DEF Init, Numbering
<1> QED BY <1>4, <1>5, <1>6, InitHolds DEF NumbersInv

LEMMA AdvanceNumbers ==
  ASSUME NumbersUnderLock, NumbersInv, NEW t \in Txn, Advance(t) PROVE NumbersInv'
<1>1. /\ LockTypeOK /\ LInv /\ Running(t) /\ Numbering(t)
      /\ at[t] \in Nat /\ at[t] < Len(program[t]) /\ lastSeq \in Nat
      /\ status' = status /\ lastSeq' = lastSeq /\ feed' = feed /\ program' = program
      /\ program \in Workloads
      /\ at' = [at EXCEPT ![t] = @ + 1] /\ at \in [Txn -> Nat]
      /\ numbers \in [Txn -> Seq(Nat \ {0})]
  BY DEF NumbersInv, LockTypeOK, Advance, Due
<1>2. Len(program[t]) \in Nat /\ at[t] + 1 \in 1..Len(program[t])
  <2>1. Len(program[t]) \in Nat
    BY ProgramAssumption
  <2> QED BY <1>1, <2>1
<1>3. LInv'
  BY <1>1, AdvanceKeeps
<1> DEFINE s == IF NextStep(t).act = "number" THEN Append(numbers[t], Latest(t) + 1) ELSE numbers[t]
<1>4. numbers' = [numbers EXCEPT ![t] = s]
  BY <1>1 DEF Advance
<1>5. /\ numbers[t] \in Seq(Nat \ {0})
      /\ numbers[t] = [i \in 1..Len(numbers[t]) |-> lastSeq + i]
      /\ Latest(t) + 1 = lastSeq + Len(numbers[t]) + 1
  BY <1>1, LatestIs DEF Numbering
<1>6. s \in Seq(Nat \ {0}) /\ s = [i \in 1..Len(s) |-> lastSeq + i]
  <2>1. CASE NextStep(t).act = "number"
    BY <1>1, <1>5, <2>1, NextNumber
  <2>2. CASE NextStep(t).act # "number"
    BY <1>5, <2>2
  <2> QED BY <2>1, <2>2
<1>7. \A u \in Txn : HoldsState(u) => HoldsState(u)'
  BY <1>1 DEF HoldsState, Running
<1>8. s # <<>> => HoldsState(t)'
  <2>1. CASE NextStep(t).act = "number"
    <3>1. program[t][at[t] + 1].on = "state" /\ program[t][at[t] + 1].mode = "row"
      BY <1>1, <1>2, <2>1, StepTypes DEF NumbersUnderLock, NumbersUnderState, NextStep, Rows
    <3>2. at'[t] = at[t] + 1 /\ at[t] + 1 \in 1..at'[t]
      BY <1>1
    <3> QED BY <1>1, <3>1, <3>2 DEF HoldsState, Running
  <2>2. CASE NextStep(t).act # "number"
    BY <1>1, <1>7, <2>2 DEF Numbering
  <2> QED BY <2>1, <2>2
<1> HIDE DEF s
<1>9. \A u \in Txn : numbers'[u] = IF u = t THEN s ELSE numbers[u]
  BY <1>1, <1>4
<1>10. LockTypeOK'
  <2>1. numbers' \in [Txn -> Seq(Nat \ {0})]
    BY <1>1, <1>4, <1>6
  <2>2. at' \in [Txn -> Nat]
    BY <1>1
  <2>3. ASSUME NEW u \in Txn PROVE at'[u] <= Len(program[u])
    BY <1>1, <1>3 DEF LInv, AtOK
  <2> QED BY <1>1, <2>1, <2>2, <2>3 DEF LockTypeOK
<1>11. CommitOrderIsFeedOrder'
  BY <1>1 DEF NumbersInv, CommitOrderIsFeedOrder
<1>12. ASSUME NEW u \in Txn PROVE Numbering(u)'
  <2>1. CASE u = t
    BY <1>1, <1>6, <1>8, <1>9, <2>1 DEF Numbering
  <2>2. CASE u # t
    <3>1. Numbering(u)
      BY DEF NumbersInv
    <3> QED BY <1>1, <1>7, <1>9, <2>2, <3>1 DEF Numbering, Running
  <2> QED BY <2>1, <2>2
<1> QED BY <1>3, <1>10, <1>11, <1>12 DEF NumbersInv

\* Who has numbered changes or starts the numbers over holds the state row, so that
\* nobody else has.
LEMMA CommitNumbers ==
  ASSUME NumbersUnderLock, NumbersInv, NEW t \in Txn, Commit(t) PROVE NumbersInv'
<1>1. /\ LockTypeOK /\ LInv /\ Running(t) /\ Numbering(t) /\ CommitOrderIsFeedOrder
      /\ at[t] = Len(program[t]) /\ lastSeq \in Nat /\ feed \in Seq(Nat \ {0})
      /\ status' = [status EXCEPT ![t] = "committed"]
      /\ lastSeq' = (IF Clears(t) THEN 0 ELSE Latest(t))
      /\ feed' = (IF Clears(t) THEN <<>> ELSE feed \o numbers[t])
      /\ at' = at /\ numbers' = numbers /\ program' = program /\ program \in Workloads
      /\ status \in [Txn -> {"running", "committed", "failed", "victim"}]
      /\ numbers \in [Txn -> Seq(Nat \ {0})]
  BY DEF NumbersInv, LockTypeOK, Commit
<1>2. LInv'
  BY <1>1, EndKeeps
<1>3. /\ numbers[t] \in Seq(Nat \ {0}) /\ Len(numbers[t]) \in Nat
      /\ numbers[t] = [i \in 1..Len(numbers[t]) |-> lastSeq + i]
      /\ Latest(t) = lastSeq + Len(numbers[t])
      /\ numbers[t] # <<>> => HoldsState(t)
  BY <1>1, LatestIs DEF Numbering
<1>4. Clears(t) => HoldsState(t)
  <2> SUFFICES ASSUME NEW i \in DOMAIN program[t], program[t][i].act = "clear"
               PROVE  HoldsState(t)
    BY DEF Clears
  <2>1. i \in 1..Len(program[t])
    BY <1>1, ProgramAssumption
  <2>2. program[t][i].on = "state" /\ program[t][i].mode = "row"
    BY <1>1, <2>1, StepTypes DEF NumbersUnderLock, NumbersUnderState, Rows
  <2> QED BY <1>1, <2>1, <2>2 DEF HoldsState
<1>5. feed' \in Seq(Nat \ {0}) /\ lastSeq' \in Nat /\ feed' = [n \in 1..lastSeq' |-> n]
  <2>1. CASE Clears(t)
    <3>1. <<>> \in Seq(Nat \ {0}) /\ <<>> = [n \in 1..0 |-> n]
      OBVIOUS
    <3> QED BY <1>1, <2>1, <3>1
  <2>2. CASE ~ Clears(t)
    <3>1. feed = [n \in 1..lastSeq |-> n]
      BY <1>1 DEF CommitOrderIsFeedOrder
    <3>2. /\ feed \o numbers[t] \in Seq(Nat \ {0})
          /\ feed \o numbers[t] = [n \in 1..(lastSeq + Len(numbers[t])) |-> n]
      BY <1>1, <1>3, <3>1, NextRun
    <3> QED BY <1>1, <1>3, <2>2, <3>2
  <2> QED BY <2>1, <2>2
<1>6. LockTypeOK'
  BY <1>1, <1>5 DEF LockTypeOK
<1>7. CommitOrderIsFeedOrder'
  BY <1>5 DEF CommitOrderIsFeedOrder
<1>8. ASSUME NEW u \in Txn, Running(u)'
      PROVE  /\ numbers[u] = [i \in 1..Len(numbers[u]) |-> lastSeq' + i]
             /\ numbers[u] # <<>> => HoldsState(u)'
  <2>1. u # t /\ Running(u)
    BY <1>1, <1>8 DEF Running
  <2>2. Numbering(u) /\ numbers[u] \in Seq(Nat \ {0})
    BY <1>1 DEF NumbersInv
  <2>3. HoldsState(u) => HoldsState(u)'
    BY <1>1, <1>8 DEF HoldsState
  <2>4. CASE numbers[u] = <<>>
    <3>1. Len(<<>>) = 0 /\ <<>> = [i \in 1..0 |-> lastSeq' + i]
      OBVIOUS
    <3> QED BY <2>4, <3>1
  <2>5. CASE numbers[u] # <<>>
    <3>1. HoldsState(u) /\ ~ HoldsState(t)
      BY <1>1, <2>1, <2>2, <2>5 DEF Numbering, LInv, OneHolder
    <3>2. ~ Clears(t) /\ numbers[t] = <<>>
      BY <1>3, <1>4, <3>1
    <3>3. lastSeq' = lastSeq
      BY <1>1, <1>3, <3>2
    <3> QED BY <2>1, <2>2, <2>3, <3>1, <3>3 DEF Numbering
  <2> QED BY <2>4, <2>5
<1>9. \A u \in Txn : Numbering(u)'
  BY <1>1, <1>8 DEF Numbering
<1> QED BY <1>2, <1>6, <1>7, <1>9 DEF NumbersInv

LEMMA NextKeepsNumbers ==
  ASSUME NumbersUnderLock PROVE NumbersInv /\ [Next]_vars => NumbersInv'
<1> SUFFICES ASSUME NumbersInv, [Next]_vars PROVE NumbersInv'
  OBVIOUS
<1>1. ASSUME NEW t \in Txn, Advance(t) PROVE NumbersInv'
  BY <1>1, AdvanceNumbers
<1>2. ASSUME NEW t \in Txn, Commit(t) PROVE NumbersInv'
  BY <1>2, CommitNumbers
<1>3. ASSUME NEW t \in Txn, Fail(t) \/ Victim(t) PROVE NumbersInv'
  <2>1. /\ at' = at /\ numbers' = numbers /\ lastSeq' = lastSeq /\ feed' = feed
        /\ program' = program
        /\ \/ status' = [status EXCEPT ![t] = "failed"]
           \/ status' = [status EXCEPT ![t] = "victim"]
        /\ status \in [Txn -> {"running", "committed", "failed", "victim"}]
    BY <1>3 DEF Fail, Victim, NumbersInv, LockTypeOK
  <2>2. LInv'
    BY <2>1, EndKeeps DEF NumbersInv
  <2>3. LockTypeOK'
    BY <2>1 DEF NumbersInv, LockTypeOK
  <2>4. CommitOrderIsFeedOrder'
    BY <2>1 DEF NumbersInv, CommitOrderIsFeedOrder
  <2>5. ASSUME NEW u \in Txn PROVE Numbering(u)'
    <3>1. Running(u)' => Running(u)
      BY <2>1 DEF Running
    <3>2. HoldsState(u) /\ Running(u)' => HoldsState(u)'
      BY <2>1 DEF HoldsState
    <3> QED BY <2>1, <3>1, <3>2 DEF NumbersInv, Numbering
  <2> QED BY <2>2, <2>3, <2>4, <2>5 DEF NumbersInv
<1>4. CASE UNCHANGED vars
  BY <1>4 DEF vars, NumbersInv, LInv, AtOK, OneHolder, LockTypeOK, CommitOrderIsFeedOrder,
              Numbering, HoldsState, Running
<1> QED BY <1>1, <1>2, <1>3, <1>4 DEF Next

\* Whatever else transactions lock, and in whatever order: when they number their changes
\* under the state row, the committed changes are numbered without a gap in the order of
\* the commits; and every circle has somebody in it who did not take that row first.
THEOREM LocksAgree ==
  ASSUME \A w \in Workloads : \A t \in Txn : NumbersUnderState(w[t])
  PROVE  Spec => []LocksInv
<1>1. Init => NumbersInv
  BY InitNumbers
<1>2. NumbersInv => NumbersUnderLock
  BY DEF NumbersInv, LockTypeOK, NumbersUnderLock
<1>3. NumbersInv /\ [Next]_vars => NumbersInv'
  BY <1>2, NextKeepsNumbers
<1>4. NumbersInv => LocksInv
  BY CirclesAreDisorderly DEF NumbersInv, LocksInv
<1> QED BY <1>1, <1>3, <1>4, PTL DEF Spec

-----------------------------------------------------------------------------
(* The transactions of the code. *)

\* Locks only, or numbers under the state row: what may follow the state row.
Follows(q) ==
  /\ q \in Seq(Step)
  /\ \A i \in 1..Len(q) : q[i].act # "clear" /\ q[i].mode # "all"

\* A transaction that begins with the state row may go on with any rows.
LEMMA StateFirstExtends ==
  ASSUME NEW p, NEW q, Follows(p), Follows(q), StateFirst(p),
         \E j \in 1..Len(p) : p[j].mode = "row" /\ p[j].on = "state"
  PROVE  Follows(p \o q) /\ StateFirst(p \o q)
         /\ \E j \in 1..Len(p \o q) : (p \o q)[j].mode = "row" /\ (p \o q)[j].on = "state"
<1> DEFINE r == p \o q
<1>1. /\ p \in Seq(Step) /\ q \in Seq(Step) /\ r \in Seq(Step)
      /\ Len(p) \in Nat /\ Len(q) \in Nat /\ Len(r) = Len(p) + Len(q)
      /\ DOMAIN p = 1..Len(p) /\ DOMAIN r = 1..Len(r)
      /\ \A i \in 1..Len(p) : r[i] = p[i]
      /\ \A i \in 1..Len(r) : i > Len(p) => i - Len(p) \in 1..Len(q) /\ r[i] = q[i - Len(p)]
  BY DEF Follows
<1> HIDE DEF r
<1>2. PICK j \in 1..Len(p) : p[j].mode = "row" /\ p[j].on = "state"
  OBVIOUS
<1>3. j \in 1..Len(r) /\ r[j].mode = "row" /\ r[j].on = "state"
  BY <1>1, <1>2
<1>4. ASSUME NEW i \in 1..Len(r)
      PROVE  /\ r[i].act # "clear" /\ r[i].mode # "all"
             /\ r[i].mode = "row" => \E k \in 1..i : r[k].mode = "row" /\ r[k].on = "state"
  <2>1. CASE i <= Len(p)
    <3>1. i \in 1..Len(p) /\ i \in DOMAIN p /\ r[i] = p[i]
      BY <1>1, <2>1
    <3>2. \A k \in 1..i : r[k] = p[k]
      BY <1>1, <3>1
    <3> QED BY <3>1, <3>2 DEF StateFirst
  <2>2. CASE i > Len(p)
    <3>1. r[i].act # "clear" /\ r[i].mode # "all"
      BY <1>1, <2>2 DEF Follows
    <3>2. j \in 1..i
      BY <1>1, <1>2, <2>2
    <3> QED BY <1>3, <3>1, <3>2
  <2> QED BY <1>1, <2>1, <2>2
<1>5. Follows(r) /\ StateFirst(r)
  BY <1>1, <1>4 DEF Follows, StateFirst
<1> QED BY <1>3, <1>5 DEF r

LEMMA UnderStateExtends ==
  ASSUME NEW p \in Seq(Step), NEW q \in Seq(Step), NumbersUnderState(p), NumbersUnderState(q)
  PROVE  p \o q \in Seq(Step) /\ NumbersUnderState(p \o q)
<1> DEFINE r == p \o q
<1>1. /\ r \in Seq(Step) /\ DOMAIN r = 1..Len(r) /\ Len(p) \in Nat
      /\ DOMAIN p = 1..Len(p) /\ DOMAIN q = 1..Len(q)
      /\ \A i \in 1..Len(r) : i <= Len(p) => i \in 1..Len(p) /\ r[i] = p[i]
      /\ \A i \in 1..Len(r) : i > Len(p) => i - Len(p) \in 1..Len(q) /\ r[i] = q[i - Len(p)]
  OBVIOUS
<1> HIDE DEF r
<1>2. ASSUME NEW i \in 1..Len(r), r[i].act # "lock" PROVE r[i].on = "state"
  <2>1. CASE i <= Len(p)
    BY <1>1, <1>2, <2>1 DEF NumbersUnderState
  <2>2. CASE i > Len(p)
    <3>1. PICK k \in DOMAIN q : r[i] = q[k]
      BY <1>1, <2>2
    <3> QED BY <1>2, <3>1 DEF NumbersUnderState
  <2> QED BY <1>1, <2>1, <2>2
<1>3. NumbersUnderState(r)
  BY <1>1, <1>2 DEF NumbersUnderState
<1> QED BY <1>1, <1>3 DEF r

LEMMA Parts ==
  ASSUME NEW m \in {"mirror", "docMirror"}
  PROVE  /\ Follows(Capture(m)) /\ NumbersUnderState(Capture(m))
  BY DEF Follows, NumbersUnderState, Capture, Number, Use, Row, Step, Resource

LEMMA CodeNumbersUnderState == \A p \in Programs : NumbersUnderState(p)
<1> DEFINE Good(p) == p \in Seq(Step) /\ NumbersUnderState(p)
<1>1. Good(PushBegins)
  BY DEF PushBegins, NumbersUnderState, Use, Row, Step, Resource
<1>2. Good(Capture("mirror")) /\ Good(Capture("docMirror"))
  BY Parts DEF Follows
<1>3. Good(<<Use("records"), Row("mirror"), Use("app"), Row("source")>>)
  BY DEF NumbersUnderState, Use, Row, Step, Resource
<1>4. Good(<<Use("mutations")>>) /\ Good(<<Use("docs"), Row("doc")>>)
  BY DEF NumbersUnderState, Use, Row, Step, Resource
<1>5. Good(<<Use("app"), Row("state"), Row("source")>>) /\ Good(<<Use("app"), Row("source")>>)
      /\ Good(<<Use("docs"), Row("state"), Row("doc")>>)
  BY DEF NumbersUnderState, Use, Row, Step, Resource
<1>6. Good(Compact)
  BY DEF Compact, NumbersUnderState, Use, Row, Step, Resource
<1>7. Good(Reset)
  BY DEF Reset, NumbersUnderState, All, Row, Step, Resource
<1>8. \A p, q : Good(p) /\ Good(q) => Good(p \o q)
  BY UnderStateExtends
<1> HIDE DEF Good
<1>9. Good(PushTable)
  BY <1>1, <1>2, <1>3, <1>4, <1>8 DEF PushTable
<1>10. Good(PushDocs)
  BY <1>1, <1>2, <1>4, <1>8 DEF PushDocs
<1>11. Good(DirectSql) /\ Good(GuideSql) /\ Good(ExternalWrite)
  BY <1>2, <1>5, <1>8 DEF DirectSql, GuideSql, ExternalWrite
<1> QED BY <1>6, <1>7, <1>9, <1>10, <1>11 DEF Programs, OrderlyPrograms, Good

LEMMA CodeTakesStateFirst == \A p \in OrderlyPrograms : StateFirst(p)
<1> DEFINE Good(p) == /\ Follows(p) /\ StateFirst(p)
                      /\ \E j \in 1..Len(p) : p[j].mode = "row" /\ p[j].on = "state"
<1>1. Good(PushBegins)
  BY DEF PushBegins, Follows, StateFirst, Use, Row, Step, Resource
<1>2. Follows(Capture("mirror")) /\ Follows(Capture("docMirror"))
  BY Parts
<1>3. Follows(<<Use("records"), Row("mirror"), Use("app"), Row("source")>>)
  BY DEF Follows, Use, Row, Step, Resource
<1>4. Follows(<<Use("mutations")>>) /\ Follows(<<Use("docs"), Row("doc")>>)
  BY DEF Follows, Use, Row, Step, Resource
<1>5. Good(<<Use("app"), Row("state"), Row("source")>>)
  BY DEF Follows, StateFirst, Use, Row, Step, Resource
<1>6. Good(<<Use("docs"), Row("state"), Row("doc")>>)
  BY DEF Follows, StateFirst, Use, Row, Step, Resource
<1>7. Good(Compact)
  BY DEF Compact, Follows, StateFirst, Use, Row, Step, Resource
<1>8. \A p, q : Good(p) /\ Follows(q) => Good(p \o q)
  BY StateFirstExtends
<1> HIDE DEF Good
<1>9. Good(PushTable)
  BY <1>1, <1>2, <1>3, <1>4, <1>8 DEF PushTable
<1>10. Good(PushDocs)
  BY <1>1, <1>2, <1>4, <1>8 DEF PushDocs
<1>11. Good(DirectSql) /\ Good(ExternalWrite)
  BY <1>2, <1>5, <1>6, <1>8 DEF DirectSql, ExternalWrite
<1> QED BY <1>7, <1>9, <1>10, <1>11 DEF OrderlyPrograms, Good

\* Any number of pushes, captured statements, external writes and compactions never
\* deadlock.
THEOREM CodeNeverDeadlocks == Spec => []NobodyWaitsForAWaiter
<1>1. (Orderly => NoChain) => NobodyWaitsForAWaiter
  BY CodeTakesStateFirst DEF Orderly, NoChain, NobodyWaitsForAWaiter
<1> QED BY <1>1, OrderlyNeverDeadlock, PTL

\* Any number of the transactions of the code, the statements of the guide and resets
\* among them: sequence numbers follow commits, and a circle needs one of the latter.
THEOREM CodeLocksAgree ==
  ASSUME Workloads \subseteq [Txn -> Programs]
  PROVE  Spec => []LocksInv
<1>1. \A w \in Workloads : \A t \in Txn : NumbersUnderState(w[t])
  BY CodeNumbersUnderState
<1> QED BY <1>1, LocksAgree

-----------------------------------------------------------------------------
\* The migrations.

TriggerKind == {"none", "document", "generic", "registered"}
View == [history : Seq(STRING), trigger : TriggerKind, mirror : Nat]

Prefix(p, q) == Len(p) <= Len(q) /\ \A i \in 1..Len(p) : p[i] = q[i]

\* A history of known migrations and the trigger the last of them leaves.
Consistent(v) ==
  v \in View /\ Len(v.history) <= 3 /\ v.trigger = Schema!Trigger(Len(v.history))

Phases == Schema!InTransaction \cup {"new", "refused", "failed", "migrated", "ensured", "serving"}

Typed ==
  /\ docs \in [version : Nat, change : Nat]
  /\ phase \in [Starter -> Phases]
  /\ work \in [Starter -> View]
  /\ ddl \subseteq Starter
  /\ seeded \in {"absent", "seed", "edited"}

\* One starter is in its transaction, and only it, once it has compared the history,
\* keeps the documents locked.
Alone ==
  /\ \A s, u \in Starter : phase[s] \in Schema!InTransaction /\ phase[u] \in Schema!InTransaction => s = u
  /\ \A s \in ddl : phase[s] \in {"applying", "copied"}

\* A transaction goes on from the committed history, along its own build once that
\* has been compared.
Working(s) ==
  /\ phase[s] \in Schema!InTransaction =>
       Consistent(work[s]) /\ Prefix(db.history, work[s].history)
  /\ phase[s] = "locked" => work[s].history = db.history
  /\ phase[s] \in {"applying", "copied"} => Prefix(work[s].history, Build[s])
  /\ phase[s] = "copied" => Len(work[s].history) = 1 /\ Len(Build[s]) >= 2

HInv == Typed /\ Alone /\ Consistent(db) /\ \A s \in Starter : Working(s)

\* What the mirror has, or will have when the transaction commits, lacks the writes since
\* the documents were copied into it.
MirrorInv ==
  /\ missed \in Nat
  /\ docs.change = docs.version \/ (Schema!HasMirror(Len(db.history)) /\ docs.change = db.mirror)
  /\ Schema!HasMirror(Len(db.history)) => db.mirror + missed = docs.version
  /\ \A s \in Starter :
       /\ phase[s] \in Schema!InTransaction /\ ~ Schema!HasMirror(Len(db.history))
       /\ phase[s] = "copied" \/ Schema!HasMirror(Len(work[s].history))
       => work[s].mirror + missed = docs.version

MInv == HInv /\ MirrorInv

-----------------------------------------------------------------------------
LEMMA Builds ==
  /\ \A s \in Starter : Build[s] \in Seq(STRING) /\ Len(Build[s]) \in 1..3
  /\ \A h \in Initial : h \in Seq(STRING) /\ Len(h) \in 0..3
BY SchemaAssumption

LEMMA Triggers == \A n \in 0..3 : Schema!Trigger(n) \in TriggerKind
BY DEF Schema!Trigger, TriggerKind

LEMMA PrefixesGrow ==
  ASSUME NEW p \in Seq(STRING), NEW q \in Seq(STRING), NEW r \in Seq(STRING), Prefix(p, q), Prefix(q, r)
  PROVE  Prefix(p, r)
<1>1. Len(p) \in Nat /\ Len(q) \in Nat /\ Len(r) \in Nat
  OBVIOUS
<1>2. \A i \in 1..Len(p) : i \in 1..Len(q)
  BY <1>1 DEF Prefix
<1> QED BY <1>1, <1>2 DEF Prefix

LEMMA PrefixOfItself == \A p : Len(p) \in Nat => Prefix(p, p)
BY DEF Prefix

\* A prefix as long as the whole is the whole.
LEMMA WholePrefix ==
  ASSUME NEW p \in Seq(STRING), NEW q \in Seq(STRING), Prefix(p, q), Len(p) >= Len(q)
  PROVE  p = q
<1>1. Len(p) = Len(q)
  BY DEF Prefix
<1> QED BY <1>1 DEF Prefix

LEMMA PrefixIsSubSeq ==
  ASSUME NEW p \in Seq(STRING), NEW q \in Seq(STRING), Prefix(p, q)
  PROVE  SubSeq(q, 1, Len(p)) = p
<1> DEFINE r == SubSeq(q, 1, Len(p))
<1>1. Len(p) \in Nat /\ Len(q) \in Nat /\ Len(p) <= Len(q)
  BY DEF Prefix
<1>2. r \in Seq(STRING) /\ Len(r) = Len(p) /\ \A i \in 1..Len(p) : r[i] = q[i]
  BY <1>1
<1> HIDE DEF r
<1>3. Prefix(p, r)
  BY <1>1, <1>2 DEF Prefix
<1>4. p = r
  BY <1>1, <1>2, <1>3, WholePrefix
<1> QED BY <1>4 DEF r

\* Recording the next migration.
LEMMA NextRecorded ==
  ASSUME NEW h \in Seq(STRING), NEW b \in Seq(STRING), NEW n \in Nat, Len(h) = n - 1, Len(h) < Len(b),
         Prefix(h, b)
  PROVE  LET r == Append(h, b[n])
         IN r \in Seq(STRING) /\ Len(r) = n /\ Prefix(h, r) /\ Prefix(r, b)
<1> DEFINE r == Append(h, b[n])
<1>1. Len(h) \in Nat /\ Len(b) \in Nat /\ n \in 1..Len(b) /\ b[n] \in STRING
  OBVIOUS
<1>2. r \in Seq(STRING) /\ Len(r) = n /\ r[n] = b[n] /\ \A i \in 1..Len(h) : r[i] = h[i]
  BY <1>1
<1> HIDE DEF r
<1>3. Prefix(h, r)
  BY <1>1, <1>2 DEF Prefix
<1>4. \A i \in 1..n : i = n \/ i \in 1..Len(h)
  BY <1>1
<1>5. Prefix(r, b)
  BY <1>1, <1>2, <1>4 DEF Prefix
<1> QED BY <1>2, <1>3, <1>5 DEF r
-----------------------------------------------------------------------------
(* The history and the schema. *)

LEMMA StartsConsistent == Schema!Init => HInv
<1> SUFFICES ASSUME Schema!Init PROVE HInv
  OBVIOUS
<1>1. PICK h \in Initial :
        LET written == IF h = <<>> THEN 0 ELSE 1 IN
        /\ docs = [version |-> written, change |-> written]
        /\ db = [history |-> h, trigger |-> Schema!Trigger(Len(h)),
                 mirror |-> IF Schema!HasMirror(Len(h)) THEN written ELSE 0]
        /\ phase = [s \in Starter |-> "new"] /\ work = [s \in Starter |-> db]
        /\ ddl = {} /\ seeded = "absent"
  BY DEF Schema!Init
<1>2. h \in Seq(STRING) /\ Len(h) \in 0..3 /\ Len(h) <= 3
  <2>1. h \in Seq(STRING) /\ Len(h) \in 0..3
    BY Builds
  <2>2. Len(h) \in 0..3
    BY <2>1
  <2>3. \A n \in 0..3 : n <= 3
    OBVIOUS
  <2> QED BY ONLY <2>1, <2>2, <2>3, Zenon
<1>3. Schema!Trigger(Len(h)) \in TriggerKind
  BY <1>2, Triggers
<1>4. Consistent(db)
  <2>1. db.history = h /\ db.trigger = Schema!Trigger(Len(h)) /\ db.mirror \in Nat
    BY <1>1
  <2>2. db = [history |-> db.history, trigger |-> db.trigger, mirror |-> db.mirror]
    BY <1>1
  <2>3. db.history \in Seq(STRING) /\ db.trigger \in TriggerKind /\ Len(db.history) <= 3
    BY ONLY <1>2, <1>3, <2>1, Zenon
  <2>4. db \in View
    BY <2>1, <2>2, <2>3 DEF View
  <2>5. db.trigger = Schema!Trigger(Len(db.history))
    BY <2>1
  <2> QED BY <2>3, <2>4, <2>5 DEF Consistent
<1>5. Typed
  BY <1>1, <1>4 DEF Typed, Consistent, Phases
<1>6. Alone /\ \A s \in Starter : Working(s)
  BY <1>1 DEF Alone, Working, Schema!InTransaction
<1> QED BY <1>4, <1>5, <1>6 DEF HInv

\* A step of a transaction: what it sees goes on from the committed history and, once
\* compared, follows its build.
LEMMA StepOfTransaction ==
  ASSUME HInv, NEW s \in Starter, NEW p \in Schema!InTransaction, NEW w,
         phase[s] \in Schema!InTransaction \/ Schema!LockFree,
         phase' = [phase EXCEPT ![s] = p], work' = [work EXCEPT ![s] = w],
         db' = db, docs' = docs, seeded' = seeded,
         ddl' = ddl \/ (ddl' = {s} /\ p # "locked"),
         p = "locked" => phase[s] \notin Schema!InTransaction,
         Consistent(w), Prefix(db.history, w.history),
         p = "locked" => w.history = db.history,
         p \in {"applying", "copied"} => Prefix(w.history, Build[s]),
         p = "copied" => Len(w.history) = 1 /\ Len(Build[s]) >= 2
  PROVE  HInv'
<1>1. /\ phase \in [Starter -> Phases] /\ work \in [Starter -> View] /\ w \in View
      /\ Typed /\ Alone /\ Consistent(db) /\ p \in Phases /\ p # "new"
  BY DEF HInv, Typed, Consistent, Phases, Schema!InTransaction
<1>2. /\ \A u \in Starter : phase'[u] = IF u = s THEN p ELSE phase[u]
      /\ \A u \in Starter : work'[u] = IF u = s THEN w ELSE work[u]
  BY <1>1
<1>3. Typed'
  BY <1>1 DEF Typed
<1>4. \A u \in Starter : u # s => phase[u] \notin Schema!InTransaction
  BY <1>1 DEF Alone, Schema!LockFree
<1>5. Alone'
  BY <1>1, <1>2, <1>4 DEF Alone, Typed, Schema!InTransaction
<1>6. ASSUME NEW u \in Starter PROVE Working(u)'
  <2>1. CASE u = s
    <3>1. phase'[u] = p /\ work'[u] = w
      BY <1>2, <2>1
    <3> QED BY <2>1, <3>1 DEF Working, Consistent
  <2>2. CASE u # s
    <3>1. phase'[u] = phase[u] /\ work'[u] = work[u] /\ phase[u] \notin Schema!InTransaction
      BY <1>2, <1>4, <2>2
    <3> QED BY <3>1 DEF Working, Schema!InTransaction
  <2> QED BY <2>1, <2>2
<1>7. Consistent(db)'
  BY <1>1 DEF Consistent
<1> QED BY <1>3, <1>5, <1>6, <1>7 DEF HInv

\* A step outside a transaction, or that ends one: what is committed grows or stays.
LEMMA StepOutside ==
  ASSUME HInv, NEW s \in Starter, NEW p \in Phases \ Schema!InTransaction,
         phase' = [phase EXCEPT ![s] = p], work' = work, ddl' = ddl \ {s},
         docs' = docs, seeded' \in {"absent", "seed", "edited"}, Consistent(db'),
         db' = db \/ phase[s] \in Schema!InTransaction
  PROVE  HInv'
<1>1. Typed /\ Alone /\ phase \in [Starter -> Phases] /\ p \in Phases
  BY DEF HInv, Typed
<1>2. \A u \in Starter : phase'[u] = IF u = s THEN p ELSE phase[u]
  BY <1>1
<1>3. Typed'
  BY <1>1 DEF Typed
<1>4. Alone'
  BY <1>1, <1>2 DEF Alone, Typed
<1>5. ASSUME NEW u \in Starter PROVE Working(u)'
  <2>1. CASE phase'[u] \in Schema!InTransaction
    <3>1. u # s /\ phase'[u] = phase[u]
      BY <1>2, <2>1
    <3>2. db' = db /\ Working(u)
      BY <1>1, <2>1, <3>1 DEF Alone, HInv
    <3> QED BY <3>1, <3>2 DEF Working, Consistent
  <2>2. CASE phase'[u] \notin Schema!InTransaction
    BY <2>2 DEF Working, Schema!InTransaction
  <2> QED BY <2>1, <2>2
<1>6. Consistent(db)'
  BY DEF Consistent
<1> QED BY <1>3, <1>4, <1>5, <1>6 DEF HInv

\* What a step of a transaction leaves in its view.
LEMMA NewView ==
  ASSUME NEW v, Consistent(v), NEW r \in Seq(STRING), NEW n \in 1..3, Len(r) = n
  PROVE  Consistent([v EXCEPT !.history = r, !.trigger = Schema!Trigger(n)])
<1> DEFINE w == [v EXCEPT !.history = r, !.trigger = Schema!Trigger(n)]
<1>1. v \in View /\ Schema!Trigger(n) \in TriggerKind
  BY Triggers DEF Consistent
<1>2. w.history = r /\ w.trigger = Schema!Trigger(n) /\ w \in View
  BY <1>1 DEF View
<1> HIDE DEF w
<1>3. Consistent(w)
  BY <1>2 DEF Consistent
<1> QED BY <1>3 DEF w

\* The next migration is recorded by a transaction that has compared the history.
LEMMA MigrationKeeps ==
  ASSUME HInv, NEW s \in Starter, NEW n \in 1..3, phase[s] \in {"applying", "copied"},
         Len(work[s].history) = n - 1, Len(work[s].history) < Len(Build[s]),
         phase' = [phase EXCEPT ![s] = "applying"], Schema!Exclusive(s),
         work' = [work EXCEPT ![s].history = Schema!Recorded(s, n), ![s].trigger = Schema!Trigger(n)],
         db' = db, docs' = docs, seeded' = seeded
  PROVE  HInv'
<1> DEFINE r == Append(work[s].history, Build[s][n])
           w == [work[s] EXCEPT !.history = r, !.trigger = Schema!Trigger(n)]
<1>1. /\ phase[s] \in Schema!InTransaction /\ Consistent(work[s]) /\ work \in [Starter -> View]
      /\ Prefix(db.history, work[s].history) /\ Prefix(work[s].history, Build[s]) /\ Consistent(db)
  BY DEF HInv, Working, Schema!InTransaction, Typed
<1>2. work[s].history \in Seq(STRING) /\ Build[s] \in Seq(STRING) /\ db.history \in Seq(STRING)
  BY <1>1, Builds DEF Consistent, View
<1>3. r \in Seq(STRING) /\ Len(r) = n /\ Prefix(work[s].history, r) /\ Prefix(r, Build[s])
  BY <1>1, <1>2, NextRecorded
<1>4. Prefix(db.history, r)
  BY <1>1, <1>2, <1>3, PrefixesGrow
<1> HIDE DEF r
<1>5. Consistent(w) /\ w.history = r
  BY <1>1, <1>3, NewView DEF Consistent, View
<1>6. work' = [work EXCEPT ![s] = w]
  BY <1>1 DEF Schema!Recorded, r
<1> HIDE DEF w
<1>7. ddl' = ddl \/ ddl' = {s}
  BY DEF Schema!Exclusive
<1>8. "applying" \in Schema!InTransaction /\ "applying" # "locked" /\ "applying" # "copied"
  BY DEF Schema!InTransaction
<1> QED BY <1>1, <1>3, <1>4, <1>5, <1>6, <1>7, <1>8, StepOfTransaction

LEMMA BeginKeeps ==
  ASSUME HInv, NEW s \in Starter, Schema!Begin(s) PROVE HInv'
<1>1. Consistent(db) /\ Prefix(db.history, db.history) /\ "locked" \in Schema!InTransaction
  BY PrefixOfItself DEF HInv, Consistent, View, Schema!InTransaction
<1>2. /\ phase[s] \notin Schema!InTransaction /\ Schema!LockFree
      /\ phase' = [phase EXCEPT ![s] = "locked"] /\ work' = [work EXCEPT ![s] = db]
      /\ db' = db /\ docs' = docs /\ ddl' = ddl /\ seeded' = seeded
  BY DEF Schema!Begin, Schema!LockFree, Schema!InTransaction
<1> QED BY ONLY HInv, <1>1, <1>2, StepOfTransaction

LEMMA CheckKeeps ==
  ASSUME HInv, NEW s \in Starter, Schema!Check(s) PROVE HInv'
<1>1. /\ phase[s] = "locked" /\ Consistent(work[s]) /\ Prefix(db.history, work[s].history)
      /\ work \in [Starter -> View] /\ phase[s] \in Schema!InTransaction /\ Consistent(db) /\ Typed
      /\ Alone
  BY DEF Schema!Check, HInv, Working, Schema!InTransaction, Typed
<1>2. work' = [work EXCEPT ![s] = work[s]] /\ work' = work
  BY <1>1 DEF Schema!Check
<1>3. CASE Schema!Validate(work[s].history, Build[s])
  <2>1. work[s].history \in Seq(STRING) /\ Build[s] \in Seq(STRING)
    BY <1>1, Builds DEF Consistent, View
  <2>2. /\ \A i \in 1..Len(work[s].history) : i \in 1..Len(Build[s]) /\ work[s].history[i] = Build[s][i]
        /\ Len(work[s].history) \in Nat /\ Len(Build[s]) \in Nat
    BY <1>3, <2>1 DEF Schema!Validate
  <2>3. Len(work[s].history) <= Len(Build[s])
    BY <2>2
  <2>4. Prefix(work[s].history, Build[s])
    BY <2>2, <2>3 DEF Prefix
  <2>5. phase' = [phase EXCEPT ![s] = "applying"] /\ "applying" \in Schema!InTransaction
    BY <1>3 DEF Schema!Check, Schema!InTransaction
  <2> QED BY <1>1, <1>2, <2>4, <2>5, StepOfTransaction DEF Schema!Check
<1>4. CASE ~ Schema!Validate(work[s].history, Build[s])
  <2>1. phase' = [phase EXCEPT ![s] = "refused"] /\ "refused" \in Phases \ Schema!InTransaction
    BY <1>4 DEF Schema!Check, Schema!InTransaction, Phases
  <2>2. ddl' = ddl \ {s}
    BY <1>1 DEF Schema!Check, Alone
  <2> QED BY <1>1, <1>2, <2>1, <2>2, StepOutside DEF Schema!Check, Typed
<1> QED BY <1>3, <1>4

LEMMA CopyKeeps ==
  ASSUME HInv, NEW s \in Starter, Schema!CopyDocuments(s) PROVE HInv'
<1>1. /\ phase[s] = "applying" /\ Len(work[s].history) = 1 /\ Len(Build[s]) >= 2
      /\ Consistent(work[s]) /\ Prefix(db.history, work[s].history)
      /\ Prefix(work[s].history, Build[s]) /\ work \in [Starter -> View] /\ docs.version \in Nat
  <2>1. Len(work[s].history) = 2 - 1 /\ Len(work[s].history) < Len(Build[s]) /\ phase[s] = "applying"
    BY DEF Schema!CopyDocuments, Schema!Pending, Schema!Applied
  <2>2. Len(Build[s]) >= 2
    BY <2>1, Builds
  <2> QED BY <2>1, <2>2 DEF HInv, Working, Schema!InTransaction, Typed
<1> DEFINE w == [work[s] EXCEPT !.mirror = docs.version]
<1>2. w.history = work[s].history /\ Consistent(w)
  <2>1. w.history = work[s].history /\ w.trigger = work[s].trigger /\ w \in View
    BY <1>1 DEF Consistent, View
  <2> HIDE DEF w
  <2> QED BY <1>1, <2>1 DEF Consistent
<1>3. work' = [work EXCEPT ![s] = w]
  BY <1>1 DEF Schema!CopyDocuments
<1> HIDE DEF w
<1>4. /\ phase' = [phase EXCEPT ![s] = "copied"] /\ "copied" \in Schema!InTransaction
      /\ phase[s] \in Schema!InTransaction /\ "copied" # "locked"
      /\ db' = db /\ docs' = docs /\ ddl' = ddl /\ seeded' = seeded
  BY <1>1 DEF Schema!CopyDocuments, Schema!InTransaction
<1>5. Prefix(db.history, w.history) /\ Prefix(w.history, Build[s])
  BY <1>1, <1>2
<1> QED BY ONLY HInv, <1>1, <1>2, <1>3, <1>4, <1>5, StepOfTransaction

\* What the commit leaves: the history of the transaction, all of its build.
LEMMA Committed ==
  ASSUME HInv, NEW s \in Starter, Schema!Commit(s)
  PROVE  /\ Consistent(db') /\ db'.history = work[s].history /\ db'.history = Build[s]
         /\ Prefix(db.history, db'.history)
         /\ db'.mirror = IF Schema!HasMirror(Len(db.history)) THEN db.mirror ELSE work[s].mirror
         /\ phase[s] \in Schema!InTransaction
<1>1. /\ phase[s] = "applying" /\ phase[s] \in Schema!InTransaction
      /\ Consistent(work[s]) /\ Consistent(db)
      /\ Prefix(db.history, work[s].history) /\ Prefix(work[s].history, Build[s])
      /\ Len(work[s].history) >= Len(Build[s])
  BY DEF Schema!Commit, Schema!Applied, HInv, Working, Schema!InTransaction
<1> DEFINE m == IF Schema!HasMirror(Len(db.history)) THEN db.mirror ELSE work[s].mirror
<1>2. m \in Nat
  BY <1>1 DEF Consistent, View
<1>3. db' = [work[s] EXCEPT !.mirror = m]
  BY DEF Schema!Commit
<1> HIDE DEF m
<1>4. db'.history = work[s].history /\ db'.trigger = work[s].trigger /\ db'.mirror = m /\ db' \in View
  BY <1>1, <1>2, <1>3 DEF Consistent, View
<1>5. Consistent(db')
  BY <1>1, <1>4 DEF Consistent
<1>6. work[s].history = Build[s]
  BY <1>1, Builds, WholePrefix DEF Consistent, View
<1> QED BY <1>1, <1>4, <1>5, <1>6 DEF m

LEMMA CommitKeeps ==
  ASSUME HInv, NEW s \in Starter, Schema!Commit(s) PROVE HInv'
<1>1. Consistent(db') /\ phase[s] \in Schema!InTransaction
  BY Committed
<1>2. /\ phase' = [phase EXCEPT ![s] = "migrated"] /\ "migrated" \in Phases \ Schema!InTransaction
      /\ work' = work /\ ddl' = ddl \ {s} /\ docs' = docs /\ seeded' \in {"absent", "seed", "edited"}
  BY DEF Schema!Commit, Schema!Unlock, Phases, Schema!InTransaction, HInv, Typed
<1> QED BY ONLY HInv, <1>1, <1>2, StepOutside

LEMMA OutsideKeeps ==
  ASSUME HInv, NEW s \in Starter,
         Schema!Fail(s) \/ Schema!Restart(s) \/ Schema!EnsureApp(s) \/ Schema!Seed(s)
  PROVE  HInv' /\ db' = db
<1>1. PICK p \in {"failed", "new", "ensured", "serving"} : phase' = [phase EXCEPT ![s] = p]
  BY DEF Schema!Fail, Schema!Restart, Schema!EnsureApp, Schema!Seed
<1>2. p \in Phases \ Schema!InTransaction
  BY <1>1 DEF Phases, Schema!InTransaction
<1>3. /\ work' = work /\ db' = db /\ docs' = docs
      /\ seeded' \in {"absent", "seed", "edited"}
  BY DEF Schema!Fail, Schema!Restart, Schema!EnsureApp, Schema!Seed, HInv, Typed
<1>4. ddl' = ddl \ {s}
  <2>1. CASE Schema!Fail(s)
    BY <2>1 DEF Schema!Fail, Schema!Unlock
  <2>2. CASE Schema!Restart(s) \/ Schema!EnsureApp(s) \/ Schema!Seed(s)
    BY <2>2 DEF Schema!Restart, Schema!EnsureApp, Schema!Seed, HInv, Alone
  <2> QED BY <2>1, <2>2
<1>5. Consistent(db')
  BY <1>3 DEF HInv
<1> QED BY ONLY HInv, <1>1, <1>2, <1>3, <1>4, <1>5, StepOutside

\* A document is written, or the seed document edited: the history stays.
LEMMA WritersKeep ==
  ASSUME HInv, Schema!Write \/ Schema!EditSeed PROVE HInv' /\ db'.history = db.history
<1>1. Typed /\ Consistent(db) /\ db \in View /\ docs \in [version : Nat, change : Nat]
  BY DEF HInv, Typed, Consistent
<1>2. /\ phase' = phase /\ work' = work /\ ddl' = ddl
      /\ db'.history = db.history /\ db'.trigger = db.trigger /\ db' \in View
      /\ docs' \in [version : Nat, change : Nat] /\ seeded' \in {"absent", "seed", "edited"}
  <2>1. CASE Schema!Write
    <3>1. db'.history = db.history /\ db'.trigger = db.trigger /\ db' \in View
      <4>1. PICK m \in Nat : db' = [db EXCEPT !.mirror = m]
        <5>1. db.mirror \in Nat /\ db.mirror + 1 \in Nat
          BY <1>1 DEF View
        <5>2. CASE Schema!HasMirror(Len(db.history))
          BY <5>1, <5>2, <2>1 DEF Schema!Write
        <5>3. CASE ~ Schema!HasMirror(Len(db.history))
          BY <5>1, <5>3, <2>1 DEF Schema!Write
        <5> QED BY <5>2, <5>3
      <4> QED BY <1>1, <4>1 DEF View
    <3>2. docs' \in [version : Nat, change : Nat]
      BY <1>1, <2>1 DEF Schema!Write, View
    <3> QED BY <1>1, <2>1, <3>1, <3>2 DEF Schema!Write, Typed
  <2>2. CASE Schema!EditSeed
    BY <1>1, <2>2 DEF Schema!EditSeed
  <2> QED BY <2>1, <2>2
<1>3. Typed' /\ Alone'
  BY <1>1, <1>2 DEF Typed, Alone, HInv
<1>4. Consistent(db)'
  BY <1>1, <1>2 DEF Consistent
<1>5. \A s \in Starter : Working(s)'
  BY <1>2 DEF HInv, Working, Consistent
<1> QED BY <1>2, <1>3, <1>4, <1>5 DEF HInv

LEMMA StarterKeeps ==
  ASSUME HInv, NEW s \in Starter, Schema!Migrate(s) \/ Schema!Fail(s) \/ Schema!Restart(s) PROVE HInv'
<1>1. CASE Schema!CreateSchema(s)
  <2>1. Len(work[s].history) = 1 - 1 /\ Len(work[s].history) < Len(Build[s]) /\ phase[s] = "applying"
    BY <1>1 DEF Schema!CreateSchema, Schema!Pending, Schema!Applied
  <2>2. phase' = [phase EXCEPT ![s] = "applying"]
    BY <1>1, <2>1 DEF Schema!CreateSchema, HInv, Typed
  <2>3. /\ Schema!Exclusive(s) /\ db' = db /\ docs' = docs /\ seeded' = seeded
        /\ work' = [work EXCEPT ![s].history = Schema!Recorded(s, 1), ![s].trigger = Schema!Trigger(1)]
    BY <1>1 DEF Schema!CreateSchema
  <2>4. 1 \in 1..3 /\ phase[s] \in {"applying", "copied"}
    BY <2>1
  <2> QED BY ONLY HInv, <2>1, <2>2, <2>3, <2>4, MigrationKeeps
<1>2. CASE Schema!OrderedCapture(s)
  <2>1. Len(work[s].history) = 3 - 1 /\ Len(work[s].history) < Len(Build[s]) /\ phase[s] = "applying"
    BY <1>2 DEF Schema!OrderedCapture, Schema!Pending, Schema!Applied
  <2>2. phase' = [phase EXCEPT ![s] = "applying"]
    BY <1>2, <2>1 DEF Schema!OrderedCapture, HInv, Typed
  <2>3. /\ Schema!Exclusive(s) /\ db' = db /\ docs' = docs /\ seeded' = seeded
        /\ work' = [work EXCEPT ![s].history = Schema!Recorded(s, 3), ![s].trigger = Schema!Trigger(3)]
    BY <1>2 DEF Schema!OrderedCapture
  <2>4. 3 \in 1..3 /\ phase[s] \in {"applying", "copied"}
    BY <2>1
  <2> QED BY ONLY HInv, <2>1, <2>2, <2>3, <2>4, MigrationKeeps
<1>3. CASE Schema!GenericCapture(s)
  <2>1. phase[s] = "copied" /\ Len(work[s].history) = 2 - 1 /\ Len(work[s].history) < Len(Build[s])
    <3>1. phase[s] = "copied"
      BY <1>3 DEF Schema!GenericCapture
    <3>2. Len(work[s].history) = 1 /\ Len(Build[s]) >= 2
      BY <3>1 DEF HInv, Working
    <3>3. Len(Build[s]) \in 1..3
      BY Builds
    <3> QED BY <3>1, <3>2, <3>3
  <2>3. /\ Schema!Exclusive(s) /\ db' = db /\ docs' = docs /\ seeded' = seeded
        /\ phase' = [phase EXCEPT ![s] = "applying"]
        /\ work' = [work EXCEPT ![s].history = Schema!Recorded(s, 2), ![s].trigger = Schema!Trigger(2)]
    BY <1>3 DEF Schema!GenericCapture
  <2>4. 2 \in 1..3 /\ phase[s] \in {"applying", "copied"}
    BY <2>1
  <2> QED BY ONLY HInv, <2>1, <2>3, <2>4, MigrationKeeps
<1>4. CASE Schema!Begin(s)
  BY <1>4, BeginKeeps
<1>5. CASE Schema!Check(s)
  BY <1>5, CheckKeeps
<1>6. CASE Schema!CopyDocuments(s)
  BY <1>6, CopyKeeps
<1>7. CASE Schema!Commit(s)
  BY <1>7, CommitKeeps
<1>8. CASE Schema!Fail(s) \/ Schema!Restart(s) \/ Schema!EnsureApp(s) \/ Schema!Seed(s)
  BY <1>8, OutsideKeeps
<1> QED BY <1>1, <1>2, <1>3, <1>4, <1>5, <1>6, <1>7, <1>8 DEF Schema!Migrate

LEMMA HistoryIsInductive == HInv /\ [Schema!Next]_(Schema!vars) => HInv'
<1> SUFFICES ASSUME HInv, [Schema!Next]_(Schema!vars) PROVE HInv'
  OBVIOUS
<1>1. ASSUME NEW s \in Starter, Schema!Migrate(s) \/ Schema!Fail(s) \/ Schema!Restart(s) PROVE HInv'
  BY <1>1, StarterKeeps
<1>2. CASE Schema!Write \/ Schema!EditSeed
  BY <1>2, WritersKeep
<1>3. CASE UNCHANGED Schema!vars
  BY <1>3 DEF Schema!vars, HInv, Typed, Alone, Consistent, Working
<1> QED BY <1>1, <1>2, <1>3 DEF Schema!Next

\* A step of SchemaOnlyMovesForward.
Forward ==
  /\ db'.history = db.history \/ SubSeq(db'.history, 1, Len(db.history)) = db.history
  /\ \A s \in Starter : phase[s] # "migrated" /\ phase'[s] = "migrated" => db'.history = Build[s]
  /\ seeded = "edited" => seeded' = "edited"

LEMMA StepsGoForward == HInv /\ [Schema!Next]_(Schema!vars) => [Forward]_(Schema!vars)
<1> SUFFICES ASSUME HInv, Schema!Next PROVE Forward
  OBVIOUS
<1>1. phase \in [Starter -> Phases]
  BY DEF HInv, Typed
<1>2. seeded = "edited" => seeded' = "edited"
  BY DEF Schema!Next, Schema!Migrate, Schema!Begin, Schema!Check, Schema!CreateSchema,
         Schema!CopyDocuments, Schema!GenericCapture, Schema!OrderedCapture, Schema!Commit,
         Schema!EnsureApp, Schema!Seed, Schema!Fail, Schema!Restart, Schema!Write, Schema!EditSeed
<1>3. ASSUME NEW s \in Starter, Schema!Commit(s) PROVE Forward
  <2>1. db'.history = Build[s] /\ Prefix(db.history, db'.history)
    BY <1>3, Committed
  <2>2. db.history \in Seq(STRING) /\ db'.history \in Seq(STRING)
    BY <1>3, Committed DEF HInv, Consistent, View
  <2>3. SubSeq(db'.history, 1, Len(db.history)) = db.history
    BY <2>1, <2>2, PrefixIsSubSeq
  <2>4. phase' = [phase EXCEPT ![s] = "migrated"]
    BY <1>3 DEF Schema!Commit
  <2> QED BY <1>1, <1>2, <2>1, <2>3, <2>4 DEF Forward
<1>4. ASSUME NEW s \in Starter, Schema!Begin(s) \/ Schema!Check(s) \/ Schema!CreateSchema(s)
              \/ Schema!CopyDocuments(s) \/ Schema!GenericCapture(s) \/ Schema!OrderedCapture(s)
              \/ Schema!EnsureApp(s) \/ Schema!Seed(s) \/ Schema!Fail(s) \/ Schema!Restart(s)
      PROVE  Forward
  <2>1. db' = db
    BY <1>4 DEF Schema!Begin, Schema!Check, Schema!CreateSchema, Schema!CopyDocuments,
                Schema!GenericCapture, Schema!OrderedCapture, Schema!EnsureApp, Schema!Seed,
                Schema!Fail, Schema!Restart
  <2>2. PICK p : p # "migrated" /\ (phase' = phase \/ phase' = [phase EXCEPT ![s] = p])
    <3>1. CASE Schema!Check(s)
      BY <3>1 DEF Schema!Check
    <3>2. CASE ~ Schema!Check(s)
      BY <1>4, <3>2 DEF Schema!Begin, Schema!CreateSchema, Schema!CopyDocuments,
                  Schema!GenericCapture, Schema!OrderedCapture, Schema!EnsureApp, Schema!Seed,
                  Schema!Fail, Schema!Restart
    <3> QED BY <3>1, <3>2
  <2>3. \A u \in Starter : phase[u] # "migrated" => phase'[u] # "migrated"
    BY <1>1, <2>2
  <2> QED BY <1>2, <2>1, <2>3 DEF Forward
<1>5. CASE Schema!Write \/ Schema!EditSeed
  <2>1. db'.history = db.history /\ phase' = phase
    BY <1>5, WritersKeep DEF Schema!Write, Schema!EditSeed
  <2> QED BY <1>2, <2>1 DEF Forward
<1> QED BY <1>3, <1>4, <1>5 DEF Schema!Next, Schema!Migrate

\* Whichever builds start, in whichever order, and wherever they are broken off: what was
\* migrated is not migrated again, edited or taken back, and each build gets past its
\* migrations on its own schema only.
THEOREM SchemaGoesForward == Schema!Spec => SchemaOnlyMovesForward
<1>1. Schema!Init => HInv
  BY StartsConsistent
<1> QED BY <1>1, HistoryIsInductive, StepsGoForward, PTL
        DEF Schema!Spec, SchemaOnlyMovesForward, Schema!SchemaOnlyMovesForward, Forward

-----------------------------------------------------------------------------
(* The mirror and the documents. *)

LEMMA MirrorStarts == Schema!Init => MirrorInv
<1> SUFFICES ASSUME Schema!Init PROVE MirrorInv
  OBVIOUS
<1>1. PICK h \in Initial :
        LET written == IF h = <<>> THEN 0 ELSE 1 IN
        /\ docs = [version |-> written, change |-> written]
        /\ db = [history |-> h, trigger |-> Schema!Trigger(Len(h)),
                 mirror |-> IF Schema!HasMirror(Len(h)) THEN written ELSE 0]
        /\ phase = [s \in Starter |-> "new"] /\ missed = 0
  BY DEF Schema!Init
<1>2. docs.change = docs.version /\ db.history = h /\ docs.version \in Nat
      /\ (Schema!HasMirror(Len(h)) => db.mirror = docs.version)
  BY <1>1
<1>3. \A s \in Starter : phase[s] \notin Schema!InTransaction
  BY <1>1 DEF Schema!InTransaction
<1> QED BY <1>1, <1>2, <1>3 DEF MirrorInv

\* A starter that changes only its phase and its view, and makes no copy.
LEMMA StarterAlone ==
  ASSUME MInv, NEW s \in Starter, NEW p, NEW w,
         phase' = [phase EXCEPT ![s] = p], work' = [work EXCEPT ![s] = w],
         db' = db, docs' = docs, missed' = missed,
         /\ p \in Schema!InTransaction /\ ~ Schema!HasMirror(Len(db.history))
         /\ p = "copied" \/ Schema!HasMirror(Len(w.history))
         => w.mirror + missed = docs.version
  PROVE  MirrorInv'
<1>1. /\ \A u \in Starter : phase'[u] = IF u = s THEN p ELSE phase[u]
      /\ \A u \in Starter : work'[u] = IF u = s THEN w ELSE work[u]
  BY DEF MInv, HInv, Typed
<1>2. ASSUME NEW u \in Starter
      PROVE  /\ phase'[u] \in Schema!InTransaction /\ ~ Schema!HasMirror(Len(db'.history))
             /\ phase'[u] = "copied" \/ Schema!HasMirror(Len(work'[u].history))
             => work'[u].mirror + missed' = docs'.version
  <2>1. CASE u = s
    BY <1>1, <2>1
  <2>2. CASE u # s
    <3>1. phase'[u] = phase[u] /\ work'[u] = work[u]
      BY <1>1, <2>2
    <3> QED BY <3>1 DEF MInv, MirrorInv
  <2> QED BY <2>1, <2>2
<1> QED BY <1>2 DEF MInv, MirrorInv

\* The copy is made while nobody else is in a transaction: from here on, it lacks what is
\* written.
LEMMA CopyMirrors ==
  ASSUME MInv, NEW s \in Starter, Schema!CopyDocuments(s) PROVE MirrorInv'
<1>1. /\ work \in [Starter -> View] /\ docs.version \in Nat /\ phase \in [Starter -> Phases]
      /\ \A u \in Starter : phase[s] \in Schema!InTransaction /\ phase[u] \in Schema!InTransaction => s = u
      /\ phase[s] \in Schema!InTransaction => Prefix(db.history, work[s].history)
  BY DEF MInv, HInv, Typed, Alone, Working
<1>2. /\ phase[s] = "applying" /\ phase[s] \in Schema!InTransaction /\ Len(work[s].history) = 1
      /\ db' = db /\ docs' = docs /\ missed' = 0
      /\ phase' = [phase EXCEPT ![s] = "copied"]
      /\ work' = [work EXCEPT ![s].mirror = docs.version]
  BY DEF Schema!CopyDocuments, Schema!Pending, Schema!Applied, Schema!InTransaction
<1>3. Len(db.history) <= 1 /\ Len(db.history) \in Nat
  BY <1>1, <1>2 DEF Prefix, MInv, HInv, Consistent, View
<1>4. ~ Schema!HasMirror(Len(db'.history))
  BY <1>2, <1>3 DEF Schema!HasMirror
<1>5. work'[s].mirror = docs.version
  BY <1>1, <1>2 DEF View
<1>6. \A u \in Starter : phase'[u] \in Schema!InTransaction => u = s
  BY <1>1, <1>2
<1>7. docs'.change = docs'.version
  BY <1>2, <1>4 DEF MInv, MirrorInv
<1>8. \A u \in Starter : phase'[u] \in Schema!InTransaction => work'[u].mirror + missed' = docs'.version
  BY <1>1, <1>2, <1>5, <1>6
<1>9. missed' \in Nat
  BY <1>2
<1> QED BY <1>4, <1>7, <1>8, <1>9 DEF MirrorInv

\* The commit publishes the copy, where there was no mirror.
LEMMA CommitMirrors ==
  ASSUME MInv, NEW s \in Starter, Schema!Commit(s) PROVE MirrorInv'
<1>1. /\ db'.history = Build[s] /\ db'.history = work[s].history /\ phase[s] \in Schema!InTransaction
      /\ db'.mirror = IF Schema!HasMirror(Len(db.history)) THEN db.mirror ELSE work[s].mirror
      /\ Prefix(db.history, db'.history)
  BY Committed DEF MInv
<1>2. /\ docs' = docs /\ missed' = missed /\ work' = work
      /\ phase' = [phase EXCEPT ![s] = "migrated"]
  BY DEF Schema!Commit
<1>3. Schema!HasMirror(Len(db.history)) => Schema!HasMirror(Len(db'.history))
  <2>1. Len(db.history) \in Nat /\ Len(db'.history) \in Nat
    <3>1. db.history \in Seq(STRING) /\ Build[s] \in Seq(STRING)
      BY Builds DEF MInv, HInv, Consistent, View
    <3> QED BY <1>1, <3>1
  <2> QED BY <1>1, <2>1 DEF Prefix, Schema!HasMirror
<1>4. Schema!HasMirror(Len(db'.history)) => db'.mirror + missed' = docs'.version
  <2>1. CASE Schema!HasMirror(Len(db.history))
    BY <1>1, <1>2, <2>1 DEF MInv, MirrorInv
  <2>2. CASE ~ Schema!HasMirror(Len(db.history))
    BY <1>1, <1>2, <2>2 DEF MInv, MirrorInv
  <2> QED BY <2>1, <2>2
<1>5. docs'.change = docs'.version \/ (Schema!HasMirror(Len(db'.history)) /\ docs'.change = db'.mirror)
  BY <1>1, <1>2, <1>3 DEF MInv, MirrorInv
<1>6. \A u \in Starter : phase'[u] \notin Schema!InTransaction
  BY <1>1, <1>2 DEF MInv, HInv, Typed, Alone, Schema!InTransaction
<1>7. missed' \in Nat
  BY <1>2 DEF MInv, MirrorInv
<1> QED BY <1>4, <1>5, <1>6, <1>7 DEF MirrorInv

LEMMA WriteMirrors ==
  ASSUME MInv, Schema!Write PROVE MirrorInv'
<1> DEFINE has == Schema!HasMirror(Len(db.history))
<1>1. db \in View /\ docs.version \in Nat /\ missed \in Nat
  BY DEF MInv, MirrorInv, HInv, Consistent, Typed
<1>2. /\ docs'.version = docs.version + 1
      /\ docs'.change = IF has THEN db.mirror + 1 ELSE docs.version + 1
      /\ db' = [db EXCEPT !.mirror = IF has THEN @ + 1 ELSE @]
      /\ missed' = IF has THEN missed ELSE missed + 1
      /\ phase' = phase /\ work' = work
  BY DEF Schema!Write
<1>3. db'.history = db.history /\ db'.mirror = (IF has THEN db.mirror + 1 ELSE db.mirror) /\ db.mirror \in Nat
  BY <1>1, <1>2 DEF View
<1>4. has => db.mirror + missed = docs.version
  BY DEF MInv, MirrorInv
<1>5. \A u \in Starter :
        /\ phase[u] \in Schema!InTransaction /\ ~ has
        /\ phase[u] = "copied" \/ Schema!HasMirror(Len(work[u].history))
        => work[u].mirror + missed = docs.version /\ work[u].mirror \in Nat
  BY DEF MInv, MirrorInv, HInv, Typed, View
<1>6. has <=> Schema!HasMirror(Len(db'.history))
  BY <1>3
<1> HIDE DEF has
<1>7. missed' \in Nat
  BY <1>1, <1>2
<1>8. docs'.change = docs'.version \/ (Schema!HasMirror(Len(db'.history)) /\ docs'.change = db'.mirror)
  BY <1>2, <1>3, <1>6
<1>9. Schema!HasMirror(Len(db'.history)) => db'.mirror + missed' = docs'.version
  BY <1>1, <1>2, <1>3, <1>4, <1>6
<1>10. ASSUME NEW u \in Starter, phase'[u] \in Schema!InTransaction, ~ Schema!HasMirror(Len(db'.history)),
              phase'[u] = "copied" \/ Schema!HasMirror(Len(work'[u].history))
       PROVE  work'[u].mirror + missed' = docs'.version
  <2>1. work[u].mirror + missed = docs.version /\ work[u].mirror \in Nat
    BY <1>2, <1>5, <1>6, <1>10
  <2> QED BY <1>1, <1>2, <1>6, <1>10, <2>1
<1> QED BY <1>7, <1>8, <1>9, <1>10 DEF MirrorInv

LEMMA MirrorIsInductive == MInv /\ [Schema!Next]_(Schema!vars) => MInv'
<1> SUFFICES ASSUME MInv, [Schema!Next]_(Schema!vars) PROVE MInv'
  OBVIOUS
<1>1. HInv'
  BY HistoryIsInductive DEF MInv
<1>2. ASSUME NEW s \in Starter, Schema!Migrate(s) \/ Schema!Fail(s) \/ Schema!Restart(s) PROVE MirrorInv'
  <2>1. /\ work \in [Starter -> View] /\ phase \in [Starter -> Phases]
        /\ work = [work EXCEPT ![s] = work[s]]
    BY DEF MInv, HInv, Typed
  <2>2. CASE Schema!Begin(s)
    <3>1. "locked" # "copied"
      OBVIOUS
    <3>2. /\ phase' = [phase EXCEPT ![s] = "locked"] /\ work' = [work EXCEPT ![s] = db]
          /\ db' = db /\ docs' = docs /\ missed' = missed
      BY <2>2 DEF Schema!Begin
    <3> QED BY ONLY MInv, <3>1, <3>2, StarterAlone
  <2>3. CASE Schema!Check(s)
    <3>1. phase[s] = "locked" /\ phase[s] \in Schema!InTransaction
      BY <2>3 DEF Schema!Check, Schema!InTransaction
    <3>2. PICK p \in {"applying", "refused"} : phase' = [phase EXCEPT ![s] = p]
      BY <2>3 DEF Schema!Check
    <3>3. p # "copied"
      OBVIOUS
    <3>4. work' = [work EXCEPT ![s] = work[s]] /\ db' = db /\ docs' = docs /\ missed' = missed
      BY <2>1, <2>3 DEF Schema!Check
    <3>5. ~ Schema!HasMirror(Len(db.history)) /\ Schema!HasMirror(Len(work[s].history))
          => work[s].mirror + missed = docs.version
      BY <3>1 DEF MInv, MirrorInv
    <3> QED BY ONLY MInv, <3>2, <3>3, <3>4, <3>5, StarterAlone
  <2>4. CASE Schema!CreateSchema(s)
    <3>1. Len(work[s].history) = 0 /\ phase[s] = "applying"
      BY <2>4 DEF Schema!CreateSchema, Schema!Pending, Schema!Applied
    <3> DEFINE h == Schema!Recorded(s, 1)
               w == [work[s] EXCEPT !.history = h, !.trigger = Schema!Trigger(1)]
    <3>2. work' = [work EXCEPT ![s] = w] /\ db' = db /\ docs' = docs /\ missed' = missed
      BY <2>1, <2>4 DEF Schema!CreateSchema
    <3>3. w.history = h
      BY <2>1 DEF View
    <3>4. Len(h) = 1
      BY <2>1, <3>1 DEF Schema!Recorded, View
    <3>5. Len(w.history) = 1
      BY <3>3, <3>4
    <3> HIDE DEF w
    <3>6. ~ Schema!HasMirror(Len(w.history))
      BY ONLY <3>5 DEF Schema!HasMirror
    <3>7. phase' = [phase EXCEPT ![s] = "applying"] /\ "applying" # "copied"
      BY <2>1, <2>4, <3>1 DEF Schema!CreateSchema
    <3> QED BY ONLY MInv, <3>2, <3>6, <3>7, StarterAlone
  <2>5. CASE Schema!CopyDocuments(s)
    BY <2>5, CopyMirrors
  <2>6. CASE Schema!GenericCapture(s)
    <3> DEFINE w == [work[s] EXCEPT !.history = Schema!Recorded(s, 2), !.trigger = Schema!Trigger(2)]
    <3>1. phase[s] = "copied" /\ phase[s] \in Schema!InTransaction
      BY <2>6 DEF Schema!GenericCapture, Schema!InTransaction
    <3>2. work' = [work EXCEPT ![s] = w] /\ db' = db /\ docs' = docs /\ missed' = missed
          /\ phase' = [phase EXCEPT ![s] = "applying"]
      BY <2>1, <2>6 DEF Schema!GenericCapture
    <3>3. w.mirror = work[s].mirror
      BY <2>1 DEF View
    <3>4. ~ Schema!HasMirror(Len(db.history)) => w.mirror + missed = docs.version
      BY <3>1, <3>3 DEF MInv, MirrorInv
    <3> HIDE DEF w
    <3> QED BY ONLY MInv, <3>2, <3>4, StarterAlone
  <2>7. CASE Schema!OrderedCapture(s)
    <3> DEFINE w == [work[s] EXCEPT !.history = Schema!Recorded(s, 3), !.trigger = Schema!Trigger(3)]
    <3>1. phase[s] = "applying" /\ phase[s] \in Schema!InTransaction /\ Len(work[s].history) = 2
      BY <2>7 DEF Schema!OrderedCapture, Schema!Pending, Schema!Applied, Schema!InTransaction
    <3>2. work' = [work EXCEPT ![s] = w] /\ db' = db /\ docs' = docs /\ missed' = missed
          /\ phase' = [phase EXCEPT ![s] = "applying"]
      BY <2>1, <2>7, <3>1 DEF Schema!OrderedCapture
    <3>3. w.mirror = work[s].mirror
      BY <2>1 DEF View
    <3>4. Schema!HasMirror(Len(work[s].history))
      BY ONLY <3>1 DEF Schema!HasMirror
    <3>5. ~ Schema!HasMirror(Len(db.history)) => w.mirror + missed = docs.version
      BY <3>1, <3>3, <3>4 DEF MInv, MirrorInv
    <3> HIDE DEF w
    <3> QED BY ONLY MInv, <3>2, <3>5, StarterAlone
  <2>8. CASE Schema!Commit(s)
    BY <2>8, CommitMirrors
  <2>9. CASE Schema!Fail(s) \/ Schema!Restart(s) \/ Schema!EnsureApp(s) \/ Schema!Seed(s)
    <3>1. PICK p \in {"failed", "new", "ensured", "serving"} : phase' = [phase EXCEPT ![s] = p]
      BY <2>9 DEF Schema!Fail, Schema!Restart, Schema!EnsureApp, Schema!Seed
    <3>2. work' = [work EXCEPT ![s] = work[s]] /\ db' = db /\ docs' = docs /\ missed' = missed
      BY <2>1, <2>9 DEF Schema!Fail, Schema!Restart, Schema!EnsureApp, Schema!Seed
    <3>3. p \notin Schema!InTransaction
      BY DEF Schema!InTransaction
    <3> QED BY ONLY MInv, <3>1, <3>2, <3>3, StarterAlone
  <2> QED BY <1>2, <2>2, <2>3, <2>4, <2>5, <2>6, <2>7, <2>8, <2>9 DEF Schema!Migrate
<1>3. ASSUME Schema!Write PROVE MirrorInv'
  BY <1>3, WriteMirrors
<1>4. ASSUME Schema!EditSeed \/ UNCHANGED Schema!vars PROVE MirrorInv'
  <2>1. db' = db /\ docs' = docs /\ phase' = phase /\ work' = work /\ missed' = missed
    BY <1>4 DEF Schema!EditSeed, Schema!vars
  <2> QED BY <2>1 DEF MInv, MirrorInv
<1>5. MirrorInv'
  BY <1>2, <1>3, <1>4 DEF Schema!Next
<1> QED BY <1>1, <1>5 DEF MInv

LEMMA CardinalityIs == \A S : Schema!Cardinality(S) = Cardinality(S)
BY DEF Schema!Cardinality, Cardinality

\* At most one starter keeps the documents locked.
LEMMA OneLock == HInv => Schema!Cardinality(ddl) <= 1
<1> SUFFICES ASSUME HInv PROVE Schema!Cardinality(ddl) <= 1
  OBVIOUS
<1>1. \A s, u \in ddl : s = u
  BY DEF HInv, Alone, Typed, Schema!InTransaction
<1>2. CASE ddl = {}
  BY <1>2, FS_EmptySet, CardinalityIs
<1>3. CASE ddl # {}
  <2>1. PICK s \in ddl : TRUE
    BY <1>3
  <2>2. ddl = {s}
    BY <1>1, <2>1
  <2> QED BY <2>2, FS_Singleton, CardinalityIs
<1> QED BY <1>2, <1>3

LEMMA MirrorImplies == MInv => MigrationsInv
<1> SUFFICES ASSUME MInv PROVE MigrationsInv
  OBVIOUS
<1>1. Typed /\ Alone /\ Consistent(db) /\ db \in View
  BY DEF MInv, HInv, Consistent
<1>2. Schema!MigrationsTypeOK
  BY <1>1, OneLock DEF MInv, MirrorInv, Schema!MigrationsTypeOK, View, TriggerKind, Typed, Alone, Phases,
                       Schema!InTransaction
<1>3. Schema!MirrorMatchesDocs
  BY DEF MInv, MirrorInv, Schema!MirrorMatchesDocs
<1>4. Schema!HistoryIsTheSchema
  BY <1>1 DEF Consistent, Schema!HistoryIsTheSchema
<1> QED BY <1>2, <1>3, <1>4 DEF MigrationsInv, Schema!MigrationsInv

\* While replicas of earlier builds go on writing, and however often starts are broken off:
\* the schema is what the history says, and the mirror lacks of the documents what was
\* written between the copy and the lock of the migration that committed, and nothing else.
THEOREM MigrationsInvHolds == Schema!Spec => []MigrationsInv
<1>1. Schema!Init => MInv
  BY StartsConsistent, MirrorStarts DEF MInv
<1>2. MInv /\ [Schema!Next]_(Schema!vars) => MInv'
  BY MirrorIsInductive
<1>3. MInv => MigrationsInv
  BY MirrorImplies
<1> QED BY <1>1, <1>2, <1>3, PTL DEF Schema!Spec
=============================================================================
