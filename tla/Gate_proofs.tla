----------------------------- MODULE Gate_proofs -----------------------------
(***************************************************************************)
(* Proofs about Gate, for every set of calls, connections, tokens and      *)
(* principals, and every budget and window: a fixed window never lets      *)
(* more than two budgets through in a window's length, whoever sweeps it;  *)
(* what is said of a call is its token's; and a configuration is judged    *)
(* by its entries.                                                         *)
(***************************************************************************)
EXTENDS Gate, FiniteSetTheorems, TLAPS

-----------------------------------------------------------------------------
(* One window.  S has what was let through in the last w moments, pairs with *)
(* the moment second; b is the budget, and the window that is remembered, if *)
(* any, was opened at s and has counted n.                                   *)

Since(S, s) == {x \in S : x[2] >= s}
Before(S, s) == {x \in S : x[2] < s}
Late(S, w, t) == {x \in S : t - x[2] < w}

\* S fits the window: what came before it is one budget at most, what came in it
\* was counted; without a window there is one budget at most, and nothing of now.
Fits(S, w, b, t, open, s, n) ==
  /\ IsFiniteSet(S)
  /\ \A x \in S : x[2] \in Nat /\ x[2] <= t /\ t - x[2] < w
  /\ \A x \in S : x[2] = t => open /\ t - s < w
  /\ ~open => Cardinality(S) <= b
  /\ open => /\ s \in Nat /\ s <= t /\ n \in 1 .. b
             /\ Cardinality(Before(S, s)) <= b
             /\ Cardinality(Since(S, s)) <= n
             /\ t - s < w => Cardinality(Since(S, s)) = n

LEMMA SubsetSize ==
  ASSUME NEW S, IsFiniteSet(S), NEW T \in SUBSET S
  PROVE  /\ IsFiniteSet(T) /\ Cardinality(T) \in Nat /\ Cardinality(S) \in Nat
         /\ Cardinality(T) <= Cardinality(S)
<1>1. IsFiniteSet(T) /\ Cardinality(T) <= Cardinality(S)
  BY FS_Subset
<1> QED BY <1>1, FS_CardinalityType

\* At most two budgets in a window's length.
LEMMA TwoBudgets ==
  ASSUME NEW S, NEW w \in Nat \ {0}, NEW b \in Nat \ {0}, NEW t \in Nat, NEW open \in BOOLEAN,
         NEW s, NEW n, Fits(S, w, b, t, open, s, n)
  PROVE  Cardinality(S) <= 2 * b
<1>1. Cardinality(S) \in Nat /\ IsFiniteSet(S)
  BY FS_CardinalityType DEF Fits
<1>2. CASE ~open
  BY <1>1, <1>2 DEF Fits
<1>3. CASE open
  <2> DEFINE B == Before(S, s)
             A == Since(S, s)
  <2>1. B \in SUBSET S /\ A \in SUBSET S
    BY DEF Before, Since
  <2>2. /\ IsFiniteSet(B) /\ IsFiniteSet(A) /\ Cardinality(B) \in Nat /\ Cardinality(A) \in Nat
    BY <1>1, <2>1, SubsetSize
  <2>3. S = B \cup A /\ B \cap A = {}
    BY <1>3 DEF Before, Since, Fits
  <2>4. Cardinality(B) <= b /\ Cardinality(A) <= b
    BY <1>3, <2>2 DEF Fits
  <2> HIDE DEF B, A
  <2>5. Cardinality(B \cup A) = Cardinality(B) + Cardinality(A) - Cardinality(B \cap A)
    BY <2>2, FS_Union
  <2>6. Cardinality(B \cap A) = 0
    BY <2>3, FS_EmptySet
  <2> QED BY <2>2, <2>3, <2>4, <2>5, <2>6
<1> QED BY <1>2, <1>3

\* A window that is over has counted all that is left.
LEMMA OverCountsAll ==
  ASSUME NEW S, NEW w \in Nat \ {0}, NEW b \in Nat \ {0}, NEW t \in Nat,
         NEW s, NEW n, Fits(S, w, b, t, TRUE, s, n), t - s >= w
  PROVE  Cardinality(S) <= b /\ \A x \in S : x[2] # t
<1>1. S = Since(S, s)
  BY DEF Fits, Since
<1>2. Cardinality(S) \in Nat
  BY FS_CardinalityType DEF Fits
<1> QED BY <1>1, <1>2 DEF Fits

\* A window that is over may be forgotten.
LEMMA Forgets ==
  ASSUME NEW S, NEW w \in Nat \ {0}, NEW b \in Nat \ {0}, NEW t \in Nat,
         NEW s, NEW n, Fits(S, w, b, t, TRUE, s, n), t - s >= w, NEW s2, NEW n2
  PROVE  Fits(S, w, b, t, FALSE, s2, n2)
<1>1. Cardinality(S) <= b /\ \A x \in S : x[2] # t
  BY OverCountsAll
<1> QED BY <1>1 DEF Fits

\* Time goes on and the oldest are forgotten.
LEMMA TimeGoesOn ==
  ASSUME NEW S, NEW w \in Nat \ {0}, NEW b \in Nat \ {0}, NEW t \in Nat, NEW open \in BOOLEAN,
         NEW s, NEW n, Fits(S, w, b, t, open, s, n)
  PROVE  Fits(Late(S, w, t + 1), w, b, t + 1, open, s, n)
<1> DEFINE T == Late(S, w, t + 1)
<1>1. T \in SUBSET S /\ IsFiniteSet(S)
  BY DEF Late, Fits
<1>2. IsFiniteSet(T) /\ Cardinality(T) \in Nat /\ Cardinality(S) \in Nat /\ Cardinality(T) <= Cardinality(S)
  BY <1>1, SubsetSize
<1>3. \A x \in T : x[2] \in Nat /\ x[2] <= t + 1 /\ t + 1 - x[2] < w /\ x[2] # t + 1
  BY <1>1 DEF Fits, Late
<1>4. ASSUME ~open PROVE Cardinality(T) <= b
  BY <1>2, <1>4 DEF Fits
<1>5. ASSUME open
      PROVE  /\ s \in Nat /\ s <= t + 1 /\ n \in 1 .. b
             /\ Cardinality(Before(T, s)) <= b
             /\ Cardinality(Since(T, s)) <= n
             /\ t + 1 - s < w => Cardinality(Since(T, s)) = n
  <2>1. /\ s \in Nat /\ s <= t /\ n \in 1 .. b
        /\ Cardinality(Before(S, s)) <= b
        /\ Cardinality(Since(S, s)) <= n
        /\ t - s < w => Cardinality(Since(S, s)) = n
    BY <1>5 DEF Fits
  <2>2. /\ Before(T, s) \in SUBSET Before(S, s) /\ Before(S, s) \in SUBSET S
        /\ Since(T, s) \in SUBSET Since(S, s) /\ Since(S, s) \in SUBSET S
    BY <1>1 DEF Before, Since
  <2>3. IsFiniteSet(Before(S, s)) /\ IsFiniteSet(Since(S, s))
    BY <1>1, <2>2, SubsetSize
  <2>4. /\ Cardinality(Before(T, s)) <= Cardinality(Before(S, s))
        /\ Cardinality(Before(T, s)) \in Nat /\ Cardinality(Before(S, s)) \in Nat
    BY <2>2, <2>3, SubsetSize
  <2>5. /\ Cardinality(Since(T, s)) <= Cardinality(Since(S, s))
        /\ Cardinality(Since(T, s)) \in Nat /\ Cardinality(Since(S, s)) \in Nat
    BY <2>2, <2>3, SubsetSize
  <2>6. ASSUME t + 1 - s < w PROVE Since(T, s) = Since(S, s) /\ t - s < w
    <3>1. \A x \in S : x[2] \in Nat
      BY DEF Fits
    <3> QED BY <2>1, <2>6, <3>1 DEF Since, Late
  <2> QED BY <2>1, <2>4, <2>5, <2>6
<1> HIDE DEF T
<1>6. Fits(T, w, b, t + 1, open, s, n)
  BY <1>2, <1>3, <1>4, <1>5 DEF Fits
<1> QED BY <1>6 DEF T

LEMMA OneMore ==
  ASSUME NEW S, IsFiniteSet(S), NEW e, e \notin S
  PROVE  /\ IsFiniteSet(S \cup {e}) /\ Cardinality(S) \in Nat
         /\ Cardinality(S \cup {e}) = Cardinality(S) + 1
  BY FS_AddElement, FS_CardinalityType

\* A window is opened where none is, or the last is over.
LEMMA Opens ==
  ASSUME NEW S, NEW w \in Nat \ {0}, NEW b \in Nat \ {0}, NEW t \in Nat, NEW open \in BOOLEAN,
         NEW s, NEW n, Fits(S, w, b, t, open, s, n), open => t - s >= w,
         NEW e, e[2] = t
  PROVE  e \notin S /\ Fits(S \cup {e}, w, b, t, TRUE, t, 1)
<1> DEFINE T == S \cup {e}
<1>1. Cardinality(S) <= b /\ (\A x \in S : x[2] # t) /\ IsFiniteSet(S)
  <2>1. CASE open
    BY <2>1, OverCountsAll DEF Fits
  <2>2. CASE ~open
    BY <2>2 DEF Fits
  <2> QED BY <2>1, <2>2
<1>2. e \notin S
  BY <1>1
<1>3. IsFiniteSet(T)
  BY <1>1, <1>2, OneMore
<1>4. \A x \in S : x[2] \in Nat /\ x[2] <= t /\ t - x[2] < w
  BY DEF Fits
<1>5. Before(T, t) = S /\ Since(T, t) = {e}
  BY <1>1, <1>4 DEF Before, Since
<1>6. Cardinality({e}) = 1
  BY FS_Singleton
<1>7. \A x \in T : x[2] \in Nat /\ x[2] <= t /\ t - x[2] < w
  BY <1>4
<1> HIDE DEF T
<1>8. t - t < w /\ 1 \in 1 .. b
  OBVIOUS
<1>9. Fits(T, w, b, t, TRUE, t, 1)
  BY <1>1, <1>3, <1>5, <1>6, <1>7, <1>8 DEF Fits
<1> QED BY <1>2, <1>9 DEF T

\* One more within the window.
LEMMA Counts ==
  ASSUME NEW S, NEW w \in Nat \ {0}, NEW b \in Nat \ {0}, NEW t \in Nat,
         NEW s, NEW n, Fits(S, w, b, t, TRUE, s, n), t - s < w, n < b,
         NEW e, e \notin S, e[2] = t
  PROVE  Fits(S \cup {e}, w, b, t, TRUE, s, n + 1)
<1> DEFINE T == S \cup {e}
<1>1. /\ IsFiniteSet(S) /\ s \in Nat /\ s <= t /\ n \in 1 .. b
      /\ Cardinality(Before(S, s)) <= b /\ Cardinality(Since(S, s)) = n
      /\ \A x \in S : x[2] \in Nat /\ x[2] <= t /\ t - x[2] < w
  BY DEF Fits
<1>2. IsFiniteSet(T)
  BY <1>1, OneMore
<1>3. Before(T, s) = Before(S, s) /\ Since(T, s) = Since(S, s) \cup {e} /\ e \notin Since(S, s)
  BY <1>1 DEF Before, Since
<1>4. Cardinality(Since(S, s) \cup {e}) = n + 1
  <2>1. IsFiniteSet(Since(S, s))
    BY <1>1, SubsetSize DEF Since
  <2> QED BY <1>1, <1>3, <2>1, OneMore
<1>5. \A x \in T : x[2] \in Nat /\ x[2] <= t /\ t - x[2] < w
  BY <1>1
<1> HIDE DEF T
<1>6. n + 1 \in 1 .. b /\ n \in Nat
  BY <1>1
<1>7. Fits(T, w, b, t, TRUE, s, n + 1)
  BY <1>1, <1>2, <1>3, <1>4, <1>5, <1>6 DEF Fits
<1> QED BY <1>7 DEF T

-----------------------------------------------------------------------------
(* The limiter of the admission. *)

IsLimiter(E, t) ==
  \A k \in DOMAIN E : /\ E[k] \in [windowStartedAt : Nat, count : Nat]
                      /\ E[k].windowStartedAt <= t

EntryFits(E, k, S, t) ==
  Fits(S, Window, Requests, t, k \in DOMAIN E, E[k].windowStartedAt, E[k].count)

LEMMA SweepFits ==
  ASSUME NEW E, NEW sweptAt, NEW t \in Nat, IsLimiter(E, t)
  PROVE  /\ IsLimiter(Sweep(E, sweptAt, t), t)
         /\ \A k, S : EntryFits(E, k, S, t) => EntryFits(Sweep(E, sweptAt, t), k, S, t)
<1> DEFINE E1 == Sweep(E, sweptAt, t)
<1>1. /\ DOMAIN E1 \subseteq DOMAIN E
      /\ \A k \in DOMAIN E1 : E1[k] = E[k]
      /\ \A k \in DOMAIN E \ DOMAIN E1 : t - E[k].windowStartedAt >= Window
  BY DEF Sweep, Over
<1> HIDE DEF E1
<1>2. IsLimiter(E1, t)
  BY <1>1 DEF IsLimiter
<1>3. ASSUME NEW k, NEW S, EntryFits(E, k, S, t) PROVE EntryFits(E1, k, S, t)
  <2>1. CASE k \in DOMAIN E1
    BY <1>1, <1>3, <2>1 DEF EntryFits
  <2>2. CASE k \notin DOMAIN E
    <3>1. k \notin DOMAIN E1
      BY <1>1, <2>2
    <3> QED BY <1>3, <2>2, <3>1 DEF EntryFits, Fits
  <2>3. CASE k \in DOMAIN E \ DOMAIN E1
    <3>1. /\ Fits(S, Window, Requests, t, TRUE, E[k].windowStartedAt, E[k].count)
          /\ t - E[k].windowStartedAt >= Window
      BY <1>1, <1>3, <2>3 DEF EntryFits
    <3>2. Fits(S, Window, Requests, t, FALSE, E1[k].windowStartedAt, E1[k].count)
      BY <3>1, RateAssumption, Forgets
    <3> QED BY <2>3, <3>2 DEF EntryFits, Fits
  <2> QED BY <2>1, <2>2, <2>3
<1> QED BY <1>2, <1>3 DEF E1

LEMMA ChargedEntries ==
  ASSUME NEW E, NEW k, NEW t \in Nat, IsLimiter(E, t)
  PROVE  LET E2 == Charged(E, k, t) IN
         /\ DOMAIN E2 = DOMAIN E \cup {k}
         /\ \A l \in DOMAIN E : l # k => E2[l] = E[l]
         /\ Fresh(E, k, t) => E2[k] = [windowStartedAt |-> t, count |-> 1]
         /\ ~Fresh(E, k, t) =>
              E2[k] = [windowStartedAt |-> E[k].windowStartedAt, count |-> E[k].count + 1]
<1> DEFINE E2 == Charged(E, k, t)
<1>1. CASE Fresh(E, k, t)
  <2>1. E2 = [l \in DOMAIN E \cup {k} |-> IF l = k THEN [windowStartedAt |-> t, count |-> 1] ELSE E[l]]
    BY <1>1 DEF Charged
  <2> HIDE DEF E2
  <2>2. DOMAIN E2 = DOMAIN E \cup {k}
    BY <2>1
  <2>3. \A l \in DOMAIN E : l # k => E2[l] = E[l]
    BY <2>1
  <2>4. E2[k] = [windowStartedAt |-> t, count |-> 1]
    BY <2>1
  <2> QED BY <1>1, <2>2, <2>3, <2>4 DEF E2
<1>2. CASE ~Fresh(E, k, t)
  <2>1. E2 = [E EXCEPT ![k].count = E[k].count + 1] /\ k \in DOMAIN E
    BY <1>2 DEF Charged, Fresh
  <2>2. E[k] \in [windowStartedAt : Nat, count : Nat]
    BY <2>1 DEF IsLimiter
  <2> HIDE DEF E2
  <2>3. DOMAIN E2 = DOMAIN E \cup {k}
    BY <2>1
  <2>4. \A l \in DOMAIN E : l # k => E2[l] = E[l]
    BY <2>1
  <2>5. E2[k] = [E[k] EXCEPT !.count = E[k].count + 1]
    BY <2>1
  <2>6. E2[k] = [windowStartedAt |-> E[k].windowStartedAt, count |-> E[k].count + 1]
    BY <2>2, <2>5
  <2> QED BY <1>2, <2>3, <2>4, <2>6 DEF E2
<1> QED BY <1>1, <1>2

LEMMA ChargeFits ==
  ASSUME NEW E, NEW k, NEW t \in Nat, IsLimiter(E, t), Allowed(E, k, t)
  PROVE  /\ IsLimiter(Charged(E, k, t), t)
         /\ \A l, S : l # k /\ EntryFits(E, l, S, t) => EntryFits(Charged(E, k, t), l, S, t)
         /\ \A S, e : EntryFits(E, k, S, t) /\ e \notin S /\ e[2] = t =>
              EntryFits(Charged(E, k, t), k, S \cup {e}, t)
<1> DEFINE E2 == Charged(E, k, t)
<1>1. /\ DOMAIN E2 = DOMAIN E \cup {k}
      /\ \A l \in DOMAIN E : l # k => E2[l] = E[l]
      /\ Fresh(E, k, t) => E2[k] = [windowStartedAt |-> t, count |-> 1]
      /\ ~Fresh(E, k, t) =>
           E2[k] = [windowStartedAt |-> E[k].windowStartedAt, count |-> E[k].count + 1]
  BY ChargedEntries
<1> HIDE DEF E2
<1>2. k \in DOMAIN E => /\ E[k].windowStartedAt \in Nat /\ E[k].count \in Nat
                        /\ E[k].windowStartedAt <= t
  BY DEF IsLimiter
<1>3. IsLimiter(E2, t)
  <2> SUFFICES ASSUME NEW l \in DOMAIN E2
               PROVE  E2[l] \in [windowStartedAt : Nat, count : Nat] /\ E2[l].windowStartedAt <= t
    BY DEF IsLimiter
  <2>1. CASE l # k
    BY <1>1, <2>1 DEF IsLimiter
  <2>2. CASE l = k /\ Fresh(E, k, t)
    BY <1>1, <2>2
  <2>3. CASE l = k /\ ~Fresh(E, k, t)
    BY <1>1, <1>2, <2>3 DEF Fresh
  <2> QED BY <2>1, <2>2, <2>3
<1>4. ASSUME NEW l, NEW S, l # k, EntryFits(E, l, S, t) PROVE EntryFits(E2, l, S, t)
  <2>1. CASE l \in DOMAIN E
    BY <1>1, <1>4, <2>1 DEF EntryFits
  <2>2. CASE l \notin DOMAIN E
    <3>1. l \notin DOMAIN E2
      BY <1>1, <1>4, <2>2
    <3> QED BY <1>4, <2>2, <3>1 DEF EntryFits, Fits
  <2> QED BY <2>1, <2>2
<1>5. ASSUME NEW S, NEW e, EntryFits(E, k, S, t), e \notin S, e[2] = t
      PROVE  EntryFits(E2, k, S \cup {e}, t)
  <2>1. Window \in Nat \ {0} /\ Requests \in Nat \ {0}
    BY RateAssumption
  <2>2. CASE Fresh(E, k, t)
    <3>1. k \in DOMAIN E => t - E[k].windowStartedAt >= Window
      BY <2>2 DEF Fresh, Over
    <3>2. Fits(S, Window, Requests, t, k \in DOMAIN E, E[k].windowStartedAt, E[k].count)
      BY <1>5 DEF EntryFits
    <3>3. Fits(S \cup {e}, Window, Requests, t, TRUE, t, 1)
      <4>1. CASE k \in DOMAIN E
        <5>1. Fits(S, Window, Requests, t, TRUE, E[k].windowStartedAt, E[k].count)
          BY <3>2, <4>1
        <5> QED BY <1>5, <2>1, <3>1, <4>1, <5>1, Opens
      <4>2. CASE k \notin DOMAIN E
        <5>1. Fits(S, Window, Requests, t, FALSE, E[k].windowStartedAt, E[k].count)
          BY <3>2, <4>2 DEF Fits
        <5> QED BY <1>5, <2>1, <5>1, Opens
      <4> QED BY <4>1, <4>2
    <3> QED BY <1>1, <2>2, <3>3 DEF EntryFits, Fits
  <2>3. CASE ~Fresh(E, k, t)
    <3>1. /\ k \in DOMAIN E /\ t - E[k].windowStartedAt < Window /\ E[k].count < Requests
          /\ E[k].windowStartedAt \in Nat /\ E[k].count \in Nat
      BY <1>2, <2>1, <2>3 DEF Fresh, Over, Allowed
    <3>2. Fits(S, Window, Requests, t, TRUE, E[k].windowStartedAt, E[k].count)
      BY <1>5, <3>1 DEF EntryFits
    <3>3. Fits(S \cup {e}, Window, Requests, t, TRUE, E[k].windowStartedAt, E[k].count + 1)
      BY <1>5, <2>1, <3>1, <3>2, Counts
    <3> QED BY <1>1, <2>3, <3>3 DEF EntryFits, Fits
  <2> QED BY <2>2, <2>3
<1> QED BY <1>3, <1>4, <1>5 DEF E2

\* Nobody is refused within the window but for a budget of its own requests.
LEMMA RefusedForItsOwn ==
  ASSUME NEW E, NEW k, NEW t \in Nat, IsLimiter(E, t), ~Allowed(E, k, t),
         NEW S, EntryFits(E, k, S, t)
  PROVE  Late(S, Window, t) = S /\ Cardinality(S) \in Nat /\ Cardinality(S) >= Requests
<1>1. /\ k \in DOMAIN E /\ t - E[k].windowStartedAt < Window /\ E[k].count >= Requests
      /\ E[k].windowStartedAt \in Nat /\ E[k].count \in Nat
  BY RateAssumption DEF Allowed, Fresh, Over, IsLimiter
<1>2. Fits(S, Window, Requests, t, TRUE, E[k].windowStartedAt, E[k].count)
  BY <1>1 DEF EntryFits
<1>3. Cardinality(Since(S, E[k].windowStartedAt)) = E[k].count /\ IsFiniteSet(S)
  BY <1>1, <1>2 DEF Fits
<1>4. Cardinality(Since(S, E[k].windowStartedAt)) <= Cardinality(S) /\ Cardinality(S) \in Nat
  BY <1>3, SubsetSize DEF Since
<1>5. Late(S, Window, t) = S
  BY <1>2 DEF Fits, Late
<1> QED BY <1>1, <1>3, <1>4, <1>5, RateAssumption

-----------------------------------------------------------------------------
(* Admission. *)

InFlight(c) == call[c].stage \in {"verifying", "resolved"}

\* What a connection, or a verification, has said of a token, the key service
\* having been broken or not.
SaidOf(t, result, broken) ==
  \/ result = "denied" /\ (~Good(t) \/ broken)
  \/ result = Owner[t] /\ Owner[t] \in Principal

CallOK(c) ==
  /\ call[c].stage \in {"new", "verifying", "resolved", "answered"}
  /\ InFlight(c) =>
       /\ call[c].token \in Token /\ call[c].via \in Via /\ call[c].route \in Route
       /\ call[c].route = "pull" => call[c].client \in Clients[call[c].token]
       /\ call[c].via \in Ws => Owner[call[c].token] \in Principal
  /\ call[c].stage = "resolved" /\ call[c].via \in Tcp => call[c].token \in DOMAIN verified[call[c].via]
  /\ Answered(c) =>
       /\ call[c].status \in {200, 401, 403, 413, 429, 503}
       /\ call[c].status = 200 =>
            call[c].who = Owner[call[c].token] /\ call[c].client \in Clients[call[c].token]

CallsOK == call = [c \in Call |-> call[c]] /\ \A c \in Call : CallOK(c)

VerifiedOK ==
  /\ verified = [conn \in Tcp |-> verified[conn]]
  /\ \A conn \in Tcp : \A t \in DOMAIN verified[conn] : SaidOf(t, verified[conn][t], conn \in misled)

SessionsOK ==
  /\ session = [w \in Ws |-> session[w]]
  /\ \A w \in Ws : session[w] = "closed" \/ (session[w] \in Token /\ Owner[session[w]] \in Principal)

ServedOK ==
  /\ served = [k \in Principal \X Route |-> served[k]]
  /\ \A k \in Principal \X Route : EntryFits(limiter.entries, k, served[k], now)
  /\ \A k \in Principal \X Route : \A x \in served[k] : x[1] \in Call /\ Answered(x[1])

ClockOK == now \in 0 .. MaxTime /\ now \in Nat

KeysOK ==
  /\ verifier \in {"up", "silent", "broken"} /\ keys \in {"recent", "cached", "stale"}
  /\ unknown \subseteq Rotates /\ misled \subseteq Tcp /\ (verifier = "broken" => misled = Tcp)

AInv == ClockOK /\ KeysOK /\ IsLimiter(limiter.entries, now) /\ CallsOK /\ VerifiedOK /\ SessionsOK /\ ServedOK

LEMMA AInvImplies == ASSUME AInv PROVE AdmissionInv
<1>1. AdmissionTypeOK
  <2>1. /\ now \in 0 .. MaxTime /\ verifier \in {"up", "silent", "broken"}
        /\ keys \in {"recent", "cached", "stale"} /\ unknown \subseteq Token /\ misled \subseteq Tcp
    BY AdmissionAssumption DEF AInv, ClockOK, KeysOK
  <2>2. \A conn \in Tcp : \A t \in DOMAIN verified[conn] : verified[conn][t] \in {"denied", Owner[t]}
    BY DEF AInv, VerifiedOK, SaidOf
  <2>3. \A w \in Ws : session[w] = "closed" \/ Owner[session[w]] \in Principal
    BY DEF AInv, SessionsOK
  <2>4. \A c \in Call : Answered(c) => call[c].status \in {200, 401, 403, 413, 429, 503}
    BY DEF AInv, CallsOK, CallOK
  <2> QED BY <2>1, <2>2, <2>3, <2>4 DEF AdmissionTypeOK
<1>2. SharedBudget
  <2> SUFFICES ASSUME NEW k \in DOMAIN served PROVE Cardinality(served[k]) <= 2 * Requests
    BY DEF SharedBudget
  <2>1. k \in Principal \X Route
    BY DEF AInv, ServedOK
  <2>2. EntryFits(limiter.entries, k, served[k], now) /\ now \in Nat
    BY <2>1 DEF AInv, ServedOK, ClockOK
  <2> DEFINE open == k \in DOMAIN limiter.entries
  <2>3. Fits(served[k], Window, Requests, now, open,
             limiter.entries[k].windowStartedAt, limiter.entries[k].count)
    BY <2>2 DEF EntryFits
  <2>4. open \in BOOLEAN
    OBVIOUS
  <2> HIDE DEF open
  <2> QED BY <2>2, <2>3, <2>4, RateAssumption, TwoBudgets
<1>3. ServedAreEntitled
  BY DEF AInv, CallsOK, CallOK, ServedAreEntitled
<1> QED BY <1>1, <1>2, <1>3 DEF AdmissionInv

LEMMA AdmissionInit == ASSUME Init PROVE AInv
<1>1. ClockOK /\ KeysOK
  BY AdmissionAssumption DEF Init, ClockOK, KeysOK
<1>2. limiter.entries = [k \in {} |-> 0] /\ DOMAIN limiter.entries = {}
  BY DEF Init
<1>3. IsLimiter(limiter.entries, now)
  BY <1>2 DEF IsLimiter
<1>4. CallsOK
  BY DEF Init, CallsOK, CallOK, NewCall, InFlight, Answered
<1>5. VerifiedOK
  <2>1. \A conn \in Tcp : DOMAIN verified[conn] = {}
    BY DEF Init
  <2> QED BY <2>1 DEF Init, VerifiedOK
<1>6. SessionsOK
  <2>1. session = [w \in Ws |-> "closed"]
    BY DEF Init
  <2>2. \A w \in Ws : session[w] = "closed"
    BY <2>1
  <2>3. session = [w \in Ws |-> session[w]]
    BY <2>1
  <2> QED BY <2>2, <2>3 DEF SessionsOK
<1>7. ServedOK
  <2>1. \A k \in Principal \X Route : served[k] = {}
    BY DEF Init
  <2>2. IsFiniteSet({}) /\ Cardinality({}) = 0
    BY FS_EmptySet
  <2>3. \A k : EntryFits(limiter.entries, k, {}, now)
    BY <1>2, <2>2, RateAssumption DEF EntryFits, Fits
  <2> QED BY <2>1, <2>3 DEF Init, ServedOK
<1> QED BY <1>1, <1>3, <1>4, <1>5, <1>6, <1>7 DEF AInv

\* Verification says of a token what may be said of it, or that there is an outage.
LEMMA VerifySays ==
  ASSUME AInv, NEW t \in Token
  PROVE  \/ Verify(t) = "unavailable" /\ verifier = "silent"
         \/ SaidOf(t, Verify(t), verifier = "broken")
<1>1. t \in unknown => ~Good(t)
  BY DEF AInv, KeysOK, Good
<1>2. CASE Reloads(t) /\ verifier = "silent"
  BY <1>2 DEF Verify
<1>3. CASE ~(Reloads(t) /\ verifier = "silent") /\ Verify(t) = "denied"
  <2>1. Owner[t] = Nobody \/ verifier = "broken" \/ t \in unknown
    BY <1>3, AdmissionAssumption DEF Verify
  <2> QED BY <1>1, <1>3, <2>1 DEF SaidOf, Good
<1>4. CASE ~(Reloads(t) /\ verifier = "silent") /\ Verify(t) # "denied"
  <2>1. Verify(t) = Owner[t] /\ Owner[t] # Nobody
    BY <1>4 DEF Verify
  <2> QED BY <2>1, AdmissionAssumption DEF SaidOf
<1> QED BY <1>2, <1>3, <1>4

\* What fetching leaves of the keys.
LEMMA FetchesKeys ==
  ASSUME AInv, NEW t \in Token, Fetches(t), UNCHANGED misled
  PROVE  KeysOK' /\ UNCHANGED verifier
  BY DEF AInv, KeysOK, Fetches

\* A call arrives.
LEMMA ArrivalKeeps ==
  ASSUME AInv, NEW c \in Call, call[c].stage = "new",
         NEW via \in Via, NEW token \in Token, NEW standing \in {"verifying", "resolved"},
         Arrival(c, via, token, standing),
         via \in Ws => Owner[token] \in Principal,
         via \in Tcp /\ standing = "resolved" => token \in DOMAIN verified[via],
         UNCHANGED <<now, limiter, keyState, verified, session, served, misled>>
  PROVE  AInv' /\ \A d \in Call : ~Answers(d)
<1>1. PICK route \in Route, client \in Client, body \in Body :
        /\ route = "pull" => body = "fine" /\ client \in Clients[token]
        /\ call' = [call EXCEPT ![c] = [stage |-> standing, via |-> via, token |-> token,
                      route |-> route, client |-> client, body |-> body]]
  BY DEF Arrival
<1>2. call = [d \in Call |-> call[d]]
  BY DEF AInv, CallsOK
<1>3. /\ call' = [d \in Call |-> call'[d]]
      /\ call'[c] = [stage |-> standing, via |-> via, token |-> token,
                      route |-> route, client |-> client, body |-> body]
      /\ \A d \in Call : d # c => call'[d] = call[d]
  BY <1>1, <1>2
<1>4. CallsOK'
  <2>1. CallOK(c)'
    BY <1>1, <1>3 DEF CallOK, InFlight, Answered
  <2>2. ASSUME NEW d \in Call, d # c PROVE CallOK(d)'
    <3>1. CallOK(d)
      BY DEF AInv, CallsOK
    <3> QED BY <1>3, <2>2, <3>1 DEF CallOK, InFlight, Answered
  <2> QED BY <1>3, <2>1, <2>2 DEF CallsOK
<1>5. ASSUME NEW d \in Call PROVE Answered(d)' <=> Answered(d)
  BY <1>3 DEF Answered
<1>6. ServedOK'
  BY <1>5 DEF AInv, ServedOK
<1>7. (ClockOK /\ KeysOK /\ IsLimiter(limiter.entries, now) /\ VerifiedOK /\ SessionsOK)'
  BY DEF AInv, ClockOK, KeysOK, keyState, VerifiedOK, SaidOf, SessionsOK
<1>8. \A d \in Call : ~Answers(d)
  BY <1>3 DEF Answers, Answered
<1> QED BY <1>4, <1>6, <1>7, <1>8 DEF AInv

\* What the clock, the keys and the remembered results may do under a call.
Aside(c) ==
  /\ UNCHANGED <<now, session>> /\ KeysOK'
  /\ VerifiedOK' /\ \A conn \in Tcp : DOMAIN verified[conn] \subseteq DOMAIN verified'[conn]

\* A call is answered, and charged nothing or its key.
Answering(c, key, status, who) ==
  /\ Answer(c, status, who)
  /\ \/ UNCHANGED <<limiter, served>>
     \/ Charge(key) /\ UNCHANGED served /\ (Admits(key) => key \notin Principal \X Route)
     \/ /\ Charge(key) /\ Admits(key) /\ key \in Principal \X Route
        /\ served' = [served EXCEPT ![key] = Lately(@, now) \cup {<<c, now>>}]

LEMMA AnsweringKeeps ==
  ASSUME AInv, NEW c \in Call, ~Answered(c), Aside(c), NEW key,
         NEW status \in {200, 401, 403, 413, 429, 503}, NEW who,
         status = 200 => who = Owner[call[c].token] /\ call[c].client \in Clients[call[c].token],
         Answering(c, key, status, who)
  PROVE  AInv'
<1> DEFINE E == limiter.entries
           E1 == Swept
           E2 == limiter'.entries
<1>1. now \in Nat /\ now' = now /\ IsLimiter(E, now)
  BY DEF AInv, ClockOK, Aside
<1>2. IsLimiter(E1, now) /\ \A k, S : EntryFits(E, k, S, now) => EntryFits(E1, k, S, now)
  BY <1>1, SweepFits DEF Swept
<1>3. /\ call' = [d \in Call |-> call'[d]]
      /\ call'[c] = [stage |-> "answered", token |-> call[c].token,
                     client |-> call[c].client, status |-> status, who |-> who]
      /\ \A d \in Call : d # c => call'[d] = call[d]
  BY DEF Answering, Answer, AInv, CallsOK
<1>4. CallsOK'
  <2>1. CallOK(c)'
    BY <1>3 DEF CallOK, InFlight, Answered
  <2>2. ASSUME NEW d \in Call, d # c PROVE CallOK(d)'
    <3>1. CallOK(d)
      BY DEF AInv, CallsOK
    <3>2. call[d].stage = "resolved" /\ call[d].via \in Tcp =>
            DOMAIN verified[call[d].via] \subseteq DOMAIN verified'[call[d].via]
      BY DEF Aside
    <3> QED BY <1>3, <2>2, <3>1, <3>2 DEF CallOK, InFlight, Answered
  <2> QED BY <1>3, <2>1, <2>2 DEF CallsOK
<1>5. \A d \in Call : Answered(d) => Answered(d)'
  BY <1>3 DEF Answered
<1>6. Answered(c)'
  BY <1>3 DEF Answered
<1>7. ASSUME NEW k \in Principal \X Route
      PROVE  EntryFits(E, k, served[k], now) /\ EntryFits(E1, k, served[k], now)
  BY <1>2 DEF AInv, ServedOK
<1>8. Charge(key) => E2 = IF Admits(key) THEN Charged(E1, key, now) ELSE E1
  BY DEF Charge
<1> HIDE DEF E, E1, E2
<1>9. IsLimiter(E2, now) /\ ServedOK'
  <2>1. CASE UNCHANGED <<limiter, served>>
    <3>1. E2 = E
      BY <2>1 DEF E, E2
    <3>2. ServedOK'
      BY <1>1, <1>5, <2>1 DEF AInv, ServedOK
    <3> QED BY <1>1, <3>1, <3>2
  <2>2. CASE Charge(key) /\ ~Admits(key) /\ UNCHANGED served
    <3>1. E2 = E1
      BY <1>8, <2>2
    <3>2. \A k \in Principal \X Route : EntryFits(E2, k, served[k], now)
      BY <1>7, <3>1
    <3>3. ServedOK'
      BY <1>1, <1>5, <2>2, <3>2 DEF AInv, ServedOK, E2
    <3> QED BY <1>2, <3>1, <3>3
  <2>3. CASE Charge(key) /\ Admits(key) /\ UNCHANGED served /\ key \notin Principal \X Route
    <3>1. E2 = Charged(E1, key, now) /\ Allowed(E1, key, now)
      BY <1>8, <2>3 DEF Admits, E1
    <3>2. IsLimiter(E2, now) /\ \A l, S : l # key /\ EntryFits(E1, l, S, now) => EntryFits(E2, l, S, now)
      BY <1>1, <1>2, <3>1, ChargeFits
    <3>3. \A k \in Principal \X Route : EntryFits(E2, k, served[k], now)
      BY <1>7, <2>3, <3>2
    <3>4. ServedOK'
      BY <1>1, <1>5, <2>3, <3>3 DEF AInv, ServedOK, E2
    <3> QED BY <3>2, <3>4
  <2>4. CASE /\ Charge(key) /\ Admits(key) /\ key \in Principal \X Route
             /\ served' = [served EXCEPT ![key] = Lately(@, now) \cup {<<c, now>>}]
    <3>1. E2 = Charged(E1, key, now) /\ Allowed(E1, key, now)
      BY <1>8, <2>4 DEF Admits, E1
    <3>2. /\ IsLimiter(E2, now)
          /\ \A l, S : l # key /\ EntryFits(E1, l, S, now) => EntryFits(E2, l, S, now)
          /\ \A S, e : EntryFits(E1, key, S, now) /\ e \notin S /\ e[2] = now =>
               EntryFits(E2, key, S \cup {e}, now)
      BY <1>1, <1>2, <3>1, ChargeFits
    <3>3. <<c, now>> \notin served[key]
      BY <2>4 DEF AInv, ServedOK
    <3>4. EntryFits(E2, key, served[key] \cup {<<c, now>>}, now)
      BY <1>7, <2>4, <3>2, <3>3
    <3>5. Lately(served[key], now) = served[key]
      BY <1>7, <2>4 DEF EntryFits, Fits, Lately
    <3>6. /\ served' = [k \in Principal \X Route |-> served'[k]]
          /\ served'[key] = served[key] \cup {<<c, now>>}
          /\ \A k \in Principal \X Route : k # key => served'[k] = served[k]
      BY <2>4, <3>5 DEF AInv, ServedOK
    <3>7. ASSUME NEW k \in Principal \X Route PROVE EntryFits(E2, k, served'[k], now)
      <4>1. CASE k = key
        BY <3>4, <3>6, <4>1
      <4>2. CASE k # key
        BY <1>7, <3>2, <3>6, <4>2
      <4> QED BY <4>1, <4>2
    <3>8. ASSUME NEW k \in Principal \X Route, NEW x \in served'[k]
          PROVE  x[1] \in Call /\ Answered(x[1])'
      <4>1. CASE x \in served[k]
        BY <1>5, <4>1 DEF AInv, ServedOK
      <4>2. CASE x = <<c, now>>
        BY <1>6, <4>2
      <4> QED BY <3>6, <3>8, <4>1, <4>2
    <3>9. ServedOK'
      BY <1>1, <3>6, <3>7, <3>8 DEF ServedOK, E2
    <3> QED BY <3>2, <3>9
  <2> QED BY <2>1, <2>2, <2>3, <2>4 DEF Answering
<1>10. ClockOK' /\ KeysOK' /\ SessionsOK' /\ VerifiedOK'
  BY DEF AInv, ClockOK, SessionsOK, Aside
<1> QED BY <1>1, <1>4, <1>9, <1>10 DEF AInv, E2

\* What RefusalsAreDeserved says of a call's answer.
Deserved(c) ==
  Answers(c) =>
    /\ call'[c].status = 429 /\ call'[c].who # Nobody =>
         Cardinality(Lately(served[<<call'[c].who, call[c].route>>], now)) >= Requests
    /\ call'[c].status = 503 => verifier = "silent"
    /\ call'[c].status = 401 /\ Good(call[c].token) => verifier = "broken" \/ call[c].via \in misled

LEMMA OnlyItAnswers ==
  ASSUME AInv, NEW c \in Call, NEW status, NEW who, Answer(c, status, who)
  PROVE  /\ call'[c].status = status /\ call'[c].who = who
         /\ \A d \in Call : d # c => Deserved(d)
<1>1. /\ call'[c] = [stage |-> "answered", token |-> call[c].token,
                     client |-> call[c].client, status |-> status, who |-> who]
      /\ \A d \in Call : d # c => call'[d] = call[d]
  BY DEF Answer, AInv, CallsOK
<1>2. \A d \in Call : d # c => ~Answers(d)
  BY <1>1 DEF Answers, Answered
<1> QED BY <1>1, <1>2 DEF Deserved

\* A principal that is refused has had a budget of its own requests.
LEMMA RefusedHadABudget ==
  ASSUME AInv, NEW k \in Principal \X Route, ~Admits(k)
  PROVE  Cardinality(Lately(served[k], now)) >= Requests
<1>1. now \in Nat /\ IsLimiter(limiter.entries, now) /\ EntryFits(limiter.entries, k, served[k], now)
  BY DEF AInv, ClockOK, ServedOK
<1>2. IsLimiter(Swept, now) /\ EntryFits(Swept, k, served[k], now)
  BY <1>1, SweepFits DEF Swept
<1>3. ~Allowed(Swept, k, now)
  BY DEF Admits
<1>4. Late(served[k], Window, now) = served[k] /\ Cardinality(served[k]) >= Requests
  BY ONLY <1>1, <1>2, <1>3, RefusedForItsOwn
<1> QED BY <1>4 DEF Late, Lately

LEMMA DispatchKeeps ==
  ASSUME AInv, NEW c \in Call, InFlight(c), Aside(c),
         NEW who \in Principal, who = Owner[call[c].token], Dispatch(c, who)
  PROVE  AInv' /\ \A d \in Call : Deserved(d)
<1> DEFINE key == Key(c, who)
           status == IF call[c].route = "push" THEN PushStatus(c) ELSE 200
<1>1. key \in Principal \X Route /\ key = <<who, call[c].route>> /\ ~Answered(c)
  BY DEF AInv, CallsOK, CallOK, Key, InFlight, Answered
<1>2. /\ status \in {200, 413, 403}
      /\ status = 200 => call[c].client \in Clients[call[c].token]
  BY DEF AInv, CallsOK, CallOK, PushStatus, Route
<1>3. Charge(key) /\ \/ /\ Admits(key) /\ Answer(c, status, who)
                        /\ served' = [served EXCEPT ![key] = Lately(@, now) \cup {<<c, now>>}]
                     \/ ~Admits(key) /\ Answer(c, 429, who) /\ UNCHANGED served
  BY <1>1 DEF Dispatch
<1> HIDE DEF key, status
<1>4. CASE Admits(key)
  <2>1. Answering(c, key, status, who) /\ Answer(c, status, who)
    BY <1>1, <1>3, <1>4 DEF Answering
  <2>2. AInv'
    BY <1>1, <1>2, <2>1, AnsweringKeeps
  <2>3. Deserved(c)
    BY <1>2, <2>1, OnlyItAnswers DEF Deserved
  <2> QED BY <2>1, <2>2, <2>3, OnlyItAnswers
<1>5. CASE ~Admits(key)
  <2>1. Answering(c, key, 429, who) /\ Answer(c, 429, who)
    BY <1>1, <1>3, <1>5 DEF Answering
  <2>2. AInv'
    BY <1>1, <2>1, AnsweringKeeps
  <2>3. Cardinality(Lately(served[key], now)) >= Requests
    BY <1>1, <1>5, RefusedHadABudget
  <2>4. Deserved(c)
    BY <1>1, <2>1, <2>3, OnlyItAnswers DEF Deserved
  <2> QED BY <2>1, <2>2, <2>4, OnlyItAnswers
<1> QED BY <1>4, <1>5

LEMMA UnavailableKeeps ==
  ASSUME AInv, NEW c \in Call, InFlight(c), Aside(c), verifier = "silent", Unavailable(c)
  PROVE  AInv' /\ \A d \in Call : Deserved(d)
<1>1. Answering(c, 0, 503, Nobody) /\ Answer(c, 503, Nobody) /\ ~Answered(c)
  BY DEF Unavailable, Answering, InFlight, Answered
<1>2. AInv'
  BY <1>1, AnsweringKeeps
<1>3. Deserved(c)
  BY <1>1, OnlyItAnswers DEF Deserved
<1> QED BY <1>1, <1>2, <1>3, OnlyItAnswers

LEMMA DeniedKeeps ==
  ASSUME AInv, NEW c \in Call, InFlight(c), Aside(c),
         ~Good(call[c].token) \/ verifier = "broken" \/ call[c].via \in misled,
         \/ DenyAuthentication(c)
         \/ Answer(c, 401, Nobody) /\ UNCHANGED <<limiter, served>>
  PROVE  AInv' /\ \A d \in Call : Deserved(d)
<1>1. ~Answered(c)
  BY DEF InFlight, Answered
<1>2. Key(c, Remote) \notin Principal \X Route
  BY AdmissionAssumption DEF Key
<1>3. PICK status \in {401, 429} :
        Answer(c, status, Nobody) /\ Answering(c, Key(c, Remote), status, Nobody)
  BY <1>2 DEF DenyAuthentication, Answering
<1>4. AInv'
  BY <1>1, <1>3, AnsweringKeeps
<1>5. Deserved(c)
  BY <1>3, OnlyItAnswers DEF Deserved
<1> QED BY <1>3, <1>4, <1>5, OnlyItAnswers

\* A call whose verification said r.
LEMMA ResolvedKeeps ==
  ASSUME AInv, NEW c \in Call, InFlight(c), Aside(c), NEW r,
         \/ r = "unavailable" /\ verifier = "silent"
         \/ SaidOf(call[c].token, r, verifier = "broken" \/ call[c].via \in misled),
         \/ r = "unavailable" /\ Unavailable(c)
         \/ r = "denied" /\ (DenyAuthentication(c) \/ Resolved(c, r))
         \/ r \notin {"unavailable", "denied"} /\ Dispatch(c, r)
  PROVE  AInv' /\ \A d \in Call : Deserved(d)
<1>1. \A p \in Principal : p \notin {"denied", "unavailable"}
  BY AdmissionAssumption
<1>2. CASE r = "unavailable" /\ Unavailable(c)
  <2>1. verifier = "silent"
    BY <1>1, <1>2 DEF SaidOf
  <2> QED BY <1>2, <2>1, UnavailableKeeps
<1>3. CASE r = "denied" /\ (DenyAuthentication(c) \/ Resolved(c, r))
  <2>1. ~Good(call[c].token) \/ verifier = "broken" \/ call[c].via \in misled
    BY <1>1, <1>3 DEF SaidOf
  <2>2. DenyAuthentication(c) \/ (Answer(c, 401, Nobody) /\ UNCHANGED <<limiter, served>>)
    BY <1>3 DEF Resolved
  <2> QED BY <2>1, <2>2, DeniedKeeps
<1>4. CASE r \notin {"unavailable", "denied"} /\ Dispatch(c, r)
  <2>1. r \in Principal /\ r = Owner[call[c].token]
    BY <1>4 DEF SaidOf
  <2> QED BY <1>4, <2>1, DispatchKeeps
<1> QED BY <1>2, <1>3, <1>4

LEMMA RememberKeeps ==
  ASSUME AInv, NEW conn \in Tcp, NEW t \in Token, NEW r,
         r = "unavailable" \/ SaidOf(t, r, conn \in misled), verified' = Remember(conn, t, r),
         misled' = misled
  PROVE  /\ VerifiedOK'
         /\ \A d \in Tcp : DOMAIN verified[d] \subseteq DOMAIN verified'[d]
<1>1. /\ verified = [d \in Tcp |-> verified[d]]
      /\ \A d \in Tcp : \A u \in DOMAIN verified[d] : SaidOf(u, verified[d][u], d \in misled)
  BY DEF AInv, VerifiedOK
<1>2. CASE r = "unavailable"
  BY <1>1, <1>2 DEF Remember, VerifiedOK, SaidOf
<1>3. CASE r # "unavailable"
  <2> DEFINE m == [u \in DOMAIN verified[conn] \cup {t} |-> IF u = t THEN r ELSE verified[conn][u]]
  <2>1. verified' = [verified EXCEPT ![conn] = m]
    BY <1>3 DEF Remember
  <2>2. DOMAIN m = DOMAIN verified[conn] \cup {t} /\ \A u \in DOMAIN m : SaidOf(u, m[u], conn \in misled)
    BY <1>1, <1>3
  <2> HIDE DEF m
  <2>3. /\ verified' = [d \in Tcp |-> verified'[d]]
        /\ verified'[conn] = m /\ \A d \in Tcp : d # conn => verified'[d] = verified[d]
    BY <1>1, <2>1
  <2>4. \A d \in Tcp : \A u \in DOMAIN verified'[d] : SaidOf(u, verified'[d][u], d \in misled)
    BY <1>1, <2>2, <2>3
  <2>5. VerifiedOK'
    BY <2>3, <2>4 DEF VerifiedOK, SaidOf
  <2> QED BY <2>2, <2>3, <2>5
<1> QED BY <1>2, <1>3

LEMMA HandleKeeps ==
  ASSUME AInv, NEW c \in Call, Handle(c)
  PROVE  AInv' /\ \A d \in Call : Deserved(d)
<1> DEFINE t == call[c].token
<1> DEFINE doubtful == verifier = "broken" \/ call[c].via \in misled
<1>1. CallOK(c) /\ VerifiedOK /\ KeysOK
  BY DEF AInv, CallsOK
<1>2. CASE HttpVerified(c)
  <2>1. InFlight(c) /\ t \in Token /\ UNCHANGED <<now, verified, session, misled>> /\ Fetches(t)
    BY <1>1, <1>2 DEF HttpVerified, InFlight, CallOK
  <2>4. Aside(c)
    BY <1>1, <2>1, FetchesKeys DEF Aside, VerifiedOK, SaidOf
  <2>2. (Verify(t) = "unavailable" /\ verifier = "silent") \/ SaidOf(t, Verify(t), doubtful)
    BY <2>1, VerifySays DEF SaidOf
  <2>3. \/ Verify(t) = "unavailable" /\ Unavailable(c)
        \/ Verify(t) = "denied" /\ DenyAuthentication(c)
        \/ Verify(t) \notin {"unavailable", "denied"} /\ Dispatch(c, Verify(t))
    BY <1>2 DEF HttpVerified
  <2> QED BY <2>1, <2>2, <2>3, <2>4, ResolvedKeeps
<1>3. ASSUME NEW r, Resolved(c, r)
      PROVE  \/ r = "unavailable" /\ Unavailable(c)
             \/ r = "denied" /\ (DenyAuthentication(c) \/ Resolved(c, r))
             \/ r \notin {"unavailable", "denied"} /\ Dispatch(c, r)
  BY <1>3 DEF Resolved
<1>4. CASE WsHandled(c)
  <2>1. InFlight(c) /\ Aside(c) /\ SaidOf(t, Owner[t], doubtful)
    BY <1>1, <1>4 DEF WsHandled, InFlight, Aside, CallOK, VerifiedOK, SaidOf, KeysOK, keyState
  <2>2. Resolved(c, Owner[t])
    BY <1>4 DEF WsHandled
  <2> QED BY <1>3, <2>1, <2>2, ResolvedKeeps
<1>5. CASE TcpHit(c)
  <2>1. InFlight(c) /\ Aside(c) /\ t \in DOMAIN verified[call[c].via]
    BY <1>1, <1>5 DEF TcpHit, InFlight, Aside, CallOK, VerifiedOK, SaidOf, KeysOK, keyState
  <2>2. SaidOf(t, verified[call[c].via][t], doubtful)
    BY <1>1, <1>5, <2>1 DEF TcpHit, VerifiedOK, SaidOf
  <2>3. Resolved(c, verified[call[c].via][t])
    BY <1>5 DEF TcpHit
  <2> QED BY <1>3, <2>1, <2>2, <2>3, ResolvedKeeps
<1>6. CASE TcpVerified(c)
  <2>1. InFlight(c) /\ t \in Token /\ call[c].via \in Tcp
    BY <1>1, <1>6 DEF TcpVerified, InFlight, CallOK
  <2>2. /\ (Verify(t) = "unavailable" /\ verifier = "silent") \/ SaidOf(t, Verify(t), doubtful)
        /\ Verify(t) = "unavailable" \/ SaidOf(t, Verify(t), call[c].via \in misled)
    BY <1>1, <2>1, VerifySays DEF SaidOf, KeysOK
  <2>3. /\ verified' = Remember(call[c].via, t, Verify(t)) /\ Resolved(c, Verify(t))
        /\ Fetches(t) /\ UNCHANGED <<now, session, misled>>
    BY <1>6 DEF TcpVerified
  <2>4. Aside(c)
    <3>1. KeysOK'
      BY <2>1, <2>3, FetchesKeys
    <3>2. VerifiedOK' /\ \A d \in Tcp : DOMAIN verified[d] \subseteq DOMAIN verified'[d]
      BY <2>1, <2>2, <2>3, RememberKeeps
    <3> QED BY <2>3, <3>1, <3>2 DEF Aside
  <2> QED BY <1>3, <2>1, <2>2, <2>3, <2>4, ResolvedKeeps
<1> QED BY <1>2, <1>4, <1>5, <1>6 DEF Handle

LEMMA ArrivesKeeps ==
  ASSUME AInv, NEW c \in Call, HttpArrives(c) \/ WsFrame(c) \/ TcpFrame(c)
  PROVE  AInv' /\ \A d \in Call : ~Answers(d)
<1>1. CASE HttpArrives(c)
  <2>1. PICK t \in Token : Arrival(c, Http, t, "verifying")
    BY <1>1 DEF HttpArrives
  <2>2. Http \in Via /\ Http \notin Ws /\ Http \notin Tcp
    BY AdmissionAssumption DEF Via
  <2> QED BY <1>1, <2>1, <2>2, ArrivalKeeps DEF HttpArrives
<1>2. CASE WsFrame(c)
  <2>1. PICK w \in Ws : session[w] # "closed" /\ Arrival(c, w, session[w], "resolved")
    BY <1>2 DEF WsFrame
  <2>2. w \in Via /\ w \notin Tcp /\ session[w] \in Token /\ Owner[session[w]] \in Principal
    BY <2>1, AdmissionAssumption DEF Via, AInv, SessionsOK
  <2> QED BY <1>2, <2>1, <2>2, ArrivalKeeps DEF WsFrame
<1>3. CASE TcpFrame(c)
  <2>1. PICK t \in Token, conn \in Tcp :
          Arrival(c, conn, t, IF t \in DOMAIN verified[conn] THEN "resolved" ELSE "verifying")
    BY <1>3 DEF TcpFrame
  <2> DEFINE stage1 == IF t \in DOMAIN verified[conn] THEN "resolved" ELSE "verifying"
  <2>2. /\ conn \in Via /\ conn \notin Ws /\ stage1 \in {"verifying", "resolved"}
        /\ stage1 = "resolved" => t \in DOMAIN verified[conn]
    BY AdmissionAssumption DEF Via
  <2>3. Arrival(c, conn, t, stage1)
    BY <2>1
  <2> HIDE DEF stage1
  <2> QED BY <1>3, <2>2, <2>3, ArrivalKeeps DEF TcpFrame
<1> QED BY <1>1, <1>2, <1>3

LEMMA TickKeeps == ASSUME AInv, Tick PROVE AInv'
<1>1. /\ now' = now + 1 /\ now < MaxTime /\ now \in Nat
      /\ UNCHANGED <<limiter, keyState, verified, session, call, misled>>
      /\ served' = [k \in Principal \X Route |-> Lately(served[k], now + 1)]
  BY DEF Tick, AInv, ClockOK, ServedOK
<1>2. ClockOK' /\ KeysOK' /\ VerifiedOK' /\ SessionsOK' /\ CallsOK'
  <2>1. CallsOK'
    BY <1>1 DEF AInv, CallsOK, CallOK, InFlight, Answered
  <2>2. VerifiedOK' /\ SessionsOK'
    BY <1>1 DEF AInv, VerifiedOK, SaidOf, SessionsOK
  <2>3. ClockOK' /\ KeysOK'
    BY <1>1, AdmissionAssumption DEF AInv, ClockOK, KeysOK, keyState
  <2> QED BY <2>1, <2>2, <2>3
<1>3. IsLimiter(limiter.entries, now)'
  BY <1>1 DEF AInv, IsLimiter
<1>4. ASSUME NEW k \in Principal \X Route
      PROVE  EntryFits(limiter.entries, k, served'[k], now + 1)
  <2>1. EntryFits(limiter.entries, k, served[k], now)
    BY <1>4 DEF AInv, ServedOK
  <2>2. served'[k] = Late(served[k], Window, now + 1)
    BY <1>1, <1>4 DEF Late, Lately
  <2> DEFINE open == k \in DOMAIN limiter.entries
             s == limiter.entries[k].windowStartedAt
             n == limiter.entries[k].count
  <2>3. Fits(served[k], Window, Requests, now, open, s, n) /\ open \in BOOLEAN
    BY <2>1 DEF EntryFits
  <2> HIDE DEF open, s, n
  <2>4. Fits(Late(served[k], Window, now + 1), Window, Requests, now + 1, open, s, n)
    BY <1>1, <2>3, RateAssumption, TimeGoesOn
  <2> QED BY <2>2, <2>4 DEF EntryFits, open, s, n
<1>5. \A k \in Principal \X Route : \A x \in served'[k] : x[1] \in Call /\ Answered(x[1])'
  BY <1>1 DEF AInv, ServedOK, Answered, Lately
<1>6. ServedOK'
  BY <1>1, <1>4, <1>5 DEF ServedOK
<1> QED BY <1>2, <1>3, <1>6 DEF AInv

LEMMA WsUpgradeKeeps == ASSUME AInv, NEW w \in Ws, WsUpgrade(w) PROVE AInv'
<1>1. PICK t \in Token :
        /\ session' = IF Verify(t) \in {"unavailable", "denied"} THEN session ELSE [session EXCEPT ![w] = t]
        /\ Fetches(t)
  BY DEF WsUpgrade
<1>2. UNCHANGED <<now, limiter, verified, call, served, misled>>
  BY DEF WsUpgrade
<1>3. KeysOK'
  BY <1>1, <1>2, FetchesKeys
<1>4. SessionsOK'
  <2>1. CASE UNCHANGED session
    BY <2>1 DEF AInv, SessionsOK
  <2>2. CASE Verify(t) \notin {"unavailable", "denied"} /\ session' = [session EXCEPT ![w] = t]
    <3>1. Owner[t] \in Principal
      BY <2>2, VerifySays DEF SaidOf
    <3>2. /\ session' = [v \in Ws |-> session'[v]] /\ session'[w] = t
          /\ \A v \in Ws : v # w => session'[v] = session[v]
      BY <2>2 DEF AInv, SessionsOK
    <3> QED BY <3>1, <3>2 DEF AInv, SessionsOK
  <2> QED BY <1>1, <2>1, <2>2
<1>5. ClockOK' /\ IsLimiter(limiter.entries, now)' /\ ServedOK' /\ VerifiedOK' /\ CallsOK'
  BY <1>2 DEF AInv, ClockOK, IsLimiter, ServedOK, VerifiedOK, SaidOf, CallsOK, CallOK, InFlight, Answered
<1> QED BY <1>3, <1>4, <1>5 DEF AInv

LEMMA TcpCloseKeeps == ASSUME AInv, NEW conn \in Tcp, TcpClose(conn) PROVE AInv'
<1>1. /\ \A c \in Call : InFlight(c) => call[c].via # conn
      /\ misled' = IF verifier = "broken" THEN misled ELSE misled \ {conn}
      /\ UNCHANGED <<now, limiter, keyState, session, call, served>>
  BY DEF TcpClose, InFlight
<1>2. /\ verified' = [d \in Tcp |-> verified'[d]]
      /\ DOMAIN verified'[conn] = {} /\ \A d \in Tcp : d # conn => verified'[d] = verified[d]
  BY DEF TcpClose, AInv, VerifiedOK
<1>3. VerifiedOK'
  <2>1. \A d \in Tcp : d # conn => (d \in misled' <=> d \in misled)
    BY <1>1
  <2>2. \A d \in Tcp : \A t \in DOMAIN verified'[d] : SaidOf(t, verified'[d][t], d \in misled')
    BY <1>2, <2>1 DEF AInv, VerifiedOK, SaidOf
  <2> QED BY <1>2, <2>2 DEF VerifiedOK, SaidOf
<1>4. ASSUME NEW c \in Call PROVE CallOK(c)'
  <2>1. CallOK(c) /\ (InFlight(c) => call[c].via # conn)
    BY <1>1 DEF AInv, CallsOK
  <2> QED BY <1>1, <1>2, <2>1 DEF CallOK, InFlight, Answered
<1>5. CallsOK'
  BY <1>1, <1>4 DEF AInv, CallsOK
<1>6. KeysOK'
  BY <1>1 DEF AInv, KeysOK, keyState
<1>7. ClockOK' /\ IsLimiter(limiter.entries, now)' /\ ServedOK' /\ SessionsOK'
  BY <1>1 DEF AInv, ClockOK, IsLimiter, ServedOK, SessionsOK, Answered
<1> QED BY <1>3, <1>5, <1>6, <1>7 DEF AInv

\* The key service changes, or the keys grow old.
KeyServiceSteps ==
  \/ \E state \in {"up", "silent", "broken"} : KeyService(state)
  \/ CooldownEnds \/ KeysExpire

LEMMA OtherKeeps == ASSUME AInv, KeyServiceSteps \/ UNCHANGED vars PROVE AInv'
<1>1. /\ UNCHANGED <<now, limiter, verified, session, call, served>>
      /\ KeysOK' /\ misled \subseteq misled'
  BY DEF AInv, KeysOK, KeyServiceSteps, KeyService, CooldownEnds, KeysExpire, KeysGrow, vars, keyState
<1>2. VerifiedOK'
  <2>1. \A d \in Tcp : \A t \in DOMAIN verified[d] : SaidOf(t, verified[d][t], d \in misled')
    BY <1>1 DEF AInv, VerifiedOK, SaidOf
  <2> QED BY <1>1, <2>1 DEF AInv, VerifiedOK, SaidOf
<1>3. ClockOK' /\ IsLimiter(limiter.entries, now)' /\ ServedOK' /\ SessionsOK' /\ CallsOK'
  BY <1>1 DEF AInv, ClockOK, IsLimiter, ServedOK, SessionsOK, CallsOK, CallOK, InFlight, Answered
<1> QED BY <1>1, <1>2, <1>3 DEF AInv

\* One step: the invariant is kept, and who is refused deserves it.
LEMMA AdmissionStep ==
  ASSUME AInv, [Next]_vars
  PROVE  AInv' /\ (~UNCHANGED vars => \A d \in Call : Deserved(d))
<1>1. ASSUME NEW c \in Call, HttpArrives(c) \/ WsFrame(c) \/ TcpFrame(c)
      PROVE  AInv' /\ \A d \in Call : Deserved(d)
  BY <1>1, ArrivesKeeps DEF Deserved
<1>2. ASSUME NEW c \in Call, Handle(c) PROVE AInv' /\ \A d \in Call : Deserved(d)
  BY <1>2, HandleKeeps
<1>3. ASSUME UNCHANGED call PROVE \A d \in Call : Deserved(d)
  BY <1>3 DEF Deserved, Answers, Answered
<1>4. CASE Tick
  BY <1>3, <1>4, TickKeeps DEF Tick
<1>5. CASE KeyServiceSteps \/ UNCHANGED vars
  BY <1>3, <1>5, OtherKeeps DEF KeyServiceSteps, KeyService, CooldownEnds, KeysExpire, KeysGrow, vars
<1>6. ASSUME NEW w \in Ws, WsUpgrade(w) PROVE AInv' /\ \A d \in Call : Deserved(d)
  BY <1>3, <1>6, WsUpgradeKeeps DEF WsUpgrade
<1>7. ASSUME NEW conn \in Tcp, TcpClose(conn) PROVE AInv' /\ \A d \in Call : Deserved(d)
  BY <1>3, <1>7, TcpCloseKeeps DEF TcpClose
<1> QED BY <1>1, <1>2, <1>4, <1>5, <1>6, <1>7 DEF Next, KeyServiceSteps

\* The inductive invariant: what is served fits the window that is remembered,
\* and what is said of a token, by a connection or for a call, is its own, or
\* owed to a key service that was broken while the connection was open.
THEOREM AdmissionIsInductive == Spec => []AInv
<1>1. Init => AInv
  BY AdmissionInit
<1>2. AInv /\ [Next]_vars => AInv'
  BY AdmissionStep
<1> QED BY <1>1, <1>2, PTL DEF Spec

\* Every transport draws on one budget, and a call that is served is its token's
\* own and writes as one of its clients.
THEOREM AdmissionInvHolds == Spec => []AdmissionInv
<1>1. AInv => AdmissionInv
  BY AInvImplies
<1> QED BY <1>1, AdmissionIsInductive, PTL

\* Who is told to wait has used up a budget of his own; 503 is said only while the
\* key service is silent; and a good token is denied only while it is broken, or
\* on a connection that was open then.
THEOREM RefusalsDeserved == Spec => RefusalsAreDeserved
<1>1. AInv /\ [Next]_vars =>
        [\A c \in Call : Answers(c) =>
           /\ call'[c].status = 429 /\ call'[c].who # Nobody =>
                Cardinality(Lately(served[<<call'[c].who, call[c].route>>], now)) >= Requests
           /\ call'[c].status = 503 => verifier = "silent"
           /\ call'[c].status = 401 /\ Good(call[c].token) =>
                verifier = "broken" \/ call[c].via \in misled]_vars
  BY AdmissionStep DEF Deserved
<1> QED BY <1>1, AdmissionIsInductive, PTL DEF Spec, RefusalsAreDeserved

-----------------------------------------------------------------------------
(* The limiter: with the windows it keeps it decides as if it kept them all. *)

LSwept == Limiter!Swept
Opened(k) == unswept[k].windowStartedAt
Count(k) == unswept[k].count

\* E has of the windows those that are not over, and maybe others.
Keeps(E) ==
  /\ DOMAIN E \subseteq DOMAIN unswept
  /\ \A k \in DOMAIN E : E[k] = unswept[k]
  /\ \A k \in DOMAIN unswept \ DOMAIN E : clock - Opened(k) >= Length

WindowsOK ==
  /\ DOMAIN unswept \subseteq LimiterKeys
  /\ \A k \in DOMAIN unswept : /\ unswept[k] \in [windowStartedAt : Nat, count : Nat]
                               /\ Opened(k) <= clock /\ Count(k) \in 1 .. Budget

\* Requests of one moment are numbered in their order.
Numbered(S, t) ==
  \A x \in S : x[2] = t => x[1] \in Nat /\ x[1] <= Cardinality({y \in S : y[2] = t})

RecentOK ==
  /\ recent = [k \in LimiterKeys |-> recent[k]]
  /\ \A k \in LimiterKeys : /\ Fits(recent[k], Length, Budget, clock, k \in DOMAIN unswept, Opened(k), Count(k))
                            /\ Numbered(recent[k], clock)

\* Who was told to come back was refused in a window that is over by then; or
\* another was opened since.
TellsTheEnd(k) ==
  /\ told[k].at \in Nat /\ told[k].at <= clock /\ told[k].back \in Nat
  /\ told[k].back # 0 =>
       /\ k \in DOMAIN unswept
       /\ \/ Opened(k) > told[k].at
          \/ told[k].at - Opened(k) < Length /\ Length <= told[k].back - Opened(k)

ToldOK == told = [k \in LimiterKeys |-> told[k]] /\ \A k \in LimiterKeys : TellsTheEnd(k)

LimiterClockOK == clock \in Nat /\ lastSweepAt \in Nat /\ lastSweepAt <= clock

\* What a sweep at that time left, or what came after it.
AfterSweep(E, time) == \A k \in DOMAIN E : time - Opened(k) < Length

LInv == LimiterClockOK /\ Keeps(windows) /\ AfterSweep(windows, lastSweepAt) /\ WindowsOK /\ RecentOK /\ ToldOK

LEMMA Sizes == Length \in Nat \ {0} /\ Budget \in Nat \ {0} /\ Unit \in Nat \ {0}
  BY LimiterAssumption

\* Both count alike.
LEMMA LimiterCounts == \A S : Limiter!Cardinality(S) = Cardinality(S)
  BY DEF Limiter!Cardinality, Cardinality

LEMMA LimiterStarts == ASSUME Limiter!Init PROVE LInv
<1>1. /\ clock = 0 /\ lastSweepAt = 0 /\ DOMAIN windows = {} /\ DOMAIN unswept = {}
      /\ recent = [k \in LimiterKeys |-> {}] /\ told = [k \in LimiterKeys |-> [at |-> 0, back |-> 0]]
  BY DEF Limiter!Init, Limiter!NoEntries
<1>2. RecentOK
  <2>1. IsFiniteSet({}) /\ Cardinality({}) = 0
    BY FS_EmptySet
  <2>2. \A k \in LimiterKeys : recent[k] = {}
    BY <1>1
  <2>3. recent = [k \in LimiterKeys |-> recent[k]]
    BY <1>1
  <2>4. \A s, n : Fits({}, Length, Budget, clock, FALSE, s, n)
    BY <2>1, Sizes DEF Fits
  <2>5. ASSUME NEW k \in LimiterKeys
        PROVE  Fits(recent[k], Length, Budget, clock, k \in DOMAIN unswept, Opened(k), Count(k))
    <3>1. k \notin DOMAIN unswept
      BY <1>1
    <3> QED BY <2>2, <2>4, <3>1 DEF Fits
  <2> QED BY <2>2, <2>3, <2>5 DEF RecentOK, Numbered
<1>3. ToldOK
  <2>1. \A k \in LimiterKeys : told[k] = [at |-> 0, back |-> 0]
    BY <1>1
  <2>2. told = [k \in LimiterKeys |-> told[k]]
    BY <1>1
  <2> QED BY <1>1, <2>1, <2>2 DEF ToldOK, TellsTheEnd
<1>4. LimiterClockOK /\ Keeps(windows) /\ AfterSweep(windows, lastSweepAt) /\ WindowsOK
  BY <1>1 DEF LimiterClockOK, Keeps, AfterSweep, WindowsOK
<1> QED BY <1>2, <1>3, <1>4 DEF LInv

\* A window decides the same, whether the others are remembered or not.
LEMMA KeepsDecides ==
  ASSUME LInv, NEW E, Keeps(E), NEW k
  PROVE  /\ Limiter!Allowed(E, k, clock) <=> Limiter!Allowed(unswept, k, clock)
         /\ ~Limiter!Allowed(E, k, clock) =>
              k \in DOMAIN E /\ clock - Opened(k) < Length /\ Count(k) >= Budget
         /\ Limiter!Fresh(E, k, clock) <=> (k \in DOMAIN unswept => clock - Opened(k) >= Length)
<1>1. Length \in Nat \ {0} /\ Budget \in Nat \ {0} /\ clock \in Nat
  BY Sizes DEF LInv, LimiterClockOK
<1>2. k \in DOMAIN unswept => Opened(k) \in Nat /\ Count(k) \in Nat
  BY DEF LInv, WindowsOK, Opened, Count
<1> QED BY <1>1, <1>2
        DEF Limiter!Allowed, Limiter!Fresh, Limiter!Over, Keeps, Opened, Count

LEMMA LimiterIsSafe == ASSUME LInv PROVE Limiter!LimiterInv
<1>1. Limiter!RateTypeOK
  BY Sizes DEF LInv, LimiterClockOK, Keeps, WindowsOK, Opened, Count, Limiter!RateTypeOK
<1>2. Limiter!SweepChangesNothing
  <2>1. \A k : Limiter!Allowed(windows, k, clock) <=> Limiter!Allowed(unswept, k, clock)
    BY KeepsDecides DEF LInv
  <2> QED BY <2>1 DEF Limiter!SweepChangesNothing, Limiter!Allowed
<1>3. Limiter!BurstBound
  <2> SUFFICES ASSUME NEW k \in LimiterKeys PROVE Cardinality(recent[k]) <= 2 * Budget
    BY LimiterCounts DEF Limiter!BurstBound
  <2> DEFINE open == k \in DOMAIN unswept
  <2>1. Fits(recent[k], Length, Budget, clock, open, Opened(k), Count(k)) /\ open \in BOOLEAN
    BY DEF LInv, RecentOK
  <2>2. clock \in Nat
    BY DEF LInv, LimiterClockOK
  <2> HIDE DEF open
  <2> QED BY <2>1, <2>2, Sizes, TwoBudgets
<1>4. Limiter!RetryAfterIsEnough
  <2> SUFFICES ASSUME NEW k \in LimiterKeys, clock >= told[k].back, told[k].back # 0,
                      ~Limiter!Allowed(windows, k, clock)
               PROVE  windows[k].windowStartedAt > told[k].at
    BY DEF Limiter!RetryAfterIsEnough
  <2>1. k \in DOMAIN windows /\ clock - Opened(k) < Length /\ windows[k] = unswept[k]
    BY KeepsDecides DEF LInv, Keeps
  <2>2. TellsTheEnd(k) /\ clock \in Nat /\ Opened(k) \in Nat
    BY <2>1 DEF LInv, ToldOK, LimiterClockOK, WindowsOK, Keeps, Opened
  <2> QED BY <2>1, <2>2, Sizes DEF TellsTheEnd, Opened
<1>5. Limiter!RemembersTheRecent
  BY DEF LInv, AfterSweep, Keeps, Opened, Limiter!RemembersTheRecent
<1> QED BY <1>1, <1>2, <1>3, <1>4, <1>5 DEF Limiter!LimiterInv

LEMMA SweptKeeps ==
  ASSUME LInv
  PROVE  /\ Keeps(LSwept) /\ AfterSweep(LSwept, Limiter!SweptAt)
         /\ Limiter!SweptAt \in Nat /\ Limiter!SweptAt <= clock
<1>1. CASE Limiter!SweepDue(lastSweepAt, clock)
  <2>1. LSwept = [k \in {k \in DOMAIN windows : ~(clock - windows[k].windowStartedAt >= Length)} |-> windows[k]]
    BY <1>1 DEF LSwept, Limiter!Swept, Limiter!Sweep, Limiter!Over
  <2>2. /\ DOMAIN LSwept = {k \in DOMAIN windows : ~(clock - windows[k].windowStartedAt >= Length)}
        /\ \A k \in DOMAIN LSwept : LSwept[k] = windows[k]
    BY <2>1
  <2>3. Limiter!SweptAt = clock
    BY <1>1 DEF Limiter!SweptAt
  <2>4. clock \in Nat /\ \A k \in DOMAIN windows : Opened(k) \in Nat
    BY DEF LInv, LimiterClockOK, WindowsOK, Keeps, Opened
  <2> QED BY <2>2, <2>3, <2>4, Sizes DEF LInv, Keeps, AfterSweep, Opened
<1>2. CASE ~Limiter!SweepDue(lastSweepAt, clock)
  BY <1>2 DEF LInv, LimiterClockOK, LSwept, Limiter!Swept, Limiter!Sweep, Limiter!SweptAt
<1> QED BY <1>1, <1>2

\* The entries after a request that is let through.
LEMMA LimiterCharges ==
  ASSUME LInv, NEW E, Keeps(E), NEW k \in LimiterKeys
  PROVE  LET E2 == Limiter!Charged(E, k, clock) IN
         /\ DOMAIN E2 = DOMAIN E \cup {k}
         /\ \A l \in DOMAIN E : l # k => E2[l] = unswept[l]
         /\ Limiter!Fresh(E, k, clock) => E2[k] = [windowStartedAt |-> clock, count |-> 1]
         /\ ~Limiter!Fresh(E, k, clock) =>
              k \in DOMAIN E /\ E2[k] = [windowStartedAt |-> Opened(k), count |-> Count(k) + 1]
<1> DEFINE E2 == Limiter!Charged(E, k, clock)
<1>1. CASE k \notin DOMAIN E \/ Limiter!Fresh(E, k, clock)
  <2>1. Limiter!Fresh(E, k, clock)
    BY <1>1 DEF Limiter!Fresh
  <2>2. E2 = [l \in DOMAIN E \cup {k} |-> IF l = k THEN [windowStartedAt |-> clock, count |-> 1] ELSE E[l]]
    BY <2>1 DEF Limiter!Charged
  <2> HIDE DEF E2
  <2>3. DOMAIN E2 = DOMAIN E \cup {k} /\ E2[k] = [windowStartedAt |-> clock, count |-> 1]
    BY <2>2
  <2>4. \A l \in DOMAIN E : l # k => E2[l] = unswept[l]
    BY <2>2 DEF Keeps
  <2> QED BY <2>1, <2>3, <2>4 DEF E2
<1>2. CASE k \in DOMAIN E /\ ~Limiter!Fresh(E, k, clock)
  <2>1. E2 = [E EXCEPT ![k].count = E[k].count + 1]
    BY <1>2 DEF Limiter!Charged
  <2>2. E[k] \in [windowStartedAt : Nat, count : Nat] /\ E[k] = unswept[k]
    BY <1>2 DEF LInv, WindowsOK, Keeps
  <2> HIDE DEF E2
  <2>3. DOMAIN E2 = DOMAIN E \cup {k} /\ E2[k] = [E[k] EXCEPT !.count = E[k].count + 1]
    BY <1>2, <2>1
  <2>4. E2[k] = [windowStartedAt |-> E[k].windowStartedAt, count |-> E[k].count + 1]
    BY <2>2, <2>3
  <2>5. \A l \in DOMAIN E : l # k => E2[l] = unswept[l]
    BY <2>1 DEF Keeps
  <2> QED BY <1>2, <2>2, <2>3, <2>4, <2>5 DEF E2, Opened, Count
<1> QED BY <1>1, <1>2

\* One more request of a moment has a number of its own.
LEMMA AnotherIsNew ==
  ASSUME NEW S, IsFiniteSet(S), NEW t \in Nat, Numbered(S, t),
         NEW e, e = <<Cardinality({y \in S : y[2] = t}) + 1, t>>
  PROVE  e \notin S /\ Numbered(S \cup {e}, t)
<1> DEFINE M == {y \in S : y[2] = t}
           M2 == {y \in S \cup {e} : y[2] = t}
<1>1. IsFiniteSet(M) /\ Cardinality(M) \in Nat
  BY SubsetSize
<1>2. e[1] = Cardinality(M) + 1 /\ e[2] = t
  OBVIOUS
<1>3. e \notin S
  BY <1>1, <1>2 DEF Numbered
<1>4. M2 = M \cup {e} /\ e \notin M
  BY <1>2, <1>3
<1>5. Cardinality(M2) = Cardinality(M) + 1
  BY <1>1, <1>4, OneMore
<1>6. ASSUME NEW x \in S \cup {e}, x[2] = t PROVE x[1] \in Nat /\ x[1] <= Cardinality(M2)
  BY <1>1, <1>2, <1>5, <1>6 DEF Numbered
<1> QED BY <1>3, <1>6 DEF Numbered

LEMMA AdmitKeeps == ASSUME LInv, NEW k \in LimiterKeys, Limiter!Admit(k) PROVE LInv'
<1>1. /\ Limiter!Allowed(LSwept, k, clock)
      /\ windows' = Limiter!Charged(LSwept, k, clock) /\ lastSweepAt' = Limiter!SweptAt
      /\ unswept' = Limiter!Charged(unswept, k, clock)
      /\ recent' = [recent EXCEPT ![k] = Limiter!Recent(k, clock) \cup {Limiter!Another(k)}]
      /\ clock' = clock /\ told' = told
  BY DEF Limiter!Admit, LSwept
<1>2. /\ Keeps(LSwept) /\ AfterSweep(LSwept, Limiter!SweptAt)
      /\ Limiter!SweptAt \in Nat /\ Limiter!SweptAt <= clock
  BY SweptKeeps
<1>3. Keeps(unswept)
  BY DEF Keeps
<1>4. clock \in Nat /\ WindowsOK /\ RecentOK /\ ToldOK
  BY DEF LInv, LimiterClockOK
<1> DEFINE fresh == k \in DOMAIN unswept => clock - Opened(k) >= Length
           entry == IF fresh THEN [windowStartedAt |-> clock, count |-> 1]
                             ELSE [windowStartedAt |-> Opened(k), count |-> Count(k) + 1]
<1>5. /\ Limiter!Fresh(LSwept, k, clock) <=> fresh
      /\ Limiter!Fresh(unswept, k, clock) <=> fresh
      /\ Limiter!Allowed(unswept, k, clock)
  BY <1>1, <1>2, <1>3, KeepsDecides
<1>6. /\ DOMAIN windows' = DOMAIN LSwept \cup {k} /\ windows'[k] = entry
      /\ \A l \in DOMAIN LSwept : l # k => windows'[l] = unswept[l]
      /\ ~fresh => k \in DOMAIN LSwept
  BY <1>1, <1>2, <1>5, LimiterCharges
<1>7. /\ DOMAIN unswept' = DOMAIN unswept \cup {k} /\ unswept'[k] = entry
      /\ \A l \in DOMAIN unswept : l # k => unswept'[l] = unswept[l]
      /\ ~fresh => k \in DOMAIN unswept
  BY <1>1, <1>3, <1>5, LimiterCharges
<1>8. ~fresh => /\ clock - Opened(k) < Length /\ Count(k) < Budget /\ Count(k) \in 1 .. Budget
                /\ Opened(k) \in Nat /\ Opened(k) <= clock
  <2>1. ~fresh => Count(k) < Budget
    BY <1>5 DEF Limiter!Allowed, Count
  <2> QED BY <1>4, <1>7, <2>1, Sizes DEF WindowsOK, Opened
<1>9. /\ fresh => entry.windowStartedAt = clock /\ entry.count = 1
      /\ ~fresh => entry.windowStartedAt = Opened(k) /\ entry.count = Count(k) + 1
      /\ entry \in [windowStartedAt : Nat, count : Nat]
      /\ entry.windowStartedAt <= clock /\ entry.count \in 1 .. Budget
      /\ clock - entry.windowStartedAt < Length
  <2>1. CASE fresh
    BY <1>4, <2>1, Sizes
  <2>2. CASE ~fresh
    <3>1. entry = [windowStartedAt |-> Opened(k), count |-> Count(k) + 1]
      BY <2>2
    <3> QED BY <1>8, <2>2, <3>1, Sizes
  <2> QED BY <2>1, <2>2
<1> HIDE DEF fresh, entry
<1>10. WindowsOK'
  <2> SUFFICES ASSUME NEW l \in DOMAIN unswept'
               PROVE  /\ l \in LimiterKeys /\ unswept'[l] \in [windowStartedAt : Nat, count : Nat]
                      /\ unswept'[l].windowStartedAt <= clock /\ unswept'[l].count \in 1 .. Budget
    BY <1>1 DEF WindowsOK, Opened, Count
  <2>1. CASE l = k
    BY <1>7, <1>9, <2>1
  <2>2. CASE l # k
    BY <1>4, <1>7, <2>2 DEF WindowsOK, Opened, Count
  <2> QED BY <2>1, <2>2
<1>11. Keeps(windows)'
  <2>1. DOMAIN windows' \subseteq DOMAIN unswept' /\ \A l \in DOMAIN windows' : windows'[l] = unswept'[l]
    BY <1>2, <1>6, <1>7 DEF Keeps
  <2>2. ASSUME NEW l \in DOMAIN unswept' \ DOMAIN windows' PROVE clock - unswept'[l].windowStartedAt >= Length
    BY <1>2, <1>6, <1>7, <2>2 DEF Keeps, Opened
  <2> QED BY <1>1, <2>1, <2>2 DEF Keeps, Opened
<1>12. AfterSweep(windows, lastSweepAt)'
  <2> SUFFICES ASSUME NEW l \in DOMAIN windows' PROVE Limiter!SweptAt - unswept'[l].windowStartedAt < Length
    BY <1>1 DEF AfterSweep, Opened
  <2>1. CASE l = k
    BY <1>2, <1>4, <1>7, <1>9, <2>1, Sizes
  <2>2. CASE l # k
    BY <1>2, <1>6, <1>7, <2>2 DEF AfterSweep, Keeps, Opened
  <2> QED BY <2>1, <2>2
<1>13. RecentOK'
  <2> DEFINE S == recent[k]
             e == Limiter!Another(k)
  <2>1. /\ \A l \in LimiterKeys : Fits(recent[l], Length, Budget, clock, l \in DOMAIN unswept, Opened(l), Count(l))
        /\ \A l \in LimiterKeys : Numbered(recent[l], clock)
        /\ recent = [l \in LimiterKeys |-> recent[l]]
    BY <1>4 DEF RecentOK
  <2>2. Limiter!Recent(k, clock) = S
    BY <2>1 DEF Fits, Limiter!Recent
  <2>3. e = <<Cardinality({y \in S : y[2] = clock}) + 1, clock>> /\ e[2] = clock
    BY LimiterCounts DEF Limiter!Another
  <2> HIDE DEF e
  <2>4. /\ recent' = [l \in LimiterKeys |-> recent'[l]] /\ recent'[k] = S \cup {e}
        /\ \A l \in LimiterKeys : l # k => recent'[l] = recent[l]
    BY <1>1, <2>1, <2>2 DEF e
  <2>5. IsFiniteSet(S)
    BY <2>1 DEF Fits
  <2>6. e \notin S /\ Numbered(S \cup {e}, clock)
    BY <1>4, <2>1, <2>3, <2>5, AnotherIsNew
  <2>7. Fits(S \cup {e}, Length, Budget, clock, TRUE, entry.windowStartedAt, entry.count)
    <3> DEFINE open == k \in DOMAIN unswept
    <3>1. Fits(S, Length, Budget, clock, open, Opened(k), Count(k)) /\ open \in BOOLEAN
      BY <2>1
    <3>2. CASE fresh
      <4>1. open => clock - Opened(k) >= Length
        BY <3>2 DEF fresh
      <4> HIDE DEF open, S
      <4>2. Fits(S \cup {e}, Length, Budget, clock, TRUE, clock, 1)
        BY <1>4, <2>3, <3>1, <4>1, Sizes, Opens
      <4> QED BY <1>9, <3>2, <4>2
    <3>3. CASE ~fresh
      <4>1. Fits(S, Length, Budget, clock, TRUE, Opened(k), Count(k))
        BY <1>7, <3>1, <3>3 DEF Fits
      <4> HIDE DEF open, S
      <4>2. Fits(S \cup {e}, Length, Budget, clock, TRUE, Opened(k), Count(k) + 1)
        BY <1>4, <1>8, <2>3, <2>6, <3>3, <4>1, Sizes, Counts
      <4> QED BY <1>9, <3>3, <4>2
    <3> QED BY <3>2, <3>3
  <2>8. ASSUME NEW l \in LimiterKeys
        PROVE  /\ Fits(recent'[l], Length, Budget, clock, l \in DOMAIN unswept',
                       unswept'[l].windowStartedAt, unswept'[l].count)
               /\ Numbered(recent'[l], clock)
    <3>1. CASE l = k
      BY <1>7, <2>4, <2>6, <2>7, <3>1 DEF Fits
    <3>2. CASE l # k /\ l \in DOMAIN unswept
      <4>1. l \in DOMAIN unswept' /\ unswept'[l] = unswept[l] /\ recent'[l] = recent[l]
        BY <1>7, <2>4, <3>2
      <4> QED BY <2>1, <3>2, <4>1 DEF Opened, Count, Fits
    <3>3. CASE l # k /\ l \notin DOMAIN unswept
      <4>1. l \notin DOMAIN unswept' /\ recent'[l] = recent[l]
        BY <1>7, <2>4, <3>3
      <4> QED BY <2>1, <3>3, <4>1 DEF Fits
    <3> QED BY <3>1, <3>2, <3>3
  <2> QED BY <1>1, <2>4, <2>8 DEF RecentOK, Opened, Count
<1>14. ToldOK'
  <2> SUFFICES ASSUME NEW l \in LimiterKeys, told[l].back # 0
               PROVE  /\ l \in DOMAIN unswept'
                      /\ \/ unswept'[l].windowStartedAt > told[l].at
                         \/ /\ told[l].at - unswept'[l].windowStartedAt < Length
                            /\ Length <= told[l].back - unswept'[l].windowStartedAt
    BY <1>1, <1>4 DEF ToldOK, TellsTheEnd, Opened
  <2>1. TellsTheEnd(l)
    BY <1>4 DEF ToldOK
  <2>2. CASE l = k /\ fresh
    <3>1. Opened(k) \in Nat /\ clock - Opened(k) >= Length
      BY <1>4, <2>1, <2>2 DEF TellsTheEnd, WindowsOK, Opened, fresh
    <3> QED BY <1>4, <1>7, <1>9, <2>1, <2>2, <3>1, Sizes DEF TellsTheEnd
  <2>3. CASE l # k \/ ~fresh
    <3>1. unswept'[l].windowStartedAt = Opened(l) /\ l \in DOMAIN unswept'
      BY <1>7, <1>9, <2>1, <2>3 DEF TellsTheEnd, Opened
    <3> QED BY <2>1, <3>1 DEF TellsTheEnd
  <2> QED BY <2>2, <2>3
<1>15. LimiterClockOK'
  BY <1>1, <1>2, <1>4 DEF LimiterClockOK
<1> QED BY <1>10, <1>11, <1>12, <1>13, <1>14, <1>15 DEF LInv

\* The waiting time that is told is long enough.
LEMMA RetryIsLater ==
  ASSUME NEW a \in Int, NEW u \in Nat \ {0}
  PROVE  LET r == IF (a + u - 1) \div u < 1 THEN 1 ELSE (a + u - 1) \div u
         IN  r \in Nat /\ u * r \in Nat /\ u * r >= a /\ u * r >= 1
<1> DEFINE q == (a + u - 1) \div u
<1>1. q \in Int /\ u * q >= a
  BY SMT
<1>2. PICK p \in Int : p = q
  BY <1>1
<1> HIDE DEF q
<1>3. CASE p < 1
  <2>1. u * 1 = u
    BY SMT
  <2>2. p <= 0
    BY <1>2, <1>3
  <2>3. u * p <= 0
    BY <2>2, SMT
  <2> QED BY <1>1, <1>2, <1>3, <2>1, <2>3 DEF q
<1>4. CASE p >= 1
  <2>1. u * p >= u /\ u * p \in Nat
    BY <1>4, SMT
  <2> QED BY <1>1, <1>2, <1>4, <2>1 DEF q
<1> QED BY <1>3, <1>4

LEMMA RefuseKeeps == ASSUME LInv, NEW k \in LimiterKeys, Limiter!Refuse(k) PROVE LInv'
<1> DEFINE wait == Unit * Limiter!RetryAfter(LSwept, k, clock)
<1>1. /\ ~Limiter!Allowed(LSwept, k, clock)
      /\ windows' = LSwept /\ lastSweepAt' = Limiter!SweptAt
      /\ told' = [told EXCEPT ![k] = [at |-> clock, back |-> clock + wait]]
      /\ UNCHANGED <<clock, unswept, recent>>
  BY DEF Limiter!Refuse, LSwept
<1>2. /\ Keeps(LSwept) /\ AfterSweep(LSwept, Limiter!SweptAt)
      /\ Limiter!SweptAt \in Nat /\ Limiter!SweptAt <= clock
  BY SweptKeeps
<1>3. clock \in Nat /\ WindowsOK /\ RecentOK /\ ToldOK
  BY DEF LInv, LimiterClockOK
<1>4. /\ k \in DOMAIN LSwept /\ clock - Opened(k) < Length /\ LSwept[k] = unswept[k]
      /\ k \in DOMAIN unswept /\ Opened(k) \in Nat /\ Opened(k) <= clock
  BY <1>1, <1>2, <1>3, KeepsDecides DEF Keeps, WindowsOK, Opened
<1>5. wait \in Nat /\ wait >= Opened(k) + Length - clock /\ wait >= 1
  <2> DEFINE a == Opened(k) + Length - clock
             r == IF (a + Unit - 1) \div Unit < 1 THEN 1 ELSE (a + Unit - 1) \div Unit
  <2>1. wait = Unit * r
    BY <1>4 DEF Limiter!RetryAfter, Opened
  <2>2. a \in Int
    BY <1>3, <1>4, Sizes
  <2> HIDE DEF a, wait
  <2>3. Unit * r \in Nat /\ Unit * r >= a /\ Unit * r >= 1
    BY <2>2, Sizes, RetryIsLater
  <2> QED BY <2>1, <2>3 DEF a
<1> HIDE DEF wait
<1>6. ToldOK'
  <2>1. /\ told' = [l \in LimiterKeys |-> told'[l]]
        /\ told'[k] = [at |-> clock, back |-> clock + wait]
        /\ \A l \in LimiterKeys : l # k => told'[l] = told[l]
    BY <1>1, <1>3 DEF ToldOK
  <2>2. TellsTheEnd(k)'
    <3>1. told'[k].at = clock /\ told'[k].back = clock + wait
      BY <2>1
    <3> QED BY <1>1, <1>3, <1>4, <1>5, <3>1, Sizes DEF TellsTheEnd, Opened
  <2>3. ASSUME NEW l \in LimiterKeys, l # k PROVE TellsTheEnd(l)'
    <3>1. TellsTheEnd(l)
      BY <1>3 DEF ToldOK
    <3> QED BY <1>1, <2>1, <2>3, <3>1 DEF TellsTheEnd, Opened
  <2> QED BY <2>1, <2>2, <2>3 DEF ToldOK
<1>7. LimiterClockOK' /\ Keeps(windows)' /\ AfterSweep(windows, lastSweepAt)' /\ WindowsOK' /\ RecentOK'
  BY <1>1, <1>2, <1>3 DEF LimiterClockOK, Keeps, AfterSweep, WindowsOK, RecentOK, Opened, Count
<1> QED BY <1>6, <1>7 DEF LInv

LEMMA LimiterTickKeeps == ASSUME LInv, Limiter!Tick PROVE LInv'
<1>1. /\ clock' = clock + 1 /\ UNCHANGED <<windows, lastSweepAt, unswept, told>>
      /\ recent' = [k \in LimiterKeys |-> Late(recent[k], Length, clock + 1)]
  BY DEF Limiter!Tick, Limiter!Recent, Late
<1>2. /\ clock \in Nat /\ WindowsOK /\ RecentOK /\ ToldOK
      /\ Keeps(windows) /\ AfterSweep(windows, lastSweepAt) /\ lastSweepAt \in Nat /\ lastSweepAt <= clock
  BY DEF LInv, LimiterClockOK
<1>3. \A k \in DOMAIN unswept : Opened(k) \in Nat
  BY <1>2 DEF WindowsOK, Opened
<1>4. LimiterClockOK' /\ Keeps(windows)' /\ AfterSweep(windows, lastSweepAt)' /\ WindowsOK'
  <2>1. Keeps(windows)'
    BY <1>1, <1>2, <1>3, Sizes DEF Keeps, Opened
  <2>2. WindowsOK'
    BY <1>1, <1>2, <1>3 DEF WindowsOK, Opened, Count
  <2>3. LimiterClockOK' /\ AfterSweep(windows, lastSweepAt)'
    BY <1>1, <1>2 DEF LimiterClockOK, AfterSweep, Opened
  <2> QED BY <2>1, <2>2, <2>3
<1>5. ToldOK'
  BY <1>1, <1>2 DEF ToldOK, TellsTheEnd, Opened
<1>6. RecentOK'
  <2>1. ASSUME NEW k \in LimiterKeys
        PROVE  /\ Fits(recent'[k], Length, Budget, clock + 1, k \in DOMAIN unswept, Opened(k), Count(k))
               /\ Numbered(recent'[k], clock + 1)
    <3> DEFINE open == k \in DOMAIN unswept
    <3>1. Fits(recent[k], Length, Budget, clock, open, Opened(k), Count(k)) /\ open \in BOOLEAN
      BY <1>2 DEF RecentOK
    <3>2. recent'[k] = Late(recent[k], Length, clock + 1)
      BY <1>1
    <3> HIDE DEF open
    <3>3. Fits(recent'[k], Length, Budget, clock + 1, open, Opened(k), Count(k))
      BY <1>2, <3>1, <3>2, Sizes, TimeGoesOn
    <3>4. \A x \in recent'[k] : x[2] # clock + 1
      BY <1>2, <3>1, <3>2 DEF Fits, Late
    <3> QED BY <3>3, <3>4 DEF Numbered, open
  <2>2. recent' = [k \in LimiterKeys |-> recent'[k]]
    BY <1>1
  <2> QED BY <1>1, <2>1, <2>2 DEF RecentOK, Opened, Count
<1> QED BY <1>4, <1>5, <1>6 DEF LInv

\* The limiter decides as if it forgot nothing, lets two budgets through in no
\* window's length more, keeps what it tells and forgets what is over.
THEOREM LimiterInvHolds == Limiter!Spec => []LimiterInv
<1>1. Limiter!Init => LInv
  BY LimiterStarts
<1>2. LInv /\ [Limiter!Next]_(Limiter!vars) => LInv'
  <2> SUFFICES ASSUME LInv, [Limiter!Next]_(Limiter!vars) PROVE LInv'
    OBVIOUS
  <2>1. CASE Limiter!Tick
    BY <2>1, LimiterTickKeeps
  <2>2. ASSUME NEW k \in LimiterKeys, Limiter!Admit(k) PROVE LInv'
    BY <2>2, AdmitKeeps
  <2>3. ASSUME NEW k \in LimiterKeys, Limiter!Refuse(k) PROVE LInv'
    BY <2>3, RefuseKeeps
  <2>4. CASE UNCHANGED Limiter!vars
    BY <2>4 DEF Limiter!vars, LInv, LimiterClockOK, Keeps, AfterSweep, WindowsOK, RecentOK, ToldOK,
                TellsTheEnd, Opened, Count
  <2> QED BY <2>1, <2>2, <2>3, <2>4 DEF Limiter!Next
<1>3. LInv => LimiterInv
  BY LimiterIsSafe DEF LimiterInv
<1> QED BY <1>1, <1>2, <1>3, PTL DEF Limiter!Spec

-----------------------------------------------------------------------------
(* The configuration: entries are loaded while they clash with none before.  *)

List == config.static
Names(e) == Configuration!Bindings(e)
Clashing == \E i, j \in DOMAIN List : i # j /\ Configuration!Clash(List[i], List[j])

\* What is loaded is the head of the list; tokens and owners are those of its entries.
LoadedOK ==
  /\ entries \in Seq(Configuration!Entry) /\ List \in Seq(Configuration!Entry)
  /\ Len(entries) <= Len(List) /\ \A i \in DOMAIN entries : entries[i] = List[i]
  /\ hashes = {entries[i].token : i \in DOMAIN entries}
  /\ DOMAIN owners = UNION {Names(entries[i]) : i \in DOMAIN entries}
  /\ \A i \in DOMAIN entries : \A b \in Names(entries[i]) : owners[b] = entries[i].subject
  /\ \A i, j \in DOMAIN entries : i # j => entries[i].token # entries[j].token

Static == config.jwt = "unset" /\ config.given /\ List # <<>>
Signed == config.jwt # "unset" /\ ~config.given /\ List = <<>>

StageOK ==
  /\ config \in Configs /\ config.jwt \in {"claim", "open", "unset"} /\ starts \in 1 .. MaxStarts
  /\ config.given \in BOOLEAN /\ (~config.given => List = <<>>)
  /\ stage \in {"loading", "ready", "refused"}
  /\ stage = "loading" => Static
  /\ stage = "ready" => Signed \/ (Static /\ Len(entries) = Len(List))
  /\ stage = "refused" => Clashing \/ (~Static /\ ~Signed)

SignedFor(b, subject) ==
  \E c \in Claims : /\ c.subject = subject /\ c.tenant = b[1] /\ c.role \in Roles
                    /\ Cardinality({i \in DOMAIN c.clients : c.clients[i] = b[2]}) = 1

\* What the server has added to the ledger is its entries', or a valid claim's.
AdoptedOK ==
  /\ stage # "ready" => adopted = {}
  /\ adopted \subseteq DOMAIN ledger
  /\ \A b \in adopted : /\ Static => b \in DOMAIN owners /\ ledger[b] = owners[b]
                        /\ config.jwt = "claim" => SignedFor(b, ledger[b])

CInv == LoadedOK /\ StageOK /\ AdoptedOK

LEMMA ConfigurationCounts == \A S : Configuration!Cardinality(S) = Cardinality(S)
  BY DEF Configuration!Cardinality, Cardinality

\* A caller that is known by its token is one of the entries.
LEMMA IdentityIsAnEntry ==
  ASSUME CInv, NEW id \in Configuration!StaticIdentities
  PROVE  \E i \in DOMAIN entries : id = [subject |-> entries[i].subject, tenant |-> entries[i].tenant,
                                          clients |-> entries[i].clients]
<1>1. PICK t \in hashes : id = [subject |-> Configuration!EntryOf(t).subject,
                                tenant |-> Configuration!EntryOf(t).tenant,
                                clients |-> Configuration!EntryOf(t).clients]
  BY DEF Configuration!StaticIdentities
<1>2. \E i \in DOMAIN entries : entries[i].token = t /\ \A j \in DOMAIN entries : entries[j].token = t => i <= j
  <2>1. PICK i \in DOMAIN entries : entries[i].token = t
    BY DEF CInv, LoadedOK
  <2>2. \A j \in DOMAIN entries : entries[j].token = t => j = i
    BY <2>1 DEF CInv, LoadedOK
  <2>3. i \in Nat
    BY <2>1 DEF CInv, LoadedOK
  <2> QED BY <2>1, <2>2, <2>3
<1>3. \E i \in DOMAIN entries : Configuration!EntryOf(t) = entries[i]
  BY <1>2 DEF Configuration!EntryOf
<1> QED BY <1>1, <1>3

LEMMA ConfigurationIsSafe == ASSUME CInv PROVE Configuration!ConfigurationInv
<1>1. Configuration!AuthTypeOK
  BY DEF CInv, LoadedOK, StageOK, AdoptedOK, Names, Configuration!AuthTypeOK
<1>2. ASSUME NEW i \in DOMAIN entries, NEW j \in DOMAIN entries, i # j
      PROVE  ~Configuration!Clash(entries[i], entries[j])
  BY <1>2 DEF CInv, LoadedOK, Names, Configuration!Clash
<1>3. Configuration!RefusedIfItClashes
  <2>1. ASSUME stage = "ready"
        PROVE  config.given # (config.jwt # "unset") /\ (config.given => List # <<>>)
    BY <2>1 DEF CInv, StageOK, Static, Signed
  <2>2. ASSUME stage = "ready", NEW i \in DOMAIN List, NEW j \in DOMAIN List, i # j
        PROVE  ~Configuration!Clash(List[i], List[j])
    <3>1. CASE Signed
      BY <2>2, <3>1 DEF Signed
    <3>2. CASE Static /\ Len(entries) = Len(List)
      <4>1. i \in DOMAIN entries /\ j \in DOMAIN entries /\ entries[i] = List[i] /\ entries[j] = List[j]
        BY <3>2 DEF CInv, LoadedOK
      <4> QED BY <1>2, <2>2, <4>1
    <3> QED BY <2>2, <3>1, <3>2 DEF CInv, StageOK
  <2>3. ASSUME stage = "refused"
        PROVE  Clashing \/ ~(config.given # (config.jwt # "unset") /\ (config.given => List # <<>>))
    BY <2>3 DEF CInv, StageOK, Static, Signed
  <2> QED BY <2>1, <2>2, <2>3 DEF Configuration!RefusedIfItClashes, Configuration!Unset, List, Clashing
<1>4. Configuration!StaticPushesNeverClash
  <2> SUFFICES ASSUME stage = "ready", config.jwt = "unset",
                      NEW id \in Configuration!StaticIdentities, NEW c \in id.clients,
                      <<id.tenant, c>> \in adopted
               PROVE  ledger[<<id.tenant, c>>] = id.subject
    BY DEF Configuration!StaticPushesNeverClash, Configuration!Unset
  <2>1. PICK i \in DOMAIN entries : id = [subject |-> entries[i].subject, tenant |-> entries[i].tenant,
                                          clients |-> entries[i].clients]
    BY IdentityIsAnEntry
  <2>2. <<id.tenant, c>> \in Names(entries[i]) /\ id.subject = entries[i].subject
    BY <2>1 DEF Names, Configuration!Bindings
  <2>3. owners[<<id.tenant, c>>] = id.subject
    BY <2>2 DEF CInv, LoadedOK
  <2>4. Static
    BY DEF CInv, StageOK, Static, Signed
  <2> QED BY <2>3, <2>4 DEF CInv, AdoptedOK
<1>5. Configuration!OwnersHaveValidClaims
  BY ConfigurationCounts DEF CInv, AdoptedOK, SignedFor, Configuration!OwnersHaveValidClaims
<1> QED BY <1>1, <1>3, <1>4, <1>5 DEF Configuration!ConfigurationInv

\* A server that has just been started.
JustStarted ==
  /\ config \in Configs /\ stage = Configuration!FirstStage(config) /\ starts \in 1 .. MaxStarts
  /\ hashes = {} /\ owners = Configuration!Nothing /\ entries = <<>> /\ adopted = {}

LEMMA FreshStart == JustStarted => CInv
<1> SUFFICES ASSUME JustStarted, NEW c \in Configs, c = config PROVE CInv
  BY DEF JustStarted
<1>0. /\ stage = Configuration!FirstStage(c) /\ starts \in 1 .. MaxStarts
      /\ hashes = {} /\ owners = Configuration!Nothing /\ entries = <<>> /\ adopted = {}
  BY DEF JustStarted
<1>1. /\ c.jwt \in {"claim", "open", "unset"} /\ List \in Seq(Configuration!Entry)
      /\ c.given \in BOOLEAN /\ (~c.given => List = <<>>)
  BY ConfigurationAssumption DEF List
<1>2. DOMAIN owners = {} /\ DOMAIN entries = {} /\ Len(entries) = 0 /\ entries \in Seq(Configuration!Entry)
  BY <1>0 DEF Configuration!Nothing
<1>3. LoadedOK
  BY <1>0, <1>1, <1>2 DEF LoadedOK
<1>4. /\ stage \in {"loading", "ready", "refused"}
      /\ stage = "loading" => Static
      /\ stage = "ready" => Signed
      /\ stage = "refused" => ~Static /\ ~Signed
  <2>1. CASE c.given = (c.jwt # "unset") \/ (c.given /\ c.static = <<>>)
    <3>1. stage = "refused"
      BY <1>0, <2>1 DEF Configuration!FirstStage, Configuration!Unset
    <3> QED BY <1>1, <2>1, <3>1 DEF Static, Signed, List
  <2>2. CASE ~c.given /\ c.jwt # "unset"
    <3>1. stage = "ready"
      BY <1>0, <1>1, <2>2 DEF Configuration!FirstStage, Configuration!Unset
    <3> QED BY <1>1, <2>2, <3>1 DEF Static, Signed, List
  <2>3. CASE c.given /\ c.jwt = "unset" /\ c.static # <<>>
    <3>1. stage = "loading"
      BY <1>0, <1>1, <2>3 DEF Configuration!FirstStage, Configuration!Unset
    <3> QED BY <1>1, <2>3, <3>1 DEF Static, Signed, List
  <2> QED BY <1>1, <2>1, <2>2, <2>3
<1>5. StageOK
  BY <1>0, <1>1, <1>4 DEF StageOK
<1>6. AdoptedOK
  BY <1>0 DEF AdoptedOK
<1> QED BY <1>3, <1>5, <1>6 DEF CInv

LEMMA ConfigurationStarts == ASSUME Configuration!Init PROVE CInv
<1>1. starts \in 1 .. MaxStarts
  BY ConfigurationAssumption DEF Configuration!Init
<1> QED BY <1>1, FreshStart DEF Configuration!Init, JustStarted

LEMMA LoadKeeps == ASSUME CInv, Configuration!LoadEntry PROVE CInv'
<1> DEFINE e == List[Len(entries) + 1]
<1>1. /\ stage = "loading" /\ Len(entries) < Len(List)
      /\ e.token \notin hashes
      /\ \A b \in Names(e) : b \in DOMAIN owners => owners[b] = e.subject
      /\ hashes' = hashes \cup {e.token}
      /\ owners' = [b \in DOMAIN owners \cup Names(e) |-> IF b \in DOMAIN owners THEN owners[b] ELSE e.subject]
      /\ entries' = Append(entries, e)
      /\ UNCHANGED <<config, stage, ledger, adopted, starts>>
  BY DEF Configuration!LoadEntry, Configuration!Upcoming, Configuration!Repeated, Configuration!Taken, Names, List
<1>2. LoadedOK /\ StageOK /\ AdoptedOK
  BY DEF CInv
<1>3. /\ entries \in Seq(Configuration!Entry) /\ List \in Seq(Configuration!Entry)
      /\ Len(entries) \in Nat /\ Len(List) \in Nat /\ e \in Configuration!Entry
  BY <1>1, <1>2 DEF LoadedOK
<1>4. /\ entries' \in Seq(Configuration!Entry) /\ Len(entries') = Len(entries) + 1
      /\ DOMAIN entries' = DOMAIN entries \cup {Len(entries) + 1}
      /\ Len(entries) + 1 \notin DOMAIN entries
      /\ entries'[Len(entries) + 1] = e /\ \A i \in DOMAIN entries : entries'[i] = entries[i]
  BY <1>1, <1>3
<1>5. List' = List
  BY <1>1 DEF List
<1>6. LoadedOK'
  <2>1. Len(entries') <= Len(List) /\ \A i \in DOMAIN entries' : entries'[i] = List[i]
    BY <1>1, <1>2, <1>3, <1>4 DEF LoadedOK
  <2>2. hashes' = {entries'[i].token : i \in DOMAIN entries'}
    BY <1>1, <1>2, <1>4 DEF LoadedOK
  <2>3. /\ DOMAIN owners' = DOMAIN owners \cup Names(e)
        /\ \A b \in DOMAIN owners : owners'[b] = owners[b]
        /\ \A b \in Names(e) : owners'[b] = e.subject
    BY <1>1
  <2>4. DOMAIN owners' = UNION {Names(entries'[i]) : i \in DOMAIN entries'}
    <3>1. DOMAIN owners = UNION {Names(entries[i]) : i \in DOMAIN entries}
      BY <1>2 DEF LoadedOK
    <3>2. ASSUME NEW b \in DOMAIN owners' PROVE \E i \in DOMAIN entries' : b \in Names(entries'[i])
      <4>1. CASE b \in Names(e)
        BY <1>4, <4>1
      <4>2. CASE b \in DOMAIN owners
        <5>1. PICK i \in DOMAIN entries : b \in Names(entries[i])
          BY <3>1, <4>2
        <5> QED BY <1>4, <5>1
      <4> QED BY <2>3, <4>1, <4>2
    <3>3. ASSUME NEW i \in DOMAIN entries', NEW b \in Names(entries'[i]) PROVE b \in DOMAIN owners'
      <4>1. CASE i \in DOMAIN entries
        <5>1. b \in Names(entries[i])
          BY <1>4, <4>1
        <5> QED BY <2>3, <3>1, <4>1, <5>1
      <4>2. CASE i = Len(entries) + 1
        BY <1>4, <2>3, <4>2
      <4> QED BY <1>4, <4>1, <4>2
    <3> QED BY <3>2, <3>3
  <2>5. ASSUME NEW i \in DOMAIN entries', NEW b \in Names(entries'[i]) PROVE owners'[b] = entries'[i].subject
    <3>1. CASE i \in DOMAIN entries
      <4>1. entries'[i] = entries[i] /\ b \in Names(entries[i])
        BY <1>4, <3>1
      <4>2. b \in DOMAIN owners /\ owners[b] = entries[i].subject
        BY <1>2, <3>1, <4>1 DEF LoadedOK
      <4> QED BY <2>3, <4>1, <4>2
    <3>2. CASE i = Len(entries) + 1
      <4>1. entries'[i] = e /\ b \in Names(e)
        BY <1>4, <3>2
      <4> QED BY <2>3, <4>1
    <3> QED BY <1>4, <3>1, <3>2
  <2>6. ASSUME NEW i \in DOMAIN entries', NEW j \in DOMAIN entries', i # j
        PROVE  entries'[i].token # entries'[j].token
    <3>1. \A l \in DOMAIN entries : entries[l].token # e.token
      BY <1>1, <1>2 DEF LoadedOK
    <3> QED BY <1>2, <1>4, <2>6, <3>1 DEF LoadedOK
  <2>7. /\ \A i \in DOMAIN entries' : \A b \in Names(entries'[i]) : owners'[b] = entries'[i].subject
        /\ \A i, j \in DOMAIN entries' : i # j => entries'[i].token # entries'[j].token
    BY <2>5, <2>6
  <2>8. \A x : Names(x)' = Names(x)
    BY DEF Names, Configuration!Bindings
  <2> QED BY <1>3, <1>4, <1>5, <2>1, <2>2, <2>4, <2>7, <2>8 DEF LoadedOK, Names, Configuration!Bindings, Configuration!Entry
<1>7. StageOK'
  BY <1>1, <1>2, <1>5 DEF StageOK, Static, Signed
<1>8. AdoptedOK'
  BY <1>1, <1>2 DEF AdoptedOK
<1> QED BY <1>6, <1>7, <1>8 DEF CInv

LEMMA RefuseEntryKeeps == ASSUME CInv, Configuration!RefuseEntry PROVE CInv'
<1> DEFINE e == List[Len(entries) + 1]
<1>1. /\ stage = "loading" /\ Len(entries) < Len(List)
      /\ \/ e.token \in hashes
         \/ \E b \in Names(e) : b \in DOMAIN owners /\ owners[b] # e.subject
      /\ stage' = "refused"
      /\ UNCHANGED <<config, hashes, owners, entries, ledger, adopted, starts>>
  BY DEF Configuration!RefuseEntry, Configuration!Upcoming, Configuration!Repeated, Configuration!Taken, Names, List
<1>2. LoadedOK /\ StageOK /\ AdoptedOK
  BY DEF CInv
<1>3. /\ DOMAIN entries \subseteq DOMAIN List /\ Len(entries) + 1 \in DOMAIN List
      /\ Len(entries) + 1 \notin DOMAIN entries
  BY <1>1, <1>2 DEF LoadedOK
<1>4. PICK i \in DOMAIN entries : Configuration!Clash(List[i], e)
  <2>1. CASE e.token \in hashes
    <3>1. PICK i \in DOMAIN entries : entries[i].token = e.token
      BY <1>2, <2>1 DEF LoadedOK
    <3>2. List[i].token = e.token
      BY <1>2, <3>1 DEF LoadedOK
    <3> QED BY <3>2 DEF Configuration!Clash
  <2>2. CASE \E b \in Names(e) : b \in DOMAIN owners /\ owners[b] # e.subject
    <3>1. PICK b \in Names(e) : b \in DOMAIN owners /\ owners[b] # e.subject
      BY <2>2
    <3>2. PICK i \in DOMAIN entries : b \in Names(entries[i])
      BY <1>2, <3>1 DEF LoadedOK
    <3>3. b \in Names(List[i]) /\ List[i].subject # e.subject
      BY <1>2, <3>1, <3>2 DEF LoadedOK
    <3>4. Names(List[i]) \cap Names(e) # {}
      BY <3>1, <3>3
    <3> QED BY <3>3, <3>4 DEF Configuration!Clash, Names
  <2> QED BY <1>1, <2>1, <2>2
<1>5. Clashing
  BY <1>3, <1>4 DEF Clashing
<1>6. StageOK'
  BY <1>1, <1>2, <1>5 DEF StageOK, Clashing, List, Static, Signed
<1>7. LoadedOK' /\ AdoptedOK'
  BY <1>1, <1>2 DEF LoadedOK, AdoptedOK, StageOK, List, Names
<1> QED BY <1>6, <1>7 DEF CInv

LEMMA LoadedKeeps == ASSUME CInv, Configuration!Loaded PROVE CInv'
<1>1. /\ stage = "loading" /\ Len(entries) = Len(List) /\ stage' = "ready"
      /\ UNCHANGED <<config, hashes, owners, entries, ledger, adopted, starts>>
  BY DEF Configuration!Loaded, List
<1>2. LoadedOK /\ StageOK /\ AdoptedOK
  BY DEF CInv
<1>3. StageOK'
  BY <1>1, <1>2 DEF StageOK, List, Static, Signed
<1>4. LoadedOK'
  BY <1>1, <1>2 DEF LoadedOK, List, Names
<1>5. AdoptedOK'
  BY <1>1, <1>2 DEF AdoptedOK
<1> QED BY <1>3, <1>4, <1>5 DEF CInv

\* Who pushes as a client is the subject its entry, or its claim, gives it to.
LEMMA PushesAsHisClient ==
  ASSUME CInv, stage = "ready", NEW id \in Configuration!Identities, NEW c \in id.clients
  PROVE  LET b == <<id.tenant, c>> IN
         /\ Static => b \in DOMAIN owners /\ owners[b] = id.subject
         /\ config.jwt = "claim" => SignedFor(b, id.subject)
<1> DEFINE b == <<id.tenant, c>>
<1>1. CASE config.jwt = "unset"
  <2>1. id \in Configuration!StaticIdentities
    BY <1>1 DEF Configuration!Identities, Configuration!Unset
  <2>2. PICK i \in DOMAIN entries : id = [subject |-> entries[i].subject, tenant |-> entries[i].tenant,
                                          clients |-> entries[i].clients]
    BY <2>1, IdentityIsAnEntry
  <2>3. b \in Names(entries[i]) /\ id.subject = entries[i].subject
    BY <2>2 DEF Names, Configuration!Bindings
  <2>4. b \in DOMAIN owners /\ owners[b] = id.subject
    BY <2>3 DEF CInv, LoadedOK
  <2> QED BY <1>1, <2>4
<1>2. CASE config.jwt = "claim"
  <2>1. PICK d \in Claims : /\ Configuration!Valid(d)
                            /\ id = [subject |-> d.subject, tenant |-> d.tenant,
                                     clients |-> {d.clients[i] : i \in DOMAIN d.clients}]
    BY <1>2 DEF Configuration!Identities, Configuration!Unset, Configuration!JwtIdentities
  <2>2. /\ d.role \in Roles
        /\ \A i, j \in DOMAIN d.clients : d.clients[i] = d.clients[j] => i = j
    BY <1>2, <2>1 DEF Configuration!Valid, Configuration!WellFormed
  <2>3. PICK i \in DOMAIN d.clients : c = d.clients[i]
    BY <2>1
  <2>4. {j \in DOMAIN d.clients : d.clients[j] = c} = {i}
    BY <2>2, <2>3
  <2>5. Cardinality({j \in DOMAIN d.clients : d.clients[j] = c}) = 1
    BY <2>4, FS_Singleton
  <2>6. d.subject = id.subject /\ d.tenant = b[1] /\ c = b[2]
    BY <2>1
  <2>7. SignedFor(b, id.subject)
    BY <2>2, <2>5, <2>6 DEF SignedFor
  <2> QED BY <1>2, <2>7 DEF Static
<1>3. CASE config.jwt \notin {"unset", "claim"}
  BY <1>3 DEF Static
<1> QED BY <1>1, <1>2, <1>3

LEMMA PushKeeps == ASSUME CInv, Configuration!Push PROVE CInv'
<1>1. /\ stage = "ready" /\ UNCHANGED <<config, stage, hashes, owners, entries, starts>>
      /\ \E id \in Configuration!Identities : \E c \in id.clients :
           LET b == <<id.tenant, c>> IN
           /\ b \in DOMAIN ledger => ledger[b] = id.subject
           /\ ledger' = [d \in DOMAIN ledger \cup {b} |-> IF d = b THEN id.subject ELSE ledger[d]]
           /\ adopted' = IF b \in DOMAIN ledger THEN adopted ELSE adopted \cup {b}
  BY DEF Configuration!Push, Configuration!OwnerOf
<1>2. PICK id \in Configuration!Identities : \E b \in {<<id.tenant, c>> : c \in id.clients} :
        /\ b \in DOMAIN ledger => ledger[b] = id.subject
        /\ ledger' = [d \in DOMAIN ledger \cup {b} |-> IF d = b THEN id.subject ELSE ledger[d]]
        /\ adopted' = IF b \in DOMAIN ledger THEN adopted ELSE adopted \cup {b}
  BY <1>1
<1>3. PICK b \in {<<id.tenant, c>> : c \in id.clients} :
        /\ b \in DOMAIN ledger => ledger[b] = id.subject
        /\ ledger' = [d \in DOMAIN ledger \cup {b} |-> IF d = b THEN id.subject ELSE ledger[d]]
        /\ adopted' = IF b \in DOMAIN ledger THEN adopted ELSE adopted \cup {b}
  BY <1>2
<1>4. /\ Static => b \in DOMAIN owners /\ owners[b] = id.subject
      /\ config.jwt = "claim" => SignedFor(b, id.subject)
  BY <1>1, <1>3, PushesAsHisClient
<1>5. LoadedOK /\ StageOK /\ AdoptedOK
  BY DEF CInv
<1>6. LoadedOK' /\ StageOK'
  BY <1>1, <1>5 DEF LoadedOK, StageOK, List, Names, Static, Signed, Clashing
<1>7. /\ DOMAIN ledger' = DOMAIN ledger \cup {b} /\ ledger'[b] = id.subject
      /\ \A d \in DOMAIN ledger : ledger'[d] = ledger[d]
      /\ adopted' \subseteq adopted \cup {b}
  BY <1>3
<1>8. ASSUME NEW d \in adopted'
      PROVE  /\ d \in DOMAIN ledger'
             /\ Static => d \in DOMAIN owners /\ ledger'[d] = owners[d]
             /\ config.jwt = "claim" => SignedFor(d, ledger'[d])
  <2>1. CASE d = b
    BY <1>4, <1>7, <2>1
  <2>2. CASE d \in adopted
    <3>1. /\ d \in DOMAIN ledger
          /\ Static => d \in DOMAIN owners /\ ledger[d] = owners[d]
          /\ config.jwt = "claim" => SignedFor(d, ledger[d])
      BY <1>5, <2>2 DEF AdoptedOK
    <3>2. ledger'[d] = ledger[d] /\ d \in DOMAIN ledger'
      BY <1>7, <3>1
    <3> QED BY <3>1, <3>2
  <2> QED BY <1>7, <2>1, <2>2
<1>9. Static' = Static /\ config' = config /\ owners' = owners /\ stage' = stage
  BY <1>1 DEF Static, List
<1>10. AdoptedOK'
  BY <1>1, <1>8, <1>9 DEF AdoptedOK, SignedFor
<1> QED BY <1>6, <1>10 DEF CInv

LEMMA FreshRestart == JustStarted' => CInv'
  BY FreshStart, PTL

LEMMA RestartKeeps == ASSUME CInv, Configuration!Restart PROVE CInv'
<1>1. PICK c \in Configs : Configuration!Start(c)
  BY DEF Configuration!Restart
<1>2. starts' \in 1 .. MaxStarts
  BY ConfigurationAssumption DEF Configuration!Restart, CInv, StageOK
<1>3. /\ config' = c /\ stage' = Configuration!FirstStage(c)
      /\ hashes' = {} /\ owners' = Configuration!Nothing /\ entries' = <<>> /\ adopted' = {}
  BY <1>1 DEF Configuration!Start
<1>4. Configuration!FirstStage(c) = Configuration!FirstStage(config)'
  BY <1>3 DEF Configuration!FirstStage
<1> QED BY <1>2, <1>3, <1>4, FreshRestart DEF JustStarted

\* Whatever the configurations and the claims: a server is ready or refused for
\* what its configuration says, and a push writes as its subject's client.
THEOREM ConfigurationInvHolds == Configuration!Spec => []ConfigurationInv
<1>1. Configuration!Init => CInv
  BY ConfigurationStarts
<1>2. CInv /\ [Configuration!Next]_(Configuration!vars) => CInv'
  <2> SUFFICES ASSUME CInv, [Configuration!Next]_(Configuration!vars) PROVE CInv'
    OBVIOUS
  <2>1. CASE UNCHANGED Configuration!vars
    BY <2>1 DEF Configuration!vars, CInv, LoadedOK, StageOK, AdoptedOK, List, Names, Static, Signed,
                Clashing
  <2> QED BY <2>1, LoadKeeps, RefuseEntryKeeps, LoadedKeeps, PushKeeps, RestartKeeps DEF Configuration!Next
<1>3. CInv => ConfigurationInv
  BY ConfigurationIsSafe DEF ConfigurationInv
<1> QED BY <1>1, <1>2, <1>3, PTL DEF Configuration!Spec

==============================================================================
