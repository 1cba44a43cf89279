------------------------------ MODULE RateLimiter ------------------------------
(* consume() of FixedWindowRateLimiter (servers/node/src/operations.ts), called *)
(* by any number of principals as time goes on.                                 *)
EXTENDS RateLimits, FiniteSets

CONSTANTS
  Keys,       \* principal and route, hashed
  MaxTime     \* bound: the clock, a number

VARIABLES
  now,        \* Date.now()
  entries,    \* windows that are remembered
  lastSweepAt,
  unswept,    \* windows, had none been forgotten
  recent,     \* each key's requests let through in the last window's length
  told        \* when a key was last refused, and the time it was told to come back at

vars == <<now, entries, lastSweepAt, unswept, recent, told>>

NoEntries == [k \in {} |-> 0]

Init ==
  /\ now = 0 /\ entries = NoEntries /\ lastSweepAt = 0
  /\ unswept = NoEntries
  /\ recent = [k \in Keys |-> {}]
  /\ told = [k \in Keys |-> [at |-> 0, back |-> 0]]

\* A request is its number among those of its moment, and the moment.
Recent(k, time) == {x \in recent[k] : time - x[2] < Window}
Another(k) == <<Cardinality({x \in recent[k] : x[2] = now}) + 1, now>>

Swept == Sweep(entries, lastSweepAt, now)
\* Mutant: the sweep is put off by every request.
SweptAtEach == now

SweptAt == IF SweepDue(lastSweepAt, now) THEN now ELSE lastSweepAt

Admit(k) ==
  /\ Allowed(Swept, k, now)
  /\ entries' = Charged(Swept, k, now) /\ lastSweepAt' = SweptAt
  /\ unswept' = Charged(unswept, k, now)
  /\ recent' = [recent EXCEPT ![k] = Recent(k, now) \cup {Another(k)}]
  /\ UNCHANGED <<now, told>>

Refuse(k) ==
  /\ ~Allowed(Swept, k, now)
  /\ entries' = Swept /\ lastSweepAt' = SweptAt
  /\ told' = [told EXCEPT ![k] = [at |-> now, back |-> now + Second * RetryAfter(Swept, k, now)]]
  /\ UNCHANGED <<now, unswept, recent>>

Tick ==
  /\ now < MaxTime /\ now' = now + 1
  /\ recent' = [k \in Keys |-> Recent(k, now + 1)]
  /\ UNCHANGED <<entries, lastSweepAt, unswept, told>>

Next == Tick \/ \E k \in Keys : Admit(k) \/ Refuse(k)

Spec == Init /\ [][Next]_vars
-----------------------------------------------------------------------------
RateTypeOK ==
  /\ now \in Nat /\ lastSweepAt \in 0..now
  /\ DOMAIN entries \subseteq Keys
  /\ \A k \in DOMAIN entries : entries[k].windowStartedAt \in 0..now /\ entries[k].count \in 1..Requests

\* Forgetting windows changes no decision: a key is let through exactly when it
\* would be, had the limiter kept every window it ever opened.
SweepChangesNothing == \A k \in Keys : Allowed(entries, k, now) = Allowed(unswept, k, now)

\* However the requests fall on the windows, no stretch of a window's length
\* lets through more than two windows' requests.
BurstBound == \A k \in Keys : Cardinality(recent[k]) <= 2 * Requests

\* Who waits as long as told is let through, unless it used up a window that
\* was opened since.
RetryAfterIsEnough ==
  \A k \in Keys : now >= told[k].back =>
    Allowed(entries, k, now) \/ told[k].back = 0 \/ entries[k].windowStartedAt > told[k].at

\* The limiter does not grow without end: what a sweep left behind started in the
\* window before it.
RemembersTheRecent ==
  \A k \in DOMAIN entries : lastSweepAt - entries[k].windowStartedAt < Window

\* The windows a limiter keeps decide as if it kept them all, hold their bound and
\* their promises, and are forgotten.
LimiterInv == RateTypeOK /\ SweepChangesNothing /\ BurstBound /\ RetryAfterIsEnough /\ RemembersTheRecent
=============================================================================
