------------------------------ MODULE RateLimits ------------------------------
(* FixedWindowRateLimiter of servers/node/src/operations.ts: what a limiter    *)
(* answers and how it changes.  A limiter is a partial function from keys to   *)
(* the start and the count of their window.                                    *)
EXTENDS Integers

CONSTANTS
  Requests,   \* requests a key has in a window (0 in the code: no limiter)
  Window,     \* its length, in milliseconds
  Second      \* the milliseconds of a second, in which waiting times are told

ASSUME RateAssumption ==
  Requests \in Nat \ {0} /\ Window \in Nat \ {0} /\ Second \in Nat \ {0}

Over(entry, now) == now - entry.windowStartedAt >= Window

SweepDue(sweptAt, now) == now - sweptAt >= Window

\* Mutant: windows are dropped when they are half over.
SweepEarly(entries, sweptAt, now) ==
  IF SweepDue(sweptAt, now)
  THEN [k \in {k \in DOMAIN entries : 2 * (now - entries[k].windowStartedAt) < Window} |-> entries[k]]
  ELSE entries

\* sweep(): at most once in a window, all entries that are over are dropped.
Sweep(entries, sweptAt, now) ==
  IF SweepDue(sweptAt, now)
  THEN [k \in {k \in DOMAIN entries : ~Over(entries[k], now)} |-> entries[k]]
  ELSE entries

Fresh(entries, k, now) == k \in DOMAIN entries => Over(entries[k], now)

\* Mutant: one request too many.
AllowedOneMore(entries, k, now) == ~Fresh(entries, k, now) => entries[k].count <= Requests

Allowed(entries, k, now) == ~Fresh(entries, k, now) => entries[k].count < Requests

\* Mutant: the count is set to one, not raised.
ChargedOn(entries, k, now) ==
  IF k \notin DOMAIN entries
  THEN [l \in DOMAIN entries \cup {k} |->
         IF l = k THEN [windowStartedAt |-> now, count |-> 1] ELSE entries[l]]
  ELSE [entries EXCEPT ![k].count = 1]

\* The entries after a request of k that is let through.
Charged(entries, k, now) ==
  IF Fresh(entries, k, now)
  THEN [l \in DOMAIN entries \cup {k} |->
         IF l = k THEN [windowStartedAt |-> now, count |-> 1] ELSE entries[l]]
  ELSE [entries EXCEPT ![k].count = entries[k].count + 1]

\* Mutant: rounded down.
RetryAfterFloor(entries, k, now) == (entries[k].windowStartedAt + Window - now) \div Second

\* The seconds a refused caller is told to wait: rounded up, at least one.
RetryAfter(entries, k, now) ==
  LET seconds == (entries[k].windowStartedAt + Window - now + Second - 1) \div Second
  IN IF seconds < 1 THEN 1 ELSE seconds
=============================================================================
