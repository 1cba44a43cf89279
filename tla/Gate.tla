--------------------------------- MODULE Gate ---------------------------------
(***************************************************************************)
(* What stands between a caller and the handlers: the admission of calls,  *)
(* the limiter they are charged to (operations.ts) with a clock and keys   *)
(* of its own, and the configuration that says who the callers are         *)
(* (auth.ts), each over its own variables.                                 *)
(***************************************************************************)
EXTENDS Admission, Sequences

CONSTANTS
  LimiterKeys, Budget, Length, Unit, Horizon,   \* of the limiter: its keys, requests, window, second, clock
  Secret,       \* tokens of static entries
  Tenant, Configs, Claims, Roles, Invalid, MaxStarts

VARIABLES
  clock, windows, lastSweepAt, unswept, recent, told,                    \* of the limiter
  config, stage, hashes, owners, entries, ledger, adopted, starts        \* of the configuration

limiterVars == <<clock, windows, lastSweepAt, unswept, recent, told>>
configVars == <<config, stage, hashes, owners, entries, ledger, adopted, starts>>

Limiter == INSTANCE RateLimiter WITH
  now <- clock, entries <- windows, Keys <- LimiterKeys,
  Requests <- Budget, Window <- Length, Second <- Unit, MaxTime <- Horizon

Configuration == INSTANCE AuthConfig WITH
  Token <- Secret, Subject <- Principal, ClientId <- Client

ASSUME LimiterAssumption == {Budget, Length, Unit} \subseteq Nat \ {0}

\* JWT client ids come from a claim, are open or unset; claims name lists.
ASSUME ConfigurationAssumption ==
  /\ \A c \in Configs :
       /\ c.jwt \in {"claim", "open", "unset"} /\ c.given \in BOOLEAN
       /\ c.static \in Seq(Configuration!Entry) /\ (~c.given => c.static = <<>>)
  /\ \A c \in Claims : c.clients \in Seq(Client)
  /\ MaxStarts \in Nat \ {0}

\* The windows the limiter keeps decide as if it kept them all, hold their bound
\* and their promises, and are forgotten.
LimiterInv == Limiter!LimiterInv

\* A configuration is loaded or refused for what it says, and nobody pushes as a
\* client that is not his.
ConfigurationInv == Configuration!ConfigurationInv
=============================================================================
