\* The convergence model, the partial-sync model, merging and browser storage.
CONSTANTS
  ts = ts
  dart = dart
  rust = rust
  alpha = alpha
  beta = beta
  acme = acme
  globex = globex
  red = red
  blue = blue
  t1 = t1
  t2 = t2
  t3 = t3
  Client = {ts, dart, rust}
  Entity = {alpha, beta}
  Workloads <- MCWorkloads
  Base = 2
  Tenant = {acme, globex}
  Thing = {1, 2}
  Tag = {red, blue}
  Risks = {}
  MaxCommits = 3
  MaxEpochs = 3
  MaxPending = 1
  Tab = {t1, t2, t3}
  MaxCrashes = 2
  MaxOpens = 7

SPECIFICATION MCSpec

INVARIANTS
  PartialInv

PROPERTIES
  ModelConverges
  MergesAgree
  UpgradesAreSafe

\* Commits, mutations, payloads and open() calls are bounded.
CHECK_DEADLOCK FALSE

SYMMETRY Alike
