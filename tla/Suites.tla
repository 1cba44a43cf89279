-------------------------------- MODULE Suites --------------------------------
(***************************************************************************)
(* The models of this repository and the certification of its browser      *)
(* storage beside each other: the convergence model, the partial-sync      *)
(* model and the upgrades of the storage, each over its own variables.     *)
(***************************************************************************)
EXTENDS Convergence

CONSTANTS
  Tenant, Thing, Tag, Risks, MaxCommits, MaxEpochs, MaxPending,   \* of the partial-sync model
  Tab, MaxCrashes, MaxOpens                                       \* of the storage

VARIABLES
  log, scope, checkpoint, cached, index, backfill, network, queued, quarantined,
  disk, tabs, requests, upgrade, crashes, opens

partialVars == <<log, scope, checkpoint, cached, index, backfill, network, queued, quarantined>>
storageVars == <<disk, tabs, requests, upgrade, crashes, opens>>

Partial == INSTANCE PartialSync WITH Entity <- Thing, records <- cached, pending <- queued

Storage == INSTANCE StorageUpgrade

\* Entities are compared to put them in order.
ASSUME ThingAssumption == Thing \subseteq Int /\ IsFiniteSet(Thing)

\* What a client keeps is of its scope and complete, and the queue is its own.
PartialInv == Partial!PartialInv

\* Upgrades happen wholly or not at all, wait for older connections, and carry
\* the queue and its identity along.
UpgradesAreSafe == Storage!UpgradesAreSafe
=============================================================================
