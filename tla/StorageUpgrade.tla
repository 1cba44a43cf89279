---------------------------- MODULE StorageUpgrade ----------------------------
(***************************************************************************)
(* The browser storage of a client over its versions, as the certification *)
(* suites suite/compatibility/indexeddb-blocked-upgrade.mjs and            *)
(* indexeddb-migration.mjs drive it: tabs of one profile open the database *)
(* at rising versions, an upgrade waits for older connections, aborts or   *)
(* is cut off by the browser's end, and is tried again.  The rules of      *)
(* IndexedDB and the product's own step to version 3 are external.         *)
(***************************************************************************)
EXTENDS Integers, Sequences

CONSTANTS Tab, MaxCrashes, MaxOpens   \* bounds: ends of the browser, open() calls

VARIABLES
  disk,      \* what is durable: version, stores, the queued mutation, meta
  tabs,      \* tab -> version of its connection (0: none) and whether it saw versionchange
  requests,  \* open() calls in order; the database serves one at a time
  upgrade,   \* the upgrade transaction's copy of the disk, or NoUpgrade
  crashes, opens

vars == <<disk, tabs, requests, upgrade, crashes, opens>>

NoUpgrade == [version |-> -1]
NoMeta == [state |-> "none", id |-> "none", checkpoint |-> 0]
FixtureId == "fixturedevice"
Closed == [version |-> 0, versionchange |-> FALSE]

\* Mutant: native versions as they are, which Dexie takes for databases before v1.
NativeAsIs(v) == v

\* Dexie keeps its version v as the native version 10 v.
Native(v) == 10 * v

Init ==
  /\ disk = [version |-> 0, stores |-> {}, indexed |-> FALSE, row |-> "none", meta |-> NoMeta]
  /\ tabs = [t \in Tab |-> Closed] /\ requests = <<>> /\ upgrade = NoUpgrade
  /\ crashes = 0 /\ opens = 0
-----------------------------------------------------------------------------
(* What the suites' handlers do in onupgradeneeded *)

Seeded(d) == [d EXCEPT !.version = Native(1), !.stores = {"localMutations"}]
Migrated(d, state) ==
  [d EXCEPT !.version = Native(2), !.stores = @ \cup {"meta"},
            !.meta = [state |-> state, id |-> FixtureId, checkpoint |-> 0]]

\* Mutant: the store of the queue is made anew.
ProductAnew(d) == [d EXCEPT !.version = Native(3), !.stores = @ \cup {"localMutations", "meta"}, !.indexed = TRUE, !.row = "none"]

\* The product's open() (external): Dexie runs the declarations of the versions
\* after the one it finds; a meta store it creates gets an identity of its own.
Product(d) ==
  [d EXCEPT !.version = Native(3), !.stores = @ \cup {"localMutations", "meta"}, !.indexed = TRUE,
            !.meta = IF d.version \div 10 < 2 THEN [NoMeta EXCEPT !.id = "fresh"] ELSE @]

\* The interrupted migration writes "started" and aborts.
Upgraded(d, r) ==
  <<Seeded(d), Migrated(d, IF r.aborts THEN "started" ELSE "complete"), Product(d)>>[r.to]
-----------------------------------------------------------------------------
Connected == {t \in Tab : tabs[t].version # 0}
Waiting(t) == \E i \in DOMAIN requests : requests[i].tab = t

\* A stage begins when the one before it has been committed; open() without a
\* version takes the one there is.
Ask(t) ==
  /\ tabs[t].version = 0 /\ ~Waiting(t) /\ opens < MaxOpens
  /\ \E to \in 1..3, aborts \in BOOLEAN :
       /\ Native(to - 1) <= disk.version
       /\ to > 1 => disk.row # "none"
       /\ aborts => to = 2
       /\ requests' = Append(requests, [tab |-> t, to |-> to, aborts |-> aborts, notified |-> FALSE, blocked |-> FALSE])
  /\ opens' = opens + 1
  /\ UNCHANGED <<disk, tabs, upgrade, crashes>>

Newer == requests # <<>> /\ Native(Head(requests).to) > disk.version

Refuse ==   \* VersionError
  /\ requests # <<>> /\ Native(Head(requests).to) < disk.version
  /\ requests' = Tail(requests)
  /\ UNCHANGED <<disk, tabs, upgrade, crashes, opens>>

Connect ==
  /\ requests # <<>> /\ Native(Head(requests).to) = disk.version
  /\ tabs' = [tabs EXCEPT ![Head(requests).tab].version = disk.version]
  /\ requests' = Tail(requests)
  /\ UNCHANGED <<disk, upgrade, crashes, opens>>

VersionChange ==
  /\ Newer /\ ~Head(requests).notified /\ upgrade = NoUpgrade
  /\ tabs' = [t \in Tab |-> IF t \in Connected THEN [tabs[t] EXCEPT !.versionchange = TRUE] ELSE tabs[t]]
  /\ requests' = [requests EXCEPT ![1].notified = TRUE]
  /\ UNCHANGED <<disk, upgrade, crashes, opens>>

Blocked ==
  /\ Newer /\ Head(requests).notified /\ ~Head(requests).blocked /\ Connected # {}
  /\ requests' = [requests EXCEPT ![1].blocked = TRUE]
  /\ UNCHANGED <<disk, tabs, upgrade, crashes, opens>>

\* Mutant: a blocked upgrade goes on.
BeginBypassing ==
  /\ Newer /\ Head(requests).notified /\ upgrade = NoUpgrade
  /\ upgrade' = Upgraded(disk, Head(requests))
  /\ UNCHANGED <<disk, tabs, requests, crashes, opens>>

Begin ==
  /\ Newer /\ Head(requests).notified /\ upgrade = NoUpgrade /\ Connected = {}
  /\ upgrade' = Upgraded(disk, Head(requests))
  /\ UNCHANGED <<disk, tabs, requests, crashes, opens>>

\* onsuccess: the tab has its connection.
Commit ==
  /\ upgrade # NoUpgrade /\ ~Head(requests).aborts
  /\ disk' = upgrade /\ upgrade' = NoUpgrade
  /\ tabs' = [tabs EXCEPT ![Head(requests).tab].version = upgrade.version]
  /\ requests' = Tail(requests)
  /\ UNCHANGED <<crashes, opens>>

\* Mutant: an abort leaves what was written, and the request waits on.
AbortKeeping ==
  /\ upgrade # NoUpgrade /\ Head(requests).aborts
  /\ disk' = [disk EXCEPT !.stores = upgrade.stores, !.meta = upgrade.meta] /\ upgrade' = NoUpgrade
  /\ requests' = Tail(requests)
  /\ UNCHANGED <<tabs, crashes, opens>>

Abort ==   \* AbortError
  /\ upgrade # NoUpgrade /\ Head(requests).aborts
  /\ upgrade' = NoUpgrade /\ requests' = Tail(requests)
  /\ UNCHANGED <<disk, tabs, crashes, opens>>

Put(t) ==
  /\ tabs[t].version = Native(1) /\ disk.row = "none"
  /\ disk' = [disk EXCEPT !.row = "pending"]
  /\ UNCHANGED <<tabs, requests, upgrade, crashes, opens>>

SetPullCheckpoint(t) ==
  /\ tabs[t].version = Native(3) /\ disk.row = "pending"
  /\ disk' = [disk EXCEPT !.meta.checkpoint = 1]
  /\ UNCHANGED <<tabs, requests, upgrade, crashes, opens>>

\* Mutant: before the checkpoint is set.
AcknowledgeEarly(t) ==
  /\ tabs[t].version = Native(3) /\ disk.row = "pending"
  /\ disk' = [disk EXCEPT !.row = "acknowledged"]
  /\ UNCHANGED <<tabs, requests, upgrade, crashes, opens>>

\* acknowledgePush of a duplicate, after the checkpoint.
Acknowledge(t) ==
  /\ tabs[t].version = Native(3) /\ disk.row = "pending" /\ disk.meta.checkpoint = 1
  /\ disk' = [disk EXCEPT !.row = "acknowledged"]
  /\ UNCHANGED <<tabs, requests, upgrade, crashes, opens>>

\* Mutant: a stale tab stays until it has read everything.
CloseWhenAcknowledged(t) ==
  /\ tabs[t].version # 0 /\ disk.row = "acknowledged"
  /\ tabs' = [tabs EXCEPT ![t] = Closed]
  /\ UNCHANGED <<disk, requests, upgrade, crashes, opens>>

\* A handler closes when it is done, the seeding tab when it has put its row.
Close(t) ==
  /\ tabs[t].version # 0 /\ disk.row # "none"
  /\ tabs' = [tabs EXCEPT ![t] = Closed]
  /\ UNCHANGED <<disk, requests, upgrade, crashes, opens>>

\* Mutant: the upgrade that was cut off is taken up.
CrashMidUpgrade ==
  /\ crashes < MaxCrashes /\ crashes' = crashes + 1
  /\ tabs' = [t \in Tab |-> Closed] /\ requests' = <<>>
  /\ UNCHANGED <<disk, upgrade, opens>>

\* context.close(), or the browser's end at any point.
Crash ==
  /\ crashes < MaxCrashes /\ crashes' = crashes + 1
  /\ tabs' = [t \in Tab |-> Closed] /\ requests' = <<>> /\ upgrade' = NoUpgrade
  /\ UNCHANGED <<disk, opens>>

Serve == Refuse \/ Connect \/ VersionChange \/ Blocked \/ Begin \/ Commit \/ Abort
Use(t) == Put(t) \/ SetPullCheckpoint(t) \/ Acknowledge(t)

Next == Serve \/ Crash \/ \E t \in Tab : Ask(t) \/ Use(t) \/ Close(t)

Spec == Init /\ [][Next]_vars

-----------------------------------------------------------------------------
StorageTypeOK ==
  /\ disk.version \in {Native(v) : v \in 0..3} /\ disk.row \in {"none", "pending", "acknowledged"}
  /\ \A t \in Tab : tabs[t].version \in {0, Native(1), Native(2), Native(3)}
  /\ upgrade # NoUpgrade => requests # <<>>

\* An upgrade is there wholly or not at all, whatever aborts or ends: an
\* interrupted one leaves version 1 without a meta store, a finished one never
\* says "started".
WholeUpgrades ==
  /\ disk.version < Native(2) => "meta" \notin disk.stores /\ disk.meta = NoMeta
  /\ disk.version >= Native(2) => disk.stores = {"localMutations", "meta"} /\ disk.meta.state = "complete"
  /\ disk.indexed <=> disk.version = Native(3)

\* No tab has the database open at another version than it has or is getting:
\* the upgrade waits "rather than corrupting or bypassing it".
NoStaleConnection ==
  /\ \A t \in Connected : tabs[t].version = disk.version
  /\ upgrade # NoUpgrade => Connected = {}

\* The queue goes on under the identity it was written with, and is
\* acknowledged at a checkpoint that is durable.
QueueKeepsIdentity ==
  /\ disk.version > Native(1) => disk.row # "none" /\ disk.meta.id = FixtureId
  /\ disk.row = "acknowledged" => disk.meta.checkpoint = 1

StorageInv == StorageTypeOK /\ WholeUpgrades /\ NoStaleConnection /\ QueueKeepsIdentity

\* Versions only rise and the queued mutation is never lost.
NothingIsLost ==
  /\ disk.version <= disk'.version
  /\ disk.row # "none" => disk'.row # "none"
  /\ disk.row = "acknowledged" => disk'.row = "acknowledged"

\* Whichever tabs open, block, abort or end: upgrades happen wholly or not at all,
\* wait for older connections, and carry the queue and its identity along.
UpgradesAreSafe == [][StorageInv' /\ NothingIsLost]_vars
=============================================================================
