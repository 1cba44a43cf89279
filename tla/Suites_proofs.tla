---------------------------- MODULE Suites_proofs ----------------------------
(***************************************************************************)
(* Whatever tabs open, abort and end, an upgrade of the browser storage is *)
(* there wholly or not at all and takes the queue along.  A partial        *)
(* replica keeps to its tenant and filter whatever the server commits, and *)
(* is complete when it has caught up, where records keep their tags and    *)
(* nothing is committed while it fills up.  In the convergence model       *)
(* everybody ends with the same records, whatever is lost or repeated.     *)
(***************************************************************************)
EXTENDS Suites, FiniteSetTheorems, WellFoundedInduction, TLAPS

(* The storage of the browser. *)

Meta == [state : {"none", "started", "complete"}, id : {"none", "fresh", "fixturedevice"}, checkpoint : {0, 1}]

Disk == [version : {0, 10, 20, 30}, stores : SUBSET {"localMutations", "meta"}, indexed : BOOLEAN,
         row : {"none", "pending", "acknowledged"}, meta : Meta]

\* What a version of the database has.
Shaped(d) ==
  /\ d \in Disk
  /\ d.version = 0 => d.stores = {} /\ d.row = "none"
  /\ d.version = 10 => d.stores = {"localMutations"}
  /\ d.version <= 10 => d.meta = Storage!NoMeta
  /\ d.version >= 20 => /\ d.stores = {"localMutations", "meta"} /\ d.row # "none"
                        /\ d.meta.state = "complete" /\ d.meta.id = "fixturedevice"
  /\ d.indexed <=> d.version = 30
  /\ d.row = "acknowledged" => d.version = 30 /\ d.meta.checkpoint = 1

Request == [tab : Tab, to : 1..3, aborts : BOOLEAN, notified : BOOLEAN, blocked : BOOLEAN]

\* An open() asks for a version there is or the next one, with a row to take along.
Askable(r, d) ==
  /\ r \in Request
  /\ 10 * (r.to - 1) <= d.version
  /\ r.to > 1 => d.row # "none"
  /\ r.aborts => r.to = 2

\* The upgrade that runs is that of the first request, from the disk as it is.
Upgrading ==
  upgrade # Storage!NoUpgrade =>
    /\ requests # <<>> /\ disk.version < 10 * Head(requests).to
    /\ upgrade = Storage!Upgraded(disk, Head(requests))
    /\ Storage!Connected = {}

StorageSafe ==
  /\ Shaped(disk)
  /\ tabs \in [Tab -> [version : {0, 10, 20, 30}, versionchange : BOOLEAN]]
  /\ \A t \in Storage!Connected : tabs[t].version = disk.version
  /\ requests \in Seq(Request) /\ \A i \in DOMAIN requests : Askable(requests[i], disk)
  /\ Upgrading
-----------------------------------------------------------------------------
LEMMA RequestTypes ==
  ASSUME StorageSafe, requests # <<>>
  PROVE  /\ Head(requests) \in Request /\ Askable(Head(requests), disk)
         /\ Tail(requests) \in Seq(Request)
         /\ \A i \in DOMAIN Tail(requests) : Askable(Tail(requests)[i], disk)
<1>1. requests \in Seq(Request) /\ \A i \in DOMAIN requests : Askable(requests[i], disk)
  BY DEF StorageSafe
<1>2. Head(requests) = requests[1] /\ 1 \in DOMAIN requests
  BY <1>1
<1>3. Tail(requests) \in Seq(Request)
  BY <1>1
<1>4. \A i \in DOMAIN Tail(requests) : i + 1 \in DOMAIN requests /\ Tail(requests)[i] = requests[i + 1]
  BY <1>1
<1>5. \A i \in DOMAIN Tail(requests) : Askable(Tail(requests)[i], disk)
  BY <1>1, <1>4
<1> QED BY <1>1, <1>2, <1>3, <1>5 DEF Askable

\* What may be asked for may be asked for later.
LEMMA StillAskable ==
  ASSUME NEW r, Askable(r, disk), Shaped(disk), Shaped(disk)', Storage!NothingIsLost
  PROVE  Askable(r, disk')
BY DEF Askable, Storage!NothingIsLost, Shaped, Disk, Request

LEMMA DiskIs ==
  ASSUME NEW d \in Disk, NEW u,
         u = [version |-> u.version, stores |-> u.stores, indexed |-> u.indexed, row |-> u.row, meta |-> u.meta],
         u.version \in {0, 10, 20, 30},
         u.stores \in {d.stores, {"localMutations"}, d.stores \cup {"meta"}, d.stores \cup {"localMutations", "meta"}},
         u.indexed \in BOOLEAN, u.row = d.row, u.meta \in Meta
  PROVE  u \in Disk
<1>1. d.stores \subseteq {"localMutations", "meta"} /\ d.row \in {"none", "pending", "acknowledged"}
  BY DEF Disk
<1>2. u.stores \in SUBSET {"localMutations", "meta"}
  BY <1>1
<1> QED BY <1>1, <1>2 DEF Disk

\* An upgrade from a version to the next one.
LEMMA UpgradesShape ==
  ASSUME NEW d, Shaped(d), NEW r \in Request, 10 * (r.to - 1) <= d.version, d.version < 10 * r.to,
         r.to > 1 => d.row # "none", ~ r.aborts
  PROVE  LET u == Storage!Upgraded(d, r)
         IN /\ Shaped(u) /\ u.version = 10 * r.to /\ d.version <= u.version
            /\ u.row = d.row
<1> DEFINE u == Storage!Upgraded(d, r)
<1>1. /\ d \in Disk /\ r.to \in 1..3 /\ d.version = 10 * (r.to - 1)
      /\ d.meta \in Meta /\ d.indexed \in BOOLEAN
  BY DEF Shaped, Disk, Request
<1>2. CASE r.to = 1
  <2>1. u = [d EXCEPT !.version = 10, !.stores = {"localMutations"}] /\ d.version = 0
    BY <1>1, <1>2 DEF Storage!Upgraded, Storage!Seeded, Storage!Native
  <2>2. /\ u.version = 10 /\ u.stores = {"localMutations"} /\ u.row = d.row /\ u.meta = d.meta
        /\ u.indexed = d.indexed
        /\ u = [version |-> u.version, stores |-> u.stores, indexed |-> u.indexed, row |-> u.row, meta |-> u.meta]
    BY <1>1, <2>1 DEF Disk
  <2> HIDE DEF u
  <2>4. u \in Disk
    BY <1>1, <2>2, DiskIs
  <2>3. Shaped(u)
    BY <2>1, <2>2, <2>4 DEF Shaped
  <2> QED BY <1>2, <2>1, <2>2, <2>3 DEF u
<1>3. CASE r.to = 2
  <2>1. u = [d EXCEPT !.version = 20, !.stores = @ \cup {"meta"},
                      !.meta = [state |-> "complete", id |-> "fixturedevice", checkpoint |-> 0]]
        /\ d.version = 10
    BY <1>1, <1>3 DEF Storage!Upgraded, Storage!Migrated, Storage!Native, Storage!FixtureId
  <2>2. /\ u.version = 20 /\ u.stores = d.stores \cup {"meta"} /\ u.row = d.row /\ u.indexed = d.indexed
        /\ u.meta = [state |-> "complete", id |-> "fixturedevice", checkpoint |-> 0]
        /\ u = [version |-> u.version, stores |-> u.stores, indexed |-> u.indexed, row |-> u.row, meta |-> u.meta]
    BY <1>1, <2>1 DEF Disk
  <2> HIDE DEF u
  <2>4. u.meta \in Meta
    BY <2>2 DEF Meta
  <2>5. u \in Disk
    BY <1>1, <2>2, <2>4, DiskIs
  <2>3. Shaped(u)
    BY <1>3, <2>1, <2>2, <2>5 DEF Shaped
  <2> QED BY <1>3, <2>1, <2>2, <2>3 DEF u
<1>4. CASE r.to = 3
  <2>1. d.version = 20 /\ ~ (d.version \div 10 < 2)
    BY <1>1, <1>4
  <2>2. u = [d EXCEPT !.version = 30, !.stores = @ \cup {"localMutations", "meta"}, !.indexed = TRUE,
                      !.meta = @]
    BY <1>4, <2>1 DEF Storage!Upgraded, Storage!Product, Storage!Native
  <2>3. /\ u.version = 30 /\ u.stores = d.stores \cup {"localMutations", "meta"} /\ u.row = d.row
        /\ u.indexed = TRUE /\ u.meta = d.meta
        /\ u = [version |-> u.version, stores |-> u.stores, indexed |-> u.indexed, row |-> u.row, meta |-> u.meta]
    BY <1>1, <2>2 DEF Disk
  <2> HIDE DEF u
  <2>5. u \in Disk
    BY <1>1, <2>3, DiskIs
  <2>4. Shaped(u)
    BY <1>4, <2>1, <2>3, <2>5 DEF Shaped
  <2> QED BY <1>4, <2>1, <2>3, <2>4 DEF u
<1> QED BY <1>1, <1>2, <1>3, <1>4

LEMMA StorageStarts == Storage!Init => StorageSafe
<1> SUFFICES ASSUME Storage!Init PROVE StorageSafe
  OBVIOUS
<1>1. Shaped(disk)
  BY DEF Storage!Init, Shaped, Disk, Meta, Storage!NoMeta
<1>2. tabs \in [Tab -> [version : {0, 10, 20, 30}, versionchange : BOOLEAN]] /\ Storage!Connected = {}
  BY DEF Storage!Init, Storage!Closed, Storage!Connected
<1>3. requests \in Seq(Request) /\ DOMAIN requests = {}
  BY DEF Storage!Init
<1> QED BY <1>1, <1>2, <1>3 DEF StorageSafe, Upgrading, Storage!Init

\* A step that leaves the disk as it is.
LEMMA DiskStays ==
  ASSUME StorageSafe, disk' = disk PROVE Storage!NothingIsLost /\ Shaped(disk)'
<1>1. Shaped(disk) /\ disk.version \in {0, 10, 20, 30}
  BY DEF StorageSafe, Shaped, Disk
<1> QED BY <1>1 DEF Storage!NothingIsLost, Shaped

\* The first request is answered: it leaves the queue.
LEMMA FirstLeaves ==
  ASSUME StorageSafe, requests # <<>>, requests' = Tail(requests), Shaped(disk)', Storage!NothingIsLost
  PROVE  requests' \in Seq(Request) /\ \A i \in DOMAIN requests' : Askable(requests'[i], disk')
<1>1. Shaped(disk)
  BY DEF StorageSafe
<1> QED BY <1>1, RequestTypes, StillAskable

LEMMA AskKeeps ==
  ASSUME StorageSafe, NEW t \in Tab, Storage!Ask(t) PROVE StorageSafe' /\ Storage!NothingIsLost
<1>1. PICK to \in 1..3, aborts \in BOOLEAN :
        /\ 10 * (to - 1) <= disk.version
        /\ to > 1 => disk.row # "none"
        /\ aborts => to = 2
        /\ requests' = Append(requests, [tab |-> t, to |-> to, aborts |-> aborts, notified |-> FALSE, blocked |-> FALSE])
  BY DEF Storage!Ask, Storage!Native
<1> DEFINE r == [tab |-> t, to |-> to, aborts |-> aborts, notified |-> FALSE, blocked |-> FALSE]
<1>2. r \in Request /\ Askable(r, disk)
  BY <1>1 DEF Askable, Request
<1> HIDE DEF r
<1>3. /\ disk' = disk /\ tabs' = tabs /\ upgrade' = upgrade /\ requests' = Append(requests, r)
      /\ requests \in Seq(Request) /\ \A i \in DOMAIN requests : Askable(requests[i], disk)
  BY <1>1 DEF Storage!Ask, StorageSafe, r
<1>4. requests' \in Seq(Request) /\ \A i \in DOMAIN requests' : Askable(requests'[i], disk)
  BY <1>2, <1>3
<1>5. requests # <<>> => requests' # <<>> /\ Head(requests') = Head(requests)
  BY <1>2, <1>3
<1>6. \A i \in DOMAIN requests' : Askable(requests'[i], disk')
  BY <1>3, <1>4
<1>7. Upgrading'
  BY <1>3, <1>5 DEF StorageSafe, Upgrading, Storage!Connected
<1> QED BY <1>3, <1>4, <1>6, <1>7, DiskStays DEF StorageSafe, Storage!Connected

\* A request at or below the version there is.
LEMMA AnswerKeeps ==
  ASSUME StorageSafe, Storage!Refuse \/ Storage!Connect PROVE StorageSafe' /\ Storage!NothingIsLost
<1>1. /\ requests # <<>> /\ 10 * Head(requests).to <= disk.version /\ requests' = Tail(requests)
      /\ disk' = disk /\ upgrade' = upgrade
      /\ Head(requests) \in Request /\ disk.version \in {0, 10, 20, 30}
  BY RequestTypes DEF Storage!Refuse, Storage!Connect, Storage!Native, StorageSafe, Shaped, Disk, Request
<1>2. upgrade = Storage!NoUpgrade
  BY <1>1 DEF StorageSafe, Upgrading, Request
<1>3. requests' \in Seq(Request) /\ \A i \in DOMAIN requests' : Askable(requests'[i], disk')
  BY <1>1, DiskStays, FirstLeaves
<1>4. /\ tabs' \in [Tab -> [version : {0, 10, 20, 30}, versionchange : BOOLEAN]]
      /\ \A t \in Storage!Connected' : tabs'[t].version = disk'.version
  <2>1. CASE Storage!Refuse
    BY <1>1, <2>1 DEF Storage!Refuse, StorageSafe, Storage!Connected
  <2>2. CASE Storage!Connect
    <3>1. tabs' = [tabs EXCEPT ![Head(requests).tab].version = disk.version]
      BY <2>2 DEF Storage!Connect
    <3>2. tabs \in [Tab -> [version : {0, 10, 20, 30}, versionchange : BOOLEAN]] /\ Head(requests).tab \in Tab
      BY <1>1 DEF StorageSafe, Request
    <3>3. tabs' \in [Tab -> [version : {0, 10, 20, 30}, versionchange : BOOLEAN]]
      BY <1>1, <3>1, <3>2
    <3>4. \A t \in Tab : tabs'[t].version = (IF t = Head(requests).tab THEN disk.version ELSE tabs[t].version)
      BY <3>1, <3>2
    <3> QED BY <1>1, <3>3, <3>4 DEF StorageSafe, Storage!Connected
  <2> QED BY <2>1, <2>2
<1>5. Upgrading'
  BY <1>1, <1>2 DEF Upgrading
<1> QED BY <1>1, <1>3, <1>4, <1>5, DiskStays DEF StorageSafe

\* A request is told of to the older connections, or told that it is blocked.
LEMMA TellKeeps ==
  ASSUME StorageSafe, Storage!VersionChange \/ Storage!Blocked PROVE StorageSafe' /\ Storage!NothingIsLost
<1>1. /\ requests # <<>> /\ disk' = disk /\ upgrade' = upgrade
      /\ requests \in Seq(Request) /\ \A i \in DOMAIN requests : Askable(requests[i], disk)
      /\ \/ requests' = [requests EXCEPT ![1].notified = TRUE]
         \/ requests' = [requests EXCEPT ![1].blocked = TRUE]
  BY DEF Storage!VersionChange, Storage!Blocked, Storage!Newer, StorageSafe
<1>2. upgrade = Storage!NoUpgrade
  BY DEF Storage!VersionChange, Storage!Blocked, StorageSafe, Upgrading
<1>3. PICK r \in {[requests[1] EXCEPT !.notified = TRUE], [requests[1] EXCEPT !.blocked = TRUE]} :
        requests' = [requests EXCEPT ![1] = r]
  BY <1>1
<1>4. 1 \in DOMAIN requests /\ requests[1] \in Request /\ Askable(requests[1], disk)
  BY <1>1
<1>5. r \in Request /\ Askable(r, disk)
  BY <1>3, <1>4 DEF Request, Askable
<1>6. requests' \in Seq(Request) /\ \A i \in DOMAIN requests' : Askable(requests'[i], disk)
  BY <1>1, <1>3, <1>5
<1>7. \A i \in DOMAIN requests' : Askable(requests'[i], disk')
  BY <1>1, <1>6
<1>8. /\ tabs' \in [Tab -> [version : {0, 10, 20, 30}, versionchange : BOOLEAN]]
      /\ \A t \in Tab : tabs'[t].version = tabs[t].version
  <2>1. tabs \in [Tab -> [version : {0, 10, 20, 30}, versionchange : BOOLEAN]]
    BY DEF StorageSafe
  <2>2. CASE Storage!VersionChange
    <3>1. tabs' = [t \in Tab |-> IF t \in Storage!Connected THEN [tabs[t] EXCEPT !.versionchange = TRUE] ELSE tabs[t]]
      BY <2>2 DEF Storage!VersionChange
    <3>2. ASSUME NEW t \in Tab
          PROVE  tabs'[t] \in [version : {0, 10, 20, 30}, versionchange : BOOLEAN] /\ tabs'[t].version = tabs[t].version
      <4>1. tabs[t] \in [version : {0, 10, 20, 30}, versionchange : BOOLEAN]
        BY <2>1
      <4>2. CASE t \in Storage!Connected
        BY <3>1, <4>1, <4>2
      <4>3. CASE t \notin Storage!Connected
        BY <3>1, <4>1, <4>3
      <4> QED BY <4>2, <4>3
    <3> QED BY <3>1, <3>2
  <2>3. CASE Storage!Blocked
    BY <2>1, <2>3 DEF Storage!Blocked
  <2> QED BY <2>2, <2>3
<1>9. Upgrading'
  BY <1>1, <1>2 DEF Upgrading
<1> QED BY <1>1, <1>6, <1>7, <1>8, <1>9, DiskStays DEF StorageSafe, Storage!Connected

\* The upgrade begins when nobody is connected.
LEMMA BeginsUpgrade ==
  ASSUME StorageSafe, Storage!Begin PROVE StorageSafe' /\ Storage!NothingIsLost
<1>1. /\ requests # <<>> /\ 10 * Head(requests).to > disk.version /\ Storage!Connected = {}
      /\ upgrade' = Storage!Upgraded(disk, Head(requests)) /\ disk' = disk /\ tabs' = tabs /\ requests' = requests
      /\ Head(requests) \in Request /\ disk.version \in {0, 10, 20, 30}
  BY RequestTypes DEF Storage!Begin, Storage!Newer, Storage!Native, StorageSafe, Shaped, Disk
<1>2. disk.version < 10 * Head(requests).to
  BY <1>1 DEF Request
<1>3. Upgrading'
  BY <1>1, <1>2 DEF Upgrading, Storage!Connected
<1> QED BY <1>1, <1>3, DiskStays DEF StorageSafe, Storage!Connected

\* The upgrade is committed: the disk is that of the next version, the tab has it open.
LEMMA CommitsUpgrade ==
  ASSUME StorageSafe, Storage!Commit PROVE StorageSafe' /\ Storage!NothingIsLost
<1> DEFINE r == Head(requests)
<1>1. /\ requests # <<>> /\ disk.version < 10 * r.to /\ Storage!Connected = {} /\ Shaped(disk)
      /\ disk' = Storage!Upgraded(disk, r) /\ ~ r.aborts /\ requests' = Tail(requests)
      /\ upgrade' = Storage!NoUpgrade /\ r \in Request /\ Askable(r, disk)
  BY RequestTypes DEF Storage!Commit, StorageSafe, Upgrading
<1>2. Shaped(disk') /\ disk'.version = 10 * r.to /\ disk.version <= disk'.version /\ disk'.row = disk.row
  BY <1>1, UpgradesShape DEF Askable
<1>3. Shaped(disk)' /\ Storage!NothingIsLost
  BY <1>2 DEF Shaped, Storage!NothingIsLost
<1>4. requests' \in Seq(Request) /\ \A i \in DOMAIN requests' : Askable(requests'[i], disk')
  BY <1>1, <1>3, FirstLeaves
<1>5. tabs' = [tabs EXCEPT ![r.tab].version = disk'.version] /\ r.tab \in Tab /\ disk'.version \in {0, 10, 20, 30}
  BY <1>1, <1>2 DEF Storage!Commit, StorageSafe, Upgrading, Request, Shaped, Disk
<1>6. tabs \in [Tab -> [version : {0, 10, 20, 30}, versionchange : BOOLEAN]]
  BY DEF StorageSafe
<1>7. tabs' \in [Tab -> [version : {0, 10, 20, 30}, versionchange : BOOLEAN]]
  BY <1>5, <1>6
<1>8. \A t \in Tab : tabs'[t].version = IF t = r.tab THEN disk'.version ELSE tabs[t].version
  BY <1>5, <1>6
<1>9. \A t \in Tab : tabs[t].version = 0
  BY <1>1 DEF Storage!Connected
<1>10. \A t \in Storage!Connected' : tabs'[t].version = disk'.version
  BY <1>8, <1>9 DEF Storage!Connected
<1>11. Upgrading'
  BY <1>1 DEF Upgrading
<1> QED BY <1>3, <1>4, <1>7, <1>10, <1>11 DEF StorageSafe

LEMMA EndKeepsStorage ==
  ASSUME StorageSafe, Storage!Abort \/ Storage!Crash PROVE StorageSafe' /\ Storage!NothingIsLost
<1>1. disk' = disk /\ upgrade' = Storage!NoUpgrade
  BY DEF Storage!Abort, Storage!Crash
<1>2. requests' \in Seq(Request) /\ \A i \in DOMAIN requests' : Askable(requests'[i], disk')
  <2>1. CASE Storage!Abort
    <3>1. requests # <<>> /\ requests' = Tail(requests)
      BY <2>1 DEF Storage!Abort, StorageSafe, Upgrading
    <3> QED BY <1>1, <3>1, DiskStays, FirstLeaves
  <2>2. CASE Storage!Crash
    BY <2>2 DEF Storage!Crash
  <2> QED BY <2>1, <2>2
<1>3. /\ tabs' \in [Tab -> [version : {0, 10, 20, 30}, versionchange : BOOLEAN]]
      /\ \A t \in Storage!Connected' : tabs'[t].version = disk'.version
  <2>1. CASE Storage!Abort
    BY <1>1, <2>1 DEF Storage!Abort, StorageSafe, Storage!Connected
  <2>2. CASE Storage!Crash
    BY <2>2 DEF Storage!Crash, Storage!Closed, Storage!Connected
  <2> QED BY <2>1, <2>2
<1>4. Upgrading'
  BY <1>1 DEF Upgrading
<1> QED BY <1>1, <1>2, <1>3, <1>4, DiskStays DEF StorageSafe

\* A tab that is connected uses the database: no upgrade runs.
LEMMA UseKeeps ==
  ASSUME StorageSafe, NEW t \in Tab, Storage!Use(t) PROVE StorageSafe' /\ Storage!NothingIsLost
<1>1. /\ tabs' = tabs /\ requests' = requests /\ upgrade' = upgrade /\ Shaped(disk) /\ disk \in Disk
      /\ t \in Storage!Connected /\ disk.version = tabs[t].version
  BY DEF Storage!Use, Storage!Put, Storage!SetPullCheckpoint, Storage!Acknowledge, Storage!Native,
         Storage!Connected, StorageSafe, Shaped
<1>2. /\ disk' \in Disk /\ disk'.version = disk.version /\ disk'.stores = disk.stores
      /\ disk'.indexed = disk.indexed
      /\ \/ /\ disk.version = 10 /\ disk.row = "none" /\ disk'.row = "pending" /\ disk'.meta = disk.meta
         \/ /\ disk.version = 30 /\ disk.row = "pending" /\ disk'.row = "pending"
            /\ disk'.meta = [disk.meta EXCEPT !.checkpoint = 1]
         \/ /\ disk.version = 30 /\ disk.row = "pending" /\ disk.meta.checkpoint = 1
            /\ disk'.row = "acknowledged" /\ disk'.meta = disk.meta
  <2>1. CASE Storage!Put(t)
    BY <1>1, <2>1 DEF Storage!Put, Storage!Native, Disk
  <2>2. CASE Storage!SetPullCheckpoint(t)
    <3> DEFINE m == [disk.meta EXCEPT !.checkpoint = 1]
    <3>1. disk' = [disk EXCEPT !.meta = m] /\ tabs[t].version = 30 /\ disk.row = "pending"
      BY <1>1, <2>2 DEF Storage!SetPullCheckpoint, Storage!Native, Disk
    <3>2. m \in Meta
      BY <1>1 DEF Disk, Meta
    <3> HIDE DEF m
    <3>3. disk' \in Disk /\ disk'.meta = m /\ disk'.version = disk.version /\ disk'.stores = disk.stores
          /\ disk'.indexed = disk.indexed /\ disk'.row = disk.row
      BY <1>1, <3>1, <3>2 DEF Disk
    <3> QED BY <1>1, <3>1, <3>3 DEF m
  <2>3. CASE Storage!Acknowledge(t)
    BY <1>1, <2>3 DEF Storage!Acknowledge, Storage!Native, Disk
  <2> QED BY <2>1, <2>2, <2>3 DEF Storage!Use
<1>3. disk.meta \in Meta /\ disk'.meta \in Meta
  BY <1>1, <1>2 DEF Disk
<1>4. disk.version = 30 => disk'.meta.state = disk.meta.state /\ disk'.meta.id = disk.meta.id
                           /\ (disk'.row = "acknowledged" => disk'.meta.checkpoint = 1)
  BY <1>2, <1>3 DEF Meta
<1>5. disk.version = 10 => disk'.meta = disk.meta /\ disk'.row = "pending"
  BY <1>2
<1>6. Shaped(disk')
  BY <1>1, <1>2, <1>4, <1>5 DEF Shaped
<1>7. Shaped(disk)' /\ Storage!NothingIsLost
  BY <1>1, <1>2, <1>6 DEF Shaped, Storage!NothingIsLost, Disk
<1>8. \A i \in DOMAIN requests' : Askable(requests'[i], disk')
  BY <1>1, <1>7, StillAskable DEF StorageSafe
<1>9. Upgrading'
  BY <1>1 DEF StorageSafe, Upgrading
<1> QED BY <1>1, <1>2, <1>7, <1>8, <1>9 DEF StorageSafe, Storage!Connected

LEMMA CloseKeeps ==
  ASSUME StorageSafe, NEW t \in Tab, Storage!Close(t) PROVE StorageSafe' /\ Storage!NothingIsLost
<1>1. /\ disk' = disk /\ requests' = requests /\ upgrade' = upgrade
      /\ tabs' = [tabs EXCEPT ![t] = Storage!Closed]
      /\ tabs \in [Tab -> [version : {0, 10, 20, 30}, versionchange : BOOLEAN]]
  BY DEF Storage!Close, StorageSafe
<1>2. Storage!Closed \in [version : {0, 10, 20, 30}, versionchange : BOOLEAN] /\ Storage!Closed.version = 0
  BY DEF Storage!Closed
<1>3. tabs' \in [Tab -> [version : {0, 10, 20, 30}, versionchange : BOOLEAN]]
  BY <1>1, <1>2
<1>4. \A u \in Tab : tabs'[u] = IF u = t THEN Storage!Closed ELSE tabs[u]
  BY <1>1
<1>5. Storage!Connected' \subseteq Storage!Connected
      /\ \A u \in Storage!Connected' : tabs'[u] = tabs[u]
  BY <1>2, <1>4 DEF Storage!Connected
<1>6. Upgrading'
  BY <1>1, <1>5 DEF StorageSafe, Upgrading
<1> QED BY <1>1, <1>3, <1>5, <1>6, DiskStays DEF StorageSafe

LEMMA StorageIsInductive == StorageSafe /\ [Storage!Next]_(Storage!vars) =>
                              StorageSafe' /\ [Storage!NothingIsLost]_(Storage!vars)
<1> SUFFICES ASSUME StorageSafe, [Storage!Next]_(Storage!vars)
             PROVE  StorageSafe' /\ [Storage!NothingIsLost]_(Storage!vars)
  OBVIOUS
<1>1. ASSUME NEW t \in Tab, Storage!Ask(t) \/ Storage!Use(t) \/ Storage!Close(t)
      PROVE  StorageSafe' /\ Storage!NothingIsLost
  BY <1>1, AskKeeps, UseKeeps, CloseKeeps
<1>2. ASSUME Storage!Serve \/ Storage!Crash PROVE StorageSafe' /\ Storage!NothingIsLost
  BY <1>2, AnswerKeeps, TellKeeps, BeginsUpgrade, CommitsUpgrade, EndKeepsStorage DEF Storage!Serve
<1>3. ASSUME UNCHANGED Storage!vars PROVE StorageSafe'
  BY <1>3 DEF Storage!vars, StorageSafe, Upgrading, Storage!Connected, Shaped
<1> QED BY <1>1, <1>2, <1>3 DEF Storage!Next

LEMMA StorageImplies == StorageSafe => Storage!StorageInv
<1> SUFFICES ASSUME StorageSafe PROVE Storage!StorageInv
  OBVIOUS
<1>1. Shaped(disk) /\ disk \in Disk /\ Upgrading
  BY DEF StorageSafe, Shaped
<1>2. Storage!StorageTypeOK
  <2>1. disk.version \in {Storage!Native(v) : v \in 0..3}
    <3>1. disk.version \in {0, 10, 20, 30}
      BY <1>1 DEF Disk
    <3>2. Storage!Native(0) = 0 /\ Storage!Native(1) = 10 /\ Storage!Native(2) = 20 /\ Storage!Native(3) = 30
      BY DEF Storage!Native
    <3>3. 0 \in 0..3 /\ 1 \in 0..3 /\ 2 \in 0..3 /\ 3 \in 0..3
      OBVIOUS
    <3> QED BY <3>1, <3>2, <3>3
  <2> QED BY <1>1, <2>1 DEF Storage!StorageTypeOK, StorageSafe, Disk, Storage!Native, Upgrading
<1>3. Storage!WholeUpgrades
  BY <1>1 DEF Storage!WholeUpgrades, Shaped, Disk, Storage!Native
<1>4. Storage!NoStaleConnection
  BY <1>1 DEF StorageSafe, Storage!NoStaleConnection, Upgrading
<1>5. Storage!QueueKeepsIdentity
  BY <1>1 DEF Storage!QueueKeepsIdentity, Shaped, Disk, Storage!Native, Storage!FixtureId
<1> QED BY <1>2, <1>3, <1>4, <1>5 DEF Storage!StorageInv

\* Any number of tabs, in any order, however often the browser ends: an upgrade is there
\* wholly or not at all, no tab has another version open than there is, and the queue
\* goes on under the identity it was written with.
THEOREM UpgradesAreSafeHolds == Storage!Spec => UpgradesAreSafe
<1>1. Storage!Init => StorageSafe
  BY StorageStarts
<1>2. StorageSafe => Storage!StorageInv
  BY StorageImplies
<1> QED BY <1>1, <1>2, StorageIsInductive, PTL
        DEF Storage!Spec, UpgradesAreSafe, Storage!UpgradesAreSafe
-----------------------------------------------------------------------------
(* The partial replica. *)

Record == [tenant : Tenant, tags : SUBSET Tag, deleted : BOOLEAN, revision : Nat]
Entry == [entity : Thing, priorTags : SUBSET Tag, record : Record]
Scopes == [tenant : Tenant, filter : Partial!Filters, epoch : Nat]
Offsets == Nat \cup {Partial!Done}

\* What an answer says is of the scope it was asked for.
AnswerOK(r) ==
  /\ r.scope \in Scopes /\ r.scope.epoch <= scope.epoch
  /\ r.checkpoint \in 0..Len(log) /\ r.next \in Offsets
  /\ DOMAIN r.items \subseteq Thing
  /\ \A e \in DOMAIN r.items :
       /\ r.items[e] \in Record /\ r.items[e].tenant = r.scope.tenant
       /\ r.items[e].deleted \/ Partial!Intersects(r.items[e].tags, r.scope.filter)

PartialTyped ==
  /\ log \in Seq(Entry) /\ scope \in Scopes
  /\ checkpoint \in 0..Len(log) /\ backfill \in Offsets
  /\ cached \in [Thing -> Record \cup {Partial!NoRecord}]
  /\ IsFiniteSet(queued \cup quarantined)

\* Holds whatever the server commits and whenever.
Isolated ==
  /\ PartialTyped /\ (\A r \in network : AnswerOK(r))
  /\ Partial!OnlyTheScope /\ Partial!QueueKeepsItsTenant

\* An entity keeps its tags.
TagsStay ==
  /\ \A i \in DOMAIN log : log[i].record.revision > 0
  /\ \A i, j \in DOMAIN log :
       log[i].record.tenant = log[j].record.tenant /\ log[i].entity = log[j].entity =>
         log[i].record.tags = log[j].record.tags /\ log[i].priorTags = log[j].record.tags

\* The commits of an entity in a log, the record it has and what is in a scope, as the
\* server sees them; and what a client of the scope has to show at a checkpoint.
CommitsIn(h, t, e) == {i \in DOMAIN h : h[i].record.tenant = t /\ h[i].entity = e}
StoredIn(h, t, e) ==
  IF CommitsIn(h, t, e) = {} THEN Partial!NoRecord ELSE h[Partial!Latest(CommitsIn(h, t, e))].record
WantedIn(h, s) ==
  {e \in Thing : /\ ~StoredIn(h, s.tenant, e).deleted
                 /\ Partial!Intersects(StoredIn(h, s.tenant, e).tags, s.filter)}
UntilIn(h, s, c, e) == {i \in CommitsIn(h, s.tenant, e) : i <= c}
ShownIn(h, s, c, e) ==
  LET last == h[Partial!Latest(UntilIn(h, s, c, e))].record
  IN IF UntilIn(h, s, c, e) # {} /\ ~last.deleted /\ Partial!Intersects(last.tags, s.filter)
     THEN last ELSE Partial!NoRecord
Rank(h, s, e) == Cardinality({x \in WantedIn(h, s) : x < e})

\* A current page is what the server would answer now: nothing is committed meanwhile.
PageOK(r) ==
  /\ backfill # Partial!Done /\ r.kind = "page" /\ r.checkpoint = Len(log)
  /\ \E limit \in 1..2 :
       /\ DOMAIN r.items = {e \in WantedIn(log, scope) :
                             backfill <= Rank(log, scope, e) /\ Rank(log, scope, e) < backfill + limit}
       /\ r.next = IF backfill + limit < Cardinality(WantedIn(log, scope)) THEN backfill + limit
                   ELSE Partial!Done
  /\ \A e \in DOMAIN r.items : r.items[e] = StoredIn(log, scope.tenant, e)

\* Current changes say of an entity in scope the last there is up to their checkpoint.
NewIn(h, s, c, d, e) == {i \in CommitsIn(h, s.tenant, e) : c < i /\ i <= d}
ChangesOK(r) ==
  /\ backfill = Partial!Done /\ r.kind = "changes" /\ checkpoint <= r.checkpoint
  /\ \A e \in DOMAIN r.items :
       LET new == NewIn(log, scope, checkpoint, r.checkpoint, e)
       IN new # {} /\ r.items[e] = log[Partial!Latest(new)].record
  /\ \A e \in DOMAIN r.items : Partial!Intersects(r.items[e].tags, scope.filter)
  /\ \A e \in Thing \ DOMAIN r.items : \A i \in NewIn(log, scope, checkpoint, r.checkpoint, e) :
       ~Partial!Intersects(log[i].record.tags, scope.filter)

\* While the client fills up, what it has is right, and what it lacks is on a page to come.
Filling ==
  \A e \in Thing :
    \/ cached[e] = ShownIn(log, scope, Len(log), e)
    \/ cached[e] = Partial!NoRecord /\ e \in WantedIn(log, scope) /\ backfill <= Rank(log, scope, e)

Followed == \A e \in Thing : cached[e] = ShownIn(log, scope, checkpoint, e)

CurrentOK ==
  /\ \A r1, r2 \in network : r1.scope = scope /\ r2.scope = scope => r1 = r2
  /\ \A r \in network : r.scope = scope => PageOK(r) \/ ChangesOK(r)

Complete ==
  /\ TagsStay /\ CurrentOK
  /\ IF backfill = Partial!Done THEN Followed ELSE Filling

-----------------------------------------------------------------------------
LEMMA LeastOf ==
  ASSUME NEW T, T \subseteq Nat, T # {}
  PROVE  \E n \in T : \A m \in T : n <= m
<1>1. PICK R : IsWellFoundedOn(R, Nat) /\ \A x, y \in Nat : x < y => <<x, y>> \in R
  <2>1. \A x, y \in Nat : x < y => <<x, y>> \in OpToRel(<, Nat)
    BY DEF OpToRel
  <2> QED BY <2>1, NatLessThanWellFounded, Zenon
<1>2. IsWellFoundedOn(R, Nat)
  BY <1>1
<1>3. PICK n \in T : \A y \in T : ~(<<y, n>> \in R)
  BY ONLY <1>2, T \subseteq Nat, T # {}, WFMin, Zenon
<1>4. ASSUME NEW m \in T PROVE ~(m < n)
  BY <1>1, <1>3, <1>4, Zenon
<1> QED BY <1>4

\* There is a latest of some commits.
LEMMA LatestOf ==
  ASSUME NEW n \in Nat, NEW S, S \subseteq 1..n, S # {}
  PROVE  Partial!Latest(S) \in S /\ \A j \in S : j <= Partial!Latest(S)
<1> DEFINE T == {n - i : i \in S}
<1>0. \A i \in S : i \in 1..n
  OBVIOUS
<1>1. T \subseteq Nat /\ T # {}
  <2>1. \A i \in S : n - i \in Nat
    BY <1>0
  <2>2. PICK i \in S : TRUE
    OBVIOUS
  <2>3. n - i \in T
    OBVIOUS
  <2> QED BY <2>1, <2>3
<1>2. PICK k \in T : \A m \in T : k <= m
  BY <1>1, LeastOf
<1>3. PICK i \in S : k = n - i
  BY <1>2
<1>4. ASSUME NEW j \in S PROVE j <= i
  <2>1. n - j \in T
    OBVIOUS
  <2>2. k <= n - j
    BY <1>2, <2>1
  <2> QED BY <1>0, <1>3, <2>2
<1>5. \E l \in S : \A j \in S : j <= l
  BY <1>4
<1> QED BY <1>5 DEF Partial!Latest

LEMMA LatestIs ==
  ASSUME NEW n \in Nat, NEW S, S \subseteq 1..n, NEW i \in S, \A j \in S : j <= i
  PROVE  Partial!Latest(S) = i
<1>1. Partial!Latest(S) \in S /\ \A j \in S : j <= Partial!Latest(S)
  BY LatestOf
<1>2. Partial!Latest(S) \in 1..n /\ i \in 1..n
  BY <1>1, Zenon
<1>3. Partial!Latest(S) <= i /\ i <= Partial!Latest(S)
  BY <1>1
<1> QED BY <1>2, <1>3

LEMMA SameCardinality == \A S : Partial!Cardinality(S) = Cardinality(S)
  BY DEF Partial!Cardinality, Cardinality

\* What is in the log.
LEMMA LogIs ==
  ASSUME PartialTyped
  PROVE  /\ Len(log) \in Nat /\ DOMAIN log = 1..Len(log)
         /\ \A i \in DOMAIN log : log[i] \in Entry /\ log[i].record \in Record
         /\ \A t, e : Partial!Commits(t, e) \subseteq 1..Len(log)
<1>1. log \in Seq(Entry)
  BY DEF PartialTyped
<1>2. Len(log) \in Nat /\ DOMAIN log = 1..Len(log)
  BY <1>1
<1>3. \A i \in DOMAIN log : log[i] \in Entry
  BY <1>1
<1> QED BY <1>2, <1>3 DEF Partial!Commits, Entry

\* A record of the server is that of the tenant's last commit, if there is one.
LEMMA StoredIs ==
  ASSUME PartialTyped, NEW t, NEW e
  PROVE  IF Partial!Commits(t, e) = {} THEN Partial!Stored(t, e) = Partial!NoRecord
         ELSE /\ Partial!Latest(Partial!Commits(t, e)) \in Partial!Commits(t, e)
              /\ Partial!Stored(t, e) = log[Partial!Latest(Partial!Commits(t, e))].record
              /\ Partial!Stored(t, e) \in Record /\ Partial!Stored(t, e).tenant = t
<1>1. CASE Partial!Commits(t, e) = {}
  BY <1>1 DEF Partial!Stored
<1>2. CASE Partial!Commits(t, e) # {}
  <2>1. Partial!Latest(Partial!Commits(t, e)) \in Partial!Commits(t, e)
    BY <1>2, LogIs, LatestOf
  <2>2. Partial!Stored(t, e) = log[Partial!Latest(Partial!Commits(t, e))].record
    BY <1>2 DEF Partial!Stored
  <2>3. /\ Partial!Latest(Partial!Commits(t, e)) \in DOMAIN log
        /\ log[Partial!Latest(Partial!Commits(t, e))].record.tenant = t
    BY <2>1 DEF Partial!Commits
  <2> QED BY <1>2, <2>1, <2>2, <2>3, LogIs
<1> QED BY <1>1, <1>2

LEMMA NoRecordIs ==
  /\ Partial!NoRecord.deleted = TRUE /\ Partial!NoRecord.tags = {}
  /\ Partial!NoRecord.revision = 0
  BY DEF Partial!NoRecord

\* What is in scope has been committed.
LEMMA InScopeIs ==
  ASSUME PartialTyped, NEW t, NEW f, NEW e \in Partial!InScope(t, f)
  PROVE  /\ e \in Thing /\ Partial!Commits(t, e) # {}
         /\ Partial!Stored(t, e) \in Record /\ Partial!Stored(t, e).tenant = t
         /\ ~Partial!Stored(t, e).deleted /\ Partial!Intersects(Partial!Stored(t, e).tags, f)
<1>1. /\ e \in Thing /\ ~Partial!Stored(t, e).deleted
      /\ Partial!Intersects(Partial!Stored(t, e).tags, f)
  BY DEF Partial!InScope
<1>2. Partial!Commits(t, e) # {}
  BY <1>1, StoredIs, NoRecordIs
<1> QED BY <1>1, <1>2, StoredIs

-----------------------------------------------------------------------------
LEMMA PartialStarts == Partial!Init => Isolated
<1> SUFFICES ASSUME Partial!Init PROVE Isolated
  OBVIOUS
<1>1. PICK t \in Tenant, f \in Partial!Filters : scope = [tenant |-> t, filter |-> f, epoch |-> 1]
  BY DEF Partial!Init
<1>2. scope \in Scopes
  BY <1>1 DEF Scopes
<1>3. log = <<>> /\ log \in Seq(Entry) /\ Len(log) = 0 /\ checkpoint = 0
  BY DEF Partial!Init
<1>4. queued \cup quarantined = {} /\ queued = {} /\ network = {}
  BY DEF Partial!Init
<1>5. cached = [e \in Thing |-> Partial!NoRecord] /\ index = [g \in Tag |-> {}] /\ backfill = Partial!Done
  BY DEF Partial!Init
<1>6. PartialTyped
  <2>1. checkpoint \in 0..Len(log)
    BY <1>3
  <2>3. IsFiniteSet(queued \cup quarantined)
    BY <1>4, FS_EmptySet, Zenon
  <2>2. cached \in [Thing -> Record \cup {Partial!NoRecord}]
    BY <1>5
  <2> QED BY <1>2, <1>3, <1>5, <2>1, <2>2, <2>3 DEF PartialTyped, Offsets
<1>7. Partial!OnlyTheScope
  BY <1>5, NoRecordIs DEF Partial!OnlyTheScope
<1>8. Partial!QueueKeepsItsTenant
  <2>1. Partial!Cardinality(queued \cup quarantined) = 0
    BY <1>4, FS_EmptySet, SameCardinality
  <2> QED BY <1>4, <2>1 DEF Partial!QueueKeepsItsTenant
<1> QED BY <1>4, <1>6, <1>7, <1>8 DEF Isolated

\* The pieces a step leaves alone.
LEMMA SameCache ==
  ASSUME Isolated, UNCHANGED <<scope, cached, index>>
  PROVE  Partial!OnlyTheScope'
  BY DEF Isolated, Partial!OnlyTheScope, Partial!Intersects

LEMMA SameQueue ==
  ASSUME Isolated, UNCHANGED <<scope, queued, quarantined>>
  PROVE  Partial!QueueKeepsItsTenant'
<1>1. Partial!QueueKeepsItsTenant
  BY DEF Isolated
<1>2. (queued \cup quarantined)' = queued \cup quarantined
  OBVIOUS
<1>3. Partial!Cardinality(queued \cup quarantined)' = Partial!Cardinality(queued \cup quarantined)
  BY <1>2, SameCardinality
<1> QED BY <1>1, <1>2, <1>3 DEF Partial!QueueKeepsItsTenant

LEMMA CommitKeepsIsolated ==
  ASSUME Isolated, NEW t \in Tenant, NEW e \in Thing, Partial!Commit(t, e)
  PROVE  Isolated'
<1>1. PartialTyped
  BY DEF Isolated
<1>2. PICK tags \in Partial!Filters, deleted \in BOOLEAN :
        log' = Append(log,
            [entity |-> e, priorTags |-> IF Partial!Stored(t, e).revision = 0 THEN tags ELSE Partial!Stored(t, e).tags,
             record |-> [tenant |-> t, tags |-> tags, deleted |-> deleted, revision |-> Partial!Stored(t, e).revision + 1]])
  BY DEF Partial!Commit
<1>3. Partial!Stored(t, e).tags \in SUBSET Tag /\ Partial!Stored(t, e).revision \in Nat
  BY <1>1, StoredIs, NoRecordIs DEF Record
<1>4. tags \in SUBSET Tag
  BY DEF Partial!Filters
<1>5. log' \in Seq(Entry) /\ Len(log') = Len(log) + 1
  <2> DEFINE r == [tenant |-> t, tags |-> tags, deleted |-> deleted, revision |-> Partial!Stored(t, e).revision + 1]
             p == IF Partial!Stored(t, e).revision = 0 THEN tags ELSE Partial!Stored(t, e).tags
  <2>1. r \in Record
    BY <1>3, <1>4 DEF Record
  <2>2. p \in SUBSET Tag
    BY <1>3, <1>4
  <2> HIDE DEF r, p
  <2>3. [entity |-> e, priorTags |-> p, record |-> r] \in Entry
    BY <2>1, <2>2 DEF Entry
  <2>4. log' = Append(log, [entity |-> e, priorTags |-> p, record |-> r])
    BY <1>2 DEF r, p
  <2>5. log \in Seq(Entry)
    BY <1>1 DEF PartialTyped
  <2> QED BY <2>3, <2>4, <2>5
<1>6. UNCHANGED <<scope, checkpoint, cached, index, backfill, network, queued, quarantined>>
  BY DEF Partial!Commit, Partial!client
<1>7. Len(log) \in Nat
  BY <1>1, LogIs
<1>8. PartialTyped'
  BY <1>1, <1>5, <1>6, <1>7 DEF PartialTyped
<1>9. \A r \in network' : AnswerOK(r)'
  BY <1>5, <1>6, <1>7 DEF Isolated, AnswerOK
<1> QED BY <1>6, <1>8, <1>9, SameCache, SameQueue DEF Isolated

\* An answer to the current scope.
LEMMA AnswerKeepsIsolated ==
  ASSUME Isolated, UNCHANGED <<log, scope, checkpoint, cached, index, backfill, queued, quarantined>>,
         \A r \in network' : AnswerOK(r)
  PROVE  Isolated'
<1>1. PartialTyped'
  BY DEF Isolated, PartialTyped
<1>2. \A r \in network' : AnswerOK(r)'
  BY DEF AnswerOK
<1> QED BY <1>1, <1>2, SameCache, SameQueue DEF Isolated

LEMMA PageIsOK ==
  ASSUME Isolated, backfill # Partial!Done, NEW limit \in 1..2
  PROVE  AnswerOK(Partial!Page(backfill, limit))
<1> DEFINE r == Partial!Page(backfill, limit)
<1>1. PartialTyped /\ backfill \in Nat
  BY DEF Isolated, PartialTyped, Offsets
<1>2. r.scope = scope /\ r.checkpoint = Len(log)
  BY DEF Partial!Page
<1>3. r.next \in Offsets
  BY <1>1 DEF Partial!Page, Offsets
<1>4. DOMAIN r.items \subseteq Partial!InScope(scope.tenant, scope.filter)
  BY DEF Partial!Page
<1>5. \A e \in DOMAIN r.items : r.items[e] = Partial!Stored(scope.tenant, e)
  BY DEF Partial!Page
<1> HIDE DEF r
<1>6. \A e \in DOMAIN r.items :
        /\ e \in Thing
        /\ r.items[e] \in Record /\ r.items[e].tenant = scope.tenant
        /\ Partial!Intersects(r.items[e].tags, scope.filter)
  BY <1>1, <1>4, <1>5, InScopeIs
<1>7. scope \in Scopes /\ Len(log) \in Nat
  BY <1>1, LogIs DEF PartialTyped
<1>8. AnswerOK(r)
  BY <1>2, <1>3, <1>6, <1>7 DEF AnswerOK, Scopes
<1> QED BY <1>8 DEF r

\* What changes say of an entity is the last relevant entry.
Relevants(limit) ==
  {i \in DOMAIN log : /\ checkpoint < i /\ i <= Partial!NextCheckpoint(limit)
                      /\ Partial!Relevant(log[i], scope.tenant, scope.filter)}

LEMMA ChangesAre ==
  ASSUME Isolated, NEW limit \in 1..2
  PROVE  LET r == Partial!Changes(limit) IN
         /\ r.kind = "changes" /\ r.scope = scope /\ r.next = Partial!Done
         /\ r.checkpoint = Partial!NextCheckpoint(limit)
         /\ checkpoint <= r.checkpoint /\ r.checkpoint \in 0..Len(log)
         /\ DOMAIN r.items = {log[i].entity : i \in Relevants(limit)}
         /\ \A e \in DOMAIN r.items :
              LET sent == {i \in Relevants(limit) : log[i].entity = e} IN
              /\ Partial!Latest(sent) \in sent /\ \A j \in sent : j <= Partial!Latest(sent)
              /\ r.items[e] = log[Partial!Latest(sent)].record
<1> DEFINE r == Partial!Changes(limit)
<1>1. PartialTyped /\ Len(log) \in Nat /\ checkpoint \in 0..Len(log) /\ DOMAIN log = 1..Len(log)
  BY LogIs DEF Isolated, PartialTyped
<1>2. /\ r.kind = "changes" /\ r.scope = scope /\ r.next = Partial!Done
      /\ r.checkpoint = Partial!NextCheckpoint(limit)
      /\ DOMAIN r.items = {log[i].entity : i \in Relevants(limit)}
      /\ \A e \in DOMAIN r.items :
           r.items[e] = log[Partial!Latest({i \in Relevants(limit) : log[i].entity = e})].record
  BY DEF Partial!Changes, Relevants
<1>3. checkpoint <= Partial!NextCheckpoint(limit) /\ Partial!NextCheckpoint(limit) \in 0..Len(log)
  BY <1>1 DEF Partial!NextCheckpoint
<1> HIDE DEF r
<1>4. ASSUME NEW e \in DOMAIN r.items
      PROVE  LET sent == {i \in Relevants(limit) : log[i].entity = e} IN
             Partial!Latest(sent) \in sent /\ \A j \in sent : j <= Partial!Latest(sent)
  <2> DEFINE sent == {i \in Relevants(limit) : log[i].entity = e}
  <2>1. sent # {} /\ sent \subseteq 1..Len(log)
    BY <1>1, <1>2 DEF Relevants
  <2> HIDE DEF sent
  <2>2. Partial!Latest(sent) \in sent /\ \A j \in sent : j <= Partial!Latest(sent)
    BY <1>1, <2>1, LatestOf
  <2> QED BY <2>2 DEF sent
<1>5. LET q == r IN
         /\ q.kind = "changes" /\ q.scope = scope /\ q.next = Partial!Done
         /\ q.checkpoint = Partial!NextCheckpoint(limit)
         /\ checkpoint <= q.checkpoint /\ q.checkpoint \in 0..Len(log)
         /\ DOMAIN q.items = {log[i].entity : i \in Relevants(limit)}
         /\ \A e \in DOMAIN q.items :
              LET sent == {i \in Relevants(limit) : log[i].entity = e} IN
              /\ Partial!Latest(sent) \in sent /\ \A j \in sent : j <= Partial!Latest(sent)
              /\ q.items[e] = log[Partial!Latest(sent)].record
  BY <1>2, <1>3, <1>4
<1> QED BY <1>5 DEF r

LEMMA ChangesIsOK ==
  ASSUME Isolated, NEW limit \in 1..2
  PROVE  AnswerOK(Partial!Changes(limit))
<1> DEFINE r == Partial!Changes(limit)
<1>1. /\ r.scope = scope /\ r.next = Partial!Done /\ r.checkpoint \in 0..Len(log)
      /\ DOMAIN r.items = {log[i].entity : i \in Relevants(limit)}
      /\ \A e \in DOMAIN r.items :
           LET sent == {i \in Relevants(limit) : log[i].entity = e} IN
           /\ Partial!Latest(sent) \in sent
           /\ r.items[e] = log[Partial!Latest(sent)].record
  BY ChangesAre
<1> HIDE DEF r
<1>2. PartialTyped /\ scope \in Scopes
  BY DEF Isolated, PartialTyped
<1>3. \A i \in Relevants(limit) :
        /\ log[i].entity \in Thing /\ log[i].record \in Record
        /\ log[i].record.tenant = scope.tenant
        /\ log[i].record.deleted \/ Partial!Intersects(log[i].record.tags, scope.filter)
  BY <1>2, LogIs DEF Relevants, Partial!Relevant, Entry
<1>4. \A e \in DOMAIN r.items : \E i \in Relevants(limit) : r.items[e] = log[i].record
  BY <1>1
<1>5. \A e \in DOMAIN r.items :
        /\ r.items[e] \in Record /\ r.items[e].tenant = scope.tenant
        /\ r.items[e].deleted \/ Partial!Intersects(r.items[e].tags, scope.filter)
  BY <1>3, <1>4
<1>6. DOMAIN r.items \subseteq Thing
  BY <1>1, <1>3
<1>7. AnswerOK(r)
  BY <1>1, <1>2, <1>5, <1>6 DEF AnswerOK, Scopes, Offsets
<1> QED BY <1>7 DEF r

\* What the client has after an answer.
LEMMA ReceiveCache ==
  ASSUME Isolated, NEW r \in network, Partial!Receive(r)
  PROVE  /\ r.scope = scope /\ AnswerOK(r)
         /\ cached' = Partial!Applied(r.items) /\ cached' \in [Thing -> Record \cup {Partial!NoRecord}]
         /\ checkpoint' = (IF r.checkpoint > checkpoint THEN r.checkpoint ELSE checkpoint)
         /\ backfill' = (IF r.kind = "page" THEN r.next ELSE backfill)
         /\ network' = network \ {r}
         /\ UNCHANGED <<log, scope, queued, quarantined>>
         /\ \A e \in Thing :
              cached'[e] = IF e \notin DOMAIN r.items THEN cached[e]
                           ELSE IF r.items[e].deleted THEN Partial!NoRecord ELSE r.items[e]
<1>1. /\ r.scope = scope
      /\ cached' = Partial!Applied(r.items)
      /\ checkpoint' = (IF r.checkpoint > checkpoint THEN r.checkpoint ELSE checkpoint)
      /\ backfill' = (IF r.kind = "page" THEN r.next ELSE backfill)
      /\ network' = network \ {r}
      /\ UNCHANGED <<log, scope, queued, quarantined>>
  BY DEF Partial!Receive, Partial!Current
<1>2. AnswerOK(r)
  BY DEF Isolated
<1>3. cached' = [e \in Thing |-> IF e \notin DOMAIN r.items THEN cached[e]
                                 ELSE IF r.items[e].deleted THEN Partial!NoRecord ELSE r.items[e]]
  BY <1>1 DEF Partial!Applied
<1>4. cached \in [Thing -> Record \cup {Partial!NoRecord}]
  BY DEF Isolated, PartialTyped
<1>5. \A e \in DOMAIN r.items : r.items[e] \in Record
  BY <1>2 DEF AnswerOK
<1>6. cached' \in [Thing -> Record \cup {Partial!NoRecord}]
  BY <1>3, <1>4, <1>5
<1> QED BY <1>1, <1>2, <1>3, <1>6

LEMMA ReceiveKeepsIsolated ==
  ASSUME Isolated, NEW r \in network, Partial!Receive(r)
  PROVE  Isolated'
<1>1. /\ r.scope = scope /\ AnswerOK(r)
      /\ cached' \in [Thing -> Record \cup {Partial!NoRecord}]
      /\ checkpoint' = (IF r.checkpoint > checkpoint THEN r.checkpoint ELSE checkpoint)
      /\ backfill' = (IF r.kind = "page" THEN r.next ELSE backfill)
      /\ network' = network \ {r}
      /\ UNCHANGED <<log, scope, queued, quarantined>>
      /\ \A e \in Thing :
           cached'[e] = IF e \notin DOMAIN r.items THEN cached[e]
                        ELSE IF r.items[e].deleted THEN Partial!NoRecord ELSE r.items[e]
  BY ReceiveCache
<1>2. PartialTyped'
  BY <1>1 DEF Isolated, PartialTyped, AnswerOK
<1>3. \A q \in network' : AnswerOK(q)'
  BY <1>1 DEF Isolated, AnswerOK
<1>4. /\ DOMAIN r.items \subseteq Thing
      /\ \A e \in DOMAIN r.items :
           /\ r.items[e].tenant = scope.tenant
           /\ r.items[e].deleted \/ Partial!Intersects(r.items[e].tags, scope.filter)
  BY <1>1 DEF AnswerOK
<1>5. /\ \A e \in Thing : ~cached[e].deleted =>
           cached[e].tenant = scope.tenant /\ Partial!Intersects(cached[e].tags, scope.filter)
      /\ index = [g \in Tag |-> {e \in Thing : ~cached[e].deleted /\ g \in cached[e].tags}]
  BY DEF Isolated, Partial!OnlyTheScope
<1>6. \A e \in Thing : ~cached'[e].deleted =>
        cached'[e].tenant = scope.tenant /\ Partial!Intersects(cached'[e].tags, scope.filter)
  BY <1>1, <1>4, <1>5, NoRecordIs
<1>7. index' = [g \in Tag |-> {e \in Thing : ~cached'[e].deleted /\ g \in cached'[e].tags}]
  <2>1. index' = [g \in Tag |-> (index[g] \ DOMAIN r.items)
                     \cup {e \in DOMAIN r.items : ~r.items[e].deleted /\ g \in r.items[e].tags}]
    BY DEF Partial!Receive, Partial!Indexed
  <2>2. ASSUME NEW g \in Tag
        PROVE  (index[g] \ DOMAIN r.items)
                     \cup {e \in DOMAIN r.items : ~r.items[e].deleted /\ g \in r.items[e].tags}
               = {e \in Thing : ~cached'[e].deleted /\ g \in cached'[e].tags}
    <3>1. index[g] = {e \in Thing : ~cached[e].deleted /\ g \in cached[e].tags}
      BY <1>5
    <3>2. ASSUME NEW e
          PROVE  e \in (index[g] \ DOMAIN r.items)
                        \cup {x \in DOMAIN r.items : ~r.items[x].deleted /\ g \in r.items[x].tags}
                 <=> e \in Thing /\ ~cached'[e].deleted /\ g \in cached'[e].tags
      <4>1. CASE e \in DOMAIN r.items
        <5>1. e \in Thing
          BY <1>4, <4>1
        <5> QED BY <1>1, <4>1, <5>1, NoRecordIs
      <4>2. CASE e \notin DOMAIN r.items
        BY <1>1, <3>1, <4>2
      <4> QED BY <4>1, <4>2
    <3> QED BY <3>2
  <2> QED BY <2>1, <2>2
<1>8. Partial!OnlyTheScope'
  BY <1>1, <1>6, <1>7 DEF Partial!OnlyTheScope, Partial!Intersects
<1> QED BY <1>1, <1>2, <1>3, <1>8, SameQueue DEF Isolated

LEMMA ChangeFilterKeepsIsolated ==
  ASSUME Isolated, Partial!ChangeFilter
  PROVE  Isolated'
<1>1. PICK f \in Partial!Filters :
        /\ scope' = [scope EXCEPT !.filter = f, !.epoch = @ + 1]
        /\ cached' = [e \in Thing |-> IF e \in Partial!Kept(f) THEN cached[e] ELSE Partial!NoRecord]
        /\ index' = [g \in Tag |-> index[g] \cap Partial!Kept(f)]
  BY DEF Partial!ChangeFilter
<1>2. backfill' = 0 /\ UNCHANGED <<log, checkpoint, network, queued, quarantined>>
  BY DEF Partial!ChangeFilter
<1>3. PartialTyped /\ scope \in Scopes
  BY DEF Isolated, PartialTyped
<1>4. scope' \in Scopes /\ scope'.tenant = scope.tenant /\ scope'.filter = f /\ scope'.epoch = scope.epoch + 1
  <2>1. scope' = [tenant |-> scope.tenant, filter |-> f, epoch |-> scope.epoch + 1]
    BY <1>1, <1>3 DEF Scopes
  <2> QED BY <1>3, <2>1 DEF Scopes
<1>5. cached' \in [Thing -> Record \cup {Partial!NoRecord}]
  BY <1>1, <1>3 DEF PartialTyped
<1>6. PartialTyped'
  BY <1>2, <1>3, <1>4, <1>5 DEF PartialTyped, Offsets
<1>7. \A r \in network' : AnswerOK(r)'
  <2>1. scope.epoch \in Nat /\ \A r \in network : r.scope \in Scopes /\ r.scope.epoch \in Nat
    BY <1>3 DEF Isolated, AnswerOK, Scopes
  <2> QED BY <1>2, <1>4, <2>1 DEF Isolated, AnswerOK
<1>8. Partial!OnlyTheScope'
  <2>1. /\ \A e \in Thing : ~cached[e].deleted =>
           cached[e].tenant = scope.tenant /\ Partial!Intersects(cached[e].tags, scope.filter)
        /\ index = [g \in Tag |-> {e \in Thing : ~cached[e].deleted /\ g \in cached[e].tags}]
    BY DEF Isolated, Partial!OnlyTheScope
  <2>2. \A e \in Thing : cached'[e] = IF e \in Partial!Kept(f) THEN cached[e] ELSE Partial!NoRecord
    BY <1>1
  <2>3. Partial!Kept(f) = {e \in Thing : ~cached[e].deleted /\ Partial!Intersects(cached[e].tags, f)}
    BY DEF Partial!Kept
  <2>4. \A e \in Thing : ~cached'[e].deleted =>
           cached'[e].tenant = scope.tenant /\ Partial!Intersects(cached'[e].tags, f)
    BY <2>1, <2>2, <2>3, NoRecordIs
  <2>5. ASSUME NEW g \in Tag
        PROVE  index[g] \cap Partial!Kept(f) = {e \in Thing : ~cached'[e].deleted /\ g \in cached'[e].tags}
    <3>1. index[g] = {e \in Thing : ~cached[e].deleted /\ g \in cached[e].tags}
      BY <2>1
    <3> QED BY <3>1, <2>2, <2>3, NoRecordIs
  <2>6. index' = [g \in Tag |-> {e \in Thing : ~cached'[e].deleted /\ g \in cached'[e].tags}]
    BY <1>1, <2>5
  <2> QED BY <1>4, <2>4, <2>6 DEF Partial!OnlyTheScope, Partial!Intersects
<1>9. Partial!QueueKeepsItsTenant'
  <2>1. Partial!QueueKeepsItsTenant
    BY DEF Isolated
  <2>2. (queued \cup quarantined)' = queued \cup quarantined
    BY <1>2
  <2>3. Partial!Cardinality(queued \cup quarantined)' = Partial!Cardinality(queued \cup quarantined)
    BY <2>2, SameCardinality
  <2> QED BY <1>2, <1>4, <2>1, <2>2, <2>3 DEF Partial!QueueKeepsItsTenant
<1> QED BY <1>6, <1>7, <1>8, <1>9 DEF Isolated

LEMMA EnqueueKeepsIsolated ==
  ASSUME Isolated, Partial!Enqueue
  PROVE  Isolated'
<1> DEFINE all == queued \cup quarantined
           n == Partial!Cardinality(all)
           m == [tenant |-> scope.tenant, id |-> n + 1]
<1>1. queued' = queued \cup {m}
  BY DEF Partial!Enqueue
<1>2. UNCHANGED <<log, scope, checkpoint, cached, index, backfill, network, quarantined>>
  BY DEF Partial!Enqueue, Partial!client
<1>3. /\ \A q \in queued : q.tenant = scope.tenant
      /\ {q.id : q \in all} = 1..n
  BY DEF Isolated, Partial!QueueKeepsItsTenant
<1>4. IsFiniteSet(all) /\ n = Cardinality(all)
  BY SameCardinality DEF Isolated, PartialTyped
<1>5. n \in Nat
  BY <1>4, FS_CardinalityType
<1>6. all' = all \cup {m}
  BY <1>1, <1>2
<1>7. m.tenant = scope.tenant /\ m.id = n + 1
  OBVIOUS
<1> HIDE DEF m
<1> HIDE DEF n
<1> HIDE DEF all
<1>8. m \notin all
  <2>1. \A q \in all : q.id \in 1..n
    BY <1>3
  <2> QED BY <2>1, <1>5, <1>7
<1>9. IsFiniteSet(all') /\ Cardinality(all') = n + 1
  BY <1>4, <1>5, <1>6, <1>8, FS_AddElement
<1>10. {q.id : q \in all'} = 1..(n + 1)
  <2>1. {q.id : q \in all'} = {q.id : q \in all} \cup {m.id}
    BY <1>6
  <2>2. (1..n) \cup {n + 1} = 1..(n + 1)
    BY <1>5
  <2> QED BY <2>1, <2>2, <1>3, <1>7
<1>11. Partial!QueueKeepsItsTenant'
  <2>1. Partial!Cardinality(queued \cup quarantined)' = n + 1
    BY <1>9, SameCardinality DEF all
  <2>2. \A q \in queued' : q.tenant = scope'.tenant
    BY <1>1, <1>2, <1>3, <1>7
  <2>3. {q.id : q \in queued' \cup quarantined'} = 1..(n + 1)
    BY <1>10 DEF all
  <2> QED BY <2>1, <2>2, <2>3 DEF Partial!QueueKeepsItsTenant
<1>12. PartialTyped'
  <2>1. IsFiniteSet(queued \cup quarantined)'
    BY <1>9 DEF all
  <2> QED BY <1>2, <2>1 DEF Isolated, PartialTyped
<1>13. \A r \in network' : AnswerOK(r)'
  BY <1>2 DEF Isolated, AnswerOK
<1> QED BY <1>2, <1>11, <1>12, <1>13, SameCache DEF Isolated

LEMMA SwitchTenantKeepsIsolated ==
  ASSUME Isolated, Partial!SwitchTenant
  PROVE  Isolated'
<1>1. PICK t \in Tenant \ {scope.tenant}, f \in Partial!Filters :
        scope' = [tenant |-> t, filter |-> f, epoch |-> scope.epoch + 1]
  BY DEF Partial!SwitchTenant
<1>2. /\ cached' = [e \in Thing |-> Partial!NoRecord] /\ index' = [g \in Tag |-> {}]
      /\ checkpoint' = 0 /\ backfill' = 0
      /\ quarantined' = quarantined \cup queued /\ queued' = {}
      /\ UNCHANGED <<log, network>>
  BY DEF Partial!SwitchTenant, Partial!Quarantine
<1>3. PartialTyped /\ scope \in Scopes /\ Len(log) \in Nat
  BY LogIs DEF Isolated, PartialTyped
<1>4. scope' \in Scopes /\ scope'.epoch = scope.epoch + 1 /\ scope.epoch \in Nat
  BY <1>1, <1>3 DEF Scopes
<1>5. (queued \cup quarantined)' = queued \cup quarantined
  BY <1>2
<1>6. PartialTyped'
  <2>1. IsFiniteSet(queued \cup quarantined)'
    BY <1>3, <1>5 DEF PartialTyped
  <2>2. cached' \in [Thing -> Record \cup {Partial!NoRecord}]
    BY <1>2
  <2> QED BY <1>2, <1>3, <1>4, <2>1, <2>2 DEF PartialTyped, Offsets
<1>7. \A r \in network' : AnswerOK(r)'
  <2>1. \A r \in network : r.scope.epoch \in Nat
    BY DEF Isolated, AnswerOK, Scopes
  <2> QED BY <1>2, <1>4, <2>1 DEF Isolated, AnswerOK
<1>8. Partial!OnlyTheScope'
  BY <1>2, NoRecordIs DEF Partial!OnlyTheScope
<1>9. Partial!QueueKeepsItsTenant'
  <2>1. {q.id : q \in queued \cup quarantined} = 1..Partial!Cardinality(queued \cup quarantined)
    BY DEF Isolated, Partial!QueueKeepsItsTenant
  <2>2. Partial!Cardinality(queued \cup quarantined)' = Partial!Cardinality(queued \cup quarantined)
    BY <1>5, SameCardinality
  <2>3. {q.id : q \in queued' \cup quarantined'} = {q.id : q \in queued \cup quarantined}
    BY <1>5
  <2> QED BY <1>2, <2>1, <2>2, <2>3 DEF Partial!QueueKeepsItsTenant
<1> QED BY <1>6, <1>7, <1>8, <1>9 DEF Isolated

LEMMA IsolatedIsInductive ==
  Isolated /\ [Partial!Next]_(Partial!vars) => Isolated'
<1> SUFFICES ASSUME Isolated, [Partial!Next]_(Partial!vars) PROVE Isolated'
  OBVIOUS
<1>0. \A r \in network : AnswerOK(r)
  BY DEF Isolated
<1>1. ASSUME NEW t \in Tenant, NEW e \in Thing, Partial!Commit(t, e) PROVE Isolated'
  BY <1>1, CommitKeepsIsolated
<1>2. CASE Partial!AskPage
  <2>1. PICK limit \in 1..2 : network' = network \cup {Partial!Page(backfill, limit)}
    BY <1>2 DEF Partial!AskPage
  <2>2. AnswerOK(Partial!Page(backfill, limit))
    BY <1>2, PageIsOK DEF Partial!AskPage
  <2>3. \A r \in network' : AnswerOK(r)
    BY <1>0, <2>1, <2>2
  <2>4. UNCHANGED <<log, scope, checkpoint, cached, index, backfill, queued, quarantined>>
    BY <1>2 DEF Partial!AskPage, Partial!client
  <2> QED BY <2>3, <2>4, AnswerKeepsIsolated
<1>3. CASE Partial!AskChanges
  <2>1. PICK limit \in 1..2 : network' = network \cup {Partial!Changes(limit)}
    BY <1>3 DEF Partial!AskChanges
  <2>2. AnswerOK(Partial!Changes(limit))
    BY ChangesIsOK
  <2>3. \A r \in network' : AnswerOK(r)
    BY <1>0, <2>1, <2>2
  <2>4. UNCHANGED <<log, scope, checkpoint, cached, index, backfill, queued, quarantined>>
    BY <1>3 DEF Partial!AskChanges, Partial!client
  <2> QED BY <2>3, <2>4, AnswerKeepsIsolated
<1>4. ASSUME NEW r \in network, Partial!Receive(r) PROVE Isolated'
  BY <1>4, ReceiveKeepsIsolated
<1>5. ASSUME NEW r \in network, Partial!IgnoreStale(r) \/ Partial!Lose(r) PROVE Isolated'
  <2>1. UNCHANGED <<log, scope, checkpoint, cached, index, backfill, queued, quarantined>>
    BY <1>5 DEF Partial!IgnoreStale, Partial!Lose, Partial!client
  <2>2. \A q \in network' : AnswerOK(q)
    BY <1>0, <1>5 DEF Partial!IgnoreStale, Partial!Lose
  <2> QED BY <2>1, <2>2, AnswerKeepsIsolated
<1>6. CASE UNCHANGED Partial!vars
  <2>1. UNCHANGED <<log, scope, checkpoint, cached, index, backfill, queued, quarantined>> /\ UNCHANGED network
    BY <1>6 DEF Partial!vars, Partial!client
  <2> QED BY <1>0, <2>1, AnswerKeepsIsolated
<1> QED BY <1>1, <1>2, <1>3, <1>4, <1>5, <1>6, ChangeFilterKeepsIsolated, EnqueueKeepsIsolated,
           SwitchTenantKeepsIsolated DEF Partial!Next
-----------------------------------------------------------------------------
\* The log's own operators.
LEMMA ServerSees ==
  ASSUME NEW t, NEW e
  PROVE  Partial!Commits(t, e) = CommitsIn(log, t, e) /\ Partial!Stored(t, e) = StoredIn(log, t, e)
  BY DEF Partial!Commits, CommitsIn, Partial!Stored, StoredIn

LEMMA ServerWants == Partial!InScope(scope.tenant, scope.filter) = WantedIn(log, scope)
<1>1. \A e : Partial!Stored(scope.tenant, e) = StoredIn(log, scope.tenant, e)
  BY ServerSees
<1> QED BY <1>1 DEF Partial!InScope, WantedIn

LEMMA LogTypes ==
  ASSUME NEW h \in Seq(Entry)
  PROVE  /\ Len(h) \in Nat /\ DOMAIN h = 1..Len(h)
         /\ \A t, e : CommitsIn(h, t, e) \subseteq 1..Len(h)
         /\ \A s, c, e : UntilIn(h, s, c, e) \subseteq 1..Len(h)
         /\ \A s, c, d, e : NewIn(h, s, c, d, e) \subseteq 1..Len(h)
  BY DEF CommitsIn, UntilIn, NewIn

\* At the end of the log a client has to show what is stored and in scope.
LEMMA ShownAtEnd ==
  ASSUME NEW h \in Seq(Entry), NEW s, NEW e \in Thing
  PROVE  ShownIn(h, s, Len(h), e) =
           IF e \in WantedIn(h, s) THEN StoredIn(h, s.tenant, e) ELSE Partial!NoRecord
<1>1. UntilIn(h, s, Len(h), e) = CommitsIn(h, s.tenant, e)
  <2>1. \A i \in CommitsIn(h, s.tenant, e) : i <= Len(h)
    BY LogTypes
  <2> QED BY <2>1 DEF UntilIn
<1>2. CASE CommitsIn(h, s.tenant, e) = {}
  <2>1. StoredIn(h, s.tenant, e) = Partial!NoRecord
    BY <1>2 DEF StoredIn
  <2>2. e \notin WantedIn(h, s)
    BY <2>1, NoRecordIs DEF WantedIn
  <2> QED BY <1>1, <1>2, <2>2 DEF ShownIn
<1>3. CASE CommitsIn(h, s.tenant, e) # {}
  <2>1. StoredIn(h, s.tenant, e) = h[Partial!Latest(UntilIn(h, s, Len(h), e))].record
    BY <1>1, <1>3 DEF StoredIn
  <2> QED BY <1>1, <1>3, <2>1 DEF ShownIn, WantedIn
<1> QED BY <1>2, <1>3

\* What is wanted has a place, before the end.
LEMMA RankBelow ==
  ASSUME NEW h, NEW s
  PROVE  /\ Cardinality(WantedIn(h, s)) \in Nat
         /\ \A e \in WantedIn(h, s) :
              Rank(h, s, e) \in Nat /\ Rank(h, s, e) < Cardinality(WantedIn(h, s))
<1> DEFINE W == WantedIn(h, s)
<1>1. W \subseteq Thing
  BY DEF WantedIn
<1>2. IsFiniteSet(W)
  BY <1>1, ThingAssumption, FS_Subset
<1>3. Cardinality(W) \in Nat
  BY <1>2, FS_CardinalityType
<1>4. ASSUME NEW e \in W
      PROVE  Rank(h, s, e) \in Nat /\ Rank(h, s, e) < Cardinality(W)
  <2> DEFINE B == {x \in W : x < e}
  <2>1. Rank(h, s, e) = Cardinality(B)
    BY DEF Rank
  <2>2. e \notin B
    <3>1. e \in Int
      BY <1>1, ThingAssumption
    <3> QED BY <3>1
  <2>3. B \subseteq W \ {e}
    BY <2>2
  <2> HIDE DEF B
  <2> HIDE DEF W
  <2>4. IsFiniteSet(W \ {e}) /\ Cardinality(W \ {e}) = Cardinality(W) - 1
    BY <1>2, <1>4, FS_RemoveElement
  <2>5. IsFiniteSet(B) /\ Cardinality(B) <= Cardinality(W \ {e})
    BY <2>3, <2>4, FS_Subset
  <2>6. Cardinality(B) \in Nat
    BY <2>5, FS_CardinalityType
  <2> QED BY <1>3, <2>1, <2>4, <2>5, <2>6
<1> QED BY <1>3, <1>4

\* A longer log says the same up to the end of the shorter.
LEMMA LongerLog ==
  ASSUME NEW h \in Seq(Entry), NEW g, DOMAIN g = 1..(Len(h) + 1),
         \A i \in DOMAIN h : g[i] = h[i], NEW s, NEW e
  PROVE  /\ \A c \in 0..Len(h) : UntilIn(g, s, c, e) = UntilIn(h, s, c, e)
         /\ \A c \in 0..Len(h) : ShownIn(g, s, c, e) = ShownIn(h, s, c, e)
         /\ \A c, d \in 0..Len(h) : NewIn(g, s, c, d, e) = NewIn(h, s, c, d, e)
<1>1. /\ Len(h) \in Nat /\ DOMAIN h = 1..Len(h)
      /\ DOMAIN g = 1..(Len(h) + 1) /\ \A i \in 1..Len(h) : g[i] = h[i]
  OBVIOUS
<1>2. ASSUME NEW c \in 0..Len(h), NEW i
      PROVE  i \in CommitsIn(g, s.tenant, e) /\ i <= c <=> i \in CommitsIn(h, s.tenant, e) /\ i <= c
  <2>1. i \in DOMAIN g /\ i <= c <=> i \in DOMAIN h /\ i <= c
    BY <1>1
  <2> QED BY <1>1, <2>1 DEF CommitsIn
<1>3. ASSUME NEW c \in 0..Len(h) PROVE UntilIn(g, s, c, e) = UntilIn(h, s, c, e)
  BY <1>2, <1>3 DEF UntilIn
<1>4. ASSUME NEW c \in 0..Len(h) PROVE ShownIn(g, s, c, e) = ShownIn(h, s, c, e)
  <2>1. CASE UntilIn(h, s, c, e) = {}
    BY <1>3, <2>1 DEF ShownIn
  <2>2. CASE UntilIn(h, s, c, e) # {}
    <3>1. Partial!Latest(UntilIn(h, s, c, e)) \in UntilIn(h, s, c, e)
      BY <1>1, <2>2, LogTypes, LatestOf
    <3>2. g[Partial!Latest(UntilIn(h, s, c, e))] = h[Partial!Latest(UntilIn(h, s, c, e))]
      BY <1>1, <3>1, LogTypes
    <3> QED BY <1>3, <3>2 DEF ShownIn
  <2> QED BY <2>1, <2>2
<1>5. ASSUME NEW c \in 0..Len(h), NEW d \in 0..Len(h) PROVE NewIn(g, s, c, d, e) = NewIn(h, s, c, d, e)
  BY <1>2, <1>5 DEF NewIn
<1> QED BY <1>3, <1>4, <1>5

LEMMA CompleteStarts == Partial!Init => Complete
<1> SUFFICES ASSUME Partial!Init PROVE Complete
  OBVIOUS
<1>1. log = <<>> /\ network = {} /\ backfill = Partial!Done /\ cached = [e \in Thing |-> Partial!NoRecord]
  BY DEF Partial!Init
<1>2. DOMAIN log = {}
  BY <1>1
<1>3. \A s, c, e : UntilIn(log, s, c, e) = {}
  BY <1>2 DEF UntilIn, CommitsIn
<1>4. Followed
  BY <1>1, <1>3 DEF Followed, ShownIn
<1> QED BY <1>1, <1>2, <1>4 DEF Complete, TagsStay, CurrentOK

\* What a commit adds to a log in which entities keep their tags.
LEMMA CommitAdds ==
  ASSUME Isolated, TagsStay, "retag" \notin Risks,
         NEW t \in Tenant, NEW e \in Thing, Partial!Commit(t, e)
  PROVE  \E x : /\ log' = Append(log, x) /\ x.entity = e /\ x.record.tenant = t
                /\ x.record.revision > 0 /\ x.priorTags = x.record.tags
                /\ \A j \in CommitsIn(log, t, e) : log[j].record.tags = x.record.tags
<1>1. PartialTyped
  BY DEF Isolated
<1>2. PICK tags \in Partial!Filters, deleted \in BOOLEAN :
        /\ Partial!Stored(t, e).revision > 0 /\ "retag" \notin Risks => tags = Partial!Stored(t, e).tags
        /\ log' = Append(log,
            [entity |-> e, priorTags |-> IF Partial!Stored(t, e).revision = 0 THEN tags ELSE Partial!Stored(t, e).tags,
             record |-> [tenant |-> t, tags |-> tags, deleted |-> deleted, revision |-> Partial!Stored(t, e).revision + 1]])
  BY DEF Partial!Commit
<1>3. Partial!Stored(t, e).revision \in Nat
  BY <1>1, StoredIs, NoRecordIs DEF Record
<1>4. ASSUME NEW j \in CommitsIn(log, t, e)
      PROVE  Partial!Stored(t, e).revision > 0 /\ log[j].record.tags = Partial!Stored(t, e).tags
  <2> DEFINE l == Partial!Latest(Partial!Commits(t, e))
  <2>1. Partial!Commits(t, e) # {} /\ j \in Partial!Commits(t, e)
    BY <1>4, ServerSees
  <2>2. l \in Partial!Commits(t, e) /\ Partial!Stored(t, e) = log[l].record
    BY <1>1, <2>1, StoredIs
  <2> HIDE DEF l
  <2>3. /\ l \in DOMAIN log /\ log[l].record.tenant = t /\ log[l].entity = e
        /\ j \in DOMAIN log /\ log[j].record.tenant = t /\ log[j].entity = e
    BY <2>1, <2>2 DEF Partial!Commits
  <2>4. log[l].record.revision > 0
    BY <2>3 DEF TagsStay
  <2>5. log[j].record.tags = log[l].record.tags
    BY <2>3 DEF TagsStay
  <2> QED BY <2>2, <2>4, <2>5
<1> DEFINE x == [entity |-> e, priorTags |-> IF Partial!Stored(t, e).revision = 0 THEN tags ELSE Partial!Stored(t, e).tags,
                 record |-> [tenant |-> t, tags |-> tags, deleted |-> deleted, revision |-> Partial!Stored(t, e).revision + 1]]
<1>5. /\ log' = Append(log, x) /\ x.entity = e /\ x.record.tenant = t
      /\ x.record.revision = Partial!Stored(t, e).revision + 1 /\ x.record.tags = tags
      /\ x.priorTags = IF Partial!Stored(t, e).revision = 0 THEN tags ELSE Partial!Stored(t, e).tags
  BY <1>2
<1> HIDE DEF x
<1>6. x.record.revision > 0 /\ x.priorTags = x.record.tags
  BY <1>2, <1>3, <1>5
<1>7. \A j \in CommitsIn(log, t, e) : log[j].record.tags = x.record.tags
  BY <1>2, <1>4, <1>5
<1> QED BY <1>5, <1>6, <1>7

LEMMA CommitKeepsComplete ==
  ASSUME Isolated, Complete, "retag" \notin Risks, "commit" \notin Risks,
         NEW t \in Tenant, NEW e \in Thing, Partial!Commit(t, e)
  PROVE  Complete'
<1>1. PICK x : /\ log' = Append(log, x) /\ x.entity = e /\ x.record.tenant = t
               /\ x.record.revision > 0 /\ x.priorTags = x.record.tags
               /\ \A j \in CommitsIn(log, t, e) : log[j].record.tags = x.record.tags
  BY CommitAdds DEF Complete
<1>2. backfill = Partial!Done /\ UNCHANGED <<scope, checkpoint, cached, backfill, network>>
  BY DEF Partial!Commit, Partial!client
<1>3. log \in Seq(Entry) /\ Len(log) \in Nat /\ DOMAIN log = 1..Len(log) /\ checkpoint \in 0..Len(log)
  BY LogIs DEF Isolated, PartialTyped
<1>4. DOMAIN log' = 1..(Len(log) + 1) /\ log'[Len(log) + 1] = x /\ \A i \in DOMAIN log : log'[i] = log[i]
  BY <1>1, <1>3
<1>5. TagsStay'
  <2>1. TagsStay
    BY DEF Complete
  <2>2. ASSUME NEW i \in DOMAIN log' PROVE log'[i].record.revision > 0
    BY <1>1, <1>3, <1>4, <2>1 DEF TagsStay
  <2>3. ASSUME NEW i \in DOMAIN log', NEW j \in DOMAIN log',
               log'[i].record.tenant = log'[j].record.tenant, log'[i].entity = log'[j].entity
        PROVE  log'[i].record.tags = log'[j].record.tags /\ log'[i].priorTags = log'[j].record.tags
    <3>1. \A k \in DOMAIN log' : k \in DOMAIN log \/ k = Len(log) + 1
      BY <1>3, <1>4
    <3>2. \A k \in DOMAIN log : log[k].record.tenant = t /\ log[k].entity = e =>
            log[k].record.tags = x.record.tags /\ log[k].priorTags = x.record.tags
      BY <1>1, <2>1 DEF CommitsIn, TagsStay
    <3>3. CASE i \in DOMAIN log /\ j \in DOMAIN log
      BY <1>4, <2>1, <2>3, <3>3 DEF TagsStay
    <3>4. CASE i = Len(log) + 1 /\ j \in DOMAIN log
      BY <1>1, <1>4, <2>3, <3>2, <3>4
    <3>5. CASE i \in DOMAIN log /\ j = Len(log) + 1
      BY <1>1, <1>4, <2>3, <3>2, <3>5
    <3>6. CASE i = Len(log) + 1 /\ j = Len(log) + 1
      BY <1>1, <1>4, <3>6
    <3> QED BY <3>1, <3>3, <3>4, <3>5, <3>6
  <2> QED BY <2>2, <2>3 DEF TagsStay
<1>10. \A s, d :
         /\ \A c \in 0..Len(log) : ShownIn(log', s, c, d) = ShownIn(log, s, c, d)
         /\ \A c, k \in 0..Len(log) : NewIn(log', s, c, k, d) = NewIn(log, s, c, k, d)
  <2>1. PICK g : g = log'
    OBVIOUS
  <2>2. log \in Seq(Entry) /\ DOMAIN g = 1..(Len(log) + 1) /\ \A i \in DOMAIN log : g[i] = log[i]
    BY <1>3, <1>4, <2>1
  <2>3. ASSUME NEW s, NEW d, NEW c \in 0..Len(log)
        PROVE  ShownIn(g, s, c, d) = ShownIn(log, s, c, d)
    BY ONLY <2>2, <2>3, LongerLog
  <2>4. ASSUME NEW s, NEW d, NEW c \in 0..Len(log), NEW k \in 0..Len(log)
        PROVE  NewIn(g, s, c, k, d) = NewIn(log, s, c, k, d)
    BY ONLY <2>2, <2>4, LongerLog
  <2> QED BY <2>1, <2>3, <2>4
<1>6. \A d \in Thing : ShownIn(log', scope, checkpoint, d) = ShownIn(log, scope, checkpoint, d)
  BY <1>3, <1>10
<1>7. Followed'
  BY <1>2, <1>6 DEF Complete, Followed
<1>8. ASSUME NEW r \in network, r.scope = scope PROVE ChangesOK(r)'
  <2>1. ChangesOK(r) /\ r.checkpoint \in 0..Len(log) /\ DOMAIN r.items \subseteq Thing
    BY <1>2, <1>8 DEF Complete, CurrentOK, PageOK, Isolated, AnswerOK
  <2>2. \A d : NewIn(log', scope, checkpoint, r.checkpoint, d) = NewIn(log, scope, checkpoint, r.checkpoint, d)
    BY <1>3, <1>10, <2>1
  <2>3. \A d : \A i \in NewIn(log, scope, checkpoint, r.checkpoint, d) : i \in DOMAIN log
    BY <1>3, LogTypes
  <2>4. \A d : LET new == NewIn(log, scope, checkpoint, r.checkpoint, d)
               IN new # {} => log'[Partial!Latest(new)] = log[Partial!Latest(new)]
    BY <1>3, <1>4, <2>3, LogTypes, LatestOf
  <2>5. \A d \in DOMAIN r.items :
          LET new == NewIn(log', scope, checkpoint, r.checkpoint, d)
          IN new # {} /\ r.items[d] = log'[Partial!Latest(new)].record
    BY <2>1, <2>2, <2>4 DEF ChangesOK
  <2>6. \A d \in Thing \ DOMAIN r.items : \A i \in NewIn(log', scope, checkpoint, r.checkpoint, d) :
          ~Partial!Intersects(log'[i].record.tags, scope.filter)
    BY <1>4, <2>1, <2>2, <2>3 DEF ChangesOK
  <2> QED BY <1>2, <2>1, <2>5, <2>6 DEF ChangesOK
<1>9. CurrentOK'
  BY <1>2, <1>8 DEF Complete, CurrentOK
<1> QED BY <1>2, <1>5, <1>7, <1>9 DEF Complete

\* An answer is right as long as log, scope and progress stay.
LEMMA SameAnswer ==
  ASSUME UNCHANGED <<log, scope, checkpoint, backfill>>, NEW r, PageOK(r) \/ ChangesOK(r)
  PROVE  PageOK(r)' \/ ChangesOK(r)'
  BY DEF PageOK, ChangesOK

LEMMA AnswersKeepComplete ==
  ASSUME Complete, UNCHANGED <<log, scope, checkpoint, cached, backfill>>, CurrentOK'
  PROVE  Complete'
<1>1. TagsStay'
  BY DEF Complete, TagsStay
<1>2. Followed => Followed'
  BY DEF Followed
<1>3. Filling => Filling'
  BY DEF Filling
<1> QED BY <1>1, <1>2, <1>3 DEF Complete

LEMMA AskPageKeepsComplete ==
  ASSUME Isolated, Complete, Partial!AskPage
  PROVE  Complete'
<1>1. PICK limit \in 1..2 : network' = network \cup {Partial!Page(backfill, limit)}
  BY DEF Partial!AskPage
<1>2. UNCHANGED <<log, scope, checkpoint, cached, backfill>> /\ backfill # Partial!Done /\ ~Partial!Awaiting
  BY DEF Partial!AskPage, Partial!client
<1>3. PICK p : p = Partial!Page(backfill, limit)
  OBVIOUS
<1>4. PageOK(p)
  <2>1. \A e : Partial!Stored(scope.tenant, e) = StoredIn(log, scope.tenant, e)
    BY ServerSees
  <2>2. Partial!InScope(scope.tenant, scope.filter) = WantedIn(log, scope)
    BY ServerWants
  <2>3. p.kind = "page" /\ p.checkpoint = Len(log)
    BY <1>3 DEF Partial!Page
  <2>4. DOMAIN p.items = {e \in WantedIn(log, scope) :
          backfill <= Partial!Cardinality({x \in WantedIn(log, scope) : x < e})
          /\ Partial!Cardinality({x \in WantedIn(log, scope) : x < e}) < backfill + limit}
    BY <1>3, <2>2 DEF Partial!Page
  <2>5. DOMAIN p.items = {e \in WantedIn(log, scope) :
          backfill <= Rank(log, scope, e) /\ Rank(log, scope, e) < backfill + limit}
    BY <2>4, SameCardinality DEF Rank
  <2>6. p.next = IF backfill + limit < Partial!Cardinality(WantedIn(log, scope)) THEN backfill + limit
                 ELSE Partial!Done
    BY <1>3, <2>2 DEF Partial!Page
  <2>7. p.next = IF backfill + limit < Cardinality(WantedIn(log, scope)) THEN backfill + limit
                 ELSE Partial!Done
    BY <2>6, SameCardinality
  <2>8. \A e \in DOMAIN p.items : p.items[e] = StoredIn(log, scope.tenant, e)
    BY <1>3, <2>1 DEF Partial!Page
  <2> QED BY <1>2, <2>3, <2>5, <2>7, <2>8 DEF PageOK
<1>5. CurrentOK'
  <2>1. \A r \in network : r.scope # scope
    BY <1>2 DEF Partial!Awaiting
  <2>2. \A r \in network' : r.scope = scope => r = p
    BY <1>1, <1>3, <2>1
  <2>3. PageOK(p)' \/ ChangesOK(p)'
    BY <1>2, <1>4, SameAnswer
  <2> QED BY <1>2, <2>2, <2>3 DEF CurrentOK
<1> QED BY <1>2, <1>5, AnswersKeepComplete

\* The new entries of an entity are all relevant, or none is.
LEMMA ChangesAreOK ==
  ASSUME Isolated, TagsStay, backfill = Partial!Done, NEW limit \in 1..2
  PROVE  ChangesOK(Partial!Changes(limit))
<1>1. PICK r : r = Partial!Changes(limit)
  OBVIOUS
<1>2. /\ r.kind = "changes" /\ r.checkpoint = Partial!NextCheckpoint(limit) /\ checkpoint <= r.checkpoint
      /\ DOMAIN r.items = {log[i].entity : i \in Relevants(limit)}
      /\ \A e \in DOMAIN r.items :
           LET sent == {i \in Relevants(limit) : log[i].entity = e} IN
           /\ Partial!Latest(sent) \in sent
           /\ r.items[e] = log[Partial!Latest(sent)].record
  BY <1>1, ChangesAre
<1>3. ASSUME NEW e, NEW i \in NewIn(log, scope, checkpoint, r.checkpoint, e)
      PROVE  /\ i \in DOMAIN log /\ log[i].entity = e
             /\ i \in Relevants(limit) <=> Partial!Intersects(log[i].record.tags, scope.filter)
  <2>1. /\ i \in DOMAIN log /\ log[i].entity = e /\ log[i].record.tenant = scope.tenant
        /\ checkpoint < i /\ i <= r.checkpoint
    BY <1>3 DEF NewIn, CommitsIn
  <2>2. log[i].priorTags = log[i].record.tags
    BY <2>1 DEF TagsStay
  <2>3. Partial!Relevant(log[i], scope.tenant, scope.filter) <=> Partial!Intersects(log[i].record.tags, scope.filter)
    BY <2>1, <2>2 DEF Partial!Relevant
  <2> QED BY <1>2, <2>1, <2>3 DEF Relevants
<1>4. ASSUME NEW i \in Relevants(limit)
      PROVE  i \in NewIn(log, scope, checkpoint, r.checkpoint, log[i].entity)
  BY <1>2 DEF Relevants, NewIn, CommitsIn, Partial!Relevant
<1>5. ASSUME NEW e \in DOMAIN r.items
      PROVE  LET new == NewIn(log, scope, checkpoint, r.checkpoint, e)
             IN /\ new # {} /\ r.items[e] = log[Partial!Latest(new)].record
                /\ Partial!Intersects(r.items[e].tags, scope.filter)
  <2> DEFINE sent == {i \in Relevants(limit) : log[i].entity = e}
             new == NewIn(log, scope, checkpoint, r.checkpoint, e)
  <2>1. Partial!Latest(sent) \in sent /\ r.items[e] = log[Partial!Latest(sent)].record
    BY <1>2
  <2>2. PICK i \in Relevants(limit) : i = Partial!Latest(sent) /\ log[i].entity = e
    BY <2>1
  <2>3. i \in new /\ Partial!Intersects(log[i].record.tags, scope.filter)
    BY <1>3, <1>4, <2>2
  <2>4. ASSUME NEW j \in new PROVE j \in sent
    <3>1. /\ i \in DOMAIN log /\ j \in DOMAIN log /\ log[i].entity = log[j].entity
          /\ log[i].record.tenant = log[j].record.tenant
      BY <2>3, <2>4 DEF NewIn, CommitsIn
    <3>2. log[j].record.tags = log[i].record.tags
      BY <3>1 DEF TagsStay
    <3> QED BY <1>3, <2>3, <2>4, <3>2
  <2>5. sent \subseteq new
    BY <1>4
  <2>6. sent = new
    BY <2>4, <2>5
  <2> HIDE DEF sent
  <2>7. r.items[e] = log[Partial!Latest(new)].record /\ new # {}
    BY <2>1, <2>3, <2>6
  <2>8. Partial!Intersects(r.items[e].tags, scope.filter)
    BY <2>1, <2>2, <2>3
  <2> QED BY <2>7, <2>8
<1>6. ASSUME NEW e \in Thing \ DOMAIN r.items, NEW i \in NewIn(log, scope, checkpoint, r.checkpoint, e)
      PROVE  ~Partial!Intersects(log[i].record.tags, scope.filter)
  BY <1>2, <1>3, <1>6
<1>7. ChangesOK(r)
  BY <1>2, <1>5, <1>6 DEF ChangesOK
<1> QED BY <1>1, <1>7

LEMMA AskChangesKeepsComplete ==
  ASSUME Isolated, Complete, Partial!AskChanges
  PROVE  Complete'
<1>1. PICK limit \in 1..2 : network' = network \cup {Partial!Changes(limit)}
  BY DEF Partial!AskChanges
<1>2. UNCHANGED <<log, scope, checkpoint, cached, backfill>> /\ backfill = Partial!Done /\ ~Partial!Awaiting
  BY DEF Partial!AskChanges, Partial!client
<1>3. PICK p : p = Partial!Changes(limit)
  OBVIOUS
<1>4. ChangesOK(p)
  BY <1>2, <1>3, ChangesAreOK DEF Complete
<1>5. CurrentOK'
  <2>1. \A r \in network : r.scope # scope
    BY <1>2 DEF Partial!Awaiting
  <2>2. \A r \in network' : r.scope = scope => r = p
    BY <1>1, <1>3, <2>1
  <2>3. PageOK(p)' \/ ChangesOK(p)'
    BY <1>2, <1>4, SameAnswer
  <2> QED BY <1>2, <2>2, <2>3 DEF CurrentOK
<1> QED BY <1>2, <1>5, AnswersKeepComplete

LEMMA FewerAnswersKeepComplete ==
  ASSUME Complete, UNCHANGED <<log, scope, checkpoint, cached, backfill>>, network' \subseteq network
  PROVE  Complete'
<1>1. ASSUME NEW r \in network', r.scope = scope PROVE PageOK(r)' \/ ChangesOK(r)'
  <2>1. PageOK(r) \/ ChangesOK(r)
    BY <1>1 DEF Complete, CurrentOK
  <2> QED BY <2>1, SameAnswer
<1>2. CurrentOK'
  BY <1>1 DEF Complete, CurrentOK
<1> QED BY <1>2, AnswersKeepComplete

\* Once an answer has come no current one is on its way.
LEMMA NoneLeft ==
  ASSUME CurrentOK, NEW r \in network, r.scope = scope, network' = network \ {r}, scope' = scope
  PROVE  CurrentOK'
  BY DEF CurrentOK

LEMMA PageKeepsComplete ==
  ASSUME Isolated, Complete, NEW r \in network, Partial!Receive(r), PageOK(r)
  PROVE  Complete'
<1>1. /\ r.scope = scope /\ AnswerOK(r)
      /\ checkpoint' = (IF r.checkpoint > checkpoint THEN r.checkpoint ELSE checkpoint)
      /\ backfill' = (IF r.kind = "page" THEN r.next ELSE backfill)
      /\ network' = network \ {r}
      /\ UNCHANGED <<log, scope>>
      /\ \A e \in Thing :
           cached'[e] = IF e \notin DOMAIN r.items THEN cached[e]
                        ELSE IF r.items[e].deleted THEN Partial!NoRecord ELSE r.items[e]
  BY ReceiveCache
<1>2. PICK limit \in 1..2 :
        /\ DOMAIN r.items = {e \in WantedIn(log, scope) :
                             backfill <= Rank(log, scope, e) /\ Rank(log, scope, e) < backfill + limit}
        /\ r.next = IF backfill + limit < Cardinality(WantedIn(log, scope)) THEN backfill + limit
                    ELSE Partial!Done
  BY DEF PageOK
<1>3. /\ backfill # Partial!Done /\ r.kind = "page" /\ r.checkpoint = Len(log)
      /\ \A e \in DOMAIN r.items : r.items[e] = StoredIn(log, scope.tenant, e)
  BY DEF PageOK
<1>4. /\ log \in Seq(Entry) /\ Len(log) \in Nat /\ checkpoint \in 0..Len(log)
      /\ backfill \in Nat
  BY <1>3, LogIs DEF Isolated, PartialTyped, Offsets
<1>5. checkpoint' = Len(log) /\ backfill' = r.next
  BY <1>1, <1>3, <1>4
<1>6. Filling
  BY <1>3 DEF Complete
<1>7. \A e \in Thing : ShownIn(log, scope, Len(log), e) =
        IF e \in WantedIn(log, scope) THEN StoredIn(log, scope.tenant, e) ELSE Partial!NoRecord
  BY <1>4, ShownAtEnd
<1>8. /\ Cardinality(WantedIn(log, scope)) \in Nat
      /\ \A e \in WantedIn(log, scope) :
           Rank(log, scope, e) \in Nat /\ Rank(log, scope, e) < Cardinality(WantedIn(log, scope))
  BY RankBelow
<1>9. ASSUME NEW e \in Thing
      PROVE  \/ cached'[e] = ShownIn(log, scope, Len(log), e)
             \/ /\ cached'[e] = Partial!NoRecord /\ e \in WantedIn(log, scope)
                /\ backfill + limit <= Rank(log, scope, e)
  <2>1. CASE e \in DOMAIN r.items
    <3>1. e \in WantedIn(log, scope) /\ r.items[e] = StoredIn(log, scope.tenant, e)
      BY <1>2, <1>3, <2>1
    <3>2. ~r.items[e].deleted
      BY <3>1 DEF WantedIn
    <3> QED BY <1>1, <1>7, <2>1, <3>1, <3>2
  <2>2. CASE e \notin DOMAIN r.items
    <3>1. cached'[e] = cached[e]
      BY <1>1, <2>2
    <3>2. CASE cached[e] = ShownIn(log, scope, Len(log), e)
      BY <3>1, <3>2
    <3>3. CASE cached[e] = Partial!NoRecord /\ e \in WantedIn(log, scope) /\ backfill <= Rank(log, scope, e)
      <4>1. ~(Rank(log, scope, e) < backfill + limit)
        BY <1>2, <2>2, <3>3
      <4>2. backfill + limit <= Rank(log, scope, e)
        BY <1>4, <1>8, <3>3, <4>1
      <4> QED BY <3>1, <3>3, <4>2
    <3> QED BY <1>6, <3>2, <3>3 DEF Filling
  <2> QED BY <2>1, <2>2
<1>10. CASE backfill' = Partial!Done
  <2>1. Cardinality(WantedIn(log, scope)) <= backfill + limit
    BY <1>2, <1>4, <1>5, <1>8, <1>10 DEF Partial!Done
  <2>2. \A e \in WantedIn(log, scope) : ~(backfill + limit <= Rank(log, scope, e))
    BY <1>4, <1>8, <2>1
  <2>3. \A e \in Thing : cached'[e] = ShownIn(log, scope, Len(log), e)
    BY <1>9, <2>2
  <2>4. Followed'
    BY <1>1, <1>5, <2>3 DEF Followed
  <2> QED BY <1>1, <1>10, <2>4, NoneLeft DEF Complete, TagsStay
<1>11. CASE backfill' # Partial!Done
  <2>1. backfill' = backfill + limit
    BY <1>2, <1>5, <1>11
  <2>2. Filling'
    BY <1>1, <1>9, <2>1 DEF Filling
  <2> QED BY <1>1, <1>11, <2>2, NoneLeft DEF Complete, TagsStay
<1> QED BY <1>10, <1>11

\* The last commit up to d is the last of the new ones, or, without new ones, that up to c.
LEMMA ShownLater ==
  ASSUME NEW h \in Seq(Entry), NEW s, NEW e, NEW c \in 0..Len(h), NEW d \in 0..Len(h), c <= d
  PROVE  IF NewIn(h, s, c, d, e) = {} THEN ShownIn(h, s, d, e) = ShownIn(h, s, c, e)
         ELSE LET last == h[Partial!Latest(NewIn(h, s, c, d, e))].record IN
              ShownIn(h, s, d, e) =
                IF ~last.deleted /\ Partial!Intersects(last.tags, s.filter) THEN last ELSE Partial!NoRecord
<1>1. /\ Len(h) \in Nat /\ DOMAIN h = 1..Len(h)
      /\ UntilIn(h, s, d, e) \subseteq 1..Len(h) /\ NewIn(h, s, c, d, e) \subseteq 1..Len(h)
  BY LogTypes
<1>2. \A i \in CommitsIn(h, s.tenant, e) : i \in 1..Len(h)
  BY LogTypes
<1>3. CASE NewIn(h, s, c, d, e) = {}
  <2>1. \A i \in CommitsIn(h, s.tenant, e) : ~(c < i /\ i <= d)
    BY <1>3 DEF NewIn
  <2>2. \A i \in CommitsIn(h, s.tenant, e) : i <= d <=> i <= c
    BY <1>1, <1>2, <2>1
  <2>3. UntilIn(h, s, d, e) = UntilIn(h, s, c, e)
    BY <2>2 DEF UntilIn
  <2> QED BY <1>3, <2>3 DEF ShownIn
<1>4. CASE NewIn(h, s, c, d, e) # {}
  <2> DEFINE l == Partial!Latest(NewIn(h, s, c, d, e))
  <2>1. l \in NewIn(h, s, c, d, e) /\ \A j \in NewIn(h, s, c, d, e) : j <= l
    BY <1>1, <1>4, LatestOf
  <2> HIDE DEF l
  <2>2. l \in CommitsIn(h, s.tenant, e) /\ c < l /\ l <= d
    BY <2>1 DEF NewIn
  <2>3. l \in UntilIn(h, s, d, e)
    BY <2>2 DEF UntilIn
  <2>4. ASSUME NEW j \in UntilIn(h, s, d, e) PROVE j <= l
    <3>1. j \in CommitsIn(h, s.tenant, e) /\ j <= d
      BY <2>4 DEF UntilIn
    <3>2. CASE c < j
      <4>1. j \in NewIn(h, s, c, d, e)
        BY <3>1, <3>2 DEF NewIn
      <4> QED BY <2>1, <4>1
    <3>3. CASE ~(c < j)
      BY <1>1, <1>2, <2>2, <3>1, <3>3
    <3> QED BY <3>2, <3>3
  <2>5. Partial!Latest(UntilIn(h, s, d, e)) = l
    BY <1>1, <2>3, <2>4, LatestIs
  <2> QED BY <1>4, <2>3, <2>5 DEF ShownIn, l
<1> QED BY <1>3, <1>4

LEMMA ChangesKeepComplete ==
  ASSUME Isolated, Complete, NEW r \in network, Partial!Receive(r), ChangesOK(r)
  PROVE  Complete'
<1>1. /\ r.scope = scope /\ AnswerOK(r)
      /\ checkpoint' = (IF r.checkpoint > checkpoint THEN r.checkpoint ELSE checkpoint)
      /\ backfill' = (IF r.kind = "page" THEN r.next ELSE backfill)
      /\ network' = network \ {r}
      /\ UNCHANGED <<log, scope>>
      /\ \A e \in Thing :
           cached'[e] = IF e \notin DOMAIN r.items THEN cached[e]
                        ELSE IF r.items[e].deleted THEN Partial!NoRecord ELSE r.items[e]
  BY ReceiveCache
<1>2. backfill = Partial!Done /\ r.kind = "changes" /\ checkpoint <= r.checkpoint
  BY DEF ChangesOK
<1>3. /\ log \in Seq(Entry) /\ Len(log) \in Nat /\ checkpoint \in 0..Len(log)
      /\ r.checkpoint \in 0..Len(log)
  BY <1>1, LogIs DEF Isolated, PartialTyped, AnswerOK
<1>4. checkpoint' = r.checkpoint /\ backfill' = Partial!Done
  BY <1>1, <1>2, <1>3
<1>5. TagsStay /\ Followed
  BY <1>2 DEF Complete
<1>6. ASSUME NEW e \in Thing
      PROVE  cached'[e] = ShownIn(log, scope, r.checkpoint, e)
  <2> DEFINE new == NewIn(log, scope, checkpoint, r.checkpoint, e)
  <2>1. IF new = {} THEN ShownIn(log, scope, r.checkpoint, e) = ShownIn(log, scope, checkpoint, e)
        ELSE LET last == log[Partial!Latest(new)].record IN
             ShownIn(log, scope, r.checkpoint, e) =
               IF ~last.deleted /\ Partial!Intersects(last.tags, scope.filter) THEN last ELSE Partial!NoRecord
    BY <1>2, <1>3, ShownLater
  <2>2. cached[e] = ShownIn(log, scope, checkpoint, e)
    BY <1>5 DEF Followed
  <2>3. CASE e \in DOMAIN r.items
    <3>1. new # {} /\ r.items[e] = log[Partial!Latest(new)].record
          /\ Partial!Intersects(r.items[e].tags, scope.filter)
      BY <2>3 DEF ChangesOK
    <3> HIDE DEF new
    <3> QED BY <1>1, <2>1, <2>3, <3>1
  <2>4. CASE e \notin DOMAIN r.items
    <3>1. \A i \in new : ~Partial!Intersects(log[i].record.tags, scope.filter)
      BY <2>4 DEF ChangesOK
    <3>2. cached'[e] = cached[e]
      BY <1>1, <2>4
    <3>3. CASE new = {}
      BY <2>1, <2>2, <3>2, <3>3
    <3>4. CASE new # {}
      <4>1. Partial!Latest(new) \in new
        BY <1>3, <3>4, LogTypes, LatestOf
      <4>2. ShownIn(log, scope, r.checkpoint, e) = Partial!NoRecord
        BY <2>1, <3>1, <3>4, <4>1
      <4>3. ShownIn(log, scope, checkpoint, e) = Partial!NoRecord
        <5> DEFINE until == UntilIn(log, scope, checkpoint, e)
        <5>1. CASE until = {}
          BY <5>1 DEF ShownIn
        <5>2. CASE until # {}
          <6>1. Partial!Latest(until) \in until
            BY <1>3, <5>2, LogTypes, LatestOf
          <6>2. \A i \in until : i \in DOMAIN log /\ log[i].record.tenant = scope.tenant /\ log[i].entity = e
            BY DEF UntilIn, CommitsIn
          <6>3. \A i \in new : i \in DOMAIN log /\ log[i].record.tenant = scope.tenant /\ log[i].entity = e
            BY DEF NewIn, CommitsIn
          <6> HIDE DEF until
          <6> HIDE DEF new
          <6>4. log[Partial!Latest(until)].record.tags = log[Partial!Latest(new)].record.tags
            BY <1>5, <4>1, <6>1, <6>2, <6>3 DEF TagsStay
          <6>5. ~Partial!Intersects(log[Partial!Latest(until)].record.tags, scope.filter)
            BY <3>1, <4>1, <6>4
          <6> QED BY <6>5 DEF ShownIn, until
        <5> QED BY <5>1, <5>2
      <4> QED BY <2>2, <3>2, <4>2, <4>3
    <3> QED BY <3>3, <3>4
  <2> QED BY <2>3, <2>4
<1>7. Followed'
  BY <1>1, <1>4, <1>6 DEF Followed
<1> QED BY <1>1, <1>4, <1>7, NoneLeft DEF Complete, TagsStay

\* What the client has before it changes its scope at the end of the log.
LEMMA OnlyStored ==
  ASSUME Isolated, Complete, backfill # Partial!Done \/ checkpoint = Len(log), NEW e \in Thing
  PROVE  \/ cached[e] = Partial!NoRecord
         \/ cached[e] = StoredIn(log, scope.tenant, e) /\ ~cached[e].deleted
<1>1. log \in Seq(Entry)
  BY DEF Isolated, PartialTyped
<1>2. cached[e] = Partial!NoRecord \/ cached[e] = ShownIn(log, scope, Len(log), e)
  BY DEF Complete, Followed, Filling
<1>3. ShownIn(log, scope, Len(log), e) =
        IF e \in WantedIn(log, scope) THEN StoredIn(log, scope.tenant, e) ELSE Partial!NoRecord
  BY <1>1, ShownAtEnd
<1> QED BY <1>2, <1>3 DEF WantedIn

LEMMA ChangeFilterKeepsComplete ==
  ASSUME Isolated, Complete, "commit" \notin Risks, Partial!ChangeFilter
  PROVE  Complete'
<1>1. PICK f \in Partial!Filters :
        /\ scope' = [scope EXCEPT !.filter = f, !.epoch = @ + 1]
        /\ cached' = [e \in Thing |-> IF e \in Partial!Kept(f) THEN cached[e] ELSE Partial!NoRecord]
  BY DEF Partial!ChangeFilter
<1>2. backfill' = 0 /\ checkpoint = Len(log) /\ UNCHANGED <<log, checkpoint, network>>
  BY DEF Partial!ChangeFilter
<1>3. log \in Seq(Entry) /\ scope \in Scopes /\ \A r \in network : AnswerOK(r)
  BY DEF Isolated, PartialTyped
<1>4. scope'.tenant = scope.tenant /\ scope'.filter = f /\ scope'.epoch = scope.epoch + 1 /\ scope.epoch \in Nat
  BY <1>1, <1>3 DEF Scopes
<1>5. CurrentOK'
  <2>1. \A r \in network : r.scope.epoch \in Nat /\ r.scope.epoch <= scope.epoch
    BY <1>3 DEF AnswerOK, Scopes
  <2>2. \A r \in network : r.scope # scope'
    BY <1>4, <2>1
  <2> QED BY <1>2, <2>2 DEF CurrentOK
<1>6. PICK s : s = scope'
  OBVIOUS
<1>7. ASSUME NEW e \in Thing
      PROVE  \/ cached'[e] = ShownIn(log, s, Len(log), e)
             \/ cached'[e] = Partial!NoRecord /\ e \in WantedIn(log, s) /\ 0 <= Rank(log, s, e)
  <2>1. ShownIn(log, s, Len(log), e) =
          IF e \in WantedIn(log, s) THEN StoredIn(log, scope.tenant, e) ELSE Partial!NoRecord
    BY <1>3, <1>4, <1>6, ShownAtEnd
  <2>2. e \in WantedIn(log, s) <=> /\ ~StoredIn(log, scope.tenant, e).deleted
                                   /\ Partial!Intersects(StoredIn(log, scope.tenant, e).tags, f)
    BY <1>4, <1>6 DEF WantedIn
  <2>3. e \in Partial!Kept(f) <=> ~cached[e].deleted /\ Partial!Intersects(cached[e].tags, f)
    BY DEF Partial!Kept
  <2>4. e \in WantedIn(log, s) => 0 <= Rank(log, s, e)
    BY RankBelow
  <2>5. cached'[e] = IF e \in Partial!Kept(f) THEN cached[e] ELSE Partial!NoRecord
    BY <1>1
  <2>6. CASE cached[e] = Partial!NoRecord
    <3>1. cached'[e] = Partial!NoRecord
      BY <2>5, <2>6
    <3> QED BY <2>1, <2>4, <3>1
  <2>7. CASE cached[e] = StoredIn(log, scope.tenant, e) /\ ~cached[e].deleted
    BY <2>1, <2>2, <2>3, <2>5, <2>7
  <2> QED BY <1>2, <2>6, <2>7, OnlyStored
<1>8. Filling'
  BY <1>2, <1>6, <1>7 DEF Filling
<1> QED BY <1>2, <1>5, <1>8 DEF Complete, TagsStay, Partial!Done

LEMMA SwitchTenantKeepsComplete ==
  ASSUME Isolated, Complete, Partial!SwitchTenant
  PROVE  Complete'
<1>1. PICK t \in Tenant \ {scope.tenant}, f \in Partial!Filters :
        scope' = [tenant |-> t, filter |-> f, epoch |-> scope.epoch + 1]
  BY DEF Partial!SwitchTenant
<1>2. /\ cached' = [e \in Thing |-> Partial!NoRecord] /\ backfill' = 0
      /\ UNCHANGED <<log, network>>
  BY DEF Partial!SwitchTenant
<1>3. log \in Seq(Entry) /\ scope \in Scopes /\ \A r \in network : AnswerOK(r)
  BY DEF Isolated, PartialTyped
<1>4. CurrentOK'
  <2>1. \A r \in network : r.scope.epoch \in Nat /\ r.scope.epoch <= scope.epoch
    BY <1>3 DEF AnswerOK, Scopes
  <2>2. scope'.epoch = scope.epoch + 1 /\ scope.epoch \in Nat
    BY <1>1, <1>3 DEF Scopes
  <2>3. \A r \in network : r.scope # scope'
    BY <2>1, <2>2
  <2> QED BY <1>2, <2>3 DEF CurrentOK
<1>5. PICK s : s = scope'
  OBVIOUS
<1>6. ASSUME NEW e \in Thing
      PROVE  \/ cached'[e] = ShownIn(log, s, Len(log), e)
             \/ cached'[e] = Partial!NoRecord /\ e \in WantedIn(log, s) /\ 0 <= Rank(log, s, e)
  <2>1. ShownIn(log, s, Len(log), e) =
          IF e \in WantedIn(log, s) THEN StoredIn(log, s.tenant, e) ELSE Partial!NoRecord
    BY <1>3, ShownAtEnd
  <2>2. e \in WantedIn(log, s) => 0 <= Rank(log, s, e)
    BY RankBelow
  <2> QED BY <1>2, <2>1, <2>2
<1>7. Filling'
  BY <1>2, <1>5, <1>6 DEF Filling
<1> QED BY <1>2, <1>4, <1>7 DEF Complete, TagsStay, Partial!Done

LEMMA CompleteIsInductive ==
  ASSUME "retag" \notin Risks, "commit" \notin Risks
  PROVE  Isolated /\ Complete /\ [Partial!Next]_(Partial!vars) => Complete'
<1> SUFFICES ASSUME Isolated, Complete, [Partial!Next]_(Partial!vars) PROVE Complete'
  OBVIOUS
<1>1. ASSUME NEW t \in Tenant, NEW e \in Thing, Partial!Commit(t, e) PROVE Complete'
  BY <1>1, CommitKeepsComplete
<1>2. ASSUME NEW r \in network, Partial!Receive(r) PROVE Complete'
  <2>1. PageOK(r) \/ ChangesOK(r)
    BY <1>2 DEF Complete, CurrentOK, Partial!Receive, Partial!Current
  <2> QED BY <1>2, <2>1, PageKeepsComplete, ChangesKeepComplete
<1>3. ASSUME NEW r \in network, Partial!IgnoreStale(r) \/ Partial!Lose(r) PROVE Complete'
  <2>1. UNCHANGED <<log, scope, checkpoint, cached, backfill>> /\ network' \subseteq network
    BY <1>3 DEF Partial!IgnoreStale, Partial!Lose, Partial!client
  <2> QED BY <2>1, FewerAnswersKeepComplete
<1>4. CASE Partial!Enqueue \/ UNCHANGED Partial!vars
  <2>1. UNCHANGED <<log, scope, checkpoint, cached, backfill>> /\ network' = network
    BY <1>4 DEF Partial!Enqueue, Partial!client, Partial!vars
  <2>2. network' \subseteq network
    BY <2>1
  <2> QED BY <2>1, <2>2, FewerAnswersKeepComplete
<1> QED BY <1>1, <1>2, <1>3, <1>4, AskPageKeepsComplete, AskChangesKeepsComplete,
           ChangeFilterKeepsComplete, SwitchTenantKeepsComplete DEF Partial!Next

LEMMA IsolatedImplies ==
  Isolated => Partial!PartialTypeOK /\ Partial!OnlyTheScope /\ Partial!QueueKeepsItsTenant
<1> SUFFICES ASSUME Isolated PROVE Partial!PartialTypeOK
  BY DEF Isolated
<1> QED BY DEF Isolated, PartialTyped, AnswerOK, Offsets, Scopes, Partial!PartialTypeOK

LEMMA CompleteImplies == Isolated /\ Complete => PartialInv
<1> SUFFICES ASSUME Isolated, Complete PROVE PartialInv
  OBVIOUS
<1>1. Partial!CheckpointSafety
  <2> SUFFICES ASSUME Partial!CaughtUp, NEW e \in Thing
               PROVE  cached[e] = IF e \in Partial!InScope(scope.tenant, scope.filter)
                                  THEN Partial!Stored(scope.tenant, e) ELSE Partial!NoRecord
    BY DEF Partial!CheckpointSafety
  <2>1. log \in Seq(Entry)
    BY DEF Isolated, PartialTyped
  <2>2. cached[e] = ShownIn(log, scope, Len(log), e)
    BY DEF Partial!CaughtUp, Complete, Followed
  <2>3. ShownIn(log, scope, Len(log), e) =
          IF e \in WantedIn(log, scope) THEN StoredIn(log, scope.tenant, e) ELSE Partial!NoRecord
    BY <2>1, ShownAtEnd
  <2> QED BY <2>2, <2>3, ServerSees, ServerWants
<1> QED BY <1>1, IsolatedImplies DEF PartialInv, Partial!PartialInv

\* Whatever the server commits, when and under which tags, and whichever answers are late or
\* lost: the client has records of its tenant and its filter only, finds exactly
\* them by tag, and sends nothing that was queued for another tenant.
THEOREM ScopesAreIsolated ==
  Partial!Spec => [](Partial!OnlyTheScope /\ Partial!QueueKeepsItsTenant)
<1> QED BY PartialStarts, IsolatedIsInductive, IsolatedImplies, PTL DEF Partial!Spec

\* Where records keep their tags and nothing is committed while a client fills up, as in
\* the runs of the model, a client that has filled up and followed the log has, besides,
\* exactly the server's records of its scope: for any number of tenants, entities,
\* tags and changes of scope.
THEOREM PartialInvHolds ==
  ASSUME "retag" \notin Risks, "commit" \notin Risks
  PROVE  Partial!Spec => []PartialInv
<1>1. Partial!Init => Isolated /\ Complete
  BY PartialStarts, CompleteStarts
<1>2. Isolated /\ Complete /\ [Partial!Next]_(Partial!vars) => (Isolated /\ Complete)'
  BY IsolatedIsInductive, CompleteIsInductive
<1> QED BY <1>1, <1>2, CompleteImplies, PTL DEF Partial!Spec
-----------------------------------------------------------------------------
(* The convergence model. *)

Mutation == [entity : Entity, op : Op, at : Nat, base : 0..Base]
Held == [deleted : BOOLEAN, at : Nat, value : {<<>>} \cup (Client \X Nat), revision : Nat]
Outcomes == {"resurrection-base-mismatch", "resurrected", "explicit-resurrection-required",
             "written", "deleted", "noop"}

\* What a feed says of an entity up to a checkpoint.
Recent(h, n, e) ==
  LET until == {i \in 1..n : h[i].entity = e}
  IN IF until = {} THEN Absent ELSE h[Partial!Latest(until)].record

ConvergenceTyped ==
  /\ mutations \in Workloads
  /\ records \in [Entity -> Held]
  /\ ledger \in [Client -> Seq([content : Mutation, outcome : Outcomes])]
  /\ changes \in Seq([entity : Entity, record : Held])
  /\ pending \in [Client -> SUBSET Nat] /\ rejections \in [Client -> SUBSET Nat]
  /\ view \in [Client -> [Entity -> Held]] /\ seen \in [Client -> Nat]
  /\ \A c \in Client : Watermark(c) <= Len(mutations[c]) /\ seen[c] <= Len(changes)

\* What a client knows of its mutations.
Told ==
  \A c \in Client :
    /\ pending[c] \subseteq Ids(c) /\ rejections[c] \subseteq Ids(c) \ pending[c]
    /\ \A i \in Ids(c) \ pending[c] :
         i <= Watermark(c) /\ (Rejected(ledger[c][i].outcome) <=> i \in rejections[c])

Feeds ==
  /\ \A e \in Entity : records[e] = Recent(changes, Len(changes), e)
  /\ \A c \in Client : \A e \in Entity : view[c][e] = Recent(changes, seen[c], e)

\* The record is that of the latest mutation of the entity that has come in.
Committed(e) == {id \in Sent : id[2] <= Watermark(id[1]) /\ Content(id).entity = e}
Final(id) ==
  [deleted |-> Content(id).op = "delete", at |-> Content(id).at,
   value |-> IF Content(id).op = "delete" THEN <<>> ELSE id]
Wins(r, all) ==
  IF all = {} THEN r = Absent
  ELSE \E id \in all :
         /\ \A other \in all : Content(other).at <= Content(id).at
         /\ r.revision > 0 /\ Semantic(r) = Final(id)
LatestWins(e) == Wins(records[e], Committed(e))

ConvergenceSafe ==
  ConvergenceTyped /\ Told /\ Feeds /\ (Generated => \A e \in Entity : LatestWins(e))

-----------------------------------------------------------------------------
LEMMA OutcomeIs ==
  ASSUME NEW m \in Mutation, NEW r \in Held
  PROVE  /\ Outcome(m, r) \in Outcomes
         /\ m.op = "resurrect" => Outcome(m, r) =
              IF r.deleted /\ m.base = r.revision THEN "resurrected" ELSE "resurrection-base-mismatch"
         /\ m.op = "upsert" => Outcome(m, r) =
              IF r.deleted THEN "explicit-resurrection-required" ELSE IF NotOlder(m, r) THEN "written" ELSE "noop"
         /\ m.op = "delete" => Outcome(m, r) = IF NotOlder(m, r) THEN "deleted" ELSE "noop"
<1>1. m.op \in {"upsert", "delete", "resurrect"}
  BY DEF Mutation, Op
<1>2. CASE m.op = "resurrect"
  BY <1>2 DEF Outcome, Outcomes
<1>3. CASE m.op = "upsert"
  BY <1>3 DEF Outcome, Outcomes
<1>4. CASE m.op = "delete"
  BY <1>4 DEF Outcome, Outcomes
<1> QED BY <1>1, <1>2, <1>3, <1>4

LEMMA AfterIs ==
  ASSUME NEW m \in Mutation, NEW r \in Held, NEW id \in Client \X Nat
  PROVE  /\ After(m, r, id) \in Held
         /\ Outcome(m, r) = "deleted" => After(m, r, id) =
              [deleted |-> TRUE, at |-> m.at, value |-> <<>>, revision |-> r.revision + 1]
         /\ Outcome(m, r) \in {"written", "resurrected"} => After(m, r, id) =
              [deleted |-> FALSE, at |-> m.at, value |-> id, revision |-> r.revision + 1]
         /\ Outcome(m, r) \notin {"deleted", "written", "resurrected"} => After(m, r, id) = r
<1>1. m.at \in Nat /\ r.revision + 1 \in Nat
  BY DEF Mutation, Held
<1>2. CASE Outcome(m, r) = "deleted"
  BY <1>1, <1>2 DEF After, Held
<1>3. CASE Outcome(m, r) \in {"written", "resurrected"}
  BY <1>1, <1>3 DEF After, Held
<1>4. CASE Outcome(m, r) \notin {"deleted", "written", "resurrected"}
  BY <1>4 DEF After
<1> QED BY <1>2, <1>3, <1>4

Change == [entity : Entity, record : Held]

LEMMA RecentSame ==
  ASSUME NEW n \in Nat, NEW h, NEW g, \A i \in 1..n : g[i] = h[i], NEW e
  PROVE  Recent(g, n, e) = Recent(h, n, e)
<1>1. \A i \in 1..n : g[i] = h[i]
  OBVIOUS
<1>2. {i \in 1..n : g[i].entity = e} = {i \in 1..n : h[i].entity = e}
  BY <1>1
<1>3. CASE {i \in 1..n : h[i].entity = e} = {}
  BY <1>2, <1>3 DEF Recent
<1>4. CASE {i \in 1..n : h[i].entity = e} # {}
  <2> DEFINE S == {i \in 1..n : h[i].entity = e}
  <2>1. S \subseteq 1..n /\ S # {} /\ n \in Nat
    BY <1>4
  <2>2. Recent(g, n, e) = g[Partial!Latest(S)].record /\ Recent(h, n, e) = h[Partial!Latest(S)].record
    BY <1>2, <1>4 DEF Recent
  <2> HIDE DEF S
  <2>3. Partial!Latest(S) \in 1..n
    BY <2>1, LatestOf
  <2> QED BY <1>1, <2>2, <2>3
<1> QED BY <1>3, <1>4

\* The changes since a checkpoint bring what was recent then up to date.
LEMMA RecentSince ==
  ASSUME NEW h, NEW k \in Nat, NEW n \in Nat, n <= k, NEW e
  PROVE  Recent(h, k, e) = IF {i \in n + 1 .. k : h[i].entity = e} = {} THEN Recent(h, n, e)
                           ELSE h[Partial!Latest({i \in n + 1 .. k : h[i].entity = e})].record
<1> DEFINE S == {i \in n + 1 .. k : h[i].entity = e}
           A == {i \in 1..k : h[i].entity = e}
           B == {i \in 1..n : h[i].entity = e}
<1>1. A = B \cup S
  OBVIOUS
<1>2. CASE S = {}
  <2>1. A = B
    BY <1>1, <1>2
  <2> QED BY <1>2, <2>1 DEF Recent
<1>3. CASE S # {}
  <2>1. S \subseteq 1..k /\ A \subseteq 1..k /\ A # {}
    BY <1>1, <1>3
  <2>2. \A b \in B, i \in S : b <= i
    OBVIOUS
  <2>3. Recent(h, k, e) = h[Partial!Latest(A)].record
    BY <2>1 DEF Recent
  <2> HIDE DEF S
  <2> HIDE DEF A
  <2> HIDE DEF B
  <2>4. Partial!Latest(S) \in S /\ \A j \in S : j <= Partial!Latest(S)
    BY <1>3, <2>1, LatestOf
  <2>5. Partial!Latest(S) \in A /\ \A j \in A : j <= Partial!Latest(S)
    BY <1>1, <2>2, <2>4
  <2>6. Partial!Latest(A) = Partial!Latest(S)
    BY <2>1, <2>5, LatestIs
  <2> QED BY <1>3, <2>3, <2>6 DEF S
<1> QED BY <1>2, <1>3

LEMMA RecentAppended ==
  ASSUME NEW h \in Seq(Change), NEW x \in Change, NEW e
  PROVE  Recent(Append(h, x), Len(h) + 1, e) = IF x.entity = e THEN x.record ELSE Recent(h, Len(h), e)
<1>1. PICK g, k : g = Append(h, x) /\ k = Len(h)
  OBVIOUS
<1>2. k \in Nat /\ k + 1 \in Nat /\ k <= k + 1 /\ g[k + 1] = x /\ \A i \in 1..k : g[i] = h[i]
  BY <1>1
<1>3. Recent(g, k, e) = Recent(h, k, e)
  <2>1. ASSUME NEW m \in Nat, m = k PROVE Recent(g, m, e) = Recent(h, m, e)
    BY <2>1, <1>2, RecentSame
  <2> QED BY <2>1, <1>2
<1> DEFINE S == {i \in k + 1 .. k + 1 : g[i].entity = e}
<1>4. Recent(g, k + 1, e) = IF S = {} THEN Recent(g, k, e) ELSE g[Partial!Latest(S)].record
  <2>1. ASSUME NEW m \in Nat, NEW n \in Nat, n <= m
        PROVE  Recent(g, m, e) = IF {i \in n + 1 .. m : g[i].entity = e} = {} THEN Recent(g, n, e)
                                 ELSE g[Partial!Latest({i \in n + 1 .. m : g[i].entity = e})].record
    BY <2>1, RecentSince
  <2> QED BY <2>1, <1>2
<1>5. CASE x.entity = e
  <2>1. k + 1 \in S /\ \A j \in S : j <= k + 1
    BY <1>2, <1>5
  <2>2. S \subseteq 1 .. k + 1 /\ k + 1 \in Nat
    BY <1>2
  <2> HIDE DEF S
  <2>3. Partial!Latest(S) = k + 1
    BY <2>1, <2>2, LatestIs
  <2> QED BY <1>1, <1>2, <1>4, <1>5, <2>1, <2>3
<1>6. CASE x.entity # e
  <2>1. S = {}
    BY <1>2, <1>6
  <2> QED BY <1>1, <1>3, <1>4, <1>6, <2>1
<1> QED BY <1>5, <1>6

\* What is in a workload.
LEMMA MutationsAre ==
  ASSUME ConvergenceTyped, NEW c \in Client
  PROVE  /\ Ids(c) = 1..Len(mutations[c]) /\ Len(mutations[c]) \in Nat
         /\ \A i \in Ids(c) : mutations[c][i] # {} /\ mutations[c][i] \subseteq Mutation
<1>1. mutations[c] \in Seq((SUBSET [entity : Entity, op : Op, at : Nat, base : 0..Base]) \ {{}})
  BY MutationAssumption DEF ConvergenceTyped
<1>2. mutations[c] \in Seq((SUBSET Mutation) \ {{}})
  BY <1>1 DEF Mutation
<1>3. \A i \in DOMAIN mutations[c] : mutations[c][i] \in (SUBSET Mutation) \ {{}}
  BY <1>2
<1> QED BY <1>2, <1>3 DEF Ids

LEMMA AbsentIs == Absent \in Held /\ Absent.revision = 0 /\ Absent.deleted = FALSE /\ Absent.at = 0
  BY DEF Absent, Held

LEMMA ConvergenceStarts == Init => ConvergenceSafe
<1> SUFFICES ASSUME Init PROVE ConvergenceSafe
  OBVIOUS
<1>1. /\ mutations \in Workloads /\ records = [e \in Entity |-> Absent]
      /\ ledger = [c \in Client |-> <<>>] /\ changes = <<>>
      /\ pending = [c \in Client |-> Ids(c)] /\ rejections = [c \in Client |-> {}]
      /\ view = [c \in Client |-> [e \in Entity |-> Absent]] /\ seen = [c \in Client |-> 0]
  BY DEF Init
<1>2. \A c \in Client : mutations[c] \in Seq((SUBSET [entity : Entity, op : Op, at : Nat, base : 0..Base]) \ {{}})
  BY <1>1, MutationAssumption
<1>3. \A c \in Client : Ids(c) = 1..Len(mutations[c]) /\ Len(mutations[c]) \in Nat
  BY <1>2 DEF Ids
<1>4. Len(changes) = 0 /\ \A c \in Client : Len(ledger[c]) = 0
  BY <1>1
<1>5. ConvergenceTyped
  <2>1. records \in [Entity -> Held] /\ view \in [Client -> [Entity -> Held]]
    BY <1>1, AbsentIs
  <2>2. ledger \in [Client -> Seq([content : Mutation, outcome : Outcomes])]
    BY <1>1
  <2>3. changes \in Seq([entity : Entity, record : Held])
    BY <1>1
  <2>4. pending \in [Client -> SUBSET Nat] /\ rejections \in [Client -> SUBSET Nat] /\ seen \in [Client -> Nat]
    BY <1>1, <1>3
  <2>5. \A c \in Client : Watermark(c) <= Len(mutations[c]) /\ seen[c] <= Len(changes)
    BY <1>1, <1>3, <1>4 DEF Watermark
  <2> QED BY <1>1, <2>1, <2>2, <2>3, <2>4, <2>5 DEF ConvergenceTyped
<1>6. Told
  BY <1>1 DEF Told
<1>7. \A e : Recent(changes, 0, e) = Absent
  BY DEF Recent
<1>8. Feeds
  BY <1>1, <1>4, <1>7 DEF Feeds
<1>9. \A e \in Entity : LatestWins(e)
  <2>1. \A c \in Client : \A i \in Ids(c) : ~(i <= Watermark(c))
    BY <1>3, <1>4 DEF Watermark
  <2>2. \A id \in Sent : id[1] \in Client /\ id[2] \in Ids(id[1])
    BY DEF Sent
  <2>3. \A e : Committed(e) = {}
    BY <2>1, <2>2 DEF Committed
  <2> QED BY <1>1, <2>3 DEF LatestWins, Wins
<1> QED BY <1>5, <1>6, <1>8, <1>9 DEF ConvergenceSafe

\* What a workload of the generator holds under an id.
LEMMA ContentIs ==
  ASSUME ConvergenceTyped, NEW id \in Sent
  PROVE  /\ id[1] \in Client /\ id[2] \in Ids(id[1]) /\ id = <<id[1], id[2]>> /\ id \in Client \X Nat
         /\ Content(id) \in mutations[id[1]][id[2]] /\ Content(id) \in Mutation
<1>1. id[1] \in Client /\ id[2] \in Ids(id[1]) /\ id = <<id[1], id[2]>>
  BY DEF Sent
<1>2. /\ mutations[id[1]][id[2]] # {} /\ mutations[id[1]][id[2]] \subseteq Mutation
      /\ id[2] \in Nat
  BY <1>1, MutationsAre
<1>3. Content(id) \in mutations[id[1]][id[2]]
  BY <1>2 DEF Content
<1> QED BY <1>1, <1>2, <1>3

\* One more mutation, resolved against the record of the latest.
LEMMA ResolvedWins ==
  ASSUME ConvergenceTyped, Generated, NEW id \in Sent, NEW all \in SUBSET Sent,
         NEW r \in Held, Wins(r, all)
  PROVE  Wins(After(Content(id), r, id), all \cup {id})
<1> DEFINE m == Content(id)
           after == After(m, r, id)
<1>1. m \in Mutation /\ m.op \in {"upsert", "delete"} /\ id \in Client \X Nat
  BY ContentIs DEF Generated, Mutation, Op
<1>2. /\ m.at \in Nat /\ r.at \in Nat /\ r.revision \in Nat /\ r.deleted \in BOOLEAN
      /\ \A other \in all : Content(other).at \in Nat
  BY <1>1, ContentIs DEF Mutation, Held
<1>3. /\ m.op = "upsert" => Outcome(m, r) =
           IF r.deleted THEN "explicit-resurrection-required" ELSE IF NotOlder(m, r) THEN "written" ELSE "noop"
      /\ m.op = "delete" => Outcome(m, r) = IF NotOlder(m, r) THEN "deleted" ELSE "noop"
  BY <1>1, OutcomeIs
<1>4. /\ Outcome(m, r) = "deleted" => after =
           [deleted |-> TRUE, at |-> m.at, value |-> <<>>, revision |-> r.revision + 1]
      /\ Outcome(m, r) \in {"written", "resurrected"} => after =
           [deleted |-> FALSE, at |-> m.at, value |-> id, revision |-> r.revision + 1]
      /\ Outcome(m, r) \notin {"deleted", "written", "resurrected"} => after = r
  BY <1>1, AfterIs
<1>5. ASSUME after # r
      PROVE  after.revision > 0 /\ Semantic(after) = Final(id)
  <2>1. Outcome(m, r) \in {"deleted", "written"}
    BY <1>1, <1>3, <1>4, <1>5
  <2>2. CASE Outcome(m, r) = "deleted"
    <3>1. m.op = "delete"
      BY <1>1, <1>3, <2>2
    <3>2. after = [deleted |-> TRUE, at |-> m.at, value |-> <<>>, revision |-> r.revision + 1]
      BY <1>4, <2>2
    <3>3. Final(id) = [deleted |-> TRUE, at |-> m.at, value |-> <<>>]
      BY <3>1 DEF Final
    <3>4. Semantic(after) = [deleted |-> TRUE, at |-> m.at, value |-> <<>>] /\ after.revision > 0
      BY <1>2, <3>2 DEF Semantic
    <3> QED BY <3>3, <3>4
  <2>3. CASE Outcome(m, r) = "written"
    <3>1. m.op = "upsert"
      BY <1>1, <1>3, <2>3
    <3>2. after = [deleted |-> FALSE, at |-> m.at, value |-> id, revision |-> r.revision + 1]
      BY <1>4, <2>3
    <3>3. Final(id) = [deleted |-> FALSE, at |-> m.at, value |-> id]
      BY <3>1 DEF Final
    <3>4. Semantic(after) = [deleted |-> FALSE, at |-> m.at, value |-> id] /\ after.revision > 0
      BY <1>2, <3>2 DEF Semantic
    <3> QED BY <3>3, <3>4
  <2> QED BY <2>1, <2>2, <2>3
<1>6. \A other \in all \cup {id} : other = id \/ other \in all
  OBVIOUS
<1>7. CASE all = {}
  <2>1. r = Absent
    BY <1>7 DEF Wins
  <2>2. NotOlder(m, r) /\ ~r.deleted
    BY <2>1 DEF NotOlder, Known, Absent
  <2>3. Outcome(m, r) \in {"deleted", "written"}
    BY <1>1, <1>3, <2>2
  <2>4. after # r
    <3>1. after.revision = r.revision + 1
      BY <1>4, <2>3
    <3> QED BY <1>2, <3>1
  <2> HIDE DEF m, after
  <2>5. Content(id).at <= Content(id).at
    BY <1>2 DEF m
  <2> QED BY <1>5, <1>7, <2>4, <2>5 DEF Wins, after, m
<1>8. CASE all # {}
  <2>1. PICK w \in all :
          /\ \A other \in all : Content(other).at <= Content(w).at
          /\ r.revision > 0 /\ Semantic(r) = Final(w)
    BY <1>8 DEF Wins
  <2>2. r.deleted = (Content(w).op = "delete") /\ r.at = Content(w).at
    BY <2>1 DEF Semantic, Final
  <2>3. CASE after = r
    <3>1. m.at <= Content(w).at
      <4>1. CASE m.op = "upsert" /\ r.deleted
        <5>1. Content(id).op # "delete" /\ Content(w).op = "delete" /\ w \in Sent
          BY <2>2, <4>1
        <5>2. Content(id).at < Content(w).at
          BY <5>1 DEF Generated
        <5> QED BY <1>2, <5>2
      <4>2. CASE ~NotOlder(m, r)
        BY <1>2, <2>2, <4>2 DEF NotOlder
      <4>3. ASSUME NotOlder(m, r), ~(m.op = "upsert" /\ r.deleted) PROVE FALSE
        <5>1. Outcome(m, r) \in {"deleted", "written"}
          BY <1>1, <1>2, <1>3, <4>3
        <5>2. after.revision = r.revision + 1
          BY <1>4, <5>1
        <5> QED BY <1>2, <2>3, <5>2
      <4> QED BY <4>1, <4>2, <4>3
    <3>2. \A other \in all \cup {id} : Content(other).at <= Content(w).at
      BY <2>1, <3>1, <1>6
    <3> HIDE DEF m, after
    <3> QED BY <2>1, <2>3, <3>2 DEF Wins, after, m
  <2>4. CASE after # r
    <3>1. Outcome(m, r) \in {"deleted", "written"}
      BY <1>1, <1>3, <1>4, <2>4
    <3>2. NotOlder(m, r)
      BY <1>1, <1>3, <3>1
    <3>3. m.at >= r.at
      BY <2>1, <3>2 DEF NotOlder, Known
    <3>4. \A other \in all \cup {id} : Content(other).at <= Content(id).at
      <4>1. \A other \in all : Content(other).at <= Content(id).at
        BY <1>2, <2>1, <2>2, <3>3
      <4> QED BY <1>2, <4>1, <1>6
    <3> HIDE DEF m, after
    <3> QED BY <1>5, <2>4, <3>4 DEF Wins, after, m
  <2> QED BY <2>3, <2>4
<1> QED BY <1>7, <1>8

-----------------------------------------------------------------------------
\* What a delivery that takes effect does to the state.
Effect(c, i, lost, m, r, after, out) ==
  /\ m \in mutations[c][i] /\ m \in Mutation /\ m.entity \in Entity
  /\ r = records[m.entity] /\ r \in Held /\ out = Outcome(m, r) /\ out \in Outcomes
  /\ after = After(m, r, <<c, i>>) /\ after \in Held
  /\ i \in Nat /\ i = Watermark(c) + 1 /\ Watermark(c) \in Nat /\ <<c, i>> \in Sent
  /\ ledger' = [ledger EXCEPT ![c] = Append(@, [content |-> m, outcome |-> out])]
  /\ records' = [records EXCEPT ![m.entity] = after]
  /\ changes' = IF after = r THEN changes ELSE Append(changes, [entity |-> m.entity, record |-> after])
  /\ IF lost THEN UNCHANGED <<pending, rejections>>
     ELSE /\ pending' = [pending EXCEPT ![c] = @ \ {i}]
          /\ rejections' = IF Rejected(out) THEN [rejections EXCEPT ![c] = @ \cup {i}] ELSE rejections
  /\ UNCHANGED <<mutations, view, seen>>

LEMMA DeliverNextDoes ==
  ASSUME ConvergenceTyped, NEW c \in Client, NEW i \in Ids(c), NEW lost \in BOOLEAN, DeliverNext(c, i, lost)
  PROVE  \E m, r, after, out : Effect(c, i, lost, m, r, after, out)
<1>1. PICK m \in mutations[c][i] :
        /\ Resolve(c, i, m)
        /\ IF lost THEN AnswerLost ELSE Acknowledge(c, i, Outcome(m, records[m.entity]))
  BY DEF DeliverNext
<1>2. i = Watermark(c) + 1 /\ UNCHANGED <<mutations, view, seen>>
  BY DEF DeliverNext
<1>3. m \in Mutation /\ m.entity \in Entity
  BY MutationsAre DEF Mutation
<1>4. PICK r, out, after : r = records[m.entity] /\ out = Outcome(m, r) /\ after = After(m, r, <<c, i>>)
  OBVIOUS
<1>5. r \in Held
  BY <1>3, <1>4 DEF ConvergenceTyped
<1>6. Watermark(c) \in Nat /\ i \in Nat
  BY <1>2 DEF ConvergenceTyped, Watermark
<1>7. out \in Outcomes /\ after \in Held
  BY <1>3, <1>4, <1>5, <1>6, OutcomeIs, AfterIs
<1>8. <<c, i>> \in Sent
  BY DEF Sent
<1>9. /\ ledger' = [ledger EXCEPT ![c] = Append(@, [content |-> m, outcome |-> out])]
      /\ records' = [records EXCEPT ![m.entity] = after]
      /\ changes' = IF after = r THEN changes ELSE Append(changes, [entity |-> m.entity, record |-> after])
  BY <1>1, <1>4 DEF Resolve
<1>10. IF lost THEN UNCHANGED <<pending, rejections>>
       ELSE /\ pending' = [pending EXCEPT ![c] = @ \ {i}]
            /\ rejections' = IF Rejected(out) THEN [rejections EXCEPT ![c] = @ \cup {i}] ELSE rejections
  BY <1>1, <1>4 DEF AnswerLost, Acknowledge
<1>11. Effect(c, i, lost, m, r, after, out)
  BY <1>2, <1>3, <1>4, <1>5, <1>6, <1>7, <1>8, <1>9, <1>10 DEF Effect
<1> QED BY <1>11

LEMMA SameIds ==
  ASSUME mutations' = mutations
  PROVE  /\ \A c : Ids(c)' = Ids(c)
         /\ Sent' = Sent /\ Generated' = Generated
         /\ \A id : Content(id)' = Content(id)
         /\ \A r, all : Wins(r, all)' = Wins(r, all)
<1>1. \A c : Ids(c)' = Ids(c)
  BY DEF Ids
<1>2. Sent' = Sent
  BY DEF Sent, Ids
<1>3. \A id : Content(id)' = Content(id)
  BY DEF Content
<1>4. Generated' = Generated
  BY DEF Generated, Sent, Ids, Content
<1>5. \A r, all : Wins(r, all)' = Wins(r, all)
  BY DEF Wins, Content, Final
<1> QED BY <1>1, <1>2, <1>3, <1>4, <1>5

LEMMA DeliverNextKeeps ==
  ASSUME ConvergenceSafe, NEW c \in Client, NEW i \in Ids(c), NEW lost \in BOOLEAN, DeliverNext(c, i, lost)
  PROVE  ConvergenceSafe'
<1>1. ConvergenceTyped /\ Told /\ Feeds /\ (Generated => \A e \in Entity : LatestWins(e))
  BY DEF ConvergenceSafe
<1>2. PICK m, r, after, out : Effect(c, i, lost, m, r, after, out)
  BY <1>1, DeliverNextDoes
<1>3. /\ mutations \in Workloads /\ records \in [Entity -> Held]
      /\ ledger \in [Client -> Seq([content : Mutation, outcome : Outcomes])]
      /\ changes \in Seq(Change)
      /\ pending \in [Client -> SUBSET Nat] /\ rejections \in [Client -> SUBSET Nat]
      /\ view \in [Client -> [Entity -> Held]] /\ seen \in [Client -> Nat]
      /\ \A d \in Client : Watermark(d) <= Len(mutations[d]) /\ seen[d] <= Len(changes)
  BY <1>1 DEF ConvergenceTyped, Change
<1>4. Ids(c) = 1..Len(mutations[c]) /\ Len(mutations[c]) \in Nat
  BY <1>1, MutationsAre
\* the ledger grows by one entry of c
<1>5. /\ ledger' \in [Client -> Seq([content : Mutation, outcome : Outcomes])]
      /\ \A d \in Client : Watermark(d)' = IF d = c THEN i ELSE Watermark(d)
      /\ \A d \in Client : \A j \in 1..Watermark(d) : ledger'[d][j] = ledger[d][j]
      /\ ledger'[c][i].outcome = out
  <2>1. PICK x : x = [content |-> m, outcome |-> out]
    OBVIOUS
  <2>2. x \in [content : Mutation, outcome : Outcomes] /\ x.outcome = out
    BY <1>2, <2>1 DEF Effect
  <2>3. ledger' = [ledger EXCEPT ![c] = Append(ledger[c], x)]
    BY <1>2, <2>1 DEF Effect
  <2>4. ledger[c] \in Seq([content : Mutation, outcome : Outcomes])
    BY <1>3
  <2>5. /\ Append(ledger[c], x) \in Seq([content : Mutation, outcome : Outcomes])
        /\ Len(Append(ledger[c], x)) = Len(ledger[c]) + 1
        /\ \A j \in 1..Len(ledger[c]) : Append(ledger[c], x)[j] = ledger[c][j]
        /\ Append(ledger[c], x)[Len(ledger[c]) + 1] = x
    BY <2>2, <2>4
  <2>6. i = Len(ledger[c]) + 1
    BY <1>2 DEF Watermark, Effect
  <2>7. \A d \in Client : ledger'[d] = IF d = c THEN Append(ledger[c], x) ELSE ledger[d]
    BY <1>3, <2>3
  <2>8. ledger' \in [Client -> Seq([content : Mutation, outcome : Outcomes])]
    BY <1>3, <2>3, <2>5
  <2>9. \A d \in Client : Len(ledger'[d]) = IF d = c THEN i ELSE Len(ledger[d])
    BY <2>5, <2>6, <2>7
  <2>10. \A d \in Client : \A j \in 1..Len(ledger[d]) : ledger'[d][j] = ledger[d][j]
    BY <2>5, <2>7
  <2>11. ledger'[c][i].outcome = out
    BY <2>2, <2>5, <2>6, <2>7
  <2> QED BY <2>8, <2>9, <2>10, <2>11 DEF Watermark
<1>6. PICK n, x : n = Len(changes) /\ x = [entity |-> m.entity, record |-> after]
  OBVIOUS
<1>7. n \in Nat /\ x \in Change /\ x.entity = m.entity /\ x.record = after
  BY <1>2, <1>3, <1>6 DEF Change, Effect
<1>8. /\ changes' \in Seq(Change) /\ Len(changes') \in Nat /\ Len(changes') >= n
      /\ \A j \in 1..n : changes'[j] = changes[j]
      /\ \A k \in Nat : \A e \in Entity : k <= n => Recent(changes', k, e) = Recent(changes, k, e)
      /\ \A e \in Entity : Recent(changes', Len(changes'), e)
            = IF e = m.entity /\ after # r THEN after ELSE Recent(changes, n, e)
  <2>1. CASE after = r
    <3>1. changes' = changes
      BY <1>2, <2>1 DEF Effect
    <3> QED BY <1>3, <1>6, <1>7, <2>1, <3>1
  <2>2. CASE after # r
    <3>1. changes' = Append(changes, x)
      BY <1>2, <1>6, <2>2 DEF Effect
    <3>2. /\ changes' \in Seq(Change) /\ Len(changes') = n + 1
          /\ \A j \in 1..n : changes'[j] = changes[j]
      BY <1>3, <1>6, <1>7, <3>1
    <3>3. \A e \in Entity : Recent(Append(changes, x), Len(changes) + 1, e)
             = IF x.entity = e THEN x.record ELSE Recent(changes, Len(changes), e)
      BY <1>3, <1>7, RecentAppended
    <3>4. \A e \in Entity : Recent(changes', Len(changes'), e)
             = IF e = m.entity /\ after # r THEN after ELSE Recent(changes, n, e)
      BY <1>6, <1>7, <2>2, <3>1, <3>2, <3>3
    <3>5. ASSUME NEW g, g = changes', NEW k \in Nat, k <= n, NEW e \in Entity
          PROVE  Recent(g, k, e) = Recent(changes, k, e)
      <4>1. \A j \in 1..k : g[j] = changes[j]
        BY <1>7, <3>2, <3>5
      <4> QED BY <4>1, RecentSame
    <3>6. \A k \in Nat : \A e \in Entity : k <= n => Recent(changes', k, e) = Recent(changes, k, e)
      BY <3>5
    <3> QED BY <1>7, <3>2, <3>4, <3>6
  <2> QED BY <2>1, <2>2
<1>9. /\ mutations' = mutations /\ view' = view /\ seen' = seen
      /\ records' = [records EXCEPT ![m.entity] = after]
      /\ r = records[m.entity] /\ m.entity \in Entity /\ after \in Held
  BY <1>2 DEF Effect
<1>10. \A d \in Client : /\ pending'[d] = IF d = c /\ ~lost THEN pending[c] \ {i} ELSE pending[d]
                         /\ rejections'[d] = IF d = c /\ ~lost /\ Rejected(out) THEN rejections[c] \cup {i}
                                             ELSE rejections[d]
  BY <1>2, <1>3 DEF Effect
<1>11. ConvergenceTyped'
  <2>1. records' \in [Entity -> Held]
    BY <1>3, <1>9
  <2>2. pending' \in [Client -> SUBSET Nat] /\ rejections' \in [Client -> SUBSET Nat]
    <3>1. i \in Nat /\ pending[c] \ {i} \in SUBSET Nat /\ rejections[c] \cup {i} \in SUBSET Nat
      BY <1>2, <1>3 DEF Effect
    <3>2. CASE lost
      BY <1>2, <1>3, <3>2 DEF Effect
    <3>3. CASE ~lost
      <4>1. /\ pending' = [pending EXCEPT ![c] = pending[c] \ {i}]
            /\ rejections' = IF Rejected(out) THEN [rejections EXCEPT ![c] = rejections[c] \cup {i}] ELSE rejections
        BY <1>2, <3>3 DEF Effect
      <4> QED BY <1>3, <3>1, <4>1
    <3> QED BY <3>2, <3>3
  <2>3. ASSUME NEW d \in Client PROVE Watermark(d)' <= Len(mutations[d])
    <3>1. i <= Len(mutations[c])
      BY <1>4
    <3>2. Watermark(d)' = IF d = c THEN i ELSE Watermark(d)
      BY <1>5
    <3>3. Watermark(d) <= Len(mutations[d])
      BY <1>3
    <3>4. CASE d = c
      BY <3>1, <3>2, <3>4
    <3>5. CASE d # c
      BY <3>2, <3>3, <3>5
    <3> QED BY <3>4, <3>5
  <2>4. \A d \in Client : seen[d] <= Len(changes')
    BY <1>3, <1>6, <1>7, <1>8
  <2> QED BY <1>3, <1>5, <1>8, <1>9, <2>1, <2>2, <2>3, <2>4 DEF ConvergenceTyped, Change
<1>12. Told'
  <2> SUFFICES ASSUME NEW d \in Client
               PROVE  /\ pending'[d] \subseteq Ids(d) /\ rejections'[d] \subseteq Ids(d) \ pending'[d]
                      /\ \A j \in Ids(d) \ pending'[d] :
                           j <= Watermark(d)' /\ (Rejected(ledger'[d][j].outcome) <=> j \in rejections'[d])
    BY <1>9, SameIds DEF Told
  <2>1. /\ pending[d] \subseteq Ids(d) /\ rejections[d] \subseteq Ids(d) \ pending[d]
        /\ \A j \in Ids(d) \ pending[d] :
             j <= Watermark(d) /\ (Rejected(ledger[d][j].outcome) <=> j \in rejections[d])
    BY <1>1 DEF Told
  <2>2. Ids(d) = 1..Len(mutations[d]) /\ Watermark(d) \in Nat
    BY <1>1, <1>3, MutationsAre DEF Watermark
  <2>3. /\ pending'[d] = IF d = c /\ ~lost THEN pending[c] \ {i} ELSE pending[d]
        /\ rejections'[d] = IF d = c /\ ~lost /\ Rejected(out) THEN rejections[c] \cup {i} ELSE rejections[d]
    BY <1>10
  <2>4. ASSUME NEW j \in Ids(d) \ pending[d]
        PROVE  j <= Watermark(d)' /\ (Rejected(ledger'[d][j].outcome) <=> j \in rejections[d])
    <3>1. j \in 1..Watermark(d) /\ (Rejected(ledger[d][j].outcome) <=> j \in rejections[d])
      BY <2>1, <2>2
    <3>2. ledger'[d][j] = ledger[d][j]
      BY <1>5, <3>1
    <3>3. Watermark(d)' >= Watermark(d)
      BY <1>2, <1>5, <2>2 DEF Effect
    <3>4. Watermark(d)' \in Nat
      BY <1>2, <1>5, <2>2 DEF Effect
    <3> QED BY <2>2, <3>1, <3>2, <3>3, <3>4
  <2>5. CASE d = c /\ ~lost
    <3>1. i \in Ids(d) /\ ~(i <= Watermark(d))
      BY <1>2, <2>5 DEF Effect
    <3>2. i \in pending[d]
      BY <2>1, <3>1
    <3>3. Watermark(d)' = i /\ i <= i /\ ledger'[d][i].outcome = out
      <4>1. Watermark(d)' = IF d = c THEN i ELSE Watermark(d)
        BY <1>5
      <4>2. i \in Nat
        BY <1>2 DEF Effect
      <4>3. ledger'[d] = ledger'[c]
        BY <2>5
      <4> QED BY <1>5, <2>5, <4>1, <4>2, <4>3
    <3>4. i \notin rejections[d]
      BY <2>1, <3>2
    <3>5. pending'[d] = pending[d] \ {i} /\ rejections'[d] = IF Rejected(out) THEN rejections[d] \cup {i} ELSE rejections[d]
      BY <2>3, <2>5
    <3>6. ASSUME NEW j \in Ids(d) \ pending'[d]
          PROVE  j <= Watermark(d)' /\ (Rejected(ledger'[d][j].outcome) <=> j \in rejections'[d])
      <4>1. CASE j = i
        BY <3>3, <3>4, <3>5, <4>1
      <4>2. CASE j # i
        <5>1. j \in Ids(d) \ pending[d]
          BY <3>5, <4>2
        <5> QED BY <2>4, <3>5, <4>2, <5>1
      <4> QED BY <4>1, <4>2
    <3> QED BY <2>1, <3>1, <3>2, <3>5, <3>6
  <2>6. CASE ~(d = c /\ ~lost)
    BY <2>1, <2>3, <2>4, <2>6
  <2> QED BY <2>5, <2>6
<1>13. Feeds'
  <2>1. ASSUME NEW e \in Entity PROVE records'[e] = Recent(changes', Len(changes'), e)
    <3>1. records[e] = Recent(changes, n, e)
      BY <1>1, <1>6 DEF Feeds
    <3>2. records'[e] = IF e = m.entity THEN after ELSE records[e]
      BY <1>3, <1>9
    <3> QED BY <1>8, <1>9, <3>1, <3>2
  <2>2. ASSUME NEW d \in Client, NEW e \in Entity PROVE view[d][e] = Recent(changes', seen[d], e)
    <3>1. view[d][e] = Recent(changes, seen[d], e) /\ seen[d] \in Nat /\ seen[d] <= n
      BY <1>1, <1>3, <1>6 DEF Feeds
    <3> QED BY <1>8, <3>1
  <2> QED BY <1>9, <2>1, <2>2 DEF Feeds
<1>14. Generated' => \A e \in Entity : LatestWins(e)'
  <2> SUFFICES ASSUME Generated, NEW e \in Entity PROVE Wins(records'[e], Committed(e)')
    BY <1>9, SameIds DEF LatestWins
  <2>1. PICK id : id = <<c, i>>
    OBVIOUS
  <2>2. id \in Sent /\ id[1] = c /\ id[2] = i /\ after = After(m, r, id) /\ m \in mutations[id[1]][id[2]]
    BY <1>2, <2>1 DEF Effect
  <2>3. m = Content(id)
    BY <2>2 DEF Generated
  <2>4. Wins(records[e], Committed(e))
    BY <1>1 DEF LatestWins
  <2>5. \A o \in Sent : /\ o = <<o[1], o[2]>> /\ o[1] \in Client
                        /\ (o[2] <= Watermark(o[1])' <=> o[2] <= Watermark(o[1]) \/ o = id)
    <3> SUFFICES ASSUME NEW o \in Sent
                 PROVE  /\ o = <<o[1], o[2]>> /\ o[1] \in Client
                        /\ (o[2] <= Watermark(o[1])' <=> o[2] <= Watermark(o[1]) \/ o = id)
      OBVIOUS
    <3>1. o = <<o[1], o[2]>> /\ o[1] \in Client /\ o[2] \in Ids(o[1])
      BY <1>1, ContentIs
    <3>2. o[2] \in Nat
      BY <1>1, <3>1, MutationsAre
    <3>3. o = id <=> o[1] = c /\ o[2] = i
      BY <2>1, <3>1
    <3>4. /\ Watermark(c) \in Nat /\ i = Watermark(c) + 1
          /\ Watermark(o[1])' = IF o[1] = c THEN i ELSE Watermark(o[1])
      BY <1>2, <1>5, <3>1 DEF Effect
    <3> QED BY <3>1, <3>2, <3>3, <3>4
  <2>6. Committed(e)' = {o \in Sent : o[2] <= Watermark(o[1])' /\ Content(o).entity = e}
    BY <1>9, SameIds DEF Committed
  <2>7. CASE e = m.entity
    <3>1. Committed(e)' = Committed(e) \cup {id}
      BY <2>2, <2>3, <2>5, <2>6, <2>7 DEF Committed
    <3>2. records[e] = r /\ records'[e] = after /\ r \in Held
      BY <1>2, <1>3, <1>9, <2>7 DEF Effect
    <3>3. Committed(e) \in SUBSET Sent
      BY DEF Committed
    <3>4. PICK all : all = Committed(e)
      OBVIOUS
    <3>5. Wins(After(Content(id), r, id), all \cup {id})
      BY <1>1, <2>2, <2>4, <3>2, <3>3, <3>4, ResolvedWins
    <3> QED BY <2>2, <2>3, <3>1, <3>2, <3>4, <3>5
  <2>8. CASE e # m.entity
    <3>1. Committed(e)' = Committed(e)
      BY <2>2, <2>3, <2>5, <2>6, <2>8 DEF Committed
    <3>2. records'[e] = records[e]
      BY <1>3, <1>9, <2>8
    <3> QED BY <2>4, <3>1, <3>2
  <2> QED BY <2>7, <2>8
<1> QED BY <1>11, <1>12, <1>13, <1>14 DEF ConvergenceSafe

LEMMA DeliverAgainKeeps ==
  ASSUME ConvergenceSafe, NEW c \in Client, NEW i \in Ids(c), DeliverAgain(c, i)
  PROVE  ConvergenceSafe'
<1>1. ConvergenceTyped /\ Told /\ Feeds /\ (Generated => \A e \in Entity : LatestWins(e))
  BY DEF ConvergenceSafe
<1>2. UNCHANGED <<mutations, records, ledger, changes, view, seen>>
  BY DEF DeliverAgain
<1>3. /\ pending \in [Client -> SUBSET Nat] /\ rejections \in [Client -> SUBSET Nat]
      /\ Ids(c) = 1..Len(mutations[c])
  BY <1>1, MutationsAre DEF ConvergenceTyped
<1>4. PICK out : out = ledger[c][i].outcome
  OBVIOUS
<1>5. /\ pending' = [pending EXCEPT ![c] = pending[c] \ {i}] /\ i <= Watermark(c)
      /\ rejections' = IF Rejected(out) THEN [rejections EXCEPT ![c] = rejections[c] \cup {i}] ELSE rejections
  BY <1>4 DEF DeliverAgain, Acknowledge
<1>6. \A d \in Client : /\ pending'[d] = IF d = c THEN pending[c] \ {i} ELSE pending[d]
                        /\ rejections'[d] = IF d = c /\ Rejected(out) THEN rejections[c] \cup {i} ELSE rejections[d]
  BY <1>3, <1>5
<1>7. ConvergenceTyped'
  <2>1. pending' \in [Client -> SUBSET Nat] /\ rejections' \in [Client -> SUBSET Nat]
    <3>1. i \in Nat
      BY <1>3
    <3>2. pending[c] \ {i} \in SUBSET Nat /\ rejections[c] \cup {i} \in SUBSET Nat
      BY <1>3, <3>1
    <3> QED BY <1>3, <1>5, <3>2
  <2> QED BY <1>1, <1>2, <2>1 DEF ConvergenceTyped, Watermark
<1>8. Told'
  <2> SUFFICES ASSUME NEW d \in Client
               PROVE  /\ pending'[d] \subseteq Ids(d) /\ rejections'[d] \subseteq Ids(d) \ pending'[d]
                      /\ \A j \in Ids(d) \ pending'[d] :
                           j <= Watermark(d) /\ (Rejected(ledger[d][j].outcome) <=> j \in rejections'[d])
    BY <1>2 DEF Told, Ids, Watermark
  <2>1. /\ pending[d] \subseteq Ids(d) /\ rejections[d] \subseteq Ids(d) \ pending[d]
        /\ \A j \in Ids(d) \ pending[d] :
             j <= Watermark(d) /\ (Rejected(ledger[d][j].outcome) <=> j \in rejections[d])
    BY <1>1 DEF Told
  <2>2. CASE d = c
    <3>1. i \in Ids(d) /\ i <= Watermark(d) /\ out = ledger[d][i].outcome
      BY <1>4, <1>5, <2>2
    <3>2. /\ pending'[d] = pending[d] \ {i}
          /\ rejections'[d] = IF Rejected(out) THEN rejections[d] \cup {i} ELSE rejections[d]
      BY <1>6, <2>2
    <3>3. Rejected(out) <=> i \in rejections'[d]
      BY <2>1, <3>1, <3>2
    <3> QED BY <2>1, <3>1, <3>2, <3>3
  <2>3. CASE d # c
    BY <1>6, <2>1, <2>3
  <2> QED BY <2>2, <2>3
<1>9. Feeds'
  BY <1>1, <1>2 DEF Feeds
<1>10. Generated' => \A e \in Entity : LatestWins(e)'
  <2>1. \A e : Committed(e)' = Committed(e)
    BY <1>2 DEF Committed, Sent, Ids, Content, Watermark
  <2>2. \A e \in Entity : LatestWins(e)' <=> Wins(records[e], Committed(e))
    BY <1>2, <2>1, SameIds DEF LatestWins
  <2> QED BY <1>1, <1>2, <2>2, SameIds DEF LatestWins
<1> QED BY <1>7, <1>8, <1>9, <1>10 DEF ConvergenceSafe

LEMMA PullKeeps ==
  ASSUME ConvergenceSafe, NEW c \in Client, Pull(c)
  PROVE  ConvergenceSafe'
<1>1. ConvergenceTyped /\ Told /\ Feeds /\ (Generated => \A e \in Entity : LatestWins(e))
  BY DEF ConvergenceSafe
<1>2. UNCHANGED <<mutations, records, ledger, changes, pending, rejections>>
  BY DEF Pull
<1>3. /\ changes \in Seq(Change) /\ Len(changes) \in Nat /\ view \in [Client -> [Entity -> Held]]
      /\ seen \in [Client -> Nat] /\ seen[c] \in Nat /\ seen[c] <= Len(changes)
  BY <1>1 DEF ConvergenceTyped, Change
<1>4. /\ seen' = [seen EXCEPT ![c] = Len(changes)]
      /\ \A d \in Client : d # c => view'[d] = view[d] /\ seen'[d] = seen[d]
      /\ seen'[c] = Len(changes)
  BY <1>3 DEF Pull
<1>5. view'[c] = [e \in Entity |-> Recent(changes, Len(changes), e)]
  <2>1. view'[c] = [e \in Entity |-> IF Unseen(c, e) = {} THEN view[c][e]
                                     ELSE changes[Partial!Latest(Unseen(c, e))].record]
    BY <1>3 DEF Pull, Partial!Latest
  <2>2. ASSUME NEW e \in Entity
        PROVE  Recent(changes, Len(changes), e) = IF Unseen(c, e) = {} THEN view[c][e]
                                                  ELSE changes[Partial!Latest(Unseen(c, e))].record
    <3>1. PICK h, k, n : h = changes /\ k = Len(changes) /\ n = seen[c]
      OBVIOUS
    <3>2. k \in Nat /\ n \in Nat /\ n <= k
      BY <1>3, <3>1
    <3>3. Recent(h, k, e) = IF {i \in n + 1 .. k : h[i].entity = e} = {} THEN Recent(h, n, e)
                            ELSE h[Partial!Latest({i \in n + 1 .. k : h[i].entity = e})].record
      BY <3>2, RecentSince
    <3>4. Unseen(c, e) = {i \in n + 1 .. k : h[i].entity = e}
      BY <3>1 DEF Unseen
    <3>5. view[c][e] = Recent(h, n, e)
      BY <1>1, <3>1 DEF Feeds
    <3> QED BY <3>1, <3>3, <3>4, <3>5
  <2> QED BY <2>1, <2>2
<1>6. ASSUME NEW e \in Entity PROVE Recent(changes, Len(changes), e) \in Held
  <2>1. Recent(changes, Len(changes), e) = records[e]
    BY <1>1 DEF Feeds
  <2> QED BY <1>1, <2>1 DEF ConvergenceTyped
<1>7. view' \in [Client -> [Entity -> Held]]
  <2>1. view'[c] \in [Entity -> Held]
    BY <1>5, <1>6
  <2>2. view' = [view EXCEPT ![c] = view'[c]]
    BY <1>3 DEF Pull
  <2> QED BY <1>3, <2>1, <2>2
<1>8. ConvergenceTyped'
  <2>1. seen' \in [Client -> Nat] /\ \A d \in Client : seen'[d] <= Len(changes)
    BY <1>1, <1>3, <1>4 DEF ConvergenceTyped
  <2> QED BY <1>1, <1>2, <1>7, <2>1 DEF ConvergenceTyped, Watermark
<1>9. Told'
  BY <1>1, <1>2 DEF Told, Ids, Watermark
<1>10. Feeds'
  <2>1. ASSUME NEW d \in Client, NEW e \in Entity PROVE view'[d][e] = Recent(changes, seen'[d], e)
    <3>1. CASE d = c
      BY <1>4, <1>5, <3>1
    <3>2. CASE d # c
      BY <1>1, <1>4, <3>2 DEF Feeds
    <3> QED BY <3>1, <3>2
  <2>2. \A e \in Entity : records[e] = Recent(changes, Len(changes), e)
    BY <1>1 DEF Feeds
  <2>3. changes' = changes /\ records' = records
    BY <1>2
  <2> QED BY <2>1, <2>2, <2>3 DEF Feeds
<1>11. Generated' => \A e \in Entity : LatestWins(e)'
  <2>1. \A e : Committed(e)' = Committed(e)
    BY <1>2 DEF Committed, Sent, Ids, Content, Watermark
  <2>2. \A e \in Entity : LatestWins(e)' <=> Wins(records[e], Committed(e))
    BY <1>2, <2>1, SameIds DEF LatestWins
  <2> QED BY <1>1, <1>2, <2>2, SameIds DEF LatestWins
<1> QED BY <1>8, <1>9, <1>10, <1>11 DEF ConvergenceSafe

LEMMA ConvergenceKeeps == ConvergenceSafe /\ [Next]_vars => ConvergenceSafe'
<1> SUFFICES ASSUME ConvergenceSafe, [Next]_vars PROVE ConvergenceSafe'
  OBVIOUS
<1>1. CASE UNCHANGED vars
  <2>1. ConvergenceTyped /\ Told /\ Feeds /\ (Generated => \A e \in Entity : LatestWins(e))
    BY DEF ConvergenceSafe
  <2>2. UNCHANGED <<mutations, records, ledger, changes, pending, rejections, view, seen>>
    BY <1>1 DEF vars
  <2>3. ConvergenceTyped' /\ Told'
    BY <2>1, <2>2 DEF ConvergenceTyped, Told, Ids, Watermark
  <2>4. Feeds'
    BY <2>1, <2>2 DEF Feeds
  <2>5. \A e : Committed(e)' = Committed(e)
    BY <2>2 DEF Committed, Sent, Ids, Content, Watermark
  <2>6. \A e \in Entity : LatestWins(e)' <=> Wins(records[e], Committed(e))
    BY <2>2, <2>5, SameIds DEF LatestWins
  <2>7. Generated' => \A e \in Entity : LatestWins(e)'
    BY <2>1, <2>2, <2>6, SameIds DEF LatestWins
  <2> QED BY <2>3, <2>4, <2>7 DEF ConvergenceSafe
<1>2. ASSUME NEW c \in Client, NEW i \in Ids(c), DeliverAgain(c, i) PROVE ConvergenceSafe'
  BY <1>2, DeliverAgainKeeps
<1>3. ASSUME NEW c \in Client, NEW i \in Ids(c), NEW lost \in BOOLEAN, DeliverNext(c, i, lost) PROVE ConvergenceSafe'
  BY <1>3, DeliverNextKeeps
<1>4. ASSUME NEW c \in Client, Pull(c) PROVE ConvergenceSafe'
  BY <1>4, PullKeeps
<1> QED BY <1>1, <1>2, <1>3, <1>4 DEF Next, Deliver

-----------------------------------------------------------------------------
LEMMA ConvergenceHolds ==
  ASSUME ConvergenceSafe
  PROVE  ConvergenceInv
<1>1. ConvergenceTyped /\ Told /\ Feeds
  BY DEF ConvergenceSafe
<1>2. ConvergenceTypeOK
  <2>1. \A c \in Client : Watermark(c) <= Len(mutations[c]) /\ seen[c] \in 0..Len(changes)
    BY <1>1 DEF ConvergenceTyped
  <2> QED BY <1>1, <2>1 DEF ConvergenceTypeOK, Told
<1>3. ViewsAreTheServers
  <2> SUFFICES ASSUME NEW c \in Client, pending[c] = {}, seen[c] = Len(changes) PROVE Visible(c) = records
    BY DEF ViewsAreTheServers
  <2>1. Visible(c) = [e \in Entity |-> view[c][e]]
    BY DEF Visible
  <2>2. \A e \in Entity : view[c][e] = records[e]
    BY <1>1 DEF Feeds
  <2>3. records \in [Entity -> Held]
    BY <1>1 DEF ConvergenceTyped
  <2> QED BY <2>1, <2>2, <2>3
<1>4. RejectionsAreTold
  BY <1>1 DEF RejectionsAreTold, Told
<1> QED BY <1>2, <1>3, <1>4 DEF ConvergenceInv

\* The latest of all mutations is the reference of the generator.
LEMMA ReferenceIs ==
  ASSUME ConvergenceTyped, Generated, NEW e, NEW r, Wins(r, {id \in Sent : Content(id).entity = e})
  PROVE  Semantic(r) = Reference(e)
<1> DEFINE all == {id \in Sent : Content(id).entity = e}
<1>1. CASE all = {}
  BY <1>1 DEF Wins, Reference
<1>2. CASE all # {}
  <2>1. PICK id \in all :
          /\ \A other \in all : Content(other).at <= Content(id).at
          /\ r.revision > 0 /\ Semantic(r) = Final(id)
    BY <1>2 DEF Wins
  <2> DEFINE last == CHOOSE x \in all : \A other \in all : Content(other).at <= Content(x).at
  <2>2. last \in all /\ \A other \in all : Content(other).at <= Content(last).at
    BY <2>1
  <2>3. Reference(e) = Final(last)
    BY <1>2 DEF Reference, Final
  <2> HIDE DEF last
  <2>4. Content(id).at \in Nat /\ Content(last).at \in Nat
    BY <2>2, ContentIs DEF Mutation
  <2>5. Content(last).at = Content(id).at
    BY <2>1, <2>2, <2>4
  <2>6. last = id
    BY <2>2, <2>5 DEF Generated
  <2> QED BY <2>1, <2>3, <2>6
<1> QED BY <1>1, <1>2

LEMMA ServerConvergesStep ==
  ASSUME ConvergenceSafe, ConvergenceSafe', [Next]_vars
  PROVE  ServerConverges
<1> SUFFICES ASSUME Generated, AllCommitted'
             PROVE  IF AllCommitted THEN UNCHANGED records
                    ELSE \A e \in Entity : Semantic(records'[e]) = Reference(e)
  BY DEF ServerConverges
<1>1. ConvergenceTyped /\ ConvergenceTyped' /\ (Generated' => \A e \in Entity : LatestWins(e)')
  BY DEF ConvergenceSafe
<1>2. mutations' = mutations
  BY DEF vars, Next, Deliver, DeliverAgain, DeliverNext, Pull
<1>3. CASE AllCommitted
  <2>1. ASSUME NEW c \in Client, NEW i \in Ids(c), NEW lost \in BOOLEAN, DeliverNext(c, i, lost) PROVE FALSE
    <3>1. i = Watermark(c) + 1 /\ Watermark(c) = Len(mutations[c])
      BY <1>3, <2>1 DEF DeliverNext, AllCommitted
    <3>2. i \in 1..Len(mutations[c]) /\ Len(mutations[c]) \in Nat
      BY <1>1, MutationsAre
    <3> QED BY <3>1, <3>2
  <2>2. UNCHANGED records
    BY <2>1 DEF vars, Next, Deliver, DeliverAgain, Pull
  <2> QED BY <1>3, <2>2
<1>4. ASSUME NEW e \in Entity PROVE Semantic(records'[e]) = Reference(e)
  <2>1. \A c \in Client : Watermark(c)' = Len(mutations[c])
    BY <1>2 DEF AllCommitted
  <2>2. Committed(e)' = {id \in Sent : id[2] <= Watermark(id[1])' /\ Content(id).entity = e}
    BY <1>2, SameIds DEF Committed
  <2>3. ASSUME NEW id \in Sent PROVE id[2] <= Watermark(id[1])'
    <3>1. id[1] \in Client /\ id[2] \in Ids(id[1])
      BY <1>1, ContentIs
    <3>2. id[2] \in 1..Len(mutations[id[1]])
      BY <1>1, <3>1, MutationsAre
    <3> QED BY <2>1, <3>1, <3>2
  <2>4. Committed(e)' = {id \in Sent : Content(id).entity = e}
    BY <2>2, <2>3
  <2>5. Wins(records'[e], Committed(e)')
    BY <1>1, <1>2, SameIds DEF LatestWins
  <2>6. PICK r : r = records'[e]
    OBVIOUS
  <2>7. Semantic(r) = Reference(e)
    BY <1>1, <2>4, <2>5, <2>6, ReferenceIs
  <2> QED BY <2>6, <2>7
<1> QED BY <1>3, <1>4

LEMMA OutcomesAreFinalStep ==
  ASSUME ConvergenceTyped, [Next]_vars
  PROVE  OutcomesAreFinal
<1>1. ledger \in [Client -> Seq([content : Mutation, outcome : Outcomes])]
  BY DEF ConvergenceTyped
<1>2. CASE ledger' = ledger
  BY <1>1, <1>2 DEF OutcomesAreFinal, IsPrefix
<1>3. ASSUME NEW c \in Client, NEW i \in Ids(c), NEW lost \in BOOLEAN, DeliverNext(c, i, lost) PROVE OutcomesAreFinal
  <2>1. PICK m, r, after, out : Effect(c, i, lost, m, r, after, out)
    BY <1>3, DeliverNextDoes
  <2>2. PICK x : x \in [content : Mutation, outcome : Outcomes] /\ ledger' = [ledger EXCEPT ![c] = Append(ledger[c], x)]
    BY <2>1 DEF Effect
  <2>3. ASSUME NEW d \in Client PROVE IsPrefix(ledger[d], ledger'[d])
    <3>1. ledger'[d] = IF d = c THEN Append(ledger[d], x) ELSE ledger[d]
      BY <1>1, <2>2
    <3>2. ledger[d] \in Seq([content : Mutation, outcome : Outcomes])
      BY <1>1
    <3>3. PICK s : s = ledger[d]
      OBVIOUS
    <3>4. s \in Seq([content : Mutation, outcome : Outcomes])
      BY <3>2, <3>3
    <3>5. IsPrefix(s, s)
      BY <3>4 DEF IsPrefix
    <3>6. IsPrefix(s, Append(s, x))
      <4>1. Len(Append(s, x)) = Len(s) + 1 /\ Len(s) \in Nat
        BY <2>2, <3>4
      <4>2. SubSeq(s, 1, Len(s)) = SubSeq(Append(s, x), 1, Len(s))
        BY <2>2, <3>4, <4>1
      <4> QED BY <4>1, <4>2 DEF IsPrefix
    <3> QED BY <3>1, <3>3, <3>5, <3>6
  <2> QED BY <2>3 DEF OutcomesAreFinal
<1> QED BY <1>2, <1>3 DEF vars, Next, Deliver, DeliverAgain, Pull

LEMMA NoZombieStep ==
  ASSUME ConvergenceTyped, [Next]_vars
  PROVE  NoZombie
<1>1. ledger \in [Client -> Seq([content : Mutation, outcome : Outcomes])] /\ records \in [Entity -> Held]
  BY DEF ConvergenceTyped
<1>2. CASE records' = records
  BY <1>2 DEF NoZombie
<1>3. ASSUME NEW c \in Client, NEW i \in Ids(c), NEW lost \in BOOLEAN, DeliverNext(c, i, lost) PROVE NoZombie
  <2>1. PICK m, r, after, out : Effect(c, i, lost, m, r, after, out)
    BY <1>3, DeliverNextDoes
  <2>2. /\ m \in Mutation /\ r \in Held /\ r = records[m.entity] /\ out = Outcome(m, r)
        /\ after = After(m, r, <<c, i>>) /\ <<c, i>> \in Client \X Nat
        /\ records' = [records EXCEPT ![m.entity] = after]
    BY <2>1 DEF Effect
  <2> SUFFICES ASSUME NEW e \in Entity, records[e].deleted, ~records'[e].deleted
               PROVE  \E d \in Client : Len(ledger'[d]) > Len(ledger[d]) /\
                         Last(ledger'[d]).content.entity = e /\ Last(ledger'[d]).content.op = "resurrect"
                         /\ Last(ledger'[d]).content.base = records[e].revision
    BY DEF NoZombie
  <2>3. e = m.entity /\ r = records[e] /\ ~after.deleted /\ r.deleted
    BY <1>1, <2>2
  <2>4. m.op = "resurrect" /\ m.base = r.revision
    <3>1. m.op \in {"upsert", "delete", "resurrect"}
      BY <2>2 DEF Mutation, Op
    <3>2. out \in {"written", "resurrected"}
      <4>1. out # "deleted"
        BY <2>2, <2>3, AfterIs
      <4> QED BY <2>2, <2>3, <4>1, AfterIs
    <3> QED BY <2>2, <2>3, <3>1, <3>2, OutcomeIs
  <2>5. PICK x, s : /\ x = [content |-> m, outcome |-> out] /\ s = ledger[c]
                    /\ ledger' = [ledger EXCEPT ![c] = Append(s, x)]
    BY <2>1 DEF Effect
  <2>6. x \in [content : Mutation, outcome : Outcomes] /\ s \in Seq([content : Mutation, outcome : Outcomes])
    BY <1>1, <2>1, <2>5 DEF Effect
  <2>7. ledger'[c] = Append(s, x)
    BY <1>1, <2>5
  <2>8. Len(Append(s, x)) = Len(s) + 1 /\ Len(s) \in Nat /\ Append(s, x)[Len(s) + 1] = x
    BY <2>6
  <2>9. Len(ledger'[c]) > Len(ledger[c]) /\ Last(ledger'[c]) = x
    BY <2>5, <2>7, <2>8 DEF Last
  <2>10. x.content = m
    BY <2>5
  <2> QED BY <2>3, <2>4, <2>9, <2>10
<1> QED BY <1>2, <1>3 DEF vars, Next, Deliver, DeliverAgain, Pull

\* Whatever the workloads: after every step everybody that is answered and has
\* pulled sees what the server has and knows its rejections; outcomes are final,
\* tombstones stay, and where the generator made the workload, the server ends
\* with the latest mutation of each entity.
THEOREM ModelConvergesHolds == Spec => ModelConverges
<1>1. Init => ConvergenceSafe
  BY ConvergenceStarts
<1>2. ConvergenceSafe /\ [Next]_vars => ConvergenceSafe'
  BY ConvergenceKeeps
<1>3. ConvergenceSafe /\ ConvergenceSafe' /\ [Next]_vars => ServerConverges /\ OutcomesAreFinal /\ NoZombie
  <2> SUFFICES ASSUME ConvergenceSafe, ConvergenceSafe', [Next]_vars
               PROVE  ServerConverges /\ OutcomesAreFinal /\ NoZombie
    OBVIOUS
  <2>1. ConvergenceTyped
    BY DEF ConvergenceSafe
  <2> QED BY <2>1, ServerConvergesStep, OutcomesAreFinalStep, NoZombieStep
<1>4. ConvergenceSafe => ConvergenceInv
  BY ConvergenceHolds
<1> QED BY <1>1, <1>2, <1>3, <1>4, PTL DEF Spec, ModelConverges
=============================================================================
