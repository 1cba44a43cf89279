------------------------------ MODULE AuthConfig ------------------------------
(***************************************************************************)
(* Who a server's configuration lets in (servers/node/src/auth.ts) and     *)
(* what becomes of it in the ledger: a server loads its entries one by     *)
(* one, its callers push, it is started again with another configuration.  *)
(* One tenant's client ids are looked at; schemas of strings are left out. *)
(***************************************************************************)
EXTENDS Integers, Sequences, FiniteSets

CONSTANTS
  Token, Subject, Tenant, ClientId,
  Configs,      \* configurations the server is started with
  Claims,       \* what a key service signs: subject, role, tenant, clients
  Roles,        \* roles that are let in
  Invalid,      \* a claim that is missing or malformed (a list: empty)
  MaxStarts     \* bound: starts of the server

\* A configuration: whether static settings are given, and their entries, none if
\* the schema refuses them; how JWTs give client ids: "claim", "open"
\* (clientIdsClaim null), or "unset".
Unset == "unset"
Entry == [token : Token, subject : Subject, tenant : Tenant, clients : (SUBSET ClientId) \ {{}}]

VARIABLES
  config,       \* of the server that runs, or starts
  stage,        \* "loading", "ready" or "refused"
  hashes,       \* tokens loaded
  owners,       \* (tenant, client) loaded -> subject
  entries,      \* entries loaded
  ledger,       \* (tenant, client) -> the subject of its first push, in the database
  adopted,      \* those the server that runs has added
  starts

vars == <<config, stage, hashes, owners, entries, ledger, adopted, starts>>

Nothing == [x \in {} |-> 0]

\* createProtocolAuthenticator: exactly one mode; JWT has nothing to load.
FirstStage(c) ==
  IF c.given = (c.jwt # Unset) \/ (c.given /\ c.static = <<>>) THEN "refused"
  ELSE IF c.given THEN "loading"
  ELSE "ready"

\* Mutant: the tokens of the earlier configuration are still known.
StartKeeps(c) ==
  /\ config' = c /\ stage' = FirstStage(c) /\ UNCHANGED hashes
  /\ owners' = Nothing /\ entries' = <<>> /\ adopted' = {}

Start(c) ==
  /\ config' = c /\ stage' = FirstStage(c)
  /\ hashes' = {} /\ owners' = Nothing /\ entries' = <<>> /\ adopted' = {}

Init ==
  /\ config \in Configs /\ stage = FirstStage(config)
  /\ hashes = {} /\ owners = Nothing /\ entries = <<>> /\ adopted = {}
  /\ ledger = Nothing /\ starts = 1
-----------------------------------------------------------------------------
(* loadStaticEntries *)

Upcoming == config.static[Len(entries) + 1]
Bindings(e) == {e.tenant} \X e.clients

\* Mutant: a client id that is taken is compared with the last entry only.
TakenByLast(e) ==
  \E b \in Bindings(e) : /\ b \in DOMAIN owners /\ owners[b] # e.subject
                         /\ b \in Bindings(entries[Len(entries)])

\* A client id of the entry is another subject's.
Taken(e) == \E b \in Bindings(e) : b \in DOMAIN owners /\ owners[b] # e.subject

\* Mutant: tokens are not compared.
RepeatedNever(e) == FALSE

Repeated(e) == e.token \in hashes

LoadEntry ==
  /\ stage = "loading" /\ Len(entries) < Len(config.static)
  /\ ~Repeated(Upcoming) /\ ~Taken(Upcoming)
  /\ hashes' = hashes \cup {Upcoming.token}
  /\ owners' = [b \in DOMAIN owners \cup Bindings(Upcoming) |->
                 IF b \in DOMAIN owners THEN owners[b] ELSE Upcoming.subject]
  /\ entries' = Append(entries, Upcoming)
  /\ UNCHANGED <<config, stage, ledger, adopted, starts>>

\* Mutant: only a repeated token is refused.
RefuseRepeated ==
  /\ stage = "loading" /\ Len(entries) < Len(config.static)
  /\ Repeated(Upcoming)
  /\ stage' = "refused"
  /\ UNCHANGED <<config, hashes, owners, entries, ledger, adopted, starts>>

RefuseEntry ==
  /\ stage = "loading" /\ Len(entries) < Len(config.static)
  /\ Repeated(Upcoming) \/ Taken(Upcoming)
  /\ stage' = "refused"
  /\ UNCHANGED <<config, hashes, owners, entries, ledger, adopted, starts>>

Loaded ==
  /\ stage = "loading" /\ Len(entries) = Len(config.static)
  /\ stage' = "ready"
  /\ UNCHANGED <<config, hashes, owners, entries, ledger, adopted, starts>>
-----------------------------------------------------------------------------
(* Callers *)

\* createStaticAuthenticator: the first entry with the token.
EntryOf(token) ==
  entries[CHOOSE i \in DOMAIN entries :
    entries[i].token = token /\ \A j \in DOMAIN entries : entries[j].token = token => i <= j]

StaticIdentities ==
  {[subject |-> EntryOf(t).subject, tenant |-> EntryOf(t).tenant, clients |-> EntryOf(t).clients] : t \in hashes}

\* Mutant: a list of client ids may be empty, or repeat one.
WellFormedList(list) == TRUE

WellFormed(list) == list # <<>> /\ \A i, j \in DOMAIN list : list[i] = list[j] => i = j

\* identityFromJwt.
Valid(claims) ==
  /\ Invalid \notin {claims.subject, claims.tenant} /\ claims.role \in Roles
  /\ config.jwt = "claim" => claims.clients # Invalid /\ WellFormed(claims.clients)

JwtIdentities ==
  {[subject |-> c.subject, tenant |-> c.tenant,
    clients |-> IF config.jwt = "open" THEN ClientId ELSE {c.clients[i] : i \in DOMAIN c.clients}]
   : c \in {c \in Claims : Valid(c)}}

Identities == IF config.jwt = Unset THEN StaticIdentities ELSE JwtIdentities

\* Mutant: the last to push owns the client id.
OwnerOfLast(binding, subject) == subject

\* ON CONFLICT DO NOTHING: the first subject to push owns the client id.
OwnerOf(binding, subject) == IF binding \in DOMAIN ledger THEN ledger[binding] ELSE subject

\* A push commits, unless the client id is another subject's: then it rolls back.
Push ==
  /\ stage = "ready"
  /\ \E id \in Identities : \E c \in id.clients :
       LET binding == <<id.tenant, c>> IN
       /\ OwnerOf(binding, id.subject) = id.subject
       /\ ledger' = [b \in DOMAIN ledger \cup {binding} |-> IF b = binding THEN id.subject ELSE ledger[b]]
       /\ adopted' = IF binding \in DOMAIN ledger THEN adopted ELSE adopted \cup {binding}
  /\ UNCHANGED <<config, stage, hashes, owners, entries, starts>>

\* A deployment: tokens are rotated, clients move, the mode changes.
Restart ==
  /\ starts < MaxStarts /\ starts' = starts + 1
  /\ \E c \in Configs : Start(c)
  /\ UNCHANGED ledger

Next == LoadEntry \/ RefuseEntry \/ Loaded \/ Push \/ Restart

Spec == Init /\ [][Next]_vars
-----------------------------------------------------------------------------
AuthTypeOK ==
  /\ config \in Configs /\ stage \in {"loading", "ready", "refused"}
  /\ hashes = {entries[i].token : i \in DOMAIN entries}
  /\ DOMAIN owners = UNION {Bindings(entries[i]) : i \in DOMAIN entries}
  /\ adopted \subseteq DOMAIN ledger /\ starts \in 1..MaxStarts

Clash(e, f) ==
  e.token = f.token \/ (Bindings(e) \cap Bindings(f) # {} /\ e.subject # f.subject)

\* A configuration is refused exactly if it names both modes or none, gives no
\* static entry that is valid, or two of its entries clash, wherever they stand:
\* "Duplicate tokens and conflicting tenant/client ownership fail startup"
\* (docs/AUTHENTICATION.md).
RefusedIfItClashes ==
  LET list == config.static
      good == /\ config.given # (config.jwt # Unset) /\ (config.given => list # <<>>)
              /\ \A i, j \in DOMAIN list : i # j => ~Clash(list[i], list[j])
  IN (stage = "ready" => good) /\ (stage = "refused" => ~good)

\* Under static entries no caller is refused for what another caller of the same
\* server did: the ledger's test of the owner can only meet an earlier
\* configuration.
StaticPushesNeverClash ==
  stage = "ready" /\ config.jwt = Unset =>
    \A id \in StaticIdentities : \A c \in id.clients :
      <<id.tenant, c>> \in adopted => ledger[<<id.tenant, c>>] = id.subject

\* A client that is in a signed list is in it once and pushes as its subject.
OwnersHaveValidClaims ==
  \A b \in adopted : config.jwt = "claim" =>
    \E c \in Claims : /\ c.subject = ledger[b] /\ c.tenant = b[1] /\ c.role \in Roles
                      /\ Cardinality({i \in DOMAIN c.clients : c.clients[i] = b[2]}) = 1

\* A configuration is loaded or refused for what it says, and nobody pushes as a
\* client that is not his.
ConfigurationInv == AuthTypeOK /\ RefusedIfItClashes /\ StaticPushesNeverClash /\ OwnersHaveValidClaims
=============================================================================
