------------------------------- MODULE Admission -------------------------------
(***************************************************************************)
(* What stands before the protocol's handlers (servers/node/src/           *)
(* protocol.ts, sync-transports.ts): a request over HTTP, a WebSocket or a *)
(* TCP connection is authenticated, charged to a rate limiter that all     *)
(* transports share, and a push is held against its limits.  Verifying a   *)
(* token is an await: other calls, and the clock, go on meanwhile.  Keys   *)
(* come from a remote service (auth.ts) that may be silent or answer       *)
(* nonsense; how they are fetched is jose's, a library.                    *)
(***************************************************************************)
EXTENDS RateLimits, FiniteSets

CONSTANTS
  Call,       \* requests that can be made, each once
  Tcp, Ws,    \* connections
  Token,      \* bearer tokens
  Principal,  \* tenants with their subjects
  Owner,      \* the principal a token names, or Nobody's
  Clients,    \* the client ids its identity is bound to
  Client,     \* client ids
  Rotates,    \* tokens signed by a key that the server has not fetched at first
  Malformed,  \* tokens that are refused before any key is looked up
  MaxTime     \* bound: the clock

Http == "http"
Nobody == "nobody"
Remote == "remote"   \* every caller comes from one address

ASSUME AdmissionAssumption ==
  /\ \A t \in Token : Owner[t] \in Principal \cup {Nobody}
  /\ {Nobody, Remote, "denied", "unavailable"} \cap Principal = {}
  /\ Tcp \cap Ws = {} /\ Http \notin Tcp \cup Ws
  /\ (\A t \in Token : Clients[t] \subseteq Client) /\ Rotates \subseteq Token
  /\ Malformed \subseteq {t \in Token : Owner[t] = Nobody}
  /\ MaxTime \in Nat

VARIABLES
  now,
  limiter,    \* its entries, and its last sweep
  verifier,   \* the key service: "up", "silent" (no answer, or no key set) or
              \* "broken" (another status than 200, or no JSON)
  keys,       \* the key set is "recent" (within its cooldown), "cached" or "stale"
  unknown,    \* tokens whose key is not in it
  verified,   \* results remembered by each TCP connection: token -> result
  session,    \* each WebSocket's token, verified when it was opened
  call,
  served,     \* auxiliary: principal and route -> the calls let through lately, each with its time
  misled      \* auxiliary: the TCP connections that were open while the key service was broken

keyState == <<verifier, keys, unknown>>
vars == <<now, limiter, keyState, verified, session, call, served, misled>>

Route == {"push", "pull"}
Via == {Http} \cup Tcp \cup Ws

\* A push is within its limits and of its form, or is not; a pull is "fine".
Body == {"fine", "wrong"}

NewCall == [stage |-> "new"]

Init ==
  /\ now = 0 /\ limiter = [entries |-> [k \in {} |-> 0], sweptAt |-> 0]
  /\ verifier = "up" /\ keys = "recent" /\ unknown = Rotates /\ misled = {}
  /\ verified = [c \in Tcp |-> [t \in {} |-> 0]]
  /\ session = [c \in Ws |-> "closed"]
  /\ call = [c \in Call |-> NewCall]
  /\ served = [k \in Principal \X Route |-> {}]
-----------------------------------------------------------------------------
(* authenticateAuthorization *)

\* Keys are fetched when they are too old, and for a token whose key is missing,
\* unless they were fetched just now.
Reloads(token) ==
  token \notin Malformed /\ (keys = "stale" \/ (token \in unknown /\ keys # "recent"))

\* Mutant: any failure of the verifier is a denial.
VerifyDenies(token) ==
  IF Owner[token] = Nobody \/ (Reloads(token) /\ verifier # "up") \/ (token \in unknown /\ ~Reloads(token))
  THEN "denied" ELSE Owner[token]

\* A timeout, a failure of the transport and an answer that is no key set are an
\* outage; every other error of jose is a denial, also the one it raises for the
\* status or the syntax of the answer.
Verify(token) ==
  IF Reloads(token) /\ verifier = "silent" THEN "unavailable"
  ELSE IF \/ Owner[token] = Nobody
          \/ Reloads(token) /\ verifier = "broken"
          \/ token \in unknown /\ ~Reloads(token)
  THEN "denied"
  ELSE Owner[token]

\* A key set that is fetched has every key but those that never were.
Fetches(token) ==
  /\ IF Reloads(token) /\ verifier = "up"
     THEN keys' = "recent" /\ unknown' = {t \in unknown : Owner[t] = Nobody}
     ELSE UNCHANGED <<keys, unknown>>
  /\ UNCHANGED verifier
-----------------------------------------------------------------------------
(* The limiter, which HTTP and the frames share *)

Swept == Sweep(limiter.entries, limiter.sweptAt, now)
SweptAt == IF SweepDue(limiter.sweptAt, now) THEN now ELSE limiter.sweptAt

Admits(key) == Allowed(Swept, key, now)
Charge(key) ==
  limiter' = [sweptAt |-> SweptAt, entries |-> IF Admits(key) THEN Charged(Swept, key, now) ELSE Swept]

Lately(calls, t) == {x \in calls : t - x[2] < Window}

\* Mutant: a budget for each connection.
KeyOfConnection(c, who) == <<who, call[c].via>>

\* Mutant: one budget for a route.
KeyOfRoute(c, who) == <<"all", call[c].route>>

\* Every principal has a budget on every route.
Key(c, who) == <<who, call[c].route>>

Answer(c, status, who) ==
  call' = [call EXCEPT ![c] = [stage |-> "answered", token |-> call[c].token,
             client |-> call[c].client, status |-> status, who |-> who]]

\* Mutant: client ids are not held against the identity.
PushStatusUnbound(c) == IF call[c].body = "wrong" THEN 413 ELSE 200

\* pushCore up to its transaction: bytes and mutations (413), form (400, here
\* 413 as well), client id.
PushStatus(c) ==
  IF call[c].body = "wrong" THEN 413
  ELSE IF call[c].client \notin Clients[call[c].token] THEN 403
  ELSE 200

\* An authenticated request is charged and, within its budget, dispatched.
Dispatch(c, who) ==
  /\ Charge(Key(c, who))
  /\ IF Admits(Key(c, who))
     THEN /\ Answer(c, IF call[c].route = "push" THEN PushStatus(c) ELSE 200, who)
          /\ served' = [served EXCEPT ![<<who, call[c].route>>] = Lately(@, now) \cup {<<c, now>>}]
     ELSE Answer(c, 429, who) /\ UNCHANGED served

Unavailable(c) == Answer(c, 503, Nobody) /\ UNCHANGED <<limiter, served>>
-----------------------------------------------------------------------------
(* HTTP *)

Arrival(c, via, token, stage) ==
  \E route \in Route, client \in Client, body \in Body :
    /\ route = "pull" => body = "fine" /\ client \in Clients[token]
    /\ call' = [call EXCEPT ![c] = [stage |-> stage, via |-> via, token |-> token,
                  route |-> route, client |-> client, body |-> body]]

HttpArrives(c) ==
  /\ call[c].stage = "new"
  /\ \E t \in Token : Arrival(c, Http, t, "verifying")
  /\ UNCHANGED <<now, limiter, keyState, verified, session, served, misled>>

\* denyAuthentication: who is denied spends the address's budget.
DenyAuthentication(c) ==
  /\ Charge(Key(c, Remote))
  /\ Answer(c, IF Admits(Key(c, Remote)) THEN 401 ELSE 429, Nobody)
  /\ UNCHANGED served

HttpVerified(c) ==
  /\ call[c].stage = "verifying" /\ call[c].via = Http
  /\ LET result == Verify(call[c].token) IN
       \/ result = "unavailable" /\ Unavailable(c)
       \/ result = "denied" /\ DenyAuthentication(c)
       \/ result \notin {"unavailable", "denied"} /\ Dispatch(c, result)
  /\ Fetches(call[c].token)
  /\ UNCHANGED <<now, verified, session, misled>>
-----------------------------------------------------------------------------
(* Frames *)

\* createProtocolFrameHandlers, once the identity is resolved: the same order.
Resolved(c, result) ==
  \/ result = "unavailable" /\ Unavailable(c)
  \/ result = "denied" /\ Answer(c, 401, Nobody) /\ UNCHANGED <<limiter, served>>
  \/ result \notin {"unavailable", "denied"} /\ Dispatch(c, result)

\* A WebSocket is authenticated when it is opened, and refused otherwise.
WsUpgrade(w) ==
  /\ session[w] = "closed"
  /\ \E t \in Token :
       /\ session' = IF Verify(t) \in {"unavailable", "denied"} THEN session ELSE [session EXCEPT ![w] = t]
       /\ Fetches(t)
  /\ UNCHANGED <<now, limiter, verified, call, served, misled>>

WsFrame(c) ==
  /\ call[c].stage = "new"
  /\ \E w \in Ws : session[w] # "closed" /\ Arrival(c, w, session[w], "resolved")
  /\ UNCHANGED <<now, limiter, keyState, verified, session, served, misled>>

WsHandled(c) ==
  /\ call[c].stage = "resolved" /\ call[c].via \in Ws
  /\ Resolved(c, Owner[call[c].token])
  /\ UNCHANGED <<now, keyState, verified, session, misled>>

\* A frame's token is looked up before the first await.
TcpFrame(c) ==
  /\ call[c].stage = "new"
  /\ \E t \in Token, conn \in Tcp :
       Arrival(c, conn, t, IF t \in DOMAIN verified[conn] THEN "resolved" ELSE "verifying")
  /\ UNCHANGED <<now, limiter, keyState, verified, session, served, misled>>

TcpHit(c) ==
  /\ call[c].stage = "resolved" /\ call[c].via \in Tcp
  /\ Resolved(c, verified[call[c].via][call[c].token])
  /\ UNCHANGED <<now, keyState, verified, session, misled>>

\* Mutant: an outage is remembered.
RememberAll(conn, token, result) ==
  [verified EXCEPT ![conn] = [t \in DOMAIN verified[conn] \cup {token} |->
                               IF t = token THEN result ELSE verified[conn][t]]]

\* Mutant: a connection remembers one identity.
RememberForAll(conn, token, result) ==
  [verified EXCEPT ![conn] = IF result = "unavailable" THEN verified[conn] ELSE [t \in Token |-> result]]

\* Terminal outcomes are remembered for the token, an outage is not.
Remember(conn, token, result) ==
  IF result = "unavailable" THEN verified
  ELSE [verified EXCEPT ![conn] = [t \in DOMAIN verified[conn] \cup {token} |->
                                    IF t = token THEN result ELSE verified[conn][t]]]

TcpVerified(c) ==
  /\ call[c].stage = "verifying" /\ call[c].via \in Tcp
  /\ LET result == Verify(call[c].token) IN
       /\ verified' = Remember(call[c].via, call[c].token, result)
       /\ Resolved(c, result)
  /\ Fetches(call[c].token)
  /\ UNCHANGED <<now, session, misled>>

\* A connection ends, and another takes its place.
TcpClose(conn) ==
  /\ \A c \in Call : call[c].stage \in {"verifying", "resolved"} => call[c].via # conn
  /\ verified' = [verified EXCEPT ![conn] = [t \in {} |-> 0]]
  /\ misled' = IF verifier = "broken" THEN misled ELSE misled \ {conn}
  /\ UNCHANGED <<now, limiter, keyState, session, call, served>>
-----------------------------------------------------------------------------
Tick ==
  /\ now < MaxTime /\ now' = now + 1
  /\ served' = [k \in DOMAIN served |-> Lately(served[k], now + 1)]
  /\ UNCHANGED <<limiter, keyState, verified, session, call, misled>>

KeyService(state) ==
  /\ verifier # state /\ verifier' = state
  /\ misled' = IF state = "broken" THEN Tcp ELSE misled
  /\ UNCHANGED <<now, limiter, keys, unknown, verified, session, call, served>>

KeysGrow(old, older) ==
  /\ keys = old /\ keys' = older
  /\ UNCHANGED <<now, limiter, verifier, unknown, verified, session, call, served, misled>>

\* cooldownDuration and cacheMaxAge.
CooldownEnds == KeysGrow("recent", "cached")
KeysExpire == KeysGrow("cached", "stale")

Handle(c) == HttpVerified(c) \/ WsHandled(c) \/ TcpHit(c) \/ TcpVerified(c)

Next ==
  \/ \E c \in Call : HttpArrives(c) \/ WsFrame(c) \/ TcpFrame(c) \/ Handle(c)
  \/ \E w \in Ws : WsUpgrade(w)
  \/ \E conn \in Tcp : TcpClose(conn)
  \/ \E state \in {"up", "silent", "broken"} : KeyService(state)
  \/ Tick \/ CooldownEnds \/ KeysExpire

Spec == Init /\ [][Next]_vars

-----------------------------------------------------------------------------
Answered(c) == call[c].stage = "answered"
Answers(c) == ~Answered(c) /\ call'[c].stage = "answered"

AdmissionTypeOK ==
  /\ now \in 0..MaxTime /\ verifier \in {"up", "silent", "broken"}
  /\ keys \in {"recent", "cached", "stale"} /\ unknown \subseteq Token /\ misled \subseteq Tcp
  /\ \A conn \in Tcp : \A t \in DOMAIN verified[conn] : verified[conn][t] \in {"denied", Owner[t]}
  /\ \A w \in Ws : session[w] = "closed" \/ Owner[session[w]] \in Principal
  /\ \A c \in Call : Answered(c) => call[c].status \in {200, 401, 403, 413, 429, 503}

\* Whatever the transports a principal spreads its requests over, it gets one
\* budget: no stretch of a window serves more than two windows' requests.
SharedBudget == \A k \in DOMAIN served : Cardinality(served[k]) <= 2 * Requests

\* A call that is served is its token's own, and writes as one of its clients.
ServedAreEntitled ==
  \A c \in Call : Answered(c) /\ call[c].status = 200 =>
    /\ call[c].who = Owner[call[c].token]
    /\ call[c].client \in Clients[call[c].token]

\* The budgets are shared by the transports, and who is served is entitled to it.
AdmissionInv == AdmissionTypeOK /\ SharedBudget /\ ServedAreEntitled

\* A good token, of which the server has had the key from the start.
Good(token) == Owner[token] # Nobody /\ token \notin Rotates

\* A principal is told to wait for its own requests on that route only; that
\* authentication is unavailable, only while the key service is silent; and a
\* good token is denied only while the key service is broken, or on a connection
\* that was open then: its denial does not outlive both, nor pass to another
\* connection.
RefusalsAreDeserved ==
  [][\A c \in Call : Answers(c) =>
       /\ call'[c].status = 429 /\ call'[c].who # Nobody =>
            Cardinality(Lately(served[<<call'[c].who, call[c].route>>], now)) >= Requests
       /\ call'[c].status = 503 => verifier = "silent"
       /\ call'[c].status = 401 /\ Good(call[c].token) => verifier = "broken" \/ call[c].via \in misled]_vars

\* An outage of the key service is not taken for a bad token ("operationally
\* different from a bad token", auth.ts).
OutageIsNoDenial == \A c \in Call : Answered(c) /\ call[c].status = 401 => ~Good(call[c].token)

\* What a connection remembers of a token is final: the verifier would say the
\* same again ("Terminal outcomes are cached", sync-transports.ts).
RememberedIsTerminal ==
  \A conn \in Tcp : \A t \in DOMAIN verified[conn] :
    verifier = "up" => verified[conn][t] = Verify(t)

=============================================================================
