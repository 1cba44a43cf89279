------------------------------ MODULE Transports ------------------------------
(***************************************************************************)
(* The realtime transports: frames over WebSocket and TCP, handled         *)
(* concurrently per connection, dispatched to the push and pull handlers,  *)
(* answered by request id, and the hub that hints the other connections    *)
(* after a commit (servers/node/src/sync-transports.ts, the end of         *)
(* pushCore in protocol.ts); at the other end the frame client of          *)
(* suite/protocol/ws-transport.mjs.                                        *)
(***************************************************************************)
EXTENDS Integers, Sequences, FiniteSets

CONSTANTS
  Ws, Tcp,        \* connections over WebSocket and over TCP
  MaxInFlight,    \* MAX_WS_IN_FLIGHT_FRAMES
  HintLimit,      \* MAX_BROADCAST_BUFFERED_BYTES, in frames
  Kind,           \* the frames clients send, other than pulls after a hint
  MaxSends,       \* bound: such frames per connection
  MaxCommits,     \* bound: the checkpoint
  MaxFaults       \* bound: refusals, failures, timeouts and lost answers

ASSUME ConnectionsAssumption == Ws \cap Tcp = {} /\ "http" \notin Ws \cup Tcp
ASSUME KindAssumption == Kind \subseteq {"push", "pull", "garbage", "unknown", "binary"}
ASSUME LimitsAssumption == {MaxInFlight, HintLimit, MaxSends, MaxCommits, MaxFaults} \subseteq Nat

Conn == Ws \cup Tcp

VARIABLES
  checkpoint,   \* committed
  server,       \* the server's end of each connection
  toServer, toClient,
  work,         \* frames being handled
  client,       \* the client's end of each connection
  faults,
  unhinted      \* auxiliary: commits a connection was not told about

vars == <<checkpoint, server, toServer, toClient, work, client, faults, unhinted>>

\* id 0: requestId null.  mark: the watermark or checkpoint a frame carries.
Frame == [kind : {"push", "pull", "garbage", "unknown", "binary"}, id : Nat]
Answer == [kind : {"push", "pull", "error", "changed"}, id : Nat, mark : Nat]

Closed == [state |-> "closed", hub |-> FALSE, inFlight |-> 0]
Asleep == [sent |-> 0, pending |-> {}, known |-> 0, due |-> FALSE]

Init ==
  /\ checkpoint = 0 /\ faults = 0 /\ work = {}
  /\ server = [c \in Conn |-> [Closed EXCEPT !.state = "new"]]
  /\ toServer = [c \in Conn |-> <<>>] /\ toClient = [c \in Conn |-> <<>>]
  /\ client = [c \in Conn |-> Asleep]
  /\ unhinted = [c \in Conn |-> {}]

Open(c) == server[c].state = "open"
Fault == faults < MaxFaults /\ faults' = faults + 1
-----------------------------------------------------------------------------
(* Connections *)

\* A connection joins the hub; its client pulls what it missed.
Join(c) ==
  /\ server[c].state = "new"
  /\ server' = [server EXCEPT ![c] = [state |-> "open", hub |-> TRUE, inFlight |-> 0]]
  /\ client' = [client EXCEPT ![c].due = TRUE]
  /\ UNCHANGED <<checkpoint, toServer, toClient, work, faults, unhinted>>

\* The upgrade of a WebSocket is authenticated before the socket is bound; a TCP
\* socket authenticates each frame.
DialWs(c) == c \in Ws /\ Join(c)
DialTcp(c) == c \in Tcp /\ Join(c)

DialRefused(c) ==
  /\ server[c].state = "new" /\ c \in Ws /\ Fault
  /\ server' = [server EXCEPT ![c].state = "closed"]
  /\ UNCHANGED <<checkpoint, toServer, toClient, work, client, unhinted>>

\* The close event: the server forgets the connection, the client rejects what
\* it still waits for.
Gone(c) ==
  /\ server' = [server EXCEPT ![c].state = "closed", ![c].hub = FALSE]
  /\ toServer' = [toServer EXCEPT ![c] = <<>>] /\ toClient' = [toClient EXCEPT ![c] = <<>>]
  /\ client' = [client EXCEPT ![c].pending = {}, ![c].due = FALSE]
  /\ UNCHANGED <<checkpoint, work, unhinted>>

Handshake(c) == server[c].state = "closing" /\ Gone(c) /\ UNCHANGED faults
Break(c) == Open(c) /\ Fault /\ Gone(c)
-----------------------------------------------------------------------------
(* The client's end *)

Requests == {"push", "pull", "unknown"}

\* request() remembers the id, sendRaw() and sendBinary() do not.
Send(c, kind) ==
  LET id == client[c].sent + 1 IN
  /\ toServer' = [toServer EXCEPT ![c] = Append(@, [kind |-> kind, id |-> id])]
  /\ client' = [client EXCEPT ![c].sent = id,
                  ![c].pending = IF kind \in Requests THEN @ \cup {[kind |-> kind, id |-> id]} ELSE @,
                  ![c].due = @ /\ kind # "pull"]
  /\ UNCHANGED <<checkpoint, server, toClient, work, faults, unhinted>>

ClientSend(c) ==
  /\ Open(c) /\ client[c].sent < MaxSends
  /\ \E kind \in Kind : (kind = "binary" => c \in Ws) /\ Send(c, kind)

\* A hinted client pulls, one pull at a time.
ClientPull(c) ==
  /\ Open(c) /\ client[c].due /\ \A r \in client[c].pending : r.kind # "pull"
  /\ Send(c, "pull")

\* Mutant: answers are taken to come in the order of the requests.
Oldest(c, a) == {r \in client[c].pending : \A s \in client[c].pending : r.id <= s.id}

Awaited(c, a) == {r \in client[c].pending : r.id = a.id}

\* handleFrame: a hint makes the client pull if it is behind; an answer settles
\* the request that carries its id, if that still waits.
Deliver(c) ==
  /\ toClient[c] # <<>>
  /\ toClient' = [toClient EXCEPT ![c] = Tail(@)]
  /\ LET a == Head(toClient[c])
         r == Awaited(c, a)
     IN client' = [client EXCEPT
          ![c].due = IF a.kind = "changed" THEN @ \/ a.mark > client[c].known
                     ELSE @ \/ (a.kind = "error" /\ \E x \in r : x.kind = "pull"),
          ![c].pending = IF a.kind = "changed" THEN @ ELSE @ \ r,
          ![c].known = IF a.kind = "pull" /\ r # {} /\ a.mark > @ THEN a.mark ELSE @]
  /\ UNCHANGED <<checkpoint, server, toServer, work, faults, unhinted>>

\* A request is given up after ten seconds; its answer may still come.
Timeout(c) ==
  /\ Fault
  /\ \E r \in client[c].pending :
       client' = [client EXCEPT ![c].pending = @ \ {r}, ![c].due = @ \/ r.kind = "pull"]
  /\ UNCHANGED <<checkpoint, server, toServer, toClient, work, unhinted>>
-----------------------------------------------------------------------------
(* The server's end *)

\* What is written to a socket that is no longer open is lost.
Reply(c, a, queues) == IF Open(c) THEN [queues EXCEPT ![c] = Append(@, a)] ELSE queues

\* Mutant: retire() only marks the connection.
RetireKeepsHub(c) ==
  /\ server' = [server EXCEPT ![c].state = "closing"]
  /\ UNCHANGED <<work, toClient>>

\* The connection takes no more frames and no more hints.
Retire(c) ==
  /\ server' = [server EXCEPT ![c].state = "closing", ![c].hub = FALSE]
  /\ UNCHANGED <<work, toClient>>

\* Mutant: the limit is tested after the count.
CrowdedLate(c) == c \in Ws /\ server[c].inFlight > MaxInFlight

Crowded(c) == c \in Ws /\ server[c].inFlight >= MaxInFlight

\* What routeFrame answers without a handler: text that is no frame, with a null
\* id, and frames of another version or type.
Undispatchable(f) == f.kind \in {"garbage", "unknown"}
ReadableId(f) == IF f.kind = "unknown" THEN f.id ELSE 0

\* One message event: frames that cannot be dispatched are answered at once, the
\* others start a handler that runs on while the next frames arrive.
Receive(c) ==
  /\ toServer[c] # <<>> /\ toServer' = [toServer EXCEPT ![c] = Tail(@)]
  /\ LET f == Head(toServer[c]) IN
     \/ ~ Open(c) /\ UNCHANGED <<server, work, toClient>>
     \/ Open(c) /\ (f.kind = "binary" \/ Crowded(c)) /\ Retire(c)
     \/ /\ Open(c) /\ ~ Crowded(c) /\ Undispatchable(f)
        /\ toClient' = Reply(c, [kind |-> "error", id |-> ReadableId(f), mark |-> 0], toClient)
        /\ UNCHANGED <<server, work>>
     \/ /\ Open(c) /\ ~ Crowded(c) /\ f.kind \in {"push", "pull"}
        /\ server' = [server EXCEPT ![c].inFlight = @ + 1]
        /\ work' = work \cup {[conn |-> c, id |-> f.id, kind |-> f.kind, stage |-> "admit",
                               mark |-> 0, advanced |-> FALSE]}
        /\ UNCHANGED toClient
  /\ UNCHANGED <<checkpoint, client, faults, unhinted>>

Becomes(h, g) == work' = (work \ {h}) \cup {g}

\* Authentication and the rate limit, in the order of the HTTP middleware.
Admit(h) ==
  /\ h.stage = "admit"
  /\ \/ Becomes(h, [h EXCEPT !.stage = "call"]) /\ UNCHANGED faults
     \/ Fault /\ Becomes(h, [h EXCEPT !.stage = "failed"])
  /\ UNCHANGED <<checkpoint, server, toServer, toClient, client, unhinted>>

\* A push commits, having advanced the checkpoint or not; a connection of its
\* own is not hinted.
Advance == checkpoint < MaxCommits /\ checkpoint' = checkpoint + 1
Untold(S) == unhinted' = [c \in Conn |-> IF c \in S THEN unhinted[c] \cup {checkpoint'} ELSE unhinted[c]]

Commit(h) ==
  /\ h.stage = "call" /\ h.kind = "push"
  /\ \/ Advance /\ Untold({h.conn})
     \/ UNCHANGED <<checkpoint, unhinted>>
  /\ Becomes(h, [h EXCEPT !.stage = "done", !.mark = checkpoint',
                          !.advanced = checkpoint' > checkpoint])
  /\ UNCHANGED <<server, toServer, toClient, client, faults>>

\* The answer to COMMIT is lost: the push fails, nobody is hinted.
CommitLost(h) ==
  /\ h.stage = "call" /\ h.kind = "push" /\ Fault
  /\ Advance /\ Untold(Conn)
  /\ Becomes(h, [h EXCEPT !.stage = "failed"])
  /\ UNCHANGED <<server, toServer, toClient, client>>

ReadPage(h) ==
  /\ h.stage = "call" /\ h.kind = "pull"
  /\ Becomes(h, [h EXCEPT !.stage = "done", !.mark = checkpoint])
  /\ UNCHANGED <<checkpoint, server, toServer, toClient, client, faults, unhinted>>

\* Mutant: the failure is logged and not answered.
CallVanishes(h) ==
  /\ h.stage = "call" /\ Fault
  /\ work' = work \ {h}
  /\ UNCHANGED <<checkpoint, server, toServer, toClient, client, unhinted>>

CallFails(h) ==
  /\ h.stage = "call" /\ Fault
  /\ Becomes(h, [h EXCEPT !.stage = "failed"])
  /\ UNCHANGED <<checkpoint, server, toServer, toClient, client, unhinted>>

\* Mutants: the pusher is hinted as well; connections are never taken out.
Everyone(origin) == {c \in Conn : server[c].hub}
EverDialled(origin) == {c \in Conn \ {origin} : server[c].state # "new"}

Listeners(origin) == {c \in Conn \ {origin} : server[c].hub}

\* A slow reader is skipped.
Slow(c) == Len(toClient[c]) >= HintLimit

\* Mutant: an overtaken commit is not worth a hint.
HintedIfLatest(h) ==
  {c \in Listeners(h.conn) : h.advanced /\ ~ Slow(c) /\ h.mark = checkpoint}

Hinted(h) == {c \in Listeners(h.conn) : h.advanced /\ ~ Slow(c)}

\* Mutant: the counter is not taken down when a handler fails.
CountedDown(h) == IF h.stage = "failed" THEN server
                  ELSE [server EXCEPT ![h.conn].inFlight = @ - 1]

InFlightAfter(h) == [server EXCEPT ![h.conn].inFlight = @ - 1]

\* After the await: the hints, then the answer.
Settle(h) ==
  /\ h.stage \in {"done", "failed"}
  /\ work' = work \ {h}
  /\ unhinted' = [c \in Conn |->
       IF h.advanced /\ (Slow(c) \/ ~ server[c].hub) THEN unhinted[c] \cup {h.mark} ELSE unhinted[c]]
  /\ LET hinted == [c \in Conn |-> IF c \in Hinted(h)
                      THEN Append(toClient[c], [kind |-> "changed", id |-> 0, mark |-> h.mark])
                      ELSE toClient[c]]
         a == [kind |-> IF h.stage = "done" THEN h.kind ELSE "error", id |-> h.id, mark |-> h.mark]
     IN IF h.conn \in Conn
        THEN toClient' = Reply(h.conn, a, hinted) /\ server' = InFlightAfter(h)
        ELSE toClient' = hinted /\ UNCHANGED server
  /\ UNCHANGED <<checkpoint, toServer, client, faults>>

\* A push over HTTP has no connection of its own.
HttpPush ==
  /\ \A h \in work : h.conn # "http"
  /\ work' = work \cup {[conn |-> "http", id |-> 0, kind |-> "push", stage |-> "call",
                         mark |-> 0, advanced |-> FALSE]}
  /\ checkpoint < MaxCommits
  /\ UNCHANGED <<checkpoint, server, toServer, toClient, client, faults, unhinted>>

\* Captured direct SQL advances the checkpoint without a hint.
DirectSql ==
  /\ Fault /\ Advance /\ Untold(Conn)
  /\ UNCHANGED <<server, toServer, toClient, work, client>>

Handle(h) == Admit(h) \/ Commit(h) \/ CommitLost(h) \/ ReadPage(h) \/ CallFails(h) \/ Settle(h)

Next ==
  \/ \E c \in Conn : DialWs(c) \/ DialTcp(c) \/ DialRefused(c) \/ Handshake(c) \/ Break(c) \/ ClientSend(c)
                     \/ ClientPull(c) \/ Deliver(c) \/ Timeout(c) \/ Receive(c)
  \/ \E h \in work : Handle(h)
  \/ HttpPush \/ DirectSql

Spec == Init /\ [][Next]_vars

\* Sockets and the event loop deliver, handlers and the database run on, hinted
\* clients pull.
Fairness ==
  /\ \A c \in Conn : WF_vars(Handshake(c)) /\ WF_vars(Receive(c)) /\ WF_vars(Deliver(c))
                     /\ WF_vars(ClientPull(c))
  /\ \A o \in Conn \cup {"http"} : WF_vars(\E h \in work : h.conn = o /\ Handle(h))

FairSpec == Spec /\ Fairness
-----------------------------------------------------------------------------
\* Type invariant; nothing is queued for a connection that is closed.
TransportsTypeOK ==
  /\ checkpoint \in 0..MaxCommits /\ faults \in 0..MaxFaults
  /\ \A c \in Conn :
       /\ server[c] \in [state : {"new", "open", "closing", "closed"}, hub : BOOLEAN, inFlight : Nat]
       /\ \A i \in DOMAIN toServer[c] : toServer[c][i] \in Frame
       /\ \A i \in DOMAIN toClient[c] : toClient[c][i] \in Answer
       /\ server[c].state \in {"new", "closed"} => toServer[c] = <<>> /\ toClient[c] = <<>>
       /\ client[c].pending \subseteq Frame /\ client[c].known \in 0..checkpoint

\* The counter that bounds a WebSocket counts exactly its running handlers, also
\* after failures and after the connection was retired, so that a connection can
\* neither exceed MAX_WS_IN_FLIGHT_FRAMES nor be closed for handlers that ended.
InFlightIsExact ==
  \A c \in Conn :
    LET running == Cardinality({h \in work : h.conn = c})
    IN server[c].inFlight = running /\ (c \in Ws => running <= MaxInFlight)

\* The hub holds the open connections and no other: a retired connection is not
\* hinted and does not stay behind.
HubHoldsTheOpen == \A c \in Conn : server[c].hub <=> Open(c)

\* Handlers of one connection finish in any order, and answers come late: a
\* request is settled only by its own answer.
AnswersReachTheirRequest ==
  [][\A c \in Conn : \A r \in client[c].pending :
       Len(toClient'[c]) < Len(toClient[c]) /\ server'[c].state # "closed" /\ r \notin client'[c].pending
         => Head(toClient[c]).id = r.id /\ Head(toClient[c]).kind \in {r.kind, "error"}]_vars

\* A hint speaks of a committed change, and never to the connection whose push
\* made it: every hint waiting for a connection is of a commit of another.
HintsAreOfOthersCommits ==
  \A c \in Conn : \A i \in DOMAIN toClient[c] :
    toClient[c][i].kind = "changed" =>
      toClient[c][i].mark \in (1..checkpoint) \ unhinted[c]

\* Connections, their counters and the hub's hints agree.
ConnectionsInv == TransportsTypeOK /\ InFlightIsExact /\ HubHoldsTheOpen /\ HintsAreOfOthersCommits

\* However requests, answers, hints and pulls overtake each other, everything
\* comes to rest: a connection that stays open has an answer to every request,
\* and its client has reached every commit it was hinted.  (What clients send and
\* commit is bounded, so the rest that comes again and again is the last one.)
EverythingSettles ==
  []<>(\A c \in Conn : Open(c) =>
         /\ client[c].pending = {}
         /\ \A n \in 1..checkpoint : client[c].known >= n \/ n \in unhinted[c])
=============================================================================
