-------------------------- MODULE Transports_proofs --------------------------
(***************************************************************************)
(* Proofs about Transports: for any connections and limits, the counter of *)
(* a connection is the number of its running handlers, the hub holds the   *)
(* open connections, hints are of commits of others, and whatever overtakes*)
(* what, a request is settled only by its own answer.                      *)
(*                                                                         *)
(* The parts of the invariant are operators on the values of one           *)
(* connection (its queues, its requests, the handlers it runs), so that a  *)
(* step is a lemma about those values.                                     *)
(***************************************************************************)
EXTENDS Connections, FiniteSetTheorems, WellFoundedInduction, TLAPS

-----------------------------------------------------------------------------
(* The inductive invariant. *)

Server ==
  [state : {"new", "open", "closing", "closed"}, hub : BOOLEAN, inFlight : Nat]

Client == [sent : Nat, pending : SUBSET Frame, known : Nat, due : BOOLEAN]

Handler ==
  [conn : Conn \cup {"http"}, id : Nat, kind : {"push", "pull"},
   stage : {"admit", "call", "done", "failed"}, mark : Nat, advanced : BOOLEAN]

\* What a queue holds.
In(queue) == {queue[i] : i \in DOMAIN queue}

\* The handlers W runs for a connection.
Running(W, c) == {h \in W : h.conn = c}

\* Handlers are told apart by their connection and the id of their frame.
WorkOK(W) ==
  /\ W \subseteq Handler /\ IsFiniteSet(W)
  /\ \A g, h \in W : g.conn = h.conn /\ g.id = h.id => g = h

\* Commits have marks up to k; U is what the connections were not told.  The
\* mark of a commit that is not hinted yet is nobody else's.
MarksOK(W, k, U) ==
  /\ \A h \in W : h.mark <= k
  /\ \A h \in W : h.advanced =>
       h.stage = "done" /\ h.mark > 0 /\ \A c \in Conn \ {h.conn} : h.mark \notin U[c]
  /\ \A g, h \in W : g.advanced /\ h.advanced /\ g.mark = h.mark => g = h
  /\ \A c \in Conn : U[c] \subseteq 0 .. k

\* The server's end s of connection c, with the queues S and A.
Serves(c, s, S, A, W) ==
  /\ s.hub = (s.state = "open")
  /\ s.state \in {"new", "closed"} => S = <<>> /\ A = <<>>
  /\ s.inFlight = Cardinality(Running(W, c))
  /\ c \in Ws => s.inFlight <= MaxInFlight
  /\ s.state = "new" => s.inFlight = 0

\* The frames of a queue carry different ids, up to n.
Numbered(S, n) ==
  /\ \A f \in In(S) : f.id \in 1 .. n
  /\ \A i, j \in DOMAIN S : S[i].id = S[j].id => i = j

\* One id is one request on its whole way: waiting (P), in the queue to the
\* server (S), handled (R), answered (A).
Ids(n, P, S, A, R) ==
  /\ Numbered(S, n)
  /\ \A a \in In(A) : a.id <= n
  /\ \A h \in R : h.id \in 1 .. n /\ \A f \in In(S) : f.id # h.id
  /\ \A r \in P :
       /\ r.id \in 1 .. n
       /\ \A f \in In(S) : f.id = r.id => f.kind = r.kind
       /\ \A h \in R : h.id = r.id => h.kind = r.kind
       /\ \A a \in In(A) : a.id = r.id => a.kind \in {r.kind, "error"}

\* Hints on their way, to a connection that was not told of the commits T.
Hints(A, T, k, W) ==
  \A a \in In(A) :
    /\ a.mark <= k
    /\ a.kind = "changed" =>
         a.mark > 0 /\ a.mark \notin T /\ \A h \in W : h.advanced => h.mark # a.mark

ConnTypes ==
  /\ checkpoint \in 0 .. MaxCommits /\ faults \in 0 .. MaxFaults
  /\ server \in [Conn -> Server] /\ client \in [Conn -> Client]
  /\ toServer \in [Conn -> Seq(Frame)] /\ toClient \in [Conn -> Seq(Answer)]
  /\ unhinted \in [Conn -> SUBSET Nat]

ConnOK(c) ==
  /\ Serves(c, server[c], toServer[c], toClient[c], work)
  /\ Ids(client[c].sent, client[c].pending, toServer[c], toClient[c], Running(work, c))
  /\ Hints(toClient[c], unhinted[c], checkpoint, work)
  /\ client[c].known <= checkpoint

ConnSafe ==
  /\ ConnTypes
  /\ WorkOK(work) /\ MarksOK(work, checkpoint, unhinted)
  /\ \A c \in Conn : ConnOK(c)

-----------------------------------------------------------------------------
(* Queues. *)

LEMMA InAppend ==
  ASSUME NEW T, NEW S \in Seq(T), NEW x \in T
  PROVE  Append(S, x) \in Seq(T) /\ In(Append(S, x)) = In(S) \cup {x}
PROOF
<1>1. /\ Append(S, x) \in Seq(T) /\ DOMAIN S = 1 .. Len(S) /\ Len(S) \in Nat
      /\ DOMAIN Append(S, x) = 1 .. Len(S) + 1
      /\ \A i \in 1 .. Len(S) : Append(S, x)[i] = S[i]
      /\ Append(S, x)[Len(S) + 1] = x
  OBVIOUS
<1>2. In(Append(S, x)) \subseteq In(S) \cup {x}
  BY <1>1 DEF In
<1>3. In(S) \subseteq In(Append(S, x)) /\ x \in In(Append(S, x))
  BY <1>1 DEF In
<1> QED
  BY <1>1, <1>2, <1>3

LEMMA InTail ==
  ASSUME NEW T, NEW S \in Seq(T), S # <<>>
  PROVE  /\ Tail(S) \in Seq(T) /\ Head(S) \in In(S) /\ Head(S) \in T
         /\ In(Tail(S)) \subseteq In(S)
         /\ DOMAIN Tail(S) = 1 .. Len(S) - 1
         /\ \A i \in DOMAIN Tail(S) : i + 1 \in DOMAIN S /\ Tail(S)[i] = S[i + 1]
PROOF
<1>1. /\ Tail(S) \in Seq(T) /\ Head(S) = S[1] /\ 1 \in DOMAIN S /\ S[1] \in T
      /\ DOMAIN Tail(S) = 1 .. Len(S) - 1
      /\ \A i \in DOMAIN Tail(S) : i + 1 \in DOMAIN S /\ Tail(S)[i] = S[i + 1]
  OBVIOUS
<1> QED
  BY <1>1 DEF In

LEMMA InSeq ==
  ASSUME NEW T, NEW S \in Seq(T)
  PROVE  In(S) \subseteq T
BY DEF In

LEMMA InEmpty == In(<<>>) = {}
BY DEF In

-----------------------------------------------------------------------------
(* Requests on their way. *)

\* The frame that is taken from a queue has an id that no other frame there has.
LEMMA NumberedTail ==
  ASSUME NEW S \in Seq(Frame), NEW n \in Nat, Numbered(S, n), S # <<>>
  PROVE  Numbered(Tail(S), n) /\ \A f \in In(Tail(S)) : f.id # Head(S).id
PROOF
<1>1. /\ In(Tail(S)) \subseteq In(S)
      /\ \A i \in DOMAIN Tail(S) : i + 1 \in DOMAIN S /\ Tail(S)[i] = S[i + 1]
  BY InTail
<1>2. DOMAIN Tail(S) \subseteq Nat \ {0} /\ 1 \in DOMAIN S /\ Head(S) = S[1]
  OBVIOUS
<1>3. ASSUME NEW i \in DOMAIN Tail(S), NEW j \in DOMAIN Tail(S), Tail(S)[i].id = Tail(S)[j].id
      PROVE  i = j
  BY <1>1, <1>2, <1>3 DEF Numbered
<1>4. ASSUME NEW i \in DOMAIN Tail(S) PROVE Tail(S)[i].id # Head(S).id
  BY <1>1, <1>2, <1>4 DEF Numbered
<1>5. \A f \in In(Tail(S)) : f.id # Head(S).id
  BY <1>4 DEF In
<1> QED
  BY <1>1, <1>3, <1>5 DEF Numbered

\* What is lost, answered or given up leaves the rest as it was.
LEMMA IdsShrink ==
  ASSUME NEW n \in Nat, NEW P, NEW S \in Seq(Frame), NEW A, NEW R, Ids(n, P, S, A, R),
         NEW Q, Q \subseteq P, NEW T, T \in {S, <<>>} \/ (S # <<>> /\ T = Tail(S)),
         NEW B, In(B) \subseteq In(A), NEW G,
         \A g \in G : \E h \in R : g.id = h.id /\ g.kind = h.kind
  PROVE  Ids(n, Q, T, B, G)
PROOF
<1>1. Numbered(T, n) /\ In(T) \subseteq In(S)
  <2>1. CASE T = S
    BY <2>1 DEF Ids
  <2>2. CASE T = <<>>
    BY <2>2, InEmpty DEF Numbered
  <2>3. CASE S # <<>> /\ T = Tail(S)
    BY <2>3, NumberedTail, InTail DEF Ids
  <2> QED
    BY <2>1, <2>2, <2>3
<1> QED
  BY <1>1 DEF Ids

\* A frame with the next id.
LEMMA IdsSend ==
  ASSUME NEW n \in Nat, NEW P \in SUBSET Frame, NEW S \in Seq(Frame), NEW A \in Seq(Answer),
         NEW R \in SUBSET Handler, Ids(n, P, S, A, R),
         NEW f \in Frame, f.id = n + 1, NEW Q, Q \subseteq P \cup {f}
  PROVE  Ids(n + 1, Q, Append(S, f), A, R)
PROOF
<1> DEFINE T == Append(S, f)
<1>1. In(T) = In(S) \cup {f} /\ In(S) \subseteq Frame /\ In(A) \subseteq Answer
  BY InAppend, InSeq
<1>2. \A x \in In(S) : x.id \in 1 .. n
  BY DEF Ids, Numbered
<1>3. Numbered(T, n + 1)
  <2>1. \A x \in In(T) : x.id \in 1 .. n + 1
    BY <1>1, <1>2
  <2>2. /\ DOMAIN T = 1 .. Len(S) + 1 /\ DOMAIN S = 1 .. Len(S) /\ Len(S) \in Nat
        /\ T[Len(S) + 1] = f /\ \A i \in 1 .. Len(S) : T[i] = S[i]
    OBVIOUS
  <2>3. \A i \in 1 .. Len(S) : S[i].id \in 1 .. n
    BY <1>2, <2>2 DEF In
  <2> HIDE DEF T
  <2>4. ASSUME NEW i \in DOMAIN T, NEW j \in DOMAIN T, T[i].id = T[j].id
        PROVE  i = j
    BY <2>2, <2>3, <2>4 DEF Ids, Numbered
  <2> QED
    BY <2>1, <2>4 DEF Numbered
<1>4. \A a \in In(A) : a.id \in Nat /\ a.id <= n
  BY <1>1 DEF Ids, Answer
<1>5. ASSUME NEW h \in R PROVE h.id \in 1 .. n + 1 /\ \A x \in In(T) : x.id # h.id
  BY <1>1, <1>5 DEF Ids
<1>6. ASSUME NEW r \in Q
      PROVE  /\ r.id \in 1 .. n + 1
             /\ \A x \in In(T) : x.id = r.id => x.kind = r.kind
             /\ \A h \in R : h.id = r.id => h.kind = r.kind
             /\ \A a \in In(A) : a.id = r.id => a.kind \in {r.kind, "error"}
  <2>1. CASE r \in P
    BY <1>1, <2>1 DEF Ids
  <2>2. CASE r = f
    <3>1. \A h \in R : h.id # n + 1
      BY DEF Ids
    <3> QED
      BY <1>1, <1>2, <1>4, <2>2, <3>1
  <2> QED
    BY <2>1, <2>2
<1> HIDE DEF T
<1>7. \A a \in In(A) : a.id <= n + 1
  BY <1>4
<1> QED
  BY <1>3, <1>5, <1>6, <1>7 DEF Ids, T

\* The first frame of the queue is handled now.
LEMMA IdsTake ==
  ASSUME NEW n \in Nat, NEW P, NEW S \in Seq(Frame), NEW A, NEW R, Ids(n, P, S, A, R),
         S # <<>>, NEW h, h.id = Head(S).id, h.kind = Head(S).kind
  PROVE  Ids(n, P, Tail(S), A, R \cup {h})
PROOF
<1>1. Head(S) \in In(S) /\ In(Tail(S)) \subseteq In(S)
  BY InTail
<1>2. Numbered(Tail(S), n) /\ \A f \in In(Tail(S)) : f.id # h.id
  BY NumberedTail DEF Ids
<1>3. h.id \in 1 .. n
  BY <1>1 DEF Ids, Numbered
<1> QED
  BY <1>1, <1>2, <1>3 DEF Ids

\* An answer about a handled frame, an error or something with no id.
LEMMA IdsAnswer ==
  ASSUME NEW n \in Nat, NEW P, NEW S, NEW A \in Seq(Answer), NEW R, Ids(n, P, S, A, R),
         NEW a \in Answer, a.id <= n,
         \/ a.id = 0 \/ a.kind = "error"
         \/ \E h \in R : a.id = h.id /\ a.kind = h.kind
  PROVE  Ids(n, P, S, Append(A, a), R)
PROOF
<1>1. In(Append(A, a)) = In(A) \cup {a}
  BY InAppend
<1>2. \A r \in P : a.id = r.id => a.kind \in {r.kind, "error"}
  BY DEF Ids
<1> QED
  BY <1>1, <1>2 DEF Ids

-----------------------------------------------------------------------------
(* Handlers. *)

LEMMA RunningFinite ==
  ASSUME NEW W, WorkOK(W), NEW c
  PROVE  IsFiniteSet(Running(W, c))
BY FS_Subset DEF WorkOK, Running

\* Another handler starts: its frame has an id that no handler of its
\* connection has.
LEMMA WorkStarts ==
  ASSUME NEW W, WorkOK(W), NEW h \in Handler, \A g \in Running(W, h.conn) : g.id # h.id
  PROVE  /\ WorkOK(W \cup {h})
         /\ Running(W \cup {h}, h.conn) = Running(W, h.conn) \cup {h}
         /\ Cardinality(Running(W \cup {h}, h.conn)) = Cardinality(Running(W, h.conn)) + 1
         /\ \A c : c # h.conn => Running(W \cup {h}, c) = Running(W, c)
PROOF
<1>1. Running(W \cup {h}, h.conn) = Running(W, h.conn) \cup {h} /\ h \notin Running(W, h.conn)
      /\ \A c : c # h.conn => Running(W \cup {h}, c) = Running(W, c)
  BY DEF Running
<1>2. Cardinality(Running(W \cup {h}, h.conn)) = Cardinality(Running(W, h.conn)) + 1
  BY <1>1, RunningFinite, FS_AddElement
<1>3. IsFiniteSet(W \cup {h})
  BY FS_AddElement DEF WorkOK
<1>4. \A g \in W : ~(g.conn = h.conn /\ g.id = h.id)
  BY DEF Running
<1>5. WorkOK(W \cup {h})
  BY <1>3, <1>4 DEF WorkOK
<1> QED
  BY <1>1, <1>2, <1>5

\* A handler ends.
LEMMA WorkEnds ==
  ASSUME NEW W, WorkOK(W), NEW h \in W
  PROVE  /\ WorkOK(W \ {h})
         /\ Running(W \ {h}, h.conn) = Running(W, h.conn) \ {h} /\ h \in Running(W, h.conn)
         /\ Cardinality(Running(W \ {h}, h.conn)) = Cardinality(Running(W, h.conn)) - 1
         /\ \A c : c # h.conn => Running(W \ {h}, c) = Running(W, c)
PROOF
<1>1. Running(W \ {h}, h.conn) = Running(W, h.conn) \ {h} /\ h \in Running(W, h.conn)
      /\ \A c : c # h.conn => Running(W \ {h}, c) = Running(W, c)
  BY DEF Running
<1>2. Cardinality(Running(W \ {h}, h.conn)) = Cardinality(Running(W, h.conn)) - 1
  BY <1>1, RunningFinite, FS_RemoveElement
<1>3. IsFiniteSet(W \ {h})
  BY FS_RemoveElement DEF WorkOK
<1>4. WorkOK(W \ {h})
  BY <1>3 DEF WorkOK
<1> QED
  BY <1>1, <1>2, <1>4

Replaces(V, W, h, g) == V = (W \ {h}) \cup {g}

\* A handler goes on: the same frame, another stage.
LEMMA WorkGoesOn ==
  ASSUME NEW W, WorkOK(W), NEW h \in W, NEW g \in Handler,
         g.conn = h.conn, g.id = h.id, g.kind = h.kind,
         NEW V, Replaces(V, W, h, g)
  PROVE  /\ WorkOK(V)
         /\ \A c : Cardinality(Running(V, c)) = Cardinality(Running(W, c))
         /\ \A c : \A x \in Running(V, c) :
              \E y \in Running(W, c) : x.id = y.id /\ x.kind = y.kind
PROOF
<1> USE DEF Replaces
<1>1. /\ WorkOK(W \ {h}) /\ h \in Running(W, h.conn)
      /\ Running(W \ {h}, h.conn) = Running(W, h.conn) \ {h}
      /\ Cardinality(Running(W \ {h}, h.conn)) = Cardinality(Running(W, h.conn)) - 1
      /\ \A c : c # h.conn => Running(W \ {h}, c) = Running(W, c)
  BY WorkEnds
<1>2. \A x \in Running(W \ {h}, g.conn) : x.id # g.id
  BY <1>1 DEF Running, WorkOK
<1>3. /\ WorkOK(V)
      /\ Cardinality(Running(V, g.conn)) = Cardinality(Running(W \ {h}, g.conn)) + 1
      /\ \A c : c # g.conn => Running(V, c) = Running(W \ {h}, c)
  <2>1. PICK X : X = W \ {h}
    OBVIOUS
  <2>2. V = X \cup {g} /\ WorkOK(X) /\ \A x \in Running(X, g.conn) : x.id # g.id
    BY <1>1, <1>2, <2>1
  <2>3. /\ WorkOK(X \cup {g})
        /\ Cardinality(Running(X \cup {g}, g.conn)) = Cardinality(Running(X, g.conn)) + 1
        /\ \A c : c # g.conn => Running(X \cup {g}, c) = Running(X, c)
    BY <2>2, WorkStarts
  <2> QED
    BY <2>1, <2>2, <2>3
<1>4. Cardinality(Running(W, h.conn)) \in Nat
  BY RunningFinite, FS_CardinalityType
<1>5. ASSUME NEW c PROVE Cardinality(Running(V, c)) = Cardinality(Running(W, c))
  <2>1. CASE c = h.conn
    <3>1. PICK m \in Nat : m = Cardinality(Running(W, h.conn))
      BY <1>4
    <3>2. Cardinality(Running(V, c)) = (m - 1) + 1
      BY <1>1, <1>3, <2>1, <3>1
    <3> QED
      BY <2>1, <3>1, <3>2
  <2>2. CASE c # h.conn
    BY <1>1, <1>3, <2>2
  <2> QED
    BY <2>1, <2>2
<1>6. ASSUME NEW c, NEW x \in Running(V, c)
      PROVE  \E y \in Running(W, c) : x.id = y.id /\ x.kind = y.kind
  BY DEF Running
<1> QED
  BY <1>3, <1>5, <1>6

-----------------------------------------------------------------------------
(* Steps of one connection. *)

LEMMA ConnFacts ==
  ASSUME ConnSafe, NEW c \in Conn
  PROVE  /\ server[c] \in Server /\ client[c] \in Client
         /\ toServer[c] \in Seq(Frame) /\ toClient[c] \in Seq(Answer)
         /\ Serves(c, server[c], toServer[c], toClient[c], work)
         /\ Ids(client[c].sent, client[c].pending, toServer[c], toClient[c], Running(work, c))
         /\ Hints(toClient[c], unhinted[c], checkpoint, work)
         /\ client[c].known <= checkpoint
         /\ server = [server EXCEPT ![c] = server[c]]
         /\ client = [client EXCEPT ![c] = client[c]]
         /\ toServer = [toServer EXCEPT ![c] = toServer[c]]
         /\ toClient = [toClient EXCEPT ![c] = toClient[c]]
BY DEF ConnSafe, ConnTypes, ConnOK

LEMMA Bounds ==
  ASSUME ConnSafe
  PROVE  /\ checkpoint \in Nat /\ faults \in 0 .. MaxFaults /\ MaxFaults \in Nat
         /\ MaxCommits \in Nat /\ MaxInFlight \in Nat /\ checkpoint <= MaxCommits
BY LimitsAssumption DEF ConnSafe, ConnTypes

LEMMA FaultBound ==
  ASSUME ConnSafe, Fault
  PROVE  faults' \in 0 .. MaxFaults
BY Bounds DEF Fault

LEMMA ConnStep ==
  ASSUME ConnSafe, NEW c \in Conn, NEW s \in Server, NEW S \in Seq(Frame),
         NEW A \in Seq(Answer), NEW k \in Client, k.known <= checkpoint,
         server' = [server EXCEPT ![c] = s], client' = [client EXCEPT ![c] = k],
         toServer' = [toServer EXCEPT ![c] = S], toClient' = [toClient EXCEPT ![c] = A],
         checkpoint' = checkpoint, work' = work, unhinted' = unhinted,
         faults' \in 0 .. MaxFaults,
         Serves(c, s, S, A, work), Ids(k.sent, k.pending, S, A, Running(work, c)),
         Hints(A, unhinted[c], checkpoint, work)
  PROVE  ConnSafe'
PROOF
<1>1. ConnTypes' /\ WorkOK(work)' /\ MarksOK(work, checkpoint, unhinted)'
  BY DEF ConnSafe, ConnTypes
<1>2. ASSUME NEW d \in Conn PROVE ConnOK(d)'
  <2>1. CASE d = c
    <3>1. server'[d] = s /\ client'[d] = k /\ toServer'[d] = S /\ toClient'[d] = A
      BY <2>1 DEF ConnSafe, ConnTypes
    <3> QED
      BY <2>1, <3>1 DEF ConnOK
  <2>2. CASE d # c
    <3>1. /\ server'[d] = server[d] /\ client'[d] = client[d]
          /\ toServer'[d] = toServer[d] /\ toClient'[d] = toClient[d]
      BY <2>2 DEF ConnSafe, ConnTypes
    <3>2. ConnOK(d)
      BY DEF ConnSafe
    <3> QED
      BY <3>1, <3>2 DEF ConnOK
  <2> QED
    BY <2>1, <2>2
<1> QED
  BY <1>1, <1>2 DEF ConnSafe

\* While a connection is up its queues hold anything.
LEMMA ServesQueues ==
  ASSUME NEW c, NEW s, NEW S, NEW A, NEW W, Serves(c, s, S, A, W),
         s.state \notin {"new", "closed"}, NEW T, NEW B
  PROVE  Serves(c, s, T, B, W)
BY DEF Serves

LEMMA HintsShrink ==
  ASSUME NEW A, NEW T, NEW k, NEW W, Hints(A, T, k, W), NEW B, In(B) \subseteq In(A)
  PROVE  Hints(B, T, k, W)
BY DEF Hints

LEMMA JoinSafe ==
  ASSUME ConnSafe, NEW c \in Conn, Join(c)
  PROVE  ConnSafe'
PROOF
<1>1. PICK s : s = [state |-> "open", hub |-> TRUE, inFlight |-> 0]
  OBVIOUS
<1>2. PICK k : k = [client[c] EXCEPT !.due = TRUE]
  OBVIOUS
<1>3. /\ server[c].state = "new" /\ server' = [server EXCEPT ![c] = s]
      /\ client' = [client EXCEPT ![c] = k]
      /\ checkpoint' = checkpoint /\ work' = work /\ unhinted' = unhinted
      /\ faults' = faults /\ toServer' = toServer /\ toClient' = toClient
  BY <1>1, <1>2 DEF Join
<1>4. s \in Server /\ s.state = "open" /\ s.hub = TRUE /\ s.inFlight = 0
  BY <1>1 DEF Server
<1>5. /\ k \in Client /\ k.known = client[c].known /\ k.sent = client[c].sent
      /\ k.pending = client[c].pending
  BY <1>2, ConnFacts DEF Client
<1>6. Serves(c, s, toServer[c], toClient[c], work)
  <2>1. Serves(c, server[c], toServer[c], toClient[c], work)
    BY ConnFacts
  <2> QED
    BY <1>3, <1>4, <2>1, Bounds DEF Serves
<1> QED
  BY <1>3, <1>4, <1>5, <1>6, ConnFacts, Bounds, ConnStep

LEMMA RefusedSafe ==
  ASSUME ConnSafe, NEW c \in Conn, DialRefused(c)
  PROVE  ConnSafe'
PROOF
<1>1. PICK s : s = [server[c] EXCEPT !.state = "closed"]
  OBVIOUS
<1>2. /\ server[c].state = "new" /\ server' = [server EXCEPT ![c] = s]
      /\ checkpoint' = checkpoint /\ work' = work /\ unhinted' = unhinted
      /\ client' = client /\ toServer' = toServer /\ toClient' = toClient
  BY <1>1, ConnFacts DEF DialRefused
<1>3. faults' \in 0 .. MaxFaults
  BY FaultBound DEF DialRefused
<1>4. s \in Server /\ s.state = "closed" /\ s.hub = server[c].hub
      /\ s.inFlight = server[c].inFlight
  BY <1>1, ConnFacts DEF Server
<1>5. Serves(c, s, toServer[c], toClient[c], work)
  <2>1. Serves(c, server[c], toServer[c], toClient[c], work)
    BY ConnFacts
  <2> QED
    BY <1>2, <1>4, <2>1 DEF Serves
<1> QED
  BY <1>2, <1>3, <1>4, <1>5, ConnFacts, ConnStep

LEMMA GoneSafe ==
  ASSUME ConnSafe, NEW c \in Conn, Gone(c), faults' \in 0 .. MaxFaults,
         server[c].state # "new"
  PROVE  ConnSafe'
PROOF
<1>1. PICK s : s = [server[c] EXCEPT !.state = "closed", !.hub = FALSE]
  OBVIOUS
<1>2. PICK k : k = [client[c] EXCEPT !.pending = {}, !.due = FALSE]
  OBVIOUS
<1>3. /\ server' = [server EXCEPT ![c] = s] /\ client' = [client EXCEPT ![c] = k]
      /\ toServer' = [toServer EXCEPT ![c] = <<>>] /\ toClient' = [toClient EXCEPT ![c] = <<>>]
      /\ checkpoint' = checkpoint /\ work' = work /\ unhinted' = unhinted
  BY <1>1, <1>2, ConnFacts DEF Gone
<1>4. s \in Server /\ s.state = "closed" /\ s.hub = FALSE /\ s.inFlight = server[c].inFlight
  BY <1>1, ConnFacts DEF Server
<1>5. /\ k \in Client /\ k.known = client[c].known /\ k.sent = client[c].sent
      /\ k.pending = {} /\ k.sent \in Nat
  BY <1>2, ConnFacts DEF Client
<1>6. Serves(c, s, <<>>, <<>>, work)
  <2>1. Serves(c, server[c], toServer[c], toClient[c], work)
    BY ConnFacts
  <2> QED
    BY <1>4, <2>1 DEF Serves
<1>7. Ids(k.sent, k.pending, <<>>, <<>>, Running(work, c))
  <2>1. PICK P, S, A : P = client[c].pending /\ S = toServer[c] /\ A = toClient[c]
    OBVIOUS
  <2>2. Ids(k.sent, P, S, A, Running(work, c)) /\ S \in Seq(Frame)
    BY <1>5, <2>1, ConnFacts
  <2> QED
    BY <1>5, <2>2, InEmpty DEF Ids, Numbered
<1>8. Hints(<<>>, unhinted[c], checkpoint, work)
  BY InEmpty DEF Hints
<1>9. <<>> \in Seq(Frame) /\ <<>> \in Seq(Answer)
  OBVIOUS
<1> QED
  BY <1>3, <1>4, <1>5, <1>6, <1>7, <1>8, <1>9, ConnFacts, ConnStep

LEMMA SendSafe ==
  ASSUME ConnSafe, NEW c \in Conn, Open(c),
         NEW kind \in {"push", "pull", "garbage", "unknown", "binary"}, Send(c, kind)
  PROVE  ConnSafe'
PROOF
<1>1. PICK n \in Nat : n = client[c].sent
  BY ConnFacts DEF Client
<1>2. PICK f : f = [kind |-> kind, id |-> n + 1]
  OBVIOUS
<1>3. f \in Frame /\ f.id = n + 1
  BY <1>2 DEF Frame
<1>4. PICK P : P = IF kind \in Requests THEN client[c].pending \cup {f} ELSE client[c].pending
  OBVIOUS
<1>5. PICK due, k : /\ due = (client[c].due /\ kind # "pull")
                    /\ k = [client[c] EXCEPT !.sent = n + 1, !.pending = P, !.due = due]
  OBVIOUS
<1>6. client[c].pending \subseteq Frame /\ P \subseteq Frame /\ P \subseteq client[c].pending \cup {f}
  BY <1>3, <1>4, ConnFacts DEF Client
<1>7. /\ k \in Client /\ k.known = client[c].known /\ k.sent = n + 1 /\ k.pending = P
  <2>1. due \in BOOLEAN /\ n + 1 \in Nat /\ client[c] \in Client
    BY <1>5, ConnFacts
  <2> QED
    BY <1>5, <1>6, <2>1 DEF Client
<1>8. PICK S : S = Append(toServer[c], f)
  OBVIOUS
<1>9. S \in Seq(Frame) /\ Ids(n + 1, P, S, toClient[c], Running(work, c))
  <2>1. Running(work, c) \in SUBSET Handler
    BY DEF ConnSafe, WorkOK, Running
  <2>2. Ids(n, client[c].pending, toServer[c], toClient[c], Running(work, c))
    BY <1>1, ConnFacts
  <2> QED
    BY <1>3, <1>6, <1>8, <2>1, <2>2, ConnFacts, InAppend, IdsSend
<1>10. /\ toServer' = [toServer EXCEPT ![c] = S] /\ client' = [client EXCEPT ![c] = k]
       /\ checkpoint' = checkpoint /\ work' = work /\ unhinted' = unhinted
       /\ server' = server /\ toClient' = toClient /\ faults' = faults
  BY <1>1, <1>2, <1>4, <1>5, <1>8 DEF Send
<1>11. Serves(c, server[c], S, toClient[c], work)
  BY ConnFacts, ServesQueues DEF Open
<1> QED
  BY <1>7, <1>9, <1>10, <1>11, ConnFacts, Bounds, ConnStep

LEMMA DeliverSafe ==
  ASSUME ConnSafe, NEW c \in Conn, Deliver(c)
  PROVE  ConnSafe'
PROOF
<1>1. PICK A : A = Tail(toClient[c])
  OBVIOUS
<1>2. /\ toClient[c] # <<>> /\ A \in Seq(Answer) /\ In(A) \subseteq In(toClient[c])
      /\ Head(toClient[c]) \in In(toClient[c]) /\ Head(toClient[c]) \in Answer
  BY <1>1, ConnFacts, InTail DEF Deliver
<1>3. PICK a : a = Head(toClient[c])
  OBVIOUS
<1>4. PICK due, P, known :
         /\ due = IF a.kind = "changed" THEN client[c].due \/ a.mark > client[c].known
                  ELSE client[c].due \/ (a.kind = "error" /\ \E x \in Awaited(c, a) : x.kind = "pull")
         /\ P = IF a.kind = "changed" THEN client[c].pending
                ELSE client[c].pending \ Awaited(c, a)
         /\ known = IF a.kind = "pull" /\ Awaited(c, a) # {} /\ a.mark > client[c].known
                    THEN a.mark ELSE client[c].known
  OBVIOUS
<1>5. PICK k : k = [client[c] EXCEPT !.due = due, !.pending = P, !.known = known]
  OBVIOUS
<1>6. /\ client' = [client EXCEPT ![c] = k] /\ toClient' = [toClient EXCEPT ![c] = A]
      /\ checkpoint' = checkpoint /\ work' = work /\ unhinted' = unhinted
      /\ server' = server /\ toServer' = toServer /\ faults' = faults
  <2>1. client' = [client EXCEPT ![c].due = due, ![c].pending = P, ![c].known = known]
    BY <1>3, <1>4 DEF Deliver
  <2>2. client' = [client EXCEPT ![c] = k]
    BY <1>5, <2>1, ConnFacts
  <2> QED
    BY <1>1, <2>2 DEF Deliver
<1>7. a.mark \in Nat /\ a.mark <= checkpoint
  BY <1>2, <1>3, ConnFacts DEF Hints, Answer
<1>8. /\ k \in Client /\ k.sent = client[c].sent /\ k.pending = P /\ k.known <= checkpoint
      /\ k.sent \in Nat
  <2>1. due \in BOOLEAN /\ client[c] \in Client
    BY <1>4, ConnFacts
  <2>2. P \subseteq client[c].pending /\ (known = client[c].known \/ known = a.mark)
    BY <1>4
  <2>3. P \subseteq Frame /\ known \in Nat /\ known <= checkpoint
    BY <1>7, <2>1, <2>2, ConnFacts DEF Client
  <2>4. k.sent = client[c].sent /\ k.pending = P /\ k.known = known /\ client[c].sent \in Nat
    BY <1>5, <2>1 DEF Client
  <2>5. k \in Client
    BY <1>5, <2>1, <2>3 DEF Client
  <2> QED
    BY <2>3, <2>4, <2>5
<1>9. Ids(k.sent, k.pending, toServer[c], A, Running(work, c))
  <2>1. P \subseteq client[c].pending
    BY <1>4
  <2> QED
    BY <1>2, <1>8, <2>1, ConnFacts, IdsShrink
<1>10. Hints(A, unhinted[c], checkpoint, work)
  BY <1>2, ConnFacts, HintsShrink
<1>11. Serves(c, server[c], toServer[c], A, work)
  <2>1. server[c].state \notin {"new", "closed"}
    BY <1>2, ConnFacts DEF Serves
  <2> QED
    BY <2>1, ConnFacts, ServesQueues
<1> QED
  BY <1>2, <1>6, <1>8, <1>9, <1>10, <1>11, ConnFacts, Bounds, ConnStep

LEMMA TimeoutSafe ==
  ASSUME ConnSafe, NEW c \in Conn, Timeout(c)
  PROVE  ConnSafe'
PROOF
<1>0. PICK r \in client[c].pending :
        client' = [client EXCEPT ![c].pending = client[c].pending \ {r},
                                 ![c].due = client[c].due \/ r.kind = "pull"]
  BY DEF Timeout
<1>1. PICK due, P : due = (client[c].due \/ r.kind = "pull") /\ P = client[c].pending \ {r}
  OBVIOUS
<1>2. PICK k : k = [client[c] EXCEPT !.pending = P, !.due = due]
  OBVIOUS
<1>3. /\ client' = [client EXCEPT ![c] = k]
      /\ checkpoint' = checkpoint /\ work' = work /\ unhinted' = unhinted
      /\ server' = server /\ toServer' = toServer /\ toClient' = toClient
  <2>1. client' = [client EXCEPT ![c].pending = P, ![c].due = due]
    BY <1>0, <1>1
  <2>2. client' = [client EXCEPT ![c] = k]
    BY <1>2, <2>1, ConnFacts
  <2> QED
    BY <2>2 DEF Timeout
<1>4. /\ k \in Client /\ k.sent = client[c].sent /\ k.pending \subseteq client[c].pending
      /\ k.known = client[c].known /\ k.sent \in Nat
  <2>1. due \in BOOLEAN /\ client[c] \in Client /\ P \subseteq client[c].pending
    BY <1>1, ConnFacts
  <2> QED
    BY <1>2, <2>1 DEF Client
<1>5. Ids(k.sent, k.pending, toServer[c], toClient[c], Running(work, c))
  BY <1>4, ConnFacts, IdsShrink
<1>6. faults' \in 0 .. MaxFaults
  BY FaultBound DEF Timeout
<1>7. k \in Client /\ k.known <= checkpoint
  BY <1>4, ConnFacts
<1>8. /\ server' = [server EXCEPT ![c] = server[c]]
      /\ toServer' = [toServer EXCEPT ![c] = toServer[c]]
      /\ toClient' = [toClient EXCEPT ![c] = toClient[c]]
  BY <1>3, ConnFacts
<1>9. /\ server[c] \in Server /\ toServer[c] \in Seq(Frame) /\ toClient[c] \in Seq(Answer)
      /\ Serves(c, server[c], toServer[c], toClient[c], work)
      /\ Hints(toClient[c], unhinted[c], checkpoint, work)
  BY ConnFacts
<1> QED
  BY <1>3, <1>5, <1>6, <1>7, <1>8, <1>9, ConnStep

LEMMA HintsAnswer ==
  ASSUME NEW A \in Seq(Answer), NEW T, NEW k, NEW W, Hints(A, T, k, W),
         NEW a \in Answer, a.mark <= k, a.kind # "changed"
  PROVE  Hints(Append(A, a), T, k, W)
BY InAppend DEF Hints

\* A frame is dropped, ends the connection, or is answered at once.
LEMMA ReceiveSafe ==
  ASSUME ConnSafe, NEW c \in Conn, toServer[c] # <<>>,
         toServer' = [toServer EXCEPT ![c] = Tail(@)],
         UNCHANGED <<checkpoint, client, faults, unhinted>>,
         NEW f, f = Head(toServer[c]),
         \/ ~ Open(c) /\ UNCHANGED <<server, work, toClient>>
         \/ Open(c) /\ Retire(c)
         \/ /\ Open(c) /\ Undispatchable(f)
            /\ toClient' = Reply(c, [kind |-> "error", id |-> ReadableId(f), mark |-> 0], toClient)
            /\ UNCHANGED <<server, work>>
  PROVE  ConnSafe'
PROOF
<1>1. PICK S : S = Tail(toServer[c])
  OBVIOUS
<1>2. PICK n \in Nat : n = client[c].sent
  BY ConnFacts DEF Client
<1>3. S \in Seq(Frame) /\ toServer' = [toServer EXCEPT ![c] = S] /\ f \in In(toServer[c]) /\ f \in Frame
  BY <1>1, ConnFacts, InTail
<1>4. /\ checkpoint' = checkpoint /\ client' = client /\ faults' = faults /\ unhinted' = unhinted
      /\ client' = [client EXCEPT ![c] = client[c]] /\ faults' \in 0 .. MaxFaults
  BY ConnFacts, Bounds
<1>5. Ids(n, client[c].pending, S, toClient[c], Running(work, c))
  <2>1. Ids(n, client[c].pending, toServer[c], toClient[c], Running(work, c))
    BY <1>2, ConnFacts
  <2> QED
    BY <1>1, <2>1, ConnFacts, IdsShrink
<1>6. /\ server[c].state \notin {"new", "closed"} /\ server[c] \in Server
      /\ Serves(c, server[c], toServer[c], toClient[c], work)
  BY ConnFacts DEF Serves
<1>7. CASE UNCHANGED <<server, work, toClient>>
  <2>1. Serves(c, server[c], S, toClient[c], work)
    BY <1>6, ServesQueues
  <2> QED
    BY <1>2, <1>3, <1>4, <1>5, <1>7, <2>1, ConnFacts, ConnStep
<1>8. CASE Open(c) /\ Retire(c)
  <2>1. PICK s : s = [server[c] EXCEPT !.state = "closing", !.hub = FALSE]
    OBVIOUS
  <2>2. s \in Server /\ s.state = "closing" /\ s.hub = FALSE /\ s.inFlight = server[c].inFlight
    BY <1>6, <2>1 DEF Server
  <2>3. server' = [server EXCEPT ![c] = s] /\ work' = work /\ toClient' = toClient
    BY <1>8, <2>1, ConnFacts DEF Retire
  <2>4. Serves(c, s, S, toClient[c], work)
    BY <1>6, <2>2 DEF Serves
  <2> QED
    BY <1>2, <1>3, <1>4, <1>5, <2>2, <2>3, <2>4, ConnFacts, ConnStep
<1>9. CASE /\ Open(c) /\ Undispatchable(f)
           /\ toClient' = Reply(c, [kind |-> "error", id |-> ReadableId(f), mark |-> 0], toClient)
           /\ UNCHANGED <<server, work>>
  <2>1. PICK a : a = [kind |-> "error", id |-> ReadableId(f), mark |-> 0]
    OBVIOUS
  <2>2. ReadableId(f) \in Nat /\ ReadableId(f) <= n
    <3>1. f.id \in 1 .. n
      BY <1>2, <1>3, ConnFacts DEF Ids, Numbered
    <3> QED
      BY <3>1 DEF ReadableId
  <2>3. a \in Answer /\ a.id <= n /\ a.kind = "error" /\ a.mark = 0
    BY <2>1, <2>2 DEF Answer
  <2>4. PICK A : A = Append(toClient[c], a)
    OBVIOUS
  <2>5. toClient' = [toClient EXCEPT ![c] = A] /\ A \in Seq(Answer)
    BY <1>9, <2>1, <2>3, <2>4, ConnFacts, InAppend DEF Reply
  <2>6. Ids(n, client[c].pending, S, A, Running(work, c))
    BY <1>5, <2>3, <2>4, ConnFacts, IdsAnswer
  <2>7. Hints(A, unhinted[c], checkpoint, work)
    BY <2>3, <2>4, ConnFacts, Bounds, HintsAnswer
  <2>8. Serves(c, server[c], S, A, work)
    BY <1>6, ServesQueues
  <2>9. server' = [server EXCEPT ![c] = server[c]] /\ work' = work
    BY <1>9, ConnFacts
  <2> QED
    BY <1>2, <1>3, <1>4, <1>6, <2>5, <2>6, <2>7, <2>8, <2>9, ConnFacts, ConnStep
<1> QED
  BY <1>7, <1>8, <1>9

-----------------------------------------------------------------------------
(* Steps of handlers. *)

\* A frame is taken by a handler.
LEMMA StartSafe ==
  ASSUME ConnSafe, NEW c \in Conn, toServer[c] # <<>>, Open(c), ~ Crowded(c),
         toServer' = [toServer EXCEPT ![c] = Tail(@)],
         UNCHANGED <<checkpoint, client, faults, unhinted, toClient>>,
         NEW f, f = Head(toServer[c]), f.kind \in {"push", "pull"},
         server' = [server EXCEPT ![c].inFlight = @ + 1],
         NEW h, h = [conn |-> c, id |-> f.id, kind |-> f.kind, stage |-> "admit",
                     mark |-> 0, advanced |-> FALSE],
         work' = work \cup {h}
  PROVE  ConnSafe'
PROOF
<1>1. PICK S : S = Tail(toServer[c])
  OBVIOUS
<1>2. PICK n \in Nat : n = client[c].sent
  BY ConnFacts DEF Client
<1>3. PICK s : s = [server[c] EXCEPT !.inFlight = server[c].inFlight + 1]
  OBVIOUS
<1>4. S \in Seq(Frame) /\ toServer' = [toServer EXCEPT ![c] = S] /\ f \in In(toServer[c]) /\ f \in Frame
  BY <1>1, ConnFacts, InTail
<1>5. /\ h \in Handler /\ h.conn = c /\ h.id = f.id /\ h.kind = f.kind /\ h.mark = 0
      /\ h.advanced = FALSE
  BY <1>4 DEF Handler, Frame
<1>6. \A g \in Running(work, c) : g.id # h.id
  BY <1>4, <1>5, ConnFacts DEF Ids
<1>7. /\ WorkOK(work') /\ Running(work', c) = Running(work, c) \cup {h}
      /\ Cardinality(Running(work', c)) = Cardinality(Running(work, c)) + 1
      /\ \A d : d # c => Running(work', d) = Running(work, d)
  <2>1. WorkOK(work) /\ \A g \in Running(work, h.conn) : g.id # h.id
    BY <1>5, <1>6 DEF ConnSafe
  <2>2. PICK W : W = work
    OBVIOUS
  <2>3. /\ WorkOK(W \cup {h})
        /\ Running(W \cup {h}, h.conn) = Running(W, h.conn) \cup {h}
        /\ Cardinality(Running(W \cup {h}, h.conn)) = Cardinality(Running(W, h.conn)) + 1
        /\ \A d : d # h.conn => Running(W \cup {h}, d) = Running(W, d)
    <3>1. WorkOK(W) /\ \A g \in Running(W, h.conn) : g.id # h.id
      BY <2>1, <2>2
    <3> QED
      BY ONLY <3>1, <1>5, WorkStarts
  <2> QED
    BY <1>5, <2>2, <2>3
<1>8. MarksOK(work', checkpoint, unhinted)
  <2>1. MarksOK(work, checkpoint, unhinted)
    BY DEF ConnSafe
  <2> QED
    BY <1>5, <2>1, Bounds DEF MarksOK
<1>9. s \in Server /\ s.state = "open" /\ s.hub = server[c].hub
      /\ s.inFlight = server[c].inFlight + 1 /\ server[c].inFlight \in Nat
  BY <1>3, ConnFacts DEF Server, Open
<1>10. server' = [server EXCEPT ![c] = s]
  BY <1>3
<1>11. Serves(c, s, S, toClient[c], work')
  <2>1. Serves(c, server[c], toServer[c], toClient[c], work)
    BY ConnFacts
  <2>2. c \in Ws => server[c].inFlight < MaxInFlight
    BY <1>9, Bounds DEF Crowded
  <2>3. c \in Ws => s.inFlight <= MaxInFlight
    BY <1>9, <2>2, Bounds
  <2> QED
    BY <1>7, <1>9, <2>1, <2>3 DEF Serves, Open
<1>12. Ids(n, client[c].pending, S, toClient[c], Running(work', c))
  <2>1. Ids(n, client[c].pending, toServer[c], toClient[c], Running(work, c))
    BY <1>2, ConnFacts
  <2>2. PICK P, Q, A, R : /\ P = client[c].pending /\ Q = toServer[c] /\ A = toClient[c]
                          /\ R = Running(work, c)
    OBVIOUS
  <2>3. /\ Q \in Seq(Frame) /\ Q # <<>> /\ Ids(n, P, Q, A, R)
        /\ h.id = Head(Q).id /\ h.kind = Head(Q).kind
    BY <1>5, <2>1, <2>2, ConnFacts
  <2>4. Ids(n, P, Tail(Q), A, R \cup {h})
    BY <2>3, IdsTake
  <2> QED
    BY <1>1, <1>7, <2>2, <2>4
<1>13. \A d \in Conn : Hints(toClient[d], unhinted[d], checkpoint, work')
  <2>1. \A d \in Conn : Hints(toClient[d], unhinted[d], checkpoint, work)
    BY ConnFacts
  <2> QED
    BY <1>5, <2>1 DEF Hints
<1>14. ASSUME NEW d \in Conn PROVE ConnOK(d)'
  <2>1. CASE d = c
    <3>1. server'[d] = s /\ toServer'[d] = S
      BY <1>4, <1>10, <2>1 DEF ConnSafe, ConnTypes
    <3> QED
      BY <1>2, <1>11, <1>12, <1>13, <2>1, <3>1, ConnFacts DEF ConnOK
  <2>2. CASE d # c
    <3>1. server'[d] = server[d] /\ toServer'[d] = toServer[d]
      BY <1>4, <1>10, <2>2 DEF ConnSafe, ConnTypes
    <3>2. Running(work', d) = Running(work, d)
      BY <1>7, <2>2
    <3>3. Serves(d, server[d], toServer[d], toClient[d], work')
      BY <3>2, ConnFacts DEF Serves
    <3> QED
      BY <1>13, <3>1, <3>2, <3>3, ConnFacts DEF ConnOK
  <2> QED
    BY <2>1, <2>2
<1>15. ConnTypes'
  <2>1. server' \in [Conn -> Server]
    BY <1>9, <1>10 DEF ConnSafe, ConnTypes
  <2>2. toServer' \in [Conn -> Seq(Frame)]
    BY <1>4 DEF ConnSafe, ConnTypes
  <2> QED
    BY <2>1, <2>2 DEF ConnSafe, ConnTypes
<1> QED
  BY <1>7, <1>8, <1>14, <1>15 DEF ConnSafe

LEMMA TakeSafe ==
  ASSUME ConnSafe, NEW c \in Conn, Receive(c)
  PROVE  ConnSafe'
PROOF
<1>1. PICK f : f = Head(toServer[c])
  OBVIOUS
<1>2. /\ toServer[c] # <<>> /\ toServer' = [toServer EXCEPT ![c] = Tail(@)]
      /\ UNCHANGED <<checkpoint, client, faults, unhinted>>
      /\ \/ ~ Open(c) /\ UNCHANGED <<server, work, toClient>>
         \/ Open(c) /\ (f.kind = "binary" \/ Crowded(c)) /\ Retire(c)
         \/ /\ Open(c) /\ ~ Crowded(c) /\ Undispatchable(f)
            /\ toClient' = Reply(c, [kind |-> "error", id |-> ReadableId(f), mark |-> 0], toClient)
            /\ UNCHANGED <<server, work>>
         \/ /\ Open(c) /\ ~ Crowded(c) /\ f.kind \in {"push", "pull"}
            /\ server' = [server EXCEPT ![c].inFlight = @ + 1]
            /\ work' = work \cup {[conn |-> c, id |-> f.id, kind |-> f.kind, stage |-> "admit",
                                   mark |-> 0, advanced |-> FALSE]}
            /\ UNCHANGED toClient
  BY <1>1 DEF Receive
<1>3. CASE /\ Open(c) /\ ~ Crowded(c) /\ f.kind \in {"push", "pull"}
           /\ server' = [server EXCEPT ![c].inFlight = @ + 1]
           /\ work' = work \cup {[conn |-> c, id |-> f.id, kind |-> f.kind, stage |-> "admit",
                                  mark |-> 0, advanced |-> FALSE]}
           /\ UNCHANGED toClient
  BY <1>1, <1>2, <1>3, StartSafe
<1> QED
  BY <1>1, <1>2, <1>3, ReceiveSafe

\* The checkpoint moves from k to m or stays, and of W at most one handler is
\* new in V: if it is the one that advanced the checkpoint, the others are still
\* to be told by it.
GoOn(W, k, U, V, m, T, g) ==
  /\ m = k \/ m = k + 1
  /\ V \subseteq W \cup {g} /\ g.mark \in Nat /\ g.mark <= m
  /\ \A c \in Conn : T[c] \subseteq U[c] \cup (k + 1) .. m
  /\ g.advanced => /\ g.stage = "done" /\ m = k + 1 /\ g.mark = m
                   /\ \A c \in Conn \ {g.conn} : T[c] = U[c]

LEMMA MarksGoOn ==
  ASSUME NEW W \in SUBSET Handler, NEW k \in Nat, NEW U, MarksOK(W, k, U),
         NEW m \in Nat, NEW T, NEW V, NEW g, GoOn(W, k, U, V, m, T, g)
  PROVE  /\ MarksOK(V, m, T)
         /\ \A c \in Conn : \A A \in Seq(Answer) : Hints(A, U[c], k, W) => Hints(A, T[c], m, V)
PROOF
<1> USE DEF GoOn
<1>1. \A x \in W : x.mark \in Nat /\ x.mark <= k
  BY DEF MarksOK, Handler
<1>2. \A x \in V : x \in W \/ x = g
  OBVIOUS
<1>3. \A x \in V : x.mark <= m
  BY <1>1, <1>2
<1>4. ASSUME NEW c \in Conn PROVE U[c] \subseteq 0 .. k /\ T[c] \subseteq 0 .. m
  BY DEF MarksOK
<1>5. ASSUME NEW x \in V, x.advanced
      PROVE  x.stage = "done" /\ x.mark > 0 /\ \A c \in Conn \ {x.conn} : x.mark \notin T[c]
  <2>1. CASE x \in W
    <3>1. x.stage = "done" /\ x.mark > 0 /\ \A c \in Conn \ {x.conn} : x.mark \notin U[c]
      BY <1>5, <2>1 DEF MarksOK
    <3>2. x.mark \notin (k + 1) .. m
      BY <1>1, <2>1
    <3> QED
      BY <3>1, <3>2
  <2>2. CASE x = g
    <3>1. g.stage = "done" /\ g.mark = k + 1 /\ \A c \in Conn \ {g.conn} : T[c] = U[c]
      BY <1>5, <2>2
    <3>2. \A c \in Conn : k + 1 \notin U[c]
      BY <1>4
    <3> QED
      BY <2>2, <3>1, <3>2
  <2> QED
    BY <1>2, <2>1, <2>2
<1>6. ASSUME NEW x \in V, NEW y \in V, x.advanced, y.advanced, x.mark = y.mark
      PROVE  x = y
  <2>1. CASE x \in W /\ y \in W
    BY <1>6, <2>1 DEF MarksOK
  <2>2. CASE x = g /\ y \in W
    <3>1. g.mark = k + 1 /\ y.mark <= k /\ y.mark \in Nat
      BY <1>1, <1>6, <2>2
    <3> QED
      BY <1>6, <2>2, <3>1
  <2>3. CASE y = g /\ x \in W
    <3>1. g.mark = k + 1 /\ x.mark <= k /\ x.mark \in Nat
      BY <1>1, <1>6, <2>3
    <3> QED
      BY <1>6, <2>3, <3>1
  <2> QED
    BY <1>2, <2>1, <2>2, <2>3
<1>7. MarksOK(V, m, T)
  BY <1>3, <1>4, <1>5, <1>6 DEF MarksOK
<1>8. ASSUME NEW c \in Conn, NEW A \in Seq(Answer), Hints(A, U[c], k, W)
      PROVE  Hints(A, T[c], m, V)
  <2> SUFFICES ASSUME NEW a \in In(A)
               PROVE  /\ a.mark <= m
                      /\ a.kind = "changed" =>
                           /\ a.mark > 0 /\ a.mark \notin T[c]
                           /\ \A h \in V : h.advanced => h.mark # a.mark
    BY DEF Hints
  <2>1. a.mark \in Nat /\ a.mark <= k
    <3>1. In(A) \subseteq Answer
      BY InSeq
    <3> QED
      BY <1>8, <3>1 DEF Hints, Answer
  <2>2. ASSUME a.kind = "changed"
        PROVE  a.mark > 0 /\ a.mark \notin U[c] /\ \A h \in W : h.advanced => h.mark # a.mark
    BY <1>8, <2>2 DEF Hints
  <2>3. a.mark \notin (k + 1) .. m /\ (g.advanced => g.mark # a.mark)
    BY <2>1
  <2>4. a.mark <= m
    BY <2>1
  <2> QED
    BY <1>2, <2>2, <2>3, <2>4
<1> QED
  BY <1>7, <1>8

\* A handler goes on; a push may commit.
LEMMA GoesOnSafe ==
  ASSUME ConnSafe, NEW h \in work, NEW g \in Handler,
         g.conn = h.conn, g.id = h.id, g.kind = h.kind, Becomes(h, g),
         UNCHANGED <<server, toServer, toClient, client>>, faults' \in 0 .. MaxFaults,
         checkpoint' = checkpoint \/ checkpoint' = checkpoint + 1,
         checkpoint' \in 0 .. MaxCommits, unhinted' \in [Conn -> SUBSET Nat],
         \A c \in Conn : unhinted'[c] \subseteq unhinted[c] \cup (checkpoint + 1) .. checkpoint',
         g.mark <= checkpoint',
         g.advanced => /\ g.stage = "done" /\ checkpoint' = checkpoint + 1
                       /\ g.mark = checkpoint'
                       /\ \A c \in Conn \ {g.conn} : unhinted'[c] = unhinted[c]
  PROVE  ConnSafe'
PROOF
<1>1. PICK W, V : W = work /\ V = work'
  OBVIOUS
<1>2. PICK k, m \in Nat : k = checkpoint /\ m = checkpoint'
  BY Bounds
<1>3. PICK U, T : U = unhinted /\ T = unhinted'
  OBVIOUS
<1>4. /\ WorkOK(W) /\ MarksOK(W, k, U) /\ h \in W /\ V = (W \ {h}) \cup {g}
      /\ W \in SUBSET Handler /\ (m = k \/ m = k + 1)
      /\ \A c \in Conn : T[c] \subseteq U[c] \cup (k + 1) .. m
  BY <1>1, <1>2, <1>3 DEF ConnSafe, Becomes, WorkOK
<1>5. /\ WorkOK(V)
      /\ \A c : Cardinality(Running(V, c)) = Cardinality(Running(W, c))
      /\ \A c : \A x \in Running(V, c) :
           \E y \in Running(W, c) : x.id = y.id /\ x.kind = y.kind
  <2>1. /\ h \in W /\ g \in Handler /\ g.conn = h.conn /\ g.id = h.id /\ g.kind = h.kind
        /\ WorkOK(W) /\ Replaces(V, W, h, g)
    BY <1>4 DEF Replaces
  <2> QED
    BY ONLY <2>1, WorkGoesOn
<1>6. /\ MarksOK(V, m, T)
      /\ \A c \in Conn : \A A \in Seq(Answer) : Hints(A, U[c], k, W) => Hints(A, T[c], m, V)
  <2>1. g.mark \in Nat
    BY DEF Handler
  <2>2. /\ g.mark <= m
        /\ g.advanced => /\ g.stage = "done" /\ m = k + 1 /\ g.mark = m
                         /\ \A c \in Conn \ {g.conn} : T[c] = U[c]
    BY <1>2, <1>3
  <2>3. GoOn(W, k, U, V, m, T, g)
    BY <1>4, <2>1, <2>2 DEF GoOn
  <2>4. W \in SUBSET Handler /\ MarksOK(W, k, U)
    BY <1>4
  <2>5. MarksOK(V, m, T)
    BY <2>3, <2>4, MarksGoOn
  <2>6. \A c \in Conn : \A A \in Seq(Answer) : Hints(A, U[c], k, W) => Hints(A, T[c], m, V)
    BY <2>3, <2>4, MarksGoOn
  <2> QED
    BY <2>5, <2>6
<1>7. ASSUME NEW c \in Conn PROVE ConnOK(c)'
  <2>1. PICK n \in Nat : n = client[c].sent
    BY ConnFacts DEF Client
  <2>2. PICK S, A : S = toServer[c] /\ A = toClient[c] /\ S \in Seq(Frame) /\ A \in Seq(Answer)
    BY ConnFacts
  <2>3. /\ Serves(c, server[c], S, A, W) /\ Hints(A, U[c], k, W)
        /\ Ids(n, client[c].pending, S, A, Running(W, c)) /\ client[c].known <= k
        /\ client[c].known \in Nat
    BY <1>1, <1>2, <1>3, <2>1, <2>2, ConnFacts DEF Client
  <2>4. Serves(c, server[c], S, A, V)
    BY <1>5, <2>3 DEF Serves
  <2>5. Ids(n, client[c].pending, S, A, Running(V, c))
    <3>1. PICK P, R, G : P = client[c].pending /\ R = Running(W, c) /\ G = Running(V, c)
      OBVIOUS
    <3>2. /\ n \in Nat /\ S \in Seq(Frame) /\ Ids(n, P, S, A, R)
          /\ \A x \in G : \E y \in R : x.id = y.id /\ x.kind = y.kind
      BY <1>5, <2>2, <2>3, <3>1
    <3>3. P \subseteq P /\ S \in {S, <<>>} /\ In(A) \subseteq In(A)
      OBVIOUS
    <3>4. Ids(n, P, S, A, G)
      BY ONLY <3>2, <3>3, IdsShrink
    <3> QED
      BY <3>1, <3>4
  <2>6. Hints(A, T[c], m, V)
    BY <1>6, <2>2, <2>3
  <2>7. client[c].known <= m
    BY <1>2, <1>4, <2>3
  <2> QED
    BY <1>1, <1>2, <1>3, <2>1, <2>2, <2>4, <2>5, <2>6, <2>7 DEF ConnOK
<1>8. ConnTypes'
  BY DEF ConnSafe, ConnTypes
<1> QED
  BY <1>1, <1>2, <1>3, <1>5, <1>6, <1>7, <1>8 DEF ConnSafe

LEMMA HandlerFacts ==
  ASSUME ConnSafe, NEW h \in work
  PROVE  /\ h \in Handler /\ h.mark \in Nat /\ h.mark <= checkpoint
         /\ h.stage # "done" => h.advanced = FALSE
         /\ h.conn \in Conn \cup {"http"} /\ h.kind \in {"push", "pull"} /\ h.id \in Nat
         /\ checkpoint \in 0 .. MaxCommits /\ faults \in 0 .. MaxFaults
         /\ unhinted \in [Conn -> SUBSET Nat]
BY DEF ConnSafe, ConnTypes, WorkOK, MarksOK, Handler

\* A handler is admitted, refused, or fails; its commit may be left untold.
LEMMA StageSafe ==
  ASSUME ConnSafe, NEW h \in work, h.stage # "done",
         NEW stage \in {"call", "failed"}, Becomes(h, [h EXCEPT !.stage = stage]),
         UNCHANGED <<server, toServer, toClient, client>>, faults' \in 0 .. MaxFaults,
         checkpoint' = checkpoint \/ checkpoint' = checkpoint + 1,
         checkpoint' \in 0 .. MaxCommits, unhinted' \in [Conn -> SUBSET Nat],
         \A c \in Conn : unhinted'[c] \subseteq unhinted[c] \cup (checkpoint + 1) .. checkpoint'
  PROVE  ConnSafe'
PROOF
<1>1. PICK g : g = [h EXCEPT !.stage = stage]
  OBVIOUS
<1>2. h \in Handler /\ h.mark \in Nat /\ h.mark <= checkpoint /\ h.advanced = FALSE
  BY HandlerFacts
<1>3. /\ g \in Handler /\ g.conn = h.conn /\ g.id = h.id /\ g.kind = h.kind
      /\ g.mark = h.mark /\ g.advanced = FALSE
  BY <1>1, <1>2 DEF Handler
<1>4. Becomes(h, g)
  BY <1>1
<1>5. g.mark <= checkpoint'
  BY <1>2, <1>3, Bounds
<1> QED
  BY <1>3, <1>4, <1>5, GoesOnSafe

\* What a commit leaves untold.
LEMMA UntoldFacts ==
  ASSUME ConnSafe, Advance, NEW S, Untold(S)
  PROVE  /\ checkpoint' = checkpoint + 1 /\ checkpoint' \in 0 .. MaxCommits
         /\ unhinted' \in [Conn -> SUBSET Nat]
         /\ \A c \in Conn : unhinted'[c] \subseteq unhinted[c] \cup (checkpoint + 1) .. checkpoint'
         /\ \A c \in Conn \ S : unhinted'[c] = unhinted[c]
PROOF
<1>1. checkpoint' = checkpoint + 1 /\ checkpoint' \in 0 .. MaxCommits /\ checkpoint' \in Nat
  BY Bounds DEF Advance
<1>2. unhinted \in [Conn -> SUBSET Nat]
  BY DEF ConnSafe, ConnTypes
<1>3. PICK k \in Nat : k = checkpoint'
  BY <1>1
<1>4. unhinted' = [c \in Conn |-> IF c \in S THEN unhinted[c] \cup {k} ELSE unhinted[c]]
  BY <1>3 DEF Untold
<1>5. k \in (checkpoint + 1) .. checkpoint'
  BY <1>1, <1>3, Bounds
<1> QED
  BY <1>1, <1>2, <1>4, <1>5

LEMMA AdmitSafe ==
  ASSUME ConnSafe, NEW h \in work, Admit(h)
  PROVE  ConnSafe'
PROOF
<1>1. /\ h.stage = "admit" /\ UNCHANGED <<checkpoint, server, toServer, toClient, client, unhinted>>
      /\ \/ Becomes(h, [h EXCEPT !.stage = "call"]) /\ UNCHANGED faults
         \/ Fault /\ Becomes(h, [h EXCEPT !.stage = "failed"])
  BY DEF Admit
<1>2. faults' \in 0 .. MaxFaults
  BY <1>1, FaultBound, Bounds
<1>3. PICK stage \in {"call", "failed"} : Becomes(h, [h EXCEPT !.stage = stage])
  BY <1>1
<1>4. /\ checkpoint' = checkpoint /\ checkpoint' \in 0 .. MaxCommits
      /\ unhinted' \in [Conn -> SUBSET Nat]
      /\ \A c \in Conn : unhinted'[c] \subseteq unhinted[c] \cup (checkpoint + 1) .. checkpoint'
  BY <1>1, HandlerFacts
<1> QED
  BY <1>1, <1>2, <1>3, <1>4, StageSafe

LEMMA CallFailsSafe ==
  ASSUME ConnSafe, NEW h \in work, CallFails(h)
  PROVE  ConnSafe'
PROOF
<1>1. /\ h.stage # "done" /\ UNCHANGED <<checkpoint, server, toServer, toClient, client, unhinted>>
      /\ Becomes(h, [h EXCEPT !.stage = "failed"]) /\ faults' \in 0 .. MaxFaults
  BY FaultBound DEF CallFails
<1>2. /\ checkpoint' = checkpoint /\ checkpoint' \in 0 .. MaxCommits
      /\ unhinted' \in [Conn -> SUBSET Nat]
      /\ \A c \in Conn : unhinted'[c] \subseteq unhinted[c] \cup (checkpoint + 1) .. checkpoint'
  BY <1>1, HandlerFacts
<1>3. PICK stage \in {"call", "failed"} : Becomes(h, [h EXCEPT !.stage = stage])
  BY <1>1
<1> QED
  BY <1>1, <1>2, <1>3, StageSafe

LEMMA CommitLostSafe ==
  ASSUME ConnSafe, NEW h \in work, CommitLost(h)
  PROVE  ConnSafe'
PROOF
<1>1. /\ h.stage # "done" /\ UNCHANGED <<server, toServer, toClient, client>>
      /\ Becomes(h, [h EXCEPT !.stage = "failed"]) /\ faults' \in 0 .. MaxFaults
  BY FaultBound DEF CommitLost
<1>2. /\ checkpoint' = checkpoint + 1 /\ checkpoint' \in 0 .. MaxCommits
      /\ unhinted' \in [Conn -> SUBSET Nat]
      /\ \A c \in Conn : unhinted'[c] \subseteq unhinted[c] \cup (checkpoint + 1) .. checkpoint'
  BY UntoldFacts DEF CommitLost
<1>3. PICK stage \in {"call", "failed"} : Becomes(h, [h EXCEPT !.stage = stage])
  BY <1>1
<1> QED
  BY <1>1, <1>2, <1>3, StageSafe

LEMMA ReadPageSafe ==
  ASSUME ConnSafe, NEW h \in work, ReadPage(h)
  PROVE  ConnSafe'
PROOF
<1>1. PICK g : g = [h EXCEPT !.stage = "done", !.mark = checkpoint]
  OBVIOUS
<1>2. /\ h.stage = "call" /\ Becomes(h, g)
      /\ UNCHANGED <<checkpoint, server, toServer, toClient, client, faults, unhinted>>
  BY <1>1 DEF ReadPage
<1>3. /\ h \in Handler /\ h.advanced = FALSE /\ checkpoint \in Nat /\ checkpoint <= checkpoint
  <2>1. h.stage # "done"
    BY <1>2
  <2>2. h \in Handler /\ h.advanced = FALSE
    BY <2>1, HandlerFacts
  <2>3. checkpoint \in Nat
    BY Bounds
  <2> QED
    BY <2>2, <2>3
<1>4. /\ g \in Handler /\ g.conn = h.conn /\ g.id = h.id /\ g.kind = h.kind
      /\ g.mark = checkpoint /\ g.advanced = FALSE
  BY <1>1, <1>3 DEF Handler
<1>5. /\ checkpoint' = checkpoint /\ checkpoint' \in 0 .. MaxCommits
      /\ unhinted' \in [Conn -> SUBSET Nat] /\ faults' \in 0 .. MaxFaults
      /\ \A c \in Conn : unhinted'[c] \subseteq unhinted[c] \cup (checkpoint + 1) .. checkpoint'
  BY <1>2, HandlerFacts
<1> QED
  BY <1>2, <1>3, <1>4, <1>5, GoesOnSafe

LEMMA CommitSafe ==
  ASSUME ConnSafe, NEW h \in work, Commit(h)
  PROVE  ConnSafe'
PROOF
<1>1. /\ h.stage = "call" /\ UNCHANGED <<server, toServer, toClient, client, faults>>
      /\ (Advance /\ Untold({h.conn})) \/ UNCHANGED <<checkpoint, unhinted>>
  BY DEF Commit
<1>2. /\ checkpoint' = checkpoint \/ checkpoint' = checkpoint + 1
      /\ checkpoint' \in 0 .. MaxCommits /\ unhinted' \in [Conn -> SUBSET Nat]
      /\ \A c \in Conn : unhinted'[c] \subseteq unhinted[c] \cup (checkpoint + 1) .. checkpoint'
      /\ checkpoint' > checkpoint => /\ checkpoint' = checkpoint + 1
                                     /\ \A c \in Conn \ {h.conn} : unhinted'[c] = unhinted[c]
  <2>1. CASE Advance /\ Untold({h.conn})
    BY <2>1, UntoldFacts
  <2>2. CASE UNCHANGED <<checkpoint, unhinted>>
    <3>1. checkpoint \in 0 .. MaxCommits /\ unhinted \in [Conn -> SUBSET Nat]
      BY HandlerFacts
    <3> QED
      BY <2>2, <3>1, Bounds
  <2> QED
    BY <1>1, <2>1, <2>2
<1>3. PICK m \in Nat : m = checkpoint'
  <2>1. checkpoint' \in Nat
    BY <1>2, Bounds
  <2> QED
    BY <2>1
<1>4. PICK advanced \in BOOLEAN : advanced = (m > checkpoint)
  <2>1. CASE m > checkpoint
    BY <2>1
  <2>2. CASE ~(m > checkpoint)
    <3>1. FALSE = (m > checkpoint)
      BY <2>2
    <3> QED
      BY <3>1
  <2> QED
    BY <2>1, <2>2
<1>5. PICK g : g = [h EXCEPT !.stage = "done", !.mark = m, !.advanced = advanced]
  OBVIOUS
<1>6. Becomes(h, g)
  BY <1>3, <1>4, <1>5 DEF Commit
<1>7. h \in Handler
  BY HandlerFacts
<1>8. /\ g \in Handler /\ g.conn = h.conn /\ g.id = h.id /\ g.kind = h.kind
      /\ g.stage = "done" /\ g.mark = m /\ g.advanced = advanced
  BY <1>5, <1>7 DEF Handler
<1>9. g.mark <= checkpoint' /\ faults' \in 0 .. MaxFaults
  BY <1>1, <1>3, <1>8, Bounds
<1>10. g.advanced => /\ g.stage = "done" /\ checkpoint' = checkpoint + 1
                     /\ g.mark = checkpoint'
                     /\ \A c \in Conn \ {g.conn} : unhinted'[c] = unhinted[c]
  BY <1>2, <1>3, <1>4, <1>8
<1> QED
  BY <1>1, <1>2, <1>6, <1>8, <1>9, <1>10, GoesOnSafe

\* A push over HTTP begins: no frame, and no connection is affected.
LEMMA HttpPushSafe ==
  ASSUME ConnSafe, HttpPush
  PROVE  ConnSafe'
PROOF
<1>1. PICK id \in Nat : id = 0
  OBVIOUS
<1>2. PICK h : h = [conn |-> "http", id |-> id, kind |-> "push", stage |-> "call",
                    mark |-> 0, advanced |-> FALSE]
  OBVIOUS
<1>3. h \in Handler /\ h.conn = "http" /\ h.mark = 0 /\ h.advanced = FALSE
  BY <1>2 DEF Handler
<1>4. PICK W, V : W = work /\ V = W \cup {h}
  OBVIOUS
<1>5. /\ work' = V /\ \A g \in Running(W, h.conn) : g.id # h.id
      /\ UNCHANGED <<checkpoint, server, toServer, toClient, client, faults, unhinted>>
  BY <1>1, <1>2, <1>3, <1>4 DEF HttpPush, Running
<1>6. WorkOK(W) /\ MarksOK(W, checkpoint, unhinted) /\ W \in SUBSET Handler
  BY <1>4 DEF ConnSafe, WorkOK
<1>7. WorkOK(V) /\ \A c : c # h.conn => Running(V, c) = Running(W, c)
  <2>1. /\ WorkOK(W \cup {h})
        /\ \A c : c # h.conn => Running(W \cup {h}, c) = Running(W, c)
    BY <1>3, <1>5, <1>6, WorkStarts
  <2> QED
    BY <1>4, <2>1
<1>8. PICK k \in Nat : k = checkpoint
  BY Bounds
<1>9. PICK U : U = unhinted
  OBVIOUS
<1>10. /\ MarksOK(V, k, U)
       /\ \A c \in Conn : \A A \in Seq(Answer) : Hints(A, U[c], k, W) => Hints(A, U[c], k, V)
  <2>1. GoOn(W, k, U, V, k, U, h)
    BY <1>3, <1>4 DEF GoOn
  <2>2. MarksOK(W, k, U)
    BY <1>6, <1>8, <1>9
  <2>3. MarksOK(V, k, U)
    BY <1>6, <2>1, <2>2, MarksGoOn
  <2>4. \A c \in Conn : \A A \in Seq(Answer) : Hints(A, U[c], k, W) => Hints(A, U[c], k, V)
    BY <1>6, <2>1, <2>2, MarksGoOn
  <2> QED
    BY <2>3, <2>4
<1>11. ASSUME NEW c \in Conn PROVE ConnOK(c)'
  <2>1. Running(V, c) = Running(W, c)
    BY <1>3, <1>7, ConnectionsAssumption DEF Conn
  <2>2. Serves(c, server[c], toServer[c], toClient[c], V)
    BY <1>4, <2>1, ConnFacts DEF Serves
  <2>3. Hints(toClient[c], U[c], k, V)
    BY <1>4, <1>8, <1>9, <1>10, ConnFacts
  <2> QED
    BY <1>4, <1>5, <1>8, <1>9, <2>1, <2>2, <2>3, ConnFacts DEF ConnOK
<1>12. ConnTypes'
  BY <1>5 DEF ConnSafe, ConnTypes
<1> QED
  BY <1>5, <1>7, <1>8, <1>9, <1>10, <1>11, <1>12 DEF ConnSafe

\* Captured direct SQL: the checkpoint moves, nobody is told.
LEMMA DirectSqlSafe ==
  ASSUME ConnSafe, DirectSql
  PROVE  ConnSafe'
PROOF
<1>1. /\ Advance /\ Untold(Conn) /\ faults' \in 0 .. MaxFaults
      /\ UNCHANGED <<server, toServer, toClient, work, client>>
  BY FaultBound DEF DirectSql
<1>2. /\ checkpoint' = checkpoint + 1 /\ checkpoint' \in 0 .. MaxCommits
      /\ unhinted' \in [Conn -> SUBSET Nat]
      /\ \A c \in Conn : unhinted'[c] \subseteq unhinted[c] \cup (checkpoint + 1) .. checkpoint'
  BY <1>1, UntoldFacts
<1>3. PICK k, m \in Nat : k = checkpoint /\ m = checkpoint'
  BY <1>2, Bounds
<1>4. PICK W, U, T : W = work /\ U = unhinted /\ T = unhinted'
  OBVIOUS
<1>5. PICK g : g = [mark |-> k, advanced |-> FALSE]
  OBVIOUS
<1>6. WorkOK(W) /\ MarksOK(W, k, U) /\ W \in SUBSET Handler
  BY <1>3, <1>4 DEF ConnSafe, WorkOK
<1>7. GoOn(W, k, U, W, m, T, g)
  BY <1>2, <1>3, <1>4, <1>5 DEF GoOn
<1>8. MarksOK(W, m, T)
  BY <1>6, <1>7, MarksGoOn
<1>9. \A c \in Conn : \A A \in Seq(Answer) : Hints(A, U[c], k, W) => Hints(A, T[c], m, W)
  BY <1>6, <1>7, MarksGoOn
<1>10. ASSUME NEW c \in Conn PROVE ConnOK(c)'
  <2>1. client[c].known \in Nat /\ client[c].known <= k
    BY <1>3, ConnFacts DEF Client
  <2>2. client[c].known <= m
    BY <1>2, <1>3, <2>1
  <2>3. Hints(toClient[c], T[c], m, W)
    BY <1>3, <1>4, <1>9, ConnFacts
  <2> QED
    BY <1>1, <1>3, <1>4, <2>2, <2>3, ConnFacts DEF ConnOK
<1>11. ConnTypes'
  BY <1>1, <1>2 DEF ConnSafe, ConnTypes
<1> QED
  BY <1>1, <1>3, <1>4, <1>6, <1>8, <1>10, <1>11 DEF ConnSafe

\* What a settled handler leaves: the marks and hints of the others, and its own
\* mark among those that some connections were not told.
LEMMA SettleMarks ==
  ASSUME NEW W \in SUBSET Handler, NEW k \in Nat, NEW U, MarksOK(W, k, U), NEW h \in W,
         NEW T, \A c \in Conn : T[c] \subseteq U[c] \cup {x \in {h.mark} : h.advanced}
  PROVE  /\ MarksOK(W \ {h}, k, T)
         /\ \A c \in Conn : \A A \in Seq(Answer) :
              Hints(A, U[c], k, W) => Hints(A, T[c], k, W \ {h})
PROOF
<1>1. h.mark \in 0 .. k
  BY DEF MarksOK, Handler
<1>2. \A x \in W \ {h} : x.advanced /\ h.advanced => x.mark # h.mark
  BY DEF MarksOK
<1>3. ASSUME NEW x \in W \ {h}, x.advanced
      PROVE  x.stage = "done" /\ x.mark > 0 /\ \A c \in Conn \ {x.conn} : x.mark \notin T[c]
  <2>1. x.stage = "done" /\ x.mark > 0 /\ \A c \in Conn \ {x.conn} : x.mark \notin U[c]
    BY <1>3 DEF MarksOK
  <2> QED
    BY <1>2, <1>3, <2>1
<1>4. \A c \in Conn : T[c] \subseteq 0 .. k
  BY <1>1 DEF MarksOK
<1>5. \A x, y \in W \ {h} : x.advanced /\ y.advanced /\ x.mark = y.mark => x = y
  BY DEF MarksOK
<1>6. \A x \in W \ {h} : x.mark <= k
  BY DEF MarksOK
<1>7. MarksOK(W \ {h}, k, T)
  BY <1>3, <1>4, <1>5, <1>6 DEF MarksOK
<1>8. ASSUME NEW c \in Conn, NEW A \in Seq(Answer), Hints(A, U[c], k, W)
      PROVE  Hints(A, T[c], k, W \ {h})
  <2> SUFFICES ASSUME NEW a \in In(A)
               PROVE  /\ a.mark <= k
                      /\ a.kind = "changed" =>
                           /\ a.mark > 0 /\ a.mark \notin T[c]
                           /\ \A x \in W \ {h} : x.advanced => x.mark # a.mark
    BY DEF Hints
  <2>1. a.mark <= k
    BY <1>8 DEF Hints
  <2>2. ASSUME a.kind = "changed"
        PROVE  a.mark > 0 /\ a.mark \notin U[c] /\ \A x \in W : x.advanced => x.mark # a.mark
    BY <1>8, <2>2 DEF Hints
  <2> QED
    BY <2>1, <2>2
<1> QED
  BY <1>7, <1>8

\* The values a settled handler leaves.
LEMMA SettleValues ==
  ASSUME ConnSafe, NEW h \in work, Settle(h), NEW a,
         a = [kind |-> IF h.stage = "done" THEN h.kind ELSE "error", id |-> h.id,
              mark |-> h.mark],
         NEW hint, hint = [kind |-> "changed", id |-> 0, mark |-> h.mark]
  PROVE  /\ work' = work \ {h} /\ UNCHANGED <<checkpoint, toServer, client, faults>>
         /\ unhinted' \in [Conn -> SUBSET Nat]
         /\ \A c \in Conn :
              /\ unhinted'[c] \subseteq unhinted[c] \cup {x \in {h.mark} : h.advanced}
              /\ c \in Hinted(h) => unhinted'[c] = unhinted[c]
         /\ server' \in [Conn -> [state : {"new", "open", "closing", "closed"},
                                  hub : BOOLEAN, inFlight : Int]]
         /\ DOMAIN toClient' = Conn /\ toClient' = [c \in Conn |-> toClient'[c]]
         /\ \A c \in Conn : c # h.conn =>
              /\ server'[c] = server[c]
              /\ toClient'[c] = IF c \in Hinted(h) THEN Append(toClient[c], hint) ELSE toClient[c]
         /\ \A c \in Conn : c = h.conn =>
              /\ server'[c] = [server[c] EXCEPT !.inFlight = server[c].inFlight - 1]
              /\ toClient'[c] = IF Open(c) THEN Append(toClient[c], a) ELSE toClient[c]
PROOF
<1>1. PICK hinted : hinted = [c \in Conn |-> IF c \in Hinted(h) THEN Append(toClient[c], hint)
                                             ELSE toClient[c]]
  OBVIOUS
<1>2. /\ work' = work \ {h} /\ UNCHANGED <<checkpoint, toServer, client, faults>>
      /\ unhinted' = [c \in Conn |->
           IF h.advanced /\ (Slow(c) \/ ~ server[c].hub) THEN unhinted[c] \cup {h.mark}
           ELSE unhinted[c]]
      /\ IF h.conn \in Conn
         THEN toClient' = Reply(h.conn, a, hinted) /\ server' = InFlightAfter(h)
         ELSE toClient' = hinted /\ UNCHANGED server
  BY <1>1 DEF Settle
<1>3. /\ h.mark \in Nat /\ unhinted \in [Conn -> SUBSET Nat] /\ server \in [Conn -> Server]
  BY HandlerFacts DEF ConnSafe, ConnTypes
<1>4. unhinted' \in [Conn -> SUBSET Nat]
  BY <1>2, <1>3
<1>5. ASSUME NEW c \in Conn
      PROVE  /\ unhinted'[c] \subseteq unhinted[c] \cup {x \in {h.mark} : h.advanced}
             /\ c \in Hinted(h) => unhinted'[c] = unhinted[c]
  BY <1>2 DEF Hinted, Listeners
<1>6. \A c \in Conn : server[c].inFlight \in Int /\ server[c].inFlight - 1 \in Int
  BY <1>3 DEF Server
<1>7. server \in [Conn -> [state : {"new", "open", "closing", "closed"},
                           hub : BOOLEAN, inFlight : Int]]
  BY <1>3 DEF Server
<1>8. /\ server' \in [Conn -> [state : {"new", "open", "closing", "closed"},
                               hub : BOOLEAN, inFlight : Int]]
      /\ \A c \in Conn : c # h.conn => server'[c] = server[c]
      /\ \A c \in Conn : c = h.conn =>
           server'[c] = [server[c] EXCEPT !.inFlight = server[c].inFlight - 1]
  BY <1>2, <1>6, <1>7 DEF InFlightAfter
<1>9. /\ DOMAIN toClient' = Conn /\ toClient' = [c \in Conn |-> toClient'[c]]
      /\ \A c \in Conn : c # h.conn => toClient'[c] = hinted[c]
      /\ \A c \in Conn : c = h.conn =>
           toClient'[c] = IF Open(c) THEN Append(hinted[c], a) ELSE hinted[c]
  BY <1>1, <1>2 DEF Reply
<1>10. \A c \in Conn : c = h.conn => hinted[c] = toClient[c]
  BY <1>1 DEF Hinted, Listeners
<1>11. \A c \in Conn : c # h.conn =>
         toClient'[c] = IF c \in Hinted(h) THEN Append(toClient[c], hint) ELSE toClient[c]
  BY <1>1, <1>9
<1>12. \A c \in Conn : c = h.conn =>
         toClient'[c] = IF Open(c) THEN Append(toClient[c], a) ELSE toClient[c]
  BY <1>9, <1>10
<1>13. \A c \in Conn : c # h.conn =>
         /\ server'[c] = server[c]
         /\ toClient'[c] = IF c \in Hinted(h) THEN Append(toClient[c], hint) ELSE toClient[c]
  BY <1>8, <1>11
<1>14. \A c \in Conn : c = h.conn =>
         /\ server'[c] = [server[c] EXCEPT !.inFlight = server[c].inFlight - 1]
         /\ toClient'[c] = IF Open(c) THEN Append(toClient[c], a) ELSE toClient[c]
  BY <1>8, <1>12
<1> QED
  BY <1>2, <1>4, <1>5, <1>8, <1>9, <1>13, <1>14

LEMMA SettleSafe ==
  ASSUME ConnSafe, NEW h \in work, Settle(h)
  PROVE  ConnSafe'
PROOF
<1>1. PICK a, hint :
        /\ a = [kind |-> IF h.stage = "done" THEN h.kind ELSE "error", id |-> h.id,
                mark |-> h.mark]
        /\ hint = [kind |-> "changed", id |-> 0, mark |-> h.mark]
  OBVIOUS
<1>2. PICK W, V : W = work /\ V = W \ {h}
  OBVIOUS
<1>3. PICK U, T : U = unhinted /\ T = unhinted'
  OBVIOUS
<1>4. PICK k \in Nat : k = checkpoint
  BY Bounds
<1>5. /\ work' = V /\ UNCHANGED <<checkpoint, toServer, client, faults>>
      /\ T \in [Conn -> SUBSET Nat]
      /\ \A c \in Conn : /\ T[c] \subseteq U[c] \cup {x \in {h.mark} : h.advanced}
                         /\ c \in Hinted(h) => T[c] = U[c]
  BY <1>1, <1>2, <1>3, SettleValues
<1>6. /\ server' \in [Conn -> [state : {"new", "open", "closing", "closed"},
                               hub : BOOLEAN, inFlight : Int]]
      /\ toClient' = [c \in Conn |-> toClient'[c]]
      /\ \A c \in Conn : c # h.conn =>
           /\ server'[c] = server[c]
           /\ toClient'[c] = IF c \in Hinted(h) THEN Append(toClient[c], hint) ELSE toClient[c]
      /\ \A c \in Conn : c = h.conn =>
           /\ server'[c] = [server[c] EXCEPT !.inFlight = server[c].inFlight - 1]
           /\ toClient'[c] = IF Open(c) THEN Append(toClient[c], a) ELSE toClient[c]
  BY <1>1, SettleValues
<1>7. /\ WorkOK(W) /\ MarksOK(W, k, U) /\ W \in SUBSET Handler /\ h \in W
  BY <1>2, <1>3, <1>4 DEF ConnSafe, WorkOK
<1>8. /\ WorkOK(V)
      /\ Running(V, h.conn) = Running(W, h.conn) \ {h} /\ h \in Running(W, h.conn)
      /\ Cardinality(Running(V, h.conn)) = Cardinality(Running(W, h.conn)) - 1
      /\ \A c : c # h.conn => Running(V, c) = Running(W, c)
  <2>1. /\ WorkOK(W \ {h})
        /\ Running(W \ {h}, h.conn) = Running(W, h.conn) \ {h} /\ h \in Running(W, h.conn)
        /\ Cardinality(Running(W \ {h}, h.conn)) = Cardinality(Running(W, h.conn)) - 1
        /\ \A c : c # h.conn => Running(W \ {h}, c) = Running(W, c)
    BY <1>7, WorkEnds
  <2> QED
    BY <1>2, <2>1
<1>9. /\ MarksOK(V, k, T)
      /\ \A c \in Conn : \A A \in Seq(Answer) : Hints(A, U[c], k, W) => Hints(A, T[c], k, V)
  <2>1. \A c \in Conn : T[c] \subseteq U[c] \cup {x \in {h.mark} : h.advanced}
    BY <1>5
  <2>2. MarksOK(W \ {h}, k, T)
    BY <1>7, <2>1, SettleMarks
  <2>3. \A c \in Conn : \A A \in Seq(Answer) :
          Hints(A, U[c], k, W) => Hints(A, T[c], k, W \ {h})
    BY <1>7, <2>1, SettleMarks
  <2> QED
    BY <1>2, <2>2, <2>3
<1>10. /\ h \in Handler /\ h.mark \in Nat /\ h.mark <= k /\ h.id \in Nat
       /\ a \in Answer /\ a.kind \in {h.kind, "error"} /\ a.kind # "changed"
       /\ a.id = h.id /\ a.mark = h.mark
       /\ hint \in Answer /\ hint.id = 0 /\ hint.mark = h.mark /\ hint.kind = "changed"
  BY <1>1, <1>4, HandlerFacts DEF Answer
<1>11. ASSUME NEW c \in Conn, c # h.conn
       PROVE  ConnOK(c)' /\ server'[c] \in Server /\ toClient'[c] \in Seq(Answer)
  <2>1. PICK n \in Nat : n = client[c].sent
    BY ConnFacts DEF Client
  <2>2. PICK S, A, P, R : /\ S = toServer[c] /\ A = toClient[c] /\ P = client[c].pending
                          /\ R = Running(W, c)
    OBVIOUS
  <2>3. /\ Serves(c, server[c], S, A, W) /\ Hints(A, U[c], k, W) /\ Ids(n, P, S, A, R)
        /\ A \in Seq(Answer) /\ S \in Seq(Frame) /\ client[c].known <= k
        /\ server[c] \in Server
    BY <1>2, <1>3, <1>4, <2>1, <2>2, ConnFacts
  <2>4. R = Running(V, c) /\ Serves(c, server[c], S, A, V) /\ Hints(A, T[c], k, V)
    BY <1>8, <1>9, <1>11, <2>2, <2>3 DEF Serves
  <2>5. CASE c \notin Hinted(h)
    <3>1. toClient'[c] = A /\ server'[c] = server[c]
      BY <1>6, <1>11, <2>2, <2>5
    <3> QED
      BY <1>3, <1>4, <1>5, <2>1, <2>2, <2>3, <2>4, <3>1 DEF ConnOK
  <2>6. CASE c \in Hinted(h)
    <3>1. PICK B : B = Append(A, hint)
      OBVIOUS
    <3>2. toClient'[c] = B /\ server'[c] = server[c]
      BY <1>6, <1>11, <2>2, <2>6, <3>1
    <3>3. In(B) = In(A) \cup {hint} /\ B \in Seq(Answer)
      BY <1>10, <2>3, <3>1, InAppend
    <3>4. server[c].hub /\ h.advanced /\ T[c] = U[c]
      BY <1>5, <2>6 DEF Hinted, Listeners
    <3>5. Serves(c, server[c], S, B, V)
      <4>1. server[c].state \notin {"new", "closed"}
        BY <2>4, <3>4 DEF Serves
      <4> QED
        BY <2>4, <4>1, ServesQueues
    <3>6. Ids(n, P, S, B, R)
      <4>1. hint \in Answer /\ hint.id <= n /\ hint.id = 0
        BY <1>10
      <4>2. A \in Seq(Answer) /\ Ids(n, P, S, A, R)
        BY <2>3
      <4>3. Ids(n, P, S, Append(A, hint), R)
        BY <4>1, <4>2, IdsAnswer
      <4> QED
        BY <3>1, <4>3
    <3>7. Hints(B, T[c], k, V)
      <4>1. h.mark > 0 /\ h.mark \notin U[c]
        BY <1>7, <1>11, <3>4 DEF MarksOK
      <4>2. \A x \in V : x.advanced => x.mark # h.mark
        BY <1>2, <1>7, <3>4 DEF MarksOK
      <4> QED
        BY <1>10, <2>4, <3>3, <3>4, <4>1, <4>2 DEF Hints
    <3> QED
      BY <1>3, <1>4, <1>5, <2>1, <2>2, <2>3, <2>4, <3>2, <3>3, <3>5, <3>6, <3>7 DEF ConnOK
  <2> QED
    BY <2>5, <2>6
<1>12. ASSUME NEW c \in Conn, c = h.conn
       PROVE  ConnOK(c)' /\ server'[c] \in Server /\ toClient'[c] \in Seq(Answer)
  <2>1. PICK n \in Nat : n = client[c].sent
    BY ConnFacts DEF Client
  <2>2. PICK S, A, P, R : /\ S = toServer[c] /\ A = toClient[c] /\ P = client[c].pending
                          /\ R = Running(W, c)
    OBVIOUS
  <2>3. /\ Serves(c, server[c], S, A, W) /\ Hints(A, U[c], k, W) /\ Ids(n, P, S, A, R)
        /\ A \in Seq(Answer) /\ S \in Seq(Frame) /\ client[c].known <= k
        /\ server[c] \in Server
    BY <1>2, <1>3, <1>4, <2>1, <2>2, ConnFacts
  <2>4. PICK s : s = [server[c] EXCEPT !.inFlight = server[c].inFlight - 1]
    OBVIOUS
  <2>5. Cardinality(Running(V, c)) \in Nat /\ Cardinality(R) \in Nat
    BY <1>7, <1>8, <2>2, RunningFinite, FS_CardinalityType
  <2>6. /\ Running(V, c) = R \ {h} /\ h \in R
        /\ Cardinality(Running(V, c)) = Cardinality(R) - 1
    BY <1>8, <1>12, <2>2
  <2>7. server[c].inFlight = Cardinality(R) /\ server[c].state # "new"
    <3>1. server[c].inFlight = Cardinality(R)
      BY <2>2, <2>3 DEF Serves
    <3>2. Cardinality(R) # 0
      BY <2>5, <2>6
    <3> QED
      BY <2>3, <3>1, <3>2 DEF Serves
  <2>8. /\ s \in Server /\ s.inFlight = Cardinality(Running(V, c)) /\ s.inFlight \in Nat
        /\ s.state = server[c].state /\ s.hub = server[c].hub
    BY <2>3, <2>4, <2>5, <2>6, <2>7 DEF Server
  <2>9. c \in Ws => s.inFlight <= MaxInFlight
    BY <2>3, <2>5, <2>6, <2>7, <2>8, Bounds DEF Serves
  <2>10. Serves(c, s, S, A, V)
    BY <2>3, <2>7, <2>8, <2>9 DEF Serves
  <2>11. Hints(A, T[c], k, V)
    BY <1>9, <2>3
  <2>12. PICK B : B = IF Open(c) THEN Append(A, a) ELSE A
    OBVIOUS
  <2>13. toClient'[c] = B /\ server'[c] = s
    BY <1>6, <1>12, <2>2, <2>4, <2>12
  <2>14. /\ B \in Seq(Answer) /\ Ids(n, P, S, B, R) /\ Hints(B, T[c], k, V)
         /\ Serves(c, s, S, B, V)
    <3>1. CASE ~ Open(c)
      BY <2>3, <2>10, <2>11, <2>12, <3>1
    <3>2. CASE Open(c)
      <4>1. B = Append(A, a)
        BY <2>12, <3>2
      <4>2. s.state \notin {"new", "closed"}
        BY <2>8, <3>2 DEF Open
      <4>3. Serves(c, s, S, B, V)
        BY <2>10, <4>2, ServesQueues
      <4>4. B \in Seq(Answer)
        BY <1>10, <2>3, <4>1, InAppend
      <4>5. Hints(B, T[c], k, V)
        <5>1. PICK X : X = T[c]
          OBVIOUS
        <5>2. Hints(A, X, k, V) /\ a \in Answer /\ a.mark <= k /\ a.kind # "changed"
          BY <1>10, <2>11, <5>1
        <5>3. Hints(Append(A, a), X, k, V)
          BY <2>3, <5>2, HintsAnswer
        <5> QED
          BY <4>1, <5>1, <5>3
      <4>6. Ids(n, P, S, B, R)
        <5>1. a.id <= n
          BY <1>10, <2>3, <2>6 DEF Ids
        <5>2. a.kind = "error" \/ \E g \in R : a.id = g.id /\ a.kind = g.kind
          BY <1>10, <2>6
        <5> QED
          BY <1>10, <2>3, <4>1, <5>1, <5>2, IdsAnswer
      <4> QED
        BY <4>3, <4>4, <4>5, <4>6
    <3> QED
      BY <3>1, <3>2
  <2>15. Ids(n, P, S, B, R \ {h})
    <3>1. PICK G : G = R \ {h}
      OBVIOUS
    <3>2. \A x \in G : \E y \in R : x.id = y.id /\ x.kind = y.kind
      BY <3>1
    <3>3. P \subseteq P /\ S \in {S, <<>>} /\ In(B) \subseteq In(B)
      OBVIOUS
    <3>4. n \in Nat /\ S \in Seq(Frame) /\ Ids(n, P, S, B, R)
      BY <2>3, <2>14
    <3>5. Ids(n, P, S, B, G)
      BY ONLY <3>2, <3>3, <3>4, IdsShrink
    <3> QED
      BY <3>1, <3>5
  <2> QED
    BY <1>3, <1>4, <1>5, <2>1, <2>2, <2>3, <2>6, <2>8, <2>13, <2>14, <2>15 DEF ConnOK
<1>13. ConnTypes'
  <2>1. \A c \in Conn : server'[c] \in Server /\ toClient'[c] \in Seq(Answer)
    BY <1>11, <1>12
  <2>2. server' \in [Conn -> Server] /\ toClient' \in [Conn -> Seq(Answer)]
    BY <1>6, <2>1
  <2> QED
    BY <1>3, <1>5, <2>2 DEF ConnSafe, ConnTypes
<1>14. \A c \in Conn : ConnOK(c)'
  BY <1>11, <1>12
<1> QED
  BY <1>3, <1>4, <1>5, <1>8, <1>9, <1>13, <1>14 DEF ConnSafe

-----------------------------------------------------------------------------
(* The invariant holds initially and in every step. *)

LEMMA InitSafe == Init => ConnSafe
PROOF
<1> SUFFICES ASSUME Init PROVE ConnSafe
  OBVIOUS
<1>1. MaxCommits \in Nat /\ MaxFaults \in Nat /\ MaxInFlight \in Nat
  BY LimitsAssumption
<1>2. /\ checkpoint = 0 /\ faults = 0 /\ work = {}
      /\ \A c \in Conn :
           /\ server[c] = [state |-> "new", hub |-> FALSE, inFlight |-> 0]
           /\ toServer[c] = <<>> /\ toClient[c] = <<>>
           /\ client[c] = [sent |-> 0, pending |-> {}, known |-> 0, due |-> FALSE]
           /\ unhinted[c] = {}
  BY DEF Init, Closed, Asleep
<1>3. ConnTypes
  <2>1. checkpoint \in 0 .. MaxCommits /\ faults \in 0 .. MaxFaults
    BY <1>1, <1>2
  <2>2. server \in [Conn -> Server]
    BY DEF Init, Closed, Server
  <2>3. Asleep \in Client
    BY DEF Asleep, Client
  <2>4. client \in [Conn -> Client]
    BY <2>3 DEF Init
  <2>5. /\ toServer \in [Conn -> Seq(Frame)] /\ toClient \in [Conn -> Seq(Answer)]
        /\ unhinted \in [Conn -> SUBSET Nat]
    BY DEF Init
  <2> QED
    BY <2>1, <2>2, <2>4, <2>5 DEF ConnTypes
<1>4. WorkOK(work) /\ MarksOK(work, checkpoint, unhinted)
  BY <1>2, FS_EmptySet DEF WorkOK, MarksOK
<1>5. ASSUME NEW c \in Conn PROVE ConnOK(c)
  <2>1. Running(work, c) = {}
    BY <1>2 DEF Running
  <2>2. Serves(c, server[c], toServer[c], toClient[c], work)
    <3>1. Cardinality(Running(work, c)) = 0
      BY <2>1, FS_EmptySet
    <3>2. /\ server[c].state = "new" /\ server[c].hub = FALSE /\ server[c].inFlight = 0
          /\ toServer[c] = <<>> /\ toClient[c] = <<>>
      BY <1>2
    <3>3. 0 <= MaxInFlight
      BY <1>1
    <3> QED
      BY <3>1, <3>2, <3>3 DEF Serves
  <2>3. Ids(client[c].sent, client[c].pending, toServer[c], toClient[c], Running(work, c))
    BY <1>2, <2>1, InEmpty DEF Ids, Numbered
  <2>4. Hints(toClient[c], unhinted[c], checkpoint, work)
    BY <1>2, InEmpty DEF Hints
  <2> QED
    BY <1>2, <2>2, <2>3, <2>4 DEF ConnOK
<1> QED
  BY <1>3, <1>4, <1>5 DEF ConnSafe

LEMMA StutterSafe ==
  ASSUME ConnSafe, UNCHANGED vars
  PROVE  ConnSafe'
PROOF
<1>1. /\ checkpoint' = checkpoint /\ server' = server /\ toServer' = toServer
      /\ toClient' = toClient /\ work' = work /\ client' = client
      /\ faults' = faults /\ unhinted' = unhinted
  BY DEF vars
<1>2. ConnTypes' /\ (WorkOK(work) /\ MarksOK(work, checkpoint, unhinted))'
  BY <1>1 DEF ConnSafe, ConnTypes
<1>3. ASSUME NEW c \in Conn PROVE ConnOK(c)'
  BY <1>1 DEF ConnSafe, ConnOK
<1> QED
  BY <1>2, <1>3 DEF ConnSafe

LEMMA ConnNextSafe == ConnSafe /\ [Next]_vars => ConnSafe'
PROOF
<1> SUFFICES ASSUME ConnSafe, [Next]_vars PROVE ConnSafe'
  OBVIOUS
<1>1. ASSUME NEW c \in Conn, DialWs(c) \/ DialTcp(c) PROVE ConnSafe'
  BY <1>1, JoinSafe DEF DialWs, DialTcp
<1>2. ASSUME NEW c \in Conn, DialRefused(c) PROVE ConnSafe'
  BY <1>2, RefusedSafe
<1>3. ASSUME NEW c \in Conn, Handshake(c) PROVE ConnSafe'
  <2>1. faults' \in 0 .. MaxFaults /\ Gone(c) /\ server[c].state # "new"
    BY <1>3, Bounds DEF Handshake
  <2> QED
    BY <2>1, GoneSafe
<1>4. ASSUME NEW c \in Conn, Break(c) PROVE ConnSafe'
  <2>1. faults' \in 0 .. MaxFaults /\ Gone(c) /\ server[c].state # "new"
    BY <1>4, FaultBound DEF Break, Open
  <2> QED
    BY <2>1, GoneSafe
<1>5. ASSUME NEW c \in Conn, ClientSend(c) PROVE ConnSafe'
  <2>1. PICK kind \in Kind : Send(c, kind)
    BY <1>5 DEF ClientSend
  <2>2. kind \in {"push", "pull", "garbage", "unknown", "binary"} /\ Open(c)
    BY <1>5, KindAssumption DEF ClientSend
  <2> QED
    BY <2>1, <2>2, SendSafe
<1>6. ASSUME NEW c \in Conn, ClientPull(c) PROVE ConnSafe'
  <2>1. PICK kind \in {"push", "pull", "garbage", "unknown", "binary"} : kind = "pull"
    OBVIOUS
  <2>2. Send(c, kind) /\ Open(c)
    BY <1>6, <2>1 DEF ClientPull
  <2> QED
    BY <2>2, SendSafe
<1>7. ASSUME NEW c \in Conn, Deliver(c) PROVE ConnSafe'
  BY <1>7, DeliverSafe
<1>8. ASSUME NEW c \in Conn, Timeout(c) PROVE ConnSafe'
  BY <1>8, TimeoutSafe
<1>9. ASSUME NEW c \in Conn, Receive(c) PROVE ConnSafe'
  BY <1>9, TakeSafe
<1>10. ASSUME NEW h \in work, Handle(h) PROVE ConnSafe'
  BY <1>10, AdmitSafe, CommitSafe, CommitLostSafe, ReadPageSafe, CallFailsSafe, SettleSafe
     DEF Handle
<1>11. CASE HttpPush
  BY <1>11, HttpPushSafe
<1>12. CASE DirectSql
  BY <1>12, DirectSqlSafe
<1>13. CASE UNCHANGED vars
  BY <1>13, StutterSafe
<1>14. CASE Next
  BY <1>1, <1>2, <1>3, <1>4, <1>5, <1>6, <1>7, <1>8, <1>9, <1>10, <1>11, <1>12, <1>14 DEF Next
<1> QED
  BY <1>13, <1>14

\* The ids, marks and counters of all connections stay consistent.
THEOREM ConnectionsAreSafe == Spec => []ConnSafe
PROOF
<1> QED
  BY InitSafe, ConnNextSafe, PTL DEF Spec

-----------------------------------------------------------------------------
(* What the runs check. *)

LEMMA SafeIsInv == ConnSafe => ConnectionsInv
PROOF
<1> SUFFICES ASSUME ConnSafe PROVE ConnectionsInv
  OBVIOUS
<1>1. checkpoint \in 0 .. MaxCommits /\ faults \in 0 .. MaxFaults
  BY DEF ConnSafe, ConnTypes
<1>2. ASSUME NEW c \in Conn
      PROVE  /\ server[c] \in [state : {"new", "open", "closing", "closed"}, hub : BOOLEAN,
                               inFlight : Nat]
             /\ \A i \in DOMAIN toServer[c] : toServer[c][i] \in Frame
             /\ \A i \in DOMAIN toClient[c] : toClient[c][i] \in Answer
             /\ server[c].state \in {"new", "closed"} => toServer[c] = <<>> /\ toClient[c] = <<>>
             /\ client[c].pending \subseteq Frame /\ client[c].known \in 0 .. checkpoint
  <2>1. server[c] \in Server /\ toServer[c] \in Seq(Frame) /\ toClient[c] \in Seq(Answer)
    BY ConnFacts
  <2>2. server[c].state \in {"new", "closed"} => toServer[c] = <<>> /\ toClient[c] = <<>>
    BY ConnFacts DEF Serves
  <2>3. client[c].pending \subseteq Frame /\ client[c].known \in Nat /\ client[c].known <= checkpoint
    BY ConnFacts DEF Client
  <2> QED
    BY <2>1, <2>2, <2>3, Bounds DEF Server
<1>3. TransportsTypeOK
  BY <1>1, <1>2 DEF TransportsTypeOK
<1>4. InFlightIsExact
  <2> SUFFICES ASSUME NEW c \in Conn
               PROVE  /\ server[c].inFlight = Cardinality({h \in work : h.conn = c})
                      /\ c \in Ws => Cardinality({h \in work : h.conn = c}) <= MaxInFlight
    BY DEF InFlightIsExact
  <2>1. /\ server[c].inFlight = Cardinality(Running(work, c))
        /\ c \in Ws => server[c].inFlight <= MaxInFlight
    BY ConnFacts DEF Serves
  <2> QED
    BY <2>1 DEF Running
<1>5. HubHoldsTheOpen
  BY ConnFacts DEF Serves, HubHoldsTheOpen, Open
<1>6. HintsAreOfOthersCommits
  <2> SUFFICES ASSUME NEW c \in Conn, NEW i \in DOMAIN toClient[c],
                      toClient[c][i].kind = "changed"
               PROVE  toClient[c][i].mark \in (1 .. checkpoint) \ unhinted[c]
    BY DEF HintsAreOfOthersCommits
  <2>1. PICK a : a = toClient[c][i]
    OBVIOUS
  <2>2. a \in In(toClient[c]) /\ a \in Answer /\ a.kind = "changed"
    BY <2>1, ConnFacts, InSeq DEF In
  <2>3. a.mark > 0 /\ a.mark <= checkpoint /\ a.mark \notin unhinted[c]
    BY <2>2, ConnFacts DEF Hints
  <2> QED
    BY <2>1, <2>2, <2>3, Bounds DEF Answer
<1> QED
  BY <1>3, <1>4, <1>5, <1>6 DEF ConnectionsInv

\* Through refusals, failures, timeouts and lost answers the counter of a
\* connection is the number of its handlers, the hub holds the open connections,
\* and a hint speaks of a commit of another.
THEOREM ConnectionsInvHolds == Spec => []ConnectionsInv
PROOF
<1> QED
  BY ConnectionsAreSafe, SafeIsInv, PTL

\* Only a delivery takes an answer away from a connection that stays.
LEMMA AnswersMatchIds ==
  ASSUME ConnSafe, [Next]_vars, NEW c \in Conn, NEW r \in client[c].pending,
         Len(toClient'[c]) < Len(toClient[c]), server'[c].state # "closed",
         r \notin client'[c].pending
  PROVE  Head(toClient[c]).id = r.id /\ Head(toClient[c]).kind \in {r.kind, "error"}
PROOF
<1>1. /\ toClient \in [Conn -> Seq(Answer)] /\ client \in [Conn -> Client]
      /\ server \in [Conn -> Server] /\ Len(toClient[c]) \in Nat
  BY ConnFacts DEF ConnSafe, ConnTypes
<1>2. toClient'[c] # toClient[c] /\ client'[c] # client[c]
  BY <1>1
<1>3. ASSUME NEW d \in Conn, Deliver(d)
      PROVE  Head(toClient[c]).id = r.id /\ Head(toClient[c]).kind \in {r.kind, "error"}
  <2>1. d = c
    <3>1. toClient' = [toClient EXCEPT ![d] = Tail(toClient[d])]
      BY <1>3 DEF Deliver
    <3> QED
      BY <1>1, <1>2, <3>1
  <2>2. PICK a : a = Head(toClient[c])
    OBVIOUS
  <2>3. toClient[c] # <<>> /\ a \in In(toClient[c])
    <3>1. toClient[c] # <<>>
      BY <1>3, <2>1 DEF Deliver
    <3> QED
      BY <2>2, <3>1, ConnFacts, InTail
  <2>4. PICK due, known :
          client' = [client EXCEPT
            ![c].due = due,
            ![c].pending = IF a.kind = "changed" THEN client[c].pending
                           ELSE client[c].pending \ Awaited(c, a),
            ![c].known = known]
    BY <1>3, <2>1, <2>2 DEF Deliver
  <2>5. client'[c].pending = IF a.kind = "changed" THEN client[c].pending
                             ELSE client[c].pending \ Awaited(c, a)
    BY <1>1, <2>4 DEF Client
  <2>6. r.id = a.id
    BY <2>5 DEF Awaited
  <2>7. a.kind \in {r.kind, "error"}
    BY <2>3, <2>6, ConnFacts DEF Ids
  <2> QED
    BY <2>2, <2>6, <2>7
<1>4. ASSUME NEW d \in Conn, Gone(d) PROVE FALSE
  <2>1. d = c
    BY <1>1, <1>2, <1>4 DEF Gone
  <2>2. server'[c].state = "closed"
    BY <1>1, <1>4, <2>1 DEF Gone, Server
  <2> QED
    BY <2>2
<1>5. ASSUME NEW d \in Conn,
             \/ DialWs(d) \/ DialTcp(d) \/ DialRefused(d) \/ ClientSend(d) \/ ClientPull(d)
             \/ Timeout(d)
      PROVE  FALSE
  BY <1>2, <1>5 DEF DialWs, DialTcp, Join, DialRefused, ClientSend, ClientPull, Send, Timeout
<1>6. ASSUME NEW d \in Conn, Receive(d) PROVE FALSE
  BY <1>2, <1>6 DEF Receive
<1>7. ASSUME NEW h \in work, Handle(h) PROVE FALSE
  BY <1>2, <1>7 DEF Handle, Admit, Commit, CommitLost, ReadPage, CallFails, Settle
<1>8. ~ HttpPush /\ ~ DirectSql /\ ~ UNCHANGED vars
  BY <1>2 DEF HttpPush, DirectSql, vars
<1>9. CASE \E d \in Conn : Handshake(d) \/ Break(d)
  BY <1>4, <1>9 DEF Handshake, Break
<1> QED
  BY <1>3, <1>5, <1>6, <1>7, <1>8, <1>9 DEF Next

\* Whatever the order of the handlers and however late an answer is, a request is
\* settled only by its own answer, of its kind or an error.
THEOREM AnswersFindTheirRequest == Spec => AnswersReachTheirRequest
PROOF
<1>1. ConnSafe /\ [Next]_vars =>
        [\A c \in Conn : \A r \in client[c].pending :
           Len(toClient'[c]) < Len(toClient[c]) /\ server'[c].state # "closed" /\ r \notin client'[c].pending
             => Head(toClient[c]).id = r.id /\ Head(toClient[c]).kind \in {r.kind, "error"}]_vars
  BY AnswersMatchIds
<1> QED
  BY <1>1, ConnectionsAreSafe, PTL DEF Spec, AnswersReachTheirRequest

-----------------------------------------------------------------------------
(* The lines of a TCP stream. *)

\* The lengths `lengths` of frames and the text they were written as: the line of
\* frame i ends at ends[i].
Laid(lengths, text, ends) ==
  /\ lengths \in Seq(Nat \ {0}) /\ text \in Seq(Nat) /\ ends \in [0..Len(lengths) -> Nat]
  /\ ends[0] = 0 /\ Len(text) = ends[Len(lengths)]
  /\ \A i \in 0..Len(lengths) : ends[i] <= Len(text)
  /\ \A i \in 1..Len(lengths) :
       /\ ends[i] = ends[i - 1] + lengths[i] + 1 /\ text[ends[i]] = 0
       /\ \A j \in ends[i - 1] + 1 .. ends[i] - 1 : text[j] = i

\* The lines of frames from + 1 to to.
Lines(lengths, from, to) == [i \in 1 .. to - from |-> [n \in 1..lengths[from + i] |-> from + i]]

\* Up to a position, and of the next line so much.
Cut(lengths, ends, from, to, position, s) ==
  /\ to \in from..Len(lengths) /\ ends[to] <= position
  /\ to < Len(lengths) => position < ends[to + 1]
  /\ s = [rest |-> [j \in 1 .. position - ends[to] |-> to + 1], lines |-> Lines(lengths, from, to)]

FramingSafe ==
  /\ read \in 0..Len(written) /\ alive \in BOOLEAN
  /\ \E ends : \E k \in 0..Len(sent) :
       /\ Laid(sent, written, ends)
       /\ routed = Lines(sent, 0, k)
       /\ IF alive THEN Cut(sent, ends, 0, k, read, [rest |-> buffered, lines |-> routed])
          ELSE \E i \in 1..Len(sent) : sent[i] > MaxFrame - MaxChunk

-----------------------------------------------------------------------------
LEMMA LeastNatural ==
  ASSUME NEW T, T \subseteq Nat, T # {}
  PROVE  \E n \in T : \A m \in T : n <= m
PROOF
<1>1. PICK R : IsWellFoundedOn(R, Nat) /\ \A x, y \in Nat : x < y => <<x, y>> \in R
  <2>1. IsWellFoundedOn(OpToRel(<, Nat), Nat)
    BY NatLessThanWellFounded
  <2> QED
    BY <2>1 DEF OpToRel
<1>2. IsWellFoundedOn(R, Nat)
  BY <1>1
<1>3. PICK n \in T : \A y \in T : ~(<<y, n>> \in R)
  BY ONLY <1>2, T \subseteq Nat, T # {}, WFMin, Zenon
<1>4. ASSUME NEW m \in T PROVE ~(m < n)
  BY <1>1, <1>3, <1>4, Zenon
<1> QED
  BY <1>4

\* The equation of the recursive function of Split.
Splits(g, text) ==
  g = [n \in 0..Len(text) |->
         IF n = 0 THEN [rest |-> <<>>, lines |-> <<>>] ELSE Framing!Taken(g[n - 1], text[n])]

\* It has a solution: one for each beginning of the text.
SplitsUpTo(g, text, m) ==
  g = [n \in 0..m |-> IF n = 0 THEN [rest |-> <<>>, lines |-> <<>>] ELSE Framing!Taken(g[n - 1], text[n])]

LEMMA SplitsExists ==
  ASSUME NEW text, Len(text) \in Nat
  PROVE  \E g : Splits(g, text)
PROOF
<1> DEFINE T == {m \in 0..Len(text) : ~ \E g : SplitsUpTo(g, text, m)}
<1>1. ASSUME T # {} PROVE FALSE
  <2>1. PICK m \in T : \A n \in T : m <= n
    <3>1. T \subseteq Nat
      OBVIOUS
    <3> HIDE DEF T
    <3> QED
      BY <1>1, <3>1, LeastNatural
  <2>2. m \in 0..Len(text) /\ ~ \E g : SplitsUpTo(g, text, m)
    BY <2>1
  <2>3. CASE m = 0
    <3> DEFINE g == [n \in 0..0 |-> [rest |-> <<>>, lines |-> <<>>]]
    <3>1. SplitsUpTo(g, text, 0)
      BY DEF SplitsUpTo
    <3> QED
      BY <2>2, <2>3, <3>1
  <2>4. CASE m # 0
    <3>1. m - 1 \in 0..Len(text) /\ ~ (m <= m - 1)
      BY <2>2, <2>4
    <3>2. PICK g : SplitsUpTo(g, text, m - 1)
      BY <2>1, <3>1
    <3> DEFINE f(n) == IF n = m THEN Framing!Taken(g[m - 1], text[m]) ELSE g[n]
    <3> DEFINE h == [n \in 0..m |-> f(n)]
    <3>3. \A n \in 0 .. m - 1 :
            g[n] = IF n = 0 THEN [rest |-> <<>>, lines |-> <<>>] ELSE Framing!Taken(g[n - 1], text[n])
      <4>1. g = [n \in 0 .. m - 1 |-> IF n = 0 THEN [rest |-> <<>>, lines |-> <<>>] ELSE Framing!Taken(g[n - 1], text[n])]
        BY <3>2 DEF SplitsUpTo
      <4> QED
        BY <4>1, Zenon
    <3>4. ASSUME NEW n \in 0..m
          PROVE  f(n) = IF n = 0 THEN [rest |-> <<>>, lines |-> <<>>] ELSE Framing!Taken(h[n - 1], text[n])
      <4>1. CASE n = m
        <5>1. h[n - 1] = g[n - 1] /\ n # 0
          BY <2>2, <2>4, <4>1
        <5> QED
          BY <4>1, <5>1
      <4>2. CASE n # m /\ n # 0
        <5>1. n \in 0 .. m - 1 /\ n - 1 \in 0..m /\ n - 1 # m
          BY <2>2, <4>2
        <5>2. h[n - 1] = g[n - 1]
          BY <5>1
        <5> QED
          BY <3>3, <4>2, <5>1, <5>2
      <4>3. CASE n = 0
        BY <2>2, <2>4, <3>1, <3>3, <4>3
      <4> QED
        BY <4>1, <4>2, <4>3
    <3>5. SplitsUpTo(h, text, m)
      <4> HIDE DEF f
      <4>1. h = [n \in 0..m |-> IF n = 0 THEN [rest |-> <<>>, lines |-> <<>>] ELSE Framing!Taken(h[n - 1], text[n])]
        BY <3>4
      <4> HIDE DEF h
      <4> QED
        BY <4>1 DEF SplitsUpTo
    <3> QED
      BY <2>2, <3>5
  <2> QED
    BY <2>3, <2>4
<1>2. Len(text) \in 0..Len(text)
  OBVIOUS
<1>3. \E g : SplitsUpTo(g, text, Len(text))
  BY <1>1, <1>2
<1> QED
  BY <1>3 DEF SplitsUpTo, Splits

\* One more character.
LEMMA TakenCuts ==
  ASSUME NEW lengths, NEW text, NEW ends, Laid(lengths, text, ends),
         NEW from \in 0..Len(lengths), NEW k, NEW p \in Nat, p < Len(text), NEW s,
         Cut(lengths, ends, from, k, p, s)
  PROVE  \E to : Cut(lengths, ends, from, to, p + 1, Framing!Taken(s, text[p + 1]))
PROOF
<1>1. /\ lengths \in Seq(Nat \ {0}) /\ Len(lengths) \in Nat /\ text \in Seq(Nat)
      /\ Len(text) = ends[Len(lengths)] /\ Len(text) \in Nat
      /\ \A i \in 0..Len(lengths) : ends[i] \in Nat
      /\ \A i \in 1..Len(lengths) :
           /\ ends[i] = ends[i - 1] + lengths[i] + 1 /\ text[ends[i]] = 0 /\ lengths[i] \in Nat \ {0}
           /\ \A j \in ends[i - 1] + 1 .. ends[i] - 1 : text[j] = i
  <2>1. /\ lengths \in Seq(Nat \ {0}) /\ text \in Seq(Nat) /\ ends \in [0..Len(lengths) -> Nat]
        /\ Len(text) = ends[Len(lengths)]
    BY DEF Laid
  <2>2. Len(lengths) \in Nat /\ Len(text) \in Nat /\ \A i \in 1..Len(lengths) : lengths[i] \in Nat \ {0}
    BY <2>1
  <2>3. \A i \in 0..Len(lengths) : ends[i] \in Nat
    BY <2>1
  <2>4. \A i \in 1..Len(lengths) :
          /\ ends[i] = ends[i - 1] + lengths[i] + 1 /\ text[ends[i]] = 0
          /\ \A j \in ends[i - 1] + 1 .. ends[i] - 1 : text[j] = i
    BY DEF Laid
  <2> QED
    BY <2>1, <2>2, <2>3, <2>4
<1>2. /\ k \in from..Len(lengths) /\ ends[k] <= p /\ ends[k] \in Nat /\ k \in Nat
      /\ k < Len(lengths) => p < ends[k + 1]
  BY <1>1 DEF Cut
<1>3. k < Len(lengths) /\ k + 1 \in 1..Len(lengths)
  <2>1. k # Len(lengths)
    BY <1>1, <1>2
  <2> QED
    BY <1>1, <1>2, <2>1
<1>4. /\ p < ends[k + 1] /\ ends[k + 1] \in Nat /\ ends[k + 1] = ends[k] + lengths[k + 1] + 1
      /\ lengths[k + 1] \in Nat \ {0} /\ text[ends[k + 1]] = 0
      /\ \A j \in ends[k] + 1 .. ends[k + 1] - 1 : text[j] = k + 1
  <2>1. (k + 1) - 1 = k
    BY <1>2
  <2> QED
    BY <1>1, <1>2, <1>3, <2>1
<1> DEFINE length == p - ends[k]
           rest == [j \in 1..length |-> k + 1]
<1>5. s.rest = rest /\ s.lines = Lines(lengths, from, k)
  BY DEF Cut
<1>6. length \in Nat
  BY <1>2
<1>7. CASE p + 1 = ends[k + 1]
  <2>1. length = lengths[k + 1] /\ 1 \in 1..length
    BY <1>2, <1>4, <1>7
  <2>2. rest # <<>>
    BY <2>1
  <2>3. Framing!Taken(s, text[p + 1]) = [rest |-> <<>>, lines |-> Append(Lines(lengths, from, k), rest)]
    BY <1>4, <1>5, <1>7, <2>2 DEF Framing!Taken, Framing!EndLine, Framing!NewLine
  <2>4. Append(Lines(lengths, from, k), rest) = Lines(lengths, from, k + 1)
    <3> DEFINE g == [i \in 1 .. k - from |-> [n \in 1..lengths[from + i] |-> from + i]]
               n == k - from
    <3>1. n \in Nat /\ (k + 1) - from = n + 1 /\ from + (n + 1) = k + 1
      BY <1>2
    <3>2. rest = [j \in 1..lengths[k + 1] |-> k + 1]
      BY <2>1
    <3>3. Append(g, rest) = [i \in 1 .. n + 1 |-> IF i = n + 1 THEN rest ELSE g[i]]
      <4> DEFINE S == {g[i] : i \in 1..n} \cup {rest}
      <4>1. rest \in S /\ g \in [1..n -> S]
        OBVIOUS
      <4> HIDE DEF g, n, rest, S
      <4>2. PICK f, m, x : f = g /\ m = n /\ x = rest
        OBVIOUS
      <4>3. m \in Nat /\ f \in [1..m -> S] /\ x \in S
        BY <3>1, <4>1, <4>2
      <4>4. f \in Seq(S) /\ Len(f) = m
        BY <4>3
      <4>5. PICK h : h = Append(f, x)
        OBVIOUS
      <4>6. h \in Seq(S) /\ Len(h) = m + 1 /\ h[m + 1] = x /\ \A i \in 1..m : h[i] = f[i]
        BY <4>3, <4>4, <4>5
      <4>7. \A i \in 1 .. m + 1 : h[i] = IF i = m + 1 THEN x ELSE f[i]
        BY <4>3, <4>6
      <4>8. h = [i \in 1 .. m + 1 |-> h[i]]
        BY <4>3, <4>6
      <4>9. h = [i \in 1 .. m + 1 |-> IF i = m + 1 THEN x ELSE f[i]]
        BY <4>7, <4>8
      <4> QED
        BY <4>2, <4>5, <4>9
    <3>4. ASSUME NEW i \in 1 .. n + 1
          PROVE  (IF i = n + 1 THEN rest ELSE g[i]) = [j \in 1..lengths[from + i] |-> from + i]
      <4>1. CASE i = n + 1
        BY <3>1, <3>2, <4>1
      <4>2. CASE i # n + 1
        <5>1. i \in 1..n
          BY <3>1, <4>2
        <5> QED
          BY <4>2, <5>1
      <4> QED
        BY <4>1, <4>2
    <3>5. Lines(lengths, from, k + 1) = [i \in 1 .. n + 1 |-> [j \in 1..lengths[from + i] |-> from + i]]
      BY <3>1 DEF Lines
    <3>6. Lines(lengths, from, k) = g
      BY DEF Lines
    <3> HIDE DEF g, n, rest
    <3> QED
      BY <3>3, <3>4, <3>5, <3>6
  <2>5. ends[k + 1] <= p + 1 /\ k + 1 \in from..Len(lengths)
    BY <1>2, <1>3, <1>4, <1>7
  <2>6. k + 1 < Len(lengths) => p + 1 < ends[(k + 1) + 1]
    <3> SUFFICES ASSUME k + 1 < Len(lengths) PROVE p + 1 < ends[(k + 1) + 1]
      OBVIOUS
    <3>1. k + 2 \in 1..Len(lengths) /\ (k + 2) - 1 = k + 1 /\ (k + 1) + 1 = k + 2
      BY <1>1, <1>2
    <3>2. ends[k + 2] = ends[(k + 2) - 1] + lengths[k + 2] + 1 /\ lengths[k + 2] \in Nat \ {0}
      BY <1>1, <3>1
    <3> QED
      BY <1>4, <1>7, <3>1, <3>2
  <2>7. [j \in 1 .. (p + 1) - ends[k + 1] |-> (k + 1) + 1] = <<>>
    <3>1. (p + 1) - ends[k + 1] = 0
      BY <1>4, <1>7
    <3> QED
      BY <3>1
  <2>8. Cut(lengths, ends, from, k + 1, p + 1, Framing!Taken(s, text[p + 1]))
    BY <2>3, <2>4, <2>5, <2>6, <2>7 DEF Cut
  <2> QED
    BY <2>8
<1>8. CASE p + 1 # ends[k + 1]
  <2>1. p + 1 \in ends[k] + 1 .. ends[k + 1] - 1
    BY <1>2, <1>4, <1>8
  <2>2. text[p + 1] = k + 1 /\ k + 1 # 0
    BY <1>2, <1>4, <2>1
  <2>3. Framing!Taken(s, text[p + 1]) = [rest |-> Append(rest, k + 1), lines |-> Lines(lengths, from, k)]
    BY <1>5, <2>2 DEF Framing!Taken, Framing!NewLine
  <2>4. Append(rest, k + 1) = [j \in 1 .. (p + 1) - ends[k] |-> k + 1]
    <3>1. (p + 1) - ends[k] = length + 1
      BY <1>2
    <3>2. rest \in Seq(Nat) /\ Len(rest) = length /\ \A j \in 1..length : rest[j] = k + 1
      BY <1>2, <1>6
    <3> HIDE DEF rest, length
    <3>3. Append(rest, k + 1) = [j \in 1 .. length + 1 |-> IF j = length + 1 THEN k + 1 ELSE rest[j]]
      BY <1>2, <1>6, <3>2
    <3> QED
      BY <1>6, <3>1, <3>2, <3>3
  <2>5. p + 1 < ends[k + 1] /\ ends[k] <= p + 1
    BY <1>2, <1>4, <1>8
  <2>6. Cut(lengths, ends, from, k, p + 1, Framing!Taken(s, text[p + 1]))
    BY <1>2, <2>3, <2>4, <2>5 DEF Cut
  <2> QED
    BY <2>6
<1> QED
  BY <1>7, <1>8

\* What Split makes of a piece of the text that begins where a line begins.
LEMMA SplitCuts ==
  ASSUME NEW lengths, NEW text, NEW ends, Laid(lengths, text, ends),
         NEW from \in 0..Len(lengths), NEW piece \in Seq(Nat), ends[from] + Len(piece) <= Len(text),
         \A m \in 1..Len(piece) : piece[m] = text[ends[from] + m]
  PROVE  \E to : Cut(lengths, ends, from, to, ends[from] + Len(piece), Framing!Split(piece))
PROOF
<1>1. ends[from] \in Nat /\ Len(piece) \in Nat /\ Len(text) \in Nat /\ Len(lengths) \in Nat
  <2>1. lengths \in Seq(Nat \ {0}) /\ text \in Seq(Nat) /\ ends \in [0..Len(lengths) -> Nat]
    BY DEF Laid
  <2> QED
    BY <2>1
<1>2. PICK g : g = CHOOSE h : Splits(h, piece)
  OBVIOUS
<1>3. Splits(g, piece)
  BY <1>1, <1>2, SplitsExists
<1>4. Framing!Split(piece) = g[Len(piece)]
  BY <1>2 DEF Framing!Split, Splits
<1>5. /\ g[0] = [rest |-> <<>>, lines |-> <<>>]
      /\ \A n \in 1..Len(piece) : g[n] = Framing!Taken(g[n - 1], piece[n])
  <2>1. \A n \in 0..Len(piece) :
          g[n] = IF n = 0 THEN [rest |-> <<>>, lines |-> <<>>] ELSE Framing!Taken(g[n - 1], piece[n])
    <3>1. g = [n \in 0..Len(piece) |->
                 IF n = 0 THEN [rest |-> <<>>, lines |-> <<>>] ELSE Framing!Taken(g[n - 1], piece[n])]
      BY <1>3 DEF Splits
    <3> QED
      BY <3>1, Zenon
  <2>2. ASSUME NEW n \in 1..Len(piece) PROVE g[n] = Framing!Taken(g[n - 1], piece[n])
    <3>1. n \in 0..Len(piece) /\ n # 0
      BY <1>1
    <3> QED
      BY <2>1, <3>1, Zenon
  <2>3. g[0] = [rest |-> <<>>, lines |-> <<>>]
    <3>1. 0 \in 0..Len(piece)
      BY <1>1
    <3> QED
      BY <2>1, <3>1, Zenon
  <2> QED
    BY <2>2, <2>3
<1> DEFINE Done(m) == \E to : Cut(lengths, ends, from, to, ends[from] + m, g[m])
<1> DEFINE T == {m \in 0..Len(piece) : ~ Done(m)}
<1>6. Done(0)
  <2>1. from < Len(lengths) => ends[from] + 0 < ends[from + 1]
    <3> SUFFICES ASSUME from < Len(lengths) PROVE ends[from] + 0 < ends[from + 1]
      OBVIOUS
    <3>1. from + 1 \in 1..Len(lengths) /\ (from + 1) - 1 = from
      BY <1>1
    <3>2. ends[from + 1] = ends[(from + 1) - 1] + lengths[from + 1] + 1 /\ lengths[from + 1] \in Nat
      BY <3>1 DEF Laid
    <3> QED
      BY <1>1, <3>1, <3>2
  <2>2. Lines(lengths, from, from) = <<>>
    <3>1. from - from = 0
      OBVIOUS
    <3> QED
      BY <3>1 DEF Lines
  <2>3. [j \in 1 .. (ends[from] + 0) - ends[from] |-> from + 1] = <<>>
    <3>1. (ends[from] + 0) - ends[from] = 0
      BY <1>1
    <3> QED
      BY <3>1
  <2>4. from \in from..Len(lengths) /\ ends[from] <= ends[from] + 0
    BY <1>1
  <2>5. Cut(lengths, ends, from, from, ends[from] + 0, g[0])
    BY <1>5, <2>1, <2>2, <2>3, <2>4 DEF Cut
  <2> QED
    BY <2>5
<1>7. ASSUME NEW m \in 1..Len(piece), Done(m - 1) PROVE Done(m)
  <2>1. PICK k : Cut(lengths, ends, from, k, ends[from] + (m - 1), g[m - 1])
    BY <1>7
  <2>2. PICK p : p = ends[from] + (m - 1)
    OBVIOUS
  <2>3. p \in Nat /\ p < Len(text) /\ p + 1 = ends[from] + m
    <3>1. ends[from] + Len(piece) <= Len(text) /\ m \in 1..Len(piece)
      OBVIOUS
    <3>2. PICK e, l, t : e = ends[from] /\ l = Len(piece) /\ t = Len(text)
      OBVIOUS
    <3>3. e \in Nat /\ l \in Nat /\ t \in Nat /\ e + l <= t /\ m \in 1..l /\ p = e + (m - 1)
      BY ONLY <1>1, <2>2, <3>1, <3>2, Zenon
    <3>4. p \in Nat /\ p < t /\ p + 1 = e + m
      BY ONLY <3>3
    <3> QED
      BY ONLY <3>2, <3>4, Zenon
  <2>4. PICK to : Cut(lengths, ends, from, to, p + 1, Framing!Taken(g[m - 1], text[p + 1]))
    BY <2>1, <2>2, <2>3, TakenCuts
  <2>5. text[p + 1] = piece[m] /\ g[m] = Framing!Taken(g[m - 1], piece[m])
    BY <1>5, <2>3
  <2>6. Cut(lengths, ends, from, to, ends[from] + m, g[m])
    BY <2>3, <2>4, <2>5
  <2> QED
    BY <2>6
<1>8. ASSUME T # {} PROVE FALSE
  <2> HIDE DEF Done
  <2>1. PICK m \in T : \A n \in T : m <= n
    <3>1. T \subseteq Nat
      OBVIOUS
    <3> HIDE DEF T
    <3> QED
      BY <1>8, <3>1, LeastNatural
  <2>2. m \in 0..Len(piece) /\ ~ Done(m)
    BY <2>1
  <2>3. m # 0
    BY <1>6, <2>2
  <2>4. m \in 1..Len(piece) /\ m - 1 \in 0..Len(piece) /\ ~ (m <= m - 1)
    BY <1>1, <2>2, <2>3
  <2>5. Done(m - 1)
    BY <2>1, <2>4
  <2> QED
    BY <1>7, <2>2, <2>4, <2>5
<1>9. Done(Len(piece))
  <2> HIDE DEF Done
  <2>1. Len(piece) \in 0..Len(piece)
    BY <1>1
  <2> QED
    BY <1>8, <2>1
<1> QED
  BY <1>4, <1>9

-----------------------------------------------------------------------------
LEMMA FramingStarts == Framing!Init => FramingSafe
PROOF
<1> SUFFICES ASSUME Framing!Init PROVE FramingSafe
  OBVIOUS
<1>1. sent = <<>> /\ written = <<>> /\ read = 0 /\ buffered = <<>> /\ routed = <<>> /\ alive = TRUE
  BY DEF Framing!Init
<1> DEFINE ends == [i \in 0..0 |-> 0]
<1>2. Len(sent) = 0 /\ Len(written) = 0
  BY <1>1
<1>3. Laid(sent, written, ends)
  BY <1>1, <1>2 DEF Laid
<1>4. Lines(sent, 0, 0) = <<>>
  BY DEF Lines
<1>5. Cut(sent, ends, 0, 0, 0, [rest |-> <<>>, lines |-> <<>>])
  <2>1. [j \in 1 .. 0 - ends[0] |-> 0 + 1] = <<>>
    OBVIOUS
  <2> QED
    BY <1>2, <1>4, <2>1 DEF Cut
<1> HIDE DEF ends
<1> QED
  BY <1>1, <1>2, <1>3, <1>4, <1>5 DEF FramingSafe

LEMMA Joined ==
  ASSUME NEW S, NEW a \in Seq(S), NEW b \in Seq(S)
  PROVE  /\ a \o b \in Seq(S) /\ Len(a \o b) = Len(a) + Len(b)
         /\ \A j \in 1..Len(a) : (a \o b)[j] = a[j]
         /\ \A j \in 1..Len(b) : (a \o b)[Len(a) + j] = b[j]
PROOF
<1>1. a \o b \in Seq(S) /\ Len(a \o b) = Len(a) + Len(b) /\ Len(a) \in Nat /\ Len(b) \in Nat
  OBVIOUS
<1>2. \A j \in 1..Len(a) : (a \o b)[j] = a[j]
  OBVIOUS
<1>3. ASSUME NEW j \in 1..Len(b) PROVE (a \o b)[Len(a) + j] = b[j]
  <2>1. Len(a) + j \in 1 .. Len(a) + Len(b) /\ ~ (Len(a) + j <= Len(a)) /\ (Len(a) + j) - Len(a) = j
    BY <1>1
  <2> QED
    BY <2>1
<1> QED
  BY <1>1, <1>2, <1>3

\* One more frame at the end of what was written.
Longer(lengths, text, ends, length, lengths2, text2, ends2) ==
  /\ length \in Nat \ {0}
  /\ lengths2 \in Seq(Nat \ {0}) /\ Len(lengths2) = Len(lengths) + 1 /\ lengths2[Len(lengths) + 1] = length
  /\ \A i \in 1..Len(lengths) : lengths2[i] = lengths[i]
  /\ text2 \in Seq(Nat) /\ Len(text2) = Len(text) + (length + 1)
  /\ \A j \in 1..Len(text) : text2[j] = text[j]
  /\ \A n \in 1..length : text2[Len(text) + n] = Len(lengths) + 1
  /\ text2[Len(text) + (length + 1)] = 0
  /\ ends2 \in [0 .. Len(lengths) + 1 -> Nat] /\ ends2[Len(lengths) + 1] = Len(text) + (length + 1)
  /\ \A i \in 0..Len(lengths) : ends2[i] = ends[i]

LEMMA SendLays ==
  ASSUME NEW lengths, NEW text, NEW ends, Laid(lengths, text, ends), NEW length,
         NEW lengths2, NEW text2, NEW ends2, Longer(lengths, text, ends, length, lengths2, text2, ends2)
  PROVE  Laid(lengths2, text2, ends2)
PROOF
<1> DEFINE N == Len(lengths)
<1> DEFINE L == Len(text)
<1>3. /\ length \in Nat \ {0}
      /\ lengths2 \in Seq(Nat \ {0}) /\ Len(lengths2) = N + 1 /\ lengths2[N + 1] = length
      /\ \A i \in 1..N : lengths2[i] = lengths[i]
      /\ text2 \in Seq(Nat) /\ Len(text2) = L + (length + 1)
      /\ \A j \in 1..L : text2[j] = text[j]
      /\ \A n \in 1..length : text2[L + n] = N + 1
      /\ text2[L + (length + 1)] = 0
      /\ ends2 \in [0 .. N + 1 -> Nat] /\ ends2[N + 1] = L + (length + 1)
      /\ \A i \in 0..N : ends2[i] = ends[i]
  BY Zenon DEF Longer
<1>1. /\ lengths \in Seq(Nat \ {0}) /\ text \in Seq(Nat) /\ ends \in [0..N -> Nat]
      /\ ends[0] = 0 /\ L = ends[N] /\ N \in Nat /\ L \in Nat
      /\ \A i \in 0..N : ends[i] <= L
  BY DEF Laid
<1>4. \A i \in 1..N : /\ ends[i] = ends[i - 1] + lengths[i] + 1 /\ text[ends[i]] = 0
                      /\ \A j \in ends[i - 1] + 1 .. ends[i] - 1 : text[j] = i
  BY Zenon DEF Laid
<1>5. \A i \in 1..N : lengths[i] \in Nat
  BY <1>1
<1>2. N \in Nat /\ L \in Nat /\ length \in Nat
  BY <1>1, <1>3
<1> USE <1>3
<1> HIDE DEF N, L
<1>9. ASSUME NEW i \in 1..N
      PROVE  /\ ends2[i] = ends2[i - 1] + lengths2[i] + 1 /\ text2[ends2[i]] = 0
             /\ \A j \in ends2[i - 1] + 1 .. ends2[i] - 1 : text2[j] = i
  <2>1. i \in 0..N /\ i - 1 \in 0..N
    BY <1>1
  <2>2. /\ ends[i] = ends[i - 1] + lengths[i] + 1 /\ text[ends[i]] = 0
        /\ \A j \in ends[i - 1] + 1 .. ends[i] - 1 : text[j] = i
    BY <1>4
  <2>3. ends2[i] = ends[i] /\ ends2[i - 1] = ends[i - 1] /\ lengths2[i] = lengths[i]
    BY <2>1
  <2>4. ends[i] \in Nat /\ ends[i - 1] \in Nat /\ ends[i] <= L
    BY <1>1, <2>1
  <2>5. lengths[i] \in Nat
    BY <1>5
  <2>6. ends[i] \in 1..L
    <3>1. ends[i] = ends[i - 1] + lengths[i] + 1
      BY <2>2
    <3> QED
      BY ONLY <1>2, <2>4, <2>5, <3>1
  <2>7. \A j \in ends[i - 1] + 1 .. ends[i] - 1 : j \in 1..L
    <3>1. PICK a, b : a = ends[i - 1] /\ b = ends[i]
      OBVIOUS
    <3>2. \A j \in a + 1 .. b - 1 : j \in 1..L
      BY ONLY <1>2, <2>4, <3>1
    <3> QED
      BY ONLY <3>1, <3>2, Zenon
  <2>8. text2[ends[i]] = 0 /\ \A j \in ends[i - 1] + 1 .. ends[i] - 1 : text2[j] = i
    BY <2>2, <2>6, <2>7
  <2> QED
    BY <2>2, <2>3, <2>8
<1>10. /\ ends2[N + 1] = ends2[(N + 1) - 1] + lengths2[N + 1] + 1 /\ text2[ends2[N + 1]] = 0
       /\ \A j \in ends2[(N + 1) - 1] + 1 .. ends2[N + 1] - 1 : text2[j] = N + 1
  <2>1. (N + 1) - 1 = N /\ N \in 0..N
    BY ONLY <1>2
  <2>2. ends2[(N + 1) - 1] = L
    <3>1. ends2[N] = ends[N]
      BY <2>1
    <3> QED
      BY <1>1, <2>1, <3>1
  <2>5. ASSUME NEW j \in L + 1 .. (L + (length + 1)) - 1 PROVE text2[j] = N + 1
    <3>1. PICK n : n = j - L
      OBVIOUS
    <3>2. n \in 1..length /\ j = L + n
      BY <1>2, <3>1
    <3> QED
      BY <3>2
  <2>6. L + (length + 1) = L + length + 1
    BY <1>1
  <2> QED
    BY <2>2, <2>5, <2>6
<1>11. \A i \in 1 .. N + 1 : i \in 1..N \/ i = N + 1
  BY <1>1
<1>12. /\ Len(text2) = ends2[N + 1] /\ ends2[0] = 0
       /\ \A i \in 0 .. N + 1 : ends2[i] <= Len(text2)
  <2>1. ends2[0] = 0
    BY <1>1
  <2>2. ASSUME NEW i \in 0 .. N + 1 PROVE ends2[i] <= Len(text2)
    <3>1. CASE i = N + 1
      <4>1. ends2[i] = Len(text2) /\ Len(text2) = L + (length + 1)
        BY <3>1
      <4> QED
        BY <1>2, <4>1
    <3>2. CASE i # N + 1
      <4>1. i \in 0..N
        BY <1>1, <3>2
      <4>2. ends2[i] <= L /\ ends2[i] \in Nat
        BY <1>1, <4>1
      <4> QED
        BY <1>1, <4>2
    <3> QED
      BY <3>1, <3>2
  <2> QED
    BY <2>1, <2>2
<1>13. \A i \in 1 .. N + 1 : /\ ends2[i] = ends2[i - 1] + lengths2[i] + 1 /\ text2[ends2[i]] = 0
                             /\ \A j \in ends2[i - 1] + 1 .. ends2[i] - 1 : text2[j] = i
  BY <1>9, <1>10, <1>11
<1> QED
  BY <1>1, <1>12, <1>13 DEF Laid

LEMMA SendKeeps ==
  ASSUME FramingSafe, Framing!Send
  PROVE  FramingSafe'
PROOF
<1>1. PICK ends, k : /\ k \in 0..Len(sent) /\ Laid(sent, written, ends) /\ routed = Lines(sent, 0, k)
                     /\ IF alive THEN Cut(sent, ends, 0, k, read, [rest |-> buffered, lines |-> routed])
                        ELSE \E i \in 1..Len(sent) : sent[i] > MaxFrame - MaxChunk
  BY DEF FramingSafe
<1>2. read \in 0..Len(written) /\ alive \in BOOLEAN
  BY DEF FramingSafe
<1>3. PICK length \in Lengths :
        /\ sent' = Append(sent, length)
        /\ written' = written \o [n \in 1 .. length + 1 |-> IF n <= length THEN Len(sent) + 1 ELSE 0]
  BY DEF Framing!Send, Framing!NewLine
<1>4. UNCHANGED <<read, buffered, routed, alive>>
  BY DEF Framing!Send
<1>5. length \in Nat \ {0}
  BY FramingAssumption
<1>6. PICK N, L : N = Len(sent) /\ L = Len(written)
  OBVIOUS
<1>15. /\ sent \in Seq(Nat \ {0}) /\ written \in Seq(Nat) /\ ends \in [0..N -> Nat] /\ N \in Nat /\ L \in Nat
       /\ k \in 0..N
  BY <1>1, <1>6 DEF Laid
<1>16. PICK s : s = sent'
  OBVIOUS
<1>17. s \in Seq(Nat \ {0}) /\ Len(s) = N + 1 /\ s[N + 1] = length /\ \A i \in 1..N : s[i] = sent[i]
  <2>1. s = Append(sent, length)
    BY <1>3, <1>16
  <2> QED
    BY <1>5, <1>6, <1>15, <2>1
<1>18. PICK w : w = written'
  OBVIOUS
<1>19. /\ w \in Seq(Nat) /\ Len(w) = L + (length + 1)
       /\ \A j \in 1..L : w[j] = written[j]
       /\ \A n \in 1..length : w[L + n] = N + 1
       /\ w[L + (length + 1)] = 0
  <2>1. PICK frame : frame = [n \in 1 .. length + 1 |-> IF n <= length THEN N + 1 ELSE 0]
    OBVIOUS
  <2>2. w = written \o frame
    BY <1>3, <1>6, <1>18, <2>1
  <2>3. length + 1 \in Nat /\ length \in Nat /\ N + 1 \in Nat
    BY <1>5, <1>15
  <2>4. frame \in [1 .. length + 1 -> Nat]
    BY <2>1, <2>3
  <2>5. frame \in Seq(Nat) /\ Len(frame) = length + 1
    BY <2>3, <2>4
  <2>6. frame[length + 1] = 0 /\ \A n \in 1..length : frame[n] = N + 1 /\ n \in 1 .. length + 1
    BY <2>1, <2>3
  <2>7. /\ w \in Seq(Nat) /\ Len(w) = Len(written) + Len(frame)
        /\ \A j \in 1..Len(written) : w[j] = written[j]
        /\ \A j \in 1..Len(frame) : w[Len(written) + j] = frame[j]
    <3>1. written \in Seq(Nat) /\ frame \in Seq(Nat)
      BY <1>15, <2>5
    <3>2. /\ written \o frame \in Seq(Nat) /\ Len(written \o frame) = Len(written) + Len(frame)
          /\ \A j \in 1..Len(written) : (written \o frame)[j] = written[j]
          /\ \A j \in 1..Len(frame) : (written \o frame)[Len(written) + j] = frame[j]
      BY ONLY <3>1, Joined
    <3> QED
      BY ONLY <2>2, <3>2, Zenon
  <2>8. length + 1 \in 1 .. length + 1
    BY <2>3
  <2> QED
    BY <1>6, <2>5, <2>6, <2>7, <2>8
<1>20. PICK ends2 : ends2 = [i \in 0 .. N + 1 |-> IF i <= N THEN ends[i] ELSE L + (length + 1)]
  OBVIOUS
<1>21. /\ ends2 \in [0 .. N + 1 -> Nat] /\ ends2[N + 1] = L + (length + 1)
       /\ \A i \in 0..N : ends2[i] = ends[i]
  <2>1. L + (length + 1) \in Nat /\ ~ (N + 1 <= N) /\ N + 1 \in 0 .. N + 1
    BY <1>5, <1>15
  <2>2. \A i \in 0..N : i <= N /\ i \in 0 .. N + 1 /\ ends[i] \in Nat
    BY <1>15
  <2>3. \A i \in 0 .. N + 1 : i <= N => i \in 0..N
    BY <1>15
  <2> QED
    BY <1>20, <2>1, <2>2, <2>3
<1>7. /\ Laid(s, w, ends2) /\ Len(s) = Len(sent) + 1 /\ Len(w) > Len(written)
      /\ \A i \in 1..Len(sent) : s[i] = sent[i]
      /\ ends2[Len(sent) + 1] > Len(written)
  <2>1. Laid(s, w, ends2)
    <3>1. Laid(sent, written, ends) /\ N = Len(sent) /\ L = Len(written) /\ length \in Nat \ {0}
      BY <1>1, <1>5, <1>6
    <3>2. Longer(sent, written, ends, length, s, w, ends2)
      BY ONLY <3>1, <1>17, <1>19, <1>21, Zenon DEF Longer
    <3> QED
      BY <3>1, <3>2, SendLays
  <2> QED
    BY <1>5, <1>6, <1>15, <1>17, <1>19, <1>21, <2>1
<1>8. /\ Len(sent) \in Nat /\ Len(written) \in Nat /\ Len(w) \in Nat
      /\ \A i \in 0..Len(sent) : ends[i] \in Nat /\ ends2[i] = ends[i]
  <2>1. Len(sent) \in Nat /\ Len(written) \in Nat /\ Len(w) \in Nat
    BY <1>5, <1>6, <1>15, <1>19
  <2>2. \A i \in 0..N : ends[i] \in Nat /\ ends2[i] = ends[i]
    BY <1>15, <1>21
  <2> QED
    BY <1>6, <2>1, <2>2
<1>9. read \in 0..Len(w)
  BY <1>2, <1>7, <1>8
<1>10. Lines(s, 0, k) = Lines(sent, 0, k)
  <2>1. ASSUME NEW i \in 1 .. k - 0 PROVE s[0 + i] = sent[0 + i]
    <3>1. 0 + i \in 1..Len(sent)
      BY <1>1, <1>8
    <3> QED
      BY <1>7, <3>1
  <2> QED
    BY <2>1 DEF Lines
<1>11. k \in 0..Len(s) /\ k \in 0..Len(sent)
  BY <1>1, <1>7, <1>8
<1>12. CASE alive
  <2>1. Cut(sent, ends, 0, k, read, [rest |-> buffered, lines |-> routed])
    BY <1>1, <1>12
  <2>2. /\ ends[k] <= read /\ k < Len(sent) => read < ends[k + 1]
        /\ [rest |-> buffered, lines |-> routed]
             = [rest |-> [j \in 1 .. read - ends[k] |-> k + 1], lines |-> Lines(sent, 0, k)]
    BY <2>1 DEF Cut
  <2>3. ends2[k] = ends[k]
    BY <1>8, <1>11
  <2>4. ends2[k] <= read
    <3>1. ends[k] <= read
      BY <2>1 DEF Cut
    <3> QED
      BY <2>3, <3>1
  <2>5. read < ends2[k + 1]
    <3>1. CASE k < Len(sent)
      <4>1. k + 1 \in 0..Len(sent)
        BY <1>8, <1>11, <3>1
      <4>2. read < ends[k + 1]
        BY <2>1, <3>1 DEF Cut
      <4> QED
        BY <1>8, <4>1, <4>2
    <3>2. CASE ~ (k < Len(sent))
      <4>1. k = Len(sent)
        BY <1>8, <1>11, <3>2
      <4>2. ends2[k + 1] > Len(written) /\ read <= Len(written)
        BY <1>2, <1>7, <4>1
      <4>3. ends2[k + 1] \in Nat
        <5>1. ends2 \in [0..Len(s) -> Nat] /\ k + 1 \in 0..Len(s)
          BY <1>7, <1>8, <4>1 DEF Laid
        <5> QED
          BY <5>1
      <4> QED
        BY <1>2, <1>8, <4>2, <4>3
    <3> QED
      BY <3>1, <3>2
  <2>6. [rest |-> buffered, lines |-> routed]
          = [rest |-> [j \in 1 .. read - ends2[k] |-> k + 1], lines |-> Lines(s, 0, k)]
    <3>1. [rest |-> buffered, lines |-> routed]
             = [rest |-> [j \in 1 .. read - ends[k] |-> k + 1], lines |-> Lines(sent, 0, k)]
      BY <2>1 DEF Cut
    <3> QED
      BY <1>10, <2>3, <3>1
  <2>7. Cut(s, ends2, 0, k, read, [rest |-> buffered, lines |-> routed])
    BY <1>11, <2>4, <2>5, <2>6 DEF Cut
  <2>8. alive' = TRUE
    BY <1>4, <1>12
  <2> QED
    BY <1>1, <1>4, <1>16, <1>18, <1>7, <1>9, <1>10, <1>11, <2>7, <2>8 DEF FramingSafe
<1>13. CASE ~ alive
  <2>1. PICK i \in 1..Len(sent) : sent[i] > MaxFrame - MaxChunk
    BY <1>1, <1>13
  <2>2. i \in 1..Len(s) /\ s[i] > MaxFrame - MaxChunk
    BY <1>7, <1>8, <2>1
  <2>3. \E j \in 1..Len(s) : s[j] > MaxFrame - MaxChunk
    BY <2>2
  <2>4. ~ alive' /\ alive' \in BOOLEAN
    BY <1>2, <1>4, <1>13
  <2> QED
    BY <1>1, <1>4, <1>16, <1>18, <1>7, <1>9, <1>10, <1>11, <2>3, <2>4 DEF FramingSafe
<1> QED
  BY <1>12, <1>13

LEMMA LinesJoin ==
  ASSUME NEW lengths, NEW k \in Nat, NEW to \in Nat, k <= to
  PROVE  Lines(lengths, 0, k) \o Lines(lengths, k, to) = Lines(lengths, 0, to)
PROOF
<1> DEFINE line(i) == [n \in 1..lengths[i] |-> i]
<1> DEFINE S == {line(i) : i \in Nat}
<1>1. PICK a, b, c : a = Lines(lengths, 0, k) /\ b = Lines(lengths, k, to) /\ c = Lines(lengths, 0, to)
  OBVIOUS
<1>2. /\ a = [i \in 1 .. k - 0 |-> line(0 + i)] /\ b = [i \in 1 .. to - k |-> line(k + i)]
      /\ c = [i \in 1 .. to - 0 |-> line(0 + i)]
  BY <1>1 DEF Lines
<1> HIDE DEF line
<1>3. \A i \in Nat : line(i) \in S
  OBVIOUS
<1> HIDE DEF S
<1>4. /\ a \in Seq(S) /\ Len(a) = k /\ \A i \in 1..k : a[i] = line(i)
  <2>1. k - 0 = k /\ \A i \in 1..k : 0 + i = i /\ i \in Nat
    OBVIOUS
  <2>2. a = [i \in 1..k |-> line(i)]
    BY <1>2, <2>1
  <2>3. a \in [1..k -> S]
    BY <1>3, <2>1, <2>2
  <2> QED
    BY <2>2, <2>3
<1>5. /\ b \in Seq(S) /\ Len(b) = to - k /\ \A i \in 1 .. to - k : b[i] = line(k + i)
  <2>1. to - k \in Nat /\ \A i \in 1 .. to - k : k + i \in Nat
    OBVIOUS
  <2>2. b \in [1 .. to - k -> S]
    BY <1>2, <1>3, <2>1
  <2>3. PICK rest : rest = to - k
    OBVIOUS
  <2>4. rest \in Nat /\ b \in [1..rest -> S]
    BY <2>1, <2>2, <2>3
  <2>5. b \in Seq(S) /\ Len(b) = rest
    BY ONLY <2>4
  <2>6. \A i \in 1 .. to - k : b[i] = line(k + i)
    BY <1>2
  <2> QED
    BY <2>3, <2>5, <2>6
<1>6. c = [i \in 1..to |-> line(i)]
  <2>1. to - 0 = to /\ \A i \in 1..to : 0 + i = i
    OBVIOUS
  <2> QED
    BY <1>2, <2>1
<1>7. /\ a \o b \in Seq(S) /\ Len(a \o b) = Len(a) + Len(b)
      /\ \A j \in 1..Len(a) : (a \o b)[j] = a[j]
      /\ \A j \in 1..Len(b) : (a \o b)[Len(a) + j] = b[j]
  <2>1. a \in Seq(S) /\ b \in Seq(S)
    BY <1>4, <1>5
  <2> QED
    BY ONLY <2>1, Joined
<1>8. PICK d : d = a \o b
  OBVIOUS
<1>9. /\ d \in Seq(S) /\ Len(d) = to
      /\ \A j \in 1..k : d[j] = line(j)
      /\ \A j \in 1 .. to - k : d[k + j] = line(k + j)
  <2>1. k + (to - k) = to
    OBVIOUS
  <2> QED
    BY <1>4, <1>5, <1>7, <1>8, <2>1
<1>10. ASSUME NEW i \in 1..to PROVE d[i] = line(i)
  <2>1. CASE i <= k
    BY <1>9, <2>1
  <2>2. CASE ~ (i <= k)
    <3>1. PICK j : j = i - k
      OBVIOUS
    <3>2. j \in 1 .. to - k /\ k + j = i
      BY <2>2, <3>1
    <3> QED
      BY <1>9, <3>2
  <2> QED
    BY <2>1, <2>2
<1>11. d = [i \in 1..to |-> d[i]]
  BY <1>9
<1>12. d = c
  BY <1>6, <1>10, <1>11
<1> QED
  BY ONLY <1>1, <1>8, <1>12, Zenon

\* The unfinished line and what the network delivers next, together.
Delivered(text, rest, stream, position, n) == text = rest \o SubSeq(stream, position + 1, position + n)

\* It is the beginning of line k + 1, and what follows that beginning.
ContinuesLine(lengths, stream, ends, k, position, n, text) ==
  /\ text \in Seq(Nat) /\ ends[k] + Len(text) = position + n
  /\ k < Len(lengths) /\ position < ends[k + 1]
  /\ \A m \in 1..Len(text) : text[m] = stream[ends[k] + m]

LEMMA DeliveredText ==
  ASSUME NEW lengths, NEW stream, NEW ends, Laid(lengths, stream, ends), NEW k, NEW position \in Nat,
         NEW s, Cut(lengths, ends, 0, k, position, s), NEW n \in Nat \ {0}, position + n <= Len(stream),
         NEW text, Delivered(text, s.rest, stream, position, n)
  PROVE  ContinuesLine(lengths, stream, ends, k, position, n, text)
PROOF
<1>1. /\ lengths \in Seq(Nat \ {0}) /\ stream \in Seq(Nat) /\ ends \in [0..Len(lengths) -> Nat]
      /\ Len(stream) = ends[Len(lengths)]
  BY DEF Laid
<1>2. Len(lengths) \in Nat /\ Len(stream) \in Nat /\ n \in Nat /\ n # 0
  BY <1>1
<1>3. /\ k \in 0..Len(lengths) /\ ends[k] <= position
      /\ k < Len(lengths) => position < ends[k + 1]
  BY DEF Cut
<1>4. ends[k] \in Nat /\ k \in Nat
  <2>1. k \in 0..Len(lengths)
    BY <1>3
  <2> QED
    <3>1. k \in Nat
      BY <1>2, <2>1
    <3>2. ends[k] \in Nat
      BY <1>1, <2>1
    <3> QED
      BY <3>1, <3>2
<1>5. k < Len(lengths) /\ position < ends[k + 1]
  <2>1. ASSUME ~ (k < Len(lengths)) PROVE FALSE
    <3>1. k = Len(lengths)
      BY <1>2, <1>3, <2>1
    <3>2. ends[k] = Len(stream)
      BY <1>1, <3>1
    <3> QED
      BY <1>2, <1>3, <3>2
  <2> QED
    BY <1>3, <2>1
<1>6. PICK e, N : e = ends[k] /\ N = position - e
  OBVIOUS
<1>7. e \in Nat /\ N \in Nat /\ e + N = position
  BY <1>3, <1>4, <1>6
<1>8. PICK a : a = s.rest
  OBVIOUS
<1>9. a \in Seq(Nat) /\ Len(a) = N /\ \A m \in 1..N : a[m] = k + 1
  <2>1. a = [j \in 1..N |-> k + 1]
    BY <1>6, <1>8 DEF Cut
  <2>2. k + 1 \in Nat
    BY <1>4
  <2>3. a \in [1..N -> Nat]
    BY <2>1, <2>2
  <2> QED
    BY <1>7, <2>1, <2>3
<1>10. PICK b : b = SubSeq(stream, position + 1, position + n)
  OBVIOUS
<1>11. b \in Seq(Nat) /\ Len(b) = n /\ \A m \in 1..n : b[m] = stream[position + m]
  <2>1. b = [m \in 1..n |-> stream[position + m]]
    <3>1. position + 1 \in 1 .. Len(stream) + 1 /\ position + n \in 0..Len(stream)
      BY <1>2
    <3>2. (position + n) - (position + 1) + 1 = n /\ \A m \in 1..n : (position + 1) + m - 1 = position + m
      BY <1>2
    <3>3. b = [m \in 1 .. (position + n) - (position + 1) + 1 |-> stream[(position + 1) + m - 1]]
      BY <1>1, <1>10, <3>1
    <3> QED
      BY <3>2, <3>3
  <2>2. \A m \in 1..n : stream[position + m] \in Nat
    <3>1. \A m \in 1..n : position + m \in 1..Len(stream)
      BY <1>2
    <3> QED
      BY <1>1, <3>1
  <2>3. b \in [1..n -> Nat]
    BY <2>1, <2>2
  <2>4. n \in Nat
    BY <1>2
  <2>5. b \in Seq(Nat) /\ Len(b) = n
    BY ONLY <2>3, <2>4
  <2>6. \A m \in 1..n : b[m] = stream[position + m]
    BY <2>1
  <2> QED
    BY <2>5, <2>6
<1>12. /\ a \o b \in Seq(Nat) /\ Len(a \o b) = Len(a) + Len(b)
       /\ \A j \in 1..Len(a) : (a \o b)[j] = a[j]
       /\ \A j \in 1..Len(b) : (a \o b)[Len(a) + j] = b[j]
  <2>1. a \in Seq(Nat) /\ b \in Seq(Nat)
    BY <1>9, <1>11
  <2> QED
    BY ONLY <2>1, Joined
<1>13. text = a \o b
  BY <1>8, <1>10 DEF Delivered
<1>14. /\ text \in Seq(Nat) /\ Len(text) = N + n
       /\ \A j \in 1..N : text[j] = k + 1
       /\ \A j \in 1..n : text[N + j] = stream[position + j]
  <2>1. /\ text \in Seq(Nat) /\ Len(text) = Len(a) + Len(b)
        /\ \A j \in 1..Len(a) : text[j] = a[j]
        /\ \A j \in 1..Len(b) : text[Len(a) + j] = b[j]
    BY ONLY <1>12, <1>13, Zenon
  <2> QED
    BY <1>9, <1>11, <2>1
<1>15. \A j \in e + 1 .. ends[k + 1] - 1 : stream[j] = k + 1
  <2>1. k + 1 \in 1..Len(lengths) /\ (k + 1) - 1 = k
    BY <1>2, <1>4, <1>5
  <2>2. \A j \in ends[(k + 1) - 1] + 1 .. ends[k + 1] - 1 : stream[j] = k + 1
    BY <2>1 DEF Laid
  <2> QED
    BY <1>6, <2>1, <2>2
<1>16. ends[k + 1] \in Nat
  <2>1. k + 1 \in 0..Len(lengths)
    BY <1>2, <1>4, <1>5
  <2> QED
    BY <1>1, <2>1
<1>17. ASSUME NEW m \in 1 .. N + n PROVE text[m] = stream[e + m]
  <2>1. CASE m <= N
    <3>1. m \in 1..N /\ e + m \in e + 1 .. ends[k + 1] - 1
      BY <1>2, <1>5, <1>7, <1>16, <2>1
    <3> QED
      BY <1>14, <1>15, <3>1
  <2>2. CASE ~ (m <= N)
    <3>1. PICK j : j = m - N
      OBVIOUS
    <3>2. j \in 1..n /\ N + j = m /\ position + j = e + m
      BY <1>2, <1>7, <2>2, <3>1
    <3> QED
      BY <1>14, <3>2
  <2> QED
    BY <2>1, <2>2
<1>18. e + (N + n) = position + n
  BY <1>2, <1>7
<1> QED
  BY <1>5, <1>6, <1>14, <1>17, <1>18 DEF ContinuesLine

LEMMA DataKeeps ==
  ASSUME FramingSafe, Framing!Data
  PROVE  FramingSafe'
PROOF
<1>1. PICK ends, k : /\ k \in 0..Len(sent) /\ Laid(sent, written, ends) /\ routed = Lines(sent, 0, k)
                     /\ IF alive THEN Cut(sent, ends, 0, k, read, [rest |-> buffered, lines |-> routed])
                        ELSE \E i \in 1..Len(sent) : sent[i] > MaxFrame - MaxChunk
  BY DEF FramingSafe
<1>2. read \in Nat /\ alive /\ UNCHANGED <<sent, written>>
  BY DEF FramingSafe, Framing!Data
<1>3. PICK n \in 1..MaxChunk :
        LET text == buffered \o SubSeq(written, read + 1, read + n) IN
        /\ read + n <= Len(written) /\ read' = read + n
        /\ \/ Len(text) > MaxFrame /\ alive' = FALSE /\ buffered' = text /\ UNCHANGED routed
           \/ /\ Len(text) <= MaxFrame /\ buffered' = Framing!Kept(text)
              /\ routed' = routed \o Framing!Split(text).lines /\ UNCHANGED alive
  BY DEF Framing!Data
<1>4. PICK text : text = buffered \o SubSeq(written, read + 1, read + n)
  OBVIOUS
<1>5. /\ read + n <= Len(written) /\ read' = read + n
      /\ \/ Len(text) > MaxFrame /\ alive' = FALSE /\ UNCHANGED routed
         \/ /\ buffered' = Framing!Split(text).rest
            /\ routed' = routed \o Framing!Split(text).lines /\ UNCHANGED alive
  BY <1>3, <1>4 DEF Framing!Kept
<1>6. PICK s : s = [rest |-> buffered, lines |-> routed]
  OBVIOUS
<1>7. Cut(sent, ends, 0, k, read, s)
  BY <1>1, <1>2, <1>6
<1>8. n \in Nat \ {0} /\ n <= MaxChunk /\ MaxChunk \in Nat /\ MaxFrame \in Nat
  BY FramingAssumption
<1>9. text = s.rest \o SubSeq(written, read + 1, read + n)
  BY <1>4, <1>6
<1>10. /\ text \in Seq(Nat) /\ ends[k] + Len(text) = read + n
       /\ k < Len(sent) /\ read < ends[k + 1]
       /\ \A m \in 1..Len(text) : text[m] = written[ends[k] + m]
  <2>1. PICK w, p : w = written /\ p = read
    OBVIOUS
  <2>2. Laid(sent, w, ends) /\ p \in Nat /\ n \in Nat \ {0}
    BY <1>1, <1>2, <1>8, <2>1
  <2>4. Cut(sent, ends, 0, k, p, s)
    BY <1>7, <2>1
  <2>5. p + n <= Len(w)
    BY <1>5, <2>1
  <2>6. Delivered(text, s.rest, w, p, n)
    BY <1>9, <2>1 DEF Delivered
  <2>3. ContinuesLine(sent, w, ends, k, p, n, text)
    BY ONLY <2>2, <2>4, <2>5, <2>6, DeliveredText
  <2> QED
    BY <2>1, <2>3 DEF ContinuesLine
<1>11. /\ Len(sent) \in Nat /\ Len(written) \in Nat /\ ends[k] \in Nat
       /\ \A i \in 0..Len(sent) : ends[i] \in Nat
       /\ \A i \in 1..Len(sent) : sent[i] \in Nat /\ ends[i] = ends[i - 1] + sent[i] + 1
  <2>1. sent \in Seq(Nat \ {0}) /\ written \in Seq(Nat) /\ ends \in [0..Len(sent) -> Nat]
    BY <1>1 DEF Laid
  <2>2. \A i \in 1..Len(sent) : sent[i] \in Nat
    BY <2>1
  <2>3. \A i \in 1..Len(sent) : ends[i] = ends[i - 1] + sent[i] + 1
    BY <1>1 DEF Laid
  <2>4. Len(sent) \in Nat /\ Len(written) \in Nat
    BY <2>1
  <2>5. \A i \in 0..Len(sent) : ends[i] \in Nat
    BY <2>1
  <2> QED
    BY <1>1, <2>2, <2>3, <2>4, <2>5
<1>12. read' \in 0..Len(written) /\ alive' \in BOOLEAN
  <2>1. read' = read + n /\ read + n <= Len(written) /\ written' = written /\ alive' \in BOOLEAN
    BY <1>2, <1>5
  <2>2. read + n \in 0..Len(written)
    BY <1>2, <1>8, <1>11, <2>1
  <2> QED
    BY <2>1, <2>2
<1>13. CASE Len(text) > MaxFrame /\ alive' = FALSE /\ UNCHANGED routed
  <2>1. k + 1 \in 1..Len(sent) /\ (k + 1) - 1 = k
    <3>1. k \in 0..Len(sent) /\ Len(sent) \in Nat /\ k < Len(sent)
      BY <1>1, <1>10, <1>11
    <3> QED
      BY ONLY <3>1
  <2>2. ends[k + 1] = ends[k] + sent[k + 1] + 1 /\ sent[k + 1] \in Nat
    BY <1>11, <2>1
  <2>3. Len(text) \in Nat
    BY <1>10
  <2>4. sent[k + 1] > MaxFrame - MaxChunk
    BY <1>2, <1>8, <1>10, <1>11, <1>13, <2>2, <2>3
  <2>5. \E i \in 1..Len(sent) : sent[i] > MaxFrame - MaxChunk
    BY <2>1, <2>4
  <2> QED
    BY <1>1, <1>2, <1>12, <1>13, <2>5 DEF FramingSafe
<1>14. CASE buffered' = Framing!Split(text).rest /\ routed' = routed \o Framing!Split(text).lines /\ UNCHANGED alive
  <2>1. PICK to : Cut(sent, ends, k, to, ends[k] + Len(text), Framing!Split(text))
    <3>1. ends[k] + Len(text) <= Len(written)
      BY <1>5, <1>10
    <3> QED
      BY <1>1, <1>10, <3>1, SplitCuts
  <2>2. PICK split : split = Framing!Split(text)
    OBVIOUS
  <2>3. Cut(sent, ends, k, to, read + n, split)
    BY ONLY <2>1, <2>2, <1>10, Zenon
  <2>4. /\ to \in k..Len(sent) /\ ends[to] <= read + n
        /\ to < Len(sent) => read + n < ends[to + 1]
        /\ split = [rest |-> [j \in 1 .. (read + n) - ends[to] |-> to + 1], lines |-> Lines(sent, k, to)]
    BY ONLY <2>3, Zenon DEF Cut
  <2>5. k \in Nat /\ to \in Nat /\ k <= to /\ to \in 0..Len(sent)
    BY <1>1, <1>11, <2>4
  <2>6. split.rest = [j \in 1 .. (read + n) - ends[to] |-> to + 1] /\ split.lines = Lines(sent, k, to)
    BY <2>4
  <2>7. routed' = Lines(sent, 0, to)
    <3>1. routed' = Lines(sent, 0, k) \o Lines(sent, k, to)
      BY <1>1, <1>14, <2>2, <2>6
    <3> QED
      BY <2>5, <3>1, LinesJoin
  <2>8. PICK b, t : b = buffered' /\ t = routed'
    OBVIOUS
  <2>9. b = [j \in 1 .. (read + n) - ends[to] |-> to + 1] /\ t = Lines(sent, 0, to)
    BY <1>14, <2>2, <2>6, <2>7, <2>8
  <2>10. Cut(sent, ends, 0, to, read + n, [rest |-> b, lines |-> t])
    BY <2>4, <2>5, <2>9 DEF Cut
  <2>11. Cut(sent, ends, 0, to, read', [rest |-> buffered', lines |-> routed'])
    BY <1>5, <2>8, <2>10
  <2> QED
    BY <1>1, <1>2, <1>12, <1>14, <2>5, <2>7, <2>11 DEF FramingSafe
<1> QED
  BY <1>5, <1>13, <1>14

LEMMA FramingIsWhole ==
  ASSUME FramingSafe
  PROVE  FramesArriveWhole
PROOF
<1>1. PICK ends, k : /\ k \in 0..Len(sent) /\ Laid(sent, written, ends) /\ routed = Lines(sent, 0, k)
                     /\ IF alive THEN Cut(sent, ends, 0, k, read, [rest |-> buffered, lines |-> routed])
                        ELSE \E i \in 1..Len(sent) : sent[i] > MaxFrame - MaxChunk
  BY DEF FramingSafe
<1>2. sent \in Seq(Nat \ {0}) /\ Len(sent) \in Nat /\ DOMAIN sent = 1..Len(sent) /\ Len(written) \in Nat
  BY <1>1 DEF Laid
<1>3. k \in Nat /\ k <= Len(sent)
  BY <1>1, <1>2
<1>4. Len(routed) = k /\ DOMAIN routed = 1..k /\ \A i \in 1..k : routed[i] = [n \in 1..sent[i] |-> i]
  <2>1. k - 0 = k /\ \A i \in 1..k : 0 + i = i
    BY <1>3
  <2>2. routed = [i \in 1..k |-> [n \in 1..sent[i] |-> i]]
    BY <1>1, <2>1 DEF Lines
  <2> QED
    BY <1>3, <2>2
<1>5. Framing!InOrder
  BY <1>3, <1>4 DEF Framing!InOrder, Framing!Line
<1>6. Framing!ShortLinesNeverDestroy
  BY <1>1, <1>2 DEF Framing!ShortLinesNeverDestroy
<1>7. ASSUME alive, read = Len(written) PROVE Len(routed) = Len(sent)
  <2>1. k < Len(sent) => read < ends[k + 1]
    BY <1>1, <1>7 DEF Cut
  <2>2. ASSUME k < Len(sent) PROVE FALSE
    <3>1. k + 1 \in 0..Len(sent)
      BY <1>2, <1>3, <2>2
    <3>2. ends[k + 1] <= Len(written) /\ ends[k + 1] \in Nat
      BY <1>1, <3>1 DEF Laid
    <3> QED
      BY <1>2, <1>7, <2>1, <2>2, <3>2
  <2> QED
    <3>1. k = Len(sent)
      <4>1. ~ (k < Len(sent))
        BY <2>2
      <4>2. Len(sent) \in Nat
        BY <1>2
      <4> QED
        BY ONLY <1>3, <4>1, <4>2
    <3> QED
      BY <1>4, <3>1
<1> QED
  BY <1>5, <1>6, <1>7 DEF FramesArriveWhole, Framing!FramesArriveWhole

\* However the network cuts what a client wrote on a TCP connection, the frame
\* router (sync-transports.ts, startTcpTransport) is given the lines that were
\* sent, whole, once and in order; the socket of a peer is destroyed only when it
\* sent a line with no room for a chunk below MAX_FRAME_BYTES; and a socket that
\* was not has routed every line when all it wrote was delivered.
THEOREM FramesArriveWholeHolds == Framing!Spec => []FramesArriveWhole
PROOF
<1>1. Framing!Init => FramingSafe
  BY FramingStarts
<1>2. FramingSafe /\ [Framing!Next]_(Framing!vars) => FramingSafe'
  <2> SUFFICES ASSUME FramingSafe, [Framing!Next]_(Framing!vars) PROVE FramingSafe'
    OBVIOUS
  <2>1. CASE Framing!Send
    BY <2>1, SendKeeps
  <2>2. CASE Framing!Data
    BY <2>2, DataKeeps
  <2>3. CASE UNCHANGED Framing!vars
    BY <2>3 DEF Framing!vars, FramingSafe
  <2> QED
    BY <2>1, <2>2, <2>3 DEF Framing!Next
<1>3. FramingSafe => FramesArriveWhole
  BY FramingIsWhole
<1> QED
  BY <1>1, <1>2, <1>3, PTL DEF Framing!Spec
=============================================================================
