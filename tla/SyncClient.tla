----------------------------- MODULE SyncClient -----------------------------
(***************************************************************************)
(* Clients with a durable outgoing queue, as the client suites and the     *)
(* convergence model use them (ProtocolQueue and OptoSyncClient: queue a   *)
(* mutation, build a push request from the pending ones, acknowledge the   *)
(* response of exactly that request), over a network that loses,           *)
(* duplicates, delays and reorders requests and responses, on SyncServer.  *)
(*                                                                         *)
(* A message once sent may be delivered any number of times, at any time,  *)
(* or never.  A client keeps nothing but its queue between two steps, so a *)
(* restart of the client process is a step that changes nothing; a restart *)
(* of the server is a Rollback.                                            *)
(***************************************************************************)
EXTENDS SyncServer

CONSTANTS
  Principal,     \* Principal[c]: the identity that uses clientId c
  Intent,        \* the mutations users make, whatever their id
  MaxQueued,     \* bound: MaxQueued[c] mutations are ever queued by c
  PushLimit      \* the most mutations a client puts into one request

ASSUME ClientAssumption ==
  /\ Principal \in [ClientId -> Identity]
  /\ \A c \in ClientId : c \in Principal[c].clientIds
  /\ Intent \subseteq Mutation
  /\ \A m \in Intent : (m.op = "upsert") = (m.data \in Data)
  /\ MaxQueued \in [ClientId -> Nat]
  /\ PushLimit \in Nat \ {0}

VARIABLES
  issued,     \* auxiliary: issued[c]: every mutation c ever queued
  pending,    \* pending[c]: those not acknowledged, oldest first
  told,       \* told[c]: the outcomes c was told
  requests,   \* push requests ever sent
  replies     \* responses ever sent, each with its request

clientVars == <<issued, pending, told, requests, replies>>

ClientInit ==
  /\ issued = [c \in ClientId |-> <<>>]
  /\ pending = [c \in ClientId |-> <<>>]
  /\ told = [c \in ClientId |-> {}]
  /\ requests = {}
  /\ replies = {}

-----------------------------------------------------------------------------
\* Slip: a second edit of the record replaces the first in the queue.
QueueCoalesced(queue, m) ==
  IF queue # <<>> /\ queue[Len(queue)].record = m.record
  THEN [queue EXCEPT ![Len(queue)] = [m EXCEPT !.id = queue[Len(queue)].id]]
  ELSE Append(queue, m)

\* queueMutation: a queued mutation is never edited again.
Queue(queue, m) == Append(queue, m)

\* Slip: numbering restarts with an empty queue.
NextIdOfQueue(c) == Len(pending[c]) + 1

\* The durable counter of the client.
NextId(c) == Len(issued[c]) + 1

Enqueue(c, m) ==
  LET new == [m EXCEPT !.id = NextId(c)]
  IN /\ Len(issued[c]) < MaxQueued[c]
     /\ issued' = [issued EXCEPT ![c] = Append(@, new)]
     /\ pending' = [pending EXCEPT ![c] = Queue(@, new)]
     /\ UNCHANGED <<told, requests, replies>>

\* protocolPushRequest: the oldest pending mutations, again and again until
\* they are acknowledged.
Send(c, k) ==
  /\ k \in 1 .. Len(pending[c]) /\ k <= PushLimit
  /\ requests' = requests \cup
       {[client |-> c, batch |-> SubSeq(pending[c], 1, k)]}
  /\ UNCHANGED <<issued, pending, told, replies>>

\* Slip: whatever is pending when the response arrives is acknowledged.
AcknowledgeAll(queue, reply) == <<>>

\* The elements of a sequence at the positions in P, in their order.
Filter(queue, P) ==
  LET nth(n) == CHOOSE i \in P : Cardinality({j \in P : j <= i}) = n
  IN [n \in 1 .. Cardinality(P) |-> queue[nth(n)]]

\* acknowledgePush: exactly the mutations of the request leave the queue.
Acknowledge(queue, reply) ==
  Filter(queue, {i \in DOMAIN queue :
                   \A j \in DOMAIN reply.batch : reply.batch[j].id # queue[i].id})

Receive(reply) ==
  LET c == reply.client
  IN /\ reply \in replies
     /\ pending' = [pending EXCEPT ![c] = Acknowledge(@, reply)]
     /\ told' = [told EXCEPT ![c] = @ \cup {x.outcome : x \in reply.results}]
     /\ UNCHANGED <<issued, requests, replies>>

-----------------------------------------------------------------------------
(* The server's steps, on requests as they arrive. *)

Deliver(request) ==
  /\ request \in requests
  /\ BeginPush(Principal[request.client], request.client, request.batch)

\* The batch the response is about: what was executed, in order.
AnsweredBatch ==
  [i \in DOMAIN call.results |-> call.results[i].outcome.request]

CommitAndReply ==
  /\ CommitPush
  /\ replies' = replies \cup
       {[client |-> call.client, batch |-> AnsweredBatch,
         results |-> {call.results[i] : i \in DOMAIN call.results}]}
  /\ UNCHANGED <<issued, pending, told, requests>>

ServerStep ==
  \/ \E request \in requests : Deliver(request)
  \/ PushStep
  \/ \E t \in Tenant, r \in RecordId, d \in ExternalData : ExternalUpsert(t, r, d)
  \/ \E t \in Tenant, r \in RecordId : ExternalDelete(t, r)
  \/ CommitAdmin
  \/ Rollback

ClientStep ==
  \/ \E c \in ClientId, m \in Intent : Enqueue(c, m)
  \/ \E c \in ClientId, k \in 1 .. PushLimit : Send(c, k)
  \/ \E reply \in replies : Receive(reply)

ClientNext ==
  \/ ServerStep /\ UNCHANGED clientVars
  \/ CommitAndReply
  \/ ClientStep /\ UNCHANGED vars

clientServerVars == <<vars, clientVars>>

ClientSpec == Init /\ ClientInit /\ [][ClientNext]_clientServerVars

-----------------------------------------------------------------------------
(***************************************************************************)
(* Fairness: a client retries as long as something is pending; a request   *)
(* sent over and over is delivered and its transaction is not aborted      *)
(* every time; a response sent over and over arrives.                      *)
(***************************************************************************)
Oldest(c) == pending[c][1]

SendOldest(c) ==
  pending[c] # <<>> /\ Send(c, 1) /\ requests' # requests /\ UNCHANGED vars

DeliverOldest(c) ==
  /\ pending[c] # <<>>
  /\ \E request \in requests :
       /\ request.client = c
       /\ request.batch[1] = Oldest(c)
       /\ Deliver(request)
  /\ UNCHANGED clientVars

ExecuteOwn(c, k) ==
  /\ call.client = c /\ call.todo # <<>> /\ Current.id = k
  /\ PushStep
  /\ UNCHANGED clientVars

CommitOldest(c) ==
  /\ pending[c] # <<>> /\ call.client = c
  /\ \E i \in DOMAIN call.results :
       call.results[i].outcome.request = Oldest(c)
  /\ CommitAndReply

ReceiveOldest(c) ==
  /\ pending[c] # <<>>
  /\ \E reply \in replies :
       /\ reply.client = c
       /\ \E i \in DOMAIN reply.batch : reply.batch[i] = Oldest(c)
       /\ Receive(reply)
  /\ UNCHANGED vars

RetryFairness ==
  /\ WF_clientServerVars((CommitAdmin \/ Rollback) /\ UNCHANGED clientVars)
  /\ \A c \in ClientId :
       /\ WF_clientServerVars(SendOldest(c))
       /\ SF_clientServerVars(DeliverOldest(c))
       /\ \A k \in 1 .. MaxQueued[c] : SF_clientServerVars(ExecuteOwn(c, k))
       /\ SF_clientServerVars(CommitOldest(c))
       /\ SF_clientServerVars(ReceiveOldest(c))

FairClientSpec == ClientSpec /\ RetryFairness

-----------------------------------------------------------------------------
(***************************************************************************)
(* Properties.                                                             *)
(***************************************************************************)
Ids(queue) == {queue[i].id : i \in DOMAIN queue}

\* Queues are numbered in the order the mutations were made; what a client
\* was told are outcomes of its own mutations.
ClientTypeOK ==
  /\ issued \in [ClientId -> Seq(Mutation)]
  /\ pending \in [ClientId -> Seq(Mutation)]
  /\ told \in [ClientId -> SUBSET Outcome]
  /\ \A c \in ClientId :
       /\ \A i \in DOMAIN issued[c] : issued[c][i].id = i
       /\ \A e \in told[c] : e.client = c

\* A client that numbers its mutations and never edits them meets none of
\* MUTATION_GAP, MUTATION_ID_REUSED, LEDGER_INCONSISTENT and
\* CLIENT_OWNERSHIP_CONFLICT, whatever the network repeats or reorders: every
\* one of these is final for the transport (not retryable) and would leave
\* the queue stuck.
NoProtocolError ==
  holder = "push" =>
    /\ OwnsClient
    /\ call.todo # <<>> =>
         \/ IsNext
         \/ \E e \in Prior(work, call.tenant, call.client, Current.id) :
              e.request = Current

\* Nothing is dropped: a mutation leaves the queue only once its own outcome
\* has been told.
NoWriteIsLost ==
  \A c \in ClientId : \A i \in DOMAIN issued[c] :
    \/ \E j \in DOMAIN pending[c] : pending[c][j] = issued[c][i]
    \/ \E e \in told[c] : e.request = issued[c][i]

\* What a client is told is final and durable: it is the one ledger row of
\* that mutation, in the committed tables, however often it was retried.
ToldIsDurable ==
  \A c \in ClientId : \A e \in told[c] : e \in db.ledger

\* Both sides number the same stream: the server has executed no mutation the
\* client has not queued, the client has forgotten none the server lacks.
WatermarksAgree ==
  \A c \in ClientId :
    LET executed == db.clients[Principal[c].tenant][c].last
    IN /\ executed <= Len(issued[c])
       /\ Len(issued[c]) - Len(pending[c]) <= executed
       /\ Ids(pending[c]) =
            (Len(issued[c]) - Len(pending[c]) + 1) .. Len(issued[c])

\* The queue, what the client was told and the server's ledger describe one
\* stream of mutations.
ClientInv == ClientTypeOK /\ ToldIsDurable /\ WatermarksAgree

\* formal/procedure.toml: "with an available server/database and recurring
\* retry, pending work eventually commits, rejects, or reaches an explicit
\* bounded failure".  (Queues are bounded: a moment when all are settled is the
\* last one.)
EveryMutationSettles ==
  []<>(\A c \in ClientId : \A i \in DOMAIN issued[c] :
         \E e \in told[c] : e.request = issued[c][i])
=============================================================================
