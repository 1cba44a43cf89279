----------------------------- MODULE MCConnections -----------------------------
(***************************************************************************)
(* Small instances of Connections.  The initial state                      *)
(* chooses what a behaviour is about: every kind of frame on one           *)
(* WebSocket, two connections that push, one connection with faults, or    *)
(* the lines of a TCP stream.                                              *)
(***************************************************************************)
EXTENDS Connections

CONSTANTS ws1, tcp1

MCWs == {ws1}
MCTcp == {tcp1}
MCKind == {"push", "pull", "garbage", "unknown", "binary"}

VARIABLE part

\* One push, and pulls after hints.
PushAndPull ==
  \A c \in Conn : client'[c].sent > client[c].sent =>
    LET f == toServer'[c][Len(toServer'[c])]
    IN (f.kind = "push" /\ f.id = 1) \/ (f.kind = "pull" /\ client[c].due)

InPart ==
  CASE part = "kinds"  -> /\ server'[tcp1].state = "new" /\ faults' = 0 /\ checkpoint' <= 1
                          /\ \A h \in work' : h.conn # "http"
                          /\ client'[ws1].sent > client[ws1].sent /\ client'[ws1].sent = MaxSends =>
                               toServer'[ws1][Len(toServer'[ws1])].kind = "push"
    [] part = "hub"    -> PushAndPull /\ faults' = 0 /\ \A h \in work' : h.conn # "http"
    [] part = "faults" -> PushAndPull /\ server'[tcp1].state = "new"

MCInit ==
  /\ Init /\ Framing!Init
  /\ part \in {"kinds", "hub", "faults", "stream"}

MCNext ==
  \/ part # "stream" /\ Next /\ InPart /\ UNCHANGED <<part, streamVars>>
  \/ part = "stream" /\ Framing!Next /\ UNCHANGED <<part, vars>>

MCSpec == MCInit /\ [][MCNext]_<<vars, part, streamVars>>
MCFairSpec == MCSpec /\ Fairness
=============================================================================
