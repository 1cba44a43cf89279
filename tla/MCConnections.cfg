\* A WebSocket and a TCP connection, two handlers at a time, and a TCP stream.
CONSTANTS
  ws1 = ws1
  tcp1 = tcp1
  Ws <- MCWs
  Tcp <- MCTcp
  Kind <- MCKind
  MaxInFlight = 2
  HintLimit = 1
  MaxSends = 3
  MaxCommits = 2
  MaxFaults = 1
  Lengths = {1, 2, 3, 4, 5, 6}
  MaxFrames = 4
  MaxFrame = 5
  MaxChunk = 3

SPECIFICATION MCFairSpec

INVARIANTS
  ConnectionsInv
  FramesArriveWhole

PROPERTIES
  AnswersReachTheirRequest
  EverythingSettles

\* Sends and commits are bounded: in the end everything may be settled.
CHECK_DEADLOCK FALSE
