------------------------------ MODULE Connections ------------------------------
(***************************************************************************)
(* The realtime transports beside the framing of one TCP stream, each over *)
(* variables of its own.                                                   *)
(***************************************************************************)
EXTENDS Transports

CONSTANTS Lengths, MaxFrames, MaxFrame, MaxChunk   \* of the stream

VARIABLES sent, written, read, buffered, routed, alive

streamVars == <<sent, written, read, buffered, routed, alive>>

Framing == INSTANCE NdjsonFraming

\* A frame has a character at least, and so has a chunk.
ASSUME FramingAssumption ==
  Lengths \subseteq Nat \ {0} /\ {MaxFrames, MaxFrame} \subseteq Nat /\ MaxChunk \in Nat \ {0}

\* However the network cuts a TCP stream, the router sees the frames that were
\* sent, whole, once and in order, and all of them unless a line was too long.
FramesArriveWhole == Framing!FramesArriveWhole
=============================================================================
