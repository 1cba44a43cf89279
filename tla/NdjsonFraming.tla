---------------------------- MODULE NdjsonFraming ----------------------------
(***************************************************************************)
(* The framing of the TCP transport                                        *)
(* (servers/node/src/sync-transports.ts, startTcpTransport): frames are    *)
(* lines, the network delivers them in chunks of its own choosing, the     *)
(* server puts them together again and gives up on a peer whose line is    *)
(* too long.  A stream is a sequence of characters: a number names the     *)
(* frame a character belongs to, NewLine ends it.                          *)
(***************************************************************************)
EXTENDS Integers, Sequences

CONSTANTS
  Lengths,      \* of the frames a client sends, none 0
  MaxFrames,    \* bound: how many it sends
  MaxFrame,     \* MAX_FRAME_BYTES
  MaxChunk      \* the largest chunk the socket delivers, at least 1

NewLine == 0

VARIABLES
  sent,       \* the lengths of the frames of this client
  written,    \* all it has written
  read,       \* how much of that the network has delivered
  buffered,   \* what the server has of the unfinished line
  routed,     \* lines given to the frame router
  alive       \* the socket was not destroyed

vars == <<sent, written, read, buffered, routed, alive>>

Line(i) == [n \in 1..sent[i] |-> i]

Init ==
  /\ sent = <<>> /\ written = <<>> /\ read = 0
  /\ buffered = <<>> /\ routed = <<>> /\ alive = TRUE

\* A client writes a frame as a line.
Send ==
  /\ Len(sent) < MaxFrames
  /\ \E length \in Lengths :
       /\ sent' = Append(sent, length)
       /\ written' = written \o [n \in 1 .. length + 1 |-> IF n <= length THEN Len(sent) + 1 ELSE NewLine]
  /\ UNCHANGED <<read, buffered, routed, alive>>

\* A line ends; blank lines are skipped.
EndLine(s) ==
  [rest |-> <<>>, lines |-> IF s.rest = <<>> THEN s.lines ELSE Append(s.lines, s.rest)]

Taken(s, ch) ==
  IF ch = NewLine THEN EndLine(s) ELSE [rest |-> Append(s.rest, ch), lines |-> s.lines]

\* The complete lines of a text, and the rest.
Split(text) ==
  LET after[n \in 0..Len(text)] ==
        IF n = 0 THEN [rest |-> <<>>, lines |-> <<>>] ELSE Taken(after[n - 1], text[n])
  IN after[Len(text)]

\* Mutant: what follows the last newline is dropped.
KeptNothing(text) == <<>>

Kept(text) == Split(text).rest

\* The data event: the length of what has come is tested, then its lines are
\* taken out.
Data ==
  /\ alive
  /\ \E n \in 1..MaxChunk :
       LET text == buffered \o SubSeq(written, read + 1, read + n) IN
       /\ read + n <= Len(written) /\ read' = read + n
       /\ \/ Len(text) > MaxFrame /\ alive' = FALSE /\ buffered' = text /\ UNCHANGED routed
          \/ /\ Len(text) <= MaxFrame /\ buffered' = Kept(text)
             /\ routed' = routed \o Split(text).lines /\ UNCHANGED alive
  /\ UNCHANGED <<sent, written>>

Next == Send \/ Data

Spec == Init /\ [][Next]_vars
-----------------------------------------------------------------------------
\* However the network cuts the stream, the router sees the frames that were
\* sent, whole, once and in order.
InOrder == Len(routed) <= Len(sent) /\ \A i \in DOMAIN routed : routed[i] = Line(i)

\* A peer whose lines leave room for a chunk below the limit is never given up.
ShortLinesNeverDestroy == ~ alive => \E i \in DOMAIN sent : sent[i] > MaxFrame - MaxChunk

\* When everything was delivered, the router has all of them.
FramesArriveWhole ==
  /\ InOrder /\ ShortLinesNeverDestroy
  /\ alive /\ read = Len(written) => Len(routed) = Len(sent)
=============================================================================
