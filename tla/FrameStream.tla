---------------------------- MODULE FrameStream ----------------------------
(***************************************************************************)
(* One direction of a connection: messages handed to write() on one end,   *)
(* frames (a header with the length, then the body) on the socket, and the *)
(* readHeader()/readBody() loop on the other end.  The sender is a session *)
(* or the Client, the reader the other of the two.                         *)
(*                                                                         *)
(* write() posts a function that starts an async_write of its own, so      *)
(* several may be under way.  An async_write is a series of                *)
(* async_write_some, each issued by the handler of the one before; the     *)
(* socket serves them in the order in which they were issued.  Bytes are   *)
(* counted in units, the header's first.                                   *)
(***************************************************************************)
EXTENDS Naturals, Sequences, FiniteSets

CONSTANTS
    Message,     \* the messages sent
    Size,        \* the units of each message's body
    HeaderLen,   \* the units of a frame's header (kHeaderSize)
    SendBuffer,  \* the units the connection holds before the reader takes them
    Chunk,       \* the most units one async_write_some offers to the socket
    MaxPayload,  \* the longest body the reader accepts
    Corrupt      \* a message decoded from a body that is not one message's

ASSUME FrameAssumption ==
    /\ Size \in [Message -> Nat \ {0}]
    /\ HeaderLen \in Nat \ {0} /\ SendBuffer \in Nat \ {0} /\ Chunk \in Nat \ {0}
    /\ MaxPayload \in Nat
    /\ Corrupt \notin Message

VARIABLES
    order,      \* the messages given to write(), in the order posted
    queue,      \* the io_context's queue: messages whose next write_some is due
    pending,    \* write_some operations waiting for the socket, in order
    sent,       \* per message, the units written
    crossed,    \* auxiliary: a message cut short by the socket met another write
    wire,       \* every unit written to the socket
    pos,        \* how many of them the reader has taken
    start,      \* where the frame being read begins
    phase,      \* "header", "body", or "closed" once the reader's loop has ended
    goal,       \* the units the reader waits for, from start on
    delivered,  \* the messages given to the reader's handler
    open        \* the connection is up

senderVars == <<order, queue, pending, sent, crossed, wire>>
readerVars == <<pos, start, phase, goal, delivered>>
vars == <<senderVars, readerVars, open>>

Unit == [msg : Message, at : Nat]
FrameLen(m) == HeaderLen + Size[m]
Frame(m) == [k \in 1 .. FrameLen(m) |-> [msg |-> m, at |-> k]]
Least(a, b) == IF a < b THEN a ELSE b

Init ==
    /\ order = <<>> /\ queue = <<>> /\ pending = <<>>
    /\ sent = [m \in Message |-> 0] /\ crossed = FALSE
    /\ wire = <<>>
    /\ pos = 0 /\ start = 0 /\ phase = "header" /\ goal = HeaderLen
    /\ delivered = <<>>
    /\ open = TRUE

-----------------------------------------------------------------------------
(* The sender.                                                             *)

Sent == {order[i] : i \in DOMAIN order}

\* The socket has taken some of m and not all of it.
Cut(m) == sent[m] > 0 /\ sent[m] < FrameLen(m)

\* write(): encode the message and post the function that writes it.
Send(m) ==
    /\ m \notin Sent
    /\ order' = Append(order, m)
    /\ queue' = Append(queue, m)
    /\ crossed' = (crossed \/ \E p \in Message : Cut(p))
    /\ UNCHANGED <<pending, sent, wire, readerVars, open>>

Room == SendBuffer - (Len(wire) - pos)

\* What the socket takes of m in one write_some.
Taken(m) == Least(Least(FrameLen(m) - sent[m], Chunk), Room)

\* Some other message waits to be written, or for the rest of it to be.
Others(m) == \E p \in Sent \ {m} : sent[p] < FrameLen(p)

\* One write_some of m succeeds; its handler issues the next or is done.
WriteSome(m, rest) ==
    LET n == Taken(m)
    IN  /\ n > 0
        /\ wire' = wire \o [i \in 1 .. n |-> [msg |-> m, at |-> sent[m] + i]]
        /\ sent' = [sent EXCEPT ![m] = @ + n]
        /\ crossed' = (crossed \/ (sent[m] + n < FrameLen(m) /\ Others(m)))
        /\ queue' = IF sent[m] + n = FrameLen(m) THEN rest ELSE Append(rest, m)

\* A write issued past the operations that already wait for the socket.
Issue_JumpsQueue ==
    /\ queue # <<>> /\ open
    /\ \/ WriteSome(Head(queue), Tail(queue)) /\ UNCHANGED pending
       \/ /\ Room = 0
          /\ pending' = Append(pending, Head(queue))
          /\ queue' = Tail(queue)
          /\ UNCHANGED <<sent, crossed, wire>>
    /\ UNCHANGED <<order, readerVars, open>>

\* The io thread runs the next function: it tries the socket at once, or waits
\* behind the operations that already do.
Issue ==
    /\ queue # <<>> /\ open
    /\ \/ /\ pending = <<>>
          /\ WriteSome(Head(queue), Tail(queue))
          /\ UNCHANGED pending
       \/ /\ pending # <<>> \/ Room = 0
          /\ pending' = Append(pending, Head(queue))
          /\ queue' = Tail(queue)
          /\ UNCHANGED <<sent, crossed, wire>>
    /\ UNCHANGED <<order, readerVars, open>>

\* The socket is writable: the first waiting operation goes on.
Writable ==
    /\ pending # <<>> /\ open
    /\ WriteSome(Head(pending), queue)
    /\ pending' = Tail(pending)
    /\ UNCHANGED <<order, readerVars, open>>

\* On a dead connection every write fails.
FailWrites ==
    /\ ~open
    /\ queue # <<>> \/ pending # <<>>
    /\ queue' = <<>> /\ pending' = <<>>
    /\ UNCHANGED <<order, sent, crossed, wire, readerVars, open>>

-----------------------------------------------------------------------------
(* The reader.                                                             *)

\* async_read takes what has arrived, up to what it was asked for.
ReadSome ==
    /\ phase # "closed"
    /\ \E n \in 1 .. Least(start + goal, Len(wire)) - pos : pos' = pos + n
    /\ UNCHANGED <<senderVars, start, phase, goal, delivered, open>>

\* The reader gives up: close().
EndReading ==
    /\ phase' = "closed"
    /\ open' = FALSE
    /\ UNCHANGED <<start, goal, delivered>>

\* The lengths the header just read may announce: bytes that are not the header
\* of one message announce anything.
Announced ==
    LET bytes == SubSeq(wire, start + 1, start + HeaderLen)
        whose == {m \in Message : bytes = SubSeq(Frame(m), 1, HeaderLen)}
    IN  IF whose # {} THEN {Size[m] : m \in whose} ELSE 0 .. MaxPayload + 1

\* A header check that lets a body one unit too long pass.
OnHeader_OffByOne ==
    /\ phase = "header" /\ pos = start + goal
    /\ \E size \in Announced :
          \/ /\ size > MaxPayload + 1
             /\ EndReading
          \/ /\ size <= MaxPayload + 1
             /\ phase' = "body" /\ goal' = HeaderLen + size
             /\ UNCHANGED <<start, delivered, open>>
    /\ UNCHANGED <<senderVars, pos>>

\* onHeaderRead(): refuse a body that is too long, else read it.
OnHeader ==
    /\ phase = "header" /\ pos = start + goal
    /\ \E size \in Announced :
          \/ /\ size > MaxPayload
             /\ EndReading
          \/ /\ size <= MaxPayload
             /\ phase' = "body" /\ goal' = HeaderLen + size
             /\ UNCHANGED <<start, delivered, open>>
    /\ UNCHANGED <<senderVars, pos>>

\* What decode() makes of the bytes read: the message they are, or, when they
\* belong to more than one frame, an exception or some other message.  An empty
\* body is refused.
Decoded ==
    LET bytes == SubSeq(wire, start + 1, start + goal)
        whole == {m \in Message : bytes = Frame(m)}
    IN  IF whole # {} THEN whole ELSE IF goal = HeaderLen THEN {} ELSE {Corrupt}

\* A reader that takes the next header one unit early.
OnBody_Short ==
    /\ phase = "body" /\ pos = start + goal
    /\ \E m \in Decoded :
          /\ delivered' = Append(delivered, m)
          /\ start' = pos - 1 /\ phase' = "header" /\ goal' = HeaderLen
          /\ UNCHANGED <<senderVars, pos, open>>

\* onBodyRead(): decode, run the handler, read the next header.
OnBody ==
    /\ phase = "body" /\ pos = start + goal
    /\ \/ \E m \in Decoded :
             /\ delivered' = Append(delivered, m)
             /\ start' = pos /\ phase' = "header" /\ goal' = HeaderLen
             /\ UNCHANGED open
       \/ /\ Decoded \cap Message = {}
          /\ EndReading
    /\ UNCHANGED <<senderVars, pos>>

\* The connection breaks, or an end closes it.
Lose ==
    /\ open
    /\ open' = FALSE
    /\ phase' = "closed"
    /\ UNCHANGED <<senderVars, pos, start, goal, delivered>>

Write == Issue \/ Writable \/ FailWrites
Read == ReadSome \/ OnHeader \/ OnBody
Next == (\E m \in Message : Send(m)) \/ Write \/ Read \/ Lose

Spec == Init /\ [][Next]_vars
FairSpec == Spec /\ WF_vars(Issue) /\ WF_vars(Writable) /\ WF_vars(Read)

-----------------------------------------------------------------------------
\* Type invariant: the values of the sender's and the reader's state.
TypeOK ==
    /\ order \in Seq(Message) /\ queue \in Seq(Message) /\ pending \in Seq(Message)
    /\ sent \in [Message -> Nat] /\ crossed \in BOOLEAN
    /\ \A m \in Message : sent[m] <= FrameLen(m)
    /\ wire \in Seq(Unit)
    /\ pos \in 0 .. Len(wire) /\ start \in 0 .. pos /\ goal \in Nat
    /\ phase \in {"header", "body", "closed"}
    /\ delivered \in Seq(Message \cup {Corrupt})
    /\ open \in BOOLEAN

\* m was given to write() before n.
Before(m, n) == \E i, j \in DOMAIN order : i < j /\ order[i] = m /\ order[j] = n

\* A frame broken off by bytes of another one.
Torn ==
    \E i \in 1 .. Len(wire) - 1 :
        wire[i].msg # wire[i + 1].msg /\ wire[i].at < FrameLen(wire[i].msg)

\* Whatever overlaps, the bytes of one message reach the socket once each and in
\* order: a resumed async_write goes on exactly where the socket stopped.
BytesOnce ==
    \A i \in DOMAIN wire :
        wire[i].at = Cardinality({j \in 1 .. i : wire[j].msg = wire[i].msg})

\* Frames begin in the order of the write() calls, even when they are torn later.
BeginInOrder ==
    \A i, j \in DOMAIN wire :
        i < j /\ wire[i].at = 1 /\ wire[j].at = 1 => Before(wire[i].msg, wire[j].msg)

\* Unless a message the socket took in pieces met another write(), the stream is
\* the frames of the messages, whole and in the order of the write() calls: one
\* write at a time, or messages the socket takes at once, are safe.
WholeUnlessCrossed ==
    ~crossed =>
        \A i \in 1 .. Len(wire) - 1 :
            LET u == wire[i]
                v == wire[i + 1]
            IN  \/ v.msg = u.msg /\ v.at = u.at + 1
                \/ /\ u.at = FrameLen(u.msg) /\ v.at = 1
                   /\ \E k \in 1 .. Len(order) - 1 : order[k] = u.msg /\ order[k + 1] = v.msg

\* Overlapping writes neither lose, repeat nor reorder the bytes of a message, nor do
\* frames overtake each other at the start; and frames are whole unless a message
\* the socket took in pieces met another write().
SentInOrder == BytesOnce /\ BeginInOrder /\ WholeUnlessCrossed

\* What the reader hands on is, whatever was torn, in the order sent and never
\* the same message twice.
InOrder ==
    \A i, j \in DOMAIN delivered :
        i < j /\ delivered[i] # Corrupt /\ delivered[j] # Corrupt
            => Before(delivered[i], delivered[j])

\* While no frame is torn, what has been handed on is a prefix of what was sent,
\* however the network cuts the stream, and ends before the first body that is
\* too long.
Prefix ==
    ~Torn => /\ delivered = SubSeq(order, 1, Len(delivered))
             /\ \A i \in DOMAIN delivered : Size[order[i]] <= MaxPayload

\* The reader's handler gets the messages in the order of the write() calls and each
\* once, whatever is torn; and exactly what was sent, up to a body that is too long,
\* where nothing is.
DeliveredInOrder == InOrder /\ Prefix

\* write()'s comment: concurrent writes do not affect each other.
FramesWhole == ~Torn

\* While the connection lasts and no frame is torn, everything sent arrives.
Arrives ==
    \A m \in Message :
        m \in Sent ~> (m \in {delivered[i] : i \in DOMAIN delivered} \/ ~open \/ Torn)

=============================================================================
