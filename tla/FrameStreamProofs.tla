-------------------------- MODULE FrameStreamProofs --------------------------
(***************************************************************************)
(* Proofs about FrameStream for every set of messages, every size, every   *)
(* socket buffer and every way the network cuts the stream: overlapping    *)
(* writes neither lose nor reorder the bytes of a message, and what the    *)
(* reader hands on is what was sent, in that order.                        *)
(***************************************************************************)
EXTENDS FrameStream, FiniteSetTheorems, SequenceTheorems, TLAPS

-----------------------------------------------------------------------------
(* The invariants.                                                         *)

\* The writes not finished, in the order in which the socket serves them.
Due == pending \o queue

\* A message is given to write() once and begun after that; it is due once and until
\* its last unit is written.
OrderOnce == \A i, j \in DOMAIN order : order[i] = order[j] => i = j
BegunSent == \A m \in Message : sent[m] > 0 => m \in Sent
DueUnfinished == \A i \in DOMAIN Due : Due[i] \in Sent /\ sent[Due[i]] < FrameLen(Due[i])
DueOnce == \A i, j \in DOMAIN Due : Due[i] = Due[j] => i = j
AllDue ==
    open => \A m \in Sent : sent[m] < FrameLen(m) => \E i \in DOMAIN Due : Due[i] = m

\* Those not begun are due in the order of write(), behind all that have begun.
FreshInOrder ==
    \A i, j \in DOMAIN Due :
        i < j /\ sent[Due[i]] = 0 /\ sent[Due[j]] = 0 => Before(Due[i], Due[j])
BegunBeforeFresh ==
    \A i \in DOMAIN Due : \A m \in Message :
        sent[m] > 0 /\ sent[Due[i]] = 0 => Before(m, Due[i])

QueueInv ==
    /\ OrderOnce /\ BegunSent /\ DueUnfinished /\ DueOnce /\ AllDue
    /\ FreshInOrder /\ BegunBeforeFresh

\* What is on the wire of each message.
UnitsOf(w, i, m) == {j \in 1 .. i : w[j].msg = m}
Counted ==
    \A m \in Message : sent[m] = Cardinality(UnitsOf(wire, Len(wire), m))
UnitsInv ==
    /\ \A i \in DOMAIN wire : wire[i].at \in 1 .. sent[wire[i].msg]
    /\ IF wire = <<>> THEN \A m \in Message : sent[m] = 0
       ELSE wire[Len(wire)].at = sent[wire[Len(wire)].msg]

\* Only a message cut short and met by another write tears a frame.
CutInv == ~crossed => \A m \in Message : Cut(m) => ~Others(m)
TornInv == Torn => crossed

\* While no frame is torn what was cut short is at the end of the wire, the first
\* frame is that of the first message and the last that of the last one begun.
CutAtEnd == ~Torn => \A m \in Message : Cut(m) => wire # <<>> /\ wire[Len(wire)].msg = m
FirstIs == ~Torn /\ wire # <<>> => wire[1].at = 1 /\ wire[1].msg = order[1]
LastIs ==
    ~Torn /\ wire # <<>> =>
        LET last == wire[Len(wire)].msg
        IN  \A m \in Message : sent[m] > 0 => m = last \/ Before(m, last)

\* A frame runs on to its end, and the next is that of the next message.
FramesRun ==
    ~Torn =>
        \A i \in DOMAIN wire : wire[i].at = 1 =>
            \A k \in 1 .. FrameLen(wire[i].msg) :
                i + k - 1 <= Len(wire) => wire[i + k - 1] = [msg |-> wire[i].msg, at |-> k]
Successive(m, p) == \E k \in 1 .. Len(order) - 1 : order[k] = m /\ order[k + 1] = p
NextFollows ==
    ~Torn =>
        \A i \in 1 .. Len(wire) - 1 :
            LET u == wire[i]
                v == wire[i + 1]
            IN  \/ v.msg = u.msg /\ v.at = u.at + 1
                \/ u.at = FrameLen(u.msg) /\ v.at = 1 /\ Successive(u.msg, v.msg)
RunInv == CutAtEnd /\ FirstIs /\ LastIs /\ FramesRun /\ NextFollows

\* The reader waits for a header or a body it has the length of, and what it handed
\* on began before the frame it is at.
ReaderInv ==
    /\ phase = "header" => goal = HeaderLen
    /\ \A i \in DOMAIN delivered : delivered[i] # Corrupt =>
          \E p \in 1 .. start : wire[p] = [msg |-> delivered[i], at |-> 1]

\* While no frame is torn it handed on the first messages sent, and is at the end of
\* the frame of the last of them.
Handed ==
    ~Torn => /\ Len(delivered) <= Len(order)
             /\ \A i \in 1 .. Len(delivered) :
                   delivered[i] = order[i] /\ Size[order[i]] <= MaxPayload
AtFrame ==
    ~Torn /\ phase # "closed" =>
        /\ IF Len(delivered) = 0 THEN start = 0
           ELSE /\ start > 0
                /\ wire[start].msg = order[Len(delivered)]
                /\ wire[start].at = FrameLen(wire[start].msg)
        /\ phase = "body" =>
              /\ start < Len(wire)
              /\ goal = FrameLen(wire[start + 1].msg) /\ Size[wire[start + 1].msg] <= MaxPayload

-----------------------------------------------------------------------------
(* What a step of the sender does to what is due and to the wire.          *)

\* A write_some of m takes n units.
Writes(m, n) ==
    /\ open /\ m \in Message /\ n \in Nat \ {0} /\ sent[m] + n <= FrameLen(m)
    /\ Due # <<>> /\ m = Due[1]
    /\ Due' = IF sent[m] + n = FrameLen(m) THEN Tail(Due) ELSE Append(Tail(Due), m)
    /\ sent' = [sent EXCEPT ![m] = sent[m] + n]
    /\ wire' \in Seq(Unit) /\ Len(wire') = Len(wire) + n
    /\ \A i \in 1 .. Len(wire) : wire'[i] = wire[i]
    /\ \A i \in Len(wire) + 1 .. Len(wire) + n :
          wire'[i] = [msg |-> m, at |-> sent[m] + (i - Len(wire))]
    /\ crossed' = (crossed \/ (sent[m] + n < FrameLen(m) /\ Others(m)))
    /\ UNCHANGED <<order, open>>

LEMMA Concatenated ==
    ASSUME NEW S, NEW s \in Seq(S), NEW t \in Seq(S)
    PROVE  s \o t \in Seq(S) /\ Len(s \o t) = Len(s) + Len(t)
OBVIOUS

LEMMA FrameLens == \A m \in Message : FrameLen(m) \in Nat \ {0} /\ FrameLen(m) > HeaderLen
BY FrameAssumption DEF FrameAssumption, FrameLen

LEMMA DueOfSend ==
    ASSUME TypeOK, NEW m \in Message
    PROVE  pending \o Append(queue, m) = Append(Due, m)
<1>1. pending \in Seq(Message) /\ queue \in Seq(Message)
  BY DEF TypeOK
<1> QED
  BY <1>1 DEF Due

LEMMA DueType == ASSUME TypeOK PROVE Due \in Seq(Message)
BY DEF TypeOK, Due

LEMMA DueWaits ==
    ASSUME TypeOK, queue # <<>>
    PROVE  Append(pending, Head(queue)) \o Tail(queue) = Due
<1>1. /\ pending \in Seq(Message) /\ queue \in Seq(Message)
      /\ Head(queue) \in Message /\ Head(queue) = queue[1]
  BY DEF TypeOK
<1>2. Append(pending, Head(queue)) = pending \o <<Head(queue)>>
  BY <1>1, AppendIsConcat
<1>3. <<Head(queue)>> \o Tail(queue) = queue
  BY <1>1
<1>4. <<Head(queue)>> \in Seq(Message) /\ Tail(queue) \in Seq(Message)
  BY <1>1
<1>5. (pending \o <<Head(queue)>>) \o Tail(queue) = pending \o (<<Head(queue)>> \o Tail(queue))
  BY <1>1, <1>4, ConcatAssociative
<1> QED
  BY <1>2, <1>3, <1>5 DEF Due

LEMMA DueServed ==
    ASSUME TypeOK, pending # <<>>
    PROVE  /\ Due # <<>> /\ Due[1] = Head(pending) /\ Tail(Due) = Tail(pending) \o queue
           /\ \A m \in Message : Tail(pending) \o Append(queue, m) = Append(Tail(Due), m)
<1>1. /\ pending \in Seq(Message) /\ queue \in Seq(Message)
      /\ Tail(pending) \in Seq(Message) /\ Len(pending) > 0
      /\ Len(Tail(pending)) = Len(pending) - 1 /\ Head(pending) = pending[1]
  BY DEF TypeOK
<1>2. Due # <<>> /\ Due[1] = Head(pending)
  BY <1>1 DEF Due
<1>3. Tail(Due) = Tail(pending) \o queue
  BY <1>1 DEF Due
<1>4. \A m \in Message : Tail(pending) \o Append(queue, m) = Append(Tail(pending) \o queue, m)
  BY <1>1
<1> QED
  BY <1>2, <1>3, <1>4

LEMMA DueIssued ==
    ASSUME TypeOK, pending = <<>>, queue # <<>>
    PROVE  /\ Due # <<>> /\ Due[1] = Head(queue) /\ Tail(Due) = <<>> \o Tail(queue)
           /\ \A m \in Message : <<>> \o Append(Tail(queue), m) = Append(Tail(Due), m)
BY DEF TypeOK, Due

LEMMA TakenSome ==
    ASSUME TypeOK, NEW m \in Message, Taken(m) > 0
    PROVE  Taken(m) \in Nat \ {0} /\ sent[m] + Taken(m) <= FrameLen(m)
<1>1. /\ sent[m] \in Nat /\ FrameLen(m) \in Nat /\ sent[m] <= FrameLen(m) /\ Chunk \in Nat
      /\ SendBuffer \in Nat /\ Len(wire) \in Nat /\ pos \in Nat
  BY FrameLens, FrameAssumption DEF TypeOK, FrameAssumption
<1> QED
  BY <1>1 DEF Taken, Least, Room

LEMMA WriteSomeWrites ==
    ASSUME TypeOK, open, NEW m \in Message, NEW rest, WriteSome(m, rest), UNCHANGED <<order, open>>,
           Due # <<>>, m = Due[1],
           Due' = IF sent[m] + Taken(m) = FrameLen(m) THEN Tail(Due) ELSE Append(Tail(Due), m)
    PROVE  Writes(m, Taken(m))
<1> DEFINE n == Taken(m)
           units == [i \in 1 .. n |-> [msg |-> m, at |-> sent[m] + i]]
<1>1. n \in Nat \ {0} /\ sent[m] + n <= FrameLen(m)
  BY TakenSome DEF WriteSome
<1>2. /\ wire' = wire \o units
      /\ sent' = [sent EXCEPT ![m] = sent[m] + n]
      /\ crossed' = (crossed \/ (sent[m] + n < FrameLen(m) /\ Others(m)))
  BY DEF WriteSome
<1> HIDE DEF n
<1>3. /\ units \in Seq(Unit) /\ Len(units) = n /\ wire \in Seq(Unit)
      /\ \A i \in 1 .. n : units[i] = [msg |-> m, at |-> sent[m] + i]
  BY <1>1 DEF TypeOK, Unit
<1> HIDE DEF units
<1>4. wire' \in Seq(Unit) /\ Len(wire') = Len(wire) + n
  <2>1. wire \o units \in Seq(Unit) /\ Len(wire \o units) = Len(wire) + Len(units)
    BY <1>3, Concatenated
  <2> QED
    BY <1>2, <1>3, <2>1
<1>5. \A i \in 1 .. Len(wire) : wire'[i] = wire[i]
  BY <1>2, <1>3, <1>4
<1>6. \A i \in 1 .. n : wire'[Len(wire) + i] = units[i]
  BY <1>1, <1>2, <1>3, <1>4
<1>7. ASSUME NEW i \in Len(wire) + 1 .. Len(wire) + n
      PROVE  wire'[i] = [msg |-> m, at |-> sent[m] + (i - Len(wire))]
  <2>1. i - Len(wire) \in 1 .. n /\ i = Len(wire) + (i - Len(wire))
    BY <1>1, <1>3
  <2> QED
    BY <1>3, <1>6, <2>1
<1> QED
  BY <1>1, <1>2, <1>4, <1>5, <1>7 DEF Writes, n

\* The steps of the sender: a write that takes some units, one that waits, and the
\* end of every write on a dead connection.
LEMMA SenderSteps ==
    ASSUME TypeOK, Write
    PROVE  \/ \E m, n : Writes(m, n)
           \/ /\ Due' = Due \/ (~open /\ Due' = <<>>)
              /\ UNCHANGED <<order, sent, crossed, wire, open>>
<1>1. CASE Issue
  <2>1. CASE pending = <<>> /\ WriteSome(Head(queue), Tail(queue)) /\ UNCHANGED pending
    <3> DEFINE m == Head(queue)
    <3>1. m \in Message /\ Due # <<>> /\ m = Due[1] /\ UNCHANGED <<order, open>> /\ open
      BY <1>1, <2>1, DueIssued DEF Issue, TypeOK
    <3>2. Due' = IF sent[m] + Taken(m) = FrameLen(m) THEN Tail(Due) ELSE Append(Tail(Due), m)
      <4>1. queue' = IF sent[m] + Taken(m) = FrameLen(m) THEN Tail(queue)
                     ELSE Append(Tail(queue), m)
        BY <2>1 DEF WriteSome
      <4>2. Due' = <<>> \o queue'
        BY <2>1 DEF Due
      <4>3. queue # <<>>
        BY <1>1 DEF Issue
      <4> QED
        BY <2>1, <3>1, <4>1, <4>2, <4>3, DueIssued
    <3> HIDE DEF m
    <3>3. Writes(m, Taken(m))
      BY <2>1, <3>1, <3>2, WriteSomeWrites DEF m
    <3> QED
      BY <3>3
  <2>2. CASE /\ pending' = Append(pending, Head(queue)) /\ queue' = Tail(queue)
             /\ UNCHANGED <<sent, crossed, wire>>
    BY <1>1, <2>2, DueWaits DEF Issue, Due
  <2> QED
    BY <1>1, <2>1, <2>2 DEF Issue
<1>2. CASE Writable
  <2> DEFINE m == Head(pending)
  <2>1. /\ m \in Message /\ Due # <<>> /\ m = Due[1] /\ UNCHANGED <<order, open>> /\ open
        /\ pending # <<>> /\ pending' = Tail(pending) /\ WriteSome(m, queue)
    BY <1>2, DueServed DEF Writable, TypeOK
  <2>2. Due' = IF sent[m] + Taken(m) = FrameLen(m) THEN Tail(Due) ELSE Append(Tail(Due), m)
    <3>1. queue' = IF sent[m] + Taken(m) = FrameLen(m) THEN queue ELSE Append(queue, m)
      BY <2>1 DEF WriteSome
    <3>2. Due' = Tail(pending) \o queue'
      BY <2>1 DEF Due
    <3> QED
      BY <2>1, <3>1, <3>2, DueServed
  <2> HIDE DEF m
  <2>3. Writes(m, Taken(m))
    BY <2>1, <2>2, WriteSomeWrites
  <2> QED
    BY <2>3
<1>3. CASE FailWrites
  BY <1>3 DEF FailWrites, Due
<1> QED
  BY <1>1, <1>2, <1>3 DEF Write

-----------------------------------------------------------------------------
(* The queue.                                                              *)

LEMMA QueueInit == Init => QueueInv
<1> SUFFICES ASSUME Init PROVE QueueInv
  OBVIOUS
<1>1. order = <<>> /\ Due = <<>> /\ Sent = {} /\ \A m \in Message : sent[m] = 0
  BY DEF Init, Due, Sent
<1> QED
  BY <1>1 DEF QueueInv, OrderOnce, BegunSent, DueUnfinished, DueOnce, AllDue, FreshInOrder,
              BegunBeforeFresh

LEMMA QueueQuiet ==
    ASSUME QueueInv, UNCHANGED <<order, sent>>, open' => open,
           Due' = Due \/ (~open /\ Due' = <<>>)
    PROVE  QueueInv'
<1>1. OrderOnce' /\ BegunSent'
  BY DEF QueueInv, OrderOnce, BegunSent, Sent
<1>2. DueUnfinished' /\ DueOnce' /\ AllDue'
  BY DEF QueueInv, DueUnfinished, DueOnce, AllDue, Sent
<1>3. FreshInOrder' /\ BegunBeforeFresh'
  BY DEF QueueInv, FreshInOrder, BegunBeforeFresh, Before
<1> QED
  BY <1>1, <1>2, <1>3 DEF QueueInv

LEMMA QueueSend ==
    ASSUME TypeOK, QueueInv, NEW m \in Message, Send(m)
    PROVE  QueueInv'
<1>1. /\ m \notin Sent /\ order' = Append(order, m) /\ UNCHANGED <<sent, open>>
      /\ order \in Seq(Message) /\ sent[m] \in Nat
  BY DEF Send, TypeOK, readerVars
<1>2. Due' = Append(Due, m) /\ Due \in Seq(Message)
  BY DueOfSend, DueType DEF Send, Due
<1>3. Sent' = Sent \cup {m} /\ \A i \in DOMAIN order : order[i] # m
  BY <1>1 DEF Sent
<1>4. sent[m] = 0
  BY <1>1 DEF QueueInv, BegunSent
<1>5. \A p, q : Before(p, q) => Before(p, q)'
  BY <1>1 DEF Before
<1>6. \A p \in Sent : Before(p, m)'
  BY <1>1 DEF Before, Sent
<1>7. OrderOnce' /\ BegunSent'
  BY <1>1, <1>3 DEF QueueInv, OrderOnce, BegunSent
<1>8. DueUnfinished' /\ DueOnce'
  <2>1. 0 < FrameLen(m)
    BY FrameLens
  <2>2. DueUnfinished'
    BY <1>1, <1>2, <1>3, <1>4, <2>1 DEF QueueInv, DueUnfinished
  <2>3. DueOnce'
    BY <1>1, <1>2 DEF QueueInv, DueUnfinished, DueOnce
  <2> QED
    BY <2>2, <2>3
<1>9. AllDue'
  <2>1. /\ DOMAIN Due' = 1 .. Len(Due) + 1 /\ DOMAIN Due = 1 .. Len(Due) /\ Len(Due) \in Nat
        /\ Due'[Len(Due) + 1] = m /\ \A i \in DOMAIN Due : Due'[i] = Due[i]
    BY <1>2
  <2>2. ASSUME NEW p \in Sent', open', sent'[p] < FrameLen(p)
        PROVE  \E i \in DOMAIN Due' : Due'[i] = p
    <3>1. CASE p = m
      BY <2>1, <3>1
    <3>2. CASE p # m
      <4>1. PICK i \in DOMAIN Due : Due[i] = p
        BY <1>1, <1>3, <2>2, <3>2 DEF QueueInv, AllDue
      <4> QED
        BY <2>1, <4>1
    <3> QED
      BY <3>1, <3>2
  <2> QED
    BY <2>2 DEF AllDue
<1>10. FreshInOrder'
  BY <1>1, <1>2, <1>5, <1>6 DEF QueueInv, FreshInOrder, DueUnfinished
<1>11. BegunBeforeFresh'
  BY <1>1, <1>2, <1>5, <1>6 DEF QueueInv, BegunBeforeFresh, BegunSent
<1> QED
  BY <1>7, <1>8, <1>9, <1>10, <1>11 DEF QueueInv

\* Where what is due after a write was before it: one place further on, except for
\* the message written, which is not fresh any more.
LEMMA DueAfterWrite ==
    ASSUME TypeOK, NEW m, NEW n, Writes(m, n)
    PROVE  /\ Len(Due) > 0 /\ Len(Due') \in {Len(Due) - 1, Len(Due)}
           /\ Due \in Seq(Message) /\ DOMAIN Due = 1 .. Len(Due) /\ DOMAIN Due' = 1 .. Len(Due')
           /\ \A i \in 1 .. Len(Due) - 1 : Due'[i] = Due[i + 1]
           /\ Len(Due') = Len(Due) <=> sent[m] + n # FrameLen(m)
           /\ Len(Due') = Len(Due) => Due'[Len(Due)] = m
<1>1. /\ Due # <<>> /\ m \in Message /\ Due \in Seq(Message)
      /\ Due' = IF sent[m] + n = FrameLen(m) THEN Tail(Due) ELSE Append(Tail(Due), m)
  BY DueType DEF Writes
<1>2. /\ Due \in Seq(Message) /\ Len(Due) \in Nat /\ Len(Due) > 0 /\ DOMAIN Due = 1 .. Len(Due)
      /\ Tail(Due) \in Seq(Message) /\ Len(Tail(Due)) = Len(Due) - 1
      /\ DOMAIN Tail(Due) = 1 .. Len(Due) - 1
      /\ \A i \in 1 .. Len(Due) - 1 : Tail(Due)[i] = Due[i + 1]
  BY <1>1
<1>3. CASE sent[m] + n = FrameLen(m)
  <2> DEFINE rest == Tail(Due)
  <2>1. Due' = rest
    BY <1>1, <1>3
  <2> HIDE DEF rest
  <2>2. /\ Len(rest) = Len(Due) - 1 /\ DOMAIN rest = 1 .. Len(rest)
        /\ \A i \in 1 .. Len(Due) - 1 : rest[i] = Due[i + 1]
    BY <1>2 DEF rest
  <2>3. Due \in Seq(Message) /\ Len(Due) \in Nat /\ Len(Due) > 0 /\ DOMAIN Due = 1 .. Len(Due)
    BY <1>2
  <2>4. Len(Due') = Len(Due) - 1 /\ DOMAIN Due' = 1 .. Len(Due')
    BY <2>1, <2>2
  <2>5. \A i \in 1 .. Len(Due) - 1 : Due'[i] = Due[i + 1]
    BY <2>1, <2>2
  <2>6. Len(Due') # Len(Due)
    <3>1. \A k \in Nat : k - 1 # k
      OBVIOUS
    <3>2. Len(Due) \in Nat /\ Len(Due') = Len(Due) - 1
      BY <2>3, <2>4
    <3> QED
      BY <3>1, <3>2
  <2> QED
    BY <1>3, <2>3, <2>4, <2>5, <2>6
<1>4. CASE sent[m] + n # FrameLen(m)
  <2>1. /\ Due' \in Seq(Message) /\ Len(Due') = Len(Due)
        /\ \A i \in 1 .. Len(Due) - 1 : Due'[i] = Tail(Due)[i]
        /\ Due'[Len(Due)] = m
    BY <1>1, <1>2, <1>4
  <2> QED
    BY <1>1, <1>2, <1>4, <2>1
<1> QED
  BY <1>3, <1>4

LEMMA QueueWrite ==
    ASSUME TypeOK, QueueInv, NEW m, NEW n, Writes(m, n)
    PROVE  QueueInv'
<1> DEFINE last == Len(Due)
<1>1. /\ m \in Message /\ n \in Nat \ {0} /\ sent[m] + n <= FrameLen(m) /\ sent[m] \in Nat
      /\ sent' = [sent EXCEPT ![m] = sent[m] + n] /\ UNCHANGED <<order, open>>
      /\ m = Due[1] /\ sent'[m] = sent[m] + n /\ sent'[m] > 0
  BY DEF Writes, TypeOK
<1>2. \A p \in Message : p # m => sent'[p] = sent[p]
  BY <1>1 DEF TypeOK
<1>3. Sent' = Sent /\ \A p, q : Before(p, q)' <=> Before(p, q)
  BY <1>1 DEF Sent, Before
<1>4. /\ last \in Nat \ {0} /\ DOMAIN Due = 1 .. last
      /\ \A i \in 1 .. last : Due[i] \in Message
      /\ \A i \in 1 .. last - 1 : Due'[i] = Due[i + 1]
  BY DueAfterWrite
<1>5. \/ DOMAIN Due' = 1 .. last - 1 /\ sent'[m] = FrameLen(m)
      \/ DOMAIN Due' = 1 .. last /\ Due'[last] = m /\ sent'[m] < FrameLen(m)
  <2>1. FrameLen(m) \in Nat
    BY <1>1, FrameLens
  <2>2. \/ DOMAIN Due' = 1 .. last - 1 /\ sent[m] + n = FrameLen(m)
        \/ DOMAIN Due' = 1 .. last /\ Due'[last] = m /\ sent[m] + n # FrameLen(m)
    BY DueAfterWrite
  <2> QED
    BY <1>1, <2>1, <2>2
<1> HIDE DEF last
\* what is due after the write was due before it
<1>6. \A i \in DOMAIN Due' :
         \/ /\ i \in 1 .. last - 1 /\ i + 1 \in DOMAIN Due /\ Due'[i] = Due[i + 1]
            /\ Due[i + 1] # m
         \/ i = last /\ Due'[i] = m /\ sent'[m] < FrameLen(m)
  <2>1. \A i \in 1 .. last - 1 : i + 1 \in DOMAIN Due /\ i + 1 # 1 /\ 1 \in DOMAIN Due
    BY <1>4
  <2> QED
    BY <1>1, <1>4, <1>5, <2>1 DEF QueueInv, DueOnce
<1>7. BegunSent'
  <2>1. m \in Sent
    BY <1>1, <1>4 DEF QueueInv, DueUnfinished
  <2> QED
    BY <1>1, <1>2, <1>3, <2>1 DEF QueueInv, BegunSent
<1>8. DueUnfinished'
  <2>1. m \in Sent
    BY <1>1, <1>4 DEF QueueInv, DueUnfinished
  <2> QED
    BY <1>2, <1>3, <1>4, <1>6, <2>1 DEF QueueInv, DueUnfinished
<1>9. DueOnce'
  <2> SUFFICES ASSUME NEW i \in DOMAIN Due', NEW j \in DOMAIN Due', Due'[i] = Due'[j]
               PROVE  i = j
    BY DEF DueOnce
  <2>1. CASE Due'[i] = m
    BY <1>6, <2>1
  <2>2. CASE Due'[i] # m
    <3>1. /\ i \in 1 .. last - 1 /\ j \in 1 .. last - 1
          /\ i + 1 \in DOMAIN Due /\ j + 1 \in DOMAIN Due /\ Due[i + 1] = Due[j + 1]
      BY <1>6, <2>2
    <3>2. i + 1 = j + 1
      BY <3>1 DEF QueueInv, DueOnce
    <3> QED
      BY <1>4, <3>1, <3>2
  <2> QED
    BY <2>1, <2>2
<1>10. AllDue'
  <2> SUFFICES ASSUME open, NEW p \in Sent, sent'[p] < FrameLen(p)
               PROVE  \E i \in DOMAIN Due' : Due'[i] = p
    BY <1>1, <1>3 DEF AllDue
  <2>1. CASE p = m
    <3>1. sent'[m] # FrameLen(m)
      BY <1>1, <2>1, FrameLens
    <3>2. last \in 1 .. last
      BY <1>4
    <3> QED
      BY <1>5, <2>1, <3>1, <3>2
  <2>2. CASE p # m
    <3>1. p \in Message
      BY DEF Sent, TypeOK
    <3>2. PICK i \in DOMAIN Due : Due[i] = p
      BY <1>2, <2>2, <3>1 DEF QueueInv, AllDue
    <3>3. i \in 1 .. last /\ i # 1
      BY <1>1, <1>4, <2>2, <3>2
    <3>4. i - 1 \in 1 .. last - 1 /\ (i - 1) + 1 = i /\ i - 1 \in 1 .. last
      BY <1>4, <3>3
    <3> QED
      BY <1>4, <1>5, <3>2, <3>4
  <2> QED
    BY <2>1, <2>2
<1>11. FreshInOrder'
  <2> SUFFICES ASSUME NEW i \in DOMAIN Due', NEW j \in DOMAIN Due', i < j,
                      sent'[Due'[i]] = 0, sent'[Due'[j]] = 0
               PROVE  Before(Due'[i], Due'[j])
    BY <1>3 DEF FreshInOrder
  <2>1. /\ i \in 1 .. last - 1 /\ j \in 1 .. last - 1
        /\ i + 1 \in DOMAIN Due /\ j + 1 \in DOMAIN Due
        /\ Due'[i] = Due[i + 1] /\ Due'[j] = Due[j + 1] /\ Due[i + 1] # m /\ Due[j + 1] # m
    BY <1>1, <1>6
  <2>2. sent[Due[i + 1]] = 0 /\ sent[Due[j + 1]] = 0 /\ i + 1 < j + 1
    BY <1>2, <1>4, <2>1
  <2> QED
    BY <2>1, <2>2 DEF QueueInv, FreshInOrder
<1>12. BegunBeforeFresh'
  <2> SUFFICES ASSUME NEW i \in DOMAIN Due', NEW p \in Message,
                      sent'[p] > 0, sent'[Due'[i]] = 0
               PROVE  Before(p, Due'[i])
    BY <1>3 DEF BegunBeforeFresh
  <2>1. /\ i \in 1 .. last - 1 /\ i + 1 \in DOMAIN Due /\ Due'[i] = Due[i + 1]
        /\ Due[i + 1] # m /\ sent[Due[i + 1]] = 0
    BY <1>1, <1>2, <1>4, <1>6
  <2>2. CASE sent[p] > 0
    BY <2>1, <2>2 DEF QueueInv, BegunBeforeFresh
  <2>3. CASE ~(sent[p] > 0)
    <3>1. p = m /\ sent[Due[1]] = 0
      BY <1>1, <1>2, <2>3 DEF TypeOK
    <3>2. 1 \in DOMAIN Due /\ 1 < i + 1
      BY <1>4, <2>1
    <3> QED
      BY <1>1, <2>1, <3>1, <3>2 DEF QueueInv, FreshInOrder
  <2> QED
    BY <2>2, <2>3
<1> QED
  BY <1>1, <1>7, <1>8, <1>9, <1>10, <1>11, <1>12 DEF QueueInv, OrderOnce

-----------------------------------------------------------------------------
(* The units on the wire.                                                  *)

LEMMA UnitsFinite ==
    ASSUME NEW w, NEW i \in Nat, NEW p
    PROVE  /\ IsFiniteSet(UnitsOf(w, i, p)) /\ Cardinality(UnitsOf(w, i, p)) \in Nat
<1>1. IsFiniteSet(1 .. i)
  BY FS_Interval
<1>2. UnitsOf(w, i, p) \in SUBSET (1 .. i)
  BY DEF UnitsOf
<1> QED
  BY <1>1, <1>2, FS_Subset, FS_CardinalityType

LEMMA BytesInit == Init => Counted /\ UnitsInv /\ BytesOnce
<1> SUFFICES ASSUME Init PROVE Counted /\ UnitsInv /\ BytesOnce
  OBVIOUS
<1>1. wire = <<>> /\ \A m \in Message : sent[m] = 0
  BY DEF Init
<1>2. \A m \in Message : UnitsOf(wire, Len(wire), m) = {}
  BY <1>1 DEF UnitsOf
<1>3. Counted
  BY <1>1, <1>2, FS_EmptySet DEF Counted
<1> QED
  BY <1>1, <1>3 DEF UnitsInv, BytesOnce

LEMMA BytesWrite ==
    ASSUME TypeOK, Counted, BytesOnce, UnitsInv, NEW m, NEW n, Writes(m, n)
    PROVE  Counted' /\ BytesOnce' /\ UnitsInv'
<1> DEFINE len == Len(wire)
           at == sent[m]
<1>1. /\ m \in Message /\ n \in Nat \ {0} /\ sent \in [Message -> Nat] /\ at \in Nat
      /\ sent' = [sent EXCEPT ![m] = at + n]
  BY DEF Writes, TypeOK
<1>2. len \in Nat /\ DOMAIN wire = 1 .. len /\ \A i \in 1 .. len : wire[i].msg \in Message
  <2>1. wire \in Seq(Unit) /\ \A u \in Unit : u.msg \in Message
    BY DEF TypeOK, Unit
  <2> QED
    BY <2>1
<1>3. /\ wire' \in Seq(Unit) /\ Len(wire') = len + n
      /\ \A i \in 1 .. len : wire'[i] = wire[i]
      /\ \A i \in len + 1 .. len + n : wire'[i] = [msg |-> m, at |-> at + (i - len)]
  BY DEF Writes
<1>4. DOMAIN wire' = 1 .. len + n /\ wire' # <<>>
  BY <1>1, <1>2, <1>3
<1>5. ASSUME NEW i \in len + 1 .. len + n
      PROVE  wire'[i].msg = m /\ wire'[i].at = at + (i - len)
  <2>1. wire'[i] = [msg |-> m, at |-> at + (i - len)]
    BY <1>3
  <2> QED
    BY <2>1
<1> HIDE DEF len, at
<1>6. \A i \in 1 .. len + n : i \in 1 .. len \/ i \in len + 1 .. len + n
  BY <1>1, <1>2
<1>7. \A i \in 1 .. len : \A p : UnitsOf(wire', i, p) = UnitsOf(wire, i, p)
  BY <1>2, <1>3 DEF UnitsOf
<1>8. ASSUME NEW p \in Message \ {m}
      PROVE  UnitsOf(wire', len + n, p) = UnitsOf(wire, len, p)
  <2>1. 1 .. len \subseteq 1 .. len + n
    BY <1>1, <1>2
  <2>2. \A j \in 1 .. len + n : wire'[j].msg = p => j \in 1 .. len
    BY <1>5, <1>6
  <2> QED
    BY <1>3, <2>1, <2>2 DEF UnitsOf
<1>9. ASSUME NEW i \in len + 1 .. len + n
      PROVE  Cardinality(UnitsOf(wire', i, m)) = at + (i - len)
  <2> DEFINE old == UnitsOf(wire, len, m)
             new == len + 1 .. i
  <2>1. UnitsOf(wire', i, m) = old \cup new
    <3>1. \A j \in 1 .. i : j \in 1 .. len \/ j \in new
      BY <1>2
    <3>2. \A j \in new : j \in 1 .. i /\ j \in len + 1 .. len + n
      BY <1>1, <1>2
    <3>3. \A j \in 1 .. len : j \in 1 .. i
      BY <1>2
    <3> QED
      BY <1>3, <1>5, <3>1, <3>2, <3>3 DEF UnitsOf
  <2>2. IsFiniteSet(old) /\ Cardinality(old) = at
    BY <1>1, <1>2, UnitsFinite DEF Counted, len, at
  <2>3. IsFiniteSet(new) /\ Cardinality(new) = i - len
    <3>1. len + 1 \in Int /\ i \in Int /\ ~(len + 1 > i) /\ i - (len + 1) + 1 = i - len
      BY <1>1, <1>2
    <3> QED
      BY <3>1, FS_Interval
  <2>4. old \cap new = {}
    BY <1>2 DEF UnitsOf
  <2> HIDE DEF old, new
  <2>5. Cardinality(old \cup new) = at + (i - len) - 0
    BY <2>2, <2>3, <2>4, FS_Union, FS_EmptySet
  <2> QED
    BY <1>1, <1>2, <2>1, <2>5 DEF at
<1>10. sent'[m] = at + n /\ \A p \in Message \ {m} : sent'[p] = sent[p]
  BY <1>1
<1>11. Counted'
  <2>1. ASSUME NEW p \in Message
        PROVE  sent'[p] = Cardinality(UnitsOf(wire', len + n, p))
    <3>1. CASE p = m
      <4>1. len + n \in len + 1 .. len + n /\ (len + n) - len = n
        BY <1>1, <1>2
      <4> QED
        BY <1>9, <1>10, <3>1, <4>1
    <3>2. CASE p # m
      BY <1>8, <1>10, <3>2 DEF Counted, len
    <3> QED
      BY <3>1, <3>2
  <2> QED
    BY <1>3, <2>1 DEF Counted
<1>12. BytesOnce'
  <2>1. ASSUME NEW i \in 1 .. len + n
        PROVE  wire'[i].at = Cardinality(UnitsOf(wire', i, wire'[i].msg))
    <3>1. CASE i \in 1 .. len
      BY <1>2, <1>3, <1>7, <3>1 DEF BytesOnce, UnitsOf
    <3>2. CASE i \in len + 1 .. len + n
      BY <1>5, <1>9, <3>2
    <3> QED
      BY <1>6, <3>1, <3>2
  <2> QED
    BY <1>4, <2>1 DEF BytesOnce, UnitsOf
<1>13. UnitsInv'
  <2>1. ASSUME NEW i \in 1 .. len + n PROVE wire'[i].at \in 1 .. sent'[wire'[i].msg]
    <3>1. CASE i \in 1 .. len
      <4>1. wire[i].at \in 1 .. sent[wire[i].msg] /\ wire[i].msg \in Message
        BY <1>2, <3>1 DEF UnitsInv
      <4>2. sent[wire[i].msg] \in Nat /\ sent'[wire[i].msg] \in Nat
        BY <1>1, <4>1 DEF at
      <4>3. sent[wire[i].msg] <= sent'[wire[i].msg]
        BY <1>1, <1>10, <4>1, <4>2 DEF at
      <4> QED
        BY <1>3, <3>1, <4>1, <4>2, <4>3
    <3>2. CASE i \in len + 1 .. len + n
      <4>1. at + (i - len) \in 1 .. at + n
        BY <1>1, <1>2, <3>2
      <4> QED
        BY <1>5, <1>10, <3>2, <4>1
    <3> QED
      BY <1>6, <3>1, <3>2
  <2>2. wire'[len + n].at = sent'[m] /\ wire'[len + n].msg = m
    <3>1. len + n \in len + 1 .. len + n /\ (len + n) - len = n
      BY <1>1, <1>2
    <3> QED
      BY <1>5, <1>10, <3>1
  <2> QED
    BY <1>3, <1>4, <2>1, <2>2 DEF UnitsInv
<1> QED
  BY <1>11, <1>12, <1>13

-----------------------------------------------------------------------------
(* Frames, begun in order and torn only where messages crossed.            *)

WireInv == QueueInv /\ UnitsInv /\ BeginInOrder /\ CutInv /\ TornInv /\ RunInv

LEMMA WireType ==
    ASSUME TypeOK
    PROVE  /\ Len(wire) \in Nat /\ DOMAIN wire = 1 .. Len(wire)
           /\ \A i \in 1 .. Len(wire) : wire[i] \in Unit /\ wire[i].msg \in Message
<1>1. wire \in Seq(Unit) /\ \A u \in Unit : u.msg \in Message
  BY DEF TypeOK, Unit
<1> QED
  BY <1>1

\* What a write adds, unit by unit.
LEMMA WireAfterWrite ==
    ASSUME TypeOK, NEW m, NEW n, Writes(m, n)
    PROVE  /\ Len(wire) \in Nat /\ n \in Nat \ {0} /\ m \in Message /\ sent[m] \in Nat
           /\ DOMAIN wire = 1 .. Len(wire) /\ DOMAIN wire' = 1 .. Len(wire) + n
           /\ Len(wire') = Len(wire) + n /\ wire' # <<>>
           /\ \A i \in 1 .. Len(wire) : wire'[i] = wire[i] /\ wire[i].msg \in Message
           /\ \A i \in Len(wire) + 1 .. Len(wire) + n :
                 /\ wire'[i] = [msg |-> m, at |-> sent[m] + (i - Len(wire))]
                 /\ wire'[i].msg = m /\ wire'[i].at = sent[m] + (i - Len(wire))
           /\ \A i \in 1 .. Len(wire) + n :
                 i \in 1 .. Len(wire) \/ i \in Len(wire) + 1 .. Len(wire) + n
           /\ sent'[m] = sent[m] + n /\ \A p \in Message \ {m} : sent'[p] = sent[p]
           /\ wire'[Len(wire) + 1].msg = m /\ wire'[Len(wire) + 1].at = sent[m] + 1
           /\ wire'[Len(wire) + n].msg = m /\ wire'[Len(wire) + n].at = sent[m] + n
<1>1. /\ m \in Message /\ n \in Nat \ {0} /\ sent[m] \in Nat /\ Len(wire) \in Nat
      /\ sent' = [sent EXCEPT ![m] = sent[m] + n] /\ sent \in [Message -> Nat]
      /\ wire' \in Seq(Unit) /\ Len(wire') = Len(wire) + n
      /\ \A i \in 1 .. Len(wire) : wire'[i] = wire[i]
      /\ \A i \in Len(wire) + 1 .. Len(wire) + n :
            wire'[i] = [msg |-> m, at |-> sent[m] + (i - Len(wire))]
  BY DEF Writes, TypeOK
<1>2. DOMAIN wire' = 1 .. Len(wire) + n /\ wire' # <<>>
  BY <1>1
<1>3. ASSUME NEW i \in Len(wire) + 1 .. Len(wire) + n
      PROVE  wire'[i].msg = m /\ wire'[i].at = sent[m] + (i - Len(wire))
  <2>1. wire'[i] = [msg |-> m, at |-> sent[m] + (i - Len(wire))]
    BY <1>1
  <2> QED
    BY <2>1
<1>4. sent'[m] = sent[m] + n /\ \A p \in Message \ {m} : sent'[p] = sent[p]
  BY <1>1
<1> DEFINE len == Len(wire)
<1>5. len \in Nat
  BY <1>1
<1> HIDE DEF len
<1>6. \A i \in 1 .. len + n : i \in 1 .. len \/ i \in len + 1 .. len + n
  BY <1>1, <1>5
<1>7. /\ len + 1 \in len + 1 .. len + n /\ (len + 1) - len = 1
      /\ len + n \in len + 1 .. len + n /\ (len + n) - len = n
  BY <1>1, <1>5
<1>8. /\ wire'[len + 1].msg = m /\ wire'[len + 1].at = sent[m] + 1
      /\ wire'[len + n].msg = m /\ wire'[len + n].at = sent[m] + n
  BY <1>3, <1>7 DEF len
<1> QED
  BY <1>1, <1>2, <1>3, <1>4, <1>6, <1>8, WireType DEF len

LEMMA Waiting ==
    ASSUME TypeOK, QueueInv, NEW m, NEW n, Writes(m, n)
    PROVE  m \in Message /\ m \in Sent /\ sent[m] < FrameLen(m) /\ open /\ 1 \in DOMAIN Due
<1>1. 1 \in DOMAIN Due
  BY DueAfterWrite
<1> QED
  BY <1>1 DEF Writes, QueueInv, DueUnfinished

LEMMA UnitsAre ==
    ASSUME TypeOK, UnitsInv
    PROVE  \A i \in 1 .. Len(wire) :
              /\ wire[i].msg \in Message
              /\ sent[wire[i].msg] \in Nat /\ wire[i].at \in Nat
              /\ sent[wire[i].msg] > 0 /\ wire[i].at > 0 /\ wire[i].at <= sent[wire[i].msg]
<1> SUFFICES ASSUME NEW i \in 1 .. Len(wire)
             PROVE  /\ wire[i].msg \in Message
                    /\ sent[wire[i].msg] \in Nat /\ wire[i].at \in Nat
                    /\ sent[wire[i].msg] > 0 /\ wire[i].at > 0 /\ wire[i].at <= sent[wire[i].msg]
  OBVIOUS
<1>1. i \in DOMAIN wire /\ wire[i].msg \in Message
  BY WireType
<1>2. sent[wire[i].msg] \in Nat
  BY <1>1 DEF TypeOK
<1>3. wire[i].at \in 1 .. sent[wire[i].msg]
  BY <1>1 DEF UnitsInv
<1> QED
  BY <1>1, <1>2, <1>3

LEMMA BeginWrite ==
    ASSUME TypeOK, WireInv, NEW m, NEW n, Writes(m, n)
    PROVE  BeginInOrder'
<1>1. UNCHANGED order
  BY DEF Writes
<1>2. /\ Len(wire) \in Nat /\ n \in Nat \ {0} /\ m \in Message /\ sent[m] \in Nat
      /\ DOMAIN wire' = 1 .. Len(wire) + n /\ Len(wire') = Len(wire) + n
      /\ \A i \in 1 .. Len(wire) : wire'[i] = wire[i] /\ wire[i].msg \in Message
      /\ \A i \in Len(wire) + 1 .. Len(wire) + n :
            wire'[i].msg = m /\ wire'[i].at = sent[m] + (i - Len(wire))
      /\ \A i \in 1 .. Len(wire) + n :
            i \in 1 .. Len(wire) \/ i \in Len(wire) + 1 .. Len(wire) + n
  <2>1. ASSUME NEW i \in Len(wire) + 1 .. Len(wire) + n
        PROVE  wire'[i].msg = m /\ wire'[i].at = sent[m] + (i - Len(wire))
    BY WireAfterWrite
  <2> QED
    BY <2>1, WireAfterWrite
<1> SUFFICES ASSUME NEW i \in DOMAIN wire', NEW j \in DOMAIN wire', i < j,
                    wire'[i].at = 1, wire'[j].at = 1
             PROVE  Before(wire'[i].msg, wire'[j].msg)
  BY <1>1 DEF BeginInOrder, Before
<1>3. CASE j \in 1 .. Len(wire)
  <2>1. i \in 1 .. Len(wire)
    BY <1>2, <1>3
  <2> QED
    BY <1>2, <1>3, <2>1, WireType DEF WireInv, BeginInOrder
<1>4. CASE j \in Len(wire) + 1 .. Len(wire) + n
  <2>1. sent[m] = 0 /\ j = Len(wire) + 1
    BY <1>2, <1>4
  <2>2. i \in 1 .. Len(wire)
    BY <1>2, <2>1
  <2>3. sent[wire[i].msg] > 0 /\ wire[i].msg \in Message
    BY <2>2, UnitsAre DEF WireInv
  <2>4. 1 \in DOMAIN Due /\ m = Due[1]
    BY Waiting DEF WireInv, Writes
  <2>5. Before(wire[i].msg, m)
    BY <2>1, <2>3, <2>4 DEF WireInv, QueueInv, BegunBeforeFresh
  <2> QED
    BY <1>2, <1>4, <2>2, <2>5
<1> QED
  BY <1>2, <1>3, <1>4

\* Where a frame is torn by a write: at the end of the wire, unless it was before.
LEMMA TornByWrite ==
    ASSUME TypeOK, UnitsInv, NEW m, NEW n, Writes(m, n)
    PROVE  /\ Torn => Torn'
           /\ Torn' => \/ Torn
                       \/ /\ wire # <<>> /\ wire[Len(wire)].msg # m
                          /\ Cut(wire[Len(wire)].msg) /\ wire[Len(wire)].msg \in Message
           /\ wire # <<>> /\ wire[Len(wire)].msg # m /\ Cut(wire[Len(wire)].msg) => Torn'
<1> DEFINE len == Len(wire)
<1>1. /\ Len(wire) \in Nat /\ n \in Nat \ {0} /\ m \in Message /\ sent[m] \in Nat
      /\ DOMAIN wire' = 1 .. Len(wire) + n /\ Len(wire') = Len(wire) + n
      /\ \A i \in 1 .. Len(wire) : wire'[i] = wire[i] /\ wire[i].msg \in Message
      /\ \A i \in Len(wire) + 1 .. Len(wire) + n :
            wire'[i].msg = m /\ wire'[i].at = sent[m] + (i - Len(wire))
      /\ \A i \in 1 .. Len(wire) + n :
            i \in 1 .. Len(wire) \/ i \in Len(wire) + 1 .. Len(wire) + n
  <2>1. ASSUME NEW i \in Len(wire) + 1 .. Len(wire) + n
        PROVE  wire'[i].msg = m /\ wire'[i].at = sent[m] + (i - Len(wire))
    BY WireAfterWrite
  <2> QED
    BY <2>1, WireAfterWrite
<1>2. /\ Len(wire') = len + n /\ len \in Nat
      /\ \A i \in 1 .. len : wire'[i] = wire[i] /\ wire[i].msg \in Message
      /\ \A i \in len + 1 .. len + n : wire'[i].msg = m
      /\ wire # <<>> => len \in 1 .. len
  BY <1>1, WireType DEF TypeOK
<1>3. wire # <<>> => wire[len].at = sent[wire[len].msg] /\ wire[len].at > 0
  BY <1>2, WireType DEF UnitsInv, TypeOK
<1> HIDE DEF len
<1>4. ASSUME Torn PROVE Torn'
  <2>1. PICK i \in 1 .. len - 1 :
           wire[i].msg # wire[i + 1].msg /\ wire[i].at < FrameLen(wire[i].msg)
    BY <1>4 DEF Torn, len
  <2>2. i \in 1 .. len /\ i + 1 \in 1 .. len /\ i \in 1 .. (len + n) - 1
    BY <1>1, <1>2
  <2> QED
    BY <1>2, <2>1, <2>2 DEF Torn
<1>5. ASSUME Torn', ~Torn
      PROVE  /\ wire # <<>> /\ wire[len].msg # m /\ Cut(wire[len].msg)
             /\ wire[len].msg \in Message
  <2>1. PICK i \in 1 .. (len + n) - 1 :
           wire'[i].msg # wire'[i + 1].msg /\ wire'[i].at < FrameLen(wire'[i].msg)
    BY <1>2, <1>5 DEF Torn
  <2>2. CASE i \in 1 .. len - 1
    <3>1. i \in 1 .. len /\ i + 1 \in 1 .. len
      BY <1>2, <2>2
    <3> QED
      BY <1>2, <1>5, <2>1, <2>2, <3>1 DEF Torn, len
  <2>3. CASE i \in len + 1 .. (len + n) - 1
    <3>1. i \in len + 1 .. len + n /\ i + 1 \in len + 1 .. len + n
      BY <1>1, <1>2, <2>3
    <3> QED
      BY <1>2, <2>1, <3>1
  <2>4. CASE i = len
    <3>1. len \in 1 .. len /\ len + 1 \in len + 1 .. len + n /\ wire # <<>>
      BY <1>1, <1>2, <2>4 DEF len
    <3> QED
      BY <1>2, <1>3, <2>1, <2>4, <3>1 DEF Cut
  <2> QED
    BY <1>1, <1>2, <2>2, <2>3, <2>4
<1>6. ASSUME wire # <<>>, wire[len].msg # m, Cut(wire[len].msg) PROVE Torn'
  <2>1. len \in 1 .. (len + n) - 1 /\ len + 1 \in len + 1 .. len + n /\ len \in 1 .. len
    BY <1>1, <1>2, <1>6
  <2> QED
    BY <1>2, <1>3, <1>6, <2>1 DEF Torn, Cut
<1> QED
  BY <1>4, <1>5, <1>6 DEF len

LEMMA CrossedWrite ==
    ASSUME TypeOK, WireInv, NEW m, NEW n, Writes(m, n)
    PROVE  CutInv' /\ TornInv'
<1>1. /\ m \in Sent /\ m \in Message /\ sent[m] < FrameLen(m)
      /\ crossed' = (crossed \/ (sent[m] + n < FrameLen(m) /\ Others(m)))
      /\ sent'[m] = sent[m] + n /\ \A p \in Message \ {m} : sent'[p] = sent[p]
      /\ UNCHANGED order
  <2>1. m \in Sent /\ m \in Message /\ sent[m] < FrameLen(m)
    BY Waiting DEF WireInv
  <2>2. sent'[m] = sent[m] + n /\ \A p \in Message \ {m} : sent'[p] = sent[p]
    BY WireAfterWrite
  <2> QED
    BY <2>1, <2>2 DEF Writes
<1>2. Sent' = Sent /\ Sent \subseteq Message
  BY <1>1 DEF Sent, TypeOK
\* a message cut short has crossed m, which is due
<1>3. ASSUME NEW p \in Message, p # m, Cut(p) PROVE crossed
  <2>1. Others(p)
    BY <1>1, <1>3 DEF Others
  <2> QED
    BY <1>3, <2>1 DEF WireInv, CutInv
<1>4. TornInv'
  <2>1. ASSUME Torn' PROVE crossed
    BY <1>3, <2>1, TornByWrite DEF WireInv, TornInv
  <2> QED
    BY <1>1, <2>1 DEF TornInv
<1>5. CutInv'
  <2> SUFFICES ASSUME ~crossed', NEW p \in Message, Cut(p)' PROVE ~Others(p)'
    BY DEF CutInv
  <2>1. p = m
    BY <1>1, <1>3 DEF Cut
  <2>2. ~Others(m)
    BY <1>1, <2>1 DEF Cut
  <2> QED
    BY <1>1, <1>2, <2>1, <2>2 DEF Others
<1> QED
  BY <1>4, <1>5

\* A message cut short is the one at the end of the wire, if no frame is torn by
\* the write of m: so it is m.
LEMMA CutIsWritten ==
    ASSUME TypeOK, WireInv, NEW m, NEW n, Writes(m, n), ~Torn'
    PROVE  /\ ~Torn
           /\ \A p \in Message : Cut(p) => p = m /\ wire # <<>> /\ wire[Len(wire)].msg = m
           /\ wire # <<>> /\ wire[Len(wire)].msg # m => ~Cut(wire[Len(wire)].msg)
<1>1. ~Torn /\ (wire # <<>> /\ wire[Len(wire)].msg # m => ~Cut(wire[Len(wire)].msg))
  BY TornByWrite DEF WireInv
<1>2. \A p \in Message : Cut(p) => wire # <<>> /\ wire[Len(wire)].msg = p
  BY <1>1 DEF WireInv, RunInv, CutAtEnd
<1> QED
  BY <1>1, <1>2

\* Where m has begun, it began before.
LEMMA BegunCut ==
    ASSUME TypeOK, WireInv, NEW m, NEW n, Writes(m, n), sent[m] # 0
    PROVE  Cut(m)
BY Waiting DEF WireInv, TypeOK, Cut

LEMMA CutAtEndWrite ==
    ASSUME TypeOK, WireInv, NEW m, NEW n, Writes(m, n)
    PROVE  CutAtEnd'
<1>1. /\ Len(wire') = Len(wire) + n /\ wire' # <<>> /\ wire'[Len(wire) + n].msg = m
      /\ \A p \in Message \ {m} : sent'[p] = sent[p]
  BY WireAfterWrite
<1> SUFFICES ASSUME ~Torn', NEW p \in Message, Cut(p)'
             PROVE  wire'[Len(wire')].msg = p
  BY <1>1 DEF CutAtEnd
<1>2. p = m
  BY <1>1, CutIsWritten DEF Cut
<1> QED
  BY <1>1, <1>2

\* The fresh messages behind m were sent after it.
LEMMA FreshAfter ==
    ASSUME TypeOK, QueueInv, NEW m, NEW n, Writes(m, n), sent[m] = 0,
           NEW p \in Sent, p # m, sent[p] = 0
    PROVE  Before(m, p)
<1>1. open /\ m = Due[1] /\ 1 \in DOMAIN Due /\ DOMAIN Due = 1 .. Len(Due)
  BY Waiting, DueAfterWrite DEF Writes
<1>2. p \in Message /\ sent[p] < FrameLen(p)
  BY FrameLens DEF Sent, TypeOK
<1>3. PICK i \in DOMAIN Due : Due[i] = p
  BY <1>1, <1>2 DEF QueueInv, AllDue
<1>4. 1 < i
  BY <1>1, <1>3
<1> QED
  BY <1>1, <1>3, <1>4 DEF QueueInv, FreshInOrder

LEMMA FirstIsWrite ==
    ASSUME TypeOK, WireInv, NEW m, NEW n, Writes(m, n)
    PROVE  FirstIs'
<1>1. /\ Len(wire) \in Nat /\ wire'[Len(wire) + 1].msg = m
      /\ wire'[Len(wire) + 1].at = sent[m] + 1
      /\ \A i \in 1 .. Len(wire) : wire'[i] = wire[i]
  BY WireAfterWrite
<1>2. UNCHANGED order /\ order \in Seq(Message) /\ wire \in Seq(Unit)
  BY DEF Writes, TypeOK
<1>3. CASE wire # <<>>
  <2>1. 1 \in 1 .. Len(wire)
    BY <1>1, <1>2, <1>3
  <2>2. Torn => Torn'
    BY TornByWrite DEF WireInv
  <2> QED
    BY <1>1, <1>2, <1>3, <2>1, <2>2 DEF WireInv, RunInv, FirstIs
<1>4. CASE wire = <<>>
  <2>1. \A p \in Message : sent[p] = 0
    BY <1>4 DEF WireInv, UnitsInv
  <2>2. m \in Message /\ m \in Sent
    BY Waiting DEF WireInv
  <2>3. m = order[1]
    <3>1. 1 \in DOMAIN order /\ order[1] \in Sent /\ order[1] \in Message
      BY <1>2, <2>2 DEF Sent
    <3>2. ~Before(m, order[1])
      <4> SUFFICES ASSUME NEW i \in DOMAIN order, NEW j \in DOMAIN order, i < j,
                          order[j] = order[1]
                   PROVE  FALSE
        BY DEF Before
      <4>1. j = 1
        BY <3>1 DEF WireInv, QueueInv, OrderOnce
      <4> QED
        BY <1>2, <4>1
    <3> QED
      BY <2>1, <2>2, <3>1, <3>2, FreshAfter DEF WireInv
  <2>4. wire'[1].msg = m /\ wire'[1].at = 1
    BY <1>1, <1>4, <2>1, <2>2
  <2> QED
    BY <1>2, <2>3, <2>4 DEF FirstIs
<1> QED
  BY <1>3, <1>4

LEMMA LastIsWrite ==
    ASSUME TypeOK, WireInv, NEW m, NEW n, Writes(m, n)
    PROVE  LastIs'
<1>1. /\ Len(wire') = Len(wire) + n /\ wire'[Len(wire) + n].msg = m
      /\ \A p \in Message \ {m} : sent'[p] = sent[p]
  BY WireAfterWrite
<1>2. UNCHANGED order /\ m = Due[1] /\ 1 \in DOMAIN Due /\ m \in Message
  BY Waiting DEF Writes, WireInv
<1>3. ASSUME ~Torn', NEW p \in Message, sent'[p] > 0, p # m PROVE Before(p, m)
  <2>1. sent[p] > 0
    BY <1>1, <1>3
  <2>2. CASE sent[m] = 0
    BY <1>2, <2>1, <2>2 DEF WireInv, QueueInv, BegunBeforeFresh
  <2>3. CASE sent[m] # 0
    <3>1. ~Torn /\ wire # <<>> /\ wire[Len(wire)].msg = m
      BY <1>2, <1>3, <2>3, BegunCut, CutIsWritten
    <3> QED
      BY <1>3, <2>1, <3>1 DEF WireInv, RunInv, LastIs
  <2> QED
    BY <2>2, <2>3
<1> QED
  BY <1>1, <1>2, <1>3 DEF LastIs, Before

\* Where the frame of i ends in a wire of len units: its unit k is at i + k - 1.
LEMMA FramesRunWrite ==
    ASSUME TypeOK, WireInv, NEW m, NEW n, Writes(m, n)
    PROVE  FramesRun'
<1> DEFINE len == Len(wire)
<1>1. /\ len \in Nat /\ n \in Nat \ {0} /\ m \in Message /\ sent[m] \in Nat
      /\ DOMAIN wire = 1 .. len /\ DOMAIN wire' = 1 .. len + n /\ Len(wire') = len + n
      /\ \A i \in 1 .. len : wire'[i] = wire[i] /\ wire[i].msg \in Message
      /\ \A i \in 1 .. len + n : i \in 1 .. len \/ i \in len + 1 .. len + n
  BY WireAfterWrite
<1>2. \A i \in len + 1 .. len + n :
         /\ wire'[i] = [msg |-> m, at |-> sent[m] + (i - len)]
         /\ wire'[i].msg = m /\ wire'[i].at = sent[m] + (i - len)
  BY WireAfterWrite
<1>3. wire # <<>> => wire[len].at = sent[wire[len].msg]
  BY DEF WireInv, UnitsInv
<1>4. \A i \in 1 .. len : wire[i].at <= sent[wire[i].msg] /\ sent[wire[i].msg] \in Nat
  BY UnitsAre DEF WireInv
<1>5. sent[m] < FrameLen(m) /\ \A p \in Message : FrameLen(p) \in Nat
  BY Waiting, FrameLens DEF WireInv
<1>6. ASSUME ~Torn' PROVE
        /\ \A p \in Message : Cut(p) => p = m /\ wire # <<>> /\ wire[len].msg = m
        /\ wire # <<>> /\ wire[len].msg # m => ~Cut(wire[len].msg)
        /\ \A i \in 1 .. len : wire[i].at = 1 => \A k \in 1 .. FrameLen(wire[i].msg) :
              i + k - 1 <= len => wire[i + k - 1] = [msg |-> wire[i].msg, at |-> k]
  <2>1. /\ ~Torn
        /\ \A p \in Message : Cut(p) => p = m /\ wire # <<>> /\ wire[len].msg = m
        /\ wire # <<>> /\ wire[len].msg # m => ~Cut(wire[len].msg)
    BY <1>6, CutIsWritten
  <2> QED
    BY <1>1, <2>1 DEF WireInv, RunInv, FramesRun
<1>7. len > 0 => wire # <<>>
  BY WireType
<1> HIDE DEF len
<1> SUFFICES ASSUME ~Torn', NEW i \in 1 .. len + n, wire'[i].at = 1,
                    NEW k \in 1 .. FrameLen(wire'[i].msg), i + k - 1 <= len + n
             PROVE  wire'[i + k - 1] = [msg |-> wire'[i].msg, at |-> k]
  BY <1>1 DEF FramesRun
<1> DEFINE p == wire'[i].msg
           at == i + k - 1
<1>8. p \in Message /\ k \in Nat \ {0} /\ k <= FrameLen(p) /\ FrameLen(p) \in Nat
  <2>1. p \in Message
    BY <1>1, <1>2
  <2>2. FrameLen(p) \in Nat
    BY <1>5, <2>1
  <2> QED
    BY <2>1, <2>2
<1>9. CASE i \in len + 1 .. len + n
  <2>1. sent[m] = 0 /\ i = len + 1 /\ p = m
    <3>1. sent[m] + (i - len) = 1 /\ p = m
      BY <1>2, <1>9
    <3> QED
      BY <1>1, <1>9, <3>1
  <2>2. at \in len + 1 .. len + n /\ sent[m] + (at - len) = k
    BY <1>1, <1>8, <2>1
  <2> QED
    BY <1>2, <2>1, <2>2
<1>10. CASE i \in 1 .. len /\ at <= len
  <2>1. at \in 1 .. len
    BY <1>1, <1>8, <1>10
  <2> QED
    BY <1>1, <1>6, <1>10, <2>1
<1>11. CASE i \in 1 .. len /\ at > len
  \* the frame goes on: its last unit so far is the last of the wire
  <2> DEFINE j == len - i + 1
  <2>1. j \in 1 .. FrameLen(p) /\ i + j - 1 = len /\ j < k /\ wire # <<>> /\ len \in 1 .. len
    <3>1. j \in 1 .. FrameLen(p) /\ i + j - 1 = len /\ j < k /\ len > 0
      BY <1>1, <1>8, <1>11
    <3> QED
      BY <1>1, <1>7, <3>1
  <2>2. wire[i].at = 1 /\ wire[i].msg = p
    BY <1>1, <1>11
  <2>3. wire[len] = [msg |-> p, at |-> j]
    BY <1>6, <1>11, <2>1, <2>2
  <2>4. wire[len].msg = p /\ sent[p] = j
    BY <1>3, <2>1, <2>3
  <2>5. Cut(p)
    <3>1. j > 0 /\ j < FrameLen(p)
      BY <1>5, <1>8, <2>1
    <3> QED
      BY <2>4, <3>1 DEF Cut
  <2>6. p = m /\ sent[m] = j
    BY <1>6, <1>8, <2>4, <2>5
  <2>7. at \in len + 1 .. len + n /\ sent[m] + (at - len) = k
    BY <1>1, <1>8, <1>11, <2>6
  <2> QED
    BY <1>2, <2>6, <2>7
<1> QED
  BY <1>1, <1>8, <1>9, <1>10, <1>11

\* A frame that begins behind a whole one is that of the next message sent.
LEMMA SuccessiveWrite ==
    ASSUME TypeOK, WireInv, NEW m, NEW n, Writes(m, n), ~Torn, wire # <<>>, sent[m] = 0
    PROVE  Successive(wire[Len(wire)].msg, m)
<1> DEFINE u == wire[Len(wire)].msg
<1>1. Len(wire) \in 1 .. Len(wire)
  BY WireType DEF TypeOK
<1>2. u \in Message /\ sent[u] > 0
  BY <1>1, WireType DEF WireInv, UnitsInv, TypeOK
<1>3. m = Due[1] /\ 1 \in DOMAIN Due /\ m \in Message /\ order \in Seq(Message)
  BY Waiting DEF Writes, WireInv, TypeOK
<1>4. Before(u, m)
  BY <1>2, <1>3 DEF WireInv, QueueInv, BegunBeforeFresh
<1>5. PICK i, j \in DOMAIN order : i < j /\ order[i] = u /\ order[j] = m
  BY <1>4 DEF Before
<1>6. /\ i \in 1 .. Len(order) /\ j \in 1 .. Len(order) /\ Len(order) \in Nat
      /\ DOMAIN order = 1 .. Len(order)
  BY <1>3
<1>7. i + 1 \in 1 .. Len(order) /\ i \in 1 .. Len(order) - 1
  BY <1>5, <1>6
<1> DEFINE w == order[i + 1]
<1>8. w \in Sent /\ w \in Message
  BY <1>3, <1>6, <1>7 DEF Sent
<1>9. CASE i + 1 = j
  BY <1>5, <1>7, <1>9 DEF Successive
<1>10. CASE i + 1 # j
  <2>1. w # m /\ w # u /\ i + 1 < j
    BY <1>5, <1>6, <1>7, <1>10 DEF WireInv, QueueInv, OrderOnce
  <2>2. ~Before(m, w)
    <3> SUFFICES ASSUME NEW a \in DOMAIN order, NEW b \in DOMAIN order, a < b,
                        order[a] = m, order[b] = w
                 PROVE  FALSE
      BY DEF Before
    <3>1. a = j /\ b = i + 1
      BY <1>5, <1>6, <1>7 DEF WireInv, QueueInv, OrderOnce
    <3> QED
      BY <1>6, <2>1, <3>1
  <2>3. ~Before(w, u)
    <3> SUFFICES ASSUME NEW a \in DOMAIN order, NEW b \in DOMAIN order, a < b,
                        order[a] = w, order[b] = u
                 PROVE  FALSE
      BY DEF Before
    <3>1. a = i + 1 /\ b = i
      BY <1>5, <1>6, <1>7 DEF WireInv, QueueInv, OrderOnce
    <3> QED
      BY <1>6, <3>1
  <2>4. sent[w] # 0
    BY <1>8, <2>1, <2>2, FreshAfter DEF WireInv
  <2>5. sent[w] > 0
    BY <1>8, <2>4 DEF TypeOK
  <2> QED
    BY <1>8, <2>1, <2>3, <2>5 DEF WireInv, RunInv, LastIs
<1> QED
  BY <1>9, <1>10

LEMMA NextFollowsWrite ==
    ASSUME TypeOK, WireInv, NEW m, NEW n, Writes(m, n)
    PROVE  NextFollows'
<1> DEFINE len == Len(wire)
<1>1. /\ len \in Nat /\ n \in Nat \ {0} /\ m \in Message /\ sent[m] \in Nat
      /\ Len(wire') = len + n
      /\ \A i \in 1 .. len : wire'[i] = wire[i] /\ wire[i].msg \in Message
      /\ wire'[len + 1].msg = m /\ wire'[len + 1].at = sent[m] + 1
  BY WireAfterWrite
<1>2. ASSUME NEW i \in len + 1 .. len + n
      PROVE  wire'[i].msg = m /\ wire'[i].at = sent[m] + (i - len)
  BY WireAfterWrite
<1>3. UNCHANGED order
  BY DEF Writes
<1>4. wire # <<>> => wire[len].at = sent[wire[len].msg]
  BY DEF WireInv, UnitsInv
<1>5. ASSUME ~Torn' PROVE
        /\ ~Torn
        /\ \A p \in Message : Cut(p) => p = m /\ wire # <<>> /\ wire[len].msg = m
        /\ wire # <<>> /\ wire[len].msg # m => ~Cut(wire[len].msg)
  BY <1>5, CutIsWritten
<1>6. ~Torn /\ wire # <<>> /\ sent[m] = 0 => Successive(wire[len].msg, m)
  BY SuccessiveWrite
<1>7. ASSUME ~Torn, NEW i \in 1 .. len - 1
      PROVE  \/ wire[i + 1].msg = wire[i].msg /\ wire[i + 1].at = wire[i].at + 1
             \/ /\ wire[i].at = FrameLen(wire[i].msg) /\ wire[i + 1].at = 1
                /\ Successive(wire[i].msg, wire[i + 1].msg)
  BY <1>7 DEF WireInv, RunInv, NextFollows
<1>8. wire # <<>> => sent[wire[len].msg] > 0 /\ sent[wire[len].msg] <= FrameLen(wire[len].msg)
  <2>1. ASSUME wire # <<>>
        PROVE  len \in 1 .. len /\ len \in DOMAIN wire /\ wire[len].msg \in Message
    <3>1. wire \in Seq(Unit)
      BY DEF TypeOK
    <3>2. len \in 1 .. len
      BY <2>1, <3>1
    <3> QED
      BY <3>2, WireType
  <2> QED
    BY <2>1 DEF WireInv, UnitsInv, TypeOK
<1>9. len > 0 => wire # <<>>
  OBVIOUS
<1> HIDE DEF len
<1> SUFFICES ASSUME ~Torn', NEW i \in 1 .. (len + n) - 1
             PROVE  \/ wire'[i + 1].msg = wire'[i].msg /\ wire'[i + 1].at = wire'[i].at + 1
                    \/ /\ wire'[i].at = FrameLen(wire'[i].msg) /\ wire'[i + 1].at = 1
                       /\ Successive(wire'[i].msg, wire'[i + 1].msg)
  BY <1>1, <1>3 DEF NextFollows, Successive
<1>10. CASE i \in 1 .. len - 1
  <2>1. i \in 1 .. len /\ i + 1 \in 1 .. len
    BY <1>1, <1>10
  <2> QED
    BY <1>1, <1>5, <1>7, <1>10, <2>1
<1>11. CASE i \in len + 1 .. (len + n) - 1
  <2>1. /\ i \in len + 1 .. len + n /\ i + 1 \in len + 1 .. len + n
        /\ sent[m] + ((i + 1) - len) = sent[m] + (i - len) + 1
    BY <1>1, <1>11
  <2> QED
    BY <1>2, <2>1
<1>12. CASE i = len
  <2>1. len \in 1 .. len /\ wire # <<>> /\ wire'[len] = wire[len] /\ wire[len].msg \in Message
    BY <1>1, <1>9, <1>12
  <2>2. CASE wire[len].msg = m
    BY <1>1, <1>4, <1>12, <2>1, <2>2
  <2>3. CASE wire[len].msg # m
    <3>1. ~Cut(m)
      BY <1>1, <1>5, <2>3
    <3>2. sent[m] = 0
      BY <3>1, BegunCut
    <3>3. wire[len].at = FrameLen(wire[len].msg)
      <4>1. ~Cut(wire[len].msg)
        BY <1>5, <2>1, <2>3
      <4>2. sent[wire[len].msg] \in Nat /\ FrameLen(wire[len].msg) \in Nat
        BY <2>1, FrameLens DEF TypeOK
      <4> QED
        BY <1>4, <1>8, <2>1, <4>1, <4>2 DEF Cut
    <3> QED
      BY <1>1, <1>5, <1>6, <1>12, <2>1, <3>2, <3>3
  <2> QED
    BY <2>2, <2>3
<1> QED
  BY <1>1, <1>10, <1>11, <1>12

LEMMA WireWrite ==
    ASSUME TypeOK, Counted, BytesOnce, WireInv, NEW m, NEW n, Writes(m, n)
    PROVE  Counted' /\ BytesOnce' /\ WireInv'
<1>1. QueueInv'
  BY QueueWrite DEF WireInv
<1>2. Counted' /\ BytesOnce' /\ UnitsInv'
  BY BytesWrite DEF WireInv
<1>3. BeginInOrder' /\ CutInv' /\ TornInv'
  BY BeginWrite, CrossedWrite
<1>4. RunInv'
  BY CutAtEndWrite, FirstIsWrite, LastIsWrite, FramesRunWrite, NextFollowsWrite DEF RunInv
<1> QED
  BY <1>1, <1>2, <1>3, <1>4 DEF WireInv

LEMMA WireSend ==
    ASSUME TypeOK, Counted, BytesOnce, WireInv, NEW m \in Message, Send(m)
    PROVE  Counted' /\ BytesOnce' /\ WireInv'
<1>1. /\ UNCHANGED <<sent, wire>> /\ order' = Append(order, m) /\ order \in Seq(Message)
      /\ crossed' = (crossed \/ \E p \in Message : Cut(p))
  BY DEF Send, TypeOK
<1>2. QueueInv'
  BY QueueSend DEF WireInv
<1>3. Counted' /\ BytesOnce' /\ UnitsInv'
  BY <1>1 DEF Counted, BytesOnce, UnitsInv, WireInv
<1>4. /\ DOMAIN order = 1 .. Len(order) /\ DOMAIN order' = 1 .. Len(order) + 1
      /\ Len(order) \in Nat /\ Len(order') = Len(order) + 1
      /\ \A i \in 1 .. Len(order) : order'[i] = order[i]
  BY <1>1
<1>5. \A p, q : Before(p, q) => Before(p, q)'
  BY <1>4 DEF Before
<1>6. \A p, q : Successive(p, q) => Successive(p, q)'
  BY <1>4 DEF Successive
<1>7. BeginInOrder'
  <2> SUFFICES ASSUME NEW i \in DOMAIN wire, NEW j \in DOMAIN wire, i < j,
                      wire[i].at = 1, wire[j].at = 1
               PROVE  Before(wire[i].msg, wire[j].msg)'
    BY <1>1 DEF BeginInOrder
  <2>1. Before(wire[i].msg, wire[j].msg)
    BY DEF WireInv, BeginInOrder
  <2> QED
    BY <1>1, <1>5, <2>1
<1>8. CutInv' /\ TornInv'
  BY <1>1 DEF WireInv, CutInv, TornInv, Cut, Torn
<1>9. (Torn' <=> Torn) /\ CutAtEnd' /\ FramesRun'
  BY <1>1 DEF WireInv, RunInv, CutAtEnd, FramesRun, Torn, Cut
<1>10. FirstIs'
  <2>1. wire # <<>> => order # <<>>
    <3> SUFFICES ASSUME wire # <<>> PROVE order # <<>>
      OBVIOUS
    <3>1. 1 \in 1 .. Len(wire)
      BY DEF TypeOK
    <3>2. wire[1].msg \in Message /\ sent[wire[1].msg] > 0
      BY <3>1, UnitsAre DEF WireInv
    <3> QED
      BY <3>2 DEF WireInv, QueueInv, BegunSent, Sent
  <2>2. order # <<>> => order'[1] = order[1]
    BY <1>1, <1>4
  <2> QED
    BY <1>1, <1>9, <2>1, <2>2 DEF WireInv, RunInv, FirstIs
<1>11. LastIs'
  BY <1>1, <1>5, <1>9 DEF WireInv, RunInv, LastIs
<1>12. NextFollows'
  <2> SUFFICES ASSUME ~Torn, NEW i \in 1 .. Len(wire) - 1
               PROVE  \/ wire[i + 1].msg = wire[i].msg /\ wire[i + 1].at = wire[i].at + 1
                      \/ /\ wire[i].at = FrameLen(wire[i].msg) /\ wire[i + 1].at = 1
                         /\ Successive(wire[i].msg, wire[i + 1].msg)'
    BY <1>1, <1>9 DEF NextFollows
  <2>1. \/ wire[i + 1].msg = wire[i].msg /\ wire[i + 1].at = wire[i].at + 1
        \/ /\ wire[i].at = FrameLen(wire[i].msg) /\ wire[i + 1].at = 1
           /\ Successive(wire[i].msg, wire[i + 1].msg)
    BY DEF WireInv, RunInv, NextFollows
  <2> QED
    BY <1>1, <1>6, <2>1
<1> QED
  BY <1>2, <1>3, <1>7, <1>8, <1>9, <1>10, <1>11, <1>12 DEF WireInv, RunInv

LEMMA WireQuiet ==
    ASSUME Counted, BytesOnce, WireInv, UNCHANGED <<order, sent, crossed, wire>>, open' => open,
           Due' = Due \/ (~open /\ Due' = <<>>)
    PROVE  Counted' /\ BytesOnce' /\ WireInv'
<1>1. QueueInv'
  BY QueueQuiet DEF WireInv
<1>2. Counted' /\ BytesOnce' /\ UnitsInv'
  BY DEF Counted, BytesOnce, UnitsInv, WireInv
<1>3. BeginInOrder' /\ CutInv' /\ TornInv'
  BY DEF WireInv, BeginInOrder, Before, CutInv, TornInv, Cut, Torn, Others, Sent
<1>4. CutAtEnd' /\ FirstIs' /\ LastIs'
  BY DEF WireInv, RunInv, CutAtEnd, FirstIs, LastIs, Torn, Cut, Before
<1>5. FramesRun' /\ NextFollows'
  BY DEF WireInv, RunInv, FramesRun, NextFollows, Torn, Successive
<1> QED
  BY <1>1, <1>2, <1>3, <1>4, <1>5 DEF WireInv, RunInv

-----------------------------------------------------------------------------
(* The reader.                                                             *)

LEMMA ReaderType ==
    ASSUME TypeOK
    PROVE  /\ pos \in Nat /\ start \in Nat /\ goal \in Nat /\ Len(wire) \in Nat
           /\ start <= pos /\ pos <= Len(wire)
           /\ delivered \in Seq(Message \cup {Corrupt}) /\ order \in Seq(Message)
           /\ Len(delivered) \in Nat /\ Len(order) \in Nat
           /\ DOMAIN delivered = 1 .. Len(delivered) /\ DOMAIN order = 1 .. Len(order)
BY DEF TypeOK

\* What a step that writes or sends leaves of what the reader has read.
LEMMA ReaderAfterSend ==
    ASSUME TypeOK, ReaderInv, InOrder, Handed, AtFrame, UNCHANGED readerVars,
           Torn => Torn',
           \A p, q : Before(p, q) => Before(p, q)',
           Len(order') >= Len(order), Len(order') \in Nat,
           \A i \in 1 .. Len(order) : order'[i] = order[i],
           Len(wire') >= Len(wire), Len(wire') \in Nat,
           \A i \in 1 .. Len(wire) : wire'[i] = wire[i]
    PROVE  ReaderInv' /\ InOrder' /\ Handed' /\ AtFrame'
<1>1. /\ UNCHANGED <<pos, start, phase, goal, delivered>>
      /\ \A i \in 1 .. start : i \in 1 .. Len(wire)
      /\ start < Len(wire) => start + 1 \in 1 .. Len(wire)
      /\ start > 0 => start \in 1 .. Len(wire)
  BY ReaderType DEF readerVars
<1>2. ReaderInv'
  BY <1>1 DEF ReaderInv
<1>3. InOrder'
  BY <1>1 DEF InOrder
<1>4. Handed'
  BY <1>1, ReaderType DEF Handed
<1>5. AtFrame'
  <2> SUFFICES ASSUME ~Torn', phase # "closed" PROVE AtFrame'
    BY <1>1 DEF AtFrame
  <2>1. /\ ~Torn /\ Len(delivered) <= Len(order)
        /\ Len(delivered) # 0 => order'[Len(delivered)] = order[Len(delivered)]
    BY ReaderType DEF Handed
  <2> QED
    BY <1>1, <2>1, ReaderType DEF AtFrame
<1> QED
  BY <1>2, <1>3, <1>4, <1>5

\* The bytes a message was decoded from are its frame.
LEMMA DecodedIs ==
    ASSUME TypeOK, pos = start + goal, NEW m \in Decoded, m # Corrupt
    PROVE  /\ m \in Message /\ goal = FrameLen(m) /\ start + 1 \in 1 .. Len(wire)
           /\ wire[start + 1] = [msg |-> m, at |-> 1]
           /\ wire[pos] = [msg |-> m, at |-> FrameLen(m)]
<1> DEFINE bytes == SubSeq(wire, start + 1, start + goal)
<1>1. m \in Message /\ bytes = Frame(m)
  BY DEF Decoded
<1>2. FrameLen(m) \in Nat /\ FrameLen(m) > 0
  BY <1>1, FrameLens
<1>3. /\ bytes = [i \in 1 .. goal |-> wire[start + i]]
  <2>1. start \in Nat /\ goal \in Nat /\ start + goal <= Len(wire) /\ wire \in Seq(Unit)
    BY ReaderType DEF TypeOK
  <2>2. bytes = [i \in 1 .. 1 + (start + goal) - (start + 1) |-> wire[i + (start + 1) - 1]]
    BY <2>1
  <2>3. /\ 1 + (start + goal) - (start + 1) = goal
        /\ \A i \in 1 .. goal : i + (start + 1) - 1 = start + i
    BY <2>1
  <2> HIDE DEF bytes
  <2> QED
    BY <2>2, <2>3
<1>4. DOMAIN bytes = 1 .. goal /\ DOMAIN Frame(m) = 1 .. FrameLen(m)
  BY <1>3 DEF Frame
<1>5. goal = FrameLen(m)
  <2>1. 1 .. goal = 1 .. FrameLen(m) /\ goal \in Nat
    BY <1>1, <1>4, ReaderType
  <2> QED
    BY <1>2, <2>1
<1>6. \A i \in 1 .. goal : wire[start + i] = [msg |-> m, at |-> i]
  BY <1>1, <1>3, <1>5 DEF Frame
<1>7. 1 \in 1 .. goal /\ goal \in 1 .. goal /\ start + 1 \in 1 .. Len(wire)
  BY <1>2, <1>5, ReaderType
<1> QED
  BY <1>1, <1>5, <1>6, <1>7

\* While no frame is torn, what follows the last message handed on is the frame of
\* the next.
LEMMA NextFrame ==
    ASSUME TypeOK, WireInv, Handed, AtFrame, ~Torn, phase # "closed", start < Len(wire)
    PROVE  /\ Len(delivered) + 1 \in DOMAIN order /\ wire[start + 1].msg \in Message
           /\ wire[start + 1].msg = order[Len(delivered) + 1]
           /\ \A k \in 1 .. FrameLen(wire[start + 1].msg) :
                 start + k <= Len(wire) =>
                    wire[start + k] = [msg |-> wire[start + 1].msg, at |-> k]
<1> DEFINE u == wire[start]
           v == wire[start + 1]
           d == Len(delivered)
<1>1. /\ start + 1 \in 1 .. Len(wire) /\ v.msg \in Message /\ wire # <<>> /\ d \in Nat
      /\ d <= Len(order) /\ DOMAIN order = 1 .. Len(order) /\ Len(order) \in Nat
      /\ start \in Nat
  <2>1. start + 1 \in 1 .. Len(wire) /\ wire # <<>> /\ wire \in Seq(Unit)
    BY ReaderType DEF TypeOK
  <2> QED
    BY <2>1, ReaderType, WireType DEF Handed
<1>2. v.at = 1 /\ v.msg = order[d + 1] /\ d + 1 \in 1 .. Len(order)
  <2>1. CASE d = 0
    <3>1. start = 0
      BY <2>1 DEF AtFrame
    <3>2. v.at = 1 /\ v.msg = order[1]
      BY <1>1, <3>1 DEF WireInv, RunInv, FirstIs
    <3>3. Sent # {}
      <4>1. sent[v.msg] > 0
        <5>1. v.at \in 1 .. sent[v.msg]
          BY <1>1, WireType DEF WireInv, UnitsInv
        <5>2. sent[v.msg] \in Nat
          BY <1>1 DEF TypeOK
        <5> QED
          BY <5>1, <5>2
      <4> QED
        BY <1>1, <4>1 DEF WireInv, QueueInv, BegunSent
    <3>4. 1 \in 1 .. Len(order)
      BY <1>1, <3>3 DEF Sent
    <3> QED
      BY <2>1, <3>2, <3>4
  <2>2. CASE d # 0
    <3>1. start > 0 /\ u.msg = order[d] /\ u.at = FrameLen(u.msg)
      BY <2>2 DEF AtFrame
    <3>2. start \in 1 .. Len(wire) - 1 /\ start \in 1 .. Len(wire)
      BY <1>1, <3>1
    <3>3. \/ v.msg = u.msg /\ v.at = u.at + 1
          \/ u.at = FrameLen(u.msg) /\ v.at = 1 /\ Successive(u.msg, v.msg)
      BY <3>2 DEF WireInv, RunInv, NextFollows
    <3>4. ~(v.msg = u.msg /\ v.at = u.at + 1)
      <4>1. sent[v.msg] <= FrameLen(v.msg) /\ sent[v.msg] \in Nat
        BY <1>1 DEF TypeOK
      <4>2. v.at \in 1 .. sent[v.msg]
        BY <1>1, WireType DEF WireInv, UnitsInv
      <4>3. FrameLen(v.msg) \in Nat
        BY <1>1, FrameLens
      <4> QED
        BY <3>1, <4>1, <4>3, <4>2
    <3>5. PICK k \in 1 .. Len(order) - 1 : order[k] = u.msg /\ order[k + 1] = v.msg
      BY <3>3, <3>4 DEF Successive
    <3>6. k \in DOMAIN order /\ d \in DOMAIN order
      BY <1>1, <2>2, <3>5
    <3>7. k = d
      BY <3>1, <3>5, <3>6 DEF WireInv, QueueInv, OrderOnce
    <3> QED
      BY <1>1, <3>3, <3>4, <3>5, <3>7
  <2> QED
    BY <2>1, <2>2
<1>3. ASSUME NEW k \in 1 .. FrameLen(v.msg), start + k <= Len(wire)
      PROVE  wire[start + k] = [msg |-> v.msg, at |-> k]
  <2>1. start + 1 \in DOMAIN wire /\ (start + 1) + k - 1 = start + k
    BY <1>1, <1>3, WireType
  <2> QED
    BY <1>2, <1>3, <2>1 DEF WireInv, RunInv, FramesRun
<1> QED
  BY <1>1, <1>2, <1>3

\* Under ~Torn a header read announces the size of its message, and a body read is
\* that message.
LEMMA AnnouncedIs ==
    ASSUME TypeOK, WireInv, Handed, AtFrame, ~Torn, phase = "header", goal = HeaderLen,
           pos = start + goal
    PROVE  /\ start < Len(wire) /\ wire[start + 1].msg \in Message
           /\ Announced = {Size[wire[start + 1].msg]}
<1> DEFINE m == wire[start + 1].msg
           bytes == SubSeq(wire, start + 1, start + HeaderLen)
<1>1. /\ HeaderLen \in Nat \ {0} /\ start \in Nat /\ start + HeaderLen <= Len(wire)
      /\ wire \in Seq(Unit)
  BY ReaderType, FrameAssumption DEF FrameAssumption, TypeOK
<1>2. start < Len(wire)
  BY <1>1
<1>3. m \in Message
  BY <1>2, NextFrame
<1>4. \A k \in 1 .. FrameLen(m) : start + k <= Len(wire) => wire[start + k] = [msg |-> m, at |-> k]
  BY <1>2, NextFrame
<1>5. bytes = [i \in 1 .. HeaderLen |-> wire[start + i]]
  <2>1. bytes = [i \in 1 .. 1 + (start + HeaderLen) - (start + 1) |-> wire[i + (start + 1) - 1]]
    BY <1>1
  <2>2. /\ 1 + (start + HeaderLen) - (start + 1) = HeaderLen
        /\ \A i \in 1 .. HeaderLen : i + (start + 1) - 1 = start + i
    BY <1>1
  <2> HIDE DEF bytes
  <2> QED
    BY <2>1, <2>2
<1>6. ASSUME NEW p \in Message
      PROVE  SubSeq(Frame(p), 1, HeaderLen) = [i \in 1 .. HeaderLen |-> [msg |-> p, at |-> i]]
  <2>1. FrameLen(p) \in Nat /\ HeaderLen <= FrameLen(p)
    BY <1>1, FrameLens
  <2>2. SubSeq(Frame(p), 1, HeaderLen) = [i \in 1 .. 1 + HeaderLen - 1 |-> Frame(p)[i + 1 - 1]]
    BY <1>1, <2>1 DEF Frame
  <2>3. 1 + HeaderLen - 1 = HeaderLen /\ \A i \in 1 .. HeaderLen : i + 1 - 1 = i
    BY <1>1
  <2>4. \A i \in 1 .. HeaderLen : Frame(p)[i] = [msg |-> p, at |-> i]
    BY <1>1, <2>1 DEF Frame
  <2> QED
    BY <2>2, <2>3, <2>4
<1>7. bytes = SubSeq(Frame(m), 1, HeaderLen)
  <2>1. HeaderLen <= FrameLen(m) /\ FrameLen(m) \in Nat
    BY <1>1, <1>3, FrameLens
  <2>2. \A i \in 1 .. HeaderLen : wire[start + i] = [msg |-> m, at |-> i]
    BY <1>1, <1>4, <2>1
  <2> HIDE DEF bytes, m
  <2> QED
    BY <1>3, <1>5, <1>6, <2>2
<1>8. ASSUME NEW p \in Message, bytes = SubSeq(Frame(p), 1, HeaderLen) PROVE p = m
  <2>1. 1 \in 1 .. HeaderLen
    BY <1>1
  <2> HIDE DEF bytes, m
  <2>2. [msg |-> p, at |-> 1] = [msg |-> m, at |-> 1]
    BY <1>3, <1>6, <1>7, <1>8, <2>1
  <2> QED
    BY <2>2
<1>9. {p \in Message : bytes = SubSeq(Frame(p), 1, HeaderLen)} = {m}
  <2> HIDE DEF bytes, m
  <2> QED
    BY <1>3, <1>7, <1>8
<1> QED
  BY <1>2, <1>3, <1>9 DEF Announced

LEMMA DecodedNext ==
    ASSUME TypeOK, WireInv, Handed, AtFrame, ~Torn, phase = "body", pos = start + goal
    PROVE  Decoded = {wire[start + 1].msg}
<1> DEFINE m == wire[start + 1].msg
           bytes == SubSeq(wire, start + 1, start + goal)
<1>1. /\ start \in Nat /\ goal \in Nat /\ start + goal <= Len(wire) /\ wire \in Seq(Unit)
  BY ReaderType DEF TypeOK
<1>2. start < Len(wire) /\ goal = FrameLen(m)
  BY DEF AtFrame
<1>3. m \in Message
  BY <1>2, NextFrame
<1>4. \A k \in 1 .. FrameLen(m) : start + k <= Len(wire) => wire[start + k] = [msg |-> m, at |-> k]
  BY <1>2, NextFrame
<1>5. bytes = [i \in 1 .. goal |-> wire[start + i]]
  <2>1. bytes = [i \in 1 .. 1 + (start + goal) - (start + 1) |-> wire[i + (start + 1) - 1]]
    BY <1>1
  <2>2. /\ 1 + (start + goal) - (start + 1) = goal
        /\ \A i \in 1 .. goal : i + (start + 1) - 1 = start + i
    BY <1>1
  <2> HIDE DEF bytes
  <2> QED
    BY <2>1, <2>2
<1>6. bytes = Frame(m)
  <2>1. \A i \in 1 .. goal : wire[start + i] = [msg |-> m, at |-> i]
    BY <1>1, <1>2, <1>4
  <2> HIDE DEF bytes, m
  <2> QED
    BY <1>2, <1>5, <2>1 DEF Frame
<1>7. ASSUME NEW p \in Message, bytes = Frame(p) PROVE p = m
  <2> HIDE DEF bytes, m
  <2>1. \A q \in Message : 1 \in 1 .. FrameLen(q)
    BY FrameLens
  <2>2. [msg |-> p, at |-> 1] = [msg |-> m, at |-> 1]
    BY <1>3, <1>6, <1>7, <2>1 DEF Frame
  <2> QED
    BY <2>2
<1>8. {p \in Message : bytes = Frame(p)} = {m}
  <2> HIDE DEF bytes, m
  <2> QED
    BY <1>3, <1>6, <1>7
<1> QED
  BY <1>8 DEF Decoded

\* What the reader's steps need of the sender's side.
ReaderParts == TypeOK /\ WireInv /\ ReaderInv /\ InOrder /\ Handed /\ AtFrame

LEMMA ReadSomeStep ==
    ASSUME ReaderParts, ReadSome
    PROVE  ReaderInv' /\ InOrder' /\ Handed' /\ AtFrame'
<1>1. UNCHANGED <<order, wire, start, phase, goal, delivered>>
  BY DEF ReadSome, senderVars
<1>2. ReaderInv' /\ InOrder'
  BY <1>1 DEF ReaderParts, ReaderInv, InOrder, Before
<1>3. Handed' /\ AtFrame'
  BY <1>1 DEF ReaderParts, Handed, AtFrame, Torn
<1> QED
  BY <1>2, <1>3

\* Where the reader stops, what it handed on stays.
LEMMA EndStep ==
    ASSUME ReaderParts, phase' = "closed", UNCHANGED <<order, wire, start, delivered>>
    PROVE  ReaderInv' /\ InOrder' /\ Handed' /\ AtFrame'
<1>1. ReaderInv' /\ InOrder'
  BY DEF ReaderParts, ReaderInv, InOrder, Before
<1>2. Handed' /\ AtFrame'
  BY DEF ReaderParts, Handed, AtFrame, Torn
<1> QED
  BY <1>1, <1>2

LEMMA OnHeaderStep ==
    ASSUME ReaderParts, OnHeader
    PROVE  ReaderInv' /\ InOrder' /\ Handed' /\ AtFrame'
<1>1. CASE EndReading
  BY <1>1, EndStep DEF OnHeader, EndReading, senderVars
<1>2. CASE \E size \in Announced : size <= MaxPayload /\ phase' = "body"
                                   /\ goal' = HeaderLen + size /\ UNCHANGED <<start, delivered>>
  <2>1. PICK size \in Announced : size <= MaxPayload /\ phase' = "body"
                                  /\ goal' = HeaderLen + size /\ UNCHANGED <<start, delivered>>
    BY <1>2
  <2>2. /\ UNCHANGED <<order, wire>> /\ phase = "header" /\ goal = HeaderLen /\ pos = start + goal
    BY DEF OnHeader, senderVars, ReaderParts, ReaderInv
  <2>3. ReaderInv' /\ InOrder'
    BY <2>1, <2>2 DEF ReaderParts, ReaderInv, InOrder, Before
  <2>4. Handed'
    BY <2>1, <2>2 DEF ReaderParts, Handed, Torn
  <2>5. AtFrame'
    <3>1. ASSUME ~Torn
          PROVE  /\ start < Len(wire) /\ goal' = FrameLen(wire[start + 1].msg)
                 /\ Size[wire[start + 1].msg] <= MaxPayload
      BY <2>1, <2>2, <3>1, AnnouncedIs DEF ReaderParts, FrameLen
    <3> QED
      BY <2>1, <2>2, <3>1 DEF ReaderParts, AtFrame, Torn
  <2> QED
    BY <2>3, <2>4, <2>5
<1> QED
  BY <1>1, <1>2 DEF OnHeader

LEMMA OnBodyStep ==
    ASSUME ReaderParts, OnBody
    PROVE  ReaderInv' /\ InOrder' /\ Handed' /\ AtFrame'
<1>1. CASE EndReading
  BY <1>1, EndStep DEF OnBody, EndReading, senderVars
<1>2. ASSUME NEW m \in Decoded, delivered' = Append(delivered, m), start' = pos,
             phase' = "header", goal' = HeaderLen
      PROVE  ReaderInv' /\ InOrder' /\ Handed' /\ AtFrame'
  <2>1. /\ UNCHANGED <<order, wire, pos>> /\ phase = "body" /\ pos = start + goal
        /\ TypeOK /\ WireInv /\ Handed /\ AtFrame
    BY DEF OnBody, senderVars, ReaderParts
  <2>2. /\ Len(delivered) \in Nat /\ DOMAIN delivered = 1 .. Len(delivered)
        /\ DOMAIN delivered' = 1 .. Len(delivered) + 1 /\ Len(delivered') = Len(delivered) + 1
        /\ delivered'[Len(delivered) + 1] = m
        /\ \A i \in 1 .. Len(delivered) : delivered'[i] = delivered[i]
        /\ start \in Nat /\ pos \in Nat /\ start <= pos /\ pos <= Len(wire)
    BY <1>2, <2>1, ReaderType
  <2>3. m # Corrupt => /\ m \in Message /\ goal = FrameLen(m) /\ start + 1 \in 1 .. Len(wire)
                       /\ wire[start + 1] = [msg |-> m, at |-> 1]
                       /\ wire[pos] = [msg |-> m, at |-> FrameLen(m)]
    BY <2>1, DecodedIs
  <2>4. \A i \in 1 .. Len(delivered) + 1 : i \in 1 .. Len(delivered) \/ i = Len(delivered) + 1
    BY <2>2
  <2>5. m # Corrupt => start + 1 \in 1 .. pos
    <3> SUFFICES ASSUME m # Corrupt PROVE start + 1 \in 1 .. pos
      OBVIOUS
    <3>1. goal \in Nat \ {0}
      BY <2>3, FrameLens
    <3> QED
      BY <2>1, <2>2, <3>1
  <2>6. ReaderInv'
    <3>1. ASSUME NEW i \in 1 .. Len(delivered) + 1, delivered'[i] # Corrupt
          PROVE  \E p \in 1 .. pos : wire[p] = [msg |-> delivered'[i], at |-> 1]
      <4>1. CASE i \in 1 .. Len(delivered)
        <5>1. PICK p \in 1 .. start : wire[p] = [msg |-> delivered[i], at |-> 1]
          BY <2>2, <3>1, <4>1 DEF ReaderParts, ReaderInv
        <5>2. p \in 1 .. pos
          BY <2>2
        <5> QED
          BY <2>2, <4>1, <5>1, <5>2
      <4>2. CASE i = Len(delivered) + 1
        BY <2>2, <2>3, <2>5, <3>1, <4>2
      <4> QED
        BY <2>4, <4>1, <4>2
    <3> QED
      BY <1>2, <2>1, <2>2, <3>1 DEF ReaderInv
  <2>7. InOrder'
    <3>1. ASSUME NEW i \in 1 .. Len(delivered) + 1, NEW j \in 1 .. Len(delivered) + 1, i < j,
                 delivered'[i] # Corrupt, delivered'[j] # Corrupt
          PROVE  Before(delivered'[i], delivered'[j])
      <4>1. i \in 1 .. Len(delivered)
        BY <2>2, <3>1
      <4>2. CASE j \in 1 .. Len(delivered)
        BY <2>2, <3>1, <4>1, <4>2 DEF ReaderParts, InOrder
      <4>3. CASE j = Len(delivered) + 1
        <5>1. PICK p \in 1 .. start : wire[p] = [msg |-> delivered[i], at |-> 1]
          BY <2>2, <3>1, <4>1 DEF ReaderParts, ReaderInv
        <5>2. m # Corrupt /\ wire[start + 1] = [msg |-> m, at |-> 1]
          BY <2>2, <2>3, <3>1, <4>3
        <5>3. /\ p \in DOMAIN wire /\ start + 1 \in DOMAIN wire /\ p < start + 1
          BY <2>1, <2>2, <2>3, <5>2, WireType
        <5>4. Before(delivered[i], m)
          BY <5>1, <5>2, <5>3 DEF ReaderParts, WireInv, BeginInOrder
        <5> QED
          BY <2>2, <4>1, <4>3, <5>4
      <4> QED
        BY <2>4, <4>2, <4>3
    <3> QED
      BY <2>1, <2>2, <3>1 DEF InOrder, Before
  <2>8. ASSUME ~Torn
        PROVE  /\ m \in Message /\ m = order[Len(delivered) + 1] /\ Size[m] <= MaxPayload
               /\ Len(delivered) + 1 \in DOMAIN order
    <3>1. start < Len(wire) /\ Size[wire[start + 1].msg] <= MaxPayload
      BY <2>1, <2>8 DEF AtFrame
    <3>2. m = wire[start + 1].msg
      BY <2>1, <2>8, DecodedNext
    <3> QED
      BY <2>1, <2>8, <3>1, <3>2, NextFrame
  <2>9. Handed'
    <3> SUFFICES ASSUME ~Torn PROVE Handed'
      BY <2>1 DEF Handed, Torn
    <3>1. Len(delivered) + 1 <= Len(order)
      BY <2>1, <2>8, ReaderType
    <3>2. \A i \in 1 .. Len(delivered) :
             delivered[i] = order[i] /\ Size[order[i]] <= MaxPayload
      BY <2>1 DEF Handed
    <3> QED
      BY <2>1, <2>2, <2>4, <2>8, <3>1, <3>2 DEF Handed
  <2>10. AtFrame'
    <3> SUFFICES ASSUME ~Torn PROVE AtFrame'
      BY <2>1 DEF AtFrame, Torn
    <3>1. m # Corrupt
      BY <2>8, FrameAssumption DEF FrameAssumption
    <3>2. start' > 0 /\ wire[start'].msg = m /\ wire[start'].at = FrameLen(m)
      BY <1>2, <2>2, <2>3, <2>5, <3>1
    <3> QED
      BY <1>2, <2>1, <2>2, <2>8, <3>2 DEF AtFrame
  <2> QED
    BY <2>6, <2>7, <2>9, <2>10
<1> QED
  BY <1>1, <1>2 DEF OnBody

-----------------------------------------------------------------------------
(* The types.                                                              *)

LEMMA TypeInit == Init => TypeOK
<1> SUFFICES ASSUME Init PROVE TypeOK
  OBVIOUS
<1>1. order \in Seq(Message) /\ queue \in Seq(Message) /\ pending \in Seq(Message)
      /\ wire \in Seq(Unit) /\ delivered \in Seq(Message \cup {Corrupt}) /\ Len(wire) = 0
  BY DEF Init
<1>2. sent \in [Message -> Nat] /\ \A m \in Message : sent[m] <= FrameLen(m)
  BY FrameLens DEF Init
<1>3. pos \in 0 .. Len(wire) /\ start \in 0 .. pos /\ goal \in Nat
  BY <1>1, FrameAssumption DEF Init, FrameAssumption
<1> QED
  BY <1>1, <1>2, <1>3 DEF Init, TypeOK

LEMMA SendType ==
    ASSUME TypeOK, NEW m \in Message, Send(m)
    PROVE  TypeOK'
<1>1. order' \in Seq(Message) /\ queue' \in Seq(Message) /\ pending' \in Seq(Message)
  BY DEF Send, TypeOK
<1>2. crossed' \in BOOLEAN
  BY DEF Send, TypeOK
<1> QED
  BY <1>1, <1>2 DEF Send, TypeOK, readerVars

LEMMA WriteType ==
    ASSUME TypeOK, Write
    PROVE  TypeOK'
<1>1. UNCHANGED <<order, readerVars, open>>
  BY DEF Write, Issue, Writable, FailWrites
<1>2. queue' \in Seq(Message) /\ pending' \in Seq(Message)
  <2>1. queue \in Seq(Message) /\ pending \in Seq(Message)
    BY DEF TypeOK
  <2>2. CASE Issue
    <3>1. Head(queue) \in Message /\ Tail(queue) \in Seq(Message)
      BY <2>1, <2>2 DEF Issue
    <3>2. pending' = pending \/ pending' = Append(pending, Head(queue))
      BY <2>2 DEF Issue
    <3>3. queue' = Tail(queue) \/ queue' = Append(Tail(queue), Head(queue))
      BY <2>2 DEF Issue, WriteSome
    <3>4. /\ Append(pending, Head(queue)) \in Seq(Message)
          /\ Append(Tail(queue), Head(queue)) \in Seq(Message)
      BY <2>1, <3>1
    <3> QED
      BY <2>1, <3>1, <3>2, <3>3, <3>4
  <2>3. CASE Writable
    <3>1. Head(pending) \in Message /\ pending' \in Seq(Message)
      BY <2>1, <2>3 DEF Writable
    <3>2. queue' \in {queue, Append(queue, Head(pending))}
      BY <2>3 DEF Writable, WriteSome
    <3> QED
      BY <2>1, <3>1, <3>2
  <2>4. CASE FailWrites
    BY <2>4 DEF FailWrites
  <2> QED
    BY <2>2, <2>3, <2>4 DEF Write
<1>3. /\ sent' \in [Message -> Nat] /\ \A m \in Message : sent'[m] <= FrameLen(m)
      /\ wire' \in Seq(Unit) /\ Len(wire') >= Len(wire) /\ crossed' \in BOOLEAN
  <2>1. CASE \E m, n : Writes(m, n)
    <3>1. PICK m, n : Writes(m, n)
      BY <2>1
    <3>2. sent \in [Message -> Nat] /\ \A p \in Message : sent[p] <= FrameLen(p)
      BY DEF TypeOK
    <3>3. /\ m \in Message /\ n \in Nat /\ sent[m] + n <= FrameLen(m)
          /\ sent' = [sent EXCEPT ![m] = sent[m] + n]
      BY <3>1 DEF Writes
    <3>4. sent' \in [Message -> Nat] /\ \A p \in Message : sent'[p] <= FrameLen(p)
      BY <3>2, <3>3
    <3>5. wire' \in Seq(Unit) /\ Len(wire') >= Len(wire)
      BY <3>1, WireType DEF Writes
    <3>6. crossed' \in BOOLEAN
      BY <3>1 DEF Writes, TypeOK
    <3> QED
      BY <3>4, <3>5, <3>6
  <2>2. CASE UNCHANGED <<sent, crossed, wire>>
    BY <2>2, WireType DEF TypeOK
  <2> QED
    BY <2>1, <2>2, SenderSteps
<1>4. pos' \in 0 .. Len(wire') /\ start' \in 0 .. pos'
  BY <1>1, <1>3, ReaderType DEF readerVars
<1> QED
  BY <1>1, <1>2, <1>3, <1>4 DEF TypeOK, readerVars

LEMMA AnnouncedType == TypeOK => Announced \subseteq Nat
BY FrameAssumption DEF FrameAssumption, Announced

LEMMA ReadType ==
    ASSUME TypeOK, Read
    PROVE  TypeOK'
<1>1. UNCHANGED senderVars
  BY DEF Read, ReadSome, OnHeader, OnBody
<1>2. /\ pos' \in 0 .. Len(wire) /\ start' \in 0 .. pos' /\ goal' \in Nat
      /\ phase' \in {"header", "body", "closed"}
      /\ delivered' \in Seq(Message \cup {Corrupt}) /\ open' \in BOOLEAN
  <2>1. CASE ReadSome
    <3>1. PICK n \in 1 .. Least(start + goal, Len(wire)) - pos : pos' = pos + n
      BY <2>1 DEF ReadSome
    <3>2. pos' \in 0 .. Len(wire) /\ start \in 0 .. pos'
      BY <3>1, ReaderType DEF Least
    <3> QED
      BY <2>1, <3>2 DEF ReadSome, TypeOK
  <2>2. CASE OnHeader
    <3>1. pos' = pos /\ start' = start /\ delivered' = delivered
      BY <2>2 DEF OnHeader, EndReading
    <3>2. goal' \in Nat
      BY <2>2, AnnouncedType, FrameAssumption DEF OnHeader, EndReading, FrameAssumption, TypeOK
    <3>3. phase' \in {"header", "body", "closed"} /\ open' \in BOOLEAN
      BY <2>2 DEF OnHeader, EndReading, TypeOK
    <3> QED
      BY <3>1, <3>2, <3>3 DEF TypeOK
  <2>3. CASE OnBody
    <3>1. CASE EndReading
      BY <2>3, <3>1 DEF OnBody, EndReading, TypeOK
    <3>2. ASSUME NEW m \in Decoded, delivered' = Append(delivered, m), start' = pos,
                 phase' = "header", goal' = HeaderLen, UNCHANGED open
          PROVE  /\ start' \in 0 .. pos /\ goal' \in Nat
                 /\ delivered' \in Seq(Message \cup {Corrupt})
      <4>1. m \in Message \cup {Corrupt}
        BY DEF Decoded
      <4>2. HeaderLen \in Nat
        BY FrameAssumption DEF FrameAssumption
      <4> QED
        BY <3>2, <4>1, <4>2, ReaderType
    <3> QED
      BY <2>3, <3>1, <3>2 DEF OnBody, TypeOK
  <2> QED
    BY <2>1, <2>2, <2>3 DEF Read
<1> QED
  BY <1>1, <1>2 DEF TypeOK, senderVars

-----------------------------------------------------------------------------
(* The whole.                                                              *)

Wired == Counted /\ BytesOnce /\ WireInv
Reading == ReaderInv /\ InOrder /\ Handed /\ AtFrame
IInv == Wired /\ Reading

LEMMA InitHolds == Init => TypeOK /\ IInv
<1> SUFFICES ASSUME Init PROVE IInv
  BY TypeInit
<1>1. /\ wire = <<>> /\ order = <<>> /\ delivered = <<>> /\ crossed = FALSE /\ start = 0
      /\ phase = "header" /\ goal = HeaderLen /\ \A m \in Message : sent[m] = 0
  BY DEF Init
<1>2. ~Torn
  BY <1>1 DEF Torn
<1>3. \A m \in Message : ~Cut(m)
  BY <1>1 DEF Cut
<1>4. BeginInOrder /\ CutInv /\ TornInv
  BY <1>1, <1>2, <1>3 DEF BeginInOrder, CutInv, TornInv
<1>5. RunInv
  BY <1>1, <1>3 DEF RunInv, CutAtEnd, FirstIs, LastIs, FramesRun, NextFollows
<1>6. Wired
  BY <1>4, <1>5, QueueInit, BytesInit DEF Wired, WireInv
<1>7. ReaderInv /\ InOrder /\ Handed /\ AtFrame
  BY <1>1 DEF ReaderInv, InOrder, Handed, AtFrame
<1> QED
  BY <1>6, <1>7 DEF IInv, Reading

\* A longer list of messages keeps the order of those before.
LEMMA WriteHolds ==
    ASSUME TypeOK, IInv, Write
    PROVE  IInv'
<1>1. TypeOK /\ Counted /\ BytesOnce /\ WireInv /\ ReaderInv /\ InOrder /\ Handed /\ AtFrame
  BY DEF IInv, Wired, Reading
<1>2. UNCHANGED <<order, readerVars>>
  BY DEF Write, Issue, Writable, FailWrites
<1>3. Len(order') = Len(order) /\ Len(order) \in Nat /\ Len(wire) \in Nat
      /\ \A i \in 1 .. Len(order) : order'[i] = order[i]
  BY <1>2, ReaderType
<1>4. \A p, q : Before(p, q) => Before(p, q)'
  BY <1>2 DEF Before
<1>5. CASE \E m, n : Writes(m, n)
  <2>1. PICK m, n : Writes(m, n)
    BY <1>5
  <2>2. Wired'
    BY <1>1, <2>1, WireWrite DEF Wired
  <2>3. /\ Len(wire') >= Len(wire) /\ Len(wire') \in Nat
        /\ \A i \in 1 .. Len(wire) : wire'[i] = wire[i]
    BY <2>1, WireAfterWrite
  <2>4. Torn => Torn'
    BY <1>1, <2>1, TornByWrite DEF WireInv
  <2>5. ReaderInv' /\ InOrder' /\ Handed' /\ AtFrame'
    BY <1>1, <1>2, <1>3, <1>4, <2>3, <2>4, ReaderAfterSend
  <2> QED
    BY <2>2, <2>5 DEF IInv, Reading
<1>6. CASE /\ Due' = Due \/ (~open /\ Due' = <<>>)
           /\ UNCHANGED <<order, sent, crossed, wire, open>>
  <2>1. Wired'
    BY <1>1, <1>6, WireQuiet DEF Wired
  <2>2. ReaderInv' /\ InOrder' /\ Handed' /\ AtFrame'
    BY <1>1, <1>2, <1>6 DEF readerVars, ReaderInv, InOrder, Before, Handed, AtFrame, Torn
  <2> QED
    BY <2>1, <2>2 DEF IInv, Reading
<1> QED
  BY <1>5, <1>6, SenderSteps

LEMMA SendHolds ==
    ASSUME TypeOK, IInv, NEW m \in Message, Send(m)
    PROVE  IInv'
<1>1. TypeOK /\ Counted /\ BytesOnce /\ WireInv /\ ReaderInv /\ InOrder /\ Handed /\ AtFrame
  BY DEF IInv, Wired, Reading
<1>2. Wired'
  BY <1>1, WireSend DEF Wired
<1>3. /\ UNCHANGED readerVars /\ wire' = wire /\ order' = Append(order, m)
      /\ order \in Seq(Message) /\ Len(wire) \in Nat
  BY ReaderType DEF Send
<1>4. \A p, q : Before(p, q) => Before(p, q)'
  BY <1>3 DEF Before
<1>5. /\ Len(order') >= Len(order) /\ Len(order') \in Nat
      /\ \A i \in 1 .. Len(order) : order'[i] = order[i]
  BY <1>3
<1>6. Torn => Torn'
  BY <1>3 DEF Torn
<1>7. ReaderInv' /\ InOrder' /\ Handed' /\ AtFrame'
  BY <1>1, <1>3, <1>4, <1>5, <1>6, ReaderAfterSend
<1> QED
  BY <1>2, <1>7 DEF IInv, Reading

LEMMA ReadHolds ==
    ASSUME TypeOK, IInv, Read \/ Lose
    PROVE  IInv'
<1>1. TypeOK /\ Counted /\ BytesOnce /\ WireInv /\ ReaderParts
  BY DEF IInv, Wired, Reading, ReaderParts
<1>2. UNCHANGED senderVars /\ (open' => open)
  BY DEF Read, ReadSome, OnHeader, OnBody, EndReading, Lose
<1>3. UNCHANGED <<order, sent, crossed, wire>> /\ Due' = Due
  BY <1>2 DEF senderVars, Due
<1>4. Wired'
  BY <1>1, <1>2, <1>3, WireQuiet DEF Wired
<1>5. ReaderInv' /\ InOrder' /\ Handed' /\ AtFrame'
  <2>1. CASE Lose
    BY <1>1, <1>3, <2>1, EndStep DEF Lose
  <2> QED
    BY <1>1, <2>1, ReadSomeStep, OnHeaderStep, OnBodyStep DEF Read
<1> QED
  BY <1>4, <1>5 DEF IInv, Reading

LEMMA StepHolds == TypeOK /\ IInv /\ [Next]_vars => TypeOK' /\ IInv'
<1> SUFFICES ASSUME TypeOK, IInv, [Next]_vars PROVE TypeOK' /\ IInv'
  OBVIOUS
<1>1. CASE \E m \in Message : Send(m)
  BY <1>1, SendType, SendHolds
<1>2. CASE Write
  BY <1>2, WriteType, WriteHolds
<1>3. CASE Read
  BY <1>3, ReadType, ReadHolds
<1>4. CASE Lose
  <2>1. TypeOK'
    BY <1>4 DEF Lose, TypeOK, senderVars
  <2> QED
    BY <1>4, <2>1, ReadHolds
<1>5. CASE UNCHANGED vars
  <2>1. TypeOK' /\ UNCHANGED <<order, sent, crossed, wire, open>> /\ Due' = Due
    BY <1>5 DEF TypeOK, vars, senderVars, readerVars, Due
  <2>2. Wired'
    BY <2>1, WireQuiet DEF IInv, Wired
  <2>3. Reading'
    BY <1>5 DEF IInv, Reading, vars, senderVars, readerVars, ReaderInv, InOrder, Before, Handed,
                AtFrame, Torn
  <2> QED
    BY <2>1, <2>2, <2>3 DEF IInv
<1> QED
  BY <1>1, <1>2, <1>3, <1>4, <1>5 DEF Next

\* Every behaviour of the two ends keeps the types and the invariant.
THEOREM FrameInvariant == Spec => [](TypeOK /\ IInv)
<1>1. Init => TypeOK /\ IInv
  BY InitHolds
<1>2. TypeOK /\ IInv /\ [Next]_vars => (TypeOK /\ IInv)'
  BY StepHolds
<1> QED
  BY <1>1, <1>2, PTL DEF Spec

\* write(): however many async_write's overlap, however the socket cuts them and
\* whatever waits for it, the units of a message go out once each and in order, frames
\* begin in the order of the write() calls, and every frame is whole unless a message
\* that the socket took in pieces met another write().
THEOREM WritesKeepOrder == Spec => []SentInOrder
<1>1. TypeOK /\ IInv => SentInOrder
  <2> SUFFICES ASSUME TypeOK, IInv PROVE WholeUnlessCrossed
    BY DEF IInv, Wired, WireInv, SentInOrder
  <2>1. TornInv /\ NextFollows
    BY DEF IInv, Wired, WireInv, RunInv
  <2> QED
    BY <2>1 DEF TornInv, NextFollows, WholeUnlessCrossed, Successive
<1> QED
  BY <1>1, FrameInvariant, PTL

\* readHeader() and readBody(): whatever was torn on the wire and however the network
\* cuts it, the handler is given the messages in the order of the write() calls, none
\* twice; and where nothing was torn, exactly the first ones sent, all of them short
\* enough for the reader.
THEOREM ReaderKeepsOrder == Spec => []DeliveredInOrder
<1>1. TypeOK /\ IInv => DeliveredInOrder
  <2> SUFFICES ASSUME TypeOK, IInv, ~Torn
               PROVE  /\ delivered = SubSeq(order, 1, Len(delivered))
                      /\ \A i \in DOMAIN delivered : Size[order[i]] <= MaxPayload
    BY DEF IInv, Reading, DeliveredInOrder, Prefix
  <2>1. /\ Len(delivered) <= Len(order)
        /\ \A i \in 1 .. Len(delivered) :
              delivered[i] = order[i] /\ Size[order[i]] <= MaxPayload
    BY DEF IInv, Reading, Handed
  <2>2. /\ order \in Seq(Message) /\ delivered \in Seq(Message \cup {Corrupt})
        /\ Len(delivered) \in Nat /\ DOMAIN delivered = 1 .. Len(delivered)
    BY ReaderType
  <2>3. SubSeq(order, 1, Len(delivered)) =
           [i \in 1 .. 1 + Len(delivered) - 1 |-> order[i + 1 - 1]]
    BY <2>1, <2>2
  <2>4. 1 + Len(delivered) - 1 = Len(delivered) /\ \A i \in 1 .. Len(delivered) : i + 1 - 1 = i
    BY <2>2
  <2>5. delivered = [i \in 1 .. Len(delivered) |-> delivered[i]]
    BY <2>2
  <2> QED
    BY <2>1, <2>2, <2>3, <2>4, <2>5
<1> QED
  BY <1>1, FrameInvariant, PTL

=============================================================================
