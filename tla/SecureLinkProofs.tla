--------------------------- MODULE SecureLinkProofs ---------------------------
(***************************************************************************)
(* Proofs about SecureLink for every number of clients, messages and       *)
(* kicks: the port's io thread is held up in shutdown() only by a peer     *)
(* that sent what does not decode, and a session is shut down by one       *)
(* thread and once.                                                        *)
(***************************************************************************)
EXTENDS SecureLink, TLAPS

-----------------------------------------------------------------------------
(* The invariants.                                                         *)

Has(queue, p) == \E i \in DOMAIN queue : queue[i] = p

\* What a client says to get through the handshake, and no session that is open may
\* still find on the wire.
Flight == {"hello", "finished", "alert"}

\* Nothing travels before the client dials.
Early == {"idle", "resolving", "dialing"}
Undialled(c) ==
    cli[c] \in Early =>
        srv[c] = "none" /\ up[c] = <<>> /\ down[c] = <<>>

\* The server answers the first flight, and the client sends its second when that
\* answer comes: one flight is on the way up at a time.
HelloOnce(c) == Has(up[c], "hello") => ~Has(down[c], "hello")
OneFlight(c) ==
    \A i, j \in DOMAIN up[c] : up[c][i] \in Flight /\ up[c][j] \in Flight => i = j
Finishing(c) == Has(up[c], "finished") \/ Has(up[c], "alert") => cli[c] # "handshake"
Opened(c) ==
    srv[c] \in {"open", "deaf"} =>
        cli[c] # "handshake" /\ \A i \in DOMAIN up[c] : up[c][i] \notin Flight

BadSaid(c) == Has(up[c], "bad") => c \in saidBad

LinkInv(c) ==
    Undialled(c) /\ HelloOnce(c) /\ OneFlight(c) /\ Finishing(c) /\ Opened(c) /\ BadSaid(c)

\* A session is registered until its close() is through, and from the moment close()
\* is called on an open one some thread is in its shutdown().
CloseInv ==
    /\ \A c \in Client :
          /\ c \in registered <=> srv[c] \in {"handshake", "open", "deaf"}
          /\ srv[c] \in {"none", "backlog", "handshake"} => c \notin mIsClosed
          /\ srv[c] \in {"deaf", "closed"} => c \in mIsClosed
          /\ c \in mIsClosed /\ srv[c] # "closed" => \E t \in Thread : at[t] = c
    /\ \A t \in Thread :
          at[t] # Nobody => at[t] \in mIsClosed /\ srv[at[t]] \in {"open", "deaf"}
    /\ at["io"] = at["gui"] => at["io"] = Nobody

IInv == (\A c \in Client : LinkInv(c)) /\ CloseInv /\ PortWaitsOnlyForBad

-----------------------------------------------------------------------------
(* Queues and their types.                                                 *)

LEMMA HasAppended ==
    ASSUME NEW q \in Seq(Packet), NEW p \in Seq(Packet), NEW x
    PROVE  q \o p \in Seq(Packet) /\ (Has(q \o p, x) <=> Has(q, x) \/ Has(p, x))
<1>1. /\ q \o p \in Seq(Packet) /\ DOMAIN q = 1 .. Len(q) /\ DOMAIN p = 1 .. Len(p)
      /\ Len(q) \in Nat /\ Len(p) \in Nat /\ DOMAIN (q \o p) = 1 .. Len(q) + Len(p)
      /\ \A i \in 1 .. Len(q) + Len(p) :
            (q \o p)[i] = IF i <= Len(q) THEN q[i] ELSE p[i - Len(q)]
  OBVIOUS
<1>2. ASSUME Has(q \o p, x) PROVE Has(q, x) \/ Has(p, x)
  <2>1. PICK i \in 1 .. Len(q) + Len(p) : (q \o p)[i] = x
    BY <1>1, <1>2 DEF Has
  <2>2. i <= Len(q) => i \in DOMAIN q /\ q[i] = x
    BY <1>1, <2>1
  <2>3. ~(i <= Len(q)) => i - Len(q) \in DOMAIN p /\ p[i - Len(q)] = x
    BY <1>1, <2>1
  <2> QED
    BY <2>2, <2>3 DEF Has
<1>3. ASSUME Has(q, x) PROVE Has(q \o p, x)
  BY <1>1, <1>3 DEF Has
<1>4. ASSUME Has(p, x) PROVE Has(q \o p, x)
  <2>1. PICK i \in 1 .. Len(p) : p[i] = x
    BY <1>1, <1>4 DEF Has
  <2>2. Len(q) + i \in 1 .. Len(q) + Len(p) /\ ~(Len(q) + i <= Len(q)) /\ Len(q) + i - Len(q) = i
    BY <1>1
  <2> QED
    BY <1>1, <2>1, <2>2 DEF Has
<1> QED
  BY <1>1, <1>2, <1>3, <1>4

LEMMA HasInTail ==
    ASSUME NEW q \in Seq(Packet), q # <<>>
    PROVE  /\ Tail(q) \in Seq(Packet) /\ Head(q) \in Packet /\ Has(q, Head(q))
           /\ \A x : Has(Tail(q), x) => Has(q, x)
           /\ \A i \in DOMAIN Tail(q) :
                 i \in Nat /\ i # 0 /\ i + 1 \in DOMAIN q /\ Tail(q)[i] = q[i + 1]
           /\ 1 \in DOMAIN q /\ Head(q) = q[1]
<1>1. /\ Tail(q) \in Seq(Packet) /\ Head(q) \in Packet /\ 1 \in DOMAIN q /\ Head(q) = q[1]
      /\ \A i \in DOMAIN Tail(q) :
            i \in Nat /\ i # 0 /\ i + 1 \in DOMAIN q /\ Tail(q)[i] = q[i + 1]
  OBVIOUS
<1> QED
  BY <1>1 DEF Has

LEMMA HasOne ==
    \A x : /\ Has(<<x>>, x) /\ \A y : Has(<<x>>, y) => y = x
           /\ ~Has(<<>>, x)
BY DEF Has

LEMMA HasTwo ==
    \A x, y, z : Has(<<x, y>>, z) => z = x \/ z = y
BY DEF Has

LEMMA PutIs ==
    ASSUME NEW w \in [Client -> Seq(Packet)], NEW c \in Client, NEW p \in Seq(Packet)
    PROVE  /\ Put(w, c, p) \in [Client -> Seq(Packet)]
           /\ Put(w, c, p)[c] = w[c] \o p
           /\ \A d \in Client \ {c} : Put(w, c, p)[d] = w[d]
<1>1. w[c] \o p \in Seq(Packet)
  BY HasAppended
<1> QED
  BY <1>1 DEF Put

LEMMA PutOne ==
    ASSUME NEW w \in [Client -> Seq(Packet)], NEW c \in Client, NEW x \in Packet
    PROVE  /\ Put(w, c, <<x>>) \in [Client -> Seq(Packet)]
           /\ Put(w, c, <<x>>)[c] = w[c] \o <<x>>
           /\ \A d \in Client \ {c} : Put(w, c, <<x>>)[d] = w[d]
           /\ \A y : Has(w[c] \o <<x>>, y) => Has(w[c], y) \/ y = x
<1> DEFINE p == <<x>>
<1>1. p \in Seq(Packet)
  OBVIOUS
<1>2. \A y : Has(p, y) => y = x
  BY HasOne
<1> HIDE DEF p
<1>3. /\ Put(w, c, p) \in [Client -> Seq(Packet)]
      /\ Put(w, c, p)[c] = w[c] \o p
      /\ \A d \in Client \ {c} : Put(w, c, p)[d] = w[d]
  BY <1>1, PutIs
<1>4. \A y : Has(w[c] \o p, y) => Has(w[c], y) \/ y = x
  BY <1>1, <1>2, HasAppended
<1> QED
  BY <1>3, <1>4 DEF p

LEMMA TookIs ==
    ASSUME NEW w \in [Client -> Seq(Packet)], NEW c \in Client, w[c] # <<>>
    PROVE  /\ Took(w, c) \in [Client -> Seq(Packet)]
           /\ Took(w, c)[c] = Tail(w[c])
           /\ \A d \in Client \ {c} : Took(w, c)[d] = w[d]
<1>1. Tail(w[c]) \in Seq(Packet)
  BY HasInTail
<1> QED
  BY <1>1 DEF Took

-----------------------------------------------------------------------------
(* What a step of the server, or a client's step to another client, does.  *)

\* The server has taken the first packet of d.
Taken(d) == up[d] # <<>> /\ up'[d] = Tail(up[d])

Moved(d) ==
    /\ cli'[d] = cli[d]
    /\ srv[d] = "none" => srv'[d] = "none" /\ up'[d] = up[d] /\ down'[d] = down[d]
    /\ up'[d] = up[d] \/ Taken(d)
    /\ Has(down'[d], "hello") => Has(down[d], "hello") \/ (Taken(d) /\ Head(up[d]) = "hello")
    /\ srv'[d] \in {"open", "deaf"} =>
          srv[d] \in {"open", "deaf"} \/ (Taken(d) /\ Head(up[d]) = "finished")

LEMMA Alone ==
    ASSUME TypeOK, NEW d \in Client, OneFlight(d), up[d] # <<>>, Head(up[d]) \in Flight
    PROVE  \A i \in DOMAIN Tail(up[d]) : Tail(up[d])[i] \notin Flight
<1>1. up[d] \in Seq(Packet)
  BY DEF TypeOK
<1>2. /\ 1 \in DOMAIN up[d] /\ Head(up[d]) = up[d][1]
      /\ \A i \in DOMAIN Tail(up[d]) :
            i \in Nat /\ i # 0 /\ i + 1 \in DOMAIN up[d] /\ Tail(up[d])[i] = up[d][i + 1]
  BY <1>1, HasInTail
<1> SUFFICES ASSUME NEW i \in DOMAIN Tail(up[d]), Tail(up[d])[i] \in Flight PROVE FALSE
  OBVIOUS
<1>3. i + 1 = 1
  BY <1>2 DEF OneFlight
<1> QED
  BY <1>2, <1>3

LEMMA MovedHolds ==
    ASSUME TypeOK, NEW d \in Client, LinkInv(d), Moved(d), saidBad \subseteq saidBad'
    PROVE  LinkInv(d)'
<1>1. up[d] \in Seq(Packet)
  BY DEF TypeOK
<1>2. \A x : Has(up'[d], x) => Has(up[d], x)
  BY <1>1, HasInTail DEF Moved, Taken
<1>3. Undialled(d)'
  BY DEF LinkInv, Undialled, Moved
<1>4. BadSaid(d)'
  BY <1>2 DEF LinkInv, BadSaid
<1>5. Finishing(d)'
  BY <1>2 DEF LinkInv, Finishing, Moved
<1>6. OneFlight(d)'
  <2>1. CASE up'[d] = up[d]
    BY <2>1 DEF LinkInv, OneFlight
  <2>2. CASE Taken(d)
    <3>1. \A i \in DOMAIN Tail(up[d]) :
             i \in Nat /\ i + 1 \in DOMAIN up[d] /\ Tail(up[d])[i] = up[d][i + 1]
      BY <1>1, <2>2, HasInTail DEF Taken
    <3>2. \A i, j \in DOMAIN Tail(up[d]) :
             Tail(up[d])[i] \in Flight /\ Tail(up[d])[j] \in Flight => i + 1 = j + 1
      BY <3>1 DEF LinkInv, OneFlight
    <3>3. \A i, j \in Nat : i + 1 = j + 1 => i = j
      OBVIOUS
    <3> QED
      BY <2>2, <3>1, <3>2, <3>3 DEF Taken, OneFlight
  <2> QED
    BY <2>1, <2>2 DEF Moved
<1>7. HelloOnce(d)'
  <2> SUFFICES ASSUME Has(up'[d], "hello"), Has(down'[d], "hello") PROVE FALSE
    BY DEF HelloOnce
  <2>1. Taken(d) /\ Head(up[d]) = "hello"
    BY <1>2 DEF LinkInv, HelloOnce, Moved
  <2>2. \A i \in DOMAIN Tail(up[d]) : Tail(up[d])[i] \notin Flight
    BY <2>1, Alone DEF Taken, LinkInv, Flight
  <2> QED
    BY <2>1, <2>2 DEF Taken, Has, Flight
<1>8. Opened(d)'
  <2> SUFFICES ASSUME srv'[d] \in {"open", "deaf"}
               PROVE  cli[d] # "handshake" /\ \A i \in DOMAIN up'[d] : up'[d][i] \notin Flight
    BY DEF Opened, Moved
  <2>1. CASE srv[d] \in {"open", "deaf"}
    BY <1>2, <2>1 DEF LinkInv, Opened, Has
  <2>2. CASE Taken(d) /\ Head(up[d]) = "finished"
    <3>1. \A i \in DOMAIN Tail(up[d]) : Tail(up[d])[i] \notin Flight
      BY <2>2, Alone DEF Taken, LinkInv, Flight
    <3>2. Has(up[d], "finished")
      BY <1>1, <2>2, HasInTail DEF Taken
    <3> QED
      BY <2>2, <3>1, <3>2 DEF Taken, LinkInv, Finishing
  <2> QED
    BY <2>1, <2>2 DEF Moved
<1> QED
  BY <1>3, <1>4, <1>5, <1>6, <1>7, <1>8 DEF LinkInv

\* A client says something after its handshake, or nothing, and may take a packet.
Spoke(d) ==
    /\ srv'[d] = srv[d]
    /\ cli[d] \notin Early =>
          cli'[d] \notin Early
    /\ cli'[d] = "handshake" => cli[d] = "handshake"
    /\ cli[d] \in Early => up'[d] = up[d]
    /\ down'[d] = down[d] \/ (down[d] # <<>> /\ down'[d] = Tail(down[d]))
    /\ \E p \in Seq({"message", "bad", "close_notify", "fin"}) :
          /\ up'[d] = up[d] \o p
          /\ Has(p, "bad") => d \in saidBad'

LEMMA SpokeHolds ==
    ASSUME TypeOK, NEW d \in Client, LinkInv(d), Spoke(d), saidBad \subseteq saidBad'
    PROVE  LinkInv(d)'
<1>1. up[d] \in Seq(Packet) /\ down[d] \in Seq(Packet)
  BY DEF TypeOK
<1>2. PICK p \in Seq({"message", "bad", "close_notify", "fin"}) :
         up'[d] = up[d] \o p /\ (Has(p, "bad") => d \in saidBad')
  BY DEF Spoke
<1>3. p \in Seq(Packet)
  BY DEF Packet
<1>4. \A x : Has(p, x) => x \notin Flight
  BY DEF Has, Flight
<1>5. \A x : Has(up'[d], x) => Has(up[d], x) \/ Has(p, x)
  BY <1>1, <1>2, <1>3, HasAppended
<1>6. \A x : Has(down'[d], x) => Has(down[d], x)
  BY <1>1, HasInTail DEF Spoke
<1>7. \A i \in DOMAIN up'[d] : up'[d][i] \in Flight => i \in DOMAIN up[d] /\ up'[d][i] = up[d][i]
  <2>1. /\ DOMAIN up'[d] = 1 .. Len(up[d]) + Len(p) /\ DOMAIN up[d] = 1 .. Len(up[d])
        /\ Len(up[d]) \in Nat /\ Len(p) \in Nat /\ DOMAIN p = 1 .. Len(p)
        /\ \A i \in 1 .. Len(up[d]) + Len(p) :
              up'[d][i] = IF i <= Len(up[d]) THEN up[d][i] ELSE p[i - Len(up[d])]
    BY <1>1, <1>2, <1>3
  <2> SUFFICES ASSUME NEW i \in 1 .. Len(up[d]) + Len(p), up'[d][i] \in Flight
               PROVE  i <= Len(up[d])
    BY <2>1
  <2>2. CASE ~(i <= Len(up[d]))
    <3>1. i - Len(up[d]) \in DOMAIN p
      BY <2>1, <2>2
    <3>2. up'[d][i] = p[i - Len(up[d])]
      BY <2>1, <2>2
    <3> QED
      BY <1>4, <3>1, <3>2 DEF Has
  <2> QED
    BY <2>2
<1>8. Undialled(d)'
  <2> SUFFICES ASSUME cli'[d] \in Early
               PROVE  srv'[d] = "none" /\ up'[d] = <<>> /\ down'[d] = <<>>
    BY DEF Undialled
  <2> QED
    BY DEF LinkInv, Undialled, Spoke
<1>9. HelloOnce(d)' /\ Finishing(d)'
  BY <1>4, <1>5, <1>6 DEF LinkInv, HelloOnce, Finishing, Flight, Spoke
<1>10. OneFlight(d)'
  BY <1>7 DEF LinkInv, OneFlight
<1>11. Opened(d)'
  BY <1>7 DEF LinkInv, Opened, Spoke
<1>12. BadSaid(d)'
  BY <1>2, <1>5 DEF LinkInv, BadSaid
<1> QED
  BY <1>8, <1>9, <1>10, <1>11, <1>12 DEF LinkInv

-----------------------------------------------------------------------------
(* close().                                                                *)

ServerStates == {"none", "backlog", "handshake", "open", "deaf", "closed"}

\* The types of what the server's steps change.
ServerTypes ==
    /\ srv \in [Client -> ServerStates]
    /\ mIsClosed \subseteq Client /\ ended \subseteq Client /\ registered \subseteq Client
    /\ at \in [Thread -> Client \cup {Nobody}]
    /\ up \in [Client -> Seq(Packet)] /\ down \in [Client -> Seq(Packet)]

LEMMA ServerTyped == TypeOK => ServerTypes
BY DEF TypeOK, ServerTypes, ServerStates

LEMMA Answers ==
    ASSUME NEW p \in {"message", "fin", "close_notify"}
    PROVE  <<p>> \in Seq(Packet) /\ ~Has(<<p>>, "hello")
<1>1. p \in Packet /\ p # "hello"
  BY DEF Packet
<1>2. <<p>> \in Seq(Packet)
  BY <1>1
<1> QED
  BY <1>1, <1>2, HasOne

\* The writes that waited for the handshake are no packets of one.
LEMMA WaitingSent ==
    ASSUME TypeOK, NEW c \in Client, down' = Put(down, c, [i \in 1 .. owed[c] |-> "message"])
    PROVE  /\ down' \in [Client -> Seq(Packet)] /\ \A d \in Client \ {c} : down'[d] = down[d]
           /\ Has(down'[c], "hello") => Has(down[c], "hello")
<1> DEFINE waiting == [i \in 1 .. owed[c] |-> "message"]
<1>1. down \in [Client -> Seq(Packet)] /\ owed[c] \in Nat /\ "message" \in Packet
  BY DEF TypeOK, Packet
<1>2. waiting \in Seq(Packet) /\ ~Has(waiting, "hello")
  BY <1>1 DEF Has
<1>3. down' = Put(down, c, waiting)
  OBVIOUS
<1> HIDE DEF waiting
<1>4. /\ Put(down, c, waiting) \in [Client -> Seq(Packet)]
      /\ Put(down, c, waiting)[c] = down[c] \o waiting
      /\ \A d \in Client \ {c} : Put(down, c, waiting)[d] = down[d]
  BY <1>1, <1>2, PutIs, Zenon
<1>5. Has(down[c] \o waiting, "hello") => Has(down[c], "hello")
  BY <1>1, <1>2, HasAppended
<1> QED
  BY <1>3, <1>4, <1>5

LEMMA GoneIs ==
    ASSUME TypeOK, NEW c \in Client, Gone(c)
    PROVE  /\ down' \in [Client -> Seq(Packet)]
           /\ \A d \in Client :
                 /\ Has(down'[d], "hello") => Has(down[d], "hello")
                 /\ srv[d] = "none" /\ d # c => down'[d] = down[d]
<1> DEFINE put(d) == IF d = c THEN Append(down[c], "fin")
                     ELSE IF d \in registered /\ srv[d] = "open" /\ d \notin mIsClosed
                          THEN Append(down[d], "message") ELSE down[d]
<1>1. down' = [d \in Client |-> put(d)] /\ \A d \in Client : down[d] \in Seq(Packet)
  BY DEF Gone, TypeOK
<1>2. \A q \in Seq(Packet) : \A p \in {"message", "fin"} :
         Append(q, p) \in Seq(Packet) /\ (Has(Append(q, p), "hello") => Has(q, "hello"))
  <2> SUFFICES ASSUME NEW q \in Seq(Packet), NEW p \in {"message", "fin"}
               PROVE  /\ Append(q, p) \in Seq(Packet)
                      /\ Has(Append(q, p), "hello") => Has(q, "hello")
    OBVIOUS
  <2>1. p \in Packet
    BY DEF Packet
  <2>2. Append(q, p) \in Seq(Packet) /\ Append(q, p) = q \o <<p>>
    BY <2>1
  <2>3. <<p>> \in Seq(Packet) /\ ~Has(<<p>>, "hello")
    BY Answers
  <2>4. Has(q \o <<p>>, "hello") => Has(q, "hello")
    BY <2>3, HasAppended
  <2> QED
    BY <2>2, <2>4
<1>3. ASSUME NEW d \in Client
      PROVE  /\ put(d) \in Seq(Packet) /\ (Has(put(d), "hello") => Has(down[d], "hello"))
             /\ srv[d] = "none" /\ d # c => put(d) = down[d]
  BY <1>1, <1>2
<1> HIDE DEF put
<1> QED
  BY <1>1, <1>3

\* What close() does to the server's ends, to what is on the way down and to the types.
LEMMA CloseIs ==
    ASSUME TypeOK, NEW t \in Thread, NEW c \in Client, Close(t, c)
    PROVE  /\ srv' \in [Client -> ServerStates] /\ mIsClosed' \subseteq Client
           /\ registered' \subseteq Client /\ at' \in [Thread -> Client \cup {Nobody}]
           /\ down' \in [Client -> Seq(Packet)]
           /\ \A d \in Client :
                 /\ Has(down'[d], "hello") => Has(down[d], "hello")
                 /\ srv[d] = "none" => srv'[d] = "none" /\ down'[d] = down[d]
                 /\ srv'[d] \in {"open", "deaf"} => srv[d] \in {"open", "deaf"}
           /\ srv[c] \in {"open", "handshake"}
<1>1. CASE /\ srv[c] = "open" /\ at' = [at EXCEPT ![t] = c]
           /\ down' = Put(down, c, <<"close_notify">>) /\ UNCHANGED <<srv, registered>>
  <2>1. /\ down' \in [Client -> Seq(Packet)] /\ down'[c] = down[c] \o <<"close_notify">>
        /\ \A d \in Client \ {c} : down'[d] = down[d]
    <3>1. down \in [Client -> Seq(Packet)] /\ "close_notify" \in Packet
      BY DEF TypeOK, Packet
    <3>2. /\ Put(down, c, <<"close_notify">>) \in [Client -> Seq(Packet)]
          /\ Put(down, c, <<"close_notify">>)[c] = down[c] \o <<"close_notify">>
          /\ \A d \in Client \ {c} : Put(down, c, <<"close_notify">>)[d] = down[d]
      BY <3>1, PutOne, Zenon
    <3> QED
      BY <1>1, <3>2
  <2>2. Has(down'[c], "hello") => Has(down[c], "hello")
    BY <2>1, Answers, HasAppended DEF TypeOK
  <2> QED
    BY <1>1, <2>1, <2>2 DEF Close, TypeOK, ServerStates
<1>2. CASE srv[c] = "handshake" /\ Gone(c) /\ UNCHANGED at
  <2>1. srv' = [srv EXCEPT ![c] = "closed"] /\ registered' = registered \ {c}
    BY <1>2 DEF Gone
  <2> QED
    BY <1>2, <2>1, GoneIs DEF Close, TypeOK, ServerStates
<1> QED
  BY <1>1, <1>2 DEF Close

LEMMA CloseKeeps ==
    ASSUME TypeOK, CloseInv, NEW t \in Thread, NEW c \in Client, c \notin mIsClosed,
           at[t] = Nobody, Close(t, c)
    PROVE  CloseInv'
<1>1. \A u \in Thread : at[u] # c
  BY LinkAssumption DEF CloseInv, LinkAssumption
<1>2. mIsClosed' = mIsClosed \cup {c} /\ c # Nobody
  BY LinkAssumption DEF Close, LinkAssumption
<1>3. CASE srv[c] = "open" /\ at' = [at EXCEPT ![t] = c] /\ UNCHANGED <<srv, registered>>
  <2>1. at'[t] = c /\ \A u \in Thread \ {t} : at'[u] = at[u] /\ at'[u] # c
    BY <1>1, <1>3 DEF TypeOK
  <2>2. ASSUME NEW d \in Client, d \in mIsClosed', srv'[d] # "closed"
        PROVE  \E u \in Thread : at'[u] = d
    <3>1. CASE d = c
      BY <2>1, <3>1
    <3>2. CASE d # c
      <4>1. PICK u \in Thread : at[u] = d
        BY <1>2, <1>3, <2>2, <3>2 DEF CloseInv
      <4>2. u # t
        BY <4>1, LinkAssumption DEF LinkAssumption
      <4> QED
        BY <2>1, <4>1, <4>2
    <3> QED
      BY <3>1, <3>2
  <2>3. at'["io"] # at'["gui"] \/ at'["io"] = Nobody
    BY <2>1 DEF Thread
  <2>4. \A u \in Thread : at'[u] # Nobody =>
           at'[u] \in mIsClosed' /\ srv'[at'[u]] \in {"open", "deaf"}
    BY <1>2, <1>3, <2>1 DEF CloseInv
  <2>5. \A d \in Client : /\ d \in registered' <=> srv'[d] \in {"handshake", "open", "deaf"}
                          /\ srv'[d] \in {"none", "backlog", "handshake"} => d \notin mIsClosed'
                          /\ srv'[d] \in {"deaf", "closed"} => d \in mIsClosed'
    BY <1>2, <1>3 DEF CloseInv
  <2> QED
    BY <2>2, <2>3, <2>4, <2>5 DEF CloseInv
<1>4. CASE srv[c] = "handshake" /\ Gone(c) /\ UNCHANGED at
  <2>1. /\ srv'[c] = "closed" /\ \A d \in Client \ {c} : srv'[d] = srv[d]
        /\ registered' = registered \ {c}
    BY <1>4 DEF Gone, TypeOK
  <2>2. \A u \in Thread : at[u] # Nobody => at[u] \in Client \ {c}
    BY <1>1 DEF TypeOK
  <2> QED
    BY <1>2, <1>4, <2>1, <2>2 DEF CloseInv
<1> QED
  BY <1>3, <1>4 DEF Close

\* Nothing that the io thread waits for goes away.
LEMMA PortKept ==
    ASSUME PortWaitsOnlyForBad, at'["io"] = at["io"] \/ at'["io"] = Nobody,
           ended \subseteq ended', saidBad \subseteq saidBad',
           \A d \in Client : at["io"] = d /\ up[d] # <<>> => up'[d] # <<>>
    PROVE  PortWaitsOnlyForBad'
BY LinkAssumption DEF LinkAssumption, PortWaitsOnlyForBad

-----------------------------------------------------------------------------
(* The server's steps.                                                     *)

\* What every one of them gives.
ServerGives ==
    /\ ServerTypes' /\ (\A d \in Client : Moved(d)) /\ CloseInv' /\ PortWaitsOnlyForBad'
    /\ UNCHANGED <<secure, cli, hung, sends, saidBad>>

LEMMA AcceptGives ==
    ASSUME TypeOK, IInv, NEW c \in Client, Accept(c)
    PROVE  ServerGives
<1>1. /\ srv[c] = "backlog" /\ srv' = [srv EXCEPT ![c] = "handshake"]
      /\ registered' = registered \cup {c}
      /\ UNCHANGED <<mIsClosed, ended, at, secure, cli, hung, up, down, sends, saidBad>>
  BY DEF Accept, wireVars
<1>2. srv'[c] = "handshake" /\ \A d \in Client \ {c} : srv'[d] = srv[d]
  BY <1>1 DEF TypeOK
<1>3. ServerTypes'
  BY <1>1, ServerTyped DEF ServerTypes, ServerStates
<1>4. \A d \in Client : Moved(d)
  BY <1>1, <1>2 DEF Moved
<1>5. CloseInv'
  BY <1>1, <1>2 DEF IInv, CloseInv
<1>6. PortWaitsOnlyForBad'
  BY <1>1, PortKept DEF IInv
<1> QED
  BY <1>1, <1>3, <1>4, <1>5, <1>6 DEF ServerGives

\* The first packet of c has been taken, or is the end of the stream, which stays.
LEMMA TakenIs ==
    ASSUME TypeOK, NEW c \in Client, up[c] # <<>>, up' = up \/ up' = Took(up, c)
    PROVE  /\ up' \in [Client -> Seq(Packet)]
           /\ up'[c] = up[c] \/ Taken(c)
           /\ \A d \in Client \ {c} : up'[d] = up[d]
           /\ up' = Took(up, c) => Taken(c)
<1>1. up \in [Client -> Seq(Packet)]
  BY DEF TypeOK
<1>2. /\ Took(up, c) \in [Client -> Seq(Packet)] /\ Took(up, c)[c] = Tail(up[c])
      /\ \A d \in Client \ {c} : Took(up, c)[d] = up[d]
  BY <1>1, TookIs
<1> QED
  BY <1>1, <1>2 DEF Taken

\* close() after a read: what is left to show is where the port waits.
LEMMA ClosingGives ==
    ASSUME TypeOK, IInv, NEW t \in Thread, NEW c \in Client, at[t] = Nobody, c \notin mIsClosed,
           Close(t, c), up' = up \/ (up[c] # <<>> /\ up' = Took(up, c)),
           ended' \in {ended, ended \cup {c}},
           UNCHANGED <<secure, cli, hung, sends, saidBad>>, PortWaitsOnlyForBad'
    PROVE  ServerGives
<1>1. /\ up' \in [Client -> Seq(Packet)]
      /\ \A d \in Client : up'[d] = up[d] \/ Taken(d)
      /\ \A d \in Client \ {c} : up'[d] = up[d]
  BY TakenIs DEF TypeOK
<1>2. ServerTypes'
  BY <1>1, CloseIs, ServerTyped DEF ServerTypes
<1>3. srv[c] # "none"
  BY CloseIs
<1>4. \A d \in Client : Moved(d)
  BY <1>1, <1>3, CloseIs DEF Moved
<1>5. CloseInv'
  BY CloseKeeps DEF IInv
<1> QED
  BY <1>2, <1>4, <1>5 DEF ServerGives

LEMMA IoKeepsUp ==
    ASSUME IoFree
    PROVE  \A d \in Client : at["io"] # d
BY LinkAssumption DEF IoFree, LinkAssumption

LEMMA HandshakeGives ==
    ASSUME TypeOK, IInv, NEW c \in Client, Handshake(c)
    PROVE  ServerGives
<1>1. /\ IoFree /\ srv[c] = "handshake" /\ up[c] # <<>>
      /\ up' = IF Head(up[c]) = "fin" THEN up ELSE Took(up, c)
      /\ UNCHANGED <<ended, secure, cli, hung, sends, saidBad>>
      /\ c \notin mIsClosed
  BY DEF Handshake, IInv, CloseInv
<1>2. /\ up' \in [Client -> Seq(Packet)] /\ (up'[c] = up[c] \/ Taken(c))
      /\ \A d \in Client \ {c} : up'[d] = up[d]
      /\ Head(up[c]) # "fin" => Taken(c)
  BY <1>1, TakenIs
<1>3. at' = at => PortWaitsOnlyForBad'
  BY <1>1, IoKeepsUp, PortKept DEF IInv
<1>4. CASE /\ Head(up[c]) = "hello" /\ down' = Put(down, c, <<"hello">>)
           /\ UNCHANGED <<srv, mIsClosed, registered, at>>
  <2>1. /\ down' \in [Client -> Seq(Packet)] /\ \A d \in Client \ {c} : down'[d] = down[d]
    <3>1. down \in [Client -> Seq(Packet)] /\ "hello" \in Packet
      BY DEF TypeOK, Packet
    <3>2. /\ Put(down, c, <<"hello">>) \in [Client -> Seq(Packet)]
          /\ Put(down, c, <<"hello">>)[c] = down[c] \o <<"hello">>
          /\ \A d \in Client \ {c} : Put(down, c, <<"hello">>)[d] = down[d]
      BY <3>1, PutOne, Zenon
    <3> QED
      BY <1>4, <3>2
  <2>2. ServerTypes'
    BY <1>1, <1>2, <1>4, <2>1, ServerTyped DEF ServerTypes
  <2>3. \A d \in Client : Moved(d)
    BY <1>1, <1>2, <1>4, <2>1 DEF Moved
  <2>4. CloseInv'
    BY <1>4 DEF IInv, CloseInv
  <2> QED
    BY <1>1, <1>3, <1>4, <2>2, <2>3, <2>4 DEF ServerGives
<1>5. CASE /\ Head(up[c]) = "finished" /\ srv' = [srv EXCEPT ![c] = "open"]
           /\ down' = Put(down, c, [i \in 1 .. owed[c] |-> "message"])
           /\ UNCHANGED <<mIsClosed, registered, at>>
  <2>1. srv'[c] = "open" /\ \A d \in Client \ {c} : srv'[d] = srv[d]
    BY <1>5 DEF TypeOK
  <2>5. /\ down' \in [Client -> Seq(Packet)] /\ \A d \in Client \ {c} : down'[d] = down[d]
        /\ Has(down'[c], "hello") => Has(down[c], "hello")
    BY <1>5, WaitingSent
  <2>2. ServerTypes'
    BY <1>1, <1>2, <1>5, <2>5, ServerTyped DEF ServerTypes, ServerStates
  <2>3. \A d \in Client : Moved(d)
    BY <1>1, <1>2, <1>5, <2>1, <2>5 DEF Moved
  <2>4. CloseInv'
    BY <1>1, <1>5, <2>1 DEF IInv, CloseInv
  <2> QED
    BY <1>1, <1>3, <1>5, <2>2, <2>3, <2>4 DEF ServerGives
<1>6. CASE Close("io", c)
  <2>1. at' = at
    BY <1>1, <1>6 DEF Close
  <2>2. at["io"] = Nobody /\ "io" \in Thread
    BY <1>1 DEF IoFree, Thread
  <2> QED
    BY <1>1, <1>3, <1>6, <2>1, <2>2, ClosingGives
<1> QED
  BY <1>4, <1>5, <1>6 DEF Handshake

LEMMA ReadMessageGives ==
    ASSUME TypeOK, IInv, NEW c \in Client, ReadMessage(c)
    PROVE  ServerGives
<1>1. /\ IoFree /\ srv[c] = "open" /\ up[c] # <<>> /\ up' = Took(up, c)
      /\ down' = IF c \in mIsClosed THEN down ELSE Put(down, c, <<"message">>)
      /\ UNCHANGED <<srv, mIsClosed, ended, registered, at, secure, cli, hung, sends, saidBad>>
  BY DEF ReadMessage, serverVars
<1>2. /\ up' \in [Client -> Seq(Packet)] /\ (up'[c] = up[c] \/ Taken(c))
      /\ \A d \in Client \ {c} : up'[d] = up[d]
  BY <1>1, TakenIs
<1>3. /\ down' \in [Client -> Seq(Packet)]
      /\ \A d \in Client \ {c} : down'[d] = down[d]
      /\ Has(down'[c], "hello") => Has(down[c], "hello")
  <2>1. CASE down' = Put(down, c, <<"message">>)
    <3>1. /\ down' \in [Client -> Seq(Packet)] /\ down'[c] = down[c] \o <<"message">>
          /\ \A d \in Client \ {c} : down'[d] = down[d]
      <4>1. down \in [Client -> Seq(Packet)] /\ "message" \in Packet
        BY DEF TypeOK, Packet
      <4>2. /\ Put(down, c, <<"message">>) \in [Client -> Seq(Packet)]
            /\ Put(down, c, <<"message">>)[c] = down[c] \o <<"message">>
            /\ \A d \in Client \ {c} : Put(down, c, <<"message">>)[d] = down[d]
        BY <4>1, PutOne, Zenon
      <4> QED
        BY <2>1, <4>2
    <3> QED
      BY <3>1, HasAppended, Answers DEF TypeOK
  <2> QED
    BY <1>1, <2>1 DEF TypeOK
<1>4. ServerTypes'
  BY <1>1, <1>2, <1>3, ServerTyped DEF ServerTypes
<1>5. \A d \in Client : Moved(d)
  BY <1>1, <1>2, <1>3 DEF Moved
<1>6. CloseInv' /\ PortWaitsOnlyForBad'
  BY <1>1, IoKeepsUp, PortKept DEF IInv, CloseInv
<1> QED
  BY <1>1, <1>4, <1>5, <1>6 DEF ServerGives

LEMMA ReadEndsGives ==
    ASSUME TypeOK, IInv, NEW c \in Client, ReadEnds(c)
    PROVE  ServerGives
<1>1. /\ IoFree /\ srv[c] = "open" /\ up[c] # <<>> /\ Head(up[c]) # "message"
      /\ up' = IF Head(up[c]) = "fin" THEN up ELSE Took(up, c)
      /\ UNCHANGED <<secure, cli, hung, sends, saidBad>>
  BY DEF ReadEnds
<1>2. /\ up' \in [Client -> Seq(Packet)] /\ (up'[c] = up[c] \/ Taken(c))
      /\ \A d \in Client \ {c} : up'[d] = up[d]
  BY <1>1, TakenIs
<1>3. CASE /\ c \in mIsClosed /\ srv' = [srv EXCEPT ![c] = "deaf"]
           /\ UNCHANGED <<mIsClosed, ended, registered, at, down>>
  <2>1. srv'[c] = "deaf" /\ \A d \in Client \ {c} : srv'[d] = srv[d]
    BY <1>3 DEF TypeOK
  <2>2. ServerTypes'
    BY <1>1, <1>2, <1>3, ServerTyped DEF ServerTypes, ServerStates
  <2>3. \A d \in Client : Moved(d)
    BY <1>1, <1>2, <1>3, <2>1 DEF Moved
  <2>4. CloseInv'
    <3>1. \A t \in Thread : at[t] # Nobody =>
             at[t] \in mIsClosed /\ srv'[at[t]] \in {"open", "deaf"}
      BY <2>1 DEF IInv, CloseInv, TypeOK
    <3> QED
      BY <1>1, <1>3, <2>1, <3>1 DEF IInv, CloseInv
  <2>5. PortWaitsOnlyForBad'
    BY <1>1, <1>3, IoKeepsUp, PortKept DEF IInv
  <2> QED
    BY <1>1, <2>2, <2>3, <2>4, <2>5 DEF ServerGives
<1>4. CASE /\ c \notin mIsClosed /\ Close("io", c)
           /\ ended' = IF Head(up[c]) = "close_notify" THEN ended \cup {c} ELSE ended
  <2>1. at["io"] = Nobody /\ "io" \in Thread /\ Nobody \notin Client
    BY <1>1, LinkAssumption DEF IoFree, Thread, LinkAssumption
  <2>2. at' = [at EXCEPT !["io"] = c]
    BY <1>1, <1>4 DEF Close
  <2>3. up[c] \in Seq(Packet) /\ Head(up[c]) \in Packet /\ Head(up[c]) \notin Flight
        /\ Has(up[c], Head(up[c]))
    <3>1. up[c] \in Seq(Packet)
      BY DEF TypeOK
    <3>2. Head(up[c]) \in Packet /\ Has(up[c], Head(up[c]))
      BY <1>1, <3>1, HasInTail
    <3> QED
      BY <1>1, <3>1, <3>2 DEF IInv, LinkInv, Opened, Has
  <2>4. Head(up[c]) \in {"fin", "close_notify", "bad"}
    BY <1>1, <2>3 DEF Packet, Flight
  <2>5. c \in ended' \/ up'[c] # <<>> \/ c \in saidBad'
    <3>1. Head(up[c]) = "bad" => c \in saidBad
      BY <2>3 DEF IInv, LinkInv, BadSaid
    <3> QED
      BY <1>1, <1>4, <2>4, <3>1
  <2>6. PortWaitsOnlyForBad'
    <3>1. at'["io"] = c
      BY <2>1, <2>2 DEF TypeOK
    <3> QED
      BY <2>5, <3>1 DEF PortWaitsOnlyForBad
  <2> QED
    BY <1>1, <1>4, <2>1, <2>6, ClosingGives
<1> QED
  BY <1>3, <1>4 DEF ReadEnds

LEMMA ShutdownReturnsGives ==
    ASSUME TypeOK, IInv, NEW t \in Thread, ShutdownReturns(t)
    PROVE  ServerGives
<1> DEFINE c == at[t]
<1>1. /\ c # Nobody /\ c \in Client /\ at' = [at EXCEPT ![t] = Nobody] /\ Gone(c)
      /\ UNCHANGED <<mIsClosed, ended, secure, cli, hung, up, sends, saidBad>>
      /\ srv[c] \in {"open", "deaf"} /\ c \in mIsClosed
  BY DEF ShutdownReturns, TypeOK, IInv, CloseInv
<1>2. srv' = [srv EXCEPT ![c] = "closed"] /\ registered' = registered \ {c}
  BY <1>1 DEF Gone
<1>3. at'[t] = Nobody /\ \A u \in Thread \ {t} : at'[u] = at[u] /\ (at[u] # Nobody => at[u] # c)
  BY <1>1 DEF TypeOK, IInv, CloseInv, Thread
<1> HIDE DEF c
<1>4. srv'[c] = "closed" /\ \A d \in Client \ {c} : srv'[d] = srv[d]
  BY <1>1, <1>2 DEF TypeOK
<1>5. ServerTypes'
  BY <1>1, <1>2, GoneIs, ServerTyped DEF ServerTypes, ServerStates
<1>6. \A d \in Client : Moved(d)
  BY <1>1, <1>4, GoneIs DEF Moved
<1>7. CloseInv'
  <2>1. ASSUME NEW d \in Client, d \in mIsClosed, srv'[d] # "closed"
        PROVE  \E u \in Thread : at'[u] = d
    <3>1. PICK u \in Thread : at[u] = d
      BY <1>4, <2>1 DEF IInv, CloseInv
    <3>2. d # c
      BY <1>4, <2>1
    <3> QED
      BY <1>3, <3>1, <3>2 DEF c
  <2>2. ASSUME NEW u \in Thread, at'[u] # Nobody
        PROVE  at'[u] \in mIsClosed /\ srv'[at'[u]] \in {"open", "deaf"}
    <3>1. at'[u] = at[u] /\ at[u] # Nobody /\ at[u] # c
      BY <1>3, <2>2
    <3>2. at[u] \in Client \ {c}
      BY <3>1 DEF TypeOK
    <3>3. at[u] \in mIsClosed /\ srv[at[u]] \in {"open", "deaf"}
      BY <3>1 DEF IInv, CloseInv
    <3> QED
      BY <1>4, <3>1, <3>2, <3>3
  <2>3. at'["io"] = at'["gui"] => at'["io"] = Nobody
    BY <1>3 DEF Thread
  <2>4. \A d \in Client : /\ d \in registered' <=> srv'[d] \in {"handshake", "open", "deaf"}
                          /\ srv'[d] \in {"none", "backlog", "handshake"} => d \notin mIsClosed
                          /\ srv'[d] \in {"deaf", "closed"} => d \in mIsClosed
    BY <1>1, <1>2, <1>4 DEF IInv, CloseInv
  <2> QED
    BY <1>1, <2>1, <2>2, <2>3, <2>4 DEF CloseInv
<1>8. PortWaitsOnlyForBad'
  BY <1>1, <1>3, PortKept DEF IInv, Thread
<1> QED
  BY <1>1, <1>5, <1>6, <1>7, <1>8 DEF ServerGives

LEMMA KickGives ==
    ASSUME TypeOK, IInv, NEW c \in Client, Kick(c)
    PROVE  ServerGives
<1>1. /\ at["gui"] = Nobody /\ "gui" \in Thread /\ "io" # "gui" /\ c \notin mIsClosed
      /\ Close("gui", c)
      /\ UNCHANGED <<ended, secure, cli, hung, up, sends, saidBad>>
  BY DEF Kick, Thread
<1>2. at'["io"] = at["io"]
  BY <1>1 DEF Close, TypeOK, Thread
<1>3. PortWaitsOnlyForBad'
  BY <1>1, <1>2, PortKept DEF IInv
<1> QED
  BY <1>1, <1>3, ClosingGives

-----------------------------------------------------------------------------
(* The clients' steps.                                                     *)

ClientStates ==
    Early \cup {"handshake", "open", "shutting", "failed", "closed"}

\* What every one of them gives.
ClientGives ==
    /\ srv' \in [Client -> ServerStates]
    /\ up' \in [Client -> Seq(Packet)] /\ down' \in [Client -> Seq(Packet)]
    /\ \A d \in Client : LinkInv(d)'
    /\ CloseInv' /\ PortWaitsOnlyForBad'

LEMMA Longer ==
    ASSUME NEW q \in Seq(Packet), NEW p \in Seq(Packet), q # <<>>
    PROVE  q \o p # <<>>
OBVIOUS

LEMMA SpokenGives ==
    ASSUME TypeOK, IInv, NEW c \in Client, UNCHANGED serverVars, saidBad \subseteq saidBad',
           \A d \in Client \ {c} : cli'[d] = cli[d],
           cli'[c] \in Early => cli[c] \in Early,
           cli'[c] = "handshake" => cli[c] = "handshake",
           cli[c] \in Early => up' = up,
           down' = down \/ (down[c] # <<>> /\ down' = Took(down, c)),
           \/ up' = up
           \/ \E p \in Seq({"message", "bad", "close_notify", "fin"}) :
                 up' = Put(up, c, p) /\ (Has(p, "bad") => c \in saidBad')
    PROVE  ClientGives
<1>1. up \in [Client -> Seq(Packet)] /\ down \in [Client -> Seq(Packet)]
  BY DEF TypeOK
<1>2. /\ down' \in [Client -> Seq(Packet)] /\ \A d \in Client \ {c} : down'[d] = down[d]
      /\ down'[c] = down[c] \/ (down[c] # <<>> /\ down'[c] = Tail(down[c]))
  <2>1. CASE down' = down
    BY <1>1, <2>1
  <2>2. CASE down[c] # <<>> /\ down' = Took(down, c)
    BY <1>1, <2>2, TookIs
  <2> QED
    BY <2>1, <2>2
<1>3. PICK p \in Seq({"message", "bad", "close_notify", "fin"}) :
         /\ up'[c] = up[c] \o p /\ (Has(p, "bad") => c \in saidBad')
         /\ up' \in [Client -> Seq(Packet)] /\ \A d \in Client \ {c} : up'[d] = up[d]
         /\ up[c] # <<>> => up'[c] # <<>>
  <2>1. CASE up' = up
    <3>1. <<>> \in Seq({"message", "bad", "close_notify", "fin"})
      OBVIOUS
    <3>2. up[c] \o <<>> = up[c]
      BY <1>1
    <3>3. ~Has(<<>>, "bad")
      BY HasOne
    <3> QED
      BY <1>1, <2>1, <3>1, <3>2, <3>3
  <2>2. ASSUME NEW p \in Seq({"message", "bad", "close_notify", "fin"}), up' = Put(up, c, p),
               Has(p, "bad") => c \in saidBad'
        PROVE  /\ up'[c] = up[c] \o p
               /\ up' \in [Client -> Seq(Packet)] /\ \A d \in Client \ {c} : up'[d] = up[d]
               /\ up[c] # <<>> => up'[c] # <<>>
    <3>1. p \in Seq(Packet)
      BY DEF Packet
    <3>2. /\ Put(up, c, p) \in [Client -> Seq(Packet)]
          /\ Put(up, c, p)[c] = up[c] \o p
          /\ \A d \in Client \ {c} : Put(up, c, p)[d] = up[d]
      BY <1>1, <3>1, PutIs, Zenon
    <3>3. up[c] \in Seq(Packet)
      BY <1>1
    <3>4. up[c] # <<>> => up[c] \o p # <<>>
      BY <3>1, <3>3, Longer
    <3> QED
      BY <2>2, <3>2, <3>4
  <2> QED
    BY <2>1, <2>2
<1>4. \A d \in Client \ {c} : Moved(d)
  BY <1>2, <1>3 DEF Moved, serverVars
<1>5. Spoke(c)
  BY <1>2, <1>3 DEF Spoke, serverVars
<1>6. \A d \in Client : LinkInv(d)'
  BY <1>4, <1>5, MovedHolds, SpokeHolds DEF IInv
<1>7. CloseInv'
  BY DEF IInv, CloseInv, serverVars
<1>8. PortWaitsOnlyForBad'
  BY <1>3, PortKept DEF IInv, serverVars
<1> QED
  BY <1>2, <1>3, <1>6, <1>7, <1>8, ServerTyped DEF ClientGives, ServerTypes, serverVars

\* Dial, where the port takes the connection: the client's first flight, or the login
\* of one that has chosen the plain transport.
LEMMA DialledGives ==
    ASSUME TypeOK, IInv, NEW c \in Client, cli[c] = "dialing", NEW x \in {"hello", "message"},
           srv' = [srv EXCEPT ![c] = "backlog"], up' = Put(up, c, <<x>>),
           cli' = [cli EXCEPT ![c] = IF c \in secure THEN "handshake" ELSE "open"],
           UNCHANGED <<mIsClosed, ended, registered, at, down, saidBad>>
    PROVE  ClientGives
<1>1. /\ srv[c] = "none" /\ up[c] = <<>> /\ down[c] = <<>>
      /\ up \in [Client -> Seq(Packet)] /\ x \in Packet
  BY DEF IInv, LinkInv, Undialled, Early, TypeOK, Packet
<1>2. /\ up' \in [Client -> Seq(Packet)] /\ up'[c] = <<x>>
      /\ \A d \in Client \ {c} : up'[d] = up[d]
  <2>1. /\ up' \in [Client -> Seq(Packet)] /\ up'[c] = up[c] \o <<x>>
        /\ \A d \in Client \ {c} : up'[d] = up[d]
    <3>1. /\ Put(up, c, <<x>>) \in [Client -> Seq(Packet)]
          /\ Put(up, c, <<x>>)[c] = up[c] \o <<x>>
          /\ \A d \in Client \ {c} : Put(up, c, <<x>>)[d] = up[d]
      BY <1>1, PutOne, Zenon
    <3> QED
      BY <3>1
  <2>2. <<>> \o <<x>> = <<x>>
    OBVIOUS
  <2> QED
    BY <1>1, <2>1, <2>2
<1>3. /\ srv'[c] = "backlog" /\ cli'[c] \notin Early
      /\ \A d \in Client \ {c} : srv'[d] = srv[d] /\ cli'[d] = cli[d]
  BY DEF TypeOK, Early
<1>4. \A d \in Client \ {c} : Moved(d)
  BY <1>2, <1>3 DEF Moved
<1>5. LinkInv(c)'
  <2>1. DOMAIN up'[c] = {1} /\ up'[c][1] = x
    BY <1>2
  <2>2. ~Has(down'[c], "hello")
    BY <1>1, HasOne
  <2>3. \A y : Has(up'[c], y) => y = x
    BY <2>1 DEF Has
  <2> QED
    BY <1>3, <2>1, <2>2, <2>3
       DEF LinkInv, Undialled, HelloOnce, OneFlight, Finishing, Opened, BadSaid
<1>6. \A d \in Client : LinkInv(d)'
  BY <1>4, <1>5, MovedHolds DEF IInv
<1>7. CloseInv'
  <2>1. \A t \in Thread : at[t] # Nobody => at[t] # c
    BY <1>1 DEF IInv, CloseInv
  <2>2. \A t \in Thread : at[t] # Nobody =>
           at[t] \in mIsClosed /\ srv'[at[t]] \in {"open", "deaf"}
    BY <1>3, <2>1 DEF IInv, CloseInv, TypeOK
  <2> QED
    BY <1>1, <1>3, <2>2 DEF IInv, CloseInv
<1>8. PortWaitsOnlyForBad'
  BY <1>1, <1>2, PortKept DEF IInv
<1>9. srv' \in [Client -> ServerStates] /\ down' \in [Client -> Seq(Packet)]
  BY DEF TypeOK, ServerStates
<1> QED
  BY <1>2, <1>6, <1>7, <1>8, <1>9 DEF ClientGives

\* The second flight: the client has the server's answer, and nothing of the handshake
\* is on the way up.
LEMMA FlightGives ==
    ASSUME TypeOK, IInv, NEW c \in Client, cli[c] = "handshake",
           down[c] # <<>>, Head(down[c]) = "hello", down' = Took(down, c),
           UNCHANGED <<serverVars, saidBad>>, NEW p \in Seq(Packet), up' = Put(up, c, p),
           NEW x \in {"finished", "alert"},
           \/ p = <<x>>
           \/ p = <<x, "message">>,
           NEW s \in {"open", "failed"}, cli' = [cli EXCEPT ![c] = s]
    PROVE  ClientGives
<1>1. /\ up \in [Client -> Seq(Packet)] /\ down \in [Client -> Seq(Packet)]
      /\ up[c] \in Seq(Packet) /\ down[c] \in Seq(Packet)
  BY DEF TypeOK
<1>2. /\ down' \in [Client -> Seq(Packet)] /\ \A d \in Client \ {c} : down'[d] = down[d]
      /\ down'[c] = Tail(down[c])
  BY <1>1, TookIs
<1>3. /\ up' \in [Client -> Seq(Packet)] /\ \A d \in Client \ {c} : up'[d] = up[d]
      /\ up'[c] = up[c] \o p
  <2>1. /\ Put(up, c, p) \in [Client -> Seq(Packet)]
        /\ Put(up, c, p)[c] = up[c] \o p
        /\ \A d \in Client \ {c} : Put(up, c, p)[d] = up[d]
    BY <1>1, PutIs, Zenon
  <2> QED
    BY <2>1
<1>4. cli'[c] = s /\ \A d \in Client \ {c} : cli'[d] = cli[d]
  BY DEF TypeOK
<1>5. \A y : Has(up[c], y) => y \notin Flight
  <2>1. Has(down[c], "hello")
    BY <1>1, HasInTail
  <2> QED
    BY <2>1 DEF IInv, LinkInv, HelloOnce, Finishing, Flight
<1>6. \A y : Has(p, y) => y = x \/ y = "message"
  BY HasOne, HasTwo
<1>7. \A y : Has(up'[c], y) => Has(up[c], y) \/ y = x \/ y = "message"
  BY <1>1, <1>3, <1>6, HasAppended
<1>8. \A i \in DOMAIN up'[c] : up'[c][i] \in Flight => i = Len(up[c]) + 1
  <2>1. /\ DOMAIN up'[c] = 1 .. Len(up[c]) + Len(p) /\ DOMAIN up[c] = 1 .. Len(up[c])
        /\ Len(up[c]) \in Nat /\ Len(p) \in Nat
        /\ \A i \in 1 .. Len(up[c]) + Len(p) :
              up'[c][i] = IF i <= Len(up[c]) THEN up[c][i] ELSE p[i - Len(up[c])]
    BY <1>1, <1>3
  <2>2. \A i \in DOMAIN p : p[i] \in Flight => i = 1
    BY DEF Flight
  <2> SUFFICES ASSUME NEW i \in 1 .. Len(up[c]) + Len(p), up'[c][i] \in Flight
               PROVE  i = Len(up[c]) + 1
    BY <2>1
  <2>3. ~(i <= Len(up[c]))
    <3> SUFFICES ASSUME i <= Len(up[c]) PROVE FALSE
      OBVIOUS
    <3>1. i \in DOMAIN up[c] /\ up[c][i] \in Flight
      BY <2>1
    <3> QED
      BY <1>5, <3>1 DEF Has
  <2>4. i - Len(up[c]) \in DOMAIN p /\ up'[c][i] = p[i - Len(up[c])]
    BY <2>1, <2>3
  <2>5. i - Len(up[c]) = 1
    BY <2>2, <2>4
  <2> QED
    BY <2>1, <2>5
<1>9. LinkInv(c)'
  <2>1. HelloOnce(c)'
    BY <1>5, <1>7 DEF HelloOnce, Flight
  <2>2. OneFlight(c)'
    BY <1>8 DEF OneFlight
  <2>3. Opened(c)'
    BY DEF IInv, LinkInv, Opened, serverVars
  <2>4. BadSaid(c)'
    BY <1>7 DEF IInv, LinkInv, BadSaid
  <2>5. Undialled(c)' /\ Finishing(c)'
    BY <1>4 DEF Undialled, Early, Finishing
  <2> QED
    BY <2>1, <2>2, <2>3, <2>4, <2>5 DEF LinkInv
<1>10. \A d \in Client \ {c} : Moved(d)
  BY <1>2, <1>3, <1>4 DEF Moved, serverVars
<1>11. \A d \in Client : LinkInv(d)'
  BY <1>9, <1>10, MovedHolds DEF IInv
<1>12. CloseInv'
  BY DEF IInv, CloseInv, serverVars
<1>13. PortWaitsOnlyForBad'
  BY <1>1, <1>3, Longer, PortKept DEF IInv, serverVars
<1> QED
  BY <1>2, <1>3, <1>11, <1>12, <1>13, ServerTyped DEF ClientGives, ServerTypes, serverVars

LEMMA LoseGives ==
    ASSUME TypeOK, IInv, NEW c \in Client, Lose(c)
    PROVE  ClientGives
<1>1. /\ srv[c] # "none" /\ cli[c] \notin Early
      /\ up' = [up EXCEPT ![c] = <<"fin">>] /\ down' = [down EXCEPT ![c] = <<"fin">>]
      /\ UNCHANGED <<serverVars, cli, saidBad>>
  BY DEF Lose, Early
<1>2. /\ up' \in [Client -> Seq(Packet)] /\ up'[c] = <<"fin">>
      /\ down' \in [Client -> Seq(Packet)] /\ down'[c] = <<"fin">>
      /\ \A d \in Client \ {c} : up'[d] = up[d] /\ down'[d] = down[d]
  <2>1. <<"fin">> \in Seq(Packet)
    BY Answers
  <2> QED
    BY <1>1, <2>1 DEF TypeOK
<1>3. \A d \in Client \ {c} : Moved(d)
  BY <1>1, <1>2 DEF Moved, serverVars
<1>4. LinkInv(c)'
  <2>1. DOMAIN up'[c] = {1} /\ up'[c][1] = "fin"
    BY <1>2
  <2>2. \A y : Has(up'[c], y) => y = "fin"
    BY <2>1 DEF Has
  <2>3. Opened(c)'
    BY <1>1, <2>1 DEF IInv, LinkInv, Opened, serverVars, Flight
  <2> QED
    BY <1>1, <2>1, <2>2, <2>3
       DEF LinkInv, Undialled, HelloOnce, OneFlight, Finishing, BadSaid
<1>5. \A d \in Client : LinkInv(d)'
  BY <1>1, <1>3, <1>4, MovedHolds DEF IInv
<1>6. CloseInv'
  BY <1>1 DEF IInv, CloseInv, serverVars
<1>7. PortWaitsOnlyForBad'
  BY <1>1, <1>2, PortKept DEF IInv, serverVars
<1> QED
  BY <1>1, <1>2, <1>5, <1>6, <1>7, ServerTyped DEF ClientGives, ServerTypes, serverVars

-----------------------------------------------------------------------------
(* The whole.                                                              *)

\* What the two ends keep to themselves.
ClientTypes ==
    /\ secure \subseteq Client /\ hung \subseteq Client /\ saidBad \subseteq Foreign
    /\ cli \in [Client -> ClientStates]
    /\ sends \in 0 .. MaxSends /\ kicks \in 0 .. MaxKicks

\* Messages are owed to a session by the close() of another, and paid by its handshake.
OwedTypes == owed \in [Client -> Nat]

LEMMA TypeParts == TypeOK <=> ServerTypes /\ ClientTypes /\ OwedTypes
<1>1. ClientStates = {"idle", "resolving", "dialing", "handshake", "open", "shutting",
                      "failed", "closed"}
  BY DEF ClientStates, Early
<1> QED
  BY <1>1 DEF TypeOK, ServerTypes, ClientTypes, OwedTypes, ServerStates

LEMMA TypePartsNext == ServerTypes' /\ ClientTypes' /\ OwedTypes' => TypeOK'
<1>1. ClientStates = {"idle", "resolving", "dialing", "handshake", "open", "shutting",
                      "failed", "closed"}
  BY DEF ClientStates, Early
<1> QED
  BY <1>1 DEF TypeOK, ServerTypes, ClientTypes, OwedTypes, ServerStates

LEMMA OwedKept == ASSUME TypeOK, Next PROVE OwedTypes'
<1>1. \A c \in Client : owed[c] \in Nat /\ owed[c] + 1 \in Nat
  BY DEF TypeOK
<1>2. \A c \in Client : Gone(c) => OwedTypes'
  BY <1>1 DEF Gone, OwedTypes
<1>3. UNCHANGED owed => OwedTypes'
  BY DEF TypeOK, OwedTypes
<1>4. \A t \in Thread, c \in Client : Close(t, c) => OwedTypes'
  BY <1>2, <1>3 DEF Close
<1>5. ASSUME NEW c \in Client, Handshake(c) PROVE OwedTypes'
  <2>1. "io" \in Thread /\ [owed EXCEPT ![c] = 0] \in [Client -> Nat]
    BY <1>1 DEF Thread, TypeOK
  <2> QED
    BY <1>3, <1>4, <1>5, <2>1 DEF Handshake, OwedTypes
<1>6. ASSUME NEW t \in Thread, ShutdownReturns(t) PROVE OwedTypes'
  <2>1. at[t] \in Client
    BY <1>6 DEF ShutdownReturns, TypeOK
  <2> QED
    BY <1>2, <1>6, <2>1 DEF ShutdownReturns
<1>7. ASSUME NEW c \in Client, ReadEnds(c) \/ Kick(c) PROVE OwedTypes'
  <2>1. "io" \in Thread /\ "gui" \in Thread
    BY DEF Thread
  <2> QED
    BY <1>3, <1>4, <1>7, <2>1 DEF ReadEnds, Kick
<1>8. ASSUME NEW c \in Client, Accept(c) \/ ReadMessage(c) PROVE OwedTypes'
  BY <1>3, <1>8 DEF Accept, ReadMessage, serverVars
<1>9. ASSUME NEW c \in Client, Poll(c) PROVE OwedTypes'
  BY <1>3, <1>9 DEF Poll, Resolve, Dial, ClientHandshake, ClientReads, ClientReadEnds,
                    ClientShutdownReturns, serverVars
<1>10. ASSUME NEW c \in Client, User(c) \/ Hang(c) \/ Lose(c) PROVE OwedTypes'
  BY <1>3, <1>10 DEF User, Connect, Disconnect, Send, Hang, Lose, serverVars
<1>11. "io" \in Thread /\ "gui" \in Thread
  BY DEF Thread
<1> QED
  BY <1>5, <1>6, <1>7, <1>8, <1>9, <1>10, <1>11 DEF Next, IoThread, GuiThread

LEMMA InitHolds == Init => TypeOK /\ IInv
<1> SUFFICES ASSUME Init PROVE TypeOK /\ IInv
  OBVIOUS
<1>1. TypeOK
  BY LinkAssumption DEF Init, TypeOK, LinkAssumption, Thread
<1>2. \A c \in Client : LinkInv(c)
  <2> SUFFICES ASSUME NEW c \in Client PROVE LinkInv(c)
    OBVIOUS
  <2>1. up[c] = <<>> /\ down[c] = <<>> /\ srv[c] = "none" /\ cli[c] = "idle"
    BY DEF Init
  <2>2. \A x : ~Has(up[c], x)
    BY <2>1, HasOne
  <2>3. OneFlight(c)
    BY <2>1 DEF OneFlight
  <2> QED
    BY <2>1, <2>2, <2>3 DEF LinkInv, Undialled, HelloOnce, Finishing, Opened, BadSaid
<1>3. CloseInv /\ PortWaitsOnlyForBad
  BY LinkAssumption DEF Init, CloseInv, PortWaitsOnlyForBad, LinkAssumption, Thread
<1> QED
  BY <1>1, <1>2, <1>3 DEF IInv

LEMMA ServerHolds ==
    ASSUME TypeOK, IInv, IoThread \/ GuiThread
    PROVE  TypeOK' /\ IInv'
<1>1. "io" \in Thread /\ "gui" \in Thread
  BY DEF Thread
<1>2. ServerGives
  BY <1>1, AcceptGives, HandshakeGives, ReadMessageGives, ReadEndsGives, ShutdownReturnsGives,
     KickGives DEF IoThread, GuiThread
<1>3. kicks' \in 0 .. MaxKicks
  <2>1. CASE \E c \in Client : Kick(c)
    BY <2>1, LinkAssumption DEF Kick, TypeOK, LinkAssumption
  <2>2. CASE UNCHANGED kicks
    BY <2>2 DEF TypeOK
  <2> QED
    BY <2>1, <2>2 DEF IoThread, GuiThread, Accept, Handshake, ReadMessage, ReadEnds,
                      ShutdownReturns
<1>4. TypeOK'
  BY <1>2, <1>3, OwedKept, TypeParts, TypePartsNext DEF ServerGives, ClientTypes, Next
<1>5. \A d \in Client : LinkInv(d)'
  BY <1>2, MovedHolds DEF ServerGives, IInv
<1> QED
  BY <1>2, <1>4, <1>5 DEF IInv, ServerGives

LEMMA PollGives ==
    ASSUME TypeOK, IInv, NEW c \in Client, Poll(c)
    PROVE  ClientGives
<1>1. CASE Resolve(c)
  <2>1. /\ UNCHANGED <<serverVars, saidBad, up, down>> /\ cli[c] = "resolving"
        /\ cli'[c] \in {"dialing", "failed"} /\ \A d \in Client \ {c} : cli'[d] = cli[d]
    BY <1>1 DEF Resolve, wireVars, TypeOK
  <2> QED
    BY <2>1, SpokenGives DEF Early
<1>2. CASE Dial(c)
  <2>1. CASE cli' = [cli EXCEPT ![c] = "failed"] /\ UNCHANGED <<srv, up>>
    <3>1. /\ UNCHANGED <<serverVars, saidBad, up, down>> /\ cli'[c] = "failed"
          /\ \A d \in Client \ {c} : cli'[d] = cli[d]
      BY <1>2, <2>1 DEF Dial, serverVars, TypeOK
    <3> QED
      BY <3>1, SpokenGives DEF Early
  <2>2. CASE /\ srv' = [srv EXCEPT ![c] = "backlog"]
             /\ cli' = [cli EXCEPT ![c] = IF c \in secure THEN "handshake" ELSE "open"]
             /\ up' = Put(up, c, IF c \in secure THEN <<"hello">> ELSE <<"message">>)
    <3>1. cli[c] = "dialing" /\ UNCHANGED <<mIsClosed, ended, registered, at, down, saidBad>>
      BY <1>2 DEF Dial
    <3>2. CASE c \in secure
      BY <2>2, <3>1, <3>2, DialledGives
    <3>3. CASE c \notin secure
      BY <2>2, <3>1, <3>3, DialledGives
    <3> QED
      BY <3>2, <3>3
  <2> QED
    BY <1>2, <2>1, <2>2 DEF Dial
<1>3. CASE ClientHandshake(c)
  <2>1. /\ cli[c] = "handshake" /\ down[c] # <<>> /\ down' = Took(down, c)
        /\ UNCHANGED <<serverVars, saidBad>>
    BY <1>3 DEF ClientHandshake
  <2>2. CASE /\ Head(down[c]) = "hello" /\ cli' = [cli EXCEPT ![c] = "open"]
             /\ up' = Put(up, c, <<"finished", "message">>)
    <3>1. <<"finished", "message">> \in Seq(Packet)
      BY DEF Packet
    <3> QED
      BY <2>1, <2>2, <3>1, FlightGives
  <2>3. CASE /\ Head(down[c]) = "hello" /\ cli' = [cli EXCEPT ![c] = "failed"]
             /\ up' = Put(up, c, <<"alert">>)
    <3>1. <<"alert">> \in Seq(Packet)
      BY DEF Packet
    <3> QED
      BY <2>1, <2>3, <3>1, FlightGives
  <2>4. CASE cli' = [cli EXCEPT ![c] = "failed"] /\ UNCHANGED up
    <3>1. cli'[c] = "failed" /\ \A d \in Client \ {c} : cli'[d] = cli[d]
      BY <2>4 DEF TypeOK
    <3> QED
      BY <2>1, <2>4, <3>1, SpokenGives DEF Early
  <2> QED
    BY <1>3, <2>2, <2>3, <2>4 DEF ClientHandshake
<1>4. CASE ClientReads(c)
  BY <1>4, SpokenGives DEF ClientReads, Early
<1>5. CASE ClientReadEnds(c)
  <2>1. /\ UNCHANGED <<serverVars, saidBad>> /\ cli[c] = "open" /\ cli'[c] = "closed"
        /\ down[c] # <<>> /\ down' = Took(down, c) /\ \A d \in Client \ {c} : cli'[d] = cli[d]
    BY <1>5 DEF ClientReadEnds, TypeOK
  <2>2. \E p \in Seq({"message", "bad", "close_notify", "fin"}) :
           up' = Put(up, c, p) /\ ~Has(p, "bad")
    <3>1. up' = Put(up, c, <<"close_notify", "fin">>) \/ up' = Put(up, c, <<"fin">>)
      BY <1>5 DEF ClientReadEnds
    <3>2. /\ <<"close_notify", "fin">> \in Seq({"message", "bad", "close_notify", "fin"})
          /\ <<"fin">> \in Seq({"message", "bad", "close_notify", "fin"})
      OBVIOUS
    <3>3. ~Has(<<"close_notify", "fin">>, "bad") /\ ~Has(<<"fin">>, "bad")
      BY HasOne, HasTwo
    <3> QED
      BY <3>1, <3>2, <3>3
  <2> QED
    BY <2>1, <2>2, SpokenGives DEF Early
<1>6. CASE ClientShutdownReturns(c)
  <2>1. /\ UNCHANGED <<serverVars, saidBad, down>> /\ cli[c] = "shutting" /\ cli'[c] = "closed"
        /\ up' = Put(up, c, <<"fin">>) /\ \A d \in Client \ {c} : cli'[d] = cli[d]
    BY <1>6 DEF ClientShutdownReturns, TypeOK
  <2>2. <<"fin">> \in Seq({"message", "bad", "close_notify", "fin"}) /\ ~Has(<<"fin">>, "bad")
    BY HasOne
  <2> QED
    BY <2>1, <2>2, SpokenGives DEF Early
<1> QED
  BY <1>1, <1>2, <1>3, <1>4, <1>5, <1>6 DEF Poll

LEMMA UserGives ==
    ASSUME TypeOK, IInv, NEW c \in Client, User(c) \/ Hang(c)
    PROVE  ClientGives
<1>1. CASE Connect(c)
  <2>1. /\ UNCHANGED <<serverVars, saidBad, up, down>> /\ cli[c] = "idle"
        /\ cli'[c] = "resolving" /\ \A d \in Client \ {c} : cli'[d] = cli[d]
    BY <1>1 DEF Connect, wireVars, TypeOK
  <2> QED
    BY <2>1, SpokenGives DEF Early
<1>2. CASE Disconnect(c)
  <2>1. /\ UNCHANGED <<serverVars, saidBad, down>> /\ cli'[c] \in {"shutting", "closed"}
        /\ \A d \in Client \ {c} : cli'[d] = cli[d]
    BY <1>2 DEF Disconnect, TypeOK
  <2>2. cli[c] \in Early => up' = up
    BY <1>2 DEF Disconnect, Early, IInv, LinkInv, Undialled
  <2>3. \/ up' = up
        \/ \E p \in Seq({"message", "bad", "close_notify", "fin"}) :
              up' = Put(up, c, p) /\ ~Has(p, "bad")
    <3>1. up' = up \/ up' = Put(up, c, <<"close_notify">>) \/ up' = Put(up, c, <<"fin">>)
      BY <1>2 DEF Disconnect
    <3>2. /\ <<"close_notify">> \in Seq({"message", "bad", "close_notify", "fin"})
          /\ <<"fin">> \in Seq({"message", "bad", "close_notify", "fin"})
      OBVIOUS
    <3>3. ~Has(<<"close_notify">>, "bad") /\ ~Has(<<"fin">>, "bad")
      BY HasOne
    <3> QED
      BY <3>1, <3>2, <3>3
  <2> QED
    BY <2>1, <2>2, <2>3, SpokenGives DEF Early
<1>3. CASE Send(c)
  <2>1. /\ UNCHANGED <<serverVars, down, cli>> /\ cli[c] = "open" /\ saidBad \subseteq saidBad'
    BY <1>3 DEF Send
  <2>2. PICK m \in {"message", "bad"} :
           up' = Put(up, c, <<m>>) /\ (m = "bad" => c \in saidBad')
    BY <1>3 DEF Send
  <2>3. <<m>> \in Seq({"message", "bad", "close_notify", "fin"})
    OBVIOUS
  <2>4. Has(<<m>>, "bad") => c \in saidBad'
    BY <2>2, HasOne
  <2> QED
    BY <2>1, <2>2, <2>3, <2>4, SpokenGives DEF Early
<1>4. CASE Hang(c)
  BY <1>4, SpokenGives DEF Hang, wireVars
<1> QED
  BY <1>1, <1>2, <1>3, <1>4 DEF User

LEMMA ClientHolds ==
    ASSUME TypeOK, IInv, NEW c \in Client, Poll(c) \/ User(c) \/ Hang(c) \/ Lose(c)
    PROVE  TypeOK' /\ IInv'
<1>1. ClientGives
  BY PollGives, UserGives, LoseGives
<1>2. UNCHANGED <<mIsClosed, ended, registered, at, secure, kicks>>
  BY DEF Poll, User, Resolve, Dial, ClientHandshake, ClientReads, ClientReadEnds,
         ClientShutdownReturns, Connect, Disconnect, Send, Hang, Lose, serverVars
<1>3. cli' \in [Client -> ClientStates]
  <2>1. cli' = cli \/ \E x \in ClientStates : cli' = [cli EXCEPT ![c] = x]
    BY DEF Poll, User, Resolve, Dial, ClientHandshake, ClientReads, ClientReadEnds,
           ClientShutdownReturns, Connect, Disconnect, Send, Hang, Lose, ClientStates, Early
  <2> QED
    BY <2>1, TypeParts DEF ClientTypes
<1>4. hung' \subseteq Client
  BY DEF Poll, User, Resolve, Dial, ClientHandshake, ClientReads, ClientReadEnds,
         ClientShutdownReturns, Connect, Disconnect, Send, Hang, Lose, TypeOK
<1>5. saidBad' \subseteq Foreign /\ sends' \in 0 .. MaxSends
  <2>1. CASE Send(c)
    <3>1. sends' = sends + 1 /\ sends < MaxSends
      BY <2>1 DEF Send
    <3>2. saidBad' = saidBad \/ (c \in Foreign /\ saidBad' = saidBad \cup {c})
      BY <2>1 DEF Send
    <3> QED
      BY <3>1, <3>2, LinkAssumption DEF TypeOK, LinkAssumption
  <2>2. CASE UNCHANGED <<saidBad, sends>>
    BY <2>2 DEF TypeOK
  <2> QED
    BY <2>1, <2>2 DEF Poll, User, Resolve, Dial, ClientHandshake, ClientReads, ClientReadEnds,
         ClientShutdownReturns, Connect, Disconnect, Hang, Lose
<1>6. OwedTypes'
  BY OwedKept DEF Next
<1>7. TypeOK'
  BY <1>1, <1>2, <1>3, <1>4, <1>5, <1>6, TypeParts, TypePartsNext
     DEF ClientGives, ServerTypes, ClientTypes
<1> QED
  BY <1>1, <1>7 DEF ClientGives, IInv

LEMMA StepHolds == TypeOK /\ IInv /\ [Next]_vars => TypeOK' /\ IInv'
<1> SUFFICES ASSUME TypeOK, IInv, [Next]_vars PROVE TypeOK' /\ IInv'
  OBVIOUS
<1>1. CASE UNCHANGED vars
  <2>1. TypeOK' /\ CloseInv' /\ PortWaitsOnlyForBad'
    BY <1>1 DEF vars, serverVars, wireVars, TypeOK, IInv, CloseInv, PortWaitsOnlyForBad
  <2>2. \A d \in Client : Moved(d)
    BY <1>1 DEF vars, serverVars, wireVars, Moved
  <2>3. \A d \in Client : LinkInv(d)'
    BY <1>1, <2>2, MovedHolds DEF IInv, vars
  <2> QED
    BY <2>1, <2>3 DEF IInv
<1> QED
  BY <1>1, ServerHolds, ClientHolds DEF Next

\* Every behaviour of a port in secure mode and its clients keeps the types and the
\* invariant.
THEOREM LinkInvariant == Spec => [](TypeOK /\ IInv)
<1>1. Init => TypeOK /\ IInv
  BY InitHolds
<1>2. TypeOK /\ IInv /\ [Next]_vars => (TypeOK /\ IInv)'
  BY StepHolds
<1> QED
  BY <1>1, <1>2, PTL DEF Spec

\* SecureSession::close() on the io thread: whoever connects, kicks, hangs or is lost,
\* the thread that serves every session of the port is in a shutdown() that does not
\* return at once only for a peer that sent what does not decode.
THEOREM PortIsFree == Spec => []PortWaitsOnlyForBad
<1>1. IInv => PortWaitsOnlyForBad
  BY DEF IInv
<1> QED
  BY <1>1, LinkInvariant, PTL

\* A session that close() was called on, by the io thread or by a kick, is in the
\* hands of one thread until it is gone from the manager, and a session leaves the
\* manager only that way.
ClosedByOne ==
    /\ \A c \in mIsClosed : srv[c] # "closed" =>
          /\ c \in registered
          /\ \E t \in Thread : at[t] = c /\ \A u \in Thread : at[u] = c => u = t
    /\ \A c \in Client : srv[c] = "closed" =>
          c \in mIsClosed \ registered /\ \A t \in Thread : at[t] # c

\* SecureSession::close() and mIsClosed: the kick on the GUI thread and the io thread
\* never shut the same stream down, and the close callback finds its session registered.
THEOREM OneThreadCloses == Spec => []ClosedByOne
<1>1. TypeOK /\ IInv => ClosedByOne
  <2> SUFFICES ASSUME TypeOK, CloseInv PROVE ClosedByOne
    BY DEF IInv
  <2>1. \A c \in Client : \A t, u \in Thread : at[t] = c /\ at[u] = c => t = u
    BY LinkAssumption DEF LinkAssumption, CloseInv, Thread
  <2>2. ASSUME NEW c \in mIsClosed, srv[c] # "closed"
        PROVE  c \in registered /\ \E t \in Thread : at[t] = c
    BY <2>2 DEF CloseInv, TypeOK
  <2>3. ASSUME NEW c \in Client, srv[c] = "closed"
        PROVE  c \in mIsClosed \ registered /\ \A t \in Thread : at[t] # c
    BY <2>3, LinkAssumption DEF LinkAssumption, CloseInv
  <2> QED
    BY <2>1, <2>2, <2>3 DEF ClosedByOne, TypeOK
<1> QED
  BY <1>1, LinkInvariant, PTL

=============================================================================
