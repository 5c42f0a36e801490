------------------------ MODULE PublisherClientProofs ------------------------
(***************************************************************************)
(* What holds of PublisherClient for every length of the queue, every      *)
(* number of fragments, connections and heartbeats.                        *)
(***************************************************************************)
EXTENDS PublisherClient, TLAPS

IsFragment(c, i) == up[c][i].type = "F"

(* The fields of the publisher, and where run() is when they are set.      *)
Threads ==
    /\ closed => socket = 0 /\ ~ready
    /\ ~closed => interrupt = 0
    /\ socket # 0 => socket = conn
    /\ ready => socket # 0 /\ run \in {"loop", "reading", "leaving"}
    /\ run \in {"dialed", "signed", "opened"} => conn # 0 /\ socket = 0
    /\ run \in {"loop", "reading", "accepted", "leaving"} =>
           conn # 0 /\ (closed \/ socket = conn)
    /\ run \in {"check", "dialing", "ended"} => socket = 0

(* A connection exists once it is dialled.                                 *)
Connections ==
    \A c \in Conns :
        /\ c > conn <=> server[c] = "none"
        /\ server[c] \in {"none", "gone"} => up[c] = <<>>
        /\ ok[c] => server[c] \in {"pushing", "gone"}
        /\ current = c => server[c] \in {"creating", "pushing"} \/ c \in leaving
        /\ c \in leaving => server[c] = "gone"

(* OK, and so the readiness, comes only after PUSH was handled, once; and  *)
(* only run() knows a connection before PUSH is written.                   *)
Handshake ==
    /\ ready => ~ok[conn] /\ server[conn] \in {"pushing", "gone"}
    /\ run = "accepted" => ~ok[conn] /\ server[conn] \in {"pushing", "gone"}
    /\ run \in {"dialed", "signed"} =>
           up[conn] = <<>> /\ server[conn] \notin {"creating", "pushing"}
    /\ \A c \in Conns :
           /\ server[c] = "waiting"
           /\ link[c] = "open"
           /\ socket = c \/ (run = "opened" /\ conn = c)
           => up[c] # <<>>

(* As long as no PUSH came late, the last source is the one of the stream. *)
LastIsCurrent ==
    /\ latest <= conn
    /\ conn # 0 /\ server[conn] \in {"creating", "pushing"} => latest = conn
    /\ /\ ~overtaken
       /\ latest # 0
       /\ server[latest] \in {"creating", "pushing"}
       => current = latest

(* Fragments are written only once the connection is ready.                *)
NoneBeforeReady ==
    /\ \A c \in Conns : server[c] = "waiting" =>
           \A i \in 1 .. Len(up[c]) : ~IsFragment(c, i)
    /\ ~closed /\ ~ready /\ run \notin {"check", "dialing", "ended"} =>
           /\ \A i \in 1 .. Len(up[conn]) : ~IsFragment(conn, i)
           /\ \A i \in 1 .. Len(received) : received[i].conn # conn

(* What was sent is older than what is queued.                             *)
SentBeforeQueue ==
    /\ \A c \in Conns : \A i \in 1 .. Len(up[c]) :
           IsFragment(c, i) =>
               up[c][i].fragment \in 1 .. handed - Len(pendingQueue)
    /\ \A i \in 1 .. Len(received) :
           received[i].fragment \in 1 .. handed - Len(pendingQueue)
    /\ \A i \in 1 .. Len(received) : received[i].conn <= conn

(* The order of the fragments, within a connection and towards the stream. *)
Ordered ==
    /\ \A c \in Conns : \A i, j \in 1 .. Len(up[c]) :
           i < j /\ IsFragment(c, i) /\ IsFragment(c, j) =>
               up[c][i].fragment < up[c][j].fragment
    /\ \A i, j \in 1 .. Len(received) :
           i < j => received[i].fragment < received[j].fragment
    /\ current # 0 =>
           \A i \in 1 .. Len(received), j \in 1 .. Len(up[current]) :
               IsFragment(current, j) =>
                   received[i].fragment < up[current][j].fragment

(* No number is skipped between two fragments of a connection, nor between *)
(* the last one received and the first on its way.                         *)
Consecutive ==
    /\ \A c \in Conns : \A i, j \in 1 .. Len(up[c]) :
           /\ i < j
           /\ IsFragment(c, i)
           /\ IsFragment(c, j)
           /\ \A k \in i + 1 .. j - 1 : ~IsFragment(c, k)
           => up[c][j].fragment = up[c][i].fragment + 1
    /\ /\ current # 0
       /\ received # <<>>
       /\ received[Len(received)].conn = current
       => \A j \in 1 .. Len(up[current]) :
              /\ IsFragment(current, j)
              /\ \A k \in 1 .. j - 1 : ~IsFragment(current, k)
              => up[current][j].fragment =
                     received[Len(received)].fragment + 1

(* On a connection that lasts, the last fragment sent is the last handed   *)
(* over.                                                                   *)
UpToDate ==
    ready /\ link[conn] = "open" /\ server[conn] = "pushing" =>
        /\ \A j \in 1 .. Len(up[conn]) :
               /\ IsFragment(conn, j)
               /\ \A k \in j + 1 .. Len(up[conn]) : ~IsFragment(conn, k)
               => up[conn][j].fragment = handed
        /\ /\ current = conn
           /\ received # <<>>
           /\ received[Len(received)].conn = conn
           /\ \A k \in 1 .. Len(up[conn]) : ~IsFragment(conn, k)
           => received[Len(received)].fragment = handed

Inv ==
    /\ TypeOK
    /\ Threads
    /\ Connections
    /\ Handshake
    /\ LastIsCurrent
    /\ QueueIsNewest
    /\ ServerUnderstands
    /\ NoneBeforeReady
    /\ SentBeforeQueue
    /\ Ordered
    /\ Consecutive
    /\ UpToDate
    /\ NoGapOnConnection

-----------------------------------------------------------------------------
(* Sequences.                                                              *)

LEMMA Elements ==
    ASSUME NEW S, NEW s \in Seq(S)
    PROVE  /\ Len(s) \in Nat
           /\ \A i \in 1 .. Len(s) : s[i] \in S
           /\ s # <<>> => Len(s) \in 1 .. Len(s)
OBVIOUS

(* The last fragment the stream got.                                       *)
LEMMA LastReceived ==
    ASSUME Inv, received # <<>>
    PROVE  Len(received) \in 1 .. Len(received)
<1>1. received \in Seq([conn : Conns, fragment : 1 .. MaxFragments])
    BY Zenon DEF Inv, TypeOK
<1> QED
    BY <1>1, Elements

LEMMA ReceivedType ==
    ASSUME Inv
    PROVE  \A i \in 1 .. Len(received) :
               /\ received[i] \in [conn : Conns, fragment : 1 .. MaxFragments]
               /\ received[i].conn \in Conns
               /\ received[i].fragment \in 1 .. MaxFragments
<1>a. received \in Seq([conn : Conns, fragment : 1 .. MaxFragments])
    BY Zenon DEF Inv, TypeOK
<1>1. \A i \in 1 .. Len(received) :
          received[i] \in [conn : Conns, fragment : 1 .. MaxFragments]
    BY <1>a, Elements
<1>2. \A r \in [conn : Conns, fragment : 1 .. MaxFragments] :
          r.conn \in Conns /\ r.fragment \in 1 .. MaxFragments
    OBVIOUS
<1> QED
    BY <1>1, <1>2

LEMMA UpType ==
    ASSUME Inv, NEW c \in Conns
    PROVE  /\ up[c] \in Seq(Message)
           /\ \A i \in 1 .. Len(up[c]) :
                  up[c][i] \in Message /\ up[c][i].fragment \in Int
<1>1. up[c] \in Seq(Message)
    BY DEF Inv, TypeOK
<1>2. \A i \in 1 .. Len(up[c]) : up[c][i] \in Message
    BY <1>1
<1> QED
    BY <1>1, <1>2, PublisherClientAssumption DEF Message

LEMMA FragmentFields ==
    \A f : Fragment(f).type = "F" /\ Fragment(f).fragment = f
BY DEF Fragment

(* One message is written: it is the last of its connection, or lost.      *)
LEMMA WriteOne ==
    ASSUME Inv, NEW c \in Conns, NEW m \in Message, Write(c, <<m>>)
    PROVE  /\ up' \in [Conns -> Seq(Message)]
           /\ \A d \in Conns : d # c => up'[d] = up[d]
           /\ \/ /\ link[c] # "open" \/ server[c] = "gone"
                 /\ up' = up
              \/ /\ link[c] = "open" /\ server[c] # "gone"
                 /\ Len(up'[c]) = Len(up[c]) + 1
                 /\ \A i \in 1 .. Len(up[c]) : up'[c][i] = up[c][i]
                 /\ up'[c][Len(up[c]) + 1] = m
<1>1. up \in [Conns -> Seq(Message)]
    BY DEF Inv, TypeOK
<1>2. CASE link[c] = "open" /\ server[c] # "gone"
  <2>1. up' = [up EXCEPT ![c] = up[c] \o <<m>>]
    BY <1>2 DEF Write
  <2>2. up[c] \in Seq(Message) /\ <<m>> \in Seq(Message)
    BY <1>1
  <2>3. /\ up[c] \o <<m>> \in Seq(Message)
        /\ Len(up[c] \o <<m>>) = Len(up[c]) + 1
        /\ \A i \in 1 .. Len(up[c]) : (up[c] \o <<m>>)[i] = up[c][i]
        /\ (up[c] \o <<m>>)[Len(up[c]) + 1] = m
    BY <2>2
  <2> QED
    BY <1>1, <1>2, <2>1, <2>3
<1>3. CASE ~(link[c] = "open" /\ server[c] # "gone")
    BY <1>1, <1>3 DEF Write
<1> QED
    BY <1>2, <1>3

(* The queue is written, or lost.                                          *)
LEMMA WriteQueue ==
    ASSUME Inv, NEW c \in Conns,
           Write(c, [i \in 1 .. Len(pendingQueue) |->
                         Fragment(pendingQueue[i])])
    PROVE  /\ up' \in [Conns -> Seq(Message)]
           /\ \A d \in Conns : d # c => up'[d] = up[d]
           /\ \/ /\ link[c] # "open" \/ server[c] = "gone"
                 /\ up' = up
              \/ /\ link[c] = "open" /\ server[c] # "gone"
                 /\ Len(up'[c]) = Len(up[c]) + Len(pendingQueue)
                 /\ \A i \in 1 .. Len(up[c]) : up'[c][i] = up[c][i]
                 /\ \A i \in 1 .. Len(pendingQueue) :
                        up'[c][Len(up[c]) + i] = Fragment(pendingQueue[i])
<1> DEFINE q == [i \in 1 .. Len(pendingQueue) |-> Fragment(pendingQueue[i])]
<1>1. up \in [Conns -> Seq(Message)] /\ pendingQueue \in Seq(1 .. MaxFragments)
    BY DEF Inv, TypeOK
<1>2. \A i \in 1 .. Len(pendingQueue) : Fragment(pendingQueue[i]) \in Message
    BY <1>1, PublisherClientAssumption DEF Fragment, Message
<1>3. q \in Seq(Message) /\ Len(q) = Len(pendingQueue)
    BY <1>1, <1>2
<1>4. CASE link[c] = "open" /\ server[c] # "gone"
  <2>1. up' = [up EXCEPT ![c] = up[c] \o q]
    BY <1>4 DEF Write
  <2>2. up[c] \in Seq(Message)
    BY <1>1
  <2>3. ASSUME NEW s \in Seq(Message), NEW t \in Seq(Message)
        PROVE  /\ s \o t \in Seq(Message) /\ Len(s \o t) = Len(s) + Len(t)
               /\ \A i \in 1 .. Len(s) : (s \o t)[i] = s[i]
               /\ \A i \in 1 .. Len(t) : (s \o t)[Len(s) + i] = t[i]
    OBVIOUS
  <2>4. /\ up[c] \o q \in Seq(Message)
        /\ Len(up[c] \o q) = Len(up[c]) + Len(pendingQueue)
        /\ \A i \in 1 .. Len(up[c]) : (up[c] \o q)[i] = up[c][i]
        /\ \A i \in 1 .. Len(pendingQueue) :
               (up[c] \o q)[Len(up[c]) + i] = q[i]
    <3> HIDE DEF q
    <3>1. /\ up[c] \o q \in Seq(Message)
          /\ Len(up[c] \o q) = Len(up[c]) + Len(q)
          /\ \A i \in 1 .. Len(up[c]) : (up[c] \o q)[i] = up[c][i]
          /\ \A i \in 1 .. Len(q) : (up[c] \o q)[Len(up[c]) + i] = q[i]
      BY <1>3, <2>2, <2>3
    <3> QED
      BY <1>3, <3>1
  <2> QED
    BY <1>1, <1>4, <2>1, <2>4
<1>5. CASE ~(link[c] = "open" /\ server[c] # "gone")
    BY <1>1, <1>5 DEF Write
<1> QED
    BY <1>4, <1>5

(* A message is read: the others move up.                                  *)
LEMMA ReadOne ==
    ASSUME Inv, NEW c \in Conns, NEW type, Receive(c, type)
    PROVE  /\ up' \in [Conns -> Seq(Message)]
           /\ \A d \in Conns : d # c => up'[d] = up[d]
           /\ Len(up[c]) > 0 /\ Head(up[c]) = up[c][1]
           /\ up[c][1] \in Message /\ up[c][1].type = type
           /\ Len(up'[c]) = Len(up[c]) - 1
           /\ \A i \in 1 .. Len(up'[c]) : up'[c][i] = up[c][i + 1]
<1>1. up \in [Conns -> Seq(Message)]
    BY DEF Inv, TypeOK
<1>2. up[c] \in Seq(Message) /\ up[c] # <<>>
    BY <1>1 DEF Receive
<1>3. up' = [up EXCEPT ![c] = Tail(up[c])] /\ Head(up[c]).type = type
    BY DEF Receive
<1>4. /\ Tail(up[c]) \in Seq(Message)
      /\ Len(up[c]) > 0 /\ Head(up[c]) = up[c][1] /\ up[c][1] \in Message
      /\ Len(Tail(up[c])) = Len(up[c]) - 1
      /\ \A i \in 1 .. Len(Tail(up[c])) : Tail(up[c])[i] = up[c][i + 1]
    BY <1>2
<1> QED
    BY <1>1, <1>3, <1>4

-----------------------------------------------------------------------------
(* Steps that leave the messages alone.                                    *)

(* The order on the way depends on few variables.                          *)
LEMMA SameOrder ==
    ASSUME Inv, UNCHANGED <<up, received, current>>
    PROVE  Ordered' /\ Consecutive' /\ NoGapOnConnection'
<1>1. Ordered'
    BY DEF Inv, Ordered, IsFragment
<1>2. Consecutive'
    BY DEF Inv, Consecutive, IsFragment
<1>3. NoGapOnConnection'
    BY DEF Inv, NoGapOnConnection
<1> QED
    BY <1>1, <1>2, <1>3

LEMMA SameMessages ==
    ASSUME Inv, UNCHANGED <<up, server, closed>>
    PROVE  ServerUnderstands'
BY Zenon DEF Inv, ServerUnderstands

(* Only run() moves.                                                       *)
LEMMA RunMoves ==
    ASSUME Inv, Check \/ DialFails \/ SignToken \/ ReadLoop \/ ReadFails
    PROVE  Inv'
<1>1. /\ UNCHANGED <<closed, ready, socket, pendingQueue, interrupt, handed>>
      /\ UNCHANGED <<conn, heartbeat, heartbeats, link, up, ok>>
      /\ UNCHANGED <<server, leaving, current, received, latest, overtaken>>
    BY DEF Check, DialFails, SignToken, ReadLoop, ReadFails, publisherVars,
       networkVars, serverVars
<1>2. \/ run = "check" /\ run' \in {"ended", "dialing"}
      \/ run = "dialing" /\ run' = "check"
      \/ run = "dialed" /\ run' = "signed"
      \/ run = "loop" /\ run' \in {"leaving", "reading"}
      \/ run = "reading" /\ run' = "leaving"
    BY DEF Check, DialFails, SignToken, ReadLoop, ReadFails, RunTo
<1>3. TypeOK'
    BY <1>1, <1>2 DEF Inv, TypeOK
<1>4. Threads'
    BY <1>1, <1>2 DEF Inv, Threads
<1>5. Connections' /\ LastIsCurrent' /\ QueueIsNewest'
    BY <1>1 DEF Inv, Connections, LastIsCurrent, QueueIsNewest
<1>6. Handshake'
    BY <1>1, <1>2 DEF Inv, Handshake
<1>7. NoneBeforeReady'
    BY <1>1, <1>2 DEF Inv, NoneBeforeReady, IsFragment
<1>8. SentBeforeQueue' /\ UpToDate'
    BY <1>1 DEF Inv, SentBeforeQueue, UpToDate, IsFragment
<1>9. ServerUnderstands'
    BY <1>1, SameMessages
<1>10. Ordered' /\ Consecutive' /\ NoGapOnConnection'
    BY <1>1, SameOrder
<1> QED
    BY <1>3, <1>4, <1>5, <1>6, <1>7, <1>8, <1>9, <1>10 DEF Inv

LEMMA OnConnectedStep == ASSUME Inv, OnConnected PROVE Inv'
<1>1. TypeOK'
    BY PublisherClientAssumption DEF Inv, TypeOK, OnConnected, RunTo, Conns,
       publisherVars, threadVars, networkVars, serverVars
<1>2. Threads'
    BY PublisherClientAssumption DEF Inv, Threads, TypeOK, OnConnected, RunTo,
       Conns, publisherVars, threadVars, networkVars, serverVars
<1>3. Connections'
    BY PublisherClientAssumption DEF Inv, Connections, TypeOK, Threads,
       OnConnected, RunTo, Conns, publisherVars, threadVars, networkVars,
       serverVars
<1>4. Handshake'
    BY PublisherClientAssumption DEF Inv, Handshake, TypeOK, Threads,
       Connections, OnConnected, RunTo, Conns, publisherVars, threadVars,
       networkVars, serverVars
<1>5. LastIsCurrent'
    BY PublisherClientAssumption DEF Inv, LastIsCurrent, TypeOK, Connections,
       OnConnected, RunTo, Conns, publisherVars, threadVars, networkVars,
       serverVars
<1>6. QueueIsNewest'
    BY PublisherClientAssumption DEF Inv, QueueIsNewest, TypeOK, Threads,
       OnConnected, RunTo, Conns, publisherVars, threadVars, networkVars,
       serverVars
<1>7. NoneBeforeReady'
    BY PublisherClientAssumption DEF Inv, NoneBeforeReady, TypeOK, Threads,
       Connections, SentBeforeQueue, IsFragment, OnConnected, RunTo, Conns,
       publisherVars, threadVars, networkVars, serverVars
<1>8. SentBeforeQueue'
    BY PublisherClientAssumption DEF Inv, SentBeforeQueue, TypeOK, IsFragment,
       QueueIsNewest, Threads, OnConnected, RunTo, Conns, publisherVars,
       threadVars, networkVars, serverVars
<1>9. UpToDate'
    BY PublisherClientAssumption DEF Inv, UpToDate, IsFragment, TypeOK,
       Threads, Connections, SentBeforeQueue, OnConnected, RunTo, Conns,
       publisherVars, threadVars, networkVars, serverVars
<1>10. ServerUnderstands'
    BY SameMessages DEF OnConnected, RunTo, publisherVars, threadVars,
       networkVars, serverVars
<1>11. Ordered' /\ Consecutive' /\ NoGapOnConnection'
    BY SameOrder DEF OnConnected, RunTo, publisherVars, threadVars,
       networkVars, serverVars
<1> QED
    BY <1>1, <1>2, <1>3, <1>4, <1>5, <1>6, <1>7, <1>8, <1>9, <1>10,
       <1>11 DEF Inv

LEMMA ReadOKStep == ASSUME Inv, ReadOK PROVE Inv'
<1>1. TypeOK'
    BY PublisherClientAssumption DEF Inv, TypeOK, ReadOK, RunTo, Conns,
       publisherVars, threadVars, networkVars, serverVars
<1>2. Threads'
    BY PublisherClientAssumption DEF Inv, Threads, TypeOK, Handshake, ReadOK,
       RunTo, Conns, publisherVars, threadVars, networkVars, serverVars
<1>3. Connections'
    BY PublisherClientAssumption DEF Inv, Connections, TypeOK, Threads,
       ReadOK, RunTo, Conns, publisherVars, threadVars, networkVars, serverVars
<1>4. Handshake'
    BY PublisherClientAssumption DEF Inv, Handshake, TypeOK, Threads,
       Connections, ReadOK, RunTo, Conns, publisherVars, threadVars,
       networkVars, serverVars
<1>5. LastIsCurrent'
    BY PublisherClientAssumption DEF Inv, LastIsCurrent, TypeOK, Connections,
       ReadOK, RunTo, Conns, publisherVars, threadVars, networkVars, serverVars
<1>6. QueueIsNewest'
    BY PublisherClientAssumption DEF Inv, QueueIsNewest, TypeOK, Threads,
       ReadOK, RunTo, Conns, publisherVars, threadVars, networkVars, serverVars
<1>7. NoneBeforeReady'
    BY PublisherClientAssumption DEF Inv, NoneBeforeReady, TypeOK, Threads,
       Connections, SentBeforeQueue, IsFragment, ReadOK, RunTo, Conns,
       publisherVars, threadVars, networkVars, serverVars
<1>8. SentBeforeQueue'
    BY PublisherClientAssumption DEF Inv, SentBeforeQueue, TypeOK, IsFragment,
       QueueIsNewest, Threads, ReadOK, RunTo, Conns, publisherVars,
       threadVars, networkVars, serverVars
<1>9. UpToDate'
    BY PublisherClientAssumption DEF Inv, UpToDate, IsFragment, TypeOK,
       Threads, Connections, SentBeforeQueue, ReadOK, RunTo, Conns,
       publisherVars, threadVars, networkVars, serverVars
<1>10. ServerUnderstands'
    BY SameMessages DEF ReadOK, RunTo, publisherVars, threadVars, networkVars,
       serverVars
<1>11. Ordered' /\ Consecutive' /\ NoGapOnConnection'
    BY SameOrder DEF ReadOK, RunTo, publisherVars, threadVars, networkVars,
       serverVars
<1> QED
    BY <1>1, <1>2, <1>3, <1>4, <1>5, <1>6, <1>7, <1>8, <1>9, <1>10,
       <1>11 DEF Inv

LEMMA ClosedWhileDialingStep == ASSUME Inv, ClosedWhileDialing PROVE Inv'
<1>1. TypeOK'
    BY PublisherClientAssumption DEF Inv, TypeOK, ClosedWhileDialing, RunTo,
       Conns, publisherVars, threadVars, networkVars, serverVars
<1>2. Threads'
    BY PublisherClientAssumption DEF Inv, Threads, TypeOK, Handshake,
       ClosedWhileDialing, RunTo, Conns, publisherVars, threadVars,
       networkVars, serverVars
<1>3. Connections'
    BY PublisherClientAssumption DEF Inv, Connections, TypeOK, Threads,
       ClosedWhileDialing, RunTo, Conns, publisherVars, threadVars,
       networkVars, serverVars
<1>4. Handshake'
    BY PublisherClientAssumption DEF Inv, Handshake, TypeOK, Threads,
       Connections, ClosedWhileDialing, RunTo, Conns, publisherVars,
       threadVars, networkVars, serverVars
<1>5. LastIsCurrent'
    BY PublisherClientAssumption DEF Inv, LastIsCurrent, TypeOK, Connections,
       ClosedWhileDialing, RunTo, Conns, publisherVars, threadVars,
       networkVars, serverVars
<1>6. QueueIsNewest'
    BY PublisherClientAssumption DEF Inv, QueueIsNewest, TypeOK, Threads,
       ClosedWhileDialing, RunTo, Conns, publisherVars, threadVars,
       networkVars, serverVars
<1>7. NoneBeforeReady'
    BY PublisherClientAssumption DEF Inv, NoneBeforeReady, TypeOK, Threads,
       Connections, SentBeforeQueue, IsFragment, ClosedWhileDialing, RunTo,
       Conns, publisherVars, threadVars, networkVars, serverVars
<1>8. SentBeforeQueue'
    BY PublisherClientAssumption DEF Inv, SentBeforeQueue, TypeOK, IsFragment,
       QueueIsNewest, Threads, ClosedWhileDialing, RunTo, Conns,
       publisherVars, threadVars, networkVars, serverVars
<1>9. UpToDate'
    BY PublisherClientAssumption DEF Inv, UpToDate, IsFragment, TypeOK,
       Threads, Connections, SentBeforeQueue, ClosedWhileDialing, RunTo,
       Conns, publisherVars, threadVars, networkVars, serverVars
<1>10. ServerUnderstands'
    BY SameMessages DEF ClosedWhileDialing, RunTo, publisherVars, threadVars,
       networkVars, serverVars
<1>11. Ordered' /\ Consecutive' /\ NoGapOnConnection'
    BY SameOrder DEF ClosedWhileDialing, RunTo, publisherVars, threadVars,
       networkVars, serverVars
<1> QED
    BY <1>1, <1>2, <1>3, <1>4, <1>5, <1>6, <1>7, <1>8, <1>9, <1>10,
       <1>11 DEF Inv

LEMMA OnDisconnectedStep == ASSUME Inv, OnDisconnected PROVE Inv'
<1>1. TypeOK'
  <2>1. ready' \in BOOLEAN
    BY Zenon DEF Inv, TypeOK, OnDisconnected
  <2>2. socket' \in 0 .. MaxConnections
    BY PublisherClientAssumption DEF Inv, TypeOK, OnDisconnected
  <2> QED
    BY <2>1, <2>2 DEF Inv, TypeOK, OnDisconnected, RunTo, publisherVars,
       threadVars, networkVars, serverVars
<1>2. Threads'
    BY PublisherClientAssumption DEF Inv, Threads, TypeOK, Handshake,
       OnDisconnected, RunTo, Conns, publisherVars, threadVars, networkVars,
       serverVars
<1>3. Connections'
    BY PublisherClientAssumption DEF Inv, Connections, TypeOK, Threads,
       OnDisconnected, RunTo, Conns, publisherVars, threadVars, networkVars,
       serverVars
<1>4. Handshake'
    BY PublisherClientAssumption DEF Inv, Handshake, TypeOK, Threads,
       Connections, OnDisconnected, RunTo, Conns, publisherVars, threadVars,
       networkVars, serverVars
<1>5. LastIsCurrent'
    BY PublisherClientAssumption DEF Inv, LastIsCurrent, TypeOK, Connections,
       OnDisconnected, RunTo, Conns, publisherVars, threadVars, networkVars,
       serverVars
<1>6. QueueIsNewest'
    BY PublisherClientAssumption DEF Inv, QueueIsNewest, TypeOK, Threads,
       OnDisconnected, RunTo, Conns, publisherVars, threadVars, networkVars,
       serverVars
<1>7. NoneBeforeReady'
    BY PublisherClientAssumption DEF Inv, NoneBeforeReady, TypeOK, Threads,
       Connections, SentBeforeQueue, IsFragment, OnDisconnected, RunTo, Conns,
       publisherVars, threadVars, networkVars, serverVars
<1>8. SentBeforeQueue'
    BY PublisherClientAssumption DEF Inv, SentBeforeQueue, TypeOK, IsFragment,
       QueueIsNewest, Threads, OnDisconnected, RunTo, Conns, publisherVars,
       threadVars, networkVars, serverVars
<1>9. UpToDate'
    BY PublisherClientAssumption DEF Inv, UpToDate, IsFragment, TypeOK,
       Threads, Connections, SentBeforeQueue, OnDisconnected, RunTo, Conns,
       publisherVars, threadVars, networkVars, serverVars
<1>10. ServerUnderstands'
    BY SameMessages DEF OnDisconnected, RunTo, publisherVars, threadVars,
       networkVars, serverVars
<1>11. Ordered' /\ Consecutive' /\ NoGapOnConnection'
    BY SameOrder DEF OnDisconnected, RunTo, publisherVars, threadVars,
       networkVars, serverVars
<1> QED
    BY <1>1, <1>2, <1>3, <1>4, <1>5, <1>6, <1>7, <1>8, <1>9, <1>10,
       <1>11 DEF Inv

LEMMA HeartbeatStopsStep == ASSUME Inv, HeartbeatStops PROVE Inv'
<1>1. TypeOK'
  <2>1. interrupt' \in 0 .. 1
    BY DEF Inv, TypeOK, HeartbeatStops
  <2> QED
    BY <2>1 DEF Inv, TypeOK, HeartbeatStops, publisherVars, threadVars,
       networkVars, serverVars
<1>2. Threads'
    BY PublisherClientAssumption DEF Inv, Threads, TypeOK, Handshake,
       HeartbeatStops, Conns, publisherVars, threadVars, networkVars,
       serverVars
<1>3. Connections'
    BY PublisherClientAssumption DEF Inv, Connections, TypeOK, Threads,
       HeartbeatStops, Conns, publisherVars, threadVars, networkVars,
       serverVars
<1>4. Handshake'
    BY PublisherClientAssumption DEF Inv, Handshake, TypeOK, Threads,
       Connections, HeartbeatStops, Conns, publisherVars, threadVars,
       networkVars, serverVars
<1>5. LastIsCurrent'
    BY PublisherClientAssumption DEF Inv, LastIsCurrent, TypeOK, Connections,
       HeartbeatStops, Conns, publisherVars, threadVars, networkVars,
       serverVars
<1>6. QueueIsNewest'
    BY PublisherClientAssumption DEF Inv, QueueIsNewest, TypeOK, Threads,
       HeartbeatStops, Conns, publisherVars, threadVars, networkVars,
       serverVars
<1>7. NoneBeforeReady'
    BY PublisherClientAssumption DEF Inv, NoneBeforeReady, TypeOK, Threads,
       Connections, SentBeforeQueue, IsFragment, HeartbeatStops, Conns,
       publisherVars, threadVars, networkVars, serverVars
<1>8. SentBeforeQueue'
    BY PublisherClientAssumption DEF Inv, SentBeforeQueue, TypeOK, IsFragment,
       QueueIsNewest, Threads, HeartbeatStops, Conns, publisherVars,
       threadVars, networkVars, serverVars
<1>9. UpToDate'
    BY PublisherClientAssumption DEF Inv, UpToDate, IsFragment, TypeOK,
       Threads, Connections, SentBeforeQueue, HeartbeatStops, Conns,
       publisherVars, threadVars, networkVars, serverVars
<1>10. ServerUnderstands'
    BY SameMessages DEF HeartbeatStops, publisherVars, threadVars,
       networkVars, serverVars
<1>11. Ordered' /\ Consecutive' /\ NoGapOnConnection'
    BY SameOrder DEF HeartbeatStops, publisherVars, threadVars, networkVars,
       serverVars
<1> QED
    BY <1>1, <1>2, <1>3, <1>4, <1>5, <1>6, <1>7, <1>8, <1>9, <1>10,
       <1>11 DEF Inv

LEMMA BreakStep == ASSUME Inv, NEW c \in Conns, Break(c) PROVE Inv'
<1>1. TypeOK'
    BY PublisherClientAssumption DEF Inv, TypeOK, Break, Conns, publisherVars,
       threadVars, networkVars, serverVars
<1>2. Threads'
    BY PublisherClientAssumption DEF Inv, Threads, TypeOK, Handshake, Break,
       Conns, publisherVars, threadVars, networkVars, serverVars
<1>3. Connections'
    BY PublisherClientAssumption DEF Inv, Connections, TypeOK, Threads, Break,
       Conns, publisherVars, threadVars, networkVars, serverVars
<1>4. Handshake'
    BY PublisherClientAssumption DEF Inv, Handshake, TypeOK, Threads,
       Connections, Break, Conns, publisherVars, threadVars, networkVars,
       serverVars
<1>5. LastIsCurrent'
    BY PublisherClientAssumption DEF Inv, LastIsCurrent, TypeOK, Connections,
       Break, Conns, publisherVars, threadVars, networkVars, serverVars
<1>6. QueueIsNewest'
    BY PublisherClientAssumption DEF Inv, QueueIsNewest, TypeOK, Threads,
       Break, Conns, publisherVars, threadVars, networkVars, serverVars
<1>7. NoneBeforeReady'
    BY PublisherClientAssumption DEF Inv, NoneBeforeReady, TypeOK, Threads,
       Connections, SentBeforeQueue, IsFragment, Break, Conns, publisherVars,
       threadVars, networkVars, serverVars
<1>8. SentBeforeQueue'
    BY PublisherClientAssumption DEF Inv, SentBeforeQueue, TypeOK, IsFragment,
       QueueIsNewest, Threads, Break, Conns, publisherVars, threadVars,
       networkVars, serverVars
<1>9. UpToDate'
    BY PublisherClientAssumption DEF Inv, UpToDate, IsFragment, TypeOK,
       Threads, Connections, SentBeforeQueue, Break, Conns, publisherVars,
       threadVars, networkVars, serverVars
<1>10. ServerUnderstands'
    BY SameMessages DEF Break, publisherVars, threadVars, networkVars,
       serverVars
<1>11. Ordered' /\ Consecutive' /\ NoGapOnConnection'
    BY SameOrder DEF Break, publisherVars, threadVars, networkVars, serverVars
<1> QED
    BY <1>1, <1>2, <1>3, <1>4, <1>5, <1>6, <1>7, <1>8, <1>9, <1>10,
       <1>11 DEF Inv

LEMMA DialStep == ASSUME Inv, Dial PROVE Inv'
<1>a. conn \in Nat /\ conn + 1 \in Conns /\ conn' = conn + 1
    BY PublisherClientAssumption DEF Inv, TypeOK, Dial, Conns
<1>b. /\ server[conn + 1] = "none" /\ up[conn + 1] = <<>> /\ ~ok[conn + 1]
      /\ \A i \in 1 .. Len(up[conn + 1]) : FALSE
  <2>1. conn + 1 > conn
    BY <1>a
  <2>2. server[conn + 1] = "none" /\ up[conn + 1] = <<>> /\ ~ok[conn + 1]
    BY <1>a, <2>1 DEF Inv, Connections
  <2> QED
    BY <2>2
<1>c. socket = 0 /\ ~ready /\ run' = "dialed"
    BY DEF Inv, Threads, Dial, RunTo
<1>d. server' = [server EXCEPT ![conn + 1] = "waiting"]
    BY DEF Dial
<1>e. \A c \in Conns : c # conn + 1 => server'[c] = server[c]
    BY <1>d DEF Inv, TypeOK
<1>f. UNCHANGED <<publisherVars, up, ok, leaving, current, received, latest,
                  overtaken>>
    BY DEF Dial
<1>1. TypeOK'
    BY PublisherClientAssumption DEF Inv, TypeOK, Dial, RunTo, Conns,
       publisherVars, threadVars, networkVars, serverVars
<1>2. Threads'
    BY PublisherClientAssumption DEF Inv, Threads, TypeOK, Handshake, Dial,
       RunTo, Conns, publisherVars, threadVars, networkVars, serverVars
<1>3. Connections'
    BY <1>a, <1>b, <1>c, <1>d, <1>f DEF Inv, TypeOK, Connections, Conns
<1>4. Handshake'
    BY <1>a, <1>b, <1>c, <1>d, <1>f
       DEF Inv, TypeOK, Handshake, Conns, publisherVars
<1>5. LastIsCurrent'
    BY <1>a, <1>b, <1>c, <1>d, <1>f DEF Inv, TypeOK, LastIsCurrent, Conns
<1>6. QueueIsNewest'
    BY PublisherClientAssumption DEF Inv, QueueIsNewest, TypeOK, Threads,
       Dial, RunTo, Conns, publisherVars, threadVars, networkVars, serverVars
<1>7. ServerUnderstands'
  <2> SUFFICES ASSUME NEW c \in Conns, NEW i \in 1 .. Len(up[c])
               PROVE  /\ up[c][i].type = "PUSH" <=>
                             (i = 1 /\ server'[c] = "waiting")
                      /\ up[c][i].type = "CLOSE" => i = Len(up[c]) /\ closed
    BY <1>f DEF ServerUnderstands, publisherVars
  <2>1. c # conn + 1
    BY <1>b
  <2> QED
    BY <2>1, <1>e DEF Inv, ServerUnderstands
<1>8. NoneBeforeReady'
  <2>1. \A c \in Conns : server'[c] = "waiting" =>
             \A i \in 1 .. Len(up[c]) : ~IsFragment(c, i)
    BY <1>b, <1>e DEF Inv, NoneBeforeReady
  <2>2. \A i \in 1 .. Len(received) : received[i].conn # conn + 1
    BY <1>a, ReceivedType DEF Inv, SentBeforeQueue, Conns
  <2> QED
    BY <1>a, <1>b, <1>f, <2>1, <2>2 DEF NoneBeforeReady, IsFragment
<1>9. SentBeforeQueue'
  <2>1. \A i \in 1 .. Len(received) : received[i].conn <= conn + 1
    BY <1>a, ReceivedType DEF Inv, SentBeforeQueue, Conns
  <2>2. \A c \in Conns : \A i \in 1 .. Len(up[c]) :
            IsFragment(c, i) =>
                up[c][i].fragment \in 1 .. handed - Len(pendingQueue)
    BY DEF Inv, SentBeforeQueue
  <2>3. \A i \in 1 .. Len(received) :
            received[i].fragment \in 1 .. handed - Len(pendingQueue)
    BY DEF Inv, SentBeforeQueue
  <2>4. /\ up' = up /\ received' = received /\ conn' = conn + 1
        /\ handed' = handed /\ pendingQueue' = pendingQueue
    BY <1>a, <1>f DEF publisherVars
  <2> QED
    BY Zenon, <2>1, <2>2, <2>3, <2>4 DEF SentBeforeQueue, IsFragment
<1>10. UpToDate'
    BY <1>c, <1>f DEF UpToDate, publisherVars
<1>11. Ordered' /\ Consecutive' /\ NoGapOnConnection'
    BY SameOrder DEF Dial, RunTo, publisherVars, threadVars, networkVars,
       serverVars
<1> QED
    BY <1>1, <1>2, <1>3, <1>4, <1>5, <1>6, <1>7, <1>8, <1>9, <1>10,
       <1>11 DEF Inv

-----------------------------------------------------------------------------
(* Steps that write.                                                       *)

(* A message that is not a fragment does not disturb the fragments.        *)
LEMMA OtherWritten ==
    ASSUME Inv, NEW c \in Conns, NEW m \in Message, m.type # "F",
           Write(c, <<m>>), UNCHANGED <<received, current>>
    PROVE  /\ Ordered' /\ Consecutive' /\ NoGapOnConnection'
           /\ \A d \in Conns : \A i \in 1 .. Len(up'[d]) :
                  up'[d][i].type = "F" =>
                      i \in 1 .. Len(up[d]) /\ up'[d][i] = up[d][i]
<1>1. \A d \in Conns : \A i \in 1 .. Len(up'[d]) : up'[d][i].type = "F" =>
          i \in 1 .. Len(up[d]) /\ up'[d][i] = up[d][i]
    BY WriteOne, UpType
<1>2. \A d \in Conns : \A i \in 1 .. Len(up[d]) :
          i \in 1 .. Len(up'[d]) /\ up'[d][i] = up[d][i]
    BY WriteOne, UpType
<1>3. current \in Conns \/ current = 0
    BY PublisherClientAssumption DEF Inv, TypeOK, Conns
<1>4. Ordered'
  <2>1. ASSUME NEW d \in Conns, NEW i \in 1 .. Len(up'[d]),
               NEW j \in 1 .. Len(up'[d]), i < j,
               up'[d][i].type = "F", up'[d][j].type = "F"
        PROVE  up'[d][i].fragment < up'[d][j].fragment
    <3>1. /\ i \in 1 .. Len(up[d]) /\ up'[d][i] = up[d][i]
          /\ j \in 1 .. Len(up[d]) /\ up'[d][j] = up[d][j]
      BY <1>1, <2>1
    <3> QED
      BY <2>1, <3>1 DEF Inv, Ordered, IsFragment
  <2>2. ASSUME current # 0, NEW i \in 1 .. Len(received),
               NEW j \in 1 .. Len(up'[current]), up'[current][j].type = "F"
        PROVE  received[i].fragment < up'[current][j].fragment
    <3>1. j \in 1 .. Len(up[current]) /\ up'[current][j] = up[current][j]
      BY <1>1, <1>3, <2>2
    <3> QED
      BY <2>2, <3>1 DEF Inv, Ordered, IsFragment
  <2>3. \A i, j \in 1 .. Len(received) :
            i < j => received[i].fragment < received[j].fragment
    BY DEF Inv, Ordered
  <2> QED
    BY <2>1, <2>2, <2>3 DEF Ordered, IsFragment
<1>5. Consecutive'
  <2>1. ASSUME NEW d \in Conns, NEW i \in 1 .. Len(up'[d]),
               NEW j \in 1 .. Len(up'[d]), i < j,
               up'[d][i].type = "F", up'[d][j].type = "F",
               \A k \in i + 1 .. j - 1 : up'[d][k].type # "F"
        PROVE  up'[d][j].fragment = up'[d][i].fragment + 1
    <3>1. /\ i \in 1 .. Len(up[d]) /\ up'[d][i] = up[d][i]
          /\ j \in 1 .. Len(up[d]) /\ up'[d][j] = up[d][j]
      BY <1>1, <2>1
    <3>2. \A k \in i + 1 .. j - 1 : up[d][k].type # "F"
      BY SMTT(30), <1>2, <2>1, <3>1, UpType
    <3> QED
      BY <2>1, <3>1, <3>2 DEF Inv, Consecutive, IsFragment
  <2>2. ASSUME current # 0, received # <<>>,
               received[Len(received)].conn = current,
               NEW j \in 1 .. Len(up'[current]), up'[current][j].type = "F",
               \A k \in 1 .. j - 1 : up'[current][k].type # "F"
        PROVE  up'[current][j].fragment =
                   received[Len(received)].fragment + 1
    <3>1. j \in 1 .. Len(up[current]) /\ up'[current][j] = up[current][j]
      BY <1>1, <1>3, <2>2
    <3>2. \A k \in 1 .. j - 1 : up[current][k].type # "F"
      <4>1. current \in Conns /\ Len(up[current]) \in Nat
        BY <1>3, <2>2, UpType
      <4>2. \A k \in 1 .. j - 1 : k \in 1 .. Len(up[current])
        BY <3>1, <4>1
      <4>3. \A k \in 1 .. Len(up[current]) :
                up'[current][k] = up[current][k]
        BY <1>2, <4>1
      <4> QED
        BY <2>2, <4>2, <4>3
    <3> QED
      BY <2>2, <3>1, <3>2 DEF Inv, Consecutive, IsFragment
  <2> QED
    BY <2>1, <2>2 DEF Consecutive, IsFragment
<1>6. NoGapOnConnection'
    BY DEF Inv, NoGapOnConnection
<1> QED
    BY <1>1, <1>4, <1>5, <1>6

(* Fragments written at the end of a connection go on where the last       *)
(* fragment of that connection left off.                                   *)
LEMMA FragmentsWritten ==
    ASSUME Inv, NEW c \in Conns, NEW n \in Nat, NEW base \in Int,
           UNCHANGED <<received, current>>,
           \A d \in Conns : d # c => up'[d] = up[d],
           Len(up'[c]) = Len(up[c]) + n,
           \A i \in 1 .. Len(up[c]) : up'[c][i] = up[c][i],
           \A i \in 1 .. n : up'[c][Len(up[c]) + i] = Fragment(base + i),
           \A i \in 1 .. Len(up[c]) :
               up[c][i].type = "F" => up[c][i].fragment <= base,
           \A i \in 1 .. Len(up[c]) :
               /\ up[c][i].type = "F"
               /\ \A k \in i + 1 .. Len(up[c]) : up[c][k].type # "F"
               => up[c][i].fragment = base,
           \A i \in 1 .. Len(received) : received[i].fragment <= base,
           /\ current = c
           /\ received # <<>>
           /\ received[Len(received)].conn = c
           /\ \A k \in 1 .. Len(up[c]) : up[c][k].type # "F"
           => received[Len(received)].fragment = base
    PROVE  Ordered' /\ Consecutive' /\ NoGapOnConnection'
<1>1. Len(up[c]) \in Nat /\ c # 0
    BY UpType DEF Conns
<1>2. /\ \A i \in 1 .. Len(up[c]) : up[c][i].fragment \in Int
      /\ \A i \in 1 .. Len(received) : received[i].fragment \in Int
    BY UpType, ReceivedType
<1>3. ASSUME NEW i \in 1 .. Len(up'[c])
      PROVE  \/ i \in 1 .. Len(up[c]) /\ up'[c][i] = up[c][i]
             \/ \E m \in 1 .. n : /\ i = Len(up[c]) + m
                                  /\ up'[c][i].type = "F"
                                  /\ up'[c][i].fragment = base + m
  <2>1. CASE i \in 1 .. Len(up[c])
    BY <2>1
  <2>2. CASE i \notin 1 .. Len(up[c])
    <3> DEFINE m == i - Len(up[c])
    <3>1. m \in 1 .. n /\ i = Len(up[c]) + m
      BY <1>1, <2>2
    <3>2. up'[c][i] = Fragment(base + m)
      BY <3>1
    <3> HIDE DEF m
    <3>3. up'[c][i].type = "F" /\ up'[c][i].fragment = base + m
      BY <3>2, FragmentFields
    <3> QED
      BY <3>1, <3>3
  <2> QED
    BY <2>1, <2>2
<1>4. ASSUME NEW m \in 1 .. n
      PROVE  /\ Len(up[c]) + m \in 1 .. Len(up'[c])
             /\ up'[c][Len(up[c]) + m].type = "F"
  <2>1. Len(up[c]) + m \in 1 .. Len(up'[c])
    BY <1>1
  <2>2. up'[c][Len(up[c]) + m].type = "F"
    BY FragmentFields
  <2> QED
    BY <2>1, <2>2
<1>5. Ordered'
  <2>1. ASSUME NEW d \in Conns, NEW i \in 1 .. Len(up'[d]),
               NEW j \in 1 .. Len(up'[d]), i < j,
               up'[d][i].type = "F", up'[d][j].type = "F"
        PROVE  up'[d][i].fragment < up'[d][j].fragment
    <3>1. CASE d # c
      BY <2>1, <3>1 DEF Inv, Ordered, IsFragment
    <3>2. CASE d = c /\ j \in 1 .. Len(up[c]) /\ up'[c][j] = up[c][j]
      <4>1. i \in 1 .. Len(up[c]) /\ up'[c][i] = up[c][i]
        BY <1>1, <2>1, <3>2
      <4> QED
        BY <2>1, <3>2, <4>1 DEF Inv, Ordered, IsFragment
    <3>3. ASSUME d = c, NEW m \in 1 .. n, j = Len(up[c]) + m,
                 up'[c][j].fragment = base + m
          PROVE  up'[c][i].fragment < up'[c][j].fragment
      <4>1. CASE i \in 1 .. Len(up[c]) /\ up'[c][i] = up[c][i]
        <5>1. up[c][i].fragment <= base
          BY <2>1, <3>3, <4>1
        <5> QED
          BY <1>2, <3>3, <4>1, <5>1
      <4>2. ASSUME NEW l \in 1 .. n, i = Len(up[c]) + l,
                   up'[c][i].fragment = base + l
            PROVE  up'[c][i].fragment < up'[c][j].fragment
        <5>1. l < m
          BY <1>1, <2>1, <3>3, <4>2
        <5> QED
          BY <3>3, <4>2, <5>1
      <4> QED
        BY <1>3, <3>3, <4>1, <4>2
    <3> QED
      BY <1>3, <3>1, <3>2, <3>3
  <2>2. \A i, j \in 1 .. Len(received) :
            i < j => received[i].fragment < received[j].fragment
    BY DEF Inv, Ordered
  <2>3. ASSUME current # 0, NEW i \in 1 .. Len(received),
               NEW j \in 1 .. Len(up'[current]), up'[current][j].type = "F"
        PROVE  received[i].fragment < up'[current][j].fragment
    <3>1. CASE current # c
      <4>1. current \in Conns
        BY <2>3, PublisherClientAssumption DEF Inv, TypeOK, Conns
      <4>2. up'[current] = up[current]
        BY <3>1, <4>1
      <4> QED
        BY <2>3, <4>2 DEF Inv, Ordered, IsFragment
    <3>2. CASE current = c /\ j \in 1 .. Len(up[c]) /\ up'[c][j] = up[c][j]
      BY <2>3, <3>2 DEF Inv, Ordered, IsFragment
    <3>3. ASSUME current = c, NEW m \in 1 .. n, j = Len(up[c]) + m,
                 up'[c][j].fragment = base + m
          PROVE  received[i].fragment < up'[c][j].fragment
      <4>1. received[i].fragment <= base /\ received[i].fragment \in Int
        BY <1>2
      <4> QED
        BY <3>3, <4>1
    <3> QED
      BY <1>3, <3>1, <3>2, <3>3
  <2> QED
    BY <2>1, <2>2, <2>3 DEF Ordered, IsFragment
<1>6. Consecutive'
  <2>1. ASSUME NEW d \in Conns, NEW i \in 1 .. Len(up'[d]),
               NEW j \in 1 .. Len(up'[d]), i < j,
               up'[d][i].type = "F", up'[d][j].type = "F",
               \A k \in i + 1 .. j - 1 : up'[d][k].type # "F"
        PROVE  up'[d][j].fragment = up'[d][i].fragment + 1
    <3>1. CASE d # c
      <4>1. up'[d] = up[d]
        BY <3>1
      <4> QED
        BY <2>1, <4>1 DEF Inv, Consecutive, IsFragment
    <3>2. CASE d = c /\ j \in 1 .. Len(up[c]) /\ up'[c][j] = up[c][j]
      <4>1. i \in 1 .. Len(up[c]) /\ up'[c][i] = up[c][i]
        BY <1>1, <2>1, <3>2
      <4>2. \A k \in i + 1 .. j - 1 : k \in 1 .. Len(up[c])
        BY <1>1, <3>2, <4>1
      <4>3. \A k \in i + 1 .. j - 1 : up[c][k].type # "F"
        BY <2>1, <3>2, <4>2
      <4> QED
        BY <2>1, <3>2, <4>1, <4>3 DEF Inv, Consecutive, IsFragment
    <3>3. ASSUME d = c, NEW m \in 1 .. n, j = Len(up[c]) + m,
                 up'[c][j].fragment = base + m
          PROVE  up'[c][j].fragment = up'[c][i].fragment + 1
      <4>1. CASE i \in 1 .. Len(up[c]) /\ up'[c][i] = up[c][i]
        <5>1. m = 1
          <6> SUFFICES ASSUME m # 1
                       PROVE  FALSE
            OBVIOUS
          <6>1. 1 \in 1 .. n
            BY <1>1, <3>3
          <6>2. Len(up[c]) + 1 \in i + 1 .. j - 1
            <7>1. \A a, b, x \in Int : b <= a /\ 1 < x =>
                      a + 1 \in b + 1 .. (a + x) - 1
              OBVIOUS
            <7>2. Len(up[c]) \in Int /\ i \in Int /\ i <= Len(up[c])
              BY <1>1, <4>1
            <7>3. m \in Int /\ 1 < m
              OBVIOUS
            <7>4. Len(up[c]) + 1 \in i + 1 .. (Len(up[c]) + m) - 1
              BY Zenon, <7>1, <7>2, <7>3
            <7> QED
              BY Zenon, <3>3, <7>4
          <6> QED
            BY <1>4, <2>1, <3>3, <6>1, <6>2
        <5>2. \A k \in i + 1 .. Len(up[c]) :
                  /\ k \in i + 1 .. j - 1
                  /\ k \in 1 .. Len(up[c])
          BY <1>1, <3>3, <4>1
        <5>3. \A k \in i + 1 .. Len(up[c]) : up[c][k].type # "F"
          BY <2>1, <3>3, <5>2
        <5>4. up[c][i].fragment = base
          BY <2>1, <3>3, <4>1, <5>3
        <5> QED
          BY <3>3, <4>1, <5>1, <5>4
      <4>2. ASSUME NEW l \in 1 .. n, i = Len(up[c]) + l,
                   up'[c][i].fragment = base + l
            PROVE  up'[c][j].fragment = up'[c][i].fragment + 1
        <5>1. m = l + 1
          <6> SUFFICES ASSUME m # l + 1
                       PROVE  FALSE
            OBVIOUS
          <6>1. l + 1 < m
            <7>1. \A a, x, y \in Int : a + x < a + y /\ y # x + 1 => x + 1 < y
              OBVIOUS
            <7>2. Len(up[c]) \in Int
              BY <1>1
            <7>3. l \in Int /\ m \in Int
              OBVIOUS
            <7>4. Len(up[c]) + l < Len(up[c]) + m
              BY <2>1, <3>3, <4>2
            <7> QED
              BY <7>1, <7>2, <7>3, <7>4
          <6>2. l + 1 \in 1 .. n
            BY <3>3, <4>2, <6>1
          <6>3. /\ l \in Int /\ m \in Int
                /\ i = Len(up[c]) + l /\ j = Len(up[c]) + m
            BY <3>3, <4>2
          <6>4. Len(up[c]) + (l + 1) \in i + 1 .. j - 1
            <7>1. \A a, x, y \in Int : x + 1 < y =>
                      a + (x + 1) \in (a + x) + 1 .. (a + y) - 1
              OBVIOUS
            <7>2. Len(up[c]) \in Int
              BY <1>1
            <7>3. Len(up[c]) + (l + 1) \in
                      (Len(up[c]) + l) + 1 .. (Len(up[c]) + m) - 1
              BY Zenon, <6>1, <6>3, <7>1, <7>2
            <7> QED
              BY Zenon, <6>3, <7>3
          <6> QED
            BY <1>4, <2>1, <3>3, <6>2, <6>4
        <5> QED
          BY <3>3, <4>2, <5>1
      <4> QED
        BY <1>3, <3>3, <4>1, <4>2
    <3> QED
      BY <1>3, <3>1, <3>2, <3>3
  <2>2. ASSUME current # 0, received # <<>>,
               received[Len(received)].conn = current,
               NEW j \in 1 .. Len(up'[current]), up'[current][j].type = "F",
               \A k \in 1 .. j - 1 : up'[current][k].type # "F"
        PROVE  up'[current][j].fragment =
                   received[Len(received)].fragment + 1
    <3>1. CASE current # c
      <4>0. current \in Conns
        <5>1. current \in 0 .. MaxConnections
          BY DEF Inv, TypeOK
        <5> QED
          BY <2>2, <5>1, PublisherClientAssumption DEF Conns
      <4>1. up'[current] = up[current]
        BY <3>1, <4>0
      <4>2. \A k \in 1 .. j - 1 : up[current][k].type # "F"
        BY <2>2, <4>1
      <4>3. j \in 1 .. Len(up[current]) /\ up[current][j].type = "F"
        BY <2>2, <4>1
      <4>4. up[current][j].fragment = received[Len(received)].fragment + 1
        <5>1. Consecutive
          BY DEF Inv
        <5>2. \A i \in 1 .. Len(up[current]) :
                  /\ up[current][i].type = "F"
                  /\ \A k \in 1 .. i - 1 : up[current][k].type # "F"
                  => up[current][i].fragment =
                         received[Len(received)].fragment + 1
          BY <2>2, <5>1 DEF Consecutive, IsFragment
        <5> QED
          BY Zenon, <4>2, <4>3, <5>2
      <4> QED
        BY Zenon, <4>1, <4>4
    <3>2. CASE current = c /\ j \in 1 .. Len(up[c]) /\ up'[c][j] = up[c][j]
      <4>1. \A k \in 1 .. j - 1 : k \in 1 .. Len(up[c])
        BY <1>1, <3>2
      <4>2. \A k \in 1 .. j - 1 : up[c][k].type # "F"
        BY <2>2, <3>2, <4>1
      <4>3. Consecutive
        BY DEF Inv
      <4>4. \A i \in 1 .. Len(up[c]) :
                /\ up[c][i].type = "F"
                /\ \A k \in 1 .. i - 1 : up[c][k].type # "F"
                => up[c][i].fragment = received[Len(received)].fragment + 1
        BY <2>2, <3>2, <4>3 DEF Consecutive, IsFragment
      <4>5. up[c][j].type = "F"
        BY <2>2, <3>2
      <4> QED
        BY <3>2, <4>2, <4>4, <4>5
    <3>3. ASSUME current = c, NEW m \in 1 .. n, j = Len(up[c]) + m,
                 up'[c][j].fragment = base + m
          PROVE  up'[c][j].fragment = received[Len(received)].fragment + 1
      <4>1. m = 1
        <5> SUFFICES ASSUME m # 1
                     PROVE  FALSE
          OBVIOUS
        <5>1. 1 \in 1 .. n /\ Len(up[c]) + 1 \in 1 .. j - 1
          BY <1>1, <3>3
        <5> QED
          BY <1>4, <2>2, <3>3, <5>1
      <4>2. \A k \in 1 .. Len(up[c]) : k \in 1 .. j - 1
        BY <1>1, <3>3
      <4>3. \A k \in 1 .. Len(up[c]) : up[c][k].type # "F"
        BY <2>2, <3>3, <4>2
      <4>4. received[Len(received)].fragment = base
        BY <2>2, <3>3, <4>3
      <4> QED
        BY <3>3, <4>1, <4>4
    <3> QED
      BY <1>3, <3>1, <3>2, <3>3
  <2> QED
    BY <2>1, <2>2 DEF Consecutive, IsFragment
<1>7. NoGapOnConnection'
    BY DEF Inv, NoGapOnConnection
<1> QED
    BY <1>5, <1>6, <1>7

LEMMA SendPushStep == ASSUME Inv, SendPush PROVE Inv'
<1>1. /\ run = "signed" /\ run' = "opened"
      /\ socket = 0 /\ ~ready /\ conn \in Conns
      /\ up[conn] = <<>> /\ server[conn] \notin {"none", "creating", "pushing"}
    BY PublisherClientAssumption
       DEF Inv, TypeOK, Threads, Handshake, Connections, SendPush, RunTo, Conns
<1>2. PUSH \in Message /\ PUSH.type = "PUSH" /\ Write(conn, <<PUSH>>)
    BY PublisherClientAssumption DEF PUSH, Message, SendPush
<1>3. UNCHANGED <<publisherVars, conn, heartbeat, heartbeats, link, ok,
                  serverVars>>
    BY DEF SendPush
<1>4. /\ up' \in [Conns -> Seq(Message)]
      /\ \A d \in Conns : d # conn => up'[d] = up[d]
      /\ \/ link[conn] # "open" \/ server[conn] = "gone"
         \/ /\ link[conn] = "open" /\ server[conn] = "waiting"
            /\ Len(up'[conn]) = 1 /\ up'[conn][1] = PUSH
      /\ server[conn] = "gone" => up' = up
  <2>1. Len(up[conn]) = 0 /\ server[conn] \in {"waiting", "gone"}
    BY <1>1 DEF Inv, TypeOK
  <2> QED
    BY <1>1, <1>2, <2>1, WriteOne
<1>5. /\ Ordered' /\ Consecutive' /\ NoGapOnConnection'
      /\ \A d \in Conns : \A i \in 1 .. Len(up'[d]) : up'[d][i].type = "F" =>
             i \in 1 .. Len(up[d]) /\ up'[d][i] = up[d][i]
    BY <1>1, <1>2, <1>3, OtherWritten DEF serverVars
<1> USE <1>1, <1>3, <1>4
<1>6. TypeOK'
    BY DEF Inv, TypeOK, publisherVars, serverVars
<1>7. Threads'
    BY DEF Inv, Threads, publisherVars
<1>8. Connections'
    BY DEF Inv, Connections, serverVars
<1>9. Handshake'
    BY DEF Inv, Handshake, publisherVars, serverVars
<1>10. LastIsCurrent' /\ QueueIsNewest'
    BY DEF Inv, LastIsCurrent, QueueIsNewest, publisherVars, serverVars
<1>11. ServerUnderstands'
  <2> SUFFICES ASSUME NEW c \in Conns, NEW i \in 1 .. Len(up'[c])
               PROVE  /\ up'[c][i].type = "PUSH" <=>
                             (i = 1 /\ server[c] = "waiting")
                      /\ up'[c][i].type = "CLOSE" =>
                             i = Len(up'[c]) /\ closed
    BY DEF ServerUnderstands, publisherVars, serverVars
  <2>1. CASE c # conn
    BY <2>1 DEF Inv, ServerUnderstands
  <2>2. CASE /\ c = conn /\ server[conn] = "waiting"
             /\ Len(up'[conn]) = 1 /\ up'[conn][1] = PUSH
    BY <1>2, <2>2
  <2>3. CASE c = conn /\ up' = up
    BY <2>3
  <2> QED
    BY <2>1, <2>2, <2>3, WriteOne, <1>2
<1>12. NoneBeforeReady'
    BY <1>5 DEF Inv, NoneBeforeReady, IsFragment, publisherVars, serverVars
<1>13. SentBeforeQueue'
    BY <1>5 DEF Inv, SentBeforeQueue, IsFragment, publisherVars, serverVars
<1>14. UpToDate'
    BY DEF UpToDate, publisherVars
<1> QED
    BY <1>5, <1>6, <1>7, <1>8, <1>9, <1>10, <1>11, <1>12, <1>13, <1>14 DEF Inv

(* What holds of a socket the publisher keeps.                             *)
LEMMA SocketIsReached ==
    ASSUME Inv, socket # 0
    PROVE  /\ socket = conn /\ conn \in Conns /\ ~closed
           /\ server[conn] # "none"
           /\ run \notin {"check", "dialing", "dialed", "signed", "opened",
                       "ended"}
           /\ server[conn] = "waiting" /\ link[conn] = "open" => up[conn] # <<>>
<1>1. socket = conn /\ conn \in Conns /\ ~closed
    BY PublisherClientAssumption DEF Inv, TypeOK, Threads, Conns
<1>2. server[conn] # "none"
    BY <1>1, PublisherClientAssumption DEF Inv, Connections, TypeOK, Conns
<1>3. run \notin {"check", "dialing", "dialed", "signed", "opened",
                       "ended"}
    BY DEF Inv, Threads
<1>4. server[conn] = "waiting" /\ link[conn] = "open" => up[conn] # <<>>
    BY <1>1 DEF Inv, Handshake
<1> QED
    BY <1>1, <1>2, <1>3, <1>4

LEMMA SendHeartbeatStep == ASSUME Inv, SendHeartbeat PROVE Inv'
<1>1. /\ socket = conn /\ conn \in Conns /\ ~closed
      /\ server[conn] # "none"
      /\ server[conn] = "waiting" /\ link[conn] = "open" => up[conn] # <<>>
    BY SocketIsReached DEF SendHeartbeat
<1>2. /\ HEARTBEAT \in Message /\ HEARTBEAT.type = "H"
      /\ Write(conn, <<HEARTBEAT>>)
    BY <1>1, PublisherClientAssumption DEF HEARTBEAT, Message, SendHeartbeat
<1>3. UNCHANGED <<publisherVars, run, conn, heartbeat, link, ok, serverVars>>
    BY DEF SendHeartbeat
<1>4. /\ up' \in [Conns -> Seq(Message)]
      /\ \A d \in Conns : d # conn => up'[d] = up[d]
      /\ \/ /\ link[conn] # "open" \/ server[conn] = "gone"
            /\ up' = up
         \/ /\ link[conn] = "open" /\ server[conn] # "gone"
            /\ Len(up'[conn]) = Len(up[conn]) + 1
            /\ \A i \in 1 .. Len(up[conn]) : up'[conn][i] = up[conn][i]
            /\ up'[conn][Len(up[conn]) + 1] = HEARTBEAT
    BY <1>1, <1>2, WriteOne
<1>5. /\ Ordered' /\ Consecutive' /\ NoGapOnConnection'
      /\ \A d \in Conns : \A i \in 1 .. Len(up'[d]) : up'[d][i].type = "F" =>
             i \in 1 .. Len(up[d]) /\ up'[d][i] = up[d][i]
    BY <1>1, <1>2, <1>3, OtherWritten DEF serverVars
<1>a. \A d \in Conns : Len(up[d]) \in Nat
    BY UpType
<1>6. \A d \in Conns : \A i \in 1 .. Len(up[d]) :
          i \in 1 .. Len(up'[d]) /\ up'[d][i] = up[d][i]
    BY <1>1, <1>4, <1>a
<1>7. \A d \in Conns : up'[d] = <<>> => up[d] = <<>>
    BY <1>4, <1>6, <1>a
<1>8. TypeOK'
  <2>1. heartbeats' \in 0 .. MaxHeartbeats
    BY PublisherClientAssumption DEF Inv, TypeOK, SendHeartbeat
  <2> QED
    BY <1>3, <1>4, <2>1 DEF Inv, TypeOK, publisherVars, serverVars
<1>9. Threads'
    BY <1>3 DEF Inv, Threads, publisherVars
<1>10. Connections'
    BY <1>1, <1>3, <1>4 DEF Inv, Connections, serverVars
<1>11. Handshake'
    BY <1>1, <1>3, <1>4, <1>7 DEF Inv, Handshake, Threads, publisherVars,
       serverVars
<1>12. LastIsCurrent' /\ QueueIsNewest'
    BY <1>3 DEF Inv, LastIsCurrent, QueueIsNewest, publisherVars, serverVars
<1>13. ServerUnderstands'
    BY <1>1, <1>2, <1>3, <1>4, <1>6, <1>a
       DEF Inv, ServerUnderstands, publisherVars, serverVars
<1>14. NoneBeforeReady'
    BY <1>1, <1>3, <1>5
       DEF Inv, NoneBeforeReady, IsFragment, publisherVars, serverVars
<1>15. SentBeforeQueue'
    BY <1>3, <1>5 DEF Inv, SentBeforeQueue, IsFragment, publisherVars,
       serverVars
<1>16. UpToDate'
  <2> SUFFICES ASSUME ready, link[conn] = "open", server[conn] = "pushing"
               PROVE  UpToDate'
    BY <1>3 DEF UpToDate, publisherVars, serverVars
  <2>1. ASSUME NEW j \in 1 .. Len(up'[conn]), up'[conn][j].type = "F",
               \A k \in j + 1 .. Len(up'[conn]) : up'[conn][k].type # "F"
        PROVE  up'[conn][j].fragment = handed
    <3>1. j \in 1 .. Len(up[conn]) /\ up'[conn][j] = up[conn][j]
      BY <1>1, <1>5, <2>1
    <3>2. \A k \in j + 1 .. Len(up[conn]) : up[conn][k].type # "F"
      <4>1. \A k \in j + 1 .. Len(up[conn]) :
                k \in 1 .. Len(up[conn]) /\ k \in j + 1 .. Len(up'[conn])
        BY <1>1, <1>6, <1>a, <3>1
      <4> QED
        BY <1>1, <1>6, <1>a, <2>1, <4>1
    <3> QED
      BY <2>1, <3>1, <3>2 DEF Inv, UpToDate, IsFragment
  <2>2. (\A k \in 1 .. Len(up'[conn]) : up'[conn][k].type # "F") =>
            \A k \in 1 .. Len(up[conn]) : up[conn][k].type # "F"
    BY <1>1, <1>6, <1>a
  <2> QED
    BY <1>3, <2>1, <2>2
       DEF Inv, UpToDate, IsFragment, publisherVars, serverVars
<1> QED
    BY <1>5, <1>8, <1>9, <1>10, <1>11, <1>12, <1>13, <1>14, <1>15, <1>16
       DEF Inv

(* The queue goes to the socket that has just been accepted, on which      *)
(* nothing was sent yet.                                                   *)
LEMMA OnReadyStep == ASSUME Inv, OnReady PROVE Inv'
<1>1. /\ run = "accepted" /\ run' = "loop"
      /\ UNCHANGED <<closed, socket, interrupt, handed, conn, heartbeat>>
      /\ UNCHANGED <<heartbeats, link, ok>>
      /\ UNCHANGED <<server, leaving, current, received, latest, overtaken>>
    BY DEF OnReady, RunTo, serverVars
<1>2. CASE closed
  <2>1. UNCHANGED <<ready, pendingQueue, up>>
    BY <1>2 DEF OnReady
  <2>2. TypeOK'
    BY <1>1, <2>1 DEF Inv, TypeOK
  <2>3. Threads' /\ Connections' /\ Handshake' /\ LastIsCurrent'
    BY <1>1, <1>2, <2>1
       DEF Inv, Threads, Connections, Handshake, LastIsCurrent
  <2>4. QueueIsNewest' /\ ServerUnderstands'
    BY <1>1, <2>1, SameMessages DEF Inv, QueueIsNewest
  <2>5. NoneBeforeReady' /\ SentBeforeQueue' /\ UpToDate'
    BY <1>1, <1>2, <2>1
       DEF Inv, NoneBeforeReady, SentBeforeQueue, UpToDate, IsFragment
  <2>6. Ordered' /\ Consecutive' /\ NoGapOnConnection'
    BY <1>1, <2>1, SameOrder
  <2> QED
    BY <2>2, <2>3, <2>4, <2>5, <2>6 DEF Inv
<1>3. CASE ~closed
  <2> DEFINE n == Len(pendingQueue)
             base == handed - n
  <2>1. /\ ~ready /\ ready' = TRUE /\ pendingQueue' = <<>>
        /\ socket = conn /\ conn \in Conns
        /\ ~ok[conn] /\ server[conn] \in {"pushing", "gone"}
        /\ Write(conn, [i \in 1 .. n |-> Fragment(pendingQueue[i])])
    <3>1. socket = conn /\ ~ready /\ conn # 0
      BY <1>1, <1>3 DEF Inv, Threads
    <3>2. conn \in Conns
      BY <3>1, PublisherClientAssumption DEF Inv, TypeOK, Conns
    <3>3. ~ok[conn] /\ server[conn] \in {"pushing", "gone"}
      BY <1>1 DEF Inv, Handshake
    <3> QED
      BY <1>3, <3>1, <3>2, <3>3 DEF OnReady
  <2>2. /\ n \in Nat /\ handed \in Nat /\ n <= handed /\ base \in Nat
        /\ \A i \in 1 .. n : pendingQueue[i] = base + i
    <3>1. n \in Nat /\ handed \in Nat
      BY PublisherClientAssumption DEF Inv, TypeOK
    <3>2. \A i \in 1 .. n : pendingQueue[i] = base + i
      BY DEF Inv, QueueIsNewest
    <3>3. \A i \in 1 .. n : pendingQueue[i] \in 1 .. MaxFragments
      <4>1. pendingQueue \in Seq(1 .. MaxFragments)
        BY DEF Inv, TypeOK
      <4> QED
        BY <4>1, Elements
    <3>4. n <= handed
      <4>1. CASE n = 0
        BY <3>1, <4>1
      <4>2. CASE n # 0
        <5>1. 1 \in 1 .. n
          BY <3>1, <4>2
        <5>2. base + 1 \in 1 .. MaxFragments
          BY <3>2, <3>3, <5>1
        <5> QED
          BY <3>1, <5>2, PublisherClientAssumption
      <4> QED
        BY <4>1, <4>2
    <3> QED
      BY <3>1, <3>2, <3>4
  <2> HIDE DEF n, base
  <2>3. /\ \A i \in 1 .. Len(up[conn]) : up[conn][i].type # "F"
        /\ \A i \in 1 .. Len(received) : received[i].conn # conn
    BY <1>1, <1>3, <2>1 DEF Inv, NoneBeforeReady, IsFragment
  <2>4. \A d \in Conns : Len(up[d]) \in Nat
    BY UpType
  <2>5. /\ up' \in [Conns -> Seq(Message)]
        /\ \A d \in Conns : d # conn => up'[d] = up[d]
        /\ \/ /\ link[conn] # "open" \/ server[conn] = "gone"
              /\ up' = up
           \/ /\ link[conn] = "open" /\ server[conn] # "gone"
              /\ Len(up'[conn]) = Len(up[conn]) + n
              /\ \A i \in 1 .. Len(up[conn]) : up'[conn][i] = up[conn][i]
              /\ \A i \in 1 .. n :
                     up'[conn][Len(up[conn]) + i] = Fragment(base + i)
    <3>1. \A i \in 1 .. n : Fragment(pendingQueue[i]) = Fragment(base + i)
      BY <2>2
    <3> QED
      BY <2>1, <3>1, WriteQueue DEF n
  (* What is new in up'[conn] is the queue.                                *)
  <2>6. \A i \in 1 .. Len(up'[conn]) :
            \/ i \in 1 .. Len(up[conn]) /\ up'[conn][i] = up[conn][i]
            \/ \E m \in 1 .. n : /\ i = Len(up[conn]) + m
                                 /\ up'[conn][i].type = "F"
                                 /\ up'[conn][i].fragment = base + m
    <3>1. CASE up' = up
      BY <3>1
    <3>2. CASE link[conn] = "open" /\ server[conn] # "gone"
      <4> SUFFICES ASSUME NEW i \in 1 .. Len(up'[conn]),
                          i \notin 1 .. Len(up[conn])
                   PROVE  \E m \in 1 .. n :
                              /\ i = Len(up[conn]) + m
                              /\ up'[conn][i].type = "F"
                              /\ up'[conn][i].fragment = base + m
        BY <2>5, <3>2
      <4> DEFINE m == i - Len(up[conn])
      <4>1. m \in 1 .. n /\ i = Len(up[conn]) + m
        BY <2>1, <2>2, <2>4, <2>5, <3>2
      <4> HIDE DEF m
      <4>2. up'[conn][i] = Fragment(base + m)
        BY <2>5, <3>2, <4>1
      <4> QED
        BY <4>1, <4>2, FragmentFields
    <3> QED
      BY <2>5, <3>1, <3>2
  <2>7. \A i \in 1 .. Len(received) : received[i].fragment <= base
    <3>1. \A i \in 1 .. Len(received) :
              received[i].fragment \in 1 .. handed - n
      BY DEF Inv, SentBeforeQueue, n
    <3> QED
      BY <2>2, <3>1 DEF base
  <2>8. Ordered' /\ Consecutive' /\ NoGapOnConnection'
    <3>1. CASE up' = up
      BY <1>1, <3>1, SameOrder
    <3>2. CASE link[conn] = "open" /\ server[conn] # "gone"
      <4>1. received # <<>> => received[Len(received)].conn # conn
        BY <2>3, LastReceived
      <4>2. conn \in Conns /\ n \in Nat /\ base \in Int
        BY <2>1, <2>2
      <4>3. UNCHANGED <<received, current>>
        BY <1>1
      <4>4. /\ \A d \in Conns : d # conn => up'[d] = up[d]
            /\ Len(up'[conn]) = Len(up[conn]) + n
            /\ \A i \in 1 .. Len(up[conn]) : up'[conn][i] = up[conn][i]
            /\ \A i \in 1 .. n :
                   up'[conn][Len(up[conn]) + i] = Fragment(base + i)
        BY <2>5, <3>2
      <4> QED
        BY <2>3, <2>7, <4>1, <4>2, <4>3, <4>4, FragmentsWritten
    <3> QED
      BY <2>5, <3>1, <3>2
  <2>9. TypeOK'
    <3>1. ready' \in BOOLEAN /\ pendingQueue' \in Seq(1 .. MaxFragments)
      BY <2>1
    <3> QED
      BY <1>1, <2>5, <3>1 DEF Inv, TypeOK
  <2>10. Threads'
    BY <1>1, <1>3, <2>1 DEF Inv, Threads, Conns
  <2>11. Connections'
    BY <1>1, <2>1, <2>5 DEF Inv, Connections
  <2>12. Handshake'
    BY <1>1, <2>1, <2>5 DEF Inv, Handshake
  <2>13. LastIsCurrent'
    BY <1>1 DEF Inv, LastIsCurrent
  <2>14. QueueIsNewest'
    BY <2>1, PublisherClientAssumption DEF QueueIsNewest
  <2>15. ServerUnderstands'
    <3> SUFFICES ASSUME NEW c \in Conns, NEW i \in 1 .. Len(up'[c])
                 PROVE  /\ up'[c][i].type = "PUSH" <=>
                               (i = 1 /\ server[c] = "waiting")
                        /\ up'[c][i].type # "CLOSE" \/
                               (i = Len(up'[c]) /\ closed)
      BY <1>1 DEF ServerUnderstands
    <3>1. CASE c # conn
      BY <2>5, <3>1 DEF Inv, ServerUnderstands
    <3>2. CASE c = conn /\ i \in 1 .. Len(up[conn]) /\ up'[conn][i] = up[conn][i]
      BY <1>3, <2>1, <3>2 DEF Inv, ServerUnderstands
    <3>3. CASE c = conn /\ up'[conn][i].type = "F"
      BY <2>1, <3>3
    <3> QED
      BY <2>6, <3>1, <3>2, <3>3
  <2>16. NoneBeforeReady'
    <3>1. ASSUME NEW c \in Conns, server[c] = "waiting"
          PROVE  \A i \in 1 .. Len(up'[c]) : up'[c][i].type # "F"
      BY <2>1, <2>5, <3>1 DEF Inv, NoneBeforeReady, IsFragment
    <3> QED
      BY <1>1, <2>1, <3>1 DEF NoneBeforeReady, IsFragment
  <2>17. SentBeforeQueue'
    <3>0. Len(pendingQueue') = 0
      BY <2>1
    <3>1. ASSUME NEW c \in Conns, NEW i \in 1 .. Len(up'[c]),
                 up'[c][i].type = "F"
          PROVE  up'[c][i].fragment \in 1 .. handed
      <4>1. CASE c # conn
        <5>1. up[c][i].fragment \in 1 .. handed - n
          BY <2>5, <3>1, <4>1 DEF Inv, SentBeforeQueue, IsFragment, n
        <5> QED
          BY <2>2, <2>5, <4>1, <5>1
      <4>2. ASSUME c = conn, NEW m \in 1 .. n, up'[conn][i].fragment = base + m
            PROVE  up'[c][i].fragment \in 1 .. handed
        BY <2>2, <4>2 DEF base
      <4> QED
        BY <2>3, <2>6, <3>1, <4>1, <4>2
    <3>2. \A i \in 1 .. Len(received) : received[i].fragment \in 1 .. handed
      <4>1. \A i \in 1 .. Len(received) :
                received[i].fragment \in 1 .. handed - n
        BY DEF Inv, SentBeforeQueue, n
      <4> QED
        BY <2>2, <4>1
    <3>3. \A i \in 1 .. Len(received) : received[i].conn <= conn
      BY DEF Inv, SentBeforeQueue
    <3>4. handed' - Len(pendingQueue') = handed
      BY <1>1, <2>2, <3>0
    <3> QED
      BY <1>1, <3>1, <3>2, <3>3, <3>4 DEF SentBeforeQueue, IsFragment
  <2>18. UpToDate'
    <3> SUFFICES ASSUME link[conn] = "open", server[conn] = "pushing"
                 PROVE  UpToDate'
      BY <1>1 DEF UpToDate
    <3>1. ASSUME NEW j \in 1 .. Len(up'[conn]), up'[conn][j].type = "F",
                 \A k \in j + 1 .. Len(up'[conn]) : up'[conn][k].type # "F"
          PROVE  up'[conn][j].fragment = handed
      <4>1. PICK m \in 1 .. n : /\ j = Len(up[conn]) + m
                                /\ up'[conn][j].fragment = base + m
        BY <2>3, <2>6, <3>1
      <4>2. m = n
        <5> SUFFICES ASSUME m # n
                     PROVE  FALSE
          OBVIOUS
        <5>1. m + 1 \in 1 .. n
          BY <2>2
        <5>2. Len(up[conn]) + (m + 1) \in j + 1 .. Len(up'[conn])
          <6>1. Len(up[conn]) \in Int
            BY <2>1, <2>4
          <6>2. Len(up'[conn]) = Len(up[conn]) + n
            BY <2>5
          <6>3. m + 1 <= n
            BY <2>2, <5>1
          <6>4. \A a, x, y \in Int :
                    x + 1 <= y => a + (x + 1) \in (a + x) + 1 .. a + y
            OBVIOUS
          <6>5. m \in Int /\ n \in Int
            BY <2>2
          <6>6. Len(up[conn]) + (m + 1) \in
                    (Len(up[conn]) + m) + 1 .. Len(up[conn]) + n
            BY Zenon, <6>1, <6>3, <6>4, <6>5
          <6> QED
            BY Zenon, <4>1, <6>2, <6>6
        <5> QED
          BY <2>5, <3>1, <5>1, <5>2, FragmentFields
      <4> QED
        BY <2>2, <4>1, <4>2 DEF base
    <3>2. received # <<>> => received[Len(received)].conn # conn
      BY <2>3, LastReceived
    <3> QED
      BY <1>1, <3>1, <3>2 DEF UpToDate, IsFragment
  <2> QED
    BY <2>8, <2>9, <2>10, <2>11, <2>12, <2>13, <2>14, <2>15, <2>16, <2>17,
       <2>18 DEF Inv
<1> QED
    BY <1>2, <1>3

(* A fragment is written to the connection that is ready, or queued.       *)
LEMMA SendFragmentStep == ASSUME Inv, SendFragment PROVE Inv'
<1>1. /\ ~closed /\ handed < MaxFragments /\ handed' = handed + 1
      /\ handed \in Nat /\ handed' \in 0 .. MaxFragments
      /\ UNCHANGED <<closed, ready, socket, interrupt, run, conn, heartbeat>>
      /\ UNCHANGED <<heartbeats, link, ok>>
      /\ UNCHANGED <<server, leaving, current, received, latest, overtaken>>
    BY PublisherClientAssumption
       DEF Inv, TypeOK, SendFragment, threadVars, serverVars
<1>2. \A d \in Conns : Len(up[d]) \in Nat
    BY UpType
<1>3. Threads' /\ LastIsCurrent'
    BY <1>1 DEF Inv, Threads, LastIsCurrent
<1>4. CASE ~ready
  <2>1. pendingQueue' = Queued(handed + 1) /\ up' = up
    BY <1>4 DEF SendFragment
  <2>2. /\ pendingQueue \in Seq(1 .. MaxFragments)
        /\ Len(pendingQueue) \in Nat /\ Len(pendingQueue) <= QueueMaxLength
        /\ \A i \in 1 .. Len(pendingQueue) :
               pendingQueue[i] = handed - Len(pendingQueue) + i
        /\ handed + 1 \in 1 .. MaxFragments
    BY <1>1, PublisherClientAssumption DEF Inv, TypeOK, QueueIsNewest
  <2>3. /\ pendingQueue' \in Seq(1 .. MaxFragments)
        /\ Len(pendingQueue') \in Nat /\ Len(pendingQueue') <= QueueMaxLength
        /\ handed - Len(pendingQueue) <= handed' - Len(pendingQueue')
        /\ \A i \in 1 .. Len(pendingQueue') :
               pendingQueue'[i] = handed' - Len(pendingQueue') + i
    <3>1. CASE Len(pendingQueue) >= QueueMaxLength
      <4>1. pendingQueue' = Append(Tail(pendingQueue), handed + 1)
        BY <2>1, <3>1 DEF Queued
      <4>2. Len(pendingQueue) # 0
        BY <2>2, <3>1, PublisherClientAssumption
      <4>3. /\ Tail(pendingQueue) \in Seq(1 .. MaxFragments)
            /\ Len(Tail(pendingQueue)) = Len(pendingQueue) - 1
            /\ \A i \in 1 .. Len(pendingQueue) - 1 :
                   Tail(pendingQueue)[i] = pendingQueue[i + 1]
        BY <2>2, <4>2
      <4>4. /\ pendingQueue' \in Seq(1 .. MaxFragments)
            /\ Len(pendingQueue') = Len(pendingQueue)
            /\ \A i \in 1 .. Len(pendingQueue) - 1 :
                   pendingQueue'[i] = pendingQueue[i + 1]
            /\ pendingQueue'[Len(pendingQueue)] = handed + 1
        BY <2>2, <4>1, <4>3
      <4>5. ASSUME NEW i \in 1 .. Len(pendingQueue')
            PROVE  pendingQueue'[i] = handed' - Len(pendingQueue') + i
        <5>1. CASE i = Len(pendingQueue)
          BY <1>1, <2>2, <4>4, <5>1
        <5>2. CASE i # Len(pendingQueue)
          <6>1. i \in 1 .. Len(pendingQueue) - 1
                /\ i + 1 \in 1 .. Len(pendingQueue)
            BY <2>2, <4>4, <5>2
          <6>2. pendingQueue'[i] = handed - Len(pendingQueue) + (i + 1)
            BY <2>2, <4>4, <6>1
          <6> QED
            BY <1>1, <2>2, <4>4, <6>1, <6>2
        <5> QED
          BY <5>1, <5>2
      <4> QED
        BY <1>1, <2>2, <4>4, <4>5
    <3>2. CASE Len(pendingQueue) < QueueMaxLength
      <4>1. pendingQueue' = Append(pendingQueue, handed + 1)
        BY <2>1, <2>2, <3>2, PublisherClientAssumption DEF Queued
      <4>2. /\ pendingQueue' \in Seq(1 .. MaxFragments)
            /\ Len(pendingQueue') = Len(pendingQueue) + 1
            /\ \A i \in 1 .. Len(pendingQueue) :
                   pendingQueue'[i] = pendingQueue[i]
            /\ pendingQueue'[Len(pendingQueue) + 1] = handed + 1
        BY <2>2, <4>1
      <4>3. ASSUME NEW i \in 1 .. Len(pendingQueue')
            PROVE  pendingQueue'[i] = handed' - Len(pendingQueue') + i
        <5>1. CASE i = Len(pendingQueue) + 1
          BY <1>1, <2>2, <4>2, <5>1
        <5>2. CASE i \in 1 .. Len(pendingQueue)
          BY <1>1, <2>2, <4>2, <5>2
        <5> QED
          BY <2>2, <4>2, <5>1, <5>2
      <4> QED
        BY <1>1, <2>2, <3>2, <4>2, <4>3, PublisherClientAssumption
    <3> QED
      BY <2>2, <3>1, <3>2, PublisherClientAssumption
  <2>4. TypeOK'
    BY <1>1, <2>1, <2>3 DEF Inv, TypeOK
  <2>5. Connections' /\ Handshake'
    BY <1>1, <2>1 DEF Inv, Connections, Handshake
  <2>6. QueueIsNewest'
    BY <1>1, <1>4, <2>3 DEF QueueIsNewest
  <2>7. ServerUnderstands'
    BY <1>1, <2>1, SameMessages
  <2>8. NoneBeforeReady' /\ UpToDate'
    BY <1>1, <1>4, <2>1 DEF Inv, NoneBeforeReady, UpToDate, IsFragment
  <2>9. SentBeforeQueue'
    <3>1. 1 .. handed - Len(pendingQueue) \subseteq
              1 .. handed' - Len(pendingQueue')
      BY <1>1, <2>2, <2>3
    <3> QED
      BY <1>1, <2>1, <3>1 DEF Inv, SentBeforeQueue, IsFragment
  <2>10. Ordered' /\ Consecutive' /\ NoGapOnConnection'
    BY <1>1, <2>1, SameOrder
  <2> QED
    BY <1>3, <2>4, <2>5, <2>6, <2>7, <2>8, <2>9, <2>10 DEF Inv
<1>5. CASE ready
  <2>1. /\ pendingQueue' = pendingQueue /\ Len(pendingQueue) = 0
        /\ socket = conn /\ conn \in Conns
        /\ server[conn] \in {"pushing", "gone"}
        /\ Write(conn, <<Fragment(handed + 1)>>)
        /\ Fragment(handed + 1) \in Message
    <3>1. socket = conn /\ conn \in Conns
      BY <1>5, SocketIsReached DEF Inv, Threads
    <3>2. pendingQueue = <<>>
      BY <1>5 DEF Inv, QueueIsNewest
    <3>3. server[conn] \in {"pushing", "gone"}
      BY <1>5 DEF Inv, Handshake
    <3>4. Fragment(handed + 1) \in Message
      BY <1>1, PublisherClientAssumption DEF Fragment, Message
    <3> QED
      BY <1>5, <3>1, <3>2, <3>3, <3>4 DEF SendFragment
  <2>2. /\ up' \in [Conns -> Seq(Message)]
        /\ \A d \in Conns : d # conn => up'[d] = up[d]
        /\ \/ /\ link[conn] # "open" \/ server[conn] = "gone"
              /\ up' = up
           \/ /\ link[conn] = "open" /\ server[conn] = "pushing"
              /\ Len(up'[conn]) = Len(up[conn]) + 1
              /\ \A i \in 1 .. Len(up[conn]) : up'[conn][i] = up[conn][i]
              /\ up'[conn][Len(up[conn]) + 1] = Fragment(handed + 1)
    BY <2>1, WriteOne
  <2>3. \A i \in 1 .. Len(up'[conn]) :
            \/ i \in 1 .. Len(up[conn]) /\ up'[conn][i] = up[conn][i]
            \/ /\ i = Len(up[conn]) + 1 /\ i = Len(up'[conn])
               /\ up'[conn][i].type = "F"
               /\ up'[conn][i].fragment = handed + 1
    BY <1>2, <2>1, <2>2, FragmentFields
  <2>4. /\ \A c \in Conns : \A i \in 1 .. Len(up[c]) : up[c][i].type = "F" =>
               up[c][i].fragment \in 1 .. handed
        /\ \A i \in 1 .. Len(received) :
               received[i].fragment \in 1 .. handed
        /\ \A i \in 1 .. Len(received) : received[i].conn <= conn
    <3>1. handed - Len(pendingQueue) = handed
      BY <1>1, <2>1
    <3> QED
      BY <3>1 DEF Inv, SentBeforeQueue, IsFragment
  <2>5. Ordered' /\ Consecutive' /\ NoGapOnConnection'
    <3>1. CASE up' = up
      BY <1>1, <3>1, SameOrder
    <3>2. CASE link[conn] = "open" /\ server[conn] = "pushing"
      <4>1. /\ \A i \in 1 .. Len(up[conn]) :
                   /\ up[conn][i].type = "F"
                   /\ \A k \in i + 1 .. Len(up[conn]) : up[conn][k].type # "F"
                   => up[conn][i].fragment = handed
            /\ /\ current = conn
               /\ received # <<>>
               /\ received[Len(received)].conn = conn
               /\ \A k \in 1 .. Len(up[conn]) : up[conn][k].type # "F"
               => received[Len(received)].fragment = handed
        BY <1>5, <3>2 DEF Inv, UpToDate, IsFragment
      <4>2. /\ \A i \in 1 .. Len(up[conn]) :
                   up[conn][i].type = "F" => up[conn][i].fragment <= handed
            /\ \A i \in 1 .. Len(received) : received[i].fragment <= handed
        BY <2>1, <2>4
      <4>3. UNCHANGED <<received, current>>
        BY <1>1
      <4>4. handed \in Int /\ 1 \in Nat /\ conn \in Conns
        BY <1>1, <2>1
      <4>5. /\ \A d \in Conns : d # conn => up'[d] = up[d]
            /\ Len(up'[conn]) = Len(up[conn]) + 1
            /\ \A i \in 1 .. Len(up[conn]) : up'[conn][i] = up[conn][i]
            /\ \A i \in 1 .. 1 :
                   up'[conn][Len(up[conn]) + i] = Fragment(handed + i)
        <5>1. \A i \in 1 .. 1 : i = 1
          OBVIOUS
        <5> QED
          BY <2>2, <3>2, <5>1
      <4> QED
        BY <4>1, <4>2, <4>3, <4>4, <4>5, FragmentsWritten
    <3> QED
      BY <2>2, <3>1, <3>2
  <2>6. TypeOK'
    BY <1>1, <2>1, <2>2 DEF Inv, TypeOK
  <2>7. Connections'
    BY <1>1, <2>1, <2>2 DEF Inv, Connections
  <2>8. Handshake'
    BY <1>1, <2>1, <2>2 DEF Inv, Handshake
  <2>9. QueueIsNewest'
    BY <1>1, <2>1, PublisherClientAssumption DEF Inv, QueueIsNewest
  <2>10. ServerUnderstands'
    <3> SUFFICES ASSUME NEW c \in Conns, NEW i \in 1 .. Len(up'[c])
                 PROVE  /\ up'[c][i].type = "PUSH" <=>
                               (i = 1 /\ server[c] = "waiting")
                        /\ up'[c][i].type # "CLOSE" \/
                               (i = Len(up'[c]) /\ closed)
      BY <1>1 DEF ServerUnderstands
    <3>1. CASE c # conn
      BY <2>2, <3>1 DEF Inv, ServerUnderstands
    <3>2. CASE c = conn /\ i \in 1 .. Len(up[conn]) /\ up'[conn][i] = up[conn][i]
      BY <1>1, <2>1, <3>2 DEF Inv, ServerUnderstands
    <3>3. CASE c = conn /\ up'[conn][i].type = "F"
      BY <2>1, <3>3
    <3> QED
      BY <2>3, <3>1, <3>2, <3>3
  <2>11. NoneBeforeReady'
    <3>1. ASSUME NEW c \in Conns, server[c] = "waiting"
          PROVE  \A i \in 1 .. Len(up'[c]) : up'[c][i].type # "F"
      BY <2>1, <2>2, <3>1 DEF Inv, NoneBeforeReady, IsFragment
    <3> QED
      BY <1>1, <1>5, <3>1 DEF NoneBeforeReady, IsFragment
  <2>12. SentBeforeQueue'
    <3>1. ASSUME NEW c \in Conns, NEW i \in 1 .. Len(up'[c]),
                 up'[c][i].type = "F"
          PROVE  up'[c][i].fragment \in 1 .. handed + 1
      <4>1. CASE c # conn
        <5>1. up'[c][i].fragment \in 1 .. handed
          BY <2>2, <2>4, <3>1, <4>1
        <5> QED
          BY <1>1, <5>1
      <4>2. CASE c = conn
        BY SMTT(30), <1>1, <2>3, <2>4, <3>1, <4>2
      <4> QED
        BY <4>1, <4>2
    <3>2. \A i \in 1 .. Len(received) :
              received[i].fragment \in 1 .. handed + 1
      BY <1>1, <2>4
    <3>3. handed' - Len(pendingQueue') = handed + 1
      BY <1>1, <2>1
    <3> QED
      BY <1>1, <2>4, <3>1, <3>2, <3>3 DEF SentBeforeQueue, IsFragment
  <2>13. UpToDate'
    <3> SUFFICES ASSUME link[conn] = "open", server[conn] = "pushing"
                 PROVE  UpToDate'
      BY <1>1 DEF UpToDate
    <3>1. /\ Len(up[conn]) + 1 \in 1 .. Len(up'[conn])
          /\ Len(up[conn]) + 1 = Len(up'[conn])
          /\ up'[conn][Len(up[conn]) + 1].type = "F"
      BY <1>2, <2>1, <2>2, FragmentFields
    <3>2. ASSUME NEW j \in 1 .. Len(up'[conn]), up'[conn][j].type = "F",
                 \A k \in j + 1 .. Len(up'[conn]) : up'[conn][k].type # "F"
          PROVE  up'[conn][j].fragment = handed + 1
      <4>1. Len(up[conn]) \in Nat
        BY <1>2, <2>1
      <4>2. CASE j \in 1 .. Len(up[conn])
        <5>1. Len(up'[conn]) \in j + 1 .. Len(up'[conn])
          BY <3>1, <4>1, <4>2
        <5> QED
          BY <3>1, <3>2, <5>1
      <4> QED
        BY <2>3, <3>2, <4>2
    <3> QED
      BY <1>1, <3>1, <3>2 DEF UpToDate, IsFragment
  <2> QED
    BY <1>3, <2>5, <2>6, <2>7, <2>8, <2>9, <2>10, <2>11, <2>12, <2>13 DEF Inv
<1> QED
    BY <1>4, <1>5

LEMMA CloseStep == ASSUME Inv, Close PROVE Inv'
<1>1. /\ ~closed /\ closed' = TRUE /\ ready' = FALSE /\ socket' = 0
      /\ pendingQueue' = <<>> /\ interrupt' = 1
      /\ UNCHANGED <<handed, run, conn, heartbeat, heartbeats, ok>>
      /\ UNCHANGED <<server, leaving, current, received, latest, overtaken>>
    BY DEF Inv, Threads, Close, threadVars, serverVars
<1>2. /\ up' \in [Conns -> Seq(Message)]
      /\ link' \in [Conns -> {"none", "open", "broken", "closed"}]
      /\ \A d \in Conns : link'[d] = "open" => link[d] = "open"
      /\ \/ socket = 0 /\ up' = up
         \/ /\ socket = conn /\ conn \in Conns /\ link'[conn] = "closed"
            /\ \A d \in Conns : d # conn => up'[d] = up[d]
            /\ \/ up' = up
               \/ /\ link[conn] = "open" /\ server[conn] # "gone"
                  /\ Len(up'[conn]) = Len(up[conn]) + 1
                  /\ \A i \in 1 .. Len(up[conn]) : up'[conn][i] = up[conn][i]
                  /\ up'[conn][Len(up[conn]) + 1] = CLOSE
      /\ Ordered' /\ Consecutive' /\ NoGapOnConnection'
      /\ \A d \in Conns : \A i \in 1 .. Len(up'[d]) : up'[d][i].type = "F" =>
             i \in 1 .. Len(up[d]) /\ up'[d][i] = up[d][i]
  <2>1. CASE socket = 0
    <3>1. up' = up /\ link' = link
      BY <2>1 DEF Close
    <3>2. Ordered' /\ Consecutive' /\ NoGapOnConnection'
      BY <1>1, <3>1, SameOrder
    <3> QED
      BY <2>1, <3>1, <3>2 DEF Inv, TypeOK
  <2>2. CASE socket # 0
    <3>1. /\ socket = conn /\ conn \in Conns
          /\ Write(conn, <<CLOSE>>)
          /\ link' = [link EXCEPT ![conn] = "closed"]
      BY <2>2, SocketIsReached DEF Close
    <3>2. CLOSE \in Message /\ CLOSE.type # "F"
      BY PublisherClientAssumption DEF CLOSE, Message
    <3>3. /\ link' \in [Conns -> {"none", "open", "broken", "closed"}]
          /\ \A d \in Conns : link'[d] = "open" => link[d] = "open"
          /\ link'[conn] = "closed"
      BY <3>1 DEF Inv, TypeOK
    <3>4. /\ Ordered' /\ Consecutive' /\ NoGapOnConnection'
          /\ \A d \in Conns : \A i \in 1 .. Len(up'[d]) :
                 up'[d][i].type = "F" =>
                     i \in 1 .. Len(up[d]) /\ up'[d][i] = up[d][i]
      BY <1>1, <3>1, <3>2, OtherWritten
    <3> QED
      BY <3>1, <3>2, <3>3, <3>4, WriteOne
  <2> QED
    BY <2>1, <2>2
<1>3. \A d \in Conns : Len(up[d]) \in Nat
    BY UpType
<1>4. TypeOK'
  <2>1. /\ pendingQueue' \in Seq(1 .. MaxFragments)
        /\ socket' \in 0 .. MaxConnections
        /\ interrupt' \in 0 .. 1
    BY <1>1, PublisherClientAssumption
  <2>2. closed' \in BOOLEAN /\ ready' \in BOOLEAN
    BY <1>1
  <2>3. /\ UNCHANGED <<handed, run, conn, heartbeat, heartbeats, ok>>
        /\ UNCHANGED <<server, leaving, current, received, latest, overtaken>>
    BY <1>1
  <2> QED
    BY <1>2, <2>1, <2>2, <2>3 DEF Inv, TypeOK
<1>5. Threads'
    BY <1>1 DEF Inv, Threads
<1>6. Connections'
  <2>1. ASSUME NEW d \in Conns, server[d] \in {"none", "gone"}
        PROVE  up'[d] = <<>>
    <3>1. up[d] = <<>>
      BY <2>1 DEF Inv, Connections
    <3>2. CASE socket # 0 /\ d = conn /\ server[conn] # "gone"
      BY <2>1, <3>2, SocketIsReached
    <3> QED
      BY <1>2, <2>1, <3>1, <3>2, PublisherClientAssumption DEF Conns
  <2> QED
    BY <1>1, <2>1 DEF Inv, Connections
<1>7. Handshake'
  <2>1. run \in {"dialed", "signed", "opened"} => up' = up
    BY <1>2, PublisherClientAssumption DEF Inv, Threads, Conns
  <2>2. run = "accepted" => ~ok[conn] /\ server[conn] \in {"pushing", "gone"}
    BY DEF Inv, Handshake
  <2>3. run \in {"dialed", "signed"} =>
          up'[conn] = <<>> /\ server[conn] \notin {"creating", "pushing"}
    BY <2>1 DEF Inv, Handshake
  <2>4. ASSUME NEW c \in Conns, server[c] = "waiting", link'[c] = "open",
               socket' = c \/ (run = "opened" /\ conn = c)
        PROVE  up'[c] # <<>>
    <3>1. run = "opened" /\ conn = c /\ link[c] = "open"
      BY <1>1, <1>2, <2>4 DEF Conns
    <3> QED
      BY <2>1, <2>4, <3>1 DEF Inv, Handshake
  <2> QED
    BY <1>1, <2>2, <2>3, <2>4 DEF Handshake
<1>8. LastIsCurrent'
    BY <1>1 DEF Inv, LastIsCurrent
<1>9. QueueIsNewest'
    BY <1>1, PublisherClientAssumption DEF QueueIsNewest
<1>10. ServerUnderstands'
  <2> SUFFICES ASSUME NEW c \in Conns, NEW i \in 1 .. Len(up'[c])
               PROVE  /\ up'[c][i].type = "PUSH" <=>
                             (i = 1 /\ server[c] = "waiting")
                      /\ up'[c][i].type = "CLOSE" => i = Len(up'[c])
    BY <1>1 DEF ServerUnderstands
  <2>1. CASE up'[c] = up[c]
    BY <1>1, <2>1 DEF Inv, ServerUnderstands
  <2>2. CASE /\ socket # 0 /\ c = conn /\ link[conn] = "open"
             /\ Len(up'[conn]) = Len(up[conn]) + 1
             /\ \A k \in 1 .. Len(up[conn]) : up'[conn][k] = up[conn][k]
             /\ up'[conn][Len(up[conn]) + 1] = CLOSE
    <3>1. CASE i \in 1 .. Len(up[conn])
      BY <1>1, <2>2, <3>1 DEF Inv, ServerUnderstands
    <3>2. CASE i = Len(up[conn]) + 1
      <4>1. server[conn] = "waiting" => up[conn] # <<>>
        BY <2>2, SocketIsReached
      <4>2. up[conn] # <<>> => Len(up[conn]) \in 1 .. Len(up[conn])
        BY <2>2, UpType, Elements
      <4> QED
        BY <1>3, <2>2, <3>2, <4>1, <4>2 DEF CLOSE
    <3> QED
      BY <1>3, <2>2, <3>1, <3>2
  <2> QED
    BY <1>2, <2>1, <2>2, PublisherClientAssumption DEF Conns
<1>11. NoneBeforeReady'
    BY <1>1, <1>2 DEF Inv, NoneBeforeReady, IsFragment
<1>12. SentBeforeQueue'
  <2>1. 1 .. handed - Len(pendingQueue) \subseteq
            1 .. handed' - Len(pendingQueue')
    <3>1. handed \in Nat /\ Len(pendingQueue) \in Nat /\ Len(pendingQueue') = 0
      BY <1>1 DEF Inv, TypeOK
    <3> QED
      BY <1>1, <3>1
  <2>2. ASSUME NEW c \in Conns, NEW i \in 1 .. Len(up'[c]),
               up'[c][i].type = "F"
        PROVE  up'[c][i].fragment \in 1 .. handed - Len(pendingQueue)
    BY <1>2, <2>2 DEF Inv, SentBeforeQueue, IsFragment
  <2> QED
    BY <1>1, <2>1, <2>2 DEF Inv, SentBeforeQueue, IsFragment
<1>13. UpToDate'
    BY <1>1 DEF UpToDate
<1> QED
    BY <1>2, <1>4, <1>5, <1>6, <1>7, <1>8, <1>9, <1>10, <1>11, <1>12, <1>13
       DEF Inv

-----------------------------------------------------------------------------
(* Steps that read.                                                        *)

(* The fragments left on a connection are in order, and without a gap.     *)
LEMMA OrderOnTheWay ==
    ASSUME Inv, NEW c \in Conns,
           \A d \in Conns : d # c => up'[d] = up[d],
           Len(up[c]) \in Nat,
           Len(up[c]) = Len(up'[c]) + 1, Len(up'[c]) \in Nat,
           \A i \in 1 .. Len(up'[c]) : up'[c][i] = up[c][i + 1]
    PROVE  /\ \A d \in Conns : \A i, j \in 1 .. Len(up'[d]) :
                  i < j /\ up'[d][i].type = "F" /\ up'[d][j].type = "F" =>
                      up'[d][i].fragment < up'[d][j].fragment
           /\ \A d \in Conns : \A i, j \in 1 .. Len(up'[d]) :
                  /\ i < j
                  /\ up'[d][i].type = "F"
                  /\ up'[d][j].type = "F"
                  /\ \A k \in i + 1 .. j - 1 : up'[d][k].type # "F"
                  => up'[d][j].fragment = up'[d][i].fragment + 1
<1>1. \A i \in 1 .. Len(up'[c]) : i + 1 \in 1 .. Len(up[c])
    OBVIOUS
<1>2. ASSUME NEW d \in Conns, NEW i \in 1 .. Len(up'[d]),
             NEW j \in 1 .. Len(up'[d]), i < j,
             up'[d][i].type = "F", up'[d][j].type = "F"
      PROVE  up'[d][i].fragment < up'[d][j].fragment
  <2>1. CASE d # c
    <3>1. up'[d] = up[d]
      BY <2>1
    <3> QED
      BY <1>2, <3>1 DEF Inv, Ordered, IsFragment
  <2>2. CASE d = c
    <3>1. i + 1 \in 1 .. Len(up[c]) /\ j + 1 \in 1 .. Len(up[c])
          /\ i + 1 < j + 1
      BY <1>1, <1>2, <2>2
    <3> QED
      BY ZenonT(40), <1>2, <2>2, <3>1 DEF Inv, Ordered, IsFragment
  <2> QED
    BY <2>1, <2>2
<1>3. ASSUME NEW d \in Conns, NEW i \in 1 .. Len(up'[d]),
             NEW j \in 1 .. Len(up'[d]), i < j,
             up'[d][i].type = "F", up'[d][j].type = "F",
             \A k \in i + 1 .. j - 1 : up'[d][k].type # "F"
      PROVE  up'[d][j].fragment = up'[d][i].fragment + 1
  <2>1. CASE d # c
    <3>1. up'[d] = up[d]
      BY <2>1
    <3>2. /\ i \in 1 .. Len(up[d]) /\ j \in 1 .. Len(up[d])
          /\ up[d][i].type = "F" /\ up[d][j].type = "F"
          /\ \A k \in i + 1 .. j - 1 : up[d][k].type # "F"
      BY <1>3, <3>1
    <3>3. up[d][j].fragment = up[d][i].fragment + 1
      BY <1>3, <3>2 DEF Inv, Consecutive, IsFragment
    <3> QED
      BY <3>1, <3>3
  <2>2. CASE d = c
    <3>1. i + 1 \in 1 .. Len(up[c]) /\ j + 1 \in 1 .. Len(up[c])
          /\ i + 1 < j + 1
      BY <1>1, <1>3, <2>2
    <3>2. ASSUME NEW k \in (i + 1) + 1 .. (j + 1) - 1
          PROVE  up[c][k].type # "F"
      <4>1. /\ k - 1 \in i + 1 .. j - 1 /\ (k - 1) + 1 = k
            /\ k - 1 \in 1 .. Len(up'[c])
        BY <1>3, <2>2, <3>1
      <4>2. up'[c][k - 1] = up[c][k]
        BY <4>1
      <4> QED
        BY <1>3, <2>2, <4>1, <4>2
    <3>3. up'[c][i] = up[c][i + 1] /\ up'[c][j] = up[c][j + 1]
      BY <1>3, <2>2
    <3>4. up[c][j + 1].fragment = up[c][i + 1].fragment + 1
      BY <1>3, <2>2, <3>1, <3>2, <3>3 DEF Inv, Consecutive, IsFragment
    <3> QED
      BY <2>2, <3>3, <3>4
  <2> QED
    BY <2>1, <2>2
<1> QED
    BY <1>2, <1>3

(* When another message than a fragment is read, the fragments keep their  *)
(* order; a source that begins has none on its way.                        *)
LEMMA OtherRead ==
    ASSUME Inv, NEW c \in Conns, NEW type, type # "F", Receive(c, type),
           UNCHANGED received,
           \/ current' = current
           \/ current' = 0
           \/ current' = c /\ server[c] = "waiting"
    PROVE  /\ Ordered' /\ Consecutive' /\ NoGapOnConnection'
           /\ up' \in [Conns -> Seq(Message)]
           /\ \A d \in Conns : d # c => up'[d] = up[d]
           /\ up[c] # <<>> /\ up[c][1].type = type /\ 1 \in 1 .. Len(up[c])
           /\ \A i \in 1 .. Len(up'[c]) :
                  /\ i + 1 \in 1 .. Len(up[c])
                  /\ up'[c][i] = up[c][i + 1]
           /\ Len(up[c]) = Len(up'[c]) + 1
           /\ Len(up'[c]) \in Nat
<1>1. /\ up' \in [Conns -> Seq(Message)]
      /\ \A d \in Conns : d # c => up'[d] = up[d]
      /\ up[c][1].type = type
      /\ Len(up[c]) \in Nat /\ Len(up[c]) > 0
      /\ Len(up'[c]) = Len(up[c]) - 1
      /\ \A i \in 1 .. Len(up'[c]) : up'[c][i] = up[c][i + 1]
    BY ReadOne, UpType
<1>2. /\ 1 \in 1 .. Len(up[c])
      /\ \A i \in 1 .. Len(up'[c]) : i + 1 \in 1 .. Len(up[c])
      /\ \A i \in 2 .. Len(up[c]) :
             i - 1 \in 1 .. Len(up'[c]) /\ up'[c][i - 1] = up[c][i]
      /\ Len(up[c]) = Len(up'[c]) + 1 /\ Len(up'[c]) \in Nat
    BY <1>1
<1>3. c # 0 /\ (current = 0 \/ current \in Conns)
    BY PublisherClientAssumption DEF Inv, TypeOK, Conns
<1>4. server[c] = "waiting" => \A i \in 1 .. Len(up[c]) : up[c][i].type # "F"
    BY DEF Inv, NoneBeforeReady, IsFragment
<1>5. Ordered'
  <2>1. \A d \in Conns : \A i, j \in 1 .. Len(up'[d]) :
            i < j /\ up'[d][i].type = "F" /\ up'[d][j].type = "F" =>
                up'[d][i].fragment < up'[d][j].fragment
    BY <1>1, <1>2, OrderOnTheWay
  <2>2. \A i, j \in 1 .. Len(received) :
            i < j => received[i].fragment < received[j].fragment
    BY DEF Inv, Ordered
  <2>3. ASSUME current' # 0, NEW i \in 1 .. Len(received),
               NEW j \in 1 .. Len(up'[current']), up'[current'][j].type = "F"
        PROVE  received[i].fragment < up'[current'][j].fragment
    <3>1. CASE current' = current /\ current # c
      <4>1. up'[current] = up[current] /\ current # 0
        BY <1>1, <1>3, <2>3, <3>1
      <4> QED
        BY <2>3, <3>1, <4>1 DEF Inv, Ordered, IsFragment
    <3>2. CASE current' = c /\ current = c
      <4>1. j + 1 \in 1 .. Len(up[c]) /\ up'[c][j] = up[c][j + 1]
        BY <1>1, <1>2, <2>3, <3>2
      <4>2. up[c][j + 1].type = "F"
        BY <2>3, <3>2, <4>1
      <4>3. received[i].fragment < up[c][j + 1].fragment
        BY <1>3, <3>2, <4>1, <4>2 DEF Inv, Ordered, IsFragment
      <4> QED
        BY <3>2, <4>1, <4>3
    <3>3. CASE current' = c /\ server[c] = "waiting"
      BY ZenonT(40), <1>1, <1>2, <1>4, <2>3, <3>3
    <3> QED
      BY <2>3, <3>1, <3>2, <3>3
  <2> QED
    BY <2>1, <2>2, <2>3 DEF Ordered, IsFragment
<1>6. Consecutive'
  <2>1. \A d \in Conns : \A i, j \in 1 .. Len(up'[d]) :
            /\ i < j
            /\ up'[d][i].type = "F"
            /\ up'[d][j].type = "F"
            /\ \A k \in i + 1 .. j - 1 : up'[d][k].type # "F"
            => up'[d][j].fragment = up'[d][i].fragment + 1
    BY <1>1, <1>2, OrderOnTheWay
  <2>2. ASSUME current' # 0, received # <<>>,
               received[Len(received)].conn = current',
               NEW j \in 1 .. Len(up'[current']), up'[current'][j].type = "F",
               \A k \in 1 .. j - 1 : up'[current'][k].type # "F"
        PROVE  up'[current'][j].fragment =
                   received[Len(received)].fragment + 1
    <3>1. CASE current' = current /\ current # c
      <4>1. up'[current] = up[current] /\ current # 0
        BY <1>1, <1>3, <2>2, <3>1
      <4> QED
        BY <2>2, <3>1, <4>1 DEF Inv, Consecutive, IsFragment
    <3>2. CASE current' = c /\ current = c
      <4>1. j + 1 \in 1 .. Len(up[c])
        BY <1>2, <2>2, <3>2
      <4>2. \A k \in 1 .. (j + 1) - 1 :
                k = 1 \/ (k - 1 \in 1 .. j - 1 /\ k \in 2 .. Len(up[c]))
        BY <1>1, <2>2, <3>2, <4>1
      <4>3. ASSUME NEW k \in 1 .. (j + 1) - 1
            PROVE  up[c][k].type # "F"
        <5>1. CASE k = 1
          BY <1>1, <5>1
        <5>2. CASE k - 1 \in 1 .. j - 1 /\ k \in 2 .. Len(up[c])
          <6>1. up'[c][k - 1] = up[c][k]
            BY <1>2, <5>2
          <6> QED
            BY <2>2, <3>2, <5>2, <6>1
        <5> QED
          BY <4>2, <5>1, <5>2
      <4>4. up'[c][j] = up[c][j + 1]
        BY <1>1, <2>2, <3>2
      <4>5. /\ current # 0 /\ received[Len(received)].conn = current
            /\ up[current][j + 1].type = "F"
        BY <1>3, <2>2, <3>2, <4>4
      <4>6. \A l \in 1 .. Len(up[current]) :
                /\ up[current][l].type = "F"
                /\ \A k \in 1 .. l - 1 : up[current][k].type # "F"
                => up[current][l].fragment =
                       received[Len(received)].fragment + 1
        BY <2>2, <4>5 DEF Inv, Consecutive, IsFragment
      <4>7. \A k \in 1 .. (j + 1) - 1 : up[current][k].type # "F"
        BY <3>2, <4>3
      <4>8. up[c][j + 1].fragment = received[Len(received)].fragment + 1
        BY <3>2, <4>1, <4>5, <4>6, <4>7
      <4> QED
        BY <3>2, <4>4, <4>8
    <3>3. CASE current' = c /\ server[c] = "waiting"
      <4>1. j + 1 \in 1 .. Len(up[c]) /\ up'[c][j] = up[c][j + 1]
        BY <1>1, <1>2, <2>2, <3>3
      <4> QED
        BY <1>4, <2>2, <3>3, <4>1
    <3> QED
      BY <2>2, <3>1, <3>2, <3>3
  <2> QED
    BY <2>1, <2>2 DEF Consecutive, IsFragment
<1>7. NoGapOnConnection'
    BY DEF Inv, NoGapOnConnection
<1> QED
    BY <1>1, <1>2, <1>5, <1>6, <1>7

LEMMA HandlePushStep ==
    ASSUME Inv, NEW c \in Conns, HandlePush(c) PROVE Inv'
<1>1. /\ server[c] = "waiting"
      /\ server' = [server EXCEPT ![c] = "creating"]
      /\ current' = c
      /\ latest' = IF c > latest THEN c ELSE latest
      /\ overtaken' = (overtaken \/ c < latest)
      /\ UNCHANGED <<closed, ready, socket, pendingQueue, interrupt, handed>>
      /\ UNCHANGED <<run, conn, heartbeat, heartbeats, link, ok>>
      /\ UNCHANGED <<leaving, received>>
    BY DEF HandlePush, publisherVars, threadVars
<1>2. /\ Ordered' /\ Consecutive' /\ NoGapOnConnection'
      /\ up' \in [Conns -> Seq(Message)]
      /\ \A d \in Conns : d # c => up'[d] = up[d]
      /\ up[c] # <<>>
      /\ \A i \in 1 .. Len(up'[c]) :
             i + 1 \in 1 .. Len(up[c]) /\ up'[c][i] = up[c][i + 1]
      /\ Len(up[c]) = Len(up'[c]) + 1 /\ Len(up'[c]) \in Nat
    BY <1>1, OtherRead DEF HandlePush
<1>3. /\ server'[c] = "creating"
      /\ \A d \in Conns : d # c => server'[d] = server[d]
    BY <1>1 DEF Inv, TypeOK
<1>4. \A i \in 1 .. Len(up'[c]) : up'[c][i].type # "F"
    BY <1>1, <1>2 DEF Inv, NoneBeforeReady, IsFragment
<1>5. c \in Nat /\ latest \in Nat /\ conn \in Nat /\ c <= conn /\ c # 0
    BY <1>1, PublisherClientAssumption DEF Inv, TypeOK, Connections, Conns
<1>6. TypeOK'
  <2>1. /\ server' \in [Conns -> {"none", "waiting", "creating", "pushing",
                                "gone"}]
        /\ current' \in 0 .. MaxConnections
        /\ latest' \in 0 .. MaxConnections
    BY <1>1, PublisherClientAssumption DEF Inv, TypeOK, Conns
  <2>2. overtaken' \in BOOLEAN
    BY <1>1 DEF Inv, TypeOK
  <2> QED
    BY <1>1, <1>2, <2>1, <2>2 DEF Inv, TypeOK
<1>7. Threads' /\ QueueIsNewest'
    BY <1>1 DEF Inv, Threads, QueueIsNewest
<1>8. Connections'
  <2> SUFFICES ASSUME NEW d \in Conns
               PROVE  /\ d > conn <=> server'[d] = "none"
                      /\ server'[d] \in {"none", "gone"} => up'[d] = <<>>
                      /\ ok[d] => server'[d] \in {"pushing", "gone"}
                      /\ current' = d => \/ server'[d] \in {"creating", "pushing"}
                                         \/ d \in leaving
                      /\ d \in leaving => server'[d] = "gone"
    BY <1>1 DEF Connections
  <2>1. CASE d = c
    BY <1>1, <1>3, <1>5, <2>1 DEF Inv, Connections
  <2>2. CASE d # c
    BY <1>1, <1>2, <1>3, <2>2 DEF Inv, Connections
  <2> QED
    BY <2>1, <2>2
<1>9. Handshake'
  <2>1. ready => conn # c
    BY <1>1 DEF Inv, Handshake
  <2>2. run = "accepted" => conn # c
    BY <1>1 DEF Inv, Handshake
  <2>3. run \in {"dialed", "signed"} => conn # c
    BY <1>2 DEF Inv, Handshake
  <2>4. ready \/ run \in {"accepted", "dialed", "signed"} => conn \in Conns
    BY PublisherClientAssumption DEF Inv, TypeOK, Threads, Conns
  <2>5. \A d \in Conns : server'[d] = "waiting" =>
            d # c /\ server[d] = "waiting" /\ up'[d] = up[d]
    BY <1>2, <1>3
  <2> QED
    BY <1>1, <1>2, <1>3, <2>1, <2>2, <2>3, <2>4, <2>5 DEF Inv, Handshake
<1>10. LastIsCurrent'
  <2>1. latest' \in Nat /\ latest' <= conn /\ latest' # 0
    BY <1>1, <1>5 DEF Inv, LastIsCurrent
  <2>2. ASSUME server'[conn] \in {"creating", "pushing"}
        PROVE  latest' = conn
    <3>1. CASE conn = c
      BY <1>1, <1>5, <3>1 DEF Inv, LastIsCurrent
    <3>2. CASE conn # c
      <4>1. conn \in Conns
        BY <1>5, PublisherClientAssumption DEF Inv, TypeOK, Conns
      <4>2. latest = conn
        BY <1>3, <1>5, <2>2, <3>2, <4>1 DEF Inv, LastIsCurrent
      <4> QED
        BY <1>1, <1>5, <4>2
    <3> QED
      BY <3>1, <3>2
  <2>3. ~overtaken' => current' = latest'
    <3>1. ~overtaken' => ~(c < latest)
      BY Zenon, <1>1
    <3> QED
      BY <1>1, <1>5, <3>1
  <2> QED
    BY <1>1, <2>1, <2>2, <2>3 DEF LastIsCurrent
<1>11. ServerUnderstands'
  <2> SUFFICES ASSUME NEW d \in Conns, NEW i \in 1 .. Len(up'[d])
               PROVE  /\ up'[d][i].type = "PUSH" <=>
                             (i = 1 /\ server'[d] = "waiting")
                      /\ up'[d][i].type = "CLOSE" => i = Len(up'[d]) /\ closed
    BY <1>1 DEF ServerUnderstands
  <2>1. CASE d # c
    BY <1>2, <1>3, <2>1 DEF Inv, ServerUnderstands
  <2>2. CASE d = c
    <3>1. i + 1 \in 1 .. Len(up[c]) /\ up'[c][i] = up[c][i + 1]
      BY <1>2, <2>2
    <3>2. up[c][i + 1].type # "PUSH"
      BY <3>1 DEF Inv, ServerUnderstands
    <3>3. up[c][i + 1].type = "CLOSE" => i + 1 = Len(up[c]) /\ closed
      BY <3>1 DEF Inv, ServerUnderstands
    <3>4. server'[d] # "waiting"
      BY <1>3, <2>2
    <3>5. i + 1 = Len(up[c]) => i = Len(up'[d])
      BY <1>2, <2>2, <3>1
    <3> QED
      BY <2>2, <3>1, <3>2, <3>3, <3>4, <3>5
  <2> QED
    BY <2>1, <2>2
<1>12. NoneBeforeReady'
  <2>1. ASSUME NEW d \in Conns, server'[d] = "waiting"
        PROVE  \A i \in 1 .. Len(up'[d]) : up'[d][i].type # "F"
    <3>1. d # c
      BY <1>3, <2>1
    <3>2. server[d] = "waiting" /\ up'[d] = up[d]
      BY <1>2, <1>3, <2>1, <3>1
    <3> QED
      BY <3>2 DEF Inv, NoneBeforeReady, IsFragment
  <2>2. ASSUME ~closed, ~ready, run \notin {"check", "dialing", "ended"}
        PROVE  /\ \A i \in 1 .. Len(up'[conn]) : up'[conn][i].type # "F"
               /\ \A i \in 1 .. Len(received) : received[i].conn # conn
    <3>1. conn \in Conns
      BY <1>5, PublisherClientAssumption DEF Inv, TypeOK, Conns
    <3> QED
      BY <1>2, <1>4, <2>2, <3>1 DEF Inv, NoneBeforeReady, IsFragment
  <2> QED
    BY <1>1, <2>1, <2>2 DEF NoneBeforeReady, IsFragment
<1>13. SentBeforeQueue'
  <2>1. ASSUME NEW d \in Conns, NEW i \in 1 .. Len(up'[d]),
               up'[d][i].type = "F"
        PROVE  up'[d][i].fragment \in 1 .. handed - Len(pendingQueue)
    BY <1>2, <1>4, <2>1 DEF Inv, SentBeforeQueue, IsFragment
  <2> QED
    BY <1>1, <2>1 DEF Inv, SentBeforeQueue, IsFragment
<1>14. UpToDate'
  <2> SUFFICES ASSUME ready, link[conn] = "open"
               PROVE  UpToDate'
    BY <1>1 DEF UpToDate
  <2>1. conn \in Conns /\ conn # c
    BY <1>1, PublisherClientAssumption
       DEF Inv, TypeOK, Threads, Handshake, Conns
  <2>2. /\ up'[conn] = up[conn] /\ server'[conn] = server[conn]
        /\ current' # conn' /\ conn' = conn /\ handed' = handed
    BY <1>1, <1>2, <1>3, <2>1
  <2> QED
    BY <2>2 DEF Inv, UpToDate, IsFragment
<1> QED
    BY <1>2, <1>6, <1>7, <1>8, <1>9, <1>10, <1>11, <1>12, <1>13, <1>14
       DEF Inv

(* What a handler that goes on leaves behind, whatever it read.            *)
LEMMA HandlerGoesOn ==
    ASSUME Inv, NEW c \in Conns, server[c] = "pushing",
           UNCHANGED <<closed, ready, socket, pendingQueue, interrupt, handed>>,
           UNCHANGED <<run, conn, heartbeat, heartbeats, link, ok>>,
           UNCHANGED <<server, leaving, current, latest, overtaken>>,
           up' \in [Conns -> Seq(Message)],
           \A d \in Conns : d # c => up'[d] = up[d],
           \A i \in 1 .. Len(up'[c]) :
               i + 1 \in 1 .. Len(up[c]) /\ up'[c][i] = up[c][i + 1],
           Len(up[c]) = Len(up'[c]) + 1, Len(up'[c]) \in Nat
    PROVE  /\ Threads' /\ Connections' /\ Handshake' /\ LastIsCurrent'
           /\ QueueIsNewest' /\ ServerUnderstands'
           /\ \A d \in Conns : server[d] = "waiting" =>
                  \A i \in 1 .. Len(up'[d]) : up'[d][i].type # "F"
           /\ ~closed /\ ~ready /\ run \notin {"check", "dialing", "ended"} =>
                  \A i \in 1 .. Len(up'[conn]) : up'[conn][i].type # "F"
           /\ \A d \in Conns : \A i \in 1 .. Len(up'[d]) :
                  up'[d][i].type = "F" =>
                      up'[d][i].fragment \in 1 .. handed - Len(pendingQueue)
           /\ ready /\ link[conn] = "open" /\ server[conn] = "pushing" =>
                  \A j \in 1 .. Len(up'[conn]) :
                      /\ up'[conn][j].type = "F"
                      /\ \A k \in j + 1 .. Len(up'[conn]) :
                             up'[conn][k].type # "F"
                      => up'[conn][j].fragment = handed
<1>1. Threads' /\ LastIsCurrent' /\ QueueIsNewest'
    BY DEF Inv, Threads, LastIsCurrent, QueueIsNewest
<1>2. Connections'
    BY DEF Inv, Connections
<1>3. Handshake'
  <2>1. run \in {"dialed", "signed"} => conn \in Conns /\ conn # c
    BY PublisherClientAssumption DEF Inv, TypeOK, Threads, Handshake, Conns
  <2> QED
    BY <2>1 DEF Inv, Handshake
<1>4. ServerUnderstands'
  <2> SUFFICES ASSUME NEW d \in Conns, NEW i \in 1 .. Len(up'[d])
               PROVE  /\ up'[d][i].type = "PUSH" <=>
                             (i = 1 /\ server[d] = "waiting")
                      /\ up'[d][i].type = "CLOSE" => i = Len(up'[d]) /\ closed
    BY DEF ServerUnderstands
  <2>1. CASE d # c
    <3>1. up'[d] = up[d]
      BY <2>1
    <3> QED
      BY <3>1 DEF Inv, ServerUnderstands
  <2>2. CASE d = c
    <3>1. i + 1 \in 1 .. Len(up[c]) /\ up'[c][i] = up[c][i + 1]
      BY <2>2
    <3>2. up[c][i + 1].type # "PUSH"
      BY <3>1 DEF Inv, ServerUnderstands
    <3>3. up[c][i + 1].type = "CLOSE" => i + 1 = Len(up[c]) /\ closed
      BY <3>1 DEF Inv, ServerUnderstands
    <3> QED
      BY <2>2, <3>1, <3>2, <3>3
  <2> QED
    BY <2>1, <2>2
<1>5. \A d \in Conns : \A i \in 1 .. Len(up'[d]) :
          \E k \in 1 .. Len(up[d]) : up'[d][i] = up[d][k]
    OBVIOUS
<1>6. ASSUME NEW d \in Conns, server[d] = "waiting"
      PROVE  \A i \in 1 .. Len(up'[d]) : up'[d][i].type # "F"
    BY <1>6 DEF Inv, NoneBeforeReady, IsFragment
<1>7. conn # 0 => conn \in Conns
    BY PublisherClientAssumption DEF Inv, TypeOK, Conns
<1>8. ASSUME ~closed, ~ready, run \notin {"check", "dialing", "ended"}
      PROVE  \A i \in 1 .. Len(up'[conn]) : up'[conn][i].type # "F"
  <2>1. conn \in Conns
    BY <1>7, <1>8 DEF Inv, TypeOK, Threads
  <2> QED
    BY ZenonT(40), <1>5, <1>8, <2>1 DEF Inv, NoneBeforeReady, IsFragment
<1>9. ASSUME NEW d \in Conns, NEW i \in 1 .. Len(up'[d]), up'[d][i].type = "F"
      PROVE  up'[d][i].fragment \in 1 .. handed - Len(pendingQueue)
  <2>1. PICK k \in 1 .. Len(up[d]) : up'[d][i] = up[d][k]
    BY <1>5
  <2> QED
    BY <1>9, <2>1 DEF Inv, SentBeforeQueue, IsFragment
<1>10. ASSUME ready, link[conn] = "open", server[conn] = "pushing",
              NEW j \in 1 .. Len(up'[conn]), up'[conn][j].type = "F",
              \A k \in j + 1 .. Len(up'[conn]) : up'[conn][k].type # "F"
       PROVE  up'[conn][j].fragment = handed
  <2>1. conn \in Conns
    BY <1>7, <1>10 DEF Inv, Threads
  <2>2. CASE conn # c
    <3>1. up'[conn] = up[conn]
      BY <2>1, <2>2
    <3> QED
      BY <1>10, <3>1 DEF Inv, UpToDate, IsFragment
  <2>3. CASE conn = c
    <3>1. j + 1 \in 1 .. Len(up[c]) /\ up'[c][j] = up[c][j + 1]
      BY <1>10, <2>3
    <3>2. ASSUME NEW k \in (j + 1) + 1 .. Len(up[c])
          PROVE  up[c][k].type # "F"
      <4>1. /\ k - 1 \in j + 1 .. Len(up'[c]) /\ (k - 1) + 1 = k
            /\ k - 1 \in 1 .. Len(up'[c])
        BY <2>3, <3>1
      <4>2. up'[c][k - 1] = up[c][k]
        BY <4>1
      <4> QED
        BY <1>10, <2>3, <4>1, <4>2
    <3>3. up[conn][j + 1].fragment = handed
      BY <1>10, <2>3, <3>1, <3>2 DEF Inv, UpToDate, IsFragment
    <3> QED
      BY <2>3, <3>1, <3>3
  <2> QED
    BY <2>2, <2>3
<1> QED
    BY <1>1, <1>2, <1>3, <1>4, <1>6, <1>8, <1>9, <1>10

LEMMA HandleHeartbeatStep ==
    ASSUME Inv, NEW c \in Conns, HandleHeartbeat(c) PROVE Inv'
<1>1. /\ server[c] = "pushing"
      /\ UNCHANGED <<closed, ready, socket, pendingQueue, interrupt, handed>>
      /\ UNCHANGED <<run, conn, heartbeat, heartbeats, link, ok>>
      /\ UNCHANGED <<server, leaving, current, received, latest, overtaken>>
    BY DEF HandleHeartbeat, publisherVars, threadVars, serverVars
<1>2. /\ Ordered' /\ Consecutive' /\ NoGapOnConnection'
      /\ up' \in [Conns -> Seq(Message)]
      /\ \A d \in Conns : d # c => up'[d] = up[d]
      /\ up[c] # <<>> /\ up[c][1].type = "H"
      /\ \A i \in 1 .. Len(up'[c]) :
             i + 1 \in 1 .. Len(up[c]) /\ up'[c][i] = up[c][i + 1]
      /\ Len(up[c]) = Len(up'[c]) + 1 /\ Len(up'[c]) \in Nat
    BY <1>1, OtherRead DEF HandleHeartbeat
<1>3. TypeOK'
    BY <1>1, <1>2 DEF Inv, TypeOK
<1>4. /\ Threads' /\ Connections' /\ Handshake' /\ LastIsCurrent'
      /\ QueueIsNewest' /\ ServerUnderstands'
      /\ \A d \in Conns : server[d] = "waiting" =>
             \A i \in 1 .. Len(up'[d]) : up'[d][i].type # "F"
      /\ ~closed /\ ~ready /\ run \notin {"check", "dialing", "ended"} =>
             \A i \in 1 .. Len(up'[conn]) : up'[conn][i].type # "F"
      /\ \A d \in Conns : \A i \in 1 .. Len(up'[d]) :
             up'[d][i].type = "F" =>
                 up'[d][i].fragment \in 1 .. handed - Len(pendingQueue)
      /\ ready /\ link[conn] = "open" /\ server[conn] = "pushing" =>
             \A j \in 1 .. Len(up'[conn]) :
                 /\ up'[conn][j].type = "F"
                 /\ \A k \in j + 1 .. Len(up'[conn]) : up'[conn][k].type # "F"
                 => up'[conn][j].fragment = handed
    BY <1>1, <1>2, HandlerGoesOn
<1>5. NoneBeforeReady'
    BY <1>1, <1>4 DEF Inv, NoneBeforeReady, IsFragment
<1>6. SentBeforeQueue'
    BY <1>1, <1>4 DEF Inv, SentBeforeQueue, IsFragment
<1>7. UpToDate'
  <2> SUFFICES ASSUME ready, link[conn] = "open", server[conn] = "pushing",
                      current = conn, received # <<>>,
                      received[Len(received)].conn = conn,
                      \A k \in 1 .. Len(up'[conn]) : up'[conn][k].type # "F"
               PROVE  received[Len(received)].fragment = handed
    BY <1>1, <1>4 DEF UpToDate, IsFragment
  <2>1. conn \in Conns
    BY PublisherClientAssumption DEF Inv, TypeOK, Threads, Conns
  <2>2. \A k \in 1 .. Len(up[conn]) : up[conn][k].type # "F"
    <3>1. CASE conn # c
      BY <1>2, <2>1, <3>1
    <3>2. CASE conn = c
      <4> SUFFICES ASSUME NEW k \in 1 .. Len(up[c]), k # 1
                   PROVE  up[c][k].type # "F"
        BY <1>2, <3>2
      <4>1. k - 1 \in 1 .. Len(up'[c]) /\ (k - 1) + 1 = k
        BY <1>2
      <4>2. up'[c][k - 1] = up[c][k]
        BY <1>2, <4>1
      <4> QED
        BY <3>2, <4>1, <4>2
    <3> QED
      BY <3>1, <3>2
  <2> QED
    BY <2>2 DEF Inv, UpToDate, IsFragment
<1> QED
    BY <1>2, <1>3, <1>4, <1>5, <1>6, <1>7 DEF Inv

(* CreateSource returns: no run() knows of it yet.                         *)
LEMMA PushAcceptedStep ==
    ASSUME Inv, NEW c \in Conns, PushAccepted(c) PROVE Inv'
<1>1. /\ server[c] = "creating"
      /\ server' = [server EXCEPT ![c] = "pushing"]
      /\ ok' = [ok EXCEPT ![c] = TRUE]
      /\ UNCHANGED <<closed, ready, socket, pendingQueue, interrupt, handed>>
      /\ UNCHANGED <<run, conn, heartbeat, heartbeats, link, up>>
      /\ UNCHANGED <<leaving, current, received, latest, overtaken>>
    BY DEF PushAccepted, publisherVars, threadVars
<1>2. /\ server'[c] = "pushing" /\ ok'[c] = TRUE
      /\ \A d \in Conns : d # c => server'[d] = server[d] /\ ok'[d] = ok[d]
    BY <1>1 DEF Inv, TypeOK
<1>3. conn # 0 => conn \in Conns
    BY PublisherClientAssumption DEF Inv, TypeOK, Conns
<1>4. /\ ready => conn # c
      /\ run \in {"accepted", "dialed", "signed"} => conn # c
    BY <1>1 DEF Inv, Handshake
<1>5. ready \/ run \in {"accepted", "dialed", "signed"} => conn \in Conns
    BY <1>3 DEF Inv, TypeOK, Threads
<1>6. \A d \in Conns : /\ server'[d] = "waiting" <=> server[d] = "waiting"
                       /\ server'[d] \in {"none", "gone"} => d # c
    BY <1>1, <1>2
<1>7. TypeOK' /\ Threads' /\ QueueIsNewest'
  <2>1. /\ server' \in [Conns -> {"none", "waiting", "creating", "pushing",
                                "gone"}]
        /\ ok' \in [Conns -> BOOLEAN]
    BY <1>1 DEF Inv, TypeOK
  <2> QED
    BY <1>1, <2>1 DEF Inv, TypeOK, Threads, QueueIsNewest
<1>8. Connections'
  <2> SUFFICES ASSUME NEW d \in Conns
               PROVE  /\ d > conn <=> server'[d] = "none"
                      /\ server'[d] \in {"none", "gone"} => up[d] = <<>>
                      /\ ok'[d] => server'[d] \in {"pushing", "gone"}
                      /\ current = d => \/ server'[d] \in {"creating", "pushing"}
                                        \/ d \in leaving
                      /\ d \in leaving => server'[d] = "gone"
    BY <1>1 DEF Connections
  <2>1. CASE d = c
    BY <1>1, <1>2, <2>1 DEF Inv, Connections
  <2>2. CASE d # c
    BY <1>2, <2>2 DEF Inv, Connections
  <2> QED
    BY <2>1, <2>2
<1>9. Handshake'
    BY <1>1, <1>2, <1>4, <1>5, <1>6 DEF Inv, Handshake
<1>10. LastIsCurrent'
  <2>1. latest # 0 => latest \in Conns
    BY PublisherClientAssumption DEF Inv, TypeOK, Conns
  <2> QED
    BY <1>1, <1>2, <1>3, <2>1 DEF Inv, LastIsCurrent
<1>11. ServerUnderstands' /\ NoneBeforeReady' /\ SentBeforeQueue'
    BY <1>1, <1>6 DEF Inv, ServerUnderstands, NoneBeforeReady, SentBeforeQueue,
       IsFragment
<1>12. UpToDate'
    BY <1>1, <1>2, <1>4, <1>5 DEF Inv, UpToDate, IsFragment
<1>13. Ordered' /\ Consecutive' /\ NoGapOnConnection'
    BY <1>1, SameOrder
<1> QED
    BY <1>7, <1>8, <1>9, <1>10, <1>11, <1>12, <1>13 DEF Inv

(* The source of a handler that ended is taken away if the stream has it.  *)
LEMMA RemoveSourceStep ==
    ASSUME Inv, NEW c \in Conns, RemoveSource(c) PROVE Inv'
<1>1. /\ c \in leaving /\ leaving' = leaving \ {c}
      /\ current' = (IF current = c THEN 0 ELSE current)
      /\ UNCHANGED <<closed, ready, socket, pendingQueue, interrupt, handed>>
      /\ UNCHANGED <<run, conn, heartbeat, heartbeats, link, up, ok>>
      /\ UNCHANGED <<server, received, latest, overtaken>>
    BY DEF RemoveSource, publisherVars, threadVars, networkVars
<1>2. server[c] = "gone" /\ c # 0
    BY <1>1 DEF Inv, Connections, Conns
<1>3. current' # 0 => current' = current /\ current # c
    BY <1>1
<1>4. TypeOK' /\ Threads' /\ QueueIsNewest' /\ Handshake'
    BY <1>1, PublisherClientAssumption
    DEF Inv, TypeOK, Threads, QueueIsNewest, Handshake
<1>5. Connections'
    BY <1>1, <1>2, <1>3 DEF Inv, Connections, Conns
<1>6. LastIsCurrent'
    BY <1>1, <1>2 DEF Inv, LastIsCurrent
<1>7. ServerUnderstands' /\ NoneBeforeReady' /\ SentBeforeQueue'
    BY <1>1 DEF Inv, ServerUnderstands, NoneBeforeReady, SentBeforeQueue,
       IsFragment
<1>8. Ordered' /\ NoGapOnConnection'
    BY <1>1, <1>3 DEF Inv, Ordered, NoGapOnConnection, IsFragment
<1>9. Consecutive'
  <2>1. up' = up /\ received' = received
    BY <1>1
  <2>2. CASE current' = current
    BY <2>1, <2>2 DEF Inv, Consecutive, IsFragment
  <2>3. CASE current' = 0
    <3>1. \A d \in Conns : \A i, j \in 1 .. Len(up[d]) :
              /\ i < j
              /\ IsFragment(d, i)
              /\ IsFragment(d, j)
              /\ \A k \in i + 1 .. j - 1 : ~IsFragment(d, k)
              => up[d][j].fragment = up[d][i].fragment + 1
      BY DEF Inv, Consecutive
    <3> QED
      BY <2>1, <2>3, <3>1 DEF Consecutive, IsFragment
  <2> QED
    BY <1>3, <2>2, <2>3
<1>10. UpToDate'
  <2>1. ready => conn # 0
    BY DEF Inv, Threads
  <2> QED
    BY <1>1, <1>3, <2>1 DEF Inv, UpToDate, IsFragment
<1> QED
    BY <1>4, <1>5, <1>6, <1>7, <1>8, <1>9, <1>10 DEF Inv

(* The handler ends, and leaves its source, if it has one, to be removed.  *)
LEMMA HandlerEnds ==
    ASSUME Inv, NEW c \in Conns, server[c] \in {"waiting", "pushing"},
           server' = [server EXCEPT ![c] = "gone"],
           up' = [up EXCEPT ![c] = <<>>],
           leaving' \in {leaving, leaving \cup {c}},
           server[c] = "pushing" => c \in leaving',
           UNCHANGED <<closed, ready, socket, pendingQueue, interrupt, handed>>,
           UNCHANGED <<run, conn, heartbeat, heartbeats, link, ok>>,
           UNCHANGED <<current, received, latest, overtaken>>
    PROVE  Inv'
<1>1. /\ server'[c] = "gone" /\ up'[c] = <<>> /\ Len(up'[c]) = 0
      /\ \A d \in Conns : d # c => server'[d] = server[d] /\ up'[d] = up[d]
      /\ c # 0
    BY DEF Inv, TypeOK, Conns
<1>2. \A d \in Conns : \A i \in 1 .. Len(up'[d]) : d # c
    BY <1>1
<1>3. conn # 0 => conn \in Conns
    BY PublisherClientAssumption DEF Inv, TypeOK, Conns
<1>4. current # 0 => current \in Conns
    BY PublisherClientAssumption DEF Inv, TypeOK, Conns
<1>5. TypeOK'
  <2>1. leaving' \subseteq Conns
    BY DEF Inv, TypeOK
  <2>2. server' \in [Conns -> {"none", "waiting", "creating", "pushing",
                                "gone"}]
    BY DEF Inv, TypeOK
  <2>3. up' \in [Conns -> Seq(Message)]
    <3>1. <<>> \in Seq(Message)
      OBVIOUS
    <3> QED
      BY <3>1 DEF Inv, TypeOK
  <2> QED
    BY <2>1, <2>2, <2>3 DEF Inv, TypeOK
<1>6. Threads' /\ QueueIsNewest'
    BY DEF Inv, Threads, QueueIsNewest
<1>7. Connections'
  <2> SUFFICES ASSUME NEW d \in Conns
               PROVE  /\ d > conn <=> server'[d] = "none"
                      /\ server'[d] \in {"none", "gone"} => up'[d] = <<>>
                      /\ ok[d] => server'[d] \in {"pushing", "gone"}
                      /\ current = d => \/ server'[d] \in {"creating", "pushing"}
                                        \/ d \in leaving'
                      /\ d \in leaving' => server'[d] = "gone"
    BY DEF Connections
  <2>1. CASE d = c
    BY <1>1, <2>1 DEF Inv, Connections
  <2>2. CASE d # c
    BY <1>1, <2>2 DEF Inv, Connections, Conns
  <2> QED
    BY <2>1, <2>2
<1>8. Handshake'
  <2>1. ready \/ run \in {"accepted", "dialed", "signed"} => conn \in Conns
    BY <1>3 DEF Inv, TypeOK, Threads
  <2>2. \A d \in Conns : server'[d] = "waiting" =>
            server[d] = "waiting" /\ up'[d] = up[d]
    BY <1>1
  <2> QED
    BY <1>1, <2>1, <2>2 DEF Inv, Handshake
<1>9. LastIsCurrent'
  <2>1. latest # 0 => latest \in Conns
    BY PublisherClientAssumption DEF Inv, TypeOK, Conns
  <2>2. conn # 0 /\ server'[conn] \in {"creating", "pushing"} => latest = conn
    BY <1>1, <1>3 DEF Inv, LastIsCurrent
  <2>3. /\ ~overtaken
        /\ latest # 0
        /\ server'[latest] \in {"creating", "pushing"}
        => current = latest
    BY <1>1, <2>1 DEF Inv, LastIsCurrent
  <2> QED
    BY <2>2, <2>3 DEF Inv, LastIsCurrent
<1>10. ServerUnderstands'
    BY <1>1, <1>2 DEF Inv, ServerUnderstands
<1>11. NoneBeforeReady'
  <2>1. \A d \in Conns : server'[d] = "waiting" =>
            \A i \in 1 .. Len(up'[d]) : up'[d][i].type # "F"
    BY <1>1, <1>2 DEF Inv, NoneBeforeReady, IsFragment
  <2>2. ASSUME ~closed, ~ready, run \notin {"check", "dialing", "ended"}
        PROVE  /\ \A i \in 1 .. Len(up'[conn]) : up'[conn][i].type # "F"
               /\ \A i \in 1 .. Len(received) : received[i].conn # conn
    <3>1. conn \in Conns
      BY <1>3, <2>2 DEF Inv, TypeOK, Threads
    <3> QED
      BY <1>1, <1>2, <2>2, <3>1 DEF Inv, NoneBeforeReady, IsFragment
  <2> QED
    BY <2>1, <2>2 DEF NoneBeforeReady, IsFragment
<1>12. SentBeforeQueue'
    BY <1>1, <1>2 DEF Inv, SentBeforeQueue, IsFragment
<1>13. Ordered'
  <2>1. \A d \in Conns : \A i, j \in 1 .. Len(up'[d]) :
            i < j /\ up'[d][i].type = "F" /\ up'[d][j].type = "F" =>
                up'[d][i].fragment < up'[d][j].fragment
    BY <1>1, <1>2 DEF Inv, Ordered, IsFragment
  <2>2. current # 0 => \/ up'[current] = up[current]
                       \/ Len(up'[current]) = 0
    BY <1>1, <1>4
  <2> QED
    BY <1>4, <2>1, <2>2 DEF Inv, Ordered, IsFragment
<1>14. Consecutive'
  <2>1. ASSUME NEW d \in Conns, NEW i \in 1 .. Len(up'[d]),
               NEW j \in 1 .. Len(up'[d]), i < j,
               up'[d][i].type = "F", up'[d][j].type = "F",
               \A k \in i + 1 .. j - 1 : up'[d][k].type # "F"
        PROVE  up'[d][j].fragment = up'[d][i].fragment + 1
    <3>1. up'[d] = up[d]
      BY <1>1, <1>2
    <3> QED
      BY <2>1, <3>1 DEF Inv, Consecutive, IsFragment
  <2>2. current # 0 => \/ up'[current] = up[current]
                       \/ Len(up'[current]) = 0
    BY <1>1, <1>4
  <2> QED
    BY SMTT(30), <1>4, <2>1, <2>2 DEF Inv, Consecutive, IsFragment
<1>15. UpToDate'
  <2> SUFFICES ASSUME ready, link[conn] = "open", server'[conn] = "pushing"
               PROVE  UpToDate'
    BY DEF UpToDate
  <2>1. conn \in Conns /\ conn # c
    BY <1>1, <1>3 DEF Inv, Threads
  <2>2. /\ up'[conn] = up[conn] /\ server'[conn] = server[conn]
    BY <1>1, <2>1
  <2> QED
    BY <2>2 DEF Inv, UpToDate, IsFragment
<1>16. NoGapOnConnection'
    BY DEF Inv, NoGapOnConnection
<1> QED
    BY <1>5, <1>6, <1>7, <1>8, <1>9, <1>10, <1>11, <1>12, <1>13, <1>14,
       <1>15, <1>16 DEF Inv

LEMMA HandleCloseStep ==
    ASSUME Inv, NEW c \in Conns, HandleClose(c) PROVE Inv'
<1>1. /\ server[c] = "pushing"
      /\ server' = [server EXCEPT ![c] = "gone"]
      /\ leaving' = leaving \cup {c}
      /\ UNCHANGED <<closed, ready, socket, pendingQueue, interrupt, handed>>
      /\ UNCHANGED <<run, conn, heartbeat, heartbeats, link, ok>>
      /\ UNCHANGED <<current, received, latest, overtaken>>
    BY DEF HandleClose, publisherVars, threadVars
<1>2. /\ up[c] # <<>> /\ up[c][1].type = "CLOSE"
      /\ up' = [up EXCEPT ![c] = Tail(up[c])]
      /\ up[c] \in Seq(Message)
    BY UpType, ReadOne DEF HandleClose, Receive
<1>3. Len(up[c]) = 1
  <2>1. 1 \in 1 .. Len(up[c])
    BY <1>2
  <2> QED
    BY <1>2, <2>1 DEF Inv, ServerUnderstands
<1>4. Tail(up[c]) = <<>>
  <2>1. Tail(up[c]) \in Seq(Message) /\ Len(Tail(up[c])) = 0
    BY <1>2, <1>3
  <2>2. \A s \in Seq(Message) : Len(s) = 0 => s = <<>>
    OBVIOUS
  <2> QED
    BY <2>1, <2>2
<1> QED
    BY <1>1, <1>2, <1>4, HandlerEnds

LEMMA ServerLeavesStep ==
    ASSUME Inv, NEW c \in Conns, ServerLeaves(c) PROVE Inv'
BY HandlerEnds DEF ServerLeaves, publisherVars, threadVars

(* Nothing is left of any handler but what the stream had got.             *)
LEMMA RestartStep == ASSUME Inv, Restart PROVE Inv'
<1>1. /\ server' = [c \in Conns |-> IF server[c] = "none" THEN "none" ELSE "gone"]
      /\ leaving' = {} /\ current' = 0 /\ up' = [c \in Conns |-> <<>>]
      /\ UNCHANGED <<closed, ready, socket, pendingQueue, interrupt, handed>>
      /\ UNCHANGED <<run, conn, heartbeat, heartbeats, link, ok>>
      /\ UNCHANGED <<received, latest, overtaken>>
    BY DEF Restart, publisherVars, threadVars
<1>2. \A c \in Conns : /\ up'[c] = <<>> /\ Len(up'[c]) = 0
                       /\ server'[c] = "none" <=> server[c] = "none"
                       /\ server'[c] \in {"none", "gone"}
    BY <1>1
<1>3. /\ conn # 0 => conn \in Conns
      /\ latest # 0 => latest \in Conns
    BY PublisherClientAssumption DEF Inv, TypeOK, Conns
<1>4. TypeOK'
  <2>1. /\ server' \in [Conns -> {"none", "waiting", "creating", "pushing",
                                "gone"}]
        /\ up' \in [Conns -> Seq(Message)]
        /\ leaving' \subseteq Conns
        /\ current' \in 0 .. MaxConnections
    BY <1>1, PublisherClientAssumption
  <2> QED
    BY <1>1, <2>1 DEF Inv, TypeOK
<1>5. Threads' /\ QueueIsNewest'
    BY <1>1 DEF Inv, Threads, QueueIsNewest
<1>6. Connections'
    BY <1>1, <1>2 DEF Inv, Connections, Conns
<1>7. Handshake'
  <2>1. ready \/ run \in {"accepted", "dialed", "signed"} => conn \in Conns
    BY <1>3 DEF Inv, TypeOK, Threads
  <2> QED
    BY <1>1, <1>2, <2>1 DEF Inv, Handshake, Connections
<1>8. LastIsCurrent'
    BY <1>1, <1>2, <1>3 DEF Inv, LastIsCurrent
<1>9. ServerUnderstands' /\ NoneBeforeReady' /\ SentBeforeQueue'
  <2>1. ~closed /\ ~ready /\ run \notin {"check", "dialing", "ended"} =>
            conn \in Conns
    BY <1>3 DEF Inv, TypeOK, Threads
  <2> QED
    BY <1>1, <1>2, <2>1 DEF Inv, ServerUnderstands, NoneBeforeReady,
       SentBeforeQueue, IsFragment
<1>10. Ordered' /\ Consecutive' /\ NoGapOnConnection'
    BY <1>1, <1>2 DEF Inv, Ordered, Consecutive, NoGapOnConnection
<1>11. UpToDate'
    BY <1>1, <1>2, <1>3 DEF Inv, Threads, UpToDate
<1> QED
    BY <1>4, <1>5, <1>6, <1>7, <1>8, <1>9, <1>10, <1>11 DEF Inv

(* A fragment reaches the stream through the source it has, and is lost    *)
(* through one that was displaced.                                         *)
LEMMA HandleFragmentStep ==
    ASSUME Inv, NEW c \in Conns, HandleFragment(c) PROVE Inv'
<1> DEFINE f == up[c][1].fragment
           r == [conn |-> c, fragment |-> f]
<1>1. /\ server[c] = "pushing" /\ Receive(c, "F")
      /\ received' = IF current = c
                     THEN Append(received, [conn |-> c,
                                            fragment |-> Head(up[c]).fragment])
                     ELSE received
      /\ UNCHANGED <<closed, ready, socket, pendingQueue, interrupt, handed>>
      /\ UNCHANGED <<run, conn, heartbeat, heartbeats, link, ok>>
      /\ UNCHANGED <<server, leaving, current, latest, overtaken>>
    BY DEF HandleFragment, publisherVars, threadVars
<1>2. /\ up' \in [Conns -> Seq(Message)]
      /\ \A d \in Conns : d # c => up'[d] = up[d]
      /\ up[c][1].type = "F" /\ Head(up[c]) = up[c][1]
      /\ Len(up[c]) \in Nat /\ Len(up[c]) > 0
      /\ Len(up'[c]) = Len(up[c]) - 1
      /\ \A i \in 1 .. Len(up'[c]) : up'[c][i] = up[c][i + 1]
  <2>1. Len(up[c]) \in Nat
    BY UpType
  <2> QED
    BY <1>1, <2>1, ReadOne
<1>3. /\ 1 \in 1 .. Len(up[c])
      /\ \A i \in 1 .. Len(up'[c]) : i + 1 \in 1 .. Len(up[c])
      /\ \A i \in 2 .. Len(up[c]) : /\ i - 1 \in 1 .. Len(up'[c])
                                    /\ up'[c][i - 1] = up[c][i]
      /\ Len(up[c]) = Len(up'[c]) + 1 /\ Len(up'[c]) \in Nat
  <2>1. ASSUME NEW i \in 2 .. Len(up[c])
        PROVE  i - 1 \in 1 .. Len(up'[c]) /\ up'[c][i - 1] = up[c][i]
    <3>1. i - 1 \in 1 .. Len(up'[c]) /\ (i - 1) + 1 = i
      BY <1>2
    <3>2. up'[c][i - 1] = up[c][(i - 1) + 1]
      BY <1>2, <3>1
    <3> QED
      BY <3>1, <3>2
  <2>2. /\ 1 \in 1 .. Len(up[c])
        /\ \A i \in 1 .. Len(up'[c]) : i + 1 \in 1 .. Len(up[c])
        /\ Len(up[c]) = Len(up'[c]) + 1 /\ Len(up'[c]) \in Nat
    BY <1>2
  <2> QED
    BY <2>1, <2>2
<1>4. /\ Threads' /\ Connections' /\ Handshake' /\ LastIsCurrent'
      /\ QueueIsNewest' /\ ServerUnderstands'
      /\ \A d \in Conns : server[d] = "waiting" =>
             \A i \in 1 .. Len(up'[d]) : up'[d][i].type # "F"
      /\ ~closed /\ ~ready /\ run \notin {"check", "dialing", "ended"} =>
             \A i \in 1 .. Len(up'[conn]) : up'[conn][i].type # "F"
      /\ \A d \in Conns : \A i \in 1 .. Len(up'[d]) :
             up'[d][i].type = "F" =>
                 up'[d][i].fragment \in 1 .. handed - Len(pendingQueue)
      /\ ready /\ link[conn] = "open" /\ server[conn] = "pushing" =>
             \A j \in 1 .. Len(up'[conn]) :
                 /\ up'[conn][j].type = "F"
                 /\ \A k \in j + 1 .. Len(up'[conn]) : up'[conn][k].type # "F"
                 => up'[conn][j].fragment = handed
    BY <1>1, <1>2, <1>3, HandlerGoesOn
<1>5. f \in 1 .. handed - Len(pendingQueue) /\ f \in 1 .. MaxFragments
  <2>1. f \in 1 .. handed - Len(pendingQueue)
    BY <1>2, <1>3 DEF Inv, SentBeforeQueue, IsFragment
  <2>2. handed \in 0 .. MaxFragments /\ Len(pendingQueue) \in Nat
    BY DEF Inv, TypeOK
  <2> QED
    BY <2>1, <2>2, PublisherClientAssumption
<1>6. c # 0 /\ c <= conn
    BY <1>1, PublisherClientAssumption DEF Inv, TypeOK, Connections, Conns
<1>7. r \in [conn : Conns, fragment : 1 .. MaxFragments]
    BY <1>5
<1>8. /\ received \in Seq([conn : Conns, fragment : 1 .. MaxFragments])
      /\ Len(received) \in Nat
  <2>1. received \in Seq([conn : Conns, fragment : 1 .. MaxFragments])
    BY Zenon DEF Inv, TypeOK
  <2> QED
    BY <2>1, Elements
<1>9. /\ \A d \in Conns : \A i, j \in 1 .. Len(up'[d]) :
              i < j /\ up'[d][i].type = "F" /\ up'[d][j].type = "F" =>
                  up'[d][i].fragment < up'[d][j].fragment
      /\ \A d \in Conns : \A i, j \in 1 .. Len(up'[d]) :
             /\ i < j
             /\ up'[d][i].type = "F"
             /\ up'[d][j].type = "F"
             /\ \A k \in i + 1 .. j - 1 : up'[d][k].type # "F"
             => up'[d][j].fragment = up'[d][i].fragment + 1
    BY <1>2, <1>3, OrderOnTheWay
<1>10. CASE current # c
  <2>1. received' = received
    BY <1>1, <1>10
  <2>2. TypeOK'
    BY <1>1, <1>2, <2>1 DEF Inv, TypeOK
  <2>3. NoneBeforeReady' /\ SentBeforeQueue'
    BY <1>1, <1>4, <2>1 DEF Inv, NoneBeforeReady, SentBeforeQueue, IsFragment
  <2>4. current # 0 => current \in Conns /\ up'[current] = up[current]
    BY <1>2, <1>10, PublisherClientAssumption DEF Inv, TypeOK, Conns
  <2>5. UpToDate'
    <3> SUFFICES ASSUME ready, link[conn] = "open", server[conn] = "pushing",
                        current = conn, received # <<>>,
                        received[Len(received)].conn = conn,
                        \A k \in 1 .. Len(up'[conn]) : up'[conn][k].type # "F"
                 PROVE  received[Len(received)].fragment = handed
      BY <1>1, <1>4, <2>1 DEF UpToDate, IsFragment
    <3>1. up'[conn] = up[conn]
      BY <2>4 DEF Inv, Threads
    <3> QED
      BY <3>1 DEF Inv, UpToDate, IsFragment
  <2>6. Ordered' /\ Consecutive'
    <3>1. current' = current
      BY <1>1
    <3>2. Ordered /\ Consecutive
      BY DEF Inv
    <3>3. Ordered'
      BY <1>9, <2>1, <2>4, <3>1, <3>2 DEF Ordered, IsFragment
    <3>4. Consecutive'
      <4>1. \A d \in Conns : \A i, j \in 1 .. Len(up'[d]) :
                /\ i < j
                /\ up'[d][i].type = "F"
                /\ up'[d][j].type = "F"
                /\ \A k \in i + 1 .. j - 1 : up'[d][k].type # "F"
                => up'[d][j].fragment = up'[d][i].fragment + 1
        BY <1>9
      <4>2. /\ current # 0
            /\ received # <<>>
            /\ received[Len(received)].conn = current
            => \A j \in 1 .. Len(up'[current]) :
                   /\ up'[current][j].type = "F"
                   /\ \A k \in 1 .. j - 1 : up'[current][k].type # "F"
                   => up'[current][j].fragment =
                          received[Len(received)].fragment + 1
        BY Zenon, <2>4, <3>2 DEF Consecutive, IsFragment
      <4> QED
        BY Zenon, <2>1, <3>1, <4>1, <4>2 DEF Consecutive, IsFragment
    <3> QED
      BY <3>3, <3>4
  <2>7. NoGapOnConnection'
    BY <2>1 DEF Inv, NoGapOnConnection
  <2> QED
    BY <1>4, <2>2, <2>3, <2>5, <2>6, <2>7 DEF Inv
<1>11. CASE current = c
  <2>1. /\ received' \in Seq([conn : Conns, fragment : 1 .. MaxFragments])
        /\ Len(received') = Len(received) + 1
        /\ \A i \in 1 .. Len(received) : received'[i] = received[i]
        /\ received'[Len(received) + 1] = r
    <3>1. received' = Append(received, r)
      BY <1>1, <1>2, <1>11
    <3>2. ASSUME NEW S, NEW s \in Seq(S), NEW x \in S
          PROVE  /\ Append(s, x) \in Seq(S)
                 /\ Len(Append(s, x)) = Len(s) + 1
                 /\ \A i \in 1 .. Len(s) : Append(s, x)[i] = s[i]
                 /\ Append(s, x)[Len(s) + 1] = x
      OBVIOUS
    <3> HIDE DEF r
    <3> QED
      BY <1>7, <1>8, <3>1, <3>2
  <2>2. r.conn = c /\ r.fragment = f
    OBVIOUS
  <2> HIDE DEF r, f
  <2>3. \A i \in 1 .. Len(received') :
            \/ i \in 1 .. Len(received) /\ received'[i] = received[i]
            \/ i = Len(received) + 1 /\ received'[i] = r
    BY <1>8, <2>1
  <2>4. TypeOK'
    BY <1>1, <1>2, <2>1 DEF Inv, TypeOK
  <2>5. NoneBeforeReady'
    <3>1. ASSUME ~closed, ~ready, run \notin {"check", "dialing", "ended"},
                 NEW i \in 1 .. Len(received')
          PROVE  received'[i].conn # conn
      <4>1. c # conn
        BY <1>2, <1>3, <3>1 DEF Inv, NoneBeforeReady, IsFragment
      <4> QED
        BY <2>2, <2>3, <3>1, <4>1 DEF Inv, NoneBeforeReady
    <3> QED
      BY <1>1, <1>4, <3>1 DEF NoneBeforeReady, IsFragment
  <2>6. SentBeforeQueue'
    <3>1. ASSUME NEW i \in 1 .. Len(received')
          PROVE  /\ received'[i].fragment \in 1 .. handed - Len(pendingQueue)
                 /\ received'[i].conn <= conn
      BY <1>5, <1>6, <2>2, <2>3 DEF Inv, SentBeforeQueue
    <3> QED
      BY <1>1, <1>4, <3>1 DEF SentBeforeQueue, IsFragment
  <2>7. \A i \in 1 .. Len(received) : received[i].fragment < f
    BY <1>2, <1>3, <1>6, <1>11 DEF Inv, Ordered, IsFragment, f
  <2>8. Ordered'
    <3>1. ASSUME NEW i \in 1 .. Len(received'), NEW j \in 1 .. Len(received'),
                 i < j
          PROVE  received'[i].fragment < received'[j].fragment
      <4>1. i \in 1 .. Len(received) /\ received'[i] = received[i]
        BY <1>8, <2>1, <2>3, <3>1
      <4>2. CASE j \in 1 .. Len(received) /\ received'[j] = received[j]
        BY <3>1, <4>1, <4>2 DEF Inv, Ordered
      <4>3. CASE received'[j] = r
        BY <2>2, <2>7, <4>1, <4>3
      <4> QED
        BY <2>3, <4>2, <4>3
    <3>2. ASSUME NEW i \in 1 .. Len(received'), NEW j \in 1 .. Len(up'[c]),
                 up'[c][j].type = "F"
          PROVE  received'[i].fragment < up'[c][j].fragment
      <4>1. /\ j + 1 \in 1 .. Len(up[c]) /\ 1 < j + 1
            /\ up'[c][j] = up[c][j + 1]
        BY <1>2, <1>3
      <4>2. CASE i \in 1 .. Len(received) /\ received'[i] = received[i]
        BY <1>6, <1>11, <3>2, <4>1, <4>2 DEF Inv, Ordered, IsFragment
      <4>3. CASE received'[i] = r
        <5>1. up[c][1].fragment < up[c][j + 1].fragment
          BY <1>2, <1>3, <3>2, <4>1 DEF Inv, Ordered, IsFragment
        <5> QED
          BY <2>2, <4>1, <4>3, <5>1 DEF f
      <4> QED
        BY <2>3, <4>2, <4>3
    <3> QED
      BY <1>1, <1>9, <1>11, <3>1, <3>2 DEF Ordered, IsFragment
  <2>9. Consecutive'
    <3>1. ASSUME NEW j \in 1 .. Len(up'[c]), up'[c][j].type = "F",
                 \A k \in 1 .. j - 1 : up'[c][k].type # "F"
          PROVE  up'[c][j].fragment = f + 1
      <4>1. /\ j + 1 \in 1 .. Len(up[c]) /\ 1 < j + 1
            /\ up'[c][j] = up[c][j + 1]
        BY <1>2, <1>3
      <4>2. ASSUME NEW k \in 1 + 1 .. (j + 1) - 1
            PROVE  up[c][k].type # "F"
        <5>1. k - 1 \in 1 .. j - 1 /\ k \in 2 .. Len(up[c])
          BY <1>3, <4>1
        <5>2. up'[c][k - 1] = up[c][k]
          BY <1>3, <5>1
        <5> QED
          BY <3>1, <5>1, <5>2
      <4>3. up[c][j + 1].fragment = up[c][1].fragment + 1
        BY ZenonT(40), <1>2, <1>3, <3>1, <4>1, <4>2 DEF Inv, Consecutive, IsFragment
      <4> QED
        BY <4>1, <4>3 DEF f
    <3>2. received'[Len(received')].fragment = f
      BY <2>1, <2>2
    <3> QED
      BY <1>1, <1>9, <1>11, <3>1, <3>2 DEF Consecutive, IsFragment
  <2>10. NoGapOnConnection'
    <3> SUFFICES ASSUME NEW i \in 1 .. Len(received') - 1,
                        received'[i].conn = received'[i + 1].conn
                 PROVE  received'[i + 1].fragment = received'[i].fragment + 1
      BY DEF NoGapOnConnection
    <3>1. CASE i \in 1 .. Len(received) - 1
      <4>1. received'[i] = received[i] /\ received'[i + 1] = received[i + 1]
        BY <1>8, <2>1, <3>1
      <4> QED
        BY <3>1, <4>1 DEF Inv, NoGapOnConnection
    <3>2. CASE i = Len(received)
      <4>1. /\ i \in 1 .. Len(received) /\ received # <<>>
            /\ received'[i] = received[i] /\ received'[i + 1] = r
        BY <1>8, <2>1, <3>2
      <4>2. received[Len(received)].conn = current
        BY <1>11, <2>2, <3>2, <4>1
      <4>3. up[c][1].fragment = received[Len(received)].fragment + 1
        BY <1>2, <1>3, <1>6, <1>11, <4>1, <4>2
           DEF Inv, Consecutive, IsFragment
      <4> QED
        BY <2>2, <3>2, <4>1, <4>3 DEF f
    <3> QED
      BY <1>8, <2>1, <3>1, <3>2
  <2>11. UpToDate'
    <3> SUFFICES ASSUME ready, link[conn] = "open", server[conn] = "pushing",
                        current = conn,
                        \A k \in 1 .. Len(up'[conn]) : up'[conn][k].type # "F"
                 PROVE  f = handed
      BY <1>1, <1>4, <2>1, <2>2 DEF UpToDate, IsFragment
    <3>1. ASSUME NEW k \in 1 + 1 .. Len(up[c])
          PROVE  up[c][k].type # "F"
      <4>1. k - 1 \in 1 .. Len(up'[c]) /\ up'[c][k - 1] = up[c][k]
        BY <1>3
      <4> QED
        BY <1>11, <4>1
    <3> QED
      BY <1>2, <1>3, <1>11, <3>1 DEF Inv, UpToDate, IsFragment, f
  <2> QED
    BY <1>4, <2>4, <2>5, <2>6, <2>8, <2>9, <2>10, <2>11 DEF Inv
<1> QED
    BY <1>10, <1>11

-----------------------------------------------------------------------------
(* The theorems.                                                           *)

LEMMA InitInv == Init => Inv
<1> SUFFICES ASSUME Init
             PROVE  Inv
    OBVIOUS
<1> USE PublisherClientAssumption DEF Init
<1>1. TypeOK
  <2>1. <<>> \in Seq(Message) /\ <<>> \in Seq(1 .. MaxFragments)
    OBVIOUS
  <2>2. received \in Seq([conn : Conns, fragment : 1 .. MaxFragments])
    OBVIOUS
  <2>3. closed \in BOOLEAN /\ ready \in BOOLEAN /\ overtaken \in BOOLEAN
    OBVIOUS
  <2>4. /\ link \in [Conns -> {"none", "open", "broken", "closed"}]
        /\ up \in [Conns -> Seq(Message)]
        /\ server \in [Conns -> {"none", "waiting", "creating", "pushing",
                                "gone"}]
        /\ leaving \subseteq Conns
    BY <2>1
  <2>5. ok \in [Conns -> BOOLEAN]
    OBVIOUS
  <2> QED
    BY <2>1, <2>2, <2>3, <2>4, <2>5 DEF TypeOK
<1>2. Threads /\ LastIsCurrent /\ QueueIsNewest
    BY DEF Threads, LastIsCurrent, QueueIsNewest
<1>3. Connections /\ Handshake
    BY DEF Connections, Handshake, Conns
<1>4. /\ \A c \in Conns : Len(up[c]) = 0
      /\ Len(received) = 0
    OBVIOUS
<1>5. ServerUnderstands /\ NoneBeforeReady /\ SentBeforeQueue
    BY <1>4 DEF ServerUnderstands, NoneBeforeReady, SentBeforeQueue
<1>6. Ordered /\ Consecutive /\ UpToDate /\ NoGapOnConnection
    BY <1>4 DEF Ordered, Consecutive, UpToDate, NoGapOnConnection
<1> QED
    BY <1>1, <1>2, <1>3, <1>5, <1>6 DEF Inv

LEMMA NextInv == Inv /\ [Next]_vars => Inv'
<1> SUFFICES ASSUME Inv, [Next]_vars
             PROVE  Inv'
    OBVIOUS
<1>1. CASE RunStep
    BY <1>1, RunMoves, ClosedWhileDialingStep, SendPushStep, OnConnectedStep,
       ReadOKStep, OnReadyStep, OnDisconnectedStep DEF RunStep
<1>2. CASE Dial \/ SendHeartbeat \/ HeartbeatStops
    BY <1>2, DialStep, SendHeartbeatStep, HeartbeatStopsStep
<1>3. CASE SendFragment \/ Close
    BY <1>3, SendFragmentStep, CloseStep
<1>4. ASSUME NEW c \in Conns, Break(c)
      PROVE  Inv'
    BY <1>4, BreakStep
<1>5. ASSUME NEW c \in Conns, HandleMessage(c)
      PROVE  Inv'
    BY <1>5, HandlePushStep, HandleFragmentStep, HandleHeartbeatStep,
       HandleCloseStep DEF HandleMessage
<1>6. ASSUME NEW c \in Conns,
             \/ PushAccepted(c) \/ RemoveSource(c)
             \/ ServerFails(c) \/ ServerTimesOut(c)
      PROVE  Inv'
    BY <1>6, PushAcceptedStep, RemoveSourceStep, ServerLeavesStep
    DEF ServerFails, ServerTimesOut
<1>7. CASE UNCHANGED vars
  <2>1. /\ UNCHANGED <<closed, ready, socket, pendingQueue, interrupt, handed>>
        /\ UNCHANGED <<run, conn, heartbeat, heartbeats, link, up, ok>>
        /\ UNCHANGED <<server, leaving, current, received, latest, overtaken>>
    BY <1>7 DEF vars, publisherVars, threadVars, networkVars, serverVars
  <2>2. TypeOK' /\ Threads' /\ Connections' /\ Handshake' /\ LastIsCurrent'
    BY <2>1 DEF Inv, TypeOK, Threads, Connections, Handshake, LastIsCurrent
  <2>3. QueueIsNewest' /\ NoneBeforeReady' /\ SentBeforeQueue' /\ UpToDate'
    BY <2>1 DEF Inv, QueueIsNewest, NoneBeforeReady, SentBeforeQueue,
       UpToDate, IsFragment
  <2> QED
    BY <2>1, <2>2, <2>3, SameMessages, SameOrder DEF Inv
<1> QED
    BY <1>1, <1>2, <1>3, <1>4, <1>5, <1>6, <1>7, RestartStep DEF Next

(* Everything the proofs know of the publisher holds all the time.         *)
THEOREM Inductive == Spec => []Inv
  BY InitInv, NextInv, PTL DEF Spec

(* Types, and the room Close() finds for the item that ends the heartbeats *)
(* (client.go:324).                                                        *)
THEOREM TypeCorrect == Spec => []TypeOK
<1>1. Inv => TypeOK
    BY DEF Inv
<1> QED
    BY <1>1, Inductive, PTL

(* The queue holds the latest fragments, without a gap (client.go:300).    *)
THEOREM QueueIsNewestHolds == Spec => []QueueIsNewest
<1>1. Inv => QueueIsNewest
    BY DEF Inv
<1> QED
    BY <1>1, Inductive, PTL

(* The server gets the messages of a connection in the order it demands,   *)
(* however run(), the heartbeats and the calls interleave (client.go:110). *)
THEOREM ServerUnderstandsHolds == Spec => []ServerUnderstands
<1>1. Inv => ServerUnderstands
    BY DEF Inv
<1> QED
    BY <1>1, Inductive, PTL

(* What the stream gets through one connection has no gap, from the queued *)
(* fragments to the live ones (client.go:251).                             *)
THEOREM NoGapHolds == Spec => []NoGapOnConnection
<1>1. Inv => NoGapOnConnection
    BY DEF Inv
<1> QED
    BY <1>1, Inductive, PTL

(* A ready publisher whose connection exists is the one of the stream, if  *)
(* no PUSH was handled late (server/sources_controller.go:102).            *)
THEOREM ReadyIsCurrentHolds == Spec => []ReadyIsCurrent
<1>1. Inv => ReadyIsCurrent
  <2> SUFFICES ASSUME Inv, ready, server[socket] = "pushing", ~overtaken
               PROVE  current = socket
    BY DEF ReadyIsCurrent
  <2>1. socket = conn /\ conn # 0
    BY DEF Inv, Threads
  <2> QED
    BY <2>1 DEF Inv, LastIsCurrent
<1> QED
    BY <1>1, Inductive, PTL

(* The numbers of the fragments the stream got.                            *)
Numbers == [i \in 1 .. Len(received) |-> received[i].fragment]

LEMMA InitDelivers == Init => Delivery!Init
BY DEF Init, Delivery!Init

LEMMA NextDelivers ==
    Inv /\ [Next]_vars => [Delivery!Next]_(Delivery!deliveryVars)
<1> SUFFICES ASSUME Inv, [Next]_vars
             PROVE  [Delivery!Next]_(Delivery!deliveryVars)
    OBVIOUS
<1>1. ASSUME UNCHANGED <<handed, closed, received>>
      PROVE  UNCHANGED Delivery!deliveryVars
    BY <1>1 DEF Delivery!deliveryVars
<1>2. CASE SendFragment
  <2>1. Delivery!Publish
    BY <1>2 DEF SendFragment, Delivery!Publish, threadVars, serverVars
  <2> QED
    BY <2>1 DEF Delivery!Next
<1>3. CASE Close
  <2>1. Delivery!End
    BY <1>3 DEF Close, Delivery!End, threadVars, serverVars
  <2> QED
    BY <2>1 DEF Delivery!Next
<1>4. ASSUME NEW c \in Conns, HandleFragment(c)
      PROVE  [Delivery!Next]_(Delivery!deliveryVars)
  <2>1. CASE current # c
    BY <1>1, <1>4, <2>1 DEF HandleFragment, publisherVars
  <2>2. CASE current = c
    <3>0. PICK f : f = up[c][1].fragment
      OBVIOUS
    <3>1. /\ received' = Append(received, [conn |-> c, fragment |-> f])
          /\ handed' = handed /\ closed' = closed
          /\ 1 \in 1 .. Len(up[c]) /\ up[c][1].type = "F"
      <4>1. Receive(c, "F")
        BY <1>4 DEF HandleFragment
      <4>2. /\ Len(up[c]) > 0 /\ Head(up[c]) = up[c][1]
            /\ up[c][1].type = "F" /\ Len(up[c]) \in Nat
        BY <4>1, ReadOne, UpType
      <4> QED
        BY <1>4, <2>2, <3>0, <4>2 DEF HandleFragment, publisherVars
    <3>2. f \in 1 .. handed /\ handed \in 0 .. MaxFragments
      <4>1. handed \in 0 .. MaxFragments /\ Len(pendingQueue) \in Nat
        BY DEF Inv, TypeOK
      <4>2. f \in 1 .. handed - Len(pendingQueue)
        BY <3>0, <3>1 DEF Inv, SentBeforeQueue, IsFragment
      <4> QED
        BY <4>1, <4>2
    <3>3. \A i \in 1 .. Len(received) : received[i].fragment < f
      BY <2>2, <3>0, <3>1, PublisherClientAssumption
         DEF Inv, Ordered, IsFragment, Conns
    <3>4. received \in Seq([conn : Conns, fragment : 1 .. MaxFragments])
      BY Zenon DEF Inv, TypeOK
    <3>5. Numbers \in Seq(Int) /\ Len(Numbers) = Len(received)
      BY <3>4, ReceivedType DEF Numbers
    <3>6. Numbers' = Append(Numbers, f)
      <4> DEFINE r == [conn |-> c, fragment |-> f]
      <4>1. r \in [conn : Conns, fragment : 1 .. MaxFragments]
        BY <3>2, PublisherClientAssumption
      <4>2. r.fragment = f
        OBVIOUS
      <4> HIDE DEF r
      <4>3. /\ Len(received') = Len(received) + 1
            /\ \A i \in 1 .. Len(received) : received'[i] = received[i]
            /\ received'[Len(received) + 1] = r
        BY <3>1, <3>4, <4>1 DEF r
      <4> QED
        BY <3>4, <3>5, <4>2, <4>3 DEF Numbers
    <3>7. Delivery!Deliver("server", f)
      <4> DEFINE D == [s \in {"server"} |-> Numbers]
      <4>1. D["server"] = Numbers
        OBVIOUS
      <4>2. \A i \in 1 .. Len(Numbers) : Numbers[i] < f
        BY <3>3, <3>5 DEF Numbers
      <4>3. D' = [D EXCEPT !["server"] = Append(D["server"], f)]
        BY <3>6
      <4> QED
        BY <3>1, <3>2, <4>1, <4>2, <4>3
           DEF Delivery!Deliver, Delivery!Follows, Numbers
    <3>8. f \in Delivery!Message
      BY <3>2, PublisherClientAssumption DEF Delivery!Message, Delivery!CLOSE
    <3>9. \E l \in {"server"}, m \in Delivery!Message : Delivery!Deliver(l, m)
      BY <3>7, <3>8
    <3> QED
      BY <3>9 DEF Delivery!Next
  <2> QED
    BY <2>1, <2>2
<1>5. ASSUME NEW c \in Conns,
             \/ Break(c) \/ HandlePush(c) \/ HandleHeartbeat(c)
             \/ HandleClose(c) \/ PushAccepted(c) \/ RemoveSource(c)
             \/ ServerLeaves(c)
      PROVE  UNCHANGED <<handed, closed, received>>
    BY <1>5 DEF Break, HandlePush, HandleHeartbeat, HandleClose, PushAccepted,
       RemoveSource, ServerLeaves, publisherVars, serverVars
<1>6. CASE RunStep \/ Dial \/ SendHeartbeat \/ HeartbeatStops \/ Restart
  <2>1. UNCHANGED <<handed, closed, received>>
    BY <1>6 DEF RunStep, Check, DialFails, ClosedWhileDialing, SignToken,
       SendPush,
       OnConnected, ReadLoop, ReadOK, ReadFails, OnReady, OnDisconnected,
       Dial, SendHeartbeat, HeartbeatStops, Restart, publisherVars, serverVars
  <2> QED
    BY <1>1, <2>1
<1>7. CASE UNCHANGED vars
    BY <1>1, <1>7 DEF vars, publisherVars, serverVars
<1>8. ASSUME NEW c \in Conns,
             \/ Break(c) \/ HandleMessage(c) \/ PushAccepted(c)
             \/ RemoveSource(c) \/ ServerFails(c) \/ ServerTimesOut(c)
      PROVE  [Delivery!Next]_(Delivery!deliveryVars)
    BY <1>1, <1>4, <1>5, <1>8 DEF HandleMessage, ServerFails, ServerTimesOut
<1> QED
    BY <1>2, <1>3, <1>6, <1>7, <1>8 DEF Next

(* What the stream gets over all connections is in order and without a     *)
(* duplicate: the publisher implements the abstract delivery, with the     *)
(* server as its only spectator (client.go:226, 251, 285).                 *)
THEOREM DeliveryHolds == Spec => ImplementsDelivery
  BY InitDelivers, NextDelivers, Inductive, PTL
  DEF Spec, ImplementsDelivery, Delivery!Spec

-----------------------------------------------------------------------------
(* What CloseEnds and StreamEnds rest on.                                  *)

(* Close() tells the heartbeats to end exactly once: from then on an item  *)
(* is in their channel or they have ended, and before they go on           *)
(* (client.go:350).                                                        *)
THEOREM HeartbeatsToldOnceHolds == Spec => []HeartbeatsToldOnce
<1>1. Init => HeartbeatsToldOnce
    BY DEF Init, HeartbeatsToldOnce
<1>2. TypeOK /\ TypeOK' /\ HeartbeatsToldOnce /\ [Next]_vars =>
          HeartbeatsToldOnce'
  <2> SUFFICES ASSUME TypeOK, TypeOK', HeartbeatsToldOnce, [Next]_vars
               PROVE  HeartbeatsToldOnce'
      OBVIOUS
  <2> USE DEF HeartbeatsToldOnce
  <2>1. CASE Close
    <3>1. /\ ~closed /\ closed' = TRUE
          /\ interrupt' = interrupt + 1
          /\ heartbeat' = heartbeat
      BY <2>1 DEF Close, threadVars
    <3>2. interrupt \in 0 .. 1 /\ interrupt' \in 0 .. 1
      BY DEF TypeOK
    <3> QED
      BY <3>1, <3>2
  <2>2. CASE HeartbeatStops
    BY <2>2 DEF HeartbeatStops, TypeOK
  <2>3. CASE UNCHANGED <<closed, interrupt, heartbeat>>
    BY <2>3
  <2>4. ASSUME NEW c \in Conns,
               \/ Break(c) \/ HandleMessage(c) \/ PushAccepted(c)
               \/ RemoveSource(c) \/ ServerFails(c) \/ ServerTimesOut(c)
        PROVE  UNCHANGED <<closed, interrupt, heartbeat>>
    BY <2>4 DEF Break, HandleMessage, HandlePush, HandleFragment,
       HandleHeartbeat, HandleClose, PushAccepted, RemoveSource, ServerFails,
       ServerTimesOut, ServerLeaves, publisherVars, threadVars
  <2>5. CASE RunStep \/ Dial \/ SendHeartbeat \/ SendFragment \/ Restart
    BY <2>5 DEF RunStep, Check, DialFails, ClosedWhileDialing, SignToken,
       SendPush, OnConnected, ReadLoop, ReadOK, ReadFails, OnReady,
       OnDisconnected, Dial, SendHeartbeat, SendFragment, Restart,
       publisherVars, threadVars
  <2>6. CASE UNCHANGED vars
    BY <2>6 DEF vars, publisherVars, threadVars
  <2> QED
    BY <2>1, <2>2, <2>3, <2>4, <2>5, <2>6 DEF Next
<1> QED
    BY <1>1, <1>2, TypeCorrect, PTL DEF Spec

(* Where run() can be when it dialled k connections, or one more, since    *)
(* the publisher was closed.                                               *)
DialledSinceClose(k) ==
    /\ closed
    /\ conn = k \/ (conn = k + 1 /\ run \in {"dialed", "ended"})

(* Close() cannot stop a dial that is under way, but it is the last one:   *)
(* at most one more connection is made, and PUSH is not written to it      *)
(* (client.go:103).                                                        *)
THEOREM OneDialAfterClose ==
    ASSUME NEW CONSTANT k \in Nat
    PROVE  Spec => [](closed /\ conn = k =>
                          [](conn = k \/ (conn = k + 1 /\
                                          run \in {"dialed", "ended"})))
<1>1. closed /\ conn = k => DialledSinceClose(k)
    BY DEF DialledSinceClose
<1>2. DialledSinceClose(k) =>
          conn = k \/ (conn = k + 1 /\ run \in {"dialed", "ended"})
    BY DEF DialledSinceClose
<1>3. DialledSinceClose(k) /\ [Next]_vars => DialledSinceClose(k)'
  <2> SUFFICES ASSUME DialledSinceClose(k), [Next]_vars
               PROVE  DialledSinceClose(k)'
      OBVIOUS
  <2> USE DEF DialledSinceClose
  <2>1. CASE Dial
    BY <2>1 DEF Dial, RunTo, publisherVars
  <2>2. CASE RunStep
    BY <2>2 DEF RunStep, Check, DialFails, ClosedWhileDialing, SignToken,
       SendPush, OnConnected, ReadLoop, ReadOK, ReadFails, OnReady,
       OnDisconnected, RunTo, publisherVars
  <2>3. ASSUME NEW c \in Conns,
               \/ Break(c) \/ HandleMessage(c) \/ PushAccepted(c)
               \/ RemoveSource(c) \/ ServerFails(c) \/ ServerTimesOut(c)
        PROVE  UNCHANGED <<closed, run, conn>>
    BY <2>3 DEF Break, HandleMessage, HandlePush, HandleFragment,
       HandleHeartbeat, HandleClose, PushAccepted, RemoveSource, ServerFails,
       ServerTimesOut, ServerLeaves, publisherVars, threadVars
  <2>4. CASE SendHeartbeat \/ HeartbeatStops \/ Restart
    BY <2>4 DEF SendHeartbeat, HeartbeatStops, Restart, publisherVars,
       threadVars
  <2>5. CASE SendFragment \/ Close
    BY <2>5 DEF SendFragment, Close
  <2>6. CASE UNCHANGED vars
    BY <2>6 DEF vars, publisherVars, threadVars
  <2> QED
    BY <2>1, <2>2, <2>3, <2>4, <2>5, <2>6 DEF Next
<1> QED
    BY <1>1, <1>2, <1>3, PTL DEF Spec

(* A closed publisher whose stream is over never brings it back: a PUSH    *)
(* that Close() did not see is the last one (client.go:103, 130).          *)
THEOREM StaysOver == Spec => [](Over => []Over)
<1>1. Inv /\ Over /\ [Next]_vars => Over'
  <2> SUFFICES ASSUME Inv, Over, [Next]_vars
               PROVE  Over'
      OBVIOUS
  <2>0. /\ closed /\ run # "signed" /\ current = 0
        /\ \A c \in Conns : ~(server[c] = "waiting" /\ up[c] # <<>>)
    BY DEF Over, PushesOnTheWay
  <2>1. SUFFICES /\ closed' /\ run' # "signed" /\ current' = 0
                 /\ \A c \in Conns :
                        ~(server'[c] = "waiting" /\ up'[c] # <<>>)
    BY DEF Over, PushesOnTheWay
  <2>2. CASE Dial
    <3>1. conn + 1 \in Conns /\ up[conn + 1] = <<>>
      BY <2>2, PublisherClientAssumption
         DEF Dial, Inv, TypeOK, Connections, Conns
    <3> QED
      BY <2>0, <2>2, <3>1
         DEF Dial, RunTo, publisherVars, Inv, TypeOK
  <2>3. CASE RunStep
    <3>1. ~SignToken /\ ~SendPush
      BY <2>0 DEF SignToken, SendPush, RunTo
    <3>2. /\ closed' = closed /\ UNCHANGED serverVars /\ up' = up
          /\ run' # "signed"
      BY <2>0, <2>3, <3>1 DEF RunStep, Check, DialFails, ClosedWhileDialing,
         OnConnected, ReadLoop, ReadOK, ReadFails, OnReady, OnDisconnected,
         RunTo, publisherVars, networkVars
    <3> QED
      BY <2>0, <3>2 DEF serverVars
  <2>4. CASE HeartbeatStops \/ UNCHANGED vars
    BY <2>0, <2>4 DEF HeartbeatStops, networkVars, serverVars, vars,
       publisherVars, threadVars
  <2>5. CASE SendHeartbeat \/ SendFragment \/ Close
    BY <2>0, <2>5 DEF SendHeartbeat, SendFragment, Close
  <2>6. ASSUME NEW c \in Conns, Break(c)
        PROVE  UNCHANGED <<closed, run, current, server, up>>
    BY <2>6 DEF Break, publisherVars, threadVars, serverVars
  <2>7. ASSUME NEW c \in Conns, HandleMessage(c)
        PROVE  /\ closed' = closed /\ run' = run /\ current' = 0
               /\ \A d \in Conns :
                      ~(server'[d] = "waiting" /\ up'[d] # <<>>)
    <3>1. ~HandlePush(c)
      BY <2>0 DEF HandlePush, Receive
    <3>2. server[c] = "pushing"
      BY <2>7, <3>1 DEF HandleMessage, HandleFragment, HandleHeartbeat,
         HandleClose
    <3>3. up' = [up EXCEPT ![c] = Tail(@)]
      BY <2>7, <3>1 DEF HandleMessage, HandleFragment, HandleHeartbeat,
         HandleClose, Receive
    <3>4. /\ closed' = closed /\ run' = run /\ current' = 0
          /\ server' = server \/ server' = [server EXCEPT ![c] = "gone"]
      BY <2>0, <2>7, <3>1 DEF HandleMessage, HandleFragment, HandleHeartbeat,
         HandleClose, publisherVars, threadVars, serverVars
    <3> QED
      BY <2>0, <3>2, <3>3, <3>4 DEF Inv, TypeOK
  <2>8. ASSUME NEW c \in Conns,
               \/ PushAccepted(c) \/ RemoveSource(c)
               \/ ServerFails(c) \/ ServerTimesOut(c)
        PROVE  /\ closed' = closed /\ run' = run /\ current' = 0
               /\ \A d \in Conns :
                      ~(server'[d] = "waiting" /\ up'[d] # <<>>)
    <3>1. CASE ServerFails(c) \/ ServerTimesOut(c)
      BY <2>0, <3>1 DEF ServerFails, ServerTimesOut, ServerLeaves,
         publisherVars, threadVars, Inv, TypeOK
    <3>2. CASE PushAccepted(c)
      BY <2>0, <3>2 DEF PushAccepted, publisherVars, threadVars, Inv, TypeOK
    <3>3. CASE RemoveSource(c)
      BY <2>0, <3>3 DEF RemoveSource, publisherVars, threadVars, networkVars
    <3> QED
      BY <2>8, <3>1, <3>2, <3>3
  <2>9. CASE Restart
    BY <2>0, <2>9 DEF Restart, publisherVars, threadVars
  <2> QED
    BY <2>0, <2>2, <2>3, <2>4, <2>5, <2>6, <2>7, <2>8, <2>9 DEF Next
<1> QED
    BY <1>1, Inductive, PTL DEF Spec
=============================================================================
