--------------------------- MODULE PublisherClient ---------------------------
(***************************************************************************)
(* The publisher library (client-publisher/client.go): one goroutine that  *)
(* dials, sends PUSH, reads answers and dials again when the connection is *)
(* lost; one that sends heartbeats; and the calls SendFragment and Close   *)
(* of the application.  They share the publisher under its lock mu.        *)
(*                                                                         *)
(* The other end is what the server does with the messages of a publisher  *)
(* (server/connection.go, server/sources_controller.go), one handler per   *)
(* connection, reduced to which source is the one of the stream.  Between  *)
(* them a connection is a queue of messages that may break at any time:    *)
(* the server may still read what was sent before.                         *)
(*                                                                         *)
(* A fragment is the number of the SendFragment call that handed it over.  *)
(* Calls that change nothing (without data, or once closed) are left out,  *)
(* and so is OnReady, which runs in a goroutine of its own.                *)
(***************************************************************************)
EXTENDS Integers, Sequences

CONSTANTS
    QueueMaxLength,  \* config: fragments kept while there is no connection
    MaxFragments,    \* bound: fragments the application hands over
    MaxConnections,  \* bound: connections dialled; the last one lasts
    MaxHeartbeats    \* bound: heartbeats written

ASSUME PublisherClientAssumption ==
    /\ QueueMaxLength \in Nat \ {0}
    /\ MaxFragments \in Nat
    /\ MaxConnections \in Nat \ {0}
    /\ MaxHeartbeats \in Nat

VARIABLES
    (* the publisher *)
    closed,        \* publisher.closed
    ready,         \* publisher.ready
    socket,        \* publisher.socket: a connection, 0 for nil
    pendingQueue,  \* publisher.pendingQueue
    interrupt,     \* items in heartbeatInterruptChannel
    handed,        \* fragments handed over so far
    (* its goroutines *)
    run,           \* where run() is
    conn,          \* the connection run() dialled last
    heartbeat,     \* where sendHeartbeatMessages() is
    heartbeats,    \* heartbeats written so far
    (* the network *)
    link,          \* each connection, as its client end knows it
    up,            \* messages on the way to the server
    ok,            \* an OK is on the way back
    (* the servers *)
    server,        \* the handler at the other end of each connection
    leaving,       \* handlers that end, and have not removed their source yet
    current,       \* the connection whose source the stream has, 0 if none
    received,      \* fragments the stream got, with their connections
    latest,        \* the last dialled connection whose PUSH was handled
    overtaken      \* a PUSH was handled after one of a later connection

publisherVars == <<closed, ready, socket, pendingQueue, interrupt, handed>>
threadVars == <<run, conn, heartbeat, heartbeats>>
networkVars == <<link, up, ok>>
serverVars == <<server, leaving, current, received, latest, overtaken>>
vars == <<publisherVars, threadVars, networkVars, serverVars>>

Conns == 1 .. MaxConnections
Message == [type : {"PUSH", "F", "H", "CLOSE"}, fragment : 0 .. MaxFragments]

PUSH == [type |-> "PUSH", fragment |-> 0]
HEARTBEAT == [type |-> "H", fragment |-> 0]
CLOSE == [type |-> "CLOSE", fragment |-> 0]
Fragment(f) == [type |-> "F", fragment |-> f]

Init ==
    /\ closed = FALSE
    /\ ready = FALSE
    /\ socket = 0
    /\ pendingQueue = <<>>
    /\ interrupt = 0
    /\ handed = 0
    /\ run = "check"
    /\ conn = 0
    /\ heartbeat = "waiting"
    /\ heartbeats = 0
    /\ link = [c \in Conns |-> "none"]
    /\ up = [c \in Conns |-> <<>>]
    /\ ok = [c \in Conns |-> FALSE]
    /\ server = [c \in Conns |-> "none"]
    /\ leaving = {}
    /\ current = 0
    /\ received = <<>>
    /\ latest = 0
    /\ overtaken = FALSE

-----------------------------------------------------------------------------
(* run(): from the check of IsClosed to the dial, PUSH and onConnected.    *)

RunTo(from, to) == run = from /\ run' = to

(* What is written to a connection that is gone is lost: WriteMessage      *)
(* reports it, and nobody looks.                                           *)
Write(c, messages) ==
    up' = IF link[c] = "open" /\ server[c] # "gone"
          THEN [up EXCEPT ![c] = @ \o messages]
          ELSE up

Check ==
    /\ RunTo("check", IF closed THEN "ended" ELSE "dialing")
    /\ UNCHANGED <<publisherVars, conn, heartbeat, heartbeats, networkVars,
                   serverVars>>

Dial ==
    /\ RunTo("dialing", "dialed")
    /\ conn < MaxConnections
    /\ conn' = conn + 1
    /\ link' = [link EXCEPT ![conn + 1] = "open"]
    /\ server' = [server EXCEPT ![conn + 1] = "waiting"]
    /\ UNCHANGED <<publisherVars, heartbeat, heartbeats, up, ok, leaving,
                   current, received, latest, overtaken>>

(* Mutant: gives up.                                                       *)
DialFailsForGood ==
    /\ RunTo("dialing", "ended")
    /\ UNCHANGED <<publisherVars, conn, heartbeat, heartbeats, networkVars,
                   serverVars>>

(* Waits (waitAfterError) and starts again.                                *)
DialFails ==
    /\ RunTo("dialing", "check")
    /\ UNCHANGED <<publisherVars, conn, heartbeat, heartbeats, networkVars,
                   serverVars>>

(* Close() came while the dial was under way.                              *)
ClosedWhileDialing ==
    /\ RunTo("dialed", "ended")
    /\ closed
    /\ link' = [link EXCEPT ![conn] = "closed"]
    /\ UNCHANGED <<publisherVars, conn, heartbeat, heartbeats, up, ok,
                   serverVars>>

(* The token is signed, which cannot fail: the secret is a valid key.      *)
SignToken ==
    /\ RunTo("dialed", "signed")
    /\ ~closed
    /\ UNCHANGED <<publisherVars, conn, heartbeat, heartbeats, networkVars,
                   serverVars>>

(* Mutant: the socket is published before PUSH is written to it.           *)
SendPushLate ==
    /\ run = "signed"
    /\ IF socket = conn \/ closed
       THEN /\ Write(conn, <<PUSH>>)
            /\ run' = "opened"
            /\ UNCHANGED socket
       ELSE /\ socket' = conn
            /\ UNCHANGED <<up, run>>
    /\ UNCHANGED <<closed, ready, pendingQueue, interrupt, handed, conn,
                   heartbeat, heartbeats, link, ok, serverVars>>

(* Without the lock: nobody else knows the socket yet.  Close() may have   *)
(* come since the check.                                                   *)
SendPush ==
    /\ RunTo("signed", "opened")
    /\ Write(conn, <<PUSH>>)
    /\ UNCHANGED <<publisherVars, conn, heartbeat, heartbeats, link, ok,
                   serverVars>>

(* When Close() came first, the socket is not kept, and nobody closes it.  *)
OnConnected ==
    /\ RunTo("opened", "loop")
    /\ socket' = IF closed THEN socket ELSE conn
    /\ UNCHANGED <<closed, ready, pendingQueue, interrupt, handed, conn,
                   heartbeat, heartbeats, networkVars, serverVars>>

-----------------------------------------------------------------------------
(* run(): the loop that reads answers.                                     *)

ReadLoop ==
    /\ RunTo("loop", IF closed THEN "leaving" ELSE "reading")
    /\ UNCHANGED <<publisherVars, conn, heartbeat, heartbeats, networkVars,
                   serverVars>>

ReadOK ==
    /\ RunTo("reading", "accepted")
    /\ ok[conn]
    /\ link[conn] # "closed"
    /\ ok' = [ok EXCEPT ![conn] = FALSE]
    /\ UNCHANGED <<publisherVars, conn, heartbeat, heartbeats, link, up,
                   serverVars>>

(* An error of the server is such an end too: it answers E and closes, and *)
(* the loop goes on until the next read.  A silent server is given up at   *)
(* the read deadline; that needs a broken connection, since it sends       *)
(* heartbeats twice as often.                                              *)
ReadFails ==
    /\ RunTo("reading", "leaving")
    /\ link[conn] # "open" \/ server[conn] = "gone"
    /\ UNCHANGED <<publisherVars, conn, heartbeat, heartbeats, networkVars,
                   serverVars>>

(* Mutant: the queue is sent, and kept.                                    *)
OnReadyKeepsQueue ==
    /\ RunTo("accepted", "loop")
    /\ IF closed
       THEN UNCHANGED <<ready, up>>
       ELSE /\ ready' = TRUE
            /\ Write(socket, [i \in 1 .. Len(pendingQueue) |->
                                  Fragment(pendingQueue[i])])
    /\ UNCHANGED <<closed, socket, pendingQueue, interrupt, handed, conn,
                   heartbeat, heartbeats, link, ok, serverVars>>

OnReady ==
    /\ RunTo("accepted", "loop")
    /\ IF closed
       THEN UNCHANGED <<ready, pendingQueue, up>>
       ELSE /\ ready' = TRUE
            /\ Write(socket, [i \in 1 .. Len(pendingQueue) |->
                                  Fragment(pendingQueue[i])])
            /\ pendingQueue' = <<>>
    /\ UNCHANGED <<closed, socket, interrupt, handed, conn, heartbeat,
                   heartbeats, link, ok, serverVars>>

(* The socket is forgotten, not closed.                                    *)
OnDisconnected ==
    /\ RunTo("leaving", "check")
    /\ IF closed
       THEN UNCHANGED <<ready, socket>>
       ELSE ready' = FALSE /\ socket' = 0
    /\ UNCHANGED <<closed, pendingQueue, interrupt, handed, conn, heartbeat,
                   heartbeats, networkVars, serverVars>>

-----------------------------------------------------------------------------
(* The heartbeats.                                                         *)

SendHeartbeat ==
    /\ heartbeat = "waiting"
    /\ heartbeats < MaxHeartbeats
    /\ ~closed
    /\ socket # 0
    /\ heartbeats' = heartbeats + 1
    /\ Write(socket, <<HEARTBEAT>>)
    /\ UNCHANGED <<publisherVars, run, conn, heartbeat, link, ok, serverVars>>

HeartbeatStops ==
    /\ heartbeat = "waiting"
    /\ interrupt > 0
    /\ interrupt' = interrupt - 1
    /\ heartbeat' = "ended"
    /\ UNCHANGED <<closed, ready, socket, pendingQueue, handed, run, conn,
                   heartbeats, networkVars, serverVars>>

-----------------------------------------------------------------------------
(* The calls of the application.                                           *)

(* Mutant: a full queue takes no more.                                     *)
QueuedDroppingNewest(f) ==
    IF Len(pendingQueue) >= QueueMaxLength THEN pendingQueue
                                           ELSE Append(pendingQueue, f)

(* A full queue loses its oldest fragment.                                 *)
Queued(f) ==
    IF Len(pendingQueue) >= QueueMaxLength
    THEN Append(Tail(pendingQueue), f)
    ELSE Append(pendingQueue, f)

SendFragment ==
    /\ ~closed
    /\ handed < MaxFragments
    /\ handed' = handed + 1
    /\ IF ready
       THEN /\ Write(socket, <<Fragment(handed + 1)>>)
            /\ UNCHANGED pendingQueue
       ELSE /\ pendingQueue' = Queued(handed + 1)
            /\ UNCHANGED up
    /\ UNCHANGED <<closed, ready, socket, interrupt, threadVars, link, ok,
                   serverVars>>

(* Mutant: the heartbeats are told only when there is a connection.        *)
CloseSilently ==
    /\ ~closed
    /\ IF socket = 0
       THEN UNCHANGED <<link, up, interrupt>>
       ELSE /\ Write(socket, <<CLOSE>>)
            /\ link' = [link EXCEPT ![socket] = "closed"]
            /\ interrupt' = interrupt + 1
    /\ socket' = 0
    /\ pendingQueue' = <<>>
    /\ closed' = TRUE
    /\ ready' = FALSE
    /\ UNCHANGED <<handed, threadVars, ok, serverVars>>

(* What is queued is thrown away.                                          *)
Close ==
    /\ ~closed
    /\ IF socket = 0
       THEN UNCHANGED <<link, up>>
       ELSE /\ Write(socket, <<CLOSE>>)
            /\ link' = [link EXCEPT ![socket] = "closed"]
    /\ socket' = 0
    /\ pendingQueue' = <<>>
    /\ closed' = TRUE
    /\ ready' = FALSE
    /\ interrupt' = interrupt + 1
    /\ UNCHANGED <<handed, threadVars, ok, serverVars>>

-----------------------------------------------------------------------------
(* The network and the servers.                                            *)

Break(c) ==
    /\ c < MaxConnections
    /\ link[c] = "open"
    /\ link' = [link EXCEPT ![c] = "broken"]
    /\ UNCHANGED <<publisherVars, threadVars, up, ok, serverVars>>

Receive(c, type) ==
    /\ server[c] \in {"waiting", "pushing"}
    /\ up[c] # <<>>
    /\ Head(up[c]).type = type
    /\ up' = [up EXCEPT ![c] = Tail(@)]

(* The first part of CreateSource: the newer source displaces the one the  *)
(* stream had, whose publisher is not told.                                *)
HandlePush(c) ==
    /\ Receive(c, "PUSH")
    /\ server[c] = "waiting"
    /\ server' = [server EXCEPT ![c] = "creating"]
    /\ current' = c
    /\ latest' = IF c > latest THEN c ELSE latest
    /\ overtaken' = (overtaken \/ c < latest)
    /\ UNCHANGED <<publisherVars, threadVars, link, ok, leaving, received>>

(* CreateSource returns, once Close() of the source that was displaced     *)
(* has: that may take for ever.                                            *)
PushAccepted(c) ==
    /\ server[c] = "creating"
    /\ server' = [server EXCEPT ![c] = "pushing"]
    /\ ok' = [ok EXCEPT ![c] = TRUE]
    /\ UNCHANGED <<publisherVars, threadVars, link, up, leaving, current,
                   received, latest, overtaken>>

(* What a source that was displaced takes until it is closed, the stream   *)
(* does not get: nobody who asks for it is given this source.              *)
HandleFragment(c) ==
    /\ Receive(c, "F")
    /\ server[c] = "pushing"
    /\ received' = IF current = c
                   THEN Append(received,
                               [conn |-> c, fragment |-> Head(up[c]).fragment])
                   ELSE received
    /\ UNCHANGED <<publisherVars, threadVars, link, ok, server, leaving,
                   current, latest, overtaken>>

HandleHeartbeat(c) ==
    /\ Receive(c, "H")
    /\ server[c] = "pushing"
    /\ UNCHANGED <<publisherVars, threadVars, link, ok, serverVars>>

(* The handler goes on to Close() of its source, and then RemoveSource.    *)
HandleClose(c) ==
    /\ Receive(c, "CLOSE")
    /\ server[c] = "pushing"
    /\ server' = [server EXCEPT ![c] = "gone"]
    /\ leaving' = leaving \cup {c}
    /\ UNCHANGED <<publisherVars, threadVars, link, ok, current, received,
                   latest, overtaken>>

HandleMessage(c) ==
    \/ HandlePush(c)
    \/ HandleFragment(c)
    \/ HandleHeartbeat(c)
    \/ HandleClose(c)

(* A handler that has a source closes it, and then removes it.             *)
ServerLeaves(c) ==
    /\ server[c] \in {"waiting", "pushing"}
    /\ server' = [server EXCEPT ![c] = "gone"]
    /\ leaving' = IF server[c] = "pushing" THEN leaving \cup {c} ELSE leaving
    /\ up' = [up EXCEPT ![c] = <<>>]
    /\ UNCHANGED <<publisherVars, threadVars, link, ok, current, received,
                   latest, overtaken>>

(* Mutant: removes the source of the stream, whoever has it.               *)
RemoveSourceAny(c) ==
    /\ c \in leaving
    /\ leaving' = leaving \ {c}
    /\ current' = 0
    /\ UNCHANGED <<publisherVars, threadVars, networkVars, server, received,
                   latest, overtaken>>

(* Close() of the source of c has returned: that may take for ever.        *)
RemoveSource(c) ==
    /\ c \in leaving
    /\ leaving' = leaving \ {c}
    /\ current' = IF current = c THEN 0 ELSE current
    /\ UNCHANGED <<publisherVars, threadVars, networkVars, server, received,
                   latest, overtaken>>

(* The server refuses PUSH, or loses the connection.                       *)
ServerFails(c) == c < MaxConnections /\ ServerLeaves(c)

(* The server is restarted: no source is left, and no handler.             *)
Restart ==
    /\ conn < MaxConnections
    /\ server' = [c \in Conns |-> IF server[c] = "none" THEN "none" ELSE "gone"]
    /\ leaving' = {}
    /\ current' = 0
    /\ up' = [c \in Conns |-> <<>>]
    /\ UNCHANGED <<publisherVars, threadVars, link, ok, received, latest,
                   overtaken>>

(* The client will not write to c any more: neither run() before           *)
(* onConnected, nor through publisher.socket.                              *)
Abandoned(c) ==
    /\ socket # c
    /\ ~(c = conn /\ run \in {"dialed", "signed", "opened"})

(* Mutant: the server has no read deadline.                                *)
ServerTimesOutIfBroken(c) ==
    /\ link[c] \in {"broken", "closed"}
    /\ ServerLeaves(c)

(* The read deadline of the server, or the end of a closed connection.     *)
ServerTimesOut(c) ==
    /\ link[c] # "open" \/ Abandoned(c)
    /\ ServerLeaves(c)

-----------------------------------------------------------------------------
RunStep ==
    \/ Check
    \/ DialFails
    \/ ClosedWhileDialing
    \/ SignToken
    \/ SendPush
    \/ OnConnected
    \/ ReadLoop
    \/ ReadOK
    \/ ReadFails
    \/ OnReady
    \/ OnDisconnected

Next ==
    \/ RunStep
    \/ Dial
    \/ SendHeartbeat
    \/ HeartbeatStops
    \/ SendFragment
    \/ Close
    \/ \E c \in Conns :
           \/ Break(c)
           \/ HandleMessage(c)
           \/ PushAccepted(c)
           \/ RemoveSource(c)
           \/ ServerFails(c)
           \/ ServerTimesOut(c)
    \/ Restart

Spec == Init /\ [][Next]_vars

(* The handlers that are inside Close() of some source.                    *)
Closing == {c \in Conns : server[c] = "creating"} \cup leaving

(* The goroutines of the publisher go on.  A server that can be dialled    *)
(* again and again is reached in the end, and while it closes no source of *)
(* the stream, whose mutex its handlers may wait for, it reads what has    *)
(* arrived, and has a read deadline.  Nothing makes Close() return.        *)
Fairness ==
    /\ WF_vars(RunStep)
    /\ SF_vars(Dial)
    /\ WF_vars(HeartbeatStops)
    /\ \A c \in Conns :
           /\ WF_vars(Closing = {} /\ HandleMessage(c))
           /\ WF_vars(Closing = {} /\ ServerTimesOut(c))

FairSpec == Spec /\ Fairness

-----------------------------------------------------------------------------
(* Properties.                                                             *)

(* Types; Close() finds room in the channel of the heartbeats, which it    *)
(* fills while it holds the lock.                                          *)
TypeOK ==
    /\ closed \in BOOLEAN
    /\ ready \in BOOLEAN
    /\ socket \in 0 .. MaxConnections
    /\ pendingQueue \in Seq(1 .. MaxFragments)
    /\ interrupt \in 0 .. 1
    /\ handed \in 0 .. MaxFragments
    /\ run \in {"check", "dialing", "dialed", "signed", "opened", "loop",
                "reading", "accepted", "leaving", "ended"}
    /\ conn \in 0 .. MaxConnections
    /\ heartbeat \in {"waiting", "ended"}
    /\ heartbeats \in 0 .. MaxHeartbeats
    /\ link \in [Conns -> {"none", "open", "broken", "closed"}]
    /\ up \in [Conns -> Seq(Message)]
    /\ ok \in [Conns -> BOOLEAN]
    /\ server \in [Conns -> {"none", "waiting", "creating", "pushing", "gone"}]
    /\ leaving \subseteq Conns
    /\ current \in 0 .. MaxConnections
    /\ received \in Seq([conn : Conns, fragment : 1 .. MaxFragments])
    /\ latest \in 0 .. MaxConnections
    /\ overtaken \in BOOLEAN

(* Whatever connections came and went, the queue holds the latest          *)
(* fragments without a gap, never too many, and none once they can be sent *)
(* or the publisher is closed (client.go:251, 285, 324).                   *)
QueueIsNewest ==
    /\ Len(pendingQueue) <= QueueMaxLength
    /\ \A i \in 1 .. Len(pendingQueue) :
           pendingQueue[i] = handed - Len(pendingQueue) + i
    /\ ready \/ closed => pendingQueue = <<>>

(* The messages of a connection come in the order the server demands, with *)
(* the lock or without: PUSH first, and nothing after CLOSE.  Anything     *)
(* else is answered with a protocol error (server/connection.go:205).      *)
ServerUnderstands ==
    \A c \in Conns : \A i \in 1 .. Len(up[c]) :
        /\ up[c][i].type = "PUSH" <=> (i = 1 /\ server[c] = "waiting")
        /\ up[c][i].type = "CLOSE" => i = Len(up[c]) /\ closed

(* While a connection lasts nothing is lost: what the stream gets through  *)
(* one connection has no gap, from the queued fragments to the live ones.  *)
NoGapOnConnection ==
    \A i \in 1 .. Len(received) - 1 :
        received[i].conn = received[i + 1].conn =>
            received[i + 1].fragment = received[i].fragment + 1

(* A publisher that is ready on a connection that still exists is the one  *)
(* the stream has, unless an older PUSH of its own was handled late: the   *)
(* end of an old connection never takes the stream from the new one.       *)
ReadyIsCurrent ==
    ready /\ server[socket] = "pushing" /\ ~overtaken => current = socket

(* What the stream receives over all connections is in the order it was    *)
(* handed over, each fragment once (client.go:226, 251, 285).              *)
Delivery == INSTANCE FragmentDelivery WITH
    Spectators <- {"server"},
    published <- handed,
    ended <- closed,
    received <- [s \in {"server"} |->
                     [i \in 1 .. Len(received) |-> received[i].fragment]]

ImplementsDelivery == Delivery!Spec

(* Close() tells the heartbeats to end exactly once, whatever the two      *)
(* goroutines and the calls of the application are at (client.go:350).     *)
HeartbeatsToldOnce ==
    closed <=> interrupt + (IF heartbeat = "ended" THEN 1 ELSE 0) = 1

(* The connections with a PUSH that no server has handled yet.             *)
PushesOnTheWay == {c \in Conns : server[c] = "waiting" /\ up[c] # <<>>}

(* A closed publisher that left no stream behind: run() is past the point  *)
(* where it writes PUSH without looking, and none is on its way.           *)
Over ==
    /\ closed
    /\ run # "signed"
    /\ current = 0
    /\ PushesOnTheWay = {}

(* After Close() both goroutines end.                                      *)
CloseEnds == closed ~> (run = "ended" /\ heartbeat = "ended")

(* Every call of Close() of a source returns: no spectator of it is        *)
(* wedged, or has stopped reading for good (Works and WritesReturn of      *)
(* module HlsSource).                                                      *)
CloseReturns == \A c \in Conns : []<>(c \notin Closing)

(* After Close() the stream ends for good, also when Close() met a         *)
(* connection that was just being made, and nobody closes it, provided     *)
(* that the server gets to close its sources.                              *)
StreamEnds == CloseReturns => closed ~> [](current = 0)

(* Connections that are refused or lost are replaced until one lasts, and  *)
(* it is ready, provided that the server gets to close the sources that    *)
(* it displaces.                                                           *)
EventuallyReady == CloseReturns => <>closed \/ <>[]ready
=============================================================================
