----------------------------- MODULE Connections -----------------------------
(***************************************************************************)
(* The connection handlers of one server (server/connection.go) with the   *)
(* registry of its sources (server/sources_controller.go), the goroutines  *)
(* that pull for them (server/stream_pull.go) and the count of the         *)
(* connections of one client address (http_server.go, rate_limit.go).      *)
(*                                                                         *)
(* Each connection runs one goroutine, which reads a message, handles it,  *)
(* reads the next one, and cleans up at the end.  A publisher creates at   *)
(* most one source, so a source is named by its connection.                *)
(*                                                                         *)
(* What happens inside a source is the subject of module HlsSource: here   *)
(* Close() keeps its mutex for a while, or for ever, and a spectator is    *)
(* sent some of the fragments that were published.  The relay is any       *)
(* source that may close at any time.                                      *)
(*                                                                         *)
(* Three goroutines write to a socket: the one that reads, the one that    *)
(* pulls, and the one that sends heartbeats.                               *)
(***************************************************************************)
EXTENDS Integers, Sequences, FiniteSets

CONSTANTS
    Conns,           \* connections, all of the same client address
    Publishers,      \* those whose peer has a valid token to push
    Spectators,      \* those whose peer has a valid token to pull
    Streams,         \* stream ids
    Relay,           \* the relay of a stream that is published elsewhere
    None,            \* no source, no stream
    MaxConnections,  \* config: connections per client address
    MaxFragments,    \* bound: fragments per source
    Lasting,         \* bound: connections that last until a heartbeat
    MaxHeartbeats    \* bound: heartbeats of each of them

ASSUME ConnectionsAssumption ==
    /\ IsFiniteSet(Conns)
    /\ Publishers \subseteq Conns
    /\ Spectators \subseteq Conns
    /\ {Relay, None} \cap Conns = {}
    /\ Relay # None
    /\ None \notin Streams
    /\ MaxConnections \in Nat \ {0}
    /\ MaxFragments \in Nat
    /\ Lasting \subseteq Conns
    /\ MaxHeartbeats \in Nat

VARIABLES
    connectionsCount,  \* rateLimiter.connectionsCount of the address
    sources,           \* sourceController.sources
    pc,                \* where the goroutine of the connection is
    mode,              \* ch.mode
    streamId,          \* ch.streamId, or the local one before it is assigned
    expectedBinary,    \* ch.expectedBinary: ch.currentFragmentToPush is set
    sourceToPush,      \* ch.sourceToPush is set
    existingSource,    \* what CreateSource has still to close
    source,            \* the source of the connection
    closing,           \* sources whose mutex Close() holds
    published,         \* fragments published by the connection
    socket,            \* ch.connection
    heartbeat,         \* the goroutine that sends heartbeats
    pull,              \* the goroutine that pulls
    pullFrom,          \* the source it pulls from
    interrupt,         \* an item waits in pullingInterruptChannel
    outbox             \* messages written to the peer

runVars == <<pc, mode, streamId, expectedBinary, sourceToPush>>
sourceVars == <<sources, existingSource, source, closing, published>>
pullVars == <<pull, pullFrom, interrupt>>
vars == <<connectionsCount, sourceVars, runVars, socket, heartbeat, pullVars,
          outbox>>

Init ==
    /\ connectionsCount = 0
    /\ sources = [s \in Streams |-> None]
    /\ pc = [c \in Conns |-> "none"]
    /\ mode = [c \in Conns |-> "none"]
    /\ streamId = [c \in Conns |-> None]
    /\ expectedBinary = [c \in Conns |-> FALSE]
    /\ sourceToPush = [c \in Conns |-> FALSE]
    /\ existingSource = [c \in Conns |-> None]
    /\ source = [c \in Conns |-> "none"]
    /\ closing = {}
    /\ published = [c \in Conns |-> 0]
    /\ socket = [c \in Conns |-> "open"]
    /\ heartbeat = [c \in Conns |-> "off"]
    /\ pull = [c \in Conns |-> "none"]
    /\ pullFrom = [c \in Conns |-> None]
    /\ interrupt = [c \in Conns |-> FALSE]
    /\ outbox = [c \in Conns |-> <<>>]

-----------------------------------------------------------------------------
(* The HTTP server and the rate limiter.                                   *)

Move(c, from, to) == pc[c] = from /\ pc' = [pc EXCEPT ![c] = to]

(* An address that has MaxConnections connections is refused, which        *)
(* changes nothing.                                                        *)
StartConnection(c) ==
    /\ Move(c, "none", "upgrading")
    /\ connectionsCount < MaxConnections
    /\ connectionsCount' = connectionsCount + 1
    /\ UNCHANGED <<sourceVars, mode, streamId, expectedBinary, sourceToPush,
                   socket, heartbeat, pullVars, outbox>>

(* The entry of the map is deleted when it would become zero.              *)
EndConnection ==
    connectionsCount' = IF connectionsCount <= 1 THEN 0 ELSE connectionsCount - 1

(* Mutant: the connection is still counted after a failed upgrade.         *)
UpgradeFailsKeepsCount(c) ==
    /\ Move(c, "upgrading", "gone")
    /\ UNCHANGED <<connectionsCount, sourceVars, mode, streamId, expectedBinary,
                   sourceToPush, socket, heartbeat, pullVars, outbox>>

UpgradeFails(c) ==
    /\ Move(c, "upgrading", "gone")
    /\ EndConnection
    /\ UNCHANGED <<sourceVars, mode, streamId, expectedBinary, sourceToPush,
                   socket, heartbeat, pullVars, outbox>>

Upgraded(c) ==
    /\ Move(c, "upgrading", "reading")
    /\ heartbeat' = [heartbeat EXCEPT ![c] = "running"]
    /\ UNCHANGED <<connectionsCount, sourceVars, mode, streamId, expectedBinary,
                   sourceToPush, socket, pullVars, outbox>>

-----------------------------------------------------------------------------
(* Messages of the peer.                                                   *)

(* The socket takes messages until it is closed; write errors are ignored. *)
(* (ch.closed is set after the socket is closed, and stops no other one.)  *)
Send(c, message) ==
    outbox' = [outbox EXCEPT ![c] = IF socket[c] = "open"
                                    THEN Append(@, message)
                                    ELSE @]

(* The read fails: the peer hung up, sent nothing for too long, reported   *)
(* an error, or the socket was closed by SendClose.                        *)
ReadFails(c) ==
    /\ Move(c, "reading", "leaving")
    /\ UNCHANGED <<connectionsCount, sourceVars, mode, streamId, expectedBinary,
                   sourceToPush, socket, heartbeat, pullVars, outbox>>

(* A message the mode does not allow, or with invalid parameters, or text  *)
(* where binary data is expected, or the reverse: it is answered with an   *)
(* error, and the loop ends.                                               *)
RefuseMessage(c) ==
    /\ Move(c, "reading", "leaving")
    /\ Send(c, "E")
    /\ UNCHANGED <<connectionsCount, sourceVars, mode, streamId, expectedBinary,
                   sourceToPush, socket, heartbeat, pullVars>>

CanRead(c) == pc[c] = "reading" /\ socket[c] = "open"

(* The second critical section of CreateSource.                            *)
CreateSource(c, s) ==
    /\ source' = [source EXCEPT ![c] = "open"]
    /\ existingSource' = [existingSource EXCEPT ![c] = sources[s]]
    /\ sources' = [sources EXCEPT ![s] = c]

HandlePush(c, s) ==
    /\ CanRead(c)
    /\ c \in Publishers
    /\ mode[c] = "none"
    /\ Move(c, "reading", "creating")
    /\ streamId' = [streamId EXCEPT ![c] = s]
    /\ CreateSource(c, s)
    /\ UNCHANGED <<connectionsCount, closing, published, mode, expectedBinary,
                   sourceToPush, socket, heartbeat, pullVars, outbox>>

(* The handler of c has called Close() of the source p: in CreateSource,   *)
(* outside of the controller's mutex, in HandleClose, or in onClose.       *)
Closes(c, p) ==
    \/ pc[c] = "creating" /\ p = existingSource[c]
    \/ pc[c] = "handlingClose" /\ p = c
    \/ pc[c] = "closing" /\ mode[c] = "push" /\ sourceToPush[c] /\ p = c

(* Close() takes the mutex of the source, and returns at once if it finds  *)
(* the source closed.                                                      *)
CloseBegins(c, p) ==
    /\ Closes(c, p)
    /\ source[p] = "open"
    /\ p \notin closing
    /\ closing' = closing \cup {p}
    /\ UNCHANGED <<connectionsCount, sources, existingSource, source, published,
                   runVars, socket, heartbeat, pullVars, outbox>>

(* Relays close too: it matters to those that pull from them.              *)
RelayCloses ==
    /\ Relay \notin closing
    /\ \E c \in Conns : pullFrom[c] = Relay /\ pull[c] # "done"
    /\ closing' = closing \cup {Relay}
    /\ UNCHANGED <<connectionsCount, sources, existingSource, source, published,
                   runVars, socket, heartbeat, pullVars, outbox>>

CloseEnds(p) ==
    /\ p \in closing
    /\ closing' = closing \ {p}
    /\ source' = [c \in Conns |-> IF c = p THEN "closed" ELSE source[c]]
    /\ UNCHANGED <<connectionsCount, sources, existingSource, published, runVars,
                   socket, heartbeat, pullVars, outbox>>

(* The rest of CreateSource and of HandlePush, when Close() of the source  *)
(* that was displaced, if any, has returned.                               *)
PushAccepted(c) ==
    /\ existingSource[c] # None => source[existingSource[c]] = "closed"
    /\ existingSource' = [existingSource EXCEPT ![c] = None]
    /\ Move(c, "creating", "reading")
    /\ sourceToPush' = [sourceToPush EXCEPT ![c] = TRUE]
    /\ mode' = [mode EXCEPT ![c] = "push"]
    /\ Send(c, "OK")
    /\ UNCHANGED <<connectionsCount, sources, source, closing, published,
                   streamId, expectedBinary, socket, heartbeat, pullVars>>

HandleFragmentMetadata(c) ==
    /\ CanRead(c)
    /\ ~expectedBinary[c]
    /\ mode[c] = "push"
    /\ expectedBinary' = [expectedBinary EXCEPT ![c] = TRUE]
    /\ UNCHANGED <<connectionsCount, sourceVars, pc, mode, streamId, sourceToPush,
                   socket, heartbeat, pullVars, outbox>>

(* AddFragment does nothing on a closed source, and waits while it is      *)
(* being closed.                                                           *)
ReadBinaryMessage(c) ==
    /\ CanRead(c)
    /\ expectedBinary[c]
    /\ sourceToPush[c]
    /\ c \notin closing
    /\ expectedBinary' = [expectedBinary EXCEPT ![c] = FALSE]
    /\ IF source[c] = "open"
       THEN /\ published[c] < MaxFragments
            /\ published' = [published EXCEPT ![c] = @ + 1]
       ELSE UNCHANGED published
    /\ UNCHANGED <<connectionsCount, sources, existingSource, source, closing,
                   pc, mode, streamId, sourceToPush, socket, heartbeat, pullVars,
                   outbox>>

(* Mutant: the entry of the stream is deleted, whosever it is.             *)
RemoveSourceAny(c) ==
    sources' = [sources EXCEPT ![streamId[c]] = None]

RemoveSource(c) ==
    sources' = [sources EXCEPT ![streamId[c]] = IF @ = c THEN None ELSE @]

(* The publisher ends the stream: Close() first, then RemoveSource.        *)
HandleClose(c) ==
    /\ CanRead(c)
    /\ ~expectedBinary[c]
    /\ mode[c] = "push"
    /\ sourceToPush[c]
    /\ Move(c, "reading", "handlingClose")
    /\ UNCHANGED <<connectionsCount, sourceVars, mode, streamId, expectedBinary,
                   sourceToPush, socket, heartbeat, pullVars, outbox>>

(* Mutant: the removal is left to onClose, which finds nothing to remove.  *)
HandleCloseForgets(c) ==
    /\ source[c] = "closed"
    /\ Move(c, "handlingClose", "leaving")
    /\ sourceToPush' = [sourceToPush EXCEPT ![c] = FALSE]
    /\ streamId' = [streamId EXCEPT ![c] = None]
    /\ mode' = [mode EXCEPT ![c] = "none"]
    /\ UNCHANGED <<connectionsCount, sourceVars, expectedBinary, socket,
                   heartbeat, pullVars, outbox>>

HandleCloseEnd(c) ==
    /\ source[c] = "closed"
    /\ Move(c, "handlingClose", "leaving")
    /\ RemoveSource(c)
    /\ sourceToPush' = [sourceToPush EXCEPT ![c] = FALSE]
    /\ streamId' = [streamId EXCEPT ![c] = None]
    /\ mode' = [mode EXCEPT ![c] = "none"]
    /\ UNCHANGED <<connectionsCount, existingSource, source, closing, published,
                   expectedBinary, socket, heartbeat, pullVars, outbox>>

(* OK is sent, and the goroutine that pulls from x is started.             *)
PullAccepted(c, x) ==
    /\ Send(c, "OK")
    /\ pull' = [pull EXCEPT ![c] = "start"]
    /\ pullFrom' = [pullFrom EXCEPT ![c] = x]
    /\ mode' = [mode EXCEPT ![c] = "pull"]

(* The source of the stream may be closed by the time the goroutine adds   *)
(* its listener.                                                           *)
HandlePull(c, s) ==
    /\ CanRead(c)
    /\ c \in Spectators
    /\ mode[c] = "none"
    /\ streamId' = [streamId EXCEPT ![c] = s]
    /\ IF sources[s] # None
       THEN /\ PullAccepted(c, sources[s])
            /\ UNCHANGED pc
       ELSE /\ Move(c, "reading", "relaying")
            /\ UNCHANGED <<pull, pullFrom, mode, outbox>>
    /\ UNCHANGED <<connectionsCount, sourceVars, expectedBinary, sourceToPush,
                   interrupt, socket, heartbeat>>

(* RelayStream found where to relay the stream from.                       *)
RelayFound(c) ==
    /\ Move(c, "relaying", "reading")
    /\ PullAccepted(c, Relay)
    /\ UNCHANGED <<connectionsCount, sourceVars, streamId, expectedBinary,
                   sourceToPush, interrupt, socket, heartbeat>>

(* It did not, or the peer wants no relay: an empty stream, in two         *)
(* messages.                                                               *)
StreamNotFound(c) ==
    /\ Move(c, "relaying", "empty")
    /\ Send(c, "OK")
    /\ UNCHANGED <<connectionsCount, sourceVars, mode, streamId, expectedBinary,
                   sourceToPush, socket, heartbeat, pullVars>>

EndEmptyStream(c) ==
    /\ Move(c, "empty", "leaving")
    /\ Send(c, "CLOSE")
    /\ UNCHANGED <<connectionsCount, sourceVars, mode, streamId, expectedBinary,
                   sourceToPush, socket, heartbeat, pullVars>>

-----------------------------------------------------------------------------
(* The end of Run: the deferred calls, onClose among them.                 *)

CloseSocket(c) ==
    /\ Move(c, "leaving", "closing")
    /\ socket' = [socket EXCEPT ![c] = "closed"]
    /\ UNCHANGED <<connectionsCount, sourceVars, mode, streamId, expectedBinary,
                   sourceToPush, heartbeat, pullVars, outbox>>

(* Close() of its source has returned.                                     *)
OnClosePush(c) ==
    /\ mode[c] = "push"
    /\ sourceToPush[c]
    /\ source[c] = "closed"
    /\ Move(c, "closing", "unregister")
    /\ UNCHANGED <<connectionsCount, sourceVars, mode, streamId, expectedBinary,
                   sourceToPush, socket, heartbeat, pullVars, outbox>>

OnCloseRemove(c) ==
    /\ Move(c, "unregister", "release")
    /\ RemoveSource(c)
    /\ sourceToPush' = [sourceToPush EXCEPT ![c] = FALSE]
    /\ UNCHANGED <<connectionsCount, existingSource, source, closing, published,
                   mode, streamId, expectedBinary, socket, heartbeat, pullVars,
                   outbox>>

(* Mutant: the goroutine that pulls is not interrupted.                    *)
OnClosePullSilently(c) ==
    /\ mode[c] = "pull"
    /\ Move(c, "closing", "release")
    /\ UNCHANGED <<connectionsCount, sourceVars, mode, streamId, expectedBinary,
                   sourceToPush, socket, heartbeat, pullVars, outbox>>

OnClosePull(c) ==
    /\ mode[c] = "pull"
    /\ Move(c, "closing", "release")
    /\ interrupt' = [interrupt EXCEPT ![c] = TRUE]
    /\ UNCHANGED <<connectionsCount, sourceVars, mode, streamId, expectedBinary,
                   sourceToPush, socket, heartbeat, pull, pullFrom, outbox>>

OnCloseNoMode(c) ==
    /\ mode[c] = "none"
    /\ Move(c, "closing", "release")
    /\ UNCHANGED <<connectionsCount, sourceVars, mode, streamId, expectedBinary,
                   sourceToPush, socket, heartbeat, pullVars, outbox>>

OnCloseEnd(c) ==
    /\ Move(c, "release", "gone")
    /\ heartbeat' = [heartbeat EXCEPT ![c] = "interrupted"]
    /\ EndConnection
    /\ UNCHANGED <<sourceVars, mode, streamId, expectedBinary, sourceToPush,
                   socket, pullVars, outbox>>

Sent(c, message) == Len(SelectSeq(outbox[c], LAMBDA m : m = message))

SendHeartbeat(c) ==
    /\ c \in Lasting
    /\ heartbeat[c] = "running"
    /\ socket[c] = "open"
    /\ Sent(c, "H") < MaxHeartbeats
    /\ Send(c, "H")
    /\ UNCHANGED <<connectionsCount, sourceVars, runVars, socket, heartbeat,
                   pullVars>>

HeartbeatStops(c) ==
    /\ heartbeat[c] = "interrupted"
    /\ heartbeat' = [heartbeat EXCEPT ![c] = "off"]
    /\ UNCHANGED <<connectionsCount, sourceVars, runVars, socket, pullVars, outbox>>

-----------------------------------------------------------------------------
(* The goroutine that pulls for the connection.                            *)

(* Whether who takes the mutex of x may find x closed, or open.            *)
MayBeClosed(x) == x \notin closing /\ (x \in Conns => source[x] = "closed")
MayBeOpen(x) == x \notin closing /\ (x \in Conns => source[x] = "open")

(* Mutant: the message is sent, and the socket left open.                  *)
SendCloseOnly(c) ==
    /\ Send(c, "CLOSE")
    /\ UNCHANGED socket

SendClose(c) ==
    /\ Send(c, "CLOSE")
    /\ socket' = [socket EXCEPT ![c] = "closed"]

AddListener(c) ==
    /\ pull[c] = "start"
    /\ MayBeOpen(pullFrom[c])
    /\ pull' = [pull EXCEPT ![c] = "listening"]
    /\ UNCHANGED <<connectionsCount, sourceVars, runVars, socket, heartbeat,
                   pullFrom, interrupt, outbox>>

(* The source was closed before the listener was added.                    *)
ListenFails(c) ==
    /\ pull[c] = "start"
    /\ MayBeClosed(pullFrom[c])
    /\ SendClose(c)
    /\ pull' = [pull EXCEPT ![c] = "done"]
    /\ UNCHANGED <<connectionsCount, sourceVars, runVars, heartbeat, pullFrom,
                   interrupt>>

(* The close event came, which Close() sends while it holds the mutex.     *)
ReceiveClose(c) ==
    /\ pull[c] = "listening"
    /\ pullFrom[c] \in closing \/ MayBeClosed(pullFrom[c])
    /\ SendClose(c)
    /\ pull' = [pull EXCEPT ![c] = "removing"]
    /\ UNCHANGED <<connectionsCount, sourceVars, runVars, heartbeat, pullFrom,
                   interrupt>>

(* Never more fragments than there were.                                   *)
SendFragment(c) ==
    /\ pull[c] = "listening"
    /\ socket[c] = "open"
    /\ Sent(c, "F") < IF pullFrom[c] = Relay THEN MaxFragments
                                            ELSE published[pullFrom[c]]
    /\ Send(c, "F")
    /\ UNCHANGED <<connectionsCount, sourceVars, runVars, socket, heartbeat,
                   pullVars>>

ReceiveInterrupt(c) ==
    /\ pull[c] = "listening"
    /\ interrupt[c]
    /\ interrupt' = [interrupt EXCEPT ![c] = FALSE]
    /\ pull' = [pull EXCEPT ![c] = "removing"]
    /\ UNCHANGED <<connectionsCount, sourceVars, runVars, socket, heartbeat,
                   pullFrom, outbox>>

(* RemoveListener, deferred, takes the mutex.                              *)
RemoveListener(c) ==
    /\ pull[c] = "removing"
    /\ pullFrom[c] \notin closing
    /\ pull' = [pull EXCEPT ![c] = "done"]
    /\ UNCHANGED <<connectionsCount, sourceVars, runVars, socket, heartbeat,
                   pullFrom, interrupt, outbox>>

-----------------------------------------------------------------------------
ReadMessage(c) ==
    \/ ReadFails(c)
    \/ CanRead(c) /\ RefuseMessage(c)
    \/ \E s \in Streams : HandlePush(c, s) \/ HandlePull(c, s)
    \/ HandleFragmentMetadata(c)
    \/ ReadBinaryMessage(c)
    \/ HandleClose(c)

(* What the goroutine does once it has read a message.                     *)
Proceed(c) ==
    \/ PushAccepted(c)
    \/ HandleCloseEnd(c)
    \/ RelayFound(c)
    \/ StreamNotFound(c)
    \/ EndEmptyStream(c)

(* What it does at the end.                                                *)
Leave(c) ==
    \/ CloseSocket(c)
    \/ OnClosePush(c)
    \/ OnCloseRemove(c)
    \/ OnClosePull(c)
    \/ OnCloseNoMode(c)
    \/ OnCloseEnd(c)

PullStep(c) ==
    \/ AddListener(c)
    \/ ListenFails(c)
    \/ ReceiveClose(c)
    \/ SendFragment(c)
    \/ ReceiveInterrupt(c)
    \/ RemoveListener(c)

Next ==
    \/ \E c \in Conns :
           \/ StartConnection(c)
           \/ UpgradeFails(c)
           \/ Upgraded(c)
           \/ ReadMessage(c)
           \/ Proceed(c)
           \/ Leave(c)
           \/ SendHeartbeat(c)
           \/ HeartbeatStops(c)
           \/ PullStep(c)
           \/ \E p \in Conns : CloseBegins(c, p)
    \/ RelayCloses
    \/ \E p \in Conns \cup {Relay} : CloseEnds(p)

(* A handler that ends goes on, and so does the goroutine that pulls once  *)
(* the socket is closed, when a write returns at once; before, it may be   *)
(* inside a write for ever, as may the handler that answers a message, for *)
(* a write has no deadline.  Who waits for a mutex gets it when it is free *)
(* often enough (sync.Mutex hands it to a waiter that starves), but        *)
(* Close() need not let go of it.  A read from a closed socket fails;      *)
(* whether and what the peer sends is left open.                           *)
Fairness ==
    \A c \in Conns :
        /\ SF_vars(Leave(c) \/ CloseBegins(c, c))
        /\ WF_vars(socket[c] = "closed" /\ ReadFails(c))
        /\ WF_vars(HeartbeatStops(c))
        /\ SF_vars(socket[c] = "closed" /\ PullStep(c))

Spec == Init /\ [][Next]_vars
FairSpec == Spec /\ Fairness

-----------------------------------------------------------------------------
(* Properties.                                                             *)

(* Every variable keeps to its type.                                       *)
TypeOK ==
    /\ connectionsCount \in 0 .. MaxConnections
    /\ sources \in [Streams -> Conns \cup {None}]
    /\ pc \in [Conns -> {"none", "upgrading", "reading", "creating", "relaying",
                         "empty", "handlingClose", "leaving", "closing",
                         "unregister", "release", "gone"}]
    /\ mode \in [Conns -> {"none", "push", "pull"}]
    /\ streamId \in [Conns -> Streams \cup {None}]
    /\ expectedBinary \in [Conns -> BOOLEAN]
    /\ sourceToPush \in [Conns -> BOOLEAN]
    /\ existingSource \in [Conns -> Conns \cup {None}]
    /\ source \in [Conns -> {"none", "open", "closed"}]
    /\ closing \subseteq Conns \cup {Relay}
    /\ published \in [Conns -> 0 .. MaxFragments]
    /\ socket \in [Conns -> {"open", "closed"}]
    /\ heartbeat \in [Conns -> {"off", "running", "interrupted"}]
    /\ pull \in [Conns -> {"none", "start", "listening", "removing", "done"}]
    /\ pullFrom \in [Conns -> Conns \cup {Relay, None}]
    /\ interrupt \in [Conns -> BOOLEAN]
    /\ outbox \in [Conns -> Seq({"OK", "E", "F", "CLOSE", "H"})]

(* An open source that spectators cannot find in the map is about to be    *)
(* closed by the publisher that took its place: no publisher goes on       *)
(* sending fragments that nobody can ever ask for, and a stream never has  *)
(* two publishers for longer than CreateSource takes.                      *)
OpenSourceIsRegistered ==
    \A p \in Conns :
        source[p] = "open" =>
            \/ sources[streamId[p]] = p
            \/ \E q \in Conns : existingSource[q] = p

(* The map holds no source that its publisher has left behind: the entry   *)
(* goes before the goroutine does, whoever took the stream over meanwhile. *)
EntryHasPublisher ==
    \A s \in Streams :
        sources[s] # None =>
            /\ streamId[sources[s]] = s
            /\ pc[sources[s]] \notin {"none", "upgrading", "release", "gone"}

Held == {c \in Conns : pc[c] \notin {"none", "gone"}}

(* The limiter counts the connections that exist, and no other: each is    *)
(* given back exactly once, on every way out of ServeHTTP and of Run.      *)
CountsConnections == connectionsCount = Cardinality(Held)

(* But for heartbeats, OK comes first and before any fragment, CLOSE is    *)
(* the last message, and at most one error is sent.  Heartbeats come       *)
(* whenever they like, before OK too, with one exception: the goroutine    *)
(* that pulls closes the socket under the mutex it sent CLOSE under, so    *)
(* only the CLOSE of a stream that was not found is ever followed by one.  *)
RepliesInOrder ==
    \A c \in Conns :
        /\ \A i, j \in 1 .. Len(outbox[c]) :
               /\ i < j /\ outbox[c][j] = "OK" => outbox[c][i] = "H"
               /\ i < j /\ outbox[c][i] = "CLOSE" =>
                      outbox[c][j] = "H" /\ pull[c] = "none"
               /\ outbox[c][i] = "E" /\ outbox[c][j] = "E" => i = j
        /\ \A j \in 1 .. Len(outbox[c]) :
               outbox[c][j] \in {"F", "CLOSE"} =>
                   \E i \in 1 .. j - 1 : outbox[c][i] = "OK"

(* Every call of Close() returns: no spectator of the source is wedged, or *)
(* has stopped reading for good (Works and WritesReturn of module          *)
(* HlsSource).                                                             *)
CloseReturns ==
    \A p \in Conns \cup {Relay} : []<>(p \notin closing)

(* A connection that ends gives up everything: its goroutines, its source  *)
(* and its place in the map and in the count, provided that Close()        *)
(* returns.                                                                *)
LeavingReleases ==
    CloseReturns =>
        \A c \in Conns :
            pc[c] = "leaving" ~>
                /\ pc[c] = "gone"
                /\ heartbeat[c] = "off"
                /\ pull[c] \in {"none", "done"}
                /\ source[c] # "open"
                /\ \A s \in Streams : sources[s] # c

(* Whatever way a connection ended, when it gives its place in the count   *)
(* back its source is closed, and whoever still works for it was told to   *)
(* stop: it leaves no goroutine that nobody will ever end.                 *)
GoneToldAll ==
    \A c \in Conns :
        pc[c] \in {"release", "gone"} =>
            /\ source[c] # "open"
            /\ c \notin closing
            /\ pull[c] \in {"start", "listening"} => interrupt[c]
            /\ pc[c] = "gone" => heartbeat[c] # "running"

(* The map and the flags of the sources implement the ownership of the     *)
(* streams, though a source is closed and its entry removed in two steps,  *)
(* and another publisher may come in between: the owner of a stream is the *)
(* open source of its entry.                                               *)
owner ==
    [s \in Streams |->
        IF sources[s] # None /\ source[sources[s]] = "open" THEN sources[s]
                                                            ELSE None]

standing ==
    [p \in Conns |->
        CASE source[p] = "none" -> "none"
          [] source[p] = "closed" -> "ended"
          [] OTHER -> IF sources[streamId[p]] = p THEN "owner" ELSE "displaced"]

Ownership == INSTANCE StreamOwnership WITH given <- pullFrom

ImplementsOwnership == Ownership!Spec

(* The inductive strengthening that module ConnectionsProofs uses.         *)
EntryInv ==
    \A s \in Streams, p \in Conns :
        sources[s] = p =>
            /\ streamId[p] = s
            /\ source[p] # "none"
            /\ \/ pc[p] = "creating"
               \/ /\ mode[p] = "push"
                  /\ sourceToPush[p]
                  /\ pc[p] \in {"reading", "handlingClose", "leaving", "closing",
                                "unregister"}

SourceInv ==
    \A c \in Conns :
        /\ existingSource[c] # None =>
               pc[c] = "creating" /\ source[existingSource[c]] # "none"
        /\ pc[c] \in {"none", "upgrading"} => mode[c] = "none"
        /\ pc[c] \in {"none", "upgrading", "reading"} /\ mode[c] = "none" =>
               source[c] = "none"
        /\ pc[c] = "unregister" => source[c] = "closed"
        /\ c \in closing => source[c] = "open"

IInv == TypeOK /\ EntryInv /\ SourceInv /\ OpenSourceIsRegistered
=============================================================================
