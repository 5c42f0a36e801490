-------------------------------- MODULE Relay --------------------------------
(***************************************************************************)
(* The relays of one stream (server/relay.go) and the controller that      *)
(* hands them out (server/relay_controller.go).                            *)
(*                                                                         *)
(* A relay runs up to three goroutines: Run, which dials the other server, *)
(* reads its messages and cleans up; the heartbeats; and the check of      *)
(* inactivity.  The connection handlers of spectators ask the controller   *)
(* for a relay, wait until it is ready, and add themselves to its          *)
(* listeners.                                                              *)
(*                                                                         *)
(* Two locks may be kept across a step that blocks: relay.mu by Close(),   *)
(* which only Run calls (closeTarget, closePending), and the controller's  *)
(* by GetRelayOrCreate, which asks the relay whether it is closed (rcMu).  *)
(* What a spectator receives, and in what order, is the same code and the  *)
(* same promise as for a source (module HlsSource): here a fragment only   *)
(* takes room in a channel.                                                *)
(***************************************************************************)
EXTENDS Integers, FiniteSets

CONSTANTS
    Relays,                  \* relays of the stream, created one by one
    Spectators,              \* connections that pull the stream
    Stallers,                \* those whose peer may stop reading
    None,                    \* no relay, no spectator
    FragmentBufferMaxLength  \* config: length of the channels

ASSUME RelayAssumption ==
    /\ IsFiniteSet(Spectators)
    /\ Stallers \subseteq Spectators
    /\ None \notin Relays \cup Spectators
    /\ FragmentBufferMaxLength \in Nat \ {0}

VARIABLES
    rcMu,                \* the spectator that holds relayController.mu, or None
    relays,              \* relayController.relays of the stream
    run,                 \* where the goroutine Run of each relay is
    expectedBinary,      \* relay.expectedBinary
    socketSet,           \* relay.socket is not nil
    connected,           \* the connection to the other server is open
    closed,              \* relay.closed
    ready,               \* relay.ready, and the wait group is done
    listeners,           \* keys of relay.listeners
    closePending,        \* listeners that Close() has still to range over
    closeTarget,         \* the one it is sending the close event to
    heartbeat,           \* the goroutine sendHeartbeatMessages
    heartbeatInterrupt,  \* an item waits in heartbeatInterruptChannel
    inactivity,          \* the goroutine periodicallyCheckInactivity
    inactivityInterrupt, \* an item waits in inactivityCheckInterruptChannel
    inactivityWarning,   \* relay.inactivityWarning
    pc,                  \* where each spectator is
    relay,               \* the relay it was given
    fragments,           \* fragments in its channel
    closeEvent,          \* the close event is in its channel, behind them
    blocked,             \* spectators whose last write has not returned yet
    crashed              \* the process has panicked

closeVars == <<closePending, closeTarget>>
timerVars == <<heartbeat, heartbeatInterrupt, inactivity, inactivityInterrupt,
               inactivityWarning>>
runVars == <<run, expectedBinary, ready>>
stateVars == <<socketSet, connected, closed, listeners>>
channelVars == <<fragments, closeEvent, blocked>>
spectatorVars == <<pc, relay>>
vars == <<rcMu, relays, runVars, stateVars, closeVars, timerVars,
          spectatorVars, channelVars, crashed>>

Init ==
    /\ rcMu = None
    /\ relays = None
    /\ run = [r \in Relays |-> "off"]
    /\ expectedBinary = [r \in Relays |-> FALSE]
    /\ socketSet = [r \in Relays |-> FALSE]
    /\ connected = [r \in Relays |-> FALSE]
    /\ closed = [r \in Relays |-> FALSE]
    /\ ready = [r \in Relays |-> FALSE]
    /\ listeners = [r \in Relays |-> {}]
    /\ closePending = [r \in Relays |-> {}]
    /\ closeTarget = [r \in Relays |-> None]
    /\ heartbeat = [r \in Relays |-> "off"]
    /\ heartbeatInterrupt = [r \in Relays |-> FALSE]
    /\ inactivity = [r \in Relays |-> "off"]
    /\ inactivityInterrupt = [r \in Relays |-> FALSE]
    /\ inactivityWarning = [r \in Relays |-> FALSE]
    /\ pc = [s \in Spectators |-> "idle"]
    /\ relay = [s \in Spectators |-> None]
    /\ fragments = [s \in Spectators |-> 0]
    /\ closeEvent = [s \in Spectators |-> FALSE]
    /\ blocked = {}
    /\ crashed = FALSE

(* relay.mu is free: Close() is not under way.                             *)
Free(r) == run[r] \notin {"closing", "lastClosing"}

HasRoom(s) ==
    fragments[s] + (IF closeEvent[s] THEN 1 ELSE 0) < FragmentBufferMaxLength

-----------------------------------------------------------------------------
(* Run.                                                                    *)

RunTo(r, from, to) == run[r] = from /\ run' = [run EXCEPT ![r] = to]

(* Nobody else can have closed the relay yet.                              *)
DialSucceeds(r) ==
    /\ RunTo(r, "dialing", "connected")
    /\ socketSet' = [socketSet EXCEPT ![r] = TRUE]
    /\ connected' = [connected EXCEPT ![r] = TRUE]
    /\ UNCHANGED <<rcMu, relays, expectedBinary, ready, closed, listeners,
                   closeVars, timerVars, spectatorVars, channelVars, crashed>>

DialFails(r) ==
    /\ RunTo(r, "dialing", "leaving")
    /\ UNCHANGED <<rcMu, relays, expectedBinary, ready, stateVars, closeVars,
                   timerVars, spectatorVars, channelVars, crashed>>

(* Mutant: the check of inactivity is not started.                         *)
SendPullMessageNoCheck(r) ==
    /\ RunTo(r, "connected", "reading")
    /\ heartbeat' = [heartbeat EXCEPT ![r] = "running"]
    /\ UNCHANGED <<rcMu, relays, expectedBinary, ready, stateVars, closeVars,
                   heartbeatInterrupt, inactivity, inactivityInterrupt,
                   inactivityWarning, spectatorVars, channelVars, crashed>>

(* The other goroutines start once the PULL message is written.            *)
SendPullMessage(r) ==
    /\ RunTo(r, "connected", "reading")
    /\ heartbeat' = [heartbeat EXCEPT ![r] = "running"]
    /\ inactivity' = [inactivity EXCEPT ![r] = "running"]
    /\ UNCHANGED <<rcMu, relays, expectedBinary, ready, stateVars, closeVars,
                   heartbeatInterrupt, inactivityInterrupt, inactivityWarning,
                   spectatorVars, channelVars, crashed>>

SendPullMessageFails(r) ==
    /\ RunTo(r, "connected", "leaving")
    /\ UNCHANGED <<rcMu, relays, expectedBinary, ready, stateVars, closeVars,
                   timerVars, spectatorVars, channelVars, crashed>>

CanRead(r) == run[r] = "reading" /\ connected[r]

ReadOK(r) ==
    /\ CanRead(r)
    /\ ~expectedBinary[r]
    /\ ready' = [ready EXCEPT ![r] = TRUE]
    /\ UNCHANGED <<rcMu, relays, run, expectedBinary, stateVars, closeVars,
                   timerVars, spectatorVars, channelVars, crashed>>

HandleFragmentMetadata(r) ==
    /\ CanRead(r)
    /\ ~expectedBinary[r]
    /\ expectedBinary' = [expectedBinary EXCEPT ![r] = TRUE]
    /\ UNCHANGED <<rcMu, relays, run, ready, stateVars, closeVars, timerVars,
                   spectatorVars, channelVars, crashed>>

(* AddFragment: nothing on a closed relay, and nothing to a full channel.  *)
ReadBinaryMessage(r) ==
    /\ CanRead(r)
    /\ expectedBinary[r]
    /\ expectedBinary' = [expectedBinary EXCEPT ![r] = FALSE]
    /\ fragments' = [s \in Spectators |->
                        IF s \in listeners[r] /\ ~closed[r] /\ HasRoom(s)
                        THEN fragments[s] + 1
                        ELSE fragments[s]]
    /\ UNCHANGED <<rcMu, relays, run, ready, stateVars, closeVars, timerVars,
                   spectatorVars, closeEvent, blocked, crashed>>

(* The connection is lost, it was closed for inactivity, the other server  *)
(* was silent for too long or sent an error or what the protocol does not  *)
(* allow.                                                                  *)
ReadFails(r) ==
    /\ RunTo(r, "reading", "leaving")
    /\ UNCHANGED <<rcMu, relays, expectedBinary, ready, stateVars, closeVars,
                   timerVars, spectatorVars, channelVars, crashed>>

(* The stream ended: Close() is called, here and when Run ends.            *)
HandleClose(r) ==
    /\ CanRead(r)
    /\ ~expectedBinary[r]
    /\ IF closed[r]
       THEN RunTo(r, "reading", "leaving") /\ UNCHANGED closePending
       ELSE /\ RunTo(r, "reading", "closing")
            /\ closePending' = [closePending EXCEPT ![r] = listeners[r]]
    /\ UNCHANGED <<rcMu, relays, expectedBinary, ready, stateVars, closeTarget,
                   timerVars, spectatorVars, channelVars, crashed>>

CloseRange(r, s) ==
    /\ ~Free(r)
    /\ closeTarget[r] = None
    /\ s \in closePending[r]
    /\ closeTarget' = [closeTarget EXCEPT ![r] = s]
    /\ UNCHANGED <<rcMu, relays, runVars, stateVars, closePending, timerVars,
                   spectatorVars, channelVars, crashed>>

CloseSend(r) ==
    /\ closeTarget[r] # None
    /\ HasRoom(closeTarget[r])
    /\ closeEvent' = [closeEvent EXCEPT ![closeTarget[r]] = TRUE]
    /\ closePending' = [closePending EXCEPT ![r] = @ \ {closeTarget[r]}]
    /\ closeTarget' = [closeTarget EXCEPT ![r] = None]
    /\ UNCHANGED <<rcMu, relays, runVars, stateVars, timerVars, spectatorVars,
                   fragments, blocked, crashed>>

CloseEnd(r) ==
    /\ ~Free(r)
    /\ closePending[r] = {}
    /\ run' = [run EXCEPT ![r] = IF @ = "closing" THEN "leaving" ELSE "clearing"]
    /\ socketSet' = [socketSet EXCEPT ![r] = FALSE]
    /\ connected' = [connected EXCEPT ![r] = FALSE]
    /\ listeners' = [listeners EXCEPT ![r] = {}]
    /\ closed' = [closed EXCEPT ![r] = TRUE]
    /\ heartbeatInterrupt' = [heartbeatInterrupt EXCEPT ![r] = TRUE]
    /\ inactivityInterrupt' = [inactivityInterrupt EXCEPT ![r] = TRUE]
    /\ UNCHANGED <<rcMu, relays, expectedBinary, ready, closeVars, heartbeat,
                   inactivity, inactivityWarning, spectatorVars, channelVars,
                   crashed>>

(* The deferred function of Run reads relay.socket without the lock, once  *)
(* to compare it with nil and once to close it.                            *)
LeaveCheck(r) ==
    /\ RunTo(r, "leaving", IF socketSet[r] THEN "closeSocket" ELSE "setReady")
    /\ UNCHANGED <<rcMu, relays, expectedBinary, ready, stateVars, closeVars,
                   timerVars, spectatorVars, channelVars, crashed>>

(* The second read may find nil, which the check of inactivity has just    *)
(* put there: the process panics.                                          *)
LeaveClose(r) ==
    /\ RunTo(r, "closeSocket", "setReady")
    /\ IF socketSet[r]
       THEN connected' = [connected EXCEPT ![r] = FALSE] /\ UNCHANGED crashed
       ELSE crashed' = TRUE /\ UNCHANGED connected
    /\ UNCHANGED <<rcMu, relays, expectedBinary, ready, socketSet, closed,
                   listeners, closeVars, timerVars, spectatorVars, channelVars>>

(* Mutant: a relay that never connected leaves its waiters waiting.        *)
SetReadyIfConnected(r) ==
    /\ RunTo(r, "setReady", "lastClose")
    /\ ready' = [ready EXCEPT ![r] = @ \/ heartbeat[r] # "off"]
    /\ UNCHANGED <<rcMu, relays, expectedBinary, stateVars, closeVars,
                   timerVars, spectatorVars, channelVars, crashed>>

SetReady(r) ==
    /\ RunTo(r, "setReady", "lastClose")
    /\ ready' = [ready EXCEPT ![r] = TRUE]
    /\ UNCHANGED <<rcMu, relays, expectedBinary, stateVars, closeVars,
                   timerVars, spectatorVars, channelVars, crashed>>

(* onClose: Close(), the fields, the controller's map.                     *)
OnCloseBegin(r) ==
    /\ RunTo(r, "lastClose", IF closed[r] THEN "clearing" ELSE "lastClosing")
    /\ closePending' = [closePending EXCEPT ![r] =
                           IF closed[r] THEN @ ELSE listeners[r]]
    /\ UNCHANGED <<rcMu, relays, expectedBinary, ready, stateVars, closeTarget,
                   timerVars, spectatorVars, channelVars, crashed>>

OnCloseClear(r) ==
    /\ RunTo(r, "clearing", "unregister")
    /\ socketSet' = [socketSet EXCEPT ![r] = FALSE]
    /\ connected' = [connected EXCEPT ![r] = FALSE]
    /\ UNCHANGED <<rcMu, relays, expectedBinary, ready, closed, listeners,
                   closeVars, timerVars, spectatorVars, channelVars, crashed>>

(* Mutant: the entry of the stream is deleted, whichever relay it holds.   *)
OnRelayClosedAny(r) ==
    /\ rcMu = None
    /\ RunTo(r, "unregister", "done")
    /\ relays' = None
    /\ UNCHANGED <<rcMu, expectedBinary, ready, stateVars, closeVars,
                   timerVars, spectatorVars, channelVars, crashed>>

(* Mutant: the comparison of the identifiers is inverted.                  *)
OnRelayClosedOthers(r) ==
    /\ rcMu = None
    /\ RunTo(r, "unregister", "done")
    /\ relays' = IF relays # r THEN None ELSE relays
    /\ UNCHANGED <<rcMu, expectedBinary, ready, stateVars, closeVars,
                   timerVars, spectatorVars, channelVars, crashed>>

(* The memory of the buffer is given back then (module MemoryLimiter).     *)
OnRelayClosed(r) ==
    /\ rcMu = None
    /\ RunTo(r, "unregister", "done")
    /\ relays' = IF relays = r THEN None ELSE relays
    /\ UNCHANGED <<rcMu, expectedBinary, ready, stateVars, closeVars,
                   timerVars, spectatorVars, channelVars, crashed>>

-----------------------------------------------------------------------------
(* The other goroutines of a relay.                                        *)

HeartbeatStops(r) ==
    /\ heartbeat[r] = "running"
    /\ heartbeatInterrupt[r]
    /\ heartbeat' = [heartbeat EXCEPT ![r] = "stopped"]
    /\ heartbeatInterrupt' = [heartbeatInterrupt EXCEPT ![r] = FALSE]
    /\ UNCHANGED <<rcMu, relays, runVars, stateVars, closeVars, inactivity,
                   inactivityInterrupt, inactivityWarning, spectatorVars,
                   channelVars, crashed>>

InactivityStops(r) ==
    /\ inactivity[r] = "running"
    /\ inactivityInterrupt[r]
    /\ inactivity' = [inactivity EXCEPT ![r] = "stopped"]
    /\ inactivityInterrupt' = [inactivityInterrupt EXCEPT ![r] = FALSE]
    /\ UNCHANGED <<rcMu, relays, runVars, stateVars, closeVars, heartbeat,
                   heartbeatInterrupt, inactivityWarning, spectatorVars,
                   channelVars, crashed>>

(* checkInactivity: the first time it finds no listener it only warns.     *)
InactivityWarns(r) ==
    /\ inactivity[r] = "running"
    /\ Free(r)
    /\ listeners[r] = {}
    /\ ~inactivityWarning[r]
    /\ inactivityWarning' = [inactivityWarning EXCEPT ![r] = TRUE]
    /\ UNCHANGED <<rcMu, relays, runVars, stateVars, closeVars, heartbeat,
                   heartbeatInterrupt, inactivity, inactivityInterrupt,
                   spectatorVars, channelVars, crashed>>

(* Mutant: whether the relay has listeners again is not looked at.         *)
InactivityClosesAnyway(r) ==
    /\ inactivity[r] = "running"
    /\ Free(r)
    /\ inactivityWarning[r]
    /\ socketSet' = [socketSet EXCEPT ![r] = FALSE]
    /\ connected' = [connected EXCEPT ![r] = FALSE]
    /\ listeners' = [listeners EXCEPT ![r] = {}]
    /\ closed' = [closed EXCEPT ![r] = TRUE]
    /\ inactivity' = [inactivity EXCEPT ![r] = "stopped"]
    /\ UNCHANGED <<rcMu, relays, runVars, closeVars, heartbeat,
                   heartbeatInterrupt, inactivityInterrupt, inactivityWarning,
                   spectatorVars, channelVars, crashed>>

InactivityCloses(r) ==
    /\ inactivity[r] = "running"
    /\ Free(r)
    /\ listeners[r] = {}
    /\ inactivityWarning[r]
    /\ socketSet' = [socketSet EXCEPT ![r] = FALSE]
    /\ connected' = [connected EXCEPT ![r] = FALSE]
    /\ listeners' = [listeners EXCEPT ![r] = {}]
    /\ closed' = [closed EXCEPT ![r] = TRUE]
    /\ inactivity' = [inactivity EXCEPT ![r] = "stopped"]
    /\ UNCHANGED <<rcMu, relays, runVars, closeVars, heartbeat,
                   heartbeatInterrupt, inactivityInterrupt, inactivityWarning,
                   spectatorVars, channelVars, crashed>>

-----------------------------------------------------------------------------
(* RelayStream, and then the goroutine that pulls, for a spectator.        *)

Move(s, from, to) == pc[s] = from /\ pc' = [pc EXCEPT ![s] = to]

(* GetRelay.                                                               *)
GetRelay(s) ==
    /\ rcMu = None
    /\ Move(s, "idle", IF relays = None THEN "lookup" ELSE "found")
    /\ relay' = [relay EXCEPT ![s] = relays]
    /\ UNCHANGED <<rcMu, relays, runVars, stateVars, closeVars, timerVars,
                   channelVars, crashed>>

(* A relay that is open is taken without waiting until it is ready.        *)
IsClosed(s) ==
    /\ relay[s] # None
    /\ Free(relay[s])
    /\ Move(s, "found", IF closed[relay[s]] THEN "lookup" ELSE "start")
    /\ UNCHANGED <<rcMu, relays, relay, runVars, stateVars, closeVars, timerVars,
                   channelVars, crashed>>

(* The publish registry, or the configuration, gives a server; or none.    *)
GetPublishingServer(s) ==
    /\ \/ Move(s, "lookup", "create")
       \/ Move(s, "lookup", "done")
    /\ UNCHANGED <<rcMu, relays, relay, runVars, stateVars, closeVars, timerVars,
                   channelVars, crashed>>

GetRelayOrCreate(s) ==
    /\ rcMu = None
    /\ rcMu' = s
    /\ Move(s, "create", "creating")
    /\ UNCHANGED <<relays, relay, runVars, stateVars, closeVars, timerVars,
                   channelVars, crashed>>

GetExisting(s) ==
    /\ relays # None
    /\ Free(relays)
    /\ ~closed[relays]
    /\ Move(s, "creating", "wait")
    /\ relay' = [relay EXCEPT ![s] = relays]
    /\ rcMu' = None
    /\ UNCHANGED <<relays, runVars, stateVars, closeVars, timerVars, channelVars,
                   crashed>>

CreateRelay(s, r) ==
    /\ relays # None => Free(relays) /\ closed[relays]
    /\ run[r] = "off"
    /\ Move(s, "creating", "wait")
    /\ run' = [run EXCEPT ![r] = "dialing"]
    /\ relays' = r
    /\ relay' = [relay EXCEPT ![s] = r]
    /\ rcMu' = None
    /\ UNCHANGED <<expectedBinary, ready, stateVars, closeVars, timerVars,
                   channelVars, crashed>>

(* WaitUntilReady looks at relay.ready, then waits on the wait group.      *)
WaitUntilReady(s) ==
    /\ relay[s] # None
    /\ Free(relay[s])
    /\ Move(s, "wait", IF ready[relay[s]] THEN "start" ELSE "waitGroup")
    /\ UNCHANGED <<rcMu, relays, relay, runVars, stateVars, closeVars, timerVars,
                   channelVars, crashed>>

WaitGroupDone(s) ==
    /\ relay[s] # None
    /\ ready[relay[s]]
    /\ Move(s, "waitGroup", "start")
    /\ UNCHANGED <<rcMu, relays, relay, runVars, stateVars, closeVars, timerVars,
                   channelVars, crashed>>

(* On a closed relay the spectator is sent CLOSE.                          *)
AddListener(s) ==
    /\ relay[s] # None
    /\ Free(relay[s])
    /\ IF closed[relay[s]]
       THEN Move(s, "start", "done") /\ UNCHANGED listeners
       ELSE /\ Move(s, "start", "listening")
            /\ listeners' = [listeners EXCEPT ![relay[s]] = @ \cup {s}]
    /\ UNCHANGED <<rcMu, relays, relay, runVars, socketSet, connected, closed,
                   closeVars, timerVars, channelVars, crashed>>

(* A write to the spectator returns at once, or it has not returned yet:   *)
(* it has no deadline, and the peer may have stopped reading.              *)
Write(s) ==
    \/ blocked' = blocked
    \/ s \in Stallers /\ blocked' = blocked \cup {s}

WriteReturns(s) ==
    /\ s \in blocked
    /\ blocked' = blocked \ {s}
    /\ UNCHANGED <<rcMu, relays, runVars, stateVars, closeVars, timerVars,
                   spectatorVars, fragments, closeEvent, crashed>>

ReceiveFragment(s) ==
    /\ pc[s] = "listening"
    /\ fragments[s] > 0
    /\ fragments' = [fragments EXCEPT ![s] = @ - 1]
    /\ Write(s)
    /\ UNCHANGED <<rcMu, relays, runVars, stateVars, closeVars, timerVars,
                   spectatorVars, closeEvent, crashed>>

ReceiveClose(s) ==
    /\ fragments[s] = 0
    /\ closeEvent[s]
    /\ Move(s, "listening", "leaving")
    /\ closeEvent' = [closeEvent EXCEPT ![s] = FALSE]
    /\ Write(s)
    /\ UNCHANGED <<rcMu, relays, relay, runVars, stateVars, closeVars, timerVars,
                   fragments, crashed>>

(* The connection of the spectator ended, and its interrupt is taken.      *)
ReceiveInterrupt(s) ==
    /\ s \notin blocked
    /\ Move(s, "listening", "leaving")
    /\ UNCHANGED <<rcMu, relays, relay, runVars, stateVars, closeVars, timerVars,
                   channelVars, crashed>>

RemoveListener(s) ==
    /\ relay[s] # None
    /\ Free(relay[s])
    /\ Move(s, "leaving", "done")
    /\ listeners' = [listeners EXCEPT ![relay[s]] = @ \ {s}]
    /\ UNCHANGED <<rcMu, relays, relay, runVars, socketSet, connected, closed,
                   closeVars, timerVars, channelVars, crashed>>

-----------------------------------------------------------------------------
CloseStep(r) ==
    \/ \E s \in Spectators : CloseRange(r, s)
    \/ CloseSend(r)
    \/ CloseEnd(r)

(* Run, but for the messages the other server chooses to send.             *)
RunStep(r) ==
    \/ DialSucceeds(r)
    \/ DialFails(r)
    \/ SendPullMessage(r)
    \/ SendPullMessageFails(r)
    \/ CloseStep(r)
    \/ LeaveCheck(r)
    \/ LeaveClose(r)
    \/ SetReady(r)
    \/ OnCloseBegin(r)
    \/ OnCloseClear(r)
    \/ OnRelayClosed(r)

ReadMessage(r) ==
    \/ ReadOK(r)
    \/ HandleFragmentMetadata(r)
    \/ ReadBinaryMessage(r)
    \/ ReadFails(r)
    \/ HandleClose(r)

TimerStep(r) ==
    \/ HeartbeatStops(r)
    \/ InactivityStops(r)
    \/ InactivityWarns(r)
    \/ InactivityCloses(r)

(* A spectator, but for its leaving.  Inside a write it does nothing else  *)
(* until the write returns.                                                *)
SpectatorStep(s) ==
    /\ s \notin blocked
    /\ \/ IsClosed(s)
       \/ GetPublishingServer(s)
       \/ GetRelayOrCreate(s)
       \/ GetExisting(s)
       \/ \E r \in Relays : CreateRelay(s, r)
       \/ WaitUntilReady(s)
       \/ WaitGroupDone(s)
       \/ AddListener(s)
       \/ ReceiveFragment(s)
       \/ ReceiveClose(s)
       \/ RemoveListener(s)

Next ==
    /\ ~crashed
    /\ \/ \E r \in Relays : RunStep(r) \/ ReadMessage(r) \/ TimerStep(r)
       \/ \E s \in Spectators :
              \/ GetRelay(s)
              \/ SpectatorStep(s)
              \/ WriteReturns(s)
              \/ ReceiveInterrupt(s)

(* Every goroutine goes on, and one that waits for a lock gets it in the   *)
(* end (sync.Mutex hands it to a waiter that starves).  A closed           *)
(* connection is noticed by the read, and the timer of the check of        *)
(* inactivity goes on ticking.  Nothing is asked of the other server: each *)
(* of its messages, a heartbeat too, gives the read of an open connection  *)
(* a new deadline.  Nor of the peers: a write to one need never return.    *)
Fairness ==
    /\ \A r \in Relays :
           /\ SF_vars(~crashed /\ RunStep(r))
           /\ WF_vars(~crashed /\ ~connected[r] /\ ReadFails(r))
           /\ WF_vars(~crashed /\ HeartbeatStops(r))
           /\ WF_vars(~crashed /\ InactivityStops(r))
           /\ SF_vars(~crashed /\ (InactivityWarns(r) \/ InactivityCloses(r)))
    /\ \A s \in Spectators : SF_vars(~crashed /\ SpectatorStep(s))

Spec == Init /\ [][Next]_vars
FairSpec == Spec /\ Fairness

-----------------------------------------------------------------------------
(* Properties.                                                             *)

(* Every variable keeps to its type, and no channel exceeds its capacity.  *)
TypeOK ==
    /\ rcMu \in Spectators \cup {None}
    /\ relays \in Relays \cup {None}
    /\ run \in [Relays -> {"off", "dialing", "connected", "reading", "closing",
                           "leaving", "closeSocket", "setReady", "lastClose",
                           "lastClosing", "clearing", "unregister", "done"}]
    /\ expectedBinary \in [Relays -> BOOLEAN]
    /\ socketSet \in [Relays -> BOOLEAN]
    /\ connected \in [Relays -> BOOLEAN]
    /\ closed \in [Relays -> BOOLEAN]
    /\ ready \in [Relays -> BOOLEAN]
    /\ listeners \in [Relays -> SUBSET Spectators]
    /\ closePending \in [Relays -> SUBSET Spectators]
    /\ closeTarget \in [Relays -> Spectators \cup {None}]
    /\ heartbeat \in [Relays -> {"off", "running", "stopped"}]
    /\ heartbeatInterrupt \in [Relays -> BOOLEAN]
    /\ inactivity \in [Relays -> {"off", "running", "stopped"}]
    /\ inactivityInterrupt \in [Relays -> BOOLEAN]
    /\ inactivityWarning \in [Relays -> BOOLEAN]
    /\ pc \in [Spectators -> {"idle", "found", "lookup", "create", "creating",
                              "wait", "waitGroup", "start", "listening",
                              "leaving", "done"}]
    /\ relay \in [Spectators -> Relays \cup {None}]
    /\ fragments \in [Spectators -> 0 .. FragmentBufferMaxLength]
    /\ closeEvent \in [Spectators -> BOOLEAN]
    /\ blocked \subseteq Spectators
    /\ crashed \in BOOLEAN

(* The stream is pulled from the other server once: a relay that is not    *)
(* closed is the one in the controller's map, however its creation, its    *)
(* failure and the end of an older relay interleave.                       *)
OneOpenRelay ==
    \A r \in Relays : run[r] # "off" /\ ~closed[r] => relays = r

(* Once a relay is closed, by its server or for inactivity, whoever still  *)
(* listens to it finds the close event in its channel.                     *)
NobodyLeftBehind ==
    \A s \in Spectators :
        pc[s] = "listening" /\ closed[relay[s]] => closeEvent[s]

(* Close() of r waits for room in the channel of a spectator that has      *)
(* taken its interrupt and waits for relay.mu.                             *)
WedgedAt(r) ==
    /\ closeTarget[r] # None
    /\ ~HasRoom(closeTarget[r])
    /\ pc[closeTarget[r]] = "leaving"

Wedged == \E r \in Relays : WedgedAt(r)

(* What anybody waits for can still come, unless a relay is wedged: the    *)
(* wait group is done or Run has yet to do so, the holder of the lock of   *)
(* the controller is about to ask the relay, a spectator whose channel is  *)
(* full has not left, and takes from it unless it is inside a write, and a *)
(* closed relay has told its check of inactivity.                          *)
WaitsAreAnswered ==
    /\ \A s \in Spectators :
           pc[s] = "waitGroup" =>
               \/ ready[relay[s]]
               \/ run[relay[s]] \in {"dialing", "connected", "reading", "closing",
                                    "leaving", "closeSocket", "setReady"}
    /\ rcMu # None => pc[rcMu] = "creating"
    /\ \A r \in Relays :
           /\ closeTarget[r] # None /\ ~HasRoom(closeTarget[r]) /\ ~WedgedAt(r)
                  => pc[closeTarget[r]] = "listening"
           /\ closed[r] /\ inactivity[r] = "running" => inactivityInterrupt[r]

(* The bound of the model: a spectator would create one relay more.        *)
OutOfRelays ==
    /\ \E s \in Spectators : pc[s] = "creating"
    /\ \A r \in Relays : run[r] # "off"
    /\ relays # None => closed[relays]

(* No relay is wedged, no panic ends the process, and no peer keeps its    *)
(* connection and stops reading for ever.                                  *)
Healthy ==
    /\ [](~Wedged /\ ~crashed /\ ~OutOfRelays)
    /\ \A s \in Stallers : []<>(s \notin blocked)

(* The other server does not keep the connection of a relay that has       *)
(* listeners alive for ever without an answer to its PULL.                 *)
UpstreamAnswers ==
    \A r \in Relays :
        []<>~(run[r] = "reading" /\ ~ready[r] /\ listeners[r] # {})

(* A spectator that asks for a relay gets one that works, or is told that  *)
(* the stream ended: it does not wait for ever, neither for the locks nor  *)
(* for the relay to be ready.  For the latter the other server must answer *)
(* or let the connection fail, but only where the relay has listeners: one *)
(* that has none gives its waiters up when it is closed for inactivity.    *)
NobodyWaitsForever ==
    Healthy /\ UpstreamAnswers =>
        \A s \in Spectators :
            pc[s] \in {"found", "create", "creating", "wait", "waitGroup", "start"}
                ~> pc[s] \in {"listening", "leaving", "done"}

(* A relay that is closed leaves the map, its goroutine and the check of   *)
(* inactivity end, and its spectators go.                                  *)
ClosedRelayEnds ==
    Healthy =>
        \A r \in Relays :
            closed[r] ~> /\ run[r] = "done"
                         /\ relays # r
                         /\ inactivity[r] # "running"
                         /\ \A s \in Spectators :
                                relay[s] = r => pc[s] # "listening"

(* A relay that nobody listens to any more is closed in the end, and does  *)
(* not pull the stream for ever (server/README.md:152), whatever the other *)
(* server and the spectators of other relays do.                           *)
AbandonedRelayCloses ==
    []~crashed =>
        \A r \in Relays :
            (run[r] # "off" /\ [](listeners[r] = {})) ~> closed[r]

(* Heartbeats are sent until the connection gets closed (the comment at    *)
(* server/relay.go:515).                                                   *)
HeartbeatsEnd ==
    Healthy =>
        \A r \in Relays : closed[r] ~> heartbeat[r] # "running"
=============================================================================
