------------------------------ MODULE HlsSource ------------------------------
(***************************************************************************)
(* One HlsSource (server/source.go) and the goroutines that use it:        *)
(*   - the publisher, which adds fragments;                                *)
(*   - the closers, the goroutines that call Close(): the publisher itself *)
(*     and a later publisher of the same stream, which displaces it;       *)
(*   - one pull goroutine per spectator (server/stream_pull.go), with the  *)
(*     part of its connection handler that tells it to stop.               *)
(*                                                                         *)
(* A critical section of source.mu that cannot block is one action.        *)
(* Close() sends on the listeners' channels while it holds source.mu, and  *)
(* a full channel blocks it there, so it takes several actions and the     *)
(* lock is explicit (mu).                                                  *)
(*                                                                         *)
(* Fragments are the numbers 1, 2, ... of their publication; CLOSE is the  *)
(* close event and the CLOSE message, numbered after every fragment.       *)
(***************************************************************************)
EXTENDS Integers, Sequences, FiniteSets

CONSTANTS
    Spectators,               \* connections that pull from the source
    Leavers,                  \* those whose peer may hang up
    Stallers,                 \* those whose peer may stop reading
    Closers,                  \* goroutines that call Close()
    NoOne,                    \* nobody holds the lock, no listener chosen
    MaxFragments,             \* bound: fragments published
    FragmentBufferMaxLength,  \* config: buffer and channel length
    MaxInitialOptions,        \* values of max_initial_fragments in PULL
    LimiterEnabled            \* the memory limiter may refuse a fragment

ASSUME SourceAssumption ==
    /\ Leavers \subseteq Spectators
    /\ Stallers \subseteq Spectators
    /\ NoOne \notin Spectators \cup Closers
    /\ MaxFragments \in Nat
    /\ FragmentBufferMaxLength \in Nat \ {0}
    /\ MaxInitialOptions \subseteq Int
    /\ LimiterEnabled \in BOOLEAN

VARIABLES
    mu,                 \* the closer that holds source.mu, or NoOne
    closed,             \* source.closed
    listeners,          \* keys of source.listeners
    fragmentBuffer,     \* source.fragmentBuffer
    announceInterrupt,  \* an item waits in announceInterruptChannel
    announcer,          \* the PeriodicallyAnnounce goroutine
    published,          \* fragments accepted so far
    closer,             \* where each closer is in Close()
    closePending,       \* listeners Close() still has to range over
    closeTarget,        \* the listener it is sending the close event to
    channel,            \* the events in each listener's channel
    pull,               \* where each pull goroutine is
    initial,            \* initial fragments it has still to send
    conn,               \* state of the spectator's connection
    written,            \* messages written to the spectator so far
    blocked,            \* spectators whose last write has not returned yet
    crashed,            \* the process has panicked
    joined,             \* history: published, when the listener was added
    dropped             \* history: fragments its full channel refused

lockVars == <<mu, closed, listeners, closer, closePending, closeTarget>>
announceVars == <<announceInterrupt, announcer>>
pullVars == <<pull, initial, conn, written, blocked>>
historyVars == <<joined, dropped>>
vars == <<lockVars, announceVars, fragmentBuffer, published, channel,
          pullVars, crashed, historyVars>>

CLOSE == MaxFragments + 1
Message == 1 .. CLOSE

Init ==
    /\ mu = NoOne
    /\ closed = FALSE
    /\ listeners = {}
    /\ fragmentBuffer = <<>>
    /\ announceInterrupt = FALSE
    /\ announcer = "running"
    /\ published = 0
    /\ closer = [c \in Closers |-> "idle"]
    /\ closePending = {}
    /\ closeTarget = NoOne
    /\ channel = [l \in Spectators |-> <<>>]
    /\ pull = [l \in Spectators |-> "start"]
    /\ initial = [l \in Spectators |-> <<>>]
    /\ conn = [l \in Spectators |-> "open"]
    /\ written = [l \in Spectators |-> <<>>]
    /\ blocked = {}
    /\ crashed = FALSE
    /\ joined = [l \in Spectators |-> 0]
    /\ dropped = [l \in Spectators |-> {}]

-----------------------------------------------------------------------------
(* The publisher.                                                          *)

(* Mutant: one fragment more than the configured length.                   *)
PushFragmentOneMore(buffer, frag) ==
    IF Len(buffer) > FragmentBufferMaxLength
    THEN Append(Tail(buffer), frag)
    ELSE Append(buffer, frag)

(* The buffer after frag is added to it: the oldest one makes room.        *)
PushFragment(buffer, frag) ==
    IF Len(buffer) >= FragmentBufferMaxLength
    THEN Append(Tail(buffer), frag)
    ELSE Append(buffer, frag)

(* The limiter lets the fragment in and AddFragment ignores the shortened  *)
(* buffer it returns; or it refuses the fragment, which happens only after *)
(* the whole buffer was evicted (module MemoryLimiter, RefusedIsEmpty).    *)
BuffersAfter(frag) ==
    {PushFragment(fragmentBuffer, frag)}
        \cup (IF LimiterEnabled THEN {<<>>} ELSE {})

HasRoom(l) == Len(channel[l]) < FragmentBufferMaxLength

(* Mutant: the loop over the listeners gives up when one of them is full.  *)
AddFragmentGivesUp ==
    /\ mu = NoOne
    /\ ~closed
    /\ published < MaxFragments
    /\ published' = published + 1
    /\ fragmentBuffer' \in BuffersAfter(published + 1)
    /\ channel' = [l \in Spectators |->
                      IF l \in listeners /\ \A k \in listeners : HasRoom(k)
                      THEN Append(channel[l], published + 1)
                      ELSE channel[l]]
    /\ dropped' = [l \in Spectators |->
                      IF l \in listeners /\ ~HasRoom(l)
                      THEN dropped[l] \cup {published + 1}
                      ELSE dropped[l]]
    /\ UNCHANGED <<lockVars, announceVars, pullVars, crashed, joined>>

(* Once the source is closed AddFragment returns at once: a fragment of a  *)
(* displaced publisher changes nothing, and is no step of the model.       *)
AddFragment ==
    /\ mu = NoOne
    /\ ~closed
    /\ published < MaxFragments
    /\ published' = published + 1
    /\ fragmentBuffer' \in BuffersAfter(published + 1)
    /\ channel' = [l \in Spectators |->
                      IF l \in listeners /\ HasRoom(l)
                      THEN Append(channel[l], published + 1)
                      ELSE channel[l]]
    /\ dropped' = [l \in Spectators |->
                      IF l \in listeners /\ ~HasRoom(l)
                      THEN dropped[l] \cup {published + 1}
                      ELSE dropped[l]]
    /\ UNCHANGED <<lockVars, announceVars, pullVars, crashed, joined>>

-----------------------------------------------------------------------------
(* Close().                                                                *)

CloseBegin(c) ==
    /\ closer[c] = "idle"
    /\ mu = NoOne
    /\ IF closed
       THEN /\ closer' = [closer EXCEPT ![c] = "done"]
            /\ UNCHANGED <<mu, closePending>>
       ELSE /\ closer' = [closer EXCEPT ![c] = "closing"]
            /\ mu' = c
            /\ closePending' = listeners
    /\ UNCHANGED <<closed, listeners, closeTarget, announceVars, fragmentBuffer,
                   published, channel, pullVars, crashed, historyVars>>

(* The range over the map takes its listeners in any order, and stays with *)
(* one until its channel has taken the close event.                        *)
CloseRange(l) ==
    /\ mu # NoOne
    /\ closeTarget = NoOne
    /\ l \in closePending
    /\ closeTarget' = l
    /\ UNCHANGED <<mu, closed, listeners, closer, closePending, announceVars,
                   fragmentBuffer, published, channel, pullVars, crashed,
                   historyVars>>

(* Mutant: the close event is skipped when the channel is full.            *)
CloseSendNonBlocking ==
    /\ closeTarget # NoOne
    /\ channel' = [channel EXCEPT ![closeTarget] =
                      IF HasRoom(closeTarget) THEN Append(@, CLOSE) ELSE @]
    /\ closePending' = closePending \ {closeTarget}
    /\ closeTarget' = NoOne
    /\ UNCHANGED <<mu, closed, listeners, closer, announceVars, fragmentBuffer,
                   published, pullVars, crashed, historyVars>>

CloseSend ==
    /\ closeTarget # NoOne
    /\ HasRoom(closeTarget)
    /\ channel' = [channel EXCEPT ![closeTarget] = Append(@, CLOSE)]
    /\ closePending' = closePending \ {closeTarget}
    /\ closeTarget' = NoOne
    /\ UNCHANGED <<mu, closed, listeners, closer, announceVars, fragmentBuffer,
                   published, pullVars, crashed, historyVars>>

(* Mutant: the announcing goroutine is not interrupted.                    *)
CloseEndSilently ==
    /\ mu # NoOne
    /\ closePending = {}
    /\ listeners' = {}
    /\ closed' = TRUE
    /\ mu' = NoOne
    /\ closer' = [closer EXCEPT ![mu] = "done"]
    /\ UNCHANGED <<closePending, closeTarget, announceVars, fragmentBuffer,
                   published, channel, pullVars, crashed, historyVars>>

CloseEnd ==
    /\ mu # NoOne
    /\ closePending = {}
    /\ listeners' = {}
    /\ closed' = TRUE
    /\ announceInterrupt' = TRUE
    /\ mu' = NoOne
    /\ closer' = [closer EXCEPT ![mu] = "done"]
    /\ UNCHANGED <<closePending, closeTarget, announcer, fragmentBuffer,
                   published, channel, pullVars, crashed, historyVars>>

(* PeriodicallyAnnounce takes the interrupt and returns.                   *)
AnnounceStop ==
    /\ announcer = "running"
    /\ announceInterrupt
    /\ announceInterrupt' = FALSE
    /\ announcer' = "stopped"
    /\ UNCHANGED <<lockVars, fragmentBuffer, published, channel, pullVars,
                   crashed, historyVars>>

-----------------------------------------------------------------------------
(* The pull goroutine of spectator l.                                      *)

Elements(s) == {s[i] : i \in 1 .. Len(s)}

(* Send, SendWithBinary and SendClose: a message is written only while     *)
(* the connection is open, and errors of the socket are ignored.  A write  *)
(* has no deadline: while the peer does not read, it may not return.       *)
Write(l, m) ==
    /\ written' = [written EXCEPT ![l] = IF conn[l] = "open" THEN Append(@, m)
                                                             ELSE @]
    /\ \/ blocked' = blocked
       \/ l \in Stallers /\ conn[l] = "open" /\ blocked' = blocked \cup {l}

SendFragment(l, frag) == Write(l, frag) /\ UNCHANGED conn

(* SendClose closes the socket after the CLOSE message is written.         *)
HangUp(l) == conn' = [conn EXCEPT ![l] = IF @ = "open" THEN "down" ELSE @]

SendClose(l) ==
    /\ Write(l, CLOSE)
    /\ IF l \in blocked' THEN UNCHANGED conn ELSE HangUp(l)

(* The write that did not return does: the peer reads again, or the socket *)
(* was closed.                                                             *)
WriteReturns(l) ==
    /\ l \in blocked
    /\ blocked' = blocked \ {l}
    /\ IF CLOSE \in Elements(written[l]) THEN HangUp(l) ELSE UNCHANGED conn
    /\ UNCHANGED <<lockVars, announceVars, fragmentBuffer, published, channel,
                   pull, initial, written, crashed, historyVars>>

(* maxInitialFragments, when negative, stands for the whole buffer.        *)
InitialCount(n) == IF n < 0 THEN Len(fragmentBuffer) ELSE n

(* Mutant: a pull from a closed source just returns.                       *)
AddListenerFailsSilently(l) ==
    /\ pull[l] = "start"
    /\ mu = NoOne
    /\ closed
    /\ pull' = [pull EXCEPT ![l] = "done"]
    /\ UNCHANGED <<lockVars, announceVars, fragmentBuffer, published, channel,
                   initial, conn, written, blocked, crashed, historyVars>>

(* AddListener on a closed source: the spectator is sent CLOSE.            *)
AddListenerFails(l) ==
    /\ pull[l] = "start"
    /\ mu = NoOne
    /\ closed
    /\ SendClose(l)
    /\ pull' = [pull EXCEPT ![l] = "done"]
    /\ UNCHANGED <<lockVars, announceVars, fragmentBuffer, published, channel,
                   initial, crashed, historyVars>>

(* AddListener registers the channel and copies the buffer in one critical *)
(* section; PullStream then keeps the last n of the copied fragments.      *)
AddListener(l, n) ==
    /\ pull[l] = "start"
    /\ mu = NoOne
    /\ ~closed
    /\ InitialCount(n) <= Len(fragmentBuffer)
    /\ listeners' = listeners \cup {l}
    /\ channel' = [channel EXCEPT ![l] = <<>>]
    /\ initial' = [initial EXCEPT ![l] =
                      SubSeq(fragmentBuffer,
                             Len(fragmentBuffer) - InitialCount(n) + 1,
                             Len(fragmentBuffer))]
    /\ joined' = [joined EXCEPT ![l] = published]
    /\ pull' = [pull EXCEPT ![l] = "initial"]
    /\ UNCHANGED <<mu, closed, closer, closePending, closeTarget, announceVars,
                   fragmentBuffer, published, conn, written, blocked, crashed,
                   dropped>>

(* With n larger than the number of copied fragments, the loop of          *)
(* PullStream starts at a negative index: the process panics.              *)
PullStreamPanics(l, n) ==
    /\ pull[l] = "start"
    /\ mu = NoOne
    /\ ~closed
    /\ InitialCount(n) > Len(fragmentBuffer)
    /\ crashed' = TRUE
    /\ UNCHANGED <<lockVars, announceVars, fragmentBuffer, published, channel,
                   pullVars, historyVars>>

SendInitial(l) ==
    /\ pull[l] = "initial"
    /\ initial[l] # <<>>
    /\ SendFragment(l, Head(initial[l]))
    /\ initial' = [initial EXCEPT ![l] = Tail(@)]
    /\ UNCHANGED <<lockVars, announceVars, fragmentBuffer, published, channel,
                   pull, crashed, historyVars>>

InitialSent(l) ==
    /\ pull[l] = "initial"
    /\ initial[l] = <<>>
    /\ pull' = [pull EXCEPT ![l] = "select"]
    /\ UNCHANGED <<lockVars, announceVars, fragmentBuffer, published, channel,
                   initial, conn, written, blocked, crashed, historyVars>>

(* Mutant: live fragments are sent while initial ones remain.              *)
ReceiveFragmentEarly(l) ==
    /\ pull[l] \in {"initial", "select"}
    /\ channel[l] # <<>>
    /\ Head(channel[l]) # CLOSE
    /\ channel' = [channel EXCEPT ![l] = Tail(@)]
    /\ SendFragment(l, Head(channel[l]))
    /\ UNCHANGED <<lockVars, announceVars, fragmentBuffer, published, pull,
                   initial, crashed, historyVars>>

ReceiveFragment(l) ==
    /\ pull[l] = "select"
    /\ channel[l] # <<>>
    /\ Head(channel[l]) # CLOSE
    /\ channel' = [channel EXCEPT ![l] = Tail(@)]
    /\ SendFragment(l, Head(channel[l]))
    /\ UNCHANGED <<lockVars, announceVars, fragmentBuffer, published, pull,
                   initial, crashed, historyVars>>

ReceiveClose(l) ==
    /\ pull[l] = "select"
    /\ channel[l] # <<>>
    /\ Head(channel[l]) = CLOSE
    /\ channel' = [channel EXCEPT ![l] = Tail(@)]
    /\ SendClose(l)
    /\ pull' = [pull EXCEPT ![l] = "leaving"]
    /\ UNCHANGED <<lockVars, announceVars, fragmentBuffer, published, initial,
                   crashed, historyVars>>

(* Mutant: the interrupt ends the goroutine past the deferred call.        *)
ReceiveInterruptNoDefer(l) ==
    /\ pull[l] = "select"
    /\ conn[l] = "interrupted"
    /\ pull' = [pull EXCEPT ![l] = "done"]
    /\ UNCHANGED <<lockVars, announceVars, fragmentBuffer, published, channel,
                   initial, conn, written, blocked, crashed, historyVars>>

(* The other case of the select: a waiting interrupt may be taken even     *)
(* when events wait too.                                                   *)
ReceiveInterrupt(l) ==
    /\ pull[l] = "select"
    /\ conn[l] = "interrupted"
    /\ pull' = [pull EXCEPT ![l] = "leaving"]
    /\ UNCHANGED <<lockVars, announceVars, fragmentBuffer, published, channel,
                   initial, conn, written, blocked, crashed, historyVars>>

(* The deferred RemoveListener (on a closed source its map is nil).        *)
RemoveListener(l) ==
    /\ pull[l] = "leaving"
    /\ mu = NoOne
    /\ listeners' = listeners \ {l}
    /\ pull' = [pull EXCEPT ![l] = "done"]
    /\ UNCHANGED <<mu, closed, closer, closePending, closeTarget, announceVars,
                   fragmentBuffer, published, channel, initial, conn, written,
                   blocked, crashed, historyVars>>

-----------------------------------------------------------------------------
(* The connection handler of spectator l.                                  *)

(* The peer hangs up, or its messages stop for too long: the read fails.   *)
Disconnect(l) ==
    /\ l \in Leavers
    /\ conn[l] = "open"
    /\ conn' = [conn EXCEPT ![l] = "down"]
    /\ UNCHANGED <<lockVars, announceVars, fragmentBuffer, published, channel,
                   pull, initial, written, blocked, crashed, historyVars>>

(* onClose takes the connection's mutex, which a write holds until it      *)
(* returns, to set ch.closed; then it sends on pullingInterruptChannel,    *)
(* whose one slot is free: nothing else sends on it.                       *)
OnClose(l) ==
    /\ \/ /\ conn[l] = "down" /\ l \notin blocked
          /\ conn' = [conn EXCEPT ![l] = "closed"]
       \/ conn[l] = "closed" /\ conn' = [conn EXCEPT ![l] = "interrupted"]
    /\ UNCHANGED <<lockVars, announceVars, fragmentBuffer, published, channel,
                   pull, initial, written, blocked, crashed, historyVars>>

-----------------------------------------------------------------------------
CloseStep ==
    \/ \E l \in Spectators : CloseRange(l)
    \/ CloseSend
    \/ CloseEnd

(* A goroutine inside a write does nothing else until the write returns.   *)
PullStep(l) ==
    /\ l \notin blocked
    /\ \/ AddListenerFails(l)
       \/ \E n \in MaxInitialOptions :
              AddListener(l, n) \/ PullStreamPanics(l, n)
       \/ SendInitial(l)
       \/ InitialSent(l)
       \/ ReceiveFragment(l)
       \/ ReceiveClose(l)
       \/ ReceiveInterrupt(l)
       \/ RemoveListener(l)

Next ==
    /\ ~crashed
    /\ \/ AddFragment
       \/ \E c \in Closers : CloseBegin(c)
       \/ CloseStep
       \/ AnnounceStop
       \/ \E l \in Spectators :
              PullStep(l) \/ WriteReturns(l) \/ Disconnect(l) \/ OnClose(l)

(* Every goroutine that can run does; a goroutine that waits for source.mu *)
(* gets it in the end, however often it is taken by others (sync.Mutex     *)
(* hands it to a waiter that starves).  A write on a connection that went  *)
(* down fails (Run closes the socket), but one on an open connection need  *)
(* never return.  Whether the publisher publishes or closes, and whether a *)
(* peer hangs up, is left open too.                                        *)
Fairness ==
    /\ WF_vars(~crashed /\ CloseStep)
    /\ WF_vars(~crashed /\ AnnounceStop)
    /\ \A l \in Spectators :
           /\ SF_vars(~crashed /\ PullStep(l))
           /\ WF_vars(~crashed /\ OnClose(l))
           /\ WF_vars(~crashed /\ conn[l] # "open" /\ WriteReturns(l))

Spec == Init /\ [][Next]_vars
FairSpec == Spec /\ Fairness

-----------------------------------------------------------------------------
(* Properties.                                                             *)

(* Every variable keeps to its type, and no channel exceeds its capacity.  *)
TypeOK ==
    /\ mu \in Closers \cup {NoOne}
    /\ closed \in BOOLEAN
    /\ listeners \subseteq Spectators
    /\ fragmentBuffer \in Seq(1 .. MaxFragments)
    /\ announceInterrupt \in BOOLEAN
    /\ announcer \in {"running", "stopped"}
    /\ published \in 0 .. MaxFragments
    /\ closer \in [Closers -> {"idle", "closing", "done"}]
    /\ closePending \subseteq Spectators
    /\ closeTarget \in Spectators \cup {NoOne}
    /\ channel \in [Spectators -> Seq(Message)]
    /\ \A l \in Spectators : Len(channel[l]) <= FragmentBufferMaxLength
    /\ pull \in [Spectators ->
                    {"start", "initial", "select", "leaving", "done"}]
    /\ initial \in [Spectators -> Seq(1 .. MaxFragments)]
    /\ conn \in [Spectators -> {"open", "down", "closed", "interrupted"}]
    /\ written \in [Spectators -> Seq(Message)]
    /\ blocked \subseteq Spectators
    /\ crashed \in BOOLEAN
    /\ joined \in [Spectators -> 0 .. MaxFragments]
    /\ dropped \in [Spectators -> SUBSET (1 .. MaxFragments)]

Increasing(s) == \A i, j \in 1 .. Len(s) : i < j => s[i] < s[j]

(* A spectator receives each fragment at most once and in the order of     *)
(* publication, the initial ones before the live ones; nothing follows     *)
(* CLOSE (PullStream sends the initial fragments outside source.mu, while  *)
(* AddFragment already fills the channel).                                 *)
FragmentsInOrder == \A l \in Spectators : Increasing(written[l])

(* What was published after the spectator joined, and that its pull        *)
(* goroutine has neither sent nor still has to send, was refused by its    *)
(* full channel: no fragment falls between the copy of the buffer that     *)
(* AddListener takes and the first event of the channel, and none is lost  *)
(* otherwise.                                                              *)
NoSilentLoss ==
    \A l \in listeners :
        conn[l] = "open" /\ pull[l] # "leaving" =>
            joined[l] + 1 .. published \subseteq
                Elements(written[l]) \cup Elements(channel[l]) \cup dropped[l]

(* The buffer holds the latest fragments, without a gap, and at most       *)
(* FragmentBufferMaxLength of them, also after the limiter emptied it:     *)
(* a late spectator starts with the newest part of the stream.             *)
BufferIsRecent ==
    /\ Len(fragmentBuffer) <= FragmentBufferMaxLength
    /\ \A i \in 1 .. Len(fragmentBuffer) :
           fragmentBuffer[i] = published - Len(fragmentBuffer) + i

(* Once Close() has let the lock go, whoever pulls from the source without *)
(* having been told so finds the CLOSE event in its channel, and nobody    *)
(* who registers can have missed it: no listener is left behind by the     *)
(* range of Close() over the map.                                          *)
NobodyLeftBehind ==
    closed =>
        /\ listeners = {}
        /\ \A l \in Spectators :
               pull[l] \in {"initial", "select"} => CLOSE \in Elements(channel[l])

(* The source implements the delivery promised to the spectators.          *)
Delivery ==
    INSTANCE FragmentDelivery WITH ended <- closed \/ mu # NoOne,
                                   received <- written
ImplementsDelivery == Delivery!Spec

(***************************************************************************)
(* The inductive strengthening that module HlsSourceProofs uses.           *)
(***************************************************************************)
Ended == closed \/ mu # NoOne

Precedes(s, t) == \A i \in 1 .. Len(s), j \in 1 .. Len(t) : s[i] < t[j]

(* CLOSE is in the sequence s of spectator l only once Close() has passed  *)
(* by l.                                                                   *)
Bounded(s, l) ==
    \A i \in 1 .. Len(s) :
        s[i] <= published \/ (s[i] = CLOSE /\ Ended /\ l \notin closePending)

LockInv ==
    /\ mu # NoOne => ~closed
    /\ mu = NoOne => closePending = {}
    /\ closePending \subseteq listeners
    /\ closeTarget # NoOne => closeTarget \in closePending
    /\ closed => listeners = {}

PullInv ==
    \A l \in Spectators :
        /\ l \in listeners => pull[l] \in {"initial", "select", "leaving"}
        /\ pull[l] \in {"initial", "select"} =>
               l \in listeners \/ closed
        /\ pull[l] = "start" => written[l] = <<>> /\ channel[l] = <<>>
        /\ pull[l] # "initial" => initial[l] = <<>>

CloseInv ==
    \A l \in Spectators :
        pull[l] \in {"initial", "select"} /\ Ended /\ l \notin closePending =>
            CLOSE \in Elements(channel[l])

Order(l) ==
    /\ Increasing(written[l])
    /\ Increasing(initial[l])
    /\ Increasing(channel[l])
    /\ Precedes(written[l], initial[l])
    /\ Precedes(written[l], channel[l])
    /\ Precedes(initial[l], channel[l])
    /\ Bounded(written[l], l)
    /\ Bounded(channel[l], l)
    /\ \A i \in 1 .. Len(initial[l]) : initial[l][i] <= published

OrderInv == \A l \in Spectators : Order(l)

IInv ==
    TypeOK /\ LockInv /\ PullInv /\ CloseInv /\ OrderInv /\ BufferIsRecent

(* Liveness.                                                               *)

(* Close() holds source.mu and waits for room in the channel of a          *)
(* spectator whose goroutine has taken its interrupt and waits for         *)
(* source.mu to remove its listener: neither can go on.                    *)
Wedged ==
    /\ closeTarget # NoOne
    /\ ~HasRoom(closeTarget)
    /\ pull[closeTarget] = "leaving"

(* What a Close() that waits, waits for: a goroutine whose peer hung up    *)
(* and that took its interrupt first (that is Wedged, and nobody who stays *)
(* brings it about); or one inside a write to a peer that does not read;   *)
(* or one that needs no lock to make room in its channel.                  *)
CloseWaitsFor ==
    closeTarget # NoOne /\ ~HasRoom(closeTarget) =>
        \/ Wedged /\ closeTarget \in Leavers /\ conn[closeTarget] # "open"
        \/ /\ pull[closeTarget] \in {"initial", "select"}
           /\ closeTarget \in blocked => closeTarget \in Stallers

GotClose(l) == CLOSE \in Elements(written[l]) /\ l \notin blocked

(* Whoever pulls from a source that is being closed and stays connected is *)
(* sent CLOSE (documentation/websocket-protocol.md, line 146).             *)
CloseReachesAll ==
    \A l \in Spectators \ Leavers : Ended ~> GotClose(l)

(* Neither that deadlock nor a panic stops the source.                     *)
Works == ~Wedged /\ ~crashed

(* No peer keeps its connection and stops reading for ever.                *)
WritesReturn == \A l \in Stallers : []<>(l \notin blocked)

(* The deadlock of Wedged, a panic, and a peer that keeps its connection   *)
(* and reads no more are the only things that can keep CLOSE from a        *)
(* spectator that stays connected.                                         *)
CloseReachesAllUnlessWedged == []Works /\ WritesReturn => CloseReachesAll

(* But for the same three, a source that closes lets all its goroutines    *)
(* go: Close() returns, the pull goroutines end, and the announcer stops.  *)
EverybodyStopsUnlessWedged ==
    []Works /\ WritesReturn =>
        (Ended ~> /\ \A c \in Closers : closer[c] # "closing"
                  /\ \A l \in Spectators : pull[l] = "done"
                  /\ blocked = {}
                  /\ announcer = "stopped")

(* A spectator that hangs up does not keep its goroutine, nor its place    *)
(* among the listeners, unless Close() is wedged or waits for a peer that  *)
(* reads no more (its own write fails: its socket is closed).              *)
HangUpReleasesUnlessWedged ==
    []Works /\ WritesReturn =>
        \A l \in Spectators :
            conn[l] = "down" ~> pull[l] = "done" /\ l \notin listeners
=============================================================================
