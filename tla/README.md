# Verification of hls-websocket-cdn

TLA+ models of the server of hls-websocket-cdn, of its publisher library and of
the tester's publisher, the TLC runs that check them on small instances, and
theorems about them that TLAPS checks for every value of the constants.
Everything is translated from the Go sources under `server/`, `client-publisher/`
and `tester/`; paths below are relative to the repository.

Run a model with `tlc -workers 2 -config <run>.cfg <module>` and the proofs
with `tlapm <module>Proofs.tla`.

## 1. The system

A publisher connects to a server over a websocket, sends `PUSH` and then the
fragments of an HLS stream.  Spectators connect to any server, send `PULL`, and
receive the buffered fragments, then the live ones, then `CLOSE`.  A server
without the stream relays it from another one, which it finds in a registry
(Redis) or in its configuration.

| Component | State it keeps | Operations | Talks to |
| --- | --- | --- | --- |
| HTTP server (`server/http_server.go`) | connection ids | `ServeHTTP`: count, upgrade, start a handler | rate limiter, handlers |
| Rate limiter (`server/rate_limit.go`) | connections and request counters per address | `StartConnection`, `EndConnection`, `CountRequest` | called by the HTTP server and the handlers |
| Connection handler (`server/connection.go`) | mode, stream, source to push, interrupt channels | one goroutine: read, handle, reply; heartbeats; `onClose` | registry of sources, relay controller, pull goroutine |
| Registry of sources (`server/sources_controller.go`) | stream id -> source | `CreateSource` (displaces the old one), `GetSource`, `RemoveSource` | sources |
| HLS source (`server/source.go`) | listeners with their channels, fragment buffer, closed | `AddListener`, `RemoveListener`, `AddFragment`, `Close`, announcing | memory limiter, publish registry |
| Pull goroutine (`server/stream_pull.go`) | initial fragments still to send | `PullStream`: initial fragments, then events until `CLOSE` or the interrupt | source or relay, socket of the spectator |
| Relay (`server/relay.go`) | as a source, plus its client socket and readiness | `Run`, `Close`, `WaitUntilReady`, check of inactivity, heartbeats | another server, memory limiter |
| Relay controller (`server/relay_controller.go`) | stream id -> relay | `RelayStream`, `GetRelayOrCreate`, `OnRelayClosed` | relays, publish registry |
| Memory limiter (`server/memory_limiter.go`) | bytes counted | `CheckBeforeAddingFragment`, `OnBufferRelease` | called by sources and relays |
| Publish registry (`server/publish_registry*.go`) | stream id -> url, expiring | announce, look up | Redis |
| Authentication, messages, set-up (`auth.go`, `message.go`, `main.go`, `external_url.go`) | none | token check, text encoding, configuration | |
| Publisher library (`client-publisher/`) | socket, ready, closed, queue of fragments | `run` with reconnection, heartbeats, `SendFragment`, `Close` | the handler of a server |
| JavaScript client (`client-js/`) | socket, timers, media buffers | `connect`, `reconnect`, `close`, playback | a server, the browser |
| Tester, publisher (`tester/publisher.go`, `hls.go`) | what was uploaded, what was listed, the count, the live playlist | handlers of FFmpeg's requests | FFmpeg, publisher library |
| Tester, spectator and command line (`tester/spectator.go`, `args.go`) | none | a local page with the player, arguments | the browser |

What is hard, and what makes each part correct:

- **Source.**  One goroutine adds fragments, any number pull, two may close,
  all through `source.mu`; but the initial fragments are sent outside of it and
  `Close()` blocks inside of it, at a full channel whose reader may itself be in
  a write to its peer, which has no deadline.  Correct: order, no unexplained
  loss, everyone is told of the end, all goroutines end.
- **Handlers and registry.**  A second publisher takes a stream over while the
  first ends on its own.  Correct: the entry of the newer one survives, no open
  source is unreachable, a connection gives back all that it took, replies come
  in order although three goroutines write to one socket: the handler, the pull
  goroutine and the heartbeats.
- **Relay.**  Three goroutines of the relay, its controller and the spectators
  meet at creation, failure, end and inactivity.  Correct: one open relay per
  stream, nobody waits for what cannot come, nobody listens to a closed relay.
- **Memory limiter.**  Shared by all streams, each under a lock of its own.
- **Request limit.**  Counters are decremented lazily, and deleted by a cleanup.
- **Publisher library.**  The goroutine that connects, the heartbeats and the
  application meet at every loss of a connection and at `Close()`, and the server
  reads an old connection to its end after a new one was made.  Correct: each
  connection carries what the server accepts, the stream gets the fragments in
  order and once, `Close()` ends everything.
- **Tester.**  Uploads and playlists have goroutines of their own and arrive in any
  order, or not at all.  Correct: fragments go out in order, without a gap, once.
- **Several servers.**  Registry entries expire, are stale and are overwritten;
  relays hang on each other.  Correct: an open source is found, no relay waits for
  itself, abandoned relays close, the registry follows the stream.

`PROJECT.json` lists the components and, under `hazards`, every place that is
hard to test, with the properties that watch it.

## 2. Modules

| Module | Models | Depends on |
| --- | --- | --- |
| `FragmentDelivery` | abstract: what whoever a stream is delivered to is promised | |
| `StreamOwnership` | abstract: who owns a stream, and which source a spectator is given | |
| `TokenBucket` | abstract: how many requests an address gets | |
| `HlsSource` | `source.go`, `stream_pull.go` | instantiates `FragmentDelivery` |
| `Connections` | `connection.go`, `sources_controller.go`, connections of `http_server.go` and `rate_limit.go` | instantiates `StreamOwnership` |
| `Relay` | `relay.go`, `relay_controller.go`, one server | |
| `Cluster` | several servers: `RelayStream`, `HandlePull`, the announcer, `publish_registry*.go` | |
| `PublisherClient` | `client-publisher/client.go`, with the handler at the other end | instantiates `FragmentDelivery` |
| `TesterPublisher` | `tester/publisher.go`, `tester/hls.go` | instantiates `FragmentDelivery` |
| `MemoryLimiter` | `memory_limiter.go` with the buffers of sources and relays | |
| `RateLimiter` | requests of `rate_limit.go` | instantiates `TokenBucket` |
| `MC*` | small instances for TLC | the module of that name |
| `*Proofs` | theorems | the module of that name, TLAPS |

Definitions whose comment starts with `Mutant:` are not part of the models: each
is a definition of the model with a plausible mistake in it, and the run named
with it in `PROJECT.json` fails when it takes the place of the right one.

### HlsSource

An action is a critical section of `source.mu`, or a step of a goroutine between
two of them.  `Close()` takes several: it keeps the lock (`mu`) and goes through
the listeners in any order (`CloseRange`), waiting at each until its channel has
room (`CloseSend`).  The pull goroutine is `AddListener` or `AddListenerFails`,
`SendInitial`, then the `select` of `PullStream` (`ReceiveFragment`,
`ReceiveClose`, `ReceiveInterrupt`) and the deferred `RemoveListener`.  The
handler of the spectator is `Disconnect` and `OnClose`: the interrupt is an item
in a channel of one place.  A write has no deadline: that to a member of
`Stallers` may not return (`blocked`) until the peer reads again or the
connection ends (`WriteReturns`).  Meanwhile its goroutine does nothing else, its
channel fills, and its handler cannot pass the mutex of the connection in
`onClose`, which the write holds.  What the peer got is `written`, which counts a
message as soon as its write begins.  A fragment is the number of its publication.  The
limiter may refuse a fragment, which empties the buffer: that is
`RefusedIsEmpty` of `MemoryLimiter`, proved there.  `joined` and `dropped` are
history variables of `NoSilentLoss`.  Whoever calls `Close()` is a member of
`Closers`: the publisher, and the one that displaces it.

### Connections

`pc` is the place of a handler's goroutine: reading, inside `HandlePush`
(`creating`, between the registry's lock and the return of the displaced source's
`Close()`), inside `HandlePull` (`relaying`, and `empty` between the OK and the
CLOSE of a stream that was not found), inside `HandleClose`, and the steps of the
end of `Run`.  `Close()` of a source is `CloseBegins`, by whichever of the three
callers is there first, and `CloseEnds`; the source is in `closing` in between,
perhaps for ever.  Its callers (`PushAccepted`, `HandleCloseEnd`, `OnClosePush`)
go on only when it has returned.  A message that is not allowed or not valid is `RefuseMessage`.  The
source is reduced to open or closed, since `HlsSource` models its inside, and a
relay to something that may close at any time.  `outbox` is what was written to
the peer, by three goroutines: `HandlePull` writes OK before it starts the one that
writes fragments, and the third writes heartbeats (`SendHeartbeat`) whenever its
timer fires, before OK too, and after the CLOSE of an empty stream.  A publisher has one source, named like the connection.  `owner`,
`standing` and `pullFrom` map the registry to `StreamOwnership`: the owner of a
stream is the source of its entry as long as it is open, so that an entry of a
closed source owns nothing, and neither does an open source without an entry.

### Relay

`run` is the place of the goroutine `Run`, with its deferred function.  That
function reads `relay.socket` twice without the lock (`LeaveCheck`, `LeaveClose`)
while the check of inactivity may set it to nil in between, in which case the
process panics (`crashed`).  `closing` and `lastClosing` mean that `Close()` holds
`relay.mu`; every other step that needs the lock has the guard `Free`.  A
spectator is `RelayStream` (the fast path `found`, the look-up, the creation
under the controller's lock `rcMu`, the two steps of `WaitUntilReady`) and then
the pull goroutine, reduced to how many fragments its channel holds.  `blocked` is
as in `HlsSource`.  A relay that reads may do so for ever: each message of the
other server, a heartbeat too, gives the read a new deadline, so that only a
connection that is no longer open is sure to fail.

### MemoryLimiter and RateLimiter

Each iteration of the limiter's loops is a step; a fragment is its size.  In
`RateLimiter` time is the Unix second that `CountRequest` reads, and
`acceptedBefore` records how many requests were accepted before each second, so
that a property can speak of every interval.  `tokens` maps a counter to
`TokenBucket`: what an entry lacks to the limit once it is updated, and all of it
for an address without an entry.

### PublisherClient

`run` is the place of the goroutine `run()`: `Check` of `IsClosed`, `Dial`,
`SignToken` after the second check, `SendPush` (without the lock, and without
looking whether `Close()` came since), `OnConnected`, then the loop of `ReadLoop`, `ReadOK`
with `OnReady`, and `ReadFails` with `OnDisconnected`.  Every method that takes the
lock is one action.  A connection is a queue of messages (`up`) and the OK on its
way back.  It may break at any time (`Break`): nothing written later arrives, what
was written before may still be read, so that a server may be busy with an old
connection when the next one is there.  What is written to a connection that is
gone is lost without anyone noticing, as the result of `WriteMessage` is not looked
at.  `server` is the handler at the other end, and `current` the source of the
stream, with the displacement of `CreateSource` and the rule of `RemoveSource`.
A handler that was sent PUSH is `creating` while `CreateSource` closes the
displaced source (`PushAccepted` is its end), and one that ends is in `leaving`
until its own source is closed and removed (`RemoveSource`); either may take for
ever, and while any does (`Closing`) the handlers of the stream may wait for its
mutex and read nothing.  `Restart` is a restart of the server: it frees them all.
`latest` and `overtaken` are history variables: a PUSH that is read after that of a
later connection takes the stream over, and then the publisher is ready but its
fragments go nowhere.  The two frames of a fragment are one message.

### TesterPublisher

FFmpeg writes segment after segment, each with a playlist; every request is on the
way (`uploads`, `lists`) until its handler gets the lock, in any order, or fails to
read its body.  `UpdateHLS` is the first half of `updateHLSInternal`, which counts;
its loop is one `SendFragment` per round, under the lock (`Free`), since the
publisher library may be closed between two rounds (`FFmpegEnds`).

### Cluster

A puller is a spectator or the relay of a server, which pulls from another server
as a spectator does.  `phase` is where its PULL is: asked, answered by a source or a
relay, or a handler in `RelayStream` that has found a URL (`found`) or waits for the
relay to be ready (`waiting`).  `GetPublishingServer` is the look-up, which may fail
and then leaves the configured `RelayFromUrl`; relays found in the registry are
asked with `only_source`.  The inside of sources and relays is in `HlsSource` and
`Relay`: here a source that closes tells its listeners at once, one that leaves is
forgotten at once, and a spectator that gets CLOSE hangs up.  The announcer of a
source is `timer`; one that is due when the source closes may announce once more
(`late`).  Time is in units of the interval's clock: an announcement comes no later
than `AnnounceDelay` after it is due.  A crash keeps the registry and nothing else.

## 3. Runs

| Run | What it asks | Bounds |
| --- | --- | --- |
| `source` | order, losses, buffer, nobody left behind, refinement of `FragmentDelivery`; `CLOSE` arrives, goroutines end, a hang-up releases | 2 spectators, one may leave, the other may stop reading, 2 closers, 2 fragments, channels and buffer of 1, with the limiter |
| `source_hangup_full` | the deadlock of `Close()` (found) | 2 spectators, one may leave, all read, 1 fragment |
| `connections` | registry, counts, replies, release, refinement of `StreamOwnership` | 2 connections that may push, 1 of them may pull and lasts until a heartbeat, 1 stream, 1 fragment each |
| `limiter` | the limiter's own count, refusal | 2 sources, 1 relay, limit 5, buffers of 2, 3 fragments each |
| `limiter_held` | what the buffers hold (found to exceed the limit) | the same |
| `ratelimit` | rate in every interval, no undue refusal, refinement of `TokenBucket` | 2 addresses, rate 2, burst 3, 4 seconds, cleanup every 2 |
| `relay` | one open relay, nobody left behind | 2 relays, 2 spectators that may stop reading, channels of 1 |
| `relay_liveness` | nobody waits for ever, relays end | 1 relay, 2 spectators, one may stop reading |
| `relay_heartbeat` | the heartbeat goroutine that never ends (found) | 1 relay, 1 spectator |
| `publisher` | queue, order of messages, gaps, the stream's publisher, refinement of `FragmentDelivery`; the end after `Close()`, readiness | 2 connections, 4 fragments, queue of 2, 1 heartbeat |
| `tester` | order, nothing held back, live playlist; everything is sent | 4 segments, the second empty, playlist of 2 |
| `cluster` | registry entries, relays that wait for or feed each other, or feed along a chain nobody configured, the registry follows the stream | 2 servers that take publishers and relay from each other, 1 spectator, interval 1, no delay |

The bounds are enough for the cases that matter.  Two fragments and a channel of
one fill a channel and make a buffer of one drop its oldest.  Two
spectators are needed for one to be told and the other not; two closers for a
displaced publisher that ends by itself.  The one that stays is the one that may
stop reading, so that `Close()` meets a slow reader and a lost one together.  In
`connections` two connections are two publishers, or a publisher and a spectator,
the second with a heartbeat at any moment, before OK and after CLOSE; a spectator
that joins while one publisher displaces
another needs a third, with which the state space is too large, and is covered by
the proofs of the same properties, which know no bound.  In the limiter one fragment is
more than half of the limit, so that evictions, admissions after eviction and
refusals all occur.  `MaxTime` of 4 covers two cleanups and the complete refill
of a burst.  In `relay_liveness` a spectator may find the one relay closed and
want another: the behaviours in which it does are left out (`OutOfRelays`, part
of `Healthy`), and creation after a failure is covered by `relay` with two.
In `publisher` two connections are a lost one and its successor, with the server
still reading the first; four fragments overfill the queue of two and leave
live ones on both sides; the last connection lasts (`Break`, `ServerFails` and
`Restart` spare it), as otherwise nothing could be promised.  In `tester` four segments leave a
playlist of two twice.  In `cluster` two servers are the smallest ring, and both
take publishers, so that the stream moves between them and back; an announcement
may still be lost, or come after the stream has moved.
The invariants of all passing runs are also proved for all bounds, and so is the
type invariant of every module, which no run repeats.

Deadlock is checked in `cluster`, where time always goes on.  The other systems may
stop, when all the connections are gone or the bound on fragments, segments, time
or connections is reached.

### What was found

1. `source_hangup_full`: a spectator whose channel is full hangs up while the
   publisher closes the stream.  `Close()` holds `source.mu` and waits for room;
   the only reader waits for `source.mu` to remove its listener.  Both stay, the
   other spectators get no `CLOSE`, a new publisher of the stream hangs in
   `CreateSource`, and the old one in `onClose`, before it gives back its place in
   the map and in the count.  The same code is in `relay.go`, where `GetRelayOrCreate` keeps
   the controller's lock meanwhile.
2. `limiter_held`: `AddFragment` appends to the buffer it had, not to the one the
   limiter returned, so evicted fragments are subtracted and still held.
3. `relay_heartbeat`: `checkInactivity` gives the heartbeat goroutine no interrupt.

The liveness properties that pass state how far the damage of the first goes.
Each has its premises in its own definition, next to what it promises:

| Premise | Of | Leaves out |
| --- | --- | --- |
| `[]Works` | the three of `HlsSource` | the deadlock above, and the panic below |
| `WritesReturn` | the three of `HlsSource` | a spectator that stays connected and never reads again |
| `Healthy` | `NobodyWaitsForever`, `ClosedRelayEnds` | the same three, and the bound `OutOfRelays` |
| no panic | `AbandonedRelayCloses` | the panic of `LeaveClose`, of any relay of the server |
| `UpstreamAnswers` | `NobodyWaitsForever` | another server that keeps the connection of a relay with listeners alive and never answers its `PULL` |
| `CloseReturns` | `LeavingReleases`, `StreamEnds`, `EventuallyReady` | a `Close()` of a source that never returns, for whichever of those reasons |
| `EndsUnanswered` excluded, no `Ring` | `AbandonedRelaysClose` | dials that fail again and again, and rings of `RelayFromUrl` |
| `Missed` excluded | `EverythingIsSent` | the segments after one that is missed |

The first two, `UpstreamAnswers`, `CloseReturns` and both of `AbandonedRelaysClose`
are necessary: without any one of them TLC finds the property violated.  `CloseEnds`
and `RegistryFollows` have no premise beyond the situation they speak of.

Also in the models, without a run of their own:

- `max_initial_fragments` above the number of buffered fragments makes
  `PullStream` index the slice at a negative position (`server/stream_pull.go:41`;
  `PullStreamPanics` in `HlsSource`).
- A take-over sends `CLOSE` to the spectators of the old source though the stream
  goes on (`server/sources_controller.go:90`, `CreateSource` in `Connections`).
- A spectator that stays connected, goes on sending heartbeats and stops reading
  stops its source: a write has no deadline (`server/connection.go:316`), the pull
  goroutine stays in it, the channel fills, and `Close()` waits for room with
  `source.mu` (`server/source.go:179`).  Nobody has hung up, so this is not the
  deadlock above, and it resolves when the peer reads again or leaves (`blocked`,
  `WritesReturn`).
- Heartbeats of the other server keep a relay waiting that got no answer to its
  `PULL`: every message gives the read a new deadline (`server/relay.go:397`).  Such
  a server is not far: its own handler may wait in `RelayStream`, or at a wedged
  relay (`WedgeKeepsLock`), while its heartbeats go on (`UpstreamAnswers`).
- A heartbeat may come before OK, and after the CLOSE of a stream that was not found
  (`server/connection.go:443`), which is written before the socket is closed
  (`RepliesInOrder`).
- Servers that relay from each other along `RelayFromUrl` may form a ring that feeds
  only from itself.  Each relay has a listener, so none is ever inactive, and the
  servers do not look for the stream again (`Ring` in `Cluster`, the premise of
  `AbandonedRelaysClose`; `server/relay_controller.go:155`).
- When `Close()` meets a dial that has just succeeded, nobody closes the
  connection.  The server ends it at its read deadline, which `StreamEnds` needs
  (`client-publisher/client.go:243`).
- A PUSH of a lost connection that is read late takes the stream away from the
  publisher's present connection, which goes on as if it were ready (`overtaken`).
- One segment that is missed stops the tester's stream for good, while the data of
  all later segments is kept (`Missed` in `TesterPublisher`).

### Fairness

A goroutine that can run does, in the end: each has weak fairness, or strong
fairness where it waits for a lock that others take again and again, which
`sync.Mutex` justifies by handing the lock to a waiter that starves.  `CloseStep`
needs weak fairness only, as it holds the lock.  A channel with an item and a
waiting receiver is such a step; in a `select` with two ready cases either may be
taken, so `ReceiveFragment`, `ReceiveClose` and `ReceiveInterrupt` are one
disjunction.  A read from a closed socket fails, and so does a write; timers go
on ticking.

Nothing is assumed of peers: whether a publisher sends or closes, whether a
spectator hangs up, whether it reads, and whether another server answers are open.
What a property needs of them is a premise of the property (the table above), and
not of the fairness.

- **HlsSource, Relay.**  A goroutine inside a write is not fair: `WriteReturns` is,
  only once the connection is down, when the socket is closed.  `ReadFails` of a
  relay is fair only when its connection is no longer open.
- **Connections.**  Only what no peer can hold up is fair: the end of `Run`, which
  closes the socket first, the read and the pull goroutine once the socket is closed,
  and the heartbeat goroutine once it is interrupted.  A handler that answers a
  message may stay inside its write, and `CloseEnds` is not fair at all.
- **PublisherClient.**  `run()` and the heartbeats go on.  `SF_vars(Dial)`: a server
  that is dialled for ever is reached in the end, which only `EventuallyReady` is
  about.  A server reads what has arrived, and a connection that its client has
  left or lost ends by its read deadline (`server/connection.go`, `Run`), but only
  while no handler of the stream is inside `Close()` of a source, whose mutex the
  others may wait for.  `PushAccepted` and `RemoveSource`, which follow a `Close()`,
  are not fair.
- **TesterPublisher.**  FFmpeg repeats its input for ever (`-stream_loop -1`), so it
  writes as long as it runs; a request is handled, or fails.
- **Cluster.**  Time passes, announcers wake up, and a relay that was sent `CLOSE`, or
  that nobody listens to, closes.  What may keep a relay from that is in `Relay`: a
  wedged `Close()`, or a spectator that reads no more.  No dial has to succeed, and no answer has to
  come: `AbandonedRelaysClose` excludes only dials that fail again and again.

## 4. Proofs

All theorems are about `Spec`, for any sets of spectators, connections, relays,
servers, streams, addresses and any bounds, under the assumptions of each module
(`SourceAssumption` and so on: types of the constants, capacities of at least
one, a finite set of connections).

- **HlsSource** (`HlsSourceProofs`).  `IInv` joins the types, `LockInv` (who holds
  the lock and what is pending), `PullInv` (where a goroutine is and whether it is
  a listener), `CloseInv` and `OrderInv`.  Order alone is not inductive: the
  proof needs that what was written precedes the initial fragments still to be
  sent, that these precede the channel, and that `CLOSE` is in a sequence only
  when `Close()` has passed by its listener (`Bounded`).  From it follow
  `FragmentsInOrder`, `NobodyLeftBehind` and, by cases on the steps, the refinement
  `ImplementsDelivery`.  `NoSilentLoss` is inductive relative to it.
  What the liveness properties rest on is proved as well.  `HangUpInv` ties the
  interrupt and the end of a pull goroutine to its handler, and a write that does not
  return to a peer that may stop reading.  It gives `CloseWaitsFor`: a full channel
  keeps `Close()` only at a spectator that hung up and is wedged with it, at one
  whose goroutine is inside a write to a peer that does not read, or at one that
  needs no lock to go on.  `WedgedForEver`: the deadlock never resolves.  `WorksHolds`: where
  nobody hangs up and no PULL limits its initial fragments, `Works`, the first
  premise of the liveness properties, holds of every behaviour, whether or not the
  peers read.
- **Connections** (`ConnectionsProofs`).  `EntryInv` ties an entry of the map to
  the place of its publisher, `SourceInv` to what `CreateSource` has still to
  close.  `CountsConnections` counts the connections that are neither new nor gone
  and needs the cardinality facts of the library.  `Replies` ties what a peer was
  sent to the places of the three goroutines that write to it: the one that pulls
  starts after `OK`, only heartbeats come before it, and only the handler of a stream
  that was not found leaves the socket open after `CLOSE`, to heartbeats alone.
  `OwnershipHolds` is the refinement of `StreamOwnership`: most steps of a handler
  stutter, the close of a source is the end of its publisher whether or not its
  entry is still there, and `GetSource` gives a spectator the owner or one that has
  ended (`Given`, `AllGiven`).  `GoneToldAllHolds`: `ToldInv` follows the interrupts
  through the steps of `onClose`, so that a connection that is gone left nothing
  behind that nobody told to stop.
- **Relay** (`RelayProofs`).  `EndedIsClosed`: only a closed relay leaves the map.
  `ListenerIsKnown` and `CloseIsComplete`: while `Close()` is under way a listener
  is still to come or has the event, and the lock keeps others out.  `WaitInv` is
  about the waits: a relay that a spectator was given was started
  (`GivenIsStarted`), the wait group of one that ended is released (`EndedIsReady`),
  the lock of the controller belongs to a spectator that creates
  (`CreatorHoldsLock`), and so `WaitsAreAnsweredHolds`: each wait is for something
  that is still under way.  `WedgedForEver` and `WedgeKeepsLock`: once `Close()` of a
  relay is wedged and a spectator waits at it with the controller's lock, that lock
  is never given back, whatever else happens: one wedged relay stops every stream
  from being relayed.
- **MemoryLimiter** (`MemoryLimiterProofs`).  The usage is at most the limit by
  itself; a refusal comes after the whole buffer was evicted.
- **RateLimiter** (`RateLimiterProofs`).  `CountBounds`: for every second t, what
  was accepted since t is at most the count and the rate for the seconds from t to
  the counter's timestamp; an address without a counter used at most its rate.
  `CountIsReached`: for some t the counter is exactly that.  The first gives
  `RateIsLimited`, the second `RefusesOnlyExcess`.  `TokenBucketHolds` is the
  refinement: a cleanup deletes only counters that are worth a full bucket, an
  update changes no number of tokens, and the clock refills all buckets at once.
- **PublisherClient** (`PublisherClientProofs`).  `Threads` says which fields of the
  publisher go with which place of `run()`, `Handshake` that OK comes once and only
  after PUSH was read.  The order of what the stream gets is not inductive by
  itself: what was sent on any connection is older than what is queued
  (`SentBeforeQueue`), and what is on the way of the current connection is newer
  than what was received (`Ordered`).  `Consecutive` and `UpToDate` do the same for
  gaps, across the places where the first fragment on its way follows the last one
  received.  `LastIsCurrent` gives `ReadyIsCurrent`.  The refinement of
  `FragmentDelivery` follows by cases: only `HandleFragment` delivers.
  `HeartbeatsToldOnceHolds`, `OneDialAfterClose` and `StaysOver` are the safety that
  `CloseEnds` and `StreamEnds` rest on.  `Over` has to exclude a PUSH on its way and a
  `run()` that is about to write one (`signed`): with either, the stream of a closed
  publisher does come back, until its server's read deadline.
- **TesterPublisher** (`TesterPublisherProofs`).  The properties of its run are
  inductive together with the types.  `CountFrom` is a least number, whose
  existence is proved from the library's well-foundedness of the naturals.
  `DeliveryHolds` is the refinement of `FragmentDelivery` with the publisher library
  as the only one that is delivered to.
- **Cluster** (`ClusterProofs`).  `Fresh`: the time an entry has left and the time an
  announced source has waited add up to at least two intervals, so a delay shorter
  than an interval leaves the entry in place.  `NoneHanging`: handlers that have
  found a URL but not yet made the relay count as waiting already; a new wait then
  always leads to a relay that was just made, which waits for nobody, so that no
  set of relays is closed under waiting.  `RelaysFollowConfigurationHolds`: a relay
  that pulls from a relay was answered to a PULL without `only_source`, which is
  sent only to `RelayFromUrl`.  `NoRingHolds` follows: where the configuration has no
  ring, no relays ever feed each other, however many servers there are and however
  stale the registry is; that is the premise of `AbandonedRelaysClose`.
  `RegistryStaysHolds`: the entry of the only server with the stream neither lapses
  nor is overwritten, the safety `RegistryFollows` rests on.

The theorems that carry a property of a run are listed with it in `PROJECT.json`.
The others are about formulas no run repeats: `CloseWaitsFor`,
`WaitsAreAnswered`, `GoneToldAll`, `HeartbeatsToldOnce`,
`RegistryStays`, the tester's `ImplementsDelivery` and the persistence of `Wedged`
and `Over` are stated for the proofs.  Most are a step of the argument for a
liveness property that a run does check.

Only model-checked: all liveness, as the prover reaches neither fairness nor
ENABLED.  These are `CloseReachesAllUnlessWedged`, `EverybodyStopsUnlessWedged`,
`HangUpReleasesUnlessWedged`, `LeavingReleases`, `NobodyWaitsForever`,
`ClosedRelayEnds`, `AbandonedRelayCloses`, `CloseEnds`, `StreamEnds`,
`EventuallyReady`, `EverythingIsSent`, `AbandonedRelaysClose` and
`RegistryFollows`; the proofs give the safety half of most of them.  So is what
the three runs above refute, which TLC shows by a behaviour.  No module that is proved
about uses a RECURSIVE operator, and no statement needs induction over data.

## 5. What is not modelled

- Authentication, the text encoding of messages and the set-up: pure functions and
  input and output.  Their results are choices or constants of the models; the
  token that the publisher library signs is always accepted or PUSH is refused.
- The wording of errors, logging, the HTTP responses, the whitelist.
- Writes to the other server of a relay, and of the publisher library: they return,
  or fail.  The peer of the former is a server, whose handler reads until it ends,
  and the latter write while the library holds its lock, so a server that reads no
  more would hold up `SendFragment` and `Close()` of the application before they
  change anything.
- Integer overflow of ids and counters: 64-bit numbers that count connections.
- Redis itself: an entry is set with its expiry in one step, or the call fails.
- Two goroutines that write to one websocket of a relay at the same time: what the
  library does then is not in this repository.
- FFmpeg, beyond what the arguments of its command say, and the text of playlists.
- `client-js`: the playback lives in the media interfaces of the browser; the
  connection (`client.ts`) can be modelled and is an item of the plan.
- `tester/spectator.go` and `args.go`: a local page that embeds the player, and
  command-line arguments.

## 6. Plan

Done, in this order: source with its abstract promise; memory limiter; handlers
and registry; request limit; relays; publisher library; tester's publisher; several
servers; the ownership of streams and the token bucket as abstract specifications
with their refinements; the safety halves of the liveness properties.

Next:

1. The stages of a delivery one after the other: what the tester hands over, what
   the server gets and what a spectator is sent each implement `FragmentDelivery`;
   that their composition does too.
2. Fragments through a chain of relays: `Relay` over `FragmentDelivery`, so that a
   spectator of a relay gets what a spectator of the source may get.
3. `PlayerClient`: the reconnection and timers of `client-js/src/client.ts`.
