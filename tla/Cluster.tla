------------------------------- MODULE Cluster -------------------------------
(***************************************************************************)
(* Several servers and one stream: who pulls it from whom.  A server that  *)
(* has the stream's source announces it to the publish registry, whose     *)
(* entries expire; a server without it relays the stream from the server   *)
(* in the registry, or else from the one it is configured with             *)
(* (server/relay_controller.go, RelayStream).                              *)
(*                                                                         *)
(* A puller is a spectator, or the relay of a server, which is a spectator *)
(* of another server: both send PULL, and HandlePull answers both.  What   *)
(* is inside a source or a relay is in modules HlsSource and Relay: here a *)
(* source or a relay that closes tells its listeners at once, and one of   *)
(* them that leaves is forgotten at once.                                  *)
(***************************************************************************)
EXTENDS Integers

CONSTANTS
    Servers,         \* the servers; one that relays is named by its relay
    Spectators,      \* clients that watch the stream
    NoServer,        \* no URL
    PushAllowed,     \* config: the servers that take publishers
    RelayFrom,       \* config: RelayFromUrl of each server, or NoServer
    RefreshInterval, \* config: PublishRefreshIntervalSeconds
    AnnounceDelay    \* bound: how late an announcement may be

ASSUME ClusterAssumption ==
    /\ Spectators \cap Servers = {}
    /\ NoServer \notin Servers
    /\ PushAllowed \subseteq Servers
    /\ RelayFrom \in [Servers -> Servers \cup {NoServer}]
    /\ RefreshInterval \in Nat \ {0}
    /\ AnnounceDelay \in 0 .. RefreshInterval - 1

VARIABLES
    source,    \* the servers with an open source of the stream
    timer,     \* time since each source started to wait in its announcer
    late,      \* the servers with an announcer that a closed source left
    unsaid,    \* the servers whose last announcement failed
    registry,  \* the entry of the stream, NoServer if there is none
    expires,   \* time until it expires
    phase,     \* where each puller is
    at,        \* the server it pulls from
    found      \* the url and only_source that RelayStream found for it

registryVars == <<timer, late, unsaid, registry, expires>>
pullVars == <<phase, at, found>>
vars == <<source, registryVars, pullVars>>

Pullers == Spectators \cup Servers
Url == Servers \cup {NoServer}
Relay == [to : Url, only : BOOLEAN]
Nothing == [to |-> NoServer, only |-> FALSE]

Init ==
    /\ source = {}
    /\ timer = [s \in Servers |-> 0]
    /\ late = {}
    /\ unsaid = {}
    /\ registry = NoServer
    /\ expires = 0
    /\ phase = [p \in Pullers |-> "idle"]
    /\ at = [p \in Pullers |-> NoServer]
    /\ found = [p \in Pullers |-> Nothing]

-----------------------------------------------------------------------------
(* The registry.                                                           *)

(* Mutant: an entry lasts as long as the announcer waits.                  *)
ExpirationOneInterval == RefreshInterval

Expiration == 2 * RefreshInterval

AnnouncePublishedStream(s) ==
    /\ registry' = s
    /\ expires' = Expiration

(* Announce of server s; when Redis cannot be reached, the announcer only  *)
(* waits again.                                                            *)
Announce(s) ==
    /\ timer' = [timer EXCEPT ![s] = 0]
    /\ \/ /\ AnnouncePublishedStream(s)
          /\ unsaid' = unsaid \ {s}
       \/ /\ unsaid' = unsaid \cup {s}
          /\ UNCHANGED <<registry, expires>>
    /\ UNCHANGED late

(* CreateSource announces the source, and PeriodicallyAnnounce goes on.    *)
(* Bound: the announcer of the server's previous source is gone by then.   *)
Publish(s) ==
    /\ s \in PushAllowed \ (source \cup late)
    /\ source' = source \cup {s}
    /\ Announce(s)
    /\ UNCHANGED pullVars

PeriodicallyAnnounce(s) ==
    /\ s \in source
    /\ timer[s] >= RefreshInterval
    /\ Announce(s)
    /\ UNCHANGED <<source, pullVars>>

(* Mutant: the announcer of a closed source is not interrupted.            *)
LastAnnounceNotInterrupted(s) ==
    /\ s \in late
    /\ AnnouncePublishedStream(s)
    /\ UNCHANGED <<source, timer, late, unsaid, pullVars>>

(* The source closed when its announcer was due, or in the middle of its   *)
(* call: it announces the closed source, and is interrupted after that.    *)
LastAnnounce(s) ==
    /\ s \in late
    /\ AnnouncePublishedStream(s)
    /\ late' = late \ {s}
    /\ UNCHANGED <<source, timer, unsaid, pullVars>>

(* Time passes, and no announcement is later than AnnounceDelay.           *)
Tick ==
    /\ \A s \in source : timer[s] < RefreshInterval + AnnounceDelay
    /\ timer' = [s \in Servers |->
                    IF s \in source THEN timer[s] + 1 ELSE timer[s]]
    /\ expires' = IF expires > 0 THEN expires - 1 ELSE 0
    /\ registry' = IF expires > 1 THEN registry ELSE NoServer
    /\ UNCHANGED <<source, late, unsaid, pullVars>>

-----------------------------------------------------------------------------
(* Pulling.                                                                *)

Answered == {"source", "relay"}

(* The pullers told are sent CLOSE, at which a spectator hangs up, and     *)
(* those in R stop.                                                        *)
Tell(told, R) ==
    /\ phase' = [p \in Pullers |->
                    IF p \in R \cup (told \cap Spectators) THEN "idle"
                    ELSE IF p \in told THEN "ended"
                    ELSE phase[p]]
    /\ at' = [p \in Pullers |-> IF p \in told \cup R THEN NoServer ELSE at[p]]
    /\ found' = [p \in Pullers |-> IF p \in told \cup R THEN Nothing
                                                    ELSE found[p]]

(* PULL is on its way, with only_source or without.                        *)
Asking == {"asking", "asking_source"}
Asks(onlySource) == IF onlySource THEN "asking_source" ELSE "asking"

Move(p, from, to) ==
    /\ phase[p] = from
    /\ phase' = [phase EXCEPT ![p] = to]

SpectatorPulls(v, s) ==
    /\ Move(v, "idle", Asks(FALSE))
    /\ at' = [at EXCEPT ![v] = s]
    /\ UNCHANGED <<source, registryVars, found>>

(* HandlePull on a server that has the source.                             *)
PullFromSource(p) ==
    /\ phase[p] \in Asking
    /\ at[p] \in source
    /\ phase' = [phase EXCEPT ![p] = "source"]
    /\ UNCHANGED <<source, registryVars, at, found>>

(* It has none, and must not relay: the answer is OK and CLOSE.            *)
SourceNotFound(p) ==
    /\ phase[p] = "asking_source"
    /\ at[p] \notin source
    /\ Tell({p}, {})
    /\ UNCHANGED <<source, registryVars>>

(* Mutant: RelayStream waits for an existing relay as for a new one.       *)
GetRelayAndWait(p) ==
    /\ Move(p, "asking", "waiting")
    /\ at[p] \notin source
    /\ phase[at[p]] # "idle"
    /\ UNCHANGED <<source, registryVars, at, found>>

(* RelayStream finds a relay that is not closed, and does not wait for it. *)
GetRelay(p) ==
    /\ Move(p, "asking", "relay")
    /\ at[p] \notin source
    /\ phase[at[p]] # "idle"
    /\ UNCHANGED <<source, registryVars, at, found>>

(* Mutant: the relay may find the stream in another relay.                 *)
RegisteredAnywhere == [to |-> registry, only |-> FALSE]

(* The server of the registry, asked for its source only.                  *)
Registered == [to |-> registry, only |-> TRUE]

(* What RelayStream may relay from: the lookup may fail.                   *)
RelayUrls(s) ==
    {[to |-> RelayFrom[s], only |-> FALSE]}
        \cup (IF registry = NoServer THEN {} ELSE {Registered})

(* It finds no relay, and looks for a server to relay from: without one,   *)
(* the answer is OK and CLOSE.                                             *)
GetPublishingServer(p) ==
    /\ phase[p] = "asking"
    /\ at[p] \notin source
    /\ phase[at[p]] = "idle"
    /\ \E url \in RelayUrls(at[p]) :
           IF url.to = NoServer
           THEN Tell({p}, {})
           ELSE /\ Move(p, "asking", "found")
                /\ found' = [found EXCEPT ![p] = url]
                /\ UNCHANGED at
    /\ UNCHANGED <<source, registryVars>>

(* GetRelayOrCreate: the relay of another PULL that came first, or a new   *)
(* one; and WaitUntilReady.                                                *)
GetRelayOrCreate(p) ==
    /\ phase[p] = "found"
    /\ found' = [found EXCEPT ![p] = Nothing]
    /\ IF phase[at[p]] = "idle"
       THEN /\ phase' = [phase EXCEPT ![p] = "waiting",
                                     ![at[p]] = Asks(found[p].only)]
            /\ at' = [at EXCEPT ![at[p]] = found[p].to]
       ELSE /\ phase' = [phase EXCEPT ![p] = "waiting"]
            /\ UNCHANGED at
    /\ UNCHANGED <<source, registryVars>>

(* The relay got its own answer: SetReady.                                 *)
WaitUntilReady(p) ==
    /\ Move(p, "waiting", "relay")
    /\ phase[at[p]] \in Answered
    /\ UNCHANGED <<source, registryVars, at, found>>

-----------------------------------------------------------------------------
(* The end of a source or a relay.                                         *)

(* Those that server s serves, in one of the phases.                       *)
Served(s, phases) == {p \in Pullers : at[p] = s /\ phase[p] \in phases}

(* The source is gone, and with it its announcer.                          *)
StopSource(s) ==
    /\ source' = source \ {s}
    /\ unsaid' = unsaid \ {s}
    /\ timer' = [timer EXCEPT ![s] = 0]
    /\ UNCHANGED <<registry, expires>>

(* The publisher ends the stream.  The registry keeps its entry, and an    *)
(* announcer that is due may not see the interrupt first.                  *)
CloseSource(s) ==
    /\ s \in source
    /\ StopSource(s)
    /\ late' = IF timer[s] >= RefreshInterval THEN late \cup {s} ELSE late
    /\ Tell(Served(s, {"source"}), {})

(* A relay that ends closes its connection, and tells those who listen or  *)
(* wait.                                                                   *)
CloseRelay(s) ==
    /\ Tell(Served(s, {"relay", "waiting"}), {s})
    /\ UNCHANGED <<source, registryVars>>

(* CLOSE reached the relay.                                                *)
HandleClose(s) == phase[s] = "ended" /\ CloseRelay(s)

(* The dial, or the connection, fails.                                     *)
ConnectionFails(s) ==
    phase[s] \notin {"idle", "ended"} /\ CloseRelay(s)

Listens(p, s) == at[p] = s /\ phase[p] = "relay"

(* checkInactivity finds no listener, twice in a row.                      *)
Inactivity(s) ==
    /\ phase[s] # "idle"
    /\ \A p \in Pullers : ~Listens(p, s)
    /\ CloseRelay(s)

(* A spectator hangs up.                                                   *)
SpectatorLeaves(v) ==
    /\ phase[v] # "idle"
    /\ Tell({}, {v})
    /\ UNCHANGED <<source, registryVars>>

(* A server stops and starts again: what it held in memory is lost, and    *)
(* its connections with it; the registry keeps its entry.                  *)
Crash(s) ==
    /\ StopSource(s)
    /\ late' = late \ {s}
    /\ Tell({p \in Pullers : at[p] = s}, {s})

-----------------------------------------------------------------------------
PullStep(p) ==
    \/ PullFromSource(p)
    \/ SourceNotFound(p)
    \/ GetRelay(p)
    \/ GetPublishingServer(p)
    \/ GetRelayOrCreate(p)
    \/ WaitUntilReady(p)

ServerStep(s) ==
    \/ Publish(s)
    \/ PeriodicallyAnnounce(s)
    \/ LastAnnounce(s)
    \/ CloseSource(s)
    \/ HandleClose(s)
    \/ ConnectionFails(s)
    \/ Inactivity(s)
    \/ Crash(s)

Next ==
    \/ Tick
    \/ \E s \in Servers : ServerStep(s)
    \/ \E p \in Pullers : PullStep(p)
    \/ \E v \in Spectators :
           SpectatorLeaves(v) \/ \E s \in Servers : SpectatorPulls(v, s)

(* Time passes, announcers wake up, and a relay gets the CLOSE that was    *)
(* sent to it or checks for inactivity: nothing else has to happen.        *)
Fairness ==
    /\ WF_vars(Tick)
    /\ \A s \in Servers :
           /\ WF_vars(PeriodicallyAnnounce(s))
           /\ WF_vars(HandleClose(s) \/ Inactivity(s))

Spec == Init /\ [][Next]_vars
FairSpec == Spec /\ Fairness

-----------------------------------------------------------------------------
(* Properties.                                                             *)

(* Types, and the bounds of the registry's clocks.                         *)
TypeOK ==
    /\ source \subseteq PushAllowed
    /\ timer \in [Servers -> 0 .. RefreshInterval + AnnounceDelay]
    /\ late \subseteq Servers
    /\ unsaid \subseteq source
    /\ registry \in Url
    /\ expires \in 0 .. Expiration
    /\ phase \in [Pullers -> Asking \cup Answered
                                \cup {"idle", "found", "waiting", "ended"}]
    /\ at \in [Pullers -> Url]
    /\ found \in [Pullers -> Relay]

(* An open source is never without an entry in the registry, as long as    *)
(* its last announcement got through: an entry outlives the wait of the    *)
(* announcer, also when that is late, and whoever else announced.          *)
RegisteredWhileOpen == source \ unsaid # {} => registry # NoServer

(* Relays that hang on each other's answer: every one of them waits for    *)
(* the relay of another one.                                               *)
Deadlocked(R) == \A s \in R : phase[s] = "waiting" /\ at[s] \in R

(* No relay waits, over any number of servers, for itself, although        *)
(* servers may be configured to relay from each other and RelayStream      *)
(* blocks the handler of PULL: whoever waits found no relay, made one, and *)
(* a PULL that comes back to its server later finds that one.              *)
NobodyWaitsForItself == \A R \in (SUBSET Servers) \ {{}} : ~Deadlocked(R)

(* A relay that another server's relay answers, or may answer, is where    *)
(* the configuration puts it: what the registry says, stale or not, leads  *)
(* to sources only, so servers that are not configured in a ring never     *)
(* feed each other their own streams.                                      *)
RelaysFollowConfiguration ==
    \A s \in Servers :
        phase[s] \in {"asking", "found", "waiting", "relay"} =>
            at[s] = RelayFrom[s]

(* Relays that feed only from each other, along their configuration.       *)
Ring ==
    \E R \in (SUBSET Servers) \ {{}} :
        \A s \in R : /\ phase[s] = "relay"
                     /\ at[s] \in R
                     /\ at[s] = RelayFrom[s]

(* A relay ends before its PULL is answered.                               *)
EndsUnanswered ==
    \E s \in Servers :
        phase[s] \in Asking \cup {"found", "waiting"} /\ phase'[s] = "idle"

(* When the spectators have left, the relays of all servers close, one     *)
(* after the other, if their configuration puts them in no ring and their  *)
(* dials do not go on failing: a lookup in the registry, stale or not,     *)
(* never ties relays together, as they ask for the source only.            *)
AbandonedRelaysClose ==
    /\ []~Ring
    /\ ~[]<><<EndsUnanswered>>_vars
    /\ <>[](\A v \in Spectators : phase[v] = "idle")
    => <>[](\A s \in Servers : phase[s] = "idle")

(* Once the registry names the only server with the stream, it goes on to  *)
(* name it as long as that is so: the entry neither runs out before it is  *)
(* announced again nor is overwritten by a server that the stream left.    *)
OnlySource(s) == source = {s} /\ unsaid = {} /\ late = {}
RegistryStays ==
    [][\A s \in Servers :
           OnlySource(s) /\ OnlySource(s)' /\ registry = s => registry' = s]_vars

(* When the stream has moved to one server for good, the registry says so: *)
(* what the servers it left announced last does not come back.             *)
RegistryFollows ==
    \A s \in PushAllowed :
        <>[](source = {s} /\ unsaid = {}) => <>[](registry = s)
=============================================================================
