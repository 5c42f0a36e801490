---------------------------- MODULE ClusterProofs ----------------------------
(***************************************************************************)
(* What holds of Cluster for every set of servers and spectators, every    *)
(* configuration of RelayFromUrl and every refresh interval.               *)
(***************************************************************************)
EXTENDS Cluster, TLAPS

Phases == Asking \cup Answered \cup {"idle", "found", "waiting", "ended"}

(* The half of TypeOK that is about the registry.                          *)
RegistryTypes ==
    /\ source \subseteq PushAllowed
    /\ timer \in [Servers -> 0 .. RefreshInterval + AnnounceDelay]
    /\ late \subseteq Servers
    /\ unsaid \subseteq source
    /\ registry \in Url
    /\ expires \in 0 .. Expiration

(* The half that is about the pullers.                                     *)
PullTypes ==
    /\ phase \in [Pullers -> Phases]
    /\ at \in [Pullers -> Url]
    /\ found \in [Pullers -> Relay]

(* The entry of the registry is there until it expires, and an open source *)
(* that was announced refreshes it in time.                                *)
Fresh ==
    /\ expires > 0 => registry # NoServer
    /\ \A s \in source \ unsaid : expires + timer[s] >= Expiration

(* A PULL is at a server, and RelayStream has found one for it.            *)
Placed ==
    \A p \in Pullers :
        /\ phase[p] \notin {"idle", "ended"} => at[p] \in Servers
        /\ phase[p] = "found" => found[p].to \in Servers

(* The handlers of PULL that look for a relay count as waiting for it: a   *)
(* new edge of the graph then always leads to a relay that was just made,  *)
(* and has none of its own.                                                *)
Hanging(R) == \A s \in R : phase[s] \in {"found", "waiting"} /\ at[s] \in R
NoneHanging == \A R \in (SUBSET Servers) \ {{}} : ~Hanging(R)

RegistryInv == RegistryTypes /\ Fresh
PullInv == PullTypes /\ Placed /\ NoneHanging
IInv == RegistryInv /\ PullInv

LEMMA TypeSplits == TypeOK <=> RegistryTypes /\ PullTypes
BY DEF TypeOK, RegistryTypes, PullTypes, Phases

(* The numbers of the registry.                                            *)
LEMMA Numbers ==
    /\ RefreshInterval \in Nat /\ RefreshInterval > 0
    /\ AnnounceDelay \in Nat /\ AnnounceDelay < RefreshInterval
    /\ Expiration = 2 * RefreshInterval
    /\ Expiration \in Nat
BY ClusterAssumption DEF Expiration

-----------------------------------------------------------------------------
(* Steps of the registry.                                                  *)

LEMMA AnnounceKeeps ==
    ASSUME RegistryInv, NEW s \in PushAllowed, Announce(s),
           source' = source \cup {s}
    PROVE  RegistryInv'
<1>1. /\ s \in Servers /\ s # NoServer
      /\ timer' = [timer EXCEPT ![s] = 0]
      /\ late' = late
    BY ClusterAssumption DEF Announce
<1>2. timer' \in [Servers -> 0 .. RefreshInterval + AnnounceDelay]
    BY <1>1, Numbers DEF RegistryInv, RegistryTypes
<1>3. CASE AnnouncePublishedStream(s) /\ unsaid' = unsaid \ {s}
  <2>1. registry' = s /\ expires' = Expiration
      BY <1>3 DEF AnnouncePublishedStream
  <2>2. RegistryTypes'
      BY <1>1, <1>2, <1>3, <2>1, Numbers
      DEF RegistryInv, RegistryTypes, Url
  <2>3. \A t \in source' \ unsaid' : expires' + timer'[t] >= Expiration
      BY <1>2, <2>1, <2>2, Numbers, ClusterAssumption DEF RegistryTypes
  <2> QED
      BY <1>1, <2>1, <2>2, <2>3 DEF RegistryInv, Fresh, Expiration
<1>4. CASE unsaid' = unsaid \cup {s} /\ UNCHANGED <<registry, expires>>
  <2>1. RegistryTypes'
      BY <1>1, <1>2, <1>4 DEF RegistryInv, RegistryTypes
  <2>2. \A t \in source' \ unsaid' : t \in source \ unsaid /\ t # s
      BY <1>4
  <2>3. \A t \in source' \ unsaid' : timer'[t] = timer[t]
      BY <1>1, <2>2, ClusterAssumption DEF RegistryInv, RegistryTypes
  <2> QED
      BY <1>4, <2>1, <2>2, <2>3 DEF RegistryInv, Fresh, Expiration
<1> QED
    BY <1>3, <1>4 DEF Announce

(* An announcement of a closed source only renews the entry.               *)
LEMMA LastAnnounceKeeps ==
    ASSUME RegistryInv, NEW s \in Servers, LastAnnounce(s)
    PROVE  RegistryInv'
<1>1. /\ registry' = s /\ expires' = Expiration /\ s # NoServer
      /\ late' = late \ {s}
      /\ source' = source /\ timer' = timer /\ unsaid' = unsaid
    BY ClusterAssumption DEF LastAnnounce, AnnouncePublishedStream
<1>2. RegistryTypes'
    BY <1>1, Numbers DEF RegistryInv, RegistryTypes, Url
<1>3. \A t \in source : timer[t] \in Nat
    BY ClusterAssumption, Numbers DEF RegistryInv, RegistryTypes
<1>4. \A t \in source' \ unsaid' : expires' + timer'[t] >= Expiration
    BY <1>1, <1>3, Numbers
<1> QED
    BY <1>1, <1>2, <1>4 DEF RegistryInv, Fresh, Expiration

(* An announced source leaves its entry at least one unit of time: no      *)
(* announcement is a whole refresh interval late.                          *)
LEMMA TickKeeps ==
    ASSUME RegistryInv, Tick
    PROVE  RegistryInv'
<1>1. /\ \A s \in source : timer[s] < RefreshInterval + AnnounceDelay
      /\ timer' = [s \in Servers |->
                      IF s \in source THEN timer[s] + 1 ELSE timer[s]]
      /\ expires' = IF expires > 0 THEN expires - 1 ELSE 0
      /\ registry' = IF expires > 1 THEN registry ELSE NoServer
      /\ source' = source /\ late' = late /\ unsaid' = unsaid
    BY DEF Tick
<1>2. \A s \in Servers : timer[s] \in 0 .. RefreshInterval + AnnounceDelay
    BY DEF RegistryInv, RegistryTypes
<1>3. expires \in 0 .. Expiration
    BY DEF RegistryInv, RegistryTypes
<1>4. timer' \in [Servers -> 0 .. RefreshInterval + AnnounceDelay]
    BY <1>1, <1>2, Numbers
<1>5. RegistryTypes'
    BY <1>1, <1>3, <1>4, Numbers DEF RegistryInv, RegistryTypes, Url
<1>6. ASSUME NEW t \in source' \ unsaid'
      PROVE  expires' + timer'[t] >= Expiration
  <2>1. t \in Servers /\ t \in source /\ t \in source \ unsaid
      BY <1>1, ClusterAssumption DEF RegistryInv, RegistryTypes
  <2>2. expires + timer[t] >= Expiration
      BY <2>1 DEF RegistryInv, Fresh
  <2>3. /\ timer[t] < RefreshInterval + AnnounceDelay
        /\ timer[t] \in Nat
      BY <1>1, <1>2, <2>1, Numbers
  <2>4. expires > 0
      BY <1>3, <2>2, <2>3, Numbers
  <2>5. timer'[t] = timer[t] + 1 /\ expires' = expires - 1
      BY <1>1, <2>1, <2>4
  <2> QED
      BY <1>3, <2>2, <2>3, <2>5, Numbers
<1>7. expires' > 0 => registry' # NoServer
    BY <1>1, <1>3, Numbers DEF RegistryInv, Fresh
<1> QED
    BY <1>5, <1>6, <1>7 DEF RegistryInv, Fresh, Expiration

LEMMA StopSourceKeeps ==
    ASSUME RegistryInv, NEW s \in Servers, StopSource(s),
           late' \subseteq late \cup {s}
    PROVE  RegistryInv'
<1>1. /\ source' = source \ {s} /\ unsaid' = unsaid \ {s}
      /\ timer' = [timer EXCEPT ![s] = 0]
      /\ registry' = registry /\ expires' = expires
    BY DEF StopSource
<1>2. timer' \in [Servers -> 0 .. RefreshInterval + AnnounceDelay]
    BY <1>1, Numbers DEF RegistryInv, RegistryTypes
<1>3. RegistryTypes'
    BY <1>1, <1>2 DEF RegistryInv, RegistryTypes
<1>4. \A t \in source' \ unsaid' :
          t \in source \ unsaid /\ timer'[t] = timer[t]
    BY <1>1, ClusterAssumption DEF RegistryInv, RegistryTypes
<1> QED
    BY <1>1, <1>3, <1>4 DEF RegistryInv, Fresh, Expiration

-----------------------------------------------------------------------------
(* Steps of the pullers.                                                   *)

(* Who is told, or stops, waits for nobody any more.                       *)
LEMMA TellKeeps ==
    ASSUME PullInv, NEW told, NEW R, Tell(told, R)
    PROVE  PullInv'
<1>1. \A p \in Pullers :
          \/ /\ phase'[p] \in {"idle", "ended"}
             /\ at'[p] = NoServer /\ found'[p] = Nothing
          \/ phase'[p] = phase[p] /\ at'[p] = at[p] /\ found'[p] = found[p]
    BY DEF Tell
<1>2. PullTypes'
  <2>1. phase' \in [Pullers -> Phases]
      BY DEF Tell, PullInv, PullTypes, Phases
  <2>2. at' \in [Pullers -> Url]
      BY DEF Tell, PullInv, PullTypes, Url
  <2>3. found' \in [Pullers -> Relay]
      BY DEF Tell, PullInv, PullTypes, Relay, Nothing, Url
  <2> QED
      BY <2>1, <2>2, <2>3 DEF PullTypes
<1>3. Placed'
    BY <1>1 DEF PullInv, Placed
<1>4. ASSUME NEW Q \in (SUBSET Servers) \ {{}}, Hanging(Q)'
      PROVE  FALSE
  <2>1. \A s \in Q : phase[s] = phase'[s] /\ at[s] = at'[s]
      BY <1>1, <1>4 DEF Hanging, Pullers
  <2>2. Hanging(Q)
      BY <1>4, <2>1 DEF Hanging
  <2> QED
      BY <2>2 DEF PullInv, NoneHanging
<1> QED
    BY <1>2, <1>3, <1>4 DEF PullInv, NoneHanging

(* A puller moves on to a phase in which it does not look for a relay.     *)
LEMMA MoveKeeps ==
    ASSUME PullInv, NEW p \in Pullers,
           NEW to \in {"source", "relay"},
           phase[p] \notin {"idle", "ended"},
           phase' = [phase EXCEPT ![p] = to],
           UNCHANGED <<at, found>>
    PROVE  PullInv'
<1>1. PullTypes'
    BY DEF PullInv, PullTypes, Phases, Answered
<1>2. Placed'
    BY DEF PullInv, PullTypes, Placed
<1>3. ASSUME NEW Q \in (SUBSET Servers) \ {{}}, Hanging(Q)'
      PROVE  FALSE
  <2>1. \A s \in Q : s # p /\ phase[s] = phase'[s] /\ at[s] = at'[s]
      BY <1>3 DEF Hanging, PullInv, PullTypes, Pullers
  <2>2. Hanging(Q)
      BY <1>3, <2>1 DEF Hanging
  <2> QED
      BY <2>2 DEF PullInv, NoneHanging
<1> QED
    BY <1>1, <1>2, <1>3 DEF PullInv, NoneHanging

LEMMA SpectatorPullsKeeps ==
    ASSUME PullInv, NEW v \in Spectators, NEW s \in Servers,
           SpectatorPulls(v, s)
    PROVE  PullInv'
<1>1. /\ v \in Pullers /\ v \notin Servers
      /\ phase' = [phase EXCEPT ![v] = "asking"]
      /\ at' = [at EXCEPT ![v] = s]
      /\ found' = found
    BY ClusterAssumption DEF SpectatorPulls, Move, Asks, Pullers
<1>2. PullTypes'
    BY <1>1 DEF PullInv, PullTypes, Phases, Asking, Url
<1>3. Placed'
    BY <1>1 DEF PullInv, PullTypes, Placed
<1>4. ASSUME NEW Q \in (SUBSET Servers) \ {{}}, Hanging(Q)'
      PROVE  FALSE
  <2>1. \A t \in Q : t # v /\ phase[t] = phase'[t] /\ at[t] = at'[t]
      BY <1>1 DEF PullInv, PullTypes, Pullers
  <2>2. Hanging(Q)
      BY <1>4, <2>1 DEF Hanging
  <2> QED
      BY <2>2 DEF PullInv, NoneHanging
<1> QED
    BY <1>2, <1>3, <1>4 DEF PullInv, NoneHanging

(* Whoever starts to look for a relay does so at a server that has none,   *)
(* which therefore hangs on nobody.                                        *)
LEMMA GetPublishingServerKeeps ==
    ASSUME PullInv, registry \in Url, NEW p \in Pullers,
           GetPublishingServer(p)
    PROVE  PullInv'
<1>1. PICK url \in RelayUrls(at[p]) :
          IF url.to = NoServer
          THEN Tell({p}, {})
          ELSE /\ Move(p, "asking", "found")
               /\ found' = [found EXCEPT ![p] = url]
               /\ UNCHANGED at
    BY DEF GetPublishingServer
<1>2. CASE url.to = NoServer
    BY <1>1, <1>2, TellKeeps
<1>3. CASE url.to # NoServer
  <2>1. /\ phase[p] = "asking" /\ phase[at[p]] = "idle"
        /\ phase' = [phase EXCEPT ![p] = "found"]
        /\ found' = [found EXCEPT ![p] = url]
        /\ at' = at
      BY <1>1, <1>3 DEF GetPublishingServer, Move
  <2>2. at[p] \in Servers
      BY <2>1 DEF PullInv, Placed
  <2>3. url \in Relay /\ url.to \in Servers
    <3>1. RelayFrom[at[p]] \in Url
        BY <2>2, ClusterAssumption DEF Url
    <3>2. CASE url = [to |-> RelayFrom[at[p]], only |-> FALSE]
        BY <1>3, <3>1, <3>2 DEF Relay, Url
    <3>3. CASE url = Registered /\ registry # NoServer
        BY <1>3, <3>3 DEF Registered, Relay, Url
    <3>4. url = [to |-> RelayFrom[at[p]], only |-> FALSE]
              \/ (url = Registered /\ registry # NoServer)
        BY <1>1 DEF RelayUrls
    <3> QED
        BY <3>2, <3>3, <3>4
  <2>4. PullTypes'
      BY <2>1, <2>3 DEF PullInv, PullTypes, Phases
  <2>5. Placed'
      BY <2>1, <2>2, <2>3 DEF PullInv, PullTypes, Placed
  <2>6. ASSUME NEW Q \in (SUBSET Servers) \ {{}}, Hanging(Q)'
        PROVE  FALSE
    <3>1. p \notin Q
      <4>1. SUFFICES ASSUME p \in Q PROVE FALSE
          OBVIOUS
      <4>2. at[p] \in Q
          BY <2>1, <2>6, <4>1 DEF Hanging
      <4>3. phase'[at[p]] \in {"found", "waiting"}
          BY <2>6, <4>2 DEF Hanging
      <4>4. at[p] # p
          BY <2>1
      <4> QED
          BY <2>1, <2>2, <4>3, <4>4 DEF PullInv, PullTypes, Pullers
    <3>2. Hanging(Q)
        BY <2>1, <2>6, <3>1 DEF Hanging, PullInv, PullTypes, Pullers
    <3> QED
        BY <3>2 DEF PullInv, NoneHanging
  <2> QED
      BY <2>4, <2>5, <2>6 DEF PullInv, NoneHanging
<1> QED
    BY <1>2, <1>3

(* A new relay only asks; and who was about to wait for it already counted *)
(* as waiting.                                                             *)
LEMMA GetRelayOrCreateKeeps ==
    ASSUME PullInv, NEW p \in Pullers, GetRelayOrCreate(p)
    PROVE  PullInv'
<1>1. /\ phase[p] = "found"
      /\ found' = [found EXCEPT ![p] = Nothing]
      /\ at[p] \in Servers /\ at[p] \in Pullers
      /\ found[p] \in Relay /\ found[p].to \in Servers
    BY DEF GetRelayOrCreate, PullInv, PullTypes, Placed, Pullers
<1>2. found' \in [Pullers -> Relay]
    BY <1>1 DEF PullInv, PullTypes, Nothing, Relay, Url
<1>3. CASE phase[at[p]] = "idle"
  <2>1. /\ phase' = [phase EXCEPT ![p] = "waiting",
                                  ![at[p]] = Asks(found[p].only)]
        /\ at' = [at EXCEPT ![at[p]] = found[p].to]
        /\ at[p] # p
      BY <1>1, <1>3 DEF GetRelayOrCreate
  <2>2. Asks(found[p].only) \in Asking
      BY DEF Asks, Asking
  <2>3. /\ \A q \in Pullers \ {p, at[p]} :
               phase'[q] = phase[q] /\ at'[q] = at[q] /\ found'[q] = found[q]
        /\ phase'[p] = "waiting" /\ at'[p] = at[p]
        /\ phase'[at[p]] \in Asking /\ at'[at[p]] = found[p].to
      BY <1>1, <2>1, <2>2 DEF PullInv, PullTypes
  <2>4. PullTypes'
      BY <1>1, <1>2, <2>1, <2>2 DEF PullInv, PullTypes, Phases, Url
  <2>5. Placed'
      BY <1>1, <2>3 DEF PullInv, Placed, Asking
  <2>6. ASSUME NEW Q \in (SUBSET Servers) \ {{}}, Hanging(Q)'
        PROVE  FALSE
    <3>1. at[p] \notin Q
        BY <2>3, <2>6 DEF Hanging, Asking
    <3>2. \A s \in Q : phase[s] \in {"found", "waiting"} /\ at[s] = at'[s]
        BY <1>1, <2>3, <2>6, <3>1 DEF Hanging, Pullers
    <3>3. Hanging(Q)
        BY <2>6, <3>2 DEF Hanging
    <3> QED
        BY <3>3 DEF PullInv, NoneHanging
  <2> QED
      BY <2>4, <2>5, <2>6 DEF PullInv, NoneHanging
<1>4. CASE phase[at[p]] # "idle"
  <2>1. phase' = [phase EXCEPT ![p] = "waiting"] /\ at' = at
      BY <1>4 DEF GetRelayOrCreate
  <2>2. PullTypes'
      BY <1>2, <2>1 DEF PullInv, PullTypes, Phases
  <2>3. Placed'
      BY <1>1, <2>1 DEF PullInv, PullTypes, Placed
  <2>4. ASSUME NEW Q \in (SUBSET Servers) \ {{}}, Hanging(Q)'
        PROVE  FALSE
    <3>1. Hanging(Q)
        BY <1>1, <2>1, <2>4 DEF Hanging, PullInv, PullTypes, Pullers
    <3> QED
        BY <3>1 DEF PullInv, NoneHanging
  <2> QED
      BY <2>2, <2>3, <2>4 DEF PullInv, NoneHanging
<1> QED
    BY <1>3, <1>4

LEMMA PullStepKeeps ==
    ASSUME IInv, NEW p \in Pullers, PullStep(p)
    PROVE  IInv'
<1>1. PullInv /\ registry \in Url
    BY DEF IInv, RegistryInv, RegistryTypes
<1>2. UNCHANGED <<source, registryVars>>
    BY DEF PullStep, PullFromSource, SourceNotFound, GetRelay,
           GetPublishingServer, GetRelayOrCreate, WaitUntilReady
<1>3. RegistryInv'
    BY <1>2 DEF IInv, RegistryInv, RegistryTypes, Fresh, registryVars,
                Expiration, Url
<1>4. PullInv'
  <2>1. CASE PullFromSource(p)
      BY <1>1, <2>1, MoveKeeps DEF PullFromSource, Asking
  <2>2. CASE SourceNotFound(p)
      BY <1>1, <2>2, TellKeeps DEF SourceNotFound
  <2>3. CASE GetRelay(p)
      BY <1>1, <2>3, MoveKeeps DEF GetRelay, Move
  <2>4. CASE GetPublishingServer(p)
      BY <1>1, <2>4, GetPublishingServerKeeps
  <2>5. CASE GetRelayOrCreate(p)
      BY <1>1, <2>5, GetRelayOrCreateKeeps
  <2>6. CASE WaitUntilReady(p)
      BY <1>1, <2>6, MoveKeeps DEF WaitUntilReady, Move
  <2> QED
      BY <2>1, <2>2, <2>3, <2>4, <2>5, <2>6 DEF PullStep
<1> QED
    BY <1>3, <1>4 DEF IInv

-----------------------------------------------------------------------------
(* Steps of a server.                                                      *)

LEMMA CloseRelayKeeps ==
    ASSUME IInv, NEW s \in Servers, CloseRelay(s)
    PROVE  IInv'
<1>1. PullInv'
    BY TellKeeps DEF IInv, CloseRelay
<1> QED
    BY <1>1 DEF IInv, CloseRelay, RegistryInv, RegistryTypes, Fresh,
                registryVars, Expiration, Url

LEMMA ServerStepKeeps ==
    ASSUME IInv, NEW s \in Servers, ServerStep(s)
    PROVE  IInv'
<1>1. RegistryInv /\ PullInv
    BY DEF IInv
<1>2. ASSUME UNCHANGED pullVars
      PROVE  PullInv'
    BY <1>1, <1>2 DEF PullInv, PullTypes, Placed, NoneHanging, Hanging,
                      pullVars
<1>3. CASE Publish(s)
    BY <1>1, <1>2, <1>3, AnnounceKeeps DEF Publish, IInv
<1>4. CASE PeriodicallyAnnounce(s)
  <2>1. s \in PushAllowed /\ source' = source \cup {s}
      BY <1>1, <1>4 DEF PeriodicallyAnnounce, RegistryInv, RegistryTypes
  <2> QED
      BY <1>1, <1>2, <1>4, <2>1, AnnounceKeeps DEF PeriodicallyAnnounce, IInv
<1>5. CASE LastAnnounce(s)
    BY <1>1, <1>2, <1>5, LastAnnounceKeeps DEF LastAnnounce, IInv
<1>6. CASE CloseSource(s)
    BY <1>1, <1>6, StopSourceKeeps, TellKeeps DEF CloseSource, IInv
<1>7. CASE HandleClose(s) \/ ConnectionFails(s) \/ Inactivity(s)
    BY <1>7, CloseRelayKeeps
    DEF HandleClose, ConnectionFails, Inactivity
<1>8. CASE Crash(s)
    BY <1>1, <1>8, StopSourceKeeps, TellKeeps DEF Crash, IInv
<1> QED
    BY <1>3, <1>4, <1>5, <1>6, <1>7, <1>8 DEF ServerStep

-----------------------------------------------------------------------------
LEMMA InitInv == Init => IInv
<1> SUFFICES ASSUME Init
             PROVE  IInv
    OBVIOUS
<1>1. RegistryInv
    BY Numbers, ClusterAssumption
    DEF Init, RegistryInv, RegistryTypes, Fresh, Url
<1>2. PullTypes
    BY DEF Init, PullTypes, Phases, Url, Relay, Nothing
<1>3. Placed
    BY DEF Init, Placed
<1>4. NoneHanging
  <2>1. SUFFICES ASSUME NEW R \in (SUBSET Servers) \ {{}}, Hanging(R)
                 PROVE  FALSE
      BY DEF NoneHanging
  <2>2. PICK s \in R : TRUE
      BY <2>1
  <2>3. s \in Pullers /\ phase[s] = "idle"
      BY <2>1, <2>2 DEF Init, Pullers
  <2> QED
      BY <2>1, <2>2, <2>3 DEF Hanging
<1> QED
    BY <1>1, <1>2, <1>3, <1>4 DEF IInv, PullInv

LEMMA NextInv == IInv /\ [Next]_vars => IInv'
<1> SUFFICES ASSUME IInv, [Next]_vars
             PROVE  IInv'
    OBVIOUS
<1>1. CASE UNCHANGED vars
    BY <1>1 DEF vars, registryVars, pullVars, IInv, RegistryInv, PullInv,
                RegistryTypes, PullTypes, Fresh, Placed, NoneHanging, Hanging,
                Expiration, Url
<1>2. CASE Tick
  <2>1. PullInv'
      BY <1>2 DEF Tick, pullVars, IInv, PullInv, PullTypes, Placed,
                  NoneHanging, Hanging
  <2> QED
      BY <1>2, <2>1, TickKeeps DEF IInv
<1>3. ASSUME NEW s \in Servers, ServerStep(s)
      PROVE  IInv'
    BY <1>3, ServerStepKeeps
<1>4. ASSUME NEW p \in Pullers, PullStep(p)
      PROVE  IInv'
    BY <1>4, PullStepKeeps
<1>5. ASSUME NEW v \in Spectators,
             \/ SpectatorLeaves(v)
             \/ \E s \in Servers : SpectatorPulls(v, s)
      PROVE  IInv'
  <2>1. UNCHANGED <<source, registryVars>>
      BY <1>5 DEF SpectatorLeaves, SpectatorPulls
  <2>2. RegistryInv'
      BY <2>1 DEF IInv, RegistryInv, RegistryTypes, Fresh, registryVars,
                  Expiration, Url
  <2>3. PullInv'
      BY <1>5, TellKeeps, SpectatorPullsKeeps DEF SpectatorLeaves, IInv
  <2> QED
      BY <2>2, <2>3 DEF IInv
<1> QED
    BY <1>1, <1>2, <1>3, <1>4, <1>5 DEF Next

(* The invariant that the results below follow from: the registry's entry  *)
(* is fresh, and no handlers of PULL that have found no relay, or wait for *)
(* one, hang on each other.                                                *)
THEOREM Inductive == Spec => []IInv
<1> QED
    BY InitInv, NextInv, PTL DEF Spec

(* Every variable keeps its type, and the registry's clocks their bounds.  *)
THEOREM TypeCorrect == Spec => []TypeOK
<1>1. IInv => TypeOK
    BY TypeSplits DEF IInv, RegistryInv, PullInv
<1> QED
    BY <1>1, Inductive, PTL

(* An open source that was announced is in the registry, for every refresh *)
(* interval and every delay shorter than it.                               *)
THEOREM RegisteredWhileOpenHolds == Spec => []RegisteredWhileOpen
<1>1. IInv => RegisteredWhileOpen
  <2>1. SUFFICES ASSUME IInv, NEW s \in source \ unsaid
                 PROVE  registry # NoServer
      BY DEF RegisteredWhileOpen
  <2>2. /\ timer[s] \in 0 .. RefreshInterval + AnnounceDelay
        /\ expires \in 0 .. Expiration
        /\ expires + timer[s] >= Expiration
        /\ expires > 0 => registry # NoServer
      BY <2>1, ClusterAssumption
      DEF IInv, RegistryInv, RegistryTypes, Fresh
  <2> QED
      BY <2>2, Numbers
<1> QED
    BY <1>1, Inductive, PTL

(* However many servers relay from each other, and however they are        *)
(* configured, no PULL waits for itself.                                   *)
THEOREM NobodyWaitsForItselfHolds == Spec => []NobodyWaitsForItself
<1>1. IInv => NobodyWaitsForItself
    BY DEF IInv, PullInv, NoneHanging, Hanging, NobodyWaitsForItself,
           Deadlocked
<1> QED
    BY <1>1, Inductive, PTL

-----------------------------------------------------------------------------
(* What relays are fed from.                                               *)

(* A relay that asks without only_source, and whatever comes of it, is     *)
(* where its server is configured to relay from, and so is the one that a  *)
(* PULL is about to create.                                                *)
FoundConfigured ==
    \A p \in Pullers :
        phase[p] = "found" /\ ~found[p].only => found[p].to = RelayFrom[at[p]]

Configured == RelaysFollowConfiguration /\ FoundConfigured

LEMMA TellConfigured ==
    ASSUME Configured, NEW told, NEW R, Tell(told, R)
    PROVE  Configured'
<1>1. \A p \in Pullers :
          \/ phase'[p] \in {"idle", "ended"}
          \/ phase'[p] = phase[p] /\ at'[p] = at[p] /\ found'[p] = found[p]
    BY DEF Tell
<1> QED
    BY <1>1 DEF Configured, RelaysFollowConfiguration, FoundConfigured, Pullers

(* A puller goes on, and stays where it is.                                *)
LEMMA MoveConfigured ==
    ASSUME PullTypes, Configured, NEW p \in Pullers, NEW to \in Phases,
           phase' = [phase EXCEPT ![p] = to],
           at' = at,
           \/ /\ to \in {"relay", "waiting"}
              /\ phase[p] \in {"asking", "found", "waiting"}
           \/ to = "source",
           found' = found \/ found' = [found EXCEPT ![p] = Nothing]
    PROVE  Configured'
<1>1. \A q \in Pullers :
          phase'[q] = (IF q = p THEN to ELSE phase[q])
          /\ (q # p => found'[q] = found[q])
    BY DEF PullTypes
<1>2. RelaysFollowConfiguration'
    BY <1>1 DEF Configured, RelaysFollowConfiguration, Pullers
<1>3. FoundConfigured'
    BY <1>1 DEF Configured, FoundConfigured
<1> QED
    BY <1>2, <1>3 DEF Configured

LEMMA GetPublishingServerConfigured ==
    ASSUME PullInv, Configured, NEW p \in Pullers, GetPublishingServer(p)
    PROVE  Configured'
<1>1. PICK url \in RelayUrls(at[p]) :
          IF url.to = NoServer
          THEN Tell({p}, {})
          ELSE /\ Move(p, "asking", "found")
               /\ found' = [found EXCEPT ![p] = url]
               /\ UNCHANGED at
    BY DEF GetPublishingServer
<1>2. CASE url.to = NoServer
    BY <1>1, <1>2, TellConfigured
<1>3. CASE url.to # NoServer
  <2>1. /\ phase[p] = "asking"
        /\ phase' = [phase EXCEPT ![p] = "found"]
        /\ found' = [found EXCEPT ![p] = url]
        /\ at' = at
      BY <1>1, <1>3 DEF Move
  <2>2. \/ url = [to |-> RelayFrom[at[p]], only |-> FALSE]
        \/ url = [to |-> registry, only |-> TRUE]
      BY DEF RelayUrls, Registered
  <2>3. ~url.only => url.to = RelayFrom[at[p]]
      BY <2>2
  <2>4. \A q \in Pullers :
            /\ phase'[q] = (IF q = p THEN "found" ELSE phase[q])
            /\ found'[q] = (IF q = p THEN url ELSE found[q])
      BY <2>1 DEF PullInv, PullTypes
  <2>5. RelaysFollowConfiguration'
      BY <2>1, <2>4 DEF Configured, RelaysFollowConfiguration, Pullers
  <2>6. FoundConfigured'
      BY <2>1, <2>3, <2>4 DEF Configured, FoundConfigured
  <2> QED
      BY <2>5, <2>6 DEF Configured
<1> QED
    BY <1>2, <1>3

LEMMA GetRelayOrCreateConfigured ==
    ASSUME PullInv, Configured, NEW p \in Pullers, GetRelayOrCreate(p)
    PROVE  Configured'
<1>1. /\ phase[p] = "found"
      /\ found' = [found EXCEPT ![p] = Nothing]
      /\ at[p] \in Servers /\ at[p] \in Pullers
    BY DEF GetRelayOrCreate, PullInv, Placed, Pullers
<1>2. CASE phase[at[p]] # "idle"
  <2>1. phase' = [phase EXCEPT ![p] = "waiting"] /\ at' = at
      BY <1>2 DEF GetRelayOrCreate
  <2> QED
      BY <1>1, <2>1, MoveConfigured DEF PullInv, Phases
<1>3. CASE phase[at[p]] = "idle"
  <2>1. /\ phase' = [phase EXCEPT ![p] = "waiting",
                                  ![at[p]] = Asks(found[p].only)]
        /\ at' = [at EXCEPT ![at[p]] = found[p].to]
        /\ at[p] # p
      BY <1>1, <1>3 DEF GetRelayOrCreate
  <2>2. /\ \A q \in Pullers \ {p, at[p]} :
               phase'[q] = phase[q] /\ at'[q] = at[q] /\ found'[q] = found[q]
        /\ phase'[p] = "waiting" /\ at'[p] = at[p]
        /\ phase'[at[p]] = Asks(found[p].only)
        /\ at'[at[p]] = found[p].to
      BY <1>1, <2>1 DEF PullInv, PullTypes
  <2>3. found[p].only \in BOOLEAN
      BY DEF PullInv, PullTypes, Relay
  <2>4. \/ phase'[at[p]] = "asking_source"
        \/ phase'[at[p]] = "asking" /\ at'[at[p]] = RelayFrom[at[p]]
      BY <1>1, <2>2, <2>3 DEF Asks, Configured, FoundConfigured
  <2>5. RelaysFollowConfiguration'
    <3> SUFFICES ASSUME NEW s \in Servers,
                        phase'[s] \in {"asking", "found", "waiting", "relay"}
                 PROVE  at'[s] = RelayFrom[s]
        BY DEF RelaysFollowConfiguration
    <3>1. CASE s = at[p]
        BY <2>4, <3>1
    <3>2. CASE s = p
        BY <1>1, <2>2, <3>2 DEF Configured, RelaysFollowConfiguration
    <3>3. CASE s \notin {p, at[p]}
        BY <2>2, <3>3 DEF Configured, RelaysFollowConfiguration, Pullers
    <3> QED
        BY <3>1, <3>2, <3>3
  <2>6. FoundConfigured'
      BY <2>2, <2>4 DEF Configured, FoundConfigured
  <2> QED
      BY <2>5, <2>6 DEF Configured
<1> QED
    BY <1>2, <1>3

LEMMA NextConfigured == IInv /\ Configured /\ [Next]_vars => Configured'
<1> SUFFICES ASSUME IInv, Configured, [Next]_vars
             PROVE  Configured'
    OBVIOUS
<1>0. PullInv /\ PullTypes
    BY DEF IInv, PullInv
<1>s. ASSUME UNCHANGED pullVars
      PROVE  Configured'
    BY <1>s DEF pullVars, Configured, RelaysFollowConfiguration,
                FoundConfigured
<1>1. CASE UNCHANGED vars
    BY <1>1, <1>s DEF vars
<1>2. CASE Tick
    BY <1>2, <1>s DEF Tick
<1>3. ASSUME NEW s \in Servers, ServerStep(s)
      PROVE  Configured'
  <2>1. CASE Publish(s) \/ PeriodicallyAnnounce(s) \/ LastAnnounce(s)
      BY <2>1, <1>s DEF Publish, PeriodicallyAnnounce, LastAnnounce
  <2>2. CASE CloseSource(s) \/ HandleClose(s) \/ ConnectionFails(s)
                 \/ Inactivity(s) \/ Crash(s)
      BY <2>2, TellConfigured DEF CloseSource, HandleClose, ConnectionFails,
         Inactivity, Crash, CloseRelay
  <2> QED
      BY <1>3, <2>1, <2>2 DEF ServerStep
<1>4. ASSUME NEW p \in Pullers, PullStep(p)
      PROVE  Configured'
  <2>1. CASE PullFromSource(p)
      BY <1>0, <2>1, MoveConfigured DEF PullFromSource, Phases, Answered
  <2>2. CASE SourceNotFound(p)
      BY <2>2, TellConfigured DEF SourceNotFound
  <2>3. CASE GetRelay(p)
      BY <1>0, <2>3, MoveConfigured DEF GetRelay, Move, Phases, Answered
  <2>4. CASE GetPublishingServer(p)
      BY <1>0, <2>4, GetPublishingServerConfigured
  <2>5. CASE GetRelayOrCreate(p)
      BY <1>0, <2>5, GetRelayOrCreateConfigured
  <2>6. CASE WaitUntilReady(p)
      BY <1>0, <2>6, MoveConfigured DEF WaitUntilReady, Move, Phases, Answered
  <2> QED
      BY <1>4, <2>1, <2>2, <2>3, <2>4, <2>5, <2>6 DEF PullStep
<1>5. ASSUME NEW v \in Spectators, SpectatorLeaves(v)
      PROVE  Configured'
    BY <1>5, TellConfigured DEF SpectatorLeaves
<1>6. ASSUME NEW v \in Spectators, NEW s \in Servers, SpectatorPulls(v, s)
      PROVE  Configured'
  <2>1. /\ v \in Pullers /\ v \notin Servers
        /\ phase' = [phase EXCEPT ![v] = "asking"]
        /\ at' = [at EXCEPT ![v] = s]
        /\ found' = found
      BY <1>6, ClusterAssumption DEF SpectatorPulls, Move, Asks, Pullers
  <2>2. \A q \in Pullers \ {v} : phase'[q] = phase[q] /\ at'[q] = at[q]
      BY <2>1 DEF PullInv, PullTypes
  <2>3. RelaysFollowConfiguration'
      BY <2>1, <2>2 DEF Configured, RelaysFollowConfiguration, Pullers
  <2>4. phase'[v] # "found"
      BY <1>0, <2>1 DEF PullTypes
  <2>5. FoundConfigured'
      BY <2>1, <2>2, <2>4 DEF Configured, FoundConfigured
  <2> QED
      BY <2>3, <2>5 DEF Configured
<1> QED
    BY <1>1, <1>2, <1>3, <1>4, <1>5, <1>6 DEF Next

(* A relay is fed by another relay only where its server is configured to  *)
(* relay from: the registry leads to sources (GetPublishingServer,         *)
(* only_source of PULL).                                                   *)
THEOREM RelaysFollowConfigurationHolds == Spec => []RelaysFollowConfiguration
<1>1. Init => Configured
    BY DEF Init, Configured, RelaysFollowConfiguration, FoundConfigured, Pullers
<1>2. Configured => RelaysFollowConfiguration
    BY DEF Configured
<1> QED
    BY <1>1, <1>2, NextConfigured, Inductive, PTL DEF Spec

(* Relays that feed only from each other, whatever their configuration.    *)
FeedEachOther(R) == \A s \in R : phase[s] = "relay" /\ at[s] \in R

(* Servers that are not configured to relay from each other in a ring      *)
(* never do: no relay is kept alive by itself through the others, in any   *)
(* number of servers and however stale the registry is.                    *)
THEOREM NoRingHolds ==
    ASSUME \A R \in (SUBSET Servers) \ {{}} : \E s \in R : RelayFrom[s] \notin R
    PROVE  Spec => [](\A R \in (SUBSET Servers) \ {{}} : ~FeedEachOther(R))
<1>1. RelaysFollowConfiguration =>
          \A R \in (SUBSET Servers) \ {{}} : ~FeedEachOther(R)
  <2> SUFFICES ASSUME RelaysFollowConfiguration,
                      NEW R \in (SUBSET Servers) \ {{}}, FeedEachOther(R)
               PROVE  FALSE
      OBVIOUS
  <2>1. PICK s \in R : RelayFrom[s] \notin R
      OBVIOUS
  <2> QED
      BY <2>1 DEF RelaysFollowConfiguration, FeedEachOther
<1> QED
    BY <1>1, RelaysFollowConfigurationHolds, PTL

-----------------------------------------------------------------------------
(* The entry of the only server with the stream.                           *)

LEMMA NextStays ==
    ASSUME IInv, IInv', [Next]_vars, NEW s \in Servers,
           OnlySource(s), OnlySource(s)', registry = s
    PROVE  registry' = s
<1>1. s # NoServer /\ source = {s} /\ unsaid = {} /\ late = {}
      /\ source' = {s} /\ unsaid' = {} /\ late' = {}
    BY ClusterAssumption DEF OnlySource
<1>2. CASE UNCHANGED vars
    BY <1>2 DEF vars, registryVars
<1>3. CASE Tick
  <2>1. RegisteredWhileOpen'
    <3>1. /\ timer'[s] \in 0 .. RefreshInterval + AnnounceDelay
          /\ expires' \in 0 .. Expiration
          /\ expires' + timer'[s] >= Expiration
          /\ expires' > 0 => registry' # NoServer
        BY <1>1 DEF IInv, RegistryInv, RegistryTypes, Fresh, Expiration
    <3> QED
        BY <3>1, Numbers DEF RegisteredWhileOpen
  <2>2. registry' # NoServer
      BY <1>1, <2>1 DEF RegisteredWhileOpen
  <2> QED
      BY <1>3, <2>2 DEF Tick
<1>4. ASSUME NEW p \in Pullers, PullStep(p)
      PROVE  registry' = s
    BY <1>4 DEF PullStep, PullFromSource, SourceNotFound, GetRelay,
       GetPublishingServer, GetRelayOrCreate, WaitUntilReady, registryVars
<1>5. ASSUME NEW t \in Servers, ServerStep(t)
      PROVE  registry' = s
  <2>1. CASE Publish(t)
    <3>1. t \notin source /\ source' = source \cup {t}
        BY <2>1 DEF Publish
    <3> QED
        BY <1>1, <3>1
  <2>2. CASE PeriodicallyAnnounce(t)
      BY <1>1, <2>2 DEF PeriodicallyAnnounce, Announce, AnnouncePublishedStream
  <2>3. CASE LastAnnounce(t)
      BY <1>1, <2>3 DEF LastAnnounce
  <2>4. CASE CloseSource(t) \/ Crash(t)
      BY <2>4 DEF CloseSource, Crash, StopSource
  <2>5. CASE HandleClose(t) \/ ConnectionFails(t) \/ Inactivity(t)
      BY <2>5 DEF HandleClose, ConnectionFails, Inactivity, CloseRelay,
         registryVars
  <2> QED
      BY <1>5, <2>1, <2>2, <2>3, <2>4, <2>5 DEF ServerStep
<1>6. ASSUME NEW v \in Spectators,
             SpectatorLeaves(v) \/ \E t \in Servers : SpectatorPulls(v, t)
      PROVE  registry' = s
    BY <1>6 DEF SpectatorLeaves, SpectatorPulls, registryVars
<1> QED
    BY <1>2, <1>3, <1>4, <1>5, <1>6 DEF Next

(* The registry goes on to name the only server with the stream            *)
(* (PeriodicallyAnnounce, and the expiration of two intervals).            *)
THEOREM RegistryStaysHolds == Spec => RegistryStays
<1>1. IInv /\ IInv' /\ [Next]_vars
          => [\A s \in Servers : OnlySource(s) /\ OnlySource(s)' /\ registry = s
                                    => registry' = s]_vars
    BY NextStays
<1> QED
    BY <1>1, Inductive, PTL DEF Spec, RegistryStays
=============================================================================
