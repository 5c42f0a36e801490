-------------------------- MODULE ConnectionsProofs --------------------------
(***************************************************************************)
(* Proofs about Connections, for any number of connections, streams and    *)
(* fragments, and any limit of connections.                                *)
(***************************************************************************)
EXTENDS Connections, FiniteSetTheorems, SequenceTheorems, TLAPS

Messages == {"OK", "E", "F", "CLOSE", "H"}

(* What Send writes are messages.                                          *)
LEMMA SendType ==
    ASSUME TypeOK, NEW c \in Conns, NEW message \in Messages,
           Send(c, message)
    PROVE  outbox' \in [Conns -> Seq(Messages)]
  <1>1. outbox[c] \in Seq(Messages)
    BY DEF TypeOK, Messages
  <1>2. Append(outbox[c], message) \in Seq(Messages)
    BY <1>1, AppendProperties
  <1> QED
    BY <1>2 DEF Send, TypeOK, Messages

(* Every step keeps the types.                                             *)
LEMMA NextType == TypeOK /\ [Next]_vars => TypeOK'
  <1> SUFFICES ASSUME TypeOK, [Next]_vars PROVE TypeOK'
    OBVIOUS
  <1> USE DEF Move, sourceVars, runVars, pullVars
  <1>1. CASE UNCHANGED vars
    BY <1>1 DEF vars, TypeOK
  <1>2. ASSUME NEW c \in Conns, StartConnection(c) PROVE TypeOK'
    BY <1>2, ConnectionsAssumption DEF StartConnection, TypeOK
  <1>3. ASSUME NEW c \in Conns, UpgradeFails(c) PROVE TypeOK'
    BY <1>3, ConnectionsAssumption DEF UpgradeFails, EndConnection, TypeOK
  <1>4. ASSUME NEW c \in Conns, Upgraded(c) PROVE TypeOK'
    BY <1>4 DEF Upgraded, TypeOK
  <1>5. ASSUME NEW c \in Conns, ReadFails(c) PROVE TypeOK'
    BY <1>5 DEF ReadFails, TypeOK
  <1>6. ASSUME NEW c \in Conns, RefuseMessage(c) PROVE TypeOK'
    <2>1. outbox' \in [Conns -> Seq(Messages)]
      BY <1>6, SendType DEF Messages, RefuseMessage
    <2> QED
      BY <1>6, <2>1 DEF RefuseMessage, TypeOK, Messages
  <1>7. ASSUME NEW c \in Conns, NEW s \in Streams, HandlePush(c, s)
        PROVE  TypeOK'
    BY <1>7 DEF HandlePush, CreateSource, TypeOK
  <1>8. ASSUME NEW c \in Conns, NEW s \in Streams, HandlePull(c, s)
        PROVE  TypeOK'
    <2>1. CASE sources[s] # None
      <3>1. outbox' \in [Conns -> Seq(Messages)]
        BY <1>8, <2>1, SendType DEF Messages, HandlePull, PullAccepted
      <3>2. sources[s] \in Conns \cup {Relay, None}
        BY DEF TypeOK
      <3>3. pullFrom' \in [Conns -> Conns \cup {Relay, None}]
        BY <1>8, <2>1, <3>2 DEF HandlePull, PullAccepted, TypeOK
      <3>4. /\ pull' \in [Conns -> {"none", "start", "listening", "removing",
                                    "done"}]
            /\ mode' \in [Conns -> {"none", "push", "pull"}]
            /\ streamId' \in [Conns -> Streams \cup {None}]
        BY ZenonT(40), <1>8, <2>1 DEF HandlePull, PullAccepted, TypeOK
      <3> QED
        BY <1>8, <2>1, <3>1, <3>3, <3>4 DEF HandlePull, TypeOK, Messages
    <2>2. CASE sources[s] = None
      BY <1>8, <2>2 DEF HandlePull, TypeOK
    <2> QED
      BY <2>1, <2>2
  <1>9. ASSUME NEW c \in Conns, HandleFragmentMetadata(c) PROVE TypeOK'
    BY <1>9 DEF HandleFragmentMetadata, TypeOK
  <1>10. ASSUME NEW c \in Conns, ReadBinaryMessage(c) PROVE TypeOK'
    <2>1. published' \in [Conns -> 0 .. MaxFragments]
      <3>1. CASE source[c] = "open"
        <4>1. /\ published[c] \in Nat
              /\ published[c] < MaxFragments
              /\ published' = [published EXCEPT ![c] = published[c] + 1]
          BY <1>10, <3>1 DEF ReadBinaryMessage, TypeOK
        <4>2. published[c] + 1 \in 0 .. MaxFragments
          BY <4>1, ConnectionsAssumption
        <4> QED
          BY <4>1, <4>2 DEF TypeOK
      <3>2. CASE source[c] # "open"
        BY <1>10, <3>2 DEF ReadBinaryMessage, TypeOK
      <3> QED
        BY <3>1, <3>2
    <2>2. expectedBinary' \in [Conns -> BOOLEAN]
      BY <1>10 DEF ReadBinaryMessage, TypeOK
    <2> QED
      BY <1>10, <2>1, <2>2 DEF ReadBinaryMessage, TypeOK
  <1>11. ASSUME NEW c \in Conns, HandleClose(c) PROVE TypeOK'
    BY <1>11 DEF HandleClose, TypeOK
  <1>12. ASSUME NEW c \in Conns, NEW p \in Conns, CloseBegins(c, p)
         PROVE  TypeOK'
    BY <1>12 DEF CloseBegins, TypeOK
  <1>13. ASSUME NEW c \in Conns, PushAccepted(c) PROVE TypeOK'
    <2>1. outbox' \in [Conns -> Seq(Messages)]
      BY <1>13, SendType DEF Messages, PushAccepted
    <2> QED
      BY <1>13, <2>1 DEF PushAccepted, TypeOK, Messages
  <1>14. ASSUME NEW c \in Conns, HandleCloseEnd(c) PROVE TypeOK'
    BY <1>14 DEF HandleCloseEnd, RemoveSource, TypeOK
  <1>15. ASSUME NEW c \in Conns, RelayFound(c) PROVE TypeOK'
    <2>1. outbox' \in [Conns -> Seq(Messages)]
      BY <1>15, SendType DEF Messages, RelayFound, PullAccepted
    <2> QED
      BY <1>15, <2>1 DEF RelayFound, PullAccepted, TypeOK, Messages
  <1>16. ASSUME NEW c \in Conns, StreamNotFound(c) PROVE TypeOK'
    <2>1. outbox' \in [Conns -> Seq(Messages)]
      BY <1>16, SendType DEF Messages, StreamNotFound
    <2> QED
      BY <1>16, <2>1 DEF StreamNotFound, TypeOK, Messages
  <1>17. ASSUME NEW c \in Conns, CloseSocket(c) PROVE TypeOK'
    BY <1>17 DEF CloseSocket, TypeOK
  <1>18. ASSUME NEW c \in Conns, OnClosePush(c) PROVE TypeOK'
    BY <1>18 DEF OnClosePush, TypeOK
  <1>19. ASSUME NEW c \in Conns, OnCloseRemove(c) PROVE TypeOK'
    BY <1>19 DEF OnCloseRemove, RemoveSource, TypeOK
  <1>20. ASSUME NEW c \in Conns, OnClosePull(c) PROVE TypeOK'
    BY <1>20 DEF OnClosePull, TypeOK
  <1>21. ASSUME NEW c \in Conns, OnCloseNoMode(c) PROVE TypeOK'
    BY <1>21 DEF OnCloseNoMode, TypeOK
  <1>22. ASSUME NEW c \in Conns, OnCloseEnd(c) PROVE TypeOK'
    BY <1>22, ConnectionsAssumption DEF OnCloseEnd, EndConnection, TypeOK
  <1>23. ASSUME NEW c \in Conns, HeartbeatStops(c) PROVE TypeOK'
    BY <1>23 DEF HeartbeatStops, TypeOK
  <1>24. ASSUME NEW c \in Conns, AddListener(c) PROVE TypeOK'
    BY <1>24 DEF AddListener, TypeOK
  <1>25. ASSUME NEW c \in Conns, ReceiveClose(c) PROVE TypeOK'
    <2>1. outbox' \in [Conns -> Seq(Messages)]
      BY <1>25, SendType DEF Messages, ReceiveClose, SendClose
    <2> QED
      BY <1>25, <2>1 DEF ReceiveClose, SendClose, TypeOK, Messages
  <1>26. ASSUME NEW c \in Conns, SendFragment(c) PROVE TypeOK'
    <2>1. outbox' \in [Conns -> Seq(Messages)]
      BY <1>26, SendType DEF Messages, SendFragment
    <2> QED
      BY <1>26, <2>1 DEF SendFragment, TypeOK, Messages
  <1>27. ASSUME NEW c \in Conns, ReceiveInterrupt(c) PROVE TypeOK'
    BY <1>27 DEF ReceiveInterrupt, TypeOK
  <1>28. CASE RelayCloses
    BY <1>28 DEF RelayCloses, TypeOK
  <1>29. ASSUME NEW p \in Conns \cup {Relay}, CloseEnds(p) PROVE TypeOK'
    BY <1>29 DEF CloseEnds, TypeOK
  <1>30. ASSUME NEW c \in Conns, EndEmptyStream(c) PROVE TypeOK'
    <2>1. outbox' \in [Conns -> Seq(Messages)]
      BY <1>30, SendType DEF Messages, EndEmptyStream
    <2> QED
      BY <1>30, <2>1 DEF EndEmptyStream, TypeOK, Messages
  <1>31. ASSUME NEW c \in Conns, SendHeartbeat(c) PROVE TypeOK'
    <2>1. outbox' \in [Conns -> Seq(Messages)]
      BY <1>31, SendType DEF Messages, SendHeartbeat
    <2> QED
      BY <1>31, <2>1 DEF SendHeartbeat, TypeOK, Messages
  <1>32. ASSUME NEW c \in Conns, ListenFails(c) PROVE TypeOK'
    <2>1. outbox' \in [Conns -> Seq(Messages)]
      BY <1>32, SendType DEF Messages, ListenFails, SendClose
    <2> QED
      BY <1>32, <2>1 DEF ListenFails, SendClose, TypeOK, Messages
  <1>33. ASSUME NEW c \in Conns, RemoveListener(c) PROVE TypeOK'
    BY <1>33 DEF RemoveListener, TypeOK
  <1> QED
    BY <1>1, <1>2, <1>3, <1>4, <1>5, <1>6, <1>7, <1>8, <1>9, <1>10, <1>11,
       <1>12, <1>13, <1>14, <1>15, <1>16, <1>17, <1>18, <1>19, <1>20, <1>21,
       <1>22, <1>23, <1>24, <1>25, <1>26, <1>27, <1>28, <1>29, <1>30, <1>31,
       <1>32, <1>33
    DEF Next, ReadMessage, Proceed, Leave, PullStep

(***************************************************************************)
(* The map of sources.                                                     *)
(***************************************************************************)
Registry == EntryInv /\ SourceInv /\ OpenSourceIsRegistered

(* A step that leaves the sources and the map alone, and does not take a   *)
(* publisher out of its states, keeps the invariant.                       *)
LEMMA NextRegistry ==
    TypeOK /\ TypeOK' /\ Registry /\ [Next]_vars => Registry'
  <1> SUFFICES ASSUME TypeOK, TypeOK', Registry, [Next]_vars PROVE Registry'
    OBVIOUS
  <1> USE DEF Move, sourceVars, runVars, pullVars
  <1>0. /\ None \notin Streams
        /\ None \notin Conns
        /\ Relay # None
    BY ConnectionsAssumption
  <1>1. CASE UNCHANGED vars
    BY <1>1 DEF vars, Registry, EntryInv, SourceInv, OpenSourceIsRegistered
  <1>2. ASSUME NEW c \in Conns, StartConnection(c) PROVE Registry'
    BY <1>2 DEF StartConnection, Registry, EntryInv, SourceInv,
                OpenSourceIsRegistered, TypeOK
  <1>3. ASSUME NEW c \in Conns, UpgradeFails(c) PROVE Registry'
    BY <1>3 DEF UpgradeFails, Registry, EntryInv, SourceInv,
                OpenSourceIsRegistered, TypeOK
  <1>4. ASSUME NEW c \in Conns, Upgraded(c) PROVE Registry'
    BY <1>4 DEF Upgraded, Registry, EntryInv, SourceInv,
                OpenSourceIsRegistered, TypeOK
  <1>5. ASSUME NEW c \in Conns, ReadFails(c) PROVE Registry'
    BY <1>5 DEF ReadFails, Registry, EntryInv, SourceInv,
                OpenSourceIsRegistered, TypeOK
  <1>6. ASSUME NEW c \in Conns, RefuseMessage(c) PROVE Registry'
    BY <1>6 DEF RefuseMessage, Registry, EntryInv, SourceInv,
                OpenSourceIsRegistered, TypeOK
  <1>7. ASSUME NEW c \in Conns, NEW s \in Streams, HandlePush(c, s)
        PROVE  Registry'
    <2>1. /\ source[c] = "none"
          /\ existingSource[c] = None
          /\ \A t \in Streams : sources[t] # c
          /\ sources[s] # None => source[sources[s]] # "none"
      BY <1>7, <1>0 DEF HandlePush, CanRead, Registry, EntryInv, SourceInv,
         TypeOK
    <2>2. EntryInv'
      BY <1>7, <2>1 DEF HandlePush, CreateSource, Registry, EntryInv, TypeOK
    <2>3. SourceInv'
      BY <1>7, <2>1 DEF HandlePush, CreateSource, Registry, SourceInv, TypeOK
    <2>4. OpenSourceIsRegistered'
      <3> SUFFICES ASSUME NEW p \in Conns, source'[p] = "open",
                          sources'[streamId'[p]] # p
                   PROVE  \E q \in Conns : existingSource'[q] = p
        BY DEF OpenSourceIsRegistered
      <3>1. p # c
        BY <1>7 DEF HandlePush, CreateSource, TypeOK
      <3>2. /\ source[p] = "open"
            /\ streamId'[p] = streamId[p]
        BY <1>7, <3>1 DEF HandlePush, CreateSource, TypeOK
      <3>3. CASE sources[streamId[p]] = p
        <4>1. streamId[p] = s
          BY <1>7, <3>2, <3>3 DEF HandlePush, CreateSource, TypeOK
        <4> QED
          BY <1>7, <3>3, <4>1 DEF HandlePush, CreateSource, TypeOK
      <3>4. ASSUME NEW q \in Conns, existingSource[q] = p
            PROVE  \E r \in Conns : existingSource'[r] = p
        BY <1>7, <1>0, <2>1, <3>4 DEF HandlePush, CreateSource, TypeOK
      <3> QED
        BY <3>2, <3>3, <3>4 DEF Registry, OpenSourceIsRegistered
    <2> QED
      BY <2>2, <2>3, <2>4 DEF Registry
  <1>8. ASSUME NEW c \in Conns, NEW s \in Streams, HandlePull(c, s)
        PROVE  Registry'
    <2>1. /\ source[c] = "none"
          /\ \A t \in Streams : sources[t] # c
      BY <1>8, <1>0 DEF HandlePull, CanRead, Registry, EntryInv, SourceInv
    <2>2. CASE sources[s] # None
      <3>1. /\ pc[c] = "reading"
            /\ pc' = pc
            /\ mode' = [mode EXCEPT ![c] = "pull"]
            /\ streamId' = [streamId EXCEPT ![c] = s]
            /\ UNCHANGED <<sources, existingSource, source, closing,
                           sourceToPush>>
        BY <1>8, <2>2 DEF HandlePull, PullAccepted, CanRead
      <3>2. EntryInv'
        BY <2>1, <3>1 DEF Registry, EntryInv, TypeOK
      <3>3. SourceInv'
        BY <2>1, <3>1 DEF Registry, SourceInv, TypeOK
      <3>4. OpenSourceIsRegistered'
        BY <2>1, <3>1 DEF Registry, OpenSourceIsRegistered, TypeOK
      <3> QED
        BY <3>2, <3>3, <3>4 DEF Registry
    <2>3. CASE sources[s] = None
      BY <1>8, <2>1, <2>3 DEF HandlePull, Registry, EntryInv, SourceInv,
         OpenSourceIsRegistered, TypeOK
    <2> QED
      BY <2>2, <2>3
  <1>9. ASSUME NEW c \in Conns, HandleFragmentMetadata(c) PROVE Registry'
    BY <1>9 DEF HandleFragmentMetadata, Registry, EntryInv, SourceInv,
                OpenSourceIsRegistered
  <1>10. ASSUME NEW c \in Conns, ReadBinaryMessage(c) PROVE Registry'
    BY <1>10 DEF ReadBinaryMessage, Registry, EntryInv, SourceInv,
                 OpenSourceIsRegistered
  <1>11. ASSUME NEW c \in Conns, HandleClose(c) PROVE Registry'
    BY <1>11 DEF HandleClose, Registry, EntryInv, SourceInv,
                 OpenSourceIsRegistered, TypeOK
  <1>12. ASSUME NEW c \in Conns, NEW p \in Conns, CloseBegins(c, p)
         PROVE  Registry'
    BY <1>12 DEF CloseBegins, Registry, EntryInv, SourceInv,
                 OpenSourceIsRegistered
  <1>13. ASSUME NEW c \in Conns, PushAccepted(c) PROVE Registry'
    <2>1. EntryInv'
      BY <1>13 DEF PushAccepted, Registry, EntryInv, TypeOK
    <2>2. SourceInv'
      BY <1>13, <1>0 DEF PushAccepted, Registry, SourceInv, TypeOK
    <2>3. OpenSourceIsRegistered'
      <3> SUFFICES ASSUME NEW p \in Conns, source'[p] = "open",
                          sources'[streamId'[p]] # p
                   PROVE  \E q \in Conns : existingSource'[q] = p
        BY DEF OpenSourceIsRegistered
      <3>1. PICK q \in Conns : existingSource[q] = p
        BY <1>13 DEF PushAccepted, Registry, OpenSourceIsRegistered
      <3>2. q # c
        BY <1>13, <1>0, <3>1 DEF PushAccepted
      <3> QED
        BY <1>13, <3>1, <3>2 DEF PushAccepted, TypeOK
    <2> QED
      BY <2>1, <2>2, <2>3 DEF Registry
  <1>14. ASSUME NEW c \in Conns, HandleCloseEnd(c) PROVE Registry'
    BY <1>14, <1>0 DEF HandleCloseEnd, RemoveSource, Registry, EntryInv, SourceInv,
                 OpenSourceIsRegistered, TypeOK
  <1>15. ASSUME NEW c \in Conns, RelayFound(c) PROVE Registry'
    BY <1>15, <1>0 DEF RelayFound, PullAccepted, Registry, EntryInv, SourceInv,
                 OpenSourceIsRegistered, TypeOK
  <1>16. ASSUME NEW c \in Conns, StreamNotFound(c) PROVE Registry'
    BY <1>16 DEF StreamNotFound, Registry, EntryInv, SourceInv,
                 OpenSourceIsRegistered, TypeOK
  <1>17. ASSUME NEW c \in Conns, CloseSocket(c) PROVE Registry'
    BY <1>17 DEF CloseSocket, Registry, EntryInv, SourceInv,
                 OpenSourceIsRegistered, TypeOK
  <1>18. ASSUME NEW c \in Conns, OnClosePush(c) PROVE Registry'
    BY <1>18 DEF OnClosePush, Registry, EntryInv, SourceInv,
                 OpenSourceIsRegistered, TypeOK
  <1>19. ASSUME NEW c \in Conns, OnCloseRemove(c) PROVE Registry'
    BY <1>19, <1>0 DEF OnCloseRemove, RemoveSource, Registry, EntryInv, SourceInv,
                 OpenSourceIsRegistered, TypeOK
  <1>20. ASSUME NEW c \in Conns, OnClosePull(c) PROVE Registry'
    BY <1>20 DEF OnClosePull, Registry, EntryInv, SourceInv,
                 OpenSourceIsRegistered, TypeOK
  <1>21. ASSUME NEW c \in Conns, OnCloseNoMode(c) PROVE Registry'
    BY <1>21 DEF OnCloseNoMode, Registry, EntryInv, SourceInv,
                 OpenSourceIsRegistered, TypeOK
  <1>22. ASSUME NEW c \in Conns, OnCloseEnd(c) PROVE Registry'
    BY <1>22 DEF OnCloseEnd, Registry, EntryInv, SourceInv,
                 OpenSourceIsRegistered, TypeOK
  <1>23. ASSUME NEW c \in Conns, HeartbeatStops(c) PROVE Registry'
    BY <1>23 DEF HeartbeatStops, Registry, EntryInv, SourceInv,
                 OpenSourceIsRegistered
  <1>24. ASSUME NEW c \in Conns, AddListener(c) PROVE Registry'
    BY <1>24 DEF AddListener, Registry, EntryInv, SourceInv,
                 OpenSourceIsRegistered, TypeOK
  <1>25. ASSUME NEW c \in Conns, ReceiveClose(c) PROVE Registry'
    BY <1>25 DEF ReceiveClose, Registry, EntryInv, SourceInv,
                 OpenSourceIsRegistered, TypeOK
  <1>26. ASSUME NEW c \in Conns, SendFragment(c) PROVE Registry'
    BY <1>26 DEF SendFragment, Registry, EntryInv, SourceInv,
                 OpenSourceIsRegistered
  <1>27. ASSUME NEW c \in Conns, ReceiveInterrupt(c) PROVE Registry'
    BY <1>27 DEF ReceiveInterrupt, Registry, EntryInv, SourceInv,
                 OpenSourceIsRegistered, TypeOK
  <1>28. CASE RelayCloses
    BY <1>28, ConnectionsAssumption DEF RelayCloses, Registry, EntryInv,
       SourceInv, OpenSourceIsRegistered
  <1>29. ASSUME NEW p \in Conns \cup {Relay}, CloseEnds(p) PROVE Registry'
    <2>1. /\ UNCHANGED <<sources, existingSource, pc, mode, streamId,
                         sourceToPush>>
          /\ closing' = closing \ {p}
          /\ p \in Conns => source[p] = "open"
          /\ \A c \in Conns : source'[c] = IF c = p THEN "closed" ELSE source[c]
      BY <1>29 DEF CloseEnds, Registry, SourceInv
    <2>2. EntryInv'
      BY <2>1 DEF Registry, EntryInv, TypeOK
    <2>3. SourceInv'
      BY <2>1 DEF Registry, SourceInv, TypeOK
    <2>4. OpenSourceIsRegistered'
      BY <2>1 DEF Registry, OpenSourceIsRegistered
    <2> QED
      BY <2>2, <2>3, <2>4 DEF Registry
  <1>30. ASSUME NEW c \in Conns, EndEmptyStream(c) PROVE Registry'
    BY <1>30 DEF EndEmptyStream, Registry, EntryInv, SourceInv,
                 OpenSourceIsRegistered, TypeOK
  <1>31. ASSUME NEW c \in Conns, SendHeartbeat(c) PROVE Registry'
    BY <1>31 DEF SendHeartbeat, Registry, EntryInv, SourceInv,
                 OpenSourceIsRegistered
  <1>32. ASSUME NEW c \in Conns, ListenFails(c) \/ RemoveListener(c)
         PROVE  Registry'
    BY <1>32 DEF ListenFails, RemoveListener, Registry, EntryInv, SourceInv,
                 OpenSourceIsRegistered, TypeOK
  <1> QED
    BY <1>1, <1>2, <1>3, <1>4, <1>5, <1>6, <1>7, <1>8, <1>9, <1>10, <1>11,
       <1>12, <1>13, <1>14, <1>15, <1>16, <1>17, <1>18, <1>19, <1>20, <1>21,
       <1>22, <1>23, <1>24, <1>25, <1>26, <1>27, <1>28, <1>29, <1>30, <1>31,
       <1>32
    DEF Next, ReadMessage, Proceed, Leave, PullStep

(* The invariant of the registry of sources is inductive.                  *)
THEOREM Inductive == Spec => []IInv
  <1>1. Init => IInv
    BY ConnectionsAssumption DEF Init, IInv, TypeOK, EntryInv, SourceInv,
       OpenSourceIsRegistered
  <1>2. IInv /\ [Next]_vars => IInv'
    BY NextType, NextRegistry DEF IInv, Registry
  <1> QED
    BY <1>1, <1>2, PTL DEF Spec

(* Type correctness.                                                       *)
THEOREM TypeCorrect == Spec => []TypeOK
  <1>1. IInv => TypeOK
    BY DEF IInv
  <1> QED
    BY <1>1, Inductive, PTL

(* An open source is the one in the map, or about to be closed by the      *)
(* publisher that took its place (CreateSource, RemoveSource).             *)
THEOREM OpenSourceIsRegisteredHolds == Spec => []OpenSourceIsRegistered
  <1>1. IInv => OpenSourceIsRegistered
    BY DEF IInv
  <1> QED
    BY <1>1, Inductive, PTL

(* The map holds no source that its publisher has left behind.             *)
THEOREM EntryHasPublisherHolds == Spec => []EntryHasPublisher
  <1>1. IInv => EntryHasPublisher
    <2> SUFFICES ASSUME IInv, NEW s \in Streams, sources[s] # None
                 PROVE  /\ streamId[sources[s]] = s
                        /\ pc[sources[s]] \notin
                               {"none", "upgrading", "release", "gone"}
      BY DEF EntryHasPublisher
    <2>1. sources[s] \in Conns
      BY DEF IInv, TypeOK
    <2> QED
      BY <2>1 DEF IInv, EntryInv
  <1> QED
    BY <1>1, Inductive, PTL

(***************************************************************************)
(* The count of connections.                                               *)
(***************************************************************************)
LEMMA HeldFinite == IsFiniteSet(Held) /\ Cardinality(Held) \in Nat
  <1>1. Held \subseteq Conns
    BY DEF Held
  <1> QED
    BY <1>1, FS_Subset, FS_CardinalityType, ConnectionsAssumption

(* A connection that was counted is given back.                            *)
LEMMA EndCounts ==
    ASSUME CountsConnections, NEW c \in Held, Held' = Held \ {c}, EndConnection
    PROVE  CountsConnections'
  <1>1. Cardinality(Held') = Cardinality(Held) - 1
    BY HeldFinite, FS_RemoveElement
  <1>2. Cardinality(Held) # 0
    BY HeldFinite, FS_EmptySet
  <1> QED
    BY <1>1, <1>2, HeldFinite DEF CountsConnections, EndConnection

(* Every step keeps the count and the connections in agreement.            *)
LEMMA NextCounts ==
    TypeOK /\ CountsConnections /\ [Next]_vars => CountsConnections'
  <1> SUFFICES ASSUME TypeOK, CountsConnections, [Next]_vars
               PROVE  CountsConnections'
    OBVIOUS
  <1>1. ASSUME UNCHANGED connectionsCount, Held' = Held
        PROVE  CountsConnections'
    BY <1>1 DEF CountsConnections
  <1>2. CASE UNCHANGED vars
    BY <1>1, <1>2 DEF vars, runVars, Held
  <1>3. ASSUME NEW c \in Conns, StartConnection(c) PROVE CountsConnections'
    <2>1. c \notin Held /\ Held' = Held \cup {c}
      BY <1>3 DEF StartConnection, Move, Held, TypeOK
    <2>2. Cardinality(Held') = Cardinality(Held) + 1
      BY <2>1, HeldFinite, FS_AddElement
    <2> QED
      BY <1>3, <2>2 DEF StartConnection, CountsConnections
  <1>4. ASSUME NEW c \in Conns, UpgradeFails(c) PROVE CountsConnections'
    <2>1. c \in Held /\ Held' = Held \ {c}
      BY <1>4 DEF UpgradeFails, Move, Held, TypeOK
    <2> QED
      BY <1>4, <2>1, EndCounts DEF UpgradeFails
  <1>5. ASSUME NEW c \in Conns, OnCloseEnd(c) PROVE CountsConnections'
    <2>1. c \in Held /\ Held' = Held \ {c}
      BY <1>5 DEF OnCloseEnd, Move, Held, TypeOK
    <2> QED
      BY <1>5, <2>1, EndCounts DEF OnCloseEnd
  <1>6. ASSUME NEW c \in Conns, Upgraded(c) PROVE CountsConnections'
    <2>1. Held' = Held
      BY <1>6 DEF Upgraded, Move, Held, TypeOK
    <2> QED
      BY <1>1, <1>6, <2>1 DEF Upgraded
  <1>7. ASSUME NEW c \in Conns, ReadMessage(c) PROVE CountsConnections'
    <2>1. Held' = Held /\ UNCHANGED connectionsCount
      BY <1>7 DEF ReadMessage, ReadFails, RefuseMessage, HandlePush, HandlePull,
         PullAccepted, HandleFragmentMetadata, ReadBinaryMessage, HandleClose,
         CanRead, Move, Held, TypeOK
    <2> QED
      BY <1>1, <2>1
  <1>8. ASSUME NEW c \in Conns, Proceed(c) \/ Leave(c), ~OnCloseEnd(c)
        PROVE  CountsConnections'
    <2>1. Held' = Held /\ UNCHANGED connectionsCount
      BY <1>8 DEF Proceed, PushAccepted, HandleCloseEnd, RelayFound,
         StreamNotFound, EndEmptyStream, Leave, CloseSocket, OnClosePush,
         OnCloseRemove, OnClosePull, OnCloseNoMode, Move, Held, TypeOK, runVars
    <2> QED
      BY <1>1, <2>1
  <1>9. ASSUME NEW c \in Conns,
               \/ SendHeartbeat(c) \/ HeartbeatStops(c) \/ PullStep(c)
               \/ \E p \in Conns : CloseBegins(c, p)
        PROVE  CountsConnections'
    <2>1. Held' = Held /\ UNCHANGED connectionsCount
      BY <1>9 DEF SendHeartbeat, HeartbeatStops, PullStep, AddListener,
         ListenFails, ReceiveClose, SendFragment, ReceiveInterrupt,
         RemoveListener, CloseBegins, runVars, Held
    <2> QED
      BY <1>1, <2>1
  <1>10. CASE RelayCloses \/ \E p \in Conns \cup {Relay} : CloseEnds(p)
    <2>1. Held' = Held /\ UNCHANGED connectionsCount
      BY <1>10 DEF RelayCloses, CloseEnds, runVars, Held
    <2> QED
      BY <1>1, <2>1
  <1> QED
    BY <1>2, <1>3, <1>4, <1>5, <1>6, <1>7, <1>8, <1>9, <1>10 DEF Next, Leave

(* The rate limiter's count is the number of the connections that exist,   *)
(* on every way out of ServeHTTP and of Run.                               *)
THEOREM CountsConnectionsHolds == Spec => []CountsConnections
  <1>1. Init => CountsConnections
    <2>1. SUFFICES ASSUME Init PROVE CountsConnections
      OBVIOUS
    <2>2. Held = {}
      BY <2>1 DEF Init, Held
    <2> QED
      BY <2>1, <2>2, FS_EmptySet DEF Init, CountsConnections
  <1> QED
    BY <1>1, NextCounts, TypeCorrect, PTL DEF Spec

(***************************************************************************)
(* The order of the messages that a peer is sent.                          *)
(***************************************************************************)
InOrder(out) ==
    /\ \A i, j \in 1 .. Len(out) :
           /\ i < j /\ out[j] = "OK" => out[i] = "H"
           /\ i < j /\ out[i] = "CLOSE" => out[j] = "H"
           /\ out[i] = "E" /\ out[j] = "E" => i = j
    /\ \A j \in 1 .. Len(out) :
           out[j] \in {"F", "CLOSE"} => \E i \in 1 .. j - 1 : out[i] = "OK"

Has(out, m) == \E i \in 1 .. Len(out) : out[i] = m

OnlyHeartbeats(out) == \A i \in 1 .. Len(out) : out[i] = "H"

NothingAfterClose(out) == \A i \in 1 .. Len(out) : out[i] = "CLOSE" => i = Len(out)

(* Only heartbeats are sent before the peer has chosen a mode.  The        *)
(* goroutine that pulls starts after OK, and nothing follows its CLOSE; on *)
(* an open socket CLOSE was only sent by a handler that is about to close  *)
(* it, without such a goroutine; and whoever was sent an error is not read *)
(* any more.                                                               *)
Replies(c) ==
    /\ InOrder(outbox[c])
    /\ pc[c] \in {"none", "upgrading", "creating", "relaying", "empty"} =>
           mode[c] = "none"
    /\ pc[c] = "handlingClose" => mode[c] = "push"
    /\ mode[c] = "none" /\ pc[c] \in {"none", "upgrading", "reading",
                                      "creating", "relaying"} =>
           OnlyHeartbeats(outbox[c])
    /\ pc[c] = "empty" => Has(outbox[c], "OK")
    /\ pull[c] # "none" =>
           /\ mode[c] = "pull"
           /\ Has(outbox[c], "OK")
           /\ NothingAfterClose(outbox[c])
    /\ socket[c] = "open" /\ Has(outbox[c], "CLOSE") =>
           pc[c] = "leaving" /\ pull[c] = "none"
    /\ Has(outbox[c], "E") =>
           pc[c] \in {"leaving", "closing", "unregister", "release", "gone"}
    /\ socket[c] = "closed" =>
           pull[c] # "none" \/ pc[c] \in {"closing", "unregister", "release",
                                         "gone"}

(* A message more, after what was sent before.                             *)
LEMMA OneMore ==
    ASSUME NEW out \in Seq(Messages), NEW m \in Messages, InOrder(out),
           Has(out, "CLOSE") => m = "H",
           m = "OK" => OnlyHeartbeats(out),
           m \in {"F", "CLOSE"} => Has(out, "OK"),
           m = "E" => ~Has(out, "E")
    PROVE  /\ InOrder(Append(out, m))
           /\ \A n : Has(Append(out, m), n) <=> n = m \/ Has(out, n)
           /\ ~Has(out, "CLOSE") => NothingAfterClose(Append(out, m))
           /\ m = "H" /\ OnlyHeartbeats(out) => OnlyHeartbeats(Append(out, m))
  <1> DEFINE new == Append(out, m)
  <1>1. /\ Len(out) \in Nat
        /\ Len(new) = Len(out) + 1
        /\ \A i \in 1 .. Len(out) : new[i] = out[i]
        /\ new[Len(out) + 1] = m
    BY AppendProperties, LenProperties
  <1> HIDE DEF new
  <1>2. \A i \in 1 .. Len(new) : i \in 1 .. Len(out) \/ i = Len(out) + 1
    BY <1>1
  <1>3. \A i \in 1 .. Len(out) : i \in 1 .. Len(new) /\ i # Len(out) + 1
    BY <1>1
  <1>4. Len(out) + 1 \in 1 .. Len(new)
    BY <1>1
  <1>5. ASSUME NEW n PROVE Has(new, n) <=> n = m \/ Has(out, n)
    BY <1>1, <1>2, <1>3, <1>4 DEF Has
  <1>6. ~Has(out, "CLOSE") => NothingAfterClose(new)
    BY <1>1, <1>2 DEF Has, NothingAfterClose
  <1>7. m = "H" /\ OnlyHeartbeats(out) => OnlyHeartbeats(new)
    BY <1>1, <1>2 DEF OnlyHeartbeats
  <1>8. ASSUME NEW i \in 1 .. Len(new), NEW j \in 1 .. Len(new)
        PROVE  /\ i < j /\ new[j] = "OK" => new[i] = "H"
               /\ i < j /\ new[i] = "CLOSE" => new[j] = "H"
               /\ new[i] = "E" /\ new[j] = "E" => i = j
    <2>1. i < j => i \in 1 .. Len(out)
      BY <1>1, <1>2, <1>8
    <2>2. i < j /\ new[j] = "OK" => new[i] = "H"
      BY <1>1, <1>2, <2>1 DEF InOrder, OnlyHeartbeats
    <2>3. i < j /\ new[i] = "CLOSE" => new[j] = "H"
      BY <1>1, <1>2, <2>1 DEF InOrder, Has
    <2>4. new[i] = "E" /\ new[j] = "E" => i = j
      BY <1>1, <1>2 DEF InOrder, Has
    <2> QED
      BY <2>2, <2>3, <2>4
  <1>9. ASSUME NEW j \in 1 .. Len(new), new[j] \in {"F", "CLOSE"}
        PROVE  \E i \in 1 .. j - 1 : new[i] = "OK"
    <2>1. CASE j \in 1 .. Len(out)
      <3>1. PICK i \in 1 .. j - 1 : out[i] = "OK"
        BY <1>1, <1>9, <2>1 DEF InOrder
      <3>2. i \in 1 .. Len(out)
        BY <1>1, <2>1
      <3> QED
        BY <1>1, <3>1, <3>2
    <2>2. CASE j = Len(out) + 1
      <3>1. PICK i \in 1 .. Len(out) : out[i] = "OK"
        BY <1>1, <1>9, <2>2 DEF Has
      <3> QED
        BY <1>1, <2>2, <3>1
    <2> QED
      BY <1>2, <2>1, <2>2
  <1>10. InOrder(new)
    BY <1>8, <1>9 DEF InOrder
  <1> QED
    BY <1>5, <1>6, <1>7, <1>10 DEF new

(* What is the same for a connection leaves its replies in order.          *)
LEMMA SameReplies ==
    ASSUME NEW c \in Conns, Replies(c),
           outbox'[c] = outbox[c], pc'[c] = pc[c], mode'[c] = mode[c],
           pull'[c] = pull[c], socket'[c] = socket[c]
    PROVE  Replies(c)'
  BY DEF Replies

(* A step of one connection changes nothing of another one but its source. *)
LEMMA OthersKept ==
    ASSUME TypeOK, NEW c \in Conns, NEW d \in Conns, c # d,
           \/ StartConnection(c) \/ UpgradeFails(c) \/ Upgraded(c)
           \/ ReadMessage(c) \/ Proceed(c) \/ Leave(c)
           \/ SendHeartbeat(c) \/ HeartbeatStops(c) \/ PullStep(c)
    PROVE  /\ outbox'[d] = outbox[d]
           /\ pc'[d] = pc[d]
           /\ mode'[d] = mode[d]
           /\ pull'[d] = pull[d]
           /\ socket'[d] = socket[d]
  <1> USE DEF Move, runVars, pullVars, Send, TypeOK
  <1>1. CASE StartConnection(c) \/ UpgradeFails(c) \/ Upgraded(c)
    BY <1>1 DEF StartConnection, UpgradeFails, Upgraded
  <1>2. CASE ReadMessage(c)
    BY <1>2 DEF ReadMessage, ReadFails, RefuseMessage, HandlePush, HandlePull,
       PullAccepted, HandleFragmentMetadata, ReadBinaryMessage, HandleClose
  <1>3. CASE Proceed(c)
    BY <1>3 DEF Proceed, PushAccepted, HandleCloseEnd, RelayFound,
       PullAccepted, StreamNotFound, EndEmptyStream
  <1>4. CASE Leave(c)
    BY <1>4 DEF Leave, CloseSocket, OnClosePush, OnCloseRemove, OnClosePull,
       OnCloseNoMode, OnCloseEnd
  <1>5. CASE SendHeartbeat(c) \/ HeartbeatStops(c) \/ PullStep(c)
    BY <1>5 DEF SendHeartbeat, HeartbeatStops, PullStep, AddListener,
       ListenFails, ReceiveClose, SendClose, SendFragment, ReceiveInterrupt,
       RemoveListener
  <1> QED
    BY <1>1, <1>2, <1>3, <1>4, <1>5

(* OK goes to a peer that was sent heartbeats at most.                     *)
LEMMA SendOK ==
    ASSUME NEW out \in Seq(Messages), InOrder(out), OnlyHeartbeats(out)
    PROVE  LET new == Append(out, "OK")
           IN  /\ InOrder(new)
               /\ Has(new, "OK")
               /\ ~Has(new, "CLOSE")
               /\ ~Has(new, "E")
               /\ NothingAfterClose(new)
  <1>1. ~Has(out, "CLOSE") /\ ~Has(out, "E")
    BY DEF OnlyHeartbeats, Has
  <1> QED
    BY <1>1, OneMore DEF Messages

(* What the handler does by reading a message.                             *)
LEMMA ReadReplies ==
    ASSUME TypeOK, NEW c \in Conns, Replies(c), ReadMessage(c)
    PROVE  Replies(c)'
  <1> USE DEF Move, pullVars, sourceVars
  <1>t. outbox[c] \in Seq(Messages)
    BY DEF TypeOK, Messages
  <1>1. CASE ReadFails(c)
    BY <1>1 DEF ReadFails, Replies, TypeOK
  <1>2. CASE CanRead(c) /\ RefuseMessage(c)
    <2>1. /\ ~Has(outbox[c], "CLOSE")
          /\ ~Has(outbox[c], "E")
          /\ InOrder(outbox[c])
      BY <1>2 DEF CanRead, Replies
    <2>2. outbox'[c] = Append(outbox[c], "E")
      BY <1>2 DEF CanRead, RefuseMessage, Send, TypeOK
    <2>3. /\ InOrder(outbox'[c])
          /\ Has(outbox[c], "OK") => Has(outbox'[c], "OK")
          /\ NothingAfterClose(outbox'[c])
          /\ ~Has(outbox'[c], "CLOSE")
      BY <1>t, <2>1, <2>2, OneMore DEF Messages
    <2>4. pc'[c] = "leaving" /\ UNCHANGED <<mode, pull, socket>>
      BY <1>2 DEF RefuseMessage, TypeOK
    <2> QED
      BY <1>2, <2>3, <2>4 DEF CanRead, Replies
  <1>3. ASSUME NEW s \in Streams, HandlePush(c, s)
        PROVE  Replies(c)'
    BY <1>3 DEF HandlePush, CanRead, Replies, TypeOK
  <1>4. ASSUME NEW s \in Streams, HandlePull(c, s)
        PROVE  Replies(c)'
    <2>1. CASE sources[s] = None
      BY <1>4, <2>1 DEF HandlePull, CanRead, Replies, TypeOK
    <2>2. CASE sources[s] # None
      <3>1. /\ OnlyHeartbeats(outbox[c]) /\ InOrder(outbox[c])
            /\ socket[c] = "open" /\ pc[c] = "reading"
        BY <1>4 DEF HandlePull, CanRead, Replies
      <3>2. outbox'[c] = Append(outbox[c], "OK")
        BY <1>4, <2>2, <3>1 DEF HandlePull, PullAccepted, Send, TypeOK
      <3>3. mode'[c] = "pull" /\ UNCHANGED <<pc, socket>>
        BY <1>4, <2>2 DEF HandlePull, PullAccepted, TypeOK
      <3> QED
        BY <1>t, <3>1, <3>2, <3>3, SendOK DEF Replies
    <2> QED
      BY <2>1, <2>2
  <1>5. CASE HandleFragmentMetadata(c) \/ ReadBinaryMessage(c)
    BY <1>5, SameReplies DEF HandleFragmentMetadata, ReadBinaryMessage
  <1>6. CASE HandleClose(c)
    BY <1>6 DEF HandleClose, CanRead, Replies, TypeOK
  <1> QED
    BY <1>1, <1>2, <1>3, <1>4, <1>5, <1>6 DEF ReadMessage

(* What it does once it has read one.                                      *)
LEMMA ProceedReplies ==
    ASSUME TypeOK, NEW c \in Conns, Replies(c), Proceed(c)
    PROVE  Replies(c)'
  <1> USE DEF Move, pullVars, sourceVars, runVars
  <1>t. outbox[c] \in Seq(Messages)
    BY DEF TypeOK, Messages
  <1>a. ASSUME pc[c] \in {"creating", "relaying", "empty"}
        PROVE  /\ InOrder(outbox[c])
               /\ mode[c] = "none" /\ pull[c] = "none" /\ socket[c] = "open"
               /\ ~Has(outbox[c], "CLOSE") /\ ~Has(outbox[c], "E")
    BY <1>a DEF Replies, TypeOK
  <1>b. ASSUME pc[c] \in {"creating", "relaying"}
        PROVE  OnlyHeartbeats(outbox[c])
    BY <1>b DEF Replies
  <1>1. CASE PushAccepted(c)
    <2>1. outbox'[c] = Append(outbox[c], "OK")
      BY <1>1, <1>a DEF PushAccepted, Send, TypeOK
    <2>2. /\ mode'[c] = "push"
          /\ pc'[c] = "reading"
          /\ UNCHANGED <<pull, socket>>
      BY <1>1 DEF PushAccepted, TypeOK
    <2> QED
      BY <1>t, <1>1, <1>a, <1>b, <2>1, <2>2, SendOK DEF PushAccepted, Replies
  <1>2. CASE HandleCloseEnd(c)
    BY <1>2 DEF HandleCloseEnd, Replies, TypeOK
  <1>3. CASE RelayFound(c)
    <2>1. outbox'[c] = Append(outbox[c], "OK")
      BY <1>3, <1>a DEF RelayFound, PullAccepted, Send, TypeOK
    <2>2. /\ mode'[c] = "pull"
          /\ pc'[c] = "reading"
          /\ UNCHANGED socket
      BY <1>3 DEF RelayFound, PullAccepted, TypeOK
    <2> QED
      BY <1>t, <1>3, <1>a, <1>b, <2>1, <2>2, SendOK DEF RelayFound, Replies
  <1>4. CASE StreamNotFound(c)
    <2>1. outbox'[c] = Append(outbox[c], "OK")
      BY <1>4, <1>a DEF StreamNotFound, Send, TypeOK
    <2>2. /\ pc'[c] = "empty"
          /\ UNCHANGED <<pull, mode, socket>>
      BY <1>4 DEF StreamNotFound, TypeOK
    <2> QED
      BY <1>t, <1>4, <1>a, <1>b, <2>1, <2>2, SendOK DEF StreamNotFound, Replies
  <1>5. CASE EndEmptyStream(c)
    <2>1. outbox'[c] = Append(outbox[c], "CLOSE")
      BY <1>5, <1>a DEF EndEmptyStream, Send, TypeOK
    <2>2. /\ pc'[c] = "leaving"
          /\ UNCHANGED <<pull, mode, socket>>
      BY <1>5 DEF EndEmptyStream, TypeOK
    <2>3. Has(outbox[c], "OK")
      BY <1>5 DEF EndEmptyStream, Replies
    <2>4. InOrder(outbox'[c])
      BY <1>t, <1>5, <1>a, <2>1, <2>3, OneMore DEF EndEmptyStream, Messages
    <2> QED
      BY <1>5, <1>a, <2>2, <2>4 DEF EndEmptyStream, Replies
  <1> QED
    BY <1>1, <1>2, <1>3, <1>4, <1>5 DEF Proceed

(* What it does at the end.                                                *)
LEMMA LeaveReplies ==
    ASSUME TypeOK, NEW c \in Conns, Replies(c), Leave(c)
    PROVE  Replies(c)'
  <1> USE DEF Move, pullVars, sourceVars, runVars
  <1>1. CASE CloseSocket(c)
    BY <1>1 DEF CloseSocket, Replies, TypeOK
  <1>2. CASE OnClosePush(c) \/ OnClosePull(c) \/ OnCloseNoMode(c)
    BY <1>2 DEF OnClosePush, OnClosePull, OnCloseNoMode, Replies, TypeOK
  <1>3. CASE OnCloseRemove(c) \/ OnCloseEnd(c)
    BY <1>3 DEF OnCloseRemove, OnCloseEnd, Replies, TypeOK
  <1> QED
    BY <1>1, <1>2, <1>3 DEF Leave

(* What the goroutine that pulls does: it was preceded by OK.              *)
LEMMA PullReplies ==
    ASSUME TypeOK, NEW c \in Conns, Replies(c), PullStep(c)
    PROVE  Replies(c)'
  <1> USE DEF sourceVars, runVars, pullVars
  <1>t. outbox[c] \in Seq(Messages)
    BY DEF TypeOK, Messages
  <1>1. /\ mode[c] = "pull"
        /\ Has(outbox[c], "OK")
        /\ InOrder(outbox[c])
        /\ NothingAfterClose(outbox[c])
        /\ socket[c] = "open" => ~Has(outbox[c], "CLOSE")
    BY DEF PullStep, AddListener, ListenFails, ReceiveClose, SendFragment,
           ReceiveInterrupt, RemoveListener, Replies
  <1>2. CASE AddListener(c) \/ ReceiveInterrupt(c) \/ RemoveListener(c)
    BY <1>2 DEF AddListener, ReceiveInterrupt, RemoveListener, Replies, TypeOK
  <1>3. CASE SendFragment(c)
    <2>1. outbox'[c] = Append(outbox[c], "F")
      BY <1>3 DEF SendFragment, Send, TypeOK
    <2>2. /\ InOrder(outbox'[c])
          /\ Has(outbox'[c], "OK")
          /\ NothingAfterClose(outbox'[c])
          /\ ~Has(outbox'[c], "CLOSE")
          /\ Has(outbox'[c], "E") => Has(outbox[c], "E")
      BY <1>t, <1>1, <1>3, <2>1, OneMore DEF Messages, SendFragment
    <2>3. UNCHANGED <<pc, mode, pull, socket>>
      BY <1>3 DEF SendFragment
    <2> QED
      BY <1>1, <2>2, <2>3 DEF Replies
  <1>4. CASE ListenFails(c) \/ ReceiveClose(c)
    <2>1. /\ UNCHANGED <<pc, mode>>
          /\ pull'[c] # "none"
          /\ socket'[c] = "closed"
          /\ pc[c] \notin {"none", "upgrading", "creating", "relaying", "empty"}
      BY <1>1, <1>4 DEF ListenFails, ReceiveClose, SendClose, TypeOK, Replies
    <2>2. CASE socket[c] = "closed"
      <3>1. outbox'[c] = outbox[c]
        BY <1>4, <2>2 DEF ListenFails, ReceiveClose, SendClose, Send, TypeOK
      <3> QED
        BY <1>1, <2>1, <3>1 DEF Replies
    <2>3. CASE socket[c] = "open"
      <3>1. outbox'[c] = Append(outbox[c], "CLOSE")
        BY <1>4, <2>3 DEF ListenFails, ReceiveClose, SendClose, Send, TypeOK
      <3>2. /\ InOrder(outbox'[c])
            /\ Has(outbox'[c], "OK")
            /\ NothingAfterClose(outbox'[c])
            /\ Has(outbox'[c], "E") => Has(outbox[c], "E")
        BY <1>t, <1>1, <2>3, <3>1, OneMore DEF Messages
      <3> QED
        BY <1>1, <2>1, <3>2 DEF Replies
    <2> QED
      BY <2>2, <2>3 DEF TypeOK
  <1> QED
    BY <1>2, <1>3, <1>4 DEF PullStep

(* A heartbeat may follow anything on an open socket.                      *)
LEMMA HeartbeatReplies ==
    ASSUME TypeOK, NEW c \in Conns, Replies(c), SendHeartbeat(c)
    PROVE  Replies(c)'
  <1>1. outbox[c] \in Seq(Messages)
    BY DEF TypeOK, Messages
  <1>2. /\ outbox'[c] = Append(outbox[c], "H")
        /\ UNCHANGED <<pc, mode, pull, socket>>
        /\ socket[c] = "open"
    BY DEF SendHeartbeat, Send, TypeOK, runVars, pullVars
  <1>3. pull[c] # "none" => ~Has(outbox[c], "CLOSE")
    BY <1>2 DEF Replies
  <1>4. /\ InOrder(outbox'[c])
        /\ OnlyHeartbeats(outbox[c]) => OnlyHeartbeats(outbox'[c])
        /\ ~Has(outbox[c], "CLOSE") => NothingAfterClose(outbox'[c])
        /\ \A n \in {"OK", "E", "CLOSE"} : Has(outbox'[c], n) <=> Has(outbox[c], n)
    BY <1>1, <1>2, OneMore DEF Replies, Messages
  <1> QED
    BY <1>2, <1>3, <1>4 DEF Replies

(* Every step keeps the replies to every connection in order.              *)
LEMMA NextReplies ==
    ASSUME TypeOK, [Next]_vars, NEW d \in Conns, Replies(d)
    PROVE  Replies(d)'
  <1>1. CASE UNCHANGED vars
    BY <1>1, SameReplies DEF vars, runVars, pullVars
  <1>2. ASSUME NEW c \in Conns, c # d,
               \/ StartConnection(c) \/ UpgradeFails(c) \/ Upgraded(c)
               \/ ReadMessage(c) \/ Proceed(c) \/ Leave(c)
               \/ SendHeartbeat(c) \/ HeartbeatStops(c) \/ PullStep(c)
        PROVE  Replies(d)'
    BY <1>2, OthersKept, SameReplies
  <1>3. CASE StartConnection(d) \/ UpgradeFails(d) \/ Upgraded(d)
    BY <1>3 DEF StartConnection, UpgradeFails, Upgraded, Move, pullVars,
                Replies, TypeOK
  <1>4. CASE HeartbeatStops(d)
    BY <1>4, SameReplies DEF HeartbeatStops, runVars, pullVars
  <1>5. CASE \/ ReadMessage(d) \/ Proceed(d) \/ Leave(d) \/ PullStep(d)
             \/ SendHeartbeat(d)
    BY <1>5, ReadReplies, ProceedReplies, LeaveReplies, PullReplies,
       HeartbeatReplies
  <1>6. CASE \/ \E c, p \in Conns : CloseBegins(c, p)
             \/ RelayCloses
             \/ \E p \in Conns \cup {Relay} : CloseEnds(p)
    <2>1. UNCHANGED <<outbox, pc, mode, pull, socket>>
      BY <1>6 DEF CloseBegins, RelayCloses, CloseEnds, runVars, pullVars
    <2> QED
      BY <2>1, SameReplies
  <1> QED
    BY <1>1, <1>2, <1>3, <1>4, <1>5, <1>6 DEF Next

AllReplies == \A c \in Conns : Replies(c)

(* The replies of all the connections stay in order.                       *)
LEMMA RepliesInvariant == Spec => []AllReplies
  <1>1. Init => AllReplies
    BY DEF Init, AllReplies, Replies, InOrder, Has, OnlyHeartbeats
  <1>2. TypeOK /\ AllReplies /\ [Next]_vars => AllReplies'
    BY NextReplies DEF AllReplies
  <1> QED
    BY <1>1, <1>2, TypeCorrect, PTL DEF Spec

(* But for heartbeats OK comes first and CLOSE last, at most one error is  *)
(* sent, and fragments only follow OK, although three goroutines write to  *)
(* the same socket (HandlePull, PullStream, sendHeartbeatMessages); and no *)
(* heartbeat follows the CLOSE of SendClose.                               *)
THEOREM RepliesInOrderHolds == Spec => []RepliesInOrder
  <1>1. TypeOK /\ AllReplies => RepliesInOrder
    <2> SUFFICES ASSUME TypeOK, AllReplies, NEW c \in Conns
                 PROVE  InOrder(outbox[c]) /\
                        \A i, j \in 1 .. Len(outbox[c]) :
                            i < j /\ outbox[c][i] = "CLOSE" => pull[c] = "none"
        BY DEF InOrder, RepliesInOrder
    <2>1. Len(outbox[c]) \in Nat
        BY DEF TypeOK
    <2>2. InOrder(outbox[c])
          /\ (pull[c] # "none" => NothingAfterClose(outbox[c]))
        BY DEF AllReplies, Replies
    <2> QED
        BY <2>1, <2>2 DEF NothingAfterClose
  <1> QED
    BY <1>1, RepliesInvariant, TypeCorrect, PTL

(***************************************************************************)
(* The registry implements the ownership of the streams.                   *)
(***************************************************************************)

(* Only a handler in pull mode was given a source, an open source is of    *)
(* some stream, and a handler that pushes, or is about to, has a source.   *)
Given(c) ==
    /\ mode[c] # "pull" => pullFrom[c] = None
    /\ source[c] = "open" => streamId[c] \in Streams
    /\ pc[c] = "creating" \/ sourceToPush[c] => source[c] # "none"

AllGiven == \A c \in Conns : Given(c)

(* A step that changes none of this, for one connection.                   *)
LEMMA SameGiven ==
    ASSUME NEW c \in Conns, Given(c), pullFrom'[c] = pullFrom[c],
           mode'[c] = mode[c] \/ mode'[c] = "pull" \/ mode[c] # "pull",
           streamId'[c] = streamId[c] \/ streamId'[c] \in Streams
               \/ source[c] # "open",
           source'[c] = source[c] \/ source'[c] = "closed",
           pc'[c] = "creating" => pc[c] = "creating",
           sourceToPush'[c] => pc[c] = "creating" \/ sourceToPush[c]
    PROVE  Given(c)'
  BY DEF Given

(* Every step keeps it.                                                    *)
LEMMA NextGiven ==
    IInv /\ IInv' /\ AllReplies /\ AllGiven /\ [Next]_vars => AllGiven'
  <1> SUFFICES ASSUME IInv, AllReplies, [Next]_vars,
                      NEW d \in Conns, Given(d)
               PROVE  Given(d)'
    BY DEF AllGiven
  <1> USE DEF Move, sourceVars, runVars, pullVars
  <1>0. TypeOK /\ SourceInv
    BY DEF IInv
  <1>1. CASE UNCHANGED vars
    BY <1>1, SameGiven DEF vars
  <1>2. ASSUME NEW c \in Conns,
               StartConnection(c) \/ UpgradeFails(c) \/ Upgraded(c)
                   \/ SendHeartbeat(c) \/ HeartbeatStops(c) \/ PullStep(c)
                   \/ \E p \in Conns : CloseBegins(c, p)
        PROVE  Given(d)'
    <2>1. /\ UNCHANGED <<mode, streamId, source, pullFrom, sourceToPush>>
          /\ pc'[d] = "creating" => pc[d] = "creating"
      BY <1>0, <1>2 DEF StartConnection, UpgradeFails, Upgraded, SendHeartbeat,
         HeartbeatStops, PullStep, AddListener, ListenFails, ReceiveClose,
         SendFragment, ReceiveInterrupt, RemoveListener, CloseBegins, TypeOK
    <2> QED
      BY <2>1, SameGiven
  <1>3. ASSUME NEW c \in Conns, ReadMessage(c) PROVE Given(d)'
    <2>1. CASE ReadFails(c) \/ RefuseMessage(c) \/ HandleFragmentMetadata(c)
                 \/ ReadBinaryMessage(c)
      <3>1. /\ UNCHANGED <<mode, streamId, source, pullFrom, sourceToPush>>
            /\ pc'[d] = "creating" => pc[d] = "creating"
        BY <1>0, <2>1 DEF ReadFails, RefuseMessage, HandleFragmentMetadata,
           ReadBinaryMessage, TypeOK
      <3> QED
        BY <3>1, SameGiven
    <2>2. ASSUME NEW s \in Streams, HandlePush(c, s) PROVE Given(d)'
      BY <1>0, <2>2 DEF HandlePush, CreateSource, Given, TypeOK
    <2>3. ASSUME NEW s \in Streams, HandlePull(c, s) PROVE Given(d)'
      <3>1. /\ UNCHANGED <<source, sourceToPush>>
            /\ streamId' = [streamId EXCEPT ![c] = s]
            /\ pc'[d] = "creating" => pc[d] = "creating"
        BY <1>0, <2>3 DEF HandlePull, TypeOK
      <3>2. mode'[d] # "pull" => mode[d] # "pull" /\ pullFrom'[d] = pullFrom[d]
        BY <1>0, <2>3 DEF HandlePull, PullAccepted, TypeOK
      <3> QED
        BY <1>0, <3>1, <3>2 DEF Given, TypeOK
    <2>4. CASE HandleClose(c)
      BY <1>0, <2>4, SameGiven DEF HandleClose, TypeOK
    <2> QED
      BY <1>3, <2>1, <2>2, <2>3, <2>4 DEF ReadMessage
  <1>4. ASSUME NEW c \in Conns, Proceed(c) PROVE Given(d)'
    <2>1. CASE StreamNotFound(c) \/ EndEmptyStream(c)
      <3>1. /\ UNCHANGED <<mode, streamId, source, pullFrom, sourceToPush>>
            /\ pc'[d] = "creating" => pc[d] = "creating"
        BY <1>0, <2>1 DEF StreamNotFound, EndEmptyStream, TypeOK
      <3> QED
        BY <3>1, SameGiven
    <2>2. CASE PushAccepted(c)
      <3>1. mode[c] = "none"
        BY <2>2 DEF PushAccepted, AllReplies, Replies
      <3> QED
        BY <1>0, <2>2, <3>1, SameGiven DEF PushAccepted, TypeOK
    <2>3. CASE HandleCloseEnd(c)
      <3>1. mode[c] = "push" /\ source[c] = "closed"
        BY <1>0, <2>3 DEF HandleCloseEnd, AllReplies, Replies
      <3> QED
        BY <1>0, <2>3, <3>1, SameGiven DEF HandleCloseEnd, TypeOK
    <2>4. CASE RelayFound(c)
      BY <1>0, <2>4 DEF RelayFound, PullAccepted, Given, TypeOK
    <2> QED
      BY <1>4, <2>1, <2>2, <2>3, <2>4 DEF Proceed
  <1>5. ASSUME NEW c \in Conns, Leave(c) PROVE Given(d)'
    <2>1. /\ UNCHANGED <<mode, streamId, source, pullFrom>>
          /\ pc'[d] = "creating" => pc[d] = "creating"
          /\ sourceToPush'[d] => sourceToPush[d]
      <3>1. CASE OnCloseRemove(c)
        BY <1>0, <3>1 DEF OnCloseRemove, TypeOK
      <3>2. CASE CloseSocket(c) \/ OnClosePush(c) \/ OnClosePull(c)
                   \/ OnCloseNoMode(c) \/ OnCloseEnd(c)
        BY <1>0, <3>2 DEF CloseSocket, OnClosePush, OnClosePull,
           OnCloseNoMode, OnCloseEnd, TypeOK
      <3> QED
        BY <1>5, <3>1, <3>2 DEF Leave
    <2> QED
      BY <2>1, SameGiven
  <1>6. CASE RelayCloses
    BY <1>6, SameGiven DEF RelayCloses
  <1>7. ASSUME NEW p \in Conns \cup {Relay}, CloseEnds(p) PROVE Given(d)'
    <2>1. UNCHANGED <<mode, streamId, pullFrom, sourceToPush, pc>>
      BY <1>7 DEF CloseEnds
    <2>2. source'[d] = source[d] \/ source'[d] = "closed"
      BY <1>7 DEF CloseEnds
    <2> QED
      BY <2>1, <2>2, SameGiven
  <1> QED
    BY <1>1, <1>2, <1>3, <1>4, <1>5, <1>6, <1>7 DEF Next

(* Nothing that the ownership depends on changes.                          *)
LEMMA SameOwners ==
    ASSUME TypeOK, UNCHANGED <<sources, source>>,
           \A p \in Conns : source[p] = "open" => streamId'[p] = streamId[p]
    PROVE  UNCHANGED <<owner, standing>>
  <1>1. owner' = owner
    BY DEF owner
  <1>2. ASSUME NEW p \in Conns PROVE standing'[p] = standing[p]
    <2>1. CASE source[p] = "open"
      BY <2>1 DEF standing
    <2>2. CASE source[p] \in {"none", "closed"}
      BY <2>2 DEF standing
    <2> QED
      BY <2>1, <2>2 DEF TypeOK
  <1>3. standing' = standing
    BY <1>2 DEF standing
  <1> QED
    BY <1>1, <1>3

(* What the standing of a publisher says of its source.                    *)
LEMMA StandingFacts ==
    ASSUME TypeOK, NEW p \in Conns
    PROVE  /\ source[p] = "none" <=> standing[p] = "none"
           /\ source[p] = "closed" <=> standing[p] = "ended"
           /\ source[p] = "open" <=> Ownership!Publishing(p)
           /\ standing[p] = "owner" <=>
                  source[p] = "open" /\ sources[streamId[p]] = p
           /\ standing[p] = "displaced" <=>
                  source[p] = "open" /\ sources[streamId[p]] # p
  <1>1. source[p] \in {"none", "open", "closed"}
    BY DEF TypeOK
  <1> QED
    BY <1>1 DEF standing, Ownership!Publishing

(* Close() of the source p returns: it was open until then.                *)
LEMMA ClosingEnds ==
    ASSUME TypeOK, SourceInv, NEW p \in Conns, CloseEnds(p)
    PROVE  Ownership!End(p)
  <1>0. None \notin Conns
    BY ConnectionsAssumption
  <1>1. /\ source[p] = "open"
        /\ source' = [source EXCEPT ![p] = "closed"]
        /\ UNCHANGED <<sources, streamId, published, pullFrom>>
    <2>1. source[p] = "open"
      BY DEF CloseEnds, SourceInv
    <2>2. source' = [source EXCEPT ![p] = "closed"]
      BY DEF CloseEnds, TypeOK
    <2>3. UNCHANGED <<sources, streamId, published, pullFrom>>
      BY DEF CloseEnds, runVars, pullVars
    <2> QED
      BY <2>1, <2>2, <2>3
  <1>2. Ownership!Publishing(p)
    BY <1>1, StandingFacts
  <1>3. ASSUME NEW s \in Streams
        PROVE  owner'[s] = IF owner[s] = p THEN None ELSE owner[s]
    BY <1>0, <1>1 DEF owner, TypeOK
  <1>4. owner' = [s \in Streams |-> IF owner[s] = p THEN None ELSE owner[s]]
    BY <1>3 DEF owner
  <1>5. ASSUME NEW q \in Conns
        PROVE  standing'[q] = IF q = p THEN "ended" ELSE standing[q]
    BY <1>1 DEF standing, TypeOK
  <1>6. standing' = [standing EXCEPT ![p] = "ended"]
    BY <1>5 DEF standing
  <1> QED
    BY <1>1, <1>2, <1>4, <1>6 DEF Ownership!End

(* The entry of a closed source goes.                                      *)
LEMMA RemoveKeepsOwners ==
    ASSUME TypeOK, AllGiven, NEW c \in Conns, source[c] = "closed",
           RemoveSource(c),
           source' = source,
           \A p \in Conns : p # c => streamId'[p] = streamId[p]
    PROVE  UNCHANGED <<owner, standing>>
  <1>0. None \notin Conns
    BY ConnectionsAssumption
  <1>1. ASSUME NEW s \in Streams PROVE owner'[s] = owner[s]
    BY <1>0 DEF owner, RemoveSource, TypeOK
  <1>2. ASSUME NEW p \in Conns PROVE standing'[p] = standing[p]
    <2>1. CASE source[p] = "open"
      <3>1. streamId[p] \in Streams /\ p # c /\ streamId'[p] = streamId[p]
        BY <2>1 DEF AllGiven, Given
      <3>2. sources'[streamId[p]] = p <=> sources[streamId[p]] = p
        BY <1>0, <3>1 DEF RemoveSource, TypeOK
      <3> QED
        BY <2>1, <3>1, <3>2 DEF standing
    <2>2. CASE source[p] \in {"none", "closed"}
      BY <2>2 DEF standing
    <2> QED
      BY <2>1, <2>2 DEF TypeOK
  <1>3. owner' = owner /\ standing' = standing
    <2>1. owner' = owner
      BY <1>1 DEF owner
    <2>2. standing' = standing
      BY <1>2 DEF standing
    <2> QED
      BY <2>1, <2>2
  <1> QED
    BY <1>3

(* A publisher takes its stream.                                           *)
LEMMA PushTakes ==
    ASSUME IInv, AllGiven, NEW c \in Conns, NEW s \in Streams,
           HandlePush(c, s)
    PROVE  Ownership!Take(c, s)
  <1>0. TypeOK /\ EntryInv /\ SourceInv /\ None \notin Conns
    BY ConnectionsAssumption DEF IInv
  <1>1. /\ source[c] = "none"
        /\ \A t \in Streams : sources[t] # c
    BY <1>0 DEF HandlePush, Move, CanRead, EntryInv, SourceInv
  <1>2. /\ source' = [source EXCEPT ![c] = "open"]
        /\ sources' = [sources EXCEPT ![s] = c]
        /\ streamId' = [streamId EXCEPT ![c] = s]
        /\ UNCHANGED <<published, pullFrom>>
    BY DEF HandlePush, CreateSource, pullVars
  <1>3. ASSUME NEW t \in Streams
        PROVE  owner'[t] = IF t = s THEN c ELSE owner[t]
    BY <1>0, <1>1, <1>2 DEF owner, TypeOK
  <1>4. owner' = [owner EXCEPT ![s] = c]
    BY <1>3 DEF owner
  <1>5. ASSUME NEW q \in Conns, q # c
        PROVE  standing'[q] = IF q = owner[s] THEN "displaced" ELSE standing[q]
    <2>1. source'[q] = source[q] /\ streamId'[q] = streamId[q]
      BY <1>0, <1>2, <1>5 DEF TypeOK
    <2>2. CASE source[q] = "open"
      <3>1. streamId[q] \in Streams
        BY <2>2 DEF AllGiven, Given
      <3>2. q = owner[s] <=> sources[s] = q
        BY <1>0, <2>2 DEF owner
      <3>3. sources[s] = q => streamId[q] = s
        BY <1>0 DEF EntryInv
      <3>4. sources'[streamId[q]] = IF streamId[q] = s THEN c
                                                      ELSE sources[streamId[q]]
        BY <1>0, <1>2, <3>1 DEF TypeOK
      <3>5. standing'[q] = IF sources'[streamId[q]] = q THEN "owner"
                                                       ELSE "displaced"
        BY <2>1, <2>2 DEF standing
      <3>6. standing[q] = IF sources[streamId[q]] = q THEN "owner"
                                                     ELSE "displaced"
        BY <2>2 DEF standing
      <3> QED
        BY <1>5, <3>2, <3>3, <3>4, <3>5, <3>6
    <2>3. CASE source[q] # "open"
      <3>1. q # owner[s]
        BY <1>0, <2>3 DEF owner
      <3>2. source[q] \in {"none", "closed"}
        BY <1>0, <2>3 DEF TypeOK
      <3> QED
        BY <2>1, <3>1, <3>2 DEF standing
    <2> QED
      BY <2>2, <2>3
  <1>6. standing'[c] = "owner"
    BY <1>0, <1>2 DEF standing, TypeOK
  <1>7. standing' = [q \in Conns |-> IF q = c THEN "owner"
                                     ELSE IF q = owner[s] THEN "displaced"
                                     ELSE standing[q]]
    BY <1>5, <1>6 DEF standing
  <1>8. standing[c] = "none"
    BY <1>1 DEF standing
  <1> QED
    BY <1>2, <1>4, <1>7, <1>8 DEF Ownership!Take

(* A spectator is given the source that it finds, or a relay.              *)
LEMMA PullGives ==
    ASSUME IInv, AllGiven, NEW c \in Conns, NEW x \in Conns \cup {Relay},
           mode[c] = "none",
           x = Relay \/ \E s \in Streams : x = sources[s],
           pullFrom' = [pullFrom EXCEPT ![c] = x],
           UNCHANGED <<sources, source, published>>,
           \A p \in Conns : source[p] = "open" => streamId'[p] = streamId[p]
    PROVE  Ownership!Give(c, x)
  <1>0. TypeOK /\ EntryInv /\ {Relay, None} \cap Conns = {} /\ Relay # None
    BY ConnectionsAssumption DEF IInv
  <1>1. pullFrom[c] = None
    BY DEF AllGiven, Given
  <1>2. UNCHANGED <<owner, standing>>
    BY <1>0, SameOwners
  <1>3. ASSUME x # Relay PROVE standing[x] \in {"owner", "ended"}
    <2>1. PICK s \in Streams : x = sources[s]
      BY <1>3
    <2>2. /\ x \in Conns
          /\ streamId[x] = s
          /\ source[x] # "none"
      BY <1>0, <1>3, <2>1 DEF EntryInv
    <2> QED
      BY <1>0, <2>1, <2>2, StandingFacts DEF TypeOK
  <1> QED
    BY <1>1, <1>2, <1>3 DEF Ownership!Give

(* Every step of the connections is a step of the ownership, or none.      *)
LEMMA NextOwns ==
    IInv /\ IInv' /\ AllReplies /\ AllGiven /\ [Next]_vars
        => [Ownership!Next]_(Ownership!ownershipVars)
  <1> SUFFICES ASSUME IInv, IInv', AllReplies, AllGiven, [Next]_vars
               PROVE  Ownership!Next \/ UNCHANGED Ownership!ownershipVars
    OBVIOUS
  <1> USE DEF Move, sourceVars, runVars, pullVars
  <1>0. TypeOK /\ TypeOK' /\ SourceInv /\ None \notin Conns
    BY ConnectionsAssumption DEF IInv
  <1>s. ASSUME UNCHANGED <<sources, source, streamId, published, pullFrom>>
        PROVE  UNCHANGED Ownership!ownershipVars
    BY <1>0, <1>s, SameOwners DEF Ownership!ownershipVars
  <1>1. CASE UNCHANGED vars
    BY <1>1, <1>s DEF vars
  <1>2. ASSUME NEW c \in Conns,
               StartConnection(c) \/ UpgradeFails(c) \/ Upgraded(c)
                   \/ SendHeartbeat(c) \/ HeartbeatStops(c) \/ PullStep(c)
                   \/ \E p \in Conns : CloseBegins(c, p)
        PROVE  UNCHANGED Ownership!ownershipVars
    BY <1>2, <1>s DEF StartConnection, UpgradeFails, Upgraded, SendHeartbeat,
       HeartbeatStops, PullStep, AddListener, ListenFails, ReceiveClose,
       SendFragment, ReceiveInterrupt, RemoveListener, CloseBegins
  <1>3. ASSUME NEW c \in Conns, ReadMessage(c)
        PROVE  Ownership!Next \/ UNCHANGED Ownership!ownershipVars
    <2>1. CASE ReadFails(c) \/ RefuseMessage(c) \/ HandleFragmentMetadata(c)
      BY <2>1, <1>s DEF ReadFails, RefuseMessage, HandleFragmentMetadata
    <2>2. ASSUME NEW s \in Streams, HandlePush(c, s) PROVE Ownership!Next
      BY <2>2, PushTakes DEF Ownership!Next
    <2>3. ASSUME NEW s \in Streams, HandlePull(c, s)
          PROVE  Ownership!Next \/ UNCHANGED Ownership!ownershipVars
      <3>1. /\ mode[c] = "none"
            /\ source[c] # "open"
            /\ UNCHANGED <<sources, source, published>>
            /\ \A p \in Conns :
                   source[p] = "open" => streamId'[p] = streamId[p]
        BY <1>0, <2>3 DEF HandlePull, CanRead, SourceInv, TypeOK
      <3>2. CASE sources[s] # None
        <4>1. /\ pullFrom' = [pullFrom EXCEPT ![c] = sources[s]]
              /\ sources[s] \in Conns
          BY <1>0, <2>3, <3>2 DEF HandlePull, PullAccepted, TypeOK
        <4>2. Ownership!Give(c, sources[s])
          BY <3>1, <4>1, PullGives
        <4> QED
          BY <4>1, <4>2 DEF Ownership!Next
      <3>3. CASE sources[s] = None
        <4>1. pullFrom' = pullFrom
          BY <2>3, <3>3 DEF HandlePull
        <4>2. UNCHANGED <<owner, standing>>
          BY <1>0, <3>1, SameOwners
        <4> QED
          BY <3>1, <4>1, <4>2 DEF Ownership!ownershipVars
      <3> QED
        BY <3>2, <3>3
    <2>4. CASE ReadBinaryMessage(c)
      <3>1. UNCHANGED <<sources, source, streamId, pullFrom>>
        BY <2>4 DEF ReadBinaryMessage
      <3>2. UNCHANGED <<owner, standing>>
        BY <1>0, <3>1, SameOwners
      <3>3. CASE source[c] = "open"
        <4>1. published' = [published EXCEPT ![c] = @ + 1]
          BY <2>4, <3>3 DEF ReadBinaryMessage
        <4>2. Ownership!Publish(c)
          BY <1>0, <3>1, <3>2, <3>3, <4>1, StandingFacts
          DEF Ownership!Publish
        <4> QED
          BY <4>2 DEF Ownership!Next
      <3>4. CASE source[c] # "open"
        BY <1>s, <2>4, <3>1, <3>4 DEF ReadBinaryMessage
      <3> QED
        BY <3>3, <3>4
    <2>5. CASE HandleClose(c)
      BY <2>5, <1>s DEF HandleClose
    <2> QED
      BY <1>3, <2>1, <2>2, <2>3, <2>4, <2>5 DEF ReadMessage
  <1>4. ASSUME NEW c \in Conns, Proceed(c)
        PROVE  Ownership!Next \/ UNCHANGED Ownership!ownershipVars
    <2>1. CASE PushAccepted(c) \/ StreamNotFound(c) \/ EndEmptyStream(c)
      BY <2>1, <1>s DEF PushAccepted, StreamNotFound, EndEmptyStream
    <2>2. CASE HandleCloseEnd(c)
      <3>1. /\ source[c] = "closed"
            /\ RemoveSource(c)
            /\ UNCHANGED <<source, published, pullFrom>>
            /\ \A p \in Conns : p # c => streamId'[p] = streamId[p]
        BY <1>0, <2>2 DEF HandleCloseEnd, TypeOK
      <3> QED
        BY <1>0, <3>1, RemoveKeepsOwners DEF Ownership!ownershipVars
    <2>3. CASE RelayFound(c)
      <3>1. /\ mode[c] = "none"
            /\ pullFrom' = [pullFrom EXCEPT ![c] = Relay]
            /\ UNCHANGED <<sources, source, published, streamId>>
        BY <2>3 DEF RelayFound, PullAccepted, AllReplies, Replies
      <3>2. Ownership!Give(c, Relay)
        BY <3>1, PullGives
      <3> QED
        BY <3>2 DEF Ownership!Next
    <2> QED
      BY <1>4, <2>1, <2>2, <2>3 DEF Proceed
  <1>5. ASSUME NEW c \in Conns, Leave(c)
        PROVE  UNCHANGED Ownership!ownershipVars
    <2>1. CASE OnCloseRemove(c)
      <3>1. /\ source[c] = "closed"
            /\ RemoveSource(c)
            /\ UNCHANGED <<source, published, pullFrom, streamId>>
        BY <1>0, <2>1 DEF OnCloseRemove, SourceInv
      <3> QED
        BY <1>0, <3>1, RemoveKeepsOwners DEF Ownership!ownershipVars
    <2>2. CASE ~OnCloseRemove(c)
      BY <1>5, <1>s, <2>2 DEF Leave, CloseSocket, OnClosePush, OnClosePull,
         OnCloseNoMode, OnCloseEnd
    <2> QED
      BY <2>1, <2>2
  <1>6. CASE RelayCloses
    BY <1>6, <1>s DEF RelayCloses
  <1>7. ASSUME NEW p \in Conns \cup {Relay}, CloseEnds(p)
        PROVE  Ownership!Next \/ UNCHANGED Ownership!ownershipVars
    <2>1. CASE p \in Conns
      BY <1>0, <1>7, <2>1, ClosingEnds DEF Ownership!Next
    <2>2. CASE p \notin Conns
      <3>1. source' = source
        BY <1>0, <1>7, <2>2 DEF CloseEnds, TypeOK
      <3> QED
        BY <1>7, <1>s, <3>1 DEF CloseEnds
    <2> QED
      BY <2>1, <2>2
  <1> QED
    BY <1>1, <1>2, <1>3, <1>4, <1>5, <1>6, <1>7 DEF Next

(* The registry implements the ownership of the streams: a new publisher   *)
(* takes the stream at once, and only the end of its source ends it,       *)
(* although CreateSource, HandleClose and onClose close a source and       *)
(* remove its entry in separate steps.                                     *)
THEOREM OwnershipHolds == Spec => ImplementsOwnership
  <1>0. None \notin Conns
    BY ConnectionsAssumption
  <1>1. Init => Ownership!Init /\ AllGiven
    BY DEF Init, Ownership!Init, owner, standing, AllGiven, Given
  <1>2. Spec => []AllGiven
    BY <1>1, NextGiven, Inductive, RepliesInvariant, PTL DEF Spec
  <1> QED
    BY <1>1, <1>2, NextOwns, Inductive, RepliesInvariant, PTL
    DEF Spec, ImplementsOwnership, Ownership!Spec

-----------------------------------------------------------------------------
(* What a connection leaves behind.                                        *)

(* How far a connection with an open source, or with a goroutine that      *)
(* pulls, can be; onClose knows what it has to end.                        *)
ToldInv ==
    \A c \in Conns :
        /\ source[c] = "open" =>
               \/ pc[c] = "creating"
               \/ /\ mode[c] = "push"
                  /\ pc[c] \in {"reading", "handlingClose", "leaving", "closing"}
        /\ mode[c] = "push" /\ pc[c] \in {"reading", "leaving", "closing"} =>
               sourceToPush[c]
        /\ pull[c] # "none" =>
               /\ mode[c] = "pull"
               /\ pc[c] \in {"reading", "leaving", "closing", "release", "gone"}
        /\ pull[c] \in {"start", "listening"} /\ pc[c] \in {"release", "gone"} =>
               interrupt[c]
        /\ pc[c] \in {"none", "upgrading"} => heartbeat[c] = "off"
        /\ pc[c] \in {"none", "upgrading", "relaying", "empty"} => mode[c] = "none"
        /\ pc[c] = "gone" => heartbeat[c] # "running"

(* Every step keeps to that.                                               *)
LEMMA NextTold == TypeOK /\ ToldInv /\ [Next]_vars => ToldInv'
  <1> SUFFICES ASSUME TypeOK, ToldInv, [Next]_vars PROVE ToldInv'
    OBVIOUS
  <1> USE DEF Move, sourceVars, runVars, pullVars
  <1>1. CASE UNCHANGED vars
    BY <1>1 DEF vars, ToldInv
  <1>2. ASSUME NEW c \in Conns,
               StartConnection(c) \/ UpgradeFails(c) \/ Upgraded(c)
        PROVE  ToldInv'
    <2>1. CASE StartConnection(c)
      BY <2>1 DEF StartConnection, ToldInv, TypeOK
    <2>2. CASE UpgradeFails(c)
      BY <2>2 DEF UpgradeFails, ToldInv, TypeOK
    <2>3. CASE Upgraded(c)
      BY <2>3 DEF Upgraded, ToldInv, TypeOK
    <2> QED
      BY <1>2, <2>1, <2>2, <2>3
  <1>3. ASSUME NEW c \in Conns,
               \/ ReadFails(c) \/ RefuseMessage(c) \/ HandleFragmentMetadata(c)
               \/ ReadBinaryMessage(c) \/ HandleClose(c)
        PROVE  ToldInv'
    <2>1. CASE ReadFails(c) \/ RefuseMessage(c)
      BY <2>1 DEF ReadFails, RefuseMessage, ToldInv, TypeOK
    <2>2. CASE HandleFragmentMetadata(c) \/ ReadBinaryMessage(c)
      BY <2>2 DEF HandleFragmentMetadata, ReadBinaryMessage, ToldInv
    <2>3. CASE HandleClose(c)
      BY <2>3 DEF HandleClose, ToldInv, TypeOK
    <2> QED
      BY <1>3, <2>1, <2>2, <2>3
  <1>4. ASSUME NEW c \in Conns, NEW s \in Streams, HandlePush(c, s)
        PROVE  ToldInv'
    BY <1>4 DEF HandlePush, CreateSource, ToldInv, TypeOK
  <1>5. ASSUME NEW c \in Conns, NEW s \in Streams, HandlePull(c, s)
        PROVE  ToldInv'
    <2>1. CASE sources[s] # None
      BY <1>5, <2>1 DEF HandlePull, PullAccepted, CanRead, ToldInv, TypeOK
    <2>2. CASE sources[s] = None
      BY <1>5, <2>2 DEF HandlePull, ToldInv, TypeOK
    <2> QED
      BY <2>1, <2>2
  <1>6. ASSUME NEW c \in Conns, Proceed(c) PROVE ToldInv'
    <2>1. CASE PushAccepted(c)
      BY <2>1 DEF PushAccepted, ToldInv, TypeOK
    <2>2. CASE HandleCloseEnd(c)
      BY <2>2 DEF HandleCloseEnd, ToldInv, TypeOK
    <2>3. CASE RelayFound(c)
      BY <2>3 DEF RelayFound, PullAccepted, ToldInv, TypeOK
    <2>4. CASE StreamNotFound(c)
      BY <2>4 DEF StreamNotFound, ToldInv, TypeOK
    <2>5. CASE EndEmptyStream(c)
      BY <2>5 DEF EndEmptyStream, ToldInv, TypeOK
    <2> QED
      BY <1>6, <2>1, <2>2, <2>3, <2>4, <2>5 DEF Proceed
  <1>7. ASSUME NEW c \in Conns, Leave(c) PROVE ToldInv'
    <2>1. CASE CloseSocket(c)
      BY <2>1 DEF CloseSocket, ToldInv, TypeOK
    <2>2. CASE OnClosePush(c)
      BY <2>2 DEF OnClosePush, ToldInv, TypeOK
    <2>3. CASE OnCloseRemove(c)
      BY <2>3 DEF OnCloseRemove, ToldInv, TypeOK
    <2>4. CASE OnClosePull(c) \/ OnCloseNoMode(c) \/ OnCloseEnd(c)
      BY <2>4 DEF OnClosePull, OnCloseNoMode, OnCloseEnd, ToldInv, TypeOK
    <2> QED
      BY <1>7, <2>1, <2>2, <2>3, <2>4 DEF Leave
  <1>8. ASSUME NEW c \in Conns,
               \/ SendHeartbeat(c) \/ HeartbeatStops(c) \/ PullStep(c)
               \/ \E p \in Conns : CloseBegins(c, p)
        PROVE  ToldInv'
    BY <1>8 DEF SendHeartbeat, HeartbeatStops, PullStep, AddListener,
                ListenFails, ReceiveClose, SendFragment, ReceiveInterrupt,
                RemoveListener, CloseBegins, ToldInv, TypeOK
  <1>9. CASE RelayCloses
    BY <1>9 DEF RelayCloses, ToldInv
  <1>10. ASSUME NEW p \in Conns \cup {Relay}, CloseEnds(p) PROVE ToldInv'
    BY <1>10 DEF CloseEnds, ToldInv, TypeOK
  <1> QED
    BY <1>1, <1>2, <1>3, <1>4, <1>5, <1>6, <1>7, <1>8, <1>9, <1>10
    DEF Next, ReadMessage

(* A connection that is gone has closed its source and told its            *)
(* goroutines, on every way out of Run: what is left of LeavingReleases    *)
(* is that these goroutines run.                                           *)
THEOREM GoneToldAllHolds == Spec => []GoneToldAll
  <1>1. Init => ToldInv
    BY DEF Init, ToldInv
  <1>2. TypeOK /\ ToldInv /\ [Next]_vars => ToldInv'
    BY NextTold
  <1>3. ToldInv /\ IInv => GoneToldAll
    BY DEF ToldInv, IInv, SourceInv, GoneToldAll
  <1> QED
    BY <1>1, <1>2, <1>3, TypeCorrect, Inductive, PTL DEF Spec
=============================================================================
