---------------------------- MODULE RelayProofs ----------------------------
(***************************************************************************)
(* Theorems about Relay, for any number of relays and spectators and any   *)
(* length of the channels.                                                 *)
(*                                                                         *)
(* OneOpenRelay rests on EndedIsClosed: only a relay that is closed is     *)
(* taken out of the map.  NobodyLeftBehind rests on what Close() has done  *)
(* so far: a listener it has left behind it holds the close event, and     *)
(* relay.mu keeps others from becoming listeners meanwhile.                *)
(*                                                                         *)
(* WaitInv is about who waits for whom: it shows that a wait is for        *)
(* something still under way, unless a Close() is wedged, and that a       *)
(* wedged Close() stays so, with the locks that wait for it.               *)
(***************************************************************************)
EXTENDS Relay, TLAPS

(* A relay whose Run is past its last Close() is closed.                   *)
EndedIsClosed ==
    \A r \in Relays :
        run[r] \in {"clearing", "unregister", "done"} => closed[r]

(* A spectator that listens has a relay, and is one of its listeners as    *)
(* long as the relay is open.                                              *)
ListenerIsKnown ==
    \A s \in Spectators :
        pc[s] = "listening" =>
            /\ relay[s] \in Relays
            /\ ~closed[relay[s]] => s \in listeners[relay[s]]

(* While Close() is under way, a spectator that listens is still to come   *)
(* or has the close event.                                                 *)
CloseIsComplete ==
    \A s \in Spectators :
        pc[s] = "listening" /\ ~Free(relay[s]) /\ s \notin closePending[relay[s]]
            => closeEvent[s]

IInv ==
    /\ TypeOK
    /\ OneOpenRelay /\ EndedIsClosed
    /\ ListenerIsKnown /\ CloseIsComplete /\ NobodyLeftBehind

-----------------------------------------------------------------------------
(* The initial states satisfy the invariant.                               *)
LEMMA InitIInv == Init => IInv
<1> SUFFICES ASSUME Init PROVE IInv
    OBVIOUS
<1>1. TypeOK
  <2>1. 0 \in 0 .. FragmentBufferMaxLength
    BY RelayAssumption
  <2> QED
    BY <2>1, Zenon DEF Init, TypeOK
<1>2. OneOpenRelay /\ EndedIsClosed
    BY DEF Init, OneOpenRelay, EndedIsClosed
<1>3. ListenerIsKnown /\ CloseIsComplete /\ NobodyLeftBehind
    BY DEF Init, ListenerIsKnown, CloseIsComplete, NobodyLeftBehind
<1> QED
    BY <1>1, <1>2, <1>3 DEF IInv

(* Every step keeps the types.                                             *)
LEMMA StepTypeOK == TypeOK /\ [Next]_vars => TypeOK'
<1> SUFFICES ASSUME TypeOK,
                    [Next]_vars
             PROVE  TypeOK'
    OBVIOUS
<1>1. ASSUME NEW r \in Relays, DialSucceeds(r)
       PROVE  TypeOK'
    BY <1>1, RelayAssumption DEF TypeOK, DialSucceeds, RunTo, closeVars,
       timerVars, runVars, stateVars, channelVars, spectatorVars
<1>2. ASSUME NEW r \in Relays, DialFails(r)
       PROVE  TypeOK'
    BY <1>2, RelayAssumption DEF TypeOK, DialFails, RunTo, closeVars,
       timerVars, runVars, stateVars, channelVars, spectatorVars
<1>3. ASSUME NEW r \in Relays, SendPullMessage(r)
       PROVE  TypeOK'
    BY <1>3, RelayAssumption DEF TypeOK, SendPullMessage, RunTo, closeVars,
       timerVars, runVars, stateVars, channelVars, spectatorVars
<1>4. ASSUME NEW r \in Relays, SendPullMessageFails(r)
       PROVE  TypeOK'
    BY <1>4, RelayAssumption DEF TypeOK, SendPullMessageFails, RunTo,
       closeVars, timerVars, runVars, stateVars, channelVars, spectatorVars
<1>5. ASSUME NEW r \in Relays, NEW s \in Spectators, CloseRange(r, s)
       PROVE  TypeOK'
    BY <1>5, RelayAssumption DEF TypeOK, CloseRange, Free, closeVars,
       timerVars, runVars, stateVars, channelVars, spectatorVars
<1>6. ASSUME NEW r \in Relays, CloseSend(r)
       PROVE  TypeOK'
    BY <1>6, RelayAssumption DEF TypeOK, CloseSend, HasRoom, closeVars,
       timerVars, runVars, stateVars, channelVars, spectatorVars
<1>7. ASSUME NEW r \in Relays, CloseEnd(r)
       PROVE  TypeOK'
    BY <1>7, RelayAssumption DEF TypeOK, CloseEnd, Free, closeVars, timerVars,
       runVars, stateVars, channelVars, spectatorVars
<1>8. ASSUME NEW r \in Relays, LeaveCheck(r)
       PROVE  TypeOK'
    BY <1>8, RelayAssumption DEF TypeOK, LeaveCheck, RunTo, closeVars,
       timerVars, runVars, stateVars, channelVars, spectatorVars
<1>9. ASSUME NEW r \in Relays, LeaveClose(r)
       PROVE  TypeOK'
    BY <1>9, RelayAssumption DEF TypeOK, LeaveClose, RunTo, closeVars,
       timerVars, runVars, stateVars, channelVars, spectatorVars
<1>10. ASSUME NEW r \in Relays, SetReady(r)
       PROVE  TypeOK'
    BY <1>10, RelayAssumption DEF TypeOK, SetReady, RunTo, closeVars,
       timerVars, runVars, stateVars, channelVars, spectatorVars
<1>11. ASSUME NEW r \in Relays, OnCloseBegin(r)
       PROVE  TypeOK'
    BY <1>11, RelayAssumption DEF TypeOK, OnCloseBegin, RunTo, closeVars,
       timerVars, runVars, stateVars, channelVars, spectatorVars
<1>12. ASSUME NEW r \in Relays, OnCloseClear(r)
       PROVE  TypeOK'
    BY <1>12, RelayAssumption DEF TypeOK, OnCloseClear, RunTo, closeVars,
       timerVars, runVars, stateVars, channelVars, spectatorVars
<1>13. ASSUME NEW r \in Relays, OnRelayClosed(r)
       PROVE  TypeOK'
    BY <1>13, RelayAssumption DEF TypeOK, OnRelayClosed, RunTo, closeVars,
       timerVars, runVars, stateVars, channelVars, spectatorVars
<1>14. ASSUME NEW r \in Relays, ReadOK(r)
       PROVE  TypeOK'
    BY <1>14, RelayAssumption DEF TypeOK, ReadOK, CanRead, closeVars,
       timerVars, runVars, stateVars, channelVars, spectatorVars
<1>15. ASSUME NEW r \in Relays, HandleFragmentMetadata(r)
       PROVE  TypeOK'
    BY <1>15, RelayAssumption DEF TypeOK, HandleFragmentMetadata, CanRead,
       closeVars, timerVars, runVars, stateVars, channelVars, spectatorVars
<1>16. ASSUME NEW r \in Relays, ReadBinaryMessage(r)
       PROVE  TypeOK'
    BY <1>16, RelayAssumption DEF TypeOK, ReadBinaryMessage, CanRead, HasRoom,
       closeVars, timerVars, runVars, stateVars, channelVars, spectatorVars
<1>17. ASSUME NEW r \in Relays, ReadFails(r)
       PROVE  TypeOK'
    BY <1>17, RelayAssumption DEF TypeOK, ReadFails, RunTo, closeVars,
       timerVars, runVars, stateVars, channelVars, spectatorVars
<1>18. ASSUME NEW r \in Relays, HandleClose(r)
       PROVE  TypeOK'
    BY SMTT(30), <1>18, RelayAssumption DEF TypeOK, HandleClose, RunTo, CanRead,
       closeVars, timerVars, runVars, stateVars, channelVars, spectatorVars
<1>19. ASSUME NEW r \in Relays, HeartbeatStops(r)
       PROVE  TypeOK'
    BY <1>19, RelayAssumption DEF TypeOK, HeartbeatStops, closeVars,
       timerVars, runVars, stateVars, channelVars, spectatorVars
<1>20. ASSUME NEW r \in Relays, InactivityStops(r)
       PROVE  TypeOK'
    BY <1>20, RelayAssumption DEF TypeOK, InactivityStops, closeVars,
       timerVars, runVars, stateVars, channelVars, spectatorVars
<1>21. ASSUME NEW r \in Relays, InactivityWarns(r)
       PROVE  TypeOK'
    BY <1>21, RelayAssumption DEF TypeOK, InactivityWarns, Free, closeVars,
       timerVars, runVars, stateVars, channelVars, spectatorVars
<1>22. ASSUME NEW r \in Relays, InactivityCloses(r)
       PROVE  TypeOK'
    BY <1>22, RelayAssumption DEF TypeOK, InactivityCloses, Free, closeVars,
       timerVars, runVars, stateVars, channelVars, spectatorVars
<1>23. ASSUME NEW s \in Spectators, GetRelay(s)
       PROVE  TypeOK'
    BY <1>23, RelayAssumption DEF TypeOK, GetRelay, Move, closeVars,
       timerVars, runVars, stateVars, channelVars, spectatorVars
<1>24. ASSUME NEW s \in Spectators, IsClosed(s)
       PROVE  TypeOK'
    BY <1>24, RelayAssumption DEF TypeOK, IsClosed, Move, Free, closeVars,
       timerVars, runVars, stateVars, channelVars, spectatorVars
<1>25. ASSUME NEW s \in Spectators, GetPublishingServer(s)
       PROVE  TypeOK'
    BY <1>25, RelayAssumption DEF TypeOK, GetPublishingServer, Move,
       closeVars, timerVars, runVars, stateVars, channelVars, spectatorVars
<1>26. ASSUME NEW s \in Spectators, GetRelayOrCreate(s)
       PROVE  TypeOK'
    BY <1>26, RelayAssumption DEF TypeOK, GetRelayOrCreate, Move, closeVars,
       timerVars, runVars, stateVars, channelVars, spectatorVars
<1>27. ASSUME NEW s \in Spectators, GetExisting(s)
       PROVE  TypeOK'
    BY <1>27, RelayAssumption DEF TypeOK, GetExisting, Move, Free, closeVars,
       timerVars, runVars, stateVars, channelVars, spectatorVars
<1>28. ASSUME NEW s \in Spectators, NEW r \in Relays, CreateRelay(s, r)
       PROVE  TypeOK'
    BY <1>28, RelayAssumption DEF TypeOK, CreateRelay, Move, Free, closeVars,
       timerVars, runVars, stateVars, channelVars, spectatorVars
<1>29. ASSUME NEW s \in Spectators, WaitUntilReady(s)
       PROVE  TypeOK'
    BY <1>29, RelayAssumption DEF TypeOK, WaitUntilReady, Move, Free,
       closeVars, timerVars, runVars, stateVars, channelVars, spectatorVars
<1>30. ASSUME NEW s \in Spectators, WaitGroupDone(s)
       PROVE  TypeOK'
    BY <1>30, RelayAssumption DEF TypeOK, WaitGroupDone, Move, closeVars,
       timerVars, runVars, stateVars, channelVars, spectatorVars
<1>31. ASSUME NEW s \in Spectators, AddListener(s)
       PROVE  TypeOK'
  <2>1. CASE closed[relay[s]]
      BY <1>31, <2>1 DEF AddListener, Move, TypeOK, closeVars, timerVars,
         runVars, channelVars
  <2>2. CASE ~closed[relay[s]]
    <3>1. /\ pc' = [pc EXCEPT ![s] = "listening"]
          /\ listeners' = [listeners EXCEPT ![relay[s]] = @ \cup {s}]
        BY <1>31, <2>2 DEF AddListener, Move
    <3> QED
        BY <1>31, <3>1 DEF AddListener, TypeOK, closeVars, timerVars, runVars,
           channelVars
  <2> QED
      BY <2>1, <2>2
<1>32. ASSUME NEW s \in Spectators, ReceiveFragment(s)
       PROVE  TypeOK'
    BY <1>32, RelayAssumption DEF TypeOK, ReceiveFragment, Write, closeVars,
       timerVars, runVars, stateVars, channelVars, spectatorVars
<1>33. ASSUME NEW s \in Spectators, ReceiveClose(s)
       PROVE  TypeOK'
    BY <1>33, RelayAssumption DEF TypeOK, ReceiveClose, Write, Move,
       closeVars, timerVars, runVars, stateVars, channelVars, spectatorVars
<1>34. ASSUME NEW s \in Spectators, ReceiveInterrupt(s)
       PROVE  TypeOK'
    BY <1>34, RelayAssumption DEF TypeOK, ReceiveInterrupt, Move, closeVars,
       timerVars, runVars, stateVars, channelVars, spectatorVars
<1>35. ASSUME NEW s \in Spectators, RemoveListener(s)
       PROVE  TypeOK'
    BY <1>35, RelayAssumption DEF TypeOK, RemoveListener, Move, Free,
       closeVars, timerVars, runVars, stateVars, channelVars, spectatorVars
<1>36. ASSUME NEW s \in Spectators, WriteReturns(s)
       PROVE  TypeOK'
    BY <1>36, RelayAssumption DEF TypeOK, WriteReturns,
       closeVars, timerVars, runVars, stateVars, channelVars, spectatorVars
<1>37. CASE UNCHANGED vars
    BY <1>37 DEF TypeOK, vars, closeVars, timerVars, runVars, stateVars,
       channelVars, spectatorVars
<1> QED
    BY <1>1, <1>2, <1>3, <1>4, <1>5, <1>6, <1>7, <1>8, <1>9, <1>10, <1>11,
       <1>12, <1>13, <1>14, <1>15, <1>16, <1>17, <1>18, <1>19, <1>20, <1>21,
       <1>22, <1>23, <1>24, <1>25, <1>26, <1>27, <1>28, <1>29, <1>30, <1>31,
       <1>32, <1>33, <1>34, <1>35, <1>36, <1>37 DEF Next, RunStep,
       CloseStep, ReadMessage, TimerStep, SpectatorStep

(* Every step keeps the relay that is open in the map.                     *)
LEMMA StepOpen ==
    TypeOK /\ OneOpenRelay /\ EndedIsClosed /\ [Next]_vars
        => (OneOpenRelay /\ EndedIsClosed)'
<1> SUFFICES ASSUME TypeOK, OneOpenRelay, EndedIsClosed,
                    [Next]_vars
             PROVE  (OneOpenRelay /\ EndedIsClosed)'
    OBVIOUS
<1>1. ASSUME NEW r \in Relays, DialSucceeds(r)
       PROVE  (OneOpenRelay /\ EndedIsClosed)'
    BY <1>1, RelayAssumption DEF TypeOK, OneOpenRelay, EndedIsClosed,
       DialSucceeds, RunTo, closeVars, timerVars, runVars, stateVars,
       channelVars, spectatorVars
<1>2. ASSUME NEW r \in Relays, DialFails(r)
       PROVE  (OneOpenRelay /\ EndedIsClosed)'
    BY <1>2, RelayAssumption DEF TypeOK, OneOpenRelay, EndedIsClosed,
       DialFails, RunTo, closeVars, timerVars, runVars, stateVars,
       channelVars, spectatorVars
<1>3. ASSUME NEW r \in Relays, SendPullMessage(r)
       PROVE  (OneOpenRelay /\ EndedIsClosed)'
    BY <1>3, RelayAssumption DEF TypeOK, OneOpenRelay, EndedIsClosed,
       SendPullMessage, RunTo, closeVars, timerVars, runVars, stateVars,
       channelVars, spectatorVars
<1>4. ASSUME NEW r \in Relays, SendPullMessageFails(r)
       PROVE  (OneOpenRelay /\ EndedIsClosed)'
    BY <1>4, RelayAssumption DEF TypeOK, OneOpenRelay, EndedIsClosed,
       SendPullMessageFails, RunTo, closeVars, timerVars, runVars, stateVars,
       channelVars, spectatorVars
<1>5. ASSUME NEW r \in Relays, NEW s \in Spectators, CloseRange(r, s)
       PROVE  (OneOpenRelay /\ EndedIsClosed)'
    BY <1>5, RelayAssumption DEF TypeOK, OneOpenRelay, EndedIsClosed,
       CloseRange, Free, closeVars, timerVars, runVars, stateVars,
       channelVars, spectatorVars
<1>6. ASSUME NEW r \in Relays, CloseSend(r)
       PROVE  (OneOpenRelay /\ EndedIsClosed)'
    BY <1>6, RelayAssumption DEF TypeOK, OneOpenRelay, EndedIsClosed,
       CloseSend, HasRoom, closeVars, timerVars, runVars, stateVars,
       channelVars, spectatorVars
<1>7. ASSUME NEW r \in Relays, CloseEnd(r)
       PROVE  (OneOpenRelay /\ EndedIsClosed)'
    BY <1>7, RelayAssumption DEF TypeOK, OneOpenRelay, EndedIsClosed,
       CloseEnd, Free, closeVars, timerVars, runVars, stateVars, channelVars,
       spectatorVars
<1>8. ASSUME NEW r \in Relays, LeaveCheck(r)
       PROVE  (OneOpenRelay /\ EndedIsClosed)'
    BY <1>8, RelayAssumption DEF TypeOK, OneOpenRelay, EndedIsClosed,
       LeaveCheck, RunTo, closeVars, timerVars, runVars, stateVars,
       channelVars, spectatorVars
<1>9. ASSUME NEW r \in Relays, LeaveClose(r)
       PROVE  (OneOpenRelay /\ EndedIsClosed)'
    BY <1>9, RelayAssumption DEF TypeOK, OneOpenRelay, EndedIsClosed,
       LeaveClose, RunTo, closeVars, timerVars, runVars, stateVars,
       channelVars, spectatorVars
<1>10. ASSUME NEW r \in Relays, SetReady(r)
       PROVE  (OneOpenRelay /\ EndedIsClosed)'
    BY <1>10, RelayAssumption DEF TypeOK, OneOpenRelay, EndedIsClosed,
       SetReady, RunTo, closeVars, timerVars, runVars, stateVars, channelVars,
       spectatorVars
<1>11. ASSUME NEW r \in Relays, OnCloseBegin(r)
       PROVE  (OneOpenRelay /\ EndedIsClosed)'
    BY <1>11, RelayAssumption DEF TypeOK, OneOpenRelay, EndedIsClosed,
       OnCloseBegin, RunTo, closeVars, timerVars, runVars, stateVars,
       channelVars, spectatorVars
<1>12. ASSUME NEW r \in Relays, OnCloseClear(r)
       PROVE  (OneOpenRelay /\ EndedIsClosed)'
    BY <1>12, RelayAssumption DEF TypeOK, OneOpenRelay, EndedIsClosed,
       OnCloseClear, RunTo, closeVars, timerVars, runVars, stateVars,
       channelVars, spectatorVars
<1>13. ASSUME NEW r \in Relays, OnRelayClosed(r)
       PROVE  (OneOpenRelay /\ EndedIsClosed)'
    BY <1>13, RelayAssumption DEF TypeOK, OneOpenRelay, EndedIsClosed,
       OnRelayClosed, RunTo, closeVars, timerVars, runVars, stateVars,
       channelVars, spectatorVars
<1>14. ASSUME NEW r \in Relays, ReadOK(r)
       PROVE  (OneOpenRelay /\ EndedIsClosed)'
    BY <1>14, RelayAssumption DEF TypeOK, OneOpenRelay, EndedIsClosed, ReadOK,
       CanRead, closeVars, timerVars, runVars, stateVars, channelVars,
       spectatorVars
<1>15. ASSUME NEW r \in Relays, HandleFragmentMetadata(r)
       PROVE  (OneOpenRelay /\ EndedIsClosed)'
    BY <1>15, RelayAssumption DEF TypeOK, OneOpenRelay, EndedIsClosed,
       HandleFragmentMetadata, CanRead, closeVars, timerVars, runVars,
       stateVars, channelVars, spectatorVars
<1>16. ASSUME NEW r \in Relays, ReadBinaryMessage(r)
       PROVE  (OneOpenRelay /\ EndedIsClosed)'
    BY <1>16, RelayAssumption DEF TypeOK, OneOpenRelay, EndedIsClosed,
       ReadBinaryMessage, CanRead, HasRoom, closeVars, timerVars, runVars,
       stateVars, channelVars, spectatorVars
<1>17. ASSUME NEW r \in Relays, ReadFails(r)
       PROVE  (OneOpenRelay /\ EndedIsClosed)'
    BY <1>17, RelayAssumption DEF TypeOK, OneOpenRelay, EndedIsClosed,
       ReadFails, RunTo, closeVars, timerVars, runVars, stateVars,
       channelVars, spectatorVars
<1>18. ASSUME NEW r \in Relays, HandleClose(r)
       PROVE  (OneOpenRelay /\ EndedIsClosed)'
    BY <1>18, RelayAssumption DEF TypeOK, OneOpenRelay, EndedIsClosed,
       HandleClose, RunTo, CanRead, closeVars, timerVars, runVars, stateVars,
       channelVars, spectatorVars
<1>19. ASSUME NEW r \in Relays, HeartbeatStops(r)
       PROVE  (OneOpenRelay /\ EndedIsClosed)'
    BY <1>19, RelayAssumption DEF TypeOK, OneOpenRelay, EndedIsClosed,
       HeartbeatStops, closeVars, timerVars, runVars, stateVars, channelVars,
       spectatorVars
<1>20. ASSUME NEW r \in Relays, InactivityStops(r)
       PROVE  (OneOpenRelay /\ EndedIsClosed)'
    BY <1>20, RelayAssumption DEF TypeOK, OneOpenRelay, EndedIsClosed,
       InactivityStops, closeVars, timerVars, runVars, stateVars, channelVars,
       spectatorVars
<1>21. ASSUME NEW r \in Relays, InactivityWarns(r)
       PROVE  (OneOpenRelay /\ EndedIsClosed)'
    BY <1>21, RelayAssumption DEF TypeOK, OneOpenRelay, EndedIsClosed,
       InactivityWarns, Free, closeVars, timerVars, runVars, stateVars,
       channelVars, spectatorVars
<1>22. ASSUME NEW r \in Relays, InactivityCloses(r)
       PROVE  (OneOpenRelay /\ EndedIsClosed)'
    BY <1>22, RelayAssumption DEF TypeOK, OneOpenRelay, EndedIsClosed,
       InactivityCloses, Free, closeVars, timerVars, runVars, stateVars,
       channelVars, spectatorVars
<1>23. ASSUME NEW s \in Spectators, GetRelay(s)
       PROVE  (OneOpenRelay /\ EndedIsClosed)'
    BY <1>23, RelayAssumption DEF TypeOK, OneOpenRelay, EndedIsClosed,
       GetRelay, Move, closeVars, timerVars, runVars, stateVars, channelVars,
       spectatorVars
<1>24. ASSUME NEW s \in Spectators, IsClosed(s)
       PROVE  (OneOpenRelay /\ EndedIsClosed)'
    BY <1>24, RelayAssumption DEF TypeOK, OneOpenRelay, EndedIsClosed,
       IsClosed, Move, Free, closeVars, timerVars, runVars, stateVars,
       channelVars, spectatorVars
<1>25. ASSUME NEW s \in Spectators, GetPublishingServer(s)
       PROVE  (OneOpenRelay /\ EndedIsClosed)'
    BY <1>25, RelayAssumption DEF TypeOK, OneOpenRelay, EndedIsClosed,
       GetPublishingServer, Move, closeVars, timerVars, runVars, stateVars,
       channelVars, spectatorVars
<1>26. ASSUME NEW s \in Spectators, GetRelayOrCreate(s)
       PROVE  (OneOpenRelay /\ EndedIsClosed)'
    BY <1>26, RelayAssumption DEF TypeOK, OneOpenRelay, EndedIsClosed,
       GetRelayOrCreate, Move, closeVars, timerVars, runVars, stateVars,
       channelVars, spectatorVars
<1>27. ASSUME NEW s \in Spectators, GetExisting(s)
       PROVE  (OneOpenRelay /\ EndedIsClosed)'
    BY <1>27, RelayAssumption DEF TypeOK, OneOpenRelay, EndedIsClosed,
       GetExisting, Move, Free, closeVars, timerVars, runVars, stateVars,
       channelVars, spectatorVars
<1>28. ASSUME NEW s \in Spectators, NEW r \in Relays, CreateRelay(s, r)
       PROVE  (OneOpenRelay /\ EndedIsClosed)'
    BY <1>28, RelayAssumption DEF TypeOK, OneOpenRelay, EndedIsClosed,
       CreateRelay, Move, Free, closeVars, timerVars, runVars, stateVars,
       channelVars, spectatorVars
<1>29. ASSUME NEW s \in Spectators, WaitUntilReady(s)
       PROVE  (OneOpenRelay /\ EndedIsClosed)'
    BY <1>29, RelayAssumption DEF TypeOK, OneOpenRelay, EndedIsClosed,
       WaitUntilReady, Move, Free, closeVars, timerVars, runVars, stateVars,
       channelVars, spectatorVars
<1>30. ASSUME NEW s \in Spectators, WaitGroupDone(s)
       PROVE  (OneOpenRelay /\ EndedIsClosed)'
    BY <1>30, RelayAssumption DEF TypeOK, OneOpenRelay, EndedIsClosed,
       WaitGroupDone, Move, closeVars, timerVars, runVars, stateVars,
       channelVars, spectatorVars
<1>31. ASSUME NEW s \in Spectators, AddListener(s)
       PROVE  (OneOpenRelay /\ EndedIsClosed)'
    BY <1>31, RelayAssumption DEF TypeOK, OneOpenRelay, EndedIsClosed,
       AddListener, Move, Free, closeVars, timerVars, runVars, stateVars,
       channelVars, spectatorVars
<1>32. ASSUME NEW s \in Spectators, ReceiveFragment(s)
       PROVE  (OneOpenRelay /\ EndedIsClosed)'
    BY <1>32, RelayAssumption DEF TypeOK, OneOpenRelay, EndedIsClosed,
       ReceiveFragment, closeVars, timerVars, runVars, stateVars, channelVars,
       spectatorVars
<1>33. ASSUME NEW s \in Spectators, ReceiveClose(s)
       PROVE  (OneOpenRelay /\ EndedIsClosed)'
    BY <1>33, RelayAssumption DEF TypeOK, OneOpenRelay, EndedIsClosed,
       ReceiveClose, Move, closeVars, timerVars, runVars, stateVars,
       channelVars, spectatorVars
<1>34. ASSUME NEW s \in Spectators, ReceiveInterrupt(s)
       PROVE  (OneOpenRelay /\ EndedIsClosed)'
    BY <1>34, RelayAssumption DEF TypeOK, OneOpenRelay, EndedIsClosed,
       ReceiveInterrupt, Move, closeVars, timerVars, runVars, stateVars,
       channelVars, spectatorVars
<1>35. ASSUME NEW s \in Spectators, RemoveListener(s)
       PROVE  (OneOpenRelay /\ EndedIsClosed)'
    BY <1>35, RelayAssumption DEF TypeOK, OneOpenRelay, EndedIsClosed,
       RemoveListener, Move, Free, closeVars, timerVars, runVars, stateVars,
       channelVars, spectatorVars
<1>36. ASSUME NEW s \in Spectators, WriteReturns(s)
       PROVE  (OneOpenRelay /\ EndedIsClosed)'
    BY <1>36, RelayAssumption DEF TypeOK, OneOpenRelay, EndedIsClosed,
       WriteReturns, closeVars, timerVars, runVars, stateVars, channelVars,
       spectatorVars
<1>37. CASE UNCHANGED vars
    BY <1>37 DEF TypeOK, OneOpenRelay, EndedIsClosed, vars, closeVars,
       timerVars, runVars, stateVars, channelVars, spectatorVars
<1> QED
    BY <1>1, <1>2, <1>3, <1>4, <1>5, <1>6, <1>7, <1>8, <1>9, <1>10, <1>11,
       <1>12, <1>13, <1>14, <1>15, <1>16, <1>17, <1>18, <1>19, <1>20, <1>21,
       <1>22, <1>23, <1>24, <1>25, <1>26, <1>27, <1>28, <1>29, <1>30, <1>31,
       <1>32, <1>33, <1>34, <1>35, <1>36, <1>37 DEF Next, RunStep,
       CloseStep, ReadMessage, TimerStep, SpectatorStep

(* Every step keeps the promise to whoever listens.                        *)
LEMMA StepListening ==
    TypeOK /\ ListenerIsKnown /\ CloseIsComplete /\ NobodyLeftBehind /\ [Next]_vars
        => (ListenerIsKnown /\ CloseIsComplete /\ NobodyLeftBehind)'
<1> SUFFICES ASSUME TypeOK, ListenerIsKnown, CloseIsComplete,
                    NobodyLeftBehind,
                    [Next]_vars
             PROVE  (ListenerIsKnown /\ CloseIsComplete /\ NobodyLeftBehind)'
    OBVIOUS
<1>1. ASSUME NEW r \in Relays, DialSucceeds(r)
       PROVE  (ListenerIsKnown /\ CloseIsComplete /\ NobodyLeftBehind)'
    BY <1>1, RelayAssumption DEF TypeOK, ListenerIsKnown, CloseIsComplete,
       NobodyLeftBehind, DialSucceeds, RunTo, Free, closeVars, timerVars,
       runVars, stateVars, channelVars, spectatorVars
<1>2. ASSUME NEW r \in Relays, DialFails(r)
       PROVE  (ListenerIsKnown /\ CloseIsComplete /\ NobodyLeftBehind)'
    BY <1>2, RelayAssumption DEF TypeOK, ListenerIsKnown, CloseIsComplete,
       NobodyLeftBehind, DialFails, RunTo, Free, closeVars, timerVars,
       runVars, stateVars, channelVars, spectatorVars
<1>3. ASSUME NEW r \in Relays, SendPullMessage(r)
       PROVE  (ListenerIsKnown /\ CloseIsComplete /\ NobodyLeftBehind)'
    BY <1>3, RelayAssumption DEF TypeOK, ListenerIsKnown, CloseIsComplete,
       NobodyLeftBehind, SendPullMessage, RunTo, Free, closeVars, timerVars,
       runVars, stateVars, channelVars, spectatorVars
<1>4. ASSUME NEW r \in Relays, SendPullMessageFails(r)
       PROVE  (ListenerIsKnown /\ CloseIsComplete /\ NobodyLeftBehind)'
    BY <1>4, RelayAssumption DEF TypeOK, ListenerIsKnown, CloseIsComplete,
       NobodyLeftBehind, SendPullMessageFails, RunTo, Free, closeVars,
       timerVars, runVars, stateVars, channelVars, spectatorVars
<1>5. ASSUME NEW r \in Relays, NEW s \in Spectators, CloseRange(r, s)
       PROVE  (ListenerIsKnown /\ CloseIsComplete /\ NobodyLeftBehind)'
    BY <1>5, RelayAssumption DEF TypeOK, ListenerIsKnown, CloseIsComplete,
       NobodyLeftBehind, CloseRange, Free, closeVars, timerVars, runVars,
       stateVars, channelVars, spectatorVars
<1>6. ASSUME NEW r \in Relays, CloseSend(r)
       PROVE  (ListenerIsKnown /\ CloseIsComplete /\ NobodyLeftBehind)'
    BY <1>6, RelayAssumption DEF TypeOK, ListenerIsKnown, CloseIsComplete,
       NobodyLeftBehind, CloseSend, HasRoom, Free, closeVars, timerVars,
       runVars, stateVars, channelVars, spectatorVars
<1>7. ASSUME NEW r \in Relays, CloseEnd(r)
       PROVE  (ListenerIsKnown /\ CloseIsComplete /\ NobodyLeftBehind)'
    BY <1>7, RelayAssumption DEF TypeOK, ListenerIsKnown, CloseIsComplete,
       NobodyLeftBehind, CloseEnd, Free, closeVars, timerVars, runVars,
       stateVars, channelVars, spectatorVars
<1>8. ASSUME NEW r \in Relays, LeaveCheck(r)
       PROVE  (ListenerIsKnown /\ CloseIsComplete /\ NobodyLeftBehind)'
    BY <1>8, RelayAssumption DEF TypeOK, ListenerIsKnown, CloseIsComplete,
       NobodyLeftBehind, LeaveCheck, RunTo, Free, closeVars, timerVars,
       runVars, stateVars, channelVars, spectatorVars
<1>9. ASSUME NEW r \in Relays, LeaveClose(r)
       PROVE  (ListenerIsKnown /\ CloseIsComplete /\ NobodyLeftBehind)'
    BY <1>9, RelayAssumption DEF TypeOK, ListenerIsKnown, CloseIsComplete,
       NobodyLeftBehind, LeaveClose, RunTo, Free, closeVars, timerVars,
       runVars, stateVars, channelVars, spectatorVars
<1>10. ASSUME NEW r \in Relays, SetReady(r)
       PROVE  (ListenerIsKnown /\ CloseIsComplete /\ NobodyLeftBehind)'
    BY <1>10, RelayAssumption DEF TypeOK, ListenerIsKnown, CloseIsComplete,
       NobodyLeftBehind, SetReady, RunTo, Free, closeVars, timerVars, runVars,
       stateVars, channelVars, spectatorVars
<1>11. ASSUME NEW r \in Relays, OnCloseBegin(r)
       PROVE  (ListenerIsKnown /\ CloseIsComplete /\ NobodyLeftBehind)'
    BY <1>11, RelayAssumption DEF TypeOK, ListenerIsKnown, CloseIsComplete,
       NobodyLeftBehind, OnCloseBegin, RunTo, Free, closeVars, timerVars,
       runVars, stateVars, channelVars, spectatorVars
<1>12. ASSUME NEW r \in Relays, OnCloseClear(r)
       PROVE  (ListenerIsKnown /\ CloseIsComplete /\ NobodyLeftBehind)'
    BY <1>12, RelayAssumption DEF TypeOK, ListenerIsKnown, CloseIsComplete,
       NobodyLeftBehind, OnCloseClear, RunTo, Free, closeVars, timerVars,
       runVars, stateVars, channelVars, spectatorVars
<1>13. ASSUME NEW r \in Relays, OnRelayClosed(r)
       PROVE  (ListenerIsKnown /\ CloseIsComplete /\ NobodyLeftBehind)'
    BY <1>13, RelayAssumption DEF TypeOK, ListenerIsKnown, CloseIsComplete,
       NobodyLeftBehind, OnRelayClosed, RunTo, Free, closeVars, timerVars,
       runVars, stateVars, channelVars, spectatorVars
<1>14. ASSUME NEW r \in Relays, ReadOK(r)
       PROVE  (ListenerIsKnown /\ CloseIsComplete /\ NobodyLeftBehind)'
    BY <1>14, RelayAssumption DEF TypeOK, ListenerIsKnown, CloseIsComplete,
       NobodyLeftBehind, ReadOK, CanRead, Free, closeVars, timerVars, runVars,
       stateVars, channelVars, spectatorVars
<1>15. ASSUME NEW r \in Relays, HandleFragmentMetadata(r)
       PROVE  (ListenerIsKnown /\ CloseIsComplete /\ NobodyLeftBehind)'
    BY <1>15, RelayAssumption DEF TypeOK, ListenerIsKnown, CloseIsComplete,
       NobodyLeftBehind, HandleFragmentMetadata, CanRead, Free, closeVars,
       timerVars, runVars, stateVars, channelVars, spectatorVars
<1>16. ASSUME NEW r \in Relays, ReadBinaryMessage(r)
       PROVE  (ListenerIsKnown /\ CloseIsComplete /\ NobodyLeftBehind)'
    BY <1>16, RelayAssumption DEF TypeOK, ListenerIsKnown, CloseIsComplete,
       NobodyLeftBehind, ReadBinaryMessage, CanRead, HasRoom, Free, closeVars,
       timerVars, runVars, stateVars, channelVars, spectatorVars
<1>17. ASSUME NEW r \in Relays, ReadFails(r)
       PROVE  (ListenerIsKnown /\ CloseIsComplete /\ NobodyLeftBehind)'
    BY <1>17, RelayAssumption DEF TypeOK, ListenerIsKnown, CloseIsComplete,
       NobodyLeftBehind, ReadFails, RunTo, Free, closeVars, timerVars,
       runVars, stateVars, channelVars, spectatorVars
<1>18. ASSUME NEW r \in Relays, HandleClose(r)
       PROVE  (ListenerIsKnown /\ CloseIsComplete /\ NobodyLeftBehind)'
    BY <1>18, RelayAssumption DEF TypeOK, ListenerIsKnown, CloseIsComplete,
       NobodyLeftBehind, HandleClose, RunTo, CanRead, Free, closeVars,
       timerVars, runVars, stateVars, channelVars, spectatorVars
<1>19. ASSUME NEW r \in Relays, HeartbeatStops(r)
       PROVE  (ListenerIsKnown /\ CloseIsComplete /\ NobodyLeftBehind)'
    BY <1>19, RelayAssumption DEF TypeOK, ListenerIsKnown, CloseIsComplete,
       NobodyLeftBehind, HeartbeatStops, Free, closeVars, timerVars, runVars,
       stateVars, channelVars, spectatorVars
<1>20. ASSUME NEW r \in Relays, InactivityStops(r)
       PROVE  (ListenerIsKnown /\ CloseIsComplete /\ NobodyLeftBehind)'
    BY <1>20, RelayAssumption DEF TypeOK, ListenerIsKnown, CloseIsComplete,
       NobodyLeftBehind, InactivityStops, Free, closeVars, timerVars, runVars,
       stateVars, channelVars, spectatorVars
<1>21. ASSUME NEW r \in Relays, InactivityWarns(r)
       PROVE  (ListenerIsKnown /\ CloseIsComplete /\ NobodyLeftBehind)'
    BY <1>21, RelayAssumption DEF TypeOK, ListenerIsKnown, CloseIsComplete,
       NobodyLeftBehind, InactivityWarns, Free, closeVars, timerVars, runVars,
       stateVars, channelVars, spectatorVars
<1>22. ASSUME NEW r \in Relays, InactivityCloses(r)
       PROVE  (ListenerIsKnown /\ CloseIsComplete /\ NobodyLeftBehind)'
    BY <1>22, RelayAssumption DEF TypeOK, ListenerIsKnown, CloseIsComplete,
       NobodyLeftBehind, InactivityCloses, Free, closeVars, timerVars,
       runVars, stateVars, channelVars, spectatorVars
<1>23. ASSUME NEW s \in Spectators, GetRelay(s)
       PROVE  (ListenerIsKnown /\ CloseIsComplete /\ NobodyLeftBehind)'
    BY <1>23, RelayAssumption DEF TypeOK, ListenerIsKnown, CloseIsComplete,
       NobodyLeftBehind, GetRelay, Move, Free, closeVars, timerVars, runVars,
       stateVars, channelVars, spectatorVars
<1>24. ASSUME NEW s \in Spectators, IsClosed(s)
       PROVE  (ListenerIsKnown /\ CloseIsComplete /\ NobodyLeftBehind)'
    BY <1>24, RelayAssumption DEF TypeOK, ListenerIsKnown, CloseIsComplete,
       NobodyLeftBehind, IsClosed, Move, Free, closeVars, timerVars, runVars,
       stateVars, channelVars, spectatorVars
<1>25. ASSUME NEW s \in Spectators, GetPublishingServer(s)
       PROVE  (ListenerIsKnown /\ CloseIsComplete /\ NobodyLeftBehind)'
    BY <1>25, RelayAssumption DEF TypeOK, ListenerIsKnown, CloseIsComplete,
       NobodyLeftBehind, GetPublishingServer, Move, Free, closeVars,
       timerVars, runVars, stateVars, channelVars, spectatorVars
<1>26. ASSUME NEW s \in Spectators, GetRelayOrCreate(s)
       PROVE  (ListenerIsKnown /\ CloseIsComplete /\ NobodyLeftBehind)'
    BY <1>26, RelayAssumption DEF TypeOK, ListenerIsKnown, CloseIsComplete,
       NobodyLeftBehind, GetRelayOrCreate, Move, Free, closeVars, timerVars,
       runVars, stateVars, channelVars, spectatorVars
<1>27. ASSUME NEW s \in Spectators, GetExisting(s)
       PROVE  (ListenerIsKnown /\ CloseIsComplete /\ NobodyLeftBehind)'
    BY <1>27, RelayAssumption DEF TypeOK, ListenerIsKnown, CloseIsComplete,
       NobodyLeftBehind, GetExisting, Move, Free, closeVars, timerVars,
       runVars, stateVars, channelVars, spectatorVars
<1>28. ASSUME NEW s \in Spectators, NEW r \in Relays, CreateRelay(s, r)
       PROVE  (ListenerIsKnown /\ CloseIsComplete /\ NobodyLeftBehind)'
    BY <1>28, RelayAssumption DEF TypeOK, ListenerIsKnown, CloseIsComplete,
       NobodyLeftBehind, CreateRelay, Move, Free, closeVars, timerVars,
       runVars, stateVars, channelVars, spectatorVars
<1>29. ASSUME NEW s \in Spectators, WaitUntilReady(s)
       PROVE  (ListenerIsKnown /\ CloseIsComplete /\ NobodyLeftBehind)'
    BY <1>29, RelayAssumption DEF TypeOK, ListenerIsKnown, CloseIsComplete,
       NobodyLeftBehind, WaitUntilReady, Move, Free, closeVars, timerVars,
       runVars, stateVars, channelVars, spectatorVars
<1>30. ASSUME NEW s \in Spectators, WaitGroupDone(s)
       PROVE  (ListenerIsKnown /\ CloseIsComplete /\ NobodyLeftBehind)'
    BY <1>30, RelayAssumption DEF TypeOK, ListenerIsKnown, CloseIsComplete,
       NobodyLeftBehind, WaitGroupDone, Move, Free, closeVars, timerVars,
       runVars, stateVars, channelVars, spectatorVars
<1>31. ASSUME NEW s \in Spectators, AddListener(s)
       PROVE  (ListenerIsKnown /\ CloseIsComplete /\ NobodyLeftBehind)'
    BY <1>31, RelayAssumption DEF TypeOK, ListenerIsKnown, CloseIsComplete,
       NobodyLeftBehind, AddListener, Move, Free, closeVars, timerVars,
       runVars, stateVars, channelVars, spectatorVars
<1>32. ASSUME NEW s \in Spectators, ReceiveFragment(s)
       PROVE  (ListenerIsKnown /\ CloseIsComplete /\ NobodyLeftBehind)'
    BY <1>32, RelayAssumption DEF TypeOK, ListenerIsKnown, CloseIsComplete,
       NobodyLeftBehind, ReceiveFragment, Free, closeVars, timerVars, runVars,
       stateVars, channelVars, spectatorVars
<1>33. ASSUME NEW s \in Spectators, ReceiveClose(s)
       PROVE  (ListenerIsKnown /\ CloseIsComplete /\ NobodyLeftBehind)'
    BY <1>33, RelayAssumption DEF TypeOK, ListenerIsKnown, CloseIsComplete,
       NobodyLeftBehind, ReceiveClose, Move, Free, closeVars, timerVars,
       runVars, stateVars, channelVars, spectatorVars
<1>34. ASSUME NEW s \in Spectators, ReceiveInterrupt(s)
       PROVE  (ListenerIsKnown /\ CloseIsComplete /\ NobodyLeftBehind)'
    BY <1>34, RelayAssumption DEF TypeOK, ListenerIsKnown, CloseIsComplete,
       NobodyLeftBehind, ReceiveInterrupt, Move, Free, closeVars, timerVars,
       runVars, stateVars, channelVars, spectatorVars
<1>35. ASSUME NEW s \in Spectators, RemoveListener(s)
       PROVE  (ListenerIsKnown /\ CloseIsComplete /\ NobodyLeftBehind)'
    BY <1>35, RelayAssumption DEF TypeOK, ListenerIsKnown, CloseIsComplete,
       NobodyLeftBehind, RemoveListener, Move, Free, closeVars, timerVars,
       runVars, stateVars, channelVars, spectatorVars
<1>36. ASSUME NEW s \in Spectators, WriteReturns(s)
       PROVE  (ListenerIsKnown /\ CloseIsComplete /\ NobodyLeftBehind)'
    BY <1>36, RelayAssumption DEF TypeOK, ListenerIsKnown, CloseIsComplete,
       NobodyLeftBehind, WriteReturns, Free, closeVars, timerVars, runVars,
       stateVars, channelVars, spectatorVars
<1>37. CASE UNCHANGED vars
    BY <1>37 DEF TypeOK, ListenerIsKnown, CloseIsComplete, NobodyLeftBehind,
       Free, vars, closeVars, timerVars, runVars, stateVars, channelVars,
       spectatorVars
<1> QED
    BY <1>1, <1>2, <1>3, <1>4, <1>5, <1>6, <1>7, <1>8, <1>9, <1>10, <1>11,
       <1>12, <1>13, <1>14, <1>15, <1>16, <1>17, <1>18, <1>19, <1>20, <1>21,
       <1>22, <1>23, <1>24, <1>25, <1>26, <1>27, <1>28, <1>29, <1>30, <1>31,
       <1>32, <1>33, <1>34, <1>35, <1>36, <1>37 DEF Next, RunStep,
       CloseStep, ReadMessage, TimerStep, SpectatorStep

(* The invariant is inductive.                                             *)
THEOREM Inductive == Spec => []IInv
<1>1. IInv /\ [Next]_vars => IInv'
    BY StepTypeOK, StepOpen, StepListening DEF IInv
<1> QED
    BY InitIInv, <1>1, PTL DEF Spec

(* Every variable keeps its type, and the channels their capacity.         *)
THEOREM TypeCorrect == Spec => []TypeOK
<1>1. IInv => TypeOK
    BY DEF IInv
<1> QED
    BY Inductive, <1>1, PTL

(* The stream is pulled by one open relay, the one in the map.             *)
THEOREM OneOpenRelayHolds == Spec => []OneOpenRelay
<1>1. IInv => OneOpenRelay
    BY DEF IInv
<1> QED
    BY Inductive, <1>1, PTL

(* No listener of a relay that is closed misses the close event.           *)
THEOREM NobodyLeftBehindHolds == Spec => []NobodyLeftBehind
<1>1. IInv => NobodyLeftBehind
    BY DEF IInv
<1> QED
    BY Inductive, <1>1, PTL

-----------------------------------------------------------------------------
(* Who waits for whom.                                                     *)

(* A spectator that got a relay, and the map, name one that was started.   *)
GivenIsStarted ==
    /\ relays # None => run[relays] # "off"
    /\ \A s \in Spectators :
           pc[s] \in {"found", "wait", "waitGroup", "start", "listening",
                      "leaving"} =>
               relay[s] \in Relays /\ run[relay[s]] # "off"

(* Run marks the relay as ready before its last Close().                   *)
EndedIsReady ==
    \A r \in Relays :
        run[r] \in {"lastClose", "lastClosing", "clearing", "unregister",
                    "done"} => ready[r]

(* Only a spectator that creates a relay holds the controller's lock.      *)
CreatorHoldsLock ==
    \A s \in Spectators : rcMu = s <=> pc[s] = "creating"

(* Close() ranges over listeners, which have yet to leave.                 *)
TargetListens ==
    /\ \A r \in Relays :
           /\ closeTarget[r] # None => closeTarget[r] \in closePending[r]
           /\ closePending[r] \subseteq listeners[r]
           /\ closePending[r] # {} => ~Free(r)
    /\ \A r \in Relays, s \in Spectators :
           s \in listeners[r] =>
               relay[s] = r /\ pc[s] \in {"listening", "leaving"}

(* The check of inactivity starts on an open relay, and whoever closes the *)
(* relay ends it or tells it.                                              *)
CheckIsTold ==
    \A r \in Relays :
        /\ run[r] \in {"off", "dialing", "connected"} =>
               ~closed[r] /\ inactivity[r] = "off"
        /\ closed[r] /\ inactivity[r] = "running" => inactivityInterrupt[r]

WaitInv ==
    /\ GivenIsStarted /\ EndedIsReady /\ CreatorHoldsLock
    /\ TargetListens /\ CheckIsTold

(* The goroutines of a relay move no spectator, and start no relay.        *)
LEMMA RelayFrame ==
    ASSUME NEW r \in Relays, TypeOK,
           RunStep(r) \/ ReadMessage(r) \/ TimerStep(r)
    PROVE  /\ UNCHANGED <<rcMu, pc, relay>>
           /\ relays' \in {relays, None}
           /\ \A q \in Relays : q # r => run'[q] = run[q]
           /\ run[r] # "off" => run'[r] # "off"
<1>1. CASE RunStep(r)
    BY <1>1 DEF RunStep, RunTo, DialSucceeds, DialFails, SendPullMessage,
       SendPullMessageFails, CloseStep, CloseRange, CloseSend, CloseEnd,
       LeaveCheck, LeaveClose, SetReady, OnCloseBegin, OnCloseClear,
       OnRelayClosed, TypeOK, spectatorVars, runVars
<1>2. CASE ReadMessage(r)
    BY <1>2 DEF ReadMessage, RunTo, ReadOK, HandleFragmentMetadata,
       ReadBinaryMessage, ReadFails, HandleClose, TypeOK, spectatorVars
<1>3. CASE TimerStep(r)
    BY <1>3 DEF TimerStep, HeartbeatStops, InactivityStops, InactivityWarns,
       InactivityCloses, spectatorVars, runVars
<1> QED
    BY <1>1, <1>2, <1>3

(* Every step keeps what is given started.                                 *)
LEMMA StepGiven == TypeOK /\ GivenIsStarted /\ [Next]_vars => GivenIsStarted'
<1> SUFFICES ASSUME TypeOK, GivenIsStarted, [Next]_vars
             PROVE  GivenIsStarted'
    OBVIOUS
<1>1. ASSUME NEW r \in Relays, RunStep(r) \/ ReadMessage(r) \/ TimerStep(r)
      PROVE  GivenIsStarted'
    BY <1>1, RelayFrame DEF TypeOK, GivenIsStarted
<1>2. ASSUME NEW s \in Spectators,
             \/ GetRelay(s) \/ IsClosed(s) \/ GetPublishingServer(s)
             \/ GetRelayOrCreate(s) \/ GetExisting(s)
      PROVE  GivenIsStarted'
    BY <1>2 DEF TypeOK, GivenIsStarted, GetRelay, IsClosed,
       GetPublishingServer, GetRelayOrCreate, GetExisting, Move, runVars
<1>3. ASSUME NEW s \in Spectators, NEW r \in Relays, CreateRelay(s, r)
      PROVE  GivenIsStarted'
    BY <1>3 DEF TypeOK, GivenIsStarted, CreateRelay, Move
<1>4. ASSUME NEW s \in Spectators,
             \/ WaitUntilReady(s) \/ WaitGroupDone(s) \/ AddListener(s)
             \/ ReceiveFragment(s) \/ ReceiveClose(s) \/ WriteReturns(s)
             \/ ReceiveInterrupt(s) \/ RemoveListener(s)
      PROVE  GivenIsStarted'
    BY <1>4 DEF TypeOK, GivenIsStarted, WaitUntilReady, WaitGroupDone,
       AddListener, ReceiveFragment, ReceiveClose, WriteReturns,
       ReceiveInterrupt, RemoveListener, Move, runVars, spectatorVars
<1>5. CASE UNCHANGED vars
    BY <1>5 DEF GivenIsStarted, vars, runVars, spectatorVars
<1> QED
    BY <1>1, <1>2, <1>3, <1>4, <1>5 DEF Next, SpectatorStep

(* The lock of the controller passes from one creator to the next.         *)
LEMMA StepLock == TypeOK /\ CreatorHoldsLock /\ [Next]_vars => CreatorHoldsLock'
<1> SUFFICES ASSUME TypeOK, CreatorHoldsLock, [Next]_vars
             PROVE  CreatorHoldsLock'
    OBVIOUS
<1> USE RelayAssumption
<1>1. ASSUME NEW r \in Relays, RunStep(r) \/ ReadMessage(r) \/ TimerStep(r)
      PROVE  CreatorHoldsLock'
    BY <1>1, RelayFrame DEF CreatorHoldsLock
<1>2. ASSUME NEW s \in Spectators,
             \/ GetRelay(s) \/ IsClosed(s) \/ GetPublishingServer(s)
             \/ GetRelayOrCreate(s) \/ GetExisting(s)
             \/ \E r \in Relays : CreateRelay(s, r)
      PROVE  CreatorHoldsLock'
    BY <1>2 DEF TypeOK, CreatorHoldsLock, GetRelay, IsClosed,
       GetPublishingServer, GetRelayOrCreate, GetExisting, CreateRelay, Move
<1>3. ASSUME NEW s \in Spectators,
             \/ WaitUntilReady(s) \/ WaitGroupDone(s) \/ AddListener(s)
             \/ ReceiveFragment(s) \/ ReceiveClose(s) \/ WriteReturns(s)
             \/ ReceiveInterrupt(s) \/ RemoveListener(s)
      PROVE  CreatorHoldsLock'
    BY <1>3 DEF TypeOK, CreatorHoldsLock, WaitUntilReady, WaitGroupDone,
       AddListener, ReceiveFragment, ReceiveClose, WriteReturns,
       ReceiveInterrupt, RemoveListener, Move, spectatorVars
<1>4. CASE UNCHANGED vars
    BY <1>4 DEF CreatorHoldsLock, vars, spectatorVars
<1> QED
    BY <1>1, <1>2, <1>3, <1>4 DEF Next, SpectatorStep

(* The spectators move no goroutine of a relay, but the one they create,   *)
(* and close nothing.                                                      *)
LEMMA SpectatorFrame ==
    ASSUME NEW s \in Spectators, TypeOK,
           \/ GetRelay(s) \/ SpectatorStep(s) \/ WriteReturns(s)
           \/ ReceiveInterrupt(s)
    PROVE  /\ UNCHANGED <<ready, closed, closePending, closeTarget, inactivity,
                          inactivityInterrupt>>
           /\ \A r \in Relays :
                  run'[r] = run[r] \/ (run[r] = "off" /\ run'[r] = "dialing")
    BY DEF GetRelay, SpectatorStep, WriteReturns, ReceiveInterrupt, IsClosed,
       GetPublishingServer, GetRelayOrCreate, GetExisting, CreateRelay,
       WaitUntilReady, WaitGroupDone, AddListener, ReceiveFragment,
       ReceiveClose, RemoveListener, TypeOK, runVars, stateVars, closeVars,
       timerVars

(* Run does not end before the relay is marked as ready.                   *)
LEMMA StepReady == TypeOK /\ EndedIsReady /\ [Next]_vars => EndedIsReady'
<1> SUFFICES ASSUME TypeOK, EndedIsReady, [Next]_vars
             PROVE  EndedIsReady'
    OBVIOUS
<1>1. ASSUME NEW r \in Relays, RunStep(r) PROVE EndedIsReady'
    BY <1>1 DEF RunStep, RunTo, DialSucceeds, DialFails, SendPullMessage,
       SendPullMessageFails, CloseStep, CloseRange, CloseSend, CloseEnd,
       LeaveCheck, LeaveClose, SetReady, OnCloseBegin, OnCloseClear,
       OnRelayClosed, Free, TypeOK, EndedIsReady, runVars
<1>2. ASSUME NEW r \in Relays, ReadMessage(r) \/ TimerStep(r)
      PROVE  EndedIsReady'
    BY <1>2 DEF ReadMessage, RunTo, ReadOK, HandleFragmentMetadata,
       ReadBinaryMessage, ReadFails, HandleClose, TimerStep, HeartbeatStops,
       InactivityStops, InactivityWarns, InactivityCloses, TypeOK,
       EndedIsReady, runVars
<1>3. ASSUME NEW s \in Spectators,
             \/ GetRelay(s) \/ SpectatorStep(s) \/ WriteReturns(s)
             \/ ReceiveInterrupt(s)
      PROVE  EndedIsReady'
    BY <1>3, SpectatorFrame DEF EndedIsReady
<1>4. CASE UNCHANGED vars
    BY <1>4 DEF EndedIsReady, vars, runVars
<1> QED
    BY <1>1, <1>2, <1>3, <1>4 DEF Next

(* The check of inactivity is told of the end of its relay.                *)
LEMMA StepTold == TypeOK /\ CheckIsTold /\ [Next]_vars => CheckIsTold'
<1> SUFFICES ASSUME TypeOK, CheckIsTold, [Next]_vars
             PROVE  CheckIsTold'
    OBVIOUS
<1>1. ASSUME NEW r \in Relays, RunStep(r) PROVE CheckIsTold'
  <2>1. CASE DialSucceeds(r) \/ DialFails(r) \/ SendPullMessage(r)
                 \/ SendPullMessageFails(r)
      BY <2>1 DEF RunTo, DialSucceeds, DialFails, SendPullMessage,
         SendPullMessageFails, TypeOK, CheckIsTold, runVars, stateVars,
         timerVars
  <2>2. CASE CloseStep(r)
      BY <2>2 DEF CloseStep, CloseRange, CloseSend, CloseEnd, Free, TypeOK,
         CheckIsTold, runVars, stateVars, timerVars
  <2>3. CASE LeaveCheck(r) \/ LeaveClose(r) \/ SetReady(r) \/ OnCloseBegin(r)
                 \/ OnCloseClear(r) \/ OnRelayClosed(r)
      BY <2>3 DEF RunTo, LeaveCheck, LeaveClose, SetReady, OnCloseBegin,
         OnCloseClear, OnRelayClosed, TypeOK, CheckIsTold, runVars, stateVars,
         timerVars
  <2> QED
      BY <1>1, <2>1, <2>2, <2>3 DEF RunStep
<1>2. ASSUME NEW r \in Relays, ReadMessage(r) \/ TimerStep(r)
      PROVE  CheckIsTold'
    BY <1>2 DEF ReadMessage, RunTo, CanRead, ReadOK, HandleFragmentMetadata,
       ReadBinaryMessage, ReadFails, HandleClose, TimerStep, HeartbeatStops,
       InactivityStops, InactivityWarns, InactivityCloses, TypeOK,
       CheckIsTold, runVars, stateVars, timerVars
<1>3. ASSUME NEW s \in Spectators,
             \/ GetRelay(s) \/ SpectatorStep(s) \/ WriteReturns(s)
             \/ ReceiveInterrupt(s)
      PROVE  CheckIsTold'
    BY <1>3, SpectatorFrame DEF CheckIsTold
<1>4. CASE UNCHANGED vars
    BY <1>4 DEF CheckIsTold, vars, runVars, stateVars, timerVars
<1> QED
    BY <1>1, <1>2, <1>3, <1>4 DEF Next

(* Close() ranges over listeners, which it keeps from leaving.             *)
LEMMA StepTarget == TypeOK /\ TargetListens /\ [Next]_vars => TargetListens'
<1> SUFFICES ASSUME TypeOK, TargetListens, [Next]_vars
             PROVE  TargetListens'
    OBVIOUS
<1> USE RelayAssumption
<1>s. ASSUME UNCHANGED <<listeners, closePending, closeTarget>>,
             \A q \in Relays : ~Free(q) => ~Free(q)',
             \A k \in Spectators :
                 pc[k] \in {"listening", "leaving"} =>
                     /\ pc'[k] \in {"listening", "leaving"}
                     /\ relay'[k] = relay[k]
      PROVE  TargetListens'
    BY <1>s DEF TargetListens
<1>1. ASSUME NEW r \in Relays, RunStep(r) PROVE TargetListens'
  <2>f. UNCHANGED <<pc, relay>>
      BY <1>1, RelayFrame
  <2>1. CASE DialSucceeds(r) \/ DialFails(r) \/ SendPullMessage(r)
                 \/ SendPullMessageFails(r) \/ LeaveCheck(r)
                 \/ LeaveClose(r) \/ SetReady(r) \/ OnCloseClear(r)
                 \/ OnRelayClosed(r)
    <3>1. UNCHANGED <<listeners, closePending, closeTarget>>
        BY <2>1 DEF DialSucceeds, DialFails, SendPullMessage,
           SendPullMessageFails, LeaveCheck, LeaveClose, SetReady,
           OnCloseClear, OnRelayClosed, stateVars, closeVars
    <3>2. \A q \in Relays : ~Free(q) => ~Free(q)'
        BY <2>1 DEF DialSucceeds, DialFails, SendPullMessage,
           SendPullMessageFails, LeaveCheck, LeaveClose, SetReady,
           OnCloseClear, OnRelayClosed, RunTo, Free, TypeOK
    <3> QED
        BY <1>s, <2>f, <3>1, <3>2
  <2>2. CASE \E s \in Spectators : CloseRange(r, s)
      BY <2>2 DEF CloseRange, Free, TypeOK, TargetListens, runVars,
         stateVars, spectatorVars
  <2>3. CASE CloseSend(r)
      BY <2>3 DEF CloseSend, Free, TypeOK, TargetListens, runVars,
         stateVars, spectatorVars
  <2>4. CASE CloseEnd(r)
      BY <2>4 DEF CloseEnd, Free, TypeOK, TargetListens, closeVars,
         spectatorVars
  <2>5. CASE OnCloseBegin(r)
      BY <2>5 DEF OnCloseBegin, RunTo, Free, TypeOK, TargetListens, stateVars,
         spectatorVars
  <2> QED
      BY <1>1, <2>1, <2>2, <2>3, <2>4, <2>5 DEF RunStep, CloseStep
<1>2. ASSUME NEW r \in Relays, ReadMessage(r) PROVE TargetListens'
  <2>1. CASE HandleClose(r)
    <3>1. CASE closed[r]
        BY <2>1, <3>1, <1>s DEF HandleClose, RunTo, Free, TypeOK, stateVars,
           spectatorVars
    <3>2. CASE ~closed[r]
      <4>1. /\ closePending' = [closePending EXCEPT ![r] = listeners[r]]
            /\ run' = [run EXCEPT ![r] = "closing"]
            /\ run[r] = "reading"
            /\ UNCHANGED <<listeners, closeTarget, pc, relay>>
          BY <2>1, <3>2 DEF HandleClose, RunTo, stateVars, spectatorVars
      <4> QED
          BY <4>1 DEF Free, TypeOK, TargetListens
    <3> QED
        BY <3>1, <3>2
  <2>2. CASE ReadOK(r) \/ HandleFragmentMetadata(r) \/ ReadBinaryMessage(r)
                 \/ ReadFails(r)
    <3>1. UNCHANGED <<pc, relay, listeners, closePending, closeTarget>>
        BY <2>2 DEF ReadOK, HandleFragmentMetadata, ReadBinaryMessage,
           ReadFails, stateVars, closeVars, spectatorVars
    <3>2. \A q \in Relays : ~Free(q) => ~Free(q)'
        BY <2>2 DEF ReadOK, HandleFragmentMetadata, ReadBinaryMessage,
           ReadFails, RunTo, Free, TypeOK
    <3> QED
        BY <1>s, <3>1, <3>2
  <2> QED
      BY <1>2, <2>1, <2>2 DEF ReadMessage
<1>3. ASSUME NEW r \in Relays, TimerStep(r) PROVE TargetListens'
  <2>1. UNCHANGED <<run, pc, relay, closePending, closeTarget>>
      BY <1>3 DEF TimerStep, HeartbeatStops, InactivityStops,
         InactivityWarns, InactivityCloses, runVars, closeVars, spectatorVars
  <2>2. UNCHANGED listeners
    <3>1. CASE InactivityCloses(r)
        BY <3>1 DEF InactivityCloses, TypeOK
    <3>2. CASE HeartbeatStops(r) \/ InactivityStops(r) \/ InactivityWarns(r)
        BY <3>2 DEF HeartbeatStops, InactivityStops, InactivityWarns, stateVars
    <3> QED
        BY <1>3, <3>1, <3>2 DEF TimerStep
  <2> QED
      BY <1>s, <2>1, <2>2 DEF Free
<1>4. ASSUME NEW s \in Spectators,
             \/ GetRelay(s) \/ IsClosed(s) \/ GetPublishingServer(s)
             \/ GetRelayOrCreate(s) \/ GetExisting(s)
             \/ \E r \in Relays : CreateRelay(s, r)
      PROVE  TargetListens'
  <2>1. /\ UNCHANGED <<listeners, closePending, closeTarget>>
        /\ pc[s] \in {"idle", "found", "lookup", "create", "creating"}
        /\ \A k \in Spectators :
               k # s => pc'[k] = pc[k] /\ relay'[k] = relay[k]
      BY <1>4 DEF GetRelay, IsClosed, GetPublishingServer, GetRelayOrCreate,
         GetExisting, CreateRelay, Move, TypeOK, stateVars, closeVars
  <2>2. \A q \in Relays : ~Free(q) => ~Free(q)'
      BY <1>4 DEF GetRelay, IsClosed, GetPublishingServer, GetRelayOrCreate,
         GetExisting, CreateRelay, Free, TypeOK, runVars
  <2> QED
      BY <1>s, <2>1, <2>2
<1>5. ASSUME NEW s \in Spectators,
             \/ WaitUntilReady(s) \/ WaitGroupDone(s)
             \/ ReceiveFragment(s) \/ ReceiveClose(s) \/ WriteReturns(s)
             \/ ReceiveInterrupt(s)
      PROVE  TargetListens'
  <2>1. UNCHANGED <<relay, run, listeners, closePending, closeTarget>>
      BY <1>5 DEF WaitUntilReady, WaitGroupDone, ReceiveFragment,
         ReceiveClose, WriteReturns, ReceiveInterrupt, runVars, stateVars,
         closeVars, spectatorVars
  <2>2. \A k \in Spectators :
            pc[k] \in {"listening", "leaving"} =>
                pc'[k] \in {"listening", "leaving"}
    <3>1. CASE WaitUntilReady(s) \/ WaitGroupDone(s)
        BY <3>1 DEF WaitUntilReady, WaitGroupDone, Move, TypeOK
    <3>2. CASE ReceiveFragment(s) \/ WriteReturns(s)
        BY <3>2 DEF ReceiveFragment, WriteReturns, spectatorVars
    <3>3. CASE ReceiveClose(s) \/ ReceiveInterrupt(s)
        BY <3>3 DEF ReceiveClose, ReceiveInterrupt, Move, TypeOK
    <3> QED
        BY <1>5, <3>1, <3>2, <3>3
  <2> QED
      BY <1>s, <2>1, <2>2 DEF Free
<1>6. ASSUME NEW s \in Spectators, AddListener(s) \/ RemoveListener(s)
      PROVE  TargetListens'
  <2>1. CASE AddListener(s)
    <3>1. /\ UNCHANGED <<run, relay, closePending, closeTarget>>
          /\ pc[s] = "start"
          /\ \A k \in Spectators : k # s => pc'[k] = pc[k]
        BY <2>1 DEF AddListener, Move, TypeOK, runVars, closeVars
    <3>2. CASE closed[relay[s]]
      <4>1. UNCHANGED listeners
          BY <2>1, <3>2 DEF AddListener
      <4>2. \A k \in Spectators : pc[k] \in {"listening", "leaving"} => k # s
          BY <3>1
      <4> QED
          BY <1>s, <3>1, <4>1, <4>2 DEF Free
    <3>3. CASE ~closed[relay[s]]
      <4>1. /\ listeners' = [listeners EXCEPT ![relay[s]] = @ \cup {s}]
            /\ pc'[s] = "listening"
          BY <2>1, <3>3 DEF AddListener, Move, TypeOK
      <4>2. \A r \in Relays :
                /\ listeners[r] \subseteq listeners'[r]
                /\ listeners'[r] \subseteq listeners[r] \cup {s}
                /\ s \in listeners'[r] => r = relay[s] \/ s \in listeners[r]
          BY <4>1 DEF TypeOK
      <4> QED
          BY <3>1, <4>1, <4>2 DEF TargetListens, Free
    <3> QED
        BY <3>2, <3>3
  <2>2. CASE RemoveListener(s)
      BY <2>2 DEF TypeOK, TargetListens, RemoveListener, Move, Free, runVars,
         closeVars
  <2> QED
      BY <1>6, <2>1, <2>2
<1>7. CASE UNCHANGED vars
    BY <1>7, <1>s DEF Free, vars, runVars, stateVars, closeVars, spectatorVars
<1> QED
    BY <1>1, <1>2, <1>3, <1>4, <1>5, <1>6, <1>7 DEF Next, SpectatorStep

(* The facts about who waits for whom hold of every behaviour.             *)
LEMMA WaitInductive == Spec => []WaitInv
<1>1. Init => WaitInv
    BY RelayAssumption
    DEF Init, WaitInv, GivenIsStarted, EndedIsReady, CreatorHoldsLock,
        TargetListens, CheckIsTold
<1>2. TypeOK /\ WaitInv /\ [Next]_vars => WaitInv'
    BY StepGiven, StepReady, StepLock, StepTarget, StepTold DEF WaitInv
<1> QED
    BY <1>1, <1>2, TypeCorrect, PTL DEF Spec

(* But for a wedged relay, nobody waits for what has passed: no spectator  *)
(* misses the end of the wait group, and no lock is kept by somebody who   *)
(* waits for its next holder.                                              *)
THEOREM WaitsAreAnsweredHolds == Spec => []WaitsAreAnswered
<1>1. TypeOK /\ WaitInv => WaitsAreAnswered
  <2> SUFFICES ASSUME TypeOK, WaitInv
               PROVE  WaitsAreAnswered
      OBVIOUS
  <2>1. ASSUME NEW s \in Spectators, pc[s] = "waitGroup", ~ready[relay[s]]
        PROVE  run[relay[s]] \in {"dialing", "connected", "reading", "closing",
                                  "leaving", "closeSocket", "setReady"}
      BY <2>1 DEF TypeOK, WaitInv, GivenIsStarted, EndedIsReady
  <2>2. rcMu # None => pc[rcMu] = "creating"
      BY DEF TypeOK, WaitInv, CreatorHoldsLock
  <2>3. ASSUME NEW r \in Relays, closeTarget[r] # None,
               ~HasRoom(closeTarget[r]), ~WedgedAt(r)
        PROVE  pc[closeTarget[r]] = "listening"
      BY <2>3 DEF TypeOK, WaitInv, TargetListens, WedgedAt
  <2> QED
      BY <2>1, <2>2, <2>3 DEF WaitsAreAnswered, WaitInv, CheckIsTold
<1> QED
    BY <1>1, WaitInductive, TypeCorrect, PTL

(* Nothing lets a wedged Close() go on: its spectator waits for relay.mu,  *)
(* and no fragment leaves the channel.                                     *)
LEMMA WedgedStays ==
    ASSUME NEW r \in Relays, TypeOK, WaitInv, WedgedAt(r), [Next]_vars
    PROVE  WedgedAt(r)' /\ ~Free(r)
<1> USE RelayAssumption
<1> DEFINE t == closeTarget[r]
<1>1. /\ t \in Spectators /\ t \in listeners[r] /\ relay[t] = r
      /\ ~Free(r) /\ closePending[r] # {}
      /\ ~HasRoom(t) /\ pc[t] = "leaving"
      /\ fragments[t] \in Nat /\ closeEvent[t] \in BOOLEAN
    BY DEF WedgedAt, TypeOK, WaitInv, TargetListens
<1>2. ASSUME NEW q \in Relays, RunStep(q)
      PROVE  WedgedAt(r)'
    BY <1>1, <1>2 DEF RunStep, RunTo, DialSucceeds, DialFails,
       SendPullMessage, SendPullMessageFails, CloseStep, CloseRange, CloseSend,
       CloseEnd, LeaveCheck, LeaveClose, SetReady, OnCloseBegin, OnCloseClear,
       OnRelayClosed, WedgedAt, HasRoom, TypeOK, closeVars, channelVars,
       spectatorVars
<1>3. ASSUME NEW q \in Relays, ReadMessage(q) \/ TimerStep(q)
      PROVE  WedgedAt(r)'
    BY <1>1, <1>3 DEF ReadMessage, RunTo, CanRead, ReadOK,
       HandleFragmentMetadata, ReadBinaryMessage, ReadFails, HandleClose,
       TimerStep, HeartbeatStops, InactivityStops, InactivityWarns,
       InactivityCloses, WedgedAt, HasRoom, TypeOK, closeVars, channelVars,
       spectatorVars
<1>4. ASSUME NEW s \in Spectators,
             \/ GetRelay(s) \/ SpectatorStep(s) \/ WriteReturns(s)
             \/ ReceiveInterrupt(s)
      PROVE  WedgedAt(r)'
    BY <1>1, <1>4 DEF GetRelay, SpectatorStep, WriteReturns, ReceiveInterrupt,
       IsClosed, GetPublishingServer, GetRelayOrCreate, GetExisting,
       CreateRelay, WaitUntilReady, WaitGroupDone, AddListener, ReceiveFragment,
       ReceiveClose, RemoveListener, Move, Free, WedgedAt, HasRoom, TypeOK,
       closeVars, channelVars, spectatorVars
<1>5. CASE UNCHANGED vars
    BY <1>1, <1>5 DEF WedgedAt, HasRoom, vars, closeVars, channelVars,
       spectatorVars
<1> QED
    BY <1>1, <1>2, <1>3, <1>4, <1>5 DEF Next

(* A wedged relay is wedged for ever.                                      *)
THEOREM WedgedForEver ==
    ASSUME NEW r \in Relays
    PROVE  Spec => [](WedgedAt(r) => []WedgedAt(r))
<1>1. TypeOK /\ WaitInv /\ WedgedAt(r) /\ [Next]_vars => WedgedAt(r)'
    BY WedgedStays
<1> QED
    BY <1>1, WaitInductive, TypeCorrect, PTL DEF Spec

(* A spectator that asks for a relay while it is wedged keeps the lock of  *)
(* the controller for ever: no other stream of the server, whose relays    *)
(* are handed out under the same lock, is relayed from then on.            *)
THEOREM WedgeKeepsLock ==
    ASSUME NEW r \in Relays, NEW s \in Spectators
    PROVE  Spec => [](WedgedAt(r) /\ relays = r /\ rcMu = s => [](rcMu = s))
<1> DEFINE Kept == WedgedAt(r) /\ relays = r /\ rcMu = s
<1>1. TypeOK /\ WaitInv /\ Kept /\ [Next]_vars => Kept'
  <2> SUFFICES ASSUME TypeOK, WaitInv, Kept, [Next]_vars
               PROVE  Kept'
      OBVIOUS
  <2>1. WedgedAt(r)' /\ ~Free(r)
      BY WedgedStays
  <2>2. /\ rcMu # None /\ relays # None
        /\ \A q \in Spectators : pc[q] = "creating" => q = s
      BY RelayAssumption DEF WaitInv, CreatorHoldsLock
  <2>3. UNCHANGED <<relays, rcMu>>
      BY <2>1, <2>2 DEF Next, RunStep, RunTo, DialSucceeds, DialFails,
         SendPullMessage, SendPullMessageFails, CloseStep, CloseRange,
         CloseSend, CloseEnd, LeaveCheck, LeaveClose, SetReady, OnCloseBegin,
         OnCloseClear, OnRelayClosed, ReadMessage, ReadOK,
         HandleFragmentMetadata, ReadBinaryMessage, ReadFails, HandleClose,
         TimerStep, HeartbeatStops, InactivityStops, InactivityWarns,
         InactivityCloses, GetRelay, SpectatorStep, WriteReturns,
         ReceiveInterrupt, IsClosed, GetPublishingServer, GetRelayOrCreate,
         GetExisting, CreateRelay, WaitUntilReady, WaitGroupDone, AddListener,
         ReceiveFragment, ReceiveClose, RemoveListener, vars
  <2> QED
      BY <2>1, <2>3
<1>2. Kept => rcMu = s
    OBVIOUS
<1> QED
    BY <1>1, <1>2, WaitInductive, TypeCorrect, PTL DEF Spec
=============================================================================
