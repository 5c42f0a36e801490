--------------------------- MODULE HlsSourceProofs ---------------------------
(***************************************************************************)
(* Proofs about HlsSource, for any number of spectators and of goroutines  *)
(* that close the source, any buffer length and any number of fragments.   *)
(*                                                                         *)
(*   - TypeCorrect: every variable keeps to its type;                      *)
(*   - the inductive invariant IInv;                                       *)
(*   - the safety properties that follow from it;                          *)
(*   - when Close() can deadlock, and that it stays so;                    *)
(*   - the refinement of FragmentDelivery.                                 *)
(***************************************************************************)
EXTENDS HlsSource, SequenceTheorems, TLAPS

-----------------------------------------------------------------------------
(* The sequences the model is built from.                                  *)

(* What a channel or a socket becomes when an element is added to it.      *)
LEMMA AppendFacts ==
    ASSUME NEW S, NEW s \in Seq(S), NEW e \in S
    PROVE  /\ Append(s, e) \in Seq(S)
           /\ Len(Append(s, e)) = Len(s) + 1
           /\ Len(s) \in Nat
           /\ \A i \in 1 .. Len(s) : Append(s, e)[i] = s[i]
           /\ Append(s, e)[Len(s) + 1] = e
  OBVIOUS

(* What is left of a channel or a buffer when its head is taken.           *)
LEMMA TailFacts ==
    ASSUME NEW S, NEW s \in Seq(S), s # <<>>
    PROVE  /\ Head(s) \in S
           /\ Head(s) = s[1]
           /\ Tail(s) \in Seq(S)
           /\ Len(s) \in Nat \ {0}
           /\ Len(Tail(s)) = Len(s) - 1
           /\ \A i \in 1 .. Len(Tail(s)) : Tail(s)[i] = s[i + 1]
  OBVIOUS

(* AddFragment keeps the buffer within its length, and puts the new        *)
(* fragment last.                                                          *)
LEMMA PushFragmentFacts ==
    ASSUME NEW buffer \in Seq(1 .. MaxFragments),
           NEW frag \in 1 .. MaxFragments
    PROVE  PushFragment(buffer, frag) \in Seq(1 .. MaxFragments)
  <1>1. CASE Len(buffer) >= FragmentBufferMaxLength
    <2>1. buffer # <<>>
      BY <1>1, SourceAssumption
    <2>2. Tail(buffer) \in Seq(1 .. MaxFragments)
      BY <2>1
    <2>3. PushFragment(buffer, frag) = Append(Tail(buffer), frag)
      BY <1>1 DEF PushFragment
    <2> QED
      BY <2>2, <2>3, AppendFacts
  <1>2. CASE ~(Len(buffer) >= FragmentBufferMaxLength)
    <2>1. PushFragment(buffer, frag) = Append(buffer, frag)
      BY <1>2 DEF PushFragment
    <2> QED
      BY <2>1, AppendFacts
  <1> QED
    BY <1>1, <1>2

-----------------------------------------------------------------------------
(* Type correctness.                                                       *)

(* The initial states have the right types.                                *)
LEMMA InitType == Init => TypeOK
  <1> SUFFICES ASSUME Init PROVE TypeOK
    OBVIOUS
  <1>1. /\ <<>> \in Seq(1 .. MaxFragments)
        /\ <<>> \in Seq(Message)
    OBVIOUS
  <1>2. MaxFragments \in Nat
    BY SourceAssumption
  <1>3. /\ fragmentBuffer \in Seq(1 .. MaxFragments)
        /\ channel \in [Spectators -> Seq(Message)]
        /\ written \in [Spectators -> Seq(Message)]
        /\ initial \in [Spectators -> Seq(1 .. MaxFragments)]
        /\ \A l \in Spectators : Len(channel[l]) <= FragmentBufferMaxLength
    BY <1>1, SourceAssumption DEF Init
  <1>4. /\ joined \in [Spectators -> 0 .. MaxFragments]
        /\ dropped \in [Spectators -> SUBSET (1 .. MaxFragments)]
        /\ published \in 0 .. MaxFragments
    BY <1>2 DEF Init
  <1> QED
    BY <1>3, <1>4 DEF Init, TypeOK

(* Every step keeps the types.                                             *)
LEMMA NextType == TypeOK /\ [Next]_vars => TypeOK'
  <1> SUFFICES ASSUME TypeOK, [Next]_vars PROVE TypeOK'
    OBVIOUS
  <1>m. /\ MaxFragments \in Nat
        /\ 1 .. MaxFragments \subseteq Message
        /\ CLOSE \in Message
    BY SourceAssumption DEF Message, CLOSE
  <1>1. CASE AddFragment
    <2>1. published + 1 \in 1 .. MaxFragments /\ published + 1 \in Message
      BY <1>1, <1>m DEF AddFragment, TypeOK
    <2>2. fragmentBuffer' \in Seq(1 .. MaxFragments)
      <3>1. fragmentBuffer' = PushFragment(fragmentBuffer, published + 1)
                \/ fragmentBuffer' = <<>>
        <4>1. fragmentBuffer' \in BuffersAfter(published + 1)
          BY <1>1 DEF AddFragment
        <4>2. CASE LimiterEnabled
          BY <4>1, <4>2 DEF BuffersAfter
        <4>3. CASE ~LimiterEnabled
          BY <4>1, <4>3 DEF BuffersAfter
        <4> QED
          BY <4>2, <4>3, SourceAssumption
      <3>2. fragmentBuffer \in Seq(1 .. MaxFragments)
        BY DEF TypeOK
      <3>3. PushFragment(fragmentBuffer, published + 1)
                \in Seq(1 .. MaxFragments)
        BY <2>1, <3>2, PushFragmentFacts
      <3>4. <<>> \in Seq(1 .. MaxFragments)
        OBVIOUS
      <3> QED
        BY <3>1, <3>3, <3>4
    <2>3. ASSUME NEW l \in Spectators
          PROVE  Append(channel[l], published + 1) \in Seq(Message)
      BY <2>1 DEF TypeOK
    <2>4. channel' \in [Spectators -> Seq(Message)]
      BY <1>1, <2>3 DEF AddFragment, TypeOK
    <2>5. dropped' \in [Spectators -> SUBSET (1 .. MaxFragments)]
      BY <1>1, <2>1 DEF AddFragment, TypeOK
    <2>6. ASSUME NEW l \in Spectators
          PROVE  Len(channel'[l]) <= FragmentBufferMaxLength
      <3>1. /\ channel[l] \in Seq(Message)
            /\ Len(channel[l]) <= FragmentBufferMaxLength
        BY DEF TypeOK
      <3>2. \/ channel'[l] = channel[l]
            \/ channel'[l] = Append(channel[l], published + 1) /\ HasRoom(l)
        BY <1>1 DEF AddFragment
      <3> QED
        BY <2>1, <3>1, <3>2, AppendFacts, SourceAssumption DEF HasRoom
    <2> QED
      BY SMTT(30), <1>1, <1>m, <2>1, <2>2, <2>4, <2>5, <2>6
      DEF AddFragment, TypeOK, lockVars, announceVars, pullVars
  <1>2. ASSUME NEW c \in Closers, CloseBegin(c) PROVE TypeOK'
    BY <1>2 DEF CloseBegin, TypeOK, announceVars, pullVars, historyVars
  <1>3. ASSUME NEW l \in Spectators, CloseRange(l) PROVE TypeOK'
    BY <1>3 DEF CloseRange, TypeOK, announceVars, pullVars, historyVars
  <1>4. CASE CloseSend
    <2>1. closeTarget \in Spectators
      BY <1>4 DEF CloseSend, TypeOK
    <2>2. Append(channel[closeTarget], CLOSE) \in Seq(Message)
      BY <2>1, <1>m DEF TypeOK
    <2>3. channel' \in [Spectators -> Seq(Message)]
      BY <1>4, <2>1, <2>2 DEF CloseSend, TypeOK
    <2>4. ASSUME NEW l \in Spectators
          PROVE  Len(channel'[l]) <= FragmentBufferMaxLength
      <3>1. /\ channel[l] \in Seq(Message)
            /\ Len(channel[l]) <= FragmentBufferMaxLength
        BY DEF TypeOK
      <3>2. \/ channel'[l] = channel[l]
            \/ channel'[l] = Append(channel[l], CLOSE) /\ HasRoom(l)
        BY <1>4, <2>1 DEF CloseSend, TypeOK
      <3> QED
        BY <1>m, <3>1, <3>2, AppendFacts, SourceAssumption DEF HasRoom
    <2> QED
      BY <1>4, <2>3, <2>4
      DEF CloseSend, TypeOK, announceVars, pullVars, historyVars
  <1>5. CASE CloseEnd
    BY <1>5 DEF CloseEnd, TypeOK, pullVars, historyVars
  <1>6. CASE AnnounceStop
    BY <1>6 DEF AnnounceStop, TypeOK, lockVars, pullVars, historyVars
  <1>w. ASSUME NEW l \in Spectators, NEW m \in Message, Write(l, m)
        PROVE  /\ written' \in [Spectators -> Seq(Message)]
               /\ blocked' \subseteq Spectators
    <2>1. Append(written[l], m) \in Seq(Message)
      BY DEF TypeOK
    <2> QED
      BY <1>w, <2>1 DEF Write, TypeOK
  <1>r. ASSUME NEW l \in Spectators, channel[l] # <<>>,
               channel' = [channel EXCEPT ![l] = Tail(@)]
        PROVE  /\ channel' \in [Spectators -> Seq(Message)]
               /\ \A s \in Spectators :
                      Len(channel'[s]) <= FragmentBufferMaxLength
    <2>1. /\ channel \in [Spectators -> Seq(Message)]
          /\ channel[l] \in Seq(Message)
          /\ \A s \in Spectators : Len(channel[s]) <= FragmentBufferMaxLength
      BY DEF TypeOK
    <2>2. /\ Tail(channel[l]) \in Seq(Message)
          /\ Len(channel[l]) \in Nat
          /\ Len(Tail(channel[l])) = Len(channel[l]) - 1
      BY <1>r, <2>1, TailFacts
    <2>3. Len(Tail(channel[l])) <= FragmentBufferMaxLength
      BY <2>1, <2>2, SourceAssumption
    <2> QED
      BY <1>r, <2>1, <2>2, <2>3
  <1>7. ASSUME NEW l \in Spectators, AddListenerFails(l) PROVE TypeOK'
    <2>1. /\ written' \in [Spectators -> Seq(Message)]
          /\ blocked' \subseteq Spectators
      BY <1>7, <1>m, <1>w DEF AddListenerFails, SendClose
    <2>2. conn' \in [Spectators -> {"open", "down", "closed", "interrupted"}]
      BY <1>7 DEF AddListenerFails, SendClose, HangUp, TypeOK
    <2> QED
      BY <1>7, <2>1, <2>2 DEF AddListenerFails, TypeOK, lockVars, announceVars,
                              historyVars
  <1>8. ASSUME NEW l \in Spectators, NEW n \in MaxInitialOptions,
               AddListener(l, n)
        PROVE  TypeOK'
    <2> DEFINE k == Len(fragmentBuffer) - InitialCount(n) + 1
    <2>1. Len(fragmentBuffer) \in Nat /\ k \in Int /\ k >= 1
      BY <1>8, SourceAssumption DEF AddListener, InitialCount, TypeOK
    <2>2. SubSeq(fragmentBuffer, k, Len(fragmentBuffer))
              \in Seq(1 .. MaxFragments)
      <3>1. \A i \in k .. Len(fragmentBuffer) :
                fragmentBuffer[i] \in 1 .. MaxFragments
        <4>1. SUFFICES ASSUME NEW i \in k .. Len(fragmentBuffer)
                       PROVE  fragmentBuffer[i] \in 1 .. MaxFragments
          OBVIOUS
        <4>2. i \in 1 .. Len(fragmentBuffer)
          BY <2>1
        <4>3. fragmentBuffer \in Seq(1 .. MaxFragments)
          BY DEF TypeOK
        <4> QED
          BY <4>2, <4>3, ElementOfSeq
      <3>2. /\ k \in Int
            /\ Len(fragmentBuffer) \in Int
        BY <2>1
      <3> HIDE DEF k
      <3> QED
        BY <3>1, <3>2, SubSeqProperties
    <2>3. initial' \in [Spectators -> Seq(1 .. MaxFragments)]
      BY <1>8, <2>2 DEF AddListener, TypeOK
    <2>4. /\ channel' \in [Spectators -> Seq(Message)]
          /\ \A s \in Spectators :
                 Len(channel'[s]) <= FragmentBufferMaxLength
      <3>1. <<>> \in Seq(Message) /\ Len(<<>>) = 0
        OBVIOUS
      <3> QED
        BY <1>8, <3>1, SourceAssumption DEF AddListener, TypeOK
    <2>5. /\ mu' \in Closers \cup {NoOne}
          /\ closed' \in BOOLEAN
          /\ listeners' \subseteq Spectators
          /\ pull' \in [Spectators ->
                           {"start", "initial", "select", "leaving", "done"}]
          /\ joined' \in [Spectators -> 0 .. MaxFragments]
      BY <1>8 DEF AddListener, TypeOK
    <2> QED
      BY <1>8, <2>3, <2>4, <2>5 DEF AddListener, TypeOK, announceVars
  <1>9. ASSUME NEW l \in Spectators, NEW n \in MaxInitialOptions,
               PullStreamPanics(l, n)
        PROVE  TypeOK'
    BY <1>9 DEF PullStreamPanics, TypeOK, lockVars, announceVars, pullVars,
                historyVars
  <1>10. ASSUME NEW l \in Spectators, SendInitial(l) PROVE TypeOK'
    <2>1. /\ Head(initial[l]) \in Message
          /\ Tail(initial[l]) \in Seq(1 .. MaxFragments)
      BY <1>10, <1>m, TailFacts DEF SendInitial, TypeOK
    <2>2. /\ written' \in [Spectators -> Seq(Message)]
          /\ blocked' \subseteq Spectators
      BY <1>10, <2>1, <1>w DEF SendInitial, SendFragment
    <2> QED
      BY <1>10, <2>1, <2>2 DEF SendInitial, SendFragment, TypeOK, lockVars,
                               announceVars, historyVars
  <1>11. ASSUME NEW l \in Spectators, InitialSent(l) PROVE TypeOK'
    BY <1>11 DEF InitialSent, TypeOK, lockVars, announceVars, historyVars
  <1>12. ASSUME NEW l \in Spectators, ReceiveFragment(l) PROVE TypeOK'
    <2>1. Head(channel[l]) \in Message
      BY <1>12, TailFacts DEF ReceiveFragment, TypeOK
    <2>3. /\ channel' \in [Spectators -> Seq(Message)]
          /\ \A s \in Spectators :
                 Len(channel'[s]) <= FragmentBufferMaxLength
      BY <1>12, <1>r DEF ReceiveFragment
    <2>2. /\ written' \in [Spectators -> Seq(Message)]
          /\ blocked' \subseteq Spectators
      BY <1>12, <2>1, <1>w DEF ReceiveFragment, SendFragment
    <2> QED
      BY <1>12, <2>2, <2>3 DEF ReceiveFragment, SendFragment, TypeOK, lockVars,
                               announceVars, historyVars
  <1>13. ASSUME NEW l \in Spectators, ReceiveClose(l) PROVE TypeOK'
    <2>1. /\ channel' \in [Spectators -> Seq(Message)]
          /\ \A s \in Spectators :
                 Len(channel'[s]) <= FragmentBufferMaxLength
      BY <1>13, <1>r DEF ReceiveClose
    <2>2. /\ written' \in [Spectators -> Seq(Message)]
          /\ blocked' \subseteq Spectators
      BY <1>13, <1>m, <1>w DEF ReceiveClose, SendClose
    <2>3. conn' \in [Spectators -> {"open", "down", "closed", "interrupted"}]
      BY <1>13 DEF ReceiveClose, SendClose, HangUp, TypeOK
    <2> QED
      BY <1>13, <2>1, <2>2, <2>3 DEF ReceiveClose, TypeOK, lockVars,
                                     announceVars, historyVars
  <1>14. ASSUME NEW l \in Spectators, ReceiveInterrupt(l) PROVE TypeOK'
    BY <1>14 DEF ReceiveInterrupt, TypeOK, lockVars, announceVars, historyVars
  <1>15. ASSUME NEW l \in Spectators, RemoveListener(l) PROVE TypeOK'
    BY <1>15 DEF RemoveListener, TypeOK, announceVars, historyVars
  <1>16. ASSUME NEW l \in Spectators, Disconnect(l) PROVE TypeOK'
    BY <1>16 DEF Disconnect, TypeOK, lockVars, announceVars, historyVars
  <1>17. ASSUME NEW l \in Spectators, OnClose(l) PROVE TypeOK'
    BY <1>17 DEF OnClose, TypeOK, lockVars, announceVars, historyVars
  <1>18. ASSUME NEW l \in Spectators, WriteReturns(l) PROVE TypeOK'
    BY <1>18 DEF WriteReturns, HangUp, TypeOK, lockVars, announceVars,
                 historyVars
  <1>19. CASE UNCHANGED vars
    BY <1>19 DEF TypeOK, vars, lockVars, announceVars, pullVars, historyVars
  <1> QED
    BY <1>1, <1>2, <1>3, <1>4, <1>5, <1>6, <1>7, <1>8, <1>9, <1>10, <1>11,
       <1>12, <1>13, <1>14, <1>15, <1>16, <1>17, <1>18, <1>19
    DEF Next, CloseStep, PullStep

(* Every variable of the source keeps to its type, whatever the goroutines *)
(* that use it do.                                                         *)
THEOREM TypeCorrect == Spec => []TypeOK
  BY InitType, NextType, PTL DEF Spec

-----------------------------------------------------------------------------
(* The order of the messages of a sequence.                                *)

(* What is below p is at most p.                                           *)
LEMMA BelowIsAtMost ==
    ASSUME NEW s, NEW p \in Nat,
           \A i \in 1 .. Len(s) : s[i] \in Nat,
           \A i \in 1 .. Len(s) : s[i] < p
    PROVE  \A i \in 1 .. Len(s) : s[i] <= p
    OBVIOUS

(* Appending a later item keeps an increasing sequence.                    *)
LEMMA AppendKeepsOrder ==
    ASSUME NEW s \in Seq(Message), NEW e \in Message, Increasing(s),
           \A i \in 1 .. Len(s) : s[i] < e
    PROVE  Increasing(Append(s, e))
  BY AppendFacts DEF Increasing

(* The tail of an increasing sequence is increasing, and above its head.   *)
LEMMA TailKeepsOrder ==
    ASSUME NEW s \in Seq(Message), s # <<>>, Increasing(s)
    PROVE  /\ Increasing(Tail(s))
           /\ \A i \in 1 .. Len(Tail(s)) : Head(s) < Tail(s)[i]
  BY TailFacts DEF Increasing

(* An item above s may be appended to a sequence that follows s.           *)
LEMMA AppendFollows ==
    ASSUME NEW s \in Seq(Message), NEW t \in Seq(Message), NEW e \in Message,
           Precedes(s, t), \A i \in 1 .. Len(s) : s[i] < e
    PROVE  Precedes(s, Append(t, e))
  BY AppendFacts DEF Precedes

(* An item below t may be appended to a sequence that precedes t.          *)
LEMMA AppendPrecedes ==
    ASSUME NEW s \in Seq(Message), NEW t \in Seq(Message), NEW e \in Message,
           Precedes(s, t), \A i \in 1 .. Len(t) : e < t[i]
    PROVE  Precedes(Append(s, e), t)
  BY AppendFacts DEF Precedes

(* The tail of a sequence follows what the sequence follows.               *)
LEMMA TailFollows ==
    ASSUME NEW s \in Seq(Message), NEW t \in Seq(Message), t # <<>>,
           Precedes(s, t)
    PROVE  /\ Precedes(s, Tail(t))
           /\ \A i \in 1 .. Len(s) : s[i] < Head(t)
  BY TailFacts DEF Precedes

(* The tail of a sequence precedes what the sequence precedes.             *)
LEMMA TailPrecedes ==
    ASSUME NEW s \in Seq(Message), NEW t \in Seq(Message), s # <<>>,
           Precedes(s, t)
    PROVE  /\ Precedes(Tail(s), t)
           /\ \A i \in 1 .. Len(t) : Head(s) < t[i]
  BY TailFacts DEF Precedes

(* Moving the first message of t to the end of s, which is what a receive  *)
(* followed by a write does.                                               *)
LEMMA MoveKeepsOrder ==
    ASSUME NEW s \in Seq(Message), NEW t \in Seq(Message), t # <<>>,
           Increasing(s), Increasing(t), Precedes(s, t)
    PROVE  /\ Increasing(Append(s, Head(t)))
           /\ Increasing(Tail(t))
           /\ Precedes(Append(s, Head(t)), Tail(t))
           /\ Precedes(s, Tail(t))
  <1>1. Head(t) \in Message /\ Tail(t) \in Seq(Message)
    BY TailFacts
  <1>2. Increasing(Append(s, Head(t)))
    BY <1>1, TailFollows, AppendKeepsOrder
  <1>3. Precedes(s, Tail(t))
    BY TailFollows
  <1>4. Precedes(Append(s, Head(t)), Tail(t))
    BY <1>1, <1>3, TailKeepsOrder, AppendPrecedes
  <1> QED
    BY <1>2, <1>3, <1>4, TailKeepsOrder

-----------------------------------------------------------------------------
(* The lock, and how far each goroutine is.                                *)

(* Every step keeps the facts about the lock.                              *)
LEMMA NextLock == TypeOK /\ LockInv /\ [Next]_vars => LockInv'
  <1> SUFFICES ASSUME TypeOK, LockInv, [Next]_vars PROVE LockInv'
    OBVIOUS
  <1>1. CASE AddFragment
    BY <1>1 DEF AddFragment, LockInv, lockVars
  <1>2. ASSUME NEW c \in Closers, CloseBegin(c) PROVE LockInv'
    BY <1>2, SourceAssumption DEF CloseBegin, LockInv
  <1>3. ASSUME NEW l \in Spectators, CloseRange(l) PROVE LockInv'
    BY <1>3 DEF CloseRange, LockInv
  <1>4. CASE CloseSend
    BY <1>4 DEF CloseSend, LockInv
  <1>5. CASE CloseEnd
    BY <1>5 DEF CloseEnd, LockInv
  <1>6. CASE AnnounceStop
    BY <1>6 DEF AnnounceStop, LockInv, lockVars
  <1>7. ASSUME NEW l \in Spectators, PullStep(l) PROVE LockInv'
    BY <1>7 DEF PullStep, AddListenerFails, AddListener, PullStreamPanics,
                SendInitial, InitialSent, ReceiveFragment, ReceiveClose,
                ReceiveInterrupt, RemoveListener, LockInv, lockVars
  <1>8. ASSUME NEW l \in Spectators,
               Disconnect(l) \/ OnClose(l) \/ WriteReturns(l)
        PROVE  LockInv'
    BY <1>8 DEF Disconnect, OnClose, WriteReturns, LockInv, lockVars
  <1>9. CASE UNCHANGED vars
    BY <1>9 DEF LockInv, vars, lockVars
  <1> QED
    BY <1>1, <1>2, <1>3, <1>4, <1>5, <1>6, <1>7, <1>8, <1>9
    DEF Next, CloseStep

(* Every step keeps the facts about the pull goroutines.                   *)
LEMMA NextPull == TypeOK /\ LockInv /\ PullInv /\ [Next]_vars => PullInv'
  <1> SUFFICES ASSUME TypeOK, LockInv, PullInv, [Next]_vars PROVE PullInv'
    OBVIOUS
  <1>1. CASE AddFragment
    BY <1>1 DEF AddFragment, TypeOK, PullInv, lockVars, pullVars
  <1>2. ASSUME NEW c \in Closers, CloseBegin(c) PROVE PullInv'
    BY <1>2 DEF CloseBegin, PullInv, pullVars
  <1>3. ASSUME NEW l \in Spectators, CloseRange(l) PROVE PullInv'
    BY <1>3 DEF CloseRange, PullInv, pullVars
  <1>4. CASE CloseSend
    BY <1>4 DEF CloseSend, TypeOK, LockInv, PullInv, pullVars
  <1>5. CASE CloseEnd
    BY <1>5 DEF CloseEnd, PullInv, pullVars
  <1>6. CASE AnnounceStop
    BY <1>6 DEF AnnounceStop, PullInv, lockVars, pullVars
  <1>7. ASSUME NEW l \in Spectators, AddListenerFails(l) PROVE PullInv'
    BY <1>7 DEF AddListenerFails, SendClose, Write, TypeOK, LockInv, PullInv,
                lockVars
  <1>8. ASSUME NEW l \in Spectators, NEW n \in MaxInitialOptions,
               AddListener(l, n)
        PROVE  PullInv'
    BY <1>8 DEF AddListener, TypeOK, PullInv
  <1>9. ASSUME NEW l \in Spectators, NEW n \in MaxInitialOptions,
               PullStreamPanics(l, n)
        PROVE  PullInv'
    BY <1>9 DEF PullStreamPanics, PullInv, lockVars, pullVars
  <1>10. ASSUME NEW l \in Spectators, SendInitial(l) PROVE PullInv'
    BY <1>10 DEF SendInitial, SendFragment, Write, TypeOK, PullInv, lockVars
  <1>11. ASSUME NEW l \in Spectators, InitialSent(l) PROVE PullInv'
    BY <1>11 DEF InitialSent, TypeOK, PullInv, lockVars
  <1>12. ASSUME NEW l \in Spectators, ReceiveFragment(l) PROVE PullInv'
    BY <1>12 DEF ReceiveFragment, SendFragment, Write, TypeOK, PullInv, lockVars
  <1>13. ASSUME NEW l \in Spectators, ReceiveClose(l) PROVE PullInv'
    BY <1>13 DEF ReceiveClose, SendClose, Write, TypeOK, PullInv, lockVars
  <1>14. ASSUME NEW l \in Spectators, ReceiveInterrupt(l) PROVE PullInv'
    BY <1>14 DEF ReceiveInterrupt, TypeOK, PullInv, lockVars
  <1>15. ASSUME NEW l \in Spectators, RemoveListener(l) PROVE PullInv'
    BY <1>15 DEF RemoveListener, TypeOK, PullInv
  <1>16. ASSUME NEW l \in Spectators,
                Disconnect(l) \/ OnClose(l) \/ WriteReturns(l)
         PROVE  PullInv'
    BY <1>16 DEF Disconnect, OnClose, WriteReturns, PullInv, lockVars
  <1>17. CASE UNCHANGED vars
    BY <1>17 DEF PullInv, vars, lockVars, pullVars
  <1> QED
    BY <1>1, <1>2, <1>3, <1>4, <1>5, <1>6, <1>7, <1>8, <1>9, <1>10, <1>11,
       <1>12, <1>13, <1>14, <1>15, <1>16, <1>17
    DEF Next, CloseStep, PullStep

(* The buffer: AddFragment alone writes it.                                *)
LEMMA NextBuffer == TypeOK /\ BufferIsRecent /\ [Next]_vars => BufferIsRecent'
  <1> SUFFICES ASSUME TypeOK, BufferIsRecent, [Next]_vars
               PROVE  BufferIsRecent'
    OBVIOUS
  <1>1. CASE AddFragment
    <2> DEFINE b == fragmentBuffer
               p == published + 1
    <2>1. /\ b \in Seq(1 .. MaxFragments)
          /\ p \in 1 .. MaxFragments
          /\ published \in Nat
          /\ published' = p
          /\ FragmentBufferMaxLength \in Nat \ {0}
          /\ Len(b) \in Nat
      BY <1>1, SourceAssumption DEF AddFragment, TypeOK
    <2>2. fragmentBuffer' = PushFragment(b, p) \/ fragmentBuffer' = <<>>
      BY <1>1, SourceAssumption DEF AddFragment, BuffersAfter
    <2>3. CASE fragmentBuffer' = <<>>
      BY <2>1, <2>3 DEF BufferIsRecent
    <2>4. CASE Len(b) >= FragmentBufferMaxLength /\ fragmentBuffer' # <<>>
      <3>1. b # <<>>
        BY <2>1, <2>4
      <3>2. fragmentBuffer' = Append(Tail(b), p)
        BY <2>2, <2>4 DEF PushFragment
      <3>3. /\ Tail(b) \in Seq(1 .. MaxFragments)
            /\ Len(Tail(b)) = Len(b) - 1
            /\ \A i \in 1 .. Len(Tail(b)) : Tail(b)[i] = b[i + 1]
        BY <2>1, <3>1, TailFacts
      <3>4. /\ Len(fragmentBuffer') = Len(b)
            /\ \A i \in 1 .. Len(b) - 1 : fragmentBuffer'[i] = b[i + 1]
            /\ fragmentBuffer'[Len(b)] = p
        BY <2>1, <3>2, <3>3, AppendFacts
      <3> QED
        BY <2>1, <3>4 DEF BufferIsRecent
    <2>5. CASE ~(Len(b) >= FragmentBufferMaxLength) /\ fragmentBuffer' # <<>>
      <3>1. fragmentBuffer' = Append(b, p)
        BY <2>2, <2>5 DEF PushFragment
      <3>2. /\ Len(fragmentBuffer') = Len(b) + 1
            /\ \A i \in 1 .. Len(b) : fragmentBuffer'[i] = b[i]
            /\ fragmentBuffer'[Len(b) + 1] = p
        BY <2>1, <3>1, AppendFacts
      <3> QED
        BY <2>1, <2>5, <3>2 DEF BufferIsRecent
    <2> QED
      BY <2>3, <2>4, <2>5
  <1>2. CASE ~AddFragment
    <2>1. UNCHANGED <<fragmentBuffer, published>>
      BY <1>2 DEF Next, CloseStep, PullStep, CloseBegin, CloseRange, CloseSend,
                  CloseEnd, AnnounceStop, AddListenerFails, AddListener,
                  PullStreamPanics, SendInitial, InitialSent, ReceiveFragment,
                  ReceiveClose, ReceiveInterrupt, RemoveListener, WriteReturns,
                  Disconnect, OnClose, vars
    <2> QED
      BY <2>1 DEF BufferIsRecent
  <1> QED
    BY <1>1, <1>2

(* Every step keeps the close event where Close() put it.                  *)
LEMMA NextClosed ==
    TypeOK /\ LockInv /\ PullInv /\ CloseInv /\ [Next]_vars => CloseInv'
  <1> SUFFICES ASSUME TypeOK, LockInv, PullInv, CloseInv, [Next]_vars
               PROVE  CloseInv'
    OBVIOUS
  <1>1. CASE AddFragment
    BY <1>1 DEF AddFragment, CloseInv, Ended, lockVars, pullVars
  <1>2. ASSUME NEW c \in Closers, CloseBegin(c) PROVE CloseInv'
    BY <1>2 DEF CloseBegin, PullInv, CloseInv, Ended, pullVars
  <1>3. ASSUME NEW l \in Spectators, CloseRange(l) PROVE CloseInv'
    BY <1>3 DEF CloseRange, CloseInv, Ended, pullVars
  <1>4. CASE CloseSend
    <2>1. /\ closeTarget \in Spectators
          /\ CLOSE \in Message
          /\ channel[closeTarget] \in Seq(Message)
      BY <1>4, SourceAssumption DEF CloseSend, TypeOK, CLOSE, Message
    <2>2. CLOSE \in Elements(channel'[closeTarget])
      <3>1. channel'[closeTarget] = Append(channel[closeTarget], CLOSE)
        BY <1>4, <2>1 DEF CloseSend, TypeOK
      <3> QED
        BY <2>1, <3>1, AppendFacts DEF Elements
    <2> QED
      BY <1>4, <2>1, <2>2 DEF CloseSend, CloseInv, Ended, TypeOK, pullVars
  <1>5. CASE CloseEnd
    BY <1>5 DEF CloseEnd, CloseInv, Ended, pullVars
  <1>6. ASSUME NEW l \in Spectators, AddListenerFails(l) PROVE CloseInv'
    BY <1>6 DEF AddListenerFails, CloseInv, Ended, TypeOK, lockVars
  <1>7. ASSUME NEW l \in Spectators, NEW n \in MaxInitialOptions,
               AddListener(l, n)
        PROVE  CloseInv'
    BY <1>7 DEF AddListener, CloseInv, Ended
  <1>8. ASSUME NEW l \in Spectators, SendInitial(l) PROVE CloseInv'
    BY <1>8 DEF SendInitial, CloseInv, Ended, lockVars
  <1>9. ASSUME NEW l \in Spectators, InitialSent(l) PROVE CloseInv'
    BY <1>9 DEF InitialSent, CloseInv, Ended, TypeOK, lockVars
  <1>10. ASSUME NEW l \in Spectators, ReceiveFragment(l) PROVE CloseInv'
    <2>1. channel[l] \in Seq(Message) /\ channel[l] # <<>>
      BY <1>10 DEF ReceiveFragment, TypeOK
    <2>2. CLOSE \in Elements(channel[l]) => CLOSE \in Elements(channel'[l])
      <3>1. channel'[l] = Tail(channel[l]) /\ Head(channel[l]) # CLOSE
        BY <1>10 DEF ReceiveFragment, TypeOK
      <3>2. SUFFICES ASSUME NEW i \in 1 .. Len(channel[l]),
                            channel[l][i] = CLOSE
                     PROVE  CLOSE \in Elements(channel'[l])
        BY DEF Elements
      <3>3. i # 1
        BY <2>1, <3>1, <3>2, TailFacts
      <3>4. i - 1 \in 1 .. Len(Tail(channel[l]))
        BY <2>1, <3>3, TailFacts
      <3>5. Tail(channel[l])[i - 1] = CLOSE
        BY <2>1, <3>2, <3>4, TailFacts
      <3> QED
        BY <3>1, <3>4, <3>5 DEF Elements
    <2> QED
      BY <1>10, <2>2 DEF ReceiveFragment, CloseInv, Ended, TypeOK, lockVars
  <1>11. ASSUME NEW l \in Spectators, ReceiveClose(l) PROVE CloseInv'
    BY <1>11 DEF ReceiveClose, CloseInv, Ended, TypeOK, lockVars
  <1>12. ASSUME NEW l \in Spectators, RemoveListener(l) PROVE CloseInv'
    BY <1>12 DEF RemoveListener, CloseInv, Ended, TypeOK
  <1>13. ASSUME NEW l \in Spectators, ReceiveInterrupt(l) PROVE CloseInv'
    BY <1>13 DEF ReceiveInterrupt, CloseInv, Ended, TypeOK, lockVars
  <1>14. CASE UNCHANGED <<lockVars, channel, pull>>
    BY <1>14 DEF CloseInv, Ended, lockVars
  <1> QED
    BY <1>1, <1>2, <1>3, <1>4, <1>5, <1>6, <1>7, <1>8, <1>9, <1>10, <1>11,
       <1>12, <1>13, <1>14
    DEF Next, CloseStep, PullStep, AnnounceStop, PullStreamPanics,
        WriteReturns, Disconnect, OnClose, vars, pullVars

(* Every step keeps the messages of each spectator in order.               *)
LEMMA NextOrder ==
    TypeOK /\ LockInv /\ PullInv /\ BufferIsRecent /\ OrderInv /\ [Next]_vars
        => OrderInv'
  <1> SUFFICES ASSUME TypeOK, LockInv, PullInv, BufferIsRecent, OrderInv,
                      [Next]_vars,
                      NEW l \in Spectators
               PROVE  Order(l)'
    BY DEF OrderInv
  <1>o. Order(l)
    BY DEF OrderInv
  <1>t. /\ MaxFragments \in Nat
        /\ CLOSE \in Message
        /\ 1 .. MaxFragments \subseteq Message
        /\ published \in Nat /\ published < CLOSE
        /\ written[l] \in Seq(Message)
        /\ channel[l] \in Seq(Message)
        /\ initial[l] \in Seq(Message)
        /\ initial[l] \in Seq(1 .. MaxFragments)
    <2>1. initial[l] \in Seq(1 .. MaxFragments)
      BY DEF TypeOK
    <2>2. 1 .. MaxFragments \subseteq Message
      BY SourceAssumption DEF Message, CLOSE
    <2> QED
      BY <2>1, <2>2, SeqMonotonic, SourceAssumption DEF TypeOK, CLOSE, Message
  <1>n. /\ \A i \in 1 .. Len(written[l]) : written[l][i] \in Nat
        /\ \A i \in 1 .. Len(channel[l]) : channel[l][i] \in Nat
        /\ \A i \in 1 .. Len(initial[l]) : initial[l][i] \in Nat
    <2>1. Message \subseteq Nat
      BY SourceAssumption DEF Message, CLOSE
    <2> QED
      BY <1>t, <2>1, ElementOfSeq
  <1>e. ~Ended => /\ \A i \in 1 .. Len(written[l]) : written[l][i] <= published
                  /\ \A i \in 1 .. Len(channel[l]) : channel[l][i] <= published
    BY <1>o DEF Order, Bounded
  <1>f. ASSUME UNCHANGED <<written, initial, channel, published>>,
               Ended => Ended' /\ (l \in closePending' => l \in closePending)
        PROVE  Order(l)'
    BY <1>o, <1>e, <1>f DEF Order, Bounded
  <1>1. CASE AddFragment
    <2> DEFINE p == published + 1
    <2>1. /\ p \in Message
          /\ published' = p
          /\ ~Ended
          /\ written' = written /\ initial' = initial
      BY <1>1, <1>t DEF AddFragment, Ended, pullVars, Message, CLOSE
    <2>2. channel'[l] = channel[l] \/ channel'[l] = Append(channel[l], p)
      BY <1>1 DEF AddFragment
    <2>3. CASE channel'[l] = channel[l]
      <3>1. /\ \A i \in 1 .. Len(written[l]) : written[l][i] <= p
            /\ \A i \in 1 .. Len(channel[l]) : channel[l][i] <= p
            /\ \A i \in 1 .. Len(initial[l]) : initial[l][i] <= p
        <4>1. /\ \A i \in 1 .. Len(written[l]) : written[l][i] <= published
              /\ \A i \in 1 .. Len(channel[l]) : channel[l][i] <= published
              /\ \A i \in 1 .. Len(initial[l]) : initial[l][i] <= published
          BY <1>o, <1>e, <2>1 DEF Order
        <4>2. \A n \in Nat : n <= published => n <= p
          BY <1>t
        <4> QED
          BY <4>1, <4>2, <1>n
      <3> QED
        BY <1>o, <2>1, <2>3, <3>1 DEF Order, Bounded
    <2>4. CASE channel'[l] = Append(channel[l], p)
      <3>1. /\ \A i \in 1 .. Len(written[l]) : written[l][i] < p
            /\ \A i \in 1 .. Len(channel[l]) : channel[l][i] < p
            /\ \A i \in 1 .. Len(initial[l]) : initial[l][i] < p
        <4>1. /\ \A i \in 1 .. Len(written[l]) : written[l][i] <= published
              /\ \A i \in 1 .. Len(channel[l]) : channel[l][i] <= published
              /\ \A i \in 1 .. Len(initial[l]) : initial[l][i] <= published
          BY <1>o, <1>e, <2>1 DEF Order
        <4>2. \A n \in Nat : n <= published => n < p
          BY <1>t
        <4> QED
          BY <4>1, <4>2, <1>n
      <3>2. Increasing(channel'[l])
        BY <1>o, <1>t, <2>1, <2>4, <3>1, AppendKeepsOrder DEF Order
      <3>3. Precedes(written[l], channel'[l])
        BY <1>o, <1>t, <2>1, <2>4, <3>1, AppendFollows DEF Order
      <3>4. Precedes(initial[l], channel'[l])
        BY <1>o, <1>t, <2>1, <2>4, <3>1, AppendFollows DEF Order
      <3>p. p \in Nat
        BY <1>t
      <3> HIDE DEF p
      <3>5. /\ \A i \in 1 .. Len(written[l]) : written[l][i] <= p
            /\ \A i \in 1 .. Len(initial[l]) : initial[l][i] <= p
        BY <3>1, <3>p, <1>n, BelowIsAtMost
      <3>6. \A i \in 1 .. Len(channel'[l]) : channel'[l][i] <= p
        BY <1>t, <1>n, <2>1, <2>4, <3>p, <3>1, AppendFacts
      <3> QED
        BY <1>o, <2>1, <3>2, <3>3, <3>4, <3>5, <3>6 DEF Order, Bounded
    <2> QED
      BY <2>2, <2>3, <2>4
  <1>2. ASSUME NEW c \in Closers, CloseBegin(c) PROVE Order(l)'
    BY <1>2, <1>f DEF CloseBegin, Ended, LockInv, pullVars
  <1>3. ASSUME NEW s \in Spectators, CloseRange(s) PROVE Order(l)'
    BY <1>3, <1>f DEF CloseRange, Ended, pullVars
  <1>4. CASE CloseSend
    <2>1. /\ closeTarget \in closePending
          /\ closeTarget \in Spectators
          /\ Ended /\ Ended'
          /\ UNCHANGED <<written, initial, published>>
          /\ closePending' = closePending \ {closeTarget}
      BY <1>4 DEF CloseSend, LockInv, TypeOK, Ended, pullVars
    <2>2. CASE l = closeTarget
      <3>1. channel'[l] = Append(channel[l], CLOSE)
        BY <1>4, <2>1, <2>2 DEF CloseSend, TypeOK
      <3>2. /\ \A i \in 1 .. Len(written[l]) : written[l][i] <= published
            /\ \A i \in 1 .. Len(channel[l]) : channel[l][i] <= published
            /\ \A i \in 1 .. Len(initial[l]) : initial[l][i] <= published
        BY <1>o, <2>1, <2>2 DEF Order, Bounded
      <3>3. /\ \A i \in 1 .. Len(written[l]) : written[l][i] < CLOSE
            /\ \A i \in 1 .. Len(channel[l]) : channel[l][i] < CLOSE
            /\ \A i \in 1 .. Len(initial[l]) : initial[l][i] < CLOSE
        <4>1. /\ published \in Nat /\ CLOSE \in Nat
              /\ published < CLOSE
          BY <1>t, SourceAssumption DEF CLOSE
        <4>2. \A n \in Nat : n <= published => n < CLOSE
          BY <4>1
        <4> QED
          BY <4>2, <3>2, <1>n
      <3>4. Increasing(channel'[l])
        BY <1>o, <1>t, <3>1, <3>3, AppendKeepsOrder DEF Order
      <3>5. Precedes(written[l], channel'[l])
        BY <1>o, <1>t, <3>1, <3>3, AppendFollows DEF Order
      <3>6. Precedes(initial[l], channel'[l])
        BY <1>o, <1>t, <3>1, <3>3, AppendFollows DEF Order
      <3>7. Bounded(written[l], l)'
        BY <2>1, <3>2 DEF Bounded
      <3>8. Bounded(channel[l], l)'
        BY <1>t, <2>1, <2>2, <3>1, <3>2, AppendFacts DEF Bounded, CLOSE
      <3> QED
        BY <1>o, <2>1, <3>2, <3>4, <3>5, <3>6, <3>7, <3>8 DEF Order
    <2>3. CASE l # closeTarget
      <3>1. channel'[l] = channel[l]
        BY <1>4, <2>3 DEF CloseSend, TypeOK
      <3> QED
        BY <1>o, <2>1, <2>3, <3>1 DEF Order, Bounded, CLOSE
    <2> QED
      BY <2>2, <2>3
  <1>5. CASE CloseEnd
    BY <1>5, <1>f DEF CloseEnd, Ended, pullVars
  <1>u. ASSUME UNCHANGED <<mu, closed, closePending, published>>,
               written'[l] = written[l], initial'[l] = initial[l],
               channel'[l] = channel[l]
        PROVE  Order(l)'
    BY <1>o, <1>u DEF Order, Bounded, Ended, CLOSE
  <1>6. ASSUME NEW s \in Spectators, AddListenerFails(s) PROVE Order(l)'
    <2>1. UNCHANGED <<mu, closed, closePending, published, initial, channel>>
      BY <1>6 DEF AddListenerFails, lockVars
    <2>2. CASE s = l /\ conn[l] = "open"
      <3>1. /\ written[l] = <<>> /\ channel[l] = <<>> /\ initial[l] = <<>>
            /\ Ended /\ closePending = {}
        BY <1>6, <2>2 DEF AddListenerFails, PullInv, LockInv, Ended
      <3>2. written'[l] = <<CLOSE>>
        BY <1>6, <2>2, <3>1 DEF AddListenerFails, SendClose, Write, TypeOK
      <3> QED
        BY <1>t, <2>1, <3>1, <3>2
        DEF Order, Bounded, Increasing, Precedes, Ended, CLOSE
    <2>3. CASE ~(s = l /\ conn[l] = "open")
      <3>1. written'[l] = written[l]
        BY <1>6, <2>3 DEF AddListenerFails, SendClose, Write, TypeOK
      <3> QED
        BY <1>u, <2>1, <3>1
    <2> QED
      BY <2>2, <2>3
  <1>7. ASSUME NEW s \in Spectators, NEW n \in MaxInitialOptions,
               AddListener(s, n)
        PROVE  Order(l)'
    <2>1. UNCHANGED <<mu, closed, closePending, published, written>>
      BY <1>7 DEF AddListener
    <2>2. CASE s = l
      <3> DEFINE b == fragmentBuffer
                 k == Len(b) - InitialCount(n) + 1
                 t == SubSeq(b, k, Len(b))
      <3>1. /\ written[l] = <<>>
            /\ channel'[l] = <<>>
            /\ initial'[l] = t
        BY <1>7, <2>2 DEF AddListener, PullInv, TypeOK
      <3>2. /\ b \in Seq(1 .. MaxFragments)
            /\ Len(b) \in Nat
            /\ k \in 1 .. Len(b) + 1
        <4>1. b \in Seq(1 .. MaxFragments) /\ Len(b) \in Nat
          BY DEF TypeOK
        <4>2. InitialCount(n) \in 0 .. Len(b)
          BY <1>7, <4>1, SourceAssumption DEF AddListener, InitialCount
        <4> HIDE DEF b
        <4> QED
          BY <4>1, <4>2
      <3>3. \A i \in k .. Len(b) : b[i] \in 1 .. MaxFragments
        <4>1. SUFFICES ASSUME NEW i \in k .. Len(b)
                       PROVE  b[i] \in 1 .. MaxFragments
          OBVIOUS
        <4>2. i \in 1 .. Len(b)
          BY <3>2
        <4> QED
          BY <3>2, <4>2, ElementOfSeq
      <3>4. /\ Len(t) = Len(b) - k + 1
            /\ \A i \in 1 .. Len(b) - k + 1 : t[i] = b[k + i - 1]
        <4>1. k \in Int /\ Len(b) \in Int
          BY <3>2
        <4> HIDE DEF k, b
        <4> QED
          BY <3>2, <3>3, <4>1, SubSeqProperties
      <3>5. \A i \in 1 .. Len(b) : b[i] = published - Len(b) + i
        BY DEF BufferIsRecent
      <3>6. \A i \in 1 .. Len(t) :
                /\ t[i] = published - Len(b) + k + i - 1
                /\ t[i] <= published
        <4> HIDE DEF k, b, t
        <4>1. SUFFICES ASSUME NEW i \in 1 .. Len(t)
                       PROVE  /\ t[i] = published - Len(b) + k + i - 1
                              /\ t[i] <= published
          OBVIOUS
        <4>2. /\ i \in 1 .. Len(b) - k + 1
              /\ k + i - 1 \in 1 .. Len(b)
          BY <3>2, <3>4
        <4>3. t[i] = published - Len(b) + (k + i - 1)
          BY <3>4, <3>5, <4>2
        <4>4. /\ published \in Int /\ k \in Int /\ Len(b) \in Int
              /\ i \in Int /\ k + i - 1 <= Len(b)
          BY <1>t, <3>2, <4>2
        <4> QED
          BY <4>3, <4>4
      <3>7. Increasing(t)
        <4> HIDE DEF k, b, t
        <4> QED
          BY <1>t, <3>2, <3>4, <3>6 DEF Increasing
      <3> HIDE DEF t
      <3> QED
        BY <1>o, <2>1, <3>1, <3>6, <3>7
        DEF Order, Bounded, Increasing, Precedes
    <2>3. CASE s # l
      BY <1>7, <1>u, <2>1, <2>3 DEF AddListener, TypeOK
    <2> QED
      BY <2>2, <2>3
  <1>8. ASSUME NEW s \in Spectators, SendInitial(s) PROVE Order(l)'
    <2>1. UNCHANGED <<mu, closed, closePending, published, channel>>
      BY <1>8 DEF SendInitial, lockVars
    <2>2. CASE s = l
      <3> DEFINE t == initial[l]
      <3>1. t # <<>> /\ initial'[l] = Tail(t)
        BY <1>8, <2>2 DEF SendInitial, TypeOK
      <3>2. written'[l] = Append(written[l], Head(t))
                \/ written'[l] = written[l]
        BY <1>8, <2>2 DEF SendInitial, SendFragment, Write, TypeOK
      <3>3. /\ Head(t) \in Message
            /\ Head(t) <= published
            /\ Tail(t) \in Seq(Message)
            /\ \A i \in 1 .. Len(Tail(t)) : Tail(t)[i] <= published
        BY <1>o, <1>t, <3>1, TailFacts DEF Order
      <3>4. /\ Precedes(Tail(t), channel[l])
            /\ \A i \in 1 .. Len(channel[l]) : Head(t) < channel[l][i]
        BY <1>o, <1>t, <3>1, TailPrecedes DEF Order
      <3>5. /\ Increasing(Append(written[l], Head(t)))
            /\ Increasing(Tail(t))
            /\ Precedes(Append(written[l], Head(t)), Tail(t))
            /\ Precedes(written[l], Tail(t))
        BY <1>o, <1>t, <3>1, MoveKeepsOrder DEF Order
      <3>6. Precedes(Append(written[l], Head(t)), channel[l])
        BY <1>o, <1>t, <3>3, <3>4, AppendPrecedes DEF Order
      <3>7. Bounded(written[l], l)'
        <4>1. CASE written'[l] = written[l]
          BY <1>o, <2>1, <4>1 DEF Order, Bounded, Ended, CLOSE
        <4>2. CASE written'[l] = Append(written[l], Head(t))
          <5> HIDE DEF t
          <5> QED
            BY <1>o, <1>t, <2>1, <3>3, <4>2, AppendFacts
            DEF Order, Bounded, Ended, CLOSE
        <4> QED
          BY <3>2, <4>1, <4>2
      <3>8. Bounded(channel[l], l)'
        BY <1>o, <2>1 DEF Order, Bounded, Ended, CLOSE
      <3>9. /\ Increasing(written'[l])
            /\ Precedes(written'[l], initial'[l])
            /\ Precedes(written'[l], channel'[l])
        BY <1>o, <2>1, <3>1, <3>2, <3>5, <3>6 DEF Order
      <3> HIDE DEF t
      <3> QED
        BY <1>o, <2>1, <3>1, <3>3, <3>4, <3>5, <3>7, <3>8, <3>9 DEF Order
    <2>3. CASE s # l
      BY <1>8, <1>u, <2>1, <2>3
      DEF SendInitial, SendFragment, Write, TypeOK
    <2> QED
      BY <2>2, <2>3
  <1>r. ASSUME NEW s \in Spectators, pull[s] = "select", channel[s] # <<>>,
               channel' = [channel EXCEPT ![s] = Tail(@)],
               Write(s, Head(channel[s])),
               UNCHANGED <<mu, closed, closePending, published, initial>>
        PROVE  Order(l)'
    <2>1. CASE s = l
      <3> DEFINE t == channel[l]
      <3>1. t # <<>> /\ channel'[l] = Tail(t) /\ initial[l] = <<>>
        BY <1>r, <2>1 DEF PullInv, TypeOK
      <3>2. written'[l] = Append(written[l], Head(t))
                \/ written'[l] = written[l]
        BY <1>r, <2>1 DEF Write, TypeOK
      <3>3. /\ Head(t) \in Message
            /\ Head(t) = t[1]
            /\ Len(t) \in Nat \ {0}
            /\ Tail(t) \in Seq(Message)
            /\ \A i \in 1 .. Len(Tail(t)) : Tail(t)[i] = t[i + 1]
            /\ Len(Tail(t)) = Len(t) - 1
        BY <1>t, <3>1, TailFacts
      <3>4. /\ Increasing(Append(written[l], Head(t)))
            /\ Increasing(Tail(t))
            /\ Precedes(Append(written[l], Head(t)), Tail(t))
            /\ Precedes(written[l], Tail(t))
        BY <1>o, <1>t, <3>1, MoveKeepsOrder DEF Order
      <3>5. \A i \in 1 .. Len(t) :
                t[i] <= published'
                    \/ (t[i] = CLOSE /\ Ended' /\ l \notin closePending')
        BY <1>o, <1>r DEF Order, Bounded, Ended, CLOSE
      <3>6. Bounded(channel[l], l)'
        BY <1>r, <3>1, <3>3, <3>5 DEF Bounded, CLOSE
      <3>7. Bounded(written[l], l)'
        <4>1. \A i \in 1 .. Len(written[l]) :
                  written[l][i] <= published'
                    \/ (written[l][i] = CLOSE /\ Ended'
                            /\ l \notin closePending')
          BY <1>o, <1>r DEF Order, Bounded, Ended, CLOSE
        <4>2. Head(t) <= published'
                  \/ (Head(t) = CLOSE /\ Ended' /\ l \notin closePending')
          BY <3>3, <3>5
        <4>3. CASE written'[l] = written[l]
          BY <4>1, <4>3 DEF Bounded, CLOSE
        <4>4. CASE written'[l] = Append(written[l], Head(t))
          <5> HIDE DEF t
          <5> QED
            BY <1>t, <3>3, <4>1, <4>2, <4>4, AppendFacts DEF Bounded, CLOSE
        <4> QED
          BY <3>2, <4>3, <4>4
      <3>8. /\ Increasing(written'[l])
            /\ Precedes(written'[l], channel'[l])
        BY <1>o, <3>1, <3>2, <3>4 DEF Order
      <3>9. /\ initial'[l] = <<>>
            /\ Len(<<>>) = 0
        BY <1>r, <3>1
      <3> HIDE DEF t
      <3>10. /\ Precedes(written'[l], initial'[l])
             /\ Precedes(initial'[l], channel'[l])
             /\ \A i \in 1 .. Len(initial'[l]) : initial'[l][i] <= published'
             /\ Increasing(initial'[l])
        BY <3>9 DEF Precedes, Increasing
      <3> QED
        BY <3>1, <3>4, <3>6, <3>7, <3>8, <3>10 DEF Order
    <2>2. CASE s # l
      BY <1>r, <1>u, <2>2 DEF Write, TypeOK
    <2> QED
      BY <2>1, <2>2
  <1>9. ASSUME NEW s \in Spectators, ReceiveFragment(s) PROVE Order(l)'
    BY <1>9, <1>r DEF ReceiveFragment, SendFragment, lockVars
  <1>10. ASSUME NEW s \in Spectators, ReceiveClose(s) PROVE Order(l)'
    BY <1>10, <1>r DEF ReceiveClose, SendClose, lockVars
  <1>11. CASE UNCHANGED <<mu, closed, closePending, published, written,
                          initial, channel>>
    BY <1>11, <1>u
  <1> QED
    BY <1>1, <1>2, <1>3, <1>4, <1>5, <1>6, <1>7, <1>8, <1>9, <1>10, <1>11
    DEF Next, CloseStep, PullStep, AnnounceStop, PullStreamPanics, InitialSent,
        ReceiveInterrupt, RemoveListener, WriteReturns, Disconnect, OnClose,
        vars, lockVars, pullVars

-----------------------------------------------------------------------------
(* The inductive invariant.                                                *)

(* The initial states satisfy the invariant.                               *)
LEMMA InitInductive == Init => IInv
  <1> SUFFICES ASSUME Init PROVE IInv
    OBVIOUS
  <1>1. TypeOK
    BY InitType
  <1>2. LockInv
    BY DEF Init, LockInv
  <1>3. PullInv /\ CloseInv
    BY DEF Init, PullInv, CloseInv
  <1>4. OrderInv
    BY DEF Init, OrderInv, Order, Increasing, Precedes, Bounded
  <1>5. BufferIsRecent
    BY SourceAssumption DEF Init, BufferIsRecent
  <1> QED
    BY <1>1, <1>2, <1>3, <1>4, <1>5 DEF IInv

(* Every step keeps the invariant.                                         *)
LEMMA NextInductive == IInv /\ [Next]_vars => IInv'
  BY NextType, NextLock, NextPull, NextClosed, NextOrder, NextBuffer DEF IInv

(* The invariant of the source holds of every behaviour.                   *)
THEOREM Inductive == Spec => []IInv
  BY InitInductive, NextInductive, PTL DEF Spec

(* A spectator is sent the fragments in the order of publication, each at  *)
(* most once, and nothing after CLOSE.                                     *)
THEOREM OrderHolds == Spec => []FragmentsInOrder
  <1>1. IInv => FragmentsInOrder
    BY DEF IInv, OrderInv, Order, FragmentsInOrder
  <1> QED
    BY <1>1, Inductive, PTL

(* The buffer is the newest part of the stream, without a gap.             *)
THEOREM BufferHolds == Spec => []BufferIsRecent
  <1>1. IInv => BufferIsRecent
    BY DEF IInv
  <1> QED
    BY <1>1, Inductive, PTL

(* Close() leaves nobody without a CLOSE event.                            *)
THEOREM NobodyLeftBehindHolds == Spec => []NobodyLeftBehind
  <1>1. IInv => NobodyLeftBehind
    <2> SUFFICES ASSUME IInv, closed PROVE NobodyLeftBehind
      BY DEF NobodyLeftBehind
    <2>1. listeners = {} /\ closePending = {}
      BY DEF IInv, LockInv
    <2> QED
      BY <2>1 DEF IInv, CloseInv, NobodyLeftBehind, Ended
  <1> QED
    BY <1>1, Inductive, PTL

-----------------------------------------------------------------------------
(* No fragment is lost but by a full channel.                              *)

(* The elements of a sequence with one item appended.                      *)
LEMMA AppendElements ==
    ASSUME NEW S, NEW s \in Seq(S), NEW e \in S
    PROVE  Elements(s) \cup {e} \subseteq Elements(Append(s, e))
  BY AppendFacts DEF Elements

(* The elements of the tail of a sequence.                                 *)
LEMMA TailElements ==
    ASSUME NEW S, NEW s \in Seq(S), s # <<>>
    PROVE  Elements(s) \subseteq {Head(s)} \cup Elements(Tail(s))
  <1> SUFFICES ASSUME NEW i \in 1 .. Len(s), s[i] # Head(s)
               PROVE  s[i] \in Elements(Tail(s))
    BY DEF Elements
  <1>1. i - 1 \in 1 .. Len(Tail(s)) /\ Tail(s)[i - 1] = s[i]
    BY TailFacts
  <1> QED
    BY <1>1 DEF Elements

(* What spectator l has been sent, will be sent, or was refused.           *)
Accounted(l) == Elements(written[l]) \cup Elements(channel[l]) \cup dropped[l]

(* Every step keeps account of the fragments published.                    *)
LEMMA NextNoSilentLoss ==
    TypeOK /\ NoSilentLoss /\ [Next]_vars => NoSilentLoss'
  <1> SUFFICES ASSUME TypeOK, NoSilentLoss, [Next]_vars
               PROVE  NoSilentLoss'
    OBVIOUS
  <1>l. listeners' \subseteq Spectators
    BY NextType DEF TypeOK
  <1> SUFFICES ASSUME NEW l \in Spectators, l \in listeners',
                      conn'[l] = "open", pull'[l] # "leaving"
               PROVE  joined'[l] + 1 .. published' \subseteq Accounted(l)'
    BY <1>l DEF NoSilentLoss, Accounted
  <1>t. /\ written[l] \in Seq(Message)
        /\ channel[l] \in Seq(Message)
        /\ joined[l] \in Nat
        /\ published \in Nat
        /\ CLOSE \in Message
        /\ 1 .. MaxFragments \subseteq Message
    BY SourceAssumption DEF TypeOK, CLOSE, Message
  <1>h. ASSUME l \in listeners, conn[l] = "open", pull[l] # "leaving",
               joined'[l] = joined[l], published' = published,
               Accounted(l) \subseteq Accounted(l)'
        PROVE  joined'[l] + 1 .. published' \subseteq Accounted(l)'
    BY <1>h DEF NoSilentLoss, Accounted
  <1>1. CASE AddFragment
    <2> DEFINE p == published + 1
    <2>1. /\ l \in listeners /\ conn[l] = "open" /\ pull[l] # "leaving"
          /\ joined' = joined /\ written' = written
          /\ published' = p
          /\ p \in Message
      BY <1>1, <1>t, SourceAssumption
      DEF AddFragment, lockVars, pullVars, Message, CLOSE
    <2>2. joined[l] + 1 .. published \subseteq Accounted(l)
      BY <2>1 DEF NoSilentLoss, Accounted
    <2>3. Accounted(l) \cup {p} \subseteq Accounted(l)'
      <3>1. CASE HasRoom(l)
        <4>1. channel'[l] = Append(channel[l], p) /\ dropped'[l] = dropped[l]
          BY <1>1, <2>1, <3>1 DEF AddFragment
        <4>2. Elements(channel[l]) \cup {p} \subseteq Elements(channel'[l])
          BY <1>t, <2>1, <4>1, AppendElements
        <4> QED
          BY <2>1, <4>1, <4>2 DEF Accounted
      <3>2. CASE ~HasRoom(l)
        <4>1. channel'[l] = channel[l] /\ dropped'[l] = dropped[l] \cup {p}
          BY <1>1, <2>1, <3>2 DEF AddFragment
        <4> QED
          BY <2>1, <4>1 DEF Accounted
      <3> QED
        BY <3>1, <3>2
    <2>4. joined'[l] + 1 .. published'
              \subseteq (joined[l] + 1 .. published) \cup {p}
      BY <1>t, <2>1
    <2> QED
      BY <2>2, <2>3, <2>4
  <1>2. CASE CloseSend
    <2>1. /\ l \in listeners /\ conn[l] = "open" /\ pull[l] # "leaving"
          /\ joined' = joined /\ written' = written /\ dropped' = dropped
          /\ published' = published
      BY <1>2 DEF CloseSend, pullVars, historyVars
    <2>2. Elements(channel[l]) \subseteq Elements(channel'[l])
      <3>1. channel'[l] = channel[l] \/ channel'[l] = Append(channel[l], CLOSE)
        BY <1>2 DEF CloseSend, TypeOK
      <3> QED
        BY <1>t, <3>1, AppendElements
    <2> QED
      BY <1>h, <2>1, <2>2 DEF Accounted
  <1>3. ASSUME NEW s \in Spectators, NEW n \in MaxInitialOptions,
               AddListener(s, n)
        PROVE  joined'[l] + 1 .. published' \subseteq Accounted(l)'
    <2>1. /\ published' = published /\ written' = written
          /\ dropped' = dropped /\ conn' = conn
      BY <1>3 DEF AddListener
    <2>2. CASE s = l
      <3>1. joined'[l] = published
        BY <1>3, <2>2 DEF AddListener, TypeOK
      <3>2. joined'[l] + 1 .. published' = {}
        BY <1>t, <2>1, <3>1
      <3> QED
        BY <3>2
    <2>3. CASE s # l
      <3>1. /\ l \in listeners /\ pull'[l] = pull[l]
            /\ joined'[l] = joined[l] /\ channel'[l] = channel[l]
        BY <1>3, <2>3 DEF AddListener, TypeOK
      <3> QED
        BY <1>h, <2>1, <3>1 DEF Accounted
    <2> QED
      BY <2>2, <2>3
  <1>w. ASSUME NEW s \in Spectators, NEW m \in Message, Write(s, m)
        PROVE  /\ Elements(written[l]) \subseteq Elements(written'[l])
               /\ s = l /\ conn[l] = "open" => m \in Elements(written'[l])
    <2>1. /\ s = l /\ conn[l] = "open" => written'[l] = Append(written[l], m)
          /\ ~(s = l /\ conn[l] = "open") => written'[l] = written[l]
      BY <1>w DEF Write, TypeOK
    <2> QED
      BY <1>t, <2>1, AppendElements
  <1>4. ASSUME NEW s \in Spectators, SendInitial(s)
        PROVE  joined'[l] + 1 .. published' \subseteq Accounted(l)'
    <2>1. Head(initial[s]) \in Message
      BY <1>4, <1>t, TailFacts DEF SendInitial, TypeOK
    <2>2. Elements(written[l]) \subseteq Elements(written'[l])
      BY <1>4, <1>w, <2>1 DEF SendInitial, SendFragment
    <2> QED
      BY <1>4, <1>h, <2>2
      DEF SendInitial, SendFragment, Accounted, lockVars, historyVars
  <1>5. ASSUME NEW s \in Spectators, ReceiveFragment(s)
        PROVE  joined'[l] + 1 .. published' \subseteq Accounted(l)'
    <2>1. /\ channel[s] # <<>> /\ Head(channel[s]) \in Message
          /\ channel[s] \in Seq(Message)
      BY <1>5, TailFacts DEF ReceiveFragment, TypeOK
    <2>2. /\ Elements(written[l]) \subseteq Elements(written'[l])
          /\ s = l /\ conn[l] = "open" =>
                 Head(channel[l]) \in Elements(written'[l])
      BY <1>5, <1>w, <2>1 DEF ReceiveFragment, SendFragment
    <2>3. /\ l \in listeners /\ conn[l] = "open" /\ pull[l] # "leaving"
          /\ UNCHANGED <<joined, published, dropped>>
      BY <1>5
      DEF ReceiveFragment, SendFragment, lockVars, historyVars
    <2>4. Elements(channel[l])
              \subseteq Elements(channel'[l]) \cup Elements(written'[l])
      <3>1. CASE s = l
        <4>1. channel'[l] = Tail(channel[l])
          BY <1>5, <3>1 DEF ReceiveFragment, TypeOK
        <4> QED
          BY <2>1, <2>2, <2>3, <3>1, <4>1, TailElements
      <3>2. CASE s # l
        BY <1>5, <3>2 DEF ReceiveFragment, TypeOK
      <3> QED
        BY <3>1, <3>2
    <2> QED
      BY <1>h, <2>2, <2>3, <2>4 DEF Accounted
  <1>6. ASSUME NEW s \in Spectators, ReceiveClose(s)
        PROVE  joined'[l] + 1 .. published' \subseteq Accounted(l)'
    <2>1. s # l
      BY <1>6 DEF ReceiveClose, TypeOK
    <2>2. /\ channel'[l] = channel[l] /\ written'[l] = written[l]
          /\ conn'[l] = conn[l] /\ pull'[l] = pull[l]
      BY <1>6, <2>1 DEF ReceiveClose, SendClose, HangUp, Write, TypeOK
    <2> QED
      BY <1>6, <1>h, <2>2
      DEF ReceiveClose, Accounted, lockVars, historyVars
  <1>7. ASSUME NEW s \in Spectators, AddListenerFails(s)
        PROVE  joined'[l] + 1 .. published' \subseteq Accounted(l)'
    <2>1. /\ Elements(written[l]) \subseteq Elements(written'[l])
          /\ conn[l] = "open"
          /\ pull'[l] = pull[l] \/ pull[l] = "start"
      BY <1>7, <1>t, <1>w DEF AddListenerFails, SendClose, HangUp, TypeOK
    <2> QED
      BY <1>7, <1>h, <2>1
      DEF AddListenerFails, Accounted, lockVars, historyVars
  <1>8. CASE /\ UNCHANGED <<published, channel, written, historyVars>>
             /\ listeners' \subseteq listeners
             /\ conn'[l] = conn[l] \/ conn[l] = "open"
             /\ pull'[l] = pull[l] \/ pull[l] # "leaving"
    BY <1>8, <1>h DEF Accounted, historyVars
  <1>9. ASSUME NEW c \in Closers, CloseBegin(c)
        PROVE  joined'[l] + 1 .. published' \subseteq Accounted(l)'
    BY <1>9, <1>8 DEF CloseBegin, pullVars
  <1>10. ASSUME NEW s \in Spectators, CloseRange(s)
         PROVE  joined'[l] + 1 .. published' \subseteq Accounted(l)'
    BY <1>10, <1>8 DEF CloseRange, pullVars
  <1>11. CASE CloseEnd
    BY <1>11 DEF CloseEnd
  <1>12. CASE AnnounceStop
    BY <1>12, <1>8 DEF AnnounceStop, lockVars, pullVars
  <1>13. ASSUME NEW s \in Spectators, NEW n \in MaxInitialOptions,
                PullStreamPanics(s, n)
         PROVE  joined'[l] + 1 .. published' \subseteq Accounted(l)'
    BY <1>13, <1>8 DEF PullStreamPanics, lockVars, pullVars
  <1>14. ASSUME NEW s \in Spectators,
                \/ InitialSent(s) \/ ReceiveInterrupt(s) \/ RemoveListener(s)
         PROVE  joined'[l] + 1 .. published' \subseteq Accounted(l)'
    <2>1. /\ UNCHANGED <<published, channel, written, historyVars, conn>>
          /\ listeners' \subseteq listeners
      BY <1>14 DEF InitialSent, ReceiveInterrupt, RemoveListener, lockVars
    <2>2. pull'[l] = pull[l] \/ pull[l] # "leaving"
      BY <1>14 DEF InitialSent, ReceiveInterrupt, RemoveListener, TypeOK
    <2> QED
      BY <1>8, <2>1, <2>2
  <1>15. ASSUME NEW s \in Spectators,
                Disconnect(s) \/ OnClose(s) \/ WriteReturns(s)
         PROVE  joined'[l] + 1 .. published' \subseteq Accounted(l)'
    <2>1. UNCHANGED <<published, channel, written, historyVars, listeners, pull>>
      BY <1>15 DEF Disconnect, OnClose, WriteReturns, lockVars
    <2>2. conn'[l] = conn[l] \/ conn[l] = "open"
      BY <1>15 DEF Disconnect, OnClose, WriteReturns, HangUp, TypeOK
    <2> QED
      BY <1>8, <2>1, <2>2
  <1>16. CASE UNCHANGED vars
    BY <1>16, <1>8 DEF vars, lockVars, pullVars
  <1> QED
    BY <1>1, <1>2, <1>3, <1>4, <1>5, <1>6, <1>7, <1>9, <1>10, <1>11, <1>12,
       <1>13, <1>14, <1>15, <1>16
    DEF Next, CloseStep, PullStep

(* What was published after a spectator joined is on its way to it, or was *)
(* refused by its full channel.                                            *)
THEOREM NoSilentLossHolds == Spec => []NoSilentLoss
  <1>1. Init => NoSilentLoss
    BY DEF Init, NoSilentLoss
  <1> QED
    BY <1>1, NextNoSilentLoss, TypeCorrect, PTL DEF Spec

-----------------------------------------------------------------------------
(* The deadlock of Close().                                                *)

(* A connection that is not open was hung up by its peer, or was sent      *)
(* CLOSE; only such a connection makes its pull goroutine leave; and only  *)
(* a peer that may stop reading blocks a write.                            *)
HangUpInv ==
    /\ blocked \subseteq Stallers
    /\ \A l \in Spectators :
           /\ \/ conn[l] = "open"
              \/ l \in Leavers
              \/ CLOSE \in Elements(written[l])
           /\ pull[l] = "leaving" =>
                  conn[l] # "open" \/ CLOSE \in Elements(written[l])

(* Every step keeps these facts about the connections.                     *)
LEMMA NextHangUp == TypeOK /\ HangUpInv /\ [Next]_vars => HangUpInv'
  <1> SUFFICES ASSUME TypeOK, HangUpInv, [Next]_vars PROVE HangUpInv'
    OBVIOUS
  <1>s. ASSUME UNCHANGED <<conn, written, blocked>>,
               \A l \in Spectators : pull'[l] = "leaving" =>
                   pull[l] = "leaving" \/ conn[l] # "open"
        PROVE  HangUpInv'
    BY <1>s DEF HangUpInv
  <1>m. CLOSE \in Message /\ 1 .. MaxFragments \subseteq Message
    BY SourceAssumption DEF CLOSE, Message
  <1>w. ASSUME NEW l \in Spectators, NEW m \in Message, Write(l, m)
        PROVE  /\ blocked' \subseteq Stallers
               /\ \A k \in Spectators :
                      /\ Elements(written[k]) \subseteq Elements(written'[k])
                      /\ k = l /\ conn[l] = "open" => m \in Elements(written'[k])
    <2>1. ASSUME NEW k \in Spectators
          PROVE  /\ Elements(written[k]) \subseteq Elements(written'[k])
                 /\ k = l /\ conn[l] = "open" => m \in Elements(written'[k])
      <3>1. written[k] \in Seq(Message)
        BY DEF TypeOK
      <3>2. \/ written'[k] = written[k] /\ ~(k = l /\ conn[l] = "open")
            \/ written'[k] = Append(written[k], m)
        BY <1>w DEF Write, TypeOK
      <3> QED
        BY <3>1, <3>2, AppendElements
    <2>2. blocked' \subseteq Stallers
      BY <1>w DEF Write, HangUpInv
    <2> QED
      BY <2>1, <2>2
  <1>f. ASSUME NEW l \in Spectators, NEW m \in Message, SendFragment(l, m),
               \A k \in Spectators : pull'[k] = "leaving" => pull[k] = "leaving"
        PROVE  HangUpInv'
    <2>1. Write(l, m) /\ conn' = conn
      BY <1>f DEF SendFragment
    <2> QED
      BY <1>f, <1>w, <2>1 DEF HangUpInv
  <1>c. ASSUME NEW l \in Spectators, SendClose(l),
               \A k \in Spectators : pull'[k] = "leaving" =>
                   k = l \/ pull[k] = "leaving"
        PROVE  HangUpInv'
    <2>1. \A k \in Spectators :
              /\ conn[k] # "open" => conn'[k] # "open"
              /\ conn'[k] = conn[k] \/ (k = l /\ conn[l] = "open")
      BY <1>c DEF SendClose, HangUp, TypeOK
    <2>2. /\ blocked' \subseteq Stallers
          /\ \A k \in Spectators :
                 /\ Elements(written[k]) \subseteq Elements(written'[k])
                 /\ k = l /\ conn[l] = "open" =>
                        CLOSE \in Elements(written'[k])
      BY <1>c, <1>w, <1>m DEF SendClose
    <2> QED
      BY <1>c, <2>1, <2>2 DEF HangUpInv
  <1>1. CASE AddFragment
    BY <1>1, <1>s DEF AddFragment, pullVars
  <1>2. ASSUME NEW c \in Closers, CloseBegin(c) PROVE HangUpInv'
    BY <1>2, <1>s DEF CloseBegin, pullVars
  <1>3. ASSUME CloseStep PROVE HangUpInv'
    BY <1>3, <1>s DEF CloseStep, CloseRange, CloseSend, CloseEnd, pullVars
  <1>4. CASE AnnounceStop
    BY <1>4, <1>s DEF AnnounceStop, pullVars
  <1>5. ASSUME NEW l \in Spectators, AddListenerFails(l) PROVE HangUpInv'
    BY <1>5, <1>c DEF AddListenerFails, TypeOK
  <1>6. ASSUME NEW l \in Spectators, NEW n \in MaxInitialOptions,
               AddListener(l, n) \/ PullStreamPanics(l, n)
        PROVE  HangUpInv'
    BY <1>6, <1>s DEF AddListener, PullStreamPanics, pullVars, TypeOK
  <1>7. ASSUME NEW l \in Spectators, SendInitial(l) PROVE HangUpInv'
    <2>1. initial[l] \in Seq(1 .. MaxFragments) /\ initial[l] # <<>>
      BY <1>7 DEF SendInitial, TypeOK
    <2>2. Head(initial[l]) \in 1 .. MaxFragments
      <3> DEFINE s == initial[l]
      <3>1. s \in Seq(1 .. MaxFragments) /\ s # <<>>
        BY <2>1
      <3> HIDE DEF s
      <3>2. Head(s) \in 1 .. MaxFragments
        BY <3>1, TailFacts
      <3> QED
        BY <3>2 DEF s
    <2> QED
      BY <1>7, <1>f, <1>m, <2>2 DEF SendInitial
  <1>8. ASSUME NEW l \in Spectators,
               InitialSent(l) \/ ReceiveInterrupt(l) \/ RemoveListener(l)
        PROVE  HangUpInv'
    BY <1>8, <1>s DEF InitialSent, ReceiveInterrupt, RemoveListener, TypeOK
  <1>9. ASSUME NEW l \in Spectators, ReceiveFragment(l) PROVE HangUpInv'
    <2>1. Head(channel[l]) \in Message
      BY <1>9, TailFacts DEF ReceiveFragment, TypeOK
    <2> QED
      BY <1>9, <1>f, <2>1 DEF ReceiveFragment
  <1>10. ASSUME NEW l \in Spectators, ReceiveClose(l) PROVE HangUpInv'
    BY <1>10, <1>c DEF ReceiveClose, TypeOK
  <1>11. ASSUME NEW l \in Spectators, Disconnect(l) PROVE HangUpInv'
    BY <1>11 DEF Disconnect, TypeOK, HangUpInv
  <1>12. ASSUME NEW l \in Spectators, OnClose(l) PROVE HangUpInv'
    BY <1>12 DEF OnClose, TypeOK, HangUpInv
  <1>13. ASSUME NEW l \in Spectators, WriteReturns(l) PROVE HangUpInv'
    <2>1. UNCHANGED <<written, pull>> /\ blocked' \subseteq blocked
      BY <1>13 DEF WriteReturns
    <2>2. \A k \in Spectators :
              \/ conn'[k] = conn[k]
              \/ CLOSE \in Elements(written[k]) /\ conn'[k] # "open"
      BY <1>13 DEF WriteReturns, HangUp, TypeOK
    <2> QED
      BY <2>1, <2>2 DEF HangUpInv
  <1>14. CASE UNCHANGED vars
    BY <1>14, <1>s DEF vars, pullVars
  <1> QED
    BY <1>1, <1>2, <1>3, <1>4, <1>5, <1>6, <1>7, <1>8, <1>9, <1>10, <1>11,
       <1>12, <1>13, <1>14
    DEF Next, PullStep

(* A waiting Close() waits for a listener, which is told of the end by     *)
(* nobody else: unless it leaves, it is about to take its events.          *)
LEMMA TargetFacts ==
    ASSUME IInv, closeTarget # NoOne
    PROVE  /\ mu # NoOne
           /\ closeTarget \in Spectators
           /\ closeTarget \in closePending
           /\ pull[closeTarget] \in {"initial", "select", "leaving"}
           /\ CLOSE \notin Elements(written[closeTarget])
  <1>1. /\ closeTarget \in closePending
        /\ closeTarget \in listeners
        /\ closeTarget \in Spectators
        /\ mu # NoOne
    BY DEF IInv, TypeOK, LockInv
  <1>2. pull[closeTarget] \in {"initial", "select", "leaving"}
    BY <1>1 DEF IInv, PullInv
  <1>3. CLOSE \notin Elements(written[closeTarget])
    <2>1. Bounded(written[closeTarget], closeTarget)
      BY <1>1 DEF IInv, OrderInv, Order
    <2>2. \A i \in 1 .. Len(written[closeTarget]) :
              written[closeTarget][i] <= published
      BY <1>1, <2>1 DEF Bounded
    <2>3. published \in 0 .. MaxFragments
      BY DEF IInv, TypeOK
    <2> QED
      BY <2>2, <2>3, SourceAssumption DEF CLOSE, Elements
  <1> QED
    BY <1>1, <1>2, <1>3

(* Init and every step keep both invariants.                               *)
LEMMA HangUpInductive == Spec => [](IInv /\ HangUpInv)
  <1>1. Init => HangUpInv
    BY DEF Init, HangUpInv
  <1>2. IInv /\ HangUpInv /\ [Next]_vars => HangUpInv'
    BY NextHangUp DEF IInv
  <1> QED
    BY <1>1, <1>2, Inductive, PTL DEF Spec

(* What a Close() that waits, waits for: a goroutine that took its         *)
(* interrupt first, which only the end of its connection brings about and  *)
(* which is the deadlock; a write to a peer that does not read; or a       *)
(* goroutine that goes on and needs no lock to do so.                      *)
THEOREM CloseWaitsForHolds == Spec => []CloseWaitsFor
  <1>1. IInv /\ HangUpInv => CloseWaitsFor
    BY TargetFacts DEF HangUpInv, CloseWaitsFor, Wedged
  <1> QED
    BY <1>1, HangUpInductive, PTL

(* A wedged Close() is wedged for ever: nothing that happens later, no     *)
(* other closer, publisher or spectator, frees source.mu again.            *)
THEOREM WedgedForEver == Spec => [](Wedged => []Wedged)
  <1>1. IInv /\ Wedged /\ [Next]_vars => Wedged'
    <2> SUFFICES ASSUME IInv, Wedged, [Next]_vars PROVE Wedged'
      OBVIOUS
    <2>1. /\ closeTarget # NoOne
          /\ mu # NoOne
          /\ closeTarget \in Spectators
          /\ closeTarget \in closePending
          /\ ~HasRoom(closeTarget)
          /\ pull[closeTarget] = "leaving"
      BY TargetFacts DEF Wedged
    <2>2. closeTarget' = closeTarget /\ channel'[closeTarget] = channel[closeTarget]
      BY <2>1
      DEF Next, AddFragment, CloseBegin, CloseStep, CloseRange, CloseSend,
          CloseEnd, AnnounceStop, PullStep, AddListenerFails, AddListener,
          PullStreamPanics, SendInitial, InitialSent, ReceiveFragment,
          ReceiveClose, ReceiveInterrupt, RemoveListener, WriteReturns,
          Disconnect, OnClose, vars, lockVars, IInv, TypeOK
    <2>3. pull'[closeTarget] = "leaving"
      BY <2>1
      DEF Next, AddFragment, CloseBegin, CloseStep, CloseRange, CloseSend,
          CloseEnd, AnnounceStop, PullStep, AddListenerFails, AddListener,
          PullStreamPanics, SendInitial, InitialSent, ReceiveFragment,
          ReceiveClose, ReceiveInterrupt, RemoveListener, WriteReturns,
          Disconnect, OnClose, vars, pullVars, IInv, TypeOK
    <2> QED
      BY <2>1, <2>2, <2>3 DEF Wedged, HasRoom
  <1> QED
    BY <1>1, Inductive, PTL DEF Spec

(* No step but the panic of PullStream ends the process, and it takes a    *)
(* PULL that asks for some number of initial fragments.                    *)
LEMMA NoPanic ==
    ASSUME \A n \in MaxInitialOptions : n <= 0, TypeOK, ~crashed, [Next]_vars
    PROVE  ~crashed'
  <1>1. ASSUME NEW l \in Spectators, NEW n \in MaxInitialOptions,
               PullStreamPanics(l, n)
        PROVE  FALSE
    BY <1>1, SourceAssumption DEF PullStreamPanics, InitialCount, TypeOK
  <1> QED
    BY <1>1
    DEF Next, AddFragment, CloseBegin, CloseStep, CloseRange, CloseSend,
        CloseEnd, AnnounceStop, PullStep, AddListenerFails, AddListener,
        SendInitial, InitialSent, ReceiveFragment, ReceiveClose,
        ReceiveInterrupt, RemoveListener, WriteReturns, Disconnect, OnClose,
        vars

(* Where no peer hangs up and no PULL limits the initial fragments, the    *)
(* source neither deadlocks nor panics, whether or not the peers read: the *)
(* first hypothesis under which its liveness is checked is met.            *)
THEOREM WorksHolds ==
    ASSUME Leavers = {}, \A n \in MaxInitialOptions : n <= 0
    PROVE  Spec => []Works
  <1>1. Init => ~crashed
    BY DEF Init
  <1>2. IInv /\ ~crashed /\ [Next]_vars => ~crashed'
    BY NoPanic DEF IInv
  <1>3. CloseWaitsFor => ~Wedged
    BY DEF CloseWaitsFor, Wedged
  <1>4. ~crashed /\ ~Wedged => Works
    BY DEF Works
  <1> QED
    BY <1>1, <1>2, <1>3, <1>4, Inductive, CloseWaitsForHolds, PTL DEF Spec

-----------------------------------------------------------------------------
(* The source implements the delivery it promises.                         *)

(* The initial states of the source are initial states of the delivery.    *)
LEMMA InitDelivers == Init => Delivery!Init
  BY DEF Init, Delivery!Init

(* Every step of the source is a step of the delivery, or none.            *)
LEMMA NextDelivers ==
    IInv /\ IInv' /\ [Next]_vars => [Delivery!Next]_(Delivery!deliveryVars)
  <1> SUFFICES ASSUME IInv, IInv', [Next]_vars
               PROVE  Delivery!Next \/ UNCHANGED Delivery!deliveryVars
    OBVIOUS
  <1>e. Ended <=> (closed \/ mu # NoOne)
    BY DEF Ended
  <1>s. ASSUME UNCHANGED <<published, written>>, Ended' = Ended
        PROVE  UNCHANGED Delivery!deliveryVars
    BY <1>s DEF Delivery!deliveryVars, Ended
  <1>1. CASE AddFragment
    <2>1. Delivery!Publish
      BY <1>1 DEF AddFragment, Delivery!Publish, lockVars, pullVars
    <2> QED
      BY <2>1 DEF Delivery!Next
  <1>2. ASSUME NEW c \in Closers, CloseBegin(c)
        PROVE  Delivery!Next \/ UNCHANGED Delivery!deliveryVars
    <2>1. CASE closed
      BY <1>2, <1>s, <2>1 DEF CloseBegin, Ended, pullVars
    <2>2. CASE ~closed
      <3>1. Delivery!End
        BY <1>2, <2>2, SourceAssumption DEF CloseBegin, Delivery!End, pullVars
      <3> QED
        BY <3>1 DEF Delivery!Next
    <2> QED
      BY <2>1, <2>2
  <1>3. ASSUME NEW l \in Spectators, CloseRange(l)
        PROVE  UNCHANGED Delivery!deliveryVars
    BY <1>3, <1>s DEF CloseRange, Ended, pullVars
  <1>4. CASE CloseSend
    BY <1>4, <1>s DEF CloseSend, Ended, pullVars
  <1>5. CASE CloseEnd
    BY <1>5, <1>s DEF CloseEnd, Ended, pullVars
  <1>w. ASSUME NEW l \in Spectators, NEW m \in Message, Write(l, m),
               UNCHANGED <<mu, closed, published>>,
               m \in 1 .. published \/ (m = CLOSE /\ Ended)
        PROVE  Delivery!Next \/ UNCHANGED Delivery!deliveryVars
    <2>1. CASE conn[l] = "open"
      <3>1. /\ written' = [written EXCEPT ![l] = Append(@, m)]
            /\ written[l] \in Seq(Message)
            /\ written'[l] = Append(written[l], m)
        BY <1>w, <2>1 DEF Write, IInv, TypeOK
      <3>2. Increasing(written'[l])
        BY DEF IInv, OrderInv, Order
      <3>3. \A i \in 1 .. Len(written[l]) : written[l][i] < m
        BY <3>1, <3>2, AppendFacts DEF Increasing
      <3>4. Delivery!Deliver(l, m)
        BY <1>w, <1>e, <3>1, <3>3
        DEF Delivery!Deliver, Delivery!Follows, Delivery!CLOSE, CLOSE
      <3>5. m \in Delivery!Message
        BY DEF Message, CLOSE, Delivery!Message, Delivery!CLOSE
      <3> QED
        BY <3>4, <3>5 DEF Delivery!Next
    <2>2. CASE conn[l] # "open"
      <3>1. written' = written
        BY <1>w, <2>2 DEF Write, IInv, TypeOK
      <3> QED
        BY <1>w, <3>1 DEF Delivery!deliveryVars
    <2> QED
      BY <2>1, <2>2
  <1>t. CLOSE \in Message /\ MaxFragments \in Nat
    BY SourceAssumption DEF CLOSE, Message
  <1>6. ASSUME NEW l \in Spectators, AddListenerFails(l)
        PROVE  Delivery!Next \/ UNCHANGED Delivery!deliveryVars
    BY <1>6, <1>t, <1>w DEF AddListenerFails, SendClose, Ended, lockVars
  <1>7. ASSUME NEW l \in Spectators, NEW n \in MaxInitialOptions,
               AddListener(l, n)
        PROVE  UNCHANGED Delivery!deliveryVars
    BY <1>7, <1>s DEF AddListener, Ended
  <1>8. ASSUME NEW l \in Spectators, SendInitial(l)
        PROVE  Delivery!Next \/ UNCHANGED Delivery!deliveryVars
    <2>1. initial[l] \in Seq(1 .. MaxFragments) /\ initial[l] # <<>>
      BY <1>8 DEF SendInitial, IInv, TypeOK
    <2>2. /\ Head(initial[l]) \in 1 .. MaxFragments
          /\ Head(initial[l]) <= published
      <3>1. /\ Head(initial[l]) \in 1 .. MaxFragments
            /\ Head(initial[l]) = initial[l][1]
            /\ 1 \in 1 .. Len(initial[l])
        <4> DEFINE t == initial[l]
        <4>1. t \in Seq(1 .. MaxFragments) /\ t # <<>>
          BY <2>1
        <4> HIDE DEF t
        <4>2. /\ Head(t) \in 1 .. MaxFragments
              /\ Head(t) = t[1]
              /\ Len(t) \in Nat \ {0}
          BY <4>1, TailFacts
        <4> QED
          BY <4>2 DEF t
      <3>2. \A i \in 1 .. Len(initial[l]) : initial[l][i] <= published
        BY DEF IInv, OrderInv, Order
      <3> QED
        BY <3>1, <3>2
    <2>3. Head(initial[l]) \in 1 .. published
          /\ Head(initial[l]) \in Message
      BY SMTT(30), <1>t, <2>2 DEF IInv, TypeOK, Message, CLOSE
    <2> QED
      BY <1>8, <1>w, <2>3 DEF SendInitial, SendFragment, lockVars
  <1>r. ASSUME NEW l \in Spectators, channel[l] # <<>>
        PROVE  /\ Head(channel[l]) \in Message
               /\ \/ Head(channel[l]) \in 1 .. published
                  \/ (Head(channel[l]) = CLOSE /\ Ended)
    <2>1. /\ Head(channel[l]) \in Message
          /\ Head(channel[l]) = channel[l][1]
          /\ 1 \in 1 .. Len(channel[l])
      BY <1>r, TailFacts DEF IInv, TypeOK
    <2>2. Head(channel[l]) <= published
              \/ (Head(channel[l]) = CLOSE /\ Ended)
      BY <2>1 DEF IInv, OrderInv, Order, Bounded
    <2> QED
      BY <1>t, <2>1, <2>2 DEF IInv, TypeOK, Message
  <1>9. ASSUME NEW l \in Spectators, ReceiveFragment(l)
        PROVE  Delivery!Next \/ UNCHANGED Delivery!deliveryVars
    BY <1>9, <1>r, <1>w DEF ReceiveFragment, SendFragment, lockVars
  <1>10. ASSUME NEW l \in Spectators, ReceiveClose(l)
         PROVE  Delivery!Next \/ UNCHANGED Delivery!deliveryVars
    BY <1>10, <1>r, <1>w DEF ReceiveClose, SendClose, lockVars
  <1>11. CASE UNCHANGED <<mu, closed, published, written>>
    BY <1>11 DEF Delivery!deliveryVars
  <1> QED
    BY <1>1, <1>2, <1>3, <1>4, <1>5, <1>6, <1>7, <1>8, <1>9, <1>10, <1>11
    DEF Next, CloseStep, PullStep, AnnounceStop, PullStreamPanics, InitialSent,
        ReceiveInterrupt, RemoveListener, WriteReturns, Disconnect, OnClose,
        vars, lockVars, pullVars

(* HlsSource refines FragmentDelivery: what the spectators of a source see *)
(* is a behaviour of the specification of delivery.                        *)
THEOREM DeliveryHolds == Spec => ImplementsDelivery
  BY InitDelivers, NextDelivers, Inductive, PTL
  DEF Spec, ImplementsDelivery, Delivery!Spec
=============================================================================
