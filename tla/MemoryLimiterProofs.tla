------------------------ MODULE MemoryLimiterProofs ------------------------
(***************************************************************************)
(* Proofs about MemoryLimiter, for any number of sources and relays, any   *)
(* limit, sizes and buffer length.                                         *)
(***************************************************************************)
EXTENDS MemoryLimiter, SequenceTheorems, TLAPS

(* The sizes of fragments are numbers.                                     *)
LEMMA SizesAreNat == Sizes \subseteq Nat
  BY LimiterAssumption

(* AddFragment keeps the buffer within its length.                         *)
LEMMA PushFragmentFacts ==
    ASSUME NEW b \in Seq(Sizes), Len(b) <= FragmentBufferMaxLength,
           fragment \in Sizes
    PROVE  /\ PushFragment(b) \in Seq(Sizes)
           /\ Len(PushFragment(b)) <= FragmentBufferMaxLength
  <1>1. CASE Len(b) >= FragmentBufferMaxLength
    <2>1. b # <<>>
      BY <1>1, LimiterAssumption
    <2>2. Tail(b) \in Seq(Sizes) /\ Len(Tail(b)) = Len(b) - 1
      BY <2>1
    <2>3. PushFragment(b) = Append(Tail(b), fragment)
      BY <1>1 DEF PushFragment
    <2>4. Len(PushFragment(b)) = Len(b)
      BY <2>2, <2>3
    <2> QED
      BY <2>2, <2>3, <2>4
  <1>2. CASE ~(Len(b) >= FragmentBufferMaxLength)
    <2>1. PushFragment(b) = Append(b, fragment)
      BY <1>2 DEF PushFragment
    <2> QED
      BY <1>2, <2>1, LimiterAssumption
  <1> QED
    BY <1>1, <1>2

(* Refuse comes after the loop has gone through the whole buffer.          *)
LEMMA RefuseEmpties ==
    ASSUME TypeOK, Refuse
    PROVE  /\ Shortened(buffer[checking]) = <<>>
           /\ buffer' = [buffer EXCEPT ![checking] = <<>>]
  <1>1. /\ removed + 1 \in Int
        /\ Len(buffer[checking]) \in Int
        /\ Len(buffer[checking]) < removed + 1
    BY LimiterAssumption DEF Refuse, TypeOK
  <1>2. Shortened(buffer[checking]) = <<>>
    BY <1>1, SubSeqEmpty DEF Shortened
  <1> QED
    BY <1>2 DEF Refuse

(* Every step keeps the types.                                             *)
LEMMA NextType == TypeOK /\ [Next]_vars => TypeOK'
  <1> SUFFICES ASSUME TypeOK, [Next]_vars PROVE TypeOK'
    OBVIOUS
  <1>e. /\ <<>> \in Seq(Sizes)
        /\ Len(<<>>) <= FragmentBufferMaxLength
    BY LimiterAssumption
  <1>1. ASSUME NEW s \in Streams, NEW size \in Sizes, CheckBegin(s, size)
        PROVE  TypeOK'
    BY <1>1, LimiterAssumption DEF CheckBegin, TypeOK, releaseVars
  <1>2. CASE Evict
    <2>1. buffer[checking][removed + 1] \in Sizes
      <3>1. /\ checking \in Streams
            /\ buffer[checking] \in Seq(Sizes)
            /\ removed + 1 \in 1 .. Len(buffer[checking])
        BY <1>2 DEF Evict, TypeOK
      <3> QED
        BY <3>1, ElementOfSeq
    <2>2. usage' \in Int /\ removed' \in Nat
      BY <1>2, <2>1, SizesAreNat DEF Evict, TypeOK
    <2> QED
      BY <1>2, <2>2 DEF Evict, TypeOK, releaseVars
  <1>3. CASE Admit
    <2>1. checking \in Streams /\ fragment \in Sizes
      BY <1>3 DEF Admit, TypeOK
    <2>2. /\ PushFragment(buffer[checking]) \in Seq(Sizes)
          /\ Len(PushFragment(buffer[checking])) <= FragmentBufferMaxLength
      BY <2>1, PushFragmentFacts DEF TypeOK
    <2>3. /\ buffer' \in [Streams -> Seq(Sizes)]
          /\ \A s \in Streams : Len(buffer'[s]) <= FragmentBufferMaxLength
      BY <1>3, <2>1, <2>2 DEF Admit, TypeOK
    <2>4. usage' \in Int
      BY <1>3, <2>1, SizesAreNat DEF Admit, TypeOK
    <2> QED
      BY <1>3, <2>3, <2>4, LimiterAssumption
      DEF Admit, CheckEnd, TypeOK, releaseVars
  <1>4. CASE Refuse
    <2>1. buffer' = [buffer EXCEPT ![checking] = <<>>]
      BY <1>4, RefuseEmpties
    <2>2. /\ buffer' \in [Streams -> Seq(Sizes)]
          /\ \A s \in Streams : Len(buffer'[s]) <= FragmentBufferMaxLength
      BY <1>e, <2>1 DEF TypeOK
    <2> QED
      BY <1>4, <2>2, LimiterAssumption
      DEF Refuse, CheckEnd, TypeOK, releaseVars
  <1>5. ASSUME NEW s \in Streams, Close(s) PROVE TypeOK'
    <2>1. /\ buffer' \in [Streams -> Seq(Sizes)]
          /\ \A q \in Streams : Len(buffer'[q]) <= FragmentBufferMaxLength
          /\ state' \in [Streams -> {"open", "closed", "released"}]
      BY <1>5, <1>e DEF Close, TypeOK
    <2> QED
      BY <1>5, <2>1 DEF Close, TypeOK, checkVars, releaseVars
  <1>6. ASSUME NEW s \in Relays, ReleaseCount(s) PROVE TypeOK'
    <2>1. buffer[s][counted[s] + 1] \in Sizes
      <3>1. /\ buffer[s] \in Seq(Sizes)
            /\ counted[s] + 1 \in 1 .. Len(buffer[s])
        BY <1>6 DEF ReleaseCount, TypeOK, Streams
      <3> QED
        BY <3>1, ElementOfSeq
    <2>2. /\ counted' \in [Relays -> Nat]
          /\ total' \in [Relays -> Nat]
      <3> DEFINE size == buffer[s][counted[s] + 1]
      <3>1. size \in Nat
        BY <2>1, SizesAreNat
      <3>2. /\ counted' = [counted EXCEPT ![s] = @ + 1]
            /\ total' = [total EXCEPT ![s] = @ + size]
        BY <1>6 DEF ReleaseCount
      <3> HIDE DEF size
      <3> QED
        BY <3>1, <3>2 DEF TypeOK
    <2> QED
      BY <1>6, <2>2 DEF ReleaseCount, TypeOK, checkVars
  <1>7. ASSUME NEW s \in Relays, ReleaseEnd(s) PROVE TypeOK'
    <2>1. /\ buffer' \in [Streams -> Seq(Sizes)]
          /\ \A q \in Streams : Len(buffer'[q]) <= FragmentBufferMaxLength
          /\ state' \in [Streams -> {"open", "closed", "released"}]
      BY <1>7, <1>e DEF ReleaseEnd, TypeOK, Streams
    <2>2. usage' \in Int
      BY <1>7 DEF ReleaseEnd, TypeOK
    <2> QED
      BY <1>7, <2>1, <2>2 DEF ReleaseEnd, TypeOK, checkVars, releaseVars
  <1>8. CASE UNCHANGED vars
    BY <1>8 DEF TypeOK, vars, checkVars, releaseVars
  <1> QED
    BY <1>1, <1>2, <1>3, <1>4, <1>5, <1>6, <1>7, <1>8 DEF Next

(* Every variable keeps to its type, and every buffer to its length.       *)
THEOREM TypeCorrect == Spec => []TypeOK
  <1>1. Init => TypeOK
    BY LimiterAssumption DEF Init, TypeOK
  <1> QED
    BY <1>1, NextType, PTL DEF Spec

(* The limiter never counts more than its limit: it adds only what fits,   *)
(* and what it subtracts is never negative.                                *)
THEOREM UsageHolds == Spec => []UsageWithinLimit
  <1>1. Init => UsageWithinLimit
    BY LimiterAssumption DEF Init, UsageWithinLimit
  <1>2. TypeOK /\ UsageWithinLimit /\ [Next]_vars => UsageWithinLimit'
    <2> SUFFICES ASSUME TypeOK, UsageWithinLimit, [Next]_vars
                 PROVE  UsageWithinLimit'
      OBVIOUS
    <2>1. CASE Evict
      <3>1. /\ buffer[checking] \in Seq(Sizes)
            /\ removed + 1 \in 1 .. Len(buffer[checking])
        BY <2>1 DEF Evict, TypeOK
      <3>2. buffer[checking][removed + 1] \in Nat
        BY <3>1, ElementOfSeq, SizesAreNat
      <3> QED
        BY <2>1, <3>2, LimiterAssumption DEF Evict, TypeOK, UsageWithinLimit
    <2>2. CASE Admit
      BY <2>2 DEF Admit, Fits, UsageWithinLimit
    <2>3. ASSUME NEW s \in Relays, ReleaseEnd(s) PROVE UsageWithinLimit'
      BY <2>3, LimiterAssumption DEF ReleaseEnd, TypeOK, UsageWithinLimit
    <2>4. CASE UNCHANGED usage
      BY <2>4 DEF UsageWithinLimit
    <2> QED
      BY <2>1, <2>2, <2>3, <2>4
      DEF Next, CheckBegin, Refuse, Close, ReleaseCount, vars
  <1> QED
    BY <1>1, <1>2, TypeCorrect, PTL DEF Spec

(* A fragment is refused only after the whole buffer was evicted.          *)
THEOREM RefusedIsEmptyHolds == Spec => RefusedIsEmpty
  <1>1. TypeOK /\ [Next]_vars =>
            [checking # NoOne /\ checking' = NoOne /\ usage' = usage
                 => buffer'[checking] = <<>>]_vars
    <2> SUFFICES ASSUME TypeOK, Next, checking # NoOne, checking' = NoOne,
                        usage' = usage
                 PROVE  buffer'[checking] = <<>>
      OBVIOUS
    <2>1. CASE Admit
      <3>1. fragment \in Nat \ {0} /\ usage \in Int
        BY <2>1, LimiterAssumption DEF Admit, TypeOK
      <3> QED
        BY <2>1, <3>1 DEF Admit
    <2>2. CASE Refuse
      <3>1. buffer' = [buffer EXCEPT ![checking] = <<>>]
        BY <2>2, RefuseEmpties
      <3> QED
        BY <3>1 DEF TypeOK
    <2> QED
      BY <2>1, <2>2
      DEF Next, CheckBegin, Evict, Close, ReleaseCount, ReleaseEnd, checkVars
  <1> QED
    BY <1>1, TypeCorrect, PTL DEF Spec, RefusedIsEmpty
=============================================================================
