------------------------ MODULE TesterPublisherProofs ------------------------
(***************************************************************************)
(* What holds of TesterPublisher for every number of segments, every set   *)
(* of empty ones and every length of the playlist.                         *)
(***************************************************************************)
EXTENDS TesterPublisher, WellFoundedInduction, TLAPS

(* A set of natural numbers that is not empty has a least element.         *)
LEMMA LeastElement ==
    ASSUME NEW T \in SUBSET Nat, T # {}
    PROVE  \E m \in T : \A k \in T : m <= k
<1>1. PICK m \in T : \A k \in T : ~ (<<k, m>> \in OpToRel(<, Nat))
    BY NatLessThanWellFounded, WFMin
<1>2. \A k \in T : ~ (k < m)
  <2>1. SUFFICES ASSUME NEW k \in T, k < m
                 PROVE  FALSE
      OBVIOUS
  <2>2. <<k, m>> \in OpToRel(<, Nat)
      BY <2>1 DEF OpToRel
  <2> QED
      BY <1>1, <2>2
<1> QED
    BY <1>2

(* The count of updateHLSInternal goes over complete fragments only, and   *)
(* stops at the first one that is not, which exists: there is no segment   *)
(* MaxSegments.                                                            *)
LEMMA CountFromStops ==
    ASSUME NEW n \in 0 .. MaxSegments,
           NEW complete \in SUBSET (0 .. MaxSegments - 1)
    PROVE  /\ CountFrom(n, complete) \in n .. MaxSegments
           /\ CountFrom(n, complete) \notin complete
           /\ n .. CountFrom(n, complete) - 1 \subseteq complete
<1> DEFINE T == (n .. MaxSegments) \ complete
<1>1. T \in SUBSET Nat /\ MaxSegments \in T
    BY TesterAssumption
<1> HIDE DEF T
<1>2. PICK m \in T : \A k \in T : m <= k
    BY <1>1, LeastElement
<1>3. m \in n .. MaxSegments /\ m \notin complete
    BY DEF T
<1>4. \A i \in n .. m - 1 : i \in complete
    BY <1>2, <1>3, TesterAssumption DEF T
<1>5. \E k \in n .. MaxSegments :
          k \notin complete /\ \A i \in n .. k - 1 : i \in complete
    BY <1>3, <1>4
<1> QED
    BY <1>5 DEF CountFrom

(* What updateHLSInternal leaves in the maps, whichever handler calls it.  *)
LEMMA UpdateHLSLeaves ==
    ASSUME TypeOK,
           NEW listed \in SUBSET (0 .. written - 1),
           NEW uploaded \in SUBSET (0 .. written - 1),
           \A i \in listed \cup uploaded : i >= fragmentCount,
           UpdateHLS(listed, uploaded)
    PROVE  /\ fragmentCount' \in fragmentCount .. written
           /\ fragments' \subseteq 0 .. written - 1
           /\ fragmentsReady' \subseteq 0 .. written - 1
           /\ fragmentCount' \notin fragments' \cap fragmentsReady'
           /\ \A i \in fragments' \cup fragmentsReady' : i >= fragmentCount'
           /\ uploaded = fragmentsReady' \cup
                             (fragmentCount .. fragmentCount' - 1)
<1> DEFINE complete == listed \cap uploaded
<1> DEFINE count == CountFrom(fragmentCount, complete)
<1>1. /\ fragmentCount \in 0 .. MaxSegments
      /\ written \in 0 .. MaxSegments
      /\ fragmentCount <= written
      /\ complete \in SUBSET (0 .. MaxSegments - 1)
    BY TesterAssumption DEF TypeOK
<1>2. /\ count \in fragmentCount .. MaxSegments
      /\ count \notin complete
      /\ fragmentCount .. count - 1 \subseteq complete
    BY <1>1, CountFromStops
<1>3. /\ fragmentCount' = count
      /\ fragments' = listed \ (fragmentCount .. count - 1)
      /\ fragmentsReady' = uploaded \ (fragmentCount .. count - 1)
    BY DEF UpdateHLS
<1> HIDE DEF count
<1>4. count <= written
  <2>1. CASE count = fragmentCount
      BY <2>1, <1>1
  <2>2. CASE count > fragmentCount
    <3>1. count - 1 \in complete
        BY <2>2, <1>1, <1>2
    <3> QED
        BY <3>1, <1>1, <1>2
  <2> QED
      BY <2>1, <2>2, <1>1, <1>2
<1>5. \A i \in listed \cup uploaded :
          i \notin fragmentCount .. count - 1 => i >= count
    BY <1>1, <1>2
<1> QED
    BY <1>1, <1>2, <1>3, <1>4, <1>5

-----------------------------------------------------------------------------
LEMMA InitHolds == Init => IInv
<1> SUFFICES ASSUME Init PROVE IInv
    OBVIOUS
<1> USE TesterAssumption DEF Init
<1>1. TypeOK
  <2>1. playlist \in Seq(Nat) /\ sent \in Seq(Nat)
      OBVIOUS
  <2>2. /\ written \in 0 .. MaxSegments
        /\ fragmentCount \in 0 .. written
        /\ next \in 0 .. fragmentCount
      OBVIOUS
  <2>3. closed \in BOOLEAN
      OBVIOUS
  <2> QED
      BY <2>1, <2>2, <2>3 DEF TypeOK
<1>2. SentWithoutGap
    BY DEF SentWithoutGap
<1>3. NothingHeldBack
    BY DEF NothingHeldBack
<1>4. PlaylistIsRecent
    BY DEF PlaylistIsRecent
<1> QED
    BY <1>1, <1>2, <1>3, <1>4 DEF IInv

(* FFmpeg touches no map and hands nothing over; Close() only fixes where  *)
(* the stream ends.                                                        *)
LEMMA FFmpegWritesKeeps ==
    ASSUME IInv, FFmpegWrites
    PROVE  IInv'
<1> USE TesterAssumption DEF FFmpegWrites, countVars, outVars
<1>1. TypeOK'
    BY DEF IInv, TypeOK
<1>2. SentWithoutGap'
    BY DEF IInv, SentWithoutGap
<1>3. NothingHeldBack'
    BY DEF IInv, NothingHeldBack
<1>4. PlaylistIsRecent'
    BY DEF IInv, PlaylistIsRecent
<1> QED
    BY <1>1, <1>2, <1>3, <1>4 DEF IInv

LEMMA FFmpegEndsKeeps ==
    ASSUME IInv, FFmpegEnds
    PROVE  IInv'
<1> USE DEF FFmpegEnds, countVars, outVars, ffmpegVars
<1>1. TypeOK'
    BY DEF IInv, TypeOK
<1>2. SentWithoutGap'
    BY DEF IInv, SentWithoutGap
<1>3. NothingHeldBack'
    BY DEF IInv, NothingHeldBack
<1>4. PlaylistIsRecent'
    BY DEF IInv, PlaylistIsRecent
<1> QED
    BY <1>1, <1>2, <1>3, <1>4 DEF IInv

(* A request that cannot be read only leaves the way.                      *)
LEMMA FailureKeeps ==
    ASSUME IInv,
           \/ \E i \in Segments : UploadFails(i)
           \/ \E n \in 1 .. MaxSegments : PlaylistFails(n)
    PROVE  IInv'
<1> USE DEF UploadFails, PlaylistFails, countVars, outVars
<1>1. TypeOK'
    BY DEF IInv, TypeOK
<1>2. SentWithoutGap'
    BY DEF IInv, SentWithoutGap
<1>3. NothingHeldBack'
    BY DEF IInv, NothingHeldBack
<1>4. PlaylistIsRecent'
    BY DEF IInv, PlaylistIsRecent
<1> QED
    BY <1>1, <1>2, <1>3, <1>4 DEF IInv

(* The handlers work while nobody is in the loop, so that the data of the  *)
(* new fragments is what the loop has still to go over.                    *)
LEMMA HandleTSKeeps ==
    ASSUME IInv, NEW i \in Segments, HandleRequestHLS_TS(i)
    PROVE  IInv'
<1> DEFINE uploaded == fragmentsReady \cup {i}
<1>1. /\ next = fragmentCount
      /\ i \in 0 .. written - 1
      /\ uploads' = uploads \ {i}
      /\ UNCHANGED <<next, playlist, sent, closed, written, lists,
                     failedUploads, failedLists>>
      /\ OnFragmentReady(i)
    BY DEF HandleRequestHLS_TS, Free, IInv, TypeOK
<1>2. SentWithoutGap' /\ PlaylistIsRecent'
  <2> USE <1>1
  <2>1. SentWithoutGap'
      BY DEF IInv, SentWithoutGap
  <2>2. PlaylistIsRecent'
      BY DEF IInv, PlaylistIsRecent
  <2> QED
      BY <2>1, <2>2
<1>3. CASE i < fragmentCount
  <2>1. UNCHANGED <<countVars, fragmentsData>>
      BY <1>1, <1>3 DEF OnFragmentReady
  <2>2. TypeOK' /\ NothingHeldBack'
      BY <1>1, <2>1 DEF countVars, IInv, TypeOK, NothingHeldBack
  <2> QED
      BY <1>2, <2>2 DEF IInv
<1>4. CASE i >= fragmentCount
  <2>1. /\ fragmentsData' = fragmentsData \cup {i}
        /\ UpdateHLS(fragments, uploaded)
    <3>1. ~(i < fragmentCount)
        BY <1>1, <1>4 DEF IInv, TypeOK
    <3> QED
        BY <1>1, <3>1 DEF OnFragmentReady
  <2>2. /\ TypeOK
        /\ fragments \in SUBSET (0 .. written - 1)
        /\ uploaded \in SUBSET (0 .. written - 1)
        /\ \A k \in fragments \cup uploaded : k >= fragmentCount
      BY <1>1, <1>4 DEF IInv, TypeOK, NothingHeldBack
  <2> HIDE DEF uploaded
  <2>3. /\ fragmentCount' \in fragmentCount .. written
        /\ fragments' \subseteq 0 .. written - 1
        /\ fragmentsReady' \subseteq 0 .. written - 1
        /\ fragmentCount' \notin fragments' \cap fragmentsReady'
        /\ \A k \in fragments' \cup fragmentsReady' : k >= fragmentCount'
        /\ uploaded = fragmentsReady' \cup
                          (fragmentCount .. fragmentCount' - 1)
      BY <2>1, <2>2, UpdateHLSLeaves
  <2>4. fragmentsData' = uploaded
    <3>1. next .. fragmentCount - 1 = {}
        BY <1>1 DEF IInv, TypeOK
    <3>2. fragmentsData = fragmentsReady
        BY <3>1 DEF IInv, NothingHeldBack
    <3> QED
        BY <3>2, <2>1 DEF uploaded
  <2>5. TypeOK'
    <3>1. /\ closed' \in BOOLEAN
          /\ playlist' \in Seq(Nat)
          /\ sent' \in Seq(Nat)
        BY <1>1, <2>2 DEF TypeOK
    <3>2. /\ written' \in 0 .. MaxSegments
          /\ fragmentCount' \in 0 .. written'
          /\ next' \in 0 .. fragmentCount'
        BY <1>1, <2>2, <2>3 DEF TypeOK
    <3>3. /\ fragments' \subseteq 0 .. written' - 1
          /\ fragmentsReady' \subseteq 0 .. written' - 1
          /\ fragmentsData' \subseteq 0 .. written' - 1
        BY <1>1, <2>2, <2>3, <2>4
    <3>4. /\ uploads' \subseteq 0 .. written' - 1
          /\ lists' \subseteq 1 .. written'
          /\ failedUploads' \subseteq 0 .. written' - 1
          /\ failedLists' \subseteq 1 .. written'
        BY <1>1, <2>2 DEF TypeOK
    <3> QED
        BY <3>1, <3>2, <3>3, <3>4 DEF TypeOK
  <2>6. NothingHeldBack'
      BY <1>1, <2>3, <2>4 DEF NothingHeldBack
  <2> QED
      BY <1>2, <2>5, <2>6 DEF IInv
<1> QED
    BY <1>1, <1>3, <1>4 DEF IInv, TypeOK

LEMMA HandleM3U8Keeps ==
    ASSUME IInv, NEW n \in 1 .. MaxSegments, HandleRequestHLS_M3U8(n)
    PROVE  IInv'
<1>1. /\ next = fragmentCount
      /\ n \in 1 .. written
      /\ lists' = lists \ {n}
      /\ UNCHANGED <<fragmentsData, next, playlist, sent, closed, written,
                     uploads, failedUploads, failedLists>>
      /\ UpdateHLS(Listed(n), fragmentsReady)
    BY DEF HandleRequestHLS_M3U8, Free, IInv, TypeOK, outVars
<1>2. SentWithoutGap' /\ PlaylistIsRecent'
  <2> USE <1>1
  <2>1. SentWithoutGap'
      BY DEF IInv, SentWithoutGap
  <2>2. PlaylistIsRecent'
      BY DEF IInv, PlaylistIsRecent
  <2> QED
      BY <2>1, <2>2
<1>3. DecodeHLSPlayList(n) \subseteq 0 .. written - 1
    BY <1>1, TesterAssumption
    DEF DecodeHLSPlayList, MediaSequence, Length, IInv, TypeOK
<1>4. /\ TypeOK
      /\ Listed(n) \in SUBSET (0 .. written - 1)
      /\ fragmentsReady \in SUBSET (0 .. written - 1)
      /\ \A k \in Listed(n) \cup fragmentsReady : k >= fragmentCount
    BY <1>1, <1>3 DEF Listed, IInv, TypeOK, NothingHeldBack
<1>5. /\ fragmentCount' \in fragmentCount .. written
      /\ fragments' \subseteq 0 .. written - 1
      /\ fragmentsReady' \subseteq 0 .. written - 1
      /\ fragmentCount' \notin fragments' \cap fragmentsReady'
      /\ \A k \in fragments' \cup fragmentsReady' : k >= fragmentCount'
      /\ fragmentsReady = fragmentsReady' \cup
                              (fragmentCount .. fragmentCount' - 1)
    BY <1>1, <1>4, UpdateHLSLeaves
<1>6. fragmentsData' = fragmentsReady
  <2>1. next .. fragmentCount - 1 = {}
      BY <1>1 DEF IInv, TypeOK
  <2>2. fragmentsData = fragmentsReady
      BY <2>1 DEF IInv, NothingHeldBack
  <2> QED
      BY <2>2, <1>1
<1>7. TypeOK'
  <2>1. /\ closed' \in BOOLEAN
        /\ playlist' \in Seq(Nat)
        /\ sent' \in Seq(Nat)
      BY <1>1, <1>4 DEF TypeOK
  <2>2. /\ written' \in 0 .. MaxSegments
        /\ fragmentCount' \in 0 .. written'
        /\ next' \in 0 .. fragmentCount'
      BY <1>1, <1>4, <1>5 DEF TypeOK
  <2>3. /\ fragments' \subseteq 0 .. written' - 1
        /\ fragmentsReady' \subseteq 0 .. written' - 1
        /\ fragmentsData' \subseteq 0 .. written' - 1
      BY <1>1, <1>4, <1>5, <1>6
  <2>4. /\ uploads' \subseteq 0 .. written' - 1
        /\ lists' \subseteq 1 .. written'
        /\ failedUploads' \subseteq 0 .. written' - 1
        /\ failedLists' \subseteq 1 .. written'
      BY <1>1, <1>4 DEF TypeOK
  <2> QED
      BY <2>1, <2>2, <2>3, <2>4 DEF TypeOK
<1>8. NothingHeldBack'
    BY <1>1, <1>5, <1>6 DEF NothingHeldBack
<1> QED
    BY <1>2, <1>7, <1>8 DEF IInv

(* The loop takes the fragments in order: all that were handed over are    *)
(* before next.                                                            *)
LEMMA SendFragmentKeeps ==
    ASSUME IInv, SendFragment
    PROVE  IInv'
<1> USE TesterAssumption
<1>1. /\ next < fragmentCount
      /\ next \in Nat
      /\ next' = next + 1
      /\ fragmentsData' = fragmentsData \ {next}
      /\ playlist' = AddToPlaylist(next)
      /\ sent' = IF next \in fragmentsData \ EmptySegments /\ ~closed
                 THEN Append(sent, next)
                 ELSE sent
      /\ UNCHANGED <<fragmentCount, fragments, fragmentsReady, closed,
                     written, uploads, lists, failedUploads, failedLists>>
    BY DEF SendFragment, countVars, ffmpegVars, IInv, TypeOK
<1>2. next \in fragmentsData
    BY <1>1 DEF IInv, TypeOK, NothingHeldBack
<1>3. playlist' \in Seq(Nat)
  <2>1. playlist \in Seq(Nat) /\ Append(playlist, next) # <<>>
      BY <1>1 DEF IInv, TypeOK
  <2> QED
      BY <1>1, <2>1 DEF AddToPlaylist
<1>4. TypeOK'
  <2>1. sent' \in Seq(Nat)
      BY <1>1 DEF IInv, TypeOK
  <2> QED
      BY <1>1, <1>3, <2>1 DEF IInv, TypeOK
<1>5. SentWithoutGap'
  <2>1. PICK last \in 0 .. next :
            /\ ~closed => last = next
            /\ {sent[i] : i \in 1 .. Len(sent)} =
                   (0 .. last - 1) \ EmptySegments
      BY DEF IInv, SentWithoutGap
  <2>2. CASE next \notin EmptySegments /\ ~closed
    <3>1. sent' = Append(sent, next) /\ sent \in Seq(Nat) /\ last = next
      <4>1. next \in fragmentsData \ EmptySegments /\ ~closed
          BY <1>2, <2>2
      <4>2. sent' = Append(sent, next)
          BY <1>1, <4>1
      <4>3. last = next
          BY <2>1, <2>2
      <4> QED
          BY <4>2, <4>3 DEF IInv, TypeOK
    <3>2. \A i \in 1 .. Len(sent) : sent[i] < next
      <4>1. SUFFICES ASSUME NEW i \in 1 .. Len(sent)
                     PROVE  sent[i] < next
          OBVIOUS
      <4>2. sent[i] \in {sent[k] : k \in 1 .. Len(sent)}
          OBVIOUS
      <4>3. sent[i] \in 0 .. next - 1
          BY <4>2, <2>1, <3>1
      <4> QED
          BY <4>3, <1>1
    <3>3. \A i, j \in 1 .. Len(sent') : i < j => sent'[i] < sent'[j]
      <4>1. \A i, j \in 1 .. Len(sent) : i < j => sent[i] < sent[j]
          BY DEF IInv, SentWithoutGap
      <4> QED
          BY <4>1, <3>1, <3>2, <1>1
    <3>4. {sent'[i] : i \in 1 .. Len(sent')} =
              {sent[i] : i \in 1 .. Len(sent)} \cup {next}
        BY <3>1
    <3>5. {sent'[i] : i \in 1 .. Len(sent')} =
              (0 .. next' - 1) \ EmptySegments
      <4>1. 0 .. next' - 1 = (0 .. next - 1) \cup {next}
          BY <1>1
      <4>2. {sent[i] : i \in 1 .. Len(sent)} = (0 .. next - 1) \ EmptySegments
          BY <2>1, <3>1
      <4>3. next \notin EmptySegments
          BY <2>2
      <4>4. \A A, B, E : \A x : x \notin E /\ A = B \ E =>
                A \cup {x} = (B \cup {x}) \ E
          OBVIOUS
      <4>5. {sent[i] : i \in 1 .. Len(sent)} \cup {next} =
                ((0 .. next - 1) \cup {next}) \ EmptySegments
          BY Zenon, <4>2, <4>3, <4>4
      <4> QED
          BY <3>4, <4>1, <4>5
    <3>6. next' \in 0 .. next'
        BY <1>1
    <3> QED
        BY <3>3, <3>5, <3>6 DEF SentWithoutGap
  <2>3. CASE next \in EmptySegments /\ ~closed
    <3>1. sent' = sent /\ last = next
        BY <1>1, <2>1, <2>3
    <3>2. {sent'[i] : i \in 1 .. Len(sent')} =
              (0 .. next' - 1) \ EmptySegments
      <4>1. 0 .. next' - 1 = (0 .. next - 1) \cup {next}
          BY <1>1
      <4> QED
          BY <4>1, <3>1, <2>1, <2>3
    <3>3. \A i, j \in 1 .. Len(sent') : i < j => sent'[i] < sent'[j]
        BY <3>1 DEF IInv, SentWithoutGap
    <3>4. next' \in 0 .. next'
        BY <1>1
    <3> QED
        BY <3>2, <3>3, <3>4 DEF SentWithoutGap
  <2>4. CASE closed
    <3>1. sent' = sent /\ closed' /\ last \in 0 .. next'
        BY <1>1, <2>4
    <3> QED
        BY <3>1, <2>1 DEF IInv, SentWithoutGap
  <2> QED
      BY <2>2, <2>3, <2>4
<1>6. NothingHeldBack'
    BY <1>1 DEF IInv, TypeOK, NothingHeldBack
<1>7. PlaylistIsRecent'
  <2> DEFINE longer == Append(playlist, next)
  <2>1. /\ playlist \in Seq(Nat)
        /\ longer \in Seq(Nat)
        /\ Len(longer) = Len(playlist) + 1
        /\ \A i \in 1 .. Len(longer) :
               longer[i] = next' - Len(longer) + i - 1
    <3>1. playlist \in Seq(Nat) /\ next \in Nat /\ next' = next + 1
        BY <1>1 DEF IInv, TypeOK
    <3>2. \A i \in 1 .. Len(playlist) :
              playlist[i] = next - Len(playlist) + i - 1
        BY DEF IInv, PlaylistIsRecent
    <3>3. /\ longer \in Seq(Nat)
          /\ Len(longer) = Len(playlist) + 1
          /\ longer[Len(playlist) + 1] = next
          /\ \A i \in 1 .. Len(playlist) : longer[i] = playlist[i]
        BY <3>1
    <3> HIDE DEF longer
    <3>4. SUFFICES ASSUME NEW i \in 1 .. Len(longer)
                   PROVE  longer[i] = next' - Len(longer) + i - 1
        BY <3>1, <3>3
    <3>5. CASE i = Len(playlist) + 1
        BY <3>1, <3>3, <3>5
    <3>6. CASE i \in 1 .. Len(playlist)
      <4>1. longer[i] = next - Len(playlist) + i - 1
          BY <3>2, <3>3, <3>6
      <4> QED
          BY <4>1, <3>1, <3>3
    <3> QED
        BY <3>1, <3>3, <3>5, <3>6
  <2>2. Len(playlist) = IF next < PlaylistSize THEN next ELSE PlaylistSize
      BY DEF IInv, PlaylistIsRecent
  <2> HIDE DEF longer
  <2>3. CASE Len(playlist) + 1 > PlaylistSize
    <3>1. playlist' = Tail(longer)
        BY <1>1, <2>3 DEF AddToPlaylist, longer
    <3>2. /\ Len(playlist') = Len(longer) - 1
          /\ \A i \in 1 .. Len(playlist') : playlist'[i] = longer[i + 1]
        BY <3>1, <2>1
    <3>3. /\ Len(playlist') = PlaylistSize
          /\ Len(longer) = PlaylistSize + 1
          /\ next >= PlaylistSize
        BY <1>1, <2>1, <2>2, <2>3, <3>2
    <3>4. Len(playlist') = IF next' < PlaylistSize THEN next' ELSE PlaylistSize
        BY <1>1, <3>3
    <3>5. \A i \in 1 .. Len(playlist') :
              playlist'[i] = next' - Len(playlist') + i - 1
        BY <1>1, <2>1, <3>2, <3>3
    <3> QED
        BY <3>4, <3>5 DEF PlaylistIsRecent
  <2>4. CASE ~(Len(playlist) + 1 > PlaylistSize)
    <3>1. playlist' = longer
        BY <1>1, <2>4 DEF AddToPlaylist, longer
    <3> QED
        BY <1>1, <2>1, <2>2, <2>4, <3>1 DEF PlaylistIsRecent
  <2> QED
      BY <2>3, <2>4
<1> QED
    BY <1>4, <1>5, <1>6, <1>7 DEF IInv

(* Every step keeps the inductive invariant.                               *)
LEMMA NextKeeps == IInv /\ [Next]_vars => IInv'
<1> SUFFICES ASSUME IInv, [Next]_vars
             PROVE  IInv'
    OBVIOUS
<1>1. CASE FFmpegWrites
    BY <1>1, FFmpegWritesKeeps
<1>2. CASE FFmpegEnds
    BY <1>2, FFmpegEndsKeeps
<1>3. CASE HandlerReads
    BY <1>3, FailureKeeps, HandleTSKeeps, HandleM3U8Keeps DEF HandlerReads
<1>4. CASE SendFragment
    BY <1>4, SendFragmentKeeps
<1>5. CASE UNCHANGED vars
  <2> USE <1>5 DEF vars, countVars, outVars, ffmpegVars
  <2>1. TypeOK'
      BY DEF IInv, TypeOK
  <2>2. SentWithoutGap'
      BY DEF IInv, SentWithoutGap
  <2>3. NothingHeldBack'
      BY DEF IInv, NothingHeldBack
  <2>4. PlaylistIsRecent'
      BY DEF IInv, PlaylistIsRecent
  <2> QED
      BY <2>1, <2>2, <2>3, <2>4 DEF IInv
<1> QED
    BY <1>1, <1>2, <1>3, <1>4, <1>5 DEF Next

-----------------------------------------------------------------------------
(* The invariant from which the others follow.                             *)
THEOREM Inductive == Spec => []IInv
<1> QED
    BY InitHolds, NextKeeps, PTL DEF Spec

(* Types, and the bounds of the maps by what FFmpeg has written.           *)
THEOREM TypeCorrect == Spec => []TypeOK
<1>1. IInv => TypeOK
    BY DEF IInv
<1> QED
    BY <1>1, Inductive, PTL

(* What is handed over is a gapless start of the stream, in order, however *)
(* uploads and playlists come in.                                          *)
THEOREM SentWithoutGapHolds == Spec => []SentWithoutGap
<1>1. IInv => SentWithoutGap
    BY DEF IInv
<1> QED
    BY <1>1, Inductive, PTL

(* No complete fragment waits, and no finished one is kept.                *)
THEOREM NothingHeldBackHolds == Spec => []NothingHeldBack
<1>1. IInv => NothingHeldBack
    BY DEF IInv
<1> QED
    BY <1>1, Inductive, PTL

(* The live playlist is the end of the stream so far.                      *)
THEOREM PlaylistIsRecentHolds == Spec => []PlaylistIsRecent
<1>1. IInv => PlaylistIsRecent
    BY DEF IInv
<1> QED
    BY <1>1, Inductive, PTL

-----------------------------------------------------------------------------
(* The tester implements FragmentDelivery.                                 *)

(* The initial states of the tester are initial states of the delivery.    *)
LEMMA InitDelivers == Init => Delivery!Init
<1> SUFFICES ASSUME Init PROVE Delivery!Init
    OBVIOUS
<1>1. [i \in 1 .. Len(sent) |-> sent[i] + 1] = <<>>
    BY DEF Init
<1> QED
    BY <1>1 DEF Init, Delivery!Init

(* A fragment that is handed over was written, and is later than all that  *)
(* were handed over before.                                                *)
LEMMA SendFragmentDelivers ==
    ASSUME IInv, SendFragment
    PROVE  Delivery!Next \/ UNCHANGED Delivery!deliveryVars
<1> USE TesterAssumption
<1> DEFINE received == [i \in 1 .. Len(sent) |-> sent[i] + 1]
<1>1. /\ next \in Nat
      /\ next < written
      /\ written \in 0 .. MaxSegments
      /\ sent \in Seq(Nat)
      /\ UNCHANGED <<written, closed>>
    BY DEF SendFragment, IInv, TypeOK, ffmpegVars
<1>2. CASE sent' = sent
    BY <1>1, <1>2 DEF Delivery!deliveryVars
<1>3. CASE sent' # sent
  <2>1. sent' = Append(sent, next) /\ ~closed
      BY <1>3 DEF SendFragment
  <2>2. \A i \in 1 .. Len(sent) : sent[i] < next
    <3>1. PICK last \in 0 .. next :
              /\ last = next
              /\ {sent[i] : i \in 1 .. Len(sent)} =
                     (0 .. last - 1) \ EmptySegments
        BY <2>1 DEF IInv, SentWithoutGap
    <3>2. SUFFICES ASSUME NEW i \in 1 .. Len(sent) PROVE sent[i] < next
        OBVIOUS
    <3>3. sent[i] \in {sent[k] : k \in 1 .. Len(sent)}
        OBVIOUS
    <3>4. sent[i] \in 0 .. next - 1
        BY <3>1, <3>3
    <3> QED
        BY <3>4, <1>1
  <2>3. received' = Append(received, next + 1)
    <3>1. /\ Len(sent') = Len(sent) + 1
          /\ Len(sent) \in Nat
          /\ sent'[Len(sent) + 1] = next
          /\ \A i \in 1 .. Len(sent) : sent'[i] = sent[i]
        BY <1>1, <2>1
    <3>2. /\ received \in Seq(Nat)
          /\ Len(received) = Len(sent)
          /\ received' \in Seq(Nat)
          /\ Len(received') = Len(sent) + 1
      <4>1. sent' \in Seq(Nat)
          BY <1>1, <2>1
      <4> QED
          BY <1>1, <3>1, <4>1
    <3>3. \A i \in 1 .. Len(sent) : received'[i] = received[i]
        BY <3>1
    <3>4. received'[Len(sent) + 1] = next + 1
        BY <3>1
    <3> HIDE DEF received
    <3>5. \A s, t \in Seq(Nat), e \in Nat :
              /\ Len(t) = Len(s) + 1
              /\ t[Len(s) + 1] = e
              /\ \A i \in 1 .. Len(s) : t[i] = s[i]
              => t = Append(s, e)
        OBVIOUS
    <3>6. next + 1 \in Nat
        BY <1>1
    <3>7. /\ Len(received') = Len(received) + 1
          /\ received'[Len(received) + 1] = next + 1
          /\ \A i \in 1 .. Len(received) : received'[i] = received[i]
        BY <3>2, <3>3, <3>4
    <3> QED
        BY Zenon, <3>2, <3>5, <3>6, <3>7
  <2>4. \A i \in 1 .. Len(received) : received[i] < next + 1
      BY <1>1, <2>2
  <2>5. PICK f \in Delivery!Message : f = next + 1
      BY <1>1 DEF Delivery!Message, Delivery!CLOSE
  <2>6. Delivery!Deliver("library", f)
    <3>1. f \in 1 .. written
        BY <1>1, <2>5
    <3> QED
        BY <1>1, <2>3, <2>4, <2>5, <3>1
           DEF Delivery!Deliver, Delivery!Follows
  <2>7. \E l \in {"library"}, m \in Delivery!Message : Delivery!Deliver(l, m)
      BY <2>6
  <2> QED
      BY <2>7 DEF Delivery!Next
<1> QED
    BY <1>2, <1>3

(* Every step of the tester is a step of the delivery, or none.            *)
LEMMA NextDelivers ==
    IInv /\ [Next]_vars => [Delivery!Next]_(Delivery!deliveryVars)
<1> SUFFICES ASSUME IInv, [Next]_vars
             PROVE  Delivery!Next \/ UNCHANGED Delivery!deliveryVars
    OBVIOUS
<1>1. CASE FFmpegWrites
  <2>1. Delivery!Publish
      BY <1>1 DEF FFmpegWrites, Delivery!Publish, outVars
  <2> QED
      BY <2>1 DEF Delivery!Next
<1>2. CASE FFmpegEnds
  <2>1. Delivery!End
      BY <1>2 DEF FFmpegEnds, Delivery!End, outVars, ffmpegVars
  <2> QED
      BY <2>1 DEF Delivery!Next
<1>3. CASE HandlerReads
    BY <1>3 DEF HandlerReads, HandleRequestHLS_TS, UploadFails,
       HandleRequestHLS_M3U8, PlaylistFails, Delivery!deliveryVars, outVars
<1>4. CASE SendFragment
    BY <1>4, SendFragmentDelivers
<1>5. CASE UNCHANGED vars
    BY <1>5 DEF vars, outVars, ffmpegVars, Delivery!deliveryVars
<1> QED
    BY <1>1, <1>2, <1>3, <1>4, <1>5 DEF Next

(* TesterPublisher implements FragmentDelivery: whatever the order of the  *)
(* requests, the publisher library is handed the segments of FFmpeg in     *)
(* their order, each at most once, and none after Close().                 *)
THEOREM DeliveryHolds == Spec => ImplementsDelivery
<1> QED
    BY InitDelivers, NextDelivers, Inductive, PTL
    DEF Spec, ImplementsDelivery, Delivery!Spec
=============================================================================
