--------------------------- MODULE TesterPublisher ---------------------------
(***************************************************************************)
(* The publisher of the tester (tester/publisher.go, tester/hls.go): an    *)
(* HTTP server on the loopback interface takes the segments and playlists  *)
(* of FFmpeg, and hands the fragments over to the publisher library in the *)
(* order of the stream.                                                    *)
(*                                                                         *)
(* Every request has a handler goroutine, which reads the body and then    *)
(* works under the lock mu: requests on the way are handled in any order.  *)
(* Requests that are refused before the body is read (the method, the      *)
(* path, the name of the file) change nothing and are no steps.            *)
(*                                                                         *)
(* A segment is its index.  FFmpeg is external: it is what the arguments   *)
(* of the command (publisher.go, lines 290-305) make of it.                *)
(***************************************************************************)
EXTENDS Integers, Sequences

CONSTANTS
    MaxSegments,    \* bound: segments that FFmpeg writes
    EmptySegments,  \* segments without data
    PlaylistSize    \* HLS_LIVE_PLAYLIST_SIZE

ASSUME TesterAssumption ==
    /\ MaxSegments \in Nat
    /\ EmptySegments \subseteq Nat
    /\ PlaylistSize \in Nat \ {0}

VARIABLES
    fragmentCount,   \* fragments that are complete, as counted
    fragments,       \* listed and not counted: keys of server.fragments
    fragmentsReady,  \* uploaded and not counted: keys of fragmentsReady
    fragmentsData,   \* keys of fragmentsData
    next,            \* the loop over the new fragments is at this one
    playlist,        \* indices of the live playlist
    sent,            \* fragments handed over to the publisher library
    closed,          \* publishStream is over, and has closed the library
    written,         \* segments written by FFmpeg
    uploads,         \* segments on the way
    lists,           \* playlists on the way, by the segments written then
    failedUploads,   \* history: segments that could not be read
    failedLists      \* history: playlists that could not be read

countVars == <<fragmentCount, fragments, fragmentsReady>>
outVars == <<fragmentsData, next, playlist, sent>>
ffmpegVars == <<written, uploads, lists, failedUploads, failedLists>>
vars == <<countVars, outVars, closed, ffmpegVars>>

Segments == 0 .. MaxSegments - 1

Init ==
    /\ fragmentCount = 0
    /\ fragments = {}
    /\ fragmentsReady = {}
    /\ fragmentsData = {}
    /\ next = 0
    /\ playlist = <<>>
    /\ sent = <<>>
    /\ closed = FALSE
    /\ written = 0
    /\ uploads = {}
    /\ lists = {}
    /\ failedUploads = {}
    /\ failedLists = {}

-----------------------------------------------------------------------------
(* FFmpeg.                                                                 *)

(* The playlist written after n segments: the latest of them.              *)
MediaSequence(n) == IF n > PlaylistSize THEN n - PlaylistSize ELSE 0
Length(n) == n - MediaSequence(n)

(* A segment is uploaded, and then the playlist that lists it.             *)
FFmpegWrites ==
    /\ ~closed
    /\ written < MaxSegments
    /\ written' = written + 1
    /\ uploads' = uploads \cup {written}
    /\ lists' = lists \cup {written + 1}
    /\ UNCHANGED <<countVars, outVars, closed, failedUploads, failedLists>>

(* FFmpeg ends, and publishStream with it: Close() of the library.  The    *)
(* handlers of requests that are on the way go on.                         *)
FFmpegEnds ==
    /\ ~closed
    /\ closed' = TRUE
    /\ UNCHANGED <<countVars, outVars, ffmpegVars>>

-----------------------------------------------------------------------------
(* The handlers.                                                           *)

(* Nobody is inside the loop that hands the new fragments over.            *)
Free == next = fragmentCount

(* The count of updateHLSInternal stops at the first fragment from n on    *)
(* that is not in the set complete.                                        *)
CountFrom(n, complete) ==
    CHOOSE m \in n .. MaxSegments :
        m \notin complete /\ \A i \in n .. m - 1 : i \in complete

(* updateHLSInternal up to its loop, after a handler has changed the maps: *)
(* fragments that are both listed and uploaded, without a gap, are new.    *)
UpdateHLS(listed, uploaded) ==
    LET count == CountFrom(fragmentCount, listed \cap uploaded)
    IN  /\ fragmentCount' = count
        /\ fragments' = listed \ (fragmentCount .. count - 1)
        /\ fragmentsReady' = uploaded \ (fragmentCount .. count - 1)

(* Mutant: only a playlist makes the tester look for new fragments.        *)
OnFragmentReadyWaits(i) ==
    /\ IF i < fragmentCount
       THEN UNCHANGED <<fragmentsReady, fragmentsData>>
       ELSE /\ fragmentsData' = fragmentsData \cup {i}
            /\ fragmentsReady' = fragmentsReady \cup {i}
    /\ UNCHANGED <<fragmentCount, fragments>>

OnFragmentReady(i) ==
    IF i < fragmentCount
    THEN UNCHANGED <<countVars, fragmentsData>>
    ELSE /\ fragmentsData' = fragmentsData \cup {i}
         /\ UpdateHLS(fragments, fragmentsReady \cup {i})

HandleRequestHLS_TS(i) ==
    /\ i \in uploads
    /\ Free
    /\ uploads' = uploads \ {i}
    /\ OnFragmentReady(i)
    /\ UNCHANGED <<next, playlist, sent, closed, written, lists,
                   failedUploads, failedLists>>

(* The body cannot be read: the answer is 400, and FFmpeg does not repeat. *)
UploadFails(i) ==
    /\ i \in uploads
    /\ uploads' = uploads \ {i}
    /\ failedUploads' = failedUploads \cup {i}
    /\ UNCHANGED <<countVars, outVars, closed, written, lists, failedLists>>

(* The indices that DecodeHLSPlayList gives to the entries.                *)
DecodeHLSPlayList(n) == {i + MediaSequence(n) : i \in 0 .. Length(n) - 1}

(* Mutant: entries that are complete already are listed again.             *)
ListedAll(n) == fragments \cup DecodeHLSPlayList(n)

Listed(n) ==
    fragments \cup {i \in DecodeHLSPlayList(n) : i >= fragmentCount}

HandleRequestHLS_M3U8(n) ==
    /\ n \in lists
    /\ Free
    /\ lists' = lists \ {n}
    /\ UpdateHLS(Listed(n), fragmentsReady)
    /\ UNCHANGED <<outVars, closed, written, uploads, failedUploads,
                   failedLists>>

PlaylistFails(n) ==
    /\ n \in lists
    /\ lists' = lists \ {n}
    /\ failedLists' = failedLists \cup {n}
    /\ UNCHANGED <<countVars, outVars, closed, written, uploads,
                   failedUploads>>

(* Mutant: the live playlist grows by one entry too many.                  *)
AddToPlaylistOneMore(i) ==
    IF Len(playlist) > PlaylistSize
    THEN Append(Tail(playlist), i)
    ELSE Append(playlist, i)

(* The live playlist with i: its first entry makes room.                   *)
AddToPlaylist(i) ==
    IF Len(playlist) + 1 > PlaylistSize
    THEN Tail(Append(playlist, i))
    ELSE Append(playlist, i)

(* Mutant: a fragment without data is handed over too.                     *)
SendFragmentEvenEmpty ==
    /\ next < fragmentCount
    /\ fragmentsData' = fragmentsData \ {next}
    /\ sent' = IF next \in fragmentsData /\ ~closed
               THEN Append(sent, next)
               ELSE sent
    /\ playlist' = AddToPlaylist(next)
    /\ next' = next + 1
    /\ UNCHANGED <<countVars, closed, ffmpegVars>>

(* One round of the loop: the fragment goes to the library, which takes    *)
(* nothing once it is closed, and to the live playlist.                    *)
SendFragment ==
    /\ next < fragmentCount
    /\ fragmentsData' = fragmentsData \ {next}
    /\ sent' = IF next \in fragmentsData \ EmptySegments /\ ~closed
               THEN Append(sent, next)
               ELSE sent
    /\ playlist' = AddToPlaylist(next)
    /\ next' = next + 1
    /\ UNCHANGED <<countVars, closed, ffmpegVars>>

-----------------------------------------------------------------------------
HandlerReads ==
    \/ \E i \in Segments : HandleRequestHLS_TS(i) \/ UploadFails(i)
    \/ \E n \in 1 .. MaxSegments : HandleRequestHLS_M3U8(n) \/ PlaylistFails(n)

Next == FFmpegWrites \/ FFmpegEnds \/ HandlerReads \/ SendFragment

(* FFmpeg repeats the video for ever (-stream_loop -1), every request is   *)
(* answered, and a handler that holds the lock goes on.                    *)
Fairness ==
    /\ WF_vars(FFmpegWrites)
    /\ \A i \in Segments : SF_vars(HandleRequestHLS_TS(i) \/ UploadFails(i))
    /\ \A n \in 1 .. MaxSegments :
           SF_vars(HandleRequestHLS_M3U8(n) \/ PlaylistFails(n))
    /\ WF_vars(SendFragment)

Spec == Init /\ [][Next]_vars
FairSpec == Spec /\ Fairness

-----------------------------------------------------------------------------
(* Properties.                                                             *)

(* Every variable keeps to its type, and the maps to what FFmpeg wrote.    *)
TypeOK ==
    /\ written \in 0 .. MaxSegments
    /\ fragmentCount \in 0 .. written
    /\ next \in 0 .. fragmentCount
    /\ fragments \subseteq 0 .. written - 1
    /\ fragmentsReady \subseteq 0 .. written - 1
    /\ fragmentsData \subseteq 0 .. written - 1
    /\ playlist \in Seq(Nat)
    /\ sent \in Seq(Nat)
    /\ closed \in BOOLEAN
    /\ uploads \subseteq 0 .. written - 1
    /\ lists \subseteq 1 .. written
    /\ failedUploads \subseteq 0 .. written - 1
    /\ failedLists \subseteq 1 .. written

(* What is handed over is the stream from its start on, in order, without  *)
(* a gap and without repetition but for the segments without data, in      *)
(* whatever order the uploads and the playlists come in; Close() ends it.  *)
SentWithoutGap ==
    /\ \A i, j \in 1 .. Len(sent) : i < j => sent[i] < sent[j]
    /\ \E last \in 0 .. next :
           /\ ~closed => last = next
           /\ {sent[i] : i \in 1 .. Len(sent)} =
                  (0 .. last - 1) \ EmptySegments

(* The tester never sits on a fragment that it could hand over, and keeps  *)
(* nothing of a fragment it is done with: the maps hold only what is not   *)
(* counted, data for what is uploaded, and the next fragment is missing    *)
(* from one of them.                                                       *)
NothingHeldBack ==
    /\ fragmentCount \notin fragments \cap fragmentsReady
    /\ \A i \in fragments \cup fragmentsReady : i >= fragmentCount
    /\ fragmentsData = fragmentsReady \cup (next .. fragmentCount - 1)

(* The live playlist is the end of what was handed over or was empty.      *)
PlaylistIsRecent ==
    /\ Len(playlist) = IF next < PlaylistSize THEN next ELSE PlaylistSize
    /\ \A i \in 1 .. Len(playlist) :
           playlist[i] = next - Len(playlist) + i - 1

(* Segment i can not get through: its upload failed, or every playlist     *)
(* that lists it did.                                                      *)
Missed(i) ==
    \/ i \in failedUploads
    \/ {n \in 1 .. MaxSegments : i \in DecodeHLSPlayList(n)}
           \subseteq failedLists

(* A segment is handed over, or dropped for want of data, unless it or one *)
(* before it is missed: a playlist that cannot be read is made up for by a *)
(* later one as long as that lists the segment, and nothing but a missed   *)
(* segment stops the stream (which then stops for good).                   *)
EverythingIsSent ==
    \A i \in Segments :
        [](\A j \in 0 .. i : ~Missed(j)) =>
            (i < written ~> next > i \/ closed)

(* What the tester hands over is the stream that FFmpeg writes, in the     *)
(* order it writes it, until Close(): the promise of a source to a         *)
(* spectator, here to the library, which numbers segments from 1.          *)
Delivery == INSTANCE FragmentDelivery WITH
    Spectators <- {"library"},
    MaxFragments <- MaxSegments,
    published <- written,
    ended <- closed,
    received <- [l \in {"library"} |-> [i \in 1 .. Len(sent) |-> sent[i] + 1]]

ImplementsDelivery == Delivery!Spec

IInv == TypeOK /\ SentWithoutGap /\ NothingHeldBack /\ PlaylistIsRecent
=============================================================================
