-------------------------- MODULE FragmentDelivery --------------------------
(***************************************************************************)
(* What the CDN promises a spectator of one source                         *)
(* (documentation/websocket-protocol.md, "Pull protocol"): fragments of    *)
(* the stream, each at most once and in the order they were published,     *)
(* possibly with gaps, then at most one CLOSE, sent only once the source   *)
(* ends, and nothing after it.                                             *)
(*                                                                         *)
(* A fragment is the number of its publication.  CLOSE is numbered after   *)
(* every fragment, so that one order covers both kinds of message.         *)
(***************************************************************************)
EXTENDS Integers, Sequences

CONSTANTS Spectators,   \* the connections that pull the stream
          MaxFragments  \* bound: fragments the publisher ever sends

VARIABLES published,    \* how many fragments the source has accepted
          ended,        \* the source takes no more fragments
          received      \* what was written to each spectator, in order

deliveryVars == <<published, ended, received>>

CLOSE == MaxFragments + 1
Message == 1 .. CLOSE

(* m may follow the messages of s: it is later than all of them.           *)
Follows(m, s) == \A i \in 1 .. Len(s) : s[i] < m

Init ==
    /\ published = 0
    /\ ended = FALSE
    /\ received = [l \in Spectators |-> <<>>]

Publish ==
    /\ ~ended
    /\ published < MaxFragments
    /\ published' = published + 1
    /\ UNCHANGED <<ended, received>>

End ==
    /\ ~ended
    /\ ended' = TRUE
    /\ UNCHANGED <<published, received>>

Deliver(l, m) ==
    /\ m \in 1 .. published \/ (m = CLOSE /\ ended)
    /\ Follows(m, received[l])
    /\ received' = [received EXCEPT ![l] = Append(@, m)]
    /\ UNCHANGED <<published, ended>>

Next ==
    \/ Publish
    \/ End
    \/ \E l \in Spectators, m \in Message : Deliver(l, m)

Spec == Init /\ [][Next]_deliveryVars
=============================================================================
