--------------------------- MODULE StreamOwnership ---------------------------
(***************************************************************************)
(* What the registry of one server promises its publishers and spectators  *)
(* (documentation/websocket-protocol.md): a stream has one owner at most.  *)
(* A publisher takes a stream at once, from whoever has it; who lost it is *)
(* never its owner again, and ends.  Who ended publishes nothing more.  A  *)
(* spectator that starts to pull is given the owner of the stream, or one  *)
(* that has ended, or a relay: never one that was displaced and goes on.   *)
(***************************************************************************)
EXTENDS Integers

CONSTANTS Conns,    \* connections of publishers and spectators
          Streams,  \* stream ids
          Relay,    \* a source that is not of this server
          None      \* nobody

VARIABLES owner,      \* who publishes each stream
          standing,   \* of each connection as a publisher
          published,  \* fragments published by each connection
          given       \* the source that each spectator pulls from

ownershipVars == <<owner, standing, published, given>>

Init ==
    /\ owner = [s \in Streams |-> None]
    /\ standing = [p \in Conns |-> "none"]
    /\ published = [p \in Conns |-> 0]
    /\ given = [c \in Conns |-> None]

Publishing(p) == standing[p] \in {"owner", "displaced"}

Take(p, s) ==
    /\ standing[p] = "none"
    /\ owner' = [owner EXCEPT ![s] = p]
    /\ standing' = [q \in Conns |-> IF q = p THEN "owner"
                                    ELSE IF q = owner[s] THEN "displaced"
                                    ELSE standing[q]]
    /\ UNCHANGED <<published, given>>

Publish(p) ==
    /\ Publishing(p)
    /\ published' = [published EXCEPT ![p] = @ + 1]
    /\ UNCHANGED <<owner, standing, given>>

End(p) ==
    /\ Publishing(p)
    /\ owner' = [s \in Streams |-> IF owner[s] = p THEN None ELSE owner[s]]
    /\ standing' = [standing EXCEPT ![p] = "ended"]
    /\ UNCHANGED <<published, given>>

Give(c, x) ==
    /\ x = Relay \/ standing[x] \in {"owner", "ended"}
    /\ given[c] = None
    /\ given' = [given EXCEPT ![c] = x]
    /\ UNCHANGED <<owner, standing, published>>

Next ==
    \/ \E p \in Conns : Publish(p) \/ End(p) \/ \E s \in Streams : Take(p, s)
    \/ \E c \in Conns, x \in Conns \cup {Relay} : Give(c, x)

Spec == Init /\ [][Next]_ownershipVars
=============================================================================
