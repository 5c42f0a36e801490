---------------------------- MODULE MemoryLimiter ----------------------------
(***************************************************************************)
(* The FragmentBufferMemoryLimiter (server/memory_limiter.go) and the      *)
(* streams that share it: sources (server/source.go) and relays            *)
(* (server/relay.go), each of which calls it under its own lock, from      *)
(* AddFragment, before it changes its fragment buffer.                     *)
(*                                                                         *)
(* A fragment is its size in bytes; the empty ones, which the limiter lets *)
(* pass, are refused before AddFragment (connection.go, lines 235-238, and *)
(* relay.go, lines 472-475).  The limiter is enabled.  Each iteration of   *)
(* its loops is a step; ml.mu is held while it evicts (checking).          *)
(***************************************************************************)
EXTENDS Integers, Sequences, Functions

CONSTANTS
    Sources,                  \* streams pushed to this server
    Relays,                   \* streams relayed from another one
    NoOne,                    \* no stream holds ml.mu
    Limit,                    \* config: the limit, in bytes
    Sizes,                    \* sizes of fragments
    FragmentBufferMaxLength,  \* config: length of a fragment buffer
    MaxFragments              \* bound: fragments added to each stream

Streams == Sources \cup Relays

ASSUME LimiterAssumption ==
    /\ Limit \in Nat
    /\ Sizes \subseteq Nat \ {0}
    /\ FragmentBufferMaxLength \in Nat \ {0}
    /\ MaxFragments \in Nat
    /\ NoOne \notin Streams

VARIABLES
    usage,       \* ml.usage
    buffer,      \* fragmentBuffer of each stream
    state,       \* of each stream: open, closed, released
    added,       \* fragments it has been given so far
    checking,    \* the stream that holds ml.mu, or NoOne
    fragment,    \* the fragment it adds
    removed,     \* fragmentsToRemove
    counted,     \* fragments of its buffer that OnBufferRelease has added up
    total        \* their size

checkVars == <<checking, fragment, removed>>
releaseVars == <<counted, total>>
vars == <<usage, buffer, state, added, checkVars, releaseVars>>

Init ==
    /\ usage = 0
    /\ buffer = [s \in Streams |-> <<>>]
    /\ state = [s \in Streams |-> "open"]
    /\ added = [s \in Streams |-> 0]
    /\ checking = NoOne
    /\ fragment = 0
    /\ removed = 0
    /\ counted = [s \in Relays |-> 0]
    /\ total = [s \in Relays |-> 0]

-----------------------------------------------------------------------------
(* AddFragment of a stream, and CheckBeforeAddingFragment in it.           *)

CheckBegin(s, size) ==
    /\ checking = NoOne
    /\ state[s] = "open"
    /\ added[s] < MaxFragments
    /\ added' = [added EXCEPT ![s] = @ + 1]
    /\ checking' = s
    /\ fragment' = size
    /\ removed' = 0
    /\ UNCHANGED <<usage, buffer, state, releaseVars>>

(* Mutant: the fragment is compared with the limit by itself.              *)
FitsAlone == fragment <= Limit

Fits == usage + fragment <= Limit

Evict ==
    /\ checking # NoOne
    /\ ~Fits
    /\ removed < Len(buffer[checking])
    /\ usage' = usage - buffer[checking][removed + 1]
    /\ removed' = removed + 1
    /\ UNCHANGED <<buffer, state, added, checking, fragment, releaseVars>>

(* AddFragment adds the fragment to its own buffer, not to the shortened   *)
(* one that the limiter returns.                                           *)
PushFragment(b) ==
    IF Len(b) >= FragmentBufferMaxLength
    THEN Append(Tail(b), fragment)
    ELSE Append(b, fragment)

CheckEnd ==
    /\ checking' = NoOne
    /\ fragment' = 0
    /\ removed' = 0

Admit ==
    /\ checking # NoOne
    /\ Fits
    /\ usage' = usage + fragment
    /\ buffer' = [buffer EXCEPT ![checking] = PushFragment(@)]
    /\ CheckEnd
    /\ UNCHANGED <<state, added, releaseVars>>

(* What the limiter returns when it refuses the fragment.                  *)
Shortened(b) == SubSeq(b, removed + 1, Len(b))

(* Mutant: the limiter refuses without having evicted what it can.         *)
RefuseEarly ==
    /\ checking # NoOne
    /\ ~Fits
    /\ buffer' = [buffer EXCEPT ![checking] = Shortened(@)]
    /\ CheckEnd
    /\ UNCHANGED <<usage, state, added, releaseVars>>

(* The loop has gone through the buffer and there is no room yet.          *)
Refuse ==
    /\ checking # NoOne
    /\ ~Fits
    /\ removed >= Len(buffer[checking])
    /\ buffer' = [buffer EXCEPT ![checking] = Shortened(@)]
    /\ CheckEnd
    /\ UNCHANGED <<usage, state, added, releaseVars>>

-----------------------------------------------------------------------------
(* The end of a stream.                                                    *)

(* A closed source is dropped with its buffer, without a word to the       *)
(* limiter; a relay stays until its onClose.                               *)
Close(s) ==
    /\ checking # s
    /\ state[s] = "open"
    /\ IF s \in Relays
       THEN state' = [state EXCEPT ![s] = "closed"] /\ UNCHANGED buffer
       ELSE /\ state' = [state EXCEPT ![s] = "released"]
            /\ buffer' = [buffer EXCEPT ![s] = <<>>]
    /\ UNCHANGED <<usage, added, checkVars, releaseVars>>

(* OnBufferRelease adds up the buffer outside ml.mu.                       *)
ReleaseCount(s) ==
    /\ state[s] = "closed"
    /\ counted[s] < Len(buffer[s])
    /\ counted' = [counted EXCEPT ![s] = @ + 1]
    /\ total' = [total EXCEPT ![s] = @ + buffer[s][counted[s] + 1]]
    /\ UNCHANGED <<usage, buffer, state, added, checkVars>>

ReleaseEnd(s) ==
    /\ checking = NoOne
    /\ state[s] = "closed"
    /\ counted[s] = Len(buffer[s])
    /\ usage' = usage - total[s]
    /\ buffer' = [buffer EXCEPT ![s] = <<>>]
    /\ state' = [state EXCEPT ![s] = "released"]
    /\ UNCHANGED <<added, checkVars, releaseVars>>

-----------------------------------------------------------------------------
Next ==
    \/ \E s \in Streams, size \in Sizes : CheckBegin(s, size)
    \/ Evict
    \/ Admit
    \/ Refuse
    \/ \E s \in Streams : Close(s)
    \/ \E s \in Relays : ReleaseCount(s) \/ ReleaseEnd(s)

Spec == Init /\ [][Next]_vars

-----------------------------------------------------------------------------
(* Properties.                                                             *)

(* Every variable keeps to its type, and every buffer to its length.       *)
TypeOK ==
    /\ usage \in Int
    /\ buffer \in [Streams -> Seq(Sizes)]
    /\ \A s \in Streams : Len(buffer[s]) <= FragmentBufferMaxLength
    /\ state \in [Streams -> {"open", "closed", "released"}]
    /\ added \in [Streams -> 0 .. MaxFragments]
    /\ checking \in Streams \cup {NoOne}
    /\ fragment \in Sizes \cup {0}
    /\ checking # NoOne => fragment \in Sizes
    /\ removed \in Nat
    /\ counted \in [Relays -> Nat]
    /\ total \in [Relays -> Nat]

(* The usage the limiter keeps never exceeds the limit, whichever stream   *)
(* adds, evicts or releases (CheckBeforeAddingFragment compares and adds   *)
(* in one critical section, OnBufferRelease only subtracts).               *)
UsageWithinLimit == usage <= Limit

(* A refused fragment leaves its stream with an empty buffer: the limiter  *)
(* evicts all it can before it refuses.  Module HlsSource takes this for   *)
(* granted (BuffersAfter).                                                 *)
RefusedIsEmpty ==
    [][checking # NoOne /\ checking' = NoOne /\ usage' = usage
           => buffer'[checking] = <<>>]_vars

(* What the buffers hold is within the limit that the server was given     *)
(* (server/README.md, lines 134-136).                                      *)
HeldBytes == SumFunction([s \in Streams |-> SumFunction(buffer[s])])
HeldWithinLimit == HeldBytes <= Limit
=============================================================================
