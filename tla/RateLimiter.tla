----------------------------- MODULE RateLimiter -----------------------------
(***************************************************************************)
(* The request counters of the rate limiter (server/rate_limit.go), for    *)
(* the client addresses that are not on its whitelist.  CountRequest is    *)
(* one critical section of rl.mu: it may first clean up the whole map.     *)
(* (The count of connections is in module Connections.)                    *)
(*                                                                         *)
(* Time is the Unix time in seconds that CountRequest reads; it does not   *)
(* go back.                                                                *)
(***************************************************************************)
EXTENDS Integers

CONSTANTS
    IPs,                     \* client addresses
    MaxRequestsPerSecond,    \* config
    RequestBurst,            \* config
    CleanupIntervalSeconds,  \* config
    MaxTime                  \* bound: the last second

ASSUME RateLimiterAssumption ==
    /\ MaxRequestsPerSecond \in Nat \ {0}
    /\ RequestBurst \in Int
    /\ CleanupIntervalSeconds \in Int
    /\ MaxTime \in Nat

VARIABLES
    now,             \* the current second
    known,           \* keys of rl.requestCount
    count,           \* count of each entry
    timestamp,       \* timestamp of each entry
    lastCleanup,     \* rl.lastCleanup
    accepted,        \* history: requests accepted so far
    acceptedBefore   \* history: those accepted before each second

vars == <<now, known, count, timestamp, lastCleanup, accepted, acceptedBefore>>

Seconds == 0 .. MaxTime

requestLimit ==
    IF RequestBurst < MaxRequestsPerSecond THEN MaxRequestsPerSecond
                                           ELSE RequestBurst

Init ==
    /\ now = 0
    /\ known = {}
    /\ count = [ip \in IPs |-> 0]
    /\ timestamp = [ip \in IPs |-> 0]
    /\ lastCleanup = 0
    /\ accepted = [ip \in IPs |-> 0]
    /\ acceptedBefore = [ip \in IPs |-> [t \in Seconds |-> 0]]

Tick ==
    /\ now < MaxTime
    /\ now' = now + 1
    /\ acceptedBefore' = [ip \in IPs |->
                             [acceptedBefore[ip] EXCEPT ![now + 1] = accepted[ip]]]
    /\ UNCHANGED <<known, count, timestamp, lastCleanup, accepted>>

allowedRequests(ip) == MaxRequestsPerSecond * (now - timestamp[ip])

(* Mutant: one second of requests is given back, however many passed.      *)
UpdatedByOneSecond(ip) ==
    IF now > timestamp[ip] /\ count[ip] > MaxRequestsPerSecond
    THEN count[ip] - MaxRequestsPerSecond
    ELSE IF now > timestamp[ip] THEN 0 ELSE count[ip]

(* The count after Update(now).                                            *)
Updated(ip) ==
    IF allowedRequests(ip) > count[ip] THEN 0
                                       ELSE count[ip] - allowedRequests(ip)

CleanupDue == now - lastCleanup >= CleanupIntervalSeconds

(* Mutant: the cleanup drops every entry that is not at its limit.         *)
KnownAfterCleanupEager ==
    IF CleanupDue THEN {ip \in known : Updated(ip) >= requestLimit} ELSE known

(* The entries that the cleanup leaves, if there is one.                   *)
KnownAfterCleanup ==
    IF CleanupDue THEN {ip \in known : Updated(ip) > 0} ELSE known

(* The entry of ip gets the count n and the current time; a cleanup        *)
(* updates all the others.                                                 *)
SetCount(ip, n) ==
    /\ known' = KnownAfterCleanup \cup {ip}
    /\ count' = [i \in IPs |->
                    IF i = ip THEN n
                    ELSE IF CleanupDue /\ i \in known THEN Updated(i)
                    ELSE count[i]]
    /\ timestamp' = [i \in IPs |->
                        IF i = ip \/ (CleanupDue /\ i \in known)
                        THEN now ELSE timestamp[i]]
    /\ lastCleanup' = IF CleanupDue THEN now ELSE lastCleanup
    /\ UNCHANGED <<now, acceptedBefore>>

FirstRequest(ip) ==
    /\ ip \notin KnownAfterCleanup
    /\ SetCount(ip, 1)
    /\ accepted' = [accepted EXCEPT ![ip] = @ + 1]

AcceptRequest(ip) ==
    /\ ip \in KnownAfterCleanup
    /\ Updated(ip) < requestLimit
    /\ SetCount(ip, Updated(ip) + 1)
    /\ accepted' = [accepted EXCEPT ![ip] = @ + 1]

RefuseRequest(ip) ==
    /\ ip \in KnownAfterCleanup
    /\ Updated(ip) >= requestLimit
    /\ SetCount(ip, Updated(ip))
    /\ UNCHANGED accepted

CountRequest(ip) == FirstRequest(ip) \/ AcceptRequest(ip) \/ RefuseRequest(ip)

Next == Tick \/ \E ip \in IPs : CountRequest(ip)

Spec == Init /\ [][Next]_vars

-----------------------------------------------------------------------------
(* Properties.                                                             *)

(* Every variable keeps to its type, and no count exceeds the limit.       *)
TypeOK ==
    /\ now \in Seconds
    /\ known \subseteq IPs
    /\ count \in [IPs -> 0 .. requestLimit]
    /\ timestamp \in [IPs -> 0 .. now]
    /\ lastCleanup \in 0 .. now
    /\ accepted \in [IPs -> Nat]
    /\ acceptedBefore \in [IPs -> [Seconds -> Nat]]

(* Requests accepted from the beginning of second t on.                    *)
AcceptedSince(ip, t) == accepted[ip] - acceptedBefore[ip][t]

(* In no interval of time does an address get more than the burst and      *)
(* MaxRequestsPerSecond for each second that passed, whatever the cleanups *)
(* did to its counter in between (RATE_LIMIT_REQ_PER_SEC and               *)
(* RATE_LIMIT_REQ_BURST of server/README.md).                              *)
RateIsLimited ==
    \A ip \in IPs : \A t \in 0 .. now :
        AcceptedSince(ip, t) <= requestLimit + MaxRequestsPerSecond * (now - t)

(* A request is refused only to an address that did get all of that: a     *)
(* client that keeps to the rate is never told to wait, and one that is    *)
(* has only to wait (count is forgotten second by second, and at once when *)
(* more time passed than it can fill).                                     *)
RefusesOnlyExcess ==
    \A ip \in IPs :
        ip \in known /\ Updated(ip) >= requestLimit =>
            \E t \in 0 .. now :
                AcceptedSince(ip, t) >=
                    requestLimit + MaxRequestsPerSecond * (now - t)

(* Whatever Update and the cleanups put off or forget, the limiter is a    *)
(* token bucket per address: what an entry lacks to the limit once it is   *)
(* updated is in the bucket, and an address without an entry has all of    *)
(* it.                                                                     *)
tokens ==
    [ip \in IPs |->
        IF ip \in known THEN requestLimit - Updated(ip) ELSE requestLimit]

Bucket == INSTANCE TokenBucket
          WITH Rate <- MaxRequestsPerSecond, Limit <- requestLimit,
               second <- now, served <- accepted

ImplementsTokenBucket == Bucket!Spec

(* The inductive strengthening that module RateLimiterProofs uses.         *)
(* A counter bounds what was accepted since any second, and is what was    *)
(* accepted since one of them.                                             *)
CountBounds ==
    \A ip \in IPs : \A t \in 0 .. now :
        /\ AcceptedSince(ip, t) >= 0
        /\ ip \in known /\ t <= timestamp[ip] =>
               AcceptedSince(ip, t) <=
                   count[ip] + MaxRequestsPerSecond * (timestamp[ip] - t)
        /\ ip \in known /\ t > timestamp[ip] => AcceptedSince(ip, t) = 0
        /\ ip \notin known =>
               AcceptedSince(ip, t) <= MaxRequestsPerSecond * (now - t)

CountIsReached ==
    \A ip \in known :
        count[ip] > 0 =>
            \E t \in 0 .. timestamp[ip] :
                AcceptedSince(ip, t) >=
                    count[ip] + MaxRequestsPerSecond * (timestamp[ip] - t)

IInv == TypeOK /\ CountBounds /\ CountIsReached
=============================================================================
