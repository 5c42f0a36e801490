-------------------------- MODULE RateLimiterProofs --------------------------
(***************************************************************************)
(* Proofs about RateLimiter, for any addresses, limits and intervals.      *)
(***************************************************************************)
EXTENDS RateLimiter, TLAPS

(* The limit and the rate are numbers.                                     *)
LEMMA Constants ==
    /\ MaxRequestsPerSecond \in Nat
    /\ MaxRequestsPerSecond >= 1
    /\ requestLimit \in Nat
    /\ requestLimit >= MaxRequestsPerSecond
    /\ MaxTime \in Nat
    /\ CleanupIntervalSeconds \in Int
  BY RateLimiterAssumption DEF requestLimit

(* What the rate allows between two seconds.                               *)
LEMMA Interval ==
    ASSUME NEW a \in Int, NEW c \in Int
    PROVE  /\ MaxRequestsPerSecond * (c - a) \in Int
           /\ a <= c => MaxRequestsPerSecond * (c - a) \in Nat
           /\ a = c => MaxRequestsPerSecond * (c - a) = 0
  BY Constants

(* Two intervals that meet.                                                *)
LEMMA Intervals ==
    ASSUME NEW a \in Int, NEW b \in Int, NEW c \in Int
    PROVE  MaxRequestsPerSecond * (b - a) + MaxRequestsPerSecond * (c - b)
                = MaxRequestsPerSecond * (c - a)
  BY Constants

(* A second more allows more.                                              *)
LEMMA NextSecond ==
    ASSUME NEW n \in Int, NEW t \in Int
    PROVE  /\ MaxRequestsPerSecond * (n + 1 - t) \in Int
           /\ MaxRequestsPerSecond * (n - t) <= MaxRequestsPerSecond * (n + 1 - t)
  <1>1. MaxRequestsPerSecond * (n + 1 - t)
            = MaxRequestsPerSecond * (n - t) + MaxRequestsPerSecond
    BY Constants
  <1>2. MaxRequestsPerSecond * (n - t) \in Int
    BY Constants
  <1> QED
    BY <1>1, <1>2, Constants

(* What Update makes of a counter.                                         *)
LEMMA UpdatedFacts ==
    ASSUME TypeOK, NEW ip \in IPs
    PROVE  /\ Updated(ip) \in 0 .. requestLimit
           /\ allowedRequests(ip) \in Nat
           /\ Updated(ip) >= count[ip] - allowedRequests(ip)
           /\ Updated(ip) > 0 => Updated(ip) = count[ip] - allowedRequests(ip)
           /\ Updated(ip) <= count[ip]
  <1>1. /\ now \in Int
        /\ timestamp[ip] \in Int
        /\ timestamp[ip] <= now
        /\ count[ip] \in 0 .. requestLimit
    BY Constants DEF TypeOK, Seconds
  <1>2. allowedRequests(ip) \in Nat
    BY <1>1, Interval DEF allowedRequests
  <1>3. requestLimit \in Nat
    BY Constants
  <1>4. CASE allowedRequests(ip) > count[ip]
    <2>1. Updated(ip) = 0
      BY <1>4 DEF Updated
    <2> QED
      BY <1>1, <1>2, <1>3, <1>4, <2>1
  <1>5. CASE ~(allowedRequests(ip) > count[ip])
    <2>1. Updated(ip) = count[ip] - allowedRequests(ip)
      BY <1>5 DEF Updated
    <2> QED
      BY <1>1, <1>2, <1>3, <1>5, <2>1
  <1> QED
    BY <1>4, <1>5

(* Every step keeps the types.                                             *)
LEMMA NextType == TypeOK /\ [Next]_vars => TypeOK'
  <1> SUFFICES ASSUME TypeOK, [Next]_vars PROVE TypeOK'
    OBVIOUS
  <1>1. CASE UNCHANGED vars
    BY <1>1 DEF vars, TypeOK
  <1>2. CASE Tick
    <2>1. now + 1 \in Seconds
      BY <1>2, Constants DEF Tick, TypeOK, Seconds
    <2>2. acceptedBefore' \in [IPs -> [Seconds -> Nat]]
      BY <1>2, <2>1 DEF Tick, TypeOK
    <2>3. timestamp' \in [IPs -> 0 .. now'] /\ lastCleanup' \in 0 .. now'
      BY <1>2, Constants DEF Tick, TypeOK, Seconds
    <2> QED
      BY <1>2, <2>1, <2>2, <2>3 DEF Tick, TypeOK
  <1>3. ASSUME NEW ip \in IPs, NEW n \in 0 .. requestLimit, SetCount(ip, n),
               accepted' \in [IPs -> Nat]
        PROVE  TypeOK'
    <2>1. count' \in [IPs -> 0 .. requestLimit]
      BY <1>3, UpdatedFacts DEF SetCount, TypeOK
    <2>2. now \in 0 .. now
      BY Constants DEF TypeOK, Seconds
    <2>3. timestamp' \in [IPs -> 0 .. now'] /\ lastCleanup' \in 0 .. now'
      BY <1>3, <2>2 DEF SetCount, TypeOK
    <2>4. known' \subseteq IPs
      BY <1>3 DEF SetCount, KnownAfterCleanup, TypeOK
    <2> QED
      BY <1>3, <2>1, <2>3, <2>4 DEF SetCount, TypeOK
  <1>4. ASSUME NEW ip \in IPs, CountRequest(ip) PROVE TypeOK'
    <2>1. CASE FirstRequest(ip)
      <3>1. 1 \in 0 .. requestLimit
        BY Constants
      <3>2. accepted' \in [IPs -> Nat]
        BY <2>1 DEF FirstRequest, TypeOK
      <3> QED
        BY <1>3, <2>1, <3>1, <3>2 DEF FirstRequest
    <2>2. CASE AcceptRequest(ip)
      <3>1. Updated(ip) + 1 \in 0 .. requestLimit
        BY <2>2, UpdatedFacts, Constants DEF AcceptRequest
      <3>2. accepted' \in [IPs -> Nat]
        BY <2>2 DEF AcceptRequest, TypeOK
      <3> QED
        BY <1>3, <2>2, <3>1, <3>2 DEF AcceptRequest
    <2>3. CASE RefuseRequest(ip)
      BY <1>3, <2>3, UpdatedFacts DEF RefuseRequest, TypeOK
    <2> QED
      BY <1>4, <2>1, <2>2, <2>3 DEF CountRequest
  <1> QED
    BY <1>1, <1>2, <1>4 DEF Next

(***************************************************************************)
(* What a counter says of the requests that were accepted.                 *)
(***************************************************************************)
LEMMA Accepted ==
    ASSUME TypeOK, NEW ip \in IPs, NEW t \in 0 .. now
    PROVE  /\ AcceptedSince(ip, t) \in Int
           /\ t \in Int
           /\ timestamp[ip] \in 0 .. now
           /\ timestamp[ip] \in Int
           /\ now \in Int
           /\ count[ip] \in Nat
  <1>1. t \in Seconds
    BY Constants DEF TypeOK, Seconds
  <1>2. accepted[ip] \in Nat /\ acceptedBefore[ip][t] \in Nat
    BY <1>1 DEF TypeOK
  <1> QED
    BY <1>1, <1>2, Constants DEF TypeOK, Seconds, AcceptedSince

(* The two bounds again, after Update(now).                                *)
LEMMA UpdatedBound ==
    ASSUME TypeOK, CountBounds, NEW ip \in known, NEW t \in 0 .. now
    PROVE  AcceptedSince(ip, t) <= Updated(ip) + MaxRequestsPerSecond * (now - t)
  <1>0. ip \in IPs
    BY DEF TypeOK
  <1>1. /\ AcceptedSince(ip, t) \in Int
        /\ t \in Int
        /\ timestamp[ip] \in Int
        /\ now \in Int
        /\ count[ip] \in Nat
    BY <1>0, Accepted
  <1>2. Updated(ip) \in Nat
    BY <1>0, UpdatedFacts, Constants
  <1>3. CASE t <= timestamp[ip]
    <2>1. AcceptedSince(ip, t) <=
              count[ip] + MaxRequestsPerSecond * (timestamp[ip] - t)
      BY <1>0, <1>3 DEF CountBounds
    <2>2. Updated(ip) >= count[ip] - allowedRequests(ip)
      BY <1>0, UpdatedFacts
    <2>3. MaxRequestsPerSecond * (timestamp[ip] - t) + allowedRequests(ip)
              = MaxRequestsPerSecond * (now - t)
      BY <1>1, Intervals DEF allowedRequests
    <2>4. /\ MaxRequestsPerSecond * (timestamp[ip] - t) \in Int
          /\ MaxRequestsPerSecond * (now - t) \in Int
      BY <1>1, Interval
    <2>5. allowedRequests(ip) \in Int
      BY <1>0, UpdatedFacts
    <2> QED
      BY <1>1, <1>2, <2>1, <2>2, <2>3, <2>4, <2>5
  <1>4. CASE t > timestamp[ip]
    <2>1. AcceptedSince(ip, t) = 0
      BY <1>0, <1>4 DEF CountBounds
    <2>2. t <= now
      BY <1>1
    <2>3. MaxRequestsPerSecond * (now - t) \in Nat
      BY <1>1, <2>2, Interval
    <2> QED
      BY <1>2, <2>1, <2>2, <2>3
  <1> QED
    BY <1>1, <1>3, <1>4

(* A counter that Update leaves above zero is still what was accepted.     *)
LEMMA UpdatedReached ==
    ASSUME TypeOK, CountIsReached, NEW ip \in known, Updated(ip) > 0
    PROVE  \E t \in 0 .. timestamp[ip] :
               /\ t \in 0 .. now
               /\ AcceptedSince(ip, t) >=
                      Updated(ip) + MaxRequestsPerSecond * (now - t)
  <1>0. ip \in IPs
    BY DEF TypeOK
  <1>1. /\ Updated(ip) = count[ip] - allowedRequests(ip)
        /\ allowedRequests(ip) \in Nat
        /\ count[ip] \in Nat
        /\ Updated(ip) \in Nat
    BY <1>0, UpdatedFacts, Constants DEF TypeOK
  <1>2. count[ip] > 0
    BY <1>1
  <1>3. PICK t \in 0 .. timestamp[ip] :
            AcceptedSince(ip, t) >=
                count[ip] + MaxRequestsPerSecond * (timestamp[ip] - t)
    BY <1>2 DEF CountIsReached
  <1>4. /\ timestamp[ip] \in 0 .. now
        /\ now \in Int
    BY <1>0, Constants DEF TypeOK, Seconds
  <1>5. t \in 0 .. now
    BY <1>4
  <1>6. AcceptedSince(ip, t) \in Int /\ t \in Int /\ timestamp[ip] \in Int
    BY <1>0, <1>5, Accepted
  <1>7. MaxRequestsPerSecond * (timestamp[ip] - t) + allowedRequests(ip)
            = MaxRequestsPerSecond * (now - t)
    BY <1>4, <1>6, Intervals DEF allowedRequests
  <1>8. /\ MaxRequestsPerSecond * (timestamp[ip] - t) \in Int
        /\ MaxRequestsPerSecond * (now - t) \in Int
    BY <1>4, <1>6, Interval
  <1>9. AcceptedSince(ip, t) >= Updated(ip) + MaxRequestsPerSecond * (now - t)
    BY <1>1, <1>3, <1>6, <1>7, <1>8
  <1> QED
    BY <1>3, <1>5, <1>9

(* What a request, and the cleanup it may start, does to an entry.         *)
LEMMA SetCountFacts ==
    ASSUME TypeOK, NEW ip \in IPs, NEW n \in 0 .. requestLimit,
           SetCount(ip, n), NEW i \in IPs, i # ip
    PROVE  \/ /\ i \in known /\ i \in known'
              /\ count'[i] = count[i] /\ timestamp'[i] = timestamp[i]
           \/ /\ i \in known /\ i \in known'
              /\ count'[i] = Updated(i) /\ timestamp'[i] = now
           \/ i \in known /\ i \notin known' /\ Updated(i) = 0
           \/ i \notin known /\ i \notin known'
  <1>1. Updated(i) \in 0 .. requestLimit
    BY UpdatedFacts
  <1>2. Updated(i) > 0 \/ Updated(i) = 0
    BY <1>1, Constants
  <1>3. CASE CleanupDue
    BY <1>2, <1>3 DEF SetCount, KnownAfterCleanup, TypeOK
  <1>4. CASE ~CleanupDue
    BY <1>4 DEF SetCount, KnownAfterCleanup, TypeOK
  <1> QED
    BY <1>3, <1>4

(* An entry that is not the one of the request keeps its bound.            *)
LEMMA OthersBound ==
    ASSUME TypeOK, CountBounds, NEW ip \in IPs, NEW n \in 0 .. requestLimit,
           SetCount(ip, n), NEW i \in IPs, i # ip,
           accepted'[i] = accepted[i], NEW t \in 0 .. now
    PROVE  /\ i \in known' /\ t <= timestamp'[i] =>
                  AcceptedSince(i, t)' <=
                      count'[i] + MaxRequestsPerSecond * (timestamp'[i] - t)
           /\ i \in known' /\ t > timestamp'[i] => AcceptedSince(i, t)' = 0
           /\ i \notin known' =>
                  AcceptedSince(i, t)' <= MaxRequestsPerSecond * (now' - t)
  <1>1. AcceptedSince(i, t)' = AcceptedSince(i, t) /\ now' = now
    BY DEF AcceptedSince, SetCount
  <1>2. /\ AcceptedSince(i, t) \in Int
        /\ t \in Int
        /\ now \in Int
    BY Accepted
  <1>3. CASE i \in known /\ i \in known' /\ count'[i] = count[i]
                /\ timestamp'[i] = timestamp[i]
    BY <1>1, <1>3 DEF CountBounds
  <1>4. CASE i \in known /\ i \in known' /\ count'[i] = Updated(i)
                /\ timestamp'[i] = now
    <2>1. AcceptedSince(i, t) <= Updated(i) + MaxRequestsPerSecond * (now - t)
      BY <1>4, UpdatedBound
    <2>2. ~(t > now)
      BY <1>2
    <2> QED
      BY <1>1, <1>4, <2>1, <2>2
  <1>5. CASE i \in known /\ i \notin known' /\ Updated(i) = 0
    <2>1. AcceptedSince(i, t) <= 0 + MaxRequestsPerSecond * (now - t)
      BY <1>5, UpdatedBound
    <2>2. MaxRequestsPerSecond * (now - t) \in Int
      BY <1>2, Interval
    <2> QED
      BY <1>1, <1>5, <2>1, <2>2
  <1>6. CASE i \notin known /\ i \notin known'
    BY <1>1, <1>6 DEF CountBounds
  <1> QED
    BY <1>3, <1>4, <1>5, <1>6, SetCountFacts

(* The entry of the request gets the count n: it bounds what was accepted, *)
(* the request included.                                                   *)
LEMMA OwnBound ==
    ASSUME TypeOK, CountBounds, NEW ip \in IPs, CountRequest(ip),
           NEW t \in 0 .. now
    PROVE  /\ ip \in known' /\ timestamp'[ip] = now /\ now' = now
           /\ AcceptedSince(ip, t)' <=
                  count'[ip] + MaxRequestsPerSecond * (now - t)
  <1>1. /\ AcceptedSince(ip, t) \in Int
        /\ t \in Int
        /\ now \in Int
        /\ MaxRequestsPerSecond * (now - t) \in Int
        /\ Updated(ip) \in Int
    BY Accepted, Interval, UpdatedFacts, Constants
  <1>2. t \in Seconds
    BY <1>1, Constants DEF TypeOK, Seconds
  <1>3. /\ accepted[ip] \in Nat
        /\ acceptedBefore[ip][t] \in Nat
    BY <1>2 DEF TypeOK
  <1>4. /\ ip \in known' /\ timestamp'[ip] = now /\ now' = now
        /\ acceptedBefore' = acceptedBefore
    BY DEF CountRequest, FirstRequest, AcceptRequest, RefuseRequest, SetCount,
       TypeOK
  <1>5. CASE FirstRequest(ip)
    <2>1. count'[ip] = 1 /\ accepted'[ip] = accepted[ip] + 1
      BY <1>5 DEF FirstRequest, SetCount, TypeOK
    <2>2. AcceptedSince(ip, t)' = AcceptedSince(ip, t) + 1
      BY <1>3, <1>4, <2>1 DEF AcceptedSince
    <2>3. AcceptedSince(ip, t) <= MaxRequestsPerSecond * (now - t)
      <3>1. CASE ip \in known
        <4>1. ~(Updated(ip) > 0)
          BY <1>5, <3>1 DEF FirstRequest, KnownAfterCleanup
        <4>2. Updated(ip) = 0
          BY <4>1, UpdatedFacts, Constants
        <4> QED
          BY <1>1, <3>1, <4>2, UpdatedBound
      <3>2. CASE ip \notin known
        BY <3>2 DEF CountBounds
      <3> QED
        BY <3>1, <3>2
    <2> QED
      BY <1>1, <1>4, <2>1, <2>2, <2>3
  <1>6. CASE AcceptRequest(ip)
    <2>1. count'[ip] = Updated(ip) + 1 /\ accepted'[ip] = accepted[ip] + 1
      BY <1>6 DEF AcceptRequest, SetCount, TypeOK
    <2>2. AcceptedSince(ip, t)' = AcceptedSince(ip, t) + 1
      BY <1>3, <1>4, <2>1 DEF AcceptedSince
    <2>3. ip \in known
      BY <1>6 DEF AcceptRequest, KnownAfterCleanup
    <2>4. AcceptedSince(ip, t) <=
              Updated(ip) + MaxRequestsPerSecond * (now - t)
      BY <2>3, UpdatedBound
    <2> QED
      BY <1>1, <1>4, <2>1, <2>2, <2>4
  <1>7. CASE RefuseRequest(ip)
    <2>1. count'[ip] = Updated(ip) /\ accepted'[ip] = accepted[ip]
      BY <1>7 DEF RefuseRequest, SetCount, TypeOK
    <2>2. AcceptedSince(ip, t)' = AcceptedSince(ip, t)
      BY <1>4, <2>1 DEF AcceptedSince
    <2>3. ip \in known
      BY <1>7 DEF RefuseRequest, KnownAfterCleanup
    <2>4. AcceptedSince(ip, t) <=
              Updated(ip) + MaxRequestsPerSecond * (now - t)
      BY <2>3, UpdatedBound
    <2> QED
      BY <1>4, <2>1, <2>2, <2>4
  <1> QED
    BY <1>5, <1>6, <1>7 DEF CountRequest

(* The count of the request's entry was accepted in some interval.         *)
LEMMA OwnReached ==
    ASSUME TypeOK, CountBounds, CountIsReached, NEW ip \in IPs, CountRequest(ip),
           count'[ip] > 0
    PROVE  \E t \in 0 .. now :
               AcceptedSince(ip, t)' >=
                   count'[ip] + MaxRequestsPerSecond * (now - t)
  <1>1. /\ now \in 0 .. now
        /\ now \in Seconds
        /\ now \in Int
        /\ Updated(ip) \in Nat
        /\ accepted[ip] \in Nat
    BY UpdatedFacts, Constants DEF TypeOK, Seconds
  <1>2. MaxRequestsPerSecond * (now - now) = 0
    BY <1>1, Interval
  <1>3. acceptedBefore' = acceptedBefore
    BY DEF CountRequest, FirstRequest, AcceptRequest, RefuseRequest, SetCount
  <1>4. ASSUME accepted'[ip] = accepted[ip] + 1, NEW t \in 0 .. now
        PROVE  AcceptedSince(ip, t)' = AcceptedSince(ip, t) + 1
    <2>1. t \in Seconds
      BY Constants DEF TypeOK, Seconds
    <2>2. acceptedBefore[ip][t] \in Nat
      BY <2>1 DEF TypeOK
    <2> QED
      BY <1>1, <1>3, <1>4, <2>2 DEF AcceptedSince
  <1>5. ASSUME count'[ip] = 1, accepted'[ip] = accepted[ip] + 1
        PROVE  \E t \in 0 .. now :
                   AcceptedSince(ip, t)' >=
                       count'[ip] + MaxRequestsPerSecond * (now - t)
    <2>1. PICK t \in 0 .. now : t = now
      BY <1>1
    <2>2. AcceptedSince(ip, t) \in Int /\ AcceptedSince(ip, t) >= 0
      BY Accepted DEF CountBounds
    <2>3. AcceptedSince(ip, t)' = AcceptedSince(ip, t) + 1
      BY <1>4, <1>5
    <2>4. MaxRequestsPerSecond * (now - t) = 0
      BY <1>2, <2>1
    <2> QED
      BY <1>5, <2>2, <2>3, <2>4
  <1>6. CASE FirstRequest(ip)
    <2>1. count'[ip] = 1 /\ accepted'[ip] = accepted[ip] + 1
      BY <1>6 DEF FirstRequest, SetCount, TypeOK
    <2> QED
      BY <1>1, <1>5, <2>1
  <1>7. CASE AcceptRequest(ip)
    <2>1. /\ count'[ip] = Updated(ip) + 1
          /\ accepted'[ip] = accepted[ip] + 1
          /\ ip \in known
      BY <1>7 DEF AcceptRequest, KnownAfterCleanup, SetCount, TypeOK
    <2>2. CASE Updated(ip) = 0
      BY <1>1, <1>5, <2>1, <2>2
    <2>3. CASE Updated(ip) > 0
      <3>1. PICK t \in 0 .. now :
                AcceptedSince(ip, t) >=
                    Updated(ip) + MaxRequestsPerSecond * (now - t)
        BY <2>1, <2>3, UpdatedReached
      <3>2. AcceptedSince(ip, t)' = AcceptedSince(ip, t) + 1
        BY <1>4, <2>1
      <3>3. AcceptedSince(ip, t) \in Int /\ t \in Int
        BY Accepted
      <3>4. MaxRequestsPerSecond * (now - t) \in Int
        BY <1>1, <3>3, Interval
      <3> QED
        BY <1>1, <2>1, <3>1, <3>2, <3>3, <3>4
    <2> QED
      BY <1>1, <2>2, <2>3
  <1>8. CASE RefuseRequest(ip)
    <2>1. /\ count'[ip] = Updated(ip)
          /\ accepted' = accepted
          /\ ip \in known
      BY <1>8 DEF RefuseRequest, KnownAfterCleanup, SetCount, TypeOK
    <2>2. PICK t \in 0 .. now :
              AcceptedSince(ip, t) >=
                  Updated(ip) + MaxRequestsPerSecond * (now - t)
      BY <2>1, UpdatedReached
    <2>3. AcceptedSince(ip, t)' = AcceptedSince(ip, t)
      BY <1>3, <2>1 DEF AcceptedSince
    <2> QED
      BY <2>1, <2>2, <2>3
  <1> QED
    BY <1>6, <1>7, <1>8 DEF CountRequest

(* The counters of the others still are what was accepted.                 *)
LEMMA OthersReached ==
    ASSUME TypeOK, CountIsReached, NEW ip \in IPs, NEW n \in 0 .. requestLimit,
           SetCount(ip, n), NEW i \in known', i # ip, i \in IPs,
           accepted'[i] = accepted[i], count'[i] > 0
    PROVE  \E t \in 0 .. timestamp'[i] :
               AcceptedSince(i, t)' >=
                   count'[i] + MaxRequestsPerSecond * (timestamp'[i] - t)
  <1>1. \A t \in 0 .. now : AcceptedSince(i, t)' = AcceptedSince(i, t)
    BY DEF AcceptedSince, SetCount
  <1>2. timestamp[i] \in 0 .. now /\ now \in Int
    BY Constants DEF TypeOK, Seconds
  <1>3. CASE /\ i \in known /\ count'[i] = count[i]
             /\ timestamp'[i] = timestamp[i]
    <2>1. PICK t \in 0 .. timestamp[i] :
              AcceptedSince(i, t) >=
                  count[i] + MaxRequestsPerSecond * (timestamp[i] - t)
      BY <1>3 DEF CountIsReached
    <2>2. t \in 0 .. now
      BY <1>2
    <2> QED
      BY <1>1, <1>3, <2>1, <2>2
  <1>4. CASE i \in known /\ count'[i] = Updated(i) /\ timestamp'[i] = now
    <2>1. PICK t \in 0 .. now :
              AcceptedSince(i, t) >=
                  Updated(i) + MaxRequestsPerSecond * (now - t)
      BY <1>4, UpdatedReached
    <2> QED
      BY <1>1, <1>4, <2>1
  <1> QED
    BY <1>3, <1>4, SetCountFacts

(* Every request sets the count of its address to one within the limit.    *)
LEMMA RequestSets ==
    ASSUME TypeOK, NEW ip \in IPs, CountRequest(ip)
    PROVE  /\ \E n \in 0 .. requestLimit : SetCount(ip, n)
           /\ \A i \in IPs : i # ip => accepted'[i] = accepted[i]
           /\ accepted'[ip] = accepted[ip] \/ accepted'[ip] = accepted[ip] + 1
  <1>1. CASE FirstRequest(ip)
    <2>1. 1 \in 0 .. requestLimit
      BY Constants
    <2> QED
      BY <1>1, <2>1 DEF FirstRequest, TypeOK
  <1>2. CASE AcceptRequest(ip)
    <2>1. Updated(ip) + 1 \in 0 .. requestLimit
      BY <1>2, UpdatedFacts, Constants DEF AcceptRequest
    <2> QED
      BY <1>2, <2>1 DEF AcceptRequest, TypeOK
  <1>3. CASE RefuseRequest(ip)
    BY <1>3, UpdatedFacts DEF RefuseRequest, TypeOK
  <1> QED
    BY <1>1, <1>2, <1>3 DEF CountRequest

(* A second that passes.                                                   *)
LEMMA TickSince ==
    ASSUME TypeOK, Tick, NEW ip \in IPs, NEW t \in 0 .. now'
    PROVE  \/ t \in 0 .. now /\ AcceptedSince(ip, t)' = AcceptedSince(ip, t)
           \/ t \notin 0 .. now /\ AcceptedSince(ip, t)' = 0
  <1>1. /\ now \in Nat
        /\ now' = now + 1
        /\ t \in Seconds
        /\ accepted[ip] \in Nat
    BY Constants DEF Tick, TypeOK, Seconds
  <1>2. acceptedBefore'[ip] = [acceptedBefore[ip] EXCEPT ![now + 1] = accepted[ip]]
    BY DEF Tick
  <1>3. CASE t = now + 1
    <2>1. acceptedBefore'[ip][t] = accepted[ip]
      BY <1>1, <1>2, <1>3 DEF TypeOK
    <2> QED
      BY <1>1, <1>3, <2>1 DEF AcceptedSince, Tick
  <1>4. CASE t # now + 1
    <2>1. acceptedBefore'[ip][t] = acceptedBefore[ip][t]
      BY <1>1, <1>2, <1>4 DEF TypeOK
    <2> QED
      BY <1>1, <1>4, <2>1 DEF AcceptedSince, Tick
  <1> QED
    BY <1>3, <1>4

(* A new second keeps the bounds.                                          *)
LEMMA TickBounds ==
    ASSUME TypeOK, CountBounds, Tick
    PROVE  CountBounds'
  <1> SUFFICES ASSUME NEW ip \in IPs, NEW t \in 0 .. now'
               PROVE  /\ AcceptedSince(ip, t)' >= 0
                      /\ ip \in known' /\ t <= timestamp'[ip] =>
                             AcceptedSince(ip, t)' <= count'[ip]
                                 + MaxRequestsPerSecond * (timestamp'[ip] - t)
                      /\ ip \in known' /\ t > timestamp'[ip] =>
                             AcceptedSince(ip, t)' = 0
                      /\ ip \notin known' =>
                             AcceptedSince(ip, t)' <=
                                 MaxRequestsPerSecond * (now' - t)
    BY DEF CountBounds
  <1>1. /\ known' = known /\ timestamp' = timestamp /\ count' = count
        /\ now \in Nat /\ now' = now + 1
        /\ timestamp[ip] \in 0 .. now
        /\ count[ip] \in Nat
    BY Constants DEF Tick, TypeOK, Seconds
  <1>2. CASE t \in 0 .. now
    <2>1. AcceptedSince(ip, t)' = AcceptedSince(ip, t)
      BY <1>2, TickSince
    <2>2. ip \notin known => AcceptedSince(ip, t) <= MaxRequestsPerSecond * (now - t)
      BY <1>2 DEF CountBounds
    <2>3. /\ MaxRequestsPerSecond * (now - t) \in Int
          /\ MaxRequestsPerSecond * (now + 1 - t) \in Int
          /\ MaxRequestsPerSecond * (now - t) <= MaxRequestsPerSecond * (now + 1 - t)
      <3>1. t \in Int /\ now \in Int
        BY <1>1, <1>2
      <3> QED
        BY <3>1, Interval, NextSecond
    <2>4. AcceptedSince(ip, t) \in Int
      BY <1>2, Accepted
    <2>5. /\ AcceptedSince(ip, t) >= 0
          /\ ip \in known /\ t <= timestamp[ip] =>
                 AcceptedSince(ip, t) <=
                     count[ip] + MaxRequestsPerSecond * (timestamp[ip] - t)
          /\ ip \in known /\ t > timestamp[ip] => AcceptedSince(ip, t) = 0
      BY <1>2 DEF CountBounds
    <2> QED
      BY <1>1, <2>1, <2>2, <2>3, <2>4, <2>5
  <1>3. CASE t \notin 0 .. now
    <2>1. AcceptedSince(ip, t)' = 0
      BY <1>3, TickSince
    <2>2. t = now'
      BY <1>1, <1>3
    <2>3. ~(t <= timestamp[ip])
      BY <1>1, <2>2
    <2>4. MaxRequestsPerSecond * (now' - t) = 0
      BY <1>1, <2>2, Interval
    <2> QED
      BY <1>1, <2>1, <2>3, <2>4
  <1> QED
    BY <1>2, <1>3

(* A request keeps the bounds.                                             *)
LEMMA RequestBounds ==
    ASSUME TypeOK, TypeOK', CountBounds, NEW ip \in IPs, CountRequest(ip)
    PROVE  CountBounds'
  <1>1. /\ now' = now /\ acceptedBefore' = acceptedBefore
        /\ now \in Int
    BY SMTT(30), Constants DEF CountRequest, FirstRequest, AcceptRequest, RefuseRequest,
       SetCount, TypeOK, Seconds
  <1>2. PICK n \in 0 .. requestLimit : SetCount(ip, n)
    BY RequestSets
  <1>3. ASSUME NEW i \in IPs, NEW t \in 0 .. now'
        PROVE  AcceptedSince(i, t)' >= 0
    <2>1. t \in 0 .. now /\ t \in Seconds
      BY <1>1, Constants DEF TypeOK, Seconds
    <2>2. AcceptedSince(i, t) >= 0
      BY <2>1 DEF CountBounds
    <2>3. accepted[i] \in Nat /\ acceptedBefore[i][t] \in Nat
      BY <2>1 DEF TypeOK
    <2>4. accepted'[i] = accepted[i] \/ accepted'[i] = accepted[i] + 1
      BY RequestSets
    <2> QED
      BY <1>1, <2>2, <2>3, <2>4 DEF AcceptedSince
  <1>4. ASSUME NEW i \in IPs, NEW t \in 0 .. now', i # ip
        PROVE  /\ i \in known' /\ t <= timestamp'[i] =>
                      AcceptedSince(i, t)' <=
                          count'[i] + MaxRequestsPerSecond * (timestamp'[i] - t)
               /\ i \in known' /\ t > timestamp'[i] => AcceptedSince(i, t)' = 0
               /\ i \notin known' =>
                      AcceptedSince(i, t)' <= MaxRequestsPerSecond * (now' - t)
    <2>1. t \in 0 .. now /\ accepted'[i] = accepted[i]
      BY <1>1, <1>4, RequestSets
    <2> QED
      BY <1>2, <1>4, <2>1, OthersBound
  <1>5. ASSUME NEW t \in 0 .. now'
        PROVE  /\ ip \in known' /\ ~(t > timestamp'[ip])
               /\ AcceptedSince(ip, t)' <=
                      count'[ip] + MaxRequestsPerSecond * (timestamp'[ip] - t)
    <2>1. t \in 0 .. now
      BY <1>1
    <2> QED
      BY <1>1, <2>1, OwnBound
  <1> QED
    BY <1>3, <1>4, <1>5 DEF CountBounds

(* Every step keeps a counter at what was accepted since some second.      *)
LEMMA NextReached ==
    ASSUME TypeOK, TypeOK', CountBounds, CountIsReached, [Next]_vars
    PROVE  CountIsReached'
  <1> SUFFICES ASSUME NEW i \in known', count'[i] > 0
               PROVE  \E t \in 0 .. timestamp'[i] :
                          AcceptedSince(i, t)' >= count'[i]
                              + MaxRequestsPerSecond * (timestamp'[i] - t)
    BY DEF CountIsReached
  <1>0. i \in IPs
    BY DEF TypeOK
  <1>1. CASE UNCHANGED vars
    <2>1. PICK t \in 0 .. timestamp[i] :
              AcceptedSince(i, t) >=
                  count[i] + MaxRequestsPerSecond * (timestamp[i] - t)
      BY <1>1 DEF vars, CountIsReached
    <2>2. AcceptedSince(i, t)' = AcceptedSince(i, t)
      BY <1>1 DEF vars, AcceptedSince
    <2> QED
      BY <1>1, <2>1, <2>2 DEF vars
  <1>2. CASE Tick
    <2>1. PICK t \in 0 .. timestamp[i] :
              AcceptedSince(i, t) >=
                  count[i] + MaxRequestsPerSecond * (timestamp[i] - t)
      BY <1>2 DEF Tick, CountIsReached
    <2>2. t \in 0 .. now /\ t \in 0 .. now'
      BY <1>0, <1>2, Constants DEF Tick, TypeOK, Seconds
    <2>3. AcceptedSince(i, t)' = AcceptedSince(i, t)
      BY <1>0, <1>2, <2>2, TickSince
    <2> QED
      BY <1>2, <2>1, <2>3 DEF Tick
  <1>3. ASSUME NEW ip \in IPs, CountRequest(ip)
        PROVE  \E t \in 0 .. timestamp'[i] :
                   AcceptedSince(i, t)' >= count'[i]
                       + MaxRequestsPerSecond * (timestamp'[i] - t)
    <2>1. CASE i = ip
      <3>1. timestamp'[i] = now
        BY <1>3, <2>1 DEF CountRequest, FirstRequest, AcceptRequest,
           RefuseRequest, SetCount, TypeOK
      <3> QED
        BY <1>0, <1>3, <2>1, <3>1, OwnReached
    <2>2. CASE i # ip
      <3>1. PICK n \in 0 .. requestLimit : SetCount(ip, n)
        BY <1>3, RequestSets
      <3>2. accepted'[i] = accepted[i]
        BY <1>0, <1>3, <2>2, RequestSets
      <3> QED
        BY <1>0, <2>2, <3>1, <3>2, OthersReached
    <2> QED
      BY <2>1, <2>2
  <1> QED
    BY <1>1, <1>2, <1>3 DEF Next

(* The invariant of the request counters holds of every behaviour.         *)
THEOREM Inductive == Spec => []IInv
  <1>1. Init => IInv
    <2> SUFFICES ASSUME Init PROVE IInv
      OBVIOUS
    <2>1. TypeOK
      BY Constants DEF Init, TypeOK, Seconds
    <2>2. CountBounds
      <3>1. \A ip \in IPs : \A t \in 0 .. now : t = 0 /\ AcceptedSince(ip, t) = 0
        BY Constants DEF Init, AcceptedSince, Seconds
      <3>2. MaxRequestsPerSecond * (0 - 0) = 0
        BY Interval
      <3> QED
        BY <3>1, <3>2 DEF Init, CountBounds
    <2>3. CountIsReached
      BY DEF Init, CountIsReached
    <2> QED
      BY <2>1, <2>2, <2>3 DEF IInv
  <1>2. IInv /\ [Next]_vars => IInv'
    <2> SUFFICES ASSUME IInv, [Next]_vars PROVE IInv'
      OBVIOUS
    <2>1. TypeOK /\ CountBounds /\ CountIsReached
      BY DEF IInv
    <2>2. TypeOK'
      BY <2>1, NextType
    <2>3. CountBounds'
      <3>1. CASE UNCHANGED vars
        BY <2>1, <3>1 DEF vars, CountBounds, AcceptedSince
      <3>2. CASE Tick
        BY <2>1, <3>2, TickBounds
      <3>3. CASE \E ip \in IPs : CountRequest(ip)
        BY <2>1, <2>2, <3>3, RequestBounds
      <3> QED
        BY <3>1, <3>2, <3>3 DEF Next
    <2>4. CountIsReached'
      BY <2>1, <2>2, NextReached
    <2> QED
      BY <2>2, <2>3, <2>4 DEF IInv
  <1> QED
    BY <1>1, <1>2, PTL DEF Spec

(* Type correctness: no counter exceeds the limit.                         *)
THEOREM TypeCorrect == Spec => []TypeOK
  <1>1. IInv => TypeOK
    BY DEF IInv
  <1> QED
    BY <1>1, Inductive, PTL

(* No interval lets an address have more than the burst and the rate       *)
(* (CountRequest, with its cleanup).                                       *)
THEOREM RateIsLimitedHolds == Spec => []RateIsLimited
  <1>1. IInv => RateIsLimited
    <2> SUFFICES ASSUME IInv, NEW ip \in IPs, NEW t \in 0 .. now
                 PROVE  AcceptedSince(ip, t) <=
                            requestLimit + MaxRequestsPerSecond * (now - t)
      BY DEF RateIsLimited
    <2>1. TypeOK /\ CountBounds
      BY DEF IInv
    <2>2. /\ AcceptedSince(ip, t) \in Int
          /\ t \in Int
          /\ now \in Int
          /\ requestLimit \in Nat
          /\ Updated(ip) \in 0 .. requestLimit
      BY <2>1, Accepted, UpdatedFacts, Constants
    <2>3. MaxRequestsPerSecond * (now - t) \in Int
      BY <2>2, Interval
    <2>4. CASE ip \in known
      <3>1. AcceptedSince(ip, t) <=
                Updated(ip) + MaxRequestsPerSecond * (now - t)
        BY <2>1, <2>4, UpdatedBound
      <3> QED
        BY <2>2, <2>3, <3>1
    <2>5. CASE ip \notin known
      <3>1. AcceptedSince(ip, t) <= MaxRequestsPerSecond * (now - t)
        BY <2>1, <2>5 DEF CountBounds
      <3> QED
        BY <2>2, <2>3, <3>1
    <2> QED
      BY <2>4, <2>5
  <1> QED
    BY <1>1, Inductive, PTL

(* Only an address that has had all of that is refused.                    *)
THEOREM RefusesOnlyExcessHolds == Spec => []RefusesOnlyExcess
  <1>1. IInv => RefusesOnlyExcess
    <2> SUFFICES ASSUME IInv, NEW ip \in IPs, ip \in known,
                        Updated(ip) >= requestLimit
                 PROVE  \E t \in 0 .. now :
                            AcceptedSince(ip, t) >=
                                requestLimit + MaxRequestsPerSecond * (now - t)
      BY DEF RefusesOnlyExcess
    <2>1. TypeOK /\ CountIsReached
      BY DEF IInv
    <2>2. Updated(ip) = requestLimit /\ Updated(ip) > 0
      BY <2>1, UpdatedFacts, Constants
    <2> QED
      BY <2>1, <2>2, UpdatedReached
  <1> QED
    BY <1>1, Inductive, PTL

(***************************************************************************)
(* The limiter implements a token bucket for each address.                 *)
(***************************************************************************)

(* What a bucket holds.                                                    *)
LEMMA TokensFacts ==
    ASSUME TypeOK, NEW ip \in IPs
    PROVE  /\ ip \in known => tokens[ip] = requestLimit - Updated(ip)
           /\ ip \notin known => tokens[ip] = requestLimit
           /\ tokens[ip] \in 0 .. requestLimit
           /\ ~(Updated(ip) > 0) => tokens[ip] = requestLimit
  BY UpdatedFacts, Constants DEF tokens

(* A second gives back what the rate allows, and not below zero.           *)
LEMMA TickUpdates ==
    ASSUME TypeOK, Tick, NEW ip \in IPs
    PROVE  Updated(ip)' = IF MaxRequestsPerSecond > Updated(ip)
                          THEN 0 ELSE Updated(ip) - MaxRequestsPerSecond
  <1>1. /\ now \in Int
        /\ timestamp[ip] \in Int
        /\ count[ip] \in Nat
    BY Constants DEF TypeOK, Seconds
  <1>2. allowedRequests(ip)' = MaxRequestsPerSecond * (now + 1 - timestamp[ip])
    <2>1. now' = now + 1 /\ timestamp' = timestamp
      BY DEF Tick
    <2>2. now' - timestamp'[ip] = now + 1 - timestamp[ip]
      BY <1>1, <2>1
    <2> QED
      BY <2>2 DEF allowedRequests
  <1>3. MaxRequestsPerSecond * (now + 1 - timestamp[ip])
            = MaxRequestsPerSecond * (now - timestamp[ip]) + MaxRequestsPerSecond
    BY <1>1, Constants
  <1>4. allowedRequests(ip)' = allowedRequests(ip) + MaxRequestsPerSecond
    BY <1>2, <1>3 DEF allowedRequests
  <1>5. allowedRequests(ip) \in Nat
    BY UpdatedFacts
  <1>6. count'[ip] = count[ip]
    BY DEF Tick
  <1>7. Updated(ip)' = IF allowedRequests(ip)' > count[ip] THEN 0
                       ELSE count[ip] - allowedRequests(ip)'
    BY <1>6 DEF Updated
  <1> HIDE DEF allowedRequests
  <1> QED
    BY <1>1, <1>4, <1>5, <1>7, Constants DEF Updated

(* A second of time refills every bucket.                                  *)
LEMMA TickRefills == TypeOK /\ TypeOK' /\ Tick => Bucket!Refill
  <1> SUFFICES ASSUME TypeOK, TypeOK', Tick PROVE Bucket!Refill
    OBVIOUS
  <1>1. known' = known /\ now' = now + 1 /\ accepted' = accepted
    BY DEF Tick
  <1>2. ASSUME NEW ip \in IPs PROVE tokens'[ip] = Bucket!Refilled(tokens[ip])
    <2>1. Updated(ip) \in 0 .. requestLimit
      BY UpdatedFacts
    <2>2. CASE ip \in known
      <3>1. tokens[ip] = requestLimit - Updated(ip)
        BY <2>2 DEF tokens
      <3>2. tokens'[ip] = requestLimit - Updated(ip)'
        BY <1>1, <2>2 DEF tokens, requestLimit
      <3> QED
        BY <2>1, <3>1, <3>2, TickUpdates, Constants DEF Bucket!Refilled
    <2>3. CASE ip \notin known
      <3>1. tokens[ip] = requestLimit /\ tokens'[ip] = requestLimit
        BY <1>1, <2>3 DEF tokens, requestLimit
      <3> QED
        BY <3>1, Constants DEF Bucket!Refilled
    <2> QED
      BY <2>2, <2>3
  <1>3. tokens' = [ip \in IPs |-> Bucket!Refilled(tokens[ip])]
    BY <1>2 DEF tokens
  <1> QED
    BY <1>1, <1>3 DEF Bucket!Refill

(* An entry that is up to date is what its bucket lacks.                   *)
LEMMA UpToDate ==
    ASSUME TypeOK', NEW i \in IPs, i \in known', timestamp'[i] = now'
    PROVE  tokens'[i] = requestLimit - count'[i]
  <1>1. now' \in Int /\ count'[i] \in Nat
    BY Constants DEF TypeOK, Seconds, requestLimit
  <1>2. allowedRequests(i)' = MaxRequestsPerSecond * (now' - now')
    BY DEF allowedRequests
  <1>3. allowedRequests(i)' = 0
    BY <1>1, <1>2, Interval
  <1>4. Updated(i)' = count'[i]
    BY <1>1, <1>3 DEF Updated
  <1> QED
    BY <1>4 DEF tokens, requestLimit

(* A request leaves the other buckets alone, cleanup or not.               *)
LEMMA OtherBuckets ==
    ASSUME TypeOK, TypeOK', NEW ip \in IPs, NEW n \in 0 .. requestLimit,
           SetCount(ip, n), NEW i \in IPs, i # ip
    PROVE  tokens'[i] = tokens[i]
  <1>1. now' = now
    BY DEF SetCount
  <1>2. CASE i \in known /\ i \in known' /\ count'[i] = count[i]
                /\ timestamp'[i] = timestamp[i]
    <2>1. Updated(i)' = Updated(i)
      BY <1>1, <1>2 DEF Updated, allowedRequests
    <2> QED
      BY <1>2, <2>1 DEF tokens, requestLimit
  <1>3. CASE i \in known /\ i \in known' /\ count'[i] = Updated(i)
                /\ timestamp'[i] = now
    <2>1. tokens'[i] = requestLimit - Updated(i)
      BY <1>1, <1>3, UpToDate
    <2> QED
      BY <1>3, <2>1, TokensFacts
  <1>4. CASE i \in known /\ i \notin known' /\ Updated(i) = 0
    BY <1>4, Constants DEF tokens, requestLimit
  <1>5. CASE i \notin known /\ i \notin known'
    BY <1>5 DEF tokens, requestLimit
  <1> QED
    BY <1>2, <1>3, <1>4, <1>5, SetCountFacts

(* A request that is accepted takes a token of its bucket; one that is     *)
(* refused finds no token there, and takes none.                           *)
LEMMA RequestServes ==
    ASSUME TypeOK, TypeOK', NEW ip \in IPs, CountRequest(ip)
    PROVE  Bucket!Serve(ip) \/ UNCHANGED Bucket!bucketVars
  <1>0. /\ Updated(ip) \in 0 .. requestLimit
        /\ tokens[ip] \in 0 .. requestLimit
        /\ requestLimit \in Nat
    BY UpdatedFacts, TokensFacts, Constants
  <1>1. ASSUME NEW n \in 0 .. requestLimit, SetCount(ip, n)
        PROVE  /\ tokens' = [tokens EXCEPT ![ip] = requestLimit - n]
               /\ now' = now
    <2>1. now' = now /\ ip \in known' /\ count'[ip] = n /\ timestamp'[ip] = now'
      BY <1>1 DEF SetCount, TypeOK
    <2>2. tokens'[ip] = requestLimit - n
      BY <2>1, UpToDate
    <2>3. \A i \in IPs : i # ip => tokens'[i] = tokens[i]
      BY <1>1, OtherBuckets
    <2>4. /\ DOMAIN tokens = IPs
          /\ tokens = [i \in IPs |-> tokens[i]]
          /\ tokens' = [i \in IPs |-> tokens'[i]]
      BY DEF tokens
    <2> HIDE DEF tokens
    <2> QED
      BY <2>1, <2>2, <2>3, <2>4
  <1>2. ASSUME NEW n \in 0 .. requestLimit, SetCount(ip, n), n >= 1,
               tokens[ip] = requestLimit - (n - 1),
               accepted' = [accepted EXCEPT ![ip] = @ + 1]
        PROVE  Bucket!Serve(ip)
    <2>1. requestLimit - n = tokens[ip] - 1 /\ tokens[ip] > 0
      BY <1>0, <1>2
    <2> QED
      BY <1>1, <1>2, <2>1 DEF Bucket!Serve
  <1>3. CASE FirstRequest(ip)
    <2>1. ~(ip \in known /\ Updated(ip) > 0)
      BY <1>3 DEF FirstRequest, KnownAfterCleanup
    <2>2. tokens[ip] = requestLimit - (1 - 1)
      BY <1>0, <2>1, TokensFacts
    <2>3. 1 \in 0 .. requestLimit
      BY Constants
    <2> QED
      BY <1>2, <1>3, <2>2, <2>3 DEF FirstRequest
  <1>4. CASE AcceptRequest(ip)
    <2>1. ip \in known
      BY <1>4 DEF AcceptRequest, KnownAfterCleanup
    <2>2. PICK n \in 0 .. requestLimit : n = Updated(ip) + 1
      BY <1>0, <1>4 DEF AcceptRequest
    <2>3. tokens[ip] = requestLimit - (n - 1) /\ n >= 1
      BY <1>0, <2>1, <2>2, TokensFacts
    <2> QED
      BY <1>2, <1>4, <2>2, <2>3 DEF AcceptRequest
  <1>5. CASE RefuseRequest(ip)
    <2>1. ip \in known
      BY <1>5 DEF RefuseRequest, KnownAfterCleanup
    <2>2. tokens[ip] = requestLimit - Updated(ip)
      BY <2>1, TokensFacts
    <2>3. tokens' = [tokens EXCEPT ![ip] = tokens[ip]] /\ now' = now
      BY <1>0, <1>1, <1>5, <2>2 DEF RefuseRequest
    <2>4. tokens' = tokens
      BY <2>3 DEF tokens
    <2> QED
      BY <1>5, <2>3, <2>4 DEF RefuseRequest, Bucket!bucketVars
  <1> QED
    BY <1>3, <1>4, <1>5 DEF CountRequest

(* Every step of the limiter is a step of the buckets, or none.            *)
LEMMA NextServes ==
    TypeOK /\ TypeOK' /\ [Next]_vars => [Bucket!Next]_(Bucket!bucketVars)
  <1> SUFFICES ASSUME TypeOK, TypeOK', [Next]_vars
               PROVE  Bucket!Next \/ UNCHANGED Bucket!bucketVars
    OBVIOUS
  <1>1. CASE Tick
    BY <1>1, TickRefills DEF Bucket!Next
  <1>2. ASSUME NEW ip \in IPs, CountRequest(ip)
        PROVE  Bucket!Next \/ UNCHANGED Bucket!bucketVars
    BY <1>2, RequestServes DEF Bucket!Next
  <1>3. CASE UNCHANGED vars
    BY <1>3 DEF vars, Bucket!bucketVars, tokens, Updated, allowedRequests,
       requestLimit
  <1> QED
    BY <1>1, <1>2, <1>3 DEF Next

(* The limiter implements a bucket of tokens per address: counting lazily  *)
(* and dropping counters (CountRequest) is never to be told from refilling *)
(* every bucket every second.                                              *)
THEOREM TokenBucketHolds == Spec => ImplementsTokenBucket
  <1>1. Init => Bucket!Init
    BY DEF Init, Bucket!Init, tokens
  <1> QED
    BY <1>1, NextServes, TypeCorrect, PTL
    DEF Spec, ImplementsTokenBucket, Bucket!Spec
=============================================================================
