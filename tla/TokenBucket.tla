----------------------------- MODULE TokenBucket -----------------------------
(***************************************************************************)
(* What the request limit promises (RATE_LIMIT_REQ_PER_SEC and             *)
(* RATE_LIMIT_REQ_BURST of server/README.md): each address has a bucket of *)
(* tokens that is full at first, every request that is served takes one,   *)
(* and with every second every bucket gets Rate more, up to Limit.  No     *)
(* bucket is ever forgotten.                                               *)
(***************************************************************************)
EXTENDS Integers

CONSTANTS IPs,    \* client addresses
          Rate,   \* tokens per second
          Limit   \* what a bucket holds

VARIABLES second,   \* the current second
          tokens,   \* in the bucket of each address
          served    \* requests served to each address so far

bucketVars == <<second, tokens, served>>

Init ==
    /\ second = 0
    /\ tokens = [ip \in IPs |-> Limit]
    /\ served = [ip \in IPs |-> 0]

Refilled(n) == IF n + Rate > Limit THEN Limit ELSE n + Rate

Refill ==
    /\ second' = second + 1
    /\ tokens' = [ip \in IPs |-> Refilled(tokens[ip])]
    /\ UNCHANGED served

Serve(ip) ==
    /\ tokens[ip] > 0
    /\ tokens' = [tokens EXCEPT ![ip] = @ - 1]
    /\ served' = [served EXCEPT ![ip] = @ + 1]
    /\ UNCHANGED second

Next == Refill \/ \E ip \in IPs : Serve(ip)

Spec == Init /\ [][Next]_bucketVars
=============================================================================
