---------------------------- MODULE MCRateLimiter ----------------------------
(***************************************************************************)
(* RateLimiter on a small instance.                                        *)
(***************************************************************************)
EXTENDS RateLimiter, TLC

CONSTANTS a, b  \* client addresses

TwoIPs == {a, b}

IPSymmetry == Permutations(TwoIPs)
=============================================================================
