------------------------------ MODULE MCCluster ------------------------------
(***************************************************************************)
(* Cluster on small instances.                                             *)
(***************************************************************************)
EXTENDS Cluster, TLC

CONSTANTS a, b,  \* servers
          v      \* a spectator

TwoServers == {a, b}
OneSpectator == {v}

(* Each of two servers relays from the other.                              *)
EachOther == (a :> b) @@ (b :> a)
=============================================================================
