------------------------------- MODULE MCRelay -------------------------------
(***************************************************************************)
(* Relay on small instances.                                               *)
(***************************************************************************)
EXTENDS Relay, TLC

CONSTANTS r1, r2,  \* relays
          s1, s2   \* spectators

OneRelay == {r1}
TwoRelays == {r1, r2}
OneSpectator == {s1}
TwoSpectators == {s1, s2}
Nobody == {}

RelaySymmetry == Permutations(TwoRelays) \cup Permutations(TwoSpectators)
=============================================================================
