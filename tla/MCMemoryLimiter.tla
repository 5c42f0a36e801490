--------------------------- MODULE MCMemoryLimiter ---------------------------
(***************************************************************************)
(* MemoryLimiter with two sources and a relay.                             *)
(***************************************************************************)
EXTENDS MemoryLimiter, TLC

CONSTANTS a, b,  \* sources
          r      \* a relay

TwoSources == {a, b}
OneRelay == {r}

(* A limit of 5 lets buffers of these fill up, evicts from them, and       *)
(* refuses a fragment when the other streams hold too much.                *)
SmallSizes == {2, 3}

SourceSymmetry == Permutations(TwoSources)
=============================================================================
