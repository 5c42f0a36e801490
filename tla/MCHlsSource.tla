----------------------------- MODULE MCHlsSource -----------------------------
(***************************************************************************)
(* HlsSource on small instances.                                           *)
(***************************************************************************)
EXTENDS HlsSource

CONSTANTS s1, s2,        \* spectators
          owner, thief   \* the publisher, and the one that displaces it

TwoSpectators == {s1, s2}
TwoClosers == {owner, thief}
OneLeaver == {s1}
OneStaller == {s2}
Nobody == {}

(* PULL without max_initial_fragments (all), and with a limit that the     *)
(* buffer can meet or miss.                                                *)
AllInitial == {-1}
AllOrOneInitial == {-1, 1}
=============================================================================
