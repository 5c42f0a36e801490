---------------------------- MODULE MCConnections ----------------------------
(***************************************************************************)
(* Connections on small instances.                                         *)
(***************************************************************************)
EXTENDS Connections

CONSTANTS c1, c2,  \* connections
          x        \* stream id

TwoConns == {c1, c2}
SecondConn == {c2}
OneStream == {x}
=============================================================================
