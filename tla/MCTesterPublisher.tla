------------------------- MODULE MCTesterPublisher -------------------------
(***************************************************************************)
(* TesterPublisher on a small instance.                                    *)
(***************************************************************************)
EXTENDS TesterPublisher

(* The second segment has no data.                                         *)
SecondEmpty == {1}
=============================================================================
