-------------------------- MODULE MCPublisherClient --------------------------
(***************************************************************************)
(* PublisherClient on small instances.                                     *)
(***************************************************************************)
EXTENDS PublisherClient
=============================================================================
