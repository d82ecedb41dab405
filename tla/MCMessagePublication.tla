------------------------ MODULE MCMessagePublication ------------------------
(***************************************************************************)
(* A small instance of MessagePublication.                                 *)
(***************************************************************************)
EXTENDS MessagePublicationProperties

CONSTANTS s1, s2
=============================================================================
