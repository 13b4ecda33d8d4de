------------------------- MODULE MCClientRequests -------------------------
(***************************************************************************)
(* The requests of a client by themselves, for what LocationAPI.h says of  *)
(* their answers.                                                          *)
(***************************************************************************)
EXTENDS ClientRequests

Spec == ClientRequestsInit /\ [][ClientRequestsNext]_requestVars
=============================================================================
