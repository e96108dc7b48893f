------------------------ MODULE MCSignRequestClient ------------------------
(***************************************************************************)
(* Three calls over two MPC contracts: a client with two endpoints and an  *)
(* id of its own, and another id that anyone uses at any time.             *)
(***************************************************************************)
EXTENDS SignRequestClient
=============================================================================
