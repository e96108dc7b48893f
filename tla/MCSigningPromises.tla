------------------------- MODULE MCSigningPromises -------------------------
(***************************************************************************)
(* Three calls over two request ids and two MPC contracts.                 *)
(***************************************************************************)
EXTENDS SigningPromises
=============================================================================
