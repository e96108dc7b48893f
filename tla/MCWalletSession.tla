-------------------------- MODULE MCWalletSession --------------------------
(***************************************************************************)
(* Two phrases, and a third index that SLIP-10 refuses.  A vault of an     *)
(* older version was sealed with fewer iterations and may show another     *)
(* address.                                                                *)
(***************************************************************************)
EXTENDS WalletSession, TLC

CONSTANTS p1, p2, w1, w2

OldVault(index, address) ==
  [blob |-> [content |-> p1, sealedWith |-> DeriveKey(w1, 1), iterations |-> 1],
   password |-> w1, index |-> index, address |-> address]

MCVaults ==
  {None, OldVault(0, Outdated), OldVault(1, DerivePublicKeyBip44(p1, 1))}
=============================================================================
