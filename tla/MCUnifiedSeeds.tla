--------------------------- MODULE MCUnifiedSeeds ---------------------------
(***************************************************************************)
(* Small instances of UnifiedSeeds: two or three phrases, two calls under  *)
(* way, and what an earlier version may have left: nothing, an encrypted   *)
(* wallet with and without its derived public key, a plain wallet, or one  *)
(* whose conversion was interrupted, with and without an imported seed.    *)
(***************************************************************************)
EXTENDS UnifiedSeeds

CONSTANTS p1, p2, w1

MCSeedHash == [phrase \in Phrases |-> phrase]

Seed(phrase) == [phrase |-> phrase, password |-> w1, epoch |-> 0]
OneImported == [n \in Numbers |-> IF n = 1 THEN Seed(p1) ELSE None]
Vault(w, p, i) == [wallet |-> w, plain |-> p, imported |-> i]
Wallet(canonical) == [seed |-> Seed(p2), canonical |-> canonical]

NoVault == Vault(None, None, Empty(Numbers))
Migratable == Vault(Wallet(TRUE), None, OneImported)

MCLegacyVaults ==
  {NoVault, Migratable,
   Vault(Wallet(FALSE), None, Empty(Numbers)),
   Vault(None, Seed(p2), OneImported),
   Vault(Wallet(FALSE), Seed(p2), Empty(Numbers))}

\* One wallet and one imported seed to migrate.
MigratableVault == {Migratable}
=============================================================================
