SPECIFICATION Spec
CONSTANTS
  None = None
  p1 = p1
  p2 = p2
  w1 = w1
  Phrases = {p1, p2, p3}
  Passwords = {w1}
  SeedHash <- MCSeedHash
  LegacyVaults <- MigratableVault
  Tasks = {t1, t2}
  MaxSeed = 1
  MaxResets = 0
INVARIANT SequentialMigration
