SPECIFICATION Spec
CONSTANTS
  None = None
  p1 = p1
  p2 = p2
  w1 = w1
  Phrases = {p1, p2}
  Passwords = {w1}
  SeedHash <- MCSeedHash
  LegacyVaults <- MCLegacyVaults
  Tasks = {t1, t2}
  MaxSeed = 2
  MaxResets = 1
INVARIANTS TypeOK SequentialReset
PROPERTIES NumbersSpec PlainKept
