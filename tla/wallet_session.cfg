SPECIFICATION Spec
CONSTANTS
  None = None
  p1 = p1
  p2 = p2
  w1 = w1
  w2 = w2
  Blank = Blank
  Outdated = Outdated
  Phrases = {p1, p2}
  Misspelt = {typo}
  Passwords = {w1, w2}
  Indices = {0, 1, 2}
  Derivable = {0, 1}
  Iterations = 9
  Vaults <- MCVaults
INVARIANTS TypeOK PendingKept ClearedStays ShownPhraseExplained EveryVaultOpens KeysAgree
