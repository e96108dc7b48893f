SPECIFICATION Spec
CONSTANTS
  None = None
  Path = Path
  Dest1 = Dest1
  Dest2 = Dest2
  Token = Token
  Other = Other
  Paths = {Path}
  Dests = {Dest1, Dest2}
  Tokens = {Token}
  OtherTemplates = {Other}
  Grain <- MCGrain
  MaxUnits <- MCMaxUnits
  MaxU64 = 7
  Accounts = {a1}
  Keys = {k1}
  PathSets <- MixedPathSets
  PolicyInputs <- MixedPolicies
  RawRequests <- MixedRequests
  MaxTime = 2
INVARIANT NativePeriodBudget
