SPECIFICATION ContractSpec
CONSTANTS
  None = None
  Path = Path
  Dest = Dest
  Token = Token
  Other = Other
  Paths = {Path}
  Dests = {Dest}
  Tokens = {Token}
  OtherTemplates = {Other}
  Grain <- MCGrain
  MaxUnits <- MCMaxUnits
  MaxU64 = 7
  Accounts = {a1}
  Keys = {k1}
  PathSets <- MCPathSets
  PolicyInputs <- BudgetPolicies
  RawRequests <- MCRawRequests
  MaxTime = 1
  RequestIds = {i1}
  MpcContracts = {m1}
  MaxCalls = 2
  Templates <- BudgetTemplates
  Caps = {}
  TemplateRequests <- BudgetRequests
INVARIANTS ContractTypeOK CallsWithinBudget CounterMatchesCalls
