SPECIFICATION Spec
CONSTANTS
  None = None
  d1 = d1
  d2 = d2
  j1 = j1
  j2 = j2
  k1 = k1
  k2 = k2
  Usdc = Usdc
  Sol = Sol
  Daemons = {d1, d2}
  Jobs = {j1, j2}
  Identities = {k1, k2}
  Tokens = {Usdc, Sol}
  Amounts = {0, 1, 2}
  RpcCount = 2
  FailureCap = 2
  PollAttempts = 5
  MaxRetries = 2
  MaxSubmits = 2
  Scenarios <- MCScenarios
INVARIANTS TypeOK OneTransferPerOpening ChargesPerOpening TransfersExplained RememberedReported EveryEndpointAsked ApprovedWithinLimits

PROPERTIES Settled LedgerSpec
