SPECIFICATION Spec
CONSTANTS
  None = None
  Requests = {r1}
  RequestIds = {i1}
  MpcContracts = {m1}
  MaxCalls = 2
INVARIANT OneInFlight
