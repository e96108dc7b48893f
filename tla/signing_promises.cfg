SPECIFICATION ClientSpec
CONSTANTS
  None = None
  Requests = {r1}
  RequestIds = {i1, i2}
  ClientIds = {i2}
  MpcContracts = {m1, m2}
  MaxCalls = 3
  Endpoints = 2
  Attempts = 2
INVARIANTS TypeOK ClientTypeOK ResultBacked SignatureDelivered PlacedAgainUnanswered NothingLeftBehind
PROPERTIES OverwrittenByOverlap EventuallyPolled
