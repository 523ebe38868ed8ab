SPECIFICATION Spec
CONSTANTS
  Workers = {w1, w2}
  Requests <- TicketRequests
  InitPlan <- Plan
  Fields <- PayloadFields
  ClientConstraints <- OwnConstraints
  NoConstraints = NoConstraints
  PublishMayFail = FALSE
  LogMayFail = FALSE
  MaxRequests = 3
  MaxGeneration = 2
  MaxTime = 0
  NoWorker = NoWorker
  NoProvider = NoProvider
  NoAuthorization = NoAuthorization
  NoNonce = NoNonce
  NoKey = NoKey
  NoSequence = NoSequence
  NoCap = NoCap
  NoCall = NoCall
CHECK_DEADLOCK FALSE
INVARIANTS OneTicketPerAuthorization
