SPECIFICATION Spec
CONSTANTS
  Workers = {w1}
  Requests <- TicketRequests
  InitPlan <- Plan
  Fields <- PayloadFields
  ClientConstraints <- OwnConstraints
  NoConstraints = NoConstraints
  PublishMayFail = TRUE
  LogMayFail = FALSE
  MaxRequests = 3
  MaxGeneration = 3
  MaxTime = 0
  NoWorker = NoWorker
  NoProvider = NoProvider
  NoAuthorization = NoAuthorization
  NoNonce = NoNonce
  NoKey = NoKey
  NoSequence = NoSequence
  NoCap = NoCap
  NoCall = NoCall
CHECK_DEADLOCK FALSE
PROPERTIES DelegationOpens
