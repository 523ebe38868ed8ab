SPECIFICATION Spec
CONSTANTS
  Workers = {w1}
  Requests <- ManyRequests
  InitPlan <- Plan
  Fields <- PayloadFields
  ClientConstraints <- OwnConstraints
  NoConstraints = NoConstraints
  PublishMayFail = TRUE
  LogMayFail = TRUE
  MaxRequests = 4
  MaxGeneration = 4
  MaxTime = 1
  NoWorker = NoWorker
  NoProvider = NoProvider
  NoAuthorization = NoAuthorization
  NoNonce = NoNonce
  NoKey = NoKey
  NoSequence = NoSequence
  NoCap = NoCap
  NoCall = NoCall
CHECK_DEADLOCK FALSE
INVARIANTS TypeOK OneTicketPerAuthorization OneTicketPerPayment PolicyEnforced
PROPERTIES AnswersAreHonest
