SPECIFICATION FairSpec
CONSTANTS
  Workers = {w1, w2}
  Requests <- TripRequests
  InitPlan <- Plan
  Fields <- PayloadFields
  ClientConstraints <- OwnConstraints
  NoConstraints = NoConstraints
  PublishMayFail = TRUE
  LogMayFail = FALSE
  MaxRequests = 3
  MaxGeneration = 4
  MaxTime = 0
  NoWorker = NoWorker
  NoProvider = NoProvider
  NoAuthorization = NoAuthorization
  NoNonce = NoNonce
  NoKey = NoKey
  NoSequence = NoSequence
  NoCap = NoCap
  NoCall = NoCall
CHECK_DEADLOCK FALSE
INVARIANTS TicketsArePaidFor SpentStaysSpent
PROPERTIES TicketsAreCurrent NoResetUnderRequests UsesIdap Answered
