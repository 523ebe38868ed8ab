SPECIFICATION LinkSpec
CONSTANTS
  Clients = {p1, p2}
  a = a
  Sids = {a}
  Contents <- Moved
  Forged = Forged
  NoMetadata = NoMetadata
  NoValue = NoValue
  NoClient = NoClient
  Idle = Idle
  Validating = {p1, p2}
  Tamper = FALSE
  MaxKeys = 1
SYMMETRY ClientSymmetry
INVARIANTS PointersHold SkippedIdentitiesHold
PROPERTY LinkImplementsStore
