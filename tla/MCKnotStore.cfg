SPECIFICATION Spec
CONSTANTS
  Clients = {p1, p2}
  a = a
  Sids = {a}
  Contents <- Moved
  Forged = Forged
  NoMetadata = NoMetadata
  NoValue = NoValue
  NoClient = NoClient
  Idle = Idle
  Validating = {p1}
  Tamper = TRUE
  MaxKeys = 2
INVARIANT TypeOK
PROPERTY ImplementsStore
