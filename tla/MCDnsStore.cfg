SPECIFICATION Spec
CONSTANTS
  Clients = {t1, t2}
  a = a
  other = other
  key = key
  otherKey = otherKey
  first = first
  second = second
  Sids = {a}
  Keys <- PublishedKeys
  Derived <- SidOfKey
  Contents <- TwoVersions
  NoKey = NoKey
  NoMetadata = NoMetadata
  NoValue = NoValue
  Idle = Idle
  MaxRecords = 5
INVARIANT TypeOK
PROPERTY ImplementsWriteOnce
