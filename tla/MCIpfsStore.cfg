SPECIFICATION Spec
CONSTANTS
  provider = provider
  service = service
  p1 = p1
  Procs = {p1}
  Sids = {provider, service}
  Owner <- OneProcess
  Contents <- SignedMetadata
  Provider <- SignedByProvider
  NoSid = NoSid
  NoMetadata = NoMetadata
  NoValue = NoValue
  NoEntry = NoEntry
  Idle = Idle
  Partial = Partial
  MaxCrashes = 1
INVARIANTS TypeOK CidsArePublished
PROPERTIES IdentityPublishedOnReturn RegistryKeepsEntries ImplementsStore
