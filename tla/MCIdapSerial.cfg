SPECIFICATION Spec
CONSTANTS
  Workers = {w1}
  CapIds = {a, b}
  Nonces = {n1, n2}
  Contents <- SerialContents
  Variants <- SerialVariants
  NoNonce = NoNonce
  NoKey = NoKey
  NoSequence = NoSequence
  NoCap = NoCap
  NoCall = NoCall
  MaxGeneration = 2
  MaxTime = 1

SYMMETRY NonceSymmetry
INVARIANTS TypeOK QuotaRespected
PROPERTIES NoReplay ImplementsLedger
