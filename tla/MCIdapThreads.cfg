SPECIFICATION Spec
CONSTANTS
  Workers = {w1, w2}
  CapIds = {a}
  Nonces = {n1, n2}
  Contents <- ThreadContents
  Variants <- ThreadVariants
  NoNonce = NoNonce
  NoKey = NoKey
  NoSequence = NoSequence
  NoCap = NoCap
  NoCall = NoCall
  MaxGeneration = 1
  MaxTime = 0

SYMMETRY ThreadSymmetry
INVARIANTS OneShotOverrun
PROPERTIES QuotaRefusalJustified ReplayRefusalJustified
