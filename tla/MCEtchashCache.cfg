CONSTANTS
  v1 = v1
  v2 = v2
  v3 = v3
  e1 = e1
  e2 = e2
  e3 = e3
  NoVerifier = NoVerifier
  NoEpoch = NoEpoch
  Verifiers <- ThreeVerifiers
  EtchashEpochs <- ThreeEpochs
  Capacity = 2
SPECIFICATION EtchashSpec
INVARIANTS GetNeverThrows
PROPERTIES NeverGeneratedTwice
