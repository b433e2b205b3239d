CONSTANTS
  Key = {k1, k2, k3}
  Net = {n1, n2}
  NoNet = NoNet
  MaxBatch = 3
  MaxCapacity = 2
  Kernels = 3
  Unchecked = {2}
SPECIFICATION FairSpec
INVARIANTS
  AnswersAreWhole
  CacheIsRecent
  ChargedForAnswers
PROPERTY CallsReturn
