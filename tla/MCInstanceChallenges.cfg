\* Two providers, two overlapping challenges, exits and publication.
SPECIFICATION Spec
CONSTANTS
  Accounts = {a}
  NoAccount = NoAccount
  Refusers = {a}
  StakeWei = 1001
  ResponseWindow = 2
  UnbondingDelay = 2
  CustodyPeriod = 2
  LapseGrace = 0
  MaxSample = 1
  BountyBps = 1500
  BondMultiplier = 3
  ResponseGasPerChunk = 38680
  ResponseBaseGas = 21000
  BaseFees = {1}
  BondValues = {179040}
  MaxProviders = 2
  MaxChallenges = 2
  MaxLeafCount = 2
  Horizon = 3
  CommitHorizon = 0
  MaxTime = 7
INVARIANTS
  TypeOK
  CounterIntegrity
  ExitPinning
  NoOrphanChallenge
  ExitBound
  Solvency
PROPERTIES
  ImplementsBond
CHECK_DEADLOCK FALSE
