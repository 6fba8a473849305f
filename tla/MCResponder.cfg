\* One challenge and its window: two faults and two failing writes.
SPECIFICATION FairResponder
CONSTANTS
  Accounts = {a}
  NoAccount = NoAccount
  Refusers = {}
  StakeWei = 1001
  ResponseWindow = 1
  UnbondingDelay = 2
  CustodyPeriod = 9
  LapseGrace = 0
  MaxSample = 1
  BountyBps = 1500
  BondMultiplier = 3
  ResponseGasPerChunk = 38680
  ResponseBaseGas = 21000
  BaseFees = {1}
  BondValues = {179040}
  MaxProviders = 1
  MaxChallenges = 1
  MaxLeafCount = 1
  Horizon = 1
  CommitHorizon = 0
  MaxTime = 2
  Operator = a
  Duties = {0}
  MaxAttempts = 2
  PoolSlots = 2
  MaxFaults = 2
  DeficitStreak = 2
  DroppableKinds = {"opened"}
  Empty = Empty
  MaxWriteFails = 2
INVARIANTS
  RespondedIsAnswered
PROPERTIES
  ChallengesAreMet
  LedgerDrains
CHECK_DEADLOCK FALSE
