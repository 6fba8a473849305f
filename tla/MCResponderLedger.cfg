\* A ledger write fails once, and the node redelivers the event.
SPECIFICATION ResponderSpec
CONSTANTS
  Accounts = {a}
  NoAccount = NoAccount
  Refusers = {}
  StakeWei = 1001
  ResponseWindow = 1
  UnbondingDelay = 2
  CustodyPeriod = 9
  LapseGrace = 0
  MaxSample = 1
  BountyBps = 1500
  BondMultiplier = 3
  ResponseGasPerChunk = 38680
  ResponseBaseGas = 21000
  BaseFees = {1}
  BondValues = {179040}
  MaxProviders = 1
  MaxChallenges = 1
  MaxLeafCount = 1
  Horizon = 1
  CommitHorizon = 0
  MaxTime = 2
  Operator = a
  Duties = {0}
  MaxAttempts = 2
  PoolSlots = 2
  MaxFaults = 0
  DeficitStreak = 2
  DroppableKinds = {}
  Empty = Empty
  MaxWriteFails = 1
INVARIANT
  OpenedIsOnDisk
CHECK_DEADLOCK FALSE
