\* Two periods of three instants: the last instant of the first is reserved for the escape
\* hatch, and time stops in the second.
SPECIFICATION FairCustody
CONSTANTS
  Accounts = {a}
  NoAccount = NoAccount
  Refusers = {}
  StakeWei = 1001
  ResponseWindow = 1
  UnbondingDelay = 2
  CustodyPeriod = 3
  LapseGrace = 1
  MaxSample = 1
  BountyBps = 1500
  BondMultiplier = 3
  ResponseGasPerChunk = 38680
  ResponseBaseGas = 21000
  BaseFees = {1}
  BondValues = {}
  MaxProviders = 1
  MaxChallenges = 0
  MaxLeafCount = 1
  Horizon = 2
  CommitHorizon = 5
  MaxTime = 5
  Operator = a
  EscapeThreshold = 2
  ProverAvailable = TRUE
  Duties <- MCDuties
  MaxAttempts = 1
  PoolSlots = 1
  MaxFaults = 1
INVARIANTS
  StatusAgrees
  OneSubmission
PROPERTIES
  PeriodGetsProven
  NoEviction
CHECK_DEADLOCK FALSE
