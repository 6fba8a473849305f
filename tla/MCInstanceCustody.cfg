\* One provider, two challenges, four custody periods and the grace window.
SPECIFICATION FairSpec
CONSTANTS
  Accounts = {a}
  NoAccount = NoAccount
  Refusers = {a}
  StakeWei = 1001
  ResponseWindow = 2
  UnbondingDelay = 2
  CustodyPeriod = 3
  LapseGrace = 1
  MaxSample = 1
  BountyBps = 1500
  BondMultiplier = 3
  ResponseGasPerChunk = 38680
  ResponseBaseGas = 21000
  BaseFees = {1}
  BondValues = {179040}
  MaxProviders = 1
  MaxChallenges = 2
  MaxLeafCount = 2
  Horizon = 3
  CommitHorizon = 10
  MaxTime = 12
INVARIANTS
  CustodyViewAgrees
PROPERTIES
  ChallengesSettle
  ExitCompletes
  SlashedNeverAnswers
  CureWins
  FreshRandomness
CHECK_DEADLOCK FALSE
