\* One carrier, two runs of its program, and a rival who carries and donates.
SPECIFICATION OneWindow
CONSTANTS
  a = a
  b = b
  q = q
  Accounts = {a, b}
  Carriers = {a}
  Packages <- MCPackages
  NoAccount = NoAccount
  Refusers = {}
  BucketRateWeiPerDay = 0
  BucketCapWei = 100
  DormancyWindow = 2
  Day = 1
  NoPointer = NoPointer
  Pointers = {q}
  DormancyMinChunks = 2
  ChunksPerBlob = 1
  CarrierTipWei = 1
  ProvingSubsidyWei = 1
  SlotSeconds = 1
  MeasuredGas = 2
  IntrinsicGas = 1
  MinBlobFeeCap = 1
  Fees <- MCFees
  MaxRuns = 2
  MaxKey = 2
  GasFees = {}
  BlobFees = {}
  Deadlines = {3, 4, 5, 9}
  DonationValues = {60}
  SlashValues = {20}
  MaxBalance = 1
  MaxLeafCount = 2
  MaxPointerNonce = 1
  MaxTime = 4
INVARIANTS
  CoveredIsPaid
PROPERTIES
  RevertsOnlyByRaces
CHECK_DEADLOCK FALSE
