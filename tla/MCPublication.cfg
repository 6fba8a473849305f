\* Donations, declarations, reimbursements, slashes, parked payouts and reclaims.
SPECIFICATION Spec
CONSTANTS
  Accounts = {a, b}
  NoAccount = NoAccount
  Refusers = {b}
  BucketRateWeiPerDay = 3
  BucketCapWei = 3
  DormancyWindow = 2
  Day = 2
  NoPointer = NoPointer
  Pointers = {}
  DormancyMinChunks = 2
  ChunksPerBlob = 1
  CarrierTipWei = 1
  ProvingSubsidyWei = 1
  GasFees = {1}
  BlobFees = {0}
  Deadlines = {3}
  DonationValues = {1, 3}
  SlashValues = {2}
  MaxBalance = 4
  MaxLeafCount = 3
  MaxPointerNonce = 1
  MaxTime = 5
INVARIANTS
  Backed
  BucketBound
  DormancyHonest
  LogSequential
PROPERTIES
  ReclaimTelescopes
CHECK_DEADLOCK FALSE
