SPECIFICATION FairSpec
CONSTANTS
  NumJobs = 4
  FamilyAt <- InterleavedFamilies
  NumCalls = 2
  Builders = {"matrix", "matched"}
  MaxFamilies = 2
  Parallelism = 3
  MaxWorkers = 3
  NoCall = NoCall
INVARIANTS
  AdmissionIsWhole
  MatrixIsExact
PROPERTIES
  ImplementsMatrix
  BuildReturns
