SPECIFICATION Spec
CONSTANTS
  SplitFamilies = {"f1", "f2", "f3", "f4", "f5"}
  Shapes <- MCShapes
  Reserved <- MCReserved
  Ratio <- MCRatio
  RatioBase = 8
  Scale = 4324320
  Architectures <- MCArchitectures
  Datasets <- MCDatasets
  ForeignGradients <- MCForeignGradients
  Epochs = {1, 2}
  BatchSizes = {1, 2}
  MaxRuns = 2
  Corpora <- MCCorpora
  PolicyOrder <- MCPolicyOrder
  MutationOrder <- MCMutationOrder
  SeedLists <- MCSeedLists
  Variants = {"v", "w"}
  SplitOf <- MCSplit
  AblationCorpora <- MCAblationCorpora
  References <- MCReferences
  Replacements <- MCReplacements
  Requests <- MCRequests
  OriginalSeeds <- MCOriginalSeeds
  Older = Older
  Torn = Torn
  Refused = Refused
  Scores = {0, 40, 50, 100, 110}
  Thresholds = {0, 40, 45, 50, 100, 101}
  RowCounts = {0, 2}
  MaxRows = 3
  Texts <- MCTexts
  TargetColumns = {0, 1, 3}
  TestRatios <- MCTestRatios
  Configs <- MCConfigs
  BatchLengths = {0, 1, 2, 4, 9}
  NotANumber = NotANumber
  Text = Text
  None = None
INVARIANTS
  PartitionsAreFilled
  ModelsAreWhole
  ProtocolsHoldOut
  ConfirmedIsTrue
  MetricsAgree
  RowsAreKept
PROPERTY CallsEnd
