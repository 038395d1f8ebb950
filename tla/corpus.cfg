SPECIFICATION Spec
CONSTANTS
  Blank = Blank
  Failed = Failed
  Union = Union
  None = None
INVARIANTS
  SampleIsOfTheWholeFile
  ProposalsAreWhatTheySay
  FeaturesShowTheMutation
