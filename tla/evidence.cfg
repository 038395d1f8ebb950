SPECIFICATION Spec
CONSTANTS
  Callers <- MCCallers
  ProcessOf <- MCProcessOf
  PairOf <- MCPairOf
  Linters <- MCLinters
  AuditScopeOf <- MCAuditScopeOf
  JarVersions <- MCJarVersions
  PolicyVersions <- MCPolicyVersions
  Replies <- MCReplies
  Datasets <- MCDatasets
  Frozen <- MCFrozen
  Sources <- MCSources
  Answers <- MCAnswers
  Cases <- MCCases
  Captured <- MCCaptured
  Legacy <- MCLegacy
  Selections <- MCSelections
  Inputs <- MCInputs
  Generated <- MCGenerated
  Ready <- MCReady
  SampledFamilies <- MCSampledFamilies
  Proposed <- MCProposed
  Profile <- MCProfile
  Fixture = "fixture"
  FixtureNamed = TRUE
  MaxReplaced = 1
  V9 = "V9"
  Outputs = {"o1"}
  MaxOdd = 2
  MaxRuns = 2
  Processes = {p1, p2}
  Paths = {"x", "y", "z"}
  MinFamilies = 1
  MinPolicies = 2
  MinChecks = 3
  MaxCommands = 3
  Resolvable = {"p1", "p2"}
  JarContents = {"j1", "j2"}
  PolicyContents = {"p1", "p2", "p3"}
  Source = "jsb"
  MaxEdits = 2
  Missing = Missing
  Invalid = Invalid
  Torn = Torn
  None = None
INVARIANTS
  OracleCallsStayApart
  EquivalenceIsEarned
  RemovalAuditShowsBoth
  PromotionsRestOnEvidence
  MigrationKeepsEvidence
PROPERTY MigrationEnds
