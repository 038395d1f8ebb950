SPECIFICATION EvaluationSpec
CONSTANTS
  None = None
  Torn = Torn
  Context <- MCContext
  MaxDistance = 1
  PairStructural <- MCPairStructural
  Versions <- MCVersions
  First <- MCFirst
  Registered <- MCRegistered
  BinaryLabels = {"SAFE", "BREAKING"}
  RecordIds = {"f", "n"}
  Limit = 1
  SwapWhileRead = FALSE
  MaxSwaps = 1
  MaxCommands = 2
  TrackStructural <- MCTrackStructural
  Slots = {s1, s2, s3}
  Manifests <- MCManifests
  V9 <- MCV9
  Profile <- MCProfile
  Candidates <- MCCandidates
  MinFamilies = 1
  Jars = {"J", "J2"}
  FrozenJar = "J"
  PinnedPacks = "P"
  MaxTrackCommands = 1
  Commands = {k1, k2}
  Corpora <- MCCorpora
  Replacements = {"good"}
  Seeds = {1, 2}
  TrainOf <- MCTrainOf
  Stem <- MCStem
  Overlap = FALSE
SYMMETRY Alike
INVARIANT JarSeesGatedPairsOnly
