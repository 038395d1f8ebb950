SPECIFICATION Spec
CONSTANTS
  Writers <- MCWriters
  Readers <- MCReaders
  Commands <- MCCommands
  Candidates <- MCCandidates
  Foreign <- MCForeign
  Width <- MCWidth
  BaseVersion <- MCBaseVersion
  Seeds <- MCSeeds
  PinTables <- MCPinTables
  Contents <- MCContents
  Replacing <- MCReplacing
  Registered <- MCRegistered
  Packs <- MCPacks
  Slots <- MCSlots
  Schemas <- MCSchemas
  Bodies <- MCBodies
  Probe <- MCProbe
  Features <- MCFeatures
  Score <- MCScore
  MaxAnswers <- MCMaxAnswers
  Documents <- MCDocuments
  Requests <- MCRequests
  Rules <- MCRules
  Baseline <- MCBaseline
  Malformed = Malformed
  None = None
INVARIANTS
  ArtifactsAreSound
  ServesWhatWasPinned
  PacksStandAlone
PROPERTY ServicesEnd
