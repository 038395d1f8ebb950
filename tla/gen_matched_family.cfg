SPECIFICATION Spec
CONSTANTS
  NoLimit = NoLimit
  NoTarget = NoTarget
  NoSeed = NoSeed
  Seeds <- CoveredSeeds
  FamilyOf <- CoveredMatchedFamilies
  ProfileOf <- CoveredProfileOf
  SchemaOf <- CoveredSchemaOf
  Proposals <- CoveredProposals
  PolicyPacks <- CoveredPolicyPacks
  OptionalKind = "optional_field_added"
  Promotions <- NoPromotions
  MaxSeedSchemas = 2
  MutationFilter <- CoveredFilter
  AllowedVariants <- CoveredAllowed
  KeepVariantsOf <- CoveredKeepVariants
  PerOutcome = NoLimit
  PerStratum = 1
  HashReserved <- CoveredNone
  CoverageTarget <- CoveredTarget
  MayAnswer <- CoveredMayAnswer
INVARIANTS
  ReturnedFamiliesIsolated
