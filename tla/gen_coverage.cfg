SPECIFICATION Spec
CONSTANTS
  NoLimit = NoLimit
  NoTarget = NoTarget
  NoSeed = NoSeed
  Seeds <- CoveredSeeds
  FamilyOf <- CoveredOwnFamilies
  ProfileOf <- CoveredProfileOf
  SchemaOf <- CoveredSchemaOf
  Proposals <- CoveredProposals
  PolicyPacks <- CoveredPolicyPacks
  OptionalKind = "optional_field_added"
  Promotions <- NoPromotions
  MaxSeedSchemas = 6
  MutationFilter <- CoveredFilter
  AllowedVariants <- CoveredAllowed
  KeepVariantsOf <- CoveredKeepVariants
  PerOutcome = NoLimit
  PerStratum = 1
  HashReserved <- CoveredHashReserved
  CoverageTarget <- CoveredTarget
  MayAnswer <- CoveredMayAnswer
INVARIANT
  CoverageClaimMatchesArtifact
PROPERTY
  OnlyReservationTouchesRecords
