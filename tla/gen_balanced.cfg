SPECIFICATION FairSpec
CONSTANTS
  NoLimit = NoLimit
  NoTarget = NoTarget
  NoSeed = NoSeed
  Seeds <- BalancedSeeds
  FamilyOf <- BalancedFamilyOf
  ProfileOf <- BalancedProfileOf
  SchemaOf <- BalancedSchemaOf
  Proposals <- BalancedProposals
  PolicyPacks <- BalancedPolicyPacks
  OptionalKind = "optional_field_added"
  Promotions <- NoPromotions
  MaxSeedSchemas = 3
  MutationFilter <- BalancedNone
  AllowedVariants <- BalancedNoAllowlist
  KeepVariantsOf <- BalancedNone
  PerOutcome = 2
  PerStratum = NoLimit
  HashReserved <- BalancedHashReserved
  CoverageTarget = NoTarget
  MayAnswer <- BalancedMayAnswer
INVARIANTS
  PairRetainedOnce
  ReportDescribesRecords
  FamilyKeepsOneRole
  VariableOutcomesHeldOut
  StopsOnlyWhenEntitled
PROPERTY
  Terminates
