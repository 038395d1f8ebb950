------------------------------ MODULE Evidence ------------------------------
(***************************************************************************)
(* What the labels rest on: the calls of the oracle, the audit of a new    *)
(* JAR against the preserved one, the audit of the removal mechanism, the  *)
(* reports and promotions, and the migration of what was labelled.  They   *)
(* share no state in the program: a behaviour is of the one component that *)
(* the initial state names, and the variables of the others are None.  A   *)
(* variable that several components have is that of the one that runs.     *)
(***************************************************************************)
EXTENDS Naturals, Sequences

CONSTANTS
  Callers, ProcessOf, PairOf, Linters, AuditScopeOf, JarVersions, PolicyVersions,
  Fixture, FixtureNamed, Replies, Missing, Invalid,                         \* PolicyOracle
  Datasets, Frozen, Sources, V9, Answers,                                   \* EquivalenceAudit
  Cases, Outputs, MaxOdd, MaxRuns,                                          \* RemovalAudit
  Processes, Paths, Captured, Legacy, MinFamilies, MinPolicies, MinChecks,
  Selections, MaxCommands,                                                  \* OracleEvidence
  Inputs, Generated, Ready(_), SampledFamilies, Proposed, Profile, Resolvable,
  JarContents, PolicyContents, Source, MaxEdits,                            \* FeatureMigration
  MaxReplaced, Torn, None

VARIABLES component,
          jar, policy, replaced, adapter, sequence, pc, dir, dirs, judged, outcome, file, phase,
          dataset, jobs, probe, controls, invocations, report, running, preflights, odd, runs,
          job, commands, captured,
          input, output, outside, edits, place, read, rebuilt, reported, evaluated

Oracle      == INSTANCE PolicyOracle
Equivalence == INSTANCE EquivalenceAudit
Removal     == INSTANCE RemovalAudit
Promotion   == INSTANCE OracleEvidence
Migration   == INSTANCE FeatureMigration WITH Families <- SampledFamilies

ASSUME EvidenceAssumption ==
  /\ Oracle!OracleAssumption
  /\ Equivalence!AuditAssumption
  /\ Removal!AuditAssumption
  /\ Promotion!EvidenceAssumption
  /\ Migration!MigrationAssumption

vars == <<component,
          jar, policy, replaced, adapter, sequence, pc, dir, dirs, judged, outcome, file, phase,
          dataset, jobs, probe, controls, invocations, report, running, preflights, odd, runs,
          job, commands, captured,
          input, output, outside, edits, place, read, rebuilt, reported, evaluated>>

OracleOthers == <<file, phase, dataset, jobs, probe, controls, invocations, report, running, preflights, odd,
                    runs, job, commands, captured, input, output, outside, edits, place, read, rebuilt,
                    reported, evaluated>>

EquivalenceOthers == <<jar, policy, adapter, sequence, pc, dir, dirs, judged, outcome, running, preflights, odd, runs,
                         job, commands, captured, input, output, outside, edits, place, read, rebuilt,
                         reported, evaluated>>

RemovalOthers == <<jar, policy, replaced, adapter, sequence, pc, dir, dirs, judged, outcome, phase, dataset, jobs,
                     probe, controls, report, job, commands, captured, input, output, outside,
                     edits, place, read, rebuilt, reported, evaluated>>

PromotionOthers == <<jar, policy, replaced, adapter, sequence, pc, dir, dirs, judged, outcome, phase, dataset, jobs,
                       probe, controls, invocations, report, running, preflights, odd, runs, input,
                       output, outside, edits, place, read, rebuilt, reported, evaluated>>

MigrationOthers == <<jar, policy, replaced, adapter, sequence, pc, dir, dirs, judged, outcome, file, phase, dataset,
                       jobs, probe, controls, invocations, report, running, preflights, odd, runs, job,
                       commands, captured>>

Init ==
  \/ /\ component = "oracle" /\ Oracle!Init
     /\ file = None /\ phase = None /\ dataset = None /\ jobs = None /\ probe = None
     /\ controls = None /\ invocations = None /\ report = None /\ running = None
     /\ preflights = None /\ odd = None /\ runs = None /\ job = None /\ commands = None
     /\ captured = None
     /\ input = None /\ output = None /\ outside = None /\ edits = None /\ place = None
     /\ read = None /\ rebuilt = None /\ reported = None /\ evaluated = None
  \/ /\ component = "equivalence" /\ Equivalence!Init
     /\ jar = None /\ policy = None /\ adapter = None /\ sequence = None /\ pc = None
     /\ dir = None /\ dirs = None /\ judged = None /\ outcome = None /\ running = None
     /\ preflights = None /\ odd = None /\ runs = None /\ job = None /\ commands = None
     /\ captured = None
     /\ input = None /\ output = None /\ outside = None /\ edits = None /\ place = None
     /\ read = None /\ rebuilt = None /\ reported = None /\ evaluated = None
  \/ /\ component = "removal" /\ Removal!Init
     /\ jar = None /\ policy = None /\ replaced = None /\ adapter = None /\ sequence = None
     /\ pc = None /\ dir = None /\ dirs = None /\ judged = None /\ outcome = None
     /\ phase = None /\ dataset = None /\ jobs = None /\ probe = None /\ controls = None
     /\ report = None /\ job = None /\ commands = None /\ captured = None
     /\ input = None /\ output = None /\ outside = None /\ edits = None /\ place = None
     /\ read = None /\ rebuilt = None /\ reported = None /\ evaluated = None
  \/ /\ component = "promotion" /\ Promotion!Init
     /\ jar = None /\ policy = None /\ replaced = None /\ adapter = None /\ sequence = None
     /\ pc = None /\ dir = None /\ dirs = None /\ judged = None /\ outcome = None
     /\ phase = None /\ dataset = None /\ jobs = None /\ probe = None /\ controls = None
     /\ invocations = None /\ report = None /\ running = None /\ preflights = None
     /\ odd = None /\ runs = None
     /\ input = None /\ output = None /\ outside = None /\ edits = None /\ place = None
     /\ read = None /\ rebuilt = None /\ reported = None /\ evaluated = None
  \/ /\ component = "migration" /\ Migration!Init
     /\ jar = None /\ policy = None /\ replaced = None /\ adapter = None /\ sequence = None
     /\ pc = None /\ dir = None /\ dirs = None /\ judged = None /\ outcome = None /\ file = None
     /\ phase = None /\ dataset = None /\ jobs = None /\ probe = None /\ controls = None
     /\ invocations = None /\ report = None /\ running = None /\ preflights = None
     /\ odd = None /\ runs = None /\ job = None /\ commands = None /\ captured = None

Next ==
  \/ component = "oracle" /\ Oracle!Next /\ UNCHANGED <<component, OracleOthers>>
  \/ component = "equivalence" /\ Equivalence!Next /\ UNCHANGED <<component, EquivalenceOthers>>
  \/ component = "removal" /\ Removal!Next /\ UNCHANGED <<component, RemovalOthers>>
  \/ component = "promotion" /\ Promotion!Next /\ UNCHANGED <<component, PromotionOthers>>
  \/ component = "migration" /\ Migration!Next /\ UNCHANGED <<component, MigrationOthers>>

(* A migration that was started goes on until it ends.                     *)
Spec ==
  /\ Init /\ [][Next]_vars
  /\ WF_vars(component = "migration" /\ Migration!Migrate /\ UNCHANGED <<component, MigrationOthers>>)

-----------------------------------------------------------------------------
(* Threads and processes that stage in one workspace, whose files may be   *)
(* replaced meanwhile: the JAR judges the pair of the caller under the     *)
(* policy that was copied for it, nobody disturbs its directory while the  *)
(* call lasts, and only a decision of the JAR becomes a label.             *)
OracleCallsStayApart ==
  component = "oracle" =>
    Oracle!TypeOK /\ Oracle!EachCallItsPair /\ Oracle!StagedAlone /\ Oracle!LabelsAreDecisions

(* The equivalence audit replays historical pairs of one seed only, gives  *)
(* a verdict only after every control has passed, the verdict and the      *)
(* tables say what was answered, and the traces what was printed.          *)
EquivalenceIsEarned ==
  component = "equivalence" =>
    /\ Equivalence!TypeOK /\ Equivalence!OnlyHistoricalPairs /\ Equivalence!VerdictIsEarned
    /\ Equivalence!CountsAddUp /\ Equivalence!TracesShowV10

(* A removal audit that passed shows the three severities in both modes on *)
(* one accepted pair of schemas, and every finding of FORWARD in FULL.     *)
RemovalAuditShowsBoth == component = "removal" => Removal!SeverityLadder /\ Removal!FullContainsForward

(* Through reclassifying, merging, promoting and crashes, the runs of a    *)
(* report are of the JAR that it names, a promotion reaches its thresholds *)
(* with nothing against it, and no scope has two labels.                   *)
PromotionsRestOnEvidence ==
  component = "promotion" =>
    Promotion!TypeOK /\ Promotion!EvidenceIsTheJars /\ Promotion!PromotionsAreEarned /\ Promotion!OneLabelPerScope

(* Files that are replaced and commands that end half way: a migrated      *)
(* corpus has the features of the pairs that were judged, is what was      *)
(* loaded but for them, is not evaluated without its own gate, and is      *)
(* there only once its command has renamed it.                             *)
MigrationKeepsEvidence ==
  component = "migration" =>
    /\ Migration!TypeOK /\ Migration!FeaturesBelongToPairs /\ Migration!OnlyFeaturesChange
    /\ Migration!EvaluatedWereAudited /\ Migration!OutputOnlyWhenRenamed

(* The migration ends.                                                     *)
MigrationEnds == component = "migration" => Migration!MigrationEnds

=============================================================================
