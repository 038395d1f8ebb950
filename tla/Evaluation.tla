----------------------------- MODULE Evaluation -----------------------------
(***************************************************************************)
(* The commands that evaluate: the external evaluation, the isolated       *)
(* FORWARD optional track and the experiments.  They share no state in the *)
(* program: a behaviour is of the one component that the initial state     *)
(* names, and the variables of the others are None.  The experiments are   *)
(* the ones extended, for TLC's sake: it keeps the constants of an         *)
(* extended module, and computes those of an instance whenever they are    *)
(* asked for.                                                              *)
(***************************************************************************)
EXTENDS Experiment

CONSTANTS
  Context, MaxDistance,                                                    \* ExternalManifest
  PairStructural, Versions, First, Registered, BinaryLabels, RecordIds,    \* ExternalEvaluation
  Limit, SwapWhileRead, MaxSwaps, MaxCommands,
  TrackStructural, Slots, Manifests, V9, Profile, Candidates, MinFamilies, \* IsolatedTrack
  Jars, FrozenJar, PinnedPacks, MaxTrackCommands, Torn

VARIABLES component,
          files, job, written, commands, swaps, asked, disk

External == INSTANCE ExternalEvaluation WITH Structural <- PairStructural, Labels <- BinaryLabels
Track == INSTANCE IsolatedTrack WITH Structural <- TrackStructural, MaxCommands <- MaxTrackCommands

ASSUME CommandsAssumption ==
  /\ External!ManifestAssumption /\ External!EvaluationAssumption
  /\ Track!ManifestAssumption /\ Track!TrackAssumption
  /\ ExperimentAssumption

evaluation_vars == <<component,
          files, job, written, commands, swaps, asked, disk, file, swapped, dir, cmd>>

ExternalOthers == <<disk, file, swapped, dir, cmd>>

TrackOthers == <<files, written, swaps, file, swapped, dir, cmd>>

BaseOthers == <<files, job, written, commands, swaps, asked, disk>>

EvaluationInit ==
  \/ /\ component = "external" /\ External!Init
     /\ disk = None /\ file = None /\ swapped = None /\ dir = None /\ cmd = None
  \/ /\ component = "track" /\ Track!Init
     /\ files = None /\ written = None /\ swaps = None /\ file = None /\ swapped = None
     /\ dir = None /\ cmd = None
  \/ /\ component = "experiment" /\ Init
     /\ files = None /\ job = None /\ written = None /\ commands = None /\ swaps = None
     /\ asked = None /\ disk = None

EvaluationNext ==
  \/ component = "external" /\ External!Next /\ UNCHANGED <<component, ExternalOthers>>
  \/ component = "track" /\ Track!Next /\ UNCHANGED <<component, TrackOthers>>
  \/ component = "experiment" /\ Next /\ UNCHANGED <<component, BaseOthers>>

EvaluationSpec == EvaluationInit /\ [][EvaluationNext]_evaluation_vars

-----------------------------------------------------------------------------
(* Whatever is replaced between two commands: what the external evaluation *)
(* scores is isolated from V9 and approved, its matrices count it, and the *)
(* preflight and the diagnostic of the same inputs agree with it.          *)
ExternalScoresAreIsolated ==
  component = "external" =>
    /\ External!ScoredAreIsolated /\ External!NothingAskedUnapproved /\ External!MetricsAreOfScored
    /\ External!PreflightPredicts /\ External!DiagnosisAgrees

(* Through generations and promotions that crash or are refused half way,  *)
(* manifests and JARs that are replaced between two readings: what the     *)
(* gate let through stays away from V9 in every question, and all that is  *)
(* asked does where the manifest is the gated one; a corpus lies beside    *)
(* the gate it passed, evidence tells what is on disk, and what is stamped *)
(* ready was earned.                                                       *)
TrackStaysIsolated ==
  component = "track" =>
    /\ Track!GatedStaysAway /\ Track!AskedAsGatedAreApart /\ Track!CorpusFollowsItsGate
    /\ Track!EvidenceDescribesDisk /\ Track!ReadyIsEarned

(* "A rejected source/family/pair/feature record cannot reach a JAR        *)
(* invocation" (main.rs:477).                                              *)
JarSeesGatedPairsOnly == component = "track" => Track!AskedPairsPassTheGate

(* Nothing held out reaches the models that are scored on it, the models   *)
(* of a report are there and are this run's, its protocols have one fate   *)
(* in all seeds, and the audit of near duplicates is of those models.      *)
HeldOutIsUnseen ==
  component = "experiment" =>
    /\ TypeOK /\ HeldOutStaysOut /\ ReportedModelsAreThere
    /\ OneFatePerProtocol /\ AuditIsOfTheModels /\ SamplesShowTheWorst

=============================================================================
