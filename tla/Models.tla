------------------------------- MODULE Models -------------------------------
(***************************************************************************)
(* How models come about and what is said of them: the split of the        *)
(* families, training, the protocols of the commands, the rule that        *)
(* explains the full model, the metrics with their baselines and datasets  *)
(* in memory.  They share no state: a behaviour is of the one component    *)
(* that the initial state names, and the variables of the others are None. *)
(***************************************************************************)
EXTENDS Integers, Sequences, FiniteSets

CONSTANTS
  SplitFamilies, Shapes, Reserved, Ratio, RatioBase, Scale,                \* FamilySplit
  Architectures, Datasets, ForeignGradients, Epochs, BatchSizes, MaxRuns,  \* Training
  Corpora, PolicyOrder, MutationOrder, SeedLists, Variants, SplitOf(_, _), \* Protocols
  AblationCorpora, References, Replacements, Requests, OriginalSeeds,      \* FeatureAblation
  Older, Torn, Refused,
  Scores, Thresholds, RowCounts, MaxRows,                                  \* BaselineComparison
  Texts, TargetColumns, TestRatios, Configs, BatchLengths,                 \* InMemoryDataset
  NotANumber, Text,
  None

VARIABLES component, owner, model, net, head, optimizer, run, grad, history,
          result, runs, applied, used, expected, command, corpus, todo,
          normal, lines, asked, status, seeds, pc, request, input,
          report_file, output, replaced, dataset, reference, split,
          seed_reports, all_match, report, scores, targets, counts, phase,
          groups, shape, pending, part, have,
          csv, target_columns, has_header, at_line, loaded, refusal, indices, parts

Partition == INSTANCE FamilySplit WITH Families <- SplitFamilies
Training == INSTANCE Training
Protocol == INSTANCE Protocols WITH Split <- SplitOf
Ablation == INSTANCE FeatureAblation WITH Corpora <- AblationCorpora
Baselines == INSTANCE BaselineComparison WITH Counts <- RowCounts
Memory == INSTANCE InMemoryDataset
            WITH line <- at_line, rows <- loaded, error <- refusal, Ratios <- TestRatios, BatchSizes <- BatchLengths

ASSUME ModelsAssumption ==
  /\ Partition!SplitAssumption
  /\ Training!TrainingAssumption /\ Training!NoneIsNothing
  /\ Protocol!SplitFillsEveryPart /\ Protocol!ProtocolsAssumption
  /\ Ablation!AblationAssumption
  /\ Baselines!ComparisonAssumption
  /\ Memory!MemoryAssumption

vars == <<component, owner, model, net, head, optimizer, run, grad, history,
          result, runs, applied, used, expected, command, corpus, todo,
          normal, lines, asked, status, seeds, pc, request, input,
          report_file, output, replaced, dataset, reference, split,
          seed_reports, all_match, report, scores, targets, counts, phase,
          groups, shape, pending, part, have,
          csv, target_columns, has_header, at_line, loaded, refusal, indices, parts>>

PartitionOthers == <<owner, model, net, head, optimizer, run, grad, history,
                     result, runs, applied, used, expected, command, corpus,
                     todo, normal, lines, asked, status, seeds, pc, request,
                     input, report_file, output, replaced, dataset, reference,
                     split, seed_reports, all_match, report, scores, targets,
                     counts, csv, target_columns, has_header, at_line, loaded,
                     refusal, indices, parts>>

TrainingOthers == <<command, corpus, todo, normal, lines, asked, status, seeds,
                    pc, request, input, report_file, output, replaced, dataset,
                    reference, split, seed_reports, all_match, report, scores,
                    targets, counts, phase, groups, shape, pending, part, have,
                    csv, target_columns, has_header, at_line, loaded, refusal,
                    indices, parts>>

ProtocolOthers == <<owner, model, net, head, optimizer, run, grad, history,
                    result, runs, applied, used, expected, pc, request, input,
                    report_file, output, replaced, dataset, reference, split,
                    seed_reports, all_match, report, scores, targets, counts,
                    phase, groups, shape, pending, part, have, csv,
                    target_columns, has_header, at_line, loaded, refusal,
                    indices, parts>>

AblationOthers == <<owner, model, net, head, optimizer, run, grad, history,
                    result, runs, applied, used, expected, command, corpus,
                    todo, normal, lines, asked, status, scores, targets,
                    counts, phase, groups, shape, pending, part, have, csv,
                    target_columns, has_header, at_line, loaded, refusal,
                    indices, parts>>

BaselinesOthers == <<owner, model, net, head, optimizer, run, grad, history,
                     result, runs, applied, used, expected, command, corpus,
                     todo, normal, lines, asked, status, seeds, pc, request,
                     input, report_file, output, replaced, dataset, reference,
                     split, seed_reports, all_match, report, phase, groups,
                     shape, pending, part, have, csv, target_columns,
                     has_header, at_line, loaded, refusal, indices, parts>>

MemoryOthers == <<owner, model, net, head, optimizer, run, grad, history,
                  result, runs, applied, used, expected, command, corpus, todo,
                  normal, lines, status, seeds, request, input, report_file,
                  output, replaced, dataset, reference, split, seed_reports,
                  all_match, report, scores, targets, phase, groups, shape,
                  pending, part, have>>

Init ==
  \/ /\ component = "split" /\ Partition!Init
     /\ owner = None /\ model = None /\ net = None /\ head = None
     /\ optimizer = None /\ run = None /\ grad = None /\ history = None
     /\ result = None /\ runs = None /\ applied = None /\ used = None
     /\ expected = None /\ command = None /\ corpus = None /\ todo = None
     /\ normal = None /\ lines = None /\ asked = None /\ status = None
     /\ seeds = None /\ pc = None /\ request = None /\ input = None
     /\ report_file = None /\ output = None /\ replaced = None
     /\ dataset = None /\ reference = None /\ split = None
     /\ seed_reports = None /\ all_match = None /\ report = None
     /\ scores = None /\ targets = None /\ counts = None /\ csv = None
     /\ target_columns = None /\ has_header = None /\ at_line = None
     /\ loaded = None /\ refusal = None /\ indices = None /\ parts = None
  \/ /\ component = "training" /\ Training!Init
     /\ command = None /\ corpus = None /\ todo = None /\ normal = None
     /\ lines = None /\ asked = None /\ status = None /\ seeds = None
     /\ pc = None /\ request = None /\ input = None /\ report_file = None
     /\ output = None /\ replaced = None /\ dataset = None
     /\ reference = None /\ split = None /\ seed_reports = None
     /\ all_match = None /\ report = None /\ scores = None /\ targets = None
     /\ counts = None /\ phase = None /\ groups = None /\ shape = None
     /\ pending = None /\ part = None /\ have = None /\ csv = None
     /\ target_columns = None /\ has_header = None /\ at_line = None
     /\ loaded = None /\ refusal = None /\ indices = None /\ parts = None
  \/ /\ component = "protocols" /\ Protocol!Init
     /\ owner = None /\ model = None /\ net = None /\ head = None
     /\ optimizer = None /\ run = None /\ grad = None /\ history = None
     /\ result = None /\ runs = None /\ applied = None /\ used = None
     /\ expected = None /\ pc = None /\ request = None /\ input = None
     /\ report_file = None /\ output = None /\ replaced = None
     /\ dataset = None /\ reference = None /\ split = None
     /\ seed_reports = None /\ all_match = None /\ report = None
     /\ scores = None /\ targets = None /\ counts = None /\ phase = None
     /\ groups = None /\ shape = None /\ pending = None /\ part = None
     /\ have = None /\ csv = None /\ target_columns = None
     /\ has_header = None /\ at_line = None /\ loaded = None
     /\ refusal = None /\ indices = None /\ parts = None
  \/ /\ component = "ablation" /\ Ablation!Init
     /\ owner = None /\ model = None /\ net = None /\ head = None
     /\ optimizer = None /\ run = None /\ grad = None /\ history = None
     /\ result = None /\ runs = None /\ applied = None /\ used = None
     /\ expected = None /\ command = None /\ corpus = None /\ todo = None
     /\ normal = None /\ lines = None /\ asked = None /\ status = None
     /\ scores = None /\ targets = None /\ counts = None /\ phase = None
     /\ groups = None /\ shape = None /\ pending = None /\ part = None
     /\ have = None /\ csv = None /\ target_columns = None
     /\ has_header = None /\ at_line = None /\ loaded = None
     /\ refusal = None /\ indices = None /\ parts = None
  \/ /\ component = "baselines" /\ Baselines!Init
     /\ owner = None /\ model = None /\ net = None /\ head = None
     /\ optimizer = None /\ run = None /\ grad = None /\ history = None
     /\ result = None /\ runs = None /\ applied = None /\ used = None
     /\ expected = None /\ command = None /\ corpus = None /\ todo = None
     /\ normal = None /\ lines = None /\ asked = None /\ status = None
     /\ seeds = None /\ pc = None /\ request = None /\ input = None
     /\ report_file = None /\ output = None /\ replaced = None
     /\ dataset = None /\ reference = None /\ split = None
     /\ seed_reports = None /\ all_match = None /\ report = None
     /\ phase = None /\ groups = None /\ shape = None /\ pending = None
     /\ part = None /\ have = None /\ csv = None /\ target_columns = None
     /\ has_header = None /\ at_line = None /\ loaded = None
     /\ refusal = None /\ indices = None /\ parts = None
  \/ /\ component = "memory" /\ Memory!Init
     /\ owner = None /\ model = None /\ net = None /\ head = None
     /\ optimizer = None /\ run = None /\ grad = None /\ history = None
     /\ result = None /\ runs = None /\ applied = None /\ used = None
     /\ expected = None /\ command = None /\ corpus = None /\ todo = None
     /\ normal = None /\ lines = None /\ status = None /\ seeds = None
     /\ request = None /\ input = None /\ report_file = None /\ output = None
     /\ replaced = None /\ dataset = None /\ reference = None /\ split = None
     /\ seed_reports = None /\ all_match = None /\ report = None
     /\ scores = None /\ targets = None /\ phase = None /\ groups = None
     /\ shape = None /\ pending = None /\ part = None /\ have = None

Next ==
  \/ component = "split" /\ Partition!Next /\ UNCHANGED <<component, PartitionOthers>>
  \/ component = "training" /\ Training!Next /\ UNCHANGED <<component, TrainingOthers>>
  \/ component = "protocols" /\ Protocol!Next /\ UNCHANGED <<component, ProtocolOthers>>
  \/ component = "ablation" /\ Ablation!Next /\ UNCHANGED <<component, AblationOthers>>
  \/ component = "baselines" /\ Baselines!Next /\ UNCHANGED <<component, BaselinesOthers>>
  \/ component = "memory" /\ Memory!Next /\ UNCHANGED <<component, MemoryOthers>>

(* What is called goes on until it returns; nobody has to call.            *)
Spec ==
  /\ Init /\ [][Next]_vars
  /\ WF_vars(component = "training" /\ Training!Running /\ UNCHANGED <<component, TrainingOthers>>)
  /\ WF_vars(component = "protocols" /\ Protocol!Step /\ UNCHANGED <<component, ProtocolOthers>>)
  /\ WF_vars(component = "ablation" /\ Ablation!Command /\ UNCHANGED <<component, AblationOthers>>)
  /\ WF_vars(component = "memory" /\ Memory!Working /\ UNCHANGED <<component, MemoryOthers>>)

-----------------------------------------------------------------------------
(* Whatever the families and however ties fall: no part of a split is      *)
(* empty, and every family is in one part.                                 *)
PartitionsAreFilled == component = "split" => Partition!TypeOK /\ Partition!SplitSound

(* Over calls that fail at any row, step or validation: a model has all    *)
(* the updates of the trainings that succeeded and none of the others,     *)
(* every row is used once per epoch, a step that fails half way was never  *)
(* the trainer's and leaves the earlier neurons ahead, and the optimizer's *)
(* state holds the steps that were applied.                                *)
ModelsAreWhole ==
  component = "training" =>
    /\ Training!TypeOK /\ Training!ModelIsWhole /\ Training!EveryRowEveryEpoch
    /\ Training!TrainerNeverHalfUpdates /\ Training!EarlierNeuronsLead /\ Training!StateHoldsAppliedSteps

(* In every command, corpus and split: nothing a model saw is scored, nor  *)
(* any of its families, but as a challenge of a corpus that has them in    *)
(* both roles; what a protocol holds out is in no part of its training,    *)
(* the seeds take turns, and the paired challenge compares policies under  *)
(* one model.                                                              *)
ProtocolsHoldOut ==
  component = "protocols" =>
    /\ Protocol!TypeOK /\ Protocol!PartitionsStayApart /\ Protocol!HeldOutStaysOut
    /\ Protocol!SeedsTakeTurns /\ Protocol!PairedIsCounterfactual

(* The ablation says CONFIRMED when every seed agrees with the reference   *)
(* it names, its rule is the best of its training part, and no family      *)
(* votes where it is scored.                                               *)
ConfirmedIsTrue ==
  component = "ablation" =>
    /\ Ablation!TypeOK /\ Ablation!ConfirmedMeansEverySeed /\ Ablation!RuleIsTheBest
    /\ Ablation!ScoredFamiliesDidNotVote /\ Ablation!NamedReferenceIsCompared

(* The metrics are shares of all rows whichever denominators vanish, F1 is *)
(* Dice's, thresholds trade one mistake for the other, and the majority    *)
(* baseline is the best constant guess.                                    *)
MetricsAgree ==
  component = "baselines" =>
    /\ Baselines!EvaluatedIsWhole /\ Baselines!F1IsDice /\ Baselines!ThresholdsTrade
    /\ Baselines!MistakesAreNamed /\ Baselines!MajorityIsBestConstant

(* No row is lost or shifted by blank lines and headers, every row is in   *)
(* one part of a split, and however few rows there are or small a ratio    *)
(* is, no part is empty or farther from its ratio than that takes.         *)
RowsAreKept ==
  component = "memory" =>
    /\ Memory!TypeOK /\ Memory!RowsAreTheLines /\ Memory!PartsPartition
    /\ Memory!NoPartIsEmpty /\ Memory!PartsFollowRatios

(* A training, a command of the protocols, an ablation and a call on a     *)
(* dataset that were started end, and an ablation that ended well has      *)
(* written its report.                                                     *)
CallsEnd ==
  /\ component = "training" => Training!TrainingEnds
  /\ component = "protocols" => Protocol!CommandEnds
  /\ component = "ablation" => Ablation!AblationEnds
  /\ component = "memory" => Memory!CallsEnd

=============================================================================
