# A verification development of dcgaimodel

dcgaimodel predicts whether a change of a JSON contract is safe, risky or
breaking. The neural network is the small part of it. Most of the code builds,
audits and splits the corpus that the network learns from, and that is where a
mistake is silent: a pair counted twice, a family on both sides of a holdout, a
coverage verdict about a corpus that is not the one stored, a matrix with a run
missing because a thread failed. These modules are about that code. Paths below
are relative to the repository's `src/`.

## Inventory

| Part | Code | State it keeps | Operations | What makes it hard | What makes it correct |
|---|---|---|---|---|---|
| Corpus generation | `generation/dataset.rs` | records, retained fingerprints, stratum counters, report, verdict | `generate`: pull a seed, order its candidates, label, retain or skip, reserve, audit, stop | six exits of one loop body, two quota scopes, roles that change after records were counted | each pair once; counters describe the records; caps held; families keep one role; the verdict is that of the stored corpus; it stops only when entitled |
| Oracle calls of a candidate | `check_candidate_policies`, same file | ordered runs, handles of a chunk | one call per policy pack, serial or by scoped threads | threads end in any order; errors and panics of joined and unjoined threads | same result as the serial loop; bounded processes; it returns |
| Pinned oracle | `generation/oracle.rs` | hashes of JAR and policy file, staging sequence | `check`, `preflight`: stage, run, read the exit code, clean up | external process without a timeout; a hash taken once of files that may change; workspaces shared by threads and processes | a call is judged on its own pair; a crash of the JVM is not a label |
| Mutation proposals | `generation/mutation.rs` | none | `candidates_for_schema`: nine stages that propose one change each | names and values chosen against what the schema has | unique variants, one change each, tightening that tightens |
| Conformance matrix | `generation/conformance.rs` | job index, shared runs, failure cell | preflight, admit families, pool of workers, join | failure seen late, claims racing, partial families | every call of every admitted job once, or an error; returns; whole families only |
| Equivalence replay | `generation/equivalence.rs` | job index, channel, result slots; tables of the report | verify, rebuild, controls, `run_replay_jobs`, report | receiver dropped while workers send; files replaced between hash and read | every index answered once, or the error; only historical pairs; a verdict that was earned |
| Prepared dataset | `models/prepared_dataset.rs` | immutable records, readiness stamp | gate, challenge subsets, `split_by_group`, `training_readiness`, save and load | greedy balance with a forced phase | no partition empty; no family in two partitions; the gate says what it claims |
| Oracle evidence | `models/oracle_evidence.rs` and four commands | report and manifest files | capture, reclassify, merge, promote, match | files derived from files, written in place; reviewer selections | every run is the JAR's; only uniform evidence is promoted |
| Command line | `main.rs` | files | 23 commands, each with its checks, reads and writes | several files written one after the other, refusal to overwrite, inputs that are replaced | evidence never describes another corpus |
| Isolated track | `main.rs` | corpus, preflight report, evidence | generate, promote | three files, a gate before the JAR | no pair of V9 reaches the JAR; what is stamped was audited |
| Feature ablation | `main.rs` | one report | learn a one-feature rule per seed, compare | a verdict over three seeds and a file of another run | CONFIRMED means every seed; no scored family voted |
| Experiments | `models/experiment.rs` | output directory with models and report | gate, fit and score each protocol and seed, near-duplicate audit | what a protocol may train on; a directory that is checked once | nothing held out is trained on; a report names what is there |
| External evaluation | `models/external_evaluation.rs` | none; a report | manifest, pairing and contamination gates, labels, scores | many gates with an order; six inputs read at different times | a scored transition passed all of them |
| Training | `training/trainer.rs`, `nn/` | network, moments, time step | epoch, batch, optimizer step | an error in the middle | network and optimizer in step |
| Artifacts, pipeline | `models/artifact.rs`, `models/pipeline.rs`, `inference/` | files, a loaded runtime | build, save, load, predict; fit and score | write then rename; constructors and loaders that check different things | a file is complete or absent; what predicts is sound; no family on both sides of a score |
| Shadow service | `api/shadow_inference.rs` | policy and models, immutable after start-up | start, predict, ready | files replaced during start-up; concurrent requests | serves what was pinned; same request, same answer |
| Features | `features/` | none | policy contexts, V2 to V6 vectors | spelling, defaults, nesting | a declared pack stands alone; a vector shows the rule a mutation breaks |
| Metrics | `evaluation/` | none | matrix, thresholds, baselines | zero denominators, ties | metrics are those of all rows |
| In-memory data | `dataset/`, `preprocessing/` | rows | read CSV, validate, split, batch | rounding of ratios for few rows | each row in one part, no part empty |
| Numeric kernel | `linalg/`, `losses/`, `activations/` | none | pure functions | floating point | - |

How they interact. `main.rs` calls the generator; the generator samples
sources, proposes mutations, calls the oracle through the batch and the gate
through `coverage_status`. The gate reads promotions; the conformance matrix
feeds the evidence, the evidence the promotions, and these the gate. A corpus
that passed the gate is stamped and saved; migrations, experiments, training
commands, the ablation and external evaluations load it, each with its own
checks. Models that were saved are loaded by runtimes, by external evaluations
and by the shadow service. Between any two of these lies a file, which another
process may have replaced.

The hazards of the code, each at its line, are listed in `PROJECT.json` with the
properties that guard against them.

## Modules

The corpus and its oracle:

| Module | Models | How |
|---|---|---|
| `GeneralizationGate` | `generalization_readiness_with_promotions`, `challenge_subset`, `matching` | operators over a set of records; no state |
| `DatasetGenerator` | `generate` and the functions it calls in `generation/dataset.rs` | `phase` is the place in the loop; one action per stage of the loop body and per exit of it. Extends the gate, which its coverage audit evaluates |
| `SourceSampling` | `load_sampled_with_profile` | one action per kind of row; a map is a function from ordered keys |
| `MutationProposals` | `candidates_for_value` and its helpers | one action per stage over abstract schemas |
| `OracleBatch` | `check_candidate_policies` | the calling thread and one thread per policy of a chunk |
| `PolicyOracle` | `PinnedOracle`: construction, `check`, `preflight`, staging, exit codes | threads of several processes step through their calls while the JAR and policy files are replaced |
| `EvidenceMatrix` | nothing: what a conformance build or a replay promises | abstract specification |
| `ConformancePool` | both builders of `generation/conformance.rs`, `preflight_jobs`, `retain_first_families`, `run_jobs_in_parallel` | one `pc` per worker; one action between any two accesses to shared state. Implements `EvidenceMatrix` |
| `ReplayPool` | `run_replay_jobs` | workers, a channel whose receiver is dropped at the first error, the calling thread. Implements `EvidenceMatrix` |
| `EquivalenceAudit` | `run_backward_equivalence_audit` and its command | phases of the audit over files that are replaced; the replay is one step |
| `RemovalAudit` | `build_forward_removal_mechanism_audit` and its command | one action per call of the JAR, which may answer wrongly |
| `OracleEvidence` | `models/oracle_evidence.rs` and the commands that capture, reclassify, merge and promote | two commands at a time over three paths, with torn files |
| `FamilySplit` | `split_by_group`, `split_balance_score` | one action per placed family; scores are exact integers |
| `FeatureMigration` | `refeature-v6`, and saving, stamping and loading corpora | one action per file read, per record and per step of the save |
| `IsolatedTrack` | the isolated generation and its promotion in `main.rs` | extends `ExternalManifest`, whose gate it calls; gate and plan each read the manifest; three files per invocation |

Training and use:

| Module | Models | How |
|---|---|---|
| `Training` | `nn/network.rs`, the optimizers, `Trainer`, the two models | a neuron is its width and its count of updates; an update goes neuron by neuron |
| `Protocols` | the pipelines and the four training commands | one action per protocol and seed; a fit is the sets of records it is made of |
| `Experiment` | `models/experiment.rs` and its commands | one action per check, per fitted seed and per write, for two commands on one directory |
| `FeatureAblation` | `run-feature-ablation` | one action per file read and per seed; extends `BinaryMetrics` |
| `BinaryMetrics`, `BaselineComparison` | `evaluation/` without regression | operators on exact fractions; a set of rows that grows, to compare them on |
| `ExternalManifest`, `ExternalEvaluation` | `models/external_evaluation.rs` and its commands | operators for what a manifest and a corpus decide; one action per input read and per transition |
| `ModelArtifact` | `models/artifact.rs`, `inference/` | writers that save by a temporary file and a rename, readers that load and predict |
| `ShadowInference` | `api/shadow_inference.rs` | one action per file of the start-up, and per model of a request |
| `PolicyContexts`, `SchemaFeatures` | `features/` from V2 to V6 | resolution of packs, entry by entry; the vector of every mutation that `MutationProposals` makes |
| `InMemoryDataset` | `dataset/mod.rs` | one action per line read and per adjustment of the partition sizes |

Four modules compose components that share no state, one running in a
behaviour, with their constants as parameters: `Models` has `FamilySplit`,
`Training`, `Protocols`, `FeatureAblation`, `BaselineComparison` and `InMemoryDataset`; `Evidence` has `PolicyOracle`,
`EquivalenceAudit`, `RemovalAudit`, `OracleEvidence` and `FeatureMigration`; `Serving` has
`ModelArtifact`, `ShadowInference` and `PolicyContexts`; `Evaluation` has
`ExternalEvaluation`, `IsolatedTrack` and `Experiment`. The modules
`DatasetGeneratorProofs`, `ConformancePoolProofs`, `ReplayPoolProofs`,
`OracleBatchProofs`, `EvidenceProofs`, `ServingProofs`, `EvaluationProofs`
and `ModelsProofs` hold theorems; the `MC*` modules hold the small instances,
`MCGenerator` those of all three runs of the generator.

### What is abstracted, and how

In all modules a hash is the content it is of, so two hashes agree exactly when
the contents do; a file is `None`, torn, or a content; an error message is left
out unless a property is about it. A history variable is named as such in its
module. "Bound" marks the constants and guards that only keep TLC finite.

* *Generator.* A record is its seed, mutation kind, variant, policy, answer, role
  and fingerprint; features, sources and versions are read by no decision of
  that code. A fingerprint is the triple of base schema, candidate schema and
  policy; JAR hash and mode do not change during a run. The answer `"silent"` is
  a breaking exit with an empty standard output: it is labelled breaking, and
  the gate refuses a corpus that holds one. The calls of one candidate are one
  step with one answer per policy in declared order: `OracleBatch` shows that a
  batch returns just that (`SameAsSerial`), and `generate` reads no shared state
  while it waits. `Proposals` gives `<<>>` to a seed that is blank, unparsable
  or without a supported mutation, which are all counted as skipped. Seeds may
  come in any order. Strata are counted in bags. `report.accepted` stands for
  `oracle_safe`, `oracle_warning` and `oracle_breaking`.
* *Pools.* A job is its position in the builder's vector. The conformance report
  sorts its runs by a key that no two calls share, so the shared list is kept as
  a count per call. `Relaxed` ordering on the index is enough for a single
  atomic counter, so `Claim` is one step. Dropping the receiver and emptying the
  channel are one step, as in the standard library, where a later send fails.
* *Split.* A tie of two scores may go either way. In the code the lowest
  partition wins after rounding in `f64`; what the model shows holds for either.
  Families of equal size may be placed in any order, which stands for every
  value of `stable_group_hash`. `Protocols`, `Experiment` and `FeatureAblation`
  take a split as given: a function from families to parts that leaves none
  empty, which is what `SplitSound` says of `FamilySplit`.
* *Oracle.* The Java program is `Replies`, the exits and prints it may give to
  any pair. File system calls may fail at any point.
* *Evidence, corpora, artifacts.* Files written in place go through a torn state;
  files written by temporary and rename do not, and leave the temporary behind
  when the process dies. Parsing a torn or foreign file fails.
* *Schemas.* A schema is its properties and root keywords, a property its
  keywords. Keywords that the modelled code neither reads nor writes are left
  out. Names are sequences where joining them with dots matters.
* *Numbers.* Weights, losses and gradients are left out; that a value is not
  finite, or that a batch diverges, is a choice. Metrics are exact fractions,
  ratios whole hundredths. `FeatureAblation` compares decimals as the code does
  where they survive a round trip through JSON; where a quotient may not, either
  outcome is allowed.
* *External features.* The V6 vector of a pair is a tuple of structural
  coordinates with the coordinates of its policy context. Feature extraction in
  `ExternalManifest`, `FeatureMigration` and `ShadowInference` is a function of
  pair and pack; `SchemaFeatures` has what it computes.

## Runs

Six runs check one component each. The small instance is in the `MC*` module,
or in the `.cfg` alone where it takes numbers only (`oracle_batch`, `replay_pool`)
or names the order of the families (`pool`, `InterleavedFamilies`).

| Run | Instance | What it shows |
|---|---|---|
| `gen_balanced` | four sources, three pulled; two share a family, one repeats a transition, one is unusable; two policies; up to two answers and a rejection per pair; cap of two per outcome | identities, counters, roles, the final reservation and the early stop are right for every order and every answer; generation ends |
| `gen_coverage` | six sources, each a family; three policies; two variants retained separately, two not; allowlist and filter set; cap of one per stratum | the verdict is that of the stored corpus, with both verdicts reached; records are never touched but by the reservation |
| `gen_matched_family` | two sources of one family, coverage target set | expects a violation; see Findings |
| `pool` | four jobs of three interleaved families, two calls, three workers, either builder | exactness, whole families, refinement of `EvidenceMatrix`, return |
| `oracle_batch` | four policies, one to five workers, every assignment of labels, errors and panics | same as serial, bounded; since no step can be repeated and nothing gets stuck, it returns |
| `replay_pool` | three jobs, three workers | each slot its answer, at most one call a worker after an error was received, refinement of `EvidenceMatrix`, return |

The others check several components each; `track_candidates` is about one of them. Their module (`Models`, `Evidence`,
`Serving` and `Evaluation`, to whose constants `MCModels`, `MCEvidence`,
`MCServing` and `MCEvaluation` give values; `MCCorpus`, which has both) has the instances of
all of them and a variable `component`: the initial state names one component,
whose variables then have its initial states and whose actions are the only ones
that are taken; the variables of the others are `None`. Components that call
their variables alike share them, which is harmless, since only one is there at
a time. The properties of a run are the conjunctions, one for each component, of
what its module states; the fairness is that of the components, under the same
condition.

| Run | Component | Instance | What it shows |
|---|---|---|---|
| `evidence` | `PolicyOracle` | two processes of two threads, one replacement, four replies | each call is judged on its own pair in a directory nobody else touches; only a decision becomes a label |
| | `EquivalenceAudit` | five datasets, three source files, one replacement, every pass or failure of probe and controls | only historical pairs are replayed; verdict, tables and traces say what V10 answered |
| | `RemovalAudit` | one removal, one required addition, up to two wrong answers | a report that passed shows the severities resolved one by one, and FULL findings that contain the FORWARD ones |
| | `OracleEvidence` | three commands, two at a time, three paths, crashes | no report holds a run the JAR did not give, no manifest a promotion its evidence does not carry |
| | `FeatureMigration` | corpora with one thing wrong each, two replaced files | features belong to the judged pairs; nothing else changes; no output without its rename; the command ends |
| `evaluation` | `ExternalEvaluation` | two commands, four manifests, one replacement between them | what is scored is isolated, approved, counted once, and as preflight and diagnostic said |
| | `IsolatedTrack` | three commands; manifests that list the program's candidates, a pair near V9, or another candidate; two JARs; manifest and JAR replaced between gate and plan; crashes | the JAR is asked about nothing the planned manifest does not name, and about nothing near V9 that the gate saw; corpora, reports, evidence and stamps on disk agree |
| | `Experiment` | two experiments in one directory one after the other, corpora with one thing wrong each, refusals, failures and kills | what a report names is there; held-out traits stay out; one fate per protocol; the audit is of the models that were trained |
| `track_candidates` | `IsolatedTrack` | one command, nothing replaced | a pair next to V9 reaches the JAR, through a manifest that lists another candidate than the program's own (a finding) |
| `models` | `FamilySplit` | every set of up to five families of four shapes, one reserved record, ratios 3/4, 1/8, 1/8, with which the balance score alone would leave partitions empty | no partition is empty, each family is in one partition |
| | `Training` | two calls, networks of one or two layers, failing batches, steps and validations | a model is trained wholly or not at all; every row counts in every epoch; a failed step changes a prefix; training ends |
| | `Protocols` | four commands, seven corpora, one with a family in both roles, every split | no record is on both sides of a score, nor a family but as a challenge of a corpus that has it in both roles; held-out records stay out; seeds take turns; commands end |
| | `FeatureAblation` | two seeds of the code's three, five references, one replacement, every split | the rule is learned from training families alone and is the best; CONFIRMED means every seed of the named reference |
| | `BaselineComparison` | every set of up to three rows, five scores, six thresholds | metrics are those of all rows, trade as thresholds rise, and compare with the best constant guess |
| | `InMemoryDataset` | texts of up to five lines, blank ones and headers among them, every permutation, eight splits in three | each line is the row of its number; each row in one part; no part empty or far off its ratio; calls end |
| `corpus` | `SourceSampling` | files of five rows in three orders, with colliding ranks, repeated ids, blank and unreadable rows; budgets of none to four | one bounded pass is the sort of the whole file, whatever the row order; a balanced sample is half of each root where the file has them |
| | `MutationProposals` | every mixture of a property's keywords, up to five properties, root keywords | candidates are told apart by name, are one change each, tighten where they say so, and require what they declare |
| | `SchemaFeatures` | every candidate of nested, itemised, dotted and restricted bases under three packs | the vector shows the rule a mutation is declared under, and no other |
| `serving` | `ModelArtifact` | a training command and a library caller on one output, a runtime, crashes | the output is never half a file; what predicts is sound; what was reported complete can be loaded; saves end |
| | `ShadowInference` | two seeds, two requests at a time, five pin tables, files replaced | it listens with what was pinned only; answers alike, whole and with the right kind of error; answers everything |
| | `PolicyContexts` | files of one pack with up to two entries or of two packs, names in two spellings | a declared pack stands alone; spellings agree; ambiguous names resolve nothing |

### Why the bounds are enough

`gen_balanced`: a duplicate needs two sources, a quota skip that later matters a
third candidate, a full outcome two records; a fourth source adds only
permutations. `gen_coverage`: the gate needs three standard families and two
profiles in both roles, hence six sources; fewer never meet the target. `pool`:
three workers are what it takes for one to store a failure while a second is
between its look and its claim and a third publishes; `replay_pool` likewise,
with a message in the channel, a call under way and a job unclaimed when the
receiver goes. `oracle_batch`: four policies give chunk sizes 1, 2, 3 + 1 and 4.
`FamilySplit`: three families are the boundary of the forced phase, five leave
two free placements before it. The modules about files take one or two
replacements (`MaxReplaced`, `MaxSwaps`, `MaxEdits`, `swapped`, `replaced`): a
stale read needs one, and two let a content come back or two different files
change. `FeatureAblation` has two of the three seeds of the code: a verdict that
one seed spoils for another, in either order, needs two. Commands come in twos or threes (`MaxCommands`, `MaxRuns`): one
to leave something behind and one to find it, and a third where a merge or a
promotion derives from both. `ShadowInference` answers three requests
(`MaxAnswers`): a probe, and one before and after it. `Training` takes two
calls, since the state of an optimizer only matters to the next. Rows, records
and properties are as many as the largest group that a decision compares: three
confusable rows in `BaselineComparison`, five for a sample of four, four
families where three parts and one held-out record are needed. `InMemoryDataset`
has up to five rows: a split in three takes three at least, and five with a ratio
of one hundredth have rows to give out and rows to take back.

Symmetry: `evaluation` permutes the slots of `IsolatedTrack`; the run checks
safety only, and no definition tells one slot from another. `track_candidates`
has the same instance but for its one command.

In both, the matched families a corpus of the isolated track needs
(`MinFamilies`) are one, where `main.rs` asks for four. `MaxTrackCommands` bounds
the commands started together with the plans of a manifest or JAR other than the
gated one.

### Deadlock

Deadlock is checked in every run. Where a system has returned, ended or reached
its bound, an action named `Ended`, `Returned`, `Over`, `Full` or the like lets
it stutter; anything else that stops is an error.

## Findings

`gen_matched_family` has the counterexample, and `PROJECT.json` quotes both
sides: with a coverage target the reservation runs after every seed; a later
seed of a moved family takes its role from the hash again, so `generate` returns
a family in both roles (`generation/dataset.rs:1039`), where a comment says that
"a whole source family always moves together". The gate would refuse such a
corpus; the two command-line callers do not combine target and shared families.
`FamilyKeepsOneRole` is checked where it does hold: without a coverage target.

`track_candidates` has the other one. `generate-forward-optional-isolated` gates
the candidate schemas that its manifest lists and gives the JAR those that
`candidates_for_schema` proposes anew (`main.rs:677`), chosen by the name of the
variant and compared with nothing; `main.rs:475` says that a rejected "record
cannot reach a JAR invocation". The counterexample is one command with no file
replaced: a manifest that lists another candidate under the name of a variant
passes, and the program's own is next to V9. `main.rs:572` also reads the
manifest a second time: with `MaxTrackCommands` 3, as in `evaluation`, the
shortest counterexample plans a manifest that was not gated. What is left of the
sentence is `GatedStaysAway` and `AskedAsGatedAreApart`, which `evaluation`
checks and `TrackIsolated` proves.

### Divergences met while modelling

The modules also state sentences of comments, messages and documents that the
code does not keep. They are not in the runs, which stay at one question each. To
see one fail, put it into the module of the run named, under its component (as
`component = "training" => Training!TimestepCountsSteps`, and
`[][component = "experiment" => KeepsWritten]_dir`), with the definitions of the
last column where the instance is too small for it, and leave symmetry out. The
formulas are named as the module of the run names them.

| Formula | Run | Where | What | Constants |
|---|---|---|---|---|
| `Oracle!RecordedHashesAreUsed` | `evidence` | `generation/oracle.rs:225` | JAR and policy file are hashed once and used from their paths ever after: a file replaced since labels records under a hash that is not its own. | |
| `Promotion!ScopePromotedOnce` | `evidence` | `models/oracle_evidence.rs:292` | A selection given twice promotes one scope twice; only `merge` compares. | |
| `Promotion!MergedHasNoDuplicateCell` | `evidence` | `main.rs:2246` | The first input of a merge is not checked for duplicate cells; which input is named first decides. | |
| `Removal!FullShowsBothDirections` | `evidence` | `generation/conformance.rs:334` | "FULL preserves independently attributed BACKWARD findings" is tested by a phrase that the `[FORWARD]` line contains. | |
| `External!ReportNamesItsInputs` | `evaluation` | `models/external_evaluation.rs:492` | The corpus is hashed after it was loaded, the model before: a file replaced in between is the one that is named, or is not. | `SwapWhileRead` TRUE, `MaxSwaps` 2, `MaxCommands` 1 |
| `Track!PromotedOnItsOwnReport` | `evaluation` | `main.rs:965` | Neither report nor corpus names the other: a corpus is promoted on the clean report of another manifest. | |
| `OneClassIsNotScored` | `evaluation` | `models/experiment.rs:943` | A held-out policy is scored on a challenge of one label; the other protocols are not. | |
| `ScoredActionsWereTrained` | `evaluation` | `models/experiment.rs:931` | An action counts as seen in training if any standard record has it, also one whose families all went to test. | |
| `EachProtocolItsArtifact` | `evaluation` | `models/experiment.rs:1470` | Policies `a-b` and `a_b` save to one file; both results name it. | an `MCStem` that folds the two |
| `ReportNamesItsCorpus` | `evaluation` | `main.rs:1757` | The dataset is loaded, and read again for its hash. | |
| `NoExperimentOverwritten` | `evaluation` | `main.rs:1331` | The directory is listed once and not reserved: two commands overwrite each other. | `Overlap` TRUE |
| `Training!TimestepCountsSteps` | `models` | `nn/optimizer/adam.rs:139` | The time step is advanced before the network accepts the update: a refused step is counted as applied. | |
| `Protocol!ReportedChallengesTellLabelsApart` | `models` | `main.rs:2865` | `evaluate-protocols` prints metrics for one-class challenges of policies and pairs. | |
| `Protocol!ChallengesAreFamilyIsolated` | `models` | `main.rs:2824` | `challenge_subset` returns "the reserved, family-isolated data" (`models/prepared_dataset.rs:489`); the commands do not look for the stamp, and score challenges of families they trained on. | |
| `Ablation!ConclusionIsTrue` | `models` | `main.rs:1627` | "The full model's 100% result is fully explained" is written whenever the metrics are equal, whatever they are. | |
| `Artifact!BuiltLoadsBack` | `serving` | `models/artifact.rs:230` | The constructor and `save` accept what `load` refuses: incomplete metadata, and numbers that are not finite and become null. | |
| `Proposals!BoundsNeverContradict` | `corpus` | `generation/mutation.rs:571` | New inclusive bounds ignore exclusive ones: no value is left. | |
| `Migration!FeaturesBelongToPolicies` | `evidence` | `generation/dataset.rs:418` | The policy file is hashed, then read again for its actions. | |
| `Memory!RatiosAreInside` | `models` | `dataset/mod.rs:385` | A test ratio of zero is accepted and gives one row. | |
| `Memory!ErrorNamesARow` | `models` | `dataset/mod.rs:548` | A target that is not finite is reported at row n + i of n rows (a bug in a message). | |

## Fairness

Weak fairness only, and only of what the code itself keeps doing; nobody has to
start a command, replace a file or crash.

* `DatasetGenerator` and `PolicyContexts` (`Step`), `Protocols` (`Step`),
  `FeatureMigration` (`Migrate`), `FeatureAblation` (`Command`), `Training` (the
  steps of a running call), `InMemoryDataset` (`Working`, likewise): one thread that never waits on
  another part of itself.
* `ConformancePool`, `ReplayPool`: the calling thread and each spawned thread.
  The scheduler is the operating system's; mutexes are held for a few
  instructions and never while another is taken.
* `ModelArtifact`: each writer that is not killed. `ShadowInference`: the
  start-up, and each thread that handles a request.
* All that call the JAR assume that a started process returns. The code sets no
  timeout (`generation/oracle.rs:225`), so this is an assumption about the JAR,
  and the liveness results say no more than that the Rust code adds no wait of
  its own.

The other modules state no fairness and check safety only.

## Proofs

Checked with TLAPS for every value of the constants that satisfies the modules'
assumptions.

* `PoolTyping`, `PoolExact` (`ConformancePoolProofs`): a returned matrix is
  exact. The inductive invariant `PoolInv` has these parts: jobs at or beyond
  the index are fresh (`Fresh`); a held job is below the index and unpublished
  (`Held`), and held by one worker (`HeldOnce`); a job is published with all its
  calls or none (`Blocks`); a job below the index is held, published or lost to
  a refusal (`NoneLost`); a refusal is being stored or stored (`Errors`); a
  worker leaves only after a failure or at the end of the jobs (`Exits`); and
  the end is reached with all workers out (`Finished`). The lemmas on
  `IndexOf` say that positions of admitted jobs are distinct and fill the range
  below their number, and that at least one worker is spawned.
  `PoolImplementsMatrix` is the step simulation of `EvidenceMatrix`. It needs to
  know that a call is made once, which no part of `PoolInv` says: `Tracked`
  relates the calls made to the jobs claimed (a call is of a claimed job, the
  worker that holds a job has made the first `answered` of its calls and no
  other, what is published was made, what is stored was refused).
  `AdmissionWhole` rests on `AdmittedNow`: from the end of preflight on, the
  admitted jobs are those the builder takes from the accepted ones, which do not
  change any more. The rest is about `FirstFamilies`: families are ordered by
  their first job, and a set of families that is closed downwards in that order
  and misses one has as many as the limit.
* `BatchIsALoop` (`OracleBatchProofs`): what is collected is a prefix of the
  answers in declared order and an error is that of the policy after it
  (`Prefix`); threads run in the current chunk only (`Scope`); a chunk starts
  where the collection stands (`Progress`). `SameAsSerial` alone is not
  inductive: it does not say where a chunk starts.
* `DatasetGeneratorProofs`. `GenTyping` is the part of `TypeOK` the rest needs,
  strengthened by what each phase says of the loop's locals; the whole of
  `TypeOK` is not proved, because `load` is a sum over a bag. On it rest:
  - `PairOnce`, from the append of `Retain` and the fact that a reservation
    changes no fingerprint;
  - `ReservationOnly`, from the same split of the steps (`RecordSteps`);
  - `OutcomesHeldOut`, from `ReservationCompletes`: a reservation changes no
    label and only ever raises roles, so an outcome still missing afterwards was
    missing before; then its first holder exists and its family was moved,
    which is absurd;
  - `ClaimHonest`. The two state properties together are inductive only with
    the rest of `ClaimInv`: once coverage is claimed, no step but the last can
    follow, and that one leaves the records alone;
  - `FamilyRoles`, `FamiliesIsolated`, under the hypothesis
    `FamiliesCannotSplit`: no coverage target, or one source per family.
    `RoleInv` adds that a seed is read once (no record's seed is unread), that
    during a seed's turn its records still have the role of its hash, and that
    without a target every record has, until the last step. The finding above
    shows that the hypothesis is needed;
  - `ReportTrue`, the accounting of the generator. The strata the code counts as
    it goes are bags; the lemmas about them say how the count of a value in a
    sequence, and the bag of its values, change with an append; a reservation
    moves roles and changes no value that is counted;
  - `StopsEntitled`, from `StopInv`, which repeats the decision of the loop in
    the terms in which the code takes it, and from `ReportTrue`: the counters
    the decision reads are those of the records.
* `ReplayPoolProofs`. `ReplayTyping` needs `LocalJobs`: a worker that calls or
  sends has a job, and an answer once it has one. `ReplaySlots` says that a
  replay that succeeds holds each job's own answer and that one that fails names
  an error of the JAR. `EachSlotItsAnswer` speaks of the end only; the invariant
  `ReplayInv` says why it comes out: a held job is below the index and held once
  (`Held`); what lies in the channel and in the slots is what the JAR answered
  (`Truthful`); while the receiver lives, a claimed job is held, on its way or in
  its slot (`NoneLost`), so that with all senders gone and the channel empty
  every slot is filled (`Ends`) and the error "worker did not return replay
  index" cannot arise; and the receiver is gone exactly when an error was
  received (`Closed`). `ReplayStopsPromptly` has an invariant of its own: a
  worker that may claim has not claimed since the receiver went.

  `ReplayImplementsMatrix` is the step simulation of `EvidenceMatrix`.

`Evidence` and `Serving` have a theorem for each component (for any starting
component, hence of each component alone):

* `CallsApart` (`PolicyOracle`). A directory is named once, by its process and a
  number below the counter of that process (`Named`); from its creation to the
  end of the call it is there and holds what was staged (`Staged`); what was
  judged was staged, and a label rests on an exit code (`Decided`). None of the
  three is inductive without the first: that no other call writes into a
  directory follows from its name only.
* `EquivalenceEarned` (`EquivalenceAudit`). The invariant names what each phase
  adds to what the earlier ones left: what was loaded is of one seed and of the
  V9 identity (`Loaded`), each job is of its record (`Rebuilt`), each invocation
  compares an answer with its record (`Replayed`), probe and controls have all
  succeeded (`Sensitive`), and the report is the summary of the invocations
  (`Reported`). That the tables add up is a fact of a fold over any number of
  invocations (`SummaryIsTotal`).
* `RemovalShown` (`RemovalAudit`). The calls are made in the order of the cases
  and their directions (`Asked`), and a report that is on disk has them all
  (`WholeReport`). That every pair is reached is a fact of the flattening of a
  sequence of sequences (`EveryPairIsAsked`, `EveryCallIsMade`).
* `PromotionsEarned` (`OracleEvidence`). Every report that is on disk or in
  the hands of a command holds runs that a JAR gave (`FromJar`), and every
  manifest promotions that are earned (`Earned`) by what was captured until
  then; more may be captured later, and that spoils nothing.
* `MigrationSound` (`FeatureMigration`). The invariant says what the command has
  behind it at each of its places (`BehindIt`): until the records are gone through
  there is no output and nothing rebuilt, from the JAR on the corpus is one that
  was loaded, and its records name the JAR that was hashed. Each record so far is
  the one at its place in that corpus but for its features and the profile of its
  root, and these are of the pair in its fingerprint (`IsRebuilt`,
  `UpdatedIsRebuilt`). What is on disk is all of them (`Written`), whatever was
  replaced since. No experiment accepts it: it has no stamp, and what has one
  passed the gate (`Audited`).
* `ArtifactsSound` (`ModelArtifact`). The five properties are inductive together
  with four facts: a staged file is the whole of what its writer holds, what a
  command reads back is its own while nobody else wrote, it holds something
  when it reads back, and a runtime that has loaded nothing has answered nothing.
* `ServesPinned` (`ShadowInference`). Files are loaded in order and as pinned
  (`LoadedInv`); a request that is scored has passed the checks and has the
  predictions of the first seeds (`SlotInv`); each answer is `Outcome`, a
  function of pins and request (`AnswerInv`). That answers agree follows, since
  the service reads no file after the start.
* `PacksAlone` (`PolicyContexts`). A name in hand has the first k of its rules
  applied, for some k (`InHand`), and what is resolved has them all; the last of
  two rules of one name counts (`Applied`).

`Evaluation` has one theorem for each of its components:

* `HeldOutUnseen` (`Experiment`), if two experiments do not overlap in one
  directory (`Overlap` is FALSE). If they do, each may replace the models that
  the other's report names; that is `NoExperimentOverwritten` in the Findings,
  and the reason for the hypothesis. The invariant, `ExperimentInv`, says what
  a command holds at each stage (`CommandHolds`): a corpus that passed the
  gate, results that are the outcomes of the protocols it has done, for the
  seeds it has done, the files on disk being those it has saved and no others
  (`ModelsOnDisk`), and a report the summary of all results. That held-out
  traits stay out is then a fact about each outcome alone; that no challenge
  family trains is what the stamp of the corpus says (`SoundCorpus`).
  `OneFatePerProtocol` needs more: what makes a protocol "not applicable" is
  decided from the corpus without its seed. `SamplesShowTheWorst` needs `Ranks`:
  under a strict total order of a finite set, as many elements have fewer than n
  below them as n or the set allows, and they are the lowest.
* `TrackIsolated` (`IsolatedTrack`), for all manifests and JARs, those replaced
  between the gate and the plan among them. `TrackInv` says of each
  slot what a file that is there was made of (`SlotInv`), of the running command
  what it has behind it at each of its stages (`JobInv`), and of a corpus that is
  stamped ready which slot it was promoted from and what its report and its
  records' JARs are (`Earned`). The properties speak of what is on disk or was
  asked, and none is inductive without what the command has in hand between its
  three writes. What the JAR is asked carries the manifest that was gated and
  the one that was planned (`asked`), and is `Rightful`: a planned pair is the
  candidate of a variant that the second reading names, for the source and
  family of a transition of the same contract (`PlannedAreNamed`); and what the
  gate let pass is away from V9 (`GatedAreAway`), since a report that passed has
  no distance within the limit. That all of it is away from V9
  (`AskedAsGatedAreApart`) holds where the two manifests are one and list the
  program's own candidates (`NamesCandidates`), and not otherwise: that is the
  finding.
* `ScoresIsolated` (`ExternalEvaluation`), if no input is replaced between two
  reads of one command (`SwapWhileRead` is FALSE; replacements between commands
  are free). Otherwise a command may load one corpus and hash another
  (`ReportNamesItsInputs` in the Findings), and what it scores is isolated from
  neither. `ExternalInv` says what a command has read so far (`RunsOn`); that
  each row so far is of its transition, that a scored one is away from V9 and
  was scored for no other transition, and that a rejected one has a reason
  (`SoundRows`); that the matrices count the scored rows (`MetricsOf`); that what
  is labelled is approved (`Approved`); and of what is written that it is such an
  evaluation, or the preflight or diagnostic of its inputs (`GoodReport`).
  `PreflightPredicts` and `DiagnosisAgrees` relate two reports and follow from
  that. `MetricsAreOfScored` needs the matrices of all strata, each of which a
  labelled transition may change (`MetricsCounted`).

  Nearest distances are found by a fold over the records of V9. What a fold
  over a finite set returns is proved from its definition: the recursive
  function it is defined by exists (`FoldExists`), and what holds at the start
  and is kept by each element holds of the whole (`FoldInduction`).

`Models` has one theorem for each of its components:

* `SplitNeverEmpty` (`FamilySplit`): the split never leaves a partition empty.
  `SplitSound` is not inductive: at the last placement nothing in it says that
  the remaining family is needed. The invariant adds `EmptyCanBeFilled`: there
  are never fewer unplaced families than empty partitions. A free placement
  happens only when there are strictly more, and takes away one family; a forced
  one takes away one of each. Nothing is used of the score, only that a minimal
  candidate is a candidate: the result holds for any balance rule.
* `ModelsStayWhole` (`Training`). A network satisfies `Network` when it is one of
  an architecture whose neurons were updated somehow, and `Leads` when no neuron
  was updated more often than an earlier one. The invariant, `TrainingInv`, says
  that the optimizer's state holds the applied steps (`Optimized`); that a call
  is within its epochs and rows (`CallIsSound`); that the rows before the next
  one were used once more than the rest (`RowsAreUsed`); and how many updates are
  owed (`UpdatesAreOwed`): the model has those of the trainings that succeeded,
  and the network of a call has, on top, the batches of its whole epochs and the
  b batches of this one, where the next row is 1 + b times the batch size
  (`CloneIsOnTheWay`). That an epoch of n rows has n / size batches rounded up,
  which is what makes the two agree at its end, is `BatchesCounted`. Gradients that
  training computed always fit (`TrainerNeverHalfUpdates`); only a step with a
  caller's own can fail half way, and it leaves a prefix of neurons ahead.
* `ProtocolsAreHeldOut` (`Protocols`). `FitOf` says that a fit is made of the
  parts of the records it may see, split by their families, and `LineIsSound` that a
  result is of such a fit, has its challenge kept out of it, and, if it is of a
  held-out trait, no record with that trait in it. These are facts of each result
  alone, and rest on the one role that a record has (`SidesApart`): a family may
  have both, and is then on both sides of a challenge, but never of a test part.
  `SeedsTakeTurns` and `PairedIsCounterfactual` relate results: `LinesFollow` says
  that results come in blocks of as many as there are protocols, the one at
  place j of block a being of protocol j and of the seed at place a + 1, with the
  fit of the first also at the last. That a place in a list determines block and
  place in it, and so quotient and remainder, is `Position`. That a finite set of
  numbers can be put in increasing order, which the sorted seeds and the ordered
  names of a corpus are, is `AscendingSorts`.
* `ConfirmedIsProved` (`FeatureAblation`). Each entry of the report is what the
  rule of its split gives, and its verdict a comparison with what the reference
  has for its seed (`RunIsSound`); entries are of the first of the original
  seeds, in order, and the seeds that are left are the rest (`RunsAreSound`,
  `Progress`); a report has them all (`ReportIsSound`). That the majority rule is
  the best is `MajorityRuleIsBest`: hits are counted bucket by bucket, and where
  no bucket is tied any other rule has fewer in one and no more in the other.
* `MetricsAgreeProved` (`BaselineComparison`). The invariant says only that
  scores and targets are equally many, at most `MaxRows`; the properties are
  facts of counting. The cells of a confusion matrix are disjoint and cover the
  rows (`CellsFinite`, `Evaluated`); a higher threshold moves rows from the
  predicted to the others; a constant guess hits exactly the rows of its class.

* `RowsStayKept` (`InMemoryDataset`). While lines are read, each that was read
  is the row whose number is that of the lines that count down to it
  (`ReadSoFar`). Whatever is returned is a list of stretches of the rows, in
  their order or in that of the indices; `DealtOut` says that stretches that lie
  side by side and cover the rows, under a permutation, deal each row out once,
  so that equal rows are in the parts as often as in the dataset. The shuffle
  keeps a permutation (`SwappedPermutes`). The properties at the end of a split
  in three are not inductive: the invariant, `SplitInThree`, says of every step
  of the counting how far it is from what is due (`Counting`, `Trimming`). As
  long as rows are missing, the largest fraction is positive, so that a part
  that gets one stays less than a row above its due (`GivenOne`); as long as there are
  too many, something was lifted and every part is less than a row below, so that
  one taken from the largest leaves it at most two below (`TakenOne`). That the batches
  number n / size rounded up and the last has what is left is `OfBatches`.

The sums and sequences over a list in the proofs of `Evaluation` are recursive
functions of the community modules. Their values are taken from their defining
equations: that a function satisfying them exists, and what it returns, is proved
by an induction over sets of numbers (`Induction`), which rests on `Nat` being
well-founded.

### What is assumed

Each module names what it assumes of its constants, and every run evaluates it.
These are more than types:

* `ArtifactAssumption`: no two schemas have as many features. The code tells
  them apart by their numbers, and these are 8, 28, 38, 39, 59 and 76.
* `ShadowAssumption`: the seeds of the service differ and none is named like the
  policy file; the code has them as constants.
* `MigrationAssumption`: records have their fields, and the stamp of a corpus that
  is there already is what the gate said of the records beside it, as `generate`
  writes it. `None` is no verdict.
* `LoadedCorpus`, `SoundCorpus`: the versions a corpus file may have are corpora
  that load, so each record has an identity of its own
  (`PreparedDcgDataset::new`, `models/prepared_dataset.rs:347`), and a corpus
  with the stamp has no family in both roles, which is what the gate that stamps
  it checks. `ParsedManifest`: the schemas of a transition have features.
* `TrackAssumption`: a variant names one candidate of its base schema; a record
  of V9 has the features of the pair it was generated from; and a manifest's
  base schemas are ones the program has candidates for. Which candidates the
  manifest lists is not assumed.
* `ProtocolsAssumption`: a list of seeds is not empty (without one the command
  takes 42), and a corpus is finite. A family may have standard and challenge
  records: the readiness audit refuses that (`models/prepared_dataset.rs:771`),
  but the four commands do not look for its stamp.
  `SplitFillsEveryPart` is what `SplitNeverEmpty` proves of the split.
* `AblationAssumption`: a feature is below 0.5 or not; `TrainingAssumption`:
  architectures have two layers at least, datasets a row.
* `MemoryAssumption`: ratios are whole hundredths, multiplied exactly, where the code has floating
  point; a product that rounds to the other side of a whole number is not covered.
* A value for "none" is none of the values it stands beside (labels, policies,
  directories, artifacts), as `Option` has it.

### What is model-checked only

The invariants of the run `corpus`:

* `SampleIsOfTheWholeFile`, `ProposalsAreWhatTheySay`, `FeaturesShowTheMutation`
  (sampling, proposals, features): the first is about a sort and the third about
  recursion over nested schemas, hence induction over data; the second is not
  attempted.

Liveness and `ENABLED` are out of the prover's reach: `Terminates`,
`BuildReturns`, `ReplayReturns`, `CallsEnd`, `MigrationEnds`
and `ServicesEnd` stay with TLC. `ReturnedFamiliesIsolated`, `HeldOutIsUnseen` and
`ExternalScoresAreIsolated` do not hold without the hypotheses of their theorems:
the first fails in `gen_matched_family`, the other two in `evaluation` once
`Overlap` or `SwapWhileRead` is TRUE (the latter with `MaxSwaps` 2).

## Not modelled

* The numeric kernel, regression metrics and the arithmetic of losses and
  optimizers: floating point, sequential, without state that outlives a call.
* The V1 contract features, their fixtures and the V4 variant of the features:
  counts over two trees of the same kind as those in `SchemaFeatures`.
* Parsing of command-line options, printed summaries, the read-only `audit`
  command, setters of configurations, and the JSON layout of files.
* The Java programs: their answers are arbitrary.
* The scripts: not part of the program.

Four listed hazards have no property. A JAR process that never returns
(`generation/oracle.rs:225`): nothing in the code bounds it, so there is no
promise to check. A JVM that dies with the exit code of a breaking change
(`generation/oracle.rs:249`): `LabelsAreDecisions` restates the table that keeps
the two apart. A failed optimizer step that is counted
(`nn/optimizer/adam.rs:139`) and a bound that contradicts an exclusive one
(`generation/mutation.rs:571`): the code does this, as `TimestepCountsSteps` and
`BoundsNeverContradict` show when they are checked. `PROJECT.json` lists the
thirty-nine hazards that reach farthest.

## Plan

1. (done) Gate, generator, batch, pool and split; first theorems.
2. (done) The replay pool and its theorems; the equivalence audit, the oracle,
   evidence and promotions, the removal audit, the isolated track.
3. (done) Training, protocols, experiments, ablation, artifacts, service,
   external evaluation, migration, sampling, features, metrics, datasets.
4. (done) Proofs: the step simulations of `EvidenceMatrix`, the accounting of
   the generator, the batch, and the components of `Evidence` and `Serving`.
5. (done) Proofs of the components of `Evaluation`.
6. (done) Proofs of the components of `Models`.
7. (done) The proof about `InMemoryDataset`.
8. The V1 contract features beside `SchemaFeatures`, and the `audit` command.
