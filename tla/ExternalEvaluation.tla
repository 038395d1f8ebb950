------------------------- MODULE ExternalEvaluation -------------------------
(***************************************************************************)
(* evaluate-external, preflight-external and diagnose-external-features,   *)
(* the commands of main.rs, over models/external_evaluation.rs: an         *)
(* evaluation reads its inputs one after the other, checks that model,     *)
(* corpus, JAR, policies and audit are an approved pairing, then labels    *)
(* and scores the transitions of the manifest in order.  Somebody else may *)
(* put other files in place of the inputs, between two commands or, where  *)
(* a run allows it, while a command is reading them.                       *)
(***************************************************************************)
EXTENDS ExternalManifest

CONSTANTS
  Versions,       \* input path -> contents it may have, the first included
  First,          \* input path -> content found at the start
  Registered,     \* the approved pairing [dataset, training, execution, packs, audit]
  Labels,         \* compatibility labels
  RecordIds,      \* --record-id of a diagnostic
  Limit,          \* its --nearest-record-limit
  SwapWhileRead,  \* inputs may be replaced under a running command
  MaxSwaps,       \* replacements (bound)
  MaxCommands     \* commands started (bound)

Inputs == {"manifest", "v9", "model", "jar", "packs", "audit"}

EvaluationAssumption ==
  /\ DOMAIN Versions = Inputs /\ First = [p \in Inputs |-> First[p]]
  /\ \A p \in Inputs : First[p] \in Versions[p]
  /\ \A m \in Versions["manifest"] : ParsedManifest(m)
  /\ \A v9 \in Versions["v9"] : LoadedCorpus(v9)
  /\ IsFiniteSet(Labels)
  /\ SwapWhileRead \in BOOLEAN
  /\ Limit \in Nat /\ MaxSwaps \in Nat /\ MaxCommands \in Nat

VARIABLES
  files,     \* input path -> content
  job,       \* None or the running command: what it has read and done
  written,   \* reports on disk; an output that exists is never written again
  commands,  \* commands started
  swaps,     \* files replaced
  asked      \* history: the JAR calls, with what the command had read by then

vars == <<files, job, written, commands, swaps, asked>>

-----------------------------------------------------------------------------
(* Accuracy metrics: a matrix counts <<actual, predicted>>.                *)
NoMatrix == [c \in Labels \X Labels |-> 0]
Total(matrix) == MapThenSumSet(LAMBDA c : matrix[c], DOMAIN matrix)
NoStrata == [k \in {} |-> NoMatrix]
NoMetrics == [overall |-> NoMatrix, mutation |-> NoStrata, policy |-> NoStrata, both |-> NoStrata]

(* A stratum is made for the first row that is counted in it.              *)
Incremented(matrix, cell) == [matrix EXCEPT ![cell] = @ + 1]
CountedUnder(key, strata, cell) ==
  [k \in DOMAIN strata \cup {key} |->
     IF k # key THEN strata[k]
     ELSE Incremented(IF key \in DOMAIN strata THEN strata[key] ELSE NoMatrix, cell)]

(* record_accuracy_metrics.                                                *)
Counted(metrics, t, actual, predicted) ==
  LET cell == <<actual, predicted>>
  IN IF t.use # "accuracy-bearing" THEN metrics
     ELSE [overall |-> Incremented(metrics.overall, cell),
           mutation |-> CountedUnder(t.mutation, metrics.mutation, cell),
           policy |-> CountedUnder(t.policy, metrics.policy, cell),
           both |-> CountedUnder(<<t.mutation, t.policy>>, metrics.both, cell)]

-----------------------------------------------------------------------------
(* verify_frozen_model.                                                    *)
FrozenModel(model, hashed) ==
  model.version = "V6" /\ model.split = "normal-family-split" /\ model.dataset = hashed

Pairing(dataset, training, execution, packs, audit) ==
  [dataset |-> dataset, training |-> training, execution |-> execution, packs |-> packs,
   audit |-> audit]
ApprovedPairing(dataset, training, execution, packs, audit) ==
  Pairing(dataset, training, execution, packs, audit) = Registered

(* validate_equivalence_audit_contents: three verdicts true, five counts   *)
(* of all training records, five counts of nothing.                        *)
AuditCovers(audit, dataset, training, execution, packs, records) ==
  /\ audit.status = "COMPLETE"
  /\ audit.historical = training /\ audit.v10 = execution
  /\ audit.dataset = dataset /\ audit.packs = packs
  /\ audit.result = "COMPLETE_PRESERVED_V9_MATCH"
  /\ \A k \in DOMAIN audit.verdicts : audit.verdicts[k]
  /\ ~audit.interchangeable
  /\ \A k \in DOMAIN audit.covered : audit.covered[k] = records
  /\ \A k \in DOMAIN audit.failed : audit.failed[k] = 0

(* verify_external_dual_provenance, whose pairing the final gate           *)
(* require_scored_dual_provenance compares once more.                      *)
DualProvenance(j, model, jar, packs, audit) ==
  /\ Cardinality(TrainingJars(j.v9)) = 1 /\ Cardinality(TrainingPacks(j.v9)) = 1
  /\ model.dataset = j.hashed /\ model.jar = SoleJar(j.v9) /\ {model.packs} = TrainingPacks(j.v9)
  /\ packs = model.packs
  /\ ApprovedPairing(j.hashed, model.jar, jar, packs, audit)
  /\ AuditCovers(audit, j.hashed, model.jar, jar, packs, Cardinality(j.v9.records))

-----------------------------------------------------------------------------
Init ==
  /\ files = First
  /\ job = None
  /\ written = {}
  /\ commands = 0
  /\ swaps = 0
  /\ asked = {}

Begin(command) ==
  /\ job = None
  /\ commands < MaxCommands
  /\ commands' = commands + 1
  /\ job' = [command |-> command, pc |-> "manifest"]
  /\ UNCHANGED <<files, written, swaps, asked>>

(* An error, or the end of the process: whatever was not written is lost.  *)
Abandon ==
  /\ job # None
  /\ job' = None
  /\ UNCHANGED <<files, written, commands, swaps, asked>>

At(pc) == job # None /\ job.pc = pc
Proceed(j) == job' = j /\ UNCHANGED <<files, written, commands, swaps, asked>>

ReadManifest ==
  /\ At("manifest")
  /\ ValidManifest(files["manifest"])
  /\ Proceed([command |-> job.command, pc |-> "dataset", manifest |-> files["manifest"]])

LoadDataset ==
  /\ At("dataset")
  /\ files["v9"].version = "V6"
  /\ Proceed([command |-> job.command, manifest |-> job.manifest, v9 |-> files["v9"],
              pc |-> IF job.command = "evaluate" THEN "hash" ELSE "report"])

(* The corpus is hashed after it was loaded, the model before.             *)
HashInputs ==
  /\ At("hash")
  /\ Proceed([command |-> job.command, manifest |-> job.manifest, v9 |-> job.v9, pc |-> "verify",
              hashed |-> files["v9"], model |-> files["model"]])

(* The model is loaded, the oracle made, the audit read, and only then is  *)
(* anything asked of the JAR.                                              *)
Verify ==
  /\ At("verify")
  /\ FrozenModel(files["model"], job.hashed)
  /\ DualProvenance(job, files["model"], files["jar"], files["packs"], files["audit"])
  /\ UnknownPolicies(job.manifest, job.v9) = {}
  /\ Proceed([command |-> job.command, manifest |-> job.manifest, v9 |-> job.v9, pc |-> "score",
              hashed |-> job.hashed, model |-> job.model, scorer |-> files["model"],
              jar |-> files["jar"], packs |-> files["packs"],
              records |-> <<>>, seen |-> {}, metrics |-> NoMetrics])

Current == job.manifest.transitions[Len(job.records) + 1]
Scoring == At("score") /\ Len(job.records) < Len(job.manifest.transitions)
Row(t, status, reasons, actual, predicted) ==
  [t |-> t, status |-> status, reasons |-> reasons, actual |-> actual, predicted |-> predicted]

Exclude ==
  /\ Scoring
  /\ Current.use # "accuracy-bearing"
  /\ Proceed([job EXCEPT !.records = Append(@, Row(Current,
       IF Current.use = "traceability-only" THEN "excluded_traceability"
       ELSE "excluded_manifest_overlap", {}, None, None))])

Ask == asked' = asked \cup {[use |-> Current.use, jar |-> job.jar, packs |-> job.packs,
                             dataset |-> job.hashed, scorer |-> job.scorer]}

(* Without a label the transition is neither featured nor remembered.      *)
LabelRejected ==
  /\ Scoring
  /\ Current.use = "accuracy-bearing"
  /\ Ask
  /\ job' = [job EXCEPT !.records = Append(@, Row(Current, "oracle_rejected", {}, None, None))]
  /\ UNCHANGED <<files, written, commands, swaps>>

Label ==
  /\ Scoring
  /\ Current.use = "accuracy-bearing"
  /\ Ask
  /\ LET reasons == Reasons(Current, job.v9, job.jar, job.seen)
     IN \E actual \in Labels, predicted \in Labels :
          job' = [job EXCEPT
            !.seen = @ \cup {Fingerprint(Current, job.jar)},
            !.metrics = IF reasons = {} THEN Counted(@, Current, actual, predicted) ELSE @,
            !.records = Append(@, IF reasons = {} THEN Row(Current, "scored", {}, actual, predicted)
                                  ELSE Row(Current, "rejected_overlap", reasons, actual, None))]
  /\ UNCHANGED <<files, written, commands, swaps>>

Rows(status) == Cardinality({i \in DOMAIN job.records : job.records[i].status = status})

(* What the report names as its inputs, and in `used` what they were.      *)
EvaluationReport ==
  [kind |-> "evaluation", manifest |-> job.manifest, v9 |-> job.hashed, model |-> job.model,
   jar |-> job.jar, packs |-> job.packs, total |-> Len(job.records),
   scored |-> Rows("scored"), traceability |-> Rows("excluded_traceability"),
   overlapExcluded |-> Rows("excluded_manifest_overlap"), rejected |-> Rows("oracle_rejected"),
   overlap |-> Rows("rejected_overlap"), metrics |-> job.metrics, records |-> job.records,
   used |-> [v9 |-> job.v9, model |-> job.scorer]]

Publish(report) ==
  /\ report # None
  /\ written' = written \cup {report}
  /\ job' = None
  /\ UNCHANGED <<files, commands, swaps, asked>>

Evaluated ==
  /\ At("score")
  /\ Len(job.records) = Len(job.manifest.transitions)
  /\ Publish(EvaluationReport)

Preflighted ==
  /\ At("report")
  /\ job.command = "preflight"
  /\ Publish(PreflightReport(job.manifest, job.v9, files["v9"], files["jar"], files["packs"]))

Diagnosed ==
  /\ At("report")
  /\ job.command = "diagnose"
  /\ \E id \in RecordIds : Publish(DiagnosticReport(job.manifest, job.v9, id, Limit))

Swap ==
  /\ swaps < MaxSwaps
  /\ job = None \/ SwapWhileRead
  /\ swaps' = swaps + 1
  /\ \E p \in Inputs : \E c \in Versions[p] : c # files[p] /\ files' = [files EXCEPT ![p] = c]
  /\ UNCHANGED <<job, written, commands, asked>>

Finished ==
  /\ job = None /\ commands = MaxCommands /\ swaps = MaxSwaps
  /\ UNCHANGED vars

Next ==
  \/ \E c \in {"evaluate", "preflight", "diagnose"} : Begin(c)
  \/ Abandon \/ ReadManifest \/ LoadDataset \/ HashInputs \/ Verify
  \/ Exclude \/ LabelRejected \/ Label \/ Evaluated \/ Preflighted \/ Diagnosed
  \/ Swap \/ Finished

Spec == Init /\ [][Next]_vars

-----------------------------------------------------------------------------
Written(kind) == {r \in written : r.kind = kind}

(* evaluate_external_transitions scores a transition only when nothing of  *)
(* the V9 corpus comes near it, and no pair twice: no source, no family,   *)
(* no pair, and no structure within the distance.                          *)
ScoredAreIsolated ==
  \A r \in Written("evaluation") :
    \A i \in {k \in DOMAIN r.records : r.records[k].status = "scored"} :
      LET t == r.records[i].t
      IN /\ \A x \in r.v9.records :
              /\ x.source # t.source /\ x.family # t.family
              /\ x.pair = None \/ x.pair # t.pair \/ x.policy # t.policy
              /\ CoordinateDistance(Structural[t.pair], x.features.structural) > MaxDistance
         /\ \A k \in DOMAIN r.records \ {i} : r.records[k].status = "scored" =>
              <<r.records[k].t.pair, r.records[k].t.policy>> # <<t.pair, t.policy>>

(* The JAR is only asked about transitions that bear accuracy, and only    *)
(* once model, corpus, policies and the JAR itself are the registered      *)
(* pairing: what verify_external_dual_provenance and the exclusion ahead   *)
(* of the loop are for.                                                    *)
NothingAskedUnapproved ==
  \A a \in asked :
    /\ a.use = "accuracy-bearing"
    /\ a.jar = Registered.execution /\ a.packs = Registered.packs
    /\ a.dataset = Registered.dataset
    /\ a.scorer.dataset = a.dataset /\ a.scorer.jar = Registered.training

ScoredTransitions(r) == {r.records[i].t : i \in {k \in DOMAIN r.records : r.records[k].status = "scored"}}

(* The matrices of a report count its scored rows and nothing else,        *)
(* overall and in every stratification, a stratum is there for each scored *)
(* row and for no other, and the report's counts cover its rows.           *)
MetricsAreOfScored ==
  \A r \in Written("evaluation") :
    LET CountedIn(c, Pick(_)) ==
          Cardinality({i \in DOMAIN r.records : r.records[i].status = "scored"
                         /\ <<r.records[i].actual, r.records[i].predicted>> = c /\ Pick(r.records[i].t)})
        Every(t) == TRUE
    IN /\ r.total = r.scored + r.traceability + r.overlapExcluded + r.rejected + r.overlap
       /\ Total(r.metrics.overall) = r.scored
       /\ DOMAIN r.metrics.mutation = {t.mutation : t \in ScoredTransitions(r)}
       /\ DOMAIN r.metrics.policy = {t.policy : t \in ScoredTransitions(r)}
       /\ DOMAIN r.metrics.both = {<<t.mutation, t.policy>> : t \in ScoredTransitions(r)}
       /\ \A c \in Labels \X Labels :
            /\ r.metrics.overall[c] = CountedIn(c, Every)
            /\ \A k \in DOMAIN r.metrics.mutation :
                 LET Of(t) == t.mutation = k IN r.metrics.mutation[k][c] = CountedIn(c, Of)
            /\ \A k \in DOMAIN r.metrics.policy :
                 LET Of(t) == t.policy = k IN r.metrics.policy[k][c] = CountedIn(c, Of)
            /\ \A k \in DOMAIN r.metrics.both :
                 LET Of(t) == <<t.mutation, t.policy>> = k IN r.metrics.both[k][c] = CountedIn(c, Of)

(* A manifest that passed preflight_external_manifest loses no transition  *)
(* to overlap when it is evaluated against the same corpus with the same   *)
(* JAR, although the evaluation remembers only the pairs it could label.   *)
PreflightPredicts ==
  \A p \in Written("preflight"), e \in Written("evaluation") :
    p.passed /\ p.manifest = e.manifest /\ p.v9 = e.v9 /\ p.jar = e.jar => e.overlap = 0

(* The diagnostic's pass over the corpus finds the distance the preflight  *)
(* takes from its set of signatures, and an exact match where it does;     *)
(* every neighbour it shows differs in exactly that many coordinates.      *)
DiagnosisAgrees ==
  \A d \in Written("diagnostic") :
    /\ \A n \in d.shown : Cardinality(n.differs) = d.distance
    /\ Cardinality(d.shown) = Min({Limit, d.nearest})
    /\ \A p \in Written("preflight") :
         p.manifest = d.manifest /\ p.v9 = d.v9 =>
           \A i \in DOMAIN p.records : p.records[i].id = d.id =>
             p.records[i].nearest = d.distance /\ p.records[i].exact = (d.exact > 0)

(* "Immutable identities that make an external report reproducible"        *)
(* (external_evaluation.rs:218): the corpus and the model a report names   *)
(* are those whose overlap it tested and whose predictions it holds.       *)
ReportNamesItsInputs ==
  \A r \in Written("evaluation") : r.v9 = r.used.v9 /\ r.model = r.used.model

=============================================================================
