--------------------------- MODULE FeatureAblation ---------------------------
(***************************************************************************)
(* The command run-feature-ablation: a rule on one feature is fitted per   *)
(* seed, and what it scores is compared with the persisted report of the   *)
(* full model.  The files it reads may be replaced while it runs.          *)
(*                                                                         *)
(* A record is its family, role, label and whether feature 65 reaches 0.5. *)
(* A file's content has a name.  A reference report has a function from    *)
(* the seeds in it to the confusion matrices of their test and challenge   *)
(* metrics, or None if it is not JSON with seed_runs.                      *)
(***************************************************************************)
EXTENDS BinaryMetrics, SequencesExt

CONSTANTS Corpora,      \* content of the input -> its records, and whether it may be used
          References,   \* content of the reference report -> its seed_runs
          Replacements, \* contents a file may be replaced with
          Requests,     \* [feature_index, seeds], as given
          OriginalSeeds,\* the three seeds, in order
          None, Older, Torn

\* A corpus is finite and a feature reaches 0.5 or does not.
AblationAssumption ==
  /\ OriginalSeeds \in Seq(Nat)
  /\ \A c \in DOMAIN Corpora : IsFiniteSet(Corpora[c].records) /\ \A r \in Corpora[c].records : r.bucket \in {0, 1}

Index == 65
Ready == {c \in DOMAIN Corpora : Corpora[c].sound /\ Corpora[c].stamped /\ Corpora[c].version = "v6"}

VARIABLES
  pc, request,
  input, report_file,    \* the two files that are read
  output,                \* the file that is written: None, Older, Torn or a report
  replaced,              \* a file was replaced
  dataset, reference,    \* what was read of them
  seeds,                 \* the seeds that are left
  split,                 \* the split of the current seed: family -> part
  seed_reports, all_match,
  report                 \* the document to be written

files == <<input, report_file, replaced>>
vars == <<pc, request, files, output, dataset, reference, seeds, split, seed_reports, all_match, report>>

Standard == {r \in Corpora[dataset].records : r.role = "standard"}
Challenge == {r \in Corpora[dataset].records : r.role = "challenge"}
Families == {r.family : r \in Standard}
Part(name) == {r \in Standard : split[r.family] = name}
Parts == {"train", "validation", "test"}

-----------------------------------------------------------------------------
(* The rule. *)

Positive(r) == IF r.label = "breaking" THEN 1 ELSE 0
Count(s, bucket, label) == Cardinality({r \in s : r.bucket = bucket /\ Positive(r) = label})
Counts(s) == [b \in {0, 1} |-> [l \in {0, 1} |-> Count(s, b, l)]]

Training(name) == Part(name)

Fits(s) ==
  /\ \A r \in s : r.label # None
  /\ \A b \in {0, 1} : Count(s, b, 0) # Count(s, b, 1)

RuleOf(s) == [b \in {0, 1} |-> IF Count(s, b, 1) > Count(s, b, 0) THEN 1 ELSE 0]

\* What a rule scores on a set of records.
Predicts(s, rule, p, l) == Cardinality({r \in s : rule[r.bucket] = p /\ Positive(r) = l})
Evaluate(s, rule) ==
  MetricsOf([tp |-> Predicts(s, rule, 1, 1), tn |-> Predicts(s, rule, 0, 0),
             fp |-> Predicts(s, rule, 1, 0), fn |-> Predicts(s, rule, 0, 1)])

-----------------------------------------------------------------------------
(* The reference. *)

SeedRuns(r) == References[r]

\* A reference is written as decimals and read back: a number with a power of two below comes back as
\* it was, another may come back as its neighbour.
ComesBack(f) == \E k \in {1, 2, 4, 8} : (k * f[1]) % f[2] = 0
Exact(m) == \A f \in {m.accuracy, m.precision, m.recall, m.f1_score} : ComesBack(f)

\* Outcomes of comparing what the rule scored with a persisted matrix.
Comparisons(m, persisted) ==
  IF m.confusion_matrix # persisted THEN {FALSE}
  ELSE IF Exact(m) THEN {TRUE} ELSE BOOLEAN

-----------------------------------------------------------------------------
(* The command. *)

Fail ==
  /\ pc' = "failed"
  /\ UNCHANGED <<request, files, output, dataset, reference, seeds, split, seed_reports, all_match, report>>

\* The seeds are sorted and given once.
Canonical(list) == SetToSortSeq(ToSet(list), LAMBDA a, b : a < b)

RequestAccepted(q) == q.feature_index = Index /\ Canonical(q.seeds) = OriginalSeeds

OutputFree == output = None

Start ==
  /\ pc = "start"
  /\ IF RequestAccepted(request) /\ OutputFree
     THEN /\ pc' = "load" /\ seeds' = Canonical(request.seeds)
          /\ UNCHANGED <<request, files, output, dataset, reference, split, seed_reports, all_match, report>>
     ELSE Fail

\* The input is loaded, its stamp and version asked for; there must be standard and challenge records.
Load ==
  /\ pc = "load"
  /\ IF input \in Ready /\ {r.role : r \in Corpora[input].records} = {"standard", "challenge"}
     THEN /\ pc' = "reference" /\ dataset' = input
          /\ UNCHANGED <<request, files, output, reference, seeds, split, seed_reports, all_match, report>>
     ELSE Fail

ReadReference ==
  /\ pc = "reference"
  /\ IF References[report_file] # None
     THEN /\ pc' = "split" /\ reference' = report_file
          /\ UNCHANGED <<request, files, output, dataset, seeds, split, seed_reports, all_match, report>>
     ELSE Fail

\* Any split of the families into three parts that are not empty.
Split ==
  /\ pc = "split" /\ seeds # <<>>
  /\ IF Cardinality(Families) >= 3
     THEN /\ pc' = "seed"
          /\ split' \in {f \in [Families -> Parts] : \A p \in Parts : \E g \in Families : f[g] = p}
          /\ UNCHANGED <<request, files, output, dataset, reference, seeds, seed_reports, all_match, report>>
     ELSE Fail

MatchSoFar(so_far, matches) == so_far /\ matches

SeedReport(seed, rule, test, challenge, matches) ==
  [seed |-> seed, counts |-> Counts(Training("train")), rule |-> rule, test |-> test, challenge |-> challenge,
   split |-> split, matches |-> matches]

Labelled(s) == \A r \in s : r.label # None

RunSeed ==
  /\ pc = "seed"
  /\ Fits(Training("train")) /\ Labelled(Part("test") \cup Challenge)
  /\ Head(seeds) \in DOMAIN SeedRuns(reference)
  /\ \E rule \in {RuleOf(Training("train"))} :
     \E test \in {Evaluate(Part("test"), rule)}, challenge \in {Evaluate(Challenge, rule)} :
     \E t \in Comparisons(test, SeedRuns(reference)[Head(seeds)].test),
        c \in Comparisons(challenge, SeedRuns(reference)[Head(seeds)].challenge) :
       /\ all_match' = MatchSoFar(all_match, t /\ c)
       /\ seed_reports' = Append(seed_reports, SeedReport(Head(seeds), rule, test, challenge, t /\ c))
  /\ seeds' = Tail(seeds) /\ pc' = "split"
  /\ UNCHANGED <<request, files, output, dataset, reference, split, report>>

\* A bucket that is empty or tied, a record without a label, a seed the reference does not have.
SeedRefused ==
  /\ pc = "seed"
  /\ ~(Fits(Training("train")) /\ Labelled(Part("test") \cup Challenge) /\ Head(seeds) \in DOMAIN SeedRuns(reference))
  /\ Fail

\* Mutant: the reference is hashed where its dataset is, from the file.
ReferenceNamedFromFile == report_file
ReferenceNamed == reference

\* The dataset is hashed from the file, the reference from what was read.
Conclude ==
  /\ pc = "split" /\ seeds = <<>>
  /\ report' = [status |-> IF all_match THEN "CONFIRMED" ELSE "DIFFERS",
                dataset_sha256 |-> input, reference_sha256 |-> ReferenceNamed,
                seed_runs |-> seed_reports,
                fully_explains_100_percent |-> all_match]
  /\ pc' = "write"
  /\ UNCHANGED <<request, files, output, dataset, reference, seeds, split, seed_reports, all_match>>

\* Written in place.
Write ==
  /\ pc = "write" /\ output' = report /\ pc' = "done"
  /\ UNCHANGED <<request, files, dataset, reference, seeds, split, seed_reports, all_match, report>>

WriteFails ==
  /\ pc = "write" /\ output' \in {output, Torn} /\ pc' = "failed"
  /\ UNCHANGED <<request, files, dataset, reference, seeds, split, seed_reports, all_match, report>>

\* Another program replaces a file, once.
Replace ==
  /\ pc \notin {"done", "failed"} /\ ~replaced /\ replaced' = TRUE
  /\ \/ input' \in (Replacements \cap DOMAIN Corpora) \ {input} /\ UNCHANGED report_file
     \/ report_file' \in (Replacements \cap DOMAIN References) \ {report_file} /\ UNCHANGED input
  /\ UNCHANGED <<pc, request, output, dataset, reference, seeds, split, seed_reports, all_match, report>>

Init ==
  /\ pc = "start" /\ request \in Requests
  /\ input \in DOMAIN Corpora /\ report_file \in DOMAIN References
  /\ output \in {None, Older} /\ replaced = FALSE
  /\ dataset = None /\ reference = None /\ split = <<>> /\ seeds = <<>>
  /\ seed_reports = <<>> /\ all_match = TRUE /\ report = None

Command == Start \/ Load \/ ReadReference \/ Split \/ RunSeed \/ SeedRefused \/ Conclude \/ Write \/ WriteFails
Ended == pc \in {"done", "failed"} /\ UNCHANGED vars
Next == Command \/ Replace \/ Ended
Spec == Init /\ [][Next]_vars /\ WF_vars(Command)

-----------------------------------------------------------------------------
(* Properties. *)

Reports == {Older, Torn, None} \cup {report}

TypeOK ==
  /\ pc \in {"start", "load", "reference", "split", "seed", "write", "done", "failed"}
  /\ request \in Requests /\ input \in DOMAIN Corpora /\ report_file \in DOMAIN References
  /\ output \in Reports /\ replaced \in BOOLEAN /\ all_match \in BOOLEAN
  /\ dataset \in DOMAIN Corpora \cup {None} /\ reference \in DOMAIN References \cup {None}
  /\ seeds = SubSeq(OriginalSeeds, Len(OriginalSeeds) - Len(seeds) + 1, Len(OriginalSeeds))
  /\ Len(seed_reports) <= Len(OriginalSeeds)

FamiliesIn(s, name) == {g \in DOMAIN s.split : s.split[g] = name}
Of(s, name) == {r \in Standard : r.family \in FamiliesIn(s, name)}

\* A report that is concluded has each of the original seeds once, in order, and says CONFIRMED exactly
\* when the full model made the same mistakes as the rule on every test and challenge set, apart
\* from numbers that were not read back as they were written (main.rs:1556-1606).
ConfirmedMeansEverySeed ==
  report # None =>
    /\ [i \in DOMAIN report.seed_runs |-> report.seed_runs[i].seed] = OriginalSeeds
    /\ LET Agrees(s) == /\ s.test.confusion_matrix = SeedRuns(reference)[s.seed].test
                        /\ s.challenge.confusion_matrix = SeedRuns(reference)[s.seed].challenge
           sure == \A s \in ToSet(report.seed_runs) : Exact(s.test) /\ Exact(s.challenge) IN
       /\ report.status = "CONFIRMED" => \A s \in ToSet(report.seed_runs) : Agrees(s)
       /\ sure /\ (\A s \in ToSet(report.seed_runs) : Agrees(s)) => report.status = "CONFIRMED"

Rules == [{0, 1} -> {0, 1}]
HitsOf(s, rule) == Cardinality({r \in s : rule[r.bucket] = Positive(r)})

\* The rule of a seed is the one rule on this feature that is right most often in its training part: no
\* other does as well there (main.rs:1679-1687).
RuleIsTheBest ==
  \A s \in ToSet(seed_reports) :
    \A other \in Rules \ {s.rule} : HitsOf(Of(s, "train"), other) < HitsOf(Of(s, "train"), s.rule)

\* No family votes on a set it is scored on: the votes are those of the training part, and the metrics
\* count the records of the test part and of the challenge only (main.rs:1567-1575).
ScoredFamiliesDidNotVote ==
  \A s \in ToSet(seed_reports) :
    /\ \A b, l \in {0, 1} : s.counts[b][l] = Count(Of(s, "train"), b, l)
    /\ LET Total(m) == m.tp + m.tn + m.fp + m.fn IN
       /\ Total(s.test.confusion_matrix) = Cardinality(Of(s, "test"))
       /\ Total(s.challenge.confusion_matrix) = Cardinality(Challenge)

\* Whatever is replaced meanwhile, the reference a report names is the one its verdict compares with
\* (main.rs:1548, 1612).
NamedReferenceIsCompared ==
  report # None => \A s \in ToSet(report.seed_runs) :
    /\ s.seed \in DOMAIN SeedRuns(report.reference_sha256)
    /\ s.matches => /\ s.test.confusion_matrix = SeedRuns(report.reference_sha256)[s.seed].test
                    /\ s.challenge.confusion_matrix = SeedRuns(report.reference_sha256)[s.seed].challenge

\* A command ends, and a report on disk is there only if it ended well (main.rs:1633).
AblationEnds ==
  /\ <>(pc \in {"done", "failed"})
  /\ [](pc = "done" => output = report /\ report # None)

\* "The full model's 100% result is fully explained": where this is printed, the full model was right on
\* every record (main.rs:1627).
ConclusionIsTrue ==
  report # None /\ report.fully_explains_100_percent =>
    \A s \in ToSet(report.seed_runs) :
      LET Right(m) == m.fp = 0 /\ m.fn = 0 IN
      Right(SeedRuns(reference)[s.seed].test) /\ Right(SeedRuns(reference)[s.seed].challenge)
=============================================================================
