-------------------------- MODULE EquivalenceAudit --------------------------
(***************************************************************************)
(* run_backward_equivalence_audit of generation/equivalence.rs: the frozen *)
(* V9 dataset is verified, its pairs are rebuilt from the source file and  *)
(* replayed on the V10 JAR, and the report says whether V10 answers as V9. *)
(* The replay itself is one step here: ReplayPool shows that its workers   *)
(* give every record its own answer or fail as a whole.                    *)
(***************************************************************************)
EXTENDS Integers, Sequences, FiniteSets, SequencesExt

CONSTANTS
  Datasets,    \* what the dataset file may hold: sequences of records
               \*   [family, mutation, pack, generation], generation None or
               \*   [seed, identity, pair, outcome, stdout]
  Frozen,      \* the dataset whose hash is HISTORICAL_V9_DATASET_SHA256
  Sources,     \* what the source file may hold: family -> mutation -> pair
  V9,          \* the identity every record must carry: JAR, packs, BACKWARD
  Answers,     \* what V10 may answer to a pair: [outcome, stdout]
  MaxReplaced, \* replacements another program makes (bound)
  None

Outcomes == {"safe", "warning", "breaking", "rejected"}

AuditAssumption ==
  /\ Frozen \in Datasets
  /\ \A d \in Datasets : d \in Seq({d[i] : i \in DOMAIN d})
  /\ \A a \in Answers : a.outcome \in Outcomes
  /\ MaxReplaced \in Nat

VARIABLES
  file,        \* [dataset, source]: what the two files hold
  replaced,
  phase,
  dataset,     \* the records loaded
  jobs,        \* the jobs rebuilt: [index, pair, pack]
  probe,       \* what the probe printed on V10 and on the divergent JAR
  controls,    \* for each synthetic control run so far, whether it passed
  invocations, \* [mutation, pack, outcome, outcomeMatch, stdoutMatch, printed]
  report       \* [summary, traces, result], or None

vars == <<file, replaced, phase, dataset, jobs, probe, controls, invocations, report>>

Init ==
  /\ file \in [dataset : Datasets, source : Sources]
  /\ replaced = 0
  /\ phase = "verify"
  /\ dataset = << >> /\ jobs = << >> /\ controls = << >> /\ invocations = << >>
  /\ probe = None /\ report = None

(* Another program replaces the dataset or the source file.                *)
Replace ==
  /\ replaced < MaxReplaced
  /\ replaced' = replaced + 1
  /\ \/ \E d \in Datasets : file' = [file EXCEPT !.dataset = d]
     \/ \E s \in Sources : file' = [file EXCEPT !.source = s]
  /\ UNCHANGED <<phase, dataset, jobs, probe, controls, invocations, report>>

Enter(next) == phase' = next /\ UNCHANGED <<file, replaced>>

(* An error return, at any point: nothing is reported.                     *)
Fail ==
  /\ phase \notin {"done", "failed"}
  /\ Enter("failed")
  /\ UNCHANGED <<dataset, jobs, probe, controls, invocations, report>>

-----------------------------------------------------------------------------
(* The hashes of the dataset, the JAR and the packs are the pinned ones,   *)
(* and the control JAR is another one.                                     *)
Verify ==
  /\ phase = "verify"
  /\ file.dataset = Frozen
  /\ Enter("load")
  /\ UNCHANGED <<dataset, jobs, probe, controls, invocations, report>>

Generations(ds) == {ds[i].generation : i \in DOMAIN ds} \ {None}

(* One seed, and every record of the V9 identity.                          *)
CrossesNoBoundary(ds) ==
  /\ Cardinality({g.seed : g \in Generations(ds)}) = 1
  /\ \A i \in DOMAIN ds : ds[i].generation # None /\ ds[i].generation.identity = V9

(* The file is read again, after its hash was.                             *)
Load ==
  /\ phase = "load"
  /\ CrossesNoBoundary(file.dataset)
  /\ dataset' = file.dataset
  /\ Enter("rebuild")
  /\ UNCHANGED <<jobs, probe, controls, invocations, report>>

(* Mutant: the fingerprint is not compared with the historical one.        *)
ReproducesAnyPair(r, source) ==
  r.family \in DOMAIN source /\ r.mutation \in DOMAIN source[r.family]

(* A record's family and mutation are still in the source file, and give   *)
(* the pair of its historical fingerprint.                                 *)
Reproduces(r, source) ==
  /\ r.family \in DOMAIN source
  /\ r.mutation \in DOMAIN source[r.family]
  /\ source[r.family][r.mutation] = r.generation.pair

Rebuild ==
  /\ phase = "rebuild"
  /\ \A i \in DOMAIN dataset : Reproduces(dataset[i], file.source)
  /\ jobs' = [i \in DOMAIN dataset |->
               [index |-> i, pack |-> dataset[i].pack,
                pair |-> file.source[dataset[i].family][dataset[i].mutation]]]
  /\ Enter("probe")
  /\ UNCHANGED <<dataset, probe, controls, invocations, report>>

-----------------------------------------------------------------------------
(* run_sensitivity_control: the compiled probe is run on both JARs.        *)
Probe ==
  /\ phase = "probe"
  /\ \E a, b \in {"BREAKING", "WARNING"} : probe' = [v10 |-> a, divergent |-> b]
  /\ Enter("control")
  /\ UNCHANGED <<dataset, jobs, controls, invocations, report>>

DivergenceDetected == probe.v10 = "BREAKING" /\ probe.divergent = "WARNING"

(* synthetic_cases: four optional additions that BACKWARD must accept, six *)
(* changes it must refuse, each with a message that says why.              *)
SyntheticCases ==
  [id \in 1..10 |->
     IF id <= 4 THEN [outcome |-> "safe", message |-> "Schema compatibility: PASS"]
     ELSE [outcome |-> "breaking",
           message |-> CASE id \in {5, 6} -> "Field removed"
                         [] id = 7 -> "Required field added"
                         [] id \in {8, 9} -> "Field type changed"
                         [] OTHER -> "Constraint tightened"]]

Messages == {SyntheticCases[id].message : id \in 1..10}

(* run_synthetic_controls: all are run, whether they pass or not.          *)
Control ==
  /\ phase = "control"
  /\ Len(controls) < 10
  /\ \E outcome \in {"safe", "breaking", "rejected"}, message \in Messages :
       LET case == SyntheticCases[Len(controls) + 1] IN
       controls' = Append(controls, outcome = case.outcome /\ message = case.message)
  /\ Enter("control")
  /\ UNCHANGED <<dataset, jobs, probe, invocations, report>>

(* The audit goes on only if it would have seen a difference.              *)
AuditIsSensitive ==
  /\ phase = "control" /\ Len(controls) = 10
  /\ DivergenceDetected /\ \A i \in DOMAIN controls : controls[i]
  /\ Enter("replay")
  /\ UNCHANGED <<dataset, jobs, probe, controls, invocations, report>>

Compared(job, a) ==
  LET r == dataset[job.index] IN
  [mutation |-> r.mutation, pack |-> r.pack, outcome |-> a.outcome,
   outcomeMatch |-> a.outcome = r.generation.outcome,
   stdoutMatch |-> a.stdout = r.generation.stdout,
   printed |-> a.stdout]

Replay ==
  /\ phase = "replay"
  /\ \E answer \in [DOMAIN jobs -> Answers] :
       invocations' = [i \in DOMAIN jobs |-> Compared(jobs[i], answer[i])]
  /\ Enter("report")
  /\ UNCHANGED <<dataset, jobs, probe, controls, report>>

-----------------------------------------------------------------------------
NoCounts == [by |-> [o \in Outcomes |-> 0], outcomeMismatches |-> 0, stdoutMismatches |-> 0]
NoSummary == [mutation |-> << >>, pack |-> << >>, outcomeMismatches |-> 0, stdoutMismatches |-> 0]

One(condition) == IF condition THEN 1 ELSE 0

(* update_counts, in the entry of one key of a map.                        *)
UpdateCounts(map, key, inv) ==
  LET counts == IF key \in DOMAIN map THEN map[key] ELSE NoCounts IN
  [k \in DOMAIN map \cup {key} |->
     IF k # key THEN map[k]
     ELSE [by |-> [counts.by EXCEPT ![inv.outcome] = @ + 1],
           outcomeMismatches |-> counts.outcomeMismatches + One(~inv.outcomeMatch),
           stdoutMismatches |-> counts.stdoutMismatches + One(~inv.stdoutMatch)]]

Added(s, inv) ==
  [mutation |-> UpdateCounts(s.mutation, inv.mutation, inv),
   pack |-> UpdateCounts(s.pack, inv.pack, inv),
   outcomeMismatches |-> s.outcomeMismatches + One(~inv.outcomeMatch),
   stdoutMismatches |-> s.stdoutMismatches + One(~inv.stdoutMatch)]

Summarize(invs) == FoldLeft(Added, NoSummary, invs)

(* build_traces: the first invocation of each mutation; what V10 printed   *)
(* is kept only where it differs.                                          *)
Traces(ds, invs) ==
  [m \in {invs[i].mutation : i \in DOMAIN invs} |->
     LET i == SelectInSeq(invs, LAMBDA v : v.mutation = m) IN
     [index |-> i, printed |-> IF invs[i].stdoutMatch THEN ds[i].generation.stdout
                               ELSE invs[i].printed]]

Result(s) ==
  CASE s.outcomeMismatches = 0 /\ s.stdoutMismatches = 0 -> "COMPLETE_PRESERVED_V9_MATCH"
    [] s.outcomeMismatches = 0 /\ s.stdoutMismatches > 0 -> "DECISION_MATCH_OUTPUT_DIFFERENCE"
    [] OTHER -> "BEHAVIORAL_DIVERGENCE"

(* The source file is hashed here, after it was used.                      *)
Report ==
  /\ phase = "report"
  /\ LET s == Summarize(invocations) IN
     report' = [summary |-> s, traces |-> Traces(dataset, invocations), result |-> Result(s)]
  /\ Enter("done")
  /\ UNCHANGED <<dataset, jobs, probe, controls, invocations>>

Ended == phase \in {"done", "failed"} /\ UNCHANGED vars

Next ==
  \/ Replace \/ Fail \/ Verify \/ Load \/ Rebuild \/ Probe \/ Control
  \/ AuditIsSensitive \/ Replay \/ Report \/ Ended

Spec == Init /\ [][Next]_vars

-----------------------------------------------------------------------------
TypeOK ==
  /\ file \in [dataset : Datasets, source : Sources]
  /\ phase \in {"verify", "load", "rebuild", "probe", "control", "replay", "report", "done", "failed"}
  /\ \A i \in DOMAIN jobs : jobs[i].index = i
  /\ controls \in BoundedSeq(BOOLEAN, 10)
  /\ Len(invocations) \in {0, Len(dataset)}
  /\ report # None => phase = "done"

(* Both files may be replaced after they were verified, and between two    *)
(* reads of them: what is replayed is still the historical pair of a       *)
(* record of the V9 identity, under its own pack, and all are of one seed. *)
OnlyHistoricalPairs ==
  jobs # << >> =>
    /\ Cardinality({dataset[i].generation.seed : i \in DOMAIN dataset}) = 1
    /\ \A i \in DOMAIN jobs :
         LET r == dataset[jobs[i].index] IN
         /\ r.generation.identity = V9
         /\ jobs[i].pair = r.generation.pair /\ jobs[i].pack = r.pack

(* A verdict is given only by an audit that has shown it would see a       *)
(* difference, and it says that V10 answers as V9 if and only if each of   *)
(* the records was answered so.                                            *)
VerdictIsEarned ==
  phase = "done" =>
    /\ DivergenceDetected /\ \A i \in 1..10 : controls[i]
    /\ LET same == {i \in DOMAIN dataset : invocations[i].outcome = dataset[i].generation.outcome}
           print == {i \in DOMAIN dataset : invocations[i].printed = dataset[i].generation.stdout}
       IN report.result =
            IF same # DOMAIN dataset THEN "BEHAVIORAL_DIVERGENCE"
            ELSE IF print # DOMAIN dataset THEN "DECISION_MATCH_OUTPUT_DIFFERENCE"
            ELSE "COMPLETE_PRESERVED_V9_MATCH"

(* The tables by mutation and by pack count the same invocations, each     *)
(* once, as the totals do.                                                 *)
CountsAddUp ==
  phase = "done" =>
    \A table \in {"mutation", "pack"} :
      LET rows == report.summary[table]
          Of(key) == {i \in DOMAIN invocations : invocations[i][table] = key}
      IN /\ DOMAIN rows = {dataset[i][table] : i \in DOMAIN dataset}
         /\ \A key \in DOMAIN rows :
              /\ \A o \in Outcomes :
                   rows[key].by[o] = Cardinality({i \in Of(key) : invocations[i].outcome = o})
              /\ rows[key].outcomeMismatches =
                   Cardinality({i \in Of(key) : ~invocations[i].outcomeMatch})
         /\ report.summary.outcomeMismatches =
              Cardinality({i \in DOMAIN invocations : ~invocations[i].outcomeMatch})

(* Each mutation has one trace, and it shows what V10 printed for it.      *)
TracesShowV10 ==
  phase = "done" =>
    /\ DOMAIN report.traces = {dataset[i].mutation : i \in DOMAIN dataset}
    /\ \A m \in DOMAIN report.traces :
         /\ dataset[report.traces[m].index].mutation = m
         /\ report.traces[m].printed = invocations[report.traces[m].index].printed

=============================================================================
