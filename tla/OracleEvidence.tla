--------------------------- MODULE OracleEvidence ---------------------------
(***************************************************************************)
(* Conformance reports and promotion manifests (models/oracle_evidence.rs) *)
(* as the commands of main.rs make them: oracle-conformance captures runs  *)
(* of the JAR, reclassify-conformance and merge-conformance derive reports *)
(* from reports, promote-invariants derives a manifest.  Every file is     *)
(* written in place, so a crash leaves a torn one.                         *)
(***************************************************************************)
EXTENDS Naturals, Sequences, FiniteSets, FiniteSetsExt

CONSTANTS
  Processes,     \* commands that may run at the same time
  Paths,
  Captured,      \* what oracle-conformance may produce: [jar, runs], a run being
                 \*   [family, mutation, variant, mode, policy, outcome, fatal]
  Legacy,        \* report files of an earlier version found on disk, by path
  MinFamilies, MinPolicies, MinChecks,   \* thresholds, the same in all reports
  Selections,    \* what a reviewer may select: sequences of [scope, rationale]
  MaxCommands,   \* commands started (bound)
  None, Torn

(* What a run of the JAR records; a crash captured as a label is fatal.    *)
Outcomes == {"safe", "warning", "breaking", "rejected"}
IsRun(r) ==
  /\ DOMAIN r = {"family", "mutation", "variant", "mode", "policy", "outcome", "fatal"}
  /\ r.outcome \in Outcomes
IsCapture(c) == IsFiniteSet(c.runs) /\ \A r \in c.runs : IsRun(r)

EvidenceAssumption ==
  /\ \A c \in Captured : IsCapture(c)
  /\ \A p \in DOMAIN Legacy : IsCapture(Legacy[p])
  /\ \A s \in Selections : s \in Seq({s[i] : i \in DOMAIN s})
  /\ MinFamilies \in Nat \ {0} /\ MinPolicies \in Nat \ {0} /\ MinChecks \in Nat \ {0}
  /\ MaxCommands \in Nat

VARIABLES
  file,      \* path -> None, Torn, a report [kind, jar, runs] or a manifest [kind, promotions]
  job,       \* process -> None or [output, content, writing]
  commands,  \* commands started so far
  captured   \* history: the reports the JAR itself gave

vars == <<file, job, commands, captured>>

Report(jar, runs) == [kind |-> "report", jar |-> jar, runs |-> runs]
IsReport(f) == f \notin {None, Torn} /\ f.kind = "report"
IsManifest(f) == f \notin {None, Torn} /\ f.kind = "manifest"

Init ==
  /\ file = [p \in Paths |-> IF p \in DOMAIN Legacy THEN Report(Legacy[p].jar, Legacy[p].runs)
                             ELSE None]
  /\ job = [p \in Processes |-> None]
  /\ commands = 0
  /\ captured = {Legacy[p] : p \in DOMAIN Legacy}

Start(p, output, content) ==
  /\ job[p] = None
  /\ commands < MaxCommands
  /\ commands' = commands + 1
  /\ job' = [job EXCEPT ![p] = [output |-> output, content |-> content, writing |-> FALSE]]
  /\ UNCHANGED file

-----------------------------------------------------------------------------
(* Aggregates: rejected runs are kept, and count for nothing.              *)
Accepted(runs) == {r \in runs : r.outcome # "rejected"}
Labels(runs) == {r.outcome : r \in runs}
Families(runs) == {r.family : r \in runs}

Scope(r) == [mutation |-> r.mutation, mode |-> r.mode, policy |-> r.policy]
Cell(runs, s) == {r \in runs : Scope(r) = s}
AcrossPolicies(runs, s) == {r \in runs : r.mutation = s.mutation /\ r.mode = s.mode}

CeilDiv(a, b) == (a + b - 1) \div b

(* aggregate_cells *)
CellIsCandidate(runs, s) ==
  LET accepted == Accepted(Cell(runs, s)) IN
  /\ Cardinality(Families(accepted)) >= MinFamilies
  /\ Cardinality(accepted) >= CeilDiv(MinChecks, MinPolicies)
  /\ Cardinality(Labels(accepted)) = 1

(* Mutant: the labels of the cell stand for those of all policies.         *)
CrossPolicyCountsOnly(runs, s) ==
  LET accepted == Accepted(AcrossPolicies(runs, s)) IN
  /\ Cardinality(Families(accepted)) >= MinFamilies
  /\ Cardinality({r.policy : r \in accepted}) >= MinPolicies
  /\ Cardinality(accepted) >= MinChecks

(* aggregate_cross_policy *)
CrossPolicyIsCandidate(runs, s) ==
  LET accepted == Accepted(AcrossPolicies(runs, s)) IN
  /\ Cardinality(Families(accepted)) >= MinFamilies
  /\ Cardinality({r.policy : r \in accepted}) >= MinPolicies
  /\ Cardinality(accepted) >= MinChecks
  /\ Cardinality(Labels(accepted)) = 1

-----------------------------------------------------------------------------
(* oracle-conformance: an output that exists is overwritten.               *)
Conform(p) ==
  \E c \in Captured, output \in Paths :
    /\ Start(p, output, Report(c.jar, c.runs))
    /\ captured' = captured \cup {c}

Reclassified(r) == IF r.fatal THEN [r EXCEPT !.outcome = "rejected"] ELSE r

(* reclassify-conformance *)
Reclassify(p) ==
  \E input, output \in Paths :
    /\ file[output] = None
    /\ IsReport(file[input])
    /\ Start(p, output, Report(file[input].jar, {Reclassified(r) : r \in file[input].runs}))
    /\ UNCHANGED captured

(* The identity by which merge-conformance tells evidence apart: the       *)
(* variant is not part of it.                                              *)
EvidenceCell(r) == <<r.family, r.mutation, r.mode, r.policy>>

(* The second report repeats no cell of the first nor one of its own; the  *)
(* first is taken as it is.                                                *)
Mergeable(first, second) ==
  /\ first.jar = second.jar
  /\ {EvidenceCell(r) : r \in first.runs} \cap {EvidenceCell(r) : r \in second.runs} = {}
  /\ \A r, q \in second.runs : EvidenceCell(r) = EvidenceCell(q) => r = q

(* merge-conformance, of two reports *)
MergeReports(p) ==
  \E a, b, output \in Paths :
    /\ file[output] = None
    /\ IsReport(file[a]) /\ IsReport(file[b])
    /\ Mergeable(file[a], file[b])
    /\ Start(p, output, Report(file[a].jar, file[a].runs \cup file[b].runs))
    /\ UNCHANGED captured

-----------------------------------------------------------------------------
(* promote: every selection has a reason and is a candidate in both        *)
(* aggregates; a scope selected twice is promoted twice.                   *)
Promotable(report, selection) ==
  /\ selection.rationale # None
  /\ CellIsCandidate(report.runs, selection.scope)
  /\ CrossPolicyIsCandidate(report.runs, selection.scope)

(* runs is history: the evidence the reviewer had.                         *)
Promotion(report, selection) ==
  [scope |-> selection.scope, jar |-> report.jar, runs |-> report.runs,
   label |-> CHOOSE l \in Labels(Accepted(Cell(report.runs, selection.scope))) : TRUE]

Promoted(report, selections) == [i \in DOMAIN selections |-> Promotion(report, selections[i])]

(* merge: no scope of the additions is in the manifest, nor twice in the   *)
(* additions; the manifest itself is taken as it is.                       *)
CanMerge(existing, additions) ==
  /\ \A i \in DOMAIN additions : \A j \in DOMAIN existing : existing[j].scope # additions[i].scope
  /\ \A i, j \in DOMAIN additions : additions[i].scope = additions[j].scope => i = j

Manifest(promotions) == [kind |-> "manifest", promotions |-> promotions]

(* promote-invariants, with or without --existing; an output that exists   *)
(* is overwritten, also when it is the existing manifest itself.           *)
Promote(p) ==
  \E evidence, output \in Paths, selections \in Selections :
    /\ IsReport(file[evidence])
    /\ \A i \in DOMAIN selections : Promotable(file[evidence], selections[i])
    /\ LET additions == Promoted(file[evidence], selections) IN
       \/ Start(p, output, Manifest(additions))
       \/ \E existing \in Paths :
            /\ IsManifest(file[existing])
            /\ CanMerge(file[existing].promotions, additions)
            /\ Start(p, output, Manifest(file[existing].promotions \o additions))
    /\ UNCHANGED captured

-----------------------------------------------------------------------------
(* fs::write: the file is emptied, then filled.                            *)
WriteBegin(p) ==
  /\ job[p] # None /\ ~job[p].writing
  /\ file' = [file EXCEPT ![job[p].output] = Torn]
  /\ job' = [job EXCEPT ![p].writing = TRUE]
  /\ UNCHANGED <<commands, captured>>

WriteEnd(p) ==
  /\ job[p] # None /\ job[p].writing
  /\ file' = [file EXCEPT ![job[p].output] = job[p].content]
  /\ job' = [job EXCEPT ![p] = None]
  /\ UNCHANGED <<commands, captured>>

Crash(p) ==
  /\ job[p] # None
  /\ job' = [job EXCEPT ![p] = None]
  /\ UNCHANGED <<file, commands, captured>>

Ended ==
  /\ commands = MaxCommands
  /\ \A p \in Processes : job[p] = None
  /\ UNCHANGED vars

Next ==
  \/ \E p \in Processes :
       \/ Conform(p) \/ Reclassify(p) \/ MergeReports(p) \/ Promote(p)
       \/ WriteBegin(p) \/ WriteEnd(p) \/ Crash(p)
  \/ Ended

Spec == Init /\ [][Next]_vars

-----------------------------------------------------------------------------
Scopes == {Scope(r) : r \in UNION {c.runs : c \in captured}}
Manifests == {file[p] : p \in {q \in Paths : IsManifest(file[q])}}
Reports == {file[p] : p \in {q \in Paths : IsReport(file[q])}}

TypeOK ==
  /\ \A f \in Reports : \A r \in f.runs : r.outcome \in Outcomes
  /\ \A f \in Manifests : \A i \in DOMAIN f.promotions :
       /\ f.promotions[i].scope \in Scopes
       /\ f.promotions[i].label \in {"safe", "warning", "breaking"}
  /\ commands \in 0..MaxCommands

(* However reports are reclassified and merged, and whatever crashes tore: *)
(* each run in a report was captured from the JAR the report names, and    *)
(* its outcome is the captured one or a rejection of what was a crash.     *)
EvidenceIsTheJars ==
  \A f \in Reports : \A r \in f.runs :
    \E c \in captured : c.jar = f.jar /\ (r \in c.runs \/ \E q \in c.runs :
                          q.fatal /\ r = [q EXCEPT !.outcome = "rejected"])

(* A promotion rests on what its JAR answered: in the report it was taken  *)
(* from, enough families, policies and checks agree with its label, its    *)
(* own policy among them, and no answer under any policy contradicts it.   *)
PromotionsAreEarned ==
  \A f \in Manifests : \A i \in DOMAIN f.promotions :
    LET pr == f.promotions[i]
        answers == {r \in pr.runs : r.mutation = pr.scope.mutation /\ r.mode = pr.scope.mode
                                    /\ r.outcome # "rejected"}
    IN /\ \A r \in answers : r.outcome = pr.label
       /\ Cardinality({r.family : r \in {q \in answers : q.policy = pr.scope.policy}}) >= MinFamilies
       /\ Cardinality({r.policy : r \in answers}) >= MinPolicies
       /\ Cardinality(answers) >= MinChecks
       /\ \A r \in answers : \E c \in captured : c.jar = pr.jar /\ r \in c.runs

(* Manifests are merged from evidence of several JARs and reports: no      *)
(* scope ever has two labels, so that the first match is the only answer.  *)
OneLabelPerScope ==
  \A f \in Manifests : \A i, j \in DOMAIN f.promotions :
    f.promotions[i].scope = f.promotions[j].scope => f.promotions[i] = f.promotions[j]

(* "Combines independently reviewed evidence without allowing an ambiguous *)
(* mutation/mode/policy scope to be promoted twice" (line 407).            *)
ScopePromotedOnce ==
  \A f \in Manifests : \A i, j \in DOMAIN f.promotions :
    f.promotions[i].scope = f.promotions[j].scope => i = j

(* "refuses duplicate family/mutation/mode/policy cells rather than        *)
(* silently hiding evidence" (main.rs, line 2212): a merged report is one  *)
(* that no capture gave.                                                   *)
MergedHasNoDuplicateCell ==
  \A f \in Reports :
    (\A c \in captured : {EvidenceCell(r) : r \in f.runs} # {EvidenceCell(r) : r \in c.runs}) =>
      \A r, q \in f.runs : EvidenceCell(r) = EvidenceCell(q) => r = q

=============================================================================
