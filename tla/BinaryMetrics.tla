--------------------------- MODULE BinaryMetrics ---------------------------
(***************************************************************************)
(* evaluation/classification.rs, threshold.rs and baseline.rs: what is     *)
(* counted of binary predictions, the thresholds that are tried and the    *)
(* baselines a model is compared with.                                     *)
(*                                                                         *)
(* A metric is an exact fraction <<numerator, denominator>>; the code      *)
(* rounds it to f64.  Scores and thresholds are whole hundredths.          *)
(***************************************************************************)
EXTENDS Naturals, Sequences, FiniteSets

CONSTANT Refused   \* the result of an evaluation that is refused

One == 100
Zero == <<0, 1>>
Same(f, g) == f[1] * g[2] = g[1] * f[2]
AtMost(f, g) == f[1] * g[2] <= g[1] * f[2]

-----------------------------------------------------------------------------
(* Counting. *)

Hits(predictions, targets, p, t) ==
  Cardinality({i \in DOMAIN targets : predictions[i] = p /\ targets[i] = t})

ConfusionMatrix(predictions, targets) ==
  [tp |-> Hits(predictions, targets, 1, 1), tn |-> Hits(predictions, targets, 0, 0),
   fp |-> Hits(predictions, targets, 1, 0), fn |-> Hits(predictions, targets, 0, 1)]

\* A share of nothing is zero.
Share(part, whole) == IF whole = 0 THEN Zero ELSE <<part, whole>>

\* 2pr / (p + r), of fractions.
HarmonicMean(p, r) ==
  LET sum == p[1] * r[2] + r[1] * p[2] IN
  IF sum = 0 THEN Zero ELSE <<2 * p[1] * r[1], sum>>

MetricsOf(m) ==
  [accuracy |-> Share(m.tp + m.tn, m.tp + m.tn + m.fp + m.fn),
   precision |-> Share(m.tp, m.tp + m.fp),
   recall |-> Share(m.tp, m.tp + m.fn),
   f1_score |-> HarmonicMean(Share(m.tp, m.tp + m.fp), Share(m.tp, m.tp + m.fn)),
   confusion_matrix |-> m]

evaluate_binary_classification(predictions, targets) ==
  IF targets = <<>> \/ Len(predictions) # Len(targets) THEN Refused
  ELSE MetricsOf(ConfusionMatrix(predictions, targets))

-----------------------------------------------------------------------------
(* Thresholds and baselines. *)

\* Mutant: a score at the threshold is not positive.
PredictedAbove(scores, threshold) == [i \in DOMAIN scores |-> IF scores[i] > threshold THEN 1 ELSE 0]
Predicted(scores, threshold) == [i \in DOMAIN scores |-> IF scores[i] >= threshold THEN 1 ELSE 0]

InRange(scores, threshold) == threshold <= One /\ \A i \in DOMAIN scores : scores[i] <= One

evaluate_threshold(scores, targets, threshold) ==
  IF InRange(scores, threshold) THEN evaluate_binary_classification(Predicted(scores, threshold), targets)
  ELSE Refused

Constant(n, label) == [i \in 1 .. n |-> label]

\* The most common label; a tie is 0.
MajorityLabel(labels) == IF 2 * Hits(labels, labels, 1, 1) > Len(labels) THEN 1 ELSE 0

\* A contract with a breaking change counted is breaking.
breaking_change_heuristic(counts) == [i \in DOMAIN counts |-> IF counts[i] > 0 THEN 1 ELSE 0]

compare_classification_baselines(training, counts, targets, neural) ==
  IF training = <<>> \/ targets = <<>> \/ Len(counts) # Len(targets) \/ Len(neural) # Len(targets) THEN Refused
  ELSE [majority |-> evaluate_binary_classification(Constant(Len(targets), MajorityLabel(training)), targets),
        heuristic |-> evaluate_binary_classification(breaking_change_heuristic(counts), targets),
        neural_model |-> evaluate_binary_classification(neural, targets)]
=============================================================================
