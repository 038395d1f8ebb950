------------------------- MODULE BaselineComparison -------------------------
(***************************************************************************)
(* An evaluation set that grows row by row, what each threshold makes of   *)
(* it and what the baselines do: the answers of BinaryMetrics compared     *)
(* with each other and with what they are called.                          *)
(***************************************************************************)
EXTENDS BinaryMetrics

CONSTANTS Scores,      \* values a score may have
          Thresholds,  \* thresholds that are tried
          Counts,      \* values of the feature breaking_change_count
          MaxRows      \* rows of an evaluation set

Labels == {0, 1}

ComparisonAssumption ==
  /\ Scores \subseteq Nat /\ Thresholds \subseteq Nat
  /\ Counts \subseteq Nat /\ MaxRows \in Nat
  /\ \A tp, tn, fp, fn \in 0 .. MaxRows : MetricsOf([tp |-> tp, tn |-> tn, fp |-> fp, fn |-> fn]) # Refused

VARIABLES scores, targets, counts
vars == <<scores, targets, counts>>

Init == scores = <<>> /\ targets = <<>> /\ counts = <<>>

AddRow ==
  /\ Len(targets) < MaxRows
  /\ \E s \in Scores, t \in Labels, c \in Counts :
       /\ scores' = Append(scores, s)
       /\ targets' = Append(targets, t)
       /\ counts' = Append(counts, c)

Full == Len(targets) = MaxRows /\ UNCHANGED vars
Next == AddRow \/ Full
Spec == Init /\ [][Next]_vars

At(threshold) == evaluate_threshold(scores, targets, threshold)
Sound == targets # <<>> /\ \A i \in DOMAIN scores : scores[i] <= One
Valid == {t \in Thresholds : t <= One}
Matrix(threshold) == At(threshold).confusion_matrix
Compared(threshold) ==
  compare_classification_baselines(targets, counts, targets, Predicted(scores, threshold))

-----------------------------------------------------------------------------
(* Properties. *)

\* A threshold is evaluated exactly when it, and every score, is a share, and there are rows; the four
\* counts are then those of all rows, and every metric is a share (threshold.rs, classification.rs).
EvaluatedIsWhole ==
  \A t \in Thresholds :
    /\ At(t) = Refused <=> ~(Sound /\ t <= One)
    /\ At(t) # Refused =>
         LET e == At(t)  m == Matrix(t) IN
         /\ m.tp + m.tn + m.fp + m.fn = Len(targets)
         /\ \A f \in {e.accuracy, e.precision, e.recall, e.f1_score} : f[2] > 0 /\ AtMost(f, <<1, 1>>)

\* F1 is the share 2tp / (2tp + fp + fn), whichever of its denominators vanish, and is one only where
\* no row is mistaken; the converse fails where no row is positive (classification.rs:97).
F1IsDice ==
  Sound => \A t \in Valid :
    LET m == Matrix(t) IN
    /\ Same(At(t).f1_score, Share(2 * m.tp, 2 * m.tp + m.fp + m.fn))
    /\ Same(At(t).f1_score, <<1, 1>>) => Same(At(t).accuracy, <<1, 1>>)
    /\ Same(At(t).accuracy, <<1, 1>>) /\ m.tp > 0 => Same(At(t).f1_score, <<1, 1>>)

\* A higher threshold trades false positives for false negatives and never raises the recall; at zero
\* every row is positive (threshold.rs).
ThresholdsTrade ==
  Sound => \A low, high \in Valid :
    /\ low <= high => /\ Matrix(high).fp <= Matrix(low).fp
                      /\ Matrix(high).fn >= Matrix(low).fn
                      /\ AtMost(At(high).recall, At(low).recall)
    /\ low = 0 => Matrix(low).fn = 0 /\ Matrix(low).tn = 0

\* Precision answers for what is predicted and recall for what is there: the false positives of a
\* threshold are rows labelled 0 that reach it, the false negatives rows labelled 1 that do not.
MistakesAreNamed ==
  Sound => \A t \in Valid :
    /\ Matrix(t).fp = Cardinality({i \in DOMAIN targets : scores[i] >= t /\ targets[i] = 0})
    /\ Matrix(t).fn = Cardinality({i \in DOMAIN targets : scores[i] < t /\ targets[i] = 1})

\* On the labels it was fitted from the majority baseline is as accurate as any constant guess, and
\* guesses safe in a tie; no threshold with one answer for all rows beats it (baseline.rs).
MajorityIsBestConstant ==
  Sound => \A t \in Valid :
    LET c == Compared(t)  m == c.neural_model.confusion_matrix IN
    /\ AtMost(<<1, 2>>, c.majority.accuracy)
    /\ Same(c.majority.accuracy, <<1, 2>>) => c.majority.confusion_matrix.tp = 0
    /\ m.tp + m.fp \in {0, Len(targets)} => AtMost(c.neural_model.accuracy, c.majority.accuracy)
=============================================================================
