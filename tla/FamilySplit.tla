---------------------------- MODULE FamilySplit ----------------------------
(***************************************************************************)
(* PreparedDcgDataset::split_by_group of models/prepared_dataset.rs: the   *)
(* standard families of a corpus are placed, largest first, each whole     *)
(* into the train, validation or test partition whose balance error grows  *)
(* least; once no more families remain than partitions are empty, only an  *)
(* empty partition is a candidate.                                         *)
(*                                                                         *)
(* A family is its counts of records and of each class.  Ratios are        *)
(* integers over RatioBase and scores exact integers over Scale; the code  *)
(* computes them in f64, so a tie may go to either partition here.         *)
(***************************************************************************)
EXTENDS Integers, FiniteSets, FiniteSetsExt

CONSTANTS
  Families,    \* split_group_ids that may occur
  Shapes,      \* counts a family may have
  Reserved,    \* counts of the challenge records, which are not split
  Ratio,       \* partition -> numerator of its ratio
  RatioBase,   \* the common denominator of the ratios
  Scale        \* a common multiple of the score denominators

Partitions == {"train", "validation", "test"}
Dims       == {"records", "safe", "warning", "breaking"}
Unplaced   == "unplaced"

SplitAssumption ==
  /\ IsFiniteSet(Families)
  /\ Shapes \subseteq [Dims -> Nat]
  /\ Reserved \in [Dims -> Nat]
  /\ Ratio \in [Partitions -> Nat]
  /\ \A p \in Partitions : Ratio[p] > 0
  /\ RatioBase = Ratio["train"] + Ratio["validation"] + Ratio["test"]
  /\ Scale \in Nat

VARIABLES
  phase,     \* "group", "allocate", "split", "insufficient" or "empty"
  groups,    \* the standard families of the corpus
  shape,     \* their counts
  pending,   \* groups not yet placed
  part,      \* group -> partition
  have       \* partition -> counts of what it holds: partition_sizes and
             \* partition_class_counts

vars == <<phase, groups, shape, pending, part, have>>

Empty == {p \in Partitions : \A g \in groups : part[g] # p}

(* Mutant: the forced phase starts one group too late.                     *)
CandidatesLate == IF Cardinality(pending) < Cardinality(Empty) THEN Empty ELSE Partitions

(* Only the empty partitions, as soon as each of them needs a group.       *)
Candidates == IF Cardinality(pending) <= Cardinality(Empty) THEN Empty ELSE Partitions

(* Records of the whole dataset, challenge included, in one dimension.     *)
Total(d) == Reserved[d] + MapThenSumSet(LAMBDA g : shape[g][d], groups)

(* A partition's target times RatioBase: target.max(1.0).                  *)
Target(p, d) ==
  LET share == Ratio[p] * Total(d) IN IF share < RatioBase THEN RatioBase ELSE share

(* split_balance_score: the change of squared error over target, summed    *)
(* over the record count and the three classes, times Scale.               *)
Score(p, g) ==
  MapThenSumSet(
    LAMBDA d : shape[g][d]
                 * (RatioBase * (shape[g][d] + 2 * have[p][d]) - 2 * Target(p, d))
                 * (Scale \div Target(p, d)),
    Dims)

-----------------------------------------------------------------------------
Init ==
  /\ phase = "group"
  /\ groups \in SUBSET Families
  /\ shape \in [groups -> Shapes]
  /\ pending = groups
  /\ part = [g \in groups |-> Unplaced]
  /\ have = [p \in Partitions |-> [d \in Dims |-> 0]]

TooFewGroups ==
  /\ phase = "group"
  /\ Cardinality(groups) < 3
  /\ phase' = "insufficient"
  /\ UNCHANGED <<groups, shape, pending, part, have>>

Grouped ==
  /\ phase = "group"
  /\ Cardinality(groups) >= 3
  /\ phase' = "allocate"
  /\ UNCHANGED <<groups, shape, pending, part, have>>

(* The largest pending group (ties are broken by a hash of its id) goes to *)
(* a candidate of least score.                                             *)
Place(g, p) ==
  /\ phase = "allocate"
  /\ \A h \in pending : shape[h]["records"] <= shape[g]["records"]
  /\ p \in Candidates
  /\ \A q \in Candidates : Score(p, g) <= Score(q, g)
  /\ pending' = pending \ {g}
  /\ part' = [part EXCEPT ![g] = p]
  /\ have' = [have EXCEPT ![p] = [d \in Dims |-> have[p][d] + shape[g][d]]]
  /\ UNCHANGED <<phase, groups, shape>>

(* Each partition becomes a dataset of its own, which must not be empty.   *)
Publish ==
  /\ phase = "allocate"
  /\ pending = {}
  /\ phase' = IF Empty = {} THEN "split" ELSE "empty"
  /\ UNCHANGED <<groups, shape, pending, part, have>>

Returned == phase \in {"split", "insufficient", "empty"} /\ UNCHANGED vars

Next ==
  \/ TooFewGroups \/ Grouped
  \/ \E g \in pending, p \in Partitions : Place(g, p)
  \/ Publish
  \/ Returned

Spec == Init /\ [][Next]_vars

-----------------------------------------------------------------------------
TypeOK ==
  /\ phase \in {"group", "allocate", "split", "insufficient", "empty"}
  /\ groups \in SUBSET Families
  /\ shape \in [groups -> Shapes]
  /\ pending \in SUBSET groups
  /\ part \in [groups -> Partitions \cup {Unplaced}]
  /\ have \in [Partitions -> [Dims -> Nat]]

(* Three families are enough for three partitions: the greedy choice never *)
(* leaves a partition empty, so a split that starts ends in three          *)
(* datasets, and every standard family is in exactly one of them.          *)
SplitSound ==
  /\ phase # "empty"
  /\ phase = "split" =>
       /\ \A g \in groups : part[g] \in Partitions
       /\ \A p \in Partitions : \E g \in groups : part[g] = p
=============================================================================
