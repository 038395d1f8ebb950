---------------------------- MODULE ModelsProofs ----------------------------
(***************************************************************************)
(* That a behaviour of Models keeps each of its invariants: no part of a   *)
(* split is empty, a confirmed ablation agrees in every seed, the metrics  *)
(* agree, a trained model has whole updates only, what the protocols hold  *)
(* out stays held out, and a dataset in memory keeps its rows.  Each has   *)
(* an inductive invariant of its own, about the variables of its           *)
(* component.                                                              *)
(***************************************************************************)
EXTENDS Models, FiniteSetTheorems, SequenceTheorems, WellFoundedInduction, TLAPS

-----------------------------------------------------------------------------
(* Lemmas used throughout.                                                 *)

(* The size of a set is that of its parts.                                  *)
LEMMA TwoParts ==
  ASSUME NEW S, NEW A, NEW B, IsFiniteSet(S), S = A \cup B, A \cap B = {}
  PROVE  /\ Cardinality(S) = Cardinality(A) + Cardinality(B)
         /\ Cardinality(S) \in Nat /\ Cardinality(A) \in Nat /\ Cardinality(B) \in Nat
         /\ IsFiniteSet(A) /\ IsFiniteSet(B)
<1>1. IsFiniteSet(A) /\ IsFiniteSet(B)
  BY FS_Subset
<1>2. Cardinality(A) \in Nat /\ Cardinality(B) \in Nat /\ Cardinality(S) \in Nat /\ Cardinality({}) = 0
  BY <1>1, FS_CardinalityType, FS_EmptySet
<1>3. Cardinality(A \cup B) = Cardinality(A) + Cardinality(B) - Cardinality(A \cap B)
  BY <1>1, FS_Union
<1>4. Cardinality(A \cap B) = 0 /\ Cardinality(A \cup B) = Cardinality(S)
  BY <1>2
<1> QED BY <1>1, <1>2, <1>3, <1>4

(* A sequence, of whatever its elements are.                                *)
Listed(s) == s \in Seq({s[i] : i \in DOMAIN s})

LEMMA ListedTypes ==
  ASSUME NEW s, Listed(s)
  PROVE  Len(s) \in Nat /\ DOMAIN s = 1..Len(s)
BY LenProperties DEF Listed

(* One more element.                                                       *)
LEMMA AppendListed ==
  ASSUME NEW s, Listed(s), NEW e
  PROVE  /\ Listed(Append(s, e)) /\ Len(Append(s, e)) = Len(s) + 1
         /\ DOMAIN Append(s, e) = 1..(Len(s) + 1)
         /\ \A i \in 1..Len(s) : Append(s, e)[i] = s[i]
         /\ Append(s, e)[Len(s) + 1] = e
<1> DEFINE S == {s[i] : i \in DOMAIN s} \cup {e}
           new == Append(s, e)
<1>1. s \in Seq(S)
  <2>1. s \in Seq({s[i] : i \in DOMAIN s})
    BY DEF Listed
  <2>2. {s[i] : i \in DOMAIN s} \subseteq S
    OBVIOUS
  <2> HIDE DEF S
  <2> QED BY <2>1, <2>2
<1>2. e \in S
  OBVIOUS
<1> HIDE DEF S
<1>3. Len(s) \in Nat /\ DOMAIN s = 1..Len(s)
  BY <1>1, LenProperties
<1>4. /\ new \in Seq(S) /\ Len(new) = Len(s) + 1
      /\ \A i \in 1..Len(s) : new[i] = s[i]
      /\ new[Len(s) + 1] = e
  BY <1>1, <1>2, AppendProperties
<1>5. DOMAIN new = 1..(Len(s) + 1)
  BY <1>4, LenProperties
<1>6. Listed(new)
  BY <1>4, <1>5, IsASeq DEF Listed
<1> QED BY <1>4, <1>5, <1>6
LEMMA SameInterval ==
  ASSUME NEW a \in Nat, NEW b \in Nat, 1..a = 1..b PROVE a = b
<1>1. ~(a < b)
  <2>1. a < b => b \in 1..b
    OBVIOUS
  <2> QED BY <2>1
<1>2. ~(b < a)
  <2>1. b < a => a \in 1..a
    OBVIOUS
  <2> QED BY <2>1
<1> QED BY <1>1, <1>2

-----------------------------------------------------------------------------
(* The split of the families.                                              *)

(* The forced choice is possible while it is needed: the placements still  *)
(* to come can fill every empty partition.                                 *)
EmptyCanBeFilled ==
  /\ phase = "group" => pending = groups
  /\ phase = "allocate" => Cardinality(Partition!Empty) <= Cardinality(pending)
  /\ \A g \in groups : g \in pending <=> part[g] = Partition!Unplaced

(* The operators of the standard modules, as the instance knows them.      *)
LEMMA PartitionCountsAsHere ==
  /\ \A S : Partition!Cardinality(S) = Cardinality(S)
  /\ \A S : Partition!IsFiniteSet(S) <=> IsFiniteSet(S)
BY DEF Partition!Cardinality, Cardinality, Partition!IsFiniteSet, IsFiniteSet

LEMMA SplitParameters == IsFiniteSet(SplitFamilies) /\ Shapes \subseteq [Partition!Dims -> Nat]
BY ModelsAssumption, PartitionCountsAsHere DEF Partition!SplitAssumption

(* The state keeps its shape.                                              *)
LEMMA SplitTypeStep ==
  ASSUME Partition!TypeOK, Partition!Next PROVE Partition!TypeOK'
<1>1. CASE Partition!TooFewGroups
  BY <1>1 DEF Partition!TooFewGroups, Partition!TypeOK
<1>2. CASE Partition!Grouped
  BY <1>2 DEF Partition!Grouped, Partition!TypeOK
<1>3. ASSUME NEW g \in pending, NEW p \in Partition!Partitions, Partition!Place(g, p) PROVE Partition!TypeOK'
  <2>1. p \in Partition!Partitions /\ g \in groups
    BY DEF Partition!TypeOK
  <2>2. shape[g] \in [Partition!Dims -> Nat]
    BY <2>1, SplitParameters DEF Partition!TypeOK
  <2>3. have' \in [Partition!Partitions -> [Partition!Dims -> Nat]]
    <3>1. [d \in Partition!Dims |-> have[p][d] + shape[g][d]] \in [Partition!Dims -> Nat]
      BY <2>1, <2>2 DEF Partition!TypeOK
    <3> QED BY <3>1, <1>3, <2>1 DEF Partition!Place, Partition!TypeOK
  <2> QED BY <1>3, <2>1, <2>3 DEF Partition!Place, Partition!TypeOK
<1>4. CASE Partition!Publish
  BY <1>4 DEF Partition!Publish, Partition!TypeOK
<1>5. CASE Partition!Returned
  BY <1>5 DEF Partition!Returned, Partition!vars, Partition!TypeOK
<1> QED
  BY <1>1, <1>2, <1>3, <1>4, <1>5 DEF Partition!Next

(* The strengthening: what is pending is unplaced, and no more partitions  *)
(* are empty than groups are pending.                                      *)
SplitInv == Partition!TypeOK /\ EmptyCanBeFilled /\ Partition!SplitSound

(* There are three partitions, hence no more than three empty ones.        *)
LEMMA ThreePartitions ==
  /\ IsFiniteSet(Partition!Partitions)
  /\ Cardinality(Partition!Partitions) = 3
<1>1. Partition!Partitions = ({"train"} \cup {"validation"}) \cup {"test"}
  BY DEF Partition!Partitions
<1>2. IsFiniteSet({"train"}) /\ Cardinality({"train"}) = 1
  BY FS_Singleton
<1>3. /\ IsFiniteSet({"train"} \cup {"validation"})
      /\ Cardinality({"train"} \cup {"validation"}) = 2
  BY <1>2, FS_AddElement
<1>4. QED
  BY <1>1, <1>3, FS_AddElement

LEMMA EmptyIsFinite ==
  ASSUME Partition!TypeOK
  PROVE  /\ IsFiniteSet(Partition!Empty) /\ Cardinality(Partition!Empty) \in Nat
         /\ Cardinality(Partition!Empty) <= 3
         /\ IsFiniteSet(pending) /\ Cardinality(pending) \in Nat
<1>1. Partition!Empty \subseteq Partition!Partitions
  BY DEF Partition!Empty
<1>2. /\ IsFiniteSet(Partition!Empty)
      /\ Cardinality(Partition!Empty) <= Cardinality(Partition!Partitions)
  BY <1>1, ThreePartitions, FS_Subset
<1>3. IsFiniteSet(pending)
  BY SplitParameters, FS_Subset DEF Partition!TypeOK
<1>4. QED
  BY <1>2, <1>3, ThreePartitions, FS_CardinalityType

LEMMA SplitStep ==
  ASSUME SplitInv, Partition!Next PROVE SplitInv'
<1> USE DEF SplitInv
<1>0. Partition!TypeOK'
  BY SplitTypeStep
<1>1. CASE Partition!TooFewGroups
  BY <1>0, <1>1 DEF Partition!TooFewGroups, EmptyCanBeFilled, Partition!SplitSound, Partition!Empty
<1>2. CASE Partition!Grouped
  <2>1. Cardinality(Partition!Empty) <= Cardinality(pending)
    <3>1. groups = pending
      BY <1>2 DEF Partition!Grouped, EmptyCanBeFilled, Partition!TypeOK
    <3> QED BY <3>1, <1>2, EmptyIsFinite, PartitionCountsAsHere DEF Partition!Grouped
  <2>2. Partition!Empty' = Partition!Empty /\ pending' = pending
    BY <1>2 DEF Partition!Grouped, Partition!Empty
  <2> QED BY <1>0, <2>1, <2>2, <1>2 DEF Partition!Grouped, EmptyCanBeFilled, Partition!SplitSound
<1>3. ASSUME NEW g \in pending, NEW p \in Partition!Partitions, Partition!Place(g, p) PROVE SplitInv'
  <2>1. g \in groups /\ part[g] = Partition!Unplaced
    BY DEF Partition!TypeOK, EmptyCanBeFilled
  <2>2. Partition!Empty' = Partition!Empty \ {p}
    BY <1>3, <2>1 DEF Partition!Place, Partition!Empty, Partition!TypeOK, Partition!Partitions, Partition!Unplaced
  <2>3. Cardinality(pending') = Cardinality(pending) - 1
    BY <1>3, EmptyIsFinite, FS_RemoveElement DEF Partition!Place
  <2>4. Cardinality(Partition!Empty') <= Cardinality(pending')
    <3>1. CASE Cardinality(pending) <= Cardinality(Partition!Empty)
      <4>1. p \in Partition!Empty
        BY <3>1, <1>3, PartitionCountsAsHere DEF Partition!Place, Partition!Candidates
      <4>2. Cardinality(Partition!Empty') = Cardinality(Partition!Empty) - 1
        BY <2>2, <4>1, EmptyIsFinite, FS_RemoveElement
      <4> QED BY <2>3, <4>2, <3>1, <1>3, EmptyIsFinite DEF EmptyCanBeFilled, Partition!Place
    <3>2. CASE ~(Cardinality(pending) <= Cardinality(Partition!Empty))
      <4>1. Cardinality(Partition!Empty') <= Cardinality(Partition!Empty) /\ Cardinality(Partition!Empty') \in Nat
        BY <2>2, EmptyIsFinite, FS_Subset, FS_CardinalityType
      <4> QED BY <2>3, <3>2, <4>1, EmptyIsFinite
    <3> QED BY <3>1, <3>2
  <2>5. \A h \in groups' : h \in pending' <=> part'[h] = Partition!Unplaced
    BY <1>3, <2>1 DEF Partition!Place, Partition!TypeOK, EmptyCanBeFilled, Partition!Partitions, Partition!Unplaced
  <2> QED BY <1>0, <2>4, <2>5, <1>3 DEF EmptyCanBeFilled, Partition!SplitSound, Partition!Place
<1>4. CASE Partition!Publish
  <2>1. Partition!Empty = {}
    BY <1>4, EmptyIsFinite, FS_EmptySet DEF Partition!Publish, EmptyCanBeFilled
  <2>2. \A g \in groups : part[g] \in Partition!Partitions
    BY <1>4 DEF Partition!Publish, EmptyCanBeFilled, Partition!TypeOK
  <2>3. \A p \in Partition!Partitions : \E g \in groups : part[g] = p
    BY <2>1 DEF Partition!Empty
  <2>4. phase' = "split"
    BY <1>4, <2>1 DEF Partition!Publish
  <2> QED BY <1>0, <1>4, <2>2, <2>3, <2>4 DEF Partition!Publish, EmptyCanBeFilled, Partition!SplitSound
<1>5. CASE Partition!Returned
  BY <1>0, <1>5 DEF Partition!Returned, Partition!vars, EmptyCanBeFilled, Partition!SplitSound, Partition!Empty
<1> QED
  BY <1>1, <1>2, <1>3, <1>4, <1>5 DEF Partition!Next

LEMMA SplitInvariant == Spec => [](component = "split" => SplitInv)
<1> DEFINE I == component = "split" => SplitInv
<1>1. Init => I
  BY ModelsAssumption DEF Init, Partition!SplitAssumption, Partition!Init, SplitInv, Partition!TypeOK,
     EmptyCanBeFilled, Partition!SplitSound, Partition!Dims, Partition!Partitions, Partition!Unplaced
<1>2. I /\ [Next]_vars => I'
  <2> SUFFICES ASSUME I, [Next]_vars, component' = "split" PROVE SplitInv'
    OBVIOUS
  <2>1. CASE component = "split" /\ Partition!Next
    BY <2>1, SplitStep
  <2>2. CASE UNCHANGED vars
    BY <2>2 DEF vars, SplitInv, Partition!TypeOK, EmptyCanBeFilled, Partition!SplitSound, Partition!Empty
  <2> QED BY <2>1, <2>2 DEF Next
<1> QED
  BY <1>1, <1>2, PTL DEF Spec

(* For any finite set of families, any counts and any ratios: the greedy   *)
(* split never leaves a partition empty, and loses no family.              *)
THEOREM SplitNeverEmpty == Spec => []PartitionsAreFilled
<1>1. (component = "split" => SplitInv) => PartitionsAreFilled
  BY DEF PartitionsAreFilled, SplitInv
<1> QED
  BY <1>1, SplitInvariant, PTL

-----------------------------------------------------------------------------
(* The ablation.                                                           *)

LEMMA AblationCountsAsHere ==
  /\ \A S : Ablation!Cardinality(S) = Cardinality(S)
  /\ \A S : Ablation!IsFiniteSet(S) <=> IsFiniteSet(S)
BY DEF Ablation!Cardinality, Cardinality, Ablation!IsFiniteSet, IsFiniteSet

(* A set of records, finite, whose feature is on one side of 0.5.          *)
Bucketed(s) == IsFiniteSet(s) /\ \A r \in s : r.bucket \in {0, 1}

(* The hits of a rule are those in either bucket.                          *)
LEMMA HitsInBuckets ==
  ASSUME NEW s, Bucketed(s), NEW rule \in Ablation!Rules
  PROVE  /\ Ablation!HitsOf(s, rule) = Ablation!Count(s, 0, rule[0]) + Ablation!Count(s, 1, rule[1])
         /\ \A b, l \in {0, 1} : Ablation!Count(s, b, l) \in Nat
<1> DEFINE H == {r \in s : rule[r.bucket] = Ablation!Positive(r)}
           A == {r \in s : r.bucket = 0 /\ Ablation!Positive(r) = rule[0]}
           B == {r \in s : r.bucket = 1 /\ Ablation!Positive(r) = rule[1]}
<1>1. IsFiniteSet(H) /\ H = A \cup B /\ A \cap B = {}
  BY FS_Subset DEF Bucketed
<1> HIDE DEF H, A, B
<1>2. Cardinality(H) = Cardinality(A) + Cardinality(B)
  BY <1>1, TwoParts
<1>3. ASSUME NEW b \in {0, 1}, NEW l \in {0, 1} PROVE Ablation!Count(s, b, l) \in Nat
  <2>1. IsFiniteSet({r \in s : r.bucket = b /\ Ablation!Positive(r) = l})
    BY FS_Subset DEF Bucketed
  <2> QED BY <2>1, FS_CardinalityType, AblationCountsAsHere DEF Ablation!Count
<1> QED BY <1>2, <1>3, AblationCountsAsHere DEF H, A, B, Ablation!HitsOf, Ablation!Count

(* Where no bucket is tied, every other rule hits less.                    *)
LEMMA MajorityRuleIsBest ==
  ASSUME NEW s, Bucketed(s), Ablation!Fits(s),
         NEW other \in Ablation!Rules, other # Ablation!RuleOf(s)
  PROVE  Ablation!HitsOf(s, other) < Ablation!HitsOf(s, Ablation!RuleOf(s))
<1> DEFINE rule == Ablation!RuleOf(s)
<1>1. rule \in Ablation!Rules
  BY DEF Ablation!RuleOf, Ablation!Rules
<1>2. \A b \in {0, 1} : other[b] \in {0, 1}
  BY DEF Ablation!Rules
<1>3. \E b \in {0, 1} : other[b] # rule[b]
  BY DEF Ablation!Rules, Ablation!RuleOf
<1>4. \A b \in {0, 1} : other[b] # rule[b] => Ablation!Count(s, b, other[b]) < Ablation!Count(s, b, rule[b])
  BY <1>2, HitsInBuckets, <1>1 DEF Ablation!Fits, Ablation!RuleOf
<1>5. \A b, l \in {0, 1} : Ablation!Count(s, b, l) \in Nat
  BY <1>1, HitsInBuckets
<1>6. \A b \in {0, 1} : rule[b] \in {0, 1}
  BY <1>1 DEF Ablation!Rules
<1>7. /\ Ablation!HitsOf(s, other) = Ablation!Count(s, 0, other[0]) + Ablation!Count(s, 1, other[1])
      /\ Ablation!HitsOf(s, rule) = Ablation!Count(s, 0, rule[0]) + Ablation!Count(s, 1, rule[1])
  BY <1>1, HitsInBuckets
<1> HIDE DEF rule
<1>8. /\ Ablation!Count(s, 0, other[0]) \in Nat /\ Ablation!Count(s, 1, other[1]) \in Nat
      /\ Ablation!Count(s, 0, rule[0]) \in Nat /\ Ablation!Count(s, 1, rule[1]) \in Nat
  BY <1>2, <1>5, <1>6
<1>9. /\ Ablation!Count(s, 0, other[0]) <= Ablation!Count(s, 0, rule[0])
      /\ Ablation!Count(s, 1, other[1]) <= Ablation!Count(s, 1, rule[1])
      /\ \/ Ablation!Count(s, 0, other[0]) < Ablation!Count(s, 0, rule[0])
         \/ Ablation!Count(s, 1, other[1]) < Ablation!Count(s, 1, rule[1])
  <2>1. other[0] # rule[0] => Ablation!Count(s, 0, other[0]) < Ablation!Count(s, 0, rule[0])
    BY <1>4
  <2>2. other[1] # rule[1] => Ablation!Count(s, 1, other[1]) < Ablation!Count(s, 1, rule[1])
    BY <1>4
  <2>3. other[0] # rule[0] \/ other[1] # rule[1]
    BY <1>3
  <2> QED BY <1>8, <2>1, <2>2, <2>3
<1>10. Ablation!HitsOf(s, other) < Ablation!HitsOf(s, rule)
  BY <1>7, <1>8, <1>9
<1> QED BY <1>10 DEF rule

(* The four counts of an evaluation are those of all its records.          *)
LEMMA EvaluationCountsAll ==
  ASSUME NEW s, Bucketed(s), NEW rule \in Ablation!Rules
  PROVE  LET m == Ablation!Evaluate(s, rule).confusion_matrix IN
         m.tp + m.tn + m.fp + m.fn = Cardinality(s)
<1> DEFINE P(p) == {r \in s : rule[r.bucket] = p}
           Q(p, l) == {r \in s : rule[r.bucket] = p /\ Ablation!Positive(r) = l}
<1>1. IsFiniteSet(s) /\ s = P(0) \cup P(1) /\ P(0) \cap P(1) = {}
  BY DEF Bucketed, Ablation!Rules
<1>2. \A p \in {0, 1} : P(p) = Q(p, 0) \cup Q(p, 1) /\ Q(p, 0) \cap Q(p, 1) = {}
  BY DEF Ablation!Positive
<1>3. Ablation!Evaluate(s, rule).confusion_matrix =
        [tp |-> Cardinality(Q(1, 1)), tn |-> Cardinality(Q(0, 0)),
         fp |-> Cardinality(Q(1, 0)), fn |-> Cardinality(Q(0, 1))]
  BY AblationCountsAsHere DEF Ablation!Evaluate, Ablation!MetricsOf, Ablation!Predicts
<1> HIDE DEF P, Q
<1>4. /\ Cardinality(s) = Cardinality(P(0)) + Cardinality(P(1))
      /\ IsFiniteSet(P(0)) /\ IsFiniteSet(P(1))
  BY <1>1, TwoParts
<1>5. /\ Cardinality(P(0)) = Cardinality(Q(0, 0)) + Cardinality(Q(0, 1))
      /\ Cardinality(Q(0, 0)) \in Nat /\ Cardinality(Q(0, 1)) \in Nat
  <2>1. P(0) = Q(0, 0) \cup Q(0, 1) /\ Q(0, 0) \cap Q(0, 1) = {}
    BY <1>2
  <2> QED BY <1>4, <2>1, TwoParts
<1>6. /\ Cardinality(P(1)) = Cardinality(Q(1, 0)) + Cardinality(Q(1, 1))
      /\ Cardinality(Q(1, 0)) \in Nat /\ Cardinality(Q(1, 1)) \in Nat
  <2>1. P(1) = Q(1, 0) \cup Q(1, 1) /\ Q(1, 0) \cap Q(1, 1) = {}
    BY <1>2
  <2>2. IsFiniteSet(P(1))
    BY <1>4
  <2> QED BY <2>1, <2>2, TwoParts
<1> QED BY <1>3, <1>4, <1>5, <1>6


-----------------------------------------------------------------------------
(* What an entry of the report promises of the seed it is about.           *)
RunIsSound(s) ==
  /\ s.split \in [Ablation!Families -> Ablation!Parts]
  /\ Ablation!Fits(Ablation!Of(s, "train"))
  /\ s.rule = Ablation!RuleOf(Ablation!Of(s, "train"))
  /\ s.counts = Ablation!Counts(Ablation!Of(s, "train"))
  /\ s.test = Ablation!Evaluate(Ablation!Of(s, "test"), s.rule)
  /\ s.challenge = Ablation!Evaluate(Ablation!Challenge, s.rule)
  /\ s.seed \in DOMAIN Ablation!SeedRuns(reference)
  /\ s.matches \in BOOLEAN
  /\ LET persisted == Ablation!SeedRuns(reference)[s.seed]
         same == s.test.confusion_matrix = persisted.test /\ s.challenge.confusion_matrix = persisted.challenge IN
     /\ s.matches => same
     /\ same /\ Ablation!Exact(s.test) /\ Ablation!Exact(s.challenge) => s.matches

(* A corpus and a reference were read before the first seed, and the seeds *)
(* of the report are the first of the original ones.                       *)
RunsAreSound ==
  /\ Listed(seed_reports)
  /\ seed_reports # <<>> => dataset \in DOMAIN AblationCorpora
  /\ \A s \in {seed_reports[i] : i \in DOMAIN seed_reports} : RunIsSound(s)
  /\ \A i \in DOMAIN seed_reports : seed_reports[i].seed = OriginalSeeds[i]
  /\ all_match \in BOOLEAN
  /\ all_match <=> \A i \in DOMAIN seed_reports : seed_reports[i].matches

(* The seeds still to run are those that have no entry yet.                *)
Progress ==
  /\ pc \in {"start", "load", "reference"} => seed_reports = <<>>
  /\ seeds \in Seq(Nat) /\ Len(seeds) <= Len(OriginalSeeds)
  /\ pc \notin {"start", "failed"} => Len(seed_reports) + Len(seeds) = Len(OriginalSeeds)
  /\ pc \in {"reference", "split", "seed"} => dataset \in DOMAIN AblationCorpora
  /\ pc = "seed" => seeds # <<>> /\ split \in [Ablation!Families -> Ablation!Parts]

(* A report has every seed's entry and the verdict over them.              *)
ReportIsSound ==
  report # None =>
    /\ pc \in {"write", "done", "failed"} /\ Len(seed_reports) = Len(OriginalSeeds)
    /\ report.seed_runs = seed_reports /\ report.reference_sha256 = reference
    /\ report.status = IF all_match THEN "CONFIRMED" ELSE "DIFFERS"

(* What every state of the command satisfies.                              *)
AblationInv == Ablation!TypeOK /\ RunsAreSound /\ Progress /\ ReportIsSound

LEMMA AblationParameters ==
  /\ OriginalSeeds \in Seq(Nat) /\ Len(OriginalSeeds) \in Nat
  /\ \A c \in DOMAIN AblationCorpora : Bucketed(AblationCorpora[c].records)
BY ModelsAssumption, AblationCountsAsHere DEF Ablation!AblationAssumption, Bucketed

LEMMA SuffixTail ==
  ASSUME NEW O \in Seq(Nat), NEW s \in Seq(Nat), Len(s) <= Len(O), s # <<>>,
         s = SubSeq(O, Len(O) - Len(s) + 1, Len(O))
  PROVE  /\ Tail(s) \in Seq(Nat) /\ Len(Tail(s)) = Len(s) - 1 /\ Len(s) \in Nat
         /\ Head(s) = O[Len(O) - Len(s) + 1]
         /\ Tail(s) = SubSeq(O, Len(O) - Len(Tail(s)) + 1, Len(O))
<1> DEFINE m == Len(O) - Len(s) + 1
<1>1. Len(s) \in Nat /\ Len(s) > 0 /\ Len(O) \in Nat /\ m \in 1..Len(O)
  BY LenProperties, EmptySeq
<1>2. Tail(s) \in Seq(Nat) /\ Len(Tail(s)) = Len(s) - 1 /\ \A i \in 1..Len(s) - 1 : Tail(s)[i] = s[i + 1]
  BY HeadTailProperties
<1>3. Head(SubSeq(O, m, Len(O))) = O[m] /\ Tail(SubSeq(O, m, Len(O))) = SubSeq(O, m + 1, Len(O))
  BY <1>1, HeadTailOfSubSeq
<1>4. m + 1 = Len(O) - Len(Tail(s)) + 1 /\ s = SubSeq(O, m, Len(O))
  BY <1>1, <1>2
<1> HIDE DEF m
<1>5. Head(s) = O[m] /\ Tail(s) = SubSeq(O, m + 1, Len(O))
  BY <1>3, <1>4
<1>6. Tail(s) = SubSeq(O, Len(O) - Len(Tail(s)) + 1, Len(O))
  BY <1>4, <1>5
<1> QED BY <1>1, <1>2, <1>5, <1>6 DEF m

(* An entry is about the corpus and the reference that were read.          *)
LEMMA RunStaysSound ==
  ASSUME UNCHANGED <<dataset, reference>>
  PROVE  \A s : RunIsSound(s) => RunIsSound(s)'
<1>1. /\ Ablation!Challenge' = Ablation!Challenge /\ Ablation!Families' = Ablation!Families
      /\ Ablation!Standard' = Ablation!Standard
  BY DEF Ablation!Challenge, Ablation!Families, Ablation!Standard
<1>2. \A s, name : Ablation!Of(s, name)' = Ablation!Of(s, name)
  BY <1>1 DEF Ablation!Of
<1>3. ASSUME NEW s, RunIsSound(s) PROVE RunIsSound(s)'
  <2>1. Ablation!Of(s, "train")' = Ablation!Of(s, "train") /\ Ablation!Of(s, "test")' = Ablation!Of(s, "test")
    BY <1>2
  <2> QED BY <1>1, <1>3, <2>1 DEF RunIsSound
<1> QED BY <1>3

(* The steps that publish no seed and no report.                           *)
LEMMA AblationQuietStep ==
  ASSUME AblationInv, Ablation!Start \/ Ablation!Load \/ Ablation!ReadReference \/ Ablation!Split
                      \/ Ablation!SeedRefused \/ Ablation!Replace
  PROVE  AblationInv'
<1> USE DEF AblationInv, Ablation!Fail
<1>0. /\ UNCHANGED <<seed_reports, all_match, report>>
      /\ seed_reports # <<>> => UNCHANGED <<dataset, reference>>
  BY DEF Ablation!Start, Ablation!Load, Ablation!ReadReference, Ablation!Split, Ablation!SeedRefused,
         Ablation!Replace, Progress
<1>1. RunsAreSound'
  <2>1. CASE seed_reports = <<>>
    BY <1>0, <2>1 DEF RunsAreSound
  <2>2. CASE seed_reports # <<>>
    BY <1>0, <2>2, RunStaysSound DEF RunsAreSound
  <2> QED BY <2>1, <2>2
<1>2. report = None \/ pc \in {"write", "done", "failed"}
  BY DEF ReportIsSound
<1>3. CASE Ablation!Start
  <2>1. report = None
    BY <1>2, <1>3 DEF Ablation!Start
  <2>2. seeds' \in {seeds, OriginalSeeds}
    BY <1>3 DEF Ablation!Start, Ablation!RequestAccepted
  <2>3. Progress'
    BY <1>3, <1>0, AblationParameters, EmptySeq DEF Ablation!Start, Ablation!RequestAccepted, Progress
  <2>4. Ablation!TypeOK'
    <3>1. seeds' = SubSeq(OriginalSeeds, Len(OriginalSeeds) - Len(seeds') + 1, Len(OriginalSeeds))
      <4>1. CASE seeds' = OriginalSeeds
        <5>1. Len(OriginalSeeds) - Len(OriginalSeeds) + 1 = 1
          BY AblationParameters
        <5> QED BY <4>1, <5>1, AblationParameters, SubSeqFull
      <4> QED BY <2>2, <4>1 DEF Ablation!TypeOK
    <3> QED BY <1>0, <1>3, <3>1 DEF Ablation!TypeOK, Ablation!Start, Ablation!files, Ablation!Reports
  <2> QED BY <1>0, <1>1, <2>1, <2>3, <2>4 DEF ReportIsSound
<1>4. CASE Ablation!Load \/ Ablation!ReadReference \/ Ablation!Split \/ Ablation!SeedRefused
  <2>1. report = None
    BY <1>2, <1>4 DEF Ablation!Load, Ablation!ReadReference, Ablation!Split, Ablation!SeedRefused
  <2>2. Progress'
    BY <1>4, <1>0 DEF Ablation!Load, Ablation!ReadReference, Ablation!Split, Ablation!SeedRefused, Progress,
      Ablation!Ready, Ablation!Families, Ablation!Standard
  <2>3. Ablation!TypeOK'
    BY <1>0, <1>4 DEF Ablation!TypeOK, Ablation!files, Ablation!Reports, Ablation!Load, Ablation!ReadReference,
      Ablation!Split, Ablation!SeedRefused, Ablation!Ready
  <2> QED BY <1>0, <1>1, <2>1, <2>2, <2>3 DEF ReportIsSound
<1>5. CASE Ablation!Replace
  BY <1>0, <1>1, <1>5 DEF Ablation!Replace, Ablation!TypeOK, Progress, ReportIsSound, Ablation!Reports, Ablation!files,
     Ablation!Families, Ablation!Standard
<1> QED BY <1>3, <1>4, <1>5

(* The entry of a seed is sound when it is pushed.                         *)
LEMMA NewRunIsSound ==
  ASSUME AblationInv, pc = "seed", Ablation!Fits(Ablation!Training("train")),
         Head(seeds) \in DOMAIN Ablation!SeedRuns(reference),
         NEW rule, rule = Ablation!RuleOf(Ablation!Training("train")),
         NEW test, test = Ablation!Evaluate(Ablation!Part("test"), rule),
         NEW challenge, challenge = Ablation!Evaluate(Ablation!Challenge, rule),
         NEW t \in Ablation!Comparisons(test, Ablation!SeedRuns(reference)[Head(seeds)].test),
         NEW c \in Ablation!Comparisons(challenge, Ablation!SeedRuns(reference)[Head(seeds)].challenge)
  PROVE  RunIsSound(Ablation!SeedReport(Head(seeds), rule, test, challenge, t /\ c))
<1> DEFINE s == Ablation!SeedReport(Head(seeds), rule, test, challenge, t /\ c)
<1>1. /\ s.split = split /\ s.rule = rule /\ s.test = test /\ s.challenge = challenge
      /\ s.seed = Head(seeds) /\ s.matches = (t /\ c) /\ s.counts = Ablation!Counts(Ablation!Training("train"))
  BY DEF Ablation!SeedReport
<1> HIDE DEF s
<1>2. split \in [Ablation!Families -> Ablation!Parts]
  BY DEF AblationInv, Progress
<1>3. \A name : Ablation!Of(s, name) = Ablation!Part(name)
  BY <1>1, <1>2 DEF Ablation!Of, Ablation!Part, Ablation!FamiliesIn, Ablation!Families
<1>4. Ablation!Of(s, "train") = Ablation!Training("train") /\ Ablation!Of(s, "test") = Ablation!Part("test")
  BY <1>3 DEF Ablation!Training
<1>5. t \in BOOLEAN /\ c \in BOOLEAN
  BY DEF Ablation!Comparisons
<1>6. /\ t => test.confusion_matrix = Ablation!SeedRuns(reference)[Head(seeds)].test
      /\ c => challenge.confusion_matrix = Ablation!SeedRuns(reference)[Head(seeds)].challenge
      /\ test.confusion_matrix = Ablation!SeedRuns(reference)[Head(seeds)].test /\ Ablation!Exact(test) => t
      /\ challenge.confusion_matrix = Ablation!SeedRuns(reference)[Head(seeds)].challenge /\ Ablation!Exact(challenge) => c
  BY <1>5 DEF Ablation!Comparisons
<1>7. RunIsSound(s)
  BY <1>1, <1>2, <1>4, <1>5, <1>6 DEF RunIsSound
<1> QED BY <1>7 DEF s

LEMMA AblationRunSeed ==
  ASSUME AblationInv, Ablation!RunSeed PROVE AblationInv'
<1> USE DEF AblationInv
<1>1. PICK rule, test, challenge, t, c :
        /\ rule = Ablation!RuleOf(Ablation!Training("train"))
        /\ test = Ablation!Evaluate(Ablation!Part("test"), rule)
        /\ challenge = Ablation!Evaluate(Ablation!Challenge, rule)
        /\ t \in Ablation!Comparisons(test, Ablation!SeedRuns(reference)[Head(seeds)].test)
        /\ c \in Ablation!Comparisons(challenge, Ablation!SeedRuns(reference)[Head(seeds)].challenge)
        /\ all_match' = Ablation!MatchSoFar(all_match, t /\ c)
        /\ seed_reports' = Append(seed_reports, Ablation!SeedReport(Head(seeds), rule, test, challenge, t /\ c))
  BY DEF Ablation!RunSeed
<1>2. PICK e : e = Ablation!SeedReport(Head(seeds), rule, test, challenge, t /\ c)
  OBVIOUS
<1>3. RunIsSound(e) /\ e.seed = Head(seeds) /\ e.matches = (t /\ c)
  <2>1. RunIsSound(Ablation!SeedReport(Head(seeds), rule, test, challenge, t /\ c))
    BY <1>1, NewRunIsSound DEF Ablation!RunSeed
  <2> QED BY <1>2, <2>1 DEF Ablation!SeedReport
<1>4. /\ UNCHANGED <<dataset, reference, report, output, request, input, report_file, replaced>>
      /\ pc = "seed" /\ pc' = "split" /\ seeds' = Tail(seeds)
  BY DEF Ablation!RunSeed, Ablation!files
<1>5. seed_reports' = Append(seed_reports, e)
  BY <1>1, <1>2
<1>6. /\ Listed(seed_reports') /\ Len(seed_reports') = Len(seed_reports) + 1
      /\ DOMAIN seed_reports' = 1..(Len(seed_reports) + 1)
      /\ \A i \in 1..Len(seed_reports) : seed_reports'[i] = seed_reports[i]
      /\ seed_reports'[Len(seed_reports) + 1] = e
      /\ Len(seed_reports) \in Nat /\ DOMAIN seed_reports = 1..Len(seed_reports)
  BY <1>5, AppendListed, ListedTypes DEF RunsAreSound
<1>7. /\ seeds' \in Seq(Nat) /\ Len(seeds') = Len(seeds) - 1 /\ Len(seeds) \in Nat
      /\ Head(seeds) = OriginalSeeds[Len(OriginalSeeds) - Len(seeds) + 1]
      /\ seeds' = SubSeq(OriginalSeeds, Len(OriginalSeeds) - Len(seeds') + 1, Len(OriginalSeeds))
  BY <1>4, SuffixTail, AblationParameters DEF Progress, Ablation!TypeOK
<1>8. Len(seed_reports) + Len(seeds) = Len(OriginalSeeds) /\ report = None
  BY <1>4 DEF Progress, ReportIsSound
<1>9. Len(OriginalSeeds) - Len(seeds) + 1 = Len(seed_reports) + 1
  <2>1. Len(seeds) \in Nat /\ Len(seed_reports) \in Nat /\ Len(OriginalSeeds) \in Nat
    BY <1>6, <1>7, AblationParameters
  <2> QED BY <2>1, <1>8
<1>10. e.seed = OriginalSeeds[Len(seed_reports) + 1]
  BY <1>3, <1>7, <1>9
<1>11. \A s \in {seed_reports'[i] : i \in DOMAIN seed_reports'} : s = e \/ s \in {seed_reports[i] : i \in DOMAIN seed_reports}
  BY <1>6
<1>12. RunsAreSound'
  <2>1. \A s \in {seed_reports'[i] : i \in DOMAIN seed_reports'} : RunIsSound(s)'
    BY <1>3, <1>4, <1>11, RunStaysSound DEF RunsAreSound
  <2>2. \A i \in DOMAIN seed_reports' : seed_reports'[i].seed = OriginalSeeds[i]
    BY <1>6, <1>10 DEF RunsAreSound
  <2>3. all_match' = (all_match /\ e.matches)
    BY <1>1, <1>3 DEF Ablation!MatchSoFar
  <2>4. all_match' \in BOOLEAN /\ (all_match' <=> \A i \in DOMAIN seed_reports' : seed_reports'[i].matches)
    <3>1. all_match \in BOOLEAN /\ e.matches \in BOOLEAN
      BY <1>3 DEF RunsAreSound, RunIsSound
    <3> QED BY <3>1, <2>3, <1>6 DEF RunsAreSound
  <2>5. dataset' \in DOMAIN AblationCorpora
    BY <1>4 DEF Progress
  <2> QED BY <1>6, <2>1, <2>2, <2>4, <2>5 DEF RunsAreSound
<1>13. Progress'
  BY <1>4, <1>6, <1>7, <1>8, AblationParameters DEF Progress
<1>14. Ablation!TypeOK'
  <2>1. Len(seed_reports') <= Len(OriginalSeeds)
    BY <1>6, <1>7, <1>8, AblationParameters, <1>4, EmptySeq DEF Progress
  <2> QED BY <2>1, <1>4, <1>7, <1>12 DEF RunsAreSound, Ablation!TypeOK, Ablation!Reports
<1> QED BY <1>4, <1>8, <1>12, <1>13, <1>14 DEF ReportIsSound

LEMMA AblationStep ==
  ASSUME AblationInv, Ablation!Next PROVE AblationInv'
<1> USE DEF AblationInv
<1>1. CASE Ablation!Conclude
  <2>1. /\ report' = [status |-> IF all_match THEN "CONFIRMED" ELSE "DIFFERS",
                      dataset_sha256 |-> input, reference_sha256 |-> reference,
                      seed_runs |-> seed_reports, fully_explains_100_percent |-> all_match]
        /\ UNCHANGED <<request, input, report_file, replaced, output, dataset, reference, seeds, split, seed_reports, all_match>>
        /\ pc = "split" /\ pc' = "write" /\ seeds = <<>>
    BY <1>1 DEF Ablation!Conclude, Ablation!ReferenceNamed, Ablation!files
  <2>2. report = None /\ Len(seed_reports) = Len(OriginalSeeds)
    <3>1. Len(seeds) = 0 /\ Len(seed_reports) \in Nat
      BY <2>1, EmptySeq, ListedTypes DEF RunsAreSound
    <3> QED BY <3>1, <2>1, AblationParameters DEF ReportIsSound, Progress
  <2>3. RunsAreSound'
    BY <2>1, RunStaysSound DEF RunsAreSound
  <2>4. ReportIsSound' /\ Progress'
    BY <2>1, <2>2 DEF ReportIsSound, Progress
  <2>5. Ablation!TypeOK'
    BY <2>1, <2>2 DEF Ablation!TypeOK, Ablation!Reports
  <2> QED BY <2>3, <2>4, <2>5
<1>2. CASE Ablation!Write \/ Ablation!WriteFails
  <2>1. /\ UNCHANGED <<request, input, report_file, replaced, dataset, reference, seeds, split, seed_reports, all_match, report>>
        /\ pc = "write" /\ pc' \in {"done", "failed"}
        /\ output' \in {output, report, Torn}
    BY <1>2 DEF Ablation!Write, Ablation!WriteFails, Ablation!files
  <2>2. RunsAreSound'
    BY <2>1, RunStaysSound DEF RunsAreSound
  <2>3. ReportIsSound' /\ Progress'
    BY <2>1 DEF ReportIsSound, Progress
  <2>4. Ablation!TypeOK'
    BY <2>1 DEF Ablation!TypeOK, Ablation!Reports
  <2> QED BY <2>2, <2>3, <2>4
<1>3. CASE Ablation!Ended
  BY <1>3, RunStaysSound DEF Ablation!Ended, Ablation!vars, Ablation!files, RunsAreSound, Progress, ReportIsSound, Ablation!TypeOK,
     Ablation!Reports, Ablation!Families, Ablation!Standard
<1> QED BY <1>1, <1>2, <1>3, AblationQuietStep, AblationRunSeed DEF Ablation!Next, Ablation!Command

LEMMA AblationInvariant == Spec => [](component = "ablation" => AblationInv)
<1> DEFINE I == component = "ablation" => AblationInv
<1>1. Init => I
  <2> SUFFICES ASSUME Init, component = "ablation" PROVE AblationInv
    OBVIOUS
  <2>1. Ablation!Init
    BY DEF Init
  <2>2. Listed(<<>>)
    BY EmptySeq DEF Listed
  <2>3. <<>> = SubSeq(OriginalSeeds, Len(OriginalSeeds) - 0 + 1, Len(OriginalSeeds))
    BY AblationParameters, SubSeqEmpty
  <2>4. Len(<<>>) = 0 /\ <<>> \in Seq(Nat)
    BY EmptySeq
  <2>5. seeds = SubSeq(OriginalSeeds, Len(OriginalSeeds) - Len(seeds) + 1, Len(OriginalSeeds))
    <3>1. seeds = <<>> /\ Len(seeds) = 0
      BY <2>1, <2>4 DEF Ablation!Init
    <3> QED BY <2>3, <3>1
  <2>6. Ablation!TypeOK
    <3>1. seed_reports = <<>> /\ Len(seed_reports) <= Len(OriginalSeeds)
      BY <2>1, <2>4, AblationParameters DEF Ablation!Init
    <3> QED BY <2>1, <2>5, <3>1 DEF Ablation!Init, Ablation!TypeOK, Ablation!Reports
  <2>7. RunsAreSound
    BY <2>1, <2>2 DEF Ablation!Init, RunsAreSound
  <2> QED BY <2>1, <2>4, <2>6, <2>7, AblationParameters DEF Ablation!Init, AblationInv, Progress, ReportIsSound
<1>2. I /\ [Next]_vars => I'
  <2> SUFFICES ASSUME I, [Next]_vars, component' = "ablation" PROVE AblationInv'
    OBVIOUS
  <2>1. CASE component = "ablation" /\ Ablation!Next
    BY <2>1, AblationStep
  <2>2. CASE UNCHANGED vars
    BY <2>2, RunStaysSound DEF vars, AblationInv, Ablation!TypeOK, Ablation!Reports, RunsAreSound, Progress, ReportIsSound,
       Ablation!Families, Ablation!Standard
  <2> QED BY <2>1, <2>2 DEF Next
<1> QED BY <1>1, <1>2, PTL DEF Spec

(* What the invariant gives of one entry.                                  *)
LEMMA SoundRunIsRight ==
  ASSUME NEW s, RunIsSound(s), dataset \in DOMAIN AblationCorpora
  PROVE  /\ \A other \in Ablation!Rules \ {s.rule} :
              Ablation!HitsOf(Ablation!Of(s, "train"), other) < Ablation!HitsOf(Ablation!Of(s, "train"), s.rule)
         /\ \A b, l \in {0, 1} : s.counts[b][l] = Ablation!Count(Ablation!Of(s, "train"), b, l)
         /\ LET m == s.test.confusion_matrix IN
            m.tp + m.tn + m.fp + m.fn = Cardinality(Ablation!Of(s, "test"))
         /\ LET m == s.challenge.confusion_matrix IN
            m.tp + m.tn + m.fp + m.fn = Cardinality(Ablation!Challenge)
<1>1. \A name : Bucketed(Ablation!Of(s, name))
  BY AblationParameters, FS_Subset DEF Bucketed, Ablation!Of, Ablation!Standard
<1>2. Bucketed(Ablation!Of(s, "train")) /\ Bucketed(Ablation!Of(s, "test")) /\ Bucketed(Ablation!Challenge)
  BY <1>1, AblationParameters, FS_Subset DEF Bucketed, Ablation!Challenge
<1>3. s.rule \in Ablation!Rules
  BY DEF RunIsSound, Ablation!RuleOf, Ablation!Rules
<1>4. \A other \in Ablation!Rules \ {s.rule} :
        Ablation!HitsOf(Ablation!Of(s, "train"), other) < Ablation!HitsOf(Ablation!Of(s, "train"), s.rule)
  BY <1>2, MajorityRuleIsBest DEF RunIsSound
<1>5. \A b, l \in {0, 1} : s.counts[b][l] = Ablation!Count(Ablation!Of(s, "train"), b, l)
  BY DEF RunIsSound, Ablation!Counts
<1>6. LET m == s.test.confusion_matrix IN m.tp + m.tn + m.fp + m.fn = Cardinality(Ablation!Of(s, "test"))
  BY <1>2, <1>3, EvaluationCountsAll DEF RunIsSound
<1>7. LET m == s.challenge.confusion_matrix IN m.tp + m.tn + m.fp + m.fn = Cardinality(Ablation!Challenge)
  BY <1>2, <1>3, EvaluationCountsAll DEF RunIsSound
<1> QED BY <1>4, <1>5, <1>6, <1>7

(* For any corpora, references and splits, and whatever file is replaced   *)
(* while the command runs: CONFIRMED means what it says.                   *)
THEOREM ConfirmedIsProved == Spec => []ConfirmedIsTrue
<1>1. ASSUME AblationInv
      PROVE  /\ Ablation!ConfirmedMeansEverySeed /\ Ablation!RuleIsTheBest
             /\ Ablation!ScoredFamiliesDidNotVote /\ Ablation!NamedReferenceIsCompared
  <2> DEFINE R == {seed_reports[i] : i \in DOMAIN seed_reports}
  <2>1. /\ \A s \in R : RunIsSound(s)
        /\ R # {} => dataset \in DOMAIN AblationCorpora
        /\ all_match \in BOOLEAN /\ (all_match <=> \A s \in R : s.matches)
        /\ Len(seed_reports) \in Nat /\ DOMAIN seed_reports = 1..Len(seed_reports)
    BY <1>1, ListedTypes DEF AblationInv, RunsAreSound
  <2>2. Ablation!ToSet(seed_reports) = R
    BY DEF Ablation!ToSet
  <2>3. Ablation!RuleIsTheBest
    BY <2>1, <2>2, SoundRunIsRight DEF Ablation!RuleIsTheBest
  <2>4. Ablation!ScoredFamiliesDidNotVote
    <3>1. ASSUME NEW s \in R
          PROVE  /\ \A b, l \in {0, 1} : s.counts[b][l] = Ablation!Count(Ablation!Of(s, "train"), b, l)
                 /\ LET m == s.test.confusion_matrix IN
                    m.tp + m.tn + m.fp + m.fn = Ablation!Cardinality(Ablation!Of(s, "test"))
                 /\ LET m == s.challenge.confusion_matrix IN
                    m.tp + m.tn + m.fp + m.fn = Ablation!Cardinality(Ablation!Challenge)
      BY <2>1, SoundRunIsRight, AblationCountsAsHere
    <3> QED BY <2>2, <3>1 DEF Ablation!ScoredFamiliesDidNotVote
  <2>5. ASSUME report # None
        PROVE  /\ report.seed_runs = seed_reports /\ report.reference_sha256 = reference
               /\ report.status = IF all_match THEN "CONFIRMED" ELSE "DIFFERS"
               /\ [i \in DOMAIN seed_reports |-> seed_reports[i].seed] = OriginalSeeds
    <3>1. Len(seed_reports) = Len(OriginalSeeds) /\ DOMAIN seed_reports = DOMAIN OriginalSeeds
      BY <1>1, <2>1, <2>5, AblationParameters, LenProperties DEF AblationInv, ReportIsSound
    <3>2. \A i \in DOMAIN seed_reports : seed_reports[i].seed = OriginalSeeds[i]
      BY <1>1 DEF AblationInv, RunsAreSound
    <3>3. OriginalSeeds = [i \in DOMAIN OriginalSeeds |-> OriginalSeeds[i]]
      BY AblationParameters, LenProperties
    <3> QED BY <1>1, <2>5, <3>1, <3>2, <3>3 DEF AblationInv, ReportIsSound
  <2>6. Ablation!NamedReferenceIsCompared
    BY <2>1, <2>2, <2>5 DEF Ablation!NamedReferenceIsCompared, RunIsSound
  <2>7. Ablation!ConfirmedMeansEverySeed
    <3> SUFFICES ASSUME report # None PROVE Ablation!ConfirmedMeansEverySeed
      BY DEF Ablation!ConfirmedMeansEverySeed
    <3>1. [i \in DOMAIN report.seed_runs |-> report.seed_runs[i].seed] = OriginalSeeds
      BY <2>5
    <3>2. Ablation!ToSet(report.seed_runs) = R
      BY <2>2, <2>5
    <3>3. \A s \in R :
            LET same == /\ s.test.confusion_matrix = Ablation!SeedRuns(reference)[s.seed].test
                        /\ s.challenge.confusion_matrix = Ablation!SeedRuns(reference)[s.seed].challenge IN
            /\ s.matches => same
            /\ same /\ Ablation!Exact(s.test) /\ Ablation!Exact(s.challenge) => s.matches
      BY <2>1 DEF RunIsSound
    <3>4. report.status = "CONFIRMED" <=> \A s \in R : s.matches
      BY <2>1, <2>5
    <3> HIDE DEF R
    <3> DEFINE Agree(s) == /\ s.test.confusion_matrix = Ablation!SeedRuns(reference)[s.seed].test
                           /\ s.challenge.confusion_matrix = Ablation!SeedRuns(reference)[s.seed].challenge
    <3>5. \A s \in R :
            /\ s.matches => Agree(s)
            /\ Agree(s) /\ Ablation!Exact(s.test) /\ Ablation!Exact(s.challenge) => s.matches
      BY <3>3, Zenon
    <3>6. report.status = "CONFIRMED" => \A s \in R : Agree(s)
      BY <3>4, <3>5, Zenon
    <3>7. (\A s \in R : Ablation!Exact(s.test) /\ Ablation!Exact(s.challenge)) /\ (\A s \in R : Agree(s))
            => report.status = "CONFIRMED"
      BY <3>4, <3>5, Zenon
    <3> QED BY <3>1, <3>2, <3>6, <3>7, Zenon DEF Ablation!ConfirmedMeansEverySeed
  <2> QED BY <2>3, <2>4, <2>6, <2>7
<1>2. (component = "ablation" => AblationInv) => ConfirmedIsTrue
  BY <1>1 DEF ConfirmedIsTrue, AblationInv
<1> QED BY <1>2, AblationInvariant, PTL

-----------------------------------------------------------------------------
(* The metrics and the baselines.                                          *)

LEMMA BaselinesCountAsHere == \A S : Baselines!Cardinality(S) = Cardinality(S)
BY DEF Baselines!Cardinality, Cardinality

LEMMA BaselinesParameters ==
  /\ Scores \subseteq Nat /\ Thresholds \subseteq Nat /\ RowCounts \subseteq Nat /\ MaxRows \in Nat
  /\ \A tp, tn, fp, fn \in 0..MaxRows :
       Baselines!MetricsOf([tp |-> tp, tn |-> tn, fp |-> fp, fn |-> fn]) # Refused
BY ModelsAssumption DEF Baselines!ComparisonAssumption

(* As many scores and counts as targets.                                   *)
RowsInv ==
  /\ scores \in Seq(Nat) /\ targets \in Seq({0, 1}) /\ counts \in Seq(Nat)
  /\ Len(scores) = Len(targets) /\ Len(counts) = Len(targets)
  /\ Len(targets) <= MaxRows

LEMMA RowsInvariant == Spec => [](component = "baselines" => RowsInv)
<1> DEFINE I == component = "baselines" => RowsInv
<1>1. Init => I
  BY BaselinesParameters, EmptySeq DEF Init, Baselines!Init, RowsInv
<1>2. I /\ [Next]_vars => I'
  <2> SUFFICES ASSUME I, [Next]_vars, component' = "baselines" PROVE RowsInv'
    OBVIOUS
  <2>1. CASE component = "baselines" /\ Baselines!AddRow
    <3>1. PICK s \in Scores, t \in {0, 1}, c \in RowCounts :
            /\ scores' = Append(scores, s) /\ targets' = Append(targets, t) /\ counts' = Append(counts, c)
      BY <2>1 DEF Baselines!AddRow, Baselines!Labels
    <3>2. s \in Nat /\ c \in Nat
      BY BaselinesParameters
    <3> QED BY <2>1, <3>1, <3>2, AppendProperties, LenProperties, BaselinesParameters DEF RowsInv, Baselines!AddRow
  <2>2. CASE UNCHANGED <<component, scores, targets, counts>>
    BY <2>2 DEF RowsInv
  <2> QED BY <2>1, <2>2 DEF Next, Baselines!Next, Baselines!Full, Baselines!vars, vars
<1> QED BY <1>1, <1>2, PTL DEF Spec

-----------------------------------------------------------------------------
(* Counting predictions.                                                   *)

(* Predictions and targets of the same n rows.                             *)
Answers(ps, ts, n) ==
  n \in Nat /\ DOMAIN ts = 1..n /\ \A i \in 1..n : ps[i] \in {0, 1} /\ ts[i] \in {0, 1}

(* A cell of the confusion matrix, and a column of it.                     *)
Cells(ps, ts, p, t) == {i \in DOMAIN ts : ps[i] = p /\ ts[i] = t}
Column(ts, t) == {i \in DOMAIN ts : ts[i] = t}

LEMMA CellsFinite ==
  ASSUME NEW ps, NEW ts, NEW n, Answers(ps, ts, n)
  PROVE  /\ \A p, t : IsFiniteSet(Cells(ps, ts, p, t)) /\ Cardinality(Cells(ps, ts, p, t)) \in 0..n
         /\ \A t : IsFiniteSet(Column(ts, t)) /\ Cardinality(Column(ts, t)) \in 0..n
         /\ IsFiniteSet(DOMAIN ts) /\ Cardinality(DOMAIN ts) = n
<1>1. IsFiniteSet(1..n) /\ Cardinality(1..n) = n
  BY FS_Interval DEF Answers
<1>2. IsFiniteSet(DOMAIN ts) /\ Cardinality(DOMAIN ts) = n /\ n \in Nat
  BY <1>1 DEF Answers
<1>3. ASSUME NEW S, S \subseteq DOMAIN ts PROVE IsFiniteSet(S) /\ Cardinality(S) \in 0..n
  BY <1>2, <1>3, FS_Subset, FS_CardinalityType
<1>4. \A p, t : Cells(ps, ts, p, t) \subseteq DOMAIN ts
  BY DEF Cells
<1>5. \A t : Column(ts, t) \subseteq DOMAIN ts
  BY DEF Column
<1> QED BY <1>2, <1>3, <1>4, <1>5

(* The rows of a label are its right and its wrong predictions, and every  *)
(* row has a label.                                                        *)
LEMMA CellsAddUp ==
  ASSUME NEW ps, NEW ts, NEW n, Answers(ps, ts, n)
  PROVE  LET h(p, t) == Cardinality(Cells(ps, ts, p, t)) IN
         /\ h(1, 1) \in Nat /\ h(0, 0) \in Nat /\ h(1, 0) \in Nat /\ h(0, 1) \in Nat
         /\ h(1, 1) + h(0, 1) = Cardinality(Column(ts, 1))
         /\ h(1, 0) + h(0, 0) = Cardinality(Column(ts, 0))
         /\ Cardinality(Column(ts, 0)) + Cardinality(Column(ts, 1)) = n
<1>1. /\ Column(ts, 1) = Cells(ps, ts, 1, 1) \cup Cells(ps, ts, 0, 1)
      /\ Cells(ps, ts, 1, 1) \cap Cells(ps, ts, 0, 1) = {}
  BY DEF Column, Cells, Answers
<1>2. /\ Column(ts, 0) = Cells(ps, ts, 1, 0) \cup Cells(ps, ts, 0, 0)
      /\ Cells(ps, ts, 1, 0) \cap Cells(ps, ts, 0, 0) = {}
  BY DEF Column, Cells, Answers
<1>3. DOMAIN ts = Column(ts, 0) \cup Column(ts, 1) /\ Column(ts, 0) \cap Column(ts, 1) = {}
  BY DEF Column, Answers
<1>4. IsFiniteSet(Column(ts, 1)) /\ IsFiniteSet(Column(ts, 0)) /\ IsFiniteSet(DOMAIN ts) /\ Cardinality(DOMAIN ts) = n
  BY CellsFinite
<1>5. /\ Cardinality(Column(ts, 1)) = Cardinality(Cells(ps, ts, 1, 1)) + Cardinality(Cells(ps, ts, 0, 1))
      /\ Cardinality(Cells(ps, ts, 1, 1)) \in Nat /\ Cardinality(Cells(ps, ts, 0, 1)) \in Nat
  BY <1>1, <1>4, TwoParts
<1>6. /\ Cardinality(Column(ts, 0)) = Cardinality(Cells(ps, ts, 1, 0)) + Cardinality(Cells(ps, ts, 0, 0))
      /\ Cardinality(Cells(ps, ts, 1, 0)) \in Nat /\ Cardinality(Cells(ps, ts, 0, 0)) \in Nat
  BY <1>2, <1>4, TwoParts
<1>7. n = Cardinality(Column(ts, 0)) + Cardinality(Column(ts, 1))
  BY <1>3, <1>4, TwoParts
<1> QED BY <1>5, <1>6, <1>7

(* F1 before it is reduced.                                                *)
F1Of(tp, fp, fn) == IF tp = 0 THEN <<0, 1>> ELSE <<2 * tp * tp, tp * (tp + fn) + tp * (tp + fp)>>
(* A fraction of at most one.                                              *)
IsShare(f) == f[2] > 0 /\ f[1] * 1 <= 1 * f[2]
AreShares(e) == IsShare(e.accuracy) /\ IsShare(e.precision) /\ IsShare(e.recall) /\ IsShare(e.f1_score)

(* An evaluation whose confusion matrix has these counts.                  *)
Measured(e, tp, tn, fp, fn) ==
  /\ AreShares(e)
  /\ e.accuracy = <<tp + tn, tp + tn + fp + fn>>
  /\ e.recall = IF tp + fn = 0 THEN <<0, 1>> ELSE <<tp, tp + fn>>
  /\ e.f1_score = F1Of(tp, fp, fn)
  /\ e.confusion_matrix = [tp |-> tp, tn |-> tn, fp |-> fp, fn |-> fn]

(* What is made of four counts, of any rows.                               *)
LEMMA MetricsOfCounts ==
  ASSUME NEW tp \in Nat, NEW tn \in Nat, NEW fp \in Nat, NEW fn \in Nat, tp + tn + fp + fn > 0,
         NEW e, e = Baselines!MetricsOf([tp |-> tp, tn |-> tn, fp |-> fp, fn |-> fn])
  PROVE  Measured(e, tp, tn, fp, fn)
<1> USE DEF F1Of, IsShare, AreShares, Measured
<1> DEFINE p == Baselines!Share(tp, tp + fp)
           r == Baselines!Share(tp, tp + fn)
<1>1. /\ e.accuracy = Baselines!Share(tp + tn, tp + tn + fp + fn) /\ e.precision = p /\ e.recall = r
      /\ e.f1_score = Baselines!HarmonicMean(p, r)
      /\ e.confusion_matrix = [tp |-> tp, tn |-> tn, fp |-> fp, fn |-> fn]
  BY DEF Baselines!MetricsOf
<1>2. e.accuracy = <<tp + tn, tp + tn + fp + fn>>
  BY <1>1 DEF Baselines!Share
<1>3. /\ p = IF tp + fp = 0 THEN <<0, 1>> ELSE <<tp, tp + fp>>
      /\ r = IF tp + fn = 0 THEN <<0, 1>> ELSE <<tp, tp + fn>>
  BY DEF Baselines!Share, Baselines!Zero
<1> HIDE DEF p, r
<1>4. CASE tp = 0
  <2>1. p[1] = 0 /\ r[1] = 0 /\ p[2] \in Nat /\ r[2] \in Nat /\ p[2] > 0 /\ r[2] > 0
    BY <1>3, <1>4
  <2>2. p[1] * r[2] + r[1] * p[2] = 0
    BY <2>1
  <2>3. Baselines!HarmonicMean(p, r) = <<0, 1>>
    BY <2>2 DEF Baselines!HarmonicMean, Baselines!Zero
  <2> QED BY <1>1, <1>2, <1>3, <1>4, <2>1, <2>3
<1>5. CASE tp > 0
  <2>1. p = <<tp, tp + fp>> /\ r = <<tp, tp + fn>>
    BY <1>3, <1>5
  <2>2. tp * (tp + fn) + tp * (tp + fp) = 2 * tp * tp + tp * fn + tp * fp
    OBVIOUS
  <2>3. tp * tp > 0 /\ tp * fn >= 0 /\ tp * fp >= 0
    BY <1>5
  <2>4. 2 * tp * tp > 0 /\ 2 * tp * tp = 2 * (tp * tp)
    BY <2>3
  <2>5. tp * (tp + fn) + tp * (tp + fp) > 0 /\ 2 * tp * tp <= tp * (tp + fn) + tp * (tp + fp)
    BY <2>2, <2>3, <2>4
  <2>6. Baselines!HarmonicMean(p, r) = <<2 * tp * tp, tp * (tp + fn) + tp * (tp + fp)>>
    BY <2>1, <2>5 DEF Baselines!HarmonicMean
  <2>7. p[2] > 0 /\ p[1] <= p[2] /\ r[2] > 0 /\ r[1] <= r[2]
    BY <2>1, <1>5
  <2>8. IsShare(e.f1_score)
    BY <1>1, <2>5, <2>6
  <2>9. IsShare(e.accuracy)
    BY <1>2
  <2>10. IsShare(e.precision) /\ IsShare(e.recall)
    <3>1. e.precision = p /\ e.recall = r
      BY <1>1
    <3>2. p[1] \in Nat /\ p[2] \in Nat /\ r[1] \in Nat /\ r[2] \in Nat
      BY <2>1
    <3>3. p[1] * 1 = p[1] /\ 1 * p[2] = p[2] /\ r[1] * 1 = r[1] /\ 1 * r[2] = r[2]
      BY ONLY <3>2
    <3>4. p[2] > 0 /\ p[1] * 1 <= 1 * p[2] /\ r[2] > 0 /\ r[1] * 1 <= 1 * r[2]
      BY ONLY <2>7, <3>3
    <3>5. IsShare(p) /\ IsShare(r)
      BY ONLY <3>4 DEF IsShare
    <3> QED BY ONLY <3>1, <3>5
  <2>11. e.f1_score = F1Of(tp, fp, fn)
    BY <1>1, <1>5, <2>6
  <2> QED BY <1>1, <1>2, <1>3, <2>8, <2>9, <2>10, <2>11
<1> QED BY <1>4, <1>5

-----------------------------------------------------------------------------
(* The evaluation of predictions for the rows that there are.              *)
Hit(ps, p, t) == Cardinality(Cells(ps, targets, p, t))
Positives == Cardinality(Column(targets, 1))
Negatives == Cardinality(Column(targets, 0))
Evaluation(ps) == Baselines!evaluate_binary_classification(ps, targets)

LEMMA Evaluated ==
  ASSUME RowsInv, targets # <<>>, NEW ps \in Seq({0, 1}), Len(ps) = Len(targets)
  PROVE  LET tp == Hit(ps, 1, 1)  tn == Hit(ps, 0, 0)  fp == Hit(ps, 1, 0)  fn == Hit(ps, 0, 1)
             e == Evaluation(ps) IN
         /\ tp \in Nat /\ tn \in Nat /\ fp \in Nat /\ fn \in Nat
         /\ tp + fn = Positives /\ fp + tn = Negatives /\ tp + tn + fp + fn = Len(targets) /\ Len(targets) > 0
         /\ e # Refused
         /\ e = Baselines!MetricsOf([tp |-> tp, tn |-> tn, fp |-> fp, fn |-> fn])
<1> DEFINE tp == Hit(ps, 1, 1)
           tn == Hit(ps, 0, 0)
           fp == Hit(ps, 1, 0)
           fn == Hit(ps, 0, 1)
<1>1. Answers(ps, targets, Len(targets)) /\ Len(targets) \in Nat /\ Len(targets) > 0
  BY EmptySeq, LenProperties DEF RowsInv, Answers
<1>2. /\ tp \in Nat /\ tn \in Nat /\ fp \in Nat /\ fn \in Nat
      /\ tp + fn = Positives /\ fp + tn = Negatives /\ Positives + Negatives = Len(targets)
  BY <1>1, CellsAddUp DEF Hit, Positives, Negatives
<1>3. Evaluation(ps) = Baselines!MetricsOf([tp |-> tp, tn |-> tn, fp |-> fp, fn |-> fn])
  BY BaselinesCountAsHere DEF Evaluation, Baselines!evaluate_binary_classification, Baselines!ConfusionMatrix, Baselines!Hits,
     Hit, Cells
<1> HIDE DEF tp, tn, fp, fn
<1>4. Positives \in Nat /\ Negatives \in Nat /\ tp + tn + fp + fn = Len(targets)
  BY <1>2
<1>5. tp \in 0..MaxRows /\ tn \in 0..MaxRows /\ fp \in 0..MaxRows /\ fn \in 0..MaxRows
  BY <1>1, <1>2, <1>4, BaselinesParameters DEF RowsInv
<1>6. Evaluation(ps) # Refused
  BY <1>3, <1>5, BaselinesParameters
<1> QED BY <1>1, <1>2, <1>3, <1>4, <1>6 DEF tp, tn, fp, fn

(* The metrics of such an evaluation.                                      *)
LEMMA EvaluatedMetrics ==
  ASSUME RowsInv, targets # <<>>, NEW ps \in Seq({0, 1}), Len(ps) = Len(targets)
  PROVE  Measured(Evaluation(ps), Hit(ps, 1, 1), Hit(ps, 0, 0), Hit(ps, 1, 0), Hit(ps, 0, 1))
<1>1. PICK tp, tn, fp, fn, e :
        tp = Hit(ps, 1, 1) /\ tn = Hit(ps, 0, 0) /\ fp = Hit(ps, 1, 0) /\ fn = Hit(ps, 0, 1) /\ e = Evaluation(ps)
  OBVIOUS
<1>2. /\ tp \in Nat /\ tn \in Nat /\ fp \in Nat /\ fn \in Nat
      /\ tp + tn + fp + fn = Len(targets) /\ Len(targets) > 0
      /\ e = Baselines!MetricsOf([tp |-> tp, tn |-> tn, fp |-> fp, fn |-> fn])
  BY <1>1, Evaluated
<1>3. Measured(e, tp, tn, fp, fn)
  BY <1>2, MetricsOfCounts
<1> QED BY <1>1, <1>3

(* A threshold's predictions.                                              *)
LEMMA PredictedAnswers ==
  ASSUME RowsInv, NEW t \in Nat
  PROVE  /\ Baselines!Predicted(scores, t) \in Seq({0, 1})
         /\ Len(Baselines!Predicted(scores, t)) = Len(targets)
         /\ \A i \in DOMAIN targets : /\ i \in DOMAIN scores /\ scores[i] \in Nat /\ targets[i] \in {0, 1}
                                      /\ Baselines!Predicted(scores, t)[i] = IF scores[i] >= t THEN 1 ELSE 0
<1>1. DOMAIN scores = 1..Len(targets) /\ DOMAIN targets = 1..Len(targets) /\ Len(targets) \in Nat
  BY LenProperties DEF RowsInv
<1>2. \A i \in 1..Len(targets) : scores[i] \in Nat /\ targets[i] \in {0, 1}
  BY <1>1, LenProperties DEF RowsInv
<1> DEFINE ps == [i \in 1..Len(targets) |-> IF scores[i] >= t THEN 1 ELSE 0]
<1>3. Baselines!Predicted(scores, t) = ps
  BY <1>1 DEF Baselines!Predicted
<1>4. ps \in Seq({0, 1})
  BY <1>1, IsASeq
<1>5. Len(ps) = Len(targets)
  <2>1. DOMAIN ps = 1..Len(ps) /\ Len(ps) \in Nat
    BY <1>4, LenProperties
  <2>2. DOMAIN ps = 1..Len(targets)
    OBVIOUS
  <2> HIDE DEF ps
  <2> QED BY <1>1, <2>1, <2>2, SameInterval
<1> QED BY <1>1, <1>2, <1>3, <1>4, <1>5

LEMMA AtIsEvaluation ==
  ASSUME RowsInv, NEW t \in Nat
  PROVE  /\ Baselines!Sound /\ t <= 100 =>
              /\ Baselines!At(t) = Evaluation(Baselines!Predicted(scores, t)) /\ targets # <<>>
         /\ ~(Baselines!Sound /\ t <= 100) => Baselines!At(t) = Refused
BY DEF Baselines!At, Baselines!evaluate_threshold, Baselines!Sound, Evaluation, Baselines!InRange, Baselines!One,
   Baselines!evaluate_binary_classification

(* A threshold that is evaluated, its four counts and its metrics.         *)
LEMMA ThresholdMeasured ==
  ASSUME RowsInv, Baselines!Sound, NEW t \in Nat, t <= 100,
         NEW ps, ps = Baselines!Predicted(scores, t)
  PROVE  /\ targets # <<>> /\ Len(targets) \in Nat /\ Len(targets) > 0
         /\ Baselines!At(t) = Evaluation(ps) /\ Evaluation(ps) # Refused
         /\ Measured(Baselines!At(t), Hit(ps, 1, 1), Hit(ps, 0, 0), Hit(ps, 1, 0), Hit(ps, 0, 1))
         /\ Baselines!Matrix(t) = [tp |-> Hit(ps, 1, 1), tn |-> Hit(ps, 0, 0), fp |-> Hit(ps, 1, 0), fn |-> Hit(ps, 0, 1)]
         /\ Hit(ps, 1, 1) \in Nat /\ Hit(ps, 0, 0) \in Nat /\ Hit(ps, 1, 0) \in Nat /\ Hit(ps, 0, 1) \in Nat
         /\ Hit(ps, 1, 1) + Hit(ps, 0, 1) = Positives /\ Hit(ps, 1, 0) + Hit(ps, 0, 0) = Negatives
         /\ Hit(ps, 1, 1) + Hit(ps, 0, 0) + Hit(ps, 1, 0) + Hit(ps, 0, 1) = Len(targets)
<1>1. Baselines!At(t) = Evaluation(ps) /\ targets # <<>>
  BY AtIsEvaluation
<1>2. ps \in Seq({0, 1}) /\ Len(ps) = Len(targets)
  BY PredictedAnswers
<1>3. /\ Len(targets) > 0 /\ Evaluation(ps) # Refused
      /\ Hit(ps, 1, 1) \in Nat /\ Hit(ps, 0, 0) \in Nat /\ Hit(ps, 1, 0) \in Nat /\ Hit(ps, 0, 1) \in Nat
      /\ Hit(ps, 1, 1) + Hit(ps, 0, 1) = Positives /\ Hit(ps, 1, 0) + Hit(ps, 0, 0) = Negatives
      /\ Hit(ps, 1, 1) + Hit(ps, 0, 0) + Hit(ps, 1, 0) + Hit(ps, 0, 1) = Len(targets)
  BY <1>1, <1>2, Evaluated
<1>4. Measured(Baselines!At(t), Hit(ps, 1, 1), Hit(ps, 0, 0), Hit(ps, 1, 0), Hit(ps, 0, 1))
  BY <1>1, <1>2, EvaluatedMetrics
<1>5. Baselines!Matrix(t) = [tp |-> Hit(ps, 1, 1), tn |-> Hit(ps, 0, 0), fp |-> Hit(ps, 1, 0), fn |-> Hit(ps, 0, 1)]
  BY <1>4 DEF Measured, Baselines!Matrix
<1>6. Len(targets) \in Nat
  BY LenProperties DEF RowsInv
<1> QED BY <1>1, <1>3, <1>4, <1>5, <1>6

LEMMA ValidThresholds ==
  ASSUME NEW t \in Baselines!Valid PROVE t \in Nat /\ t <= 100 /\ t \in Thresholds
BY BaselinesParameters DEF Baselines!Valid, Baselines!One

LEMMA EvaluatedIsWholeHere ==
  ASSUME RowsInv PROVE Baselines!EvaluatedIsWhole
<1>1. ASSUME NEW t \in Thresholds
      PROVE  /\ Baselines!At(t) = Refused <=> ~(Baselines!Sound /\ t <= Baselines!One)
             /\ Baselines!At(t) # Refused =>
                  LET e == Baselines!At(t)  m == Baselines!Matrix(t) IN
                  /\ m.tp + m.tn + m.fp + m.fn = Len(targets)
                  /\ \A f \in {e.accuracy, e.precision, e.recall, e.f1_score} : f[2] > 0 /\ Baselines!AtMost(f, <<1, 1>>)
  <2>1. t \in Nat
    BY BaselinesParameters
  <2>2. CASE ~(Baselines!Sound /\ t <= 100)
    BY <2>1, <2>2, AtIsEvaluation DEF Baselines!One
  <2>3. CASE Baselines!Sound /\ t <= 100
    <3>1. PICK ps : ps = Baselines!Predicted(scores, t)
      OBVIOUS
    <3>2. /\ Baselines!At(t) # Refused
          /\ AreShares(Baselines!At(t))
          /\ LET m == Baselines!Matrix(t) IN m.tp + m.tn + m.fp + m.fn = Len(targets)
      <4>1. PICK tp, tn, fp, fn : tp = Hit(ps, 1, 1) /\ tn = Hit(ps, 0, 0) /\ fp = Hit(ps, 1, 0) /\ fn = Hit(ps, 0, 1)
        OBVIOUS
      <4>2. /\ Baselines!At(t) # Refused /\ Measured(Baselines!At(t), tp, tn, fp, fn)
            /\ Baselines!Matrix(t) = [tp |-> tp, tn |-> tn, fp |-> fp, fn |-> fn]
            /\ tp + tn + fp + fn = Len(targets)
        BY <2>1, <2>3, <3>1, <4>1, ThresholdMeasured
      <4> QED BY <4>2 DEF Measured
    <3> QED BY <2>3, <3>2 DEF Baselines!One, AreShares, IsShare, Baselines!AtMost
  <2> QED BY <2>2, <2>3
<1> QED BY <1>1 DEF Baselines!EvaluatedIsWhole

LEMMA F1IsDiceHere ==
  ASSUME RowsInv PROVE Baselines!F1IsDice
<1> SUFFICES ASSUME Baselines!Sound, NEW t \in Baselines!Valid
             PROVE  LET m == Baselines!Matrix(t) IN
                    /\ Baselines!Same(Baselines!At(t).f1_score, Baselines!Share(2 * m.tp, 2 * m.tp + m.fp + m.fn))
                    /\ Baselines!Same(Baselines!At(t).f1_score, <<1, 1>>) => Baselines!Same(Baselines!At(t).accuracy, <<1, 1>>)
                    /\ Baselines!Same(Baselines!At(t).accuracy, <<1, 1>>) /\ m.tp > 0 => Baselines!Same(Baselines!At(t).f1_score, <<1, 1>>)
  BY DEF Baselines!F1IsDice
<1>1. PICK ps : ps = Baselines!Predicted(scores, t)
  OBVIOUS
<1>2. PICK tp, tn, fp, fn : tp = Hit(ps, 1, 1) /\ tn = Hit(ps, 0, 0) /\ fp = Hit(ps, 1, 0) /\ fn = Hit(ps, 0, 1)
  OBVIOUS
<1>3. PICK e, m : e = Baselines!At(t) /\ m = Baselines!Matrix(t)
  OBVIOUS
<1>4. /\ tp \in Nat /\ tn \in Nat /\ fp \in Nat /\ fn \in Nat /\ tp + tn + fp + fn > 0
      /\ Measured(e, tp, tn, fp, fn) /\ m = [tp |-> tp, tn |-> tn, fp |-> fp, fn |-> fn]
  BY <1>1, <1>2, <1>3, ThresholdMeasured, ValidThresholds
<1>5. /\ e.accuracy = <<tp + tn, tp + tn + fp + fn>> /\ e.f1_score = F1Of(tp, fp, fn)
      /\ m.tp = tp /\ m.fp = fp /\ m.fn = fn
  BY <1>4 DEF Measured
<1>6. Baselines!Same(e.accuracy, <<1, 1>>) <=> fp + fn = 0
  BY <1>4, <1>5 DEF Baselines!Same
<1>7. CASE tp = 0
  BY <1>3, <1>4, <1>5, <1>7 DEF F1Of, Baselines!Same, Baselines!Share, Baselines!Zero
<1>8. CASE tp > 0
  <2>1. e.f1_score = <<2 * tp * tp, tp * (tp + fn) + tp * (tp + fp)>>
    BY <1>5, <1>8 DEF F1Of
  <2>2. 2 * tp * tp * (2 * tp + fp + fn) = 2 * tp * (tp * (tp + fn) + tp * (tp + fp))
    BY <1>4
  <2>3. Baselines!Same(e.f1_score, Baselines!Share(2 * tp, 2 * tp + fp + fn))
    BY <1>4, <1>8, <2>1, <2>2 DEF Baselines!Same, Baselines!Share
  <2>4. tp * (tp + fn) + tp * (tp + fp) = 2 * tp * tp + tp * (fp + fn)
    BY <1>4
  <2>5. tp * (fp + fn) = 0 <=> fp + fn = 0
    BY <1>4, <1>8
  <2>6. Baselines!Same(e.f1_score, <<1, 1>>) <=> tp * (fp + fn) = 0
    <3>1. Baselines!Same(e.f1_score, <<1, 1>>) <=> 2 * tp * tp * 1 = 1 * (tp * (tp + fn) + tp * (tp + fp))
      BY <2>1 DEF Baselines!Same
    <3> QED BY <1>4, <2>4, <3>1
  <2> QED BY <1>3, <1>5, <1>6, <2>3, <2>5, <2>6
<1> QED BY <1>4, <1>7, <1>8

LEMMA ThresholdsTradeHere ==
  ASSUME RowsInv PROVE Baselines!ThresholdsTrade
<1> SUFFICES ASSUME Baselines!Sound, NEW low \in Baselines!Valid, NEW high \in Baselines!Valid
             PROVE  /\ low <= high => /\ Baselines!Matrix(high).fp <= Baselines!Matrix(low).fp
                                      /\ Baselines!Matrix(high).fn >= Baselines!Matrix(low).fn
                                      /\ Baselines!AtMost(Baselines!At(high).recall, Baselines!At(low).recall)
                    /\ low = 0 => Baselines!Matrix(low).fn = 0 /\ Baselines!Matrix(low).tn = 0
  BY DEF Baselines!ThresholdsTrade
<1>1. PICK pl, ph : pl = Baselines!Predicted(scores, low) /\ ph = Baselines!Predicted(scores, high)
  OBVIOUS
<1>2. low \in Nat /\ high \in Nat /\ low <= 100 /\ high <= 100
  BY ValidThresholds
<1>3. \A i \in DOMAIN targets : /\ scores[i] \in Nat /\ targets[i] \in {0, 1}
                                /\ pl[i] = IF scores[i] >= low THEN 1 ELSE 0
                                /\ ph[i] = IF scores[i] >= high THEN 1 ELSE 0
  BY <1>1, <1>2, PredictedAnswers
<1>4. PICK tl, fl, nl, gl, th, fh, nh, gh :
        /\ tl = Hit(pl, 1, 1) /\ nl = Hit(pl, 0, 0) /\ fl = Hit(pl, 1, 0) /\ gl = Hit(pl, 0, 1)
        /\ th = Hit(ph, 1, 1) /\ nh = Hit(ph, 0, 0) /\ fh = Hit(ph, 1, 0) /\ gh = Hit(ph, 0, 1)
  OBVIOUS
<1>5. /\ Measured(Baselines!At(low), tl, nl, fl, gl) /\ tl \in Nat /\ fl \in Nat /\ gl \in Nat /\ nl \in Nat
      /\ Baselines!Matrix(low) = [tp |-> tl, tn |-> nl, fp |-> fl, fn |-> gl] /\ tl + gl = Positives
  BY <1>1, <1>2, <1>4, ThresholdMeasured
<1>6. /\ Measured(Baselines!At(high), th, nh, fh, gh) /\ th \in Nat /\ fh \in Nat /\ gh \in Nat /\ nh \in Nat
      /\ Baselines!Matrix(high) = [tp |-> th, tn |-> nh, fp |-> fh, fn |-> gh] /\ th + gh = Positives
  BY <1>1, <1>2, <1>4, ThresholdMeasured
<1>7. ASSUME low <= high
      PROVE  /\ Baselines!Matrix(high).fp <= Baselines!Matrix(low).fp
             /\ Baselines!Matrix(high).fn >= Baselines!Matrix(low).fn
             /\ Baselines!AtMost(Baselines!At(high).recall, Baselines!At(low).recall)
  <2>1. /\ Cells(ph, targets, 1, 0) \subseteq Cells(pl, targets, 1, 0)
        /\ Cells(pl, targets, 0, 1) \subseteq Cells(ph, targets, 0, 1)
    BY <1>2, <1>3, <1>7 DEF Cells
  <2>2. Answers(pl, targets, Len(targets)) /\ Answers(ph, targets, Len(targets))
    BY <1>3, LenProperties DEF RowsInv, Answers
  <2>3. IsFiniteSet(Cells(pl, targets, 1, 0)) /\ IsFiniteSet(Cells(ph, targets, 0, 1))
    BY <2>2, CellsFinite
  <2>4. fh <= fl /\ gl <= gh
    BY <2>1, <2>3, <1>4, FS_Subset DEF Hit
  <2>5. th <= tl
    BY <2>4, <1>5, <1>6
  <2>6. Baselines!AtMost(Baselines!At(high).recall, Baselines!At(low).recall)
    <3>1. PICK P \in Nat : P = tl + gl /\ P = th + gh
      BY <1>5, <1>6
    <3>2. /\ Baselines!At(low).recall = IF P = 0 THEN <<0, 1>> ELSE <<tl, P>>
          /\ Baselines!At(high).recall = IF P = 0 THEN <<0, 1>> ELSE <<th, P>>
      BY <1>5, <1>6, <3>1 DEF Measured
    <3>3. th * P <= tl * P
      BY <2>5, <3>1, <1>5, <1>6
    <3>4. CASE P = 0
      BY <3>2, <3>4 DEF Baselines!AtMost
    <3>5. CASE P # 0
      BY <3>2, <3>3, <3>5 DEF Baselines!AtMost
    <3> QED BY <3>4, <3>5
  <2> QED BY <2>4, <2>6, <1>5, <1>6
<1>8. ASSUME low = 0 PROVE Baselines!Matrix(low).fn = 0 /\ Baselines!Matrix(low).tn = 0
  <2>1. Cells(pl, targets, 0, 1) = {} /\ Cells(pl, targets, 0, 0) = {}
    BY <1>3, <1>8 DEF Cells
  <2>2. gl = 0 /\ nl = 0
    BY <2>1, <1>4, FS_EmptySet DEF Hit
  <2> QED BY <2>2, <1>5
<1> QED BY <1>7, <1>8

LEMMA MistakesAreNamedHere ==
  ASSUME RowsInv PROVE Baselines!MistakesAreNamed
<1> SUFFICES ASSUME Baselines!Sound, NEW t \in Baselines!Valid
             PROVE  /\ Baselines!Matrix(t).fp = Cardinality({i \in DOMAIN targets : scores[i] >= t /\ targets[i] = 0})
                    /\ Baselines!Matrix(t).fn = Cardinality({i \in DOMAIN targets : scores[i] < t /\ targets[i] = 1})
  BY BaselinesCountAsHere DEF Baselines!MistakesAreNamed
<1>1. PICK ps : ps = Baselines!Predicted(scores, t)
  OBVIOUS
<1>2. t \in Nat /\ t <= 100
  BY ValidThresholds
<1>3. \A i \in DOMAIN targets : scores[i] \in Nat /\ ps[i] = IF scores[i] >= t THEN 1 ELSE 0
  BY <1>1, <1>2, PredictedAnswers
<1>4. /\ Cells(ps, targets, 1, 0) = {i \in DOMAIN targets : scores[i] >= t /\ targets[i] = 0}
      /\ Cells(ps, targets, 0, 1) = {i \in DOMAIN targets : scores[i] < t /\ targets[i] = 1}
  BY <1>2, <1>3 DEF Cells
<1>5. Baselines!Matrix(t).fp = Hit(ps, 1, 0) /\ Baselines!Matrix(t).fn = Hit(ps, 0, 1)
  <2>1. Baselines!Matrix(t) = [tp |-> Hit(ps, 1, 1), tn |-> Hit(ps, 0, 0), fp |-> Hit(ps, 1, 0), fn |-> Hit(ps, 0, 1)]
    BY <1>1, <1>2, ThresholdMeasured
  <2> QED BY <2>1
<1> QED BY <1>4, <1>5 DEF Hit

(* A constant guess is right on the rows of its label.                     *)
LEMMA ConstantMeasured ==
  ASSUME RowsInv, targets # <<>>, NEW label \in {0, 1},
         NEW ps, ps = Baselines!Constant(Len(targets), label)
  PROVE  /\ ps \in Seq({0, 1}) /\ Len(ps) = Len(targets)
         /\ Hit(ps, 1, 1) = IF label = 1 THEN Positives ELSE 0
         /\ Hit(ps, 0, 0) = IF label = 0 THEN Negatives ELSE 0
<1>1. Len(targets) \in Nat /\ DOMAIN targets = 1..Len(targets)
  BY LenProperties DEF RowsInv
<1>2. ps = [i \in 1..Len(targets) |-> label]
  BY DEF Baselines!Constant
<1>3. ps \in Seq({0, 1})
  BY <1>1, <1>2, IsASeq
<1>4. Len(ps) = Len(targets)
  BY <1>1, <1>2, <1>3, LenProperties, SameInterval
<1>5. /\ Cells(ps, targets, 1, 1) = IF label = 1 THEN Column(targets, 1) ELSE {}
      /\ Cells(ps, targets, 0, 0) = IF label = 0 THEN Column(targets, 0) ELSE {}
  BY <1>1, <1>2 DEF Cells, Column
<1> QED BY <1>3, <1>4, <1>5, FS_EmptySet DEF Hit, Positives, Negatives

LEMMA MajorityHere ==
  ASSUME RowsInv PROVE Baselines!MajorityIsBestConstant
<1> SUFFICES ASSUME Baselines!Sound, NEW t \in Baselines!Valid
             PROVE  LET c == Baselines!Compared(t)  m == c.neural_model.confusion_matrix IN
                    /\ Baselines!AtMost(<<1, 2>>, c.majority.accuracy)
                    /\ Baselines!Same(c.majority.accuracy, <<1, 2>>) => c.majority.confusion_matrix.tp = 0
                    /\ m.tp + m.fp \in {0, Len(targets)} => Baselines!AtMost(c.neural_model.accuracy, c.majority.accuracy)
  BY DEF Baselines!MajorityIsBestConstant
<1>1. PICK ps, label, pm : /\ ps = Baselines!Predicted(scores, t) /\ label = Baselines!MajorityLabel(targets)
                           /\ pm = Baselines!Constant(Len(targets), label)
  OBVIOUS
<1>2. t \in Nat /\ t <= 100
  BY ValidThresholds
<1>3. /\ targets # <<>> /\ Len(targets) \in Nat /\ Len(targets) > 0
      /\ ps \in Seq({0, 1}) /\ Len(ps) = Len(targets)
  BY <1>1, <1>2, ThresholdMeasured, PredictedAnswers
<1>4. label = IF 2 * Positives > Len(targets) THEN 1 ELSE 0
  BY <1>1, BaselinesCountAsHere DEF Baselines!MajorityLabel, Baselines!Hits, Positives, Column
<1>5. /\ label \in {0, 1} /\ pm \in Seq({0, 1}) /\ Len(pm) = Len(targets)
      /\ Hit(pm, 1, 1) = IF label = 1 THEN Positives ELSE 0
      /\ Hit(pm, 0, 0) = IF label = 0 THEN Negatives ELSE 0
  BY <1>1, <1>3, <1>4, ConstantMeasured
<1>6. Baselines!Compared(t).majority = Evaluation(pm) /\ Baselines!Compared(t).neural_model = Evaluation(ps)
  BY <1>1, <1>3 DEF Baselines!Compared, Baselines!compare_classification_baselines, Evaluation, RowsInv
<1>7. PICK tp, tn, fp, fn, n, P, N, M :
        /\ tp = Hit(ps, 1, 1) /\ tn = Hit(ps, 0, 0) /\ fp = Hit(ps, 1, 0) /\ fn = Hit(ps, 0, 1)
        /\ n = Len(targets) /\ P = Positives /\ N = Negatives /\ M = Hit(pm, 1, 1) + Hit(pm, 0, 0)
  OBVIOUS
<1>8. /\ tp \in Nat /\ tn \in Nat /\ fp \in Nat /\ fn \in Nat
      /\ tp + fn = P /\ fp + tn = N /\ tp + tn + fp + fn = n
  BY <1>3, <1>7, Evaluated
<1>9. Measured(Evaluation(ps), tp, tn, fp, fn)
  BY <1>3, <1>7, EvaluatedMetrics
<1>10. /\ Evaluation(ps).accuracy = <<tp + tn, n>>
       /\ Evaluation(ps).confusion_matrix = [tp |-> tp, tn |-> tn, fp |-> fp, fn |-> fn]
  BY <1>8, <1>9 DEF Measured
<1>11. /\ Evaluation(pm).accuracy = <<M, n>>
       /\ Evaluation(pm).confusion_matrix.tp = Hit(pm, 1, 1)
  <2>1. PICK a, b, c, d : a = Hit(pm, 1, 1) /\ b = Hit(pm, 0, 0) /\ c = Hit(pm, 1, 0) /\ d = Hit(pm, 0, 1)
    OBVIOUS
  <2>2. Measured(Evaluation(pm), a, b, c, d)
    BY <1>3, <1>5, <2>1, EvaluatedMetrics
  <2>3. a + b + c + d = n
    BY <1>3, <1>5, <1>7, <2>1, Evaluated
  <2> QED BY <2>1, <2>2, <2>3, <1>7 DEF Measured
<1>12. M = (IF label = 1 THEN P ELSE N) /\ n = P + N /\ P \in Nat /\ N \in Nat
  <2>1. P \in Nat /\ N \in Nat /\ n = P + N
    BY <1>8
  <2>2. Hit(pm, 1, 1) = (IF label = 1 THEN P ELSE 0) /\ Hit(pm, 0, 0) = (IF label = 0 THEN N ELSE 0)
    BY <1>5, <1>7
  <2>3. CASE label = 1
    <3>1. Hit(pm, 1, 1) = P /\ Hit(pm, 0, 0) = 0
      BY <2>2, <2>3
    <3> QED BY <1>7, <2>1, <2>3, <3>1
  <2>4. CASE label = 0
    <3>1. Hit(pm, 1, 1) = 0 /\ Hit(pm, 0, 0) = N
      BY <2>2, <2>4
    <3> QED BY <1>7, <2>1, <2>4, <3>1
  <2> QED BY <1>5, <2>3, <2>4
<1>13. label = IF 2 * P > n THEN 1 ELSE 0
  BY <1>4, <1>7
<1>14. M >= P /\ M >= N /\ n <= 2 * M
  BY <1>12, <1>13
<1>15. Baselines!AtMost(<<1, 2>>, <<M, n>>)
  BY <1>12, <1>14 DEF Baselines!AtMost
<1>16. Baselines!Same(<<M, n>>, <<1, 2>>) => Hit(pm, 1, 1) = 0
  BY <1>5, <1>7, <1>12, <1>13 DEF Baselines!Same
<1>17. ASSUME tp + fp \in {0, n} PROVE Baselines!AtMost(<<tp + tn, n>>, <<M, n>>)
  <2>1. tp + tn <= M
    BY <1>8, <1>12, <1>14, <1>17
  <2>2. (tp + tn) * n <= M * n
    BY <2>1, <1>8, <1>12
  <2> QED BY <2>2 DEF Baselines!AtMost
<1> QED BY <1>6, <1>7, <1>10, <1>11, <1>15, <1>16, <1>17

(* For any scores, thresholds, counts and number of rows.                  *)
THEOREM MetricsAgreeProved == Spec => []MetricsAgree
<1>1. (component = "baselines" => RowsInv) => MetricsAgree
  BY EvaluatedIsWholeHere, F1IsDiceHere, ThresholdsTradeHere, MistakesAreNamedHere, MajorityHere DEF MetricsAgree
<1> QED BY <1>1, RowsInvariant, PTL

-----------------------------------------------------------------------------
(* Training.                                                               *)

(* Networks.                                                               *)

(* A neuron of a network.                                                  *)
Neuron == [width : Nat, updates : Nat]

(* A network of one of the architectures, updated somehow.                 *)
Network(n) ==
  /\ n \in Seq(Seq(Neuron))
  /\ \E a \in Architectures :
       /\ Len(n) = Len(a.dims) - 1
       /\ \A l \in 1..Len(n) : /\ Len(n[l]) = a.dims[l + 1]
                               /\ \A k \in 1..Len(n[l]) : n[l][k].width = a.dims[l]

LEMMA TrainingParameters ==
  /\ Epochs \subseteq Nat \ {0} /\ BatchSizes \subseteq Nat \ {0} /\ MaxRuns \in Nat
  /\ \A a \in Architectures : /\ a.dims \in Seq(Nat) /\ Len(a.dims) >= 2
                              /\ a.head \in {"linear", "sigmoid", "softmax"}
  /\ \A d \in Datasets : d.rows \in Seq({"fits", "wide", "improper"}) /\ Len(d.rows) > 0
  /\ \A a \in Architectures : Training!GradientsOf(Training!Fresh(a.dims)) # None
  /\ None \notin [data : Datasets, validation : Datasets \cup {None}, epochs : Epochs, batchSize : BatchSizes,
                  objective : {"mse", "cross_entropy"}, epoch : Nat, next : Nat]
BY ModelsAssumption DEF Training!TrainingAssumption, Training!NoneIsNothing

LEMMA SequenceOfLength ==
  ASSUME NEW S, NEW m \in Nat, NEW s, s \in [1..m -> S]
  PROVE  s \in Seq(S) /\ Len(s) = m
<1>1. s \in Seq(S)
  BY SeqDef
<1>2. DOMAIN s = 1..Len(s) /\ DOMAIN s = 1..m /\ Len(s) \in Nat
  BY <1>1, LenProperties
<1> QED BY <1>1, <1>2, SameInterval

LEMMA LayersAndNeurons ==
  ASSUME NEW n \in Seq(Seq(Neuron))
  PROVE  /\ Len(n) \in Nat /\ DOMAIN n = 1..Len(n)
         /\ \A l \in 1..Len(n) : /\ Len(n[l]) \in Nat /\ DOMAIN n[l] = 1..Len(n[l])
                                 /\ \A k \in 1..Len(n[l]) : n[l][k] \in Neuron
<1>1. Len(n) \in Nat /\ DOMAIN n = 1..Len(n)
  BY LenProperties
<1>2. ASSUME NEW l \in 1..Len(n)
      PROVE  /\ Len(n[l]) \in Nat /\ DOMAIN n[l] = 1..Len(n[l])
             /\ \A k \in 1..Len(n[l]) : n[l][k] \in Neuron
  <2>1. n[l] \in Seq(Neuron)
    BY ElementOfSeq
  <2> QED BY <2>1, LenProperties, ElementOfSeq
<1> QED BY <1>1, <1>2

LEMMA FreshNetwork ==
  ASSUME NEW a \in Architectures
  PROVE  Network(Training!Fresh(a.dims)) /\ \A l \in 1..Len(Training!Fresh(a.dims)) :
           \A k \in 1..Len(Training!Fresh(a.dims)[l]) : Training!Fresh(a.dims)[l][k].updates = 0
<1> DEFINE d == a.dims
           layer(l) == [k \in 1..d[l + 1] |-> [width |-> d[l], updates |-> 0]]
           n == [l \in 1..Len(d) - 1 |-> layer(l)]
<1>1. d \in Seq(Nat) /\ Len(d) \in Nat /\ Len(d) - 1 \in Nat
  BY TrainingParameters, LenProperties
<1>2. \A l \in 1..Len(d) - 1 : d[l] \in Nat /\ d[l + 1] \in Nat
  BY <1>1, ElementOfSeq
<1>3. ASSUME NEW l \in 1..Len(d) - 1
      PROVE  layer(l) \in Seq(Neuron) /\ Len(layer(l)) = d[l + 1]
  <2>1. layer(l) \in [1..d[l + 1] -> Neuron]
    BY <1>2 DEF Neuron
  <2> HIDE DEF layer
  <2>2. PICK f, m : f = layer(l) /\ m = d[l + 1]
    OBVIOUS
  <2>3. m \in Nat /\ f \in [1..m -> Neuron]
    BY <1>2, <2>1, <2>2
  <2>4. f \in Seq(Neuron) /\ Len(f) = m
    BY <2>3, SequenceOfLength
  <2> QED BY <2>2, <2>4
<1>4. n \in Seq(Seq(Neuron)) /\ Len(n) = Len(d) - 1
  <2> HIDE DEF layer
  <2>1. n \in [1..Len(d) - 1 -> Seq(Neuron)]
    BY <1>3
  <2> HIDE DEF n
  <2> QED BY <1>1, <2>1, SequenceOfLength
<1>5. \A l \in 1..Len(n) : /\ Len(n[l]) = d[l + 1] /\ n[l] = layer(l)
                           /\ \A k \in 1..Len(n[l]) : n[l][k].width = d[l] /\ n[l][k].updates = 0
  BY <1>3, <1>4
<1>6. n = Training!Fresh(d)
  BY DEF Training!Fresh
<1> HIDE DEF n, layer
<1> QED BY <1>4, <1>5, <1>6 DEF Network

(* The gradients of a network have its shape.                              *)
LEMMA GradientsFit ==
  ASSUME NEW n, Network(n)
  PROVE  Training!Fits(n, Training!GradientsOf(n)) /\ Training!GradientsOf(n) # None
<1>1. n \in Seq(Seq(Neuron))
  BY DEF Network
<1>2. PICK a \in Architectures :
        /\ Len(n) = Len(a.dims) - 1
        /\ \A l \in 1..Len(n) : /\ Len(n[l]) = a.dims[l + 1]
                                /\ \A k \in 1..Len(n[l]) : n[l][k].width = a.dims[l]
  BY DEF Network
<1> DEFINE g == Training!GradientsOf(n)
           G == {g[l] : l \in DOMAIN n}
<1>3. /\ Len(n) \in Nat /\ DOMAIN n = 1..Len(n)
      /\ \A l \in 1..Len(n) : Len(n[l]) \in Nat /\ DOMAIN n[l] = 1..Len(n[l])
  BY <1>1, LayersAndNeurons
<1>4. g = [l \in 1..Len(n) |-> [weights |-> [k \in 1..Len(n[l]) |-> n[l][k].width], biases |-> Len(n[l])]]
  BY <1>3 DEF Training!GradientsOf
<1>5. Len(g) = Len(n)
  <2>1. g \in [1..Len(n) -> G]
    BY <1>3, <1>4
  <2> HIDE DEF g, G
  <2> QED BY <1>3, <2>1, SequenceOfLength
<1>6. \A l \in 1..Len(n) : Len(g[l].weights) = Len(n[l]) /\ g[l].biases = Len(n[l])
                           /\ \A k \in 1..Len(n[l]) : g[l].weights[k] = n[l][k].width
  <2> SUFFICES ASSUME NEW l \in 1..Len(n) PROVE Len(g[l].weights) = Len(n[l]) /\ g[l].biases = Len(n[l])
                           /\ \A k \in 1..Len(n[l]) : g[l].weights[k] = n[l][k].width
    OBVIOUS
  <2>1. g[l] = [weights |-> [k \in 1..Len(n[l]) |-> n[l][k].width], biases |-> Len(n[l])]
    BY <1>4
  <2>2. [k \in 1..Len(n[l]) |-> n[l][k].width] \in [1..Len(n[l]) -> Nat]
    BY <1>1, LayersAndNeurons DEF Neuron
  <2>3. Len([k \in 1..Len(n[l]) |-> n[l][k].width]) = Len(n[l])
    BY <1>3, <2>2, SequenceOfLength
  <2> QED BY <2>1, <2>3
<1>7. Training!Misfits(n, g) = {}
  BY <1>3, <1>6 DEF Training!Misfits
<1>8. g # None
  <2>1. Network(Training!Fresh(a.dims))
    BY FreshNetwork
  <2>2. Training!GradientsOf(Training!Fresh(a.dims)) = g
    <3> DEFINE f == Training!Fresh(a.dims)
    <3>1. a.dims \in Seq(Nat) /\ Len(a.dims) \in Nat /\ Len(a.dims) - 1 \in Nat
      BY TrainingParameters, LenProperties
    <3>2. f = [l \in 1..Len(n) |-> [k \in 1..Len(n[l]) |-> [width |-> a.dims[l], updates |-> 0]]]
      BY <1>2 DEF Training!Fresh
    <3>3. \A l \in 1..Len(n) : Len(f[l]) = Len(n[l])
      <4> SUFFICES ASSUME NEW l \in 1..Len(n) PROVE Len(f[l]) = Len(n[l])
        OBVIOUS
      <4>1. f[l] \in [1..Len(n[l]) -> {[width |-> a.dims[l], updates |-> 0]}]
        BY <3>2
      <4> HIDE DEF f
      <4> QED BY <1>3, <4>1, SequenceOfLength
    <3>4. Training!GradientsOf(f) = [l \in 1..Len(n) |-> [weights |-> [k \in 1..Len(n[l]) |-> a.dims[l]], biases |-> Len(n[l])]]
      <4>1. /\ DOMAIN f = 1..Len(n)
            /\ \A l \in 1..Len(n) : DOMAIN f[l] = 1..Len(n[l]) /\ \A k \in 1..Len(n[l]) : f[l][k].width = a.dims[l]
        BY <3>2
      <4> HIDE DEF f
      <4>2. \A l \in 1..Len(n) : [k \in DOMAIN f[l] |-> f[l][k].width] = [k \in 1..Len(n[l]) |-> a.dims[l]]
        BY <4>1
      <4>3. Training!GradientsOf(f) =
              [l \in 1..Len(n) |-> [weights |-> [k \in DOMAIN f[l] |-> f[l][k].width], biases |-> Len(f[l])]]
        BY <4>1 DEF Training!GradientsOf
      <4> QED BY <4>2, <4>3, <3>3
    <3>5. \A l \in 1..Len(n) : [k \in 1..Len(n[l]) |-> a.dims[l]] = [k \in 1..Len(n[l]) |-> n[l][k].width]
      BY <1>2
    <3> HIDE DEF f, g
    <3> QED BY <1>4, <3>4, <3>5 DEF f
  <2> QED BY <2>2, TrainingParameters
<1> QED BY <1>5, <1>7, <1>8 DEF Training!Fits

(* An update goes to a neuron exactly when it is reached.                  *)
LEMMA Applied ==
  ASSUME NEW n, Network(n), NEW g, NEW m, m = Training!ApplyGradients(n, g)
  PROVE  /\ Network(m) /\ Len(m) = Len(n) /\ \A l \in 1..Len(n) : Len(m[l]) = Len(n[l])
         /\ \A l \in 1..Len(n) : \A k \in 1..Len(n[l]) :
              m[l][k].updates = n[l][k].updates + (IF Training!Reached(n, g, l, k) THEN 1 ELSE 0)
         /\ Training!GradientsOf(m) = Training!GradientsOf(n)
<1>1. n \in Seq(Seq(Neuron))
  BY DEF Network
<1>2. PICK a \in Architectures :
        /\ Len(n) = Len(a.dims) - 1
        /\ \A l \in 1..Len(n) : /\ Len(n[l]) = a.dims[l + 1]
                                /\ \A k \in 1..Len(n[l]) : n[l][k].width = a.dims[l]
  BY DEF Network
<1>3. /\ Len(n) \in Nat /\ DOMAIN n = 1..Len(n)
      /\ \A l \in 1..Len(n) : /\ Len(n[l]) \in Nat /\ DOMAIN n[l] = 1..Len(n[l])
                              /\ \A k \in 1..Len(n[l]) : n[l][k] \in Neuron
  BY <1>1, LayersAndNeurons
<1> DEFINE one(l, k) == IF Training!Reached(n, g, l, k) THEN [n[l][k] EXCEPT !.updates = @ + 1] ELSE n[l][k]
           layer(l) == [k \in 1..Len(n[l]) |-> one(l, k)]
<1>4. ASSUME NEW l \in 1..Len(n), NEW k \in 1..Len(n[l])
      PROVE  /\ one(l, k) \in Neuron /\ one(l, k).width = n[l][k].width
             /\ one(l, k).updates = n[l][k].updates + (IF Training!Reached(n, g, l, k) THEN 1 ELSE 0)
  BY <1>3 DEF Neuron
<1>5. m = [l \in 1..Len(n) |-> layer(l)]
  BY <1>3 DEF Training!ApplyGradients
<1> HIDE DEF one
<1>6. ASSUME NEW l \in 1..Len(n)
      PROVE  layer(l) \in Seq(Neuron) /\ Len(layer(l)) = Len(n[l])
  <2>1. layer(l) \in [1..Len(n[l]) -> Neuron]
    BY <1>4
  <2> HIDE DEF layer
  <2> QED BY <1>3, <2>1, SequenceOfLength
<1>7. m \in Seq(Seq(Neuron)) /\ Len(m) = Len(n)
  <2> HIDE DEF layer
  <2>1. m \in [1..Len(n) -> Seq(Neuron)]
    BY <1>5, <1>6
  <2> QED BY <1>3, <2>1, SequenceOfLength
<1>8. \A l \in 1..Len(n) : m[l] = layer(l) /\ Len(m[l]) = Len(n[l])
  BY <1>5, <1>6
<1>9. \A l \in 1..Len(n) : \A k \in 1..Len(n[l]) : m[l][k] = one(l, k)
  BY <1>8
<1>10. Network(m)
  <2>1. \A l \in 1..Len(m) : Len(m[l]) = a.dims[l + 1]
    BY <1>2, <1>7, <1>8
  <2>2. \A l \in 1..Len(m) : \A k \in 1..Len(m[l]) : m[l][k].width = a.dims[l]
    <3> HIDE DEF layer
    <3>1. \A l \in 1..Len(n) : \A k \in 1..Len(n[l]) : one(l, k).width = a.dims[l]
      BY <1>2, <1>4
    <3> QED BY <1>7, <1>8, <1>9, <3>1
  <2>3. Len(m) = Len(a.dims) - 1
    BY <1>2, <1>7
  <2> QED BY <1>7, <2>1, <2>2, <2>3 DEF Network
<1>11. Training!GradientsOf(m) = Training!GradientsOf(n)
  <2>1. /\ DOMAIN m = 1..Len(n) /\ \A l \in 1..Len(n) : DOMAIN m[l] = 1..Len(n[l])
    BY <1>7, <1>8, LayersAndNeurons
  <2>2. \A l \in 1..Len(n) : [k \in DOMAIN m[l] |-> m[l][k].width] = [k \in DOMAIN n[l] |-> n[l][k].width]
    BY <1>3, <1>4, <1>9, <2>1
  <2>3. Training!GradientsOf(m) = [l \in 1..Len(n) |-> [weights |-> [k \in DOMAIN m[l] |-> m[l][k].width], biases |-> Len(m[l])]]
    BY <2>1 DEF Training!GradientsOf
  <2>4. Training!GradientsOf(n) = [l \in 1..Len(n) |-> [weights |-> [k \in DOMAIN n[l] |-> n[l][k].width], biases |-> Len(n[l])]]
    BY <1>3 DEF Training!GradientsOf
  <2> QED BY <1>8, <2>2, <2>3, <2>4
<1>12. \A l \in 1..Len(n) : \A k \in 1..Len(n[l]) :
         m[l][k].updates = n[l][k].updates + (IF Training!Reached(n, g, l, k) THEN 1 ELSE 0)
  <2> HIDE DEF layer, one
  <2> QED BY <1>4, <1>9
<1>13. \A l \in 1..Len(n) : Len(m[l]) = Len(n[l])
  BY <1>8
<1> HIDE DEF layer, one
<1> QED BY <1>7, <1>10, <1>11, <1>12, <1>13

(* No neuron is ahead of one before it.                                    *)
Leads(n) ==
  \A l, m \in 1..Len(n) : \A k \in 1..Len(n[l]) : \A j \in 1..Len(n[m]) :
    l < m \/ (l = m /\ k < j) => n[l][k].updates >= n[m][j].updates

(* Every neuron had the same updates.                                      *)
AllAt(n, u) == \A l \in 1..Len(n) : \A k \in 1..Len(n[l]) : n[l][k].updates = u

LEMMA LeadsStill ==
  ASSUME NEW n, Network(n), NEW g, Leads(n)
  PROVE  Leads(Training!ApplyGradients(n, g))
<1>1. PICK m : m = Training!ApplyGradients(n, g)
  OBVIOUS
<1>2. /\ Len(m) = Len(n) /\ \A l \in 1..Len(n) : Len(m[l]) = Len(n[l])
      /\ \A l \in 1..Len(n) : \A k \in 1..Len(n[l]) :
              m[l][k].updates = n[l][k].updates + (IF Training!Reached(n, g, l, k) THEN 1 ELSE 0)
  BY <1>1, Applied
<1>3. /\ Len(n) \in Nat /\ DOMAIN n = 1..Len(n)
      /\ \A l \in 1..Len(n) : /\ Len(n[l]) \in Nat /\ DOMAIN n[l] = 1..Len(n[l])
                              /\ \A k \in 1..Len(n[l]) : n[l][k].updates \in Nat
  BY LayersAndNeurons DEF Network, Neuron
<1>4. \A p \in Training!Misfits(n, g) : p[1] \in Nat /\ p[2] \in Nat
  BY <1>3 DEF Training!Misfits
<1>5. ASSUME NEW l \in 1..Len(n), NEW h \in 1..Len(n), NEW k \in 1..Len(n[l]), NEW j \in 1..Len(n[h]),
             l < h \/ (l = h /\ k < j), Training!Reached(n, g, h, j)
      PROVE  Training!Reached(n, g, l, k)
  <2>1. l \in Nat /\ h \in Nat /\ k \in Nat /\ j \in Nat
    BY <1>3
  <2>2. ASSUME NEW p \in Training!Misfits(n, g) PROVE Training!Precedes(<<l, k>>, p)
    <3>1. Training!Precedes(<<h, j>>, p)
      BY <1>5 DEF Training!Reached
    <3> QED BY <1>4, <1>5, <2>1, <3>1 DEF Training!Precedes
  <2> QED BY <1>5, <2>2 DEF Training!Reached
<1>6. Leads(m)
  <2> SUFFICES ASSUME NEW l \in 1..Len(n), NEW h \in 1..Len(n), NEW k \in 1..Len(n[l]), NEW j \in 1..Len(n[h]),
                      l < h \/ (l = h /\ k < j)
               PROVE  m[l][k].updates >= m[h][j].updates
    BY <1>2 DEF Leads
  <2>1. n[l][k].updates >= n[h][j].updates /\ n[l][k].updates \in Nat /\ n[h][j].updates \in Nat
    BY <1>3 DEF Leads
  <2>2. /\ m[l][k].updates = n[l][k].updates + (IF Training!Reached(n, g, l, k) THEN 1 ELSE 0)
        /\ m[h][j].updates = n[h][j].updates + (IF Training!Reached(n, g, h, j) THEN 1 ELSE 0)
    BY <1>2
  <2> QED BY <1>5, <2>1, <2>2
<1> QED BY <1>1, <1>6

(* An update that fits goes to every neuron.                               *)
LEMMA AllUpdated ==
  ASSUME NEW n, Network(n), NEW g, Training!Fits(n, g), NEW u \in Nat, AllAt(n, u)
  PROVE  AllAt(Training!ApplyGradients(n, g), u + 1)
<1>1. PICK m : m = Training!ApplyGradients(n, g)
  OBVIOUS
<1>2. /\ Len(m) = Len(n) /\ \A l \in 1..Len(n) : Len(m[l]) = Len(n[l])
      /\ \A l \in 1..Len(n) : \A k \in 1..Len(n[l]) :
              m[l][k].updates = n[l][k].updates + (IF Training!Reached(n, g, l, k) THEN 1 ELSE 0)
  BY <1>1, Applied
<1>3. \A l, k : Training!Reached(n, g, l, k)
  BY DEF Training!Fits, Training!Reached
<1>4. AllAt(m, u + 1)
  <2> SUFFICES ASSUME NEW l \in 1..Len(n), NEW k \in 1..Len(n[l]) PROVE m[l][k].updates = u + 1
    BY <1>2 DEF AllAt
  <2>1. n[l][k].updates = u
    BY DEF AllAt
  <2>2. m[l][k].updates = n[l][k].updates + (IF Training!Reached(n, g, l, k) THEN 1 ELSE 0)
    BY <1>2
  <2> QED BY <1>3, <2>1, <2>2
<1> QED BY <1>1, <1>4

(* As many batches as it takes to come past the last row.                  *)
LEMMA BatchesCounted ==
  ASSUME NEW n \in Nat, NEW size \in Nat \ {0}, NEW b \in Nat, n < 1 + b * size, 1 + b * size <= n + size
  PROVE  Training!BatchesOf(n, size) = b
<1> DEFINE x == n + size - 1
           q == x \div size
<1>1. x \in Nat /\ b * size <= x /\ x < b * size + size
  OBVIOUS
<1>2. q \in Nat /\ size * q <= x /\ x < size * q + size
  OBVIOUS
<1> HIDE DEF x, q
<1>3. b * size < size * q + size /\ size * q < b * size + size
  BY <1>1, <1>2
<1>4. ~(q < b)
  <2>1. q < b => size * (q + 1) <= size * b
    BY <1>2
  <2> QED BY <1>2, <1>3, <2>1
<1>5. ~(b < q)
  <2>1. b < q => size * (b + 1) <= size * q
    BY <1>2
  <2> QED BY <1>2, <1>3, <2>1
<1>6. q = b
  BY <1>2, <1>4, <1>5
<1> QED BY <1>6 DEF x, q, Training!BatchesOf

-----------------------------------------------------------------------------
(* The invariant.                                                          *)

(* The optimizer's state holds the steps that were applied.                *)
Optimized ==
  /\ optimizer = [kind |-> optimizer.kind, timestep |-> optimizer.timestep,
                  shape |-> optimizer.shape, folded |-> optimizer.folded]
  /\ optimizer.kind \in {"sgd", "momentum", "adam"} /\ optimizer.timestep \in Nat /\ optimizer.folded \in Nat
  /\ applied \in Nat
  /\ optimizer.kind # "sgd" => optimizer.folded = applied
  /\ optimizer.kind = "adam" => optimizer.folded <= optimizer.timestep

(* The records beside the networks; gradients are those of the network.    *)
RecordsOfTraining ==
  /\ owner \in {"dcg", "three_way", "trainer"} /\ head \in {"linear", "sigmoid", "softmax"}
  /\ history \in [epochs : Nat, validations : Nat] /\ history.validations <= history.epochs
  /\ result \in {None, "ok", "error"} /\ runs \in 0..MaxRuns /\ expected \in Nat
  /\ grad # None => run # None /\ grad = Training!GradientsOf(net)

(* The rows of the call in progress.                                       *)
Rows == Len(run.data.rows)

(* The call in progress is within its epochs and its rows.                 *)
CallIsSound ==
  run # None =>
    /\ run \in [data : Datasets, validation : Datasets \cup {None}, epochs : Epochs, batchSize : BatchSizes,
                objective : {"mse", "cross_entropy"}, epoch : Nat, next : Nat]
    /\ run.epoch \in 1..run.epochs + 1 /\ run.next \in 1..Rows + run.batchSize
    /\ run.epoch > run.epochs => grad = None /\ run.next > Rows

(* The rows before the next one were used in this epoch as well.           *)
RowsAreUsed ==
  run # None =>
    /\ used \in [1..Rows -> Nat]
    /\ \A i \in 1..Rows :
         used[i] = IF run.epoch > run.epochs THEN run.epochs
                   ELSE run.epoch - 1 + (IF i < run.next THEN 1 ELSE 0)
    /\ history = [epochs |-> run.epoch - 1,
                  validations |-> IF run.validation = None THEN 0 ELSE run.epoch - 1]

(* The updates of the epochs that ended and of b batches of this one.      *)
StepsOf(r, b, late) ==
  LET each == Training!BatchesOf(Len(r.data.rows), r.batchSize) IN
  IF r.epoch > r.epochs THEN r.epochs * each ELSE (r.epoch - 1) * each + b - late

(* A batch whose gradients were computed and not applied yet.              *)
Pending == IF grad = None THEN 0 ELSE 1

(* The network being trained has the updates owed so far.                  *)
CloneIsOnTheWay ==
  \E b \in Nat :
    /\ run.next = 1 + b * run.batchSize /\ b >= Pending
    /\ AllAt(net, expected + StepsOf(run, b, Pending))

(* The model has what was promised, and a call of its owner works on a     *)
(* clone; a trainer's network is its own.                                  *)
UpdatesAreOwed ==
  /\ Network(net) /\ Network(model) /\ Leads(net)
  /\ owner # "trainer" => AllAt(model, expected) /\ (run # None => CloneIsOnTheWay)

(* What every state of training satisfies.                                 *)
TrainingInv == Optimized /\ RecordsOfTraining /\ CallIsSound /\ RowsAreUsed /\ UpdatesAreOwed

LEMMA EvenNetworkLeads ==
  ASSUME NEW n, NEW u \in Nat, AllAt(n, u) PROVE Leads(n)
<1> SUFFICES ASSUME NEW l \in 1..Len(n), NEW h \in 1..Len(n), NEW k \in 1..Len(n[l]), NEW j \in 1..Len(n[h])
             PROVE  n[l][k].updates >= n[h][j].updates
  BY DEF Leads
<1>1. n[l][k].updates = u /\ n[h][j].updates = u
  BY DEF AllAt
<1> QED BY <1>1

(* What any step of an optimizer does, whole or not.                       *)
LEMMA SteppedSoundly ==
  ASSUME Optimized, Network(net), Leads(net), NEW g, Training!Step(g)
  PROVE  /\ Optimized' /\ Network(net)' /\ Leads(net)'
         /\ net' = Training!ApplyGradients(net, g)
         /\ Training!GradientsOf(net)' = Training!GradientsOf(net)
<1>1. net' = Training!ApplyGradients(net, g)
  BY DEF Training!Step
<1>2. \A n : Training!GradientsOf(n)' = Training!GradientsOf(n)
  OBVIOUS
<1>3. Network(net)' /\ Leads(net)' /\ Training!GradientsOf(net)' = Training!GradientsOf(net)
  <2>1. PICK n, m : n = net /\ m = net'
    OBVIOUS
  <2>2. Network(m) /\ Leads(m) /\ Training!GradientsOf(m) = Training!GradientsOf(n)
    BY <1>1, <2>1, Applied, LeadsStill
  <2> QED BY <2>1, <2>2 DEF Network, Leads
<1>4. Optimized'
  <2> DEFINE o == optimizer
             p == Training!Prepared(o, g)
             a == Training!Advanced(o, g)
             f == IF Training!Fits(net, g) THEN 1 ELSE 0
             before == IF Training!MustReset(o, g) THEN 0 ELSE applied
  <2>1. optimizer' = Training!Stepped(o, net, g) /\ applied' = before + f
    BY DEF Training!Step
  <2>2. /\ p = [kind |-> p.kind, timestep |-> p.timestep, shape |-> p.shape, folded |-> p.folded]
        /\ p.kind = o.kind /\ p.timestep \in Nat /\ p.folded \in Nat /\ before \in Nat
        /\ p.kind # "sgd" => p.folded = before
        /\ p.kind = "adam" => p.folded <= p.timestep
    <3>1. CASE Training!MustReset(o, g)
      <4>1. p = [kind |-> o.kind, timestep |-> 0, shape |-> g, folded |-> 0]
        BY <3>1 DEF Training!Prepared, Optimized
      <4>2. before = 0
        BY <3>1
      <4> HIDE DEF p, before
      <4> QED BY <4>1, <4>2
    <3>2. CASE ~Training!MustReset(o, g)
      <4>1. p = o /\ before = applied
        BY <3>2 DEF Training!Prepared
      <4> HIDE DEF p, before
      <4> QED BY <4>1 DEF Optimized
    <3> QED BY <3>1, <3>2
  <2> HIDE DEF p, before
  <2>3. /\ a = [kind |-> a.kind, timestep |-> a.timestep, shape |-> a.shape, folded |-> a.folded]
        /\ a.kind = o.kind /\ a.timestep \in Nat /\ a.folded = p.folded
        /\ a.kind = "adam" => a.folded + 1 <= a.timestep
    BY <2>2 DEF Training!Advanced, p
  <2> HIDE DEF a
  <2>4. Training!Stepped(o, net, g) = IF o.kind # "sgd" /\ Training!Fits(net, g) THEN [a EXCEPT !.folded = @ + 1] ELSE a
    BY DEF Training!Stepped, Training!Fold, a
  <2>5. o.kind \in {"sgd", "momentum", "adam"}
    BY DEF Optimized
  <2> HIDE DEF f
  <2>6. f = IF Training!Fits(net, g) THEN 1 ELSE 0
    BY DEF f
  <2>7. PICK x : x = Training!Stepped(o, net, g)
    OBVIOUS
  <2>8. /\ x = [kind |-> x.kind, timestep |-> x.timestep, shape |-> x.shape, folded |-> x.folded]
        /\ x.kind = o.kind /\ x.timestep \in Nat /\ x.folded \in Nat
        /\ x.kind # "sgd" => x.folded = before + f
        /\ x.kind = "adam" => x.folded <= x.timestep
    BY <2>2, <2>3, <2>4, <2>5, <2>6, <2>7
  <2>9. before + f \in Nat
    BY <2>2, <2>6
  <2> QED BY <2>1, <2>5, <2>7, <2>8, <2>9 DEF Optimized
<1> QED BY <1>1, <1>3, <1>4

(* The steps.                                                              *)

LEMMA BatchesNatural ==
  ASSUME NEW n \in Nat, NEW size \in Nat \ {0} PROVE Training!BatchesOf(n, size) \in Nat
<1>1. n + size - 1 \in Nat
  OBVIOUS
<1>2. \A x \in Nat : x \div size \in Nat
  OBVIOUS
<1> QED BY <1>1, <1>2 DEF Training!BatchesOf

LEMMA RowsOfCall ==
  ASSUME NEW r, r.data \in Datasets, r.epochs \in Epochs, r.batchSize \in BatchSizes
  PROVE  /\ Len(r.data.rows) \in Nat \ {0} /\ DOMAIN r.data.rows = 1..Len(r.data.rows)
         /\ r.epochs \in Nat \ {0} /\ r.batchSize \in Nat \ {0}
         /\ Training!BatchesOf(Len(r.data.rows), r.batchSize) \in Nat
<1>1. Len(r.data.rows) \in Nat \ {0} /\ DOMAIN r.data.rows = 1..Len(r.data.rows)
  BY TrainingParameters, LenProperties
<1>2. r.epochs \in Nat \ {0} /\ r.batchSize \in Nat \ {0}
  BY TrainingParameters
<1> QED BY <1>1, <1>2, BatchesNatural

(* What is said of the networks is said of the networks after a step.      *)
LEMMA NetworksNext ==
  ASSUME NEW n, NEW m, net' = n, model' = m, Network(n), Network(m), Leads(n)
  PROVE  Network(net)' /\ Network(model)' /\ Leads(net)'
<1>1. Network(net)'
  BY DEF Network
<1>2. Network(model)'
  BY DEF Network
<1>3. Leads(net)'
  BY ZenonT(60) DEF Leads
<1> QED BY <1>1, <1>2, <1>3

LEMMA OwedNext ==
  ASSUME NEW m, NEW u, model' = m, expected' = u, AllAt(m, u)
  PROVE  AllAt(model, expected)'
BY DEF AllAt

LEMMA OnTheWayNext ==
  ASSUME NEW r, NEW n, NEW u, NEW p, NEW b \in Nat,
         run' = r, net' = n, expected' = u, Pending' = p,
         r.next = 1 + b * r.batchSize, b >= p, AllAt(n, u + StepsOf(r, b, p))
  PROVE  CloneIsOnTheWay'
<1>1. AllAt(net', expected' + StepsOf(run', b, Pending'))
  OBVIOUS
<1> QED BY <1>1 DEF CloneIsOnTheWay, AllAt, StepsOf

LEMMA TrainingFails ==
  ASSUME TrainingInv, Training!Fail PROVE TrainingInv'
<1> USE DEF TrainingInv
<1>1. /\ run' = None /\ grad' = None /\ result' = "error" /\ model' = model
      /\ UNCHANGED <<owner, net, head, optimizer, history, runs, applied, used, expected>>
  BY DEF Training!Fail, Training!Kept
<1>2. Optimized'
  BY <1>1 DEF Optimized
<1>3. RecordsOfTraining'
  BY <1>1 DEF RecordsOfTraining
<1>4. CallIsSound' /\ RowsAreUsed'
  BY <1>1 DEF CallIsSound, RowsAreUsed
<1>5. UpdatesAreOwed'
  <2>1. Network(net)' /\ Network(model)' /\ Leads(net)'
    BY <1>1, NetworksNext DEF UpdatesAreOwed
  <2>2. owner # "trainer" => AllAt(model, expected)'
    BY <1>1, OwedNext DEF UpdatesAreOwed
  <2> QED BY <1>1, <2>1, <2>2 DEF UpdatesAreOwed
<1> QED BY <1>2, <1>3, <1>4, <1>5

LEMMA TrainingCalled ==
  ASSUME TrainingInv, Training!Train PROVE TrainingInv'
<1> USE DEF TrainingInv
<1>1. PICK d \in Datasets, v \in Datasets \cup {None}, e \in Epochs, size \in BatchSizes,
           o \in Training!ObjectiveOf(owner), k \in {"sgd", "momentum", "adam"} :
        /\ run' = Training!Call(d, v, e, size, o)
        /\ used' = [i \in DOMAIN d.rows |-> 0]
        /\ optimizer' = Training!StartedOptimizer(k)
        /\ applied' = IF owner = "trainer" THEN applied ELSE 0
  BY DEF Training!Train
<1>2. /\ run = None /\ runs < MaxRuns /\ runs' = runs + 1
      /\ net' = IF owner = "trainer" THEN net ELSE model
      /\ history' = [epochs |-> 0, validations |-> 0] /\ result' = None
      /\ UNCHANGED <<owner, model, head, grad, expected>>
  BY DEF Training!Train, Training!StartedNetwork
<1>3. PICK r : r = Training!Call(d, v, e, size, o)
  OBVIOUS
<1>4. /\ run' = r /\ r.data = d /\ r.validation = v /\ r.epochs = e /\ r.batchSize = size
      /\ r.epoch = 1 /\ r.next = 1 /\ grad = None
      /\ r \in [data : Datasets, validation : Datasets \cup {None}, epochs : Epochs, batchSize : BatchSizes,
                objective : {"mse", "cross_entropy"}, epoch : Nat, next : Nat]
  <2>1. o \in {"mse", "cross_entropy"}
    BY DEF Training!ObjectiveOf
  <2> QED BY <1>1, <1>2, <1>3, <2>1 DEF Training!Call, RecordsOfTraining
<1>5. /\ Len(d.rows) \in Nat \ {0} /\ DOMAIN d.rows = 1..Len(d.rows) /\ e \in Nat \ {0} /\ size \in Nat \ {0}
      /\ Training!BatchesOf(Len(d.rows), size) \in Nat
  BY <1>4, RowsOfCall
<1>6. Optimized'
  <2>1. CASE owner = "trainer"
    BY <1>1, <2>1 DEF Optimized, Training!StartedOptimizer
  <2>2. CASE owner # "trainer"
    BY <1>1, <2>2 DEF Optimized, Training!StartedOptimizer, Training!Optimizer
  <2> QED BY <2>1, <2>2
<1>7. RecordsOfTraining'
  BY <1>2, <1>4, TrainingParameters DEF RecordsOfTraining
<1>8. CallIsSound'
  BY <1>4, <1>5 DEF CallIsSound, Rows
<1>9. RowsAreUsed'
  BY <1>1, <1>2, <1>4, <1>5 DEF RowsAreUsed, Rows
<1>10. UpdatesAreOwed'
  <2>1. expected \in Nat
    BY DEF RecordsOfTraining
  <2>2. CASE owner = "trainer"
    <3>1. Network(net)' /\ Network(model)' /\ Leads(net)'
      BY <1>2, <2>2, NetworksNext DEF UpdatesAreOwed
    <3> QED BY <1>2, <2>2, <3>1 DEF UpdatesAreOwed
  <2>3. CASE owner # "trainer"
    <3>1. net' = model /\ model' = model /\ AllAt(model, expected) /\ Network(model)
      BY <1>2, <2>3 DEF UpdatesAreOwed
    <3>2. Leads(model)
      BY <2>1, <3>1, EvenNetworkLeads
    <3>3. StepsOf(r, 0, 0) = 0 /\ expected + 0 = expected
      BY <1>4, <1>5, <2>1 DEF StepsOf
    <3>4. Pending' = 0 /\ 1 + 0 * size = 1
      BY <1>2, <1>4, <1>5 DEF Pending
    <3>5. CloneIsOnTheWay'
      BY <1>2, <1>4, <3>1, <3>3, <3>4, OnTheWayNext
    <3>6. AllAt(model, expected)'
      BY <1>2, <3>1, OwedNext
    <3>7. Network(net)' /\ Network(model)' /\ Leads(net)'
      BY <3>1, <3>2, NetworksNext
    <3> QED BY <3>5, <3>6, <3>7 DEF UpdatesAreOwed
  <2> QED BY <2>2, <2>3
<1> QED BY <1>6, <1>7, <1>8, <1>9, <1>10

(* The call in progress and its numbers.                                   *)
LEMMA CallRunning ==
  ASSUME TrainingInv, run # None
  PROVE  \E r : /\ run = r
                /\ r \in [data : Datasets, validation : Datasets \cup {None}, epochs : Epochs, batchSize : BatchSizes,
                          objective : {"mse", "cross_entropy"}, epoch : Nat, next : Nat]
                /\ Rows = Len(r.data.rows) /\ Rows \in Nat \ {0} /\ r.epochs \in Nat \ {0} /\ r.batchSize \in Nat \ {0}
                /\ r.epoch \in 1..r.epochs + 1 /\ r.next \in 1..Rows + r.batchSize
                /\ Training!BatchesOf(Rows, r.batchSize) \in Nat
<1>1. PICK r : r = run
  OBVIOUS
<1>2. /\ r \in [data : Datasets, validation : Datasets \cup {None}, epochs : Epochs, batchSize : BatchSizes,
                          objective : {"mse", "cross_entropy"}, epoch : Nat, next : Nat]
      /\ r.epoch \in 1..r.epochs + 1 /\ r.next \in 1..Rows + r.batchSize /\ Rows = Len(r.data.rows)
  BY <1>1 DEF TrainingInv, CallIsSound, Rows
<1>3. Rows \in Nat \ {0} /\ r.epochs \in Nat \ {0} /\ r.batchSize \in Nat \ {0} /\ Training!BatchesOf(Rows, r.batchSize) \in Nat
  BY <1>2, RowsOfCall
<1> QED BY <1>1, <1>2, <1>3

LEMMA BatchComputed ==
  ASSUME TrainingInv, Training!ComputeBatchGradients PROVE TrainingInv'
<1>1. /\ run # None /\ grad = None /\ run.next <= Rows
      /\ grad' = Training!GradientsOf(net)
      /\ used' = [i \in DOMAIN used |-> used[i] + (IF i \in Training!Batch THEN 1 ELSE 0)]
      /\ run' = [run EXCEPT !.next = run.next + run.batchSize]
      /\ UNCHANGED <<owner, model, net, head, optimizer, history, result, runs, applied, expected>>
  BY DEF Training!ComputeBatchGradients, Training!InEpoch, Training!Mean, Rows
<1>2. PICK r : /\ run = r
                /\ r \in [data : Datasets, validation : Datasets \cup {None}, epochs : Epochs, batchSize : BatchSizes,
                          objective : {"mse", "cross_entropy"}, epoch : Nat, next : Nat]
                /\ Rows = Len(r.data.rows) /\ Rows \in Nat \ {0} /\ r.epochs \in Nat \ {0} /\ r.batchSize \in Nat \ {0}
                /\ r.epoch \in 1..r.epochs + 1 /\ r.next \in 1..Rows + r.batchSize
                /\ Training!BatchesOf(Rows, r.batchSize) \in Nat
  BY <1>1, CallRunning
<1>3. PICK s : s = [r EXCEPT !.next = r.next + r.batchSize]
  OBVIOUS
<1>4. /\ run' = s /\ s.data = r.data /\ s.validation = r.validation /\ s.epochs = r.epochs /\ s.batchSize = r.batchSize
      /\ s.epoch = r.epoch /\ s.next = r.next + r.batchSize
      /\ s \in [data : Datasets, validation : Datasets \cup {None}, epochs : Epochs, batchSize : BatchSizes,
                          objective : {"mse", "cross_entropy"}, epoch : Nat, next : Nat]
  <2>1. run' = s
    BY <1>1, <1>2, <1>3
  <2>2. PICK x : x = r.next + r.batchSize
    OBVIOUS
  <2>3. x \in Nat
    BY <1>2, <2>2
  <2>4. s = [r EXCEPT !.next = x]
    BY <1>3, <2>2
  <2>5. /\ s.data = r.data /\ s.validation = r.validation /\ s.epochs = r.epochs /\ s.batchSize = r.batchSize
        /\ s.epoch = r.epoch /\ s.next = x
    BY <1>2, <2>4
  <2>6. s \in [data : Datasets, validation : Datasets \cup {None}, epochs : Epochs, batchSize : BatchSizes,
               objective : {"mse", "cross_entropy"}, epoch : Nat, next : Nat]
    BY <1>2, <2>3, <2>4
  <2> QED BY <2>1, <2>2, <2>5, <2>6
<1>5. r.epoch <= r.epochs /\ r.next <= Rows
  <2>1. r.epoch > r.epochs => r.next > Rows
    BY <1>1, <1>2 DEF TrainingInv, CallIsSound
  <2>2. r.next \in Nat /\ r.epoch \in Nat /\ r.epochs \in Nat /\ Rows \in Nat
    BY <1>2
  <2> QED BY <1>1, <1>2, <2>1, <2>2
<1>6. Rows' = Rows
  BY <1>2, <1>4 DEF Rows
<1>7. Network(net)
  BY DEF TrainingInv, UpdatesAreOwed
<1>8. Optimized'
  BY <1>1 DEF TrainingInv, Optimized
<1>9. RecordsOfTraining'
  <2>1. run' # None
    BY <1>4, TrainingParameters
  <2>2. Training!GradientsOf(net)' = Training!GradientsOf(net)
    <3>1. PICK n : n = net
      OBVIOUS
    <3> QED BY <1>1, <3>1 DEF Training!GradientsOf
  <2> QED BY <1>1, <2>1, <2>2 DEF TrainingInv, RecordsOfTraining
<1>10. CallIsSound'
  <2>1. s.epoch \in 1..s.epochs + 1 /\ s.next \in 1..Rows + s.batchSize /\ ~(s.epoch > s.epochs)
    BY <1>2, <1>4, <1>5
  <2> QED BY <1>4, <1>6, <2>1 DEF CallIsSound
<1>11. RowsAreUsed'
  <2>1. /\ used \in [1..Rows -> Nat] /\ \A i \in 1..Rows : used[i] = r.epoch - 1 + (IF i < r.next THEN 1 ELSE 0)
        /\ history = [epochs |-> r.epoch - 1, validations |-> IF r.validation = None THEN 0 ELSE r.epoch - 1]
    BY <1>1, <1>2, <1>5 DEF TrainingInv, RowsAreUsed
  <2>2. \A i \in 1..Rows : i \in Training!Batch <=> r.next <= i /\ i < s.next
    BY <1>2, <1>4 DEF Training!Batch, Training!LeastOf, Rows
  <2>3. used' \in [1..Rows -> Nat]
    BY <1>1, <2>1
  <2>4. \A i \in 1..Rows : used'[i] = s.epoch - 1 + (IF i < s.next THEN 1 ELSE 0)
    <3> SUFFICES ASSUME NEW i \in 1..Rows PROVE used'[i] = s.epoch - 1 + (IF i < s.next THEN 1 ELSE 0)
      OBVIOUS
    <3>1. used'[i] = used[i] + (IF r.next <= i /\ i < s.next THEN 1 ELSE 0)
      BY <1>1, <2>1, <2>2
    <3>2. used[i] = r.epoch - 1 + (IF i < r.next THEN 1 ELSE 0)
      BY <2>1
    <3>3. i \in Nat /\ r.next \in Nat /\ s.next = r.next + r.batchSize /\ r.batchSize \in Nat /\ r.epoch \in Nat /\ s.epoch = r.epoch
      BY <1>2, <1>4
    <3> QED BY <3>1, <3>2, <3>3
  <2>5. ~(s.epoch > s.epochs)
    BY <1>2, <1>4, <1>5
  <2> QED BY <1>1, <1>4, <1>6, <2>1, <2>3, <2>4, <2>5 DEF RowsAreUsed
<1>12. UpdatesAreOwed'
  <2>1. Network(net)' /\ Network(model)' /\ Leads(net)'
    BY <1>1, NetworksNext DEF TrainingInv, UpdatesAreOwed
  <2>2. CASE owner # "trainer"
    <3>1. AllAt(model, expected)'
      BY <1>1, <2>2, OwedNext DEF TrainingInv, UpdatesAreOwed
    <3>2. PICK b \in Nat : r.next = 1 + b * r.batchSize /\ AllAt(net, expected + StepsOf(r, b, 0))
      BY <1>1, <1>2, <2>2 DEF TrainingInv, UpdatesAreOwed, CloneIsOnTheWay, Pending
    <3>3. Pending' = 1
      BY <1>1, <1>7, GradientsFit DEF Pending
    <3>4. s.next = 1 + (b + 1) * s.batchSize
      BY <1>2, <1>4, <3>2
    <3>5. StepsOf(s, b + 1, 1) = StepsOf(r, b, 0)
      <4>1. PICK each \in Nat : each = Training!BatchesOf(Len(r.data.rows), r.batchSize)
        BY <1>2
      <4>2. PICK x : x = (r.epoch - 1) * each
        OBVIOUS
      <4>3. x \in Nat
        BY <1>2, <4>1, <4>2
      <4>4. StepsOf(r, b, 0) = x + b - 0 /\ StepsOf(s, b + 1, 1) = x + (b + 1) - 1
        BY <1>2, <1>4, <1>5, <4>1, <4>2 DEF StepsOf
      <4> QED BY <4>3, <4>4
    <3>6. CloneIsOnTheWay'
      <4>1. b + 1 \in Nat /\ b + 1 >= 1
        OBVIOUS
      <4>2. AllAt(net, expected + StepsOf(s, b + 1, 1))
        BY <3>2, <3>5
      <4> QED BY <1>1, <1>4, <3>3, <3>4, <4>1, <4>2, OnTheWayNext
    <3> QED BY <2>1, <3>1, <3>6 DEF UpdatesAreOwed
  <2> QED BY <1>1, <2>1, <2>2 DEF UpdatesAreOwed
<1> QED BY <1>8, <1>9, <1>10, <1>11, <1>12 DEF TrainingInv

LEMMA OptimizerStepped ==
  ASSUME TrainingInv, Training!OptimizerStep PROVE TrainingInv'
<1>1. /\ run # None /\ grad # None /\ Training!Step(grad) /\ grad' = None
      /\ IF Training!Fits(net, grad) THEN run' = run /\ result' = result ELSE run' = None /\ result' = "error"
      /\ UNCHANGED <<owner, model, head, history, runs, used, expected>>
  BY DEF Training!OptimizerStep
<1>2. PICK n : n = net
  OBVIOUS
<1>3. Network(n) /\ Leads(n) /\ grad = Training!GradientsOf(n) /\ Training!Fits(n, grad)
  BY <1>1, <1>2, GradientsFit DEF TrainingInv, UpdatesAreOwed, RecordsOfTraining
<1>4. run' = run /\ result' = result
  BY <1>1, <1>2, <1>3
<1>5. Optimized' /\ net' = Training!ApplyGradients(n, grad)
  BY <1>1, <1>2, <1>3, SteppedSoundly DEF TrainingInv
<1>6. RecordsOfTraining'
  BY <1>1, <1>4 DEF TrainingInv, RecordsOfTraining
<1>7. CallIsSound'
  BY <1>1, <1>4 DEF TrainingInv, CallIsSound, Rows
<1>8. RowsAreUsed'
  BY <1>1, <1>4 DEF TrainingInv, RowsAreUsed, Rows
<1>9. UpdatesAreOwed'
  <2>1. PICK m : m = Training!ApplyGradients(n, grad)
    OBVIOUS
  <2>2. Network(m) /\ Leads(m)
    BY <1>3, <2>1, Applied, LeadsStill
  <2>3. Network(net)' /\ Network(model)' /\ Leads(net)'
    BY <1>1, <1>5, <2>1, <2>2, NetworksNext DEF TrainingInv, UpdatesAreOwed
  <2>4. CASE owner # "trainer"
    <3>1. AllAt(model, expected)'
      BY <1>1, <2>4, OwedNext DEF TrainingInv, UpdatesAreOwed
    <3>2. PICK r : /\ run = r
                /\ r \in [data : Datasets, validation : Datasets \cup {None}, epochs : Epochs, batchSize : BatchSizes,
                          objective : {"mse", "cross_entropy"}, epoch : Nat, next : Nat]
                /\ Rows = Len(r.data.rows) /\ Rows \in Nat \ {0} /\ r.epochs \in Nat \ {0} /\ r.batchSize \in Nat \ {0}
                /\ r.epoch \in 1..r.epochs + 1 /\ r.next \in 1..Rows + r.batchSize
                /\ Training!BatchesOf(Rows, r.batchSize) \in Nat
      BY <1>1, CallRunning
    <3>3. PICK b \in Nat : r.next = 1 + b * r.batchSize /\ b >= 1 /\ AllAt(n, expected + StepsOf(r, b, 1))
      BY <1>1, <1>2, <2>4, <3>2 DEF TrainingInv, UpdatesAreOwed, CloneIsOnTheWay, Pending
    <3>4. ~(r.epoch > r.epochs)
      BY <1>1, <3>2 DEF TrainingInv, CallIsSound
    <3>5. /\ expected + StepsOf(r, b, 1) \in Nat
          /\ (expected + StepsOf(r, b, 1)) + 1 = expected + StepsOf(r, b, 0)
      <4>1. PICK each \in Nat : each = Training!BatchesOf(Len(r.data.rows), r.batchSize)
        BY <3>2
      <4>2. PICK x : x = (r.epoch - 1) * each
        OBVIOUS
      <4>3. x \in Nat
        BY <3>2, <4>1, <4>2
      <4>4. StepsOf(r, b, 0) = x + b - 0 /\ StepsOf(r, b, 1) = x + b - 1
        BY <3>4, <4>1, <4>2 DEF StepsOf
      <4>5. expected \in Nat
        BY DEF TrainingInv, RecordsOfTraining
      <4> QED BY <3>3, <4>3, <4>4, <4>5
    <3>6. AllAt(m, expected + StepsOf(r, b, 0))
      BY <1>3, <2>1, <3>3, <3>5, AllUpdated
    <3>7. Pending' = 0
      BY <1>1 DEF Pending
    <3>8. CloneIsOnTheWay'
      BY <1>1, <1>4, <1>5, <2>1, <3>2, <3>3, <3>6, <3>7, OnTheWayNext
    <3> QED BY <2>3, <3>1, <3>8 DEF UpdatesAreOwed
  <2> QED BY <1>1, <2>3, <2>4 DEF UpdatesAreOwed
<1> QED BY <1>5, <1>6, <1>7, <1>8, <1>9 DEF TrainingInv

LEMMA CallerSteps ==
  ASSUME TrainingInv, Training!StepWith PROVE TrainingInv'
<1>1. PICK g : Training!Step(g) /\ result' = IF Training!Fits(net, g) THEN "ok" ELSE "error"
  BY DEF Training!StepWith
<1>2. /\ owner = "trainer" /\ run = None /\ runs < MaxRuns /\ runs' = runs + 1
      /\ UNCHANGED <<owner, model, head, run, grad, history, used, expected>>
  BY DEF Training!StepWith
<1>3. PICK n, m : n = net /\ m = Training!ApplyGradients(n, g)
  OBVIOUS
<1>4. Network(n) /\ Leads(n)
  BY <1>3 DEF TrainingInv, UpdatesAreOwed
<1>5. Optimized' /\ net' = m
  BY <1>1, <1>3, <1>4, SteppedSoundly DEF TrainingInv
<1>6. Network(m) /\ Leads(m)
  BY <1>3, <1>4, Applied, LeadsStill
<1>7. Network(net)' /\ Network(model)' /\ Leads(net)'
  BY <1>2, <1>5, <1>6, NetworksNext DEF TrainingInv, UpdatesAreOwed
<1>8. RecordsOfTraining'
  BY <1>1, <1>2, TrainingParameters DEF TrainingInv, RecordsOfTraining
<1> QED BY <1>2, <1>5, <1>7, <1>8 DEF TrainingInv, CallIsSound, RowsAreUsed, UpdatesAreOwed

LEMMA NetworkReplaced ==
  ASSUME TrainingInv, Training!ReplaceNetwork PROVE TrainingInv'
<1>1. PICK a \in Architectures : net' = Training!Fresh(a.dims) /\ head' = a.head
  BY DEF Training!ReplaceNetwork
<1>2. /\ owner = "trainer" /\ run = None /\ runs < MaxRuns /\ runs' = runs + 1 /\ result' = None
      /\ UNCHANGED <<owner, model, optimizer, run, grad, history, applied, used, expected>>
  BY DEF Training!ReplaceNetwork
<1>3. PICK n : n = Training!Fresh(a.dims)
  OBVIOUS
<1>4. Network(n) /\ AllAt(n, 0) /\ Leads(n)
  BY <1>3, FreshNetwork, EvenNetworkLeads DEF AllAt
<1>5. Network(net)' /\ Network(model)' /\ Leads(net)'
  BY <1>1, <1>2, <1>3, <1>4, NetworksNext DEF TrainingInv, UpdatesAreOwed
<1>6. RecordsOfTraining'
  BY <1>1, <1>2, TrainingParameters DEF TrainingInv, RecordsOfTraining
<1>7. Optimized'
  BY <1>2 DEF TrainingInv, Optimized
<1> QED BY <1>2, <1>5, <1>6, <1>7 DEF TrainingInv, CallIsSound, RowsAreUsed, UpdatesAreOwed

LEMMA EpochEnded ==
  ASSUME TrainingInv, Training!EndEpoch PROVE TrainingInv'
<1>1. /\ run # None /\ grad = None /\ run.next > Rows /\ run.epoch <= run.epochs
      /\ history' = [epochs |-> history.epochs + 1, validations |-> history.validations + (IF run.validation = None THEN 0 ELSE 1)]
      /\ run' = [run EXCEPT !.epoch = @ + 1, !.next = IF run.epoch < run.epochs THEN 1 ELSE @]
      /\ UNCHANGED <<owner, model, net, head, optimizer, grad, result, runs, applied, used, expected>>
  BY DEF Training!EndEpoch, Training!EpochDone, Rows
<1>2. PICK r : /\ run = r
                /\ r \in [data : Datasets, validation : Datasets \cup {None}, epochs : Epochs, batchSize : BatchSizes,
                          objective : {"mse", "cross_entropy"}, epoch : Nat, next : Nat]
                /\ Rows = Len(r.data.rows) /\ Rows \in Nat \ {0} /\ r.epochs \in Nat \ {0} /\ r.batchSize \in Nat \ {0}
                /\ r.epoch \in 1..r.epochs + 1 /\ r.next \in 1..Rows + r.batchSize
                /\ Training!BatchesOf(Rows, r.batchSize) \in Nat
  BY <1>1, CallRunning
<1>3. PICK s : s = [r EXCEPT !.epoch = @ + 1, !.next = IF r.epoch < r.epochs THEN 1 ELSE @]
  OBVIOUS
<1>4. /\ run' = s /\ s.data = r.data /\ s.validation = r.validation /\ s.epochs = r.epochs /\ s.batchSize = r.batchSize
      /\ s.epoch = r.epoch + 1 /\ s.next = (IF r.epoch < r.epochs THEN 1 ELSE r.next)
      /\ s \in [data : Datasets, validation : Datasets \cup {None}, epochs : Epochs, batchSize : BatchSizes,
                          objective : {"mse", "cross_entropy"}, epoch : Nat, next : Nat]
  <2>1. run' = s
    BY <1>1, <1>2, <1>3
  <2>2. PICK x \in Nat : x = IF r.epoch < r.epochs THEN 1 ELSE r.next
    BY <1>2
  <2>3. s = [r EXCEPT !.epoch = r.epoch + 1, !.next = x]
    BY <1>2, <1>3, <2>2
  <2>4. r.epoch + 1 \in Nat
    BY <1>2
  <2> QED BY <1>2, <2>1, <2>2, <2>3, <2>4
<1>5. Rows' = Rows
  BY <1>2, <1>4 DEF Rows
<1>6. Optimized'
  BY <1>1 DEF TrainingInv, Optimized
<1>7. RecordsOfTraining'
  <2>1. run' # None
    BY <1>4, TrainingParameters
  <2>2. history' \in [epochs : Nat, validations : Nat] /\ history'.validations <= history'.epochs
    <3>1. PICK h : h = history
      OBVIOUS
    <3>2. h \in [epochs : Nat, validations : Nat] /\ h.validations <= h.epochs
      BY <3>1 DEF TrainingInv, RecordsOfTraining
    <3> QED BY <1>1, <3>1, <3>2
  <2> QED BY <1>1, <2>1, <2>2 DEF TrainingInv, RecordsOfTraining
<1>8. CallIsSound'
  <2>1. /\ s.epoch \in 1..s.epochs + 1 /\ s.next \in 1..Rows + s.batchSize
        /\ s.epoch > s.epochs => s.next > Rows
    BY <1>1, <1>2, <1>4
  <2> QED BY <1>1, <1>4, <1>5, <2>1 DEF CallIsSound
<1>9. RowsAreUsed'
  <2>1. /\ used \in [1..Rows -> Nat] /\ \A i \in 1..Rows : used[i] = r.epoch - 1 + (IF i < r.next THEN 1 ELSE 0)
        /\ history = [epochs |-> r.epoch - 1, validations |-> IF r.validation = None THEN 0 ELSE r.epoch - 1]
    BY <1>1, <1>2 DEF TrainingInv, RowsAreUsed
  <2>2. \A i \in 1..Rows : used[i] = r.epoch
    BY <1>1, <1>2, <2>1
  <2>3. \A i \in 1..Rows : used[i] = IF s.epoch > s.epochs THEN s.epochs ELSE s.epoch - 1 + (IF i < s.next THEN 1 ELSE 0)
    BY <1>1, <1>2, <1>4, <2>2
  <2>4. history' = [epochs |-> s.epoch - 1, validations |-> IF s.validation = None THEN 0 ELSE s.epoch - 1]
    BY <1>1, <1>2, <1>4, <2>1
  <2>5. used' = used /\ Rows' = Rows /\ run' = s
    BY <1>1, <1>4, <1>5
  <2> QED BY <2>1, <2>3, <2>4, <2>5, ZenonT(60) DEF RowsAreUsed
<1>10. UpdatesAreOwed'
  <2>1. Network(net)' /\ Network(model)' /\ Leads(net)'
    BY <1>1, NetworksNext DEF TrainingInv, UpdatesAreOwed
  <2>2. CASE owner # "trainer"
    <3>1. AllAt(model, expected)'
      BY <1>1, <2>2, OwedNext DEF TrainingInv, UpdatesAreOwed
    <3>2. PICK b \in Nat : r.next = 1 + b * r.batchSize /\ AllAt(net, expected + StepsOf(r, b, 0))
      BY <1>1, <1>2, <2>2 DEF TrainingInv, UpdatesAreOwed, CloneIsOnTheWay, Pending
    <3>3. Training!BatchesOf(Rows, r.batchSize) = b
      <4>1. Rows < 1 + b * r.batchSize /\ 1 + b * r.batchSize <= Rows + r.batchSize
        BY <1>1, <1>2, <3>2
      <4> QED BY <1>2, <4>1, BatchesCounted
    <3>4. StepsOf(r, b, 0) = r.epoch * b
      <4>1. StepsOf(r, b, 0) = (r.epoch - 1) * b + b - 0
        BY <1>1, <1>2, <3>3 DEF StepsOf
      <4>2. PICK e : e = r.epoch
        OBVIOUS
      <4>3. e \in Nat
        BY <1>2, <4>2
      <4>4. (e - 1) * b + b - 0 = e * b
        BY <4>3
      <4> QED BY <4>1, <4>2, <4>4
    <3>5. Pending' = 0
      BY <1>1 DEF Pending
    <3>6. CASE r.epoch < r.epochs
      <4>1. StepsOf(s, 0, 0) = r.epoch * b
        <5>1. ~(s.epoch > s.epochs) /\ s.epoch - 1 = r.epoch
          BY <1>2, <1>4, <3>6
        <5>2. StepsOf(s, 0, 0) = r.epoch * b + 0 - 0
          BY <1>2, <1>4, <3>3, <5>1 DEF StepsOf
        <5>3. r.epoch * b \in Nat
          BY <1>2
        <5> QED BY <5>2, <5>3
      <4>2. s.next = 1 + 0 * s.batchSize
        BY <1>2, <1>4, <3>6
      <4>3. AllAt(net, expected + StepsOf(s, 0, 0))
        BY <3>2, <3>4, <4>1
      <4>4. CloneIsOnTheWay'
        BY <1>1, <1>4, <3>5, <4>2, <4>3, OnTheWayNext
      <4> QED BY <2>1, <3>1, <4>4 DEF UpdatesAreOwed
    <3>7. CASE ~(r.epoch < r.epochs)
      <4>1. StepsOf(s, b, 0) = r.epoch * b
        <5>1. s.epoch > s.epochs /\ s.epochs = r.epoch
          BY <1>1, <1>2, <1>4, <3>7
        <5> QED BY <1>2, <1>4, <3>3, <5>1 DEF StepsOf
      <4>2. s.next = 1 + b * s.batchSize
        BY <1>2, <1>4, <3>2, <3>7
      <4>3. AllAt(net, expected + StepsOf(s, b, 0))
        BY <3>2, <3>4, <4>1
      <4>4. CloneIsOnTheWay'
        BY <1>1, <1>4, <3>5, <4>2, <4>3, OnTheWayNext
      <4> QED BY <2>1, <3>1, <4>4 DEF UpdatesAreOwed
    <3> QED BY <3>6, <3>7
  <2> QED BY <1>1, <2>1, <2>2 DEF UpdatesAreOwed
<1> QED BY <1>6, <1>7, <1>8, <1>9, <1>10 DEF TrainingInv

LEMMA CallFinished ==
  ASSUME TrainingInv, Training!Finish PROVE TrainingInv'
<1>1. /\ run # None /\ grad = None /\ run.epoch > run.epochs
      /\ model' = (IF owner = "trainer" THEN model ELSE net)
      /\ expected' = expected + (IF owner = "trainer" THEN 0 ELSE run.epochs * Training!BatchesOf(Rows, run.batchSize))
      /\ result' = "ok" /\ run' = None
      /\ UNCHANGED <<owner, net, head, optimizer, grad, history, runs, applied, used>>
  BY DEF Training!Finish, Rows
<1>2. PICK r : /\ run = r
                /\ r \in [data : Datasets, validation : Datasets \cup {None}, epochs : Epochs, batchSize : BatchSizes,
                          objective : {"mse", "cross_entropy"}, epoch : Nat, next : Nat]
                /\ Rows = Len(r.data.rows) /\ Rows \in Nat \ {0} /\ r.epochs \in Nat \ {0} /\ r.batchSize \in Nat \ {0}
                /\ r.epoch \in 1..r.epochs + 1 /\ r.next \in 1..Rows + r.batchSize
                /\ Training!BatchesOf(Rows, r.batchSize) \in Nat
  BY <1>1, CallRunning
<1>3. PICK all : all = r.epochs * Training!BatchesOf(Rows, r.batchSize)
  OBVIOUS
<1>4. all \in Nat
  <2>1. PICK e, each : e = r.epochs /\ each = Training!BatchesOf(Rows, r.batchSize)
    OBVIOUS
  <2>2. e \in Nat /\ each \in Nat
    BY <1>2, <2>1
  <2>3. e * each \in Nat
    BY <2>2
  <2> QED BY <1>3, <2>1, <2>3
<1>5. expected \in Nat /\ expected' = expected + (IF owner = "trainer" THEN 0 ELSE all)
  BY <1>1, <1>2, <1>3 DEF TrainingInv, RecordsOfTraining
<1>6. Optimized'
  BY <1>1 DEF TrainingInv, Optimized
<1>7. RecordsOfTraining'
  <2>1. expected' \in Nat
    BY <1>4, <1>5
  <2> QED BY <1>1, <2>1 DEF TrainingInv, RecordsOfTraining
<1>8. UpdatesAreOwed'
  <2>1. Network(net)' /\ Network(model)' /\ Leads(net)'
    <3>1. PICK n, m : n = net /\ m = (IF owner = "trainer" THEN model ELSE net)
      OBVIOUS
    <3>2. Network(n) /\ Leads(n) /\ Network(m)
      BY <3>1 DEF TrainingInv, UpdatesAreOwed
    <3> QED BY <1>1, <3>1, <3>2, NetworksNext
  <2>2. CASE owner # "trainer"
    <3>1. PICK b \in Nat : AllAt(net, expected + StepsOf(r, b, 0))
      BY <1>1, <1>2, <2>2 DEF TrainingInv, UpdatesAreOwed, CloneIsOnTheWay, Pending
    <3>2. StepsOf(r, b, 0) = all
      BY <1>1, <1>2, <1>3 DEF StepsOf
    <3>3. AllAt(model, expected)'
      BY <1>1, <1>5, <2>2, <3>1, <3>2, OwedNext
    <3> QED BY <1>1, <2>1, <3>3 DEF UpdatesAreOwed
  <2> QED BY <1>1, <2>1, <2>2 DEF UpdatesAreOwed
<1> QED BY <1>1, <1>6, <1>7, <1>8 DEF TrainingInv, CallIsSound, RowsAreUsed

LEMMA TrainingStarts ==
  ASSUME Training!Init PROVE TrainingInv
<1>1. /\ owner \in {"dcg", "three_way", "trainer"} /\ net = model
      /\ run = None /\ grad = None /\ result = None /\ runs = 0 /\ applied = 0 /\ expected = 0
      /\ history = [epochs |-> 0, validations |-> 0]
  BY DEF Training!Init
<1>2. PICK a \in Architectures : model = Training!Fresh(a.dims) /\ head = a.head
  BY DEF Training!Init
<1>3. PICK k \in {"sgd", "momentum", "adam"} : optimizer = Training!Optimizer(k)
  BY DEF Training!Init
<1>4. Network(model) /\ AllAt(model, 0) /\ Leads(model)
  BY <1>2, FreshNetwork, EvenNetworkLeads DEF AllAt
<1>5. Optimized
  BY <1>1, <1>3 DEF Optimized, Training!Optimizer
<1>6. RecordsOfTraining
  BY <1>1, <1>2, TrainingParameters DEF RecordsOfTraining
<1> QED BY <1>1, <1>4, <1>5, <1>6 DEF TrainingInv, CallIsSound, RowsAreUsed, UpdatesAreOwed

LEMMA TrainingRests ==
  ASSUME TrainingInv, UNCHANGED Training!vars PROVE TrainingInv'
<1>1. UNCHANGED <<owner, model, net, head, optimizer, run, grad, history, result, runs, applied, used, expected>>
  BY DEF Training!vars
<1>2. Optimized' /\ RecordsOfTraining'
  <2>1. Optimized'
    BY <1>1 DEF TrainingInv, Optimized
  <2>2. RecordsOfTraining'
    BY <1>1 DEF TrainingInv, RecordsOfTraining
  <2> QED BY <2>1, <2>2
<1>3. CallIsSound' /\ RowsAreUsed'
  BY <1>1 DEF TrainingInv, CallIsSound, RowsAreUsed, Rows
<1>4. UpdatesAreOwed'
  BY <1>1 DEF TrainingInv, UpdatesAreOwed, CloneIsOnTheWay, Pending
<1> QED BY <1>2, <1>3, <1>4 DEF TrainingInv

LEMMA TrainingGoesOn ==
  ASSUME TrainingInv, Training!Next PROVE TrainingInv'
<1>1. CASE Training!Train
  BY <1>1, TrainingCalled
<1>2. CASE Training!BatchFails
  BY <1>2, TrainingFails DEF Training!BatchFails
<1>3. CASE Training!Diverge
  BY <1>3, TrainingFails DEF Training!Diverge
<1>4. CASE Training!ComputeBatchGradients
  BY <1>4, BatchComputed
<1>5. CASE Training!OptimizerStep
  BY <1>5, OptimizerStepped
<1>6. CASE Training!EndEpoch
  BY <1>6, EpochEnded
<1>7. CASE Training!ValidationStops
  BY <1>7, TrainingFails DEF Training!ValidationStops
<1>8. CASE Training!Finish
  BY <1>8, CallFinished
<1>9. CASE Training!StepWith
  BY <1>9, CallerSteps
<1>10. CASE Training!ReplaceNetwork
  BY <1>10, NetworkReplaced
<1>11. CASE Training!Ended
  BY <1>11, TrainingRests DEF Training!Ended
<1> QED BY <1>1, <1>2, <1>3, <1>4, <1>5, <1>6, <1>7, <1>8, <1>9, <1>10, <1>11 DEF Training!Next

LEMMA TrainingInvariant == Spec => [](component = "training" => TrainingInv)
<1> DEFINE I == component = "training" => TrainingInv
<1>1. Init => I
  BY TrainingStarts DEF Init
<1>2. I /\ [Next]_vars => I'
  <2> SUFFICES ASSUME I, [Next]_vars, component' = "training" PROVE TrainingInv'
    OBVIOUS
  <2>1. CASE component = "training" /\ Training!Next
    BY <2>1, TrainingGoesOn
  <2>2. CASE UNCHANGED vars
    <3>1. component = "training" /\ UNCHANGED Training!vars
      BY <2>2 DEF vars, Training!vars
    <3> QED BY <3>1, TrainingRests
  <2> QED BY <2>1, <2>2 DEF Next
<1> QED BY <1>1, <1>2, PTL DEF Spec

(* The neurons the properties speak of are those of the layers.            *)
LEMMA NeuronsOfNetwork ==
  ASSUME NEW n, Network(n), NEW p \in Training!Neurons(n)
  PROVE  p[1] \in 1..Len(n) /\ p[2] \in 1..Len(n[p[1]]) /\ p[1] \in Nat /\ p[2] \in Nat
<1>1. PICK l \in DOMAIN n, k \in UNION {DOMAIN n[m] : m \in DOMAIN n} : p = <<l, k>>
  BY DEF Training!Neurons, Training!NeuronsOf
<1>2. p[2] \in DOMAIN n[p[1]] /\ p[1] = l
  BY <1>1 DEF Training!Neurons
<1> QED BY <1>1, <1>2, LayersAndNeurons DEF Network

LEMMA UpdatesOfNetwork ==
  ASSUME NEW n, Network(n)
  PROVE  /\ \A p \in Training!Neurons(n) : Training!UpdatesAt(n, p) \in Nat
         /\ \A u : AllAt(n, u) => \A p \in Training!Neurons(n) : Training!UpdatesAt(n, p) = u
         /\ Leads(n) => \A p, q \in Training!Neurons(n) :
              Training!Precedes(p, q) => Training!UpdatesAt(n, p) >= Training!UpdatesAt(n, q)
<1>1. \A p \in Training!Neurons(n) : Training!UpdatesAt(n, p) \in Nat
  BY NeuronsOfNetwork, LayersAndNeurons DEF Network, Neuron, Training!UpdatesAt
<1>2. \A u : AllAt(n, u) => \A p \in Training!Neurons(n) : Training!UpdatesAt(n, p) = u
  BY NeuronsOfNetwork DEF AllAt, Training!UpdatesAt
<1>3. ASSUME Leads(n), NEW p \in Training!Neurons(n), NEW q \in Training!Neurons(n), Training!Precedes(p, q)
      PROVE  Training!UpdatesAt(n, p) >= Training!UpdatesAt(n, q)
  <2>1. PICK l, k, m, j : l = p[1] /\ k = p[2] /\ m = q[1] /\ j = q[2]
    OBVIOUS
  <2>2. l \in 1..Len(n) /\ k \in 1..Len(n[l]) /\ m \in 1..Len(n) /\ j \in 1..Len(n[m])
    BY <2>1, NeuronsOfNetwork
  <2>3. l < m \/ (l = m /\ k < j)
    BY <1>3, <2>1 DEF Training!Precedes
  <2>4. n[l][k].updates >= n[m][j].updates
    BY <1>3, <2>2, <2>3 DEF Leads
  <2> QED BY <2>1, <2>4 DEF Training!UpdatesAt
<1> QED BY <1>1, <1>2, <1>3

(* Whatever the architectures, the datasets and the gradients a caller     *)
(* hands in, and wherever a call fails: models stay whole.                 *)
THEOREM ModelsStayWhole == Spec => []ModelsAreWhole
<1>1. ASSUME TrainingInv, component = "training" PROVE ModelsAreWhole
  <2>1. Network(net) /\ Network(model) /\ Leads(net) /\ (owner # "trainer" => AllAt(model, expected))
    BY <1>1 DEF TrainingInv, UpdatesAreOwed
  <2>2. Training!TypeOK
    <3>1. \A n \in {net, model} : \A p \in Training!Neurons(n) : Training!UpdatesAt(n, p) \in Nat
      BY <2>1, UpdatesOfNetwork
    <3>2. run # None => /\ run.data \in Datasets /\ run.epoch \in 1..run.epochs + 1
                        /\ run.next \in 1..Len(run.data.rows) + run.batchSize
      BY <1>1 DEF TrainingInv, CallIsSound, Rows
    <3> QED BY <1>1, <3>1, <3>2 DEF Training!TypeOK, TrainingInv, Optimized, RecordsOfTraining
  <2>3. Training!ModelIsWhole
    BY <2>1, UpdatesOfNetwork DEF Training!ModelIsWhole
  <2>4. Training!EveryRowEveryEpoch
    <3> SUFFICES ASSUME run # None
                 PROVE  /\ Training!EpochDone => \A i \in DOMAIN used : used[i] = run.epoch
                        /\ run.epoch > run.epochs =>
                             /\ \A i \in DOMAIN used : used[i] = run.epochs
                             /\ history = [epochs |-> run.epochs, validations |-> IF run.validation = None THEN 0 ELSE run.epochs]
      BY DEF Training!EveryRowEveryEpoch
    <3>1. PICK r : /\ run = r
                /\ r \in [data : Datasets, validation : Datasets \cup {None}, epochs : Epochs, batchSize : BatchSizes,
                          objective : {"mse", "cross_entropy"}, epoch : Nat, next : Nat]
                /\ Rows = Len(r.data.rows) /\ Rows \in Nat \ {0} /\ r.epochs \in Nat \ {0} /\ r.batchSize \in Nat \ {0}
                /\ r.epoch \in 1..r.epochs + 1 /\ r.next \in 1..Rows + r.batchSize
                /\ Training!BatchesOf(Rows, r.batchSize) \in Nat
      BY <1>1, CallRunning
    <3>2. /\ DOMAIN used = 1..Rows
          /\ \A i \in 1..Rows : used[i] = IF r.epoch > r.epochs THEN r.epochs ELSE r.epoch - 1 + (IF i < r.next THEN 1 ELSE 0)
          /\ history = [epochs |-> r.epoch - 1, validations |-> IF r.validation = None THEN 0 ELSE r.epoch - 1]
      BY <1>1, <3>1 DEF TrainingInv, RowsAreUsed
    <3>3. Training!EpochDone => \A i \in DOMAIN used : used[i] = run.epoch
      BY <3>1, <3>2 DEF Training!EpochDone
    <3>4. r.epoch > r.epochs => r.epoch - 1 = r.epochs
      BY <3>1
    <3> QED BY <3>1, <3>2, <3>3, <3>4
  <2>5. Training!TrainerNeverHalfUpdates
    BY <1>1, <2>1, GradientsFit DEF TrainingInv, RecordsOfTraining, Training!TrainerNeverHalfUpdates
  <2>6. Training!EarlierNeuronsLead
    BY <2>1, UpdatesOfNetwork DEF Training!EarlierNeuronsLead
  <2>7. Training!StateHoldsAppliedSteps
    BY <1>1 DEF TrainingInv, Optimized, Training!StateHoldsAppliedSteps
  <2> QED BY <2>2, <2>3, <2>4, <2>5, <2>6, <2>7 DEF ModelsAreWhole
<1>2. (component = "training" => TrainingInv) => ModelsAreWhole
  BY <1>1 DEF ModelsAreWhole
<1> QED BY <1>2, TrainingInvariant, PTL

-----------------------------------------------------------------------------
(* The protocols of the commands.                                          *)

(* Sorting.                                                                *)

LEMMA LeastNumber ==
  ASSUME NEW S, S \subseteq Nat, S # {} PROVE \E x \in S : \A y \in S : x <= y
<1> DEFINE R == OpToRel(<, Nat)
<1>1. IsWellFoundedOn(R, Nat)
  BY NatLessThanWellFounded
<1>2. \A x, y \in Nat : x < y => <<x, y>> \in R
  BY DEF OpToRel
<1> HIDE DEF R
<1>3. PICK x \in S : \A y \in S : ~(<<y, x>> \in R)
  BY <1>1, WFMin
<1>4. ASSUME NEW y \in S PROVE x <= y
  <2>1. x \in Nat /\ y \in Nat /\ ~(y < x)
    BY <1>2, <1>3
  <2> QED BY <2>1
<1> QED BY <1>4

LEMMA Induction ==
  ASSUME NEW S, 0 \in S, \A n \in Nat : n \in S => n + 1 \in S PROVE Nat \subseteq S
<1> SUFFICES ASSUME Nat \ S # {} PROVE FALSE
  OBVIOUS
<1>1. PICK n \in Nat \ S : \A m \in Nat \ S : n <= m
  BY LeastNumber
<1>2. n # 0 /\ n - 1 \in Nat /\ n - 1 < n /\ (n - 1) + 1 = n
  BY <1>1
<1>3. n - 1 \in S
  BY <1>1, <1>2
<1> QED BY <1>2, <1>3

(* Increasing, without repetition.                                         *)
IsAscending(f) == \A i, j \in DOMAIN f : i < j => f[i] < f[j]

LEMMA CanBeSorted ==
  ASSUME NEW S, S \subseteq Nat, IsFiniteSet(S)
  PROVE  \E f \in [1..Cardinality(S) -> S] : IsAscending(f)
<1> DEFINE T == {n \in Nat : \A U \in SUBSET Nat :
                   IsFiniteSet(U) /\ Cardinality(U) = n => \E f \in [1..n -> U] : IsAscending(f)}
<1>1. 0 \in T
  <2> SUFFICES ASSUME NEW U \in SUBSET Nat, IsFiniteSet(U), Cardinality(U) = 0
               PROVE  \E f \in [1..0 -> U] : IsAscending(f)
    OBVIOUS
  <2>1. [i \in 1..0 |-> 0] \in [1..0 -> U] /\ IsAscending([i \in 1..0 |-> 0])
    BY DEF IsAscending
  <2> QED BY <2>1
<1>2. ASSUME NEW n \in Nat, n \in T PROVE n + 1 \in T
  <2> SUFFICES ASSUME NEW U \in SUBSET Nat, IsFiniteSet(U), Cardinality(U) = n + 1
               PROVE  \E f \in [1..n + 1 -> U] : IsAscending(f)
    OBVIOUS
  <2>1. U # {}
    BY FS_EmptySet
  <2>2. PICK x \in U : \A y \in U : x <= y
    BY <2>1, LeastNumber
  <2>3. IsFiniteSet(U \ {x}) /\ Cardinality(U \ {x}) = n
    <3>1. IsFiniteSet(U \ {x}) /\ Cardinality(U \ {x}) = Cardinality(U) - 1
      BY <2>2, FS_RemoveElement
    <3> QED BY <3>1
  <2>4. PICK g \in [1..n -> U \ {x}] : IsAscending(g)
    BY <1>2, <2>3
  <2> DEFINE f == [i \in 1..n + 1 |-> IF i = 1 THEN x ELSE g[i - 1]]
  <2>5. f \in [1..n + 1 -> U]
    BY <2>2, <2>4
  <2>6. IsAscending(f)
    <3> SUFFICES ASSUME NEW i \in 1..n + 1, NEW j \in 1..n + 1, i < j PROVE f[i] < f[j]
      BY DEF IsAscending
    <3>1. f[j] = g[j - 1] /\ j - 1 \in 1..n /\ g[j - 1] \in U \ {x}
      BY <2>4
    <3>2. CASE i = 1
      <4>1. f[i] = x /\ x <= g[j - 1] /\ x # g[j - 1] /\ x \in Nat /\ g[j - 1] \in Nat
        BY <2>2, <3>1, <3>2
      <4> QED BY <3>1, <4>1
    <3>3. CASE i # 1
      <4>1. f[i] = g[i - 1] /\ i - 1 \in 1..n /\ i - 1 < j - 1
        BY <3>3
      <4> QED BY <2>4, <3>1, <4>1 DEF IsAscending
    <3> QED BY <3>2, <3>3
  <2> QED BY <2>5, <2>6
<1>3. Cardinality(S) \in Nat
  BY FS_CardinalityType
<1>4. Nat \subseteq T
  <2> HIDE DEF T
  <2> QED BY <1>1, <1>2, Induction
<1>5. Cardinality(S) \in T
  BY <1>3, <1>4
<1> QED BY <1>5

LEMMA ProtocolsCountAsHere == \A S : Protocol!Cardinality(S) = Cardinality(S)
BY DEF Protocol!Cardinality, Cardinality

LEMMA AscendingSorts ==
  ASSUME NEW S, S \subseteq Nat, IsFiniteSet(S)
  PROVE  /\ Protocol!Ascending(S) \in [1..Cardinality(S) -> S] /\ IsAscending(Protocol!Ascending(S))
         /\ Cardinality(S) \in Nat
         /\ Protocol!Ascending(S) \in Seq(S) /\ Len(Protocol!Ascending(S)) = Cardinality(S)
<1> DEFINE a == Protocol!Ascending(S)
<1>1. a = CHOOSE f \in [1..Cardinality(S) -> S] : IsAscending(f)
  BY ProtocolsCountAsHere DEF Protocol!Ascending, IsAscending
<1>2. a \in [1..Cardinality(S) -> S] /\ IsAscending(a)
  <2> HIDE DEF a
  <2> QED BY <1>1, CanBeSorted
<1>3. Cardinality(S) \in Nat
  BY FS_CardinalityType
<1>4. a \in Seq(S)
  BY <1>2, <1>3, SeqDef
<1>5. DOMAIN a = 1..Len(a) /\ Len(a) \in Nat
  BY <1>4, LenProperties
<1>6. DOMAIN a = 1..Cardinality(S)
  BY <1>2
<1> QED BY <1>2, <1>3, <1>4, <1>5, <1>6, SameInterval

-----------------------------------------------------------------------------
(* Positions, in blocks of n.                                              *)

LEMMA OnePosition ==
  ASSUME NEW n \in Nat, NEW a \in Nat, NEW b \in Nat, NEW i \in 1..n, NEW j \in 1..n, a * n + i = b * n + j
  PROVE  a = b /\ i = j
<1>1. ~(a < b)
  <2>1. a < b => (a + 1) * n <= b * n
    OBVIOUS
  <2>2. (a + 1) * n = a * n + n /\ a * n \in Nat /\ b * n \in Nat
    OBVIOUS
  <2> QED BY <2>1, <2>2
<1>2. ~(b < a)
  <2>1. b < a => (b + 1) * n <= a * n
    OBVIOUS
  <2>2. (b + 1) * n = b * n + n /\ a * n \in Nat /\ b * n \in Nat
    OBVIOUS
  <2> QED BY <2>1, <2>2
<1>3. a = b
  BY <1>1, <1>2
<1> QED BY <1>3

LEMMA Position ==
  ASSUME NEW n \in Nat \ {0}, NEW i \in Nat \ {0}
  PROVE  /\ (i - 1) \div n \in Nat /\ ((i - 1) % n) + 1 \in 1..n
         /\ i = ((i - 1) \div n) * n + (((i - 1) % n) + 1)
<1>1. PICK x \in Nat : x = i - 1
  OBVIOUS
<1>2. x \div n \in Nat /\ x % n \in 0..n - 1 /\ x = n * (x \div n) + (x % n)
  OBVIOUS
<1>3. PICK q, r : q = x \div n /\ r = x % n
  OBVIOUS
<1>4. q * n = n * q
  BY <1>2, <1>3
<1>5. i = q * n + (r + 1)
  BY <1>1, <1>2, <1>3, <1>4
<1> QED BY <1>1, <1>2, <1>3, <1>5

LEMMA PositionIs ==
  ASSUME NEW n \in Nat \ {0}, NEW a \in Nat, NEW j \in 1..n
  PROVE  ((a * n + j) - 1) \div n = a /\ (((a * n + j) - 1) % n) + 1 = j
<1>1. PICK i \in Nat \ {0} : i = a * n + j
  <2>1. a * n \in Nat
    OBVIOUS
  <2> QED BY <2>1
<1>2. /\ (i - 1) \div n \in Nat /\ ((i - 1) % n) + 1 \in 1..n
      /\ i = ((i - 1) \div n) * n + (((i - 1) % n) + 1)
  BY Position
<1> QED BY <1>1, <1>2, OnePosition

LEMMA ProtocolsParameters ==
  /\ \A list \in SeedLists : list \in Seq(Nat) /\ Len(list) > 0
  /\ DOMAIN PolicyOrder = 1..Len(PolicyOrder) /\ Len(PolicyOrder) \in Nat
  /\ DOMAIN MutationOrder = 1..Len(MutationOrder) /\ Len(MutationOrder) \in Nat
  /\ \A c \in Corpora : IsFiniteSet(c)
BY ModelsAssumption DEF Protocol!ProtocolsAssumption, Protocol!IsFiniteSet, IsFiniteSet

-----------------------------------------------------------------------------
(* The protocols of a corpus: normal first, paired last.                   *)

LEMMA InOrderListed ==
  ASSUME NEW names, NEW order, DOMAIN order = 1..Len(order), Len(order) \in Nat
  PROVE  \E m \in Nat : DOMAIN Protocol!InOrder(names, order) = 1..m
<1> DEFINE S == {i \in DOMAIN order : order[i] \in names}
           places == Protocol!Ascending(S)
<1>1. S \subseteq Nat /\ IsFiniteSet(S)
  <2>1. IsFiniteSet(1..Len(order))
    BY FS_Interval
  <2> QED BY <2>1, FS_Subset
<1>2. DOMAIN places = 1..Cardinality(S) /\ Cardinality(S) \in Nat
  <2> HIDE DEF S
  <2> QED BY <1>1, AscendingSorts
<1>3. Protocol!InOrder(names, order) = [k \in DOMAIN places |-> order[places[k]]]
  BY DEF Protocol!InOrder
<1>4. DOMAIN Protocol!InOrder(names, order) = DOMAIN places
  <2> HIDE DEF places
  <2> QED BY <1>3
<1> QED BY <1>2, <1>4

(* The first protocol and the last.                                        *)
Normal == Protocol!Protocol("normal", None, None, None)
PairedChallenge == Protocol!Protocol("paired", None, None, None)

LEMMA ProtocolsListed ==
  ASSUME NEW c
  PROVE  LET all == Protocol!ProtocolsOf(c) IN
         /\ Len(all) \in Nat /\ Len(all) >= 2 /\ DOMAIN all = 1..Len(all)
         /\ all \in Seq({all[i] : i \in 1..Len(all)})
         /\ all[1] = Normal /\ all[Len(all)] = PairedChallenge
         /\ \A i \in 2..Len(all) - 1 : all[i].kind \in {"policy", "mutation"}
<1>1. PICK p, m : p = Protocol!PoliciesOf(c) /\ m = Protocol!MutationsOf(c)
  OBVIOUS
<1>2. PICK np \in Nat : DOMAIN p = 1..np
  BY <1>1, ProtocolsParameters, InOrderListed DEF Protocol!PoliciesOf
<1>3. PICK nm \in Nat : DOMAIN m = 1..nm
  BY <1>1, ProtocolsParameters, InOrderListed DEF Protocol!MutationsOf
<1> DEFINE P == [i \in 1..np |-> Protocol!Protocol("policy", p[i], None, None)]
           M == [i \in 1..nm |-> Protocol!Protocol("mutation", None, m[i], None)]
           U == {Normal, PairedChallenge} \cup {P[i] : i \in 1..np} \cup {M[i] : i \in 1..nm}
           all == Protocol!ProtocolsOf(c)
<1>4. all = ((<<Normal>> \o P) \o M) \o <<PairedChallenge>>
  BY <1>1, <1>2, <1>3 DEF Protocol!ProtocolsOf, Normal, PairedChallenge
<1>5. \A i \in 1..np : P[i].kind = "policy"
  BY DEF Protocol!Protocol
<1>6. \A i \in 1..nm : M[i].kind = "mutation"
  BY DEF Protocol!Protocol
<1>7. P \in [1..np -> U] /\ M \in [1..nm -> U] /\ Normal \in U /\ PairedChallenge \in U
  <2>1. \A i \in 1..np : P[i] \in U
    OBVIOUS
  <2>2. \A i \in 1..nm : M[i] \in U
    OBVIOUS
  <2> QED BY <2>1, <2>2
<1> HIDE DEF P, M, U, all
<1>8. P \in Seq(U) /\ Len(P) = np /\ M \in Seq(U) /\ Len(M) = nm
  BY <1>7, SeqDef, LenProperties, SameInterval
<1>9. <<Normal>> \in Seq(U) /\ <<PairedChallenge>> \in Seq(U) /\ Len(<<Normal>>) = 1 /\ Len(<<PairedChallenge>>) = 1
      /\ <<Normal>>[1] = Normal /\ <<PairedChallenge>>[1] = PairedChallenge
  BY <1>7
<1>10. PICK x : x = <<Normal>> \o P
  OBVIOUS
<1>11. x \in Seq(U) /\ Len(x) = 1 + np /\ \A i \in 1..1 + np : x[i] = IF i <= 1 THEN <<Normal>>[i] ELSE P[i - 1]
  BY <1>8, <1>9, <1>10, ConcatProperties
<1>12. PICK y : y = x \o M
  OBVIOUS
<1>13. y \in Seq(U) /\ Len(y) = 1 + np + nm /\ \A i \in 1..1 + np + nm : y[i] = IF i <= 1 + np THEN x[i] ELSE M[i - (1 + np)]
  <2>1. y \in Seq(U) /\ Len(y) = Len(x) + Len(M) /\ \A i \in 1..Len(x) + Len(M) : y[i] = IF i <= Len(x) THEN x[i] ELSE M[i - Len(x)]
    BY <1>8, <1>11, <1>12, ConcatProperties
  <2> QED BY <1>8, <1>11, <2>1
<1>14. all = y \o <<PairedChallenge>>
  BY <1>4, <1>10, <1>12
<1>15. /\ all \in Seq(U) /\ Len(all) = 1 + np + nm + 1
       /\ \A i \in 1..1 + np + nm + 1 : all[i] = IF i <= 1 + np + nm THEN y[i] ELSE <<PairedChallenge>>[i - (1 + np + nm)]
  <2> DEFINE z == <<PairedChallenge>>
  <2>1. z \in Seq(U) /\ Len(z) = 1
    BY <1>9
  <2> HIDE DEF z
  <2>2. all = y \o z
    BY <1>14 DEF z
  <2>3. all \in Seq(U) /\ Len(all) = Len(y) + Len(z) /\ \A i \in 1..Len(y) + Len(z) : all[i] = IF i <= Len(y) THEN y[i] ELSE z[i - Len(y)]
    BY <1>13, <2>1, <2>2, ConcatProperties
  <2>4. \A i \in 1..1 + np + nm + 1 : all[i] = IF i <= 1 + np + nm THEN y[i] ELSE z[i - (1 + np + nm)]
    BY <1>13, <2>1, <2>3
  <2>5. all \in Seq(U) /\ Len(all) = 1 + np + nm + 1
    BY <1>13, <2>1, <2>3
  <2> QED BY <2>4, <2>5 DEF z
<1>16. /\ Len(all) \in Nat /\ Len(all) >= 2 /\ DOMAIN all = 1..Len(all)
       /\ all \in Seq({all[i] : i \in 1..Len(all)})
  <2>1. Len(all) \in Nat /\ Len(all) >= 2 /\ DOMAIN all = 1..Len(all)
    BY <1>15, LenProperties
  <2>2. all \in Seq({all[i] : i \in 1..Len(all)})
    <3> DEFINE V == {all[i] : i \in 1..Len(all)}
    <3>1. \A i \in 1..Len(all) : all[i] \in V
      OBVIOUS
    <3> HIDE DEF V
    <3>2. all \in [1..Len(all) -> V]
      BY <1>15, <2>1, <3>1
    <3> QED BY <2>1, <3>2, SeqDef DEF V
  <2> QED BY <2>1, <2>2
<1>17. all[1] = Normal
  <2>1. 1 \in 1..1 + np /\ 1 \in 1..1 + np + nm /\ 1 \in 1..1 + np + nm + 1 /\ 1 <= 1 + np /\ 1 <= 1 + np + nm /\ 1 <= 1
    OBVIOUS
  <2>2. x[1] = Normal
    BY <1>9, <1>11, <2>1
  <2>3. y[1] = x[1]
    BY <1>13, <2>1
  <2>4. all[1] = y[1]
    BY <1>15, <2>1
  <2> QED BY <2>2, <2>3, <2>4
<1>18. all[Len(all)] = PairedChallenge
  <2>1. (1 + np + nm + 1) - (1 + np + nm) = 1 /\ 1 + np + nm + 1 \in 1..1 + np + nm + 1 /\ ~(1 + np + nm + 1 <= 1 + np + nm)
    OBVIOUS
  <2> QED BY <1>9, <1>15, <2>1
<1>19. ASSUME NEW i \in 2..Len(all) - 1 PROVE all[i].kind \in {"policy", "mutation"}
  <2>1. i \in 2..1 + np + nm /\ all[i] = y[i]
    BY <1>15
  <2>2. CASE i <= 1 + np
    <3>1. y[i] = x[i] /\ x[i] = P[i - 1] /\ i - 1 \in 1..np
      BY <1>11, <1>13, <2>1, <2>2
    <3> QED BY <1>5, <2>1, <3>1
  <2>3. CASE ~(i <= 1 + np)
    <3>1. y[i] = M[i - (1 + np)] /\ i - (1 + np) \in 1..nm
      BY <1>13, <2>1, <2>3
    <3> QED BY <1>6, <2>1, <3>1
  <2> QED BY <2>2, <2>3
<1> QED BY <1>16, <1>17, <1>18, <1>19 DEF all

-----------------------------------------------------------------------------
(* A fit and what is scored with it.                                       *)

(* A fit of records that were split by their families.                     *)
FitOf(s, fit) == \E f \in [Protocol!Families(s) -> Protocol!Parts] : fit = Protocol!Fit(s, f)

LEMMA FitIsApart ==
  ASSUME NEW s, NEW fit, FitOf(s, fit)
  PROVE  /\ fit.fitted \subseteq s /\ fit.thresholds \subseteq s /\ fit.scored \subseteq s /\ fit.baseline \subseteq s
         /\ Protocol!Families(fit.fitted) \cap Protocol!Families(fit.thresholds) = {}
         /\ Protocol!Families(fit.fitted) \cap Protocol!Families(fit.scored) = {}
         /\ Protocol!Families(fit.thresholds) \cap Protocol!Families(fit.scored) = {}
         /\ fit.baseline = fit.fitted
         /\ fit.fitted \cap fit.scored = {} /\ fit.thresholds \cap fit.scored = {}
<1>1. PICK f \in [Protocol!Families(s) -> Protocol!Parts] : fit = Protocol!Fit(s, f)
  BY DEF FitOf
<1>2. /\ fit.fitted = {r \in s : f[r.family] = "train"} /\ fit.thresholds = {r \in s : f[r.family] = "validation"}
      /\ fit.scored = {r \in s : f[r.family] = "test"} /\ fit.baseline = fit.fitted
  BY <1>1 DEF Protocol!Fit, Protocol!FittedOn, Protocol!ThresholdsOn, Protocol!ScoredOn, Protocol!BaselineFrom, Protocol!PartOf
<1>3. \A t : Protocol!Families(t) = {r.family : r \in t}
  BY DEF Protocol!Families
<1> QED BY <1>2, <1>3

(* What a fit has seen, and what is scored with it, of the corpus c.       *)
Seen(fit) == fit.fitted \cup fit.thresholds \cup fit.baseline
OnBothSides(fit, scored) == Protocol!Families(Seen(fit)) \cap Protocol!Families(scored)
InBothRoles(c) == Protocol!Families(Protocol!Standard(c)) \cap Protocol!Families(Protocol!Challenge(c))

SidesApart(c, fit, scored) ==
  /\ Seen(fit) \cap scored = {}
  /\ Protocol!Families(fit.fitted) \cap Protocol!Families(fit.thresholds) = {}
  /\ OnBothSides(fit, scored) \subseteq InBothRoles(c)

(* What a result promises.                                                 *)
LineIsSound(c, l) ==
  /\ l.scored \subseteq c
  /\ l.fit # None =>
       /\ SidesApart(c, l.fit, l.scored)
       /\ l.protocol.kind = "normal" => OnBothSides(l.fit, l.scored) = {}
       /\ l.protocol.kind \in {"policy", "mutation", "variant"} =>
            /\ \A r \in l.fit.fitted \cup l.fit.thresholds : ~Protocol!HeldOut(r, l.protocol)
            /\ \A r \in l.scored : Protocol!HeldOut(r, l.protocol)
       /\ l.protocol.kind = "paired" =>
            \A r \in l.scored : \E q \in l.scored : q.family = r.family /\ q.mutation = r.mutation /\ q.policy # r.policy

(* The test part of the normal protocol.                                   *)
LEMMA NormalLine ==
  ASSUME NEW c, NEW fit, FitOf(Protocol!Standard(c), fit), NEW l, l.protocol.kind = "normal", l.fit = fit, l.scored = fit.scored
  PROVE  LineIsSound(c, l)
<1>1. Protocol!Standard(c) \subseteq c
  BY DEF Protocol!Standard
<1>2. \A u, v : Protocol!Families(u \cup v) = Protocol!Families(u) \cup Protocol!Families(v)
  BY DEF Protocol!Families
<1>3. Seen(fit) = fit.fitted \cup fit.thresholds /\ OnBothSides(fit, fit.scored) = {}
  BY <1>2, FitIsApart DEF Seen, OnBothSides
<1>4. SidesApart(c, fit, fit.scored)
  BY <1>3, FitIsApart DEF SidesApart
<1> QED BY <1>1, <1>3, <1>4, FitIsApart DEF LineIsSound

(* A fit of standard records and a challenge: a record has one role.       *)
LEMMA ChallengeApart ==
  ASSUME NEW c \in Corpora, NEW s, s \subseteq Protocol!Standard(c), NEW fit, FitOf(s, fit),
         NEW t, t \subseteq Protocol!Challenge(c)
  PROVE  SidesApart(c, fit, t)
<1>1. \A u, v : u \subseteq v => Protocol!Families(u) \subseteq Protocol!Families(v)
  BY DEF Protocol!Families
<1>2. Seen(fit) \subseteq Protocol!Standard(c)
  BY FitIsApart DEF Seen
<1>3. OnBothSides(fit, t) \subseteq InBothRoles(c)
  BY <1>1, <1>2 DEF OnBothSides, InBothRoles
<1>4. Seen(fit) \cap t = {}
  BY <1>2 DEF Protocol!Standard, Protocol!Challenge
<1> QED BY <1>3, <1>4, FitIsApart DEF SidesApart

LEMMA HeldOutLine ==
  ASSUME NEW c \in Corpora, NEW p, p.kind \in {"policy", "mutation", "variant"},
         NEW fit, FitOf(Protocol!TrainingSet(c, p), fit),
         NEW l, l.protocol = p, l.fit = fit, l.scored = Protocol!ChallengeSet(c, p)
  PROVE  LineIsSound(c, l)
<1>1. /\ Protocol!TrainingSet(c, p) \subseteq Protocol!Standard(c)
      /\ \A r \in Protocol!TrainingSet(c, p) : ~Protocol!HeldOut(r, p)
  BY DEF Protocol!TrainingSet
<1>2. l.scored = {r \in Protocol!Challenge(c) : Protocol!HeldOut(r, p)}
  BY DEF Protocol!ChallengeSet
<1>3. l.scored \subseteq Protocol!Challenge(c) /\ Protocol!Challenge(c) \subseteq c /\ \A r \in l.scored : Protocol!HeldOut(r, p)
  BY <1>2 DEF Protocol!Challenge
<1>4. \A r \in l.fit.fitted \cup l.fit.thresholds : ~Protocol!HeldOut(r, l.protocol)
  BY <1>1, FitIsApart
<1>5. SidesApart(c, fit, l.scored)
  <2>1. PICK s, t : s = Protocol!TrainingSet(c, p) /\ t = l.scored
    OBVIOUS
  <2>2. s \subseteq Protocol!Standard(c) /\ FitOf(s, fit) /\ t \subseteq Protocol!Challenge(c)
    BY <1>1, <1>3, <2>1
  <2>3. SidesApart(c, fit, t)
    BY <2>2, ChallengeApart
  <2> QED BY <2>1, <2>3
<1> QED BY <1>3, <1>4, <1>5 DEF LineIsSound

LEMMA PairedLine ==
  ASSUME NEW c \in Corpora, NEW fit, FitOf(Protocol!Standard(c), fit) \/ fit = None,
         NEW p, p.kind = "paired", NEW l, l.protocol = p, l.fit = fit, l.scored = Protocol!ChallengeSet(c, p)
  PROVE  LineIsSound(c, l)
<1>1. l.protocol.kind = "paired" /\ p.kind = "paired"
  OBVIOUS
<1>2. l.scored = Protocol!Paired(c)
  BY <1>1 DEF Protocol!ChallengeSet
<1>3. l.scored \subseteq Protocol!Challenge(c) /\ l.scored \subseteq c
  BY <1>2 DEF Protocol!Paired, Protocol!Challenge
<1>4. \A r \in l.scored : \E q \in l.scored : q.family = r.family /\ q.mutation = r.mutation /\ q.policy # r.policy
  BY <1>2 DEF Protocol!Paired
<1>5. CASE fit = None
  BY <1>3, <1>5 DEF LineIsSound
<1>6. CASE FitOf(Protocol!Standard(c), fit)
  <2>1. SidesApart(c, fit, l.scored)
    BY <1>3, <1>6, ChallengeApart
  <2> QED BY <1>1, <1>3, <1>4, <2>1 DEF LineIsSound
<1> QED BY <1>5, <1>6

(* The invariant of the commands.                                          *)

(* Every seed is one of those that were listed.                            *)
SeedsOf(list, sorted) == \A i \in 1..Len(sorted) : \E x \in DOMAIN list : sorted[i] = list[x]

(* k seeds were done of those sorted.                                      *)
SeedsAre(sorted, k) ==
  /\ sorted \in Seq(Nat) /\ IsAscending(sorted) /\ \E list \in SeedLists : SeedsOf(list, sorted)
  /\ k \in Nat /\ k < Len(sorted)
  /\ seeds \in Seq(Nat) /\ Len(seeds) = Len(sorted) - k
  /\ \A i \in 1..Len(seeds) : seeds[i] = sorted[k + i]

(* A block of results for each seed, one for each protocol in turn; the    *)
(* paired challenge has the fit of the first.                              *)
LinesFollow(all, sorted, k) ==
  /\ todo \in Seq({all[i] : i \in 1..Len(all)}) /\ Len(todo) <= Len(all)
  /\ \A i \in 1..Len(todo) : todo[i] = all[Len(all) - Len(todo) + i]
  /\ Len(lines) = k * Len(all) + (Len(all) - Len(todo))
  /\ \A a \in Nat : \A j \in 1..Len(all) : a * Len(all) + j <= Len(lines) =>
       /\ lines[a * Len(all) + j].protocol = all[j] /\ lines[a * Len(all) + j].seed = sorted[a + 1]
       /\ j = Len(all) => lines[a * Len(all) + j].fit = lines[a * Len(all) + 1].fit
  /\ Len(todo) < Len(all) => lines[k * Len(all) + 1].fit = normal
  /\ status = "done" => todo = <<>> /\ Len(seeds) = 1

(* What the command was asked, and the normal fit it keeps.                *)
CommandIsSound ==
  /\ command \in {"train", "train_three_way", "evaluate_mutation", "evaluate_protocols"}
  /\ corpus \in Corpora /\ status \in {"running", "done", "failed"}
  /\ asked.kind \in {"mutation", "variant"}
  /\ normal = None \/ FitOf(Protocol!Standard(corpus), normal)

(* Every result is of a fit that saw nothing of what is scored.            *)
LinesAreSound ==
  /\ Listed(lines)
  /\ \A l \in {lines[i] : i \in DOMAIN lines} :
       LineIsSound(corpus, l) /\ (command # "evaluate_protocols" => l.protocol.kind # "paired")

(* What every state of a command satisfies: some order of its seeds and    *)
(* of its protocols explains the results so far.                           *)
ProtocolInv ==
  /\ CommandIsSound /\ LinesAreSound
  /\ \E all, sorted, k : /\ all = Protocol!ProtocolsOf(corpus) /\ SeedsAre(sorted, k)
                         /\ command = "evaluate_protocols" => LinesFollow(all, sorted, k)

LEMMA LineStaysSound ==
  ASSUME corpus' = corpus PROVE \A l : LineIsSound(corpus, l) => LineIsSound(corpus, l)'
<1> SUFFICES ASSUME NEW l, LineIsSound(corpus, l) PROVE LineIsSound(corpus, l)'
  OBVIOUS
<1>1. (l.scored \subseteq corpus)'
  BY DEF LineIsSound
<1> QED BY <1>1 DEF LineIsSound

LEMMA ProtocolRests ==
  ASSUME ProtocolInv, UNCHANGED <<command, corpus, seeds, todo, normal, lines, asked>>, status' = status \/ status' = "failed"
  PROVE  ProtocolInv'
<1>1. CommandIsSound'
  BY DEF ProtocolInv, CommandIsSound, FitOf
<1>2. LinesAreSound'
  BY LineStaysSound DEF ProtocolInv, LinesAreSound, Listed
<1>3. PICK all, sorted, k : /\ all = Protocol!ProtocolsOf(corpus) /\ SeedsAre(sorted, k)
                            /\ command = "evaluate_protocols" => LinesFollow(all, sorted, k)
  BY DEF ProtocolInv
<1>4. SeedsAre(sorted, k)'
  BY <1>3 DEF SeedsAre
<1>5. (all = Protocol!ProtocolsOf(corpus))'
  BY <1>3
<1>6. ASSUME command = "evaluate_protocols" PROVE LinesFollow(all, sorted, k)'
  <2>1. LinesFollow(all, sorted, k)
    BY <1>3, <1>6
  <2> QED BY <2>1 DEF LinesFollow
<1> QED BY <1>1, <1>2, <1>4, <1>5, <1>6 DEF ProtocolInv

(* One more sound result.                                                  *)
LEMMA LineAdded ==
  ASSUME LinesAreSound, NEW line, lines' = Append(lines, line), corpus' = corpus, command' = command,
         LineIsSound(corpus, line), command # "evaluate_protocols" => line.protocol.kind # "paired"
  PROVE  /\ LinesAreSound' /\ Len(lines) \in Nat /\ Len(lines') = Len(lines) + 1
         /\ \A i \in 1..Len(lines) : lines'[i] = lines[i]
         /\ lines'[Len(lines) + 1] = line
<1>1. Listed(lines)
  BY DEF LinesAreSound
<1>2. /\ Listed(Append(lines, line)) /\ Len(lines') = Len(lines) + 1
      /\ DOMAIN lines' = 1..(Len(lines) + 1)
      /\ \A i \in 1..Len(lines) : lines'[i] = lines[i]
      /\ lines'[Len(lines) + 1] = line
  BY <1>1, AppendListed
<1>3. Len(lines) \in Nat /\ DOMAIN lines = 1..Len(lines)
  BY <1>1, ListedTypes
<1>4. ASSUME NEW l \in {lines'[i] : i \in DOMAIN lines'}
      PROVE  LineIsSound(corpus, l)' /\ (command # "evaluate_protocols" => l.protocol.kind # "paired")
  <2>1. l = line \/ l \in {lines[i] : i \in DOMAIN lines}
    BY <1>2, <1>3
  <2>2. LineIsSound(corpus, l) /\ (command # "evaluate_protocols" => l.protocol.kind # "paired")
    BY <2>1 DEF LinesAreSound
  <2> QED BY <2>2, LineStaysSound
<1>5. Listed(lines)'
  BY <1>2 DEF Listed
<1> QED BY <1>2, <1>3, <1>4, <1>5 DEF LinesAreSound

LEMMA Reported ==
  ASSUME ProtocolInv, NEW line, NEW fit, Protocol!InProtocols, todo # <<>>, Protocol!Report(line, fit),
         line.protocol = Head(todo), line.seed = Head(seeds), LineIsSound(corpus, line),
         fit = None \/ FitOf(Protocol!Standard(corpus), fit),
         IF Head(todo).kind = "normal" THEN line.fit = fit ELSE fit = normal,
         Head(todo).kind = "paired" => line.fit = normal
  PROVE  ProtocolInv'
<1>1. /\ lines' = Append(lines, line) /\ normal' = fit /\ todo' = Tail(todo)
      /\ UNCHANGED <<command, corpus, seeds, asked, status>>
  BY DEF Protocol!Report
<1>2. command = "evaluate_protocols" /\ status = "running"
  BY DEF Protocol!InProtocols, Protocol!Running
<1>3. CommandIsSound'
  BY <1>1 DEF ProtocolInv, CommandIsSound, FitOf
<1>4. /\ LinesAreSound' /\ Len(lines) \in Nat /\ Len(lines') = Len(lines) + 1
      /\ \A i \in 1..Len(lines) : lines'[i] = lines[i]
      /\ lines'[Len(lines) + 1] = line
  BY <1>1, <1>2, LineAdded DEF ProtocolInv
<1>5. PICK all, sorted, k : all = Protocol!ProtocolsOf(corpus) /\ SeedsAre(sorted, k) /\ LinesFollow(all, sorted, k)
  BY <1>2 DEF ProtocolInv
<1>6. SeedsAre(sorted, k)'
  BY <1>1, <1>5 DEF SeedsAre
<1>7. (all = Protocol!ProtocolsOf(corpus))'
  BY <1>1, <1>5
<1>8. PICK n : n = Len(all)
  OBVIOUS
<1>9. /\ n \in Nat /\ n >= 2 /\ all[1].kind = "normal" /\ all[n].kind = "paired"
      /\ \A i \in 2..n - 1 : all[i].kind \in {"policy", "mutation"}
  <2>1. /\ Len(all) \in Nat /\ Len(all) >= 2 /\ all[1] = Normal /\ all[Len(all)] = PairedChallenge
        /\ \A i \in 2..Len(all) - 1 : all[i].kind \in {"policy", "mutation"}
    BY <1>5, ProtocolsListed
  <2>2. Normal.kind = "normal" /\ PairedChallenge.kind = "paired"
    BY DEF Normal, PairedChallenge, Protocol!Protocol
  <2> QED BY <1>8, <2>1, <2>2
<1>10. PICK t : t = Len(todo)
  OBVIOUS
<1>11. /\ todo \in Seq({all[i] : i \in 1..n}) /\ t <= n
       /\ \A i \in 1..t : todo[i] = all[n - t + i]
       /\ Len(lines) = k * n + (n - t)
       /\ \A a \in Nat : \A j \in 1..n : a * n + j <= Len(lines) =>
            /\ lines[a * n + j].protocol = all[j] /\ lines[a * n + j].seed = sorted[a + 1]
            /\ j = n => lines[a * n + j].fit = lines[a * n + 1].fit
       /\ t < n => lines[k * n + 1].fit = normal
  BY <1>5, <1>8, <1>10 DEF LinesFollow
<1>12. t \in Nat /\ t >= 1 /\ Head(todo) = todo[1]
  BY <1>10, <1>11, LenProperties, EmptySeq
<1>13. /\ todo' \in Seq({all[i] : i \in 1..n}) /\ Len(todo') = t - 1
       /\ \A i \in 1..t - 1 : todo'[i] = todo[i + 1]
  BY <1>1, <1>10, <1>11, HeadTailProperties
<1>14. PICK p \in 1..n : p = n - t + 1
  BY <1>9, <1>11, <1>12
<1>15. Head(todo) = all[p]
  BY <1>11, <1>12, <1>14
<1>16. k \in Nat /\ k * n \in Nat /\ Len(lines') = k * n + p /\ lines'[k * n + p] = line
  <2>1. k \in Nat
    BY <1>5 DEF SeedsAre
  <2>2. k * n \in Nat
    BY <1>9, <2>1
  <2> QED BY <1>4, <1>9, <1>11, <1>12, <1>14, <2>1, <2>2
<1>17. Head(seeds) = sorted[k + 1]
  <2>1. seeds \in Seq(Nat) /\ Len(seeds) \in Nat /\ Len(seeds) >= 1 /\ \A i \in 1..Len(seeds) : seeds[i] = sorted[k + i]
    BY <1>5, LenProperties DEF SeedsAre
  <2> QED BY <2>1, EmptySeq
<1>18. (p = 1 <=> all[p].kind = "normal") /\ (p = n <=> all[p].kind = "paired")
  <2>1. p = 1 \/ p = n \/ p \in 2..n - 1
    BY <1>9
  <2>2. 1 # n /\ (p \in 2..n - 1 => p # 1 /\ p # n)
    BY <1>9
  <2> QED BY <1>9, <2>1, <2>2
<1>19. \A i \in 1..t - 1 : todo'[i] = all[n - (t - 1) + i]
  <2> SUFFICES ASSUME NEW i \in 1..t - 1 PROVE todo'[i] = all[n - (t - 1) + i]
    OBVIOUS
  <2>1. i + 1 \in 1..t /\ n - t + (i + 1) = n - (t - 1) + i
    BY <1>9, <1>12
  <2> QED BY <1>11, <1>13, <2>1
<1>20. p > 1 => k * n + 1 \in 1..Len(lines) /\ t < n /\ lines'[k * n + 1] = lines[k * n + 1] /\ lines[k * n + 1].fit = normal
  <2>1. p > 1 => k * n + 1 \in 1..Len(lines) /\ t < n
    BY <1>4, <1>9, <1>11, <1>12, <1>14, <1>16
  <2> QED BY <1>4, <1>11, <2>1
<1>21. ASSUME NEW a \in Nat, NEW j \in 1..n, a * n + j <= Len(lines')
       PROVE  /\ lines'[a * n + j].protocol = all[j] /\ lines'[a * n + j].seed = sorted[a + 1]
              /\ j = n => lines'[a * n + j].fit = lines'[a * n + 1].fit
  <2>1. a * n \in Nat
    BY <1>9
  <2>2. CASE a * n + j <= Len(lines)
    <3>1. a * n + j \in 1..Len(lines) /\ a * n + 1 \in 1..Len(lines)
      BY <1>4, <1>9, <2>1, <2>2
    <3>2. lines'[a * n + j] = lines[a * n + j] /\ lines'[a * n + 1] = lines[a * n + 1]
      BY <1>4, <3>1
    <3> QED BY <1>11, <2>2, <3>2
  <2>3. CASE ~(a * n + j <= Len(lines))
    <3>1. a * n + j = k * n + p
      BY <1>4, <1>9, <1>16, <1>21, <2>1, <2>3
    <3>2. a = k /\ j = p
      BY <1>9, <1>16, <3>1, OnePosition
    <3>3. lines'[a * n + j] = line
      BY <1>16, <3>2
    <3>4. line.protocol = all[j] /\ line.seed = sorted[a + 1]
      BY <1>15, <1>17, <3>2
    <3>5. j = n => line.fit = lines'[a * n + 1].fit
      <4> SUFFICES ASSUME j = n PROVE line.fit = lines'[a * n + 1].fit
        OBVIOUS
      <4>1. p > 1 /\ Head(todo).kind = "paired"
        BY <1>9, <1>15, <1>18, <3>2
      <4> QED BY <1>20, <3>2, <4>1
    <3> QED BY <3>3, <3>4, <3>5
  <2> QED BY <2>2, <2>3
<1>22. t - 1 < n /\ lines'[k * n + 1].fit = normal'
  <2>1. CASE p = 1
    <3>1. Head(todo).kind = "normal" /\ lines'[k * n + 1] = line
      BY <1>15, <1>16, <1>18, <2>1
    <3> QED BY <1>1, <1>9, <1>11, <1>12, <3>1
  <2>2. CASE p # 1
    <3>1. p > 1 /\ Head(todo).kind # "normal"
      BY <1>9, <1>15, <1>18, <2>2
    <3> QED BY <1>1, <1>9, <1>11, <1>12, <1>20, <3>1
  <2> QED BY <2>1, <2>2
<1>23. Len(lines') = k * n + (n - (t - 1)) /\ t - 1 <= n
  <2>1. PICK m \in Nat : m = k * n
    BY <1>16
  <2>2. m + p = m + (n - (t - 1)) /\ t - 1 <= n
    BY <1>9, <1>11, <1>12, <1>14
  <2> QED BY <1>16, <2>1, <2>2
<1>24. LinesFollow(all, sorted, k)'
  <2>1. (todo \in Seq({all[i] : i \in 1..Len(all)}))'
    BY <1>8, <1>13
  <2>2. status' # "done"
    BY <1>1, <1>2
  <2> QED BY <1>8, <1>13, <1>19, <1>21, <1>22, <1>23, <2>1, <2>2 DEF LinesFollow
<1> QED BY <1>1, <1>3, <1>4, <1>6, <1>7, <1>24 DEF ProtocolInv

(* Whatever the pipeline fits was split by families.                       *)
LEMMA PipelineFits ==
  ASSUME ProtocolInv, NEW s, s \subseteq Protocol!Standard(corpus), NEW fit \in Protocol!Pipeline(s)
  PROVE  FitOf(s, fit)
<1>1. PICK c : c = corpus
  OBVIOUS
<1>2. c \in Corpora
  BY <1>1 DEF ProtocolInv, CommandIsSound
<1> DEFINE fs == Protocol!Families(s)
<1>3. fs \subseteq {r.family : r \in {x \in c : x.role = "standard"}}
  BY <1>1 DEF Protocol!Families, Protocol!Standard
<1>4. Cardinality(fs) \in Nat
  <2>1. IsFiniteSet(s)
    BY <1>1, <1>2, ProtocolsParameters, FS_Subset DEF Protocol!Standard
  <2>2. [r \in s |-> r.family] \in Surjection(s, fs)
    BY DEF Surjection, Protocol!Families
  <2> HIDE DEF fs
  <2>3. IsFiniteSet(fs)
    BY <2>1, <2>2, FS_Surjection
  <2> QED BY <2>3, FS_CardinalityType
<1>5. ~(Cardinality(fs) < 3) /\ fit = Protocol!Fit(s, SplitOf(fs, Head(seeds)))
  BY ProtocolsCountAsHere DEF Protocol!Pipeline
<1>6. PICK list, x : list \in SeedLists /\ x \in DOMAIN list /\ Head(seeds) = list[x]
  <2>1. PICK sorted, k : SeedsAre(sorted, k)
    BY DEF ProtocolInv
  <2>2. PICK list \in SeedLists : SeedsOf(list, sorted)
    BY <2>1 DEF SeedsAre
  <2>3. /\ Len(seeds) \in Nat /\ Len(seeds) >= 1 /\ seeds \in Seq(Nat)
        /\ \A i \in 1..Len(seeds) : seeds[i] = sorted[k + i]
        /\ k \in Nat /\ k < Len(sorted) /\ Len(sorted) \in Nat
    BY <2>1, LenProperties DEF SeedsAre
  <2>4. Head(seeds) = sorted[k + 1] /\ k + 1 \in 1..Len(sorted)
    BY <2>3, EmptySeq
  <2> QED BY <2>2, <2>4 DEF SeedsOf
<1>7. SplitOf(fs, list[x]) \in [fs -> Protocol!Parts]
  <2>1. \A d \in Corpora, li \in SeedLists : \A u \in SUBSET {r.family : r \in {y \in d : y.role = "standard"}} : \A i \in DOMAIN li :
          Cardinality(u) >= 3 => SplitOf(u, li[i]) \in [u -> Protocol!Parts]
    BY ModelsAssumption, ProtocolsCountAsHere DEF Protocol!SplitFillsEveryPart
  <2> HIDE DEF fs
  <2>2. Cardinality(fs) >= 3
    BY <1>4, <1>5
  <2> QED BY <1>2, <1>3, <1>6, <2>1, <2>2
<1> QED BY <1>5, <1>6, <1>7 DEF FitOf

LEMMA OneResult ==
  ASSUME ProtocolInv, NEW line, lines' = <<line>>, command # "evaluate_protocols", line.protocol.kind # "paired",
         LineIsSound(corpus, line), status' = "done", UNCHANGED <<command, corpus, seeds, todo, normal, asked>>
  PROVE  ProtocolInv'
<1>1. CommandIsSound'
  BY DEF ProtocolInv, CommandIsSound, FitOf
<1>2. LinesAreSound'
  <2>1. <<line>> \in Seq({line}) /\ DOMAIN <<line>> = {1} /\ <<line>>[1] = line
    OBVIOUS
  <2>2. {<<line>>[i] : i \in DOMAIN <<line>>} = {line}
    BY <2>1
  <2>3. Listed(<<line>>)
    BY <2>1, <2>2 DEF Listed
  <2>4. Listed(lines)'
    BY <2>3 DEF Listed
  <2> QED BY <2>2, <2>4, LineStaysSound DEF LinesAreSound
<1>3. PICK all, sorted, k : all = Protocol!ProtocolsOf(corpus) /\ SeedsAre(sorted, k)
  BY DEF ProtocolInv
<1>4. SeedsAre(sorted, k)' /\ (all = Protocol!ProtocolsOf(corpus))'
  BY <1>3 DEF SeedsAre
<1> QED BY <1>1, <1>2, <1>4 DEF ProtocolInv

LEMMA TrainedOnce ==
  ASSUME ProtocolInv, Protocol!TrainOnce PROVE ProtocolInv'
<1>1. PICK fit \in Protocol!Pipeline(Protocol!Standard(corpus)) :
        lines' = <<Protocol!Line(Protocol!Protocol("normal", None, None, None), fit, fit.scored)>>
  BY DEF Protocol!TrainOnce
<1>2. PICK line : line = Protocol!Line(Protocol!Protocol("normal", None, None, None), fit, fit.scored)
  OBVIOUS
<1>3. line.protocol = Normal /\ line.fit = fit /\ line.scored = fit.scored
  BY <1>2 DEF Protocol!Line, Normal
<1>4. FitOf(Protocol!Standard(corpus), fit)
  BY PipelineFits
<1>5. line.protocol.kind = "normal"
  BY <1>3 DEF Normal, Protocol!Protocol
<1>6. LineIsSound(corpus, line)
  BY <1>3, <1>4, <1>5, NormalLine
<1>7. command # "evaluate_protocols" /\ status' = "done" /\ UNCHANGED <<command, corpus, seeds, todo, normal, asked>>
  BY DEF Protocol!TrainOnce
<1> QED BY <1>1, <1>2, <1>5, <1>6, <1>7, OneResult

LEMMA MutationEvaluated ==
  ASSUME ProtocolInv, Protocol!EvaluateMutation PROVE ProtocolInv'
<1>1. PICK fit \in Protocol!Pipeline(Protocol!TrainingSet(corpus, asked)) :
        lines' = <<Protocol!Line(asked, fit, Protocol!ChallengeSet(corpus, asked))>>
  BY DEF Protocol!EvaluateMutation
<1>2. PICK line : line = Protocol!Line(asked, fit, Protocol!ChallengeSet(corpus, asked))
  OBVIOUS
<1>3. line.protocol = asked /\ line.fit = fit /\ line.scored = Protocol!ChallengeSet(corpus, asked)
  BY <1>2 DEF Protocol!Line
<1>4. FitOf(Protocol!TrainingSet(corpus, asked), fit)
  <2>1. Protocol!TrainingSet(corpus, asked) \subseteq Protocol!Standard(corpus)
    BY DEF Protocol!TrainingSet
  <2> QED BY <2>1, PipelineFits
<1>5. asked.kind \in {"mutation", "variant"} /\ corpus \in Corpora
  BY DEF ProtocolInv, CommandIsSound
<1>6. LineIsSound(corpus, line)
  BY <1>3, <1>4, <1>5, HeldOutLine
<1>7. command # "evaluate_protocols" /\ status' = "done" /\ UNCHANGED <<command, corpus, seeds, todo, normal, asked>>
  BY DEF Protocol!EvaluateMutation
<1> QED BY <1>1, <1>2, <1>3, <1>5, <1>6, <1>7, OneResult

LEMMA NormalRun ==
  ASSUME ProtocolInv, Protocol!RunNormal PROVE ProtocolInv'
<1>1. PICK fit \in Protocol!Pipeline(Protocol!Standard(corpus)) :
        Protocol!Report(Protocol!Line(Protocol!Current, fit, fit.scored), fit)
  BY DEF Protocol!RunNormal
<1>2. PICK line : line = Protocol!Line(Protocol!Current, fit, fit.scored)
  OBVIOUS
<1>3. line.protocol = Head(todo) /\ line.seed = Head(seeds) /\ line.fit = fit /\ line.scored = fit.scored
  BY <1>2 DEF Protocol!Line, Protocol!Current
<1>4. Protocol!InProtocols /\ todo # <<>> /\ Head(todo).kind = "normal"
  BY DEF Protocol!RunNormal, Protocol!Current
<1>5. FitOf(Protocol!Standard(corpus), fit)
  BY PipelineFits
<1>6. LineIsSound(corpus, line)
  BY <1>3, <1>4, <1>5, NormalLine
<1> QED BY <1>1, <1>2, <1>3, <1>4, <1>5, <1>6, Reported

LEMMA HeldOutRun ==
  ASSUME ProtocolInv, Protocol!RunHeldOut PROVE ProtocolInv'
<1>1. PICK fit \in Protocol!Pipeline(Protocol!TrainingSet(corpus, Protocol!Current)) :
        Protocol!Report(Protocol!Line(Protocol!Current, fit, Protocol!ChallengeSet(corpus, Protocol!Current)), normal)
  BY DEF Protocol!RunHeldOut
<1>2. PICK line : line = Protocol!Line(Protocol!Current, fit, Protocol!ChallengeSet(corpus, Protocol!Current))
  OBVIOUS
<1>3. PICK p : p = Head(todo)
  OBVIOUS
<1>4. line.protocol = p /\ line.seed = Head(seeds) /\ line.fit = fit /\ line.scored = Protocol!ChallengeSet(corpus, p)
  BY <1>2, <1>3 DEF Protocol!Line, Protocol!Current
<1>5. Protocol!InProtocols /\ todo # <<>> /\ p.kind \in {"policy", "mutation"}
  BY <1>3 DEF Protocol!RunHeldOut, Protocol!Current
<1>6. FitOf(Protocol!TrainingSet(corpus, p), fit)
  <2>1. Protocol!TrainingSet(corpus, p) \subseteq Protocol!Standard(corpus)
    BY DEF Protocol!TrainingSet
  <2> QED BY <1>1, <1>3, <2>1, PipelineFits DEF Protocol!Current
<1>7. corpus \in Corpora /\ (normal = None \/ FitOf(Protocol!Standard(corpus), normal))
  BY DEF ProtocolInv, CommandIsSound
<1>8. LineIsSound(corpus, line)
  BY <1>4, <1>5, <1>6, <1>7, HeldOutLine
<1> QED BY <1>1, <1>2, <1>3, <1>4, <1>5, <1>7, <1>8, Reported

LEMMA OneLabelSkipped ==
  ASSUME ProtocolInv, Protocol!SkipOneLabel PROVE ProtocolInv'
<1>1. Protocol!Report(Protocol!Unscored(Protocol!Current), normal)
  BY DEF Protocol!SkipOneLabel
<1>2. PICK line : line = Protocol!Unscored(Protocol!Current)
  OBVIOUS
<1>3. line.protocol = Head(todo) /\ line.seed = Head(seeds) /\ line.fit = None /\ line.scored = {}
  BY <1>2 DEF Protocol!Unscored, Protocol!Line, Protocol!Current
<1>4. Protocol!InProtocols /\ todo # <<>> /\ Head(todo).kind = "mutation"
  BY DEF Protocol!SkipOneLabel, Protocol!Current
<1>5. LineIsSound(corpus, line)
  BY <1>3 DEF LineIsSound
<1>6. normal = None \/ FitOf(Protocol!Standard(corpus), normal)
  BY DEF ProtocolInv, CommandIsSound
<1> QED BY <1>1, <1>2, <1>3, <1>4, <1>5, <1>6, Reported

LEMMA PairedRun ==
  ASSUME ProtocolInv, Protocol!RunPaired PROVE ProtocolInv'
<1>1. Protocol!Report(Protocol!Line(Protocol!Current, normal, Protocol!ChallengeSet(corpus, Protocol!Current)), normal)
  BY DEF Protocol!RunPaired
<1>2. PICK line : line = Protocol!Line(Protocol!Current, normal, Protocol!ChallengeSet(corpus, Protocol!Current))
  OBVIOUS
<1>3. PICK p : p = Head(todo)
  OBVIOUS
<1>4. line.protocol = p /\ line.seed = Head(seeds) /\ line.fit = normal /\ line.scored = Protocol!ChallengeSet(corpus, p)
  BY <1>2, <1>3 DEF Protocol!Line, Protocol!Current
<1>5. Protocol!InProtocols /\ todo # <<>> /\ p.kind = "paired"
  BY <1>3 DEF Protocol!RunPaired, Protocol!Current
<1>6. corpus \in Corpora /\ (normal = None \/ FitOf(Protocol!Standard(corpus), normal))
  BY DEF ProtocolInv, CommandIsSound
<1>7. LineIsSound(corpus, line)
  BY <1>4, <1>5, <1>6, PairedLine
<1> QED BY <1>1, <1>2, <1>3, <1>4, <1>5, <1>6, <1>7, Reported

LEMMA SeedTaken ==
  ASSUME ProtocolInv, Protocol!NextSeed PROVE ProtocolInv'
<1>1. /\ command = "evaluate_protocols" /\ status = "running" /\ todo = <<>> /\ Len(seeds) > 1
      /\ seeds' = Tail(seeds) /\ todo' = Protocol!ProtocolsOf(corpus) /\ normal' = None
      /\ UNCHANGED <<command, corpus, lines, asked, status>>
  BY DEF Protocol!NextSeed, Protocol!InProtocols, Protocol!Running
<1>2. CommandIsSound'
  BY <1>1 DEF ProtocolInv, CommandIsSound
<1>3. LinesAreSound'
  BY <1>1, LineStaysSound DEF ProtocolInv, LinesAreSound, Listed
<1>4. PICK all, sorted, k : all = Protocol!ProtocolsOf(corpus) /\ SeedsAre(sorted, k) /\ LinesFollow(all, sorted, k)
  BY <1>1 DEF ProtocolInv
<1>5. k \in Nat /\ k + 1 \in Nat /\ Len(sorted) \in Nat /\ Len(seeds) = Len(sorted) - k /\ k + 1 < Len(sorted)
  BY <1>1, <1>4, LenProperties DEF SeedsAre
<1>6. SeedsAre(sorted, k + 1)'
  <2>1. seeds \in Seq(Nat) /\ seeds # <<>> /\ \A i \in 1..Len(seeds) : seeds[i] = sorted[k + i]
    BY <1>1, <1>4, EmptySeq DEF SeedsAre
  <2>2. seeds' \in Seq(Nat) /\ Len(seeds') = Len(seeds) - 1 /\ \A i \in 1..Len(seeds') : seeds'[i] = seeds[i + 1]
    BY <1>1, <2>1, HeadTailProperties
  <2>3. \A i \in 1..Len(seeds') : seeds'[i] = sorted[(k + 1) + i]
    <3> SUFFICES ASSUME NEW i \in 1..Len(seeds') PROVE seeds'[i] = sorted[(k + 1) + i]
      OBVIOUS
    <3>1. Len(seeds) \in Nat /\ i \in Nat /\ i + 1 \in 1..Len(seeds) /\ k + (i + 1) = (k + 1) + i
      BY <1>5, <2>2
    <3>2. seeds'[i] = seeds[i + 1] /\ seeds[i + 1] = sorted[k + (i + 1)]
      BY <2>1, <2>2, <3>1
    <3> QED BY <3>1, <3>2
  <2> QED BY <1>4, <1>5, <2>2, <2>3 DEF SeedsAre
<1>7. (all = Protocol!ProtocolsOf(corpus))' /\ todo' = all
  BY <1>1, <1>4
<1>8. PICK n : n = Len(all)
  OBVIOUS
<1>9. n \in Nat /\ n >= 2 /\ DOMAIN all = 1..n
  BY <1>4, <1>8, ProtocolsListed
<1>10. LinesFollow(all, sorted, k + 1)'
  <2>1. all \in Seq({all[i] : i \in 1..n})
    BY <1>4, <1>8, ProtocolsListed
  <2>2. Len(lines) = k * n + (n - 0) /\ Len(<<>>) = 0
    BY <1>1, <1>4, <1>8, EmptySeq DEF LinesFollow
  <2>3. Len(lines) = (k + 1) * n + (n - n)
    BY <1>5, <1>9, <2>2
  <2>4. \A i \in 1..n : todo'[i] = all[n - n + i]
    BY <1>7, <1>9
  <2>5. \A a \in Nat : \A j \in 1..n : a * n + j <= Len(lines) =>
            /\ lines[a * n + j].protocol = all[j] /\ lines[a * n + j].seed = sorted[a + 1]
            /\ j = n => lines[a * n + j].fit = lines[a * n + 1].fit
    BY <1>4, <1>8 DEF LinesFollow
  <2> QED BY <1>1, <1>7, <1>8, <1>9, <2>1, <2>3, <2>4, <2>5 DEF LinesFollow
<1> QED BY <1>1, <1>2, <1>3, <1>6, <1>7, <1>10 DEF ProtocolInv

LEMMA SeedsFinished ==
  ASSUME ProtocolInv, Protocol!AllSeedsDone PROVE ProtocolInv'
<1>1. /\ command = "evaluate_protocols" /\ todo = <<>> /\ Len(seeds) = 1 /\ status' = "done"
      /\ UNCHANGED <<command, corpus, seeds, todo, normal, lines, asked>>
  BY DEF Protocol!AllSeedsDone, Protocol!InProtocols
<1>2. CommandIsSound'
  BY <1>1 DEF ProtocolInv, CommandIsSound, FitOf
<1>3. LinesAreSound'
  BY <1>1, LineStaysSound DEF ProtocolInv, LinesAreSound, Listed
<1>4. PICK all, sorted, k : all = Protocol!ProtocolsOf(corpus) /\ SeedsAre(sorted, k) /\ LinesFollow(all, sorted, k)
  BY <1>1 DEF ProtocolInv
<1>5. SeedsAre(sorted, k)' /\ (all = Protocol!ProtocolsOf(corpus))'
  BY <1>1, <1>4 DEF SeedsAre
<1>6. LinesFollow(all, sorted, k)'
  BY <1>1, <1>4 DEF LinesFollow
<1> QED BY <1>2, <1>3, <1>5, <1>6 DEF ProtocolInv

LEMMA ProtocolsStart ==
  ASSUME Protocol!Init PROVE ProtocolInv
<1>1. /\ command \in {"train", "train_three_way", "evaluate_mutation", "evaluate_protocols"}
      /\ corpus \in Corpora
      /\ todo = (IF command = "evaluate_protocols" THEN Protocol!ProtocolsOf(corpus) ELSE <<>>)
      /\ normal = None /\ lines = <<>> /\ status = "running"
  BY DEF Protocol!Init
<1>2. asked.kind \in {"mutation", "variant"}
  BY DEF Protocol!Init, Protocol!Protocol
<1>3. PICK list \in SeedLists : seeds = Protocol!SortedSeeds(list)
  BY DEF Protocol!Init
<1>4. list \in Seq(Nat) /\ Len(list) \in Nat /\ Len(list) > 0 /\ DOMAIN list = 1..Len(list)
  BY ProtocolsParameters, LenProperties
<1> DEFINE S == {list[x] : x \in DOMAIN list}
<1>5. S = Protocol!ToSet(list)
  BY DEF Protocol!ToSet
<1>6. S \subseteq Nat /\ S # {}
  <2>1. \A x \in 1..Len(list) : list[x] \in Nat
    BY <1>4, ElementOfSeq
  <2>2. 1 \in DOMAIN list
    BY <1>4
  <2> QED BY <1>4, <2>1, <2>2
<1>7. IsFiniteSet(S)
  <2>1. list \in Surjection(1..Len(list), S)
    BY <1>4 DEF Surjection
  <2>2. IsFiniteSet(1..Len(list))
    BY <1>4, FS_Interval
  <2> HIDE DEF S
  <2> QED BY <2>1, <2>2, FS_Surjection
<1>8. seeds = Protocol!Ascending(S)
  BY <1>3, <1>5 DEF Protocol!SortedSeeds
<1>9. PICK sorted : sorted = seeds
  OBVIOUS
<1>10. sorted \in Seq(S) /\ IsAscending(sorted) /\ Len(sorted) \in Nat /\ Len(sorted) > 0
  <2> HIDE DEF S
  <2>1. Cardinality(S) # 0
    BY <1>6, <1>7, FS_EmptySet
  <2>2. /\ Protocol!Ascending(S) \in Seq(S) /\ IsAscending(Protocol!Ascending(S))
        /\ Len(Protocol!Ascending(S)) = Cardinality(S) /\ Cardinality(S) \in Nat
    BY <1>6, <1>7, AscendingSorts
  <2> QED BY <1>8, <1>9, <2>1, <2>2
<1>11. SeedsOf(list, sorted)
  <2>1. \A i \in 1..Len(sorted) : sorted[i] \in S
    <3> HIDE DEF S
    <3> QED BY <1>10, ElementOfSeq
  <2> QED BY <2>1 DEF SeedsOf
<1>12. SeedsAre(sorted, 0)
  <2>1. sorted \in Seq(Nat)
    <3> HIDE DEF S
    <3>1. \A i \in 1..Len(sorted) : sorted[i] \in Nat
      BY <1>6, <1>10, ElementOfSeq
    <3>2. sorted \in [1..Len(sorted) -> Nat]
      BY <1>10, <3>1, LenProperties
    <3> QED BY <1>10, <3>2, SeqDef
  <2> QED BY <1>9, <1>10, <1>11, <2>1 DEF SeedsAre
<1>13. PICK all : all = Protocol!ProtocolsOf(corpus)
  OBVIOUS
<1>14. PICK n : n = Len(all)
  OBVIOUS
<1>15. n \in Nat /\ n >= 2 /\ all \in Seq({all[i] : i \in 1..n})
  BY <1>13, <1>14, ProtocolsListed
<1>16. ASSUME command = "evaluate_protocols" PROVE LinesFollow(all, sorted, 0)
  <2>1. todo = all /\ Len(lines) = 0
    BY <1>1, <1>13, <1>16, EmptySeq
  <2>2. \A a \in Nat : \A j \in 1..n : ~(a * n + j <= 0)
    BY <1>15
  <2>3. Len(lines) = 0 * n + (n - n) /\ \A i \in 1..n : todo[i] = all[n - n + i]
    BY <1>15, <2>1
  <2>4. /\ todo \in Seq({all[i] : i \in 1..Len(all)}) /\ Len(todo) = Len(all) /\ ~(Len(todo) < Len(all))
        /\ \A i \in 1..Len(todo) : todo[i] = all[Len(all) - Len(todo) + i]
        /\ Len(lines) = 0 * Len(all) + (Len(all) - Len(todo))
    BY <1>14, <1>15, <2>1, <2>3
  <2>5. \A a \in Nat : \A j \in 1..Len(all) : ~(a * Len(all) + j <= Len(lines))
    BY <1>14, <2>1, <2>2
  <2>6. Len(todo) <= Len(all)
    BY <1>14, <1>15, <2>1
  <2> QED BY <1>1, <2>4, <2>5, <2>6 DEF LinesFollow
<1>17. CommandIsSound
  BY <1>1, <1>2 DEF CommandIsSound
<1>18. LinesAreSound
  <2>1. DOMAIN lines = {} /\ Listed(<<>>)
    BY <1>1, EmptySeq DEF Listed
  <2> QED BY <1>1, <2>1 DEF LinesAreSound
<1> QED BY <1>12, <1>13, <1>16, <1>17, <1>18 DEF ProtocolInv

LEMMA CommandFails ==
  ASSUME ProtocolInv, Protocol!Fail PROVE ProtocolInv'
BY ProtocolRests DEF Protocol!Fail

LEMMA ProtocolsGoOn ==
  ASSUME ProtocolInv, Protocol!Next PROVE ProtocolInv'
<1>1. CASE Protocol!TrainOnce
  BY <1>1, TrainedOnce
<1>2. CASE Protocol!NotReady
  BY <1>2, CommandFails DEF Protocol!NotReady
<1>3. CASE Protocol!EvaluateMutation
  BY <1>3, MutationEvaluated
<1>4. CASE Protocol!RefuseMutation
  BY <1>4, CommandFails DEF Protocol!RefuseMutation
<1>5. CASE Protocol!NextSeed
  BY <1>5, SeedTaken
<1>6. CASE Protocol!AllSeedsDone
  BY <1>6, SeedsFinished
<1>7. CASE Protocol!RunNormal
  BY <1>7, NormalRun
<1>8. CASE Protocol!RunHeldOut
  BY <1>8, HeldOutRun
<1>9. CASE Protocol!SkipOneLabel
  BY <1>9, OneLabelSkipped
<1>10. CASE Protocol!RunPaired
  BY <1>10, PairedRun
<1>11. CASE Protocol!ProtocolFails
  BY <1>11, CommandFails DEF Protocol!ProtocolFails
<1>12. CASE Protocol!Stop
  BY <1>12, CommandFails DEF Protocol!Stop
<1>13. CASE Protocol!Ended
  BY <1>13, ProtocolRests DEF Protocol!Ended, Protocol!vars
<1> QED BY <1>1, <1>2, <1>3, <1>4, <1>5, <1>6, <1>7, <1>8, <1>9, <1>10, <1>11, <1>12, <1>13 DEF Protocol!Next, Protocol!Step

LEMMA ProtocolInvariant == Spec => [](component = "protocols" => ProtocolInv)
<1> DEFINE I == component = "protocols" => ProtocolInv
<1>1. Init => I
  BY ProtocolsStart DEF Init
<1>2. I /\ [Next]_vars => I'
  <2> SUFFICES ASSUME I, [Next]_vars, component' = "protocols" PROVE ProtocolInv'
    OBVIOUS
  <2>1. CASE component = "protocols" /\ Protocol!Next
    BY <2>1, ProtocolsGoOn
  <2>2. CASE UNCHANGED vars
    BY <2>2, ProtocolRests DEF vars
  <2> QED BY <2>1, <2>2 DEF Next
<1> QED BY <1>1, <1>2, PTL DEF Spec

(* Rows of length n are laid out one after another.                        *)
LEMMA RowsInOrder ==
  ASSUME NEW n \in Nat \ {0}, NEW a \in Nat, NEW b \in Nat, NEW p \in 1..n, NEW q \in 1..n, a * n + p <= b * n + q
  PROVE  a <= b
<1>1. PICK x \in Nat, y \in Nat : x = a * n /\ y = b * n
  OBVIOUS
<1>2. (b + 1) * n = y + n
  BY <1>1
<1>3. ASSUME b + 1 <= a PROVE FALSE
  <2>1. PICK d \in Nat : a = (b + 1) + d
    <3>1. a - (b + 1) \in Nat /\ a = (b + 1) + (a - (b + 1))
      BY <1>3
    <3> QED BY <3>1
  <2>2. PICK z \in Nat : z = d * n
    OBVIOUS
  <2>3. x = (y + n) + z
    BY <1>1, <1>2, <2>1, <2>2
  <2> QED BY <1>1, <2>3
<1> QED BY <1>3

(* Seeds take turns, and so do the protocols of each.                      *)
LEMMA TurnsAreTaken ==
  ASSUME ProtocolInv PROVE Protocol!SeedsTakeTurns
<1> SUFFICES ASSUME command = "evaluate_protocols"
             PROVE  LET all == Protocol!ProtocolsOf(corpus) IN
      /\ \A i \in DOMAIN lines :
           /\ lines[i].protocol = all[((i - 1) % Len(all)) + 1]
           /\ \A j \in 1 .. i : IF (j - 1) \div Len(all) = (i - 1) \div Len(all) THEN lines[j].seed = lines[i].seed ELSE lines[j].seed < lines[i].seed
      /\ status = "done" => Len(lines) % Len(all) = 0 /\ lines # <<>> /\ Protocol!Last(lines).seed = Protocol!Last(seeds)
  BY DEF Protocol!SeedsTakeTurns
<1>1. PICK all, sorted, k : all = Protocol!ProtocolsOf(corpus) /\ SeedsAre(sorted, k) /\ LinesFollow(all, sorted, k)
  BY DEF ProtocolInv
<1>2. PICK n : n = Len(all)
  OBVIOUS
<1>3. n \in Nat \ {0} /\ n >= 2
  <2>1. Len(all) \in Nat /\ Len(all) >= 2
    BY <1>1, ProtocolsListed
  <2> QED BY <1>2, <2>1
<1>4. Len(lines) \in Nat /\ DOMAIN lines = 1..Len(lines)
  BY ListedTypes DEF ProtocolInv, LinesAreSound
<1>5. /\ sorted \in Seq(Nat) /\ Len(sorted) \in Nat /\ IsAscending(sorted) /\ DOMAIN sorted = 1..Len(sorted)
      /\ k \in Nat /\ k < Len(sorted)
      /\ seeds \in Seq(Nat) /\ Len(seeds) = Len(sorted) - k /\ \A i \in 1..Len(seeds) : seeds[i] = sorted[k + i]
  BY <1>1, LenProperties DEF SeedsAre
<1>6. PICK t \in Nat : t = Len(todo) /\ t <= n /\ Len(lines) = k * n + (n - t)
  BY <1>1, <1>2, LenProperties DEF LinesFollow
<1>7. \A a \in Nat : \A j \in 1..n : a * n + j <= Len(lines) =>
            lines[a * n + j].protocol = all[j] /\ lines[a * n + j].seed = sorted[a + 1]
  BY <1>1, <1>2 DEF LinesFollow
<1>8. ASSUME NEW i \in 1..Len(lines)
      PROVE  /\ lines[i].protocol = all[((i - 1) % n) + 1]
             /\ (i - 1) \div n \in Nat /\ (i - 1) \div n <= k /\ lines[i].seed = sorted[((i - 1) \div n) + 1]
  <2>1. i \in Nat \ {0}
    BY <1>4
  <2>2. PICK a, j : a = (i - 1) \div n /\ j = ((i - 1) % n) + 1
    OBVIOUS
  <2>3. a \in Nat /\ j \in 1..n /\ i = a * n + j
    BY <1>3, <2>1, <2>2, Position
  <2>4. a <= k
    <3>1. PICK y \in Nat : y = k * n
      BY <1>3, <1>5
    <3>2. PICK x \in Nat : x = a * n
      BY <1>3, <2>3
    <3>3. x + j <= y + n
      BY <1>3, <1>4, <1>6, <2>3, <3>1, <3>2
    <3>4. n \in 1..n
      BY <1>3
    <3> QED BY <1>3, <1>5, <2>3, <3>1, <3>2, <3>3, <3>4, RowsInOrder
  <2> QED BY <1>7, <2>2, <2>3, <2>4
<1>9. ASSUME NEW i \in 1..Len(lines), NEW j \in 1..i
      PROVE  IF (j - 1) \div n = (i - 1) \div n THEN lines[j].seed = lines[i].seed ELSE lines[j].seed < lines[i].seed
  <2>1. j \in 1..Len(lines) /\ i \in Nat \ {0} /\ j \in Nat \ {0} /\ j <= i
    BY <1>4
  <2>2. PICK a, b, p, q : a = (j - 1) \div n /\ b = (i - 1) \div n /\ p = ((j - 1) % n) + 1 /\ q = ((i - 1) % n) + 1
    OBVIOUS
  <2>3. a \in Nat /\ b \in Nat /\ b <= k /\ lines[j].seed = sorted[a + 1] /\ lines[i].seed = sorted[b + 1]
    BY <1>8, <2>1, <2>2
  <2>4. a <= b
    <3>1. p \in 1..n /\ q \in 1..n /\ j = a * n + p /\ i = b * n + q
      BY <1>3, <2>1, <2>2, Position
    <3> QED BY <1>3, <2>1, <2>3, <3>1, RowsInOrder
  <2>5. a # b => a + 1 \in DOMAIN sorted /\ b + 1 \in DOMAIN sorted /\ a + 1 < b + 1
    BY <1>5, <2>3, <2>4
  <2>6. a # b => sorted[a + 1] < sorted[b + 1]
    BY <1>5, <2>5 DEF IsAscending
  <2> QED BY <2>2, <2>3, <2>6
<1>10. ASSUME status = "done"
       PROVE  Len(lines) % n = 0 /\ lines # <<>> /\ Protocol!Last(lines).seed = Protocol!Last(seeds)
  <2>1. todo = <<>> /\ Len(seeds) = 1
    BY <1>1, <1>10 DEF LinesFollow
  <2>2. t = 0
    BY <1>6, <2>1, EmptySeq
  <2>3. Len(lines) = k * n + n /\ n \in 1..n
    BY <1>3, <1>5, <1>6, <2>2
  <2>4. Len(lines) % n = 0
    <3>1. PICK m \in Nat : m = k + 1
      BY <1>5
    <3>2. Len(lines) = m * n
      BY <1>3, <1>5, <2>3, <3>1
    <3>3. (m * n) % n = 0
      <4>1. PICK x \in Nat : x = m * n
        BY <1>3
      <4>2. x \div n \in Nat /\ x % n \in 0..n - 1 /\ x = n * (x \div n) + (x % n)
        BY <1>3
      <4>3. PICK q, r : q = x \div n /\ r = x % n
        OBVIOUS
      <4>4. CASE r = 0
        BY <4>1, <4>3, <4>4
      <4>5. CASE r # 0
        <5>1. r \in 1..n /\ n \in 1..n /\ q \in Nat
          BY <1>3, <4>2, <4>3, <4>5
        <5>2. m \in Nat /\ q * n = n * q /\ (q + 1) * n = q * n + n
          BY <1>3, <5>1
        <5>3. m * n = q * n + r
          BY <4>1, <4>2, <4>3, <5>2
        <5>4. ~(m <= q)
          <6>1. m <= q => m * n <= q * n
            BY <1>3, <5>1
          <6>2. q * n \in Nat
            BY <1>3, <5>1
          <6> QED BY <1>3, <5>1, <5>3, <6>1, <6>2
        <5>5. ~(q + 1 <= m)
          <6>1. q + 1 <= m => (q + 1) * n <= m * n
            BY <1>3, <5>1
          <6>2. q * n \in Nat /\ r < n
            BY <1>3, <4>2, <4>3, <5>1
          <6> QED BY <1>3, <5>1, <5>2, <5>3, <6>1, <6>2
        <5> QED BY <5>1, <5>4, <5>5
      <4> QED BY <4>4, <4>5
    <3> QED BY <3>2, <3>3
  <2>5. Len(lines) >= 1 /\ Len(lines) \in 1..Len(lines)
    <3>1. k * n \in Nat
      BY <1>3, <1>5
    <3> QED BY <1>3, <1>4, <2>3, <3>1
  <2>6. lines # <<>>
    BY <2>5, EmptySeq
  <2>7. Protocol!Last(lines) = lines[k * n + n] /\ lines[k * n + n].seed = sorted[k + 1]
    BY <1>4, <1>5, <1>7, <2>3 DEF Protocol!Last
  <2>8. Protocol!Last(seeds) = sorted[k + 1]
    <3>1. 1 \in 1..Len(seeds) /\ Len(seeds) = 1
      BY <2>1
    <3>2. seeds[1] = sorted[k + 1]
      BY <1>5, <3>1
    <3> QED BY <3>1, <3>2 DEF Protocol!Last
  <2> QED BY <2>4, <2>6, <2>7, <2>8
<1> QED BY <1>1, <1>2, <1>4, <1>8, <1>9, <1>10

(* Whatever the seeds, the splits and the corpora, those with families in  *)
(* both roles among them, and wherever a command stops.                    *)
THEOREM ProtocolsAreHeldOut == Spec => []ProtocolsHoldOut
<1>1. ASSUME ProtocolInv
      PROVE  /\ Protocol!TypeOK /\ Protocol!PartitionsStayApart /\ Protocol!HeldOutStaysOut
             /\ Protocol!SeedsTakeTurns /\ Protocol!PairedIsCounterfactual
  <2>1. /\ Len(lines) \in Nat /\ DOMAIN lines = 1..Len(lines)
        /\ \A i \in DOMAIN lines : LineIsSound(corpus, lines[i]) /\ (command # "evaluate_protocols" => lines[i].protocol.kind # "paired")
    BY <1>1, ListedTypes DEF ProtocolInv, LinesAreSound
  <2>2. Protocol!TypeOK
    <3>1. PICK sorted, k : SeedsAre(sorted, k)
      BY <1>1 DEF ProtocolInv
    <3>2. /\ Len(seeds) \in Nat /\ sorted \in Seq(Nat) /\ DOMAIN sorted = 1..Len(sorted) /\ Len(sorted) \in Nat
      BY <3>1, LenProperties DEF SeedsAre
    <3>3. ASSUME NEW i \in 1..Len(seeds) - 1 PROVE seeds[i] < seeds[i + 1]
      <4>1. k \in Nat /\ Len(seeds) = Len(sorted) - k /\ \A x \in 1..Len(seeds) : seeds[x] = sorted[k + x]
        BY <3>1 DEF SeedsAre
      <4>2. i \in 1..Len(seeds) /\ i + 1 \in 1..Len(seeds) /\ k + i \in DOMAIN sorted /\ k + (i + 1) \in DOMAIN sorted /\ k + i < k + (i + 1)
        <5>1. PICK m, n : m = Len(sorted) /\ n = Len(seeds)
          OBVIOUS
        <5>2. m \in Nat /\ n \in Nat /\ n = m - k /\ i \in Nat /\ i >= 1 /\ i <= n - 1
          BY <3>2, <4>1, <5>1
        <5>3. i \in 1..n /\ i + 1 \in 1..n /\ k + i \in 1..m /\ k + (i + 1) \in 1..m /\ k + i < k + (i + 1)
          BY <4>1, <5>2
        <5> QED BY <3>2, <5>1, <5>3
      <4>3. seeds[i] = sorted[k + i] /\ seeds[i + 1] = sorted[k + (i + 1)]
        BY <4>1, <4>2
      <4> QED BY <3>1, <4>2, <4>3 DEF SeedsAre, IsAscending
    <3>4. \A i \in DOMAIN lines : lines[i].scored \subseteq corpus
      BY <2>1 DEF LineIsSound
    <3> QED BY <1>1, <3>3, <3>4 DEF ProtocolInv, CommandIsSound, Protocol!TypeOK
  <2>3. Protocol!PartitionsStayApart
    BY <2>1 DEF Protocol!PartitionsStayApart, Protocol!Scored, LineIsSound, SidesApart, Seen, OnBothSides, InBothRoles
  <2>4. Protocol!HeldOutStaysOut
    BY <2>1 DEF Protocol!HeldOutStaysOut, Protocol!Scored, LineIsSound
  <2>5. Protocol!PairedIsCounterfactual
    <3> SUFFICES ASSUME NEW i \in Protocol!Scored, lines[i].protocol.kind = "paired"
                 PROVE  /\ \A r \in lines[i].scored : \E q \in lines[i].scored : q.family = r.family /\ q.mutation = r.mutation /\ q.policy # r.policy
                        /\ \E j \in 1 .. i : lines[j].protocol.kind = "normal" /\ lines[j].seed = lines[i].seed /\ lines[j].fit = lines[i].fit
      BY DEF Protocol!PairedIsCounterfactual
    <3>1. i \in 1..Len(lines) /\ lines[i].fit # None /\ command = "evaluate_protocols" /\ LineIsSound(corpus, lines[i])
      BY <2>1 DEF Protocol!Scored
    <3>2. \A r \in lines[i].scored : \E q \in lines[i].scored : q.family = r.family /\ q.mutation = r.mutation /\ q.policy # r.policy
      BY <3>1 DEF LineIsSound
    <3>3. PICK all, sorted, k : all = Protocol!ProtocolsOf(corpus) /\ LinesFollow(all, sorted, k)
      BY <1>1, <3>1 DEF ProtocolInv
    <3>4. PICK n : n = Len(all)
      OBVIOUS
    <3>5. /\ n \in Nat \ {0} /\ n >= 2 /\ all[1].kind = "normal"
          /\ \A x \in 2..n - 1 : all[x].kind \in {"policy", "mutation"}
      <4>1. /\ Len(all) \in Nat /\ Len(all) >= 2 /\ all[1] = Normal
            /\ \A x \in 2..Len(all) - 1 : all[x].kind \in {"policy", "mutation"}
        BY <3>3, ProtocolsListed
      <4>2. Normal.kind = "normal"
        BY DEF Normal, Protocol!Protocol
      <4> QED BY <3>4, <4>1, <4>2
    <3>6. PICK a \in Nat, j \in 1..n : i = a * n + j
      <4>1. i \in Nat \ {0}
        BY <2>1, <3>1
      <4> QED BY <3>5, <4>1, Position
    <3>7. \A b \in Nat : \A x \in 1..n : b * n + x <= Len(lines) =>
             /\ lines[b * n + x].protocol = all[x] /\ lines[b * n + x].seed = sorted[b + 1]
             /\ x = n => lines[b * n + x].fit = lines[b * n + 1].fit
      BY <3>3, <3>4 DEF LinesFollow
    <3>8. all[j].kind = "paired"
      BY <3>1, <3>6, <3>7, <2>1
    <3>9. j = n
      <4>1. j = 1 \/ j = n \/ j \in 2..n - 1
        BY <3>5
      <4> QED BY <3>5, <3>8, <4>1
    <3>10. a * n \in Nat /\ a * n + 1 <= Len(lines) /\ a * n + 1 \in 1..i /\ 1 \in 1..n
      BY <2>1, <3>1, <3>5, <3>6
    <3>11. lines[a * n + 1].protocol = all[1] /\ lines[a * n + 1].seed = lines[i].seed /\ lines[a * n + 1].fit = lines[i].fit
      <4>1. lines[a * n + 1].protocol = all[1] /\ lines[a * n + 1].seed = sorted[a + 1]
        BY <3>6, <3>7, <3>10
      <4>2. a * n + n <= Len(lines) /\ n \in 1..n /\ i = a * n + n
        BY <2>1, <3>1, <3>5, <3>6, <3>9
      <4>3. lines[a * n + n].seed = sorted[a + 1] /\ lines[a * n + n].fit = lines[a * n + 1].fit
        BY <3>6, <3>7, <4>2
      <4> QED BY <4>1, <4>2, <4>3
    <3> QED BY <3>2, <3>5, <3>10, <3>11
  <2> QED BY <1>1, <2>2, <2>3, <2>4, <2>5, TurnsAreTaken
<1>2. (component = "protocols" => ProtocolInv) => ProtocolsHoldOut
  BY <1>1 DEF ProtocolsHoldOut
<1> QED BY <1>2, ProtocolInvariant, PTL

-----------------------------------------------------------------------------
(* Datasets in memory: numbers.                                            *)

LEMMA MemoryCountsAsHere == \A S : Memory!Cardinality(S) = Cardinality(S)
BY DEF Memory!Cardinality, Cardinality

LEMMA MemoryParameters ==
  /\ Texts \subseteq Seq(Seq(Memory!Cells)) /\ TargetColumns \subseteq Nat /\ BatchLengths \subseteq Nat
  /\ TestRatios \subseteq Int /\ Configs \subseteq [1..3 -> Int]
BY ModelsAssumption DEF Memory!MemoryAssumption

LEMMA MemoryMin ==
  ASSUME NEW S, S \subseteq Nat, S # {}
  PROVE  Memory!Min(S) \in S /\ \A y \in S : Memory!Min(S) <= y
BY LeastNumber DEF Memory!Min

(* Of three numbers the last of the largest.                               *)
LEMMA LargestOfThree ==
  ASSUME NEW S, S \subseteq 1..3, S # {}, NEW v \in [1..3 -> Int]
  PROVE  /\ Memory!Largest(S, v) \in S
         /\ \A j \in S : v[j] <= v[Memory!Largest(S, v)]
<1>1. \E i \in S : \A j \in S : v[j] < v[i] \/ (v[j] = v[i] /\ j <= i)
  <2>1. v[1] \in Int /\ v[2] \in Int /\ v[3] \in Int /\ \A i \in S : i = 1 \/ i = 2 \/ i = 3
    OBVIOUS
  <2>2. CASE 3 \in S /\ (1 \in S => v[1] <= v[3]) /\ (2 \in S => v[2] <= v[3])
    <3>1. \A j \in S : v[j] < v[3] \/ (v[j] = v[3] /\ j <= 3)
      BY <2>1, <2>2
    <3>2. 3 \in S
      BY <2>2
    <3> QED BY ONLY <3>1, <3>2
  <2>3. CASE 2 \in S /\ (1 \in S => v[1] <= v[2]) /\ (3 \in S => v[3] < v[2])
    <3>1. 1 \in S => v[1] < v[2] \/ (v[1] = v[2] /\ 1 <= 2)
      BY <2>1, <2>3
    <3>2. 3 \in S => v[3] < v[2]
      BY <2>3
    <3>3. \A j \in S : v[j] < v[2] \/ (v[j] = v[2] /\ j <= 2)
      BY <2>1, <3>1, <3>2
    <3>4. 2 \in S
      BY <2>3
    <3> QED BY ONLY <3>3, <3>4
  <2>4. CASE 1 \in S /\ (2 \in S => v[2] < v[1]) /\ (3 \in S => v[3] < v[1])
    BY <2>1, <2>4
  <2>5. 1 \in S \/ 2 \in S \/ 3 \in S
    BY <2>1
  <2>6. \/ 3 \in S /\ (1 \in S => v[1] <= v[3]) /\ (2 \in S => v[2] <= v[3])
        \/ 2 \in S /\ (1 \in S => v[1] <= v[2]) /\ (3 \in S => v[3] < v[2])
        \/ 1 \in S /\ (2 \in S => v[2] < v[1]) /\ (3 \in S => v[3] < v[1])
    BY <2>1, <2>5
  <2> QED BY <2>2, <2>3, <2>4, <2>6
<1>2. PICK i : i = Memory!Largest(S, v)
  OBVIOUS
<1>3. i \in S /\ \A j \in S : v[j] < v[i] \/ (v[j] = v[i] /\ j <= i)
  BY <1>1, <1>2 DEF Memory!Largest
<1>4. \A j \in S : v[j] \in Int /\ v[i] \in Int
  BY <1>3
<1> QED BY <1>2, <1>3, <1>4

(* Every number of 1..n once.                                              *)
IsPermutation(f, n) ==
  /\ f \in [1..n -> 1..n] /\ \A k \in 1..n : \E i \in 1..n : f[i] = k
  /\ \A i, j \in 1..n : f[i] = f[j] => i = j

LEMMA SwappedPermutes ==
  ASSUME NEW n \in Nat, NEW f, IsPermutation(f, n), NEW a \in 1..n, NEW b \in 1..n
  PROVE  IsPermutation(Memory!Swapped(f, a, b), n)
<1> DEFINE g == Memory!Swapped(f, a, b)
<1>1. f \in [1..n -> 1..n]
  BY DEF IsPermutation
<1>2. \A i \in 1..n : g[i] = IF i = b THEN f[a] ELSE IF i = a THEN f[b] ELSE f[i]
  BY <1>1 DEF Memory!Swapped
<1>3. g \in [1..n -> 1..n]
  BY <1>1 DEF Memory!Swapped
<1> HIDE DEF g
<1>4. \A k \in 1..n : \E i \in 1..n : g[i] = k
  <2> SUFFICES ASSUME NEW k \in 1..n PROVE \E i \in 1..n : g[i] = k
    OBVIOUS
  <2>1. PICK i \in 1..n : f[i] = k
    BY DEF IsPermutation
  <2>2. g[IF i = a THEN b ELSE IF i = b THEN a ELSE i] = k
    BY <1>2, <2>1
  <2> QED BY <2>2
<1>5. \A i, j \in 1..n : g[i] = g[j] => i = j
  <2>1. \A i, j \in 1..n : f[i] = f[j] => i = j
    BY DEF IsPermutation
  <2> SUFFICES ASSUME NEW i \in 1..n, NEW j \in 1..n, g[i] = g[j] PROVE i = j
    OBVIOUS
  <2>2. \E x \in 1..n : g[i] = f[x] /\ x = (IF i = b THEN a ELSE IF i = a THEN b ELSE i)
    BY <1>2
  <2>3. \E y \in 1..n : g[j] = f[y] /\ y = (IF j = b THEN a ELSE IF j = a THEN b ELSE j)
    BY <1>2
  <2>4. (IF i = b THEN a ELSE IF i = a THEN b ELSE i) = (IF j = b THEN a ELSE IF j = a THEN b ELSE j)
    BY <2>1, <2>2, <2>3
  <2> QED BY <2>4
<1> QED BY <1>3, <1>4, <1>5 DEF IsPermutation, g

(* As many with a value on either side of a bijection.                     *)
OneToOne(f, D, n) ==
  /\ f \in [D -> 1..n] /\ \A i \in 1..n : \E d \in D : f[d] = i
  /\ \A d, e \in D : f[d] = f[e] => d = e

Mirrors(w, h, f, D) == \A d \in D : w[d] = h[f[d]]

(* What is held in 1..n is as often in v at the places of D.               *)
AsOften(v, D, held, n) ==
  \A r : Cardinality({i \in 1..n : held[i] = r}) = Cardinality({d \in D : v[d] = r})

LEMMA MatchedOneToOne ==
  ASSUME NEW n \in Nat, NEW D, NEW f, OneToOne(f, D, n)
  PROVE  Cardinality(D) = n /\ \A held, v : Mirrors(v, held, f, D) => AsOften(v, D, held, n)
<1>0. f \in [D -> 1..n] /\ (\A i \in 1..n : \E d \in D : f[d] = i) /\ \A d, e \in D : f[d] = f[e] => d = e
  BY DEF OneToOne
<1>1. ASSUME NEW T, T \subseteq 1..n PROVE Cardinality({d \in D : f[d] \in T}) = Cardinality(T)
  <2> DEFINE E == {d \in D : f[d] \in T}
             h == [i \in T |-> CHOOSE d \in D : f[d] = i]
  <2>1. \A i \in T : h[i] \in D /\ f[h[i]] = i
    BY <1>0, <1>1
  <2>2. \A d \in E : h[f[d]] = d
    BY <1>0, <2>1
  <2>3. h \in Bijection(T, E)
    <3>1. h \in [T -> E] /\ DOMAIN h = T
      BY <2>1
    <3>2. \A i, j \in T : h[i] = h[j] => i = j
      BY <2>1
    <3>3. \A d \in E : \E i \in T : h[i] = d
      BY <2>2
    <3> HIDE DEF h, E
    <3> QED BY <3>1, <3>2, <3>3 DEF Bijection, Injection, Surjection, IsInjective
  <2>4. IsFiniteSet(T)
    <3>1. IsFiniteSet(1..n)
      BY FS_Interval
    <3> QED BY <1>1, <3>1, FS_Subset
  <2> HIDE DEF h, E
  <2>5. Cardinality(E) = Cardinality(T)
    BY <2>3, <2>4, FS_Bijection DEF ExistsBijection
  <2> QED BY <2>5 DEF E
<1>2. Cardinality(D) = n
  <2>1. Cardinality({d \in D : f[d] \in 1..n}) = Cardinality(1..n)
    BY <1>1
  <2>2. {d \in D : f[d] \in 1..n} = D
    BY <1>0
  <2>3. Cardinality(1..n) = n
    BY FS_Interval
  <2> QED BY <2>1, <2>2, <2>3
<1>3. ASSUME NEW held, NEW v, Mirrors(v, held, f, D), NEW r
      PROVE  Cardinality({i \in 1..n : held[i] = r}) = Cardinality({d \in D : v[d] = r})
  <2>1. {d \in D : f[d] \in {i \in 1..n : held[i] = r}} = {d \in D : v[d] = r}
    BY <1>0, <1>3 DEF Mirrors
  <2>2. {i \in 1..n : held[i] = r} \subseteq 1..n
    OBVIOUS
  <2> QED BY <1>1, <2>1, <2>2
<1> QED BY <1>2, <1>3 DEF AsOften

(* A place of a stretch, and one of two stretches.                         *)
LEMMA InStretch ==
  ASSUME NEW n \in Nat, NEW a \in Nat, NEW b \in Nat, a + b <= n, NEW i \in 1..b
  PROVE  a + i \in 1..n
OBVIOUS

LEMMA OffsetInStretch ==
  ASSUME NEW a \in Nat, NEW b \in Nat, NEW j \in Nat, a < j, j <= a + b
  PROVE  j - a \in 1..b /\ a + (j - a) = j
OBVIOUS

LEMMA OneStretch ==
  ASSUME NEW a \in Nat, NEW b \in Nat, NEW i \in 1..b, NEW c \in Nat, NEW d \in Nat, NEW j \in 1..d, a + i = c + j
  PROVE  ~(a + b <= c) /\ ~(c + d <= a) /\ (a = c => i = j)
OBVIOUS

(* Places in what is dealt out: m stretches, one after another.            *)
PlacesOf(ps) == UNION {{p} \X DOMAIN ps[p] : p \in DOMAIN ps}

Stretches(n, m, from, size) ==
  /\ from \in [1..m -> Nat] /\ size \in [1..m -> Nat]
  /\ \A p \in 1..m : from[p] + size[p] <= n
  /\ \A k \in 1..n : \E p \in 1..m : from[p] < k /\ k <= from[p] + size[p]
  /\ \A p, q \in 1..m : p < q => from[p] + size[p] <= from[q]

DealtBy(g, held, m, from, size, ps) ==
  /\ DOMAIN ps = 1..m /\ \A p \in 1..m : DOMAIN ps[p] = 1..size[p]
  /\ \A p \in 1..m : \A i \in 1..size[p] : ps[p][i] = held[g[from[p] + i]]

AllDealt(n, held, ps) ==
  /\ Cardinality(PlacesOf(ps)) = n
  /\ \A r : Cardinality({i \in 1..n : held[i] = r}) = Cardinality({d \in PlacesOf(ps) : ps[d[1]][d[2]] = r})

LEMMA DealtOut ==
  ASSUME NEW n \in Nat, NEW m \in Nat, NEW from, NEW size, Stretches(n, m, from, size),
         NEW g, IsPermutation(g, n), NEW held, NEW ps, DealtBy(g, held, m, from, size, ps)
  PROVE  AllDealt(n, held, ps)
<1> /\ from \in [1..m -> Nat] /\ size \in [1..m -> Nat] /\ DOMAIN ps = 1..m
    /\ \A p \in 1..m : DOMAIN ps[p] = 1..size[p] /\ from[p] + size[p] <= n
    /\ \A p \in 1..m : \A i \in 1..size[p] : ps[p][i] = held[g[from[p] + i]]
    /\ \A k \in 1..n : \E p \in 1..m : from[p] < k /\ k <= from[p] + size[p]
    /\ \A p, q \in 1..m : p < q => from[p] + size[p] <= from[q]
  BY DEF Stretches, DealtBy
<1> DEFINE D == PlacesOf(ps)
           f == [d \in D |-> g[from[d[1]] + d[2]]]
           v == [d \in D |-> ps[d[1]][d[2]]]
<1>1. \A d : d \in D <=> \E p \in 1..m : \E i \in 1..size[p] : d = <<p, i>>
  BY DEF PlacesOf
<1> HIDE DEF D
<1>2. ASSUME NEW p \in 1..m, NEW i \in 1..size[p] PROVE from[p] + i \in 1..n
  <2>1. from[p] \in Nat /\ size[p] \in Nat /\ from[p] + size[p] <= n
    OBVIOUS
  <2> QED BY <2>1, InStretch
<1>3. f \in [D -> 1..n]
  <2>1. ASSUME NEW d \in D PROVE g[from[d[1]] + d[2]] \in 1..n
    <3>1. PICK p \in 1..m : \E i \in 1..size[p] : d = <<p, i>>
      BY <1>1
    <3>2. PICK i \in 1..size[p] : d = <<p, i>>
      BY <3>1
    <3>3. from[p] + i \in 1..n
      BY <1>2
    <3> QED BY <3>2, <3>3 DEF IsPermutation
  <2> QED BY <2>1
<1>4. \A k \in 1..n : \E d \in D : f[d] = k
  <2> SUFFICES ASSUME NEW k \in 1..n PROVE \E d \in D : f[d] = k
    OBVIOUS
  <2>1. PICK j \in 1..n : g[j] = k
    BY DEF IsPermutation
  <2>2. PICK p \in 1..m : from[p] < j /\ j <= from[p] + size[p]
    BY <2>1
  <2>3. from[p] \in Nat /\ size[p] \in Nat /\ j \in Nat
    OBVIOUS
  <2>4. j - from[p] \in 1..size[p] /\ from[p] + (j - from[p]) = j
    BY <2>2, <2>3, OffsetInStretch
  <2>5. <<p, j - from[p]>> \in D
    BY <1>1, <2>4
  <2> QED BY <2>1, <2>4, <2>5
<1>5. \A d, e \in D : f[d] = f[e] => d = e
  <2> SUFFICES ASSUME NEW d \in D, NEW e \in D, f[d] = f[e] PROVE d = e
    OBVIOUS
  <2>1. PICK p \in 1..m : \E i \in 1..size[p] : d = <<p, i>>
    BY <1>1
  <2>2. PICK i \in 1..size[p] : d = <<p, i>>
    BY <2>1
  <2>3. PICK q \in 1..m : \E j \in 1..size[q] : e = <<q, j>>
    BY <1>1
  <2>4. PICK j \in 1..size[q] : e = <<q, j>>
    BY <2>3
  <2>5. g[from[p] + i] = g[from[q] + j]
    BY <2>2, <2>4
  <2>6. from[p] + i = from[q] + j
    <3>1. from[p] + i \in 1..n /\ from[q] + j \in 1..n
      BY <1>2
    <3>2. \A x, y \in 1..n : g[x] = g[y] => x = y
      BY DEF IsPermutation
    <3> QED BY ONLY <2>5, <3>1, <3>2
  <2>7. from[p] \in Nat /\ from[q] \in Nat /\ size[p] \in Nat /\ size[q] \in Nat
    OBVIOUS
  <2>8. ~(p < q) /\ ~(q < p)
    <3>1. p < q => from[p] + size[p] <= from[q]
      OBVIOUS
    <3>2. q < p => from[q] + size[q] <= from[p]
      OBVIOUS
    <3>3. ~(from[p] + size[p] <= from[q]) /\ ~(from[q] + size[q] <= from[p])
      BY ONLY <2>6, <2>7, i \in 1..size[p], j \in 1..size[q], OneStretch
    <3> QED BY <3>1, <3>2, <3>3
  <2>9. p = q
    BY <2>8
  <2>10. i = j
    BY <2>6, <2>7, <2>9, OneStretch
  <2> QED BY <2>2, <2>4, <2>9, <2>10
<1>6. Mirrors(v, held, f, D)
  <2>1. ASSUME NEW d \in D PROVE v[d] = held[f[d]]
    <3>1. PICK p \in 1..m : \E i \in 1..size[p] : d = <<p, i>>
      BY <1>1
    <3>2. PICK i \in 1..size[p] : d = <<p, i>>
      BY <3>1
    <3>3. v[d] = ps[p][i] /\ f[d] = g[from[p] + i]
      BY <3>2
    <3> QED BY <3>3
  <2> HIDE DEF f, v
  <2> QED BY <2>1 DEF Mirrors
<1> HIDE DEF f, v
<1>7. OneToOne(f, D, n)
  BY <1>3, <1>4, <1>5 DEF OneToOne
<1>8. Cardinality(D) = n /\ AsOften(v, D, held, n)
  BY ONLY n \in Nat, <1>6, <1>7, MatchedOneToOne
<1>9. \A r : {d \in D : v[d] = r} = {d \in D : ps[d[1]][d[2]] = r}
  BY DEF v
<1> QED BY <1>8, <1>9 DEF D, AllDealt, AsOften

LEMMA EveryRowDealt ==
  ASSUME Len(loaded) \in Nat, loaded' = loaded, NEW m \in Nat, NEW from, NEW size,
         Stretches(Len(loaded), m, from, size), NEW g, IsPermutation(g, Len(loaded)),
         DealtBy(g, loaded, m, from, size, parts')
  PROVE  Memory!PartsPartition'
<1> DEFINE n == Len(loaded)
<1>1. PICK ps : ps = parts'
  OBVIOUS
<1>2. /\ n \in Nat /\ Stretches(n, m, from, size) /\ IsPermutation(g, n)
      /\ DealtBy(g, loaded, m, from, size, ps)
  BY <1>1
<1> HIDE DEF n
<1>3. /\ Cardinality(PlacesOf(ps)) = n
      /\ \A r : Cardinality({i \in 1..n : loaded[i] = r}) = Cardinality({d \in PlacesOf(ps) : ps[d[1]][d[2]] = r})
  <2>1. AllDealt(n, loaded, ps)
    BY <1>2, DealtOut
  <2> QED BY <2>1 DEF AllDealt
<1>4. Memory!Dealt' = PlacesOf(ps)
  BY <1>1 DEF Memory!Dealt, PlacesOf
<1>5. Memory!N' = n
  BY DEF Memory!N, n
<1>6. ASSUME NEW r
      PROVE  Cardinality({i \in 1..Memory!N' : loaded'[i] = r}) =
             Cardinality({d \in Memory!Dealt' : parts'[d[1]][d[2]] = r})
  <2>1. {i \in 1..Memory!N' : loaded'[i] = r} = {i \in 1..n : loaded[i] = r}
    BY <1>5
  <2>2. {d \in Memory!Dealt' : parts'[d[1]][d[2]] = r} = {d \in PlacesOf(ps) : ps[d[1]][d[2]] = r}
    BY <1>1, <1>4
  <2> QED BY <1>3, <2>1, <2>2
<1>7. Cardinality(Memory!Dealt') = Memory!N'
  BY <1>3, <1>4, <1>5
<1> HIDE DEF Memory!N, Memory!Dealt
<1> QED BY <1>6, <1>7, MemoryCountsAsHere DEF Memory!PartsPartition

-----------------------------------------------------------------------------
(* Datasets in memory: reading.                                            *)

(* The lines that count down to one.                                       *)
UpTo(l) == {k \in Memory!DataLines : k <= l}
RowsOfCells == [features : Seq(Memory!Cells), targets : Seq(Memory!Cells)]
Width == Len(csv[Memory!Min(Memory!DataLines)])

TextGiven == csv \in Seq(Seq(Memory!Cells)) /\ target_columns \in Nat /\ has_header \in BOOLEAN

(* Each line that was read is the row of its number, cut in two.           *)
ReadSoFar ==
  /\ at_line \in 0..Len(csv) /\ loaded \in Seq(RowsOfCells) /\ Len(loaded) = Cardinality(UpTo(at_line))
  /\ \A l \in UpTo(at_line) : loaded[Cardinality(UpTo(l))] = Memory!Cut(l) /\ Memory!TargetsFit(l)
  /\ \A i \in 1..Len(loaded) : /\ Len(loaded[i].features) = Width - target_columns
                               /\ Len(loaded[i].targets) = target_columns
                               /\ 0 < target_columns /\ target_columns < Width

LEMMA CountedLines ==
  ASSUME TextGiven
  PROVE  /\ Len(csv) \in Nat /\ Memory!DataLines \subseteq 1..Len(csv) /\ IsFiniteSet(Memory!DataLines)
         /\ \A l : IsFiniteSet(UpTo(l)) /\ Cardinality(UpTo(l)) \in Nat
         /\ \A l \in 1..Len(csv) : csv[l] \in Seq(Memory!Cells) /\ Memory!Columns(l) \in Nat
<1>1. Len(csv) \in Nat /\ DOMAIN csv = 1..Len(csv) /\ \A l \in 1..Len(csv) : csv[l] \in Seq(Memory!Cells)
  BY LenProperties, ElementOfSeq DEF TextGiven
<1>2. Memory!DataLines \subseteq 1..Len(csv)
  BY <1>1 DEF Memory!DataLines
<1>3. IsFiniteSet(1..Len(csv))
  BY <1>1, FS_Interval
<1>4. IsFiniteSet(Memory!DataLines)
  BY <1>2, <1>3, FS_Subset
<1>5. \A l : UpTo(l) \subseteq Memory!DataLines
  BY DEF UpTo
<1>6. \A l : IsFiniteSet(UpTo(l)) /\ Cardinality(UpTo(l)) \in Nat
  BY <1>4, <1>5, FS_Subset, FS_CardinalityType
<1>7. \A l \in 1..Len(csv) : Memory!Columns(l) \in Nat
  BY <1>1, LenProperties DEF Memory!Columns
<1> QED BY <1>1, <1>2, <1>4, <1>6, <1>7

(* A line that counts has a number of its own.                             *)
LEMMA NumberOfLine ==
  ASSUME TextGiven, at_line \in 0..Len(csv), NEW l \in UpTo(at_line)
  PROVE  Cardinality(UpTo(l)) \in 1..Cardinality(UpTo(at_line))
<1>1. l \in Nat /\ l <= at_line /\ l \in UpTo(l) /\ at_line \in Nat
  BY CountedLines DEF UpTo
<1>2. UpTo(l) \subseteq UpTo(at_line)
  <2>1. \A k \in Memory!DataLines : k \in Nat
    BY CountedLines
  <2>2. \A k \in Memory!DataLines : k <= l => k <= at_line
    BY <1>1, <2>1
  <2> QED BY <2>2 DEF UpTo
<1>3. Cardinality(UpTo(l)) <= Cardinality(UpTo(at_line))
  BY <1>2, CountedLines, FS_Subset
<1>4. Cardinality(UpTo(l)) # 0
  BY <1>1, CountedLines, FS_EmptySet
<1> QED BY <1>3, <1>4, CountedLines

LEMMA NextLine ==
  ASSUME TextGiven, at_line \in 0..Len(csv), Memory!Left # {}
  PROVE  /\ Memory!Current \in Memory!DataLines /\ at_line < Memory!Current /\ Memory!Current \in 1..Len(csv)
         /\ UpTo(Memory!Current) = UpTo(at_line) \cup {Memory!Current}
         /\ Cardinality(UpTo(Memory!Current)) = Cardinality(UpTo(at_line)) + 1
         /\ Memory!Left = {Memory!Current} => \A k \in Memory!DataLines : k <= Memory!Current
<1>1. Memory!Left \subseteq Nat
  BY CountedLines DEF Memory!Left
<1>2. Memory!Current \in Memory!Left /\ \A y \in Memory!Left : Memory!Current <= y
  BY <1>1, MemoryMin DEF Memory!Current
<1> DEFINE c == Memory!Current
<1>3. c \in Memory!DataLines /\ at_line < c /\ c \in 1..Len(csv) /\ at_line \in Nat /\ c \in Nat
  BY <1>2, CountedLines DEF Memory!Left
<1> HIDE DEF c
<1>4. UpTo(c) = UpTo(at_line) \cup {c}
  <2>1. ASSUME NEW k \in Memory!DataLines PROVE k <= c <=> (k <= at_line \/ k = c)
    <3>1. k \in Nat
      BY CountedLines
    <3>2. k > at_line => c <= k
      BY <1>2 DEF Memory!Left, c
    <3> QED BY <1>3, <3>1, <3>2
  <2> QED BY <1>3, <2>1 DEF UpTo
<1>5. c \notin UpTo(at_line)
  BY <1>3 DEF UpTo
<1>6. Cardinality(UpTo(c)) = Cardinality(UpTo(at_line)) + 1
  BY <1>4, <1>5, CountedLines, FS_AddElement
<1>7. ASSUME Memory!Left = {c}, NEW k \in Memory!DataLines PROVE k <= c
  <2>1. k \in Nat
    BY CountedLines
  <2>2. k > at_line => k = c
    BY <1>7 DEF Memory!Left
  <2> QED BY <1>3, <2>1, <2>2
<1> QED BY <1>3, <1>4, <1>6, <1>7 DEF c

(* What a line is cut into.                                                *)
LEMMA CutInTwo ==
  ASSUME TextGiven, NEW l \in 1..Len(csv), Memory!TargetsFit(l)
  PROVE  /\ Memory!Cut(l) \in RowsOfCells
         /\ Len(Memory!Cut(l).features) = Memory!Columns(l) - target_columns
         /\ Len(Memory!Cut(l).targets) = target_columns
         /\ 0 < target_columns /\ target_columns < Memory!Columns(l)
         /\ Memory!Cut(l).features \o Memory!Cut(l).targets = csv[l]
<1> DEFINE s == csv[l]
           k == Len(s) - target_columns
<1>1. /\ s \in Seq(Memory!Cells) /\ Len(s) \in Nat /\ Memory!Columns(l) = Len(s) /\ target_columns \in Nat
      /\ target_columns > 0 /\ target_columns < Len(s)
  BY CountedLines DEF Memory!TargetsFit, Memory!Columns, TextGiven
<1>2. Memory!Cut(l) = [features |-> SubSeq(s, 1, k), targets |-> SubSeq(s, k + 1, Len(s))]
  BY <1>1 DEF Memory!Cut
<1> HIDE DEF s
<1>3. k \in 1..Len(s) - 1
  BY <1>1
<1> HIDE DEF k
<1>4. \A i \in 1..Len(s) : s[i] \in Memory!Cells
  BY <1>1, ElementOfSeq
<1>5. SubSeq(s, 1, k) \in Seq(Memory!Cells) /\ Len(SubSeq(s, 1, k)) = k
  <2>1. \A i \in 1..k : s[i] \in Memory!Cells
    BY <1>1, <1>3, <1>4
  <2> QED BY <1>1, <1>3, <2>1, SubSeqProperties
<1>6. SubSeq(s, k + 1, Len(s)) \in Seq(Memory!Cells) /\ Len(SubSeq(s, k + 1, Len(s))) = Len(s) - k
  <2>1. \A i \in k + 1..Len(s) : s[i] \in Memory!Cells
    BY <1>1, <1>3, <1>4
  <2>2. k + 1 \in Int /\ Len(s) \in Int /\ k + 1 <= Len(s) /\ Len(s) - (k + 1) + 1 = Len(s) - k
    BY <1>1, <1>3
  <2> QED BY <2>1, <2>2, SubSeqProperties
<1>7. SubSeq(s, 1, k) \o SubSeq(s, k + 1, Len(s)) = s
  <2>1. 1 \in 1..Len(s) + 1 /\ k \in 1 - 1..Len(s) /\ Len(s) \in k..Len(s)
    BY <1>1, <1>3
  <2>2. SubSeq(s, 1, k) \o SubSeq(s, k + 1, Len(s)) = SubSeq(s, 1, Len(s))
    BY <1>1, <2>1, ConcatAdjacentSubSeq
  <2> QED BY <1>1, <2>2, SubSeqFull
<1>8. Len(s) - k = target_columns /\ k = Memory!Columns(l) - target_columns
  BY <1>1 DEF k
<1> DEFINE x == SubSeq(s, 1, k)
           y == SubSeq(s, k + 1, Len(s))
<1> HIDE DEF x, y
<1>9. x \in Seq(Memory!Cells) /\ Len(x) = k /\ y \in Seq(Memory!Cells) /\ Len(y) = target_columns /\ x \o y = csv[l]
  BY <1>5, <1>6, <1>7, <1>8 DEF x, y, s
<1>10. Memory!Cut(l) = [features |-> x, targets |-> y]
  BY <1>2 DEF x, y
<1> QED BY <1>1, <1>8, <1>9, <1>10 DEF RowsOfCells

(* Nothing about what was read changes with it.                            *)
LEMMA ReadStays ==
  ASSUME UNCHANGED <<csv, target_columns, has_header>>
  PROVE  /\ TextGiven => TextGiven'
         /\ Memory!DataLines' = Memory!DataLines /\ Width' = Width
         /\ \A l : UpTo(l)' = UpTo(l) /\ Memory!Cut(l)' = Memory!Cut(l) /\ (Memory!TargetsFit(l) <=> Memory!TargetsFit(l)')
         /\ UNCHANGED <<at_line, loaded>> => (ReadSoFar => ReadSoFar') /\ Memory!Left' = Memory!Left
<1>1. TextGiven => TextGiven'
  BY DEF TextGiven
<1>2. Memory!DataLines' = Memory!DataLines
  BY DEF Memory!DataLines, Memory!Skipped
<1>3. Width' = Width
  BY <1>2 DEF Width
<1>4. \A l : UpTo(l)' = UpTo(l)
  BY <1>2 DEF UpTo
<1>5. \A l : Memory!Cut(l)' = Memory!Cut(l) /\ (Memory!TargetsFit(l) <=> Memory!TargetsFit(l)')
  BY DEF Memory!Cut, Memory!TargetsFit, Memory!Columns
<1>6. UNCHANGED <<at_line, loaded>> => (ReadSoFar => ReadSoFar') /\ Memory!Left' = Memory!Left
  BY <1>2, <1>3, <1>4, <1>5 DEF ReadSoFar, Memory!Left
<1> QED BY <1>1, <1>2, <1>3, <1>4, <1>5, <1>6

LEMMA LineRead ==
  ASSUME TextGiven, ReadSoFar, Memory!ReadLine
  PROVE  /\ TextGiven' /\ ReadSoFar' /\ Memory!DataLines' # {}
         /\ pc' # "read" => Memory!Left' = {}
<1> DEFINE c == Memory!Current
           n == Len(loaded)
<1>1. /\ Memory!Left # {} /\ Memory!SameColumns(c) /\ Memory!TargetsFit(c)
      /\ loaded' = Append(loaded, Memory!Cut(c)) /\ at_line' = c
      /\ pc' = (IF Memory!Left = {c} THEN "new" ELSE "read")
      /\ UNCHANGED <<csv, target_columns, has_header>>
  BY DEF Memory!ReadLine, Memory!Given
<1>2. at_line \in 0..Len(csv) /\ loaded \in Seq(RowsOfCells) /\ n = Cardinality(UpTo(at_line)) /\ n \in Nat
  BY CountedLines DEF ReadSoFar
<1>3. /\ c \in Memory!DataLines /\ at_line < c /\ c \in 1..Len(csv) /\ UpTo(c) = UpTo(at_line) \cup {c}
      /\ Cardinality(UpTo(c)) = n + 1 /\ (Memory!Left = {c} => \A k \in Memory!DataLines : k <= c)
  BY <1>1, <1>2, NextLine
<1>4. /\ Memory!Cut(c) \in RowsOfCells /\ Len(Memory!Cut(c).features) = Width - target_columns
      /\ Len(Memory!Cut(c).targets) = target_columns /\ 0 < target_columns /\ target_columns < Width
  BY <1>1, <1>3, CutInTwo DEF Memory!SameColumns, Memory!Columns, Width
<1>5. /\ TextGiven' /\ Memory!DataLines' = Memory!DataLines /\ Width' = Width
      /\ \A l : UpTo(l)' = UpTo(l) /\ Memory!Cut(l)' = Memory!Cut(l) /\ (Memory!TargetsFit(l) <=> Memory!TargetsFit(l)')
  BY <1>1, ReadStays
<1> HIDE DEF c, n
<1>6. /\ loaded' \in Seq(RowsOfCells) /\ Len(loaded') = n + 1 /\ loaded'[n + 1] = Memory!Cut(c)
      /\ \A i \in 1..n : loaded'[i] = loaded[i]
  BY <1>1, <1>2, <1>4, AppendProperties DEF n
<1>7. at_line' \in 0..Len(csv') /\ UpTo(at_line)' = UpTo(c)
  <2>1. Len(csv) \in Nat /\ csv' = csv
    BY <1>1, CountedLines
  <2>2. UpTo(at_line)' = {k \in Memory!DataLines : k <= c}
    BY <1>1, <1>5 DEF UpTo
  <2> QED BY <1>1, <1>3, <2>1, <2>2 DEF UpTo
<1>8. ASSUME NEW l \in UpTo(c) PROVE loaded'[Cardinality(UpTo(l))] = Memory!Cut(l) /\ Memory!TargetsFit(l)
  <2>1. CASE l = c
    BY <1>1, <1>3, <1>6, <2>1
  <2>2. CASE l \in UpTo(at_line)
    <3>1. Cardinality(UpTo(l)) \in 1..n
      BY <1>2, <2>2, NumberOfLine
    <3> QED BY <1>6, <2>2, <3>1 DEF ReadSoFar
  <2> QED BY <1>3, <2>1, <2>2
<1>9. ASSUME NEW i \in 1..n + 1
      PROVE  /\ Len(loaded'[i].features) = Width - target_columns /\ Len(loaded'[i].targets) = target_columns
             /\ 0 < target_columns /\ target_columns < Width
  <2>1. CASE i = n + 1
    BY <1>4, <1>6, <2>1
  <2>2. CASE i \in 1..n
    BY <1>4, <1>6, <2>2 DEF ReadSoFar, n
  <2> QED BY <1>2, <2>1, <2>2
<1>10. ReadSoFar'
  BY <1>1, <1>3, <1>5, <1>6, <1>7, <1>8, <1>9 DEF ReadSoFar
<1>11. pc' # "read" => Memory!Left' = {}
  <2> SUFFICES ASSUME Memory!Left = {c} PROVE Memory!Left' = {}
    BY <1>1
  <2>1. \A k \in Memory!DataLines : k <= c /\ k \in Nat /\ c \in Nat
    BY <1>3, CountedLines
  <2>2. Memory!Left' = {k \in Memory!DataLines : k > c}
    BY <1>1, <1>5 DEF Memory!Left
  <2> QED BY <2>1, <2>2
<1> QED BY <1>3, <1>5, <1>10, <1>11

(* Once all lines are read, the rows are the lines.                        *)
LEMMA RowsAreLines ==
  ASSUME TextGiven, ReadSoFar, Memory!Left = {}, Memory!DataLines # {}
  PROVE  /\ Len(loaded) \in Nat \ {0} /\ Memory!RowsAreTheLines
         /\ \A i \in 1..Len(loaded) : /\ Len(loaded[i].features) = Len(loaded[1].features) /\ loaded[i].features # <<>>
                                      /\ Len(loaded[i].targets) = target_columns
<1> DEFINE L == Memory!DataLines
           counted == {i \in DOMAIN csv : csv[i] # <<>> /\ (has_header => i # 1)}
<1>1. counted = L
  BY DEF Memory!DataLines, Memory!Skipped
<1>2. at_line \in Nat /\ L \subseteq Nat /\ L \subseteq 1..Len(csv) /\ at_line \in 0..Len(csv)
  BY CountedLines DEF ReadSoFar
<1> HIDE DEF L, counted
<1>3. UpTo(at_line) = L
  <2>1. \A k \in L : ~(k > at_line)
    BY DEF Memory!Left, L
  <2>2. \A k \in L : k <= at_line
    BY <1>2, <2>1
  <2> QED BY <2>2 DEF UpTo, L
<1>4. Len(loaded) = Cardinality(L) /\ Len(loaded) \in Nat /\ Len(loaded) # 0
  <2>1. IsFiniteSet(L) /\ L # {}
    BY CountedLines DEF L
  <2> QED BY <1>3, <2>1, FS_CardinalityType, FS_EmptySet DEF ReadSoFar
<1>5. ASSUME NEW l \in L
      PROVE  loaded[Cardinality({i \in L : i <= l})].features \o loaded[Cardinality({i \in L : i <= l})].targets = csv[l]
  <2>1. {i \in L : i <= l} = UpTo(l)
    BY DEF UpTo, L
  <2>2. loaded[Cardinality(UpTo(l))] = Memory!Cut(l) /\ Memory!TargetsFit(l)
    BY <1>3 DEF ReadSoFar
  <2>3. Memory!Cut(l).features \o Memory!Cut(l).targets = csv[l]
    BY <1>2, <2>2, CutInTwo
  <2> QED BY <2>1, <2>2, <2>3
<1>6. Memory!RowsAreTheLines
  BY <1>1, <1>4, <1>5, MemoryCountsAsHere DEF Memory!RowsAreTheLines, Memory!N, counted
<1>7. ASSUME NEW i \in 1..Len(loaded)
      PROVE  /\ Len(loaded[i].features) = Len(loaded[1].features) /\ loaded[i].features # <<>>
             /\ Len(loaded[i].targets) = target_columns
  <2>1. 1 \in 1..Len(loaded)
    BY <1>4
  <2>2. Len(loaded[i].features) = Width - target_columns /\ Len(loaded[1].features) = Width - target_columns
    BY <2>1 DEF ReadSoFar
  <2>3. Len(loaded[i].targets) = target_columns /\ target_columns < Width
    BY DEF ReadSoFar
  <2>4. Width \in Nat /\ target_columns \in Nat
    <3>1. Memory!Min(L) \in L
      BY <1>2, MemoryMin DEF L
    <3> QED BY <1>2, <3>1, CountedLines DEF Width, Memory!Columns, TextGiven, L
  <2>5. Len(loaded[i].features) # 0
    BY <2>2, <2>3, <2>4
  <2>6. Len(<<>>) = 0
    OBVIOUS
  <2> QED BY <2>2, <2>3, <2>5, <2>6
<1> QED BY <1>4, <1>6, <1>7

-----------------------------------------------------------------------------
(* Datasets in memory: a split in three.                                   *)

(* Hundredths of a row that a part has more than it is due.                *)
Off(c, i) == 100 * c[i] - Memory!Due(i)

(* One row that the ratio of a part does not come to.                      *)
LiftedOf(c) == {i \in 1..3 : Memory!Due(i) < 100 /\ c[i] = 1}

(* While rows are given out, and while lifted ones are taken back.         *)
Counting(c) ==
  /\ c \in [1..3 -> Nat] /\ Memory!Total(c) <= Len(loaded)
  /\ \A i \in 1..3 : -100 < Off(c, i) /\ Off(c, i) < 100

TakenFrom(c, i) == LiftedOf(c) # {} /\ Off(c, i) > -200 /\ \A j \in 1..3 : c[j] <= c[i] + 1
Trimming(c) ==
  /\ c \in [1..3 -> Nat \ {0}] /\ Len(loaded) <= Memory!Total(c)
  /\ \A i \in 1..3 : Off(c, i) < 100 /\ (Off(c, i) > -100 \/ TakenFrom(c, i))
  /\ LiftedOf(c) # {} \/ Memory!Total(c) = Len(loaded)

Asked == asked.of \in [1..3 -> Int] /\ Memory!ConfigValid(asked.of) /\ Len(loaded) \in Nat /\ Len(loaded) >= 3

(* What the parts are due are all the rows.                                *)
LEMMA DueAll ==
  ASSUME Asked
  PROVE  /\ \A i \in 1..3 : Memory!Due(i) \in Nat /\ Memory!Due(i) > 0
         /\ Memory!Due(1) + Memory!Due(2) + Memory!Due(3) = 100 * Len(loaded)
<1> DEFINE n == Len(loaded)
           a == asked.of[1]
           b == asked.of[2]
           c == asked.of[3]
<1>1. a \in Nat /\ b \in Nat /\ c \in Nat /\ a > 0 /\ b > 0 /\ c > 0 /\ a + b + c = 100 /\ n \in Nat /\ n > 0
  BY DEF Asked, Memory!ConfigValid
<1>2. Memory!Due(1) = a * n /\ Memory!Due(2) = b * n /\ Memory!Due(3) = c * n
  BY DEF Memory!Due, Memory!N
<1> HIDE DEF a, b, c, n
<1>3. a * n \in Nat /\ a * n > 0 /\ b * n \in Nat /\ b * n > 0 /\ c * n \in Nat /\ c * n > 0
  BY <1>1
<1>4. a * n + b * n + c * n = (a + b + c) * n
  BY <1>1
<1>5. \A i \in 1..3 : i = 1 \/ i = 2 \/ i = 3
  OBVIOUS
<1> QED BY <1>1, <1>2, <1>3, <1>4, <1>5 DEF n

(* Numbers of three parts.                                                 *)
Numbers(c) ==
  /\ c[1] \in Nat /\ c[2] \in Nat /\ c[3] \in Nat
  /\ Memory!Total(c) = c[1] + c[2] + c[3] /\ Memory!Total(c) \in Nat /\ Len(loaded) \in Nat
  /\ Off(c, 1) \in Int /\ Off(c, 2) \in Int /\ Off(c, 3) \in Int
  /\ Off(c, 1) + Off(c, 2) + Off(c, 3) = 100 * (Memory!Total(c) - Len(loaded))

LEMMA ThreeOffs ==
  ASSUME NEW a \in Nat, NEW b \in Nat, NEW c \in Nat, NEW x \in Nat, NEW y \in Nat, NEW z \in Nat,
         NEW n \in Nat, x + y + z = 100 * n
  PROVE  /\ 100 * a - x \in Int /\ 100 * b - y \in Int /\ 100 * c - z \in Int
         /\ (100 * a - x) + (100 * b - y) + (100 * c - z) = 100 * ((a + b + c) - n)
OBVIOUS

LEMMA OfThree ==
  ASSUME Asked, NEW c \in [1..3 -> Nat]
  PROVE  Numbers(c)
<1> DEFINE x == Memory!Due(1)
           y == Memory!Due(2)
           z == Memory!Due(3)
           n == Len(loaded)
<1>1. c[1] \in Nat /\ c[2] \in Nat /\ c[3] \in Nat
  OBVIOUS
<1>2. Memory!Total(c) = c[1] + c[2] + c[3]
  BY DEF Memory!Total
<1>3. n \in Nat /\ x \in Nat /\ y \in Nat /\ z \in Nat /\ x + y + z = 100 * n
  BY DueAll DEF Asked
<1>4. Off(c, 1) = 100 * c[1] - x /\ Off(c, 2) = 100 * c[2] - y /\ Off(c, 3) = 100 * c[3] - z
  BY DEF Off
<1> HIDE DEF x, y, z, n
<1>5. /\ Off(c, 1) \in Int /\ Off(c, 2) \in Int /\ Off(c, 3) \in Int
      /\ Off(c, 1) + Off(c, 2) + Off(c, 3) = 100 * ((c[1] + c[2] + c[3]) - n)
  BY ONLY <1>1, <1>3, <1>4, ThreeOffs
<1>6. c[1] + c[2] + c[3] \in Nat
  BY ONLY <1>1
<1> QED BY <1>1, <1>2, <1>3, <1>5, <1>6 DEF Numbers, n

LEMMA FloorsCount ==
  ASSUME Asked PROVE Counting(Memory!Floors)
<1> DEFINE c == Memory!Floors
<1>1. ASSUME NEW d \in Nat PROVE d \div 100 \in Nat /\ 100 * (d \div 100) <= d /\ d < 100 * (d \div 100) + 100
  OBVIOUS
<1>2. \A i \in 1..3 : c[i] = Memory!Due(i) \div 100
  BY DEF Memory!Floors
<1>3. c \in [1..3 -> Nat]
  BY <1>1, DueAll DEF Memory!Floors
<1> HIDE DEF c
<1>4. ASSUME NEW i \in 1..3 PROVE Off(c, i) <= 0 /\ -100 < Off(c, i)
  <2>1. c[i] \in Nat /\ 100 * c[i] <= Memory!Due(i) /\ Memory!Due(i) < 100 * c[i] + 100 /\ Memory!Due(i) \in Nat
    BY <1>1, <1>2, DueAll
  <2> QED BY <2>1 DEF Off
<1>5. Off(c, 1) <= 0 /\ Off(c, 2) <= 0 /\ Off(c, 3) <= 0
  BY <1>4
<1>6. Memory!Total(c) <= Len(loaded)
  <2>1. Numbers(c)
    BY <1>3, OfThree
  <2> QED BY <1>5, <2>1 DEF Numbers
<1>7. \A i \in 1..3 : -100 < Off(c, i) /\ Off(c, i) < 100
  <2> SUFFICES ASSUME NEW i \in 1..3 PROVE -100 < Off(c, i) /\ Off(c, i) < 100
    OBVIOUS
  <2>1. Off(c, i) \in Int
    BY <1>3, DueAll DEF Off
  <2> QED BY <1>4, <2>1
<1> QED BY <1>3, <1>6, <1>7 DEF Counting, c

(* A row more for the largest fraction.                                    *)
LEMMA GivenOne ==
  ASSUME Asked, Counting(counts), Memory!Total(counts) < Len(loaded),
         NEW l, l = Memory!Largest(1..3, Memory!Fractions), NEW c, c = [counts EXCEPT ![l] = @ + 1]
  PROVE  Counting(c)
<1> DEFINE v == Memory!Fractions
<1>1. counts \in [1..3 -> Nat] /\ Len(loaded) \in Nat
  BY DEF Counting, Asked
<1>2. \A i \in 1..3 : v[i] = Memory!Due(i) - 100 * counts[i]
  BY DEF Memory!Fractions
<1>3. v \in [1..3 -> Int]
  <2>1. \A i \in 1..3 : Memory!Due(i) - 100 * counts[i] \in Int
    <3>1. \A i \in 1..3 : Memory!Due(i) \in Nat /\ counts[i] \in Nat
      BY <1>1, DueAll
    <3> QED BY <3>1
  <2> QED BY <2>1 DEF Memory!Fractions
<1>4. l \in 1..3 /\ \A j \in 1..3 : v[j] <= v[l]
  <2>1. 1..3 \subseteq 1..3 /\ 1..3 # {}
    OBVIOUS
  <2> HIDE DEF v
  <2> QED BY <1>3, <2>1, LargestOfThree DEF v
<1> HIDE DEF v
<1>5. ASSUME NEW i \in 1..3 PROVE Off(counts, i) \in Int /\ v[i] = -Off(counts, i) /\ v[i] \in Int
  <2>1. Memory!Due(i) \in Nat /\ counts[i] \in Nat
    BY <1>1, DueAll
  <2> QED BY <1>2, <2>1 DEF Off
<1>n. Numbers(counts)
  BY <1>1, OfThree
<1>6. Off(counts, 1) + Off(counts, 2) + Off(counts, 3) <= -100
  BY <1>n DEF Numbers
<1>7. v[l] > 0 /\ v[l] = -Off(counts, l) /\ Off(counts, l) \in Int
  <2>1. 1 \in 1..3 /\ 2 \in 1..3 /\ 3 \in 1..3
    OBVIOUS
  <2>2. /\ v[1] = -Off(counts, 1) /\ v[2] = -Off(counts, 2) /\ v[3] = -Off(counts, 3)
        /\ Off(counts, 1) \in Int /\ Off(counts, 2) \in Int /\ Off(counts, 3) \in Int
        /\ v[l] \in Int /\ v[l] = -Off(counts, l) /\ Off(counts, l) \in Int
    BY <1>4, <1>5, <2>1
  <2>3. v[1] <= v[l] /\ v[2] <= v[l] /\ v[3] <= v[l]
    BY <1>4, <2>1
  <2> QED BY ONLY <1>6, <2>2, <2>3
<1>8. c \in [1..3 -> Nat] /\ c[l] = counts[l] + 1 /\ \A i \in 1..3 : i # l => c[i] = counts[i]
  BY <1>1, <1>4
<1>9. Memory!Total(c) = Memory!Total(counts) + 1
  <2>1. l = 1 \/ l = 2 \/ l = 3
    BY <1>4
  <2>2. counts[1] \in Nat /\ counts[2] \in Nat /\ counts[3] \in Nat
    BY <1>1
  <2>3. /\ Memory!Total(c) = c[1] + c[2] + c[3]
        /\ Memory!Total(counts) = counts[1] + counts[2] + counts[3]
    BY DEF Memory!Total
  <2>4. (1 # l => c[1] = counts[1]) /\ (2 # l => c[2] = counts[2]) /\ (3 # l => c[3] = counts[3])
    BY <1>8
  <2> QED BY ONLY <1>8, <2>1, <2>2, <2>3, <2>4
<1>10. \A i \in 1..3 : -100 < Off(c, i) /\ Off(c, i) < 100
  <2> SUFFICES ASSUME NEW i \in 1..3 PROVE -100 < Off(c, i) /\ Off(c, i) < 100
    OBVIOUS
  <2>1. CASE i # l
    BY <1>8, <2>1 DEF Counting, Off
  <2>2. CASE i = l
    <3>1. Off(c, l) = Off(counts, l) + 100
      <4>1. Memory!Due(l) \in Nat /\ counts[l] \in Nat
        BY <1>1, <1>4, DueAll
      <4> QED BY <1>8, <4>1 DEF Off
    <3>2. -100 < Off(counts, l)
      BY <1>4 DEF Counting
    <3> QED BY <1>7, <2>2, <3>1, <3>2
  <2> QED BY <2>1, <2>2
<1>11. Memory!Total(c) <= Len(loaded)
  BY <1>n, <1>9 DEF Numbers
<1> QED BY <1>8, <1>10, <1>11 DEF Counting

(* Where there are none, one row.                                          *)
LEMMA LiftedToOne ==
  ASSUME Asked, Counting(counts), Memory!Total(counts) = Len(loaded),
         NEW c, c = [i \in 1..3 |-> IF counts[i] = 0 THEN 1 ELSE counts[i]]
  PROVE  Trimming(c)
<1>1. counts \in [1..3 -> Nat] /\ Len(loaded) \in Nat
  BY DEF Counting, Asked
<1>2. c \in [1..3 -> Nat \ {0}] /\ c \in [1..3 -> Nat] /\ \A i \in 1..3 : c[i] = IF counts[i] = 0 THEN 1 ELSE counts[i]
  BY <1>1
<1>3. Len(loaded) <= Memory!Total(c)
  <2>1. counts[1] <= c[1] /\ counts[2] <= c[2] /\ counts[3] <= c[3]
    BY <1>1, <1>2
  <2>2. Numbers(counts) /\ Numbers(c)
    BY <1>1, <1>2, OfThree
  <2>3. /\ counts[1] \in Nat /\ counts[2] \in Nat /\ counts[3] \in Nat
        /\ c[1] \in Nat /\ c[2] \in Nat /\ c[3] \in Nat
        /\ Memory!Total(counts) = counts[1] + counts[2] + counts[3] /\ Memory!Total(c) = c[1] + c[2] + c[3]
    BY <2>2 DEF Numbers
  <2>4. Memory!Total(counts) <= Memory!Total(c)
    BY ONLY <2>1, <2>3
  <2> QED BY <2>4
<1>4. ASSUME NEW i \in 1..3 PROVE Off(c, i) < 100 /\ Off(c, i) > -100 /\ (counts[i] = 0 => i \in LiftedOf(c))
  <2>1. Memory!Due(i) \in Nat /\ Memory!Due(i) > 0 /\ -100 < Off(counts, i) /\ Off(counts, i) < 100 /\ counts[i] \in Nat
    BY <1>1, DueAll DEF Counting
  <2>2. CASE counts[i] = 0
    <3>1. Memory!Due(i) < 100 /\ c[i] = 1
      BY <1>2, <2>1, <2>2 DEF Off
    <3> QED BY <2>1, <3>1 DEF Off, LiftedOf
  <2>3. CASE counts[i] # 0
    BY <1>2, <2>1, <2>3 DEF Off
  <2> QED BY <2>2, <2>3
<1>5. LiftedOf(c) # {} \/ Memory!Total(c) = Len(loaded)
  <2>1. CASE \E i \in 1..3 : counts[i] = 0
    BY <1>4, <2>1
  <2>2. CASE \A i \in 1..3 : counts[i] # 0
    <3>1. c[1] = counts[1] /\ c[2] = counts[2] /\ c[3] = counts[3]
      BY <1>2, <2>2
    <3> QED BY <3>1 DEF Memory!Total
  <2> QED BY <2>1, <2>2
<1> QED BY <1>2, <1>3, <1>4, <1>5 DEF Trimming

(* A row back from the largest.                                            *)
LEMMA TakenOne ==
  ASSUME Asked, Trimming(counts), Memory!Total(counts) > Len(loaded),
         NEW l, l = Memory!Largest({i \in 1..3 : counts[i] > 1}, counts), NEW c, c = [counts EXCEPT ![l] = @ - 1]
  PROVE  Trimming(c)
<1>1. /\ counts \in [1..3 -> Nat \ {0}] /\ counts \in [1..3 -> Nat] /\ counts \in [1..3 -> Int]
      /\ Len(loaded) \in Nat /\ Len(loaded) >= 3
  BY DEF Trimming, Asked
<1> DEFINE S == {i \in 1..3 : counts[i] > 1}
<1>n. Numbers(counts)
  BY <1>1, OfThree
<1>2. S \subseteq 1..3 /\ S # {}
  <2>1. counts[1] > 1 \/ counts[2] > 1 \/ counts[3] > 1
    BY <1>1, <1>n DEF Numbers
  <2>2. 1 \in 1..3 /\ 2 \in 1..3 /\ 3 \in 1..3
    OBVIOUS
  <2> QED BY <2>1, <2>2
<1>3. l \in S /\ \A j \in S : counts[j] <= counts[l]
  <2> HIDE DEF S
  <2> QED BY <1>1, <1>2, LargestOfThree DEF S
<1>4. l \in 1..3 /\ counts[l] > 1 /\ counts[l] \in Nat
  BY <1>1, <1>3
<1>5. \A j \in 1..3 : counts[j] <= counts[l] /\ counts[j] \in Nat
  <2> SUFFICES ASSUME NEW j \in 1..3 PROVE counts[j] <= counts[l] /\ counts[j] \in Nat
    OBVIOUS
  <2>1. counts[j] \in Nat
    BY <1>1
  <2>2. CASE counts[j] > 1
    BY <1>3, <2>1, <2>2
  <2>3. CASE ~(counts[j] > 1)
    BY <1>4, <2>1, <2>3
  <2> QED BY <2>1, <2>2, <2>3
<1> HIDE DEF S
<1>6. /\ c \in [1..3 -> Nat \ {0}] /\ c \in [1..3 -> Nat] /\ c[l] = counts[l] - 1
      /\ \A i \in 1..3 : i # l => c[i] = counts[i]
  <2>1. counts[l] - 1 \in Nat \ {0}
    BY <1>4
  <2> QED BY <1>1, <1>4, <2>1
<1>7. Memory!Total(c) = Memory!Total(counts) - 1 /\ Memory!Total(counts) \in Nat
  <2>1. l = 1 \/ l = 2 \/ l = 3
    BY <1>4
  <2>2. counts[1] \in Nat /\ counts[2] \in Nat /\ counts[3] \in Nat
    BY <1>1
  <2>3. /\ Memory!Total(c) = c[1] + c[2] + c[3]
        /\ Memory!Total(counts) = counts[1] + counts[2] + counts[3]
    BY DEF Memory!Total
  <2>4. (1 # l => c[1] = counts[1]) /\ (2 # l => c[2] = counts[2]) /\ (3 # l => c[3] = counts[3])
    BY <1>6
  <2> QED BY ONLY <1>6, <2>1, <2>2, <2>3, <2>4
<1>8. \A i \in 1..3 : Off(counts, i) \in Int /\ Off(counts, i) < 100 /\ Off(counts, i) > -100
  <2>1. Off(counts, 1) < 100 /\ Off(counts, 2) < 100 /\ Off(counts, 3) < 100
    BY DEF Trimming
  <2>2. Off(counts, 1) + Off(counts, 2) + Off(counts, 3) >= 100
    BY <1>n DEF Numbers
  <2>3. Off(counts, 1) \in Int /\ Off(counts, 2) \in Int /\ Off(counts, 3) \in Int
    BY <1>n DEF Numbers
  <2>4. Off(counts, 1) > -100 /\ Off(counts, 2) > -100 /\ Off(counts, 3) > -100
    BY ONLY <2>1, <2>2, <2>3
  <2>5. \A i \in 1..3 : i = 1 \/ i = 2 \/ i = 3
    OBVIOUS
  <2> QED BY <2>1, <2>3, <2>4, <2>5
<1>9. LiftedOf(counts) # {} /\ LiftedOf(counts) \subseteq LiftedOf(c)
  <2>1. LiftedOf(counts) # {}
    <3>1. Memory!Total(counts) # Len(loaded)
      BY <1>1, <1>7
    <3> QED BY ONLY <3>1, Trimming(counts) DEF Trimming
  <2>2. \A i \in LiftedOf(counts) : i # l
    BY <1>4 DEF LiftedOf
  <2> QED BY <1>6, <2>1, <2>2 DEF LiftedOf
<1>10. Off(c, l) = Off(counts, l) - 100
  <2>1. Memory!Due(l) \in Nat
    BY <1>4, DueAll
  <2> QED BY <1>4, <1>6, <2>1 DEF Off
<1>11. ASSUME NEW i \in 1..3 PROVE Off(c, i) < 100 /\ (Off(c, i) > -100 \/ TakenFrom(c, i))
  <2>1. CASE i # l
    <3>1. Off(c, i) = Off(counts, i)
      BY <1>6, <2>1 DEF Off
    <3> QED BY <1>8, <3>1
  <2>2. CASE i = l
    <3>1. Off(c, i) > -200 /\ Off(c, i) < 100
      BY <1>4, <1>8, <1>10, <2>2
    <3>2. \A j \in 1..3 : c[j] <= c[i] + 1
      BY <1>4, <1>5, <1>6, <2>2
    <3> QED BY <1>9, <3>1, <3>2 DEF TakenFrom
  <2> QED BY <2>1, <2>2
<1>12. Len(loaded) <= Memory!Total(c)
  BY <1>1, <1>7, <1>n DEF Numbers
<1> QED BY <1>6, <1>9, <1>11, <1>12 DEF Trimming

(* What the counts that were trimmed cut is cut as promised.               *)
LEMMA CutInThree ==
  ASSUME Asked, Trimming(counts), Memory!Total(counts) = Len(loaded), IsPermutation(indices, Len(loaded)),
         Memory!MakePartitions
  PROVE  Memory!PartsPartition' /\ Memory!NoPartIsEmpty' /\ Memory!PartsFollowRatios'
<1> DEFINE n == Len(loaded)
           a == counts[1]
           b == counts[2]
           from == <<0, a, a + b>>
           at(x, y) == [i \in 1..y - x |-> loaded[indices[x + i]]]
<1>0. counts \in [1..3 -> Nat \ {0}] /\ counts \in [1..3 -> Nat]
  BY DEF Trimming
<1>n. Numbers(counts)
  BY <1>0, OfThree
<1>m. /\ a \in Nat /\ b \in Nat /\ counts[3] \in Nat /\ n \in Nat /\ a + b + counts[3] = n
      /\ a # 0 /\ b # 0 /\ counts[3] # 0
  BY <1>0, <1>n DEF Numbers
<1>1. /\ a \in Nat /\ b \in Nat /\ counts[3] \in Nat /\ n \in Nat /\ a + b + counts[3] = n
      /\ n - (a + b) = counts[3] /\ (a + b) - a = b /\ a - 0 = a /\ a + b \in Nat
  <2> HIDE DEF a, b, n
  <2> QED BY <1>m
<1>2. /\ parts' = <<at(0, a), at(a, a + b), at(a + b, n)>> /\ pc' = "done"
      /\ UNCHANGED <<asked, indices, counts, loaded>>
  BY DEF Memory!MakePartitions, Memory!Loaded, Memory!N
<1>3. /\ DOMAIN parts' = 1..3 /\ parts'[1] = at(0, a) /\ parts'[2] = at(a, a + b) /\ parts'[3] = at(a + b, n)
  BY <1>2
<1>4. \A p \in 1..3 : p = 1 \/ p = 2 \/ p = 3
  OBVIOUS
<1>5. /\ from \in [1..3 -> Nat] /\ from[1] = 0 /\ from[2] = a /\ from[3] = a + b
  <2>1. \A x, y, z \in Nat : <<x, y, z>> \in [1..3 -> Nat] /\ <<x, y, z>>[1] = x /\ <<x, y, z>>[2] = y /\ <<x, y, z>>[3] = z
    BY ONLY <1>4
  <2>2. 0 \in Nat /\ a \in Nat /\ a + b \in Nat
    BY <1>1
  <2> HIDE DEF a, b
  <2> QED BY ONLY <2>1, <2>2
<1>6. /\ parts'[1] = [i \in 1..counts[1] |-> loaded[indices[from[1] + i]]]
      /\ parts'[2] = [i \in 1..counts[2] |-> loaded[indices[from[2] + i]]]
      /\ parts'[3] = [i \in 1..counts[3] |-> loaded[indices[from[3] + i]]]
  BY <1>1, <1>3, <1>5
<1> HIDE DEF from, at
<1>7. \A p \in 1..3 : parts'[p] = [i \in 1..counts[p] |-> loaded[indices[from[p] + i]]]
  BY <1>4, <1>6
<1>s. /\ \A p \in 1..3 : from[p] + counts[p] <= n
      /\ \A k \in 1..n : \E p \in 1..3 : from[p] < k /\ k <= from[p] + counts[p]
      /\ \A p, q \in 1..3 : p < q => from[p] + counts[p] <= from[q]
  <2> HIDE DEF n
  <2>0. 0 + counts[1] = a /\ a + counts[2] = a + b
    BY <1>1
  <2> HIDE DEF a, b
  <2> DEFINE d == counts[3]
             x == from[1] + counts[1]
             y == from[2] + counts[2]
             z == from[3] + counts[3]
  <2>1. from[1] = 0 /\ from[2] = a /\ from[3] = a + b /\ x = a /\ y = a + b /\ z = a + b + d
    BY <1>5, <2>0
  <2>2. a \in Nat /\ b \in Nat /\ d \in Nat /\ n \in Nat /\ a + b + d = n
    BY <1>1
  <2>3. 1 \in 1..3 /\ 2 \in 1..3 /\ 3 \in 1..3
    OBVIOUS
  <2>4. \A p \in 1..3 : from[p] + counts[p] <= n
    <3> HIDE DEF d
    <3>1. a <= n /\ a + b <= n /\ a + b + d <= n
      BY ONLY <2>2
    <3>2. x <= n /\ y <= n /\ z <= n
      BY <2>1, <3>1
    <3> QED BY <1>4, <3>2
  <2>5. ASSUME NEW k \in 1..n PROVE \E p \in 1..3 : from[p] < k /\ k <= from[p] + counts[p]
    <3> HIDE DEF d
    <3>1. (0 < k /\ k <= a) \/ (a < k /\ k <= a + b) \/ (a + b < k /\ k <= a + b + d)
      BY ONLY <2>2, k \in 1..n
    <3>2. (from[1] < k /\ k <= x) \/ (from[2] < k /\ k <= y) \/ (from[3] < k /\ k <= z)
      BY <2>1, <3>1
    <3> QED BY <2>3, <3>2
  <2>6. ASSUME NEW p \in 1..3, NEW q \in 1..3, p < q PROVE from[p] + counts[p] <= from[q]
    <3>1. (p = 1 /\ q = 2) \/ (p = 1 /\ q = 3) \/ (p = 2 /\ q = 3)
      BY <2>6
    <3>2. x <= from[2] /\ x <= from[3] /\ y <= from[3]
      <4> HIDE DEF x, y, z, d
      <4> QED BY ONLY <2>1, <2>2
    <3> QED BY <3>1, <3>2
  <2> QED BY <2>4, <2>5, <2>6
<1>8. \A p \in 1..3 : Len(parts'[p]) = counts[p] /\ parts'[p] # <<>>
  <2> SUFFICES ASSUME NEW p \in 1..3 PROVE Len(parts'[p]) = counts[p] /\ parts'[p] # <<>>
    OBVIOUS
  <2>1. counts[p] \in Nat /\ counts[p] # 0
    BY <1>0
  <2> DEFINE X == {loaded[indices[from[p] + i]] : i \in 1..counts[p]}
  <2>2. parts'[p] \in [1..counts[p] -> X]
    BY <1>7
  <2> HIDE DEF X
  <2>3. Len(parts'[p]) = counts[p]
    BY <2>1, <2>2, SequenceOfLength
  <2>4. Len(<<>>) = 0
    OBVIOUS
  <2> QED BY <2>1, <2>3, <2>4
<1>9. DealtBy(indices, loaded, 3, from, counts, parts')
  <2>1. \A p \in 1..3 : DOMAIN parts'[p] = 1..counts[p]
    BY <1>7
  <2>2. \A p \in 1..3 : \A i \in 1..counts[p] : parts'[p][i] = loaded[indices[from[p] + i]]
    <3> SUFFICES ASSUME NEW p \in 1..3, NEW i \in 1..counts[p]
                 PROVE  parts'[p][i] = loaded[indices[from[p] + i]]
      OBVIOUS
    <3>1. parts'[p] = [j \in 1..counts[p] |-> loaded[indices[from[p] + j]]]
      BY <1>7
    <3> QED BY <3>1
  <2> QED BY <1>3, <2>1, <2>2 DEF DealtBy
<1>10. Memory!PartsPartition'
  <2>1. Stretches(n, 3, from, counts)
    BY <1>0, <1>5, <1>s DEF Stretches
  <2> QED BY <1>1, <1>2, <1>9, <2>1, EveryRowDealt
<1>11. Memory!NoPartIsEmpty'
  BY <1>3, <1>8 DEF Memory!NoPartIsEmpty
<1>12. Memory!PartsFollowRatios'
  <2>1. \A i \in 1..3 : Memory!Due(i)' = Memory!Due(i)
    BY <1>2 DEF Memory!Due, Memory!N
  <2>2. \A i \in 1..3 : 100 * Len(parts'[i]) - Memory!Due(i)' = Off(counts, i)
    BY <1>8, <2>1 DEF Off
  <2>3. {i \in 1..3 : Memory!Due(i)' < 100 /\ Len(parts'[i]) = 1} = LiftedOf(counts)
    BY <1>8, <2>1 DEF LiftedOf
  <2>4. ASSUME NEW i \in 1..3
        PROVE  \/ -100 < Off(counts, i) /\ Off(counts, i) < 100
               \/ /\ LiftedOf(counts) # {} /\ Off(counts, i) > -200 /\ Off(counts, i) < 0
                  /\ \A j \in 1..3 : counts[j] <= counts[i] + 1
    <3>1. Off(counts, i) \in Int
      BY <1>0, DueAll DEF Off
    <3> QED BY <3>1 DEF Trimming, TakenFrom
  <2>5. \A i, j \in 1..3 : (Len(parts'[j]) <= Len(parts'[i]) + 1) <=> (counts[j] <= counts[i] + 1)
    BY <1>8
  <2> QED BY <2>2, <2>3, <2>4, <2>5 DEF Memory!PartsFollowRatios
<1> QED BY <1>10, <1>11, <1>12

-----------------------------------------------------------------------------
(* Datasets in memory: a split in two, and batches.                        *)

LEMMA Slice ==
  ASSUME NEW S, NEW s \in Seq(S), NEW a \in Nat, NEW b \in Nat, a + b <= Len(s), Len(s) \in Nat
  PROVE  /\ DOMAIN SubSeq(s, a + 1, a + b) = 1..b /\ Len(SubSeq(s, a + 1, a + b)) = b
         /\ \A i \in 1..b : SubSeq(s, a + 1, a + b)[i] = s[a + i]
<1> DEFINE x == a + 1
           y == a + b
           t == SubSeq(s, x, y)
<1>1. x \in Int /\ y \in Int /\ y - x + 1 = b /\ (IF x <= y THEN y - x + 1 ELSE 0) = b
  OBVIOUS
<1>2. \A i \in x..y : s[i] \in S
  <2>1. \A i \in x..y : i \in 1..Len(s)
    OBVIOUS
  <2> QED BY <2>1, ElementOfSeq
<1>3. \A i \in 1..b : x + i - 1 = a + i
  OBVIOUS
<1> HIDE DEF x, y
<1>4. t \in Seq(S) /\ Len(t) = b /\ \A i \in 1..b : t[i] = s[x + i - 1]
  BY <1>1, <1>2, SubSeqProperties
<1>5. DOMAIN t = 1..b
  BY <1>4, LenProperties
<1>6. \A i \in 1..b : t[i] = s[a + i]
  BY <1>3, <1>4
<1> QED BY <1>4, <1>5, <1>6 DEF x, y

(* Parts that are stretches of the rows as they are.                       *)
LEMMA SlicesDealt ==
  ASSUME Len(loaded) \in Nat, loaded \in Seq(RowsOfCells), loaded' = loaded,
         NEW m \in Nat, NEW from, NEW size, Stretches(Len(loaded), m, from, size),
         \A p \in 1..m : size[p] # 0, DOMAIN parts' = 1..m,
         \A p \in 1..m : parts'[p] = SubSeq(loaded, from[p] + 1, from[p] + size[p])
  PROVE  Memory!PartsPartition' /\ Memory!NoPartIsEmpty'
<1> DEFINE n == Len(loaded)
           g == [i \in 1..n |-> i]
<1>1. IsPermutation(g, n)
  BY DEF IsPermutation
<1>2. /\ from \in [1..m -> Nat] /\ size \in [1..m -> Nat] /\ \A p \in 1..m : from[p] + size[p] <= n
  BY DEF Stretches
<1>3. ASSUME NEW p \in 1..m
      PROVE  /\ DOMAIN parts'[p] = 1..size[p] /\ Len(parts'[p]) = size[p]
             /\ \A i \in 1..size[p] : parts'[p][i] = loaded[g[from[p] + i]]
  <2>1. from[p] \in Nat /\ size[p] \in Nat /\ from[p] + size[p] <= n
    BY <1>2
  <2>2. PICK a, b : a = from[p] /\ b = size[p]
    OBVIOUS
  <2>3. parts'[p] = SubSeq(loaded, a + 1, a + b)
    BY <2>2
  <2>4. /\ DOMAIN parts'[p] = 1..b /\ Len(parts'[p]) = b /\ \A i \in 1..b : parts'[p][i] = loaded[a + i]
    <3>1. a \in Nat /\ b \in Nat /\ a + b <= Len(loaded)
      BY <2>1, <2>2
    <3>2. PICK t : t = SubSeq(loaded, a + 1, a + b)
      OBVIOUS
    <3>3. DOMAIN t = 1..b /\ Len(t) = b /\ \A i \in 1..b : t[i] = loaded[a + i]
      BY <3>1, <3>2, Slice
    <3> QED BY <2>3, <3>2, <3>3
  <2>5. \A i \in 1..b : g[a + i] = a + i
    <3> SUFFICES ASSUME NEW i \in 1..b PROVE g[a + i] = a + i
      OBVIOUS
    <3>1. a + i \in 1..n
      BY ONLY <2>1, <2>2, i \in 1..b, n \in Nat, InStretch
    <3> QED BY <3>1
  <2> QED BY <2>2, <2>4, <2>5
<1> HIDE DEF g
<1>4. DealtBy(g, loaded, m, from, size, parts')
  BY <1>3 DEF DealtBy
<1>5. Memory!PartsPartition'
  BY <1>1, <1>4, EveryRowDealt
<1>6. Memory!NoPartIsEmpty'
  <2>1. \A p \in 1..m : Len(parts'[p]) # 0
    BY <1>3
  <2>2. Len(<<>>) = 0
    OBVIOUS
  <2>3. \A p \in 1..m : parts'[p] # <<>>
    BY <2>1, <2>2
  <2> QED BY <2>3 DEF Memory!NoPartIsEmpty
<1> QED BY <1>5, <1>6

LEMMA TestSizeInside ==
  ASSUME Len(loaded) \in Nat, Len(loaded) >= 2, NEW ratio \in Int
  PROVE  Memory!TestSize(ratio) \in Nat \ {0} /\ Len(loaded) - Memory!TestSize(ratio) \in Nat \ {0}
<1> DEFINE n == Len(loaded)
           r == (2 * n * ratio + 100) \div 200
<1>1. n \in Nat /\ n >= 2
  OBVIOUS
<1>2. r \in Int
  <2>1. 2 * n * ratio + 100 \in Int
    BY <1>1
  <2> HIDE DEF n
  <2>2. \A x \in Int : x \div 200 \in Int
    OBVIOUS
  <2> QED BY <2>1, <2>2
<1>3. Memory!TestSize(ratio) = IF r < 1 THEN 1 ELSE IF r > n - 1 THEN n - 1 ELSE r
  BY DEF Memory!TestSize, Memory!N
<1> HIDE DEF n, r
<1>4. Memory!TestSize(ratio) \in Nat \ {0} /\ n - Memory!TestSize(ratio) \in Nat \ {0}
  BY <1>1, <1>2, <1>3
<1> QED BY <1>4 DEF n

(* A row at least for either part, and the rest for the other.             *)
LEMMA CutForTest ==
  ASSUME Len(loaded) \in Nat, Len(loaded) >= 2, loaded \in Seq(RowsOfCells), loaded' = loaded, NEW ratio \in Int,
         parts' = <<SubSeq(loaded, 1, Memory!N - Memory!TestSize(ratio)),
                    SubSeq(loaded, Memory!N - Memory!TestSize(ratio) + 1, Memory!N)>>
  PROVE  Memory!PartsPartition' /\ Memory!NoPartIsEmpty'
<1>1. PICK n, t, a : n = Len(loaded) /\ t = Memory!TestSize(ratio) /\ a = n - t
  OBVIOUS
<1>2. n \in Nat /\ t \in Nat /\ a \in Nat /\ t # 0 /\ a # 0 /\ a + t = n
  <2>1. t \in Nat \ {0} /\ n - t \in Nat \ {0} /\ n \in Nat
    BY <1>1, TestSizeInside
  <2> QED BY ONLY <1>1, <2>1
<1> DEFINE from == <<0, a>>
           size == <<a, t>>
<1>3. /\ parts'[1] = SubSeq(loaded, 0 + 1, 0 + a) /\ parts'[2] = SubSeq(loaded, a + 1, a + t)
      /\ DOMAIN parts' = 1..2
  <2>1. 0 + 1 = 1 /\ 0 + a = a
    BY <1>2
  <2>2. PICK x, y : x = SubSeq(loaded, 1, a) /\ y = SubSeq(loaded, a + 1, n)
    OBVIOUS
  <2>3. parts' = <<x, y>>
    BY <1>1, <2>2 DEF Memory!N
  <2>4. parts'[1] = x /\ parts'[2] = y /\ DOMAIN parts' = 1..2
    BY <2>3
  <2> QED BY <1>2, <2>1, <2>2, <2>4
<1>4. \A p \in 1..2 : p = 1 \/ p = 2
  OBVIOUS
<1>5. from \in [1..2 -> Nat] /\ size \in [1..2 -> Nat] /\ from[1] = 0 /\ from[2] = a /\ size[1] = a /\ size[2] = t
  BY <1>2, <1>4
<1> HIDE DEF from, size
<1>6. Stretches(n, 2, from, size)
  <2>1. 0 + a <= n /\ a + t <= n /\ 0 + a = a /\ 1 \in 1..2 /\ 2 \in 1..2
    BY <1>2
  <2>2. ASSUME NEW p \in 1..2 PROVE from[p] + size[p] <= n
    BY <1>4, <1>5, <2>1
  <2>3. ASSUME NEW k \in 1..n PROVE \E p \in 1..2 : from[p] < k /\ k <= from[p] + size[p]
    <3>1. (0 < k /\ k <= 0 + a) \/ (a < k /\ k <= a + t)
      BY <1>2
    <3> QED BY <1>5, <2>1, <3>1
  <2>4. ASSUME NEW p \in 1..2, NEW q \in 1..2, p < q PROVE from[p] + size[p] <= from[q]
    <3>1. p = 1 /\ q = 2
      BY <2>4
    <3> QED BY <1>2, <1>5, <2>1, <3>1
  <2> QED BY <1>5, <2>2, <2>3, <2>4 DEF Stretches
<1>7. ASSUME NEW p \in 1..2 PROVE size[p] # 0 /\ parts'[p] = SubSeq(loaded, from[p] + 1, from[p] + size[p])
  <2>2. CASE p = 1
    BY <1>2, <1>3, <1>5, <2>2
  <2>3. CASE p = 2
    BY <1>2, <1>3, <1>5, <2>3
  <2> QED BY <1>4, <2>2, <2>3
<1>8. DOMAIN parts' = 1..2 /\ 2 \in Nat
  BY <1>3
<1> QED BY <1>1, <1>2, <1>6, <1>7, <1>8, SlicesDealt

LEMMA Monotone ==
  ASSUME NEW x \in Nat, NEW y \in Nat, NEW size \in Nat, x <= y
  PROVE  x * size <= y * size /\ x * size \in Nat /\ y * size \in Nat
<1>1. PICK d \in Nat : y = x + d
  OBVIOUS
<1>2. (x + d) * size = x * size + d * size /\ x * size \in Nat /\ d * size \in Nat
  OBVIOUS
<1> QED BY <1>1, <1>2

LEMMA BatchesCover ==
  ASSUME NEW n \in Nat \ {0}, NEW size \in Nat \ {0}, NEW m, m = (n + size - 1) \div size
  PROVE  m \in Nat \ {0} /\ (m - 1) * size < n /\ n <= m * size
<1>1. PICK x \in Nat : x = n + size - 1
  OBVIOUS
<1>2. m \in Nat /\ size * m <= x /\ x < size * m + size
  BY <1>1
<1>3. size * m = m * size /\ m * size \in Nat
  BY <1>2
<1>4. n <= m * size
  BY <1>1, <1>2, <1>3
<1>5. m # 0
  BY <1>4
<1>6. (m - 1) * size = m * size - size
  BY <1>2
<1> QED BY <1>1, <1>2, <1>3, <1>4, <1>5, <1>6

(* Batches lie side by side, and the last has what is left.                *)
Starts(m, size) == [b \in 1..m |-> (b - 1) * size]
Lengths(n, m, size) == [b \in 1..m |-> Memory!Min({b * size, n}) - (b - 1) * size]

SideBySide(n, size, m, from, len) ==
  /\ Stretches(n, m, from, len)
  /\ \A b \in 1..m : len[b] # 0 /\ from[b] + len[b] = Memory!Min({b * size, n}) /\ from[b] = (b - 1) * size

LEMMA OfBatches ==
  ASSUME NEW n \in Nat \ {0}, NEW size \in Nat \ {0}, NEW m, m = (n + size - 1) \div size,
         NEW from, from = Starts(m, size), NEW len, len = Lengths(n, m, size)
  PROVE  SideBySide(n, size, m, from, len)
<1>1. m \in Nat \ {0} /\ (m - 1) * size < n /\ n <= m * size
  BY BatchesCover
<1> DEFINE e(b) == Memory!Min({b * size, n})
<1>2. ASSUME NEW b \in 1..m
      PROVE  /\ (b - 1) * size \in Nat /\ e(b) \in Nat /\ (b - 1) * size < e(b) /\ e(b) <= n
             /\ e(b) <= b * size /\ b * size \in Nat
             /\ \A k \in Nat : k <= b * size /\ k <= n => k <= e(b)
  <2>1. b \in Nat /\ b - 1 \in Nat /\ m - 1 \in Nat /\ b - 1 <= m - 1
    BY <1>1
  <2>2. (b - 1) * size <= (m - 1) * size /\ (b - 1) * size \in Nat /\ (m - 1) * size \in Nat
    BY <2>1, Monotone
  <2>3. b * size = (b - 1) * size + size /\ b * size \in Nat
    BY <2>1
  <2>4. {b * size, n} \subseteq Nat /\ {b * size, n} # {}
    BY <2>3
  <2>5. e(b) \in {b * size, n} /\ \A y \in {b * size, n} : e(b) <= y
    BY <2>4, MemoryMin
  <2> HIDE DEF e
  <2> QED BY <1>1, <2>2, <2>3, <2>5
<1> HIDE DEF e
<1>3. ASSUME NEW b \in 1..m
      PROVE  from[b] = (b - 1) * size /\ len[b] = e(b) - (b - 1) * size
  BY DEF e, Starts, Lengths
<1>4. ASSUME NEW b \in 1..m
      PROVE  /\ from[b] \in Nat /\ len[b] \in Nat /\ len[b] # 0 /\ from[b] + len[b] = e(b)
             /\ from[b] + len[b] <= n /\ from[b] + len[b] <= b * size
  <2>1. PICK u, v : u = (b - 1) * size /\ v = e(b)
    OBVIOUS
  <2>2. u \in Nat /\ v \in Nat /\ u < v /\ v <= n /\ v <= b * size
    BY <1>2, <2>1
  <2>3. v - u \in Nat /\ v - u # 0 /\ u + (v - u) = v
    BY <2>2
  <2> QED BY <1>3, <2>1, <2>2, <2>3
<1>5. from \in [1..m -> Nat] /\ len \in [1..m -> Nat]
  <2>1. from = [b \in 1..m |-> from[b]] /\ len = [b \in 1..m |-> len[b]]
    BY DEF Starts, Lengths
  <2> QED BY <1>4, <2>1
<1>6. ASSUME NEW k \in 1..n PROVE \E p \in 1..m : from[p] < k /\ k <= from[p] + len[p]
  <2>1. k \in Nat \ {0} /\ k <= n
    OBVIOUS
  <2>2. PICK a \in Nat, j \in 1..size : k = a * size + j
    BY <2>1, Position
  <2>3. a * size \in Nat /\ a * size < k /\ k <= a * size + size
    BY <2>2
  <2>4. ~(m <= a)
    <3>1. m <= a => m * size <= a * size /\ m * size \in Nat
      BY <1>1, Monotone
    <3> QED BY <1>1, <2>1, <2>3, <3>1
  <2>5. a + 1 \in 1..m /\ (a + 1) - 1 = a /\ (a + 1) * size = a * size + size
    BY <1>1, <2>4
  <2>6. from[a + 1] = a * size /\ k <= e(a + 1)
    BY <1>2, <1>3, <2>1, <2>3, <2>5
  <2> QED BY <1>4, <2>3, <2>5, <2>6
<1>7. ASSUME NEW p \in 1..m, NEW q \in 1..m, p < q PROVE from[p] + len[p] <= from[q]
  <2>1. p \in Nat /\ q - 1 \in Nat /\ p <= q - 1
    BY <1>1, <1>7
  <2>2. p * size <= (q - 1) * size /\ p * size \in Nat /\ (q - 1) * size \in Nat
    BY <2>1, Monotone
  <2>3. PICK u, v, w : u = from[p] + len[p] /\ v = p * size /\ w = (q - 1) * size
    OBVIOUS
  <2>4. u <= v /\ from[q] = w
    BY <1>3, <1>4, <2>3
  <2>5. from[p] \in Nat /\ len[p] \in Nat
    BY <1>4
  <2>6. u \in Nat
    BY ONLY <2>3, <2>5
  <2>7. v \in Nat /\ w \in Nat /\ v <= w
    BY <2>2, <2>3
  <2>8. u <= w
    BY ONLY <2>4, <2>6, <2>7
  <2> QED BY <2>3, <2>4, <2>8
<1>8. Stretches(n, m, from, len)
  BY <1>4, <1>5, <1>6, <1>7 DEF Stretches
<1>9. ASSUME NEW b \in 1..m
      PROVE  len[b] # 0 /\ from[b] + len[b] = Memory!Min({b * size, n}) /\ from[b] = (b - 1) * size
  <2>1. e(b) = Memory!Min({b * size, n})
    BY DEF e
  <2> QED BY <1>3, <1>4, <2>1
<1> QED BY <1>8, <1>9 DEF SideBySide

LEMMA CutInBatches ==
  ASSUME Len(loaded) \in Nat \ {0}, loaded \in Seq(RowsOfCells), loaded' = loaded, NEW size \in Nat \ {0},
         parts' = Memory!Batches(size)
  PROVE  Memory!PartsPartition' /\ Memory!NoPartIsEmpty'
<1>1. PICK n, m : n = Len(loaded) /\ m = (n + size - 1) \div size
  OBVIOUS
<1>2. PICK from, len : from = Starts(m, size) /\ len = Lengths(n, m, size)
  OBVIOUS
<1>3. /\ Stretches(n, m, from, len)
      /\ \A b \in 1..m : len[b] # 0 /\ from[b] + len[b] = Memory!Min({b * size, n}) /\ from[b] = (b - 1) * size
  <2>1. n \in Nat \ {0} /\ m = (n + size - 1) \div size
    BY <1>1
  <2>2. SideBySide(n, size, m, from, len)
    BY <1>2, <2>1, OfBatches
  <2> QED BY <2>2 DEF SideBySide
<1>4. parts' = [b \in 1..m |-> SubSeq(loaded, (b - 1) * size + 1, Memory!Min({b * size, n}))]
  BY <1>1 DEF Memory!Batches, Memory!N
<1>5. \A p \in 1..m : parts'[p] = SubSeq(loaded, from[p] + 1, from[p] + len[p])
  BY <1>3, <1>4
<1>6. m \in Nat /\ DOMAIN parts' = 1..m
  BY <1>1, <1>4, BatchesCover
<1> QED BY <1>1, <1>3, <1>5, <1>6, SlicesDealt

-----------------------------------------------------------------------------
(* Datasets in memory: the invariant.                                      *)

(* Until the parts are cut: the indices are a permutation at every step of *)
(* the shuffle, and the counts are never farther from what is due than one *)
(* row and what was lifted take them.                                      *)
SplitInThree ==
  /\ pc \in {"shuffle", "count", "lift", "trim", "cut"} => Asked /\ IsPermutation(indices, Len(loaded))
  /\ pc = "shuffle" => \E k \in 1..Len(loaded) : counts = <<k>>
  /\ pc \in {"count", "lift"} => Counting(counts)
  /\ pc \in {"trim", "cut"} => Trimming(counts)
  /\ pc \in {"lift", "cut"} => Memory!Total(counts) = Len(loaded)

MemoryInv ==
  /\ TextGiven /\ ReadSoFar
  /\ pc \notin {"read", "error"} => Memory!Left = {} /\ Memory!DataLines # {}
  /\ pc # "error" => refusal = None
  /\ indices = <<>> \/ IsPermutation(indices, Len(loaded))
  /\ pc \in {"read", "new", "ready"} => indices = <<>>
  /\ SplitInThree
  /\ Memory!PartsPartition /\ Memory!NoPartIsEmpty /\ Memory!PartsFollowRatios

LEMMA MemoryStarts ==
  ASSUME Memory!Init PROVE MemoryInv
<1>1. /\ csv \in Texts /\ target_columns \in TargetColumns /\ has_header \in BOOLEAN
      /\ pc = "read" /\ at_line = 0 /\ loaded = <<>> /\ refusal = None /\ indices = <<>>
  BY DEF Memory!Init
<1>2. TextGiven
  BY <1>1, MemoryParameters DEF TextGiven
<1>3. UpTo(at_line) = {}
  <2>1. \A l \in Memory!DataLines : l \in 1..Len(csv)
    BY <1>2, CountedLines
  <2>2. \A l \in Memory!DataLines : ~(l <= 0)
    BY <2>1
  <2> QED BY <1>1, <2>2 DEF UpTo
<1>4. ReadSoFar
  <2>1. Len(csv) \in Nat
    BY <1>2, CountedLines
  <2>2. at_line \in 0..Len(csv)
    BY <1>1, <2>1
  <2>3. loaded \in Seq(RowsOfCells) /\ Len(loaded) = 0
    BY <1>1, EmptySeq
  <2>4. Cardinality(UpTo(at_line)) = 0
    BY <1>3, FS_EmptySet
  <2>5. \A i \in 1..Len(loaded) : FALSE
    BY <2>3
  <2> QED BY <1>3, <2>2, <2>3, <2>4, <2>5 DEF ReadSoFar
<1>5. Memory!PartsPartition /\ Memory!NoPartIsEmpty /\ Memory!PartsFollowRatios
  BY <1>1 DEF Memory!PartsPartition, Memory!NoPartIsEmpty, Memory!PartsFollowRatios
<1>6. SplitInThree
  BY <1>1 DEF SplitInThree
<1> QED BY <1>1, <1>2, <1>4, <1>5, <1>6 DEF MemoryInv

(* Once it was read the text is not looked at again.                       *)
LEMMA LoadedStays ==
  ASSUME MemoryInv, UNCHANGED <<csv, target_columns, has_header, at_line, loaded>>
  PROVE  /\ TextGiven' /\ ReadSoFar' /\ Memory!Left' = Memory!Left /\ Memory!DataLines' = Memory!DataLines
         /\ UNCHANGED indices => (indices' = <<>> \/ IsPermutation(indices, Len(loaded))')
<1>1. UNCHANGED <<csv, target_columns, has_header>> /\ UNCHANGED <<at_line, loaded>>
  OBVIOUS
<1>2. TextGiven' /\ ReadSoFar' /\ Memory!Left' = Memory!Left /\ Memory!DataLines' = Memory!DataLines
  BY <1>1, ReadStays DEF MemoryInv
<1>3. UNCHANGED indices => (indices' = <<>> \/ IsPermutation(indices, Len(loaded))')
  BY <1>1 DEF MemoryInv, IsPermutation
<1> QED BY <1>2, <1>3

(* What is due depends on the call and the rows only.                      *)
LEMMA CountsStay ==
  ASSUME loaded' = loaded, asked' = asked, NEW c
  PROVE  (Asked => Asked') /\ (Counting(c) => Counting(c)') /\ (Trimming(c) => Trimming(c)')
<1>1. Asked => Asked'
  BY DEF Asked, Memory!ConfigValid
<1>2. ASSUME NEW i PROVE Memory!Due(i)' = Memory!Due(i) /\ Off(c, i)' = Off(c, i)
  <2>1. Memory!Due(i)' = Memory!Due(i)
    BY DEF Memory!Due, Memory!N
  <2> QED BY <2>1 DEF Off
<1>3. Memory!Total(c)' = Memory!Total(c) /\ LiftedOf(c)' = LiftedOf(c)
  BY <1>2 DEF Memory!Total, LiftedOf
<1>4. Counting(c) => Counting(c)'
  BY <1>2, <1>3 DEF Counting
<1>5. Trimming(c) => Trimming(c)'
  BY <1>2, <1>3 DEF Trimming, TakenFrom
<1> QED BY <1>1, <1>4, <1>5

LEMMA MemoryRests ==
  ASSUME MemoryInv, UNCHANGED <<csv, target_columns, has_header, pc, at_line, loaded, refusal, asked, indices, counts, parts>>
  PROVE  MemoryInv'
<1>1. /\ TextGiven' /\ ReadSoFar' /\ Memory!Left' = Memory!Left /\ Memory!DataLines' = Memory!DataLines
      /\ indices' = <<>> \/ IsPermutation(indices, Len(loaded))'
  BY LoadedStays
<1>2. SplitInThree'
  <2>1. PICK c : c = counts
    OBVIOUS
  <2>2. counts' = c /\ pc' = pc /\ loaded' = loaded /\ asked' = asked /\ indices' = indices
    BY <2>1
  <2>3. (Asked => Asked') /\ (Counting(c) => Counting(c)') /\ (Trimming(c) => Trimming(c)')
    BY <2>2, CountsStay
  <2>4. /\ (IsPermutation(indices, Len(loaded)) => IsPermutation(indices, Len(loaded))')
        /\ (Counting(counts) => Counting(counts)') /\ (Trimming(counts) => Trimming(counts)')
        /\ Memory!Total(counts)' = Memory!Total(counts)
    <3>1. Counting(counts)' <=> Counting(c)'
      BY <2>2 DEF Counting, Memory!Total, Off, Memory!Due, Memory!N
    <3>2. Trimming(counts)' <=> Trimming(c)'
      BY <2>2 DEF Trimming, TakenFrom, LiftedOf, Memory!Total, Off, Memory!Due, Memory!N
    <3>3. Memory!Total(counts)' = Memory!Total(counts)
      BY <2>1, <2>2 DEF Memory!Total
    <3>4. IsPermutation(indices, Len(loaded)) => IsPermutation(indices, Len(loaded))'
      BY <2>2 DEF IsPermutation
    <3> QED BY <2>1, <2>3, <3>1, <3>2, <3>3, <3>4
  <2> QED BY <2>2, <2>3, <2>4 DEF MemoryInv, SplitInThree
<1>3. Memory!PartsPartition' /\ Memory!NoPartIsEmpty' /\ Memory!PartsFollowRatios'
  <2>1. Memory!N' = Memory!N /\ Memory!Dealt' = Memory!Dealt /\ (Memory!InThree' <=> Memory!InThree)
    BY DEF Memory!N, Memory!Dealt, Memory!InThree
  <2>2. \A i : Memory!Due(i)' = Memory!Due(i)
    BY <2>1 DEF Memory!Due
  <2>3. Memory!PartsPartition'
    <3> HIDE DEF Memory!N, Memory!Dealt
    <3>1. ASSUME NEW r
          PROVE  /\ {i \in 1..Memory!N' : loaded'[i] = r} = {i \in 1..Memory!N : loaded[i] = r}
                 /\ {d \in Memory!Dealt' : parts'[d[1]][d[2]] = r} = {d \in Memory!Dealt : parts[d[1]][d[2]] = r}
      BY <2>1
    <3>2. {loaded'[i] : i \in 1..Memory!N'} = {loaded[i] : i \in 1..Memory!N}
      BY <2>1
    <3>3. pc' = pc /\ Memory!PartsPartition
      BY DEF MemoryInv
    <3> QED BY <2>1, <3>1, <3>2, <3>3 DEF Memory!PartsPartition
  <2>4. Memory!NoPartIsEmpty'
    BY DEF MemoryInv, Memory!NoPartIsEmpty
  <2>5. Memory!PartsFollowRatios'
    BY <2>1, <2>2 DEF MemoryInv, Memory!PartsFollowRatios
  <2> QED BY <2>3, <2>4, <2>5
<1> QED BY <1>1, <1>2, <1>3 DEF MemoryInv

(* A call that is refused, or that goes on, has returned nothing.          *)
LEMMA NothingReturned ==
  ASSUME pc' # "done"
  PROVE  Memory!PartsPartition' /\ Memory!NoPartIsEmpty' /\ Memory!PartsFollowRatios'
BY DEF Memory!PartsPartition, Memory!NoPartIsEmpty, Memory!PartsFollowRatios

LEMMA CallRefused ==
  ASSUME MemoryInv, NEW kind, NEW row, Memory!Fail(kind, row),
         UNCHANGED <<csv, target_columns, has_header, at_line, loaded, indices>>
  PROVE  MemoryInv'
<1>1. pc' = "error"
  BY DEF Memory!Fail
<1>2. TextGiven' /\ ReadSoFar' /\ (indices' = <<>> \/ IsPermutation(indices, Len(loaded))')
  BY LoadedStays
<1>3. SplitInThree'
  BY <1>1 DEF SplitInThree
<1> QED BY <1>1, <1>2, <1>3, NothingReturned DEF MemoryInv

LEMMA ReadingGoesOn ==
  ASSUME MemoryInv, Memory!ReadLine PROVE MemoryInv'
<1>1. /\ pc = "read" /\ pc' \in {"new", "read"} /\ UNCHANGED <<refusal, indices>>
  BY DEF Memory!ReadLine, Memory!Splitting
<1>2. TextGiven' /\ ReadSoFar' /\ Memory!DataLines' # {} /\ (pc' # "read" => Memory!Left' = {})
  BY LineRead DEF MemoryInv
<1>3. indices' = <<>> /\ refusal' = None
  BY <1>1 DEF MemoryInv
<1>4. SplitInThree'
  BY <1>1 DEF SplitInThree
<1> QED BY <1>1, <1>2, <1>3, <1>4, NothingReturned DEF MemoryInv

LEMMA DatasetMade ==
  ASSUME MemoryInv, Memory!New PROVE MemoryInv'
<1>1. /\ pc = "new" /\ pc' = "ready"
      /\ UNCHANGED <<csv, target_columns, has_header, at_line, loaded, refusal, indices>>
  BY DEF Memory!New, Memory!Given, Memory!Splitting
<1>2. /\ TextGiven' /\ ReadSoFar' /\ Memory!Left' = Memory!Left /\ Memory!DataLines' = Memory!DataLines
  BY <1>1, LoadedStays
<1>3. indices' = <<>> /\ refusal' = None /\ Memory!Left = {} /\ Memory!DataLines # {}
  BY <1>1 DEF MemoryInv
<1>4. SplitInThree'
  BY <1>1 DEF SplitInThree
<1> QED BY <1>1, <1>2, <1>3, <1>4, NothingReturned DEF MemoryInv

(* What a call on a dataset that is ready knows.                           *)
LEMMA RowsAtHand ==
  ASSUME MemoryInv, pc \notin {"read", "error"}
  PROVE  Len(loaded) \in Nat \ {0} /\ loaded \in Seq(RowsOfCells) /\ Memory!N = Len(loaded)
<1>1. TextGiven /\ ReadSoFar /\ Memory!Left = {} /\ Memory!DataLines # {}
  BY DEF MemoryInv
<1>2. Len(loaded) \in Nat \ {0}
  BY <1>1, RowsAreLines
<1>3. loaded \in Seq(RowsOfCells)
  BY <1>1 DEF ReadSoFar
<1> QED BY <1>2, <1>3 DEF Memory!N

(* Parts that are the rows in their order were cut without indices.        *)
LEMMA CutInOrder ==
  ASSUME MemoryInv, pc = "ready", pc' = "done", UNCHANGED <<csv, target_columns, has_header, at_line, loaded, refusal, indices>>,
         Memory!PartsPartition', Memory!NoPartIsEmpty'
  PROVE  MemoryInv'
<1>1. indices' = <<>> /\ refusal' = None /\ Memory!Left = {} /\ Memory!DataLines # {}
  BY DEF MemoryInv
<1>2. Memory!PartsFollowRatios'
  BY <1>1 DEF Memory!PartsFollowRatios, Memory!InThree
<1>3. SplitInThree'
  BY DEF SplitInThree
<1>4. /\ TextGiven' /\ ReadSoFar' /\ Memory!Left' = Memory!Left /\ Memory!DataLines' = Memory!DataLines
  BY LoadedStays
<1> QED BY <1>1, <1>2, <1>3, <1>4 DEF MemoryInv

LEMMA SplitInTwo ==
  ASSUME MemoryInv, Memory!train_test_split PROVE MemoryInv'
<1>1. PICK ratio \in TestRatios :
        IF ratio < 0 \/ ratio >= 100 THEN Memory!Fail("InvalidSplitRatio", None)
        ELSE IF Memory!N < 2 THEN Memory!Fail("EmptyDataset", None)
        ELSE /\ parts' = <<SubSeq(loaded, 1, Memory!N - Memory!TestSize(ratio)),
                           SubSeq(loaded, Memory!N - Memory!TestSize(ratio) + 1, Memory!N)>>
             /\ pc' = "done" /\ UNCHANGED refusal
  BY DEF Memory!train_test_split
<1>2. pc = "ready" /\ UNCHANGED <<csv, target_columns, has_header, at_line, loaded, indices>>
  BY DEF Memory!train_test_split, Memory!Loaded
<1>3. CASE \E kind : Memory!Fail(kind, None)
  BY <1>2, <1>3, CallRefused
<1>4. CASE ~(\E kind : Memory!Fail(kind, None))
  <2>1. /\ ~(Memory!N < 2) /\ pc' = "done" /\ UNCHANGED refusal
        /\ parts' = <<SubSeq(loaded, 1, Memory!N - Memory!TestSize(ratio)),
                      SubSeq(loaded, Memory!N - Memory!TestSize(ratio) + 1, Memory!N)>>
    BY <1>1, <1>4
  <2>2. Len(loaded) \in Nat /\ loaded \in Seq(RowsOfCells) /\ Len(loaded) >= 2 /\ ratio \in Int
    BY <1>2, <2>1, RowsAtHand, MemoryParameters
  <2>3. Memory!PartsPartition' /\ Memory!NoPartIsEmpty'
    BY <1>2, <2>1, <2>2, CutForTest
  <2> QED BY <1>2, <2>1, <2>3, CutInOrder
<1> QED BY <1>3, <1>4

LEMMA BatchesMade ==
  ASSUME MemoryInv, Memory!batches PROVE MemoryInv'
<1>1. PICK size \in BatchLengths :
        IF size = 0 THEN Memory!Fail("InvalidBatchSize", None)
        ELSE parts' = Memory!Batches(size) /\ pc' = "done" /\ UNCHANGED refusal
  BY DEF Memory!batches
<1>2. pc = "ready" /\ UNCHANGED <<csv, target_columns, has_header, at_line, loaded, indices>>
  BY DEF Memory!batches, Memory!Loaded
<1>3. CASE size = 0
  BY <1>1, <1>2, <1>3, CallRefused
<1>4. CASE size # 0
  <2>1. Len(loaded) \in Nat \ {0} /\ loaded \in Seq(RowsOfCells) /\ size \in Nat \ {0}
    BY <1>2, <1>4, RowsAtHand, MemoryParameters
  <2>2. Memory!PartsPartition' /\ Memory!NoPartIsEmpty'
    BY <1>1, <1>2, <1>4, <2>1, CutInBatches
  <2> QED BY <1>1, <1>2, <1>4, <2>2, CutInOrder
<1> QED BY <1>3, <1>4

LEMMA ShuffleStarts ==
  ASSUME MemoryInv, Memory!train_validation_test_split PROVE MemoryInv'
<1>1. PICK config \in Configs :
        /\ asked' = [call |-> "train_validation_test_split", of |-> config]
        /\ IF ~Memory!ConfigValid(config) THEN Memory!Fail("InvalidSplitConfiguration", None) /\ UNCHANGED <<indices, counts>>
           ELSE IF Memory!N < 3 THEN Memory!Fail("EmptyDataset", None) /\ UNCHANGED <<indices, counts>>
           ELSE /\ indices' = [i \in 1..Memory!N |-> i] /\ counts' = <<Memory!N>>
                /\ pc' = "shuffle" /\ UNCHANGED refusal
  BY DEF Memory!train_validation_test_split
<1>2. pc = "ready" /\ UNCHANGED <<csv, target_columns, has_header, at_line, loaded>>
  BY DEF Memory!train_validation_test_split, Memory!Loaded
<1>3. CASE (\E kind : Memory!Fail(kind, None)) /\ UNCHANGED indices
  BY <1>2, <1>3, CallRefused
<1>4. CASE ~((\E kind : Memory!Fail(kind, None)) /\ UNCHANGED indices)
  <2>1. /\ Memory!ConfigValid(config) /\ ~(Memory!N < 3) /\ pc' = "shuffle" /\ UNCHANGED refusal
        /\ indices' = [i \in 1..Memory!N |-> i] /\ counts' = <<Memory!N>>
    BY <1>1, <1>4
  <2>2. PICK n : n = Len(loaded)
    OBVIOUS
  <2>3. n \in Nat \ {0} /\ n >= 3 /\ Memory!N = n /\ Len(loaded') = n
    BY <1>2, <2>1, <2>2, RowsAtHand
  <2>4. IsPermutation(indices, Len(loaded))'
    <3>1. indices' = [i \in 1..n |-> i]
      BY <2>1, <2>3
    <3>2. IsPermutation(indices', n)
      BY <3>1 DEF IsPermutation
    <3> QED BY <2>3, <3>2 DEF IsPermutation
  <2>5. Asked'
    <3>1. asked'.of = config /\ config \in [1..3 -> Int]
      BY <1>1, MemoryParameters
    <3> QED BY <2>1, <2>3, <3>1 DEF Asked, Memory!ConfigValid
  <2>6. n \in 1..Len(loaded') /\ counts' = <<n>>
    BY <2>1, <2>3
  <2>7. SplitInThree'
    BY <2>1, <2>4, <2>5, <2>6 DEF SplitInThree
  <2>8. TextGiven' /\ ReadSoFar' /\ Memory!Left' = {} /\ Memory!DataLines' # {} /\ refusal' = None
    BY <1>2, <2>1, LoadedStays DEF MemoryInv
  <2> QED BY <2>1, <2>4, <2>7, <2>8, NothingReturned DEF MemoryInv
<1> QED BY <1>3, <1>4

(* A step of the split in three that returns nothing yet.                  *)
LEMMA SplitGoesOn ==
  ASSUME MemoryInv, pc \notin {"read", "error"}, pc' \in {"shuffle", "count", "lift", "trim", "cut"},
         UNCHANGED <<csv, target_columns, has_header, at_line, loaded, refusal>>,
         SplitInThree'
  PROVE  MemoryInv'
<1>1. TextGiven' /\ ReadSoFar' /\ Memory!Left' = {} /\ Memory!DataLines' # {} /\ refusal' = None
  BY LoadedStays DEF MemoryInv
<1>2. IsPermutation(indices, Len(loaded))'
  BY DEF SplitInThree
<1> QED BY <1>1, <1>2, NothingReturned DEF MemoryInv

(* What such a step leaves alone.                                          *)
LEMMA CountsGoOn ==
  ASSUME MemoryInv, pc \in {"shuffle", "count", "lift", "trim", "cut"}, UNCHANGED <<loaded, asked>>
  PROVE  /\ Asked /\ Asked' /\ Len(loaded) \in Nat /\ Memory!N = Len(loaded) /\ IsPermutation(indices, Len(loaded))
         /\ UNCHANGED indices => IsPermutation(indices, Len(loaded))'
         /\ Counting(counts') => Counting(counts)'
         /\ Trimming(counts') => Trimming(counts)'
<1>1. Asked /\ IsPermutation(indices, Len(loaded))
  BY DEF MemoryInv, SplitInThree
<1>2. PICK c : c = counts'
  OBVIOUS
<1>3. Asked' /\ (Counting(c) => Counting(c)') /\ (Trimming(c) => Trimming(c)')
  BY <1>1, CountsStay
<1>4. (Counting(counts)' <=> Counting(c)') /\ (Trimming(counts)' <=> Trimming(c)')
  <2>1. Counting(counts)' <=> Counting(c)'
    BY <1>2 DEF Counting, Memory!Total, Off, Memory!Due, Memory!N
  <2>2. Trimming(counts)' <=> Trimming(c)'
    BY <1>2 DEF Trimming, TakenFrom, LiftedOf, Memory!Total, Off, Memory!Due, Memory!N
  <2> QED BY <2>1, <2>2
<1>5. (Counting(counts') <=> Counting(c)) /\ (Trimming(counts') <=> Trimming(c))
  BY <1>2
<1>6. UNCHANGED indices => IsPermutation(indices, Len(loaded))'
  BY <1>1 DEF IsPermutation
<1>7. Len(loaded) \in Nat /\ Memory!N = Len(loaded)
  BY <1>1 DEF Asked, Memory!N
<1> QED BY <1>1, <1>3, <1>4, <1>5, <1>6, <1>7

LEMMA Shuffled ==
  ASSUME MemoryInv, Memory!Shuffle PROVE MemoryInv'
<1>1. /\ pc = "shuffle" /\ UNCHANGED <<refusal, asked, parts>> /\ UNCHANGED <<csv, target_columns, has_header, at_line, loaded>>
  BY DEF Memory!Shuffle, Memory!Loaded
<1>2. /\ Asked /\ Asked' /\ Len(loaded) \in Nat /\ IsPermutation(indices, Len(loaded))
      /\ UNCHANGED indices => IsPermutation(indices, Len(loaded))'
      /\ Counting(counts') => Counting(counts)'
  BY <1>1, CountsGoOn
<1>3. PICK k \in 1..Len(loaded) : counts = <<k>>
  BY <1>1 DEF MemoryInv, SplitInThree
<1>4. CASE counts[1] > 1
  <2>1. PICK j \in 1..k : indices' = Memory!Swapped(indices, k, j) /\ counts' = <<k - 1>> /\ pc' = "shuffle"
    BY <1>1, <1>3, <1>4 DEF Memory!Shuffle
  <2>2. j \in 1..Len(loaded) /\ k - 1 \in 1..Len(loaded)
    BY <1>2, <1>3, <1>4
  <2>3. IsPermutation(indices', Len(loaded))
    BY <1>2, <1>3, <2>1, <2>2, SwappedPermutes
  <2>4. IsPermutation(indices, Len(loaded))'
    BY <1>1, <2>3 DEF IsPermutation
  <2>5. \E x \in 1..Len(loaded') : counts' = <<x>>
    BY <1>1, <2>1, <2>2
  <2>6. SplitInThree'
    BY <1>2, <2>1, <2>4, <2>5 DEF SplitInThree
  <2> QED BY <1>1, <2>1, <2>6, SplitGoesOn
<1>5. CASE ~(counts[1] > 1)
  <2>1. counts' = Memory!Floors /\ pc' = "count" /\ UNCHANGED indices
    BY <1>1, <1>5 DEF Memory!Shuffle
  <2>2. Counting(counts)'
    BY <1>2, <2>1, FloorsCount
  <2>3. SplitInThree'
    BY <1>2, <2>1, <2>2 DEF SplitInThree
  <2> QED BY <1>1, <2>1, <2>3, SplitGoesOn
<1> QED BY <1>4, <1>5

LEMMA RowsGiven ==
  ASSUME MemoryInv, Memory!Give PROVE MemoryInv'
<1>1. /\ pc = "count" /\ UNCHANGED <<refusal, asked, indices, parts>> /\ UNCHANGED <<csv, target_columns, has_header, at_line, loaded>>
  BY DEF Memory!Give, Memory!Loaded
<1>2. /\ Asked /\ Asked' /\ Len(loaded) \in Nat /\ Memory!N = Len(loaded) /\ IsPermutation(indices, Len(loaded))'
      /\ Counting(counts') => Counting(counts)'
  BY <1>1, CountsGoOn
<1>3. Counting(counts)
  BY <1>1 DEF MemoryInv, SplitInThree
<1>4. CASE Memory!Total(counts) < Memory!N
  <2>1. PICK l, c : l = Memory!Largest(1..3, Memory!Fractions) /\ c = [counts EXCEPT ![l] = @ + 1]
    OBVIOUS
  <2>2. counts' = c /\ pc' = "count"
    BY <1>1, <1>4, <2>1 DEF Memory!Give
  <2>3. Counting(c)
    BY <1>2, <1>3, <1>4, <2>1, GivenOne
  <2>4. Counting(counts)'
    BY <1>2, <2>2, <2>3
  <2>5. SplitInThree'
    BY <1>2, <2>2, <2>4 DEF SplitInThree
  <2> QED BY <1>1, <2>2, <2>5, SplitGoesOn
<1>5. CASE ~(Memory!Total(counts) < Memory!N)
  <2>1. pc' = "lift" /\ UNCHANGED counts
    BY <1>1, <1>5 DEF Memory!Give
  <2>2. Memory!Total(counts) = Len(loaded)
    <3>1. Memory!Total(counts) \in Nat
      BY <1>2, <1>3, OfThree DEF Counting, Numbers
    <3> QED BY <1>2, <1>3, <1>5, <3>1 DEF Counting
  <2>3. Memory!Total(counts)' = Len(loaded)'
    BY <1>1, <2>1, <2>2 DEF Memory!Total
  <2>4. Counting(counts)'
    BY <1>2, <1>3, <2>1
  <2>5. SplitInThree'
    BY <1>2, <2>1, <2>3, <2>4 DEF SplitInThree
  <2> QED BY <1>1, <2>1, <2>5, SplitGoesOn
<1> QED BY <1>4, <1>5

LEMMA Lifted ==
  ASSUME MemoryInv, Memory!Lift PROVE MemoryInv'
<1>1. /\ pc = "lift" /\ pc' = "trim" /\ UNCHANGED <<refusal, asked, indices, parts>>
      /\ UNCHANGED <<csv, target_columns, has_header, at_line, loaded>>
      /\ counts' = [i \in 1..3 |-> IF counts[i] = 0 THEN 1 ELSE counts[i]]
  BY DEF Memory!Lift, Memory!Loaded
<1>2. /\ Asked /\ Asked' /\ IsPermutation(indices, Len(loaded))'
      /\ Trimming(counts') => Trimming(counts)'
  BY <1>1, CountsGoOn
<1>3. Counting(counts) /\ Memory!Total(counts) = Len(loaded)
  BY <1>1 DEF MemoryInv, SplitInThree
<1>4. PICK c : c = [i \in 1..3 |-> IF counts[i] = 0 THEN 1 ELSE counts[i]]
  OBVIOUS
<1>5. Trimming(c)
  BY <1>2, <1>3, <1>4, LiftedToOne
<1>6. Trimming(counts)'
  BY <1>1, <1>2, <1>4, <1>5
<1>7. SplitInThree'
  BY <1>1, <1>2, <1>6 DEF SplitInThree
<1> QED BY <1>1, <1>7, SplitGoesOn

LEMMA Trimmed ==
  ASSUME MemoryInv, Memory!Trim PROVE MemoryInv'
<1>1. /\ pc = "trim" /\ UNCHANGED <<refusal, asked, indices, parts>> /\ UNCHANGED <<csv, target_columns, has_header, at_line, loaded>>
  BY DEF Memory!Trim, Memory!Loaded
<1>2. /\ Asked /\ Asked' /\ Len(loaded) \in Nat /\ Memory!N = Len(loaded) /\ IsPermutation(indices, Len(loaded))'
      /\ Trimming(counts') => Trimming(counts)'
  BY <1>1, CountsGoOn
<1>3. Trimming(counts)
  BY <1>1 DEF MemoryInv, SplitInThree
<1>4. CASE Memory!Total(counts) > Memory!N
  <2>1. PICK l, c : l = Memory!Largest({i \in 1..3 : counts[i] > 1}, counts) /\ c = [counts EXCEPT ![l] = @ - 1]
    OBVIOUS
  <2>2. counts' = c /\ pc' = "trim"
    BY <1>1, <1>4, <2>1 DEF Memory!Trim
  <2>3. Trimming(c)
    BY <1>2, <1>3, <1>4, <2>1, TakenOne
  <2>4. Trimming(counts)'
    BY <1>2, <2>2, <2>3
  <2>5. SplitInThree'
    BY <1>2, <2>2, <2>4 DEF SplitInThree
  <2> QED BY <1>1, <2>2, <2>5, SplitGoesOn
<1>5. CASE ~(Memory!Total(counts) > Memory!N)
  <2>1. pc' = "cut" /\ UNCHANGED counts
    BY <1>1, <1>5 DEF Memory!Trim
  <2>2. Memory!Total(counts) = Len(loaded)
    <3>1. counts \in [1..3 -> Nat] /\ Len(loaded) <= Memory!Total(counts)
      BY <1>3 DEF Trimming
    <3>2. Memory!Total(counts) \in Nat
      BY <1>2, <3>1, OfThree DEF Numbers
    <3> QED BY <1>2, <1>5, <3>1, <3>2
  <2>3. Memory!Total(counts)' = Len(loaded)'
    BY <1>1, <2>1, <2>2 DEF Memory!Total
  <2>4. Trimming(counts)'
    BY <1>2, <1>3, <2>1
  <2>5. SplitInThree'
    BY <1>2, <2>1, <2>3, <2>4 DEF SplitInThree
  <2> QED BY <1>1, <2>1, <2>5, SplitGoesOn
<1> QED BY <1>4, <1>5

LEMMA PartitionsMade ==
  ASSUME MemoryInv, Memory!MakePartitions PROVE MemoryInv'
<1>1. /\ pc = "cut" /\ pc' = "done"
      /\ UNCHANGED <<csv, target_columns, has_header, at_line, loaded, refusal, asked, indices, counts>>
  BY DEF Memory!MakePartitions, Memory!Loaded
<1>2. Asked /\ IsPermutation(indices, Len(loaded)) /\ Trimming(counts) /\ Memory!Total(counts) = Len(loaded)
  BY <1>1 DEF MemoryInv, SplitInThree
<1>3. Memory!PartsPartition' /\ Memory!NoPartIsEmpty' /\ Memory!PartsFollowRatios'
  BY <1>2, CutInThree
<1>4. SplitInThree'
  BY <1>1 DEF SplitInThree
<1>5. /\ TextGiven' /\ ReadSoFar' /\ Memory!Left' = {} /\ Memory!DataLines' # {} /\ refusal' = None
      /\ indices' = <<>> \/ IsPermutation(indices, Len(loaded))'
  BY <1>1, LoadedStays DEF MemoryInv
<1> QED BY <1>1, <1>3, <1>4, <1>5 DEF MemoryInv

LEMMA MemoryGoesOn ==
  ASSUME MemoryInv, Memory!Next PROVE MemoryInv'
<1>1. CASE Memory!EmptyCsv
  BY <1>1, CallRefused DEF Memory!EmptyCsv, Memory!Given, Memory!Splitting
<1>2. CASE Memory!ReadLine
  BY <1>2, ReadingGoesOn
<1>3. CASE Memory!LineRefused
  <2>1. /\ \E kind, row : Memory!Fail(kind, row)
        /\ UNCHANGED <<csv, target_columns, has_header, at_line, loaded, indices>>
    BY <1>3 DEF Memory!LineRefused, Memory!Given, Memory!Splitting
  <2> QED BY <2>1, CallRefused
<1>4. CASE Memory!New
  BY <1>4, DatasetMade
<1>5. CASE Memory!NewRefused
  <2>1. /\ \E kind, row : Memory!Fail(kind, row)
        /\ UNCHANGED <<csv, target_columns, has_header, at_line, loaded, indices>>
    BY <1>5 DEF Memory!NewRefused, Memory!Given, Memory!Splitting
  <2> QED BY <2>1, CallRefused
<1>6. CASE Memory!train_test_split
  BY <1>6, SplitInTwo
<1>7. CASE Memory!train_validation_test_split
  BY <1>7, ShuffleStarts
<1>8. CASE Memory!batches
  BY <1>8, BatchesMade
<1>9. CASE Memory!Shuffle
  BY <1>9, Shuffled
<1>10. CASE Memory!Give
  BY <1>10, RowsGiven
<1>11. CASE Memory!Lift
  BY <1>11, Lifted
<1>12. CASE Memory!Trim
  BY <1>12, Trimmed
<1>13. CASE Memory!MakePartitions
  BY <1>13, PartitionsMade
<1>14. CASE Memory!Ended
  BY <1>14, MemoryRests DEF Memory!Ended, Memory!vars
<1> QED BY <1>1, <1>2, <1>3, <1>4, <1>5, <1>6, <1>7, <1>8, <1>9, <1>10, <1>11, <1>12, <1>13, <1>14
        DEF Memory!Next, Memory!Working

LEMMA MemoryInvariant == Spec => [](component = "memory" => MemoryInv)
<1> DEFINE I == component = "memory" => MemoryInv
<1>1. Init => I
  BY MemoryStarts DEF Init
<1>2. I /\ [Next]_vars => I'
  <2> SUFFICES ASSUME I, [Next]_vars, component' = "memory" PROVE MemoryInv'
    OBVIOUS
  <2>1. CASE component = "memory" /\ Memory!Next
    BY <2>1, MemoryGoesOn
  <2>2. CASE UNCHANGED vars
    BY <2>2, MemoryRests DEF vars
  <2> QED BY <2>1, <2>2 DEF Next
<1> QED BY <1>1, <1>2, PTL DEF Spec

(* Whatever the text, the ratios, the batch size and the shuffle: no row   *)
(* is lost or shifted on the way in, every row is in one part, no part is  *)
(* empty, and none is farther from its ratio than that takes.              *)
THEOREM RowsStayKept == Spec => []RowsAreKept
<1>1. ASSUME MemoryInv
      PROVE  /\ Memory!TypeOK /\ Memory!RowsAreTheLines /\ Memory!PartsPartition
             /\ Memory!NoPartIsEmpty /\ Memory!PartsFollowRatios
  <2>1. TextGiven /\ ReadSoFar /\ (pc \notin {"read", "error"} => Memory!Left = {} /\ Memory!DataLines # {})
    BY <1>1 DEF MemoryInv
  <2>2. pc \notin {"read", "error"} =>
          /\ Len(loaded) \in Nat \ {0} /\ Memory!RowsAreTheLines
          /\ \A i \in 1..Len(loaded) : /\ Len(loaded[i].features) = Len(loaded[1].features) /\ loaded[i].features # <<>>
                                       /\ Len(loaded[i].targets) = target_columns
    BY <2>1, RowsAreLines
  <2>3. Memory!RowsAreTheLines
    <3>1. CASE pc \in {"ready", "done"}
      BY <2>2, <3>1
    <3>2. CASE pc \notin {"ready", "done"}
      BY <3>2 DEF Memory!RowsAreTheLines
    <3> QED BY <3>1, <3>2
  <2>4. Memory!TypeOK
    <3>1. at_line \in 0..Len(csv) /\ Len(loaded) = Memory!Cardinality({i \in Memory!DataLines : i <= at_line})
      BY <2>1, MemoryCountsAsHere DEF ReadSoFar, UpTo
    <3>2. pc # "error" => refusal = None
      BY <1>1 DEF MemoryInv
    <3>3. pc = "ready" =>
            /\ loaded # <<>>
            /\ \A i \in 1..Memory!N : /\ Len(loaded[i].features) = Len(loaded[1].features) /\ loaded[i].features # <<>>
                                      /\ Len(loaded[i].targets) = target_columns
      <4>1. Len(<<>>) = 0
        OBVIOUS
      <4> QED BY <2>2, <4>1 DEF Memory!N
    <3>4. Memory!InThree => DOMAIN indices = 1..Memory!N /\ {indices[i] : i \in DOMAIN indices} = 1..Memory!N
      <4>1. Memory!InThree => IsPermutation(indices, Len(loaded))
        BY <1>1 DEF MemoryInv, Memory!InThree
      <4>2. PICK n : n = Len(loaded)
        OBVIOUS
      <4>3. IsPermutation(indices, n) => DOMAIN indices = 1..n /\ {indices[i] : i \in 1..n} = 1..n
        <5> SUFFICES ASSUME IsPermutation(indices, n) PROVE DOMAIN indices = 1..n /\ {indices[i] : i \in 1..n} = 1..n
          OBVIOUS
        <5>1. DOMAIN indices = 1..n /\ \A i \in 1..n : indices[i] \in 1..n
          BY DEF IsPermutation
        <5>2. \A k \in 1..n : \E i \in 1..n : indices[i] = k
          BY DEF IsPermutation
        <5> QED BY <5>1, <5>2
      <4> QED BY <4>1, <4>2, <4>3 DEF Memory!N
    <3> QED BY <3>1, <3>2, <3>3, <3>4 DEF Memory!TypeOK
  <2> QED BY <1>1, <2>3, <2>4 DEF MemoryInv
<1>2. (component = "memory" => MemoryInv) => RowsAreKept
  BY <1>1 DEF RowsAreKept
<1> QED BY <1>2, MemoryInvariant, PTL
=============================================================================
