----------------------------- MODULE Protocols -----------------------------
(***************************************************************************)
(* The commands that train on a prepared corpus and score what they        *)
(* trained: train, train-three-way, evaluate-three-way-mutation and        *)
(* evaluate-protocols, over the pipeline they share.  The pipeline splits  *)
(* the standard families, fits scaler and weights on the training part,    *)
(* and scores thresholds on the validation part and the model on the test  *)
(* part; the commands take records out of training and score them as       *)
(* challenges.  What a fit is made of and what it is scored on are sets of *)
(* records; the numbers are left out.  FamilySplit has the split itself.   *)
(***************************************************************************)
EXTENDS Integers, Sequences, FiniteSets, SequencesExt

CONSTANTS Corpora,       \* sets of records [id, family, role, policy, mutation, variant, label]
          PolicyOrder, MutationOrder, \* the names in the order of their strings
          SeedLists,     \* sequences of seeds, as the command line gives them
          Variants,      \* structural variants a caller may name
          Split(_, _),   \* the split of a set of families by a seed: FamilySplit has how it is made
          None

Parts == {"train", "validation", "test"}
SplitFillsEveryPart ==
  \A c \in Corpora, list \in SeedLists : \A fs \in SUBSET {r.family : r \in {x \in c : x.role = "standard"}} : \A i \in DOMAIN list :
    Cardinality(fs) >= 3 => Split(fs, list[i]) \in [fs -> Parts] /\ {Split(fs, list[i])[x] : x \in fs} = Parts

Labels == {"safe", "warning", "breaking"}

VARIABLES command,   \* which command runs
          corpus,    \* what it loaded
          seeds,     \* seeds left, the current one first
          todo,      \* protocols left for the current seed
          normal,    \* the fit of the normal protocol of this seed, or None
          lines,     \* results printed so far
          asked,     \* the held-out mutation and variant of evaluate-three-way-mutation
          status     \* "running", "done" or "failed"
vars == <<command, corpus, seeds, todo, normal, lines, asked, status>>

-----------------------------------------------------------------------------
(* Selections of records. *)

Standard(c) == {r \in c : r.role = "standard"}
Challenge(c) == {r \in c : r.role = "challenge"}
Families(s) == {r.family : r \in s}
LabelsIn(s) == {r.label : r \in s}

\* Mutant: the mutation under another policy may be another family's.
PairedAnyContract(c) == {r \in Challenge(c) : \E q \in Challenge(c) : q.mutation = r.mutation /\ q.policy # r.policy}

\* Records whose mutation two policies saw on the family.
Paired(c) == {r \in Challenge(c) : \E q \in Challenge(c) : q.family = r.family /\ q.mutation = r.mutation /\ q.policy # r.policy}

\* A protocol is a name, and the policy, mutation or variant it keeps from training.
Protocol(k, p, m, v) == [kind |-> k, policy |-> p, mutation |-> m, variant |-> v]

HeldOut(r, p) ==
  CASE p.kind = "policy" -> r.policy = p.policy
    [] p.kind = "mutation" -> r.mutation = p.mutation
    [] p.kind = "variant" -> r.mutation = p.mutation /\ r.variant = p.variant
    [] OTHER -> FALSE

TrainingSet(c, p) == {r \in Standard(c) : ~HeldOut(r, p)}
ChallengeSet(c, p) == IF p.kind = "paired" THEN Paired(c) ELSE {r \in Challenge(c) : HeldOut(r, p)}

\* The numbers of a set, in order: what a sort leaves once repetitions are dropped.
Ascending(S) == CHOOSE f \in [1 .. Cardinality(S) -> S] : \A i, j \in DOMAIN f : i < j => f[i] < f[j]

\* The names of a set, in the order of their strings.
InOrder(names, order) ==
  LET places == Ascending({i \in DOMAIN order : order[i] \in names}) IN [k \in DOMAIN places |-> order[places[k]]]

PoliciesOf(c) == InOrder({r.policy : r \in Standard(c)}, PolicyOrder)
MutationsOf(c) == InOrder({r.mutation : r \in Standard(c)}, MutationOrder)

ProtocolsOf(c) ==
  <<Protocol("normal", None, None, None)>>
    \o [i \in DOMAIN PoliciesOf(c) |-> Protocol("policy", PoliciesOf(c)[i], None, None)]
    \o [i \in DOMAIN MutationsOf(c) |-> Protocol("mutation", None, MutationsOf(c)[i], None)]
    \o <<Protocol("paired", None, None, None)>>

SortedSeeds(list) == Ascending(ToSet(list))

\* A command line without a seed has 42.  A corpus may have families in both roles: no command asks for its stamp.
ProtocolsAssumption ==
  /\ \A list \in SeedLists : list \in Seq(Nat) /\ Len(list) > 0
  /\ DOMAIN PolicyOrder = 1 .. Len(PolicyOrder) /\ Len(PolicyOrder) \in Nat
  /\ DOMAIN MutationOrder = 1 .. Len(MutationOrder) /\ Len(MutationOrder) \in Nat
  /\ \A c \in Corpora : IsFiniteSet(c)

-----------------------------------------------------------------------------
(* The pipeline. *)

PartOf(s, f, part) == {r \in s : f[r.family] = part}

\* Scaler and weights come from the training part, thresholds are tried on the validation part, the
\* final metrics come from the test part; baselines guess from training targets.
FittedOn(s, f) == PartOf(s, f, "train")
ThresholdsOn(s, f) == PartOf(s, f, "validation")
ScoredOn(s, f) == PartOf(s, f, "test")
BaselineFrom(s, f) == PartOf(s, f, "train")

Fit(s, f) == [fitted |-> FittedOn(s, f), thresholds |-> ThresholdsOn(s, f), scored |-> ScoredOn(s, f), baseline |-> BaselineFrom(s, f)]

\* Three families at least. The same records and seed are split the same way.
Pipeline(s) == IF Cardinality(Families(s)) < 3 THEN {} ELSE {Fit(s, Split(Families(s), Head(seeds)))}

\* train-three-way asks first that every label is among the standard records.
TrainingReadiness(c) == LabelsIn(Standard(c)) = Labels /\ Cardinality(Families(Standard(c))) >= 3

Line(p, fit, scored) == [seed |-> Head(seeds), protocol |-> p, fit |-> fit, scored |-> scored]
Unscored(p) == Line(p, None, {})

-----------------------------------------------------------------------------
(* Commands. *)

Running == status = "running"

Fail == status' = "failed" /\ UNCHANGED <<command, corpus, seeds, todo, normal, lines, asked>>

\* Training, or writing what it gave, may fail at any point.
Stop == Running /\ Fail

\* train and train-three-way: one fit, scored on its own test part.
TrainOnce ==
  /\ Running /\ command \in {"train", "train_three_way"}
  /\ command = "train_three_way" => TrainingReadiness(corpus)
  /\ \E fit \in Pipeline(Standard(corpus)) : lines' = <<Line(Protocol("normal", None, None, None), fit, fit.scored)>>
  /\ status' = "done"
  /\ UNCHANGED <<command, corpus, seeds, todo, normal, asked>>

NotReady ==
  /\ Running
  /\ \/ command = "train" /\ Pipeline(Standard(corpus)) = {}
     \/ command = "train_three_way" /\ ~TrainingReadiness(corpus)
  /\ Fail

OneLabel(s) == Cardinality(LabelsIn(s)) < 2

\* The sets of a protocol are datasets, which are never empty.
Selects(c, p) == TrainingSet(c, p) # {} /\ (p.kind # "normal" => ChallengeSet(c, p) # {})

\* evaluate-three-way-mutation: the held-out mutation, or one variant of it.
EvaluateMutation ==
  /\ Running /\ command = "evaluate_mutation"
  /\ ~OneLabel(ChallengeSet(corpus, asked))
  /\ \E fit \in Pipeline(TrainingSet(corpus, asked)) : lines' = <<Line(asked, fit, ChallengeSet(corpus, asked))>>
  /\ status' = "done"
  /\ UNCHANGED <<command, corpus, seeds, todo, normal, asked>>

RefuseMutation ==
  /\ Running /\ command = "evaluate_mutation"
  /\ OneLabel(ChallengeSet(corpus, asked)) \/ Pipeline(TrainingSet(corpus, asked)) = {}
  /\ Fail

InProtocols == Running /\ command = "evaluate_protocols"
Current == Head(todo)

NextSeed ==
  /\ InProtocols /\ todo = <<>> /\ Len(seeds) > 1
  /\ seeds' = Tail(seeds) /\ todo' = ProtocolsOf(corpus) /\ normal' = None
  /\ UNCHANGED <<command, corpus, lines, asked, status>>

AllSeedsDone ==
  /\ InProtocols /\ todo = <<>> /\ Len(seeds) = 1
  /\ status' = "done"
  /\ UNCHANGED <<command, corpus, seeds, todo, normal, lines, asked>>

Report(line, fit) ==
  /\ lines' = Append(lines, line)
  /\ normal' = fit
  /\ todo' = Tail(todo)
  /\ UNCHANGED <<command, corpus, seeds, asked, status>>

RunNormal ==
  /\ InProtocols /\ todo # <<>> /\ Current.kind = "normal"
  /\ \E fit \in Pipeline(Standard(corpus)) : Report(Line(Current, fit, fit.scored), fit)

\* A held-out policy is scored whatever its labels are; a held-out mutation needs two.
Trains(c, p) == p.kind \in {"normal", "policy"} \/ (p.kind = "mutation" /\ ~OneLabel(ChallengeSet(c, p)))

RunHeldOut ==
  /\ InProtocols /\ todo # <<>> /\ Current.kind \in {"policy", "mutation"}
  /\ Selects(corpus, Current) /\ Trains(corpus, Current)
  /\ \E fit \in Pipeline(TrainingSet(corpus, Current)) : Report(Line(Current, fit, ChallengeSet(corpus, Current)), normal)

SkipOneLabel ==
  /\ InProtocols /\ todo # <<>> /\ Current.kind = "mutation"
  /\ Selects(corpus, Current) /\ ~Trains(corpus, Current)
  /\ Report(Unscored(Current), normal)

\* The paired challenge is scored with the fit of the normal protocol.
RunPaired ==
  /\ InProtocols /\ todo # <<>> /\ Current.kind = "paired"
  /\ Selects(corpus, Current)
  /\ Report(Line(Current, normal, ChallengeSet(corpus, Current)), normal)

\* No challenge for the protocol, or too few families left: the whole command ends.
ProtocolFails ==
  /\ InProtocols /\ todo # <<>>
  /\ ~Selects(corpus, Current) \/ (Trains(corpus, Current) /\ Pipeline(TrainingSet(corpus, Current)) = {})
  /\ Fail

Init ==
  /\ command \in {"train", "train_three_way", "evaluate_mutation", "evaluate_protocols"}
  /\ corpus \in Corpora
  /\ \E list \in SeedLists : seeds = SortedSeeds(list)
  /\ todo = IF command = "evaluate_protocols" THEN ProtocolsOf(corpus) ELSE <<>>
  /\ asked \in {Protocol("mutation", None, MutationOrder[i], None) : i \in DOMAIN MutationOrder}
                 \cup {Protocol("variant", None, MutationOrder[i], v) : i \in DOMAIN MutationOrder, v \in Variants}
  /\ command # "evaluate_mutation" => asked = Protocol("mutation", None, MutationOrder[1], None)
  /\ normal = None /\ lines = <<>> /\ status = "running"

Step == TrainOnce \/ NotReady \/ EvaluateMutation \/ RefuseMutation \/ NextSeed \/ AllSeedsDone
          \/ RunNormal \/ RunHeldOut \/ SkipOneLabel \/ RunPaired \/ ProtocolFails
Ended == status # "running" /\ UNCHANGED vars
Next == Step \/ Stop \/ Ended

\* A command that is running goes on.
Spec == Init /\ [][Next]_vars /\ WF_vars(Step)

-----------------------------------------------------------------------------
(* Properties. *)

\* Every variable has its shape.
TypeOK ==
  /\ command \in {"train", "train_three_way", "evaluate_mutation", "evaluate_protocols"}
  /\ corpus \in Corpora /\ status \in {"running", "done", "failed"}
  /\ \A i \in 1 .. Len(seeds) - 1 : seeds[i] < seeds[i + 1]
  /\ \A i \in DOMAIN lines : lines[i].scored \subseteq corpus

Scored == {i \in DOMAIN lines : lines[i].fit # None}

\* No record is on both sides of a score, and no family on both sides of the thresholds.  A family that
\* is on both sides of a score was loaded in both roles, and is scored as a challenge, never as the test
\* part of a split (DcgPipelineConfig::run, evaluate_protocols).
PartitionsStayApart ==
  \A i \in Scored :
    LET line == lines[i]
        seen == line.fit.fitted \cup line.fit.thresholds \cup line.fit.baseline
        both == Families(seen) \cap Families(line.scored)
    IN /\ seen \cap line.scored = {}
       /\ Families(line.fit.fitted) \cap Families(line.fit.thresholds) = {}
       /\ both \subseteq Families(Standard(corpus)) \cap Families(Challenge(corpus))
       /\ line.protocol.kind = "normal" => both = {}

\* A challenge is "the reserved, family-isolated data" (challenge_subset): none of its families was
\* trained on.  It is not, for a corpus that has a family in both roles: the readiness audit would
\* refuse it, and the commands do not look for the audit's stamp.
ChallengesAreFamilyIsolated ==
  \A i \in Scored : lines[i].protocol.kind # "normal" =>
    Families(lines[i].fit.fitted \cup lines[i].fit.thresholds) \cap Families(lines[i].scored) = {}

\* What a protocol holds out is in nothing its model was fitted or tried on, and every record it is
\* scored on is of the held-out kind.
HeldOutStaysOut ==
  \A i \in Scored :
    LET line == lines[i] IN
      line.protocol.kind \in {"policy", "mutation", "variant"} =>
        /\ \A r \in line.fit.fitted \cup line.fit.thresholds : ~HeldOut(r, line.protocol)
        /\ \A r \in line.scored : HeldOut(r, line.protocol)

\* One seed after the other, each protocol once and in the same order for every seed: a command that
\* ends early has printed a prefix of what a complete one prints, even for challenges it leaves unscored.
SeedsTakeTurns ==
  command = "evaluate_protocols" =>
    LET all == ProtocolsOf(corpus) IN
      /\ \A i \in DOMAIN lines :
           /\ lines[i].protocol = all[((i - 1) % Len(all)) + 1]
           /\ \A j \in 1 .. i : IF (j - 1) \div Len(all) = (i - 1) \div Len(all) THEN lines[j].seed = lines[i].seed ELSE lines[j].seed < lines[i].seed
      /\ status = "done" => Len(lines) % Len(all) = 0 /\ lines # <<>> /\ Last(lines).seed = Last(seeds)

\* The paired challenge compares policies: each record it scores has a partner there, of the same
\* contract and mutation, under another policy, and the model is the one the same seed's normal protocol scored.
PairedIsCounterfactual ==
  \A i \in Scored : lines[i].protocol.kind = "paired" =>
    /\ \A r \in lines[i].scored : \E q \in lines[i].scored : q.family = r.family /\ q.mutation = r.mutation /\ q.policy # r.policy
    /\ \E j \in 1 .. i : lines[j].protocol.kind = "normal" /\ lines[j].seed = lines[i].seed /\ lines[j].fit = lines[i].fit

\* What prepared_dataset.rs says of challenges: one with a single class is kept for inspection and not
\* reported as a benchmark (ChallengeProtocolReport).  evaluate-protocols scores a held-out policy, and the
\* paired challenge, whatever their labels are.
ReportedChallengesTellLabelsApart ==
  \A i \in Scored : lines[i].protocol.kind # "normal" => ~OneLabel(lines[i].scored)

\* Every command comes to an end.
CommandEnds == <>(status # "running")
=============================================================================
