----------------------------- MODULE Experiment -----------------------------
(***************************************************************************)
(* The multi-seed experiments (models/experiment.rs): the three-way run    *)
(* with its held-out protocols, the binary run of the direction-specific   *)
(* track, and the near-duplicate audit that accompanies them.              *)
(*                                                                         *)
(* A command loads a corpus, checks it against the files on its command    *)
(* line and the output directory, then fits one model per scored protocol  *)
(* and seed, saving each below models/, and writes one report at the end.  *)
(* Nothing is written under a temporary directory and nothing is removed,  *)
(* so what a refused, failed or killed command leaves behind is part of    *)
(* the state.  Between two steps of a command another process may replace  *)
(* the dataset file, and, when Overlap holds, another command may run on   *)
(* the same directory.                                                     *)
(*                                                                         *)
(* A record is [id, role, family, policy, mutation, variant, profile,      *)
(* label, actions, shape]: actions is the set of rule/action components of *)
(* its policy prefix, shape the policy-free coordinates of its features.   *)
(* A corpus adds the facts the gates read.                                 *)
(***************************************************************************)
EXTENDS Integers, Sequences, FiniteSets, SequencesExt, FiniteSetsExt

CONSTANTS
    Commands,      \* the command processes
    Corpora,       \* version of the dataset file -> its content
    Replacements,  \* versions it may be replaced by
    Seeds,         \* the configured split seeds
    TrainOf,       \* TrainOf[s][F]: the families of F that seed s trains on
    Stem,          \* Stem[p]: what file_stem makes of protocol name p
    Overlap,       \* may two commands run at once?
    None

VARIABLES
    file,      \* version of the dataset file
    swapped,   \* has it been replaced? (bound: once)
    dir,       \* the output directory: [exists, models, report]
    cmd        \* the state of every command process

vars == <<file, swapped, dir, cmd>>

Structural == {"enum_value_added", "optional_field_added"}
Labels == {"safe", "warning", "breaking"}

\* What loading a corpus makes sure of, for every version of the file: each
\* record has an identity of its own (numbers here, in the order of the code's
\* strings) and as many features as the others; and what the stamp rests on:
\* no family is in both roles.
SoundCorpus(c) ==
    /\ IsFiniteSet(c.records)
    /\ \A r \in c.records : r.id \in Nat /\ IsFiniteSet(DOMAIN r.shape)
    /\ \A r, q \in c.records : (r.id = q.id => r = q) /\ DOMAIN r.shape = DOMAIN q.shape
    /\ c.stamp = TRUE =>
         \A r, q \in c.records : r.role = "standard" /\ q.role = "challenge" => r.family # q.family

ExperimentAssumption ==
    /\ \A v \in DOMAIN Corpora : SoundCorpus(Corpora[v])
    /\ Replacements \subseteq DOMAIN Corpora
    /\ Seeds \subseteq Nat
    /\ Overlap \in BOOLEAN

Absent == [exists |-> FALSE, models |-> {}, report |-> None]

Standard(c) == {r \in c.records : r.role = "standard"}
Challenge(c) == {r \in c.records : r.role = "challenge"}
FamiliesOf(R) == {r.family : r \in R}
LabelsOf(R) == {r.label : r \in R}

-----------------------------------------------------------------------------
(* Protocols.  A protocol is <<kind, name, variant>>.                      *)

Normal == <<"normal", None, None>>
Paired == <<"paired", None, None>>

StructuralVariantKey(r) ==
    IF r.mutation = "optional_field_added" THEN r.profile ELSE r.variant

\* What the reserved records of a protocol have in common.
Selects(p, r) ==
    CASE p[1] = "policy"   -> r.policy = p[2]
      [] p[1] = "mutation" -> r.mutation = p[2]
      [] p[1] = "variant"  -> r.mutation = p[2] /\ StructuralVariantKey(r) = p[3]

\* Two records of one family and mutation under different policies.
HasTwin(r, R) == \E q \in R : /\ q.family = r.family /\ q.mutation = r.mutation
                              /\ q.policy # r.policy

ChallengeSubset(p, c) ==
    IF p = Paired THEN {r \in Challenge(c) : HasTwin(r, Challenge(c))}
                  ELSE {r \in Challenge(c) : Selects(p, r)}

\* The standard records a model of the protocol may see.
TrainingSet(p, c) ==
    IF p[1] \in {"normal", "paired"} THEN Standard(c)
                                     ELSE {r \in Standard(c) : ~Selects(p, r)}

ChallengeVariants(m, c) ==
    {StructuralVariantKey(r) : r \in ChallengeSubset(<<"mutation", m, None>>, c)} \ {None}

\* The placeholder <<"variant", m, None>> stands for a mutation without keys.
VariantProtocols(m, c) ==
    IF ChallengeVariants(m, c) = {} THEN {<<"variant", m, None>>}
    ELSE {<<"variant", m, v>> : v \in ChallengeVariants(m, c)}

Mutations(c) == {r.mutation : r \in Standard(c)}

\* The protocols in the order of run_seed, stage by stage; within a stage the
\* code takes them by name, here in some fixed order.
Stages(c) ==
    << {Normal},
       {<<"policy", r.policy, None>> : r \in Standard(c)},
       {<<"mutation", m, None>> : m \in Mutations(c)},
       UNION {VariantProtocols(m, c) : m \in Mutations(c) \cap Structural},
       {Paired} >>

Protocols(c) == UNION Range(Stages(c))

\* A protocol of the first stage with work left, given those already done.
NextProtocol(done, stages) ==
    LET open == {i \in DOMAIN stages : ~(stages[i] \subseteq done)}
    IN  CHOOSE p \in stages[Min(open)] : p \notin done

ActionsOf(R) == UNION {r.actions : r \in R}
ProfilesOf(R) == {r.actions : r \in R}

\* V4 compares whole action profiles, V5 and V6 their components, and
\* earlier schemas have no policy prefix to compare.
HeldOutPolicyUnidentifiable(c, training, challenge) ==
    LET needs(held, seen) == held # {} /\ seen # {} /\ ~(held \subseteq seen)
    IN  CASE c.version = 4 -> needs(ProfilesOf(challenge), ProfilesOf(training))
          [] c.version \in {5, 6} -> needs(ActionsOf(challenge), ActionsOf(training))
          [] OTHER -> FALSE

HasPeerVariant(p, c) ==
    \E r \in Standard(c) : r.mutation = p[2] /\ StructuralVariantKey(r) # p[3]

OneClass(p, c) == Cardinality(LabelsOf(ChallengeSubset(p, c))) < 2

\* What run_seed does with a protocol; "error" ends the experiment.
Unidentifiable(p, c) ==
    \/ p[1] = "policy" /\ HeldOutPolicyUnidentifiable(c, TrainingSet(p, c), ChallengeSubset(p, c))
    \/ p[1] = "mutation" /\ p[2] \in Structural
    \/ p[1] = "variant" /\ (p[3] = None \/ ~HasPeerVariant(p, c))

NoVariants(p) == p[1] = "variant" /\ p[3] = None

Status(p, c) ==
    IF p = Normal THEN "scored"
    ELSE IF ~NoVariants(p) /\ ChallengeSubset(p, c) = {} THEN "error"
    ELSE IF Unidentifiable(p, c) THEN "structurally_unidentifiable"
    ELSE IF p[1] # "policy" /\ OneClass(p, c) THEN "traceability_only"
    ELSE IF TrainingSet(p, c) = {} THEN "error"
    ELSE "scored"

\* The paired challenge is scored with the model of the normal split.
ModelOf(p) == IF p = Paired THEN Normal ELSE p

FileOf(s, p) == <<s, Stem[ModelOf(p)]>>

-----------------------------------------------------------------------------
(* Gates.                                                                  *)

Verified(c) == c.pinned          \* one JAR and policy identity, those given
Fixture(c) == c.fixture          \* labelled under the mechanism-only policies
BenchmarkReady(c) == c.stamp = TRUE
DecisionsPresent(c) == ~c.silent \* no BREAKING record without its stdout

TrainingReady(c, kind) ==
    /\ Cardinality(FamiliesOf(Standard(c))) >= 3
    /\ {"safe", "breaking"} \subseteq LabelsOf(Standard(c))
    /\ kind = "three_way" => LabelsOf(Standard(c)) = Labels

EvidenceGate(c, kind) ==
    /\ ~Fixture(c) /\ BenchmarkReady(c)
    /\ IF kind = "three_way" THEN DecisionsPresent(c) ELSE Challenge(c) # {}

-----------------------------------------------------------------------------
(* Commands.                                                               *)

Idle == [pc |-> "idle", kind |-> None, data |-> None, hash |-> None,
         done |-> {}, results |-> {}]

\* The corpus a command holds in memory, its protocols in their stages, and
\* all of them.
DataOf(k) == Corpora[cmd[k].data]
StagesIn == [v \in DOMAIN Corpora |-> Stages(Corpora[v])]
ProtocolsIn == [v \in DOMAIN Corpora |-> Protocols(Corpora[v])]
ProtocolsOf(k) == ProtocolsIn[cmd[k].data]

Running(k) == cmd[k].pc \notin {"idle", "done", "refused", "stopped"}
Goto(k, pc) == cmd' = [cmd EXCEPT ![k].pc = pc]
Empty(d) == d.models = {} /\ d.report = None

Start(k, kind) ==
    /\ cmd[k].pc = "idle"
    /\ Overlap \/ \A j \in Commands : ~Running(j)
    /\ cmd' = [cmd EXCEPT ![k].kind = kind,
                          ![k].pc = IF kind = "three_way" THEN "load" ELSE "fresh"]
    /\ UNCHANGED <<file, swapped, dir>>

\* Where a command goes on: the binary one looks at the directory first.
After(k, pc) ==
    CASE pc = "load"   -> "verify"
      [] pc = "verify" -> IF cmd[k].kind = "three_way" THEN "fresh" ELSE "gate"
      [] pc = "fresh"  -> IF cmd[k].kind = "three_way" THEN "create" ELSE "load"
      [] pc = "gate"   -> IF cmd[k].kind = "three_way" THEN "ready" ELSE "create"
      [] pc = "create" -> IF cmd[k].kind = "three_way" THEN "gate" ELSE "fit"
      [] pc = "ready"  -> "fit"

Load(k) ==
    /\ cmd[k].pc = "load"
    /\ cmd' = [cmd EXCEPT ![k].data = file, ![k].pc = After(k, "load")]
    /\ UNCHANGED <<file, swapped, dir>>

\* The dataset is hashed from the file again, the identities from memory.
Verify(k) ==
    /\ cmd[k].pc = "verify"
    /\ IF Verified(DataOf(k))
       THEN cmd' = [cmd EXCEPT ![k].hash = file, ![k].pc = After(k, "verify")]
       ELSE Goto(k, "refused")
    /\ UNCHANGED <<file, swapped, dir>>

EnsureFresh(k) ==
    /\ cmd[k].pc = "fresh"
    /\ Goto(k, IF Empty(dir) THEN After(k, "fresh") ELSE "refused")
    /\ UNCHANGED <<file, swapped, dir>>

\* The three-way command creates its directory before the gates.
CreateDirectory(k) ==
    /\ cmd[k].pc = "create"
    /\ dir' = [dir EXCEPT !.exists = TRUE]
    /\ Goto(k, After(k, "create"))
    /\ UNCHANGED <<file, swapped>>

\* The binary run checks readiness along with the evidence.
Gate(k) ==
    LET c == DataOf(k)
        kind == cmd[k].kind IN
    /\ cmd[k].pc = "gate"
    /\ Goto(k, IF EvidenceGate(c, kind) /\ (kind = "binary" => TrainingReady(c, kind))
               THEN After(k, "gate") ELSE "refused")
    /\ UNCHANGED <<file, swapped, dir>>

\* The three-way run has created models/ by now.
CheckReadiness(k) ==
    /\ cmd[k].pc = "ready"
    /\ Goto(k, IF TrainingReady(DataOf(k), "three_way") THEN "fit" ELSE "refused")
    /\ UNCHANGED <<file, swapped, dir>>

Save(k, s, p, trained) ==
    dir' = [dir EXCEPT !.models = {m \in @ : m.file # FileOf(s, p)} \cup
              {[file |-> FileOf(s, p), protocol |-> p, by |-> k, trained |-> trained]}]

Result(s, p, status, trained, evaluated) ==
    [seed |-> s, protocol |-> p, status |-> status, trained |-> trained, evaluated |-> evaluated]

\* The seeds are run in increasing order.
SeedsLeft(k, ps) == {s \in Seeds : ~(({s} \X ps) \subseteq cmd[k].done)}

Record(k, s, p, r) ==
    cmd' = [cmd EXCEPT ![k].done = @ \cup {<<s, p>>}, ![k].results = @ \cup {r}]

\* One protocol of one seed: fitted and saved, or traced, or fatal.
RunProtocol(k) ==
    LET c == DataOf(k)
        s == Min(SeedsLeft(k, ProtocolsOf(k)))
        done == {p \in ProtocolsOf(k) : <<s, p>> \in cmd[k].done}
    IN  /\ cmd[k].pc = "fit" /\ cmd[k].kind = "three_way"
        /\ SeedsLeft(k, ProtocolsOf(k)) # {}
        /\ LET p == NextProtocol(done, StagesIn[cmd[k].data])
               status == Status(p, c)
               training == TrainingSet(p, c)
               trained == {r \in training : r.family \in TrainOf[s][FamiliesOf(training)]}
           IN  IF \/ status = "error"
                  \/ status = "scored" /\ Cardinality(FamiliesOf(training)) < 3
               THEN Goto(k, "stopped") /\ UNCHANGED dir
               ELSE /\ IF status = "scored" /\ p # Paired
                       THEN Save(k, s, p, trained) ELSE UNCHANGED dir
                    /\ Record(k, s, p, Result(s, p, status,
                          IF status = "scored" THEN trained ELSE {},
                          IF p = Normal THEN training \ trained ELSE ChallengeSubset(p, c)))
    /\ UNCHANGED <<file, swapped>>

\* The binary run fits one model per seed and scores it on all challenges.
RunSeed(k) ==
    LET c == DataOf(k)
        s == Min(SeedsLeft(k, {Normal}))
        trained == {r \in Standard(c) : r.family \in TrainOf[s][FamiliesOf(Standard(c))]}
    IN  /\ cmd[k].pc = "fit" /\ cmd[k].kind = "binary"
        /\ SeedsLeft(k, {Normal}) # {}
        /\ Save(k, s, Normal, trained)
        /\ Record(k, s, Normal, Result(s, Normal, "scored", trained, Challenge(c)))
        /\ UNCHANGED <<file, swapped>>

AllRun(k) == SeedsLeft(k, IF cmd[k].kind = "binary" THEN {Normal} ELSE ProtocolsOf(k)) = {}

\* The report names each model by its file; the binary one is written in
\* place, so that it exists before it is complete.
WriteReport(k) ==
    /\ cmd[k].pc = "fit" /\ AllRun(k)
    /\ dir' = [dir EXCEPT !.report =
                 [by |-> k, kind |-> cmd[k].kind, hash |-> cmd[k].hash, data |-> cmd[k].data,
                  results |-> cmd[k].results, whole |-> cmd[k].kind = "three_way"]]
    /\ Goto(k, IF cmd[k].kind = "three_way" THEN "done" ELSE "write")
    /\ UNCHANGED <<file, swapped>>

EndWrite(k) ==
    /\ cmd[k].pc = "write"
    /\ dir' = [dir EXCEPT !.report.whole = TRUE]
    /\ Goto(k, "done")
    /\ UNCHANGED <<file, swapped>>

\* An error of training or of the file system, or the end of the process.
Stop(k) ==
    /\ Running(k)
    /\ Goto(k, "stopped")
    /\ UNCHANGED <<file, swapped, dir>>

ReplaceDataset ==
    /\ ~swapped /\ swapped' = TRUE
    /\ file' \in Replacements \ {file}
    /\ UNCHANGED <<dir, cmd>>

\* Every command has ended: the only rest.
Ended ==
    /\ \A k \in Commands : ~Running(k) /\ cmd[k].pc # "idle"
    /\ UNCHANGED vars

-----------------------------------------------------------------------------
(* The near-duplicate audit.                                               *)

Distance(a, b) == Cardinality({i \in DOMAIN a : a[i] # b[i]})
Nearest(r, T) == Min({Distance(r.shape, t.shape) : t \in T})
FullMatch(r, T) == \E t \in T : t.shape = r.shape /\ t.actions = r.actions
StructuralMatch(r, T) == \E t \in T : t.shape = r.shape

\* Samples put exact matches first, then the closest.
Urgency(r, T) == IF FullMatch(r, T) THEN <<0, 0>>
                 ELSE IF StructuralMatch(r, T) THEN <<1, 0>> ELSE <<2, Nearest(r, T)>>
Before(a, b, T) ==
    LET u == Urgency(a, T)  v == Urgency(b, T)
    IN  \/ u[1] < v[1]
        \/ u[1] = v[1] /\ u[2] < v[2]
        \/ u = v /\ a.id < b.id

Samples(C, T, most) == {r \in C : Cardinality({q \in C : Before(q, r, T)}) < most}

\* Mutant: the audit keeps other variants of a variant protocol's mutation from training.
KeepTrainingOfOthers(p, r) == IF p[1] = "policy" THEN r.policy # p[2] ELSE r.mutation # p[2]

\* The audit selects its records by rules of its own.
KeepTraining(p, r) ==
    IF p[1] = "policy" THEN r.policy # p[2]
    ELSE r.mutation # p[2] \/ (p[1] = "variant" /\ StructuralVariantKey(r) # p[3])

AuditTraining(p, c) == {r \in Standard(c) : KeepTraining(p, r)}
AuditChallenge(p, c) == {r \in Challenge(c) : Selects(p, r)}

AuditOf(p, c, most) ==
    LET T == AuditTraining(p, c)
        C == AuditChallenge(p, c)
    IN  [protocol |-> p, training |-> T, challenge |-> C,
         familyLeakage |-> FamiliesOf(T) \cap FamiliesOf(C) # {},
         full |-> {r \in C : FullMatch(r, T)},
         structural |-> {r \in C : StructuralMatch(r, T)},
         withinOne |-> {r \in C : Nearest(r, T) <= 1},
         samples |-> Samples(C, T, most)]

\* The audit reads a V6 corpus for any protocol by name, scored or not, and
\* asks for no gate.
AuditAccepts(p, c) ==
    /\ c.version = 6 /\ p \notin {Normal, Paired} /\ ~NoVariants(p)
    /\ AuditTraining(p, c) # {} /\ AuditChallenge(p, c) # {}

-----------------------------------------------------------------------------
Init ==
    /\ file \in DOMAIN Corpora /\ swapped = FALSE
    /\ dir = Absent
    /\ cmd = [k \in Commands |-> Idle]

Next ==
    \/ \E k \in Commands :
         \/ \E kind \in {"three_way", "binary"} : Start(k, kind)
         \/ Load(k) \/ Verify(k) \/ EnsureFresh(k) \/ CreateDirectory(k)
         \/ Gate(k) \/ CheckReadiness(k)
         \/ RunProtocol(k) \/ RunSeed(k) \/ WriteReport(k) \/ EndWrite(k) \/ Stop(k)
    \/ ReplaceDataset \/ Ended

Spec == Init /\ [][Next]_vars

-----------------------------------------------------------------------------
(* Properties.                                                             *)

TypeOK ==
    /\ file \in DOMAIN Corpora /\ swapped \in BOOLEAN
    /\ DOMAIN dir = {"exists", "models", "report"} /\ dir.exists \in BOOLEAN
    /\ ~Empty(dir) => dir.exists
    /\ \A k \in Commands :
         /\ cmd[k].pc \in {"idle", "load", "verify", "fresh", "create", "gate", "ready",
                          "fit", "write", "done", "refused", "stopped"}
         /\ cmd[k].data \in DOMAIN Corpora \cup {None} /\ cmd[k].hash \in DOMAIN Corpora \cup {None}

\* Every result with a model names a file that this run saved (lines 1165 to
\* 1231 and 699 to 731): a report never stands beside models that are missing
\* or were left by an earlier command that stopped half way.
ReportedModelsAreThere ==
    dir.report # None =>
        \A r \in dir.report.results : r.status = "scored" =>
            \E m \in dir.models : m.file = FileOf(r.seed, r.protocol) /\ m.by = dir.report.by

\* What held-out means: nothing a scored model was fitted on, in any seed,
\* has the trait its challenge was reserved for, a family of its own
\* evaluation records, or the role of a challenge (lines 928 to 1050).
HeldOutStaysOut ==
    \A k \in Commands : \A r \in cmd[k].results : r.status = "scored" =>
        /\ \A t \in r.trained : t.role = "standard" /\ t.family \notin FamiliesOf(r.evaluated)
        /\ r.protocol \notin {Normal, Paired} =>
              \A t \in r.trained : ~Selects(r.protocol, t)

\* A protocol of a finished three-way report has one fate in all its seeds
\* and is scored on the same records, so that its mean over scored runs is a
\* mean over every seed (aggregate_protocols, line 1483).
OneFatePerProtocol ==
    (dir.report # None /\ dir.report.kind = "three_way") =>
        \A a \in dir.report.results : \A s \in Seeds :
            \E b \in dir.report.results :
                /\ b.seed = s /\ b.protocol = a.protocol /\ b.status = a.status
                /\ a.protocol # Normal => b.evaluated = a.evaluated

\* The audit describes the models: whatever the seed, a held-out model of the
\* audited corpus was fitted within the training records of the audit and
\* scored on exactly its challenge records (line 113).
AuditIsOfTheModels ==
    \A k \in {j \in Commands : cmd[j].pc = "done"} : \A r \in cmd[k].results :
        LET c == DataOf(k)
            row == AuditOf(r.protocol, c, 1)
        IN  (r.status = "scored" /\ cmd[k].kind = "three_way" /\ AuditAccepts(r.protocol, c)) =>
                /\ r.trained \subseteq row.training /\ r.evaluated = row.challenge
                /\ FamiliesOf(r.trained) \cap FamiliesOf(r.evaluated) # {} => row.familyLeakage

\* The few samples of an audit never hide the worst: when a challenge record
\* has the full features of a training record, the samples show one, and
\* short of the limit they show every record (lines 277 to 314).
SamplesShowTheWorst ==
    (\A k \in Commands : cmd[k].pc = "idle") =>
        LET c == Corpora[file] IN
        \A p \in Protocols(c) : \A most \in {1, 2} : AuditAccepts(p, c) =>
            LET row == AuditOf(p, c, most) IN
            /\ row.full # {} => row.samples \cap row.full # {}
            /\ row.full \subseteq row.structural /\ row.structural \subseteq row.withinOne
            /\ Cardinality(row.samples) = Min({most, Cardinality(row.challenge)})

\* "It does not treat a one-class ... challenge as evidence of
\* generalization" (lines 4 and 5): no scored challenge has a single label.
OneClassIsNotScored ==
    \A k \in Commands : \A r \in cmd[k].results :
        (cmd[k].kind = "three_way" /\ r.status = "scored" /\ r.protocol # Normal) =>
            Cardinality(LabelsOf(r.evaluated)) > 1

\* A wholly unseen rule/action "is not scored" (line 1340): the model of a
\* scored policy holdout was fitted on every action its challenge needs.
ScoredActionsWereTrained ==
    \A k \in Commands : \A r \in cmd[k].results :
        (r.status = "scored" /\ r.protocol[1] = "policy" /\ DataOf(k).version \in {5, 6}) =>
            ActionsOf(r.evaluated) \subseteq ActionsOf(r.trained)

\* The artifacts beside a report are per protocol (line 456): the file a
\* result names holds the model of that result.
EachProtocolItsArtifact ==
    dir.report # None =>
        \A r \in dir.report.results : r.status = "scored" =>
            \A m \in dir.models :
                m.file = FileOf(r.seed, r.protocol) => m.protocol = ModelOf(r.protocol)

\* "Exact dataset ... identities" (line 465): the hash of a report is the
\* hash of the corpus that was trained on.
ReportNamesItsCorpus == dir.report # None => dir.report.hash = dir.report.data

\* "--output-dir must be empty to prevent overwriting an experiment"
\* (main.rs:1743): what one command wrote, no other command replaces.
KeepsWritten ==
    /\ \A m \in dir.models : \A n \in dir'.models : m.file = n.file => m.by = n.by
    /\ dir.report # None => dir'.report.by = dir.report.by
NoExperimentOverwritten == [][KeepsWritten]_dir

=============================================================================
