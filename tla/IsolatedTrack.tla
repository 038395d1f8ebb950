---------------------------- MODULE IsolatedTrack ----------------------------
(***************************************************************************)
(* The isolated FORWARD/FULL track of main.rs.                             *)
(* generate-forward-optional-isolated runs the external preflight on its   *)
(* manifest, reads the manifest again to plan seeds, variants and          *)
(* policies, proposes the pairs anew from the base schemas, lets the JAR   *)
(* lint every planned pair, labels them in both modes, then saves the      *)
(* corpus and writes its evidence.  Between the gate and the plan the      *)
(* manifest and the JAR may be replaced.                                   *)
(* promote-forward-optional-benchmark-ready stamps such a corpus.          *)
(*                                                                         *)
(* A slot stands for the three output paths of one invocation.  Reports    *)
(* and evidence are written in place, a corpus by a temporary file and a   *)
(* rename: only the first can be torn.                                     *)
(***************************************************************************)
EXTENDS ExternalManifest

CONSTANTS
  Slots,
  Manifests,     \* contents the manifest may have
  V9,            \* the V9 corpus
  Profile,       \* base schema -> "open" or "closed"
  Candidates,    \* base schema -> optional additions proposed for it, [variant, pair]
  MinFamilies,   \* matched families a corpus needs (4 in the source)
  Jars, FrozenJar, PinnedPacks,
  MaxCommands,   \* commands started and plans of replaced files (bound)
  Torn

VARIABLES
  disk,      \* slot -> [preflight, corpus, evidence], each None, Torn or a content
  job,       \* None or the running command
  commands,  \* commands started, and plans of other files than were gated
  asked      \* history: what the JAR was asked, and on which manifests' account

vars == <<disk, job, commands, asked>>

Modes == {"FORWARD", "FULL"}
Empty == [preflight |-> None, corpus |-> None, evidence |-> None]
Readable(f) == f \notin {None, Torn}

-----------------------------------------------------------------------------
(* What the second reading of the manifest makes of it: None is an error.  *)
Transitions(m) == ToSet(m.transitions)
FamilyProfiles(m, family) == {Profile[t.base] : t \in {x \in Transitions(m) : x.family = family}}

PlanIsSound(m) ==
  /\ \A t \in Transitions(m) : t.mutation = "OPTIONAL_FIELD_ADDED" /\ t.use = "traceability-only"
  /\ \A t, u \in Transitions(m) : t.contract = u.contract => t.base = u.base /\ t.family = u.family
  /\ \A t \in Transitions(m) : FamilyProfiles(m, t.family) = {"open", "closed"}
  /\ Cardinality({t.family : t \in Transitions(m)}) >= MinFamilies

(* Seeds are the contracts, with the source of their first transition; the *)
(* variants a seed may use are those its own transitions name, the         *)
(* policies those any transition names.                                    *)
SeedOf(m, contract) ==
  LET t == m.transitions[Min({i \in DOMAIN m.transitions : m.transitions[i].contract = contract})]
  IN [contract |-> contract, family |-> t.family, source |-> t.source, base |-> t.base]
SeedsOf(m) == {SeedOf(m, t.contract) : t \in Transitions(m)}
AllowedVariants(m, contract) == {t.variant : t \in {x \in Transitions(m) : x.contract = contract}}
Policies(m) == {t.policy : t \in Transitions(m)}

(* Mutant: every seed may use the variants of every other.                 *)
PlannedAnyVariant(m) ==
  UNION {{[seed |-> s, pair |-> c.pair] :
            c \in {x \in Candidates[s.base] : \E u \in SeedsOf(m) : x.variant \in AllowedVariants(m, u.contract)}} :
         s \in SeedsOf(m)}

Planned(m) ==
  UNION {{[seed |-> s, pair |-> c.pair] :
            c \in {x \in Candidates[s.base] : x.variant \in AllowedVariants(m, s.contract)}} :
         s \in SeedsOf(m)}

(* A manifest whose transitions are candidates that the program proposes.  *)
(* Nothing compares the two: a manifest need not be like that.             *)
NamesCandidates(m) ==
  \A t \in Transitions(m) : [variant |-> t.variant, pair |-> t.pair] \in Candidates[t.base]

Question(planned, policy, mode) ==
  [source |-> planned.seed.source, family |-> planned.seed.family,
   pair |-> planned.pair, policy |-> policy, mode |-> mode]

(* Questions with the manifest that was gated and the one that was planned. *)
Asking(questions, j) == [questions |-> questions, gated |-> j.gated, planned |-> j.planned]

LintQuestions(m) == {Question(p, "baseline", "lint") : p \in Planned(m)}
LabelQuestions(m, mode) == {Question(p, policy, mode) : p \in Planned(m), policy \in Policies(m)}

(* What the files may hold.                                                *)
Questions == UNION {LabelQuestions(m, mode) : m \in Manifests, mode \in Modes}
Reports == {PreflightReport(m, V9, V9, jar, PinnedPacks) : m \in Manifests, jar \in Jars}
CorpusContents ==
  [records : SUBSET [q : Questions, jar : Jars, packs : {PinnedPacks}], ready : BOOLEAN,
   gated : Manifests, planned : Manifests, report : Slots]

(* Every base schema has a profile and candidates, and every schema has    *)
(* features.  A variant names one candidate of a base, and the features of *)
(* a V9 record are those of the pair it was generated from.                *)
TrackAssumption ==
  /\ MinFamilies \in Nat /\ MaxCommands \in Nat
  /\ DOMAIN Profile = DOMAIN Candidates
  /\ FrozenJar \in Jars
  /\ \A m \in Manifests : ParsedManifest(m) /\ \A t \in Transitions(m) : t.base \in DOMAIN Candidates
  /\ \A b \in DOMAIN Candidates : \A c \in Candidates[b] : c.pair \in DOMAIN Structural
  /\ \A b \in DOMAIN Candidates : \A c, d \in Candidates[b] : c.variant = d.variant => c = d
  /\ LoadedCorpus(V9)
  /\ \A r \in V9.records : r.pair # None =>
       r.pair \in DOMAIN Structural /\ r.features.structural = Structural[r.pair]
  /\ None \notin CorpusContents /\ Torn \notin CorpusContents \cup Reports

-----------------------------------------------------------------------------
Init ==
  /\ disk = [s \in Slots |-> Empty]
  /\ job = None
  /\ commands = 0
  /\ asked = {}

At(pc) == job # None /\ job.pc = pc
Quit == job' = None
Start == job = None /\ commands < MaxCommands /\ commands' = commands + 1

(* One of the three outputs that exists refuses the command.               *)
Generate(s, m, jar) ==
  /\ Start
  /\ disk[s] = Empty
  /\ job' = [pc |-> "gate", slot |-> s, gated |-> m, planned |-> None, jar |-> jar,
              records |-> {}, modes |-> {}]
  /\ UNCHANGED <<disk, asked>>

GateOpens(report) == report.passed

(* The report is written whether the gate opens or not.                    *)
Gate ==
  /\ At("gate")
  /\ LET report == PreflightReport(job.gated, V9, V9, job.jar, PinnedPacks)
     IN /\ report # None
        /\ disk' = [disk EXCEPT ![job.slot].preflight = report]
        /\ IF GateOpens(report) THEN job' = [job EXCEPT !.pc = "plan"] ELSE Quit
  /\ UNCHANGED <<commands, asked>>

(* The manifest is read once more and checked by other rules; then the     *)
(* oracle reads the JAR, whose hash the report already has.  Both are what *)
(* is at their paths by now.                                               *)
Plan(m, jar) ==
  /\ At("plan")
  /\ PlanIsSound(m)
  /\ commands' = IF m = job.gated /\ jar = job.jar THEN commands ELSE commands + 1
  /\ commands' <= MaxCommands
  /\ job' = [job EXCEPT !.pc = "lint", !.planned = m, !.jar = jar]
  /\ UNCHANGED <<disk, asked>>

(* Every planned pair is linted, under the pack "baseline", until one is   *)
(* refused; the evidence then says that there is no corpus.  Which of them *)
(* was refused is left out: all count as asked.                            *)
Lint ==
  /\ At("lint")
  /\ asked' = asked \cup {Asking(LintQuestions(job.planned), job)}
  /\ \/ /\ job' = [job EXCEPT !.pc = "label"]
        /\ UNCHANGED disk
     \/ /\ disk' = [disk EXCEPT ![job.slot].evidence = [generated |-> FALSE, records |-> {}]]
        /\ Quit
  /\ UNCHANGED commands

(* TrainingDataGenerator in one mode: all planned pairs under all policies *)
(* are labelled, and the JAR may reject those of one family.               *)
Label(mode) ==
  /\ At("label")
  /\ mode \notin job.modes
  /\ mode = "FULL" => "FORWARD" \in job.modes
  /\ LET questions == LabelQuestions(job.planned, mode)
     IN \E refused \in {None} \cup {q.family : q \in questions} :
          /\ asked' = asked \cup {Asking(questions, job)}
          /\ job' = [job EXCEPT !.modes = @ \cup {mode},
                                !.records = @ \cup {[q |-> q, jar |-> job.jar, packs |-> PinnedPacks] :
                                                    q \in {x \in questions : x.family # refused}}]
  /\ UNCHANGED <<disk, commands>>

(* The corpus is saved first, unstamped, and its evidence written next.    *)
Save ==
  /\ At("label")
  /\ job.modes = Modes
  /\ job.records # {}
  /\ disk' = [disk EXCEPT ![job.slot].corpus = [records |-> job.records, ready |-> FALSE,
                                                gated |-> job.gated, planned |-> job.planned,
                                                report |-> job.slot]]
  /\ job' = [job EXCEPT !.pc = "evidence"]
  /\ UNCHANGED <<commands, asked>>

WriteEvidence ==
  /\ At("evidence")
  /\ disk' = [disk EXCEPT ![job.slot].evidence = [generated |-> TRUE, records |-> job.records]]
  /\ Quit
  /\ UNCHANGED <<commands, asked>>

-----------------------------------------------------------------------------
CleanReport(r) ==
  r.passed /\ r.rejected = 0 /\ r.accepted = r.total /\ r.jar = FrozenJar /\ r.packs = PinnedPacks

FrozenRecords(corpus) ==
  \A r \in corpus.records : r.jar = FrozenJar /\ r.packs = PinnedPacks /\ r.q.mode \in Modes

(* Any clean report will do, and any unstamped corpus; the readiness audit *)
(* of the corpus itself may go either way.  The stamped corpus is saved    *)
(* before its evidence is written.                                         *)
Promote(s, input, report) ==
  /\ Start
  /\ disk[s].corpus = None /\ disk[s].evidence = None
  /\ Readable(disk[report].preflight) /\ CleanReport(disk[report].preflight)
  /\ Readable(disk[input].corpus) /\ ~disk[input].corpus.ready
  /\ FrozenRecords(disk[input].corpus)
  /\ disk' = [disk EXCEPT ![s].corpus = [disk[input].corpus EXCEPT !.ready = TRUE, !.report = report]]
  /\ job' = [pc |-> "evidence", slot |-> s, records |-> disk[input].corpus.records]
  /\ UNCHANGED asked

(* The process ends, by an error or from outside: a file it was writing in *)
(* place is torn, everything it had not written is lost.                   *)
Crash ==
  /\ job # None
  /\ \/ UNCHANGED disk
     \/ job.pc = "gate" /\ disk' = [disk EXCEPT ![job.slot].preflight = Torn]
     \/ job.pc \in {"lint", "evidence"} /\ disk' = [disk EXCEPT ![job.slot].evidence = Torn]
  /\ Quit
  /\ UNCHANGED <<commands, asked>>

Finished ==
  /\ job = None /\ commands = MaxCommands
  /\ UNCHANGED vars

Next ==
  \/ \E s \in Slots, m \in Manifests, jar \in Jars : Generate(s, m, jar)
  \/ Gate \/ (\E m \in Manifests, jar \in Jars : Plan(m, jar)) \/ Lint
  \/ (\E mode \in Modes : Label(mode)) \/ Save \/ WriteEvidence
  \/ \E s, input, report \in Slots : Promote(s, input, report)
  \/ Crash \/ Finished

Spec == Init /\ [][Next]_vars

-----------------------------------------------------------------------------
CorpusSlots == {s \in Slots : Readable(disk[s].corpus)}

Apart(q) ==
  \A x \in V9.records :
    /\ q.source # x.source /\ q.family # x.family
    /\ x.pair = None \/ <<q.pair, q.policy>> # <<x.pair, x.policy>>
    /\ CoordinateDistance(Structural[q.pair], x.features.structural) > MaxDistance

(* "A rejected source/family/pair/feature record cannot reach a JAR        *)
(* invocation" (main.rs:477): whatever the JAR is asked about is away from *)
(* V9.  It is not, when the manifest is replaced after the gate, or when   *)
(* it lists another candidate than the one the program proposes.           *)
AskedPairsPassTheGate == \A a \in asked : \A q \in a.questions : Apart(q)

(* What becomes of the gate when the manifest and the JAR are replaced     *)
(* behind it: the JAR is asked about nothing the second reading does not   *)
(* name, by contract, family, variant and policy; and whichever source,    *)
(* family or pair of it the gated manifest listed, under whatever policy,  *)
(* is away from V9 under the policy it is asked with.                      *)
GatedStaysAway ==
  \A a \in asked : \A q \in a.questions :
    /\ \E t, u \in Transitions(a.planned) :
         /\ t.source = q.source /\ t.family = q.family /\ t.contract = u.contract
         /\ \E c \in Candidates[t.base] : c.variant = u.variant /\ c.pair = q.pair
    /\ q.mode = "lint" \/ \E t \in Transitions(a.planned) : t.policy = q.policy
    /\ \A g \in Transitions(a.gated), x \in V9.records :
         /\ g.source = q.source => q.source # x.source
         /\ g.family = q.family => q.family # x.family
         /\ g.pair = q.pair =>
              /\ x.pair = None \/ x.pair # q.pair
              /\ CoordinateDistance(Structural[q.pair], x.features.structural) > MaxDistance

(* generate_forward_optional_isolated multiplies what the manifest names,  *)
(* seeds with variants and with the policies of all transitions; where it  *)
(* planned the manifest that was gated, and that lists the program's own   *)
(* candidates, none of the pairs it makes that way and gives to the JAR is *)
(* of V9, or near it, although only the listed ones went through the gate. *)
AskedAsGatedAreApart ==
  \A a \in asked : a.planned = a.gated /\ NamesCandidates(a.planned) => \A q \in a.questions : Apart(q)

(* However the commands end, an unstamped corpus on disk lies beside a     *)
(* complete report that passed, of the manifest it was gated with, and it  *)
(* holds records of no pair the JAR was not asked about behind that gate.  *)
CorpusFollowsItsGate ==
  \A s \in CorpusSlots :
    LET c == disk[s].corpus
    IN ~c.ready => /\ Readable(disk[s].preflight)
                   /\ disk[s].preflight.passed /\ disk[s].preflight.manifest = c.gated
                   /\ \A r \in c.records : \E a \in asked :
                        a.gated = c.gated /\ a.planned = c.planned /\ r.q \in a.questions

(* Complete evidence is never ahead of the corpus: what says it was        *)
(* generated has its corpus, record for record, and what says it was not   *)
(* has none.                                                               *)
EvidenceDescribesDisk ==
  \A s \in Slots : Readable(disk[s].evidence) =>
    IF disk[s].evidence.generated
    THEN Readable(disk[s].corpus) /\ disk[s].corpus.records = disk[s].evidence.records
    ELSE disk[s].corpus = None

(* A corpus stamped benchmark_ready repeats the records of an unstamped    *)
(* one, all labelled by the frozen JAR under the pinned policies, and a    *)
(* clean report under the same identities is on disk.                      *)
ReadyIsEarned ==
  \A s \in CorpusSlots : disk[s].corpus.ready =>
    /\ \E o \in CorpusSlots : ~disk[o].corpus.ready /\ disk[o].corpus.records = disk[s].corpus.records
    /\ \A r \in disk[s].corpus.records : r.jar = FrozenJar /\ r.packs = PinnedPacks
    /\ LET report == disk[disk[s].corpus.report].preflight
       IN /\ Readable(report) /\ report.jar = FrozenJar
          /\ \A i \in DOMAIN report.records : report.records[i].reasons = {}

(* "Promotes the exact isolated corpus only after its persisted            *)
(* contamination report" is revalidated (main.rs:891): the report is that  *)
(* of the corpus.                                                          *)
PromotedOnItsOwnReport ==
  \A s \in CorpusSlots : disk[s].corpus.ready =>
    disk[disk[s].corpus.report].preflight.manifest = disk[s].corpus.gated

=============================================================================
