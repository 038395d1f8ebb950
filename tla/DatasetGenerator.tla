-------------------------- MODULE DatasetGenerator --------------------------
(***************************************************************************)
(* TrainingDataGenerator::generate of generation/dataset.rs: source        *)
(* schemas are pulled from an iterator, their mutation candidates labelled *)
(* by the oracle JAR under every policy pack, and the answers retained     *)
(* under quotas into the records of one dataset.  One action per stage of  *)
(* the loop body; a policy's answer is consumed by one action.             *)
(*                                                                         *)
(* The oracle calls of one candidate are one step: OracleBatch shows that  *)
(* the worker threads behind them deliver what a serial loop delivers.     *)
(***************************************************************************)
EXTENDS GeneralizationGate, Sequences, SequencesExt, Bags

CONSTANTS
  Seeds,             \* the sampled SeedSchemas; ids are unique
  SchemaOf,          \* seed -> canonical base schema
  Proposals,         \* seed -> sequence of [kind, variant, schema], the
                     \* result of candidates_for_schema (<<>> if unusable)
  PolicyPacks,       \* config.policy_packs, a sequence
  MaxSeedSchemas,    \* config.max_seed_schemas
  MutationFilter,    \* config.mutation_filter; {} allows every kind
  AllowedVariants,   \* config.allowed_variants_by_seed; <<>> allows all
  KeepVariantsOf,    \* config.retain_variants_for_mutations
  PerOutcome,        \* config.max_records_per_outcome, or NoLimit
  PerStratum,        \* config.max_records_per_policy_mutation_outcome
  HashReserved,      \* families whose hash falls below the challenge ratio
  CoverageTarget,    \* config.coverage_target, or NoTarget
  MayAnswer,         \* fingerprint -> the answers the JAR may give
  NoLimit, NoTarget, NoSeed

Kinds == UNION {{Proposals[s][i].kind : i \in DOMAIN Proposals[s]} : s \in Seeds}

Fingerprint(s, c, policy) == <<SchemaOf[s], c.schema, policy>>

ASSUME GeneratorAssumption ==
  /\ PolicyPacks \in Seq(STRING) /\ PolicyPacks # <<>>
  /\ MaxSeedSchemas \in Nat \ {0}
  /\ PerOutcome = NoLimit \/ PerOutcome \in Nat \ {0}
  /\ PerStratum = NoLimit \/ PerStratum \in Nat \ {0}
  /\ NoSeed \notin Seeds
  /\ \A s \in Seeds : \A i \in DOMAIN Proposals[s] :
       /\ i \in Nat
       /\ Proposals[s][i].variant \in STRING
       /\ \A n \in DOMAIN PolicyPacks :
            LET fp == Fingerprint(s, Proposals[s][i], PolicyPacks[n])
            IN  fp \in DOMAIN MayAnswer /\ MayAnswer[fp] \subseteq Answers

VARIABLES
  phase,         \* where the loop stands
  unread,        \* seeds the iterator has not yielded
  seed,          \* the seed being processed
  todo,          \* indices of its candidates still to be proposed
  load,          \* records per mutation kind when the seed was pulled
  current,       \* index of the candidate whose answers are consumed
  runs,          \* its remaining policy runs, in policy order
  records,       \* the retained records, in order
  retained,      \* retained_fingerprints
  strata,        \* report.accepted_policy_mutation_outcomes, a bag
  familyStrata,  \* retained_family_strata, a bag
  report,        \* the other counters of GeneratorReport
  coverage       \* report.coverage_target_reached: "none", "unmet", "met"

vars == <<phase, unread, seed, todo, load, current, runs, records, retained,
          strata, familyStrata, report, coverage>>

Phases == {"pull", "propose", "consume", "close", "assemble", "done", "failed"}

RecordSet(recs) == {recs[i] : i \in DOMAIN recs}

-----------------------------------------------------------------------------
(* Which candidates of a seed may reach the oracle: the mutation filter    *)
(* and the variant allowlist; a seed missing from a non-empty allowlist is *)
(* skipped.                                                                *)
Proposable(s) ==
  {i \in DOMAIN Proposals[s] :
     /\ MutationFilter # {} => Proposals[s][i].kind \in MutationFilter
     /\ DOMAIN AllowedVariants # {} =>
          /\ s \in DOMAIN AllowedVariants
          /\ Proposals[s][i].variant \in AllowedVariants[s]}

(* Retained records of a mutation kind: its strata (policy, kind, label),  *)
(* summed.                                                                 *)
KindLoad(k) ==
  BagCardinality([x \in {y \in DOMAIN strata : y[2] = k} |-> strata[x]])

(* sort_by_key on that load is stable: ties keep the proposal order.       *)
Before(i, j) ==
  LET li == load[Proposals[seed][i].kind]
      lj == load[Proposals[seed][j].kind]
  IN  li < lj \/ (li = lj /\ i < j)

HashRole(s) == IF FamilyOf[s] \in HashReserved THEN "challenge" ELSE "standard"

(* The strata whose counts the quotas compare.  "any" stands for the       *)
(* variant that the family stratum leaves out.                             *)
Stratum(policy, c, answer) == <<policy, c.kind, LabelOf(answer)>>
FamilyStratum(policy, c, answer) ==
  <<seed, Stratum(policy, c, answer),
    IF c.kind \in KeepVariantsOf THEN c.variant ELSE "any">>

(* A counter of a map that starts every key at 0.                          *)
Held(x, B) == IF x \in DOMAIN B THEN B[x] ELSE 0

(* retain_policy_mutation_outcome: under a coverage target the cap binds   *)
(* repeats inside one source seed, otherwise the whole corpus.             *)
StratumOpen(policy, c, answer) ==
  PerStratum # NoLimit =>
    IF CoverageTarget # NoTarget
    THEN Held(FamilyStratum(policy, c, answer), familyStrata) < PerStratum
    ELSE Held(Stratum(policy, c, answer), strata) < PerStratum

(* retain_outcome *)
OutcomeOpen(answer) ==
  PerOutcome # NoLimit => report.accepted[LabelOf(answer)] < PerOutcome

(* Mutant: one full outcome ends the run.                                  *)
AnyBalanceReached ==
  /\ PerOutcome # NoLimit
  /\ \E l \in Labels : report.accepted[l] >= PerOutcome

(* outcome_balance_reached *)
BalanceReached ==
  /\ PerOutcome # NoLimit
  /\ \A l \in Labels : report.accepted[l] >= PerOutcome

-----------------------------------------------------------------------------
(* reserve_missing_variable_mutation_outcomes                              *)
MissingOutcomes(R) ==
  {m \in KindsIn(R) \X Labels :
     /\ Cardinality(LabelsIn(OfKind(R, m[1]))) >= 2
     /\ m[2] \in LabelsIn(OfKind(R, m[1]))
     /\ m[2] \notin LabelsIn(OfKind(OfRole(R, "challenge"), m[1]))}

(* The first standard record with that mutation and label.                 *)
FirstHolder(recs, k, l) ==
  LET holders == {i \in DOMAIN recs : /\ recs[i].role = "standard"
                                      /\ recs[i].kind = k
                                      /\ Label(recs[i]) = l}
  IN  CHOOSE i \in holders : \A j \in holders : i <= j

ReservedBy(recs) ==
  {Family(recs[FirstHolder(recs, m[1], m[2])]) : m \in MissingOutcomes(RecordSet(recs))}

(* Mutant: only the record that holds the missing outcome moves.           *)
ReserveHolders(recs) ==
  LET holders == {FirstHolder(recs, m[1], m[2]) : m \in MissingOutcomes(RecordSet(recs))}
  IN  [i \in DOMAIN recs |->
         IF i \in holders THEN [recs[i] EXCEPT !.role = "challenge"] ELSE recs[i]]

(* Mutant: the roles of the other families are reset.                      *)
ReserveAfresh(recs) ==
  LET families == ReservedBy(recs)
  IN  [i \in DOMAIN recs |->
         [recs[i] EXCEPT !.role = IF Family(recs[i]) \in families
                                  THEN "challenge" ELSE "standard"]]

ReserveMissing(recs) ==
  LET families == ReservedBy(recs)
  IN  [i \in DOMAIN recs |->
         IF Family(recs[i]) \in families
         THEN [recs[i] EXCEPT !.role = "challenge"] ELSE recs[i]]

(* PreparedDcgDataset::new: not empty, unique record ids.                  *)
RecordId(r) == <<r.seed, r.kind, r.variant, r.policy>>
Assembles(recs) ==
  /\ recs # <<>>
  /\ \A i, j \in DOMAIN recs : RecordId(recs[i]) = RecordId(recs[j]) => i = j

(* coverage_status: the target's own minimums and the benchmark gate.      *)
CoverageMet(recs) ==
  LET R == RecordSet(recs)
  IN  /\ Assembles(recs)
      /\ Len(recs) >= CoverageTarget.records
      /\ Cardinality(FamiliesIn(OfRole(R, "standard"))) >= CoverageTarget.standard
      /\ Cardinality(FamiliesIn(OfRole(R, "challenge"))) >= CoverageTarget.challenge
      /\ Cardinality(CompletePairs(R)) >= CoverageTarget.pairs
      /\ \A role \in Roles, profile \in {"open", "closed"} :
           Cardinality(OptionalFamilies(R, role, profile)) >= CoverageTarget.profile[role]
      /\ Ready(R)

CoverageOf(recs) == IF CoverageMet(recs) THEN "met" ELSE "unmet"

-----------------------------------------------------------------------------
Init ==
  /\ phase = "pull"
  /\ unread = Seeds
  /\ seed = NoSeed
  /\ todo = {}
  /\ load = [k \in Kinds |-> 0]
  /\ current = 0
  /\ runs = <<>>
  /\ records = <<>>
  /\ retained = {}
  /\ strata = EmptyBag
  /\ familyStrata = EmptyBag
  /\ report = [seen |-> 0, skippedSeeds |-> 0, proposed |-> 0, rejected |-> 0,
               duplicates |-> 0, quota |-> 0, accepted |-> [l \in Labels |-> 0]]
  /\ coverage = "none"

corpus == <<records, retained, strata, familyStrata>>

(* The iterator yields a seed none of whose candidates may be proposed.    *)
SkipSeed(s) ==
  /\ phase = "pull"
  /\ report.seen < MaxSeedSchemas
  /\ s \in unread
  /\ Proposable(s) = {}
  /\ unread' = unread \ {s}
  /\ report' = [report EXCEPT !.seen = @ + 1, !.skippedSeeds = @ + 1]
  /\ UNCHANGED <<phase, seed, todo, load, current, runs, corpus, coverage>>

(* ... or a usable one: its candidates are ordered once, by the load now.  *)
PullSeed(s) ==
  /\ phase = "pull"
  /\ report.seen < MaxSeedSchemas
  /\ s \in unread
  /\ Proposable(s) # {}
  /\ unread' = unread \ {s}
  /\ seed' = s
  /\ todo' = Proposable(s)
  /\ load' = [k \in Kinds |-> KindLoad(k)]
  /\ report' = [report EXCEPT !.seen = @ + 1]
  /\ phase' = "propose"
  /\ UNCHANGED <<current, runs, corpus, coverage>>

(* check_candidate_policies labels the least-loaded candidate under every  *)
(* policy pack, in declared order.                                         *)
Propose(i) ==
  /\ phase = "propose"
  /\ i \in todo
  /\ \A j \in todo \ {i} : Before(i, j)
  /\ \E answers \in [DOMAIN PolicyPacks -> Answers] :
       /\ \A n \in DOMAIN PolicyPacks :
            answers[n] \in MayAnswer[Fingerprint(seed, Proposals[seed][i], PolicyPacks[n])]
       /\ runs' = [n \in DOMAIN PolicyPacks |->
                     [policy |-> PolicyPacks[n], answer |-> answers[n]]]
  /\ current' = i
  /\ todo' = todo \ {i}
  /\ phase' = "consume"
  /\ UNCHANGED <<unread, seed, load, corpus, report, coverage>>

(* An oracle call that cannot be staged, run or classified aborts the      *)
(* whole run: `?` drops every retained record.                             *)
OracleFails ==
  /\ phase = "propose"
  /\ phase' = "failed"
  /\ UNCHANGED <<unread, seed, todo, load, current, runs, corpus, report, coverage>>

-----------------------------------------------------------------------------
(* Consuming the next policy run of the current candidate.                 *)
candidate == Proposals[seed][current]
run       == Head(runs)
runPrint  == Fingerprint(seed, candidate, run.policy)

(* The loop moves to the next run, candidate, or the end of the seed.      *)
Advance ==
  /\ phase = "consume"
  /\ runs' = Tail(runs)
  /\ phase' = IF Len(runs) > 1 THEN "consume"
              ELSE IF todo # {} THEN "propose" ELSE "close"
  /\ UNCHANGED <<unread, seed, todo, load, current, coverage>>

Admissible ==
  /\ phase = "consume"
  /\ run.answer # "rejected"
  /\ runPrint \notin retained

Rejected ==
  /\ Advance
  /\ run.answer = "rejected"
  /\ report' = [report EXCEPT !.proposed = @ + 1, !.rejected = @ + 1]
  /\ UNCHANGED corpus

Duplicate ==
  /\ Advance
  /\ run.answer # "rejected"
  /\ runPrint \in retained
  /\ report' = [report EXCEPT !.proposed = @ + 1, !.duplicates = @ + 1]
  /\ UNCHANGED corpus

(* Mutant: a quota-skipped answer reserves its pair's identity.            *)
QuotaSkipReserves ==
  /\ Admissible
  /\ \/ ~StratumOpen(run.policy, candidate, run.answer)
     \/ ~OutcomeOpen(run.answer)
  /\ Advance
  /\ report' = [report EXCEPT !.proposed = @ + 1, !.quota = @ + 1]
  /\ retained' = retained \cup {runPrint}
  /\ UNCHANGED <<records, strata, familyStrata>>

(* Mutant: the outcome counter is raised before its quota is tested.       *)
QuotaSkipCounts ==
  /\ Admissible
  /\ \/ ~StratumOpen(run.policy, candidate, run.answer)
     \/ ~OutcomeOpen(run.answer)
  /\ Advance
  /\ report' = [report EXCEPT !.proposed = @ + 1, !.quota = @ + 1,
                              !.accepted[LabelOf(run.answer)] = @ + 1]
  /\ UNCHANGED corpus

(* A full stratum is tested before a full outcome; neither reserves the    *)
(* pair's identity.                                                        *)
QuotaSkip ==
  /\ Admissible
  /\ \/ ~StratumOpen(run.policy, candidate, run.answer)
     \/ ~OutcomeOpen(run.answer)
  /\ Advance
  /\ report' = [report EXCEPT !.proposed = @ + 1, !.quota = @ + 1]
  /\ UNCHANGED corpus

Retain ==
  /\ Admissible
  /\ StratumOpen(run.policy, candidate, run.answer)
  /\ OutcomeOpen(run.answer)
  /\ Advance
  /\ retained' = retained \cup {runPrint}
  /\ records' = Append(records,
       [seed |-> seed, kind |-> candidate.kind, variant |-> candidate.variant,
        policy |-> run.policy, answer |-> run.answer,
        role |-> HashRole(seed), fp |-> runPrint])
  /\ strata' = strata (+) SetToBag({Stratum(run.policy, candidate, run.answer)})
  /\ familyStrata' =
       familyStrata (+) SetToBag({FamilyStratum(run.policy, candidate, run.answer)})
  /\ report' = [report EXCEPT !.proposed = @ + 1,
                              !.accepted[LabelOf(run.answer)] = @ + 1]

(* A pair whose features cannot be extracted aborts the run as well.       *)
FeaturesFail ==
  /\ Admissible
  /\ StratumOpen(run.policy, candidate, run.answer)
  /\ OutcomeOpen(run.answer)
  /\ phase' = "failed"
  /\ UNCHANGED <<unread, seed, todo, load, current, runs, corpus, report, coverage>>

-----------------------------------------------------------------------------
(* Mutant: the audit precedes the reservation it should describe.          *)
CloseSeedAuditFirst ==
  /\ phase = "close"
  /\ IF CoverageTarget # NoTarget
     THEN /\ records' = ReserveMissing(records)
          /\ coverage' = CoverageOf(records)
          /\ phase' = IF coverage' = "met" THEN "assemble" ELSE "pull"
     ELSE /\ UNCHANGED <<records, coverage>>
          /\ phase' = IF BalanceReached THEN "assemble" ELSE "pull"
  /\ UNCHANGED <<unread, seed, todo, load, current, runs, retained, strata,
                 familyStrata, report>>

(* Mutant: after the last source a balanced run waits for full outcomes.   *)
CloseSeedUntilFull ==
  /\ phase = "close"
  /\ phase' = IF BalanceReached THEN "assemble"
              ELSE IF unread = {} \/ report.seen = MaxSeedSchemas THEN "close" ELSE "pull"
  /\ UNCHANGED <<unread, seed, todo, load, current, runs, corpus, report, coverage>>

(* After a seed: a coverage run reserves missing outcomes and re-audits,   *)
(* stopping when the target is met; a balanced run stops when every        *)
(* outcome is full.                                                        *)
CloseSeed ==
  /\ phase = "close"
  /\ IF CoverageTarget # NoTarget
     THEN /\ records' = ReserveMissing(records)
          /\ coverage' = CoverageOf(records')
          /\ phase' = IF coverage' = "met" THEN "assemble" ELSE "pull"
     ELSE /\ UNCHANGED <<records, coverage>>
          /\ phase' = IF BalanceReached THEN "assemble" ELSE "pull"
  /\ UNCHANGED <<unread, seed, todo, load, current, runs, retained, strata,
                 familyStrata, report>>

(* The iterator or the source budget is exhausted.                         *)
SourceExhausted ==
  /\ phase = "pull"
  /\ unread = {} \/ report.seen = MaxSeedSchemas
  /\ phase' = "assemble"
  /\ UNCHANGED <<unread, seed, todo, load, current, runs, corpus, report, coverage>>

(* Mutant: the final reservation runs in coverage mode only.               *)
AssembleUnreserved ==
  /\ phase = "assemble"
  /\ records' = IF CoverageTarget # NoTarget /\ coverage # "met"
                THEN ReserveMissing(records) ELSE records
  /\ coverage' = IF CoverageTarget # NoTarget /\ coverage # "met"
                 THEN CoverageOf(records') ELSE coverage
  /\ phase' = IF Assembles(records') THEN "done" ELSE "failed"
  /\ UNCHANGED <<unread, seed, todo, load, current, runs, retained, strata,
                 familyStrata, report>>

(* The last reservation and audit, then the dataset, or its refusal.       *)
Assemble ==
  /\ phase = "assemble"
  /\ records' = IF coverage = "met" THEN records ELSE ReserveMissing(records)
  /\ coverage' = IF CoverageTarget # NoTarget /\ coverage # "met"
                 THEN CoverageOf(records') ELSE coverage
  /\ phase' = IF Assembles(records') THEN "done" ELSE "failed"
  /\ UNCHANGED <<unread, seed, todo, load, current, runs, retained, strata,
                 familyStrata, report>>

(* generate has returned.                                                  *)
Returned == phase \in {"done", "failed"} /\ UNCHANGED vars

Next ==
  \/ \E s \in Seeds : SkipSeed(s) \/ PullSeed(s)
  \/ \E i \in todo : Propose(i)
  \/ OracleFails
  \/ Rejected \/ Duplicate \/ QuotaSkip \/ Retain \/ FeaturesFail
  \/ CloseSeed \/ SourceExhausted \/ Assemble
  \/ Returned

Spec == Init /\ [][Next]_vars

(* The generator is one thread that never waits on itself, and the model   *)
(* takes it that a started JAR process returns.                            *)
FairSpec == Spec /\ WF_vars(Next)

-----------------------------------------------------------------------------
RecordType ==
  [seed : Seeds, kind : Kinds, variant : STRING, policy : STRING,
   answer : Answers \ {"rejected"}, role : Roles, fp : DOMAIN MayAnswer]

(* The shape of the loop's state and of the report.                        *)
TypeOK ==
  /\ phase \in Phases
  /\ unread \subseteq Seeds
  /\ seed \in Seeds \cup {NoSeed}
  /\ todo \subseteq Nat
  /\ load \in [Kinds -> Nat]
  /\ current \in Nat
  /\ runs \in Seq([policy : STRING, answer : Answers])
  /\ records \in Seq(RecordType)
  /\ retained \subseteq DOMAIN MayAnswer
  /\ IsABag(strata) /\ IsABag(familyStrata)
  /\ report \in [seen : 0..MaxSeedSchemas, skippedSeeds : Nat, proposed : Nat,
                 rejected : Nat, duplicates : Nat, quota : Nat,
                 accepted : [Labels -> Nat]]
  /\ coverage \in {"none", "unmet", "met"}

(* Over duplicate pairs, quotas and the role changes of the reservation,   *)
(* no canonical pair is retained twice, and exactly the retained pairs are *)
(* remembered: a quota-skipped answer leaves its pair free for a later     *)
(* candidate (the comment above retained_fingerprints.insert).             *)
PairRetainedOnce ==
  /\ retained = {records[i].fp : i \in DOMAIN records}
  /\ \A i, j \in DOMAIN records : records[i].fp = records[j].fp => i = j

(* The strata of a retained record.                                        *)
StratumOf(r) == <<r.policy, r.kind, Label(r)>>
FamilyStratumOf(r) ==
  <<r.seed, StratumOf(r), IF r.kind \in KeepVariantsOf THEN r.variant ELSE "any">>

(* Every proposal ends in exactly one of the report's counters or in the   *)
(* dataset, and the counters the quotas read are the counts of the records *)
(* actually held, whichever exit of the loop body each proposal took.      *)
ReportDescribesRecords ==
  /\ report.proposed = report.rejected + report.duplicates + report.quota + Len(records)
  /\ \A l \in Labels :
       report.accepted[l] = Cardinality({i \in DOMAIN records : Label(records[i]) = l})
  /\ strata = ToBag([i \in DOMAIN records |-> StratumOf(records[i])])
  /\ familyStrata = ToBag([i \in DOMAIN records |-> FamilyStratumOf(records[i])])

(* A source family is never on both sides of the challenge holdout         *)
(* ("a whole source family always moves together").                        *)
FamilyKeepsOneRole ==
  \A i, j \in DOMAIN records :
    Family(records[i]) = Family(records[j]) => records[i].role = records[j].role

(* The dataset that generate returns holds no family in both roles         *)
(* ("those profiles can never cross a split").                             *)
ReturnedFamiliesIsolated == phase = "done" => ~FamilyLeak(RecordSet(records))

(* Every mutation observed with two or more labels has each of its labels  *)
(* in the challenge data of the dataset that generate returns.             *)
VariableOutcomesHeldOut ==
  phase = "done" => MissingOutcomes(RecordSet(records)) = {}

(* What the report says of the coverage target is what an audit of the     *)
(* returned records says, although roles moved since the last seed.        *)
CoverageClaimMatchesArtifact ==
  phase = "done" /\ CoverageTarget # NoTarget =>
    (coverage = "met" <=> CoverageMet(records))

(* The generator stops early only on a met target or full outcomes.        *)
StopsOnlyWhenEntitled ==
  phase \in {"assemble", "done"} =>
    \/ unread = {} \/ report.seen = MaxSeedSchemas
    \/ coverage = "met"
    \/ /\ CoverageTarget = NoTarget
       /\ PerOutcome # NoLimit
       /\ \A l \in Labels :
            Cardinality({i \in DOMAIN records : Label(records[i]) = l}) >= PerOutcome

(* A retained record is never dropped, reordered or relabelled; the one    *)
(* change it can suffer is a move from standard to challenge.              *)
OnlyReservationTouchesRecords ==
  [][/\ Len(records') >= Len(records)
     /\ \A i \in DOMAIN records :
          \/ records'[i] = records[i]
          \/ /\ phase \in {"close", "assemble"}
             /\ records[i].role = "standard"
             /\ records'[i] = [records[i] EXCEPT !.role = "challenge"]]_vars

(* Whatever the JAR answers, generate returns.                             *)
Terminates == <>(phase \in {"done", "failed"})

=============================================================================
