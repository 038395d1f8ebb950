----------------------- MODULE DatasetGeneratorProofs -----------------------
(***************************************************************************)
(* For any sources, proposals, policies, quotas and answers of the JAR:    *)
(* no pair is retained twice, a reservation changes nothing but roles, it  *)
(* leaves no variable outcome unreserved, the coverage claim is that of    *)
(* the returned records, families keep one role where they can, the report *)
(* counts the records that are held, and the run stops only when entitled. *)
(***************************************************************************)
EXTENDS DatasetGenerator, SequenceTheorems, FiniteSetTheorems, WellFoundedInduction, TLAPS

RunType == [policy : {PolicyPacks[n] : n \in DOMAIN PolicyPacks}, answer : Answers]

(* The part of TypeOK that the results below rest on, with what the phases *)
(* say of the seed, its candidates and the runs.                           *)
GenType ==
  /\ phase \in Phases
  /\ unread \subseteq Seeds
  /\ phase \in {"propose", "consume", "close"} => seed \in Seeds
  /\ phase \in {"propose", "consume"} => todo \subseteq DOMAIN Proposals[seed]
  /\ phase = "consume" => current \in DOMAIN Proposals[seed] /\ runs # <<>>
  /\ runs \in Seq(RunType)
  /\ records \in Seq(RecordType)

-----------------------------------------------------------------------------
(* A set of positions that is not empty has a first one.                   *)
LEMMA FirstExists ==
  ASSUME NEW S \in SUBSET Nat, S # {}
  PROVE  \E i \in S : \A j \in S : i <= j
<1> DEFINE R == OpToRel(<, Nat)
<1>1. IsWellFoundedOn(R, Nat)
  BY NatLessThanWellFounded
<1>2. \A x, y \in Nat : x < y => <<x, y>> \in R
  BY DEF OpToRel
<1> HIDE DEF R
<1>3. PICK i \in S : \A j \in S : ~ (<<j, i>> \in R)
  BY <1>1, WFMin
<1>4. ASSUME NEW j \in S PROVE i <= j
  <2>1. ~ (j < i)
    BY <1>2, <1>3
  <2> QED BY <2>1
<1> QED
  BY <1>4

(* A function on 1..n with values in S is a sequence.                      *)
LEMMA FunctionIsSeq ==
  ASSUME NEW S, NEW n \in Nat, NEW f \in [1..n -> S]
  PROVE  f \in Seq(S) /\ Len(f) = n
<1>1. f \in Seq(S)
  BY SeqDef
<1>2. Len(f) \in Nat /\ DOMAIN f = 1..Len(f)
  BY <1>1, LenProperties
<1>3. 1..n = 1..Len(f)
  BY <1>2
<1> QED
  BY <1>1, <1>2, <1>3

(* A reservation yields as many records; each is the old one, or was       *)
(* standard and is challenge now; and families move whole.                 *)
LEMMA ReservationMoves ==
  ASSUME NEW recs \in Seq(RecordType)
  PROVE  /\ ReserveMissing(recs) \in Seq(RecordType)
         /\ Len(ReserveMissing(recs)) = Len(recs)
         /\ DOMAIN ReserveMissing(recs) = DOMAIN recs
         /\ \A i \in DOMAIN recs :
              \/ ReserveMissing(recs)[i] = recs[i]
              \/ /\ recs[i].role = "standard"
                 /\ ReserveMissing(recs)[i] = [recs[i] EXCEPT !.role = "challenge"]
         /\ \A i \in DOMAIN recs :
              /\ ReserveMissing(recs)[i].fp = recs[i].fp
              /\ ReserveMissing(recs)[i].seed = recs[i].seed
              /\ ReserveMissing(recs)[i].kind = recs[i].kind
              /\ ReserveMissing(recs)[i].variant = recs[i].variant
              /\ ReserveMissing(recs)[i].policy = recs[i].policy
              /\ ReserveMissing(recs)[i].answer = recs[i].answer
              /\ ReserveMissing(recs)[i].role =
                   IF Family(recs[i]) \in ReservedBy(recs) THEN "challenge" ELSE recs[i].role
<1> DEFINE out == ReserveMissing(recs)
           moved(r) == [r EXCEPT !.role = "challenge"]
<1>0. Len(recs) \in Nat /\ DOMAIN recs = 1..Len(recs)
  BY LenProperties
<1>1. out = [i \in 1..Len(recs) |->
               IF Family(recs[i]) \in ReservedBy(recs) THEN moved(recs[i]) ELSE recs[i]]
  BY <1>0 DEF ReserveMissing
<1>2. \A r \in RecordType :
        /\ moved(r) \in RecordType
        /\ moved(r).fp = r.fp
        /\ moved(r).seed = r.seed
        /\ moved(r).kind = r.kind
        /\ moved(r).variant = r.variant
        /\ moved(r).policy = r.policy
        /\ moved(r).answer = r.answer
        /\ moved(r).role = "challenge"
        /\ r.role = "standard" \/ moved(r) = r
  BY DEF RecordType, Roles
<1>3. \A i \in 1..Len(recs) : recs[i] \in RecordType
  BY ElementOfSeq
<1> HIDE DEF out, moved
<1>4. out \in [1..Len(recs) -> RecordType]
  BY <1>1, <1>2, <1>3
<1>5. out \in Seq(RecordType) /\ Len(out) = Len(recs) /\ DOMAIN out = DOMAIN recs
  BY <1>0, <1>4, FunctionIsSeq
<1>6. \A i \in DOMAIN recs : out[i] = IF Family(recs[i]) \in ReservedBy(recs)
                                      THEN moved(recs[i]) ELSE recs[i]
  BY <1>0, <1>1
<1>7. \A i \in DOMAIN recs :
        out[i] = recs[i] \/ (recs[i].role = "standard" /\ out[i] = moved(recs[i]))
  BY <1>0, <1>2, <1>3, <1>6
<1>8. \A i \in DOMAIN recs :
        /\ out[i].fp = recs[i].fp
        /\ out[i].seed = recs[i].seed
        /\ out[i].kind = recs[i].kind
        /\ out[i].variant = recs[i].variant
        /\ out[i].policy = recs[i].policy
        /\ out[i].answer = recs[i].answer
        /\ out[i].role = IF Family(recs[i]) \in ReservedBy(recs)
                         THEN "challenge" ELSE recs[i].role
  BY <1>0, <1>2, <1>3, <1>6
<1> QED
  BY <1>5, <1>7, <1>8 DEF out, moved

(* After a reservation every variable outcome has a reserved record.       *)
LEMMA ReservationCompletes ==
  ASSUME NEW recs \in Seq(RecordType)
  PROVE  MissingOutcomes(RecordSet(ReserveMissing(recs))) = {}
<1> DEFINE out == ReserveMissing(recs)
           R == RecordSet(recs)
           Q == RecordSet(out)
<1>1. /\ DOMAIN out = DOMAIN recs
      /\ \A i \in DOMAIN recs : /\ out[i].kind = recs[i].kind
                                /\ Label(out[i]) = Label(recs[i])
                                /\ out[i].role = IF Family(recs[i]) \in ReservedBy(recs)
                                                 THEN "challenge" ELSE recs[i].role
  BY ReservationMoves DEF Label
<1>2. /\ DOMAIN recs \subseteq Nat
      /\ \A i \in DOMAIN recs : recs[i].role \in {"standard", "challenge"}
  <2>1. DOMAIN recs = 1..Len(recs) /\ Len(recs) \in Nat
    BY LenProperties
  <2>2. \A i \in 1..Len(recs) : recs[i] \in RecordType
    BY ElementOfSeq
  <2> QED BY <2>1, <2>2 DEF RecordType, Roles
<1> HIDE DEF out
<1>3. SUFFICES ASSUME NEW m \in MissingOutcomes(Q) PROVE FALSE
  BY DEF out
<1>4. /\ m \in KindsIn(Q) \X Labels
      /\ Cardinality(LabelsIn(OfKind(Q, m[1]))) >= 2
      /\ m[2] \in LabelsIn(OfKind(Q, m[1]))
      /\ m[2] \notin LabelsIn(OfKind(OfRole(Q, "challenge"), m[1]))
  BY DEF MissingOutcomes
<1>5. KindsIn(Q) = KindsIn(R) /\ LabelsIn(OfKind(Q, m[1])) = LabelsIn(OfKind(R, m[1]))
  BY <1>1 DEF KindsIn, LabelsIn, OfKind, RecordSet
(* No position of the dataset holds the outcome in the challenge role.     *)
<1>6. \A i \in DOMAIN recs :
        recs[i].kind = m[1] /\ Label(recs[i]) = m[2] => out[i].role # "challenge"
  BY <1>1, <1>4 DEF LabelsIn, OfKind, OfRole, RecordSet
<1>7. m[2] \notin LabelsIn(OfKind(OfRole(R, "challenge"), m[1]))
  BY <1>1, <1>6 DEF LabelsIn, OfKind, OfRole, RecordSet
<1>8. m \in MissingOutcomes(R)
  BY <1>4, <1>5, <1>7 DEF MissingOutcomes
(* So the outcome was missing before, and its first holder's family moved. *)
<1> DEFINE holders == {i \in DOMAIN recs : /\ recs[i].role = "standard"
                                          /\ recs[i].kind = m[1]
                                          /\ Label(recs[i]) = m[2]}
<1>9. holders # {} /\ holders \in SUBSET Nat
  <2>1. PICK i \in DOMAIN recs : recs[i].kind = m[1] /\ Label(recs[i]) = m[2]
    BY <1>4, <1>5 DEF LabelsIn, OfKind, RecordSet
  <2>2. out[i].role # "challenge"
    BY <1>6, <2>1
  <2>3. recs[i].role = "standard"
    BY <1>1, <1>2, <2>2
  <2> QED BY <1>2, <2>1, <2>3
<1>10. FirstHolder(recs, m[1], m[2]) \in holders
  <2>1. FirstHolder(recs, m[1], m[2]) = CHOOSE i \in holders : \A j \in holders : i <= j
    BY DEF FirstHolder
  <2> HIDE DEF holders
  <2>2. \E i \in holders : \A j \in holders : i <= j
    BY <1>9, FirstExists
  <2> QED BY <2>1, <2>2
<1>11. Family(recs[FirstHolder(recs, m[1], m[2])]) \in ReservedBy(recs)
  BY <1>8 DEF ReservedBy
<1> QED
  BY <1>1, <1>6, <1>10, <1>11

-----------------------------------------------------------------------------
(* The steps that a proposal's answer may take, but for the dataset.       *)
LEMMA RunLeft ==
  ASSUME GenType, Advance
  PROVE  /\ runs' \in Seq(RunType)
         /\ phase' \in {"consume", "propose", "close"}
         /\ phase' = "consume" => runs' # <<>>
         /\ seed \in Seeds /\ candidate \in {Proposals[seed][i] : i \in DOMAIN Proposals[seed]}
         /\ run \in RunType
<1>1. phase = "consume" /\ runs # <<>> /\ runs \in Seq(RunType)
  BY DEF GenType, Advance
<1>2. /\ Head(runs) \in RunType /\ Tail(runs) \in Seq(RunType)
      /\ Len(Tail(runs)) = Len(runs) - 1
  BY <1>1, HeadTailProperties
<1>3. Len(runs) \in Nat
  BY <1>1, LenProperties
<1>4. phase' = "consume" => runs' # <<>>
  <2>1. SUFFICES ASSUME phase' = "consume" PROVE runs' # <<>>
    OBVIOUS
  <2>2. Len(runs) > 1
    BY <2>1 DEF Advance
  <2>3. Len(Tail(runs)) # 0
    BY <1>2, <1>3, <2>2
  <2>4. Tail(runs) # <<>>
    BY <2>3, EmptySeq
  <2> QED BY <2>4 DEF Advance
<1> QED
  BY <1>1, <1>2, <1>4 DEF Advance, GenType, run, candidate

(* What is appended is a record: its pair is one the JAR may be asked.     *)
LEMMA Retained ==
  ASSUME GenType, Retain
  PROVE  \E r \in RecordType :
           /\ records' = Append(records, r)
           /\ r.seed = seed /\ r.fp = runPrint /\ r.role = HashRole(seed)
           /\ Label(r) = LabelOf(run.answer)
           /\ StratumOf(r) = Stratum(run.policy, candidate, run.answer)
           /\ FamilyStratumOf(r) = FamilyStratum(run.policy, candidate, run.answer)
<1> DEFINE r == [seed |-> seed, kind |-> candidate.kind, variant |-> candidate.variant,
                 policy |-> run.policy, answer |-> run.answer,
                 role |-> HashRole(seed), fp |-> runPrint]
<1>1. /\ seed \in Seeds
      /\ run \in RunType
      /\ current \in DOMAIN Proposals[seed]
      /\ run.answer # "rejected"
      /\ records' = Append(records, r)
  BY RunLeft DEF Retain, Admissible, GenType
<1>2. candidate.kind \in Kinds
  BY <1>1 DEF Kinds, candidate
<1>3. PICK n \in DOMAIN PolicyPacks : run.policy = PolicyPacks[n]
  BY <1>1 DEF RunType
<1>4. candidate.variant \in STRING /\ runPrint \in DOMAIN MayAnswer
  BY <1>1, <1>3, GeneratorAssumption DEF candidate, runPrint
<1>5. run.policy \in STRING
  BY <1>3, GeneratorAssumption
<1>6. HashRole(seed) \in Roles
  BY DEF HashRole, Roles
<1>7. run.answer \in Answers \ {"rejected"}
  BY <1>1 DEF RunType
<1>8. r \in RecordType
  BY <1>1, <1>2, <1>4, <1>5, <1>6, <1>7 DEF RecordType
<1> QED
  BY <1>1, <1>8 DEF Label, Stratum, StratumOf, FamilyStratum, FamilyStratumOf

-----------------------------------------------------------------------------
(* Typing, for any constants: the phase tells which of the loop's locals   *)
(* are set, and every record describes a proposal the JAR answered.        *)
THEOREM GenTyping == Spec => []GenType
<1>1. Init => GenType
  <2>1. <<>> \in Seq(RunType) /\ <<>> \in Seq(RecordType)
    BY EmptySeq
  <2> QED BY <2>1 DEF Init, GenType, Phases
<1>2. GenType /\ [Next]_vars => GenType'
  <2> SUFFICES ASSUME GenType, [Next]_vars PROVE GenType'
    OBVIOUS
  <2>1. ASSUME NEW s \in Seeds, SkipSeed(s) PROVE GenType'
    BY <2>1 DEF SkipSeed, GenType, corpus
  <2>2. ASSUME NEW s \in Seeds, PullSeed(s) PROVE GenType'
    <3>1. Proposable(s) \subseteq DOMAIN Proposals[s]
      BY DEF Proposable
    <3> QED BY <2>2, <3>1 DEF PullSeed, GenType, corpus, Phases
  <2>3. ASSUME NEW i \in todo, Propose(i) PROVE GenType'
    <3>1. PICK answers \in [DOMAIN PolicyPacks -> Answers] :
            runs' = [n \in DOMAIN PolicyPacks |->
                       [policy |-> PolicyPacks[n], answer |-> answers[n]]]
      BY <2>3 DEF Propose
    <3>2. Len(PolicyPacks) \in Nat /\ DOMAIN PolicyPacks = 1..Len(PolicyPacks)
          /\ Len(PolicyPacks) # 0
      BY GeneratorAssumption, LenProperties, EmptySeq
    <3>3. runs' \in [1..Len(PolicyPacks) -> RunType]
      BY <3>1, <3>2 DEF RunType
    <3>4. runs' \in Seq(RunType) /\ Len(runs') # 0
      BY <3>2, <3>3, FunctionIsSeq
    <3>5. runs' # <<>>
      BY <3>4, EmptySeq
    <3> QED BY <2>3, <3>4, <3>5 DEF Propose, GenType, corpus, Phases
  <2>4. CASE OracleFails
    BY <2>4 DEF OracleFails, GenType, corpus, Phases
  <2>5. ASSUME Advance, UNCHANGED records PROVE GenType'
    BY <2>5, RunLeft DEF Advance, GenType, Phases
  <2>6. CASE Rejected \/ Duplicate \/ QuotaSkip
    BY <2>5, <2>6 DEF Rejected, Duplicate, QuotaSkip, corpus
  <2>7. CASE Retain
    <3>1. records' \in Seq(RecordType)
      <4>1. PICK r \in RecordType : records' = Append(records, r)
        BY <2>7, Retained
      <4> QED BY <4>1, AppendProperties DEF GenType
    <3>2. Advance
      BY <2>7 DEF Retain
    <3> QED BY <3>1, <3>2, RunLeft DEF Advance, GenType, Phases
  <2>8. CASE FeaturesFail
    BY <2>8 DEF FeaturesFail, GenType, corpus, Phases
  <2>9. CASE CloseSeed
    <3>1. records' \in Seq(RecordType)
      BY <2>9, ReservationMoves DEF CloseSeed, GenType
    <3> QED BY <2>9, <3>1 DEF CloseSeed, GenType, Phases
  <2>10. CASE SourceExhausted
    BY <2>10 DEF SourceExhausted, GenType, corpus, Phases
  <2>11. CASE Assemble
    <3>1. records' \in Seq(RecordType)
      BY <2>11, ReservationMoves DEF Assemble, GenType
    <3> QED BY <2>11, <3>1 DEF Assemble, GenType, Phases
  <2>12. CASE UNCHANGED vars
    BY <2>12 DEF vars, GenType
  <2> QED
    BY <2>1, <2>2, <2>3, <2>4, <2>6, <2>7, <2>8, <2>9, <2>10, <2>11, <2>12
    DEF Next, Returned
<1> QED
  BY <1>1, <1>2, PTL DEF Spec

(* What a step does to the dataset: nothing, an append, or a reservation.  *)
LEMMA RecordSteps ==
  ASSUME [Next]_vars
  PROVE  \/ UNCHANGED <<records, retained>>
         \/ Retain
         \/ /\ phase \in {"close", "assemble"}
            /\ records' = ReserveMissing(records)
            /\ UNCHANGED retained
  BY DEF Next, SkipSeed, PullSeed, Propose, OracleFails, Rejected, Duplicate, QuotaSkip,
         FeaturesFail, CloseSeed, SourceExhausted, Assemble, Returned, vars, corpus

(* No pair is retained twice, whatever the JAR answers, in whatever order  *)
(* sources come and however often roles move (retained_fingerprints).      *)
THEOREM PairOnce == Spec => []PairRetainedOnce
<1>1. Init => PairRetainedOnce
  BY DEF Init, PairRetainedOnce
<1>2. GenType /\ PairRetainedOnce /\ [Next]_vars => PairRetainedOnce'
  <2> SUFFICES ASSUME GenType, PairRetainedOnce, [Next]_vars PROVE PairRetainedOnce'
    OBVIOUS
  <2>1. CASE UNCHANGED <<records, retained>>
    BY <2>1 DEF PairRetainedOnce
  <2>2. CASE Retain
    <3>1. PICK r \in RecordType : records' = Append(records, r) /\ r.fp = runPrint
      BY <2>2, Retained
    <3>2. /\ Len(records) \in Nat /\ DOMAIN records = 1..Len(records)
          /\ DOMAIN records' = 1..Len(records) + 1
          /\ \A i \in 1..Len(records) : records'[i] = records[i]
          /\ records'[Len(records) + 1] = r
      BY <3>1, AppendProperties, LenProperties DEF GenType
    <3>3. runPrint \notin retained /\ retained' = retained \cup {runPrint}
      BY <2>2 DEF Retain, Admissible
    <3>4. \A i \in 1..Len(records) : records[i].fp # runPrint
      BY <3>2, <3>3 DEF PairRetainedOnce
    <3>5. retained' = {records'[i].fp : i \in DOMAIN records'}
      <4>1. DOMAIN records' = DOMAIN records \cup {Len(records) + 1}
        BY <3>2
      <4> QED BY <3>1, <3>2, <3>3, <4>1 DEF PairRetainedOnce
    <3>6. ASSUME NEW i \in DOMAIN records', NEW j \in DOMAIN records',
                 records'[i].fp = records'[j].fp
          PROVE  i = j
      BY <3>1, <3>2, <3>4, <3>6 DEF PairRetainedOnce
    <3> QED BY <3>5, <3>6 DEF PairRetainedOnce
  <2>3. CASE records' = ReserveMissing(records) /\ UNCHANGED retained
    <3>1. /\ DOMAIN records' = DOMAIN records
          /\ \A i \in DOMAIN records : records'[i].fp = records[i].fp
      BY <2>3, ReservationMoves DEF GenType
    <3> QED BY <2>3, <3>1 DEF PairRetainedOnce
  <2> QED
    BY <2>1, <2>2, <2>3, RecordSteps
<1> QED
  BY <1>1, <1>2, GenTyping, PTL DEF Spec

(* A record once retained is never dropped, moved or altered, but for the  *)
(* role a reservation gives it.                                            *)
THEOREM ReservationOnly == Spec => OnlyReservationTouchesRecords
<1> DEFINE Kept ==
      /\ Len(records') >= Len(records)
      /\ \A i \in DOMAIN records :
           \/ records'[i] = records[i]
           \/ /\ phase \in {"close", "assemble"}
              /\ records[i].role = "standard"
              /\ records'[i] = [records[i] EXCEPT !.role = "challenge"]
<1>1. GenType /\ [Next]_vars => [Kept]_vars
  <2> SUFFICES ASSUME GenType, [Next]_vars PROVE Kept
    OBVIOUS
  <2>0. Len(records) \in Nat /\ DOMAIN records = 1..Len(records)
    BY LenProperties DEF GenType
  <2>1. CASE UNCHANGED <<records, retained>>
    BY <2>0, <2>1
  <2>2. CASE Retain
    BY <2>0, <2>2, Retained, AppendProperties DEF GenType
  <2>3. CASE phase \in {"close", "assemble"} /\ records' = ReserveMissing(records)
    BY <2>0, <2>3, ReservationMoves DEF GenType
  <2> QED
    BY <2>1, <2>2, <2>3, RecordSteps
<1> QED
  BY <1>1, GenTyping, PTL DEF Spec, OnlyReservationTouchesRecords

-----------------------------------------------------------------------------
(* A claim of coverage is made last: from then on nothing is retained or   *)
(* reserved, so it and the reservation before it stay true.                *)
ClaimInv ==
  /\ coverage = "met" =>
       /\ phase \in {"assemble", "done", "failed"}
       /\ CoverageMet(records)
       /\ MissingOutcomes(RecordSet(records)) = {}
  /\ CoverageClaimMatchesArtifact
  /\ VariableOutcomesHeldOut

LEMMA ClaimInvariant == Spec => []ClaimInv
<1> USE DEF ClaimInv, CoverageClaimMatchesArtifact, VariableOutcomesHeldOut
<1>1. Init => ClaimInv
  BY DEF Init
<1>2. GenType /\ ClaimInv /\ [Next]_vars => ClaimInv'
  <2> SUFFICES ASSUME GenType, ClaimInv, [Next]_vars PROVE ClaimInv'
    OBVIOUS
  <2>1. ASSUME phase \in {"pull", "propose", "consume"}, UNCHANGED coverage,
               phase' # "done"
        PROVE  ClaimInv'
    BY <2>1
  <2>2. ASSUME NEW s \in Seeds, SkipSeed(s) \/ PullSeed(s) PROVE ClaimInv'
    BY <2>1, <2>2 DEF SkipSeed, PullSeed
  <2>3. ASSUME NEW i \in todo, Propose(i) PROVE ClaimInv'
    BY <2>1, <2>3 DEF Propose
  <2>4. CASE OracleFails \/ FeaturesFail \/ SourceExhausted
    BY <2>1, <2>4 DEF OracleFails, FeaturesFail, Admissible, SourceExhausted
  <2>5. CASE Rejected \/ Duplicate \/ QuotaSkip \/ Retain
    BY <2>1, <2>5, RunLeft DEF Rejected, Duplicate, QuotaSkip, Retain, Advance
  <2>6. MissingOutcomes(RecordSet(ReserveMissing(records))) = {}
    BY ReservationCompletes DEF GenType
  <2>7. CASE CloseSeed
    <3>1. phase = "close" /\ phase' # "done" /\ coverage # "met"
      BY <2>7 DEF CloseSeed
    <3>2. CASE CoverageTarget # NoTarget
      <4>1. /\ records' = ReserveMissing(records)
            /\ coverage' = IF CoverageMet(records') THEN "met" ELSE "unmet"
            /\ coverage' = "met" => phase' = "assemble"
        BY <2>7, <3>2 DEF CloseSeed, CoverageOf
      <4>2. coverage' = "met" => CoverageMet(records')
        BY <4>1
      <4>3. MissingOutcomes(RecordSet(records')) = {}
        BY <2>6, <4>1
      <4> QED BY <3>1, <4>1, <4>2, <4>3
    <3>3. CASE CoverageTarget = NoTarget
      BY <2>7, <3>1, <3>3 DEF CloseSeed
    <3> QED BY <3>2, <3>3
  <2>8. CASE Assemble
    <3>1. phase' \in {"done", "failed"}
      BY <2>8 DEF Assemble
    <3>2. MissingOutcomes(RecordSet(records')) = {}
      BY <2>6, <2>8 DEF Assemble
    <3>3. CASE coverage = "met"
      BY <2>8, <3>1, <3>2, <3>3 DEF Assemble
    <3>4. CASE coverage # "met" /\ CoverageTarget # NoTarget
      <4>1. coverage' = IF CoverageMet(records') THEN "met" ELSE "unmet"
        BY <2>8, <3>4 DEF Assemble, CoverageOf
      <4>2. coverage' = "met" <=> CoverageMet(records')
        BY <4>1
      <4> QED BY <3>1, <3>2, <4>2
    <3>5. CASE coverage # "met" /\ CoverageTarget = NoTarget
      BY <2>8, <3>1, <3>2, <3>5 DEF Assemble
    <3> QED BY <3>3, <3>4, <3>5
  <2>9. CASE UNCHANGED vars
    BY <2>9 DEF vars
  <2> QED
    BY <2>2, <2>3, <2>4, <2>5, <2>7, <2>8, <2>9 DEF Next, Returned
<1> QED
  BY <1>1, <1>2, GenTyping, PTL DEF Spec

(* Every label of a mutation that two labels were observed for is in the   *)
(* challenge data of the returned dataset, for any corpus and quotas       *)
(* (reserve_missing_variable_mutation_outcomes).                           *)
THEOREM OutcomesHeldOut == Spec => []VariableOutcomesHeldOut
<1>1. ClaimInv => VariableOutcomesHeldOut
  BY DEF ClaimInv
<1> QED
  BY <1>1, ClaimInvariant, PTL

(* coverage_target_reached is true of a returned dataset exactly when that *)
(* dataset meets the target.                                               *)
THEOREM ClaimHonest == Spec => []CoverageClaimMatchesArtifact
<1>1. ClaimInv => CoverageClaimMatchesArtifact
  BY DEF ClaimInv
<1> QED
  BY <1>1, ClaimInvariant, PTL

-----------------------------------------------------------------------------
(* Families keep one role in a run without a coverage target, where the    *)
(* reservation is the last thing done to the records, and in any run whose *)
(* families have one source each.  (In a coverage run with families of     *)
(* several sources they need not: see the run gen_matched_family.)         *)
FamiliesCannotSplit ==
  \/ CoverageTarget = NoTarget
  \/ \A s, t \in Seeds : FamilyOf[s] = FamilyOf[t] => s = t

RoleInv ==
  /\ FamilyKeepsOneRole
  /\ \A i \in DOMAIN records : records[i].seed \notin unread
  /\ phase \in {"propose", "consume", "close"} => seed \notin unread
  /\ phase \in {"propose", "consume"} =>
       \A i \in DOMAIN records : records[i].seed = seed => records[i].role = HashRole(seed)
  /\ CoverageTarget = NoTarget /\ phase \notin {"done", "failed"} =>
       \A i \in DOMAIN records : records[i].role = HashRole(records[i].seed)

LEMMA RoleInvariant ==
  ASSUME FamiliesCannotSplit
  PROVE  Spec => []RoleInv
<1> USE DEF RoleInv, FamilyKeepsOneRole
<1>1. Init => RoleInv
  BY DEF Init
<1>2. GenType /\ RoleInv /\ [Next]_vars => RoleInv'
  <2> SUFFICES ASSUME GenType, RoleInv, [Next]_vars PROVE RoleInv'
    OBVIOUS
  <2>0. /\ Len(records) \in Nat /\ DOMAIN records = 1..Len(records)
        /\ \A i \in DOMAIN records : records[i] \in RecordType
    BY LenProperties, ElementOfSeq DEF GenType
  <2>1. ASSUME NEW s \in Seeds, SkipSeed(s) PROVE RoleInv'
    BY <2>1 DEF SkipSeed, corpus
  <2>2. ASSUME NEW s \in Seeds, PullSeed(s) PROVE RoleInv'
    BY <2>2 DEF PullSeed, corpus
  <2>3. ASSUME NEW i \in todo, Propose(i) PROVE RoleInv'
    BY <2>3 DEF Propose, corpus
  <2>4. CASE OracleFails \/ FeaturesFail \/ SourceExhausted
    BY <2>4 DEF OracleFails, FeaturesFail, SourceExhausted, corpus
  <2>5. CASE Rejected \/ Duplicate \/ QuotaSkip
    <3>1. Advance /\ UNCHANGED records
      BY <2>5 DEF Rejected, Duplicate, QuotaSkip, corpus
    <3> QED BY <3>1, RunLeft DEF Advance
  <2>6. CASE Retain
    <3>1. PICK r \in RecordType :
            records' = Append(records, r) /\ r.seed = seed /\ r.role = HashRole(seed)
      BY <2>6, Retained
    <3>2. /\ DOMAIN records' = DOMAIN records \cup {Len(records) + 1}
          /\ \A i \in DOMAIN records : records'[i] = records[i]
          /\ records'[Len(records) + 1] = r
      BY <2>0, <3>1, AppendProperties, LenProperties DEF GenType
    <3>3. /\ phase = "consume" /\ phase' \in {"consume", "propose", "close"}
          /\ UNCHANGED <<unread, seed>> /\ seed \in Seeds
      BY <2>6, RunLeft DEF Retain, Advance
    <3>4. ASSUME NEW i \in DOMAIN records, Family(records[i]) = FamilyOf[seed]
          PROVE  records[i].role = HashRole(seed)
      <4>1. CASE CoverageTarget = NoTarget
        BY <3>3, <3>4, <4>1 DEF HashRole, Family
      <4>2. CASE \A s, t \in Seeds : FamilyOf[s] = FamilyOf[t] => s = t
        <5>1. records[i].seed \in Seeds
          BY <2>0 DEF RecordType
        <5>2. records[i].seed = seed
          BY <3>3, <3>4, <4>2, <5>1 DEF Family
        <5> QED BY <3>3, <5>2
      <4> QED BY <4>1, <4>2 DEF FamiliesCannotSplit
    <3>5. FamilyKeepsOneRole'
      <4>1. ASSUME NEW i \in DOMAIN records', NEW j \in DOMAIN records',
                   Family(records'[i]) = Family(records'[j])
            PROVE  records'[i].role = records'[j].role
        <5>1. CASE i \in DOMAIN records /\ j \in DOMAIN records
          BY <3>2, <4>1, <5>1
        <5>2. CASE i \in DOMAIN records /\ j = Len(records) + 1
          BY <3>1, <3>2, <3>4, <4>1, <5>2 DEF Family
        <5>3. CASE i = Len(records) + 1 /\ j \in DOMAIN records
          BY <3>1, <3>2, <3>4, <4>1, <5>3 DEF Family
        <5>4. CASE i = Len(records) + 1 /\ j = Len(records) + 1
          BY <5>4
        <5> QED BY <3>2, <5>1, <5>2, <5>3, <5>4
      <4> QED BY <4>1
    <3>6. \A i \in DOMAIN records' : records'[i].seed \notin unread'
      BY <3>1, <3>2, <3>3
    <3>7. \A i \in DOMAIN records' :
            records'[i].seed = seed => records'[i].role = HashRole(seed)
      BY <3>1, <3>2, <3>3
    <3>8. CoverageTarget = NoTarget =>
            \A i \in DOMAIN records' : records'[i].role = HashRole(records'[i].seed)
      BY <3>1, <3>2, <3>3
    <3> QED
      BY <3>3, <3>5, <3>6, <3>7, <3>8 DEF HashRole
  <2>7. ASSUME records' = ReserveMissing(records) \/ UNCHANGED records
        PROVE  /\ FamilyKeepsOneRole'
               /\ \A i \in DOMAIN records' : records'[i].seed \notin unread
    <3>1. CASE records' = ReserveMissing(records)
      <4>1. /\ DOMAIN records' = DOMAIN records
            /\ \A i \in DOMAIN records :
                 /\ records'[i].seed = records[i].seed
                 /\ records'[i].role = IF Family(records[i]) \in ReservedBy(records)
                                       THEN "challenge" ELSE records[i].role
        BY <3>1, ReservationMoves DEF GenType
      <4> QED BY <4>1 DEF Family
    <3>2. CASE UNCHANGED records
      BY <3>2
    <3> QED BY <2>7, <3>1, <3>2
  <2>8. CASE CloseSeed
    <3>1. /\ phase = "close" /\ phase' \in {"pull", "assemble"} /\ UNCHANGED unread
          /\ records' = ReserveMissing(records) \/ UNCHANGED records
          /\ CoverageTarget = NoTarget => UNCHANGED records
      BY <2>8 DEF CloseSeed
    <3> QED BY <2>7, <3>1 DEF HashRole
  <2>9. CASE Assemble
    <3>1. /\ phase' \in {"done", "failed"} /\ UNCHANGED unread
          /\ records' = ReserveMissing(records) \/ UNCHANGED records
      BY <2>9 DEF Assemble
    <3> QED BY <2>7, <3>1
  <2>10. CASE UNCHANGED vars
    BY <2>10 DEF vars
  <2> QED
    BY <2>1, <2>2, <2>3, <2>4, <2>5, <2>6, <2>8, <2>9, <2>10 DEF Next, Returned
<1> QED
  BY <1>1, <1>2, GenTyping, PTL DEF Spec

(* Where families cannot split, no source family is ever in both roles     *)
(* (reserve_challenge_family and the reservation both decide by family).   *)
THEOREM FamilyRoles ==
  ASSUME FamiliesCannotSplit
  PROVE  Spec => []FamilyKeepsOneRole
<1>1. RoleInv => FamilyKeepsOneRole
  BY DEF RoleInv
<1> QED
  BY <1>1, RoleInvariant, PTL

(* ... so the returned dataset isolates its challenge families.            *)
THEOREM FamiliesIsolated ==
  ASSUME FamiliesCannotSplit
  PROVE  Spec => []ReturnedFamiliesIsolated
<1>1. FamilyKeepsOneRole => ReturnedFamiliesIsolated
  BY DEF FamilyKeepsOneRole, ReturnedFamiliesIsolated, FamilyLeak, FamiliesIn, OfRole, RecordSet
<1> QED
  BY <1>1, FamilyRoles, PTL

-----------------------------------------------------------------------------
(* How often x occurs among the first n values of f.                       *)
Count(f, n, x) == Cardinality({i \in 1..n : f[i] = x})

(* It grows by one when x is appended.                                     *)
LEMMA CountOfAppend ==
  ASSUME NEW n \in Nat, NEW f, NEW g,
         \A i \in 1..n : g[i] = f[i]
  PROVE  \A x : /\ Count(f, n, x) \in Nat
                /\ Count(g, n+1, x) =
                     IF g[n+1] = x THEN Count(f, n, x) + 1 ELSE Count(f, n, x)
<1> TAKE x
<1> DEFINE S == {i \in 1..n : f[i] = x}
           T == {i \in 1..n+1 : g[i] = x}
<1>1. IsFiniteSet(S)
  <2>1. 1 \in Int /\ n \in Int
    OBVIOUS
  <2>2. IsFiniteSet(1..n)
    BY <2>1, FS_Interval
  <2>3. S \in SUBSET (1..n)
    OBVIOUS
  <2> QED BY <2>2, <2>3, FS_Subset
<1>2. T = IF g[n+1] = x THEN S \cup {n+1} ELSE S
  OBVIOUS
<1>3. n+1 \notin S
  OBVIOUS
<1> HIDE DEF S, T
<1>4. Cardinality(S) \in Nat
  BY <1>1, FS_CardinalityType
<1>5. Cardinality(S \cup {n+1}) = Cardinality(S) + 1
  BY <1>1, <1>3, FS_AddElement
<1>6. Cardinality(T) = IF g[n+1] = x THEN Cardinality(S) + 1 ELSE Cardinality(S)
  BY <1>2, <1>5
<1> QED
  BY <1>4, <1>6 DEF S, T, Count

(* The bag of a sequence after an append is the bag before and one copy.   *)
LEMMA BagOfAppend ==
  ASSUME NEW n \in Nat, NEW f, NEW g,
         DOMAIN f = 1..n, DOMAIN g = 1..n+1,
         \A i \in 1..n : g[i] = f[i]
  PROVE  ToBag(g) = ToBag(f) (+) SetToBag({g[n+1]})
<1>1. \A x : /\ Count(f, n, x) \in Nat
             /\ Count(g, n+1, x) =
                  IF g[n+1] = x THEN Count(f, n, x) + 1 ELSE Count(f, n, x)
  BY CountOfAppend
<1>2. Range(g) = Range(f) \cup {g[n+1]}
  BY DEF Range
<1>3. \A x : x \notin Range(f) => Count(f, n, x) = 0
  <2>1. SUFFICES ASSUME NEW x, x \notin Range(f) PROVE Count(f, n, x) = 0
    OBVIOUS
  <2>2. {i \in 1..n : f[i] = x} = {}
    BY <2>1 DEF Range
  <2> QED BY <2>2, FS_EmptySet DEF Count
<1>4. /\ ToBag(f) = [x \in Range(f) |-> Count(f, n, x)]
      /\ ToBag(g) = [x \in Range(g) |-> Count(g, n+1, x)]
  BY DEF ToBag, Count
<1>5. \A x \in Range(g) :
        Count(g, n+1, x) = (IF x \in Range(f) THEN Count(f, n, x) ELSE 0)
                           + (IF x = g[n+1] THEN 1 ELSE 0)
  BY <1>1, <1>3
<1>6. ToBag(f) (+) SetToBag({g[n+1]}) =
        [x \in Range(f) \cup {g[n+1]} |->
           (IF x \in Range(f) THEN Count(f, n, x) ELSE 0)
           + (IF x = g[n+1] THEN 1 ELSE 0)]
  BY <1>4 DEF (+), SetToBag
<1> QED
  BY <1>2, <1>4, <1>5, <1>6

(* The shape of the report, and the counters that add up to the proposals. *)
ReportSet ==
  [seen : Nat, skippedSeeds : Nat, proposed : Nat, rejected : Nat,
   duplicates : Nat, quota : Nat, accepted : [Labels -> Nat]]
ReportType == report \in ReportSet

(* Raising one counter of a report leaves the others.                      *)
LEMMA OneRaised ==
  ASSUME NEW r \in ReportSet, NEW s
  PROVE  /\ s = [r EXCEPT !.seen = @ + 1] \/ s = [r EXCEPT !.skippedSeeds = @ + 1] =>
              /\ s \in ReportSet /\ s.accepted = r.accepted /\ s.proposed = r.proposed
              /\ s.rejected = r.rejected /\ s.duplicates = r.duplicates /\ s.quota = r.quota
         /\ s = [r EXCEPT !.proposed = @ + 1] =>
              /\ s \in ReportSet /\ s.accepted = r.accepted /\ s.proposed = r.proposed + 1
              /\ s.rejected = r.rejected /\ s.duplicates = r.duplicates /\ s.quota = r.quota
         /\ s = [r EXCEPT !.rejected = @ + 1] =>
              /\ s \in ReportSet /\ s.accepted = r.accepted /\ s.proposed = r.proposed
              /\ s.rejected = r.rejected + 1 /\ s.duplicates = r.duplicates /\ s.quota = r.quota
         /\ s = [r EXCEPT !.duplicates = @ + 1] =>
              /\ s \in ReportSet /\ s.accepted = r.accepted /\ s.proposed = r.proposed
              /\ s.rejected = r.rejected /\ s.duplicates = r.duplicates + 1 /\ s.quota = r.quota
         /\ s = [r EXCEPT !.quota = @ + 1] =>
              /\ s \in ReportSet /\ s.accepted = r.accepted /\ s.proposed = r.proposed
              /\ s.rejected = r.rejected /\ s.duplicates = r.duplicates /\ s.quota = r.quota + 1
         /\ \A a \in [Labels -> Nat] : s = [r EXCEPT !.accepted = a] =>
              /\ s \in ReportSet /\ s.accepted = a /\ s.proposed = r.proposed
              /\ s.rejected = r.rejected /\ s.duplicates = r.duplicates /\ s.quota = r.quota
  BY DEF ReportSet

(* The counters add up when one more proposal is retained.                 *)
LEMMA SumRaised ==
  ASSUME NEW p \in Nat, NEW r \in Nat, NEW d \in Nat, NEW q \in Nat, NEW n \in Nat,
         p = r + d + q + n
  PROVE  p + 1 = r + d + q + (n + 1)
  OBVIOUS

(* What a step does to the report: a source is counted, or a proposal is   *)
(* counted as what became of it.                                           *)
LEMMA ReportSteps ==
  ASSUME [Next]_vars
  PROVE  \/ /\ UNCHANGED corpus
            /\ \/ UNCHANGED report
               \/ report' = [report EXCEPT !.seen = @ + 1, !.skippedSeeds = @ + 1]
               \/ report' = [report EXCEPT !.seen = @ + 1]
               \/ report' = [report EXCEPT !.proposed = @ + 1, !.rejected = @ + 1]
               \/ report' = [report EXCEPT !.proposed = @ + 1, !.duplicates = @ + 1]
               \/ report' = [report EXCEPT !.proposed = @ + 1, !.quota = @ + 1]
         \/ Retain
         \/ /\ records' = ReserveMissing(records)
            /\ UNCHANGED <<strata, familyStrata, report>>
  BY DEF Next, SkipSeed, PullSeed, Propose, OracleFails, Rejected, Duplicate, QuotaSkip,
         FeaturesFail, CloseSeed, SourceExhausted, Assemble, Returned, vars, corpus

(* The counters the quotas read are those of the records held, for any     *)
(* sources, quotas and answers (GeneratorReport, retained_family_strata).  *)
LEMMA ReportInvariant == Spec => [](ReportType /\ ReportDescribesRecords)
<1>1. Init => ReportType /\ ReportDescribesRecords
  <2> SUFFICES ASSUME Init PROVE ReportType /\ ReportDescribesRecords
    OBVIOUS
  <2>1. ReportType
    BY DEF Init, ReportType, ReportSet
  <2>2. records = <<>> /\ Len(records) = 0 /\ DOMAIN records = {}
    BY DEF Init
  <2>3. \A l : Cardinality({i \in DOMAIN records : Label(records[i]) = l}) = 0
    BY <2>2, FS_EmptySet
  <2>4. /\ ToBag([i \in DOMAIN records |-> StratumOf(records[i])]) = EmptyBag
        /\ ToBag([i \in DOMAIN records |-> FamilyStratumOf(records[i])]) = EmptyBag
    BY <2>2 DEF ToBag, Range, EmptyBag, SetToBag
  <2> QED BY <2>1, <2>2, <2>3, <2>4 DEF Init, ReportDescribesRecords
<1>2. GenType /\ ReportType /\ ReportDescribesRecords /\ [Next]_vars
        => (ReportType /\ ReportDescribesRecords)'
  <2> SUFFICES ASSUME GenType, ReportType, ReportDescribesRecords, [Next]_vars
               PROVE  (ReportType /\ ReportDescribesRecords)'
    OBVIOUS
  <2>0. Len(records) \in Nat /\ DOMAIN records = 1..Len(records)
    BY LenProperties DEF GenType
  <2>1. CASE UNCHANGED corpus /\ ~ Retain
    <3>1. UNCHANGED <<records, strata, familyStrata>>
      BY <2>1 DEF corpus
    <3>2. CASE records' = ReserveMissing(records) /\ UNCHANGED report
      BY <3>1, <3>2 DEF ReportType, ReportDescribesRecords
    <3>3. \/ UNCHANGED report
          \/ report' = [report EXCEPT !.seen = @ + 1, !.skippedSeeds = @ + 1]
          \/ report' = [report EXCEPT !.seen = @ + 1]
          \/ report' = [report EXCEPT !.proposed = @ + 1, !.rejected = @ + 1]
          \/ report' = [report EXCEPT !.proposed = @ + 1, !.duplicates = @ + 1]
          \/ report' = [report EXCEPT !.proposed = @ + 1, !.quota = @ + 1]
      BY <2>1, ReportSteps
    <3> DEFINE ReportKept ==
          /\ ReportType'
          /\ report'.accepted = report.accepted
          /\ \A n \in Nat :
               report.proposed = report.rejected + report.duplicates + report.quota + n =>
               report'.proposed = report'.rejected + report'.duplicates + report'.quota + n
    <3>4. ReportKept
      <4> DEFINE mid == [report EXCEPT !.proposed = @ + 1]
                 sown == [report EXCEPT !.seen = @ + 1]
      <4>1. /\ [report EXCEPT !.proposed = @ + 1, !.rejected = @ + 1]
                 = [mid EXCEPT !.rejected = @ + 1]
            /\ [report EXCEPT !.proposed = @ + 1, !.duplicates = @ + 1]
                 = [mid EXCEPT !.duplicates = @ + 1]
            /\ [report EXCEPT !.proposed = @ + 1, !.quota = @ + 1]
                 = [mid EXCEPT !.quota = @ + 1]
            /\ [report EXCEPT !.seen = @ + 1, !.skippedSeeds = @ + 1]
                 = [sown EXCEPT !.skippedSeeds = @ + 1]
        OBVIOUS
      <4>2. /\ mid \in ReportSet /\ mid.accepted = report.accepted
            /\ mid.proposed = report.proposed + 1 /\ mid.rejected = report.rejected
            /\ mid.duplicates = report.duplicates /\ mid.quota = report.quota
            /\ sown \in ReportSet /\ sown.accepted = report.accepted
            /\ sown.proposed = report.proposed /\ sown.rejected = report.rejected
            /\ sown.duplicates = report.duplicates /\ sown.quota = report.quota
        BY OneRaised DEF ReportType
      <4> HIDE DEF mid, sown
      <4>3. /\ report.proposed \in Nat /\ report.rejected \in Nat
            /\ report.duplicates \in Nat /\ report.quota \in Nat
        BY DEF ReportType, ReportSet
      <4>4. CASE UNCHANGED report
        BY <4>3, <4>4 DEF ReportType
      <4>5. CASE \/ report' = [report EXCEPT !.seen = @ + 1]
                 \/ report' = [report EXCEPT !.seen = @ + 1, !.skippedSeeds = @ + 1]
        BY <4>1, <4>2, <4>3, <4>5, OneRaised DEF ReportType
      <4>6. CASE report' = [report EXCEPT !.proposed = @ + 1, !.rejected = @ + 1]
        BY <4>1, <4>2, <4>3, <4>6, OneRaised DEF ReportType
      <4>7. CASE report' = [report EXCEPT !.proposed = @ + 1, !.duplicates = @ + 1]
        BY <4>1, <4>2, <4>3, <4>7, OneRaised DEF ReportType
      <4>8. CASE report' = [report EXCEPT !.proposed = @ + 1, !.quota = @ + 1]
        <5>1. /\ ReportType' /\ report'.accepted = report.accepted
              /\ report'.proposed = report.proposed + 1
              /\ report'.rejected = report.rejected
              /\ report'.duplicates = report.duplicates
              /\ report'.quota = report.quota + 1
          BY <4>1, <4>2, <4>8, OneRaised DEF ReportType
        <5>2. PICK p, r, d, q \in Nat : /\ p = report.proposed /\ r = report.rejected
                                        /\ d = report.duplicates /\ q = report.quota
          BY <4>3
        <5>3. \A n \in Nat : p = r + d + q + n => p + 1 = r + d + (q + 1) + n
          OBVIOUS
        <5> QED BY <5>1, <5>2, <5>3
      <4> QED BY <3>3, <4>4, <4>5, <4>6, <4>7, <4>8
    <3>5. report'.proposed = report'.rejected + report'.duplicates + report'.quota
                             + Len(records')
      BY <2>0, <3>1, <3>4 DEF ReportDescribesRecords
    <3> QED BY <3>1, <3>4, <3>5 DEF ReportDescribesRecords
  <2>2. CASE Retain
    <3>1. PICK r \in RecordType :
            /\ records' = Append(records, r)
            /\ r.seed = seed
            /\ StratumOf(r) = Stratum(run.policy, candidate, run.answer)
            /\ FamilyStratumOf(r) = FamilyStratum(run.policy, candidate, run.answer)
            /\ Label(r) = LabelOf(run.answer)
      BY <2>2, Retained
    <3>2. /\ DOMAIN records' = 1..Len(records)+1 /\ Len(records') = Len(records)+1
          /\ \A i \in 1..Len(records) : records'[i] = records[i]
          /\ records'[Len(records)+1] = r
      BY <2>0, <3>1, AppendProperties, LenProperties DEF GenType
    <3>3. /\ strata' = strata (+) SetToBag({StratumOf(r)})
          /\ familyStrata' = familyStrata (+) SetToBag({FamilyStratumOf(r)})
      BY <2>2, <3>1 DEF Retain
    <3>4. strata' = ToBag([i \in DOMAIN records' |-> StratumOf(records'[i])])
      <4> DEFINE f == [i \in 1..Len(records) |-> StratumOf(records[i])]
                 g == [i \in 1..Len(records)+1 |-> StratumOf(records'[i])]
      <4>1. DOMAIN f = 1..Len(records) /\ DOMAIN g = 1..Len(records)+1
        OBVIOUS
      <4>2. \A i \in 1..Len(records) : g[i] = f[i]
        BY <2>0, <3>2
      <4>3. g[Len(records)+1] = StratumOf(r)
        BY <2>0, <3>2
      <4>4. strata = ToBag(f)
        BY <2>0 DEF ReportDescribesRecords
      <4> HIDE DEF f, g
      <4>5. ToBag(g) = ToBag(f) (+) SetToBag({g[Len(records)+1]})
        BY <2>0, <4>1, <4>2, BagOfAppend
      <4>6. strata' = ToBag(g)
        BY <3>3, <4>3, <4>4, <4>5
      <4> QED BY <3>2, <4>6 DEF g
    <3>5. familyStrata' = ToBag([i \in DOMAIN records' |-> FamilyStratumOf(records'[i])])
      <4> DEFINE f == [i \in 1..Len(records) |-> FamilyStratumOf(records[i])]
                 g == [i \in 1..Len(records)+1 |-> FamilyStratumOf(records'[i])]
      <4>1. DOMAIN f = 1..Len(records) /\ DOMAIN g = 1..Len(records)+1
        OBVIOUS
      <4>2. \A i \in 1..Len(records) : g[i] = f[i]
        BY <2>0, <3>2
      <4>3. g[Len(records)+1] = FamilyStratumOf(r)
        BY <2>0, <3>2
      <4>4. familyStrata = ToBag(f)
        BY <2>0 DEF ReportDescribesRecords
      <4> HIDE DEF f, g
      <4>5. ToBag(g) = ToBag(f) (+) SetToBag({g[Len(records)+1]})
        BY <2>0, <4>1, <4>2, BagOfAppend
      <4>6. familyStrata' = ToBag(g)
        BY <3>3, <4>3, <4>4, <4>5
      <4> QED BY <3>2, <4>6 DEF g
    <3>6. run.answer \in Answers \ {"rejected"}
      BY <2>2, RunLeft DEF Retain, Admissible, RunType
    <3>7. Label(r) \in Labels
      BY <3>1, <3>6 DEF LabelOf, Labels, Answers
    <3>8. report' = [report EXCEPT !.proposed = @ + 1, !.accepted[Label(r)] = @ + 1]
      BY <2>2, <3>1 DEF Retain
    <3> DEFINE raised == [report.accepted EXCEPT ![Label(r)] = @ + 1]
    <3>9. /\ ReportType'
          /\ report'.proposed = report.proposed + 1
          /\ report'.rejected = report.rejected
          /\ report'.duplicates = report.duplicates
          /\ report'.quota = report.quota
          /\ \A l \in Labels : report'.accepted[l] =
               IF l = Label(r) THEN report.accepted[l] + 1 ELSE report.accepted[l]
      <4>1. /\ raised \in [Labels -> Nat]
            /\ \A l \in Labels : raised[l] = IF l = Label(r) THEN report.accepted[l] + 1
                                                               ELSE report.accepted[l]
        BY <3>7 DEF ReportType, ReportSet
      <4> DEFINE mid == [report EXCEPT !.proposed = @ + 1]
      <4>2. report' = [mid EXCEPT !.accepted = raised]
        BY <3>8 DEF ReportType, ReportSet
      <4>3. /\ mid \in ReportSet
            /\ mid.proposed = report.proposed + 1 /\ mid.rejected = report.rejected
            /\ mid.duplicates = report.duplicates /\ mid.quota = report.quota
        BY OneRaised DEF ReportType
      <4> HIDE DEF raised, mid
      <4>4. /\ report' \in ReportSet /\ report'.accepted = raised
            /\ report'.proposed = mid.proposed /\ report'.rejected = mid.rejected
            /\ report'.duplicates = mid.duplicates /\ report'.quota = mid.quota
        BY <4>1, <4>2, <4>3, OneRaised
      <4> QED BY <4>1, <4>3, <4>4 DEF ReportType
    <3>10. \A l \in Labels :
             report'.accepted[l] =
               Cardinality({i \in DOMAIN records' : Label(records'[i]) = l})
      <4> DEFINE f == [i \in 1..Len(records) |-> Label(records[i])]
                 g == [i \in 1..Len(records)+1 |-> Label(records'[i])]
      <4>1. \A i \in 1..Len(records) : g[i] = f[i]
        BY <2>0, <3>2
      <4>2. g[Len(records)+1] = Label(r)
        BY <2>0, <3>2
      <4>3. \A l : /\ Cardinality({i \in DOMAIN records : Label(records[i]) = l})
                        = Count(f, Len(records), l)
                   /\ Cardinality({i \in DOMAIN records' : Label(records'[i]) = l})
                        = Count(g, Len(records)+1, l)
        <5>1. \A l : /\ {i \in DOMAIN records : Label(records[i]) = l}
                          = {i \in 1..Len(records) : f[i] = l}
                     /\ {i \in DOMAIN records' : Label(records'[i]) = l}
                          = {i \in 1..Len(records)+1 : g[i] = l}
          BY <2>0, <3>2
        <5> QED BY <5>1 DEF Count
      <4> HIDE DEF f, g
      <4>4. \A l : Count(g, Len(records)+1, l) = IF g[Len(records)+1] = l
                                                 THEN Count(f, Len(records), l) + 1
                                                 ELSE Count(f, Len(records), l)
        <5>1. PICK n \in Nat : n = Len(records)
          BY <2>0
        <5>2. \A i \in 1..n : g[i] = f[i]
          BY <4>1, <5>1
        <5>3. \A l : Count(g, n+1, l) =
                       IF g[n+1] = l THEN Count(f, n, l) + 1 ELSE Count(f, n, l)
          BY <5>2, CountOfAppend
        <5> QED BY <5>1, <5>3
      <4>5. TAKE l \in Labels
      <4>6. report.accepted[l] = Count(f, Len(records), l)
        BY <4>3 DEF ReportDescribesRecords
      <4>7. report'.accepted[l] = IF l = Label(r) THEN report.accepted[l] + 1
                                                  ELSE report.accepted[l]
        BY <3>9
      <4>8. report'.accepted[l] = Count(g, Len(records)+1, l)
        BY <4>2, <4>4, <4>6, <4>7
      <4> QED BY <4>3, <4>8
    <3>11. report'.proposed = report'.rejected + report'.duplicates + report'.quota
                              + Len(records')
      <4>1. /\ report.proposed \in Nat /\ report.rejected \in Nat
            /\ report.duplicates \in Nat /\ report.quota \in Nat
        BY DEF ReportType, ReportSet
      <4>2. report.proposed = report.rejected + report.duplicates + report.quota + Len(records)
        BY DEF ReportDescribesRecords
      <4>3. report.proposed + 1
              = report.rejected + report.duplicates + report.quota + (Len(records) + 1)
        BY <2>0, <4>1, <4>2, SumRaised
      <4> QED BY <3>2, <3>9, <4>3
    <3> QED BY <3>4, <3>5, <3>9, <3>10, <3>11 DEF ReportDescribesRecords
  <2>3. CASE records' = ReserveMissing(records) /\ UNCHANGED <<strata, familyStrata, report>>
    <3>1. /\ DOMAIN records' = DOMAIN records /\ Len(records') = Len(records)
          /\ \A i \in DOMAIN records :
               /\ Label(records'[i]) = Label(records[i])
               /\ StratumOf(records'[i]) = StratumOf(records[i])
               /\ FamilyStratumOf(records'[i]) = FamilyStratumOf(records[i])
      BY <2>3, ReservationMoves DEF GenType, Label, StratumOf, FamilyStratumOf
    <3>2. /\ [i \in DOMAIN records' |-> StratumOf(records'[i])]
               = [i \in DOMAIN records |-> StratumOf(records[i])]
          /\ [i \in DOMAIN records' |-> FamilyStratumOf(records'[i])]
               = [i \in DOMAIN records |-> FamilyStratumOf(records[i])]
      BY <3>1
    <3>3. \A l : {i \in DOMAIN records' : Label(records'[i]) = l}
                   = {i \in DOMAIN records : Label(records[i]) = l}
      BY <3>1
    <3> QED BY <2>3, <3>1, <3>2, <3>3 DEF ReportType, ReportDescribesRecords
  <2> QED
    BY <2>1, <2>2, <2>3, ReportSteps
<1> QED
  BY <1>1, <1>2, GenTyping, PTL DEF Spec

(* Every proposal is counted once, and the counters the quotas read are    *)
(* those of the records held, for any sources, quotas and answers          *)
(* (GeneratorReport, retained_family_strata).                              *)
THEOREM ReportTrue == Spec => []ReportDescribesRecords
<1>1. ReportType /\ ReportDescribesRecords => ReportDescribesRecords
  OBVIOUS
<1> QED
  BY <1>1, ReportInvariant, PTL

-----------------------------------------------------------------------------
(* Why the loop has ended, in the terms in which the code decides it.      *)
StopInv ==
  phase \in {"assemble", "done"} =>
    \/ unread = {} \/ report.seen = MaxSeedSchemas
    \/ coverage = "met"
    \/ CoverageTarget = NoTarget /\ BalanceReached

LEMMA StopInvariant == Spec => []StopInv
<1>1. Init => StopInv
  BY DEF Init, StopInv
<1>2. StopInv /\ [Next]_vars => StopInv'
  BY DEF StopInv, BalanceReached, Next, SkipSeed, PullSeed, Propose, OracleFails,
         Rejected, Duplicate, QuotaSkip, Retain, FeaturesFail, Advance, Admissible,
         CloseSeed, SourceExhausted, Assemble, Returned, vars
<1> QED
  BY <1>1, <1>2, PTL DEF Spec

(* generate stops before its sources are exhausted only with the coverage  *)
(* target met, or with as many records of every outcome as its cap allows. *)
THEOREM StopsEntitled == Spec => []StopsOnlyWhenEntitled
<1>1. ReportDescribesRecords /\ StopInv => StopsOnlyWhenEntitled
  BY DEF ReportDescribesRecords, StopInv, BalanceReached, StopsOnlyWhenEntitled
<1> QED
  BY <1>1, ReportTrue, StopInvariant, PTL

=============================================================================
