------------------------- MODULE GeneralizationGate -------------------------
(***************************************************************************)
(* The corpus audit of models/prepared_dataset.rs: what                    *)
(* PreparedDcgDataset::generalization_readiness_with_promotions, its       *)
(* challenge protocols and challenge_subset say of a set of records.       *)
(*                                                                         *)
(* A record is [seed, kind, variant, policy, answer, role, fp].  seed is   *)
(* the source schema (record_id, contract_id, family and root profile are  *)
(* functions of it), kind the declared mutation, answer what the JAR       *)
(* replied, fp the canonical pair fingerprint.  The answer "silent" is a   *)
(* BREAKING exit whose standard output is empty.                           *)
(***************************************************************************)
EXTENDS Naturals, FiniteSets, Sequences

CONSTANTS
  FamilyOf,      \* seed -> family_id (also its split_group_id)
  ProfileOf,     \* seed -> root object profile: "open", "closed" or "none"
  OptionalKind,  \* the mutation `optional_field_added`
  Promotions     \* promotions of this JAR, policy file and mode:
                 \* a sequence of [kind, policy, label, rationale]

Labels  == {"safe", "warning", "breaking"}
Answers == Labels \cup {"silent", "rejected"}
Roles   == {"standard", "challenge"}

LabelOf(answer) == IF answer = "silent" THEN "breaking" ELSE answer

Label(r)  == LabelOf(r.answer)
Family(r) == FamilyOf[r.seed]

OfRole(R, role)     == {r \in R : r.role = role}
OfKind(R, kind)     == {r \in R : r.kind = kind}
OfPolicy(R, policy) == {r \in R : r.policy = policy}

LabelsIn(R)   == {Label(r)  : r \in R}
FamiliesIn(R) == {Family(r) : r \in R}
KindsIn(R)    == {r.kind    : r \in R}
PoliciesIn(R) == {r.policy  : r \in R}
PairsIn(R)    == {r.fp      : r \in R}

-----------------------------------------------------------------------------
(* Challenge protocols: the reserved records each one selects.             *)

(* The (family, mutation) counterfactual group of a record.                *)
Group(R, r) == {q \in R : Family(q) = Family(r) /\ q.kind = r.kind}

HeldOutPolicy(R, policy) == OfPolicy(OfRole(R, "challenge"), policy)
HeldOutMutation(R, kind) == OfKind(OfRole(R, "challenge"), kind)
SameMutationDifferentPolicy(R) ==
  LET reserved == OfRole(R, "challenge")
  IN  {r \in reserved : Cardinality(PoliciesIn(Group(reserved, r))) >= 2}

(* A protocol without records is an error of challenge_subset, reported as *)
(* not meaningful; otherwise two labels make it meaningful.                *)
Meaningful(R) == Cardinality(LabelsIn(R)) >= 2

-----------------------------------------------------------------------------
(* The promotion of a record: of those of its mutation, policy and label   *)
(* the first one found.                                                    *)
Matching(r) ==
  LET found == {i \in DOMAIN Promotions : /\ Promotions[i].kind = r.kind
                                          /\ Promotions[i].policy = r.policy
                                          /\ Promotions[i].label = Label(r)}
  IN  {Promotions[i] : i \in {j \in found : \A k \in found : j <= k}}

(* Mutations excused from label diversity: one observed label, every       *)
(* record promoted, and one rationale for all of them.                     *)
InvariantKinds(R) ==
  {k \in KindsIn(R) :
     LET S == OfKind(R, k)
     IN  /\ Cardinality(LabelsIn(S)) = 1
         /\ \A r \in S : Matching(r) # {}
         /\ Cardinality({p.rationale : p \in UNION {Matching(r) : r \in S}}) = 1}

ShortcutRisk(R) ==
  LET excused == InvariantKinds(R)
  IN  \/ \E p \in PoliciesIn(R) :
           /\ Cardinality(LabelsIn(OfPolicy(R, p))) = 1
           /\ ~(KindsIn(OfPolicy(R, p)) \subseteq excused)
      \/ \E k \in KindsIn(R) \ excused : Cardinality(LabelsIn(OfKind(R, k))) = 1
      \/ \E k \in KindsIn(R) : Cardinality(PoliciesIn(OfKind(R, k))) < 3

(* Counterfactual groups observed under at least three policy packs.       *)
CompletePairs(R) ==
  {<<Family(r), r.kind>> : r \in {q \in R : Cardinality(PoliciesIn(Group(R, q))) >= 3}}

OptionalFamilies(R, role, profile) ==
  FamiliesIn({r \in OfKind(OfRole(R, role), OptionalKind) : ProfileOf[r.seed] = profile})

OptionalCoverageGap(R) ==
  /\ OfKind(R, OptionalKind) # {}
  /\ \/ \E r \in OfKind(R, OptionalKind) : ProfileOf[r.seed] \notin {"open", "closed"}
     \/ \E role \in Roles, profile \in {"open", "closed"} :
          OptionalFamilies(R, role, profile) = {}

(* Every policy and every non-excused mutation seen in the challenge data, *)
(* and the cross-policy protocol, must carry two labels.                   *)
ProtocolUnmeaningful(R) ==
  LET reserved == OfRole(R, "challenge")
  IN  \/ \E p \in PoliciesIn(reserved) : ~Meaningful(HeldOutPolicy(R, p))
      \/ \E k \in KindsIn(reserved) \ InvariantKinds(R) : ~Meaningful(HeldOutMutation(R, k))
      \/ ~Meaningful(SameMutationDifferentPolicy(R))

FamilyLeak(R) ==
  FamiliesIn(OfRole(R, "standard")) \cap FamiliesIn(OfRole(R, "challenge")) # {}
PairLeak(R) ==
  PairsIn(OfRole(R, "standard")) \cap PairsIn(OfRole(R, "challenge")) # {}

(* ready_for_generalization_benchmark: no reason to refuse.                *)
Ready(R) ==
  /\ \A r \in R : r.answer # "silent"
  /\ Cardinality(FamiliesIn(OfRole(R, "standard"))) >= 3
  /\ OfRole(R, "challenge") # {}
  /\ ~FamilyLeak(R)
  /\ ~PairLeak(R)
  /\ CompletePairs(R) # {}
  /\ ~OptionalCoverageGap(R)
  /\ ~ShortcutRisk(R)
  /\ ~ProtocolUnmeaningful(R)

=============================================================================
