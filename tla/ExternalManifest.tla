-------------------------- MODULE ExternalManifest --------------------------
(***************************************************************************)
(* What models/external_evaluation.rs decides about an external transition *)
(* manifest without a JAR or a model: whether the manifest is valid, which *)
(* of its transitions overlap the V9 corpus, and the reports of the        *)
(* preflight and of the feature diagnostic.  ExternalEvaluation and        *)
(* IsolatedTrack are built from it.                                        *)
(*                                                                         *)
(* A pair stands for a canonical (base, candidate) schema pair.  A V6      *)
(* feature vector is its policy-free structural coordinates, which the     *)
(* pair alone decides, with the coordinates of its policy context.  A hash *)
(* is the content it is of.                                                *)
(***************************************************************************)
EXTENDS Naturals, Sequences, FiniteSets, FiniteSetsExt, SequencesExt

CONSTANTS
  Structural,    \* pair -> tuple of policy-free structural coordinates
  Context,       \* policy pack -> its coordinates
  MaxDistance,   \* max_structural_coordinate_distance
  None

ManifestAssumption ==
  /\ \A p, q \in DOMAIN Structural : DOMAIN Structural[p] = DOMAIN Structural[q]
  /\ \A p \in DOMAIN Structural : IsFiniteSet(DOMAIN Structural[p])
  /\ MaxDistance \in Nat
  /\ None \notin Nat

(* What loading a corpus makes sure of (PreparedDcgDataset::new): there    *)
(* are records, and each has an identity of its own.  Identities are       *)
(* numbers here, in the order of the code's strings.                       *)
LoadedCorpus(v9) ==
  /\ IsFiniteSet(v9.records) /\ v9.records # {}
  /\ \A r \in v9.records : r.id \in Nat
  /\ \A q, r \in v9.records : q.id = r.id => q = r

IsSequence(s) == s \in Seq({s[i] : i \in DOMAIN s})

(* Any two schemas have features.                                          *)
ParsedManifest(m) ==
  /\ IsSequence(m.transitions)
  /\ \A i \in DOMAIN m.transitions : m.transitions[i].pair \in DOMAIN Structural

-----------------------------------------------------------------------------
(* validate_manifest.  A summary is                                        *)
(*   [format, total, counts, limitations, preserved, traceability]; blank  *)
(* says that a transition has an empty field.                              *)
CountOf(transitions, mutation) ==
  Cardinality({i \in DOMAIN transitions : transitions[i].mutation = mutation})

SummaryIsValid(m) ==
  /\ m.format = "dcg-external-transition-manifest-v3"
  /\ m.transitions # <<>>
  /\ m.total = Len(m.transitions)
  /\ \A i \in DOMAIN m.transitions :
       LET mutation == m.transitions[i].mutation
       IN mutation \in DOMAIN m.counts /\ m.counts[mutation] = CountOf(m.transitions, mutation)
  /\ \A mutation \in DOMAIN m.counts :
       m.counts[mutation] > 0 => CountOf(m.transitions, mutation) > 0
  /\ "" \notin m.limitations
  /\ m.preserved # {}

TraceabilityIsValid(t) ==
  /\ t.status = "traceability-only"
  /\ ~t.accuracyEvidence
  /\ t.cleanCount = Len(t.cleanIds)
  /\ t.overlap # ""
  /\ \A s \in t.skew : s.selected = s.clean + s.rejected

SourceIsValid(t) ==
  /\ t.kind \in {"public-version-history", "public-schema-repository"} => t.url \in {"http", "https"}
  /\ t.kind = "manual-unrelated" => t.url = "manual"

ValidManifest(m) ==
  /\ SummaryIsValid(m)
  /\ TraceabilityIsValid(m.traceability)
  /\ \A i \in DOMAIN m.transitions :
       /\ ~m.transitions[i].blank
       /\ SourceIsValid(m.transitions[i])
       /\ \A j \in DOMAIN m.transitions : m.transitions[i].id = m.transitions[j].id => i = j
  /\ {m.transitions[i].id : i \in {k \in DOMAIN m.transitions : m.transitions[k].use = "traceability-only"}}
       = ToSet(m.traceability.cleanIds)

-----------------------------------------------------------------------------
(* Identities of the V9 corpus: a record is                                *)
(* [id, source, family, policy, features, pair, jar, packs], its pair None *)
(* when nothing generated it.                                              *)
TrainingJars(v9) == {r.jar : r \in {x \in v9.records : x.pair # None}}
TrainingPacks(v9) == {r.packs : r \in {x \in v9.records : x.pair # None}}
SoleJar(v9) == CHOOSE j \in TrainingJars(v9) : TRUE
UnknownPolicies(m, v9) ==
  {m.transitions[i].policy : i \in DOMAIN m.transitions} \ {r.policy : r \in v9.records}

(* Structural coordinates leave the policy context out.                    *)
Features(t) == [structural |-> Structural[t.pair], context |-> Context[t.policy]]
Fingerprint(t, jar) == <<t.pair, t.policy, jar>>
V9Fingerprints(v9) == {<<r.pair, r.policy, r.jar>> : r \in {x \in v9.records : x.pair # None}}

CoordinateDistance(a, b) == Cardinality({k \in DOMAIN a : a[k] # b[k]})
NearestDistance(features, v9) ==
  Min({CoordinateDistance(features.structural, r.features.structural) : r \in v9.records})
ExactOverlap(features, v9) == features \in {r.features : r \in v9.records}

TooNear(t, v9) == NearestDistance(Features(t), v9) <= MaxDistance

(* The reasons for which the preflight rejects a transition, and the       *)
(* evaluation a labelled one; `seen` are the fingerprints met before it.   *)
(* V9 pairs are known by the fingerprint of the JAR that labelled them.    *)
Reasons(t, v9, jar, seen) ==
  {why \in {"source", "family", "pair", "features", "duplicate", "near"} :
     CASE why = "source"    -> t.source \in {r.source : r \in v9.records}
       [] why = "family"    -> t.family \in {r.family : r \in v9.records}
       [] why = "pair"      -> Fingerprint(t, SoleJar(v9)) \in V9Fingerprints(v9)
       [] why = "features"  -> ExactOverlap(Features(t), v9)
       [] why = "duplicate" -> Fingerprint(t, jar) \in seen
       [] why = "near"      -> TooNear(t, v9)}

(* Mutant: the preflight forgets the transitions before the current one.   *)
SeenBeforeNone(transitions, jar, i) == {}

SeenBefore(transitions, jar, i) == {Fingerprint(transitions[k], jar) : k \in 1..(i - 1)}

-----------------------------------------------------------------------------
(* preflight_external_manifest: None when it ends with an error.  The      *)
(* dataset hash is of `hashed`, which is read after the dataset itself.    *)
PreflightReport(m, v9, hashed, jar, packs) ==
  IF ~ValidManifest(m) \/ v9.version # "V6" \/ Cardinality(TrainingJars(v9)) # 1
       \/ UnknownPolicies(m, v9) # {}
  THEN None
  ELSE LET RecordOf(i) ==
             LET t    == m.transitions[i]
             IN [id |-> t.id, reasons |-> Reasons(t, v9, jar, SeenBefore(m.transitions, jar, i)),
                 exact |-> ExactOverlap(Features(t), v9),
                 nearest |-> NearestDistance(Features(t), v9)]
           records  == [i \in DOMAIN m.transitions |-> RecordOf(i)]
           accepted == Cardinality({i \in DOMAIN records : records[i].reasons = {}})
       IN [kind |-> "preflight", manifest |-> m, v9 |-> hashed, jar |-> jar, packs |-> packs,
           passed |-> accepted = Len(records), total |-> Len(records), accepted |-> accepted,
           rejected |-> Len(records) - accepted, records |-> records]

(* diagnose_external_feature_space: the nearest records by a single pass   *)
(* over the corpus, then sorted and cut to the limit.                      *)
CloserOf(near, r, features) ==
  LET d == CoordinateDistance(features.structural, r.features.structural)
  IN CASE near.distance = None -> [distance |-> d, records |-> {r}]
       [] near.distance # None /\ d < near.distance -> [distance |-> d, records |-> {r}]
       [] near.distance # None /\ d = near.distance -> [near EXCEPT !.records = @ \cup {r}]
       [] OTHER -> near

Nearest(features, v9) ==
  FoldSet(LAMBDA r, near : CloserOf(near, r, features), [distance |-> None, records |-> {}], v9.records)

DiagnosticReport(m, v9, id, limit) ==
  LET found == {i \in DOMAIN m.transitions : m.transitions[i].id = id}
  IN IF limit = 0 \/ ~ValidManifest(m) \/ found = {} \/ v9.version # "V6" THEN None
     ELSE LET features == Features(m.transitions[CHOOSE i \in found : TRUE])
              near     == Nearest(features, v9)
              shown    == {r \in near.records : Cardinality({x \in near.records : x.id < r.id}) < limit}
          IN [kind |-> "diagnostic", manifest |-> m, v9 |-> v9, id |-> id,
              exact |-> Cardinality({r \in v9.records : r.features = features}),
              distance |-> near.distance, nearest |-> Cardinality(near.records),
              shown |-> {[id |-> r.id,
                          differs |-> {k \in DOMAIN features.structural :
                                         features.structural[k] # r.features.structural[k]}] : r \in shown}]

=============================================================================
