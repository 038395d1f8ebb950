---------------------------- MODULE MCEvaluation ----------------------------
(***************************************************************************)
(* Values for the constants of Evaluation.                                 *)
(***************************************************************************)
EXTENDS Evaluation, TLC

-----------------------------------------------------------------------------
(* ExternalEvaluation: six pairs, two of V9, one at distance 1 of it and     *)
(* three farther, of which the corpus D2 holds two.  Manifest M1 has a     *)
(* near and a repeated transition, M2 passes the preflight, M3 is invalid, *)
(* M4 repeats a pair.                                                      *)
MCPairStructural == "v9" :> <<0, 0, 0>> @@ "near" :> <<0, 0, 1>> @@ "far" :> <<1, 1, 0>>
                  @@ "far2" :> <<0, 2, 2>> @@ "far3" :> <<3, 3, 3>> @@ "w9" :> <<0, 5, 5>>
MCContext == "a" :> <<0>> @@ "b" :> <<1>>

T(id, use, source, policy, mutation, pair) ==
  [id |-> id, use |-> use, kind |-> "manual-unrelated", url |-> "manual", source |-> source,
   family |-> source, contract |-> "c", policy |-> policy, mutation |-> mutation, blank |-> FALSE,
   pair |-> pair]

Manifest(transitions, counts, clean) ==
  [format |-> "dcg-external-transition-manifest-v3", total |-> Len(transitions), counts |-> counts,
   limitations |-> {"few"}, preserved |-> {"openapi"},
   traceability |-> [status |-> "traceability-only", accuracyEvidence |-> FALSE,
                     cleanCount |-> Len(clean), cleanIds |-> clean, overlap |-> "known",
                     skew |-> {[selected |-> 2, clean |-> 1, rejected |-> 1]}],
   transitions |-> transitions]

M1 == Manifest(<<T("n", "accuracy-bearing", "s1", "a", "m1", "near"),
                 T("f", "accuracy-bearing", "s1", "a", "m1", "far"),
                 T("d", "accuracy-bearing", "s2", "a", "m2", "far"),
                 T("x", "rejected-v9-overlap", "s9", "a", "m2", "v9")>>,
               "m1" :> 2 @@ "m2" :> 2 @@ "m3" :> 0, <<>>)
M2 == Manifest(<<T("f", "accuracy-bearing", "s1", "a", "m1", "far"),
                 T("n", "accuracy-bearing", "s2", "b", "m1", "far2"),
                 T("t", "traceability-only", "s3", "b", "m2", "far3")>>,
               "m1" :> 2 @@ "m2" :> 1, <<"t">>)
M4 == Manifest(<<T("f", "accuracy-bearing", "s1", "a", "m1", "far"),
                 T("d", "accuracy-bearing", "s2", "a", "m1", "far")>>, "m1" :> 2, <<>>)
M3 == [M2 EXCEPT !.counts["m1"] = 3]

V9Record(id, policy, pair, jar) ==
  [id |-> id, source |-> "s9", family |-> "f9", policy |-> policy,
   features |-> [structural |-> MCPairStructural[pair], context |-> MCContext[policy]],
   pair |-> pair, jar |-> jar, packs |-> "P"]
D1 == [version |-> "V6", records |-> {V9Record(1, "a", "v9", "J9"), V9Record(2, "b", "w9", "J9")}]
D2 == [version |-> "V6", records |-> {V9Record(1, "a", "far", "J9"), V9Record(2, "b", "far3", "J9")}]

Mo(dataset) == [version |-> "V6", split |-> "normal-family-split", dataset |-> dataset,
                jar |-> "J9", packs |-> "P"]
PreservedAudit == [status |-> "COMPLETE", historical |-> "J9", v10 |-> "J10", dataset |-> D1, packs |-> "P",
            result |-> "COMPLETE_PRESERVED_V9_MATCH", interchangeable |-> FALSE,
            verdicts |-> [outcomes |-> TRUE, stdout |-> TRUE, controls |-> TRUE],
            covered |-> [reconstructed |-> 2, fingerprints |-> 2, invocations |-> 2, outcomes |-> 2, stdout |-> 2],
            failed |-> [fingerprints |-> 0, rejected |-> 0, outcomes |-> 0, stdout |-> 0, stderr |-> 0]]

MCRegistered == [dataset |-> D1, training |-> "J9", execution |-> "J10", packs |-> "P", audit |-> PreservedAudit]

MCFirst == [manifest |-> M1, v9 |-> D1, model |-> Mo(D1), jar |-> "J10", packs |-> "P", audit |-> PreservedAudit]
MCVersions == [manifest |-> {M1, M2, M3, M4}, v9 |-> {D1, D2}, model |-> {Mo(D1), Mo(D2)},
               jar |-> {"J9", "J10"}, packs |-> {"P"}, audit |-> {PreservedAudit}]

-----------------------------------------------------------------------------
(* IsolatedTrack: two families, open and closed, two variants each;        *)
(* variant v2 of their open schemas is close to V9.  H1 lists what the     *)
(* program proposes for the first family, away from V9.  Near lists its    *)
(* close variant, and does not pass the gate; Stale lists another pair     *)
(* under the close variant of the second family, and passes.               *)
Bases == {"ao", "ac", "bo", "bc"}
MCProfile == [b \in Bases |-> IF b \in {"ao", "bo"} THEN "open" ELSE "closed"]
MCCandidates == [b \in Bases |-> {[variant |-> v, pair |-> <<b, v>>] : v \in {"v1", "v2"}}]
MCTrackStructural == [p \in (Bases \X {"v1", "v2"}) \cup {<<"v9", "v1">>, <<"bo", "v0">>} |->
                   CASE p = <<"v9", "v1">> -> <<0, 0, 0>> [] p \in {<<"ao", "v2">>, <<"bo", "v2">>} -> <<0, 0, 1>>
                     [] OTHER -> <<1, 1, 0>>]

Family(base) == IF base \in {"ao", "ac"} THEN "fa" ELSE "fb"
Candidate(base, variant, policy) ==
  [id |-> <<base, variant>>, use |-> "traceability-only", kind |-> "manual-unrelated", url |-> "manual",
   source |-> Family(base), family |-> Family(base), contract |-> base, policy |-> policy,
   mutation |-> "OPTIONAL_FIELD_ADDED", blank |-> FALSE, pair |-> <<base, variant>>, base |-> base,
   variant |-> variant]

TrackManifest(transitions) ==
  [Manifest(transitions, "OPTIONAL_FIELD_ADDED" :> Len(transitions),
            [i \in DOMAIN transitions |-> transitions[i].id]) EXCEPT
     !.preserved = {"seeds"}, !.traceability.overlap = "none", !.traceability.skew = {}]

H1 == TrackManifest(<<Candidate("ao", "v1", "a"), Candidate("ac", "v2", "b")>>)
Near == TrackManifest(<<Candidate("ao", "v2", "a"), Candidate("ac", "v1", "a")>>)
BesideBo == [Candidate("bo", "v2", "b") EXCEPT !.pair = <<"bo", "v0">>]
Stale == TrackManifest(<<BesideBo, Candidate("bc", "v1", "b")>>)

MCV9 == [version |-> "V6", records |->
  {[id |-> IF policy = "a" THEN 1 ELSE 2, source |-> "s9", family |-> "f9", policy |-> policy, pair |-> <<"v9", "v1">>,
    features |-> [structural |-> <<0, 0, 0>>, context |-> MCContext[policy]], jar |-> "J9", packs |-> "P"] :
   policy \in {"a", "b"}}]

MCManifests == {H1, Near, Stale}

-----------------------------------------------------------------------------
(* Experiment: four standard families under two policies and two challenge *)
(* families, and the same with one thing wrong.                            *)

\* Seed 1 leaves the first and second family out of training, seed 2 the last two.
MCTrainOf ==
    [s \in Seeds |-> [F \in SUBSET {"f1", "f2", "f3", "f4"} |->
        LET order == <<"f1", "f2", "f3", "f4">>
            rank(f) == Cardinality({i \in 1..4 : order[i] \in F /\ \E j \in i..4 : order[j] = f})
        IN  IF Cardinality(F) < 3 THEN {}
            ELSE {f \in F : IF s = 1 THEN rank(f) > 2 ELSE rank(f) <= Cardinality(F) - 2}]]

R(id, role, f, pol, m, v, prof, lab, acts, sh) ==
    [id |-> id, role |-> role, family |-> f, policy |-> pol, mutation |-> m, variant |-> v,
     profile |-> prof, label |-> lab, actions |-> acts, shape |-> sh]

\* One pair labelled under two policies; "c" and "d" are two more, of the
\* actions {"y"} and {"x"}.
Both(id, role, f, m, v, prof, la, lb, sh) ==
    {R(id, role, f, "a-b", m, v, prof, la, {"x"}, sh), R(id + 1, role, f, "a_b", m, v, prof, lb, {"x", "y"}, sh)}

StandardRecords ==
    Both(1, "standard", "f1", "enum_value_added", "v1", None, "safe", "warning", <<0, 0>>)
    \cup Both(3, "standard", "f2", "optional_field_added", "v1", "open", "safe", "breaking", <<0, 1>>)
    \cup Both(5, "standard", "f3", "removed", "v1", None, "breaking", "breaking", <<1, 0>>)
    \cup Both(7, "standard", "f4", "enum_value_added", "v2", None, "safe", "warning", <<1, 1>>)
    \cup Both(9, "standard", "f4", "optional_field_added", "v1", "closed", "safe", "safe", <<2, 1>>)
    \cup {R(11, "standard", "f1", "c", "removed", "v2", None, "breaking", {"y"}, <<2, 2>>),
          R(12, "standard", "f3", "d", "removed", "v2", None, "breaking", {"x"}, <<0, 2>>)}
ChallengeRecords ==
    Both(21, "challenge", "g1", "enum_value_added", "v1", None, "safe", "warning", <<0, 0>>)
    \cup Both(23, "challenge", "g1", "removed", "v1", None, "breaking", "safe", <<2, 3>>)
    \cup Both(25, "challenge", "g2", "optional_field_added", "v1", "open", "safe", "breaking", <<0, 2>>)
    \cup {R(27, "challenge", "g1", "c", "removed", "v1", None, "breaking", {"y"}, <<2, 3>>),
          R(28, "challenge", "g1", "d", "removed", "v1", None, "breaking", {"x"}, <<2, 3>>)}

Good == [records |-> StandardRecords \cup ChallengeRecords, version |-> 6, stamp |-> TRUE,
         fixture |-> FALSE, silent |-> FALSE, pinned |-> TRUE]

\* Corpora that every gate passes: a schema that compares profiles, a mutation
\* without a reserved record, a variant without peers and a policy with an
\* action of its own, challenges of one label.
OldSchema == [Good EXCEPT !.version = 4]
Unreserved == [Good EXCEPT !.records = {r \in @ : r.role = "standard" \/ r.mutation # "removed"}]
NoPeers == [Good EXCEPT !.records = {r \in @ :
              r.policy # "c" /\ (r.role = "challenge" \/ r.variant # "v2" \/ r.mutation # "enum_value_added")}]
OneLabel == [Good EXCEPT !.records = {r \in @ : r.role = "standard" \/ r.mutation = "removed" \/ r.label = "safe"}]

\* Corpora that a gate refuses.
Unstamped == [Good EXCEPT !.stamp = None]
Silent == [Good EXCEPT !.silent = TRUE]
TwoClasses == [Good EXCEPT !.records = {r \in @ : r.label # "warning"}]
Unpinned == [Good EXCEPT !.pinned = FALSE]
FixtureCorpus == [Good EXCEPT !.fixture = TRUE]

MCCorpora ==
    [good |-> Good, old_schema |-> OldSchema, unreserved |-> Unreserved, no_peers |-> NoPeers,
     one_label |-> OneLabel, unstamped |-> Unstamped, silent |-> Silent, two_classes |-> TwoClasses,
     unpinned |-> Unpinned, fixture |-> FixtureCorpus]

\* The protocols there are, whose names file_stem keeps apart here.
Names ==
    ({"normal", "paired"} \X {None} \X {None})
    \cup ({"policy"} \X {"a-b", "a_b", "c", "d"} \X {None})
    \cup ({"mutation"} \X {"enum_value_added", "optional_field_added", "removed"} \X {None})
    \cup ({"variant"} \X {"enum_value_added", "optional_field_added"} \X {None, "v1", "v2", "open", "closed"})
MCStem == [p \in Names |-> p]

-----------------------------------------------------------------------------
(* No slot of outputs is told from another.                                *)
Alike == Permutations(Slots)

=============================================================================
