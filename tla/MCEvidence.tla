----------------------------- MODULE MCEvidence -----------------------------
(***************************************************************************)
(* Values for the constants of Evidence.                                   *)
(***************************************************************************)
EXTENDS Evidence, TLC

-----------------------------------------------------------------------------
(* PolicyOracle: two threads of one process, one of which asks for a       *)
(* preflight, and two of another, which holds the audit adapter: one asks  *)
(* about no valid pair.                                                    *)
MCCallers == {"c1", "c2", "c3", "c4"}
MCProcessOf == "c1" :> 1 @@ "c2" :> 1 @@ "c3" :> 2 @@ "c4" :> 2
MCPairOf == "c1" :> "pair1" @@ "c2" :> "pair2" @@ "c3" :> "pair3" @@ "c4" :> Invalid
MCAuditScopeOf == {2}
MCLinters == {"c2"}
MCJarVersions == {"jar"}
MCPolicyVersions == {"packs", "fixture"}

(* Exit code 1 with the three prints that tell its cases apart, a warning, *)
(* an undocumented code.                                                   *)
MCReplies ==
  {[exit |-> 1, stdout |-> "decision", stderr |-> "other"],
   [exit |-> 1, stdout |-> "blank", stderr |-> "exception"],
   [exit |-> 0, stdout |-> "warnings", stderr |-> "other"],
   [exit |-> 137, stdout |-> "blank", stderr |-> "other"]}

-----------------------------------------------------------------------------
(* EquivalenceAudit: three frozen records of two families, mutations and   *)
(* packs; the other datasets break one rule each: two seeds, another       *)
(* identity, no provenance, a family or a pair the source does not have.   *)
Provenance == [seed |-> 7, identity |-> "V9", pair |-> "p1", outcome |-> "safe", stdout |-> "PASS"]
Record1 == [family |-> "f1", mutation |-> "m1", pack |-> "k1", generation |-> Provenance]
Record2 == [family |-> "f1", mutation |-> "m2", pack |-> "k2",
            generation |-> [Provenance EXCEPT !.pair = "p2", !.outcome = "breaking", !.stdout = "FAIL"]]
Record3 == [family |-> "f2", mutation |-> "m1", pack |-> "k2",
            generation |-> [Provenance EXCEPT !.pair = "p3"]]

MCFrozen == <<Record1, Record2, Record3>>
MCDatasets ==
  {MCFrozen,
   <<Record1, [Record2 EXCEPT !.generation.seed = 8]>>,
   <<Record1, [Record2 EXCEPT !.generation.identity = "V10"]>>,
   <<Record1, [Record2 EXCEPT !.generation = None]>>,
   <<Record3, [Record1 EXCEPT !.family = "f3"]>>}

MCSources ==
  {"f1" :> ("m1" :> "p1" @@ "m2" :> "p2") @@ "f2" :> ("m1" :> "p3"),
   "f1" :> ("m1" :> "p1" @@ "m2" :> "p2") @@ "f2" :> ("m1" :> "p4"),
   "f1" :> ("m1" :> "p1") @@ "f2" :> ("m1" :> "p3")}

MCAnswers ==
  {[outcome |-> "safe", stdout |-> "PASS"], [outcome |-> "breaking", stdout |-> "FAIL"],
   [outcome |-> "breaking", stdout |-> "PASS"], [outcome |-> "rejected", stdout |-> "PASS"]}

-----------------------------------------------------------------------------
(* RemovalAudit: one removal and one required addition, in the order of    *)
(* the source; two of the answers may be odd, and a second run of the      *)
(* command finds what the first one left.                                  *)
MCCases == <<"FIELD_REMOVED", "REQUIRED_FIELD_ADDED">>

-----------------------------------------------------------------------------
(* OracleEvidence: one mutation and mode under two policies.  Thresholds   *)
(* of two families, two policies, three checks: one report reaches them    *)
(* alone, one is of another JAR and label, one contradicts under the       *)
(* second policy, one has a crash captured as breaking and one has two     *)
(* variants of a cell.                                                     *)
Run(family, pack, label) ==
  [family |-> family, mutation |-> "m", variant |-> "v1", mode |-> "BACKWARD",
   policy |-> pack, outcome |-> label, fatal |-> FALSE]

Both(family, a, b) == {Run(family, "a", a), Run(family, "b", b)}

Agreeing == [jar |-> "J1", runs |-> Both("f1", "safe", "safe") \cup Both("f2", "safe", "safe")]
OtherJar == [jar |-> "J2", runs |-> Both("f3", "breaking", "breaking") \cup Both("f4", "breaking", "breaking")]
Variants == [jar |-> "J1", runs |-> {Run("f3", "a", "safe"), [Run("f3", "a", "safe") EXCEPT !.variant = "v2"]}]
Contrary == [jar |-> "J1", runs |-> Both("f4", "safe", "breaking")]
Crashed == [jar |-> "J1", runs |-> {Run("f5", "a", "safe"), [Run("f5", "b", "breaking") EXCEPT !.fatal = TRUE]}]

MCCaptured == {OtherJar, Variants, Contrary}
MCLegacy == "x" :> Crashed @@ "y" :> Agreeing

Select(pack) == [scope |-> [mutation |-> "m", mode |-> "BACKWARD", policy |-> pack], rationale |-> "reviewed"]
MCSelections ==
  {<<Select("a")>>, <<Select("b")>>, <<Select("a"), Select("a")>>,
   <<[Select("a") EXCEPT !.rationale = None]>>}

-----------------------------------------------------------------------------
(* FeatureMigration: two families and their pairs, corpora over them with  *)
(* one thing wrong each, and two files replaced on the way.                *)
\* Base "b1" is open and "b2" closed; "b3" stands for a schema edited since, and "text" for none at all.
MCSampledFamilies == [now |-> [f1 |-> "b1", f2 |-> "b2"], later |-> [f1 |-> "b3", f2 |-> "b2"],
                      broken |-> [f1 |-> "text", f2 |-> "b2"], short |-> [f1 |-> "b1"]]
MCProposed == [b1 |-> {"removed", "added"}, b2 |-> {"added"}, b3 |-> {"removed", "added"}, text |-> None]
MCProfile == [b1 |-> "open", b2 |-> "closed", b3 |-> "open", text |-> None]

Evd(pair, pack, mode) ==
  [jar |-> "j1", policies |-> "p1", seed |-> 7, outcome |-> "safe", mutation |-> pair[2], profile |-> None,
   fingerprint |-> [pair |-> pair, policy |-> pack, mode |-> mode, jar |-> "j1"]]
Rec(id, family, pair, pack, label) ==
  [id |-> id, source |-> "jsb", family |-> family, policy |-> pack, label |-> label,
   breaking |-> label = "breaking", incompatible |-> label = "breaking",
   features |-> [version |-> "v5", pair |-> pair, policy |-> pack, contexts |-> "p1"],
   evidence |-> Evd(pair, pack, "BACKWARD")]

a1 == Rec(1, "f1", <<"b1", "removed">>, "strict", "breaking")
a2 == Rec(2, "f1", <<"b1", "added">>, "strict", "safe")
a3 == Rec(3, "f2", <<"b2", "added">>, "baseline", "breaking")

\* The gate wants optional fields added to open roots and to closed ones, once the roots are known at all.
MCReady(records) ==
  LET profiles == {records[i].evidence.profile :
                    i \in {j \in DOMAIN records : records[j].evidence # None /\ records[j].evidence.mutation = "added"}}
  IN  profiles \subseteq {None} \/ profiles = {"open", "closed"}

AsV5(stamp, records) == [version |-> "v5", stamp |-> stamp, records |-> records]
Three == <<a1, a2, a3>>
MCInputs == {[version |-> None, stamp |-> None, records |-> <<>>]} \cup {AsV5(s, Three) : s \in {TRUE, None}} \cup
  {AsV5(TRUE, <<a1, a2>>),                                          \* ready, until its one root is known
   AsV5(TRUE, <<a2, [a3 EXCEPT !.evidence = None]>>),               \* the seed, JAR and policies skip the second record
   AsV5(None, <<a1, a1>>),                                          \* one record twice
   AsV5(None, <<a1, [a3 EXCEPT !.evidence.seed = 8]>>),             \* two seeds
   AsV5(None, <<a1, [a3 EXCEPT !.evidence.jar = "j2", !.evidence.fingerprint.jar = "j2"]>>),
   AsV5(None, <<a1, [a3 EXCEPT !.evidence.policies = "p2"]>>),
   AsV5(None, <<[a1 EXCEPT !.source = "other"]>>),
   AsV5(None, <<a2, [a1 EXCEPT !.evidence.fingerprint.mode = "FULL"]>>),
   AsV5(None, <<a2, [a1 EXCEPT !.policy = "baseline"]>>),           \* a record under a policy it was not judged by
   AsV5(None, <<a2, [a1 EXCEPT !.evidence.mutation = "renamed"]>>), \* a mutation no longer proposed
   AsV5(None, <<[a1 EXCEPT !.breaking = FALSE]>>),                  \* label and target disagree
   AsV5(None, <<[a1 EXCEPT !.evidence.outcome = "unknown"]>>),
   AsV5(None, <<[a1 EXCEPT !.evidence.jar = "j2", !.evidence.fingerprint.jar = "j2"]>>),
   [version |-> "v4", stamp |-> TRUE, records |-> <<[a1 EXCEPT !.features.version = "v4"]>>]}

V6(r) == [r EXCEPT !.features.version = "v6", !.evidence.profile = MCProfile[r.evidence.fingerprint.pair[1]]]
MCGenerated == {<<V6(a1)>>, <<V6(a1), V6(a2), V6(a3)>>, <<V6(a2)>>}

=============================================================================
