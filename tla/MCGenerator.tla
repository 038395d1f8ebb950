----------------------------- MODULE MCGenerator -----------------------------
(***************************************************************************)
(* Values for the constants of DatasetGenerator: one set for the           *)
(* outcome-balance mode, one for a coverage target.                        *)
(***************************************************************************)
EXTENDS DatasetGenerator

Cand(k, v, s) == [kind |-> k, variant |-> v, schema |-> s]
NoPromotions == <<>>

-----------------------------------------------------------------------------
(* The generator in outcome-balance mode: no coverage target, so the       *)
(* reservation runs once, at the end.  Seeds "open" and "closed" share a   *)
(* family, "copy" is a second source of the schema of "open" and proposes  *)
(* one of its transitions again, "blank" has no supported mutation.        *)

BalancedSeeds    == {"open", "closed", "copy", "blank"}
BalancedFamilyOf == [open |-> "F", closed |-> "F", copy |-> "G", blank |-> "H"]
BalancedProfileOf == [open |-> "open", closed |-> "closed", copy |-> "open", blank |-> "none"]
BalancedSchemaOf == [open |-> "b1", closed |-> "b2", copy |-> "b1", blank |-> "b3"]

BalancedProposals ==
  [open   |-> <<Cand("removed", "v1", "x1"), Cand("retyped", "v2", "x2")>>,
   closed |-> <<Cand("removed", "v1", "y1")>>,
   copy   |-> <<Cand("removed", "v1", "x1"), Cand("retyped", "v2", "x3")>>,
   blank  |-> <<>>]

BalancedPolicyPacks == <<"baseline", "strict">>
BalancedHashReserved == {"G"}
BalancedNone == {}
BalancedNoAllowlist == <<>>

BalancedMayAnswer ==
  [fp \in {"b1", "b2"} \X {"x1", "x2", "x3", "y1"} \X {"baseline", "strict"} |->
     IF fp[3] = "baseline" THEN {"safe", "breaking", "rejected"}
     ELSE {"warning", "breaking"}]

-----------------------------------------------------------------------------
(* The generator driven by a coverage target under three policy packs.     *)
(* The seeds propose the optional-field mutation in two variants, which    *)
(* are retained separately, and a removal in two variants, which share one *)
(* family stratum; the allowlist keeps the removal for s1 and s3.  If s3   *)
(* has the only safe removal, its reservation costs the corpus a standard  *)
(* family that the target needs.  With CoveredOwnFamilies every seed is a  *)
(* family; with CoveredMatchedFamilies the open and closed profiles s1 and *)
(* s2 of one source schema share one.                                      *)

CoveredSeeds == {"s1", "s2", "s3", "s4", "s5", "s6"}
CoveredOwnFamilies == [s \in CoveredSeeds |-> s]
CoveredMatchedFamilies == [s \in CoveredSeeds |-> IF s \in {"s1", "s2"} THEN "f" ELSE s]
CoveredProfileOf == [s \in CoveredSeeds |-> IF s \in {"s1", "s3", "s6"} THEN "open" ELSE "closed"]
CoveredSchemaOf == [s \in CoveredSeeds |-> s]

Optional == "optional_field_added"
Removed  == "field_removed"
CoveredProposals ==
  [s \in CoveredSeeds |-> <<Cand(Optional, "string", "string"), Cand(Optional, "array", "array"),
                       Cand(Removed, "first", "first"), Cand(Removed, "second", "second")>>]

CoveredPolicyPacks == <<"baseline", "strict", "relaxed">>
CoveredFilter == {Optional, Removed}
CoveredAllowed == [s \in CoveredSeeds |->
                IF s \in {"s1", "s3"} THEN {"string", "array", "first", "second"}
                ELSE {"string", "array"}]
CoveredKeepVariants == {Optional}
CoveredHashReserved == {"s1", "s2"}
CoveredNone == {}
CoveredTarget == [records |-> 12, standard |-> 3, challenge |-> 2, pairs |-> 5,
             profile |-> [standard |-> 1, challenge |-> 1]]

CoveredAnswer(s, v, p) ==
  CASE v = "string" -> IF p = "relaxed" /\ s = "s2" THEN {"rejected"} ELSE {"safe"}
    [] v = "array"  -> IF p = "baseline" /\ s = "s6" THEN {"silent"} ELSE {"breaking"}
    [] v = "first"  -> {"warning"}
    [] v = "second" -> IF p = "strict" THEN {"breaking"}
                       ELSE IF p = "relaxed" /\ s = "s3" THEN {"warning", "safe"}
                       ELSE {"warning"}
CoveredMayAnswer ==
  [fp \in CoveredSeeds \X {"string", "array", "first", "second"}
                  \X {"baseline", "strict", "relaxed"} |->
     CoveredAnswer(fp[1], fp[2], fp[3])]

=============================================================================
