--------------------------- MODULE SchemaFeatures ---------------------------
(***************************************************************************)
(* The features of a base and a candidate schema under a policy pack: the  *)
(* counts of V2, what V3 adds, V5 with the pack's actions in place of its  *)
(* name, and V6; and with them the mutations that MutationProposals makes. *)
(* A property may have keywords `properties` and `items` of its own; a     *)
(* name is a sequence, so that joining names with dots puts them in line.  *)
(***************************************************************************)
EXTENDS MutationProposals, FiniteSetsExt

CONSTANTS Contexts,    \* resolved packs: rule -> "IGNORE", "WARNING" or "BREAKING"
          UnionTypes,  \* the types of a `type` that is a list
          Depth(_)     \* how deep a schema nests, on which nothing here depends

RuleIds == <<"FIELD_REMOVED", "FIELD_TYPE_CHANGED", "REQUIRED_FIELD_ADDED", "ENUM_VALUE_REMOVED", "ENUM_VALUE_ADDED",
             "CONSTRAINT_TIGHTENED", "CONDITIONAL_RESTRICTION_ADDED", "SCHEMA_RESTRICTION_ADDED">>
Acts == <<"IGNORE", "WARNING", "BREAKING">>

Count(S) == Cardinality(S)
Flag(condition) == IF condition THEN 1 ELSE 0
Sum(counts) == FoldLeft(LAMBDA a, b : a + b, 0, counts)

-----------------------------------------------------------------------------
(* Paths of properties. *)

Keyword(p, k) == IF p # None /\ k \in DOMAIN p THEN p[k] ELSE None
RootKeyword(s, k) == IF k \in DOMAIN s.root THEN s.root[k] ELSE None
PropertiesOf(p) == IF Keyword(p, "properties") = None THEN <<>> ELSE p.properties

\* Properties of a property follow its name, those of its items follow name and brackets.
Nested(s) ==
  UNION {{[path |-> n \o m, top |-> n, node |-> PropertiesOf(s.props[n])[m]] : m \in DOMAIN PropertiesOf(s.props[n])}
         \cup {[path |-> n \o <<"[]">> \o m, top |-> n, node |-> PropertiesOf(Keyword(s.props[n], "items"))[m]] :
                 m \in DOMAIN PropertiesOf(Keyword(s.props[n], "items"))} : n \in DOMAIN s.props}

\* Where two have one path the later in the order of names is found, which is the one of the longer name.
ByPath(nested) ==
  LET longest(path) == CHOOSE x \in nested : x.path = path /\ \A y \in nested : y.path = path => Len(y.top) <= Len(x.top)
  IN  [path \in {x.path : x \in nested} |-> longest(path).node]

collect_properties(s) == s.props @@ ByPath(Nested(s))

\* Items are not looked into for what they require.
required_paths(s) ==
  (IF RootKeyword(s, "required") = None THEN {} ELSE ToSet(s.root.required))
  \cup UNION {{n \o m : m \in (IF Keyword(s.props[n], "required") = None THEN {} ELSE ToSet(s.props[n].required))} : n \in DOMAIN s.props}

-----------------------------------------------------------------------------
(* V2. *)

type_set(p) ==
  IF Keyword(p, "type") = None THEN {} ELSE IF p.type = Union THEN UnionTypes ELSE {p.type}
is_type_widening(before, after) == before \subseteq after \/ (before = {"integer"} /\ after = {"number"})
enum_values(p) == IF Keyword(p, "enum") = None THEN {} ELSE ToSet(p.enum)

LowerKeys == {"minimum", "exclusiveMinimum", "minLength", "minItems", "minProperties"}
UpperKeys == {"maximum", "exclusiveMaximum", "maxLength", "maxItems", "maxProperties"}
OtherKeys == {"pattern", "format", "const", "uniqueItems", "multipleOf"}

\* A bound tightens where it is new or has moved inwards, any other constraint where it is new or not the same.
Moved(k, before, after) ==
  IF k \in LowerKeys THEN Keyword(after, k) > Keyword(before, k)
  ELSE IF k \in UpperKeys THEN Keyword(after, k) < Keyword(before, k) ELSE TRUE
ChangedKeys(before, after) == {k \in LowerKeys \cup UpperKeys \cup OtherKeys : Keyword(before, k) # Keyword(after, k)}
\* Mutant: a keyword that was there and moved is not counted.
TightenedKeysIfNew(before, after) == {k \in ChangedKeys(before, after) : Keyword(before, k) = None}

TightenedKeys(before, after) ==
  {k \in ChangedKeys(before, after) : Keyword(before, k) = None \/ (Keyword(after, k) # None /\ Moved(k, before, after))}
RelaxedKeys(before, after) == ChangedKeys(before, after) \ TightenedKeys(before, after)

IsFalse(value) == value = "false"
RootChanged(b, c, k) == RootKeyword(b, k) # RootKeyword(c, k)

policy_other == <<0, 0, 0, 1>>

\* Of the properties of base and candidate, by path.
V2Counts(b, c, before, after) ==
  LET added   == (DOMAIN after) \ DOMAIN before
      removed == (DOMAIN before) \ DOMAIN after
      shared  == (DOMAIN before) \cap DOMAIN after
      Where(P(_, _)) == Count({n \in shared : P(before[n], after[n])})
      Total(S(_, _)) == MapThenSumSet(LAMBDA n : Count(S(before[n], after[n])), shared)
      Retyped(p, q) == type_set(p) # type_set(q)
      Closed(p) == IsFalse(Keyword(p, "additionalProperties"))
  IN  <<Count(DOMAIN after), Count(added), Count(removed), Where(LAMBDA p, q : p # q), Depth(c),
        Count(required_paths(c)), Count(required_paths(c) \ required_paths(b)), Count(required_paths(b) \ required_paths(c)),
        Where(Retyped), Where(LAMBDA p, q : Retyped(p, q) /\ is_type_widening(type_set(p), type_set(q))),
        Where(LAMBDA p, q : Retyped(p, q) /\ is_type_widening(type_set(q), type_set(p))),
        Total(LAMBDA p, q : enum_values(q) \ enum_values(p)), Total(LAMBDA p, q : enum_values(p) \ enum_values(q)),
        Where(LAMBDA p, q : enum_values(p) = {} /\ enum_values(q) # {}), Where(LAMBDA p, q : enum_values(p) # {} /\ enum_values(q) = {}),
        Total(TightenedKeys), Total(RelaxedKeys),
        Flag(RootChanged(b, c, "if")), Flag(RootChanged(b, c, "oneOf")), Flag(RootChanged(b, c, "anyOf")),
        Flag(RootChanged(b, c, "allOf")), Flag(RootChanged(b, c, "not")),
        Where(LAMBDA p, q : ~Closed(p) /\ Closed(q)), Where(LAMBDA p, q : Closed(p) /\ ~Closed(q))>>
      \o policy_other

V2(b, c) == V2Counts(b, c, collect_properties(b), collect_properties(c))

-----------------------------------------------------------------------------
(* V3 and V5. *)

type_bucket(p) ==
  LET type == Keyword(p, "type")
  IN  CASE type = "string" -> 1 [] type \in {"number", "integer"} -> 2 [] type = "boolean" -> 3
        [] type = "array" -> 4 [] type = "object" -> 5 [] OTHER -> 6

RootIsClosed(s) == IsFalse(RootKeyword(s, "additionalProperties"))
RootHasNew(b, c, k) == RootChanged(b, c, k) /\ RootKeyword(c, k) # None

V3(b, c) ==
  LET added == (DOMAIN c.props) \ DOMAIN b.props
  IN  V2(b, c)
      \o [i \in 1 .. 6 |-> Count({n \in added : type_bucket(c.props[n]) = i})]
      \o <<Flag(~RootIsClosed(b) /\ RootIsClosed(c)), Flag(RootHasNew(b, c, "propertyNames")),
           Flag(RootHasNew(b, c, "dependentRequired")), Flag(RootHasNew(b, c, "dependentSchemas")),
           Flag(\E k \in {"patternProperties", "not", "unevaluatedProperties"} : RootHasNew(b, c, k))>>

rule_action_features(context) ==
  [i \in 1 .. 24 |-> Flag(context[RuleIds[((i - 1) \div 3) + 1]] = Acts[((i - 1) % 3) + 1])]

\* The actions are put where the name of the pack was, so that what follows moves by twenty.
WithActions(v3, context) == SubSeq(v3, 1, 24) \o rule_action_features(context) \o SubSeq(v3, 29, 39)
V5(b, c, context) == WithActions(V3(b, c), context)

-----------------------------------------------------------------------------
(* V6. *)

\* Positions count from 1 here and from 0 in the code.
At(v5, i) == v5[i + 1] > 0
active_rules(v5) ==
  <<At(v5, 2), At(v5, 8), At(v5, 6), At(v5, 12) \/ At(v5, 14), At(v5, 11) \/ At(v5, 13), At(v5, 15), At(v5, 17),
    \E i \in {22} \cup 54 .. 58 : At(v5, i)>>

active_rule_action_features(context, active) ==
  [a \in 1 .. 3 |-> Count({i \in 1 .. 8 : active[i] /\ context[RuleIds[i]] = Acts[a]})]

optional_field_context(b, c) ==
  LET required == IF RootKeyword(c, "required") = None THEN {} ELSE ToSet(c.root.required)
      added == (DOMAIN c.props) \ (DOMAIN b.props \cup required)
  IN  <<Flag(RootIsClosed(b)), Flag(RootIsClosed(c)), Count(added), IF RootIsClosed(c) THEN Count(added) ELSE 0>>

\* The kinds of tightening of the properties of the root that both have: by type, by keyword, and several at once.
constraint_subtypes(b, c) ==
  LET tight(n) == TightenedKeys(b.props[n], c.props[n])
      changed == {n \in (DOMAIN b.props) \cap DOMAIN c.props : tight(n) # {}}
      OfType(types) == Count({n \in changed : Keyword(c.props[n], "type") \in types})
      Of(keys) == MapThenSumSet(LAMBDA n : Count(tight(n) \cap keys), changed)
  IN  <<OfType({"integer", "number"}), OfType({"string"}), OfType({"array"}), OfType({"object"}),
        Of(LowerKeys), Of(UpperKeys), Of({"pattern"}), Of({"multipleOf"}), Of({"uniqueItems"}),
        Count({n \in changed : Count(tight(n)) > 1})>>

WithV6Groups(v5, b, c, context) ==
  v5 \o active_rule_action_features(context, active_rules(v5))
    \o optional_field_context(b, c) \o constraint_subtypes(b, c)
V6(b, c, context) == WithV6Groups(V5(b, c, context), b, c, context)

-----------------------------------------------------------------------------
(* Properties. *)

\* Candidates are looked at when all have been proposed.
Candidates == IF stage = "done" THEN ToSet(proposed) ELSE {}
SomeContext == CHOOSE context \in Contexts : TRUE
Features(c) == V6(base, c.schema, SomeContext)
Optional(v6) == SubSeq(v6, 63, 66)
Subtypes(v6) == SubSeq(v6, 67, 76)

\* Every candidate has a vector of the length and the sign that validate_feature_vector_v6 demands.
VectorOK == \A c \in Candidates : LET v6 == Features(c) IN Len(v6) = 76 /\ \A i \in 1 .. 76 : v6[i] \in Nat

\* No two properties have one path, as happens where a name has a dot in it.
PathsAreDistinct(s) ==
  /\ \A x \in Nested(s) : x.path \notin DOMAIN s.props
  /\ Count({x.path : x \in Nested(s)}) = Count(Nested(s))

RuleOf(kind) ==
  CASE kind = "field_removed" -> {1} [] kind = "field_type_changed" -> {2} [] kind = "required_field_added" -> {3}
    [] kind = "enum_value_removed" -> {4} [] kind = "enum_value_added" -> {5} [] kind = "constraint_tightened" -> {6}
    [] kind = "conditional_restriction_added" -> {7} [] kind = "schema_restriction_added" -> {8} [] OTHER -> {}

\* Of each mutation the features show the rule the policy judges it by, through all positions that move
\* from V2 to V6, and no other: what a pack does about it is counted once, under its action.
DeclaredRulesAreSeen ==
  PathsAreDistinct(base) =>
    \A c \in Candidates, context \in Contexts :
      LET v6 == V6(base, c.schema, context)
      IN  /\ {i \in 1 .. 8 : active_rules(v6)[i]} = RuleOf(c.kind)
          /\ SubSeq(v6, 60, 62) = [a \in 1 .. 3 |-> Count({i \in RuleOf(c.kind) : context[RuleIds[i]] = Acts[a]})]

\* A schema beside itself shows no rule, and no change of any kind.
NothingSeenInNothing ==
  \A context \in Contexts :
    LET v6 == V6(base, base, context)
    IN  \A i \in (2 .. 4) \cup (7 .. 24) \cup (49 .. 62) \cup {65, 66} \cup (67 .. 76) : v6[i] = 0

\* V6 counts by type and keyword what V2 counts as one number: each tightening has one type and its
\* keywords, and is compound where its variant says so.
SubtypesAccountForTightening ==
  \A c \in Candidates :
    LET tight == c.kind = "constraint_tightened"
        v6 == Features(c)
        subtypes == Subtypes(v6)
    IN  /\ Sum(SubSeq(subtypes, 1, 4)) = Flag(tight)
        /\ Sum(SubSeq(subtypes, 5, 9)) = v6[16]
        /\ subtypes[10] = Flag(tight /\ c.variant[1] \in {"lower and third", "lower and upper"})

\* An optional field shows as added, and as added to a closed root exactly where the base is closed:
\* the one case of which the oracle's verdict is another.
OptionalAdditionsAreSeen ==
  \A c \in Candidates :
    LET adds == c.kind = "optional_field_added"
        shown == Optional(Features(c))
    IN  /\ shown[1] = Flag(RootIsClosed(base))
        /\ shown[2] = Flag(RootIsClosed(base) \/ (c.kind = "schema_restriction_added" /\ c.variant[1] = "additional"))
        /\ shown[3] = Flag(adds) /\ shown[4] = Flag(adds /\ RootIsClosed(base))

\* Seen from the candidate, what was added is removed, what was widened is narrowed, and what is relaxed
\* was tightened.
ReversalMirrors ==
  \A c \in Candidates :
    LET forth == V2(base, c.schema)
        back  == V2(c.schema, base)
    IN  /\ \A pair \in {<<2, 3>>, <<7, 8>>, <<10, 11>>, <<12, 13>>, <<14, 15>>, <<23, 24>>} :
             forth[pair[1]] = back[pair[2]] /\ forth[pair[2]] = back[pair[1]]
        /\ \A i \in {4, 9, 18, 19, 20, 21, 22} : forth[i] = back[i]
        /\ back[17] <= forth[16] /\ forth[17] <= back[16]
=============================================================================
