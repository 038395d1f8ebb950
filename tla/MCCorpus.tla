------------------------------ MODULE MCCorpus ------------------------------
(***************************************************************************)
(* What corpora are made of, checked in one run: the sampling of sources,  *)
(* the proposals of mutations and the features of a pair of schemas.  A    *)
(* behaviour is of the one component that the initial state names, and the *)
(* variables of the others are None; proposals and features have theirs in *)
(* common.                                                                 *)
(***************************************************************************)
EXTENDS Integers, Sequences, FiniteSets, SequencesExt, TLC

CONSTANTS Blank, Failed, Union, None

-----------------------------------------------------------------------------
(* SourceSampling: files of up to five rows, with open and closed roots of *)
(* every priority, ids whose ranks collide and ids that repeat, and        *)
(* budgets of none to four rows.                                           *)
\* The second and third id collide, and their order is not that of the file.
Rank == [a |-> 3, b |-> 1, c |-> 1, d |-> 2, e |-> 4]
IdOrder == [a |-> 1, b |-> 3, c |-> 2, d |-> 4, e |-> 5]
Root == [oe |-> "open", op |-> "open", ce |-> "closed", cp |-> "closed", none |-> None, text |-> None, on |-> "open"]
SampleCandidates == [oe |-> {"enum_value_added", "removed"}, op |-> {"removed"}, ce |-> {"enum_value_added"},
                 cp |-> {"removed"}, none |-> {}, text |-> None, on |-> {}]

Row(id, schema) == [id |-> id, schema |-> schema, readable |-> TRUE]
Distinct == {[i \in 1 .. 5 |-> Row(<<"a", "b", "c", "d", "e">>[i], s[i])] :
               s \in {<<"op", "oe", "cp", "ce", "op">>, <<"oe", "oe", "op", "op", "cp">>, <<"cp", "ce", "oe", "cp", "none">>,
                      <<"text", "op", "on", "none", "ce">>, <<"none", "ce", "ce", "cp", "cp">>}}
Shuffled(rows) == {rows, [i \in 1 .. 5 |-> rows[6 - i]], [i \in 1 .. 5 |-> rows[((i + 1) % 5) + 1]]}
Odd == {<<>>, <<Row("a", "oe"), Row("b", "cp"), Row("a", "on"), Row("b", "ce"), Row("a", "op")>>,
        <<Row("a", "oe"), Row("a", "oe"), Row("a", "op"), Row("c", "ce"), Row("c", "cp")>>,
        <<Row("a", "oe"), Row(Blank, "cp"), Row("b", Blank), Row("d", "ce")>>,
        <<Row("a", "oe"), Row("b", "cp"), [Row("c", "ce") EXCEPT !.readable = FALSE], Row("d", "ce")>>}
Files == Odd \cup UNION {Shuffled(rows) : rows \in Distinct}
Budgets == {0, 1, 2, 3, 4}

-----------------------------------------------------------------------------
(* MutationProposals: bases of one property with every mixture of its      *)
(* keywords, and of up to five properties with few.                        *)
P(i) == <<"p", i>>
Field(v, i) == <<v, i>>
FieldNames == [v \in {"string", "integer", "boolean", "array"} |-> <<Field(v, 0), Field(v, 1)>>]
ProposalNames == <<Field("array", 0), Field("array", 1), Field("boolean", 0), Field("boolean", 1), Field("integer", 0), Field("integer", 1),
                 Field("string", 0), Field("string", 1), P(1), P(2), P(3), P(4), P(5)>>
ProposalSizes == (-3 .. 14) \cup (98 .. 104) \cup {200, 201, 202}

\* Some of the keywords, each with one of its values.
Some(keywords) == UNION {[K -> UNION {keywords[k] : k \in K}] : K \in SUBSET DOMAIN keywords}
Mixed(keywords) == {f \in Some(keywords) : \A k \in DOMAIN f : f[k] \in keywords[k]}
Typed(t, fs) == {("type" :> t) @@ f : f \in fs}

Numbers == Typed("number", {a @@ b : a \in Mixed([minimum |-> {0, 3, 200}, maximum |-> {0, 3}]),
                                     b \in Mixed([exclusiveMinimum |-> {0, 200}, exclusiveMaximum |-> {0}, multipleOf |-> {3}])})
Strings == Typed("string", {a @@ b : a \in Mixed([minLength |-> {0, 2}, maxLength |-> {0, 1, 5}]), b \in {<<>>, "pattern" :> "other"}})
Arrays  == Typed("array", {a @@ b : a \in Mixed([minItems |-> {0, 2}, maxItems |-> {0, 5}]), b \in Mixed([uniqueItems |-> BOOLEAN])})
Objects == Typed("object", Mixed([minProperties |-> {0, 2}, maxProperties |-> {0, 5}]))

Value(t, v) == [t |-> t, v |-> v]
Enums == {<<>>, <<Value("string", 1)>>, <<Value("string", 1), Value("string", 2)>>, <<Value("string", 1000000), Value("number", 1)>>,
          <<Value("number", 1)>>, <<Value("boolean", 0)>>, <<Value("boolean", 1), Value("string", 1)>>,
          <<Value("boolean", 0), Value("boolean", 1)>>, <<Value("null", 0), Value("string", 1)>>}
Others == {None, <<>>, "type" :> Union, "type" :> "boolean", "type" :> "null"} \cup {"enum" :> e : e \in Enums}
             \cup {("type" :> "string") @@ ("enum" :> e) : e \in Enums}

Schema(props, root) == [props |-> props, root |-> root]
One == {Schema(P(1) :> p, <<>>) : p \in Numbers \cup Strings \cup Arrays \cup Objects \cup Others}

Few == {None, "type" :> "string", ("type" :> "string") @@ ("enum" :> <<Value("string", 1), Value("string", 2)>>)}
RequiredLists == {<<>>, "required" :> None, "required" :> <<>>, "required" :> <<P(1)>>, "required" :> <<P(2), P(1)>>}
Many == {Schema([n \in {P(1), P(2)} |-> IF n = P(1) THEN p ELSE q], r) : p, q \in Few, r \in RequiredLists}
          \cup {Schema([n \in {P(i) : i \in 1 .. 5} |-> f[n[2]]], <<>>) :
                  f \in [1 .. 5 -> {"type" :> "number", "enum" :> <<Value("number", 1), Value("number", 2)>>}]}
          \cup {Schema([n \in {P(1), Field("string", 0)} |-> "type" :> "string"], r) : r \in {<<>>, "required" :> <<Field("string", 0)>>}}
Rooted == {Schema([n \in {P(1), P(2)} |-> "type" :> "integer"], r) :
             r \in {"if" :> "object", "if" :> "boolean", ("if" :> "boolean") @@ ("then" :> "object"), "additionalProperties" :> "false",
                    "additionalProperties" :> "schema", "propertyNames" :> "own", "dependentRequired" :> <<P(1), P(2)>>}}
ProposalBases == {Schema(<<>>, <<>>)} \cup One \cup Many \cup Rooted

-----------------------------------------------------------------------------
(* SchemaFeatures: bases with properties of every type, nested ones, ones  *)
(* in items, dotted names, and roots that are open, closed or restricted   *)
(* already; every candidate of theirs under three packs.                   *)
Dotted == <<"p", 1, "p", 2>>
NameOrder == <<Field("array", 0), Field("array", 1), Field("boolean", 0), Field("boolean", 1), Field("integer", 0), Field("integer", 1),
                 Field("string", 0), Field("string", 1), P(1), Dotted, P(2), P(3)>>

Nodes == {None, <<>>, "type" :> Union, "type" :> "integer", "type" :> "boolean",
          "type" :> "number" @@ "minimum" :> 3 @@ "exclusiveMaximum" :> 9, "type" :> "number" @@ "maximum" :> 5 @@ "multipleOf" :> 3,
          "type" :> "string", "type" :> "string" @@ "minLength" :> 2 @@ "format" :> "own", "type" :> "string" @@ "pattern" :> "other",
          "type" :> "string" @@ "enum" :> <<Value("string", 1), Value("string", 2)>>, "enum" :> <<Value("number", 1)>>,
          "type" :> "array" @@ "uniqueItems" :> FALSE, "type" :> "array" @@ "maxItems" :> 4 @@ "items" :> ("properties" :> (P(2) :> ("type" :> "string"))),
          "type" :> "object", "type" :> "object" @@ "minProperties" :> 1 @@ "additionalProperties" :> "false",
          "type" :> "object" @@ "properties" :> (P(2) :> ("type" :> "string")) @@ "required" :> <<P(2)>>}
Roots == {<<>>, "additionalProperties" :> "false", "additionalProperties" :> "schema" @@ "required" :> <<P(1)>>, "required" :> None,
          "if" :> "boolean" @@ "propertyNames" :> "own", "not" :> "own" @@ "dependentRequired" :> <<P(1), P(2)>>}

Single == {Schema(P(1) :> p, r) : p \in Nodes, r \in Roots}
Pairs == {Schema(n :> ("type" :> "string") @@ P(1) :> p, r) : n \in {P(2), Dotted, Field("string", 0)}, p \in Nodes,
          r \in {"additionalProperties" :> "false", "required" :> <<P(1), P(2)>>}}
Bases == {Schema(<<>>, <<>>)} \cup Single \cup Pairs

Rules == {"FIELD_REMOVED", "FIELD_TYPE_CHANGED", "REQUIRED_FIELD_ADDED", "ENUM_VALUE_REMOVED", "ENUM_VALUE_ADDED",
          "CONSTRAINT_TIGHTENED", "CONDITIONAL_RESTRICTION_ADDED", "SCHEMA_RESTRICTION_ADDED"}
Contexts == {[i \in Rules |-> "IGNORE"],
               [i \in Rules |-> IF i \in {"ENUM_VALUE_ADDED", "CONDITIONAL_RESTRICTION_ADDED"} THEN "WARNING" ELSE "BREAKING"],
               [i \in Rules |-> CASE i \in {"FIELD_REMOVED", "ENUM_VALUE_REMOVED", "CONSTRAINT_TIGHTENED"} -> "IGNORE"
                                          [] i \in {"FIELD_TYPE_CHANGED", "ENUM_VALUE_ADDED"} -> "WARNING" [] OTHER -> "BREAKING"]}
Depth(s) == 1
UnionTypes == {"string", "null"}
Sizes == {0}

-----------------------------------------------------------------------------
VARIABLES component,
          file, max_records, profile, next, sampled, balanced_open, balanced_closed, result,
          base, stage, proposed

Sampling == INSTANCE SourceSampling WITH Candidates <- SampleCandidates
Proposals == INSTANCE MutationProposals
               WITH Bases <- ProposalBases, NameOrder <- ProposalNames, Sizes <- ProposalSizes
Features == INSTANCE SchemaFeatures

vars == <<component,
          file, max_records, profile, next, sampled, balanced_open, balanced_closed, result,
          base, stage, proposed>>

SamplingOthers == <<base, stage, proposed>>
CandidatesOthers == <<file, max_records, profile, next, sampled, balanced_open, balanced_closed, result>>

Init ==
  \/ /\ component = "sampling" /\ Sampling!Init
     /\ base = None /\ stage = None /\ proposed = None
  \/ /\ \/ component = "proposals" /\ Proposals!Init
        \/ component = "features" /\ Features!Init
     /\ file = None /\ max_records = None /\ profile = None /\ next = None
     /\ sampled = None /\ balanced_open = None /\ balanced_closed = None /\ result = None

Next ==
  \/ component = "sampling" /\ Sampling!Next /\ UNCHANGED <<component, SamplingOthers>>
  \/ component = "proposals" /\ Proposals!Next /\ UNCHANGED <<component, CandidatesOthers>>
  \/ component = "features" /\ Features!Next /\ UNCHANGED <<component, CandidatesOthers>>

Spec == Init /\ [][Next]_vars

-----------------------------------------------------------------------------
(* A sample kept within its budget while the file is read is the one that  *)
(* sorting the whole file would give, whatever the order of its rows, and  *)
(* a balanced one has as many open as closed roots.                        *)
SampleIsOfTheWholeFile ==
  component = "sampling" =>
    /\ Sampling!TypeOK /\ Sampling!SampleIsSmallest /\ Sampling!RowOrderDoesNotMatter
    /\ Sampling!BalancedIsFair /\ Sampling!SampleOfWholeFile

(* Whatever keywords a base has already, candidates have names that tell   *)
(* them apart, change one thing, require what they declare, and tighten    *)
(* where they say so without contradicting the inclusive bounds.           *)
ProposalsAreWhatTheySay ==
  component = "proposals" =>
    /\ Proposals!TypeOK /\ Proposals!NamesTellCandidatesApart /\ Proposals!ChangesOneThing
    /\ Proposals!RequiresWhatItDeclares /\ Proposals!TighteningTightens /\ Proposals!InclusiveBoundsAgree

(* The features of a candidate show the one rule its mutation is judged    *)
(* by, through every version of the vector: nothing for a schema beside    *)
(* itself, and the mirror image for the reverse.                           *)
FeaturesShowTheMutation ==
  component = "features" =>
    /\ Features!VectorOK /\ Features!DeclaredRulesAreSeen /\ Features!NothingSeenInNothing
    /\ Features!SubtypesAccountForTightening /\ Features!OptionalAdditionsAreSeen /\ Features!ReversalMirrors

=============================================================================
