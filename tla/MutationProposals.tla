------------------------- MODULE MutationProposals -------------------------
(***************************************************************************)
(* The mutations proposed of one base schema, stage by stage in the order  *)
(* of candidates_for_value.  A schema is [props, root]: property name ->   *)
(* keywords, and root keyword -> value.  A property that is not an object  *)
(* has no keywords to read (None).  Keywords that nothing here reads or    *)
(* writes are left out.                                                    *)
(***************************************************************************)
EXTENDS Integers, Sequences, FiniteSets, SequencesExt, Functions, TLC

CONSTANTS Bases,      \* the schemas to start from
          NameOrder,  \* every property name, as sort orders them
          FieldNames, \* what may be added -> the names tried for it, each with one more underscore
          Sizes,      \* numbers and lengths a value may have, for what a schema accepts
          Union,      \* a `type` that is a list
          None

Named(s) == SelectSeq(NameOrder, LAMBDA n : n \in DOMAIN s.props)

VARIABLES base,     \* the schema
          stage,    \* the next stage, or "done"
          proposed  \* candidates so far: [kind, variant, name, schema], name the property meant
vars == <<base, stage, proposed>>

-----------------------------------------------------------------------------
(* Reading and changing a schema. *)

Names == Named(base)
Property(n) == base.props[n]
Has(n, keyword) == Property(n) # None /\ keyword \in DOMAIN Property(n)
TypeOf(n) == IF Has(n, "type") /\ Property(n).type # Union THEN Property(n).type ELSE None
Enumerates(n) == Has(n, "enum")

With(f, new) == new @@ f
Changed(n, new) == [base EXCEPT !.props[n] = With(@, new)]
AtRoot(new) == [base EXCEPT !.root = With(@, new)]

Candidate(kind, variant, n, schema) == [kind |-> kind, variant |-> variant, name |-> n, schema |-> schema]
When(condition, candidate) == IF condition THEN <<candidate>> ELSE <<>>
FirstOf(P(_)) == SelectInSeq(Names, P)

\* The first properties are looked at with their position, counted from 0.
Ordinals == 1 .. (IF Len(Names) < 4 THEN Len(Names) ELSE 4)
ForOrdinals(Op(_)) == FlattenSeq([i \in Ordinals |-> Op(i)])

-----------------------------------------------------------------------------
(* The candidates of each stage. *)

Removed ==
  <<Candidate("field_removed", <<"first">>, Names[1],
      [props |-> Restrict(base.props, DOMAIN base.props \ {Names[1]}),
       root |-> IF "required" \in DOMAIN base.root /\ base.root.required # None
                THEN [base.root EXCEPT !.required = SelectSeq(@, LAMBDA n : n # Names[1])] ELSE base.root])>>

Replacement(type) ==
  CASE type = "string" -> "integer" [] type = "array" -> "object" [] type = "object" -> "array" [] OTHER -> "string"

TypeChanged ==
  LET i == FirstOf(LAMBDA n : TypeOf(n) # None)
  IN  IF i = 0 THEN <<>>
      ELSE <<Candidate("field_type_changed", <<"first">>, Names[i], Changed(Names[i], "type" :> Replacement(TypeOf(Names[i]))))>>

\* A `required` that is not a list (None) leaves nothing to add to.
Required == IF "required" \in DOMAIN base.root THEN base.root.required ELSE <<>>
MadeRequired ==
  IF Required = None THEN <<>>
  ELSE LET i == FirstOf(LAMBDA n : n \notin ToSet(Required))
       IN  IF i = 0 THEN <<>>
           ELSE <<Candidate("required_field_added", <<"first">>, Names[i], AtRoot("required" :> Append(Required, Names[i])))>>

\* Only the first property with an enum is looked at.
EnumShrunk ==
  LET i == FirstOf(Enumerates)
  IN  IF i = 0 THEN <<>>
      ELSE When(Len(Property(Names[i]).enum) >= 2,
             Candidate("enum_value_removed", <<"last">>, Names[i], Changed(Names[i], "enum" :> Front(Property(Names[i]).enum))))

\* A value of the first one's type: generated for strings and numbers, the other one for booleans.
Novel(values, i) ==
  LET first == values[1]
      truths == {v.v : v \in {x \in ToSet(values) : x.t = "boolean"}}
      value == IF first.t = "boolean" THEN [t |-> "boolean", v |-> IF truths = {1} THEN 0 ELSE 1]
               ELSE [t |-> first.t, v |-> 1000000 + i - 1]
  IN  IF first.t \notin {"string", "number", "boolean"} \/ (first.t = "boolean" /\ truths = {0, 1}) \/ value \in ToSet(values)
      THEN None ELSE value

EnumGrown ==
  ForOrdinals(LAMBDA i :
    IF ~Enumerates(Names[i]) \/ Property(Names[i]).enum = <<>> \/ Novel(Property(Names[i]).enum, i) = None THEN <<>>
    ELSE <<Candidate("enum_value_added", <<"value", i - 1>>, Names[i],
             Changed(Names[i], "enum" :> Append(Property(Names[i]).enum, Novel(Property(Names[i]).enum, i))))>>)

\* The keywords that bound a value of each type from below and above, and the third one.
Bounds(type) ==
  CASE type \in {"integer", "number"} -> [lower |-> "minimum", upper |-> "maximum", third |-> "multipleOf" :> 2]
    [] type = "string" -> [lower |-> "minLength", upper |-> "maxLength", third |-> "pattern" :> "word"]
    [] type = "array"  -> [lower |-> "minItems", upper |-> "maxItems", third |-> "uniqueItems" :> TRUE]
    [] type = "object" -> [lower |-> "minProperties", upper |-> "maxProperties", third |-> <<>>]
    [] OTHER -> None

NewLower(p, b) ==
  IF b.lower \in DOMAIN p \/ (b.lower # "minimum" /\ b.upper \in DOMAIN p /\ p[b.upper] = 0) THEN None
  ELSE IF b.lower # "minimum" THEN 1
  ELSE IF b.upper \in DOMAIN p THEN p[b.upper] - 1 ELSE 0

\* Mutant: an upper bound is set whatever the bounds there are.
NewUpperOverrides(p, b) == IF b.lower = "minimum" THEN 100 ELSE 8

NewUpper(p, b) ==
  LET from == IF b.lower \in DOMAIN p THEN p[b.lower] ELSE 0
  IN  IF b.upper \in DOMAIN p THEN None
      ELSE IF b.lower # "minimum" THEN from + 8
      ELSE IF b.lower \in DOMAIN p THEN from + 1 ELSE 100

\* uniqueItems is added where it is not true yet, the others where they are absent.
ThirdIsFree(p, b) ==
  b.third # <<>> /\ \A k \in DOMAIN b.third : k \in DOMAIN p => (k = "uniqueItems" /\ p[k] # TRUE)

TightenedVariant(what, i) == <<what, i - 1>>

Tightened ==
  ForOrdinals(LAMBDA i :
    IF TypeOf(Names[i]) = None \/ Bounds(TypeOf(Names[i])) = None THEN <<>>
    ELSE LET p == Property(Names[i])
             b == Bounds(TypeOf(Names[i]))
             low == NewLower(p, b)
             up == NewUpper(p, b)
             Tighten(what, new) == Candidate("constraint_tightened", TightenedVariant(what, i), Names[i], Changed(Names[i], new))
         IN  When(low # None, Tighten("lower", b.lower :> low))
               \o When(up # None, Tighten("upper", b.upper :> up))
               \o When(ThirdIsFree(p, b), Tighten("third", b.third))
               \o When(low # None /\ ThirdIsFree(p, b), Tighten("lower and third", (b.lower :> low) @@ b.third))
               \o When(b.third = <<>> /\ low # None /\ up # None, Tighten("lower and upper", (b.lower :> low) @@ (b.upper :> up))))

RootHas(keyword, value) == keyword \in DOMAIN base.root /\ base.root[keyword] = value
Conditioned ==
  When(~RootHas("if", "object") /\ ~RootHas("then", "object"),
    Candidate("conditional_restriction_added", <<"root">>, Names[1], AtRoot(("if" :> "object") @@ ("then" :> "object"))))

Restricted ==
  When(~RootHas("additionalProperties", "false"),
    Candidate("schema_restriction_added", <<"additional">>, None, AtRoot("additionalProperties" :> "false")))
  \o When("propertyNames" \notin DOMAIN base.root,
    Candidate("schema_restriction_added", <<"names">>, None, AtRoot("propertyNames" :> "generated")))
  \o When(Len(Names) >= 2 /\ "dependentRequired" \notin DOMAIN base.root,
    Candidate("schema_restriction_added", <<"dependent">>, None, AtRoot("dependentRequired" :> <<Names[1], Names[2]>>)))

\* Underscores are added until the name is new.
FieldName(variant) ==
  LET tried == FieldNames[variant] IN tried[SelectInSeq(tried, LAMBDA n : n \notin DOMAIN base.props)]

Variants == <<"string", "integer", "boolean", "array">>
FieldsAdded ==
  [i \in 1 .. Len(Variants) |->
    Candidate("optional_field_added", <<Variants[i]>>, FieldName(Variants[i]),
      [base EXCEPT !.props = With(@, FieldName(Variants[i]) :> ("type" :> Variants[i]))])]

-----------------------------------------------------------------------------
(* The stages. *)

Propose(from, to, candidates) ==
  /\ stage = from /\ stage' = to
  /\ proposed' = proposed \o candidates
  /\ UNCHANGED base

\* Nothing is proposed of a schema without properties.
Nothing == stage = "remove" /\ Names = <<>> /\ stage' = "done" /\ UNCHANGED <<base, proposed>>

RemoveField       == Names # <<>> /\ Propose("remove", "type", Removed)
ChangeType        == Propose("type", "require", TypeChanged)
RequireField      == Propose("require", "enum", MadeRequired)
RemoveEnumValue   == Propose("enum", "values", EnumShrunk)
AddEnumValues     == Propose("values", "constraints", EnumGrown)
TightenProperties == Propose("constraints", "condition", Tightened)
AddCondition      == Propose("condition", "root", Conditioned)
RestrictRoot      == Propose("root", "fields", Restricted)
AddOptionalFields == Propose("fields", "done", FieldsAdded)

Init == base \in Bases /\ stage = "remove" /\ proposed = <<>>

Ended == stage = "done" /\ UNCHANGED vars

Next ==
  \/ Nothing \/ RemoveField \/ ChangeType \/ RequireField \/ RemoveEnumValue \/ AddEnumValues
  \/ TightenProperties \/ AddCondition \/ RestrictRoot \/ AddOptionalFields
  \/ Ended

Spec == Init /\ [][Next]_vars

-----------------------------------------------------------------------------
(* What a schema accepts: values are of a size, with or without what a pattern or uniqueItems asks. *)

Holds(keyword, x, v) ==
  CASE keyword \in {"minimum", "minLength", "minItems", "minProperties"} -> v.size >= x
    [] keyword \in {"maximum", "maxLength", "maxItems", "maxProperties"} -> v.size <= x
    [] keyword = "exclusiveMinimum" -> v.size > x
    [] keyword = "exclusiveMaximum" -> v.size < x
    [] keyword = "multipleOf" -> v.size % x = 0
    [] keyword = "pattern" -> v.neat
    [] keyword = "uniqueItems" -> (x => v.neat)
    [] OTHER -> TRUE
Accepted(p, keywords) == {v \in [size : Sizes, neat : BOOLEAN] : \A k \in DOMAIN p \cap keywords : Holds(k, p[k], v)}
Lowers == {"minimum", "minLength", "minItems", "minProperties"}
Uppers == {"maximum", "maxLength", "maxItems", "maxProperties"}
Exclusive == {"exclusiveMinimum", "exclusiveMaximum"}

(* Properties. *)

\* A kind and a variant name one candidate, and no two candidates are one schema: dataset records are
\* found again by kind and variant (refeature_v5_as_v6), and portable ids are made of them.
NamesTellCandidatesApart ==
  \A i, j \in DOMAIN proposed : i # j =>
    /\ <<proposed[i].kind, proposed[i].variant>> # <<proposed[j].kind, proposed[j].variant>>
    /\ proposed[i].schema # proposed[j].schema

Differ(s) == {n \in DOMAIN s.props \cup DOMAIN base.props :
                ~(n \in DOMAIN s.props /\ n \in DOMAIN base.props /\ s.props[n] = base.props[n])}
RootDiffer(s) == {k \in DOMAIN s.root \cup DOMAIN base.root :
                    ~(k \in DOMAIN s.root /\ k \in DOMAIN base.root /\ s.root[k] = base.root[k])}

\* Every candidate is one change, and one: of one property or of the root, and of nothing else but the
\* list of required names when a required property goes.
ChangesOneThing ==
  \A c \in ToSet(proposed) :
    \/ Differ(c.schema) = {c.name} /\ RootDiffer(c.schema) = {}
    \/ Differ(c.schema) = {c.name} /\ RootDiffer(c.schema) = {"required"} /\ c.kind = "field_removed" /\ c.name \in ToSet(Required)
    \/ Differ(c.schema) = {} /\ (Cardinality(RootDiffer(c.schema)) = 1 \/ (RootDiffer(c.schema) # {} /\ RootDiffer(c.schema) \subseteq {"if", "then"}))

\* Where a base requires only what it declares, so does every candidate; and a field that is added
\* is optional.
RequiresWhatItDeclares ==
  (Required # None /\ ToSet(Required) \subseteq DOMAIN base.props) =>
    \A c \in ToSet(proposed) :
      /\ "required" \in DOMAIN c.schema.root => ToSet(c.schema.root.required) \subseteq DOMAIN c.schema.props
      /\ c.kind = "optional_field_added" => c.name \notin ToSet(Required)

\* A tightened property accepts no value it refused before.
TighteningTightens ==
  \A c \in ToSet(proposed) : c.kind = "constraint_tightened" =>
    Accepted(c.schema.props[c.name], Lowers \cup Uppers \cup {"multipleOf", "pattern", "uniqueItems"})
      \subseteq Accepted(Property(c.name), Lowers \cup Uppers \cup {"multipleOf", "pattern", "uniqueItems"})

\* A bound that is added leaves something between it and the bounds that were there, the inclusive ones.
InclusiveBoundsAgree ==
  \A c \in ToSet(proposed) : c.kind = "constraint_tightened" =>
    (Accepted(Property(c.name), Lowers \cup Uppers) # {} => Accepted(c.schema.props[c.name], Lowers \cup Uppers) # {})

\* What the comment in candidates_for_value says of its values, that they avoid contradictory lower and
\* upper bounds, for all bounds there are.
BoundsNeverContradict ==
  \A c \in ToSet(proposed) : c.kind = "constraint_tightened" =>
    (Accepted(Property(c.name), Lowers \cup Uppers \cup Exclusive) # {} =>
       Accepted(c.schema.props[c.name], Lowers \cup Uppers \cup Exclusive) # {})

\* Every variable has its shape, and no candidate loses a property but the one it removes.
TypeOK ==
  /\ base \in Bases
  /\ stage \in {"remove", "type", "require", "enum", "values", "constraints", "condition", "root", "fields", "done"}
  /\ \A c \in ToSet(proposed) : DOMAIN base.props \ DOMAIN c.schema.props = IF c.kind = "field_removed" THEN {c.name} ELSE {}
=============================================================================
