-------------------------- MODULE PolicyContexts ---------------------------
(***************************************************************************)
(* The resolution of policy packs to actions, as features and service use  *)
(* it: names and rule keys are compared without case, blanks or dashes,    *)
(* every pack starts from the executable's baseline, and a name nobody     *)
(* declared gets the configured default.  A raw name is a pair of what it  *)
(* normalizes to (None for a blank one) and its spelling; the entries of a *)
(* JSON object come in the order of their spellings.                       *)
(***************************************************************************)
EXTENDS Naturals, Sequences, FiniteSets, SequencesExt

CONSTANTS Documents, \* policy files: [default |-> raw name or None, packs |-> sequence of [name, rules]]
          Requests,  \* sequences of the raw names asked for
          Rules,     \* rule identifiers
          Baseline,  \* rule -> action, the executable's
          Malformed, \* a definition that is neither an object nor null
          None

Actions == {"IGNORE", "WARNING", "BREAKING"}
IsSequence(s) == s \in Seq({s[i] : i \in DOMAIN s})

\* The baseline is total; rules are a sequence, null or of another type; None is no rule and no action.
ContextsAssumption ==
  /\ Baseline \in [Rules -> Actions]
  /\ None \notin Rules \cup Actions
  /\ \A d \in Documents : \A i \in DOMAIN d.packs :
       d.packs[i].rules \in {None, Malformed} \/ IsSequence(d.packs[i].rules)

VARIABLES document,  \* the file
          asked,     \* names left to resolve
          contexts,  \* spelled name -> actions, of those resolved
          current,   \* the name being resolved, its actions and the rules left, or None
          status     \* "reading", "resolving", "done" or "failed"
vars == <<document, asked, contexts, current, status>>

-----------------------------------------------------------------------------
(* Names. *)

NamedPacks(d) == {i \in DOMAIN d.packs : d.packs[i].name.norm # None}
Duplicated(d) == \E i, j \in NamedPacks(d) : i # j /\ d.packs[i].name.norm = d.packs[j].name.norm

Declares(d, norm) == \E i \in NamedPacks(d) : d.packs[i].name.norm = norm
RulesOf(d, norm) == d.packs[CHOOSE i \in NamedPacks(d) : d.packs[i].name.norm = norm].rules

\* A default that is not declared, or not given, is the baseline pack.
DefaultPack(d) == IF d.default # None /\ d.default.norm # None /\ Declares(d, d.default.norm) THEN d.default.norm ELSE "baseline"

\* A blank name asks for the default; what is not declared is looked up as the default, if that is.
Requested(d, name) == IF name.norm = None THEN DefaultPack(d) ELSE name.norm
Definition(d, name) ==
  IF Declares(d, Requested(d, name)) THEN RulesOf(d, Requested(d, name))
  ELSE IF Declares(d, DefaultPack(d)) THEN RulesOf(d, DefaultPack(d)) ELSE None

-----------------------------------------------------------------------------
(* Resolution. *)

Fail == status' = "failed" /\ contexts' = <<>> /\ current' = None /\ UNCHANGED <<document, asked>>

Read ==
  /\ status = "reading" /\ ~Duplicated(document)
  /\ status' = "resolving"
  /\ UNCHANGED <<document, asked, contexts, current>>

RefuseDuplicates == status = "reading" /\ Duplicated(document) /\ Fail

\* Mutant: a pack starts from the default pack in place of the baseline.
InheritsDefault(d, name) ==
  [rule \in Rules |->
    LET own == IF Declares(d, DefaultPack(d)) THEN RulesOf(d, DefaultPack(d)) ELSE None
        set == IF own \in {None, Malformed} THEN {} ELSE {i \in DOMAIN own : own[i].rule = rule /\ own[i].action \in Actions}
    IN IF set = {} THEN Baseline[rule] ELSE own[CHOOSE i \in set : \A j \in set : j <= i].action]

\* A definition, or its rules, may be null or absent; anything else than an object is refused.
StartingActions(d, name) == Baseline

Start ==
  /\ status = "resolving" /\ current = None /\ asked # <<>>
  /\ Definition(document, Head(asked)) # Malformed
  /\ current' = [name |-> Head(asked), actions |-> StartingActions(document, Head(asked)),
                 left |-> IF Definition(document, Head(asked)) = None THEN <<>> ELSE Definition(document, Head(asked))]
  /\ UNCHANGED <<document, asked, contexts, status>>

RefuseDefinition ==
  /\ status = "resolving" /\ current = None /\ asked # <<>>
  /\ Definition(document, Head(asked)) = Malformed
  /\ Fail

\* A null action is BREAKING.
Action(entry) == IF entry.action = None THEN "BREAKING" ELSE entry.action

Acceptable(entry) == entry.rule \in Rules /\ entry.action \in Actions \cup {None}
Working == status = "resolving" /\ current # None /\ current.left # <<>>

\* A blank key is passed over; a later spelling of the same rule overrides an earlier one.
Apply ==
  /\ Working
  /\ LET entry == Head(current.left) IN
       /\ entry.rule = None \/ Acceptable(entry)
       /\ current' = [current EXCEPT !.left = Tail(@),
                        !.actions = IF entry.rule = None THEN @ ELSE [@ EXCEPT ![entry.rule] = Action(entry)]]
  /\ UNCHANGED <<document, asked, contexts, status>>

RefuseRule == Working /\ Head(current.left).rule # None /\ ~Acceptable(Head(current.left)) /\ Fail

Resolved ==
  /\ status = "resolving" /\ current # None /\ current.left = <<>>
  /\ contexts' = [n \in DOMAIN contexts \cup {current.name} |-> IF n = current.name THEN current.actions ELSE contexts[n]]
  /\ asked' = Tail(asked) /\ current' = None
  /\ UNCHANGED <<document, status>>

Finish ==
  /\ status = "resolving" /\ current = None /\ asked = <<>>
  /\ status' = "done"
  /\ UNCHANGED <<document, asked, contexts, current>>

Init ==
  /\ document \in Documents /\ asked \in Requests
  /\ contexts = <<>> /\ current = None /\ status = "reading"

Step == Read \/ RefuseDuplicates \/ Start \/ RefuseDefinition \/ Apply \/ RefuseRule \/ Resolved \/ Finish
Ended == status \in {"done", "failed"} /\ UNCHANGED vars
Next == Step \/ Ended
Spec == Init /\ [][Next]_vars /\ WF_vars(Step)

-----------------------------------------------------------------------------
(* Properties. *)

\* Every variable has its shape, and what is resolved so far is a total table.
TypeOK ==
  /\ status \in {"reading", "resolving", "done", "failed"}
  /\ \A n \in DOMAIN contexts : contexts[n] \in [Rules -> Actions]
  /\ current # None => current.actions \in [Rules -> Actions] /\ current.name = Head(asked)

Keys(rules, rule) == {i \in DOMAIN rules : rules[i].rule = rule}

\* What the comment on from_json promises: a declared pack has the executable's baseline under its own
\* overrides, the last spelling of a rule counting, whatever the default pack overrides; a null is BREAKING.
DeclaredPacksStandAlone ==
  \A n \in DOMAIN contexts : Declares(document, Requested(document, n)) =>
    LET rules == RulesOf(document, Requested(document, n)) IN
      \A rule \in Rules :
        IF rules = None \/ Keys(rules, rule) = {} THEN contexts[n][rule] = Baseline[rule]
        ELSE LET set == rules[CHOOSE i \in Keys(rules, rule) : \A j \in Keys(rules, rule) : j <= i].action
             IN  contexts[n][rule] = IF set = None THEN "BREAKING" ELSE set

\* Two spellings of one name mean the same pack, before and after other names are resolved; a blank
\* name means the default.
SpellingsAgree ==
  \A n, m \in DOMAIN contexts : Requested(document, n) = Requested(document, m) => contexts[n] = contexts[m]

\* A name is one pack or none: where two packs of a file normalize to one name nothing is resolved.
NamesAreUnambiguous ==
  contexts # <<>> => \A i, j \in DOMAIN document.packs :
    (i # j /\ document.packs[i].name.norm # None) => document.packs[i].name.norm # document.packs[j].name.norm

\* Resolution comes to an end.
ResolutionEnds == <>(status \in {"done", "failed"})
=============================================================================
