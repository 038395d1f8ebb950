---------------------------- MODULE RemovalAudit ----------------------------
(***************************************************************************)
(* audit-forward-removals: the forward-removal mechanism audit of          *)
(* generation/conformance.rs and the command of main.rs that writes its    *)
(* report.  For every case and every policy of that case, one preflight    *)
(* and one check per mode are asked of the JAR, one after the other; each  *)
(* check becomes an assertion about what the JAR printed.                  *)
(*                                                                         *)
(* Of the text of a check only what the assertions read is kept: how often *)
(* the expected phrase occurs marked [FORWARD] and unmarked, and whether   *)
(* the other rule's phrase occurs.                                         *)
(***************************************************************************)
EXTENDS Naturals, Sequences, SequencesExt

CONSTANTS
  Cases,      \* the audit cases, in order: FIELD_REMOVED or REQUIRED_FIELD_ADDED
  Outputs,    \* the --output paths used
  MaxOdd,     \* answers per run of the JAR that are not the faithful one (bound)
  MaxRuns,    \* commands started (bound)
  None, Torn

AuditAssumption ==
  /\ Cases \in Seq({"FIELD_REMOVED", "REQUIRED_FIELD_ADDED"})
  /\ MaxOdd \in Nat /\ MaxRuns \in Nat

VARIABLES
  file,         \* output path -> None, Torn or a report
  running,      \* None, or the output of the command that runs
  preflights,   \* its preflight records: were they accepted
  invocations,  \* its checks: [call, answer]
  odd,          \* answers of this run that were not the faithful one
  runs          \* commands started

vars == <<file, running, preflights, invocations, odd, runs>>

-----------------------------------------------------------------------------
Baseline == [source |-> "pinned", severity |-> "BREAKING"]

(* Only the policies of the pinned file reach a required addition.         *)
PoliciesOf(kind) ==
  <<Baseline>> \o (IF kind = "FIELD_REMOVED"
                   THEN <<[source |-> "audit", severity |-> "WARNING"],
                          [source |-> "audit", severity |-> "IGNORE"]>>
                   ELSE <<>>)

Modes == <<"FORWARD", "FULL">>

(* Every pair of the audit, and every check in the order it is made.       *)
PairsOf(c) == [i \in DOMAIN PoliciesOf(Cases[c]) |-> [case |-> c, policy |-> PoliciesOf(Cases[c])[i]]]
Pairs == FlattenSeq([c \in DOMAIN Cases |-> PairsOf(c)])
Check(n) == [case |-> Pairs[(n + 1) \div 2].case, policy |-> Pairs[(n + 1) \div 2].policy,
             mode |-> Modes[((n + 1) % 2) + 1]]
NumChecks == 2 * Len(Pairs)

ExpectedOutcome(severity) ==
  CASE severity = "BREAKING" -> "breaking" [] severity = "WARNING" -> "warning" [] OTHER -> "safe"

ExpectedFindings(call) ==
  IF call.policy.severity = "IGNORE" THEN 0 ELSE IF call.mode = "FULL" THEN 2 ELSE 1

(* Mutant: the forward attribution is looked for in FORWARD mode only.     *)
PassedForwardOnly(call, a) ==
  /\ ~a.rejected
  /\ a.outcome = ExpectedOutcome(call.policy.severity)
  /\ a.forward + a.unmarked = ExpectedFindings(call)
  /\ ~a.wrongRule
  /\ call.policy.severity = "IGNORE" \/ call.mode = "FULL" \/ a.forward > 0

(* full_backward_attribution_present: the phrase occurs, marked or not.    *)
BackwardPresent(call, a) ==
  \/ call.policy.severity = "IGNORE" \/ call.mode # "FULL"
  \/ a.forward + a.unmarked > 0

Passed(call, a) ==
  /\ ~a.rejected
  /\ a.outcome = ExpectedOutcome(call.policy.severity)
  /\ a.forward + a.unmarked = ExpectedFindings(call)
  /\ ~a.wrongRule
  /\ call.policy.severity = "IGNORE" \/ a.forward > 0
  /\ BackwardPresent(call, a)

-----------------------------------------------------------------------------
(* The answers of the JAR: the faithful one, and any other the audit is    *)
(* there to notice.                                                        *)
Faithful(call) ==
  [rejected |-> FALSE, outcome |-> ExpectedOutcome(call.policy.severity), wrongRule |-> FALSE,
   forward |-> IF call.policy.severity = "IGNORE" THEN 0 ELSE 1,
   unmarked |-> IF call.policy.severity # "IGNORE" /\ call.mode = "FULL" THEN 1 ELSE 0]

Deviations(call) ==
  {[Faithful(call) EXCEPT !.outcome = o] : o \in {"safe", "warning", "breaking"}}
    \cup {[Faithful(call) EXCEPT !.forward = f, !.unmarked = u] : f \in 0..2, u \in 0..2}
    \cup {[Faithful(call) EXCEPT !.wrongRule = TRUE], [Faithful(call) EXCEPT !.rejected = TRUE]}

Init ==
  /\ file = [o \in Outputs |-> None]
  /\ running = None
  /\ preflights = <<>>
  /\ invocations = <<>>
  /\ odd = 0
  /\ runs = 0

(* An output that exists is refused before an oracle is made; the two      *)
(* oracles are of one JAR, or nothing is asked of it.                      *)
Start(o) ==
  /\ running = None
  /\ runs < MaxRuns
  /\ file[o] = None
  /\ running' = o
  /\ runs' = runs + 1
  /\ preflights' = <<>>
  /\ invocations' = <<>>
  /\ odd' = 0
  /\ UNCHANGED file

(* A refused preflight is recorded and does not spare the pair its checks. *)
Preflight ==
  /\ running # None
  /\ Len(preflights) < Len(Pairs)
  /\ Len(invocations) = 2 * Len(preflights)
  /\ \E accepted \in BOOLEAN :
       /\ accepted \/ odd < MaxOdd
       /\ odd' = IF accepted THEN odd ELSE odd + 1
       /\ preflights' = Append(preflights, accepted)
  /\ UNCHANGED <<file, running, invocations, runs>>

Invoke ==
  /\ running # None
  /\ Len(invocations) < 2 * Len(preflights)
  /\ LET call == Check(Len(invocations) + 1)
     IN \E a \in {Faithful(call)} \cup (IF odd < MaxOdd THEN Deviations(call) ELSE {}) :
          /\ odd' = IF a = Faithful(call) THEN odd ELSE odd + 1
          /\ invocations' = Append(invocations, [call |-> call, answer |-> a])
  /\ UNCHANGED <<file, running, preflights, runs>>

(* An oracle that cannot be run, or a policy file that cannot be read once *)
(* more after the last check (conformance.rs:388-395), ends the command    *)
(* and leaves no report.                                                   *)
InvokeFails ==
  /\ running # None
  /\ running' = None
  /\ preflights' = <<>>
  /\ invocations' = <<>>
  /\ odd' = 0
  /\ UNCHANGED <<file, runs>>

Report ==
  [passed |-> /\ \A i \in DOMAIN preflights : preflights[i]
              /\ \A i \in DOMAIN invocations : Passed(invocations[i].call, invocations[i].answer),
   preflights |-> preflights,
   invocations |-> invocations]

(* The report is written whether or not it passed, and in place: the end   *)
(* of the process in the middle of it leaves a torn file.                  *)
Write ==
  /\ running # None
  /\ Len(preflights) = Len(Pairs)
  /\ Len(invocations) = NumChecks
  /\ file' \in {[file EXCEPT ![running] = Report], [file EXCEPT ![running] = Torn]}
  /\ running' = None
  /\ preflights' = <<>>
  /\ invocations' = <<>>
  /\ odd' = 0
  /\ UNCHANGED runs

Finished ==
  /\ running = None
  /\ runs = MaxRuns \/ \A o \in Outputs : file[o] # None
  /\ UNCHANGED vars

Next ==
  \/ \E o \in Outputs : Start(o)
  \/ Preflight \/ Invoke \/ InvokeFails \/ Write \/ Finished

Spec == Init /\ [][Next]_vars

-----------------------------------------------------------------------------
Reports == {file[o] : o \in {p \in Outputs : file[p] \notin {None, Torn}}}
Said(r, case, severity, mode) ==
  {r.invocations[i].answer : i \in {k \in DOMAIN r.invocations :
     /\ r.invocations[k].call.case = case
     /\ r.invocations[k].call.policy.severity = severity
     /\ r.invocations[k].call.mode = mode}}

(* A report that passed shows, for every removal and both modes, the three *)
(* severities resolved to three outcomes on one pair of schemas, with a    *)
(* preflight accepted for each: build_forward_removal_mechanism_audit's    *)
(* claim that the severity, and nothing else, decides.                     *)
SeverityLadder ==
  \A r \in Reports : r.passed =>
    /\ Len(r.preflights) = Len(Pairs) /\ \A i \in DOMAIN r.preflights : r.preflights[i]
    /\ \A c \in DOMAIN Cases, m \in {"FORWARD", "FULL"} :
         \A s \in {p.severity : p \in {PoliciesOf(Cases[c])[i] : i \in DOMAIN PoliciesOf(Cases[c])}} :
           /\ Said(r, c, s, m) # {}
           /\ \A a \in Said(r, c, s, m) : ~a.rejected /\ a.outcome = ExpectedOutcome(s)

(* Under a report that passed, FULL reports every finding FORWARD reports, *)
(* attributed to the forward direction, and at least one finding more,     *)
(* unless the severity silences both.                                      *)
FullContainsForward ==
  \A r \in Reports : r.passed =>
    \A c \in DOMAIN Cases, s \in {"BREAKING", "WARNING", "IGNORE"} :
      \A f \in Said(r, c, s, "FORWARD"), u \in Said(r, c, s, "FULL") :
        IF s = "IGNORE" THEN f.forward + f.unmarked + u.forward + u.unmarked = 0
        ELSE /\ f.forward = 1 /\ f.unmarked = 0
             /\ u.forward >= f.forward
             /\ u.forward + u.unmarked > f.forward + f.unmarked

(* "FULL preserves independently attributed BACKWARD and [FORWARD]         *)
(* findings" (conformance.rs:436): a FULL check that passed with a finding *)
(* has one of each.                                                        *)
FullShowsBothDirections ==
  \A r \in Reports : r.passed =>
    \A i \in DOMAIN r.invocations :
      (/\ r.invocations[i].call.mode = "FULL"
       /\ r.invocations[i].call.policy.severity # "IGNORE")
        => r.invocations[i].answer.forward > 0 /\ r.invocations[i].answer.unmarked > 0

=============================================================================
