--------------------------- MODULE EvidenceMatrix ---------------------------
(***************************************************************************)
(* What a conformance build promises, whoever makes the oracle calls and   *)
(* in whatever order: it decides which calls it wants, makes each of them  *)
(* once, and returns either one run for every wanted call or, when a call  *)
(* was refused, the error of a refused call and no runs at all.            *)
(***************************************************************************)
EXTENDS Naturals

CONSTANTS
  Calls,       \* the oracle calls a build may want
  NotYet,      \* the result of a build that is still running
  Rejected     \* the result of a build that ended before it made a call

VARIABLES
  wanted,      \* the calls the build has decided to make
  made,        \* those that have returned
  refused,     \* those that returned an error
  result

vars == <<wanted, made, refused, result>>

Report(counts) == [ok |-> TRUE, runs |-> counts]
Failure(call)  == [ok |-> FALSE, error |-> call]

Init ==
  /\ wanted = {}
  /\ made = {}
  /\ refused = {}
  /\ result = NotYet

Want ==
  /\ result = NotYet
  /\ wanted = {}
  /\ wanted' \in SUBSET Calls
  /\ UNCHANGED <<made, refused, result>>

Reject ==
  /\ result = NotYet
  /\ wanted = {}
  /\ result' = Rejected
  /\ UNCHANGED <<wanted, made, refused>>

Call(c) ==
  /\ result = NotYet
  /\ c \in wanted \ made
  /\ made' = made \cup {c}
  /\ refused' \in {refused, refused \cup {c}}
  /\ UNCHANGED <<wanted, result>>

Deliver ==
  /\ result = NotYet
  /\ made = wanted
  /\ refused = {}
  /\ result' = Report([c \in Calls |-> IF c \in wanted THEN 1 ELSE 0])
  /\ UNCHANGED <<wanted, made, refused>>

Fail ==
  /\ result = NotYet
  /\ \E c \in refused : result' = Failure(c)
  /\ UNCHANGED <<wanted, made, refused>>

Next == Want \/ Reject \/ (\E c \in Calls : Call(c)) \/ Deliver \/ Fail

Spec == Init /\ [][Next]_vars

=============================================================================
