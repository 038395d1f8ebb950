---------------------------- MODULE PolicyOracle ----------------------------
(***************************************************************************)
(* PinnedOracle of generation/oracle.rs: an adapter is made once from the  *)
(* JAR and the policy file at two paths; every call stages the pair in a   *)
(* directory of its own and runs the JAR on it.  Callers are threads of    *)
(* one or more processes that share a workspace.  The files belong to no   *)
(* one: another program may replace them at any time.                      *)
(***************************************************************************)
EXTENDS Naturals, FiniteSets

CONSTANTS
  Callers,       \* threads, each of which makes one call
  ProcessOf,     \* caller -> process id
  PairOf,        \* caller -> the pair it asks about, or Invalid
  Linters,       \* callers that ask for the preflight of their pair
  AuditScopeOf,  \* processes whose adapter is the audit-only one
  JarVersions,   \* contents the JAR file may have
  PolicyVersions,\* contents the policy file may have
  Fixture,       \* the FIELD_REMOVED audit fixture, one of PolicyVersions
  FixtureNamed,  \* the policy path has the fixture's exact name
  Replies,       \* what a JAR process may end with: [exit, stdout, stderr]
  MaxReplaced,   \* replacements another program makes (bound)
  Missing, None, Invalid

CallingProcesses == {ProcessOf[c] : c \in Callers}

OracleAssumption ==
  /\ Fixture \in PolicyVersions
  /\ Missing \notin JarVersions \cup PolicyVersions
  /\ MaxReplaced \in Nat
  /\ AuditScopeOf \subseteq CallingProcesses
  /\ None \notin {"safe", "warning", "breaking"} \cup PolicyVersions
  /\ None \notin CallingProcesses \X Nat

VARIABLES
  jar,       \* content of the JAR file
  policy,    \* content of the policy file
  replaced,  \* replacements made so far
  adapter,   \* process -> [jar, policy], the hashes it recorded, or None
  sequence,  \* process -> STAGING_SEQUENCE
  pc,        \* caller -> stage of its call
  dir,       \* caller -> its staging directory
  dirs,      \* directory -> its files: [policy, pair]
  judged,    \* history: caller -> what the JAR process ran on
  outcome    \* caller -> label, preflight answer, "rejected" or "error"

vars == <<jar, policy, replaced, adapter, sequence, pc, dir, dirs, judged, outcome>>

files == <<jar, policy, replaced>>
calls == <<sequence, pc, dir, dirs, judged, outcome>>

Init ==
  /\ jar \in JarVersions
  /\ policy \in PolicyVersions
  /\ replaced = 0
  /\ adapter = [p \in CallingProcesses |-> None]
  /\ sequence = [p \in CallingProcesses |-> 0]
  /\ pc = [c \in Callers |-> "new"]
  /\ dir = [c \in Callers |-> None]
  /\ dirs = << >>
  /\ judged = [c \in Callers |-> None]
  /\ outcome = [c \in Callers |-> None]

(* Another program replaces or removes a file.                             *)
Replace ==
  /\ replaced < MaxReplaced
  /\ replaced' = replaced + 1
  /\ \/ jar' \in (JarVersions \cup {Missing}) \ {jar} /\ UNCHANGED policy
     \/ policy' \in (PolicyVersions \cup {Missing}) \ {policy} /\ UNCHANGED jar
  /\ UNCHANGED <<adapter, calls>>

-----------------------------------------------------------------------------
(* validate_policy_scope: production refuses the fixture by its hash, the  *)
(* audit requires its hash and its name.                                   *)
PolicyInScope(p) ==
  IF p \in AuditScopeOf THEN policy = Fixture /\ FixtureNamed ELSE policy # Fixture

(* new_with_policy_scope: both files are read and hashed once.             *)
New(p) ==
  /\ adapter[p] = None
  /\ jar # Missing /\ policy # Missing
  /\ PolicyInScope(p)
  /\ adapter' = [adapter EXCEPT ![p] = [jar |-> jar, policy |-> policy]]
  /\ UNCHANGED <<files, calls>>

NewFails(p) ==
  /\ adapter[p] = None
  /\ jar = Missing \/ policy = Missing \/ ~PolicyInScope(p)
  /\ pc' = [c \in Callers |-> IF ProcessOf[c] = p THEN "returned" ELSE pc[c]]
  /\ outcome' = [c \in Callers |-> IF ProcessOf[c] = p THEN "error" ELSE outcome[c]]
  /\ UNCHANGED <<files, adapter, sequence, dir, dirs, judged>>

-----------------------------------------------------------------------------
Goto(c, stage) == pc' = [pc EXCEPT ![c] = stage]

Fails(c) ==
  /\ Goto(c, "returned")
  /\ outcome' = [outcome EXCEPT ![c] = "error"]

(* validate_pair *)
Refuse(c) ==
  /\ pc[c] = "new"
  /\ adapter[ProcessOf[c]] # None
  /\ PairOf[c] = Invalid
  /\ Fails(c)
  /\ UNCHANGED <<files, adapter, sequence, dir, dirs, judged>>

(* Mutant: the directory name leaves the process id out.                   *)
NumberWithoutProcess(c) ==
  LET p == ProcessOf[c] IN
  /\ pc[c] = "new"
  /\ adapter[p] # None
  /\ PairOf[c] # Invalid
  /\ dir' = [dir EXCEPT ![c] = <<0, sequence[p]>>]
  /\ sequence' = [sequence EXCEPT ![p] = @ + 1]
  /\ Goto(c, "create")
  /\ UNCHANGED <<files, adapter, dirs, judged, outcome>>

(* stage_pair: a number no other call of the process has, ...              *)
Number(c) ==
  LET p == ProcessOf[c] IN
  /\ pc[c] = "new"
  /\ adapter[p] # None
  /\ PairOf[c] # Invalid
  /\ dir' = [dir EXCEPT ![c] = <<p, sequence[p]>>]
  /\ sequence' = [sequence EXCEPT ![p] = @ + 1]
  /\ Goto(c, "create")
  /\ UNCHANGED <<files, adapter, dirs, judged, outcome>>

(* ... a directory (create_dir_all accepts one that exists), ...           *)
Create(c) ==
  /\ pc[c] = "create"
  /\ dirs' = IF dir[c] \in DOMAIN dirs THEN dirs
             ELSE [d \in DOMAIN dirs \cup {dir[c]} |->
                     IF d = dir[c] THEN [policy |-> None, pair |-> None] ELSE dirs[d]]
  /\ Goto(c, "copy")
  /\ UNCHANGED <<files, adapter, sequence, dir, judged, outcome>>

(* ... a copy of the policy file as it is now, ...                         *)
CopyPolicy(c) ==
  /\ pc[c] = "copy"
  /\ policy # Missing
  /\ dir[c] \in DOMAIN dirs
  /\ dirs' = [dirs EXCEPT ![dir[c]].policy = policy]
  /\ Goto(c, "write")
  /\ UNCHANGED <<files, adapter, sequence, dir, judged, outcome>>

(* ... and the documents of the pair.                                      *)
WritePair(c) ==
  /\ pc[c] = "write"
  /\ dir[c] \in DOMAIN dirs
  /\ dirs' = [dirs EXCEPT ![dir[c]].pair = PairOf[c]]
  /\ Goto(c, "run")
  /\ UNCHANGED <<files, adapter, sequence, dir, judged, outcome>>

(* A file of the staging directory cannot be written: the directory stays. *)
StagingFails(c) ==
  /\ pc[c] \in {"create", "copy", "write"}
  /\ Fails(c)
  /\ UNCHANGED <<files, adapter, sequence, dir, dirs, judged>>

-----------------------------------------------------------------------------
(* check: exit 0 is safe unless a warnings section is not empty; exit 1 is *)
(* breaking unless nothing but an exception was printed; exit 2 is a       *)
(* rejection; anything else, an end by a signal included, is an error.     *)
OutcomeOf(r) ==
  CASE r.exit = 0 -> IF r.stdout = "warnings" THEN "warning" ELSE "safe"
    [] r.exit = 1 -> IF r.stdout = "blank" /\ r.stderr = "exception" THEN "rejected" ELSE "breaking"
    [] r.exit = 2 -> "rejected"
    [] OTHER -> "error"

(* preflight: the lint command has two exit codes.                         *)
LintOutcome(r) ==
  CASE r.exit = 0 -> "accepted" [] r.exit = 1 -> "refused" [] OTHER -> "error"

(* The JAR file is opened by each process, and reads what is staged.       *)
RunJar(c) ==
  /\ pc[c] = "run"
  /\ jar # Missing
  /\ \E r \in Replies :
       /\ judged' = [judged EXCEPT ![c] =
                       [jar |-> jar, staged |-> dirs[dir[c]], reply |-> r]]
       /\ outcome' = [outcome EXCEPT ![c] = IF c \in Linters THEN LintOutcome(r) ELSE OutcomeOf(r)]
  /\ Goto(c, IF outcome'[c] = "error" THEN "returned" ELSE "clean")
  /\ UNCHANGED <<files, adapter, sequence, dir, dirs>>

RunFails(c) ==
  /\ pc[c] = "run"
  /\ jar = Missing
  /\ Fails(c)
  /\ UNCHANGED <<files, adapter, sequence, dir, dirs, judged>>

(* cleanup_staged_run; callers that keep the evidence leave it out.        *)
Clean(c) ==
  /\ pc[c] = "clean"
  /\ dirs' \in {dirs, [d \in DOMAIN dirs \ {dir[c]} |-> dirs[d]]}
  /\ Goto(c, "returned")
  /\ UNCHANGED <<files, adapter, sequence, dir, judged, outcome>>

Step(c) ==
  \/ Refuse(c) \/ Number(c) \/ Create(c) \/ CopyPolicy(c) \/ WritePair(c) \/ StagingFails(c)
  \/ RunJar(c) \/ RunFails(c) \/ Clean(c)

AllReturned == (\A c \in Callers : pc[c] = "returned") /\ UNCHANGED vars

Next ==
  \/ Replace
  \/ \E p \in CallingProcesses : New(p) \/ NewFails(p)
  \/ \E c \in Callers : Step(c)
  \/ AllReturned

Spec == Init /\ [][Next]_vars

-----------------------------------------------------------------------------
Stages == {"new", "create", "copy", "write", "run", "clean", "returned"}

TypeOK ==
  /\ jar \in JarVersions \cup {Missing}
  /\ policy \in PolicyVersions \cup {Missing}
  /\ replaced \in 0..MaxReplaced
  /\ adapter \in [CallingProcesses -> [jar : JarVersions, policy : PolicyVersions] \cup {None}]
  /\ sequence \in [CallingProcesses -> Nat]
  /\ pc \in [Callers -> Stages]
  /\ DOMAIN dirs \subseteq {dir[c] : c \in Callers}
  /\ outcome \in [Callers -> {"safe", "warning", "breaking", "accepted", "refused",
                              "rejected", "error", None}]

(* Threads and processes that stage at the same time in one workspace, and *)
(* clean up as they please: the JAR always judges the caller's own pair,   *)
(* under the policy that was copied for it.                                *)
EachCallItsPair ==
  \A c \in Callers :
    judged[c] # None => judged[c].staged.pair = PairOf[c] /\ judged[c].staged.policy # None

(* No call is disturbed in its staging directory by another: from its      *)
(* creation to the end of the call the directory exists and is its own.    *)
StagedAlone ==
  \A c \in Callers :
    pc[c] \in {"copy", "write", "run", "clean"} =>
      /\ dir[c] \in DOMAIN dirs
      /\ \A d \in Callers \ {c} : pc[d] # "returned" => dir[d] # dir[c]

(* Only a decision of the JAR becomes a training label: neither the crash  *)
(* of the JVM, which ends with the code of a breaking change, nor a        *)
(* rejection does, and nothing is labelled before the adapter has accepted *)
(* the policy file.  A production adapter records the audit fixture's hash *)
(* under no name.                                                          *)
LabelsAreDecisions ==
  /\ \A c \in Callers : outcome[c] \in {"safe", "warning", "breaking"} =>
       /\ c \notin Linters
       /\ adapter[ProcessOf[c]] # None
       /\ IF outcome[c] = "breaking"
          THEN /\ judged[c].reply.exit = 1
               /\ judged[c].reply.stdout = "blank" => judged[c].reply.stderr # "exception"
          ELSE judged[c].reply.exit = 0
  /\ \A p \in CallingProcesses : adapter[p] # None =>
       (adapter[p].policy = Fixture <=> p \in AuditScopeOf)

(* "SHA-256 identity of the exact executable used to label records" and    *)
(* "of the exact approved policy-pack file used by calls" (lines 186, 191).*)
RecordedHashesAreUsed ==
  \A c \in Callers : judged[c] # None =>
    /\ judged[c].jar = adapter[ProcessOf[c]].jar
    /\ judged[c].staged.policy = adapter[ProcessOf[c]].policy

=============================================================================
