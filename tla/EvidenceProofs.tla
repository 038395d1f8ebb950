--------------------------- MODULE EvidenceProofs ---------------------------
(***************************************************************************)
(* For any callers, files, JAR answers, datasets, reports and selections,  *)
(* and any interleaving of threads, commands and crashes: what the labels  *)
(* rest on is as the components of Evidence promise.                       *)
(***************************************************************************)
EXTENDS Evidence, FiniteSetTheorems, SequenceTheorems, WellFoundedInduction, TLAPS

-----------------------------------------------------------------------------
(* A set of numbers that has zero and all successors has every number.     *)
LEMMA Induction ==
  ASSUME NEW S, 0 \in S, \A n \in Nat : n \in S => n + 1 \in S
  PROVE  Nat \subseteq S
<1> DEFINE R == OpToRel(<, Nat)
           T == Nat \ S
<1>1. IsWellFoundedOn(R, Nat)
  BY NatLessThanWellFounded
<1>2. SUFFICES ASSUME T # {} PROVE FALSE
  OBVIOUS
<1>3. PICK n \in T : \A m \in T : ~(<<m, n>> \in R)
  <2>1. T \subseteq Nat
    OBVIOUS
  <2> HIDE DEF T, R
  <2> QED BY <1>1, <1>2, <2>1, WFMin
<1>4. \A m \in Nat : m < n => m \in S
  <2>1. \A x, y \in Nat : x < y => <<x, y>> \in R
    BY DEF OpToRel
  <2> HIDE DEF R
  <2> QED BY <1>3, <2>1
<1> HIDE DEF R
<1>5. n \in Nat /\ n # 0 /\ n - 1 \in Nat /\ n - 1 < n
  BY <1>3
<1> QED
  BY <1>3, <1>4, <1>5

(* A sequence, of whatever it holds.                                       *)
IsSequence(s) == s \in Seq({s[i] : i \in DOMAIN s})

LEMMA AppendIsSequence ==
  ASSUME NEW s, IsSequence(s), NEW e
  PROVE  /\ IsSequence(Append(s, e)) /\ Len(s) \in Nat
         /\ Len(Append(s, e)) = Len(s) + 1
         /\ DOMAIN s = 1..Len(s) /\ DOMAIN Append(s, e) = 1..(Len(s) + 1)
         /\ \A i \in 1..Len(s) : Append(s, e)[i] = s[i]
         /\ Append(s, e)[Len(s) + 1] = e
<1> DEFINE V == {s[i] : i \in DOMAIN s}
           W == {Append(s, e)[i] : i \in DOMAIN Append(s, e)}
<1>1. s \in Seq(V)
  BY DEF IsSequence
<1> HIDE DEF V
<1>2. PICK k \in Nat : k = Len(s) /\ DOMAIN s = 1..k
  BY <1>1, LenProperties
<1>3. s \in Seq(V \cup {e})
  BY <1>1, SeqMonotonic
<1>4. /\ Append(s, e) \in Seq(V \cup {e}) /\ Len(Append(s, e)) = k + 1
      /\ \A i \in 1..k : Append(s, e)[i] = s[i]
      /\ Append(s, e)[k + 1] = e
  BY <1>2, <1>3, AppendProperties
<1>5. DOMAIN Append(s, e) = 1..(k + 1) /\ Append(s, e) \in [1..(k + 1) -> V \cup {e}]
  BY <1>4, LenProperties
<1>6. Append(s, e) \in [1..(k + 1) -> W]
  BY <1>5
<1> HIDE DEF W
<1>7. Append(s, e) \in Seq(W)
  <2>1. k + 1 \in Nat
    OBVIOUS
  <2> QED BY <1>6, <2>1, SeqDef
<1> QED
  BY <1>2, <1>4, <1>5, <1>7 DEF IsSequence, W

-----------------------------------------------------------------------------
(* The calls of the oracle.  A directory is named once: by the process and *)
(* a number below its counter; from its creation to the end of the call it *)
(* exists, and what a stage has written in it stays until the JAR reads it.*)
Staging == {"create", "copy", "write", "run", "clean"}

Named ==
  /\ dir \in [Callers -> (Oracle!CallingProcesses \X Nat) \cup {None}]
  /\ \A c \in Callers : pc[c] = "new" => dir[c] = None
  /\ \A c \in Callers : pc[c] \in Staging => dir[c] # None
  /\ \A c \in Callers : dir[c] # None =>
       dir[c][1] = ProcessOf[c] /\ dir[c][2] < sequence[ProcessOf[c]]
  /\ \A c, d \in Callers : dir[c] # None /\ dir[c] = dir[d] => c = d

Staged ==
  /\ dirs \in [DOMAIN dirs -> [policy : PolicyVersions \cup {None},
                               pair : {PairOf[c] : c \in Callers} \cup {None}]]
  /\ \A d \in DOMAIN dirs : \E c \in Callers : dir[c] # None /\ dir[c] = d
  /\ \A c \in Callers : pc[c] \in Staging \ {"create"} => dir[c] \in DOMAIN dirs
  /\ \A c \in Callers : pc[c] \in {"write", "run"} => dirs[dir[c]].policy \in PolicyVersions
  /\ \A c \in Callers : pc[c] = "run" => dirs[dir[c]].pair = PairOf[c]

Decided ==
  /\ \A c \in Callers : pc[c] \in Staging => adapter[ProcessOf[c]] # None
  /\ \A c \in Callers : judged[c] # None =>
       judged[c].staged.pair = PairOf[c] /\ judged[c].staged.policy # None
  /\ judged \in [Callers -> {judged[c] : c \in Callers}]
  /\ Oracle!LabelsAreDecisions

OracleInv == Oracle!TypeOK /\ Named /\ Staged /\ Decided

LEMMA OracleStarts == Oracle!Init => OracleInv
<1> SUFFICES ASSUME Oracle!Init PROVE OracleInv
  OBVIOUS
<1> USE EvidenceAssumption DEF Oracle!OracleAssumption
<1>1. Oracle!TypeOK
  BY DEF Oracle!Init, Oracle!TypeOK, Oracle!Stages
<1>2. Named /\ Staged
  BY DEF Oracle!Init, Named, Staged, Staging
<1>3. Decided
  BY DEF Oracle!Init, Decided, Oracle!LabelsAreDecisions, Staging
<1> QED
  BY <1>1, <1>2, <1>3 DEF OracleInv

(* Starting an adapter, or failing to, moves no call that is under way.    *)
LEMMA AdaptersKeepOracleInv ==
  ASSUME OracleInv, NEW p \in Oracle!CallingProcesses, Oracle!New(p) \/ Oracle!NewFails(p)
  PROVE  OracleInv'
<1> USE EvidenceAssumption DEF Oracle!OracleAssumption, OracleInv
<1>1. CASE Oracle!New(p)
  <2>1. /\ UNCHANGED <<jar, policy, replaced, sequence, pc, dir, dirs, judged, outcome>>
        /\ \A q \in Oracle!CallingProcesses : q # p => adapter'[q] = adapter[q]
        /\ adapter[p] = None
        /\ adapter'[p].policy = policy /\ Oracle!PolicyInScope(p)
        /\ adapter' \in [Oracle!CallingProcesses -> [jar : JarVersions, policy : PolicyVersions] \cup {None}]
    BY <1>1 DEF Oracle!New, Oracle!files, Oracle!calls, Oracle!TypeOK
  <2>2. Oracle!TypeOK'
    BY <2>1 DEF Oracle!TypeOK
  <2>3. Named' /\ Staged'
    BY <2>1 DEF Named, Staged
  <2>4. Oracle!LabelsAreDecisions'
    BY <2>1 DEF Decided, Oracle!LabelsAreDecisions, Oracle!PolicyInScope, Oracle!CallingProcesses
  <2>5. Decided'
    BY <2>1, <2>4 DEF Decided, Oracle!CallingProcesses
  <2> QED BY <2>2, <2>3, <2>5
<1>2. CASE Oracle!NewFails(p)
  <2>1. /\ UNCHANGED <<jar, policy, replaced, adapter, sequence, dir, dirs, judged>>
        /\ adapter[p] = None
        /\ pc' = [c \in Callers |-> IF ProcessOf[c] = p THEN "returned" ELSE pc[c]]
        /\ outcome' = [c \in Callers |-> IF ProcessOf[c] = p THEN "error" ELSE outcome[c]]
    BY <1>2 DEF Oracle!NewFails, Oracle!files
  <2>2. Oracle!TypeOK'
    BY <2>1 DEF Oracle!TypeOK, Oracle!Stages
  <2>3. Named' /\ Staged'
    BY <2>1 DEF Named, Staged, Staging
  <2>4. Oracle!LabelsAreDecisions'
    BY <2>1 DEF Decided, Oracle!LabelsAreDecisions
  <2>5. Decided'
    BY <2>1, <2>4 DEF Decided, Staging
  <2> QED BY <2>2, <2>3, <2>5
<1> QED
  BY <1>1, <1>2

(* A call that is refused or that fails leaves its directory as it is.     *)
LEMMA FailuresKeepOracleInv ==
  ASSUME OracleInv, NEW c \in Callers,
         Oracle!Refuse(c) \/ Oracle!StagingFails(c) \/ Oracle!RunFails(c)
  PROVE  OracleInv'
<1> USE EvidenceAssumption DEF Oracle!OracleAssumption, OracleInv
<1>1. /\ UNCHANGED <<jar, policy, replaced, adapter, sequence, dir, dirs, judged>>
      /\ pc' = [pc EXCEPT ![c] = "returned"]
      /\ outcome' = [outcome EXCEPT ![c] = "error"]
  BY DEF Oracle!Refuse, Oracle!StagingFails, Oracle!RunFails, Oracle!Fails, Oracle!Goto, Oracle!files
<1>2. Oracle!TypeOK'
  BY <1>1 DEF Oracle!TypeOK, Oracle!Stages
<1>3. Named' /\ Staged'
  BY <1>1 DEF Named, Staged, Staging, Oracle!TypeOK
<1>4. Oracle!LabelsAreDecisions'
  BY <1>1 DEF Decided, Oracle!LabelsAreDecisions, Oracle!TypeOK
<1>5. Decided'
  BY <1>1, <1>4 DEF Decided, Staging, Oracle!TypeOK
<1> QED
  BY <1>2, <1>3, <1>5

(* A number is taken once: no directory that was ever named is named again.*)
LEMMA NumberKeepsOracleInv ==
  ASSUME OracleInv, NEW c \in Callers, Oracle!Number(c)
  PROVE  OracleInv'
<1> USE EvidenceAssumption DEF Oracle!OracleAssumption, OracleInv
<1> DEFINE p == ProcessOf[c]
           fresh == <<p, sequence[p]>>
<1>1. /\ UNCHANGED <<jar, policy, replaced, adapter, dirs, judged, outcome>>
      /\ pc[c] = "new" /\ pc' = [pc EXCEPT ![c] = "create"]
      /\ dir' = [dir EXCEPT ![c] = fresh]
      /\ sequence' = [sequence EXCEPT ![p] = @ + 1]
      /\ adapter[p] # None
  BY DEF Oracle!Number, Oracle!Goto, Oracle!files
<1>2. /\ p \in Oracle!CallingProcesses /\ sequence[p] \in Nat
      /\ fresh \in Oracle!CallingProcesses \X Nat /\ fresh # None
      /\ fresh[1] = p /\ fresh[2] = sequence[p]
      /\ sequence' \in [Oracle!CallingProcesses -> Nat] /\ sequence'[p] = sequence[p] + 1
      /\ \A q \in Oracle!CallingProcesses : sequence'[q] = IF q = p THEN sequence[p] + 1 ELSE sequence[q]
  BY <1>1 DEF Oracle!TypeOK, Oracle!CallingProcesses
<1>3. /\ dir[c] = None
      /\ \A d \in Callers : dir[d] # fresh
  <2>1. dir[c] = None
    BY <1>1 DEF Named
  <2>2. ASSUME NEW d \in Callers, dir[d] = fresh PROVE FALSE
    <3>1. dir[d] # None
      BY <1>2, <2>2
    <3>2. dir[d][1] = ProcessOf[d] /\ dir[d][2] < sequence[ProcessOf[d]]
      BY <3>1 DEF Named
    <3>3. ProcessOf[d] = p /\ sequence[p] < sequence[p]
      BY <1>2, <2>2, <3>2
    <3> QED BY <1>2, <3>3
  <2> QED BY <2>1, <2>2
<1> HIDE DEF fresh, p
<1>4. /\ \A d \in Callers : d # c => dir'[d] = dir[d] /\ pc'[d] = pc[d]
      /\ dir'[c] = fresh /\ pc'[c] = "create"
  BY <1>1 DEF Named, Oracle!TypeOK
<1>5. Oracle!TypeOK'
  <2>1. \A d \in DOMAIN dirs : \E e \in Callers : dir'[e] = d
    BY <1>3, <1>4 DEF Staged
  <2> QED BY <1>1, <1>2, <2>1 DEF Oracle!TypeOK, Oracle!Stages
<1>6. Named'
  <2>1. dir' \in [Callers -> (Oracle!CallingProcesses \X Nat) \cup {None}]
    BY <1>1, <1>2 DEF Named
  <2>2. \A d \in Callers : dir'[d] # None =>
          dir'[d][1] = ProcessOf[d] /\ dir'[d][2] < sequence'[ProcessOf[d]]
    <3> SUFFICES ASSUME NEW d \in Callers, dir'[d] # None
                 PROVE  dir'[d][1] = ProcessOf[d] /\ dir'[d][2] < sequence'[ProcessOf[d]]
      OBVIOUS
    <3>1. CASE d = c
      BY <1>2, <1>4, <3>1 DEF p
    <3>2. CASE d # c
      <4>1. /\ dir'[d] = dir[d] /\ dir[d] \in Oracle!CallingProcesses \X Nat
            /\ dir[d][1] = ProcessOf[d] /\ dir[d][2] < sequence[ProcessOf[d]]
        BY <1>4, <3>2 DEF Named
      <4>2. ProcessOf[d] \in Oracle!CallingProcesses
        BY DEF Oracle!CallingProcesses
      <4>3. sequence[ProcessOf[d]] \in Nat /\ dir[d][2] \in Nat
        BY <4>1, <4>2 DEF Oracle!TypeOK
      <4>4. sequence'[ProcessOf[d]] \in Nat /\ sequence[ProcessOf[d]] <= sequence'[ProcessOf[d]]
        BY <1>2, <4>2, <4>3
      <4> QED BY <4>1, <4>3, <4>4
    <3> QED BY <3>1, <3>2
  <2>3. \A d, e \in Callers : dir'[d] # None /\ dir'[d] = dir'[e] => d = e
    BY <1>3, <1>4 DEF Named
  <2> QED BY <1>2, <1>4, <2>1, <2>2, <2>3 DEF Named, Staging
<1>7. Staged'
  BY <1>1, <1>3, <1>4 DEF Staged, Staging
<1>8. Decided'
  <2>1. Oracle!LabelsAreDecisions'
    BY <1>1 DEF Decided, Oracle!LabelsAreDecisions
  <2> QED BY <1>1, <1>4, <2>1 DEF Decided, Staging, p
<1> QED
  BY <1>5, <1>6, <1>7, <1>8

(* Nobody else writes in the directory of a call.                          *)
LEMMA OthersStaged ==
  ASSUME OracleInv, NEW c \in Callers, pc[c] \in Staging
  PROVE  /\ dir[c] # None
         /\ \A d \in Callers : d # c => dir[d] # dir[c]
BY DEF OracleInv, Named

LEMMA CreateKeepsOracleInv ==
  ASSUME OracleInv, NEW c \in Callers, Oracle!Create(c)
  PROVE  OracleInv'
<1> USE EvidenceAssumption DEF Oracle!OracleAssumption, OracleInv
<1>1. /\ UNCHANGED <<jar, policy, replaced, adapter, sequence, dir, judged, outcome>>
      /\ pc[c] = "create" /\ pc' = [pc EXCEPT ![c] = "copy"]
      /\ dirs' = IF dir[c] \in DOMAIN dirs THEN dirs
                 ELSE [d \in DOMAIN dirs \cup {dir[c]} |->
                         IF d = dir[c] THEN [policy |-> None, pair |-> None] ELSE dirs[d]]
  BY DEF Oracle!Create, Oracle!Goto, Oracle!files
<1>2. /\ dir[c] # None
      /\ \A d \in Callers : d # c => dir[d] # dir[c] /\ pc'[d] = pc[d]
      /\ pc'[c] = "copy"
  BY <1>1, OthersStaged DEF Staging, Oracle!TypeOK
<1>3. /\ DOMAIN dirs' = DOMAIN dirs \cup {dir[c]}
      /\ \A d \in DOMAIN dirs : dirs'[d] = dirs[d]
      /\ dirs' \in [DOMAIN dirs' -> [policy : PolicyVersions \cup {None},
                                     pair : {PairOf[d] : d \in Callers} \cup {None}]]
  <2>1. CASE dir[c] \in DOMAIN dirs
    BY <1>1, <2>1 DEF Staged
  <2>2. CASE dir[c] \notin DOMAIN dirs
    <3>1. dirs' = [d \in DOMAIN dirs \cup {dir[c]} |->
                     IF d = dir[c] THEN [policy |-> None, pair |-> None] ELSE dirs[d]]
      BY <1>1, <2>2
    <3> QED BY <2>2, <3>1 DEF Staged
  <2> QED BY <2>1, <2>2
<1>4. Oracle!TypeOK'
  BY <1>1, <1>3 DEF Oracle!TypeOK, Oracle!Stages
<1>5. Named'
  BY <1>1, <1>2 DEF Named, Staging
<1>6. Staged'
  BY <1>1, <1>2, <1>3 DEF Staged, Staging
<1>7. Decided'
  <2>1. Oracle!LabelsAreDecisions'
    BY <1>1 DEF Decided, Oracle!LabelsAreDecisions
  <2> QED BY <1>1, <1>2, <2>1 DEF Decided, Staging
<1> QED
  BY <1>4, <1>5, <1>6, <1>7

LEMMA WritesKeepOracleInv ==
  ASSUME OracleInv, NEW c \in Callers, Oracle!CopyPolicy(c) \/ Oracle!WritePair(c)
  PROVE  OracleInv'
<1> USE EvidenceAssumption DEF Oracle!OracleAssumption, OracleInv
<1>1. /\ UNCHANGED <<jar, policy, replaced, adapter, sequence, dir, judged, outcome>>
      /\ pc[c] \in {"copy", "write"} /\ dir[c] \in DOMAIN dirs
      /\ pc' = [pc EXCEPT ![c] = IF pc[c] = "copy" THEN "write" ELSE "run"]
      /\ pc[c] = "copy" => dirs' = [dirs EXCEPT ![dir[c]].policy = policy] /\ policy \in PolicyVersions
      /\ pc[c] = "write" => dirs' = [dirs EXCEPT ![dir[c]].pair = PairOf[c]]
  BY DEF Oracle!CopyPolicy, Oracle!WritePair, Oracle!Goto, Oracle!files, Oracle!TypeOK
<1>2. /\ dir[c] # None
      /\ \A d \in Callers : d # c => dir[d] # dir[c] /\ pc'[d] = pc[d]
      /\ pc'[c] = IF pc[c] = "copy" THEN "write" ELSE "run"
  BY <1>1, OthersStaged DEF Staging, Oracle!TypeOK
<1>3. /\ DOMAIN dirs' = DOMAIN dirs
      /\ \A d \in DOMAIN dirs : d # dir[c] => dirs'[d] = dirs[d]
      /\ dirs' \in [DOMAIN dirs' -> [policy : PolicyVersions \cup {None},
                                     pair : {PairOf[d] : d \in Callers} \cup {None}]]
      /\ dirs'[dir[c]].policy \in PolicyVersions
      /\ pc[c] = "write" => dirs'[dir[c]].pair = PairOf[c]
  <2>1. dirs[dir[c]] \in [policy : PolicyVersions \cup {None},
                          pair : {PairOf[d] : d \in Callers} \cup {None}]
    BY <1>1 DEF Staged
  <2>2. CASE pc[c] = "copy"
    <3>1. [dirs[dir[c]] EXCEPT !.policy = policy]
            \in [policy : PolicyVersions, pair : {PairOf[d] : d \in Callers} \cup {None}]
      BY <1>1, <2>1, <2>2
    <3> QED BY <1>1, <2>2, <3>1 DEF Staged
  <2>3. CASE pc[c] = "write"
    <3>1. dirs[dir[c]].policy \in PolicyVersions
      BY <2>3 DEF Staged
    <3>2. /\ [dirs[dir[c]] EXCEPT !.pair = PairOf[c]]
               \in [policy : PolicyVersions, pair : {PairOf[d] : d \in Callers} \cup {None}]
          /\ [dirs[dir[c]] EXCEPT !.pair = PairOf[c]].pair = PairOf[c]
      BY <2>1, <3>1
    <3> QED BY <1>1, <2>3, <3>2 DEF Staged
  <2> QED BY <1>1, <2>2, <2>3
<1>4. Oracle!TypeOK'
  BY <1>1, <1>3 DEF Oracle!TypeOK, Oracle!Stages
<1>5. Named'
  BY <1>1, <1>2 DEF Named, Staging
<1>6. Staged'
  BY <1>1, <1>2, <1>3 DEF Staged, Staging
<1>7. Decided'
  <2>1. Oracle!LabelsAreDecisions'
    BY <1>1 DEF Decided, Oracle!LabelsAreDecisions
  <2> QED BY <1>1, <1>2, <2>1 DEF Decided, Staging
<1> QED
  BY <1>4, <1>5, <1>6, <1>7

(* The JAR reads what the call has staged, and its answer is classified.   *)
LEMMA RunKeepsOracleInv ==
  ASSUME OracleInv, NEW c \in Callers, Oracle!RunJar(c)
  PROVE  OracleInv'
<1> USE EvidenceAssumption DEF Oracle!OracleAssumption, OracleInv
<1>1. PICK r \in Replies :
        /\ judged' = [judged EXCEPT ![c] = [jar |-> jar, staged |-> dirs[dir[c]], reply |-> r]]
        /\ outcome' = [outcome EXCEPT ![c] = IF c \in Linters THEN Oracle!LintOutcome(r)
                                             ELSE Oracle!OutcomeOf(r)]
  BY DEF Oracle!RunJar
<1>2. /\ UNCHANGED <<jar, policy, replaced, adapter, sequence, dir, dirs>>
      /\ pc[c] = "run"
      /\ pc' = [pc EXCEPT ![c] = IF outcome'[c] = "error" THEN "returned" ELSE "clean"]
  BY DEF Oracle!RunJar, Oracle!Goto, Oracle!files
<1>3. /\ \A d \in Callers : d # c => pc'[d] = pc[d] /\ judged'[d] = judged[d] /\ outcome'[d] = outcome[d]
      /\ pc'[c] \in {"returned", "clean"}
      /\ judged'[c].staged = dirs[dir[c]] /\ judged'[c].reply = r
      /\ outcome'[c] = IF c \in Linters THEN Oracle!LintOutcome(r) ELSE Oracle!OutcomeOf(r)
      /\ judged' \in [Callers -> {judged'[d] : d \in Callers}]
  BY <1>1, <1>2 DEF Decided, Oracle!TypeOK
<1>4. /\ Oracle!LintOutcome(r) \in {"accepted", "refused", "error"}
      /\ Oracle!OutcomeOf(r) \in {"safe", "warning", "breaking", "rejected", "error"}
      /\ Oracle!OutcomeOf(r) \in {"safe", "warning"} => r.exit = 0
      /\ Oracle!OutcomeOf(r) = "breaking" =>
           r.exit = 1 /\ (r.stdout = "blank" => r.stderr # "exception")
  <2>1. Oracle!LintOutcome(r) \in {"accepted", "refused", "error"}
    BY DEF Oracle!LintOutcome
  <2> DEFINE o == Oracle!OutcomeOf(r)
  <2>2. r.exit = 0 => o \in {"safe", "warning"}
    BY DEF Oracle!OutcomeOf
  <2>3. r.exit = 1 => IF r.stdout = "blank" /\ r.stderr = "exception" THEN o = "rejected"
                                                                     ELSE o = "breaking"
    BY DEF Oracle!OutcomeOf
  <2>4. r.exit = 2 => o = "rejected"
    BY DEF Oracle!OutcomeOf
  <2>5. r.exit \notin {0, 1, 2} => o = "error"
    BY DEF Oracle!OutcomeOf
  <2> HIDE DEF o
  <2>6. /\ o \in {"safe", "warning", "breaking", "rejected", "error"}
        /\ o \in {"safe", "warning"} => r.exit = 0
        /\ o = "breaking" => r.exit = 1 /\ (r.stdout = "blank" => r.stderr # "exception")
    BY <2>2, <2>3, <2>4, <2>5
  <2> QED BY <2>1, <2>6 DEF o
<1>5. Oracle!TypeOK'
  BY <1>1, <1>2, <1>3, <1>4 DEF Oracle!TypeOK, Oracle!Stages
<1>6. Named' /\ Staged'
  BY <1>2, <1>3 DEF Named, Staged, Staging
<1>7. adapter[ProcessOf[c]] # None
  BY <1>2 DEF Decided, Staging
<1>8. Oracle!LabelsAreDecisions'
  <2>1. ASSUME NEW d \in Callers, outcome'[d] \in {"safe", "warning", "breaking"}
        PROVE  /\ d \notin Linters
               /\ adapter'[ProcessOf[d]] # None
               /\ IF outcome'[d] = "breaking"
                  THEN /\ judged'[d].reply.exit = 1
                       /\ judged'[d].reply.stdout = "blank" => judged'[d].reply.stderr # "exception"
                  ELSE judged'[d].reply.exit = 0
    <3>1. CASE d = c
      <4>1. c \notin Linters /\ outcome'[c] = Oracle!OutcomeOf(r)
        BY <1>3, <1>4, <2>1, <3>1
      <4> QED BY <1>2, <1>3, <1>4, <1>7, <2>1, <3>1, <4>1
    <3>2. CASE d # c
      BY <1>2, <1>3, <2>1, <3>2 DEF Decided, Oracle!LabelsAreDecisions
    <3> QED BY <3>1, <3>2
  <2>2. \A p \in Oracle!CallingProcesses : adapter'[p] # None =>
          (adapter'[p].policy = Fixture <=> p \in AuditScopeOf)
    BY <1>2 DEF Decided, Oracle!LabelsAreDecisions
  <2> QED BY <2>1, <2>2 DEF Oracle!LabelsAreDecisions
<1>9. Decided'
  <2>1. judged'[c].staged.pair = PairOf[c] /\ judged'[c].staged.policy # None
    BY <1>2, <1>3 DEF Staged
  <2>2. \A d \in Callers : judged'[d] # None =>
          judged'[d].staged.pair = PairOf[d] /\ judged'[d].staged.policy # None
    BY <1>3, <2>1 DEF Decided
  <2>3. \A d \in Callers : pc'[d] \in Staging => adapter'[ProcessOf[d]] # None
    BY <1>2, <1>3, <1>7 DEF Decided, Staging
  <2> QED BY <1>3, <1>8, <2>2, <2>3 DEF Decided
<1> QED
  BY <1>5, <1>6, <1>9

LEMMA CleanKeepsOracleInv ==
  ASSUME OracleInv, NEW c \in Callers, Oracle!Clean(c)
  PROVE  OracleInv'
<1> USE EvidenceAssumption DEF Oracle!OracleAssumption, OracleInv
<1>1. /\ UNCHANGED <<jar, policy, replaced, adapter, sequence, dir, judged, outcome>>
      /\ pc[c] = "clean" /\ pc' = [pc EXCEPT ![c] = "returned"]
      /\ dirs' \in {dirs, [d \in DOMAIN dirs \ {dir[c]} |-> dirs[d]]}
  BY DEF Oracle!Clean, Oracle!Goto, Oracle!files
<1>2. /\ \A d \in Callers : d # c => dir[d] # dir[c] /\ pc'[d] = pc[d]
      /\ pc'[c] = "returned"
  BY <1>1, OthersStaged DEF Staging, Oracle!TypeOK
<1>3. /\ DOMAIN dirs' \subseteq DOMAIN dirs
      /\ \A d \in DOMAIN dirs' : dirs'[d] = dirs[d]
      /\ \A d \in DOMAIN dirs : d # dir[c] => d \in DOMAIN dirs'
      /\ dirs' \in [DOMAIN dirs' -> [policy : PolicyVersions \cup {None},
                                     pair : {PairOf[d] : d \in Callers} \cup {None}]]
  BY <1>1 DEF Staged
<1>4. Oracle!TypeOK'
  BY <1>1, <1>3 DEF Oracle!TypeOK, Oracle!Stages
<1>5. Named' /\ Staged'
  BY <1>1, <1>2, <1>3 DEF Named, Staged, Staging
<1>6. Decided'
  <2>1. Oracle!LabelsAreDecisions'
    BY <1>1 DEF Decided, Oracle!LabelsAreDecisions
  <2> QED BY <1>1, <1>2, <2>1 DEF Decided, Staging
<1> QED
  BY <1>4, <1>5, <1>6

LEMMA OracleStepKeepsInv ==
  ASSUME OracleInv, Oracle!Next
  PROVE  OracleInv'
<1>1. CASE Oracle!Replace
  <2>1. /\ UNCHANGED <<adapter, sequence, pc, dir, dirs, judged, outcome>>
        /\ jar' \in JarVersions \cup {Missing} /\ policy' \in PolicyVersions \cup {Missing}
        /\ replaced' \in 0..MaxReplaced
    BY <1>1, EvidenceAssumption
       DEF Oracle!Replace, Oracle!calls, Oracle!OracleAssumption, OracleInv, Oracle!TypeOK
  <2>2. Oracle!TypeOK' /\ Named' /\ Staged'
    BY <2>1 DEF OracleInv, Oracle!TypeOK, Named, Staged
  <2>3. Oracle!LabelsAreDecisions' /\ Decided'
    BY <2>1 DEF OracleInv, Decided, Oracle!LabelsAreDecisions
  <2> QED BY <2>2, <2>3 DEF OracleInv
<1>2. CASE UNCHANGED Oracle!vars
  BY <1>2 DEF Oracle!vars, OracleInv, Oracle!TypeOK, Named, Staged, Decided, Oracle!LabelsAreDecisions
<1> QED
  BY <1>1, <1>2, AdaptersKeepOracleInv, FailuresKeepOracleInv, NumberKeepsOracleInv,
     CreateKeepsOracleInv, WritesKeepOracleInv, RunKeepsOracleInv, CleanKeepsOracleInv
  DEF Oracle!Next, Oracle!Step, Oracle!AllReturned

(* Threads and processes that stage in one workspace: every call is judged *)
(* on its own pair in a directory of its own, and only a decision of the   *)
(* JAR becomes a label (PinnedOracle::check).                              *)
THEOREM CallsApart == Spec => []OracleCallsStayApart
<1> DEFINE Inv == component = "oracle" => OracleInv
<1>1. Init => Inv
  BY OracleStarts DEF Init
<1>2. Inv /\ [Next]_vars => Inv'
  <2>1. CASE component = "oracle" /\ Oracle!Next /\ UNCHANGED component
    BY <2>1, OracleStepKeepsInv
  <2>2. CASE component # "oracle" /\ UNCHANGED component
    BY <2>2
  <2>3. CASE UNCHANGED vars
    BY <2>3 DEF vars, OracleInv, Oracle!TypeOK, Named, Staged, Decided, Oracle!LabelsAreDecisions
  <2> QED BY <2>1, <2>2, <2>3 DEF Next
<1>3. Inv => OracleCallsStayApart
  <2>1. OracleInv => Oracle!EachCallItsPair
    BY DEF OracleInv, Decided, Oracle!EachCallItsPair
  <2>2. OracleInv => Oracle!StagedAlone
    <3> SUFFICES ASSUME OracleInv, NEW c \in Callers, pc[c] \in {"copy", "write", "run", "clean"}
                 PROVE  /\ dir[c] \in DOMAIN dirs
                        /\ \A d \in Callers \ {c} : pc[d] # "returned" => dir[d] # dir[c]
      BY DEF Oracle!StagedAlone
    <3> QED BY OthersStaged DEF Staging, OracleInv, Staged
  <2> QED BY <2>1, <2>2 DEF OracleCallsStayApart, OracleInv, Decided
<1> QED
  BY <1>1, <1>2, <1>3, PTL DEF Spec

-----------------------------------------------------------------------------
(* The equivalence audit.  A sum over the positions up to n is written     *)
(* with the number of the positions that count.                            *)
CountTo(S, n) == Cardinality(S \cap (1..n))

LEMMA CountToStep ==
  ASSUME NEW S, NEW n \in Nat
  PROVE  /\ CountTo(S, n) \in Nat
         /\ CountTo(S, n + 1) = CountTo(S, n) + Equivalence!One(n + 1 \in S)
<1> DEFINE T == S \cap (1..n)
           U == S \cap (1..(n + 1))
<1>1. IsFiniteSet(T)
  <2>1. 1 \in Int /\ n \in Int
    OBVIOUS
  <2>2. IsFiniteSet(1..n)
    BY <2>1, FS_Interval
  <2> QED BY <2>2, FS_Subset
<1>2. Cardinality(T) \in Nat
  BY <1>1, FS_CardinalityType
<1>3. CASE n + 1 \in S
  <2>1. U = T \cup {n + 1} /\ n + 1 \notin T
    BY <1>3
  <2> HIDE DEF T, U
  <2>2. Cardinality(U) = Cardinality(T) + 1
    BY <1>1, <2>1, FS_AddElement
  <2> QED BY <1>2, <1>3, <2>2 DEF CountTo, T, U, Equivalence!One
<1>4. CASE n + 1 \notin S
  <2>1. U = T
    BY <1>4
  <2> QED BY <1>2, <1>4, <2>1 DEF CountTo, Equivalence!One
<1> QED
  BY <1>3, <1>4

LEMMA CountToNone ==
  ASSUME NEW S, NEW n \in Nat
  PROVE  CountTo(S, n) = 0 <=> \A i \in 1..n : i \notin S
<1>1. IsFiniteSet(S \cap (1..n))
  <2>1. 1 \in Int /\ n \in Int
    OBVIOUS
  <2>2. IsFiniteSet(1..n)
    BY <2>1, FS_Interval
  <2> QED BY <2>2, FS_Subset
<1>2. Cardinality(S \cap (1..n)) = 0 <=> S \cap (1..n) = {}
  BY <1>1, FS_EmptySet
<1> QED
  BY <1>2 DEF CountTo

(* A set of positions that is not empty has a last one.                    *)
LEMMA LastExists ==
  ASSUME NEW n \in Nat, NEW s \in SUBSET (1..n), s # {}
  PROVE  /\ Equivalence!Max(s) \in s
         /\ \A y \in s : Equivalence!Max(s) >= y
<1> DEFINE S == {k \in Nat : \A t \in SUBSET (1..k) : t # {} => \E x \in t : \A y \in t : x >= y}
<1>1. 0 \in S
  <2>1. 1..0 = {}
    OBVIOUS
  <2> QED BY <2>1
<1>2. ASSUME NEW k \in Nat, k \in S PROVE k + 1 \in S
  <2> SUFFICES ASSUME NEW t \in SUBSET (1..(k + 1)), t # {}
               PROVE  \E x \in t : \A y \in t : x >= y
    OBVIOUS
  <2>1. CASE k + 1 \in t
    BY <2>1
  <2>2. CASE k + 1 \notin t
    <3>1. t \in SUBSET (1..k)
      BY <2>2
    <3> QED BY <1>2, <3>1
  <2> QED BY <2>1, <2>2
<1> HIDE DEF S
<1>3. n \in S
  BY <1>1, <1>2, Induction
<1>4. \E x \in s : \A y \in s : x >= y
  BY <1>3 DEF S
<1> QED
  BY <1>4 DEF Equivalence!Max

LEMMA FirstExists ==
  ASSUME NEW n \in Nat, NEW s \in SUBSET (1..n), s # {}
  PROVE  Equivalence!Min(s) \in s
<1> DEFINE S == {k \in Nat : \/ \A y \in s : ~(y <= k)
                             \/ \E x \in s : \A y \in s : x <= y}
<1>1. 0 \in S
  OBVIOUS
<1>2. ASSUME NEW k \in Nat, k \in S PROVE k + 1 \in S
  <2> SUFFICES \/ \A y \in s : ~(y <= k + 1)
               \/ \E x \in s : \A y \in s : x <= y
    OBVIOUS
  <2>1. \/ \A y \in s : ~(y <= k)
        \/ \E x \in s : \A y \in s : x <= y
    BY <1>2
  <2>2. CASE \A y \in s : ~(y <= k)
    BY <2>2
  <2> QED BY <2>1, <2>2
<1> HIDE DEF S
<1>3. n \in S
  BY <1>1, <1>2, Induction
<1>4. \A y \in s : y <= n
  OBVIOUS
<1>5. \E x \in s : \A y \in s : x <= y
  BY <1>3, <1>4 DEF S
<1> QED
  BY <1>5 DEF Equivalence!Min

(* What the fold of Summarize defines by recursion exists.                 *)
After(f, invs, s) ==
  IF s = {} THEN Equivalence!NoSummary
  ELSE Equivalence!Added(f[s \ {Equivalence!Max(s)}], invs[Equivalence!Max(s)])

Sums(f, invs, n) == f = [s \in SUBSET (1..n) |-> After(f, invs, s)]

LEMMA SumExists ==
  ASSUME NEW invs, NEW n \in Nat
  PROVE  \E f : Sums(f, invs, n)
<1> DEFINE S == {k \in Nat : \E f : Sums(f, invs, k)}
<1>1. 0 \in S
  <2> DEFINE g == [s \in SUBSET (1..0) |-> Equivalence!NoSummary]
  <2>1. \A s \in SUBSET (1..0) : After(g, invs, s) = Equivalence!NoSummary
    BY DEF After
  <2>2. g = [s \in SUBSET (1..0) |-> After(g, invs, s)]
    BY <2>1
  <2> QED BY <2>2 DEF Sums
<1>2. ASSUME NEW k \in Nat, k \in S PROVE k + 1 \in S
  <2>1. PICK f : Sums(f, invs, k)
    BY <1>2
  <2> DEFINE g == [s \in SUBSET (1..(k + 1)) |-> After(f, invs, s)]
  <2>2. \A s \in SUBSET (1..k) : g[s] = f[s]
    <3>1. \A s \in SUBSET (1..k) : f[s] = After(f, invs, s)
      BY <2>1 DEF Sums
    <3>2. \A s \in SUBSET (1..k) : s \in SUBSET (1..(k + 1))
      OBVIOUS
    <3> QED BY <3>1, <3>2
  <2>3. \A s \in SUBSET (1..(k + 1)) : s # {} => s \ {Equivalence!Max(s)} \in SUBSET (1..k)
    <3> SUFFICES ASSUME NEW s \in SUBSET (1..(k + 1)), s # {},
                        NEW y \in s, y # Equivalence!Max(s)
                 PROVE  y \in 1..k
      OBVIOUS
    <3>1. Equivalence!Max(s) \in 1..(k + 1) /\ Equivalence!Max(s) >= y
      BY LastExists, k + 1 \in Nat
    <3> QED BY <3>1
  <2>4. \A s \in SUBSET (1..(k + 1)) : After(f, invs, s) = After(g, invs, s)
    <3> HIDE DEF g
    <3> QED BY <2>2, <2>3 DEF After
  <2>5. g = [s \in SUBSET (1..(k + 1)) |-> After(g, invs, s)]
    BY <2>4
  <2>6. Sums(g, invs, k + 1)
    BY <2>5 DEF Sums
  <2> QED BY <2>6
<1> HIDE DEF S
<1>3. n \in S
  BY <1>1, <1>2, Induction
<1> QED
  BY <1>3 DEF S

LEMMA Summed ==
  ASSUME NEW invs, NEW n \in Nat, DOMAIN invs = 1..n
  PROVE  \E f : Sums(f, invs, n) /\ Equivalence!Summarize(invs) = f[1..n]
<1> DEFINE f == CHOOSE f : f = [s \in SUBSET (1..n) |->
                  IF s = {} THEN Equivalence!NoSummary
                  ELSE Equivalence!Added(f[s \ {Equivalence!Max(s)}], invs[Equivalence!Max(s)])]
<1>1. Sums(f, invs, n)
  BY SumExists DEF Sums, After
<1>2. Equivalence!Summarize(invs) = f[1..n]
  BY DEF Equivalence!Summarize, Equivalence!FoldLeft, Equivalence!MapThenFoldSet
<1> QED BY <1>1, <1>2

(* The tables and totals after the first n invocations.                    *)
Hits(invs, table, key, o) ==
  {i \in DOMAIN invs : invs[i][table] = key /\ invs[i].outcome = o}

Misses(invs, table, key) ==
  {i \in DOMAIN invs : invs[i][table] = key /\ ~invs[i].outcomeMatch}

Tally(map, invs, table, n) ==
  /\ DOMAIN map = {invs[i][table] : i \in 1..n}
  /\ \A key \in DOMAIN map :
       /\ DOMAIN map[key].by = Equivalence!Outcomes
       /\ \A o \in Equivalence!Outcomes : map[key].by[o] = CountTo(Hits(invs, table, key, o), n)
       /\ map[key].outcomeMismatches = CountTo(Misses(invs, table, key), n)

Totals(s, invs, n) ==
  /\ Tally(s.mutation, invs, "mutation", n) /\ Tally(s.pack, invs, "pack", n)
  /\ s.outcomeMismatches = CountTo({i \in DOMAIN invs : ~invs[i].outcomeMatch}, n)
  /\ s.stdoutMismatches = CountTo({i \in DOMAIN invs : ~invs[i].stdoutMatch}, n)

LEMMA UpdateTallies ==
  ASSUME NEW invs, NEW n \in Nat, n + 1 \in DOMAIN invs,
         NEW inv, inv = invs[n + 1], inv.outcome \in Equivalence!Outcomes,
         NEW table, NEW map, Tally(map, invs, table, n)
  PROVE  Tally(Equivalence!UpdateCounts(map, inv[table], inv), invs, table, n + 1)
<1> DEFINE key == inv[table]
           counts == IF key \in DOMAIN map THEN map[key] ELSE Equivalence!NoCounts
           new == [by |-> [counts.by EXCEPT ![inv.outcome] = @ + 1],
                   outcomeMismatches |-> counts.outcomeMismatches
                                           + Equivalence!One(~inv.outcomeMatch),
                   stdoutMismatches |-> counts.stdoutMismatches
                                           + Equivalence!One(~inv.stdoutMatch)]
           updated == Equivalence!UpdateCounts(map, key, inv)
<1>1. /\ DOMAIN updated = DOMAIN map \cup {key}
      /\ updated[key] = new
      /\ \A k \in DOMAIN map : k # key => updated[k] = map[k]
  BY DEF Equivalence!UpdateCounts
<1>2. /\ DOMAIN counts.by = Equivalence!Outcomes
      /\ \A o \in Equivalence!Outcomes : counts.by[o] = CountTo(Hits(invs, table, key, o), n)
      /\ counts.outcomeMismatches = CountTo(Misses(invs, table, key), n)
  <2>1. CASE key \in DOMAIN map
    BY <2>1 DEF Tally
  <2>2. CASE key \notin DOMAIN map
    <3>1. \A i \in 1..n : invs[i][table] # key
      BY <2>2 DEF Tally
    <3>2. \A o \in Equivalence!Outcomes : CountTo(Hits(invs, table, key, o), n) = 0
      BY <3>1, CountToNone DEF Hits
    <3>3. CountTo(Misses(invs, table, key), n) = 0
      BY <3>1, CountToNone DEF Misses
    <3> QED BY <2>2, <3>2, <3>3 DEF Equivalence!NoCounts
  <2> QED BY <2>1, <2>2
<1> HIDE DEF counts
<1>3. /\ DOMAIN new.by = Equivalence!Outcomes
      /\ \A o \in Equivalence!Outcomes :
           new.by[o] = counts.by[o] + Equivalence!One(o = inv.outcome)
      /\ new.outcomeMismatches = counts.outcomeMismatches + Equivalence!One(~inv.outcomeMatch)
  <2>1. \A o \in Equivalence!Outcomes : counts.by[o] \in Nat
    BY <1>2, CountToStep
  <2> QED BY <1>2, <2>1 DEF Equivalence!One
<1> HIDE DEF new, updated
<1>4. \A k, o : CountTo(Hits(invs, table, k, o), n + 1)
                = CountTo(Hits(invs, table, k, o), n)
                    + Equivalence!One(k = key /\ o = inv.outcome)
  <2> SUFFICES ASSUME NEW k, NEW o
               PROVE  CountTo(Hits(invs, table, k, o), n + 1)
                      = CountTo(Hits(invs, table, k, o), n)
                          + Equivalence!One(k = key /\ o = inv.outcome)
    OBVIOUS
  <2>1. n + 1 \in Hits(invs, table, k, o) <=> k = key /\ o = inv.outcome
    BY DEF Hits
  <2> QED BY <2>1, CountToStep DEF Equivalence!One
<1>5. \A k : CountTo(Misses(invs, table, k), n + 1)
             = CountTo(Misses(invs, table, k), n)
                 + Equivalence!One(k = key /\ ~inv.outcomeMatch)
  <2> SUFFICES ASSUME NEW k
               PROVE  CountTo(Misses(invs, table, k), n + 1)
                      = CountTo(Misses(invs, table, k), n)
                          + Equivalence!One(k = key /\ ~inv.outcomeMatch)
    OBVIOUS
  <2>1. n + 1 \in Misses(invs, table, k) <=> k = key /\ ~inv.outcomeMatch
    BY DEF Misses
  <2> QED BY <2>1, CountToStep DEF Equivalence!One
<1>6. DOMAIN updated = {invs[i][table] : i \in 1..(n + 1)}
  <2>1. \A i \in 1..(n + 1) : i \in 1..n \/ i = n + 1
    OBVIOUS
  <2> QED BY <1>1, <2>1 DEF Tally
<1>7. ASSUME NEW k \in DOMAIN updated
      PROVE  /\ DOMAIN updated[k].by = Equivalence!Outcomes
             /\ \A o \in Equivalence!Outcomes :
                  updated[k].by[o] = CountTo(Hits(invs, table, k, o), n + 1)
             /\ updated[k].outcomeMismatches = CountTo(Misses(invs, table, k), n + 1)
  <2>1. CASE k = key
    <3>1. \A o \in Equivalence!Outcomes :
            CountTo(Hits(invs, table, k, o), n + 1)
              = CountTo(Hits(invs, table, k, o), n) + Equivalence!One(o = inv.outcome)
      BY <1>4, <2>1 DEF Equivalence!One
    <3>2. CountTo(Misses(invs, table, k), n + 1)
            = CountTo(Misses(invs, table, k), n) + Equivalence!One(~inv.outcomeMatch)
      BY <1>5, <2>1 DEF Equivalence!One
    <3> HIDE DEF key
    <3> QED BY <1>1, <1>2, <1>3, <2>1, <3>1, <3>2
  <2>2. CASE k # key
    <3>1. k \in DOMAIN map /\ updated[k] = map[k]
      BY <1>1, <1>7, <2>2
    <3>2. \A o \in Equivalence!Outcomes :
            CountTo(Hits(invs, table, k, o), n + 1) = CountTo(Hits(invs, table, k, o), n)
      BY <1>4, <2>2, CountToStep DEF Equivalence!One
    <3>3. CountTo(Misses(invs, table, k), n + 1) = CountTo(Misses(invs, table, k), n)
      BY <1>5, <2>2, CountToStep DEF Equivalence!One
    <3> QED BY <3>1, <3>2, <3>3 DEF Tally
  <2> QED BY <2>1, <2>2
<1>8. Tally(updated, invs, table, n + 1)
  BY <1>6, <1>7 DEF Tally
<1> QED
  BY <1>8 DEF updated

LEMMA AddedTotals ==
  ASSUME NEW invs, NEW n \in Nat, n + 1 \in DOMAIN invs,
         invs[n + 1].outcome \in Equivalence!Outcomes,
         NEW s, Totals(s, invs, n)
  PROVE  Totals(Equivalence!Added(s, invs[n + 1]), invs, n + 1)
<1>1. PICK inv : inv = invs[n + 1]
  OBVIOUS
<1> DEFINE added == Equivalence!Added(s, inv)
           odd1 == {i \in DOMAIN invs : ~invs[i].outcomeMatch}
           odd2 == {i \in DOMAIN invs : ~invs[i].stdoutMatch}
<1>2. /\ added.mutation = Equivalence!UpdateCounts(s.mutation, inv.mutation, inv)
      /\ added.pack = Equivalence!UpdateCounts(s.pack, inv.pack, inv)
      /\ added.outcomeMismatches = s.outcomeMismatches + Equivalence!One(~inv.outcomeMatch)
      /\ added.stdoutMismatches = s.stdoutMismatches + Equivalence!One(~inv.stdoutMatch)
  BY DEF Equivalence!Added
<1>3. Tally(added.mutation, invs, "mutation", n + 1)
  BY <1>1, <1>2, UpdateTallies DEF Totals
<1>4. Tally(added.pack, invs, "pack", n + 1)
  BY <1>1, <1>2, UpdateTallies DEF Totals
<1>5. (n + 1 \in odd1 <=> ~inv.outcomeMatch) /\ (n + 1 \in odd2 <=> ~inv.stdoutMatch)
  BY <1>1
<1> HIDE DEF added
<1>6. added.outcomeMismatches = CountTo(odd1, n + 1)
  <2>1. s.outcomeMismatches = CountTo(odd1, n)
    BY DEF Totals
  <2> HIDE DEF odd1
  <2> QED BY <1>2, <1>5, <2>1, CountToStep DEF Equivalence!One
<1>7. added.stdoutMismatches = CountTo(odd2, n + 1)
  <2>1. s.stdoutMismatches = CountTo(odd2, n)
    BY DEF Totals
  <2> HIDE DEF odd2
  <2> QED BY <1>2, <1>5, <2>1, CountToStep DEF Equivalence!One
<1> QED
  BY <1>1, <1>3, <1>4, <1>6, <1>7 DEF Totals, added

(* Summarize counts every invocation once.                                 *)
LEMMA SummaryIsTotal ==
  ASSUME NEW invs, NEW N \in Nat, DOMAIN invs = 1..N,
         \A i \in 1..N : invs[i].outcome \in Equivalence!Outcomes
  PROVE  Totals(Equivalence!Summarize(invs), invs, N)
<1>1. PICK f : Sums(f, invs, N) /\ Equivalence!Summarize(invs) = f[1..N]
  BY Summed
<1> DEFINE S == {k \in Nat : k <= N => Totals(f[1..k], invs, k)}
<1>2. \A s \in SUBSET (1..N) : f[s] = After(f, invs, s)
  BY <1>1 DEF Sums
<1>3. 0 \in S
  <2>1. 1..0 = {}
    OBVIOUS
  <2>2. f[1..0] = Equivalence!NoSummary
    BY <1>2, <2>1 DEF After
  <2>3. \A T : CountTo(T, 0) = 0
    BY <2>1, CountToNone
  <2>4. /\ Equivalence!NoSummary.mutation = <<>> /\ Equivalence!NoSummary.pack = <<>>
        /\ Equivalence!NoSummary.outcomeMismatches = 0
        /\ Equivalence!NoSummary.stdoutMismatches = 0
    BY DEF Equivalence!NoSummary
  <2>5. DOMAIN <<>> = {}
    OBVIOUS
  <2>6. Totals(f[1..0], invs, 0)
    BY <2>1, <2>2, <2>3, <2>4, <2>5 DEF Totals, Tally
  <2> QED BY <2>6
<1>4. ASSUME NEW k \in Nat, k \in S PROVE k + 1 \in S
  <2> SUFFICES ASSUME k + 1 <= N PROVE Totals(f[1..(k + 1)], invs, k + 1)
    OBVIOUS
  <2>1. Totals(f[1..k], invs, k) /\ k + 1 \in DOMAIN invs
    BY <1>4
  <2>2. Equivalence!Max(1..(k + 1)) = k + 1
    <3>1. k + 1 \in 1..(k + 1)
      OBVIOUS
    <3>2. /\ Equivalence!Max(1..(k + 1)) \in 1..(k + 1)
          /\ \A y \in 1..(k + 1) : Equivalence!Max(1..(k + 1)) >= y
      <4>1. k + 1 \in Nat /\ (1..(k + 1)) # {}
        BY <3>1
      <4> QED BY <4>1, LastExists
    <3> QED BY <3>1, <3>2
  <2>3. (1..(k + 1)) \ {k + 1} = 1..k /\ (1..(k + 1)) \in SUBSET (1..N) /\ 1..(k + 1) # {}
    OBVIOUS
  <2>4. f[1..(k + 1)] = Equivalence!Added(f[1..k], invs[k + 1])
    BY <1>2, <2>2, <2>3 DEF After
  <2> QED BY <2>1, <2>4, AddedTotals
<1> HIDE DEF S
<1>5. N \in S
  BY <1>3, <1>4, Induction
<1> QED
  BY <1>1, <1>5 DEF S

LEMMA EquivalenceCountsAsHere == \A S : Equivalence!Cardinality(S) = Cardinality(S)
BY DEF Equivalence!Cardinality, Cardinality

(* What has been loaded is of one seed and of the V9 identity; a job is of *)
(* the record at its index, an invocation compares with it; the replay is  *)
(* entered past the controls; a report is of the invocations.              *)
Loaded == dataset \in Datasets /\ Equivalence!CrossesNoBoundary(dataset)

Rebuilt ==
  /\ Loaded /\ DOMAIN jobs = DOMAIN dataset
  /\ \A i \in DOMAIN dataset :
       /\ jobs[i].index = i /\ jobs[i].pack = dataset[i].pack
       /\ jobs[i].pair = dataset[i].generation.pair

Replayed ==
  /\ DOMAIN invocations = DOMAIN dataset
  /\ \A i \in DOMAIN dataset :
       \E a \in Answers :
         invocations[i] =
           [mutation |-> dataset[i].mutation, pack |-> dataset[i].pack, outcome |-> a.outcome,
            outcomeMatch |-> a.outcome = dataset[i].generation.outcome,
            stdoutMatch |-> a.stdout = dataset[i].generation.stdout,
            printed |-> a.stdout]

Sensitive == Equivalence!DivergenceDetected /\ Len(controls) = 10 /\ \A i \in DOMAIN controls : controls[i]

ReportOn(ds, invs) ==
  LET s == Equivalence!Summarize(invs) IN
  [summary |-> s, traces |-> Equivalence!Traces(ds, invs), result |-> Equivalence!Result(s)]

Reported == \E ds, invs : ds = dataset /\ invs = invocations /\ report = ReportOn(ds, invs)

Phases == {"verify", "load", "rebuild", "probe", "control", "replay", "report", "done", "failed"}

EquivalenceInv ==
  /\ file \in [dataset : Datasets, source : Sources]
  /\ phase \in Phases
  /\ controls \in Seq(BOOLEAN) /\ Len(controls) <= 10
  /\ jobs = <<>> \/ Rebuilt
  /\ invocations = <<>> \/ (Rebuilt /\ Replayed)
  /\ phase \in {"verify", "load"} => dataset = <<>>
  /\ phase \in {"verify", "load", "rebuild"} => jobs = <<>>
  /\ phase = "rebuild" => Loaded
  /\ phase \in {"probe", "control", "replay", "report", "done"} => Rebuilt
  /\ phase \in {"verify", "load", "rebuild", "probe", "control", "replay"} => invocations = <<>>
  /\ phase \in {"report", "done"} => Replayed
  /\ phase \in {"replay", "report", "done"} => Sensitive
  /\ phase # "done" => report = None
  /\ phase = "done" => Reported

LEMMA EquivalenceStarts == Equivalence!Init => EquivalenceInv
BY EmptySeq DEF Equivalence!Init, EquivalenceInv, Phases

(* Steps that change at most the files.                                    *)
LEMMA FilesKeepEquivalenceInv ==
  ASSUME EquivalenceInv, file' \in [dataset : Datasets, source : Sources],
         UNCHANGED <<phase, dataset, jobs, probe, controls, invocations, report>>
  PROVE  EquivalenceInv'
<1>1. Rebuilt => Rebuilt'
  BY DEF Rebuilt, Loaded
<1>2. Replayed => Replayed'
  BY DEF Replayed
<1>3. Loaded => Loaded'
  BY DEF Loaded
<1>4. Sensitive => Sensitive'
  BY DEF Sensitive, Equivalence!DivergenceDetected
<1>5. ASSUME Reported PROVE Reported'
  <2>1. PICK ds, invs : ds = dataset /\ invs = invocations /\ report = ReportOn(ds, invs)
    BY <1>5 DEF Reported
  <2>2. ds = dataset' /\ invs = invocations' /\ report' = ReportOn(ds, invs)
    BY <2>1
  <2> QED BY <2>2 DEF Reported
<1> QED
  BY <1>1, <1>2, <1>3, <1>4, <1>5 DEF EquivalenceInv

LEMMA EquivalenceStepKeepsInv ==
  ASSUME EquivalenceInv, Equivalence!Next
  PROVE  EquivalenceInv'
<1> USE DEF Equivalence!Enter, Phases
<1>1. CASE Equivalence!Replace
  <2>1. UNCHANGED <<phase, dataset, jobs, probe, controls, invocations, report>>
    BY <1>1 DEF Equivalence!Replace
  <2>2. file' \in [dataset : Datasets, source : Sources]
    BY <1>1 DEF Equivalence!Replace, EquivalenceInv
  <2> QED BY <2>1, <2>2, FilesKeepEquivalenceInv
<1>2. CASE Equivalence!Fail
  BY <1>2 DEF Equivalence!Fail, EquivalenceInv, Rebuilt, Loaded, Replayed
<1>3. CASE Equivalence!Verify
  BY <1>3 DEF Equivalence!Verify, EquivalenceInv, Rebuilt, Loaded, Replayed
<1>4. CASE Equivalence!Load
  <2>1. /\ phase = "load" /\ phase' = "rebuild" /\ dataset' = file.dataset
        /\ UNCHANGED <<file, jobs, controls, invocations, report>>
        /\ Equivalence!CrossesNoBoundary(file.dataset)
    BY <1>4 DEF Equivalence!Load
  <2>2. Loaded'
    BY <2>1 DEF Loaded, EquivalenceInv
  <2> QED BY <2>1, <2>2 DEF EquivalenceInv
<1>5. CASE Equivalence!Rebuild
  <2>1. /\ phase = "rebuild" /\ phase' = "probe" /\ Loaded
        /\ UNCHANGED <<file, dataset, controls, invocations, report>>
        /\ \A i \in DOMAIN dataset :
             file.source[dataset[i].family][dataset[i].mutation] = dataset[i].generation.pair
        /\ jobs' = [i \in DOMAIN dataset |->
                     [index |-> i, pack |-> dataset[i].pack,
                      pair |-> file.source[dataset[i].family][dataset[i].mutation]]]
    BY <1>5 DEF Equivalence!Rebuild, Equivalence!Reproduces, EquivalenceInv
  <2>2. Rebuilt'
    BY <2>1 DEF Rebuilt, Loaded
  <2> QED BY <2>1, <2>2 DEF EquivalenceInv
<1>6. CASE Equivalence!Probe
  BY <1>6 DEF Equivalence!Probe, EquivalenceInv, Rebuilt, Loaded, Replayed
<1>7. CASE Equivalence!Control
  <2>1. /\ phase = "control" /\ phase' = "control" /\ Len(controls) < 10
        /\ UNCHANGED <<file, dataset, jobs, invocations, report>>
    BY <1>7 DEF Equivalence!Control
  <2>2. \E b \in BOOLEAN : controls' = Append(controls, b)
    BY <1>7 DEF Equivalence!Control
  <2>3. controls' \in Seq(BOOLEAN) /\ Len(controls') <= 10
    BY <2>1, <2>2 DEF EquivalenceInv
  <2> QED BY <2>1, <2>3 DEF EquivalenceInv, Rebuilt, Loaded, Replayed
<1>8. CASE Equivalence!AuditIsSensitive
  BY <1>8 DEF Equivalence!AuditIsSensitive, EquivalenceInv, Rebuilt, Loaded, Replayed, Sensitive,
              Equivalence!DivergenceDetected
<1>9. CASE Equivalence!Replay
  <2>1. /\ phase = "replay" /\ phase' = "report" /\ Rebuilt /\ Sensitive
        /\ UNCHANGED <<file, dataset, jobs, probe, controls, report>>
    BY <1>9 DEF Equivalence!Replay, EquivalenceInv
  <2>2. PICK answer \in [DOMAIN jobs -> Answers] :
          invocations' = [i \in DOMAIN jobs |-> Equivalence!Compared(jobs[i], answer[i])]
    BY <1>9 DEF Equivalence!Replay
  <2>3. Replayed'
    BY <2>1, <2>2 DEF Replayed, Rebuilt, Equivalence!Compared
  <2>4. Rebuilt' /\ Sensitive'
    BY <2>1 DEF Rebuilt, Loaded, Sensitive, Equivalence!DivergenceDetected
  <2> QED BY <2>1, <2>3, <2>4 DEF EquivalenceInv
<1>10. CASE Equivalence!Report
  <2>1. /\ phase = "report" /\ phase' = "done" /\ Rebuilt /\ Sensitive /\ Replayed
        /\ UNCHANGED <<file, dataset, jobs, probe, controls, invocations>>
    BY <1>10 DEF Equivalence!Report, EquivalenceInv
  <2>2. Reported'
    <3>1. PICK ds, invs : ds = dataset /\ invs = invocations
      OBVIOUS
    <3>2. report' = ReportOn(ds, invs)
      BY <1>10, <3>1 DEF Equivalence!Report, ReportOn
    <3> QED BY <2>1, <3>1, <3>2 DEF Reported
  <2>3. Rebuilt' /\ Sensitive' /\ Replayed'
    BY <2>1 DEF Rebuilt, Loaded, Sensitive, Replayed, Equivalence!DivergenceDetected
  <2> QED BY <2>1, <2>2, <2>3 DEF EquivalenceInv
<1>11. CASE UNCHANGED Equivalence!vars
  <2>1. file' \in [dataset : Datasets, source : Sources]
    BY <1>11 DEF Equivalence!vars, EquivalenceInv
  <2> QED BY <1>11, <2>1, FilesKeepEquivalenceInv DEF Equivalence!vars
<1> QED
  BY <1>1, <1>2, <1>3, <1>4, <1>5, <1>6, <1>7, <1>8, <1>9, <1>10, <1>11
  DEF Equivalence!Next, Equivalence!Ended

(* In an audit that has replayed: its records and invocations, by position.*)
LEMMA ReplayedByPosition ==
  ASSUME Rebuilt, Replayed
  PROVE  \E N \in Nat :
           /\ DOMAIN dataset = 1..N /\ DOMAIN invocations = 1..N /\ Len(invocations) = N
           /\ Len(dataset) = N
           /\ \A i \in 1..N :
                /\ invocations[i].outcome \in Equivalence!Outcomes
                /\ invocations[i].mutation = dataset[i].mutation
                /\ invocations[i].pack = dataset[i].pack
                /\ invocations[i].outcomeMatch
                     <=> invocations[i].outcome = dataset[i].generation.outcome
                /\ invocations[i].stdoutMatch
                     <=> invocations[i].printed = dataset[i].generation.stdout
<1>1. dataset \in Seq({dataset[i] : i \in DOMAIN dataset})
  BY EvidenceAssumption DEF Equivalence!AuditAssumption, Rebuilt, Loaded
<1>2. PICK N \in Nat : N = Len(dataset) /\ DOMAIN dataset = 1..N
  BY <1>1, LenProperties
<1>3. ASSUME NEW i \in 1..N
      PROVE  /\ invocations[i].outcome \in Equivalence!Outcomes
             /\ invocations[i].mutation = dataset[i].mutation
             /\ invocations[i].pack = dataset[i].pack
             /\ invocations[i].outcomeMatch
                  <=> invocations[i].outcome = dataset[i].generation.outcome
             /\ invocations[i].stdoutMatch
                  <=> invocations[i].printed = dataset[i].generation.stdout
  <2>1. PICK a \in Answers :
          invocations[i] =
            [mutation |-> dataset[i].mutation, pack |-> dataset[i].pack, outcome |-> a.outcome,
             outcomeMatch |-> a.outcome = dataset[i].generation.outcome,
             stdoutMatch |-> a.stdout = dataset[i].generation.stdout,
             printed |-> a.stdout]
    BY <1>2 DEF Replayed
  <2>2. a.outcome \in Equivalence!Outcomes
    BY EvidenceAssumption DEF Equivalence!AuditAssumption
  <2> DEFINE b == a.outcome = dataset[i].generation.outcome
             c == a.stdout = dataset[i].generation.stdout
  <2>3. /\ invocations[i].outcome = a.outcome /\ invocations[i].printed = a.stdout
        /\ invocations[i].mutation = dataset[i].mutation /\ invocations[i].pack = dataset[i].pack
    BY <2>1
  <2>4. invocations[i].outcomeMatch = b
    BY <2>1
  <2>5. invocations[i].stdoutMatch = c
    BY <2>1
  <2> QED BY <2>2, <2>3, <2>4, <2>5
<1>4. Len(invocations) = N
  BY <1>2 DEF Replayed
<1> QED
  BY <1>2, <1>3, <1>4 DEF Replayed

LEMMA HistoricalPairs ==
  ASSUME Rebuilt
  PROVE  Equivalence!OnlyHistoricalPairs
<1>1. /\ \A i \in DOMAIN dataset : /\ dataset[i].generation # None
                                   /\ dataset[i].generation.identity = V9
      /\ Cardinality({g.seed : g \in Equivalence!Generations(dataset)}) = 1
  BY EquivalenceCountsAsHere DEF Rebuilt, Loaded, Equivalence!CrossesNoBoundary
<1>2. {g.seed : g \in Equivalence!Generations(dataset)}
        = {dataset[i].generation.seed : i \in DOMAIN dataset}
  BY <1>1 DEF Equivalence!Generations
<1> QED
  BY <1>1, <1>2, EquivalenceCountsAsHere DEF Equivalence!OnlyHistoricalPairs, Rebuilt

LEMMA VerdictEarned ==
  ASSUME Rebuilt, Replayed, Sensitive, Reported
  PROVE  Equivalence!VerdictIsEarned
<1>1. PICK ds, invs : ds = dataset /\ invs = invocations /\ report = ReportOn(ds, invs)
  BY DEF Reported
<1>2. PICK N \in Nat :
        /\ DOMAIN ds = 1..N /\ DOMAIN invs = 1..N
        /\ \A i \in 1..N :
             /\ invs[i].outcome \in Equivalence!Outcomes
             /\ invs[i].outcomeMatch <=> invs[i].outcome = ds[i].generation.outcome
             /\ invs[i].stdoutMatch <=> invs[i].printed = ds[i].generation.stdout
  BY <1>1, ReplayedByPosition
<1> DEFINE s == Equivalence!Summarize(invs)
           same == {i \in DOMAIN ds : invs[i].outcome = ds[i].generation.outcome}
           print == {i \in DOMAIN ds : invs[i].printed = ds[i].generation.stdout}
<1>3. Totals(s, invs, N)
  BY <1>2, SummaryIsTotal
<1>4. report.result = Equivalence!Result(s)
  BY <1>1 DEF ReportOn
<1> HIDE DEF s
<1>5. s.outcomeMismatches \in Nat /\ (s.outcomeMismatches = 0 <=> same = 1..N)
  <2> DEFINE T == {i \in DOMAIN invs : ~invs[i].outcomeMatch}
  <2>1. s.outcomeMismatches = CountTo(T, N)
    BY <1>3 DEF Totals
  <2>2. (\A i \in 1..N : i \notin T) <=> same = 1..N
    BY <1>2
  <2> HIDE DEF T, same
  <2> QED BY <2>1, <2>2, CountToNone, CountToStep
<1>6. s.stdoutMismatches \in Nat /\ (s.stdoutMismatches = 0 <=> print = 1..N)
  <2> DEFINE T == {i \in DOMAIN invs : ~invs[i].stdoutMatch}
  <2>1. s.stdoutMismatches = CountTo(T, N)
    BY <1>3 DEF Totals
  <2>2. (\A i \in 1..N : i \notin T) <=> print = 1..N
    BY <1>2
  <2> HIDE DEF T, print
  <2> QED BY <2>1, <2>2, CountToNone, CountToStep
<1>7. report.result = IF same # DOMAIN ds THEN "BEHAVIORAL_DIVERGENCE"
                      ELSE IF print # DOMAIN ds THEN "DECISION_MATCH_OUTPUT_DIFFERENCE"
                      ELSE "COMPLETE_PRESERVED_V9_MATCH"
  <2> HIDE DEF same, print
  <2> QED BY <1>2, <1>4, <1>5, <1>6 DEF Equivalence!Result
<1>8. Equivalence!DivergenceDetected /\ \A i \in 1..10 : controls[i]
  <2>1. Len(controls) = 10
    BY DEF Sensitive
  <2> QED BY <2>1 DEF Sensitive
<1> QED
  BY <1>1, <1>7, <1>8 DEF Equivalence!VerdictIsEarned

LEMMA CountsAdd ==
  ASSUME Rebuilt, Replayed, Reported
  PROVE  Equivalence!CountsAddUp
<1>1. PICK ds, invs : ds = dataset /\ invs = invocations /\ report = ReportOn(ds, invs)
  BY DEF Reported
<1>2. PICK N \in Nat :
        /\ DOMAIN ds = 1..N /\ DOMAIN invs = 1..N
        /\ \A i \in 1..N :
             /\ invs[i].outcome \in Equivalence!Outcomes
             /\ invs[i].mutation = ds[i].mutation /\ invs[i].pack = ds[i].pack
  BY <1>1, ReplayedByPosition
<1> DEFINE s == Equivalence!Summarize(invs)
<1>3. Totals(s, invs, N)
  BY <1>2, SummaryIsTotal
<1>4. report.summary = s
  BY <1>1 DEF ReportOn
<1> HIDE DEF s
<1>5. \A S : S \subseteq 1..N => CountTo(S, N) = Cardinality(S)
  <2> SUFFICES ASSUME NEW S, S \subseteq 1..N PROVE CountTo(S, N) = Cardinality(S)
    OBVIOUS
  <2>1. S \cap (1..N) = S
    OBVIOUS
  <2> QED BY <2>1 DEF CountTo
<1>6. ASSUME NEW table \in {"mutation", "pack"}, NEW key \in DOMAIN s[table]
      PROVE  /\ \A o \in Equivalence!Outcomes :
                  s[table][key].by[o] =
                    Cardinality({i \in {j \in DOMAIN invs : invs[j][table] = key} :
                                   invs[i].outcome = o})
             /\ s[table][key].outcomeMismatches =
                  Cardinality({i \in {j \in DOMAIN invs : invs[j][table] = key} :
                                 ~invs[i].outcomeMatch})
  <2>1. Tally(s[table], invs, table, N)
    BY <1>3 DEF Totals
  <2>2. ASSUME NEW o \in Equivalence!Outcomes
        PROVE  s[table][key].by[o] =
                 Cardinality({i \in {j \in DOMAIN invs : invs[j][table] = key} :
                                invs[i].outcome = o})
    <3>1. s[table][key].by[o] = CountTo(Hits(invs, table, key, o), N)
      BY <2>1 DEF Tally
    <3>2. Hits(invs, table, key, o) \subseteq 1..N
      BY <1>2 DEF Hits
    <3>3. Hits(invs, table, key, o) = {i \in {j \in DOMAIN invs : invs[j][table] = key} :
                                         invs[i].outcome = o}
      BY DEF Hits
    <3> QED BY <1>5, <3>1, <3>2, <3>3
  <2>3. s[table][key].outcomeMismatches =
          Cardinality({i \in {j \in DOMAIN invs : invs[j][table] = key} : ~invs[i].outcomeMatch})
    <3>1. s[table][key].outcomeMismatches = CountTo(Misses(invs, table, key), N)
      BY <2>1 DEF Tally
    <3>2. Misses(invs, table, key) \subseteq 1..N
      BY <1>2 DEF Misses
    <3>3. Misses(invs, table, key) = {i \in {j \in DOMAIN invs : invs[j][table] = key} :
                                        ~invs[i].outcomeMatch}
      BY DEF Misses
    <3> QED BY <1>5, <3>1, <3>2, <3>3
  <2> QED BY <2>2, <2>3
<1>7. ASSUME NEW table \in {"mutation", "pack"}
      PROVE  DOMAIN s[table] = {ds[i][table] : i \in DOMAIN ds}
  <2>1. DOMAIN s[table] = {invs[i][table] : i \in 1..N}
    BY <1>3 DEF Totals, Tally
  <2> QED BY <1>2, <2>1
<1>8. s.outcomeMismatches = Cardinality({i \in DOMAIN invs : ~invs[i].outcomeMatch})
  BY <1>2, <1>3, <1>5 DEF Totals
<1> HIDE DEF s
<1>9. ASSUME NEW table \in {"mutation", "pack"}
      PROVE  /\ DOMAIN report.summary[table] = {dataset[i][table] : i \in DOMAIN dataset}
             /\ \A key \in DOMAIN report.summary[table] :
                  /\ \A o \in Equivalence!Outcomes :
                       report.summary[table][key].by[o] =
                         Equivalence!Cardinality(
                           {i \in {j \in DOMAIN invocations : invocations[j][table] = key} :
                              invocations[i].outcome = o})
                  /\ report.summary[table][key].outcomeMismatches =
                       Equivalence!Cardinality(
                         {i \in {j \in DOMAIN invocations : invocations[j][table] = key} :
                            ~invocations[i].outcomeMatch})
             /\ report.summary.outcomeMismatches =
                  Equivalence!Cardinality({i \in DOMAIN invocations : ~invocations[i].outcomeMatch})
  <2>1. DOMAIN report.summary[table] = {dataset[i][table] : i \in DOMAIN dataset}
    BY <1>1, <1>4, <1>7
  <2>2. ASSUME NEW key \in DOMAIN report.summary[table]
        PROVE  /\ \A o \in Equivalence!Outcomes :
                    report.summary[table][key].by[o] =
                      Equivalence!Cardinality(
                        {i \in {j \in DOMAIN invocations : invocations[j][table] = key} :
                           invocations[i].outcome = o})
               /\ report.summary[table][key].outcomeMismatches =
                    Equivalence!Cardinality(
                      {i \in {j \in DOMAIN invocations : invocations[j][table] = key} :
                         ~invocations[i].outcomeMatch})
    <3> DEFINE Of == {j \in DOMAIN invocations : invocations[j][table] = key}
    <3>1. key \in DOMAIN s[table] /\ report.summary[table] = s[table]
      BY <1>4
    <3>2. /\ \A o \in Equivalence!Outcomes :
               s[table][key].by[o] = Cardinality({i \in Of : invocations[i].outcome = o})
          /\ s[table][key].outcomeMismatches =
               Cardinality({i \in Of : ~invocations[i].outcomeMatch})
      <4>1. \A o : {i \in Of : invocations[i].outcome = o}
                   = {i \in {j \in DOMAIN invs : invs[j][table] = key} : invs[i].outcome = o}
        BY <1>1
      <4>2. {i \in Of : ~invocations[i].outcomeMatch}
              = {i \in {j \in DOMAIN invs : invs[j][table] = key} : ~invs[i].outcomeMatch}
        BY <1>1
      <4>3. \A o \in Equivalence!Outcomes :
              s[table][key].by[o] =
                Cardinality({i \in {j \in DOMAIN invs : invs[j][table] = key} :
                               invs[i].outcome = o})
        BY <1>6, <3>1
      <4>4. s[table][key].outcomeMismatches =
              Cardinality({i \in {j \in DOMAIN invs : invs[j][table] = key} :
                             ~invs[i].outcomeMatch})
        BY <1>6, <3>1
      <4> HIDE DEF Of
      <4> QED BY <4>1, <4>2, <4>3, <4>4
    <3> HIDE DEF Of
    <3>3. \A o \in Equivalence!Outcomes :
            report.summary[table][key].by[o] =
              Equivalence!Cardinality({i \in Of : invocations[i].outcome = o})
      BY <3>1, <3>2, EquivalenceCountsAsHere
    <3>4. report.summary[table][key].outcomeMismatches =
            Equivalence!Cardinality({i \in Of : ~invocations[i].outcomeMatch})
      BY <3>1, <3>2, EquivalenceCountsAsHere
    <3> QED BY <3>3, <3>4 DEF Of
  <2>3. report.summary.outcomeMismatches =
          Equivalence!Cardinality({i \in DOMAIN invocations : ~invocations[i].outcomeMatch})
    BY <1>1, <1>4, <1>8, EquivalenceCountsAsHere
  <2> QED BY <2>1, <2>2, <2>3
<1> QED
  BY <1>9 DEF Equivalence!CountsAddUp

LEMMA TracesShow ==
  ASSUME Rebuilt, Replayed, Reported
  PROVE  Equivalence!TracesShowV10
<1>1. PICK ds, invs : ds = dataset /\ invs = invocations /\ report = ReportOn(ds, invs)
  BY DEF Reported
<1>2. PICK N \in Nat :
        /\ DOMAIN ds = 1..N /\ DOMAIN invs = 1..N /\ Len(invs) = N
        /\ \A i \in 1..N :
             /\ invs[i].mutation = ds[i].mutation
             /\ invs[i].stdoutMatch <=> invs[i].printed = ds[i].generation.stdout
  BY <1>1, ReplayedByPosition
<1>3. report.traces = Equivalence!Traces(ds, invs)
  BY <1>1 DEF ReportOn
<1>4. DOMAIN report.traces = {ds[i].mutation : i \in DOMAIN ds}
  BY <1>2, <1>3 DEF Equivalence!Traces
<1>5. ASSUME NEW m \in DOMAIN report.traces
      PROVE  /\ ds[report.traces[m].index].mutation = m
             /\ report.traces[m].printed = invs[report.traces[m].index].printed
  <2> DEFINE I == {i \in 1..N : invs[i].mutation = m}
             k == Equivalence!Min(I)
  <2>1. I # {}
    BY <1>2, <1>4, <1>5
  <2>2. k \in I
    BY <2>1, FirstExists
  <2>3. Equivalence!SelectInSeq(invs, LAMBDA v : v.mutation = m) = k
    BY <1>2, <2>1 DEF Equivalence!SelectInSeq
  <2> HIDE DEF k
  <2>4. report.traces[m] = [index |-> k,
                            printed |-> IF invs[k].stdoutMatch THEN ds[k].generation.stdout
                                        ELSE invs[k].printed]
    BY <1>2, <1>3, <1>4, <2>3 DEF Equivalence!Traces
  <2> QED BY <1>2, <2>2, <2>4
<1> QED
  BY <1>1, <1>4, <1>5 DEF Equivalence!TracesShowV10

(* Whatever another program puts in place of the files, and whatever V10   *)
(* answers: the audit replays historical pairs of one seed, its verdict is *)
(* earned and true of the invocations, its tables and traces show them     *)
(* (run_backward_equivalence_audit).                                       *)
THEOREM EquivalenceEarned == Spec => []EquivalenceIsEarned
<1> DEFINE Inv == component = "equivalence" => EquivalenceInv
<1>1. Init => Inv
  BY EquivalenceStarts DEF Init
<1>2. Inv /\ [Next]_vars => Inv'
  <2>1. CASE component = "equivalence" /\ Equivalence!Next /\ UNCHANGED component
    BY <2>1, EquivalenceStepKeepsInv
  <2>2. CASE component # "equivalence" /\ UNCHANGED component
    BY <2>2
  <2>3. CASE UNCHANGED vars
    <3>1. EquivalenceInv => file' \in [dataset : Datasets, source : Sources]
      BY <2>3 DEF vars, EquivalenceInv
    <3> QED BY <2>3, <3>1, FilesKeepEquivalenceInv DEF vars
  <2> QED BY <2>1, <2>2, <2>3 DEF Next
<1>3. Inv => EquivalenceIsEarned
  <2> SUFFICES ASSUME EquivalenceInv
               PROVE  /\ Equivalence!TypeOK /\ Equivalence!OnlyHistoricalPairs
                      /\ Equivalence!VerdictIsEarned /\ Equivalence!CountsAddUp
                      /\ Equivalence!TracesShowV10
    BY DEF EquivalenceIsEarned
  <2>1. Equivalence!TypeOK
    <3>1. controls \in Equivalence!BoundedSeq(BOOLEAN, 10)
      <4>1. PICK n \in Nat : n = Len(controls) /\ controls \in [1..n -> BOOLEAN] /\ n <= 10
        BY LenProperties DEF EquivalenceInv
      <4>2. n \in 0..10
        <5>1. n <= 10
          BY <4>1
        <5> QED BY <5>1
      <4> QED BY <4>1, <4>2 DEF Equivalence!BoundedSeq, Equivalence!SeqOf
    <3>2. Len(invocations) \in {0, Len(dataset)}
      <4>1. CASE invocations = <<>>
        BY <4>1
      <4>2. CASE invocations # <<>>
        <5>1. Replayed /\ Rebuilt
          BY <4>2 DEF EquivalenceInv
        <5> QED BY <5>1, ReplayedByPosition
      <4> QED BY <4>1, <4>2
    <3> QED
      BY <3>1, <3>2 DEF Equivalence!TypeOK, EquivalenceInv, Phases, Rebuilt
  <2>2. Equivalence!OnlyHistoricalPairs
    BY HistoricalPairs DEF EquivalenceInv, Equivalence!OnlyHistoricalPairs
  <2>3. phase = "done" => Rebuilt /\ Replayed /\ Sensitive /\ Reported
    BY DEF EquivalenceInv
  <2>4. Equivalence!VerdictIsEarned
    BY <2>3, VerdictEarned DEF Equivalence!VerdictIsEarned
  <2>5. Equivalence!CountsAddUp
    BY <2>3, CountsAdd DEF Equivalence!CountsAddUp
  <2>6. Equivalence!TracesShowV10
    BY <2>3, TracesShow DEF Equivalence!TracesShowV10
  <2> QED BY <2>1, <2>2, <2>4, <2>5, <2>6
<1> QED
  BY <1>1, <1>2, <1>3, PTL DEF Spec

-----------------------------------------------------------------------------
(* Reports and promotions.  Whatever a file holds or a command is about to *)
(* write is sound with respect to what the JARs gave so far.               *)
FromJar(r, j, C) ==
  \E c \in C : /\ c.jar = j
               /\ \/ r \in c.runs
                  \/ \E q \in c.runs : q.fatal /\ r = [q EXCEPT !.outcome = "rejected"]

SoundReport(f, C) ==
  /\ Promotion!IsCapture(f)
  /\ \A r \in f.runs : FromJar(r, f.jar, C)

ScopesOf(C) == {Promotion!Scope(r) : r \in UNION {c.runs : c \in C}}

AnswersOf(pr) ==
  {r \in pr.runs : r.mutation = pr.scope.mutation /\ r.mode = pr.scope.mode
                   /\ r.outcome # "rejected"}

Earned(pr, C) ==
  /\ pr.scope \in ScopesOf(C)
  /\ pr.label \in {"safe", "warning", "breaking"}
  /\ \A r \in AnswersOf(pr) : r.outcome = pr.label
  /\ Cardinality({r.family : r \in {q \in AnswersOf(pr) : q.policy = pr.scope.policy}})
       >= MinFamilies
  /\ Cardinality({r.policy : r \in AnswersOf(pr)}) >= MinPolicies
  /\ Cardinality(AnswersOf(pr)) >= MinChecks
  /\ \A r \in AnswersOf(pr) : \E c \in C : c.jar = pr.jar /\ r \in c.runs

SoundManifest(f, C) ==
  /\ IsSequence(f.promotions)
  /\ \A i \in DOMAIN f.promotions : Earned(f.promotions[i], C)
  /\ \A i, j \in DOMAIN f.promotions :
       f.promotions[i].scope = f.promotions[j].scope => f.promotions[i] = f.promotions[j]

Sound(f, C) ==
  /\ Promotion!IsReport(f) => SoundReport(f, C)
  /\ Promotion!IsManifest(f) => SoundManifest(f, C)

PromotionInv ==
  /\ commands \in 0..MaxCommands
  /\ \A c \in captured : Promotion!IsCapture(c)
  /\ file \in [Paths -> {file[p] : p \in Paths}]
  /\ \A p \in Paths : Sound(file[p], captured)
  /\ job \in [Processes -> {job[p] : p \in Processes}]
  /\ \A p \in Processes : job[p] # None =>
       /\ DOMAIN job[p] = {"output", "content", "writing"}
       /\ job[p].output \in Paths /\ Sound(job[p].content, captured)

(* An instance counts as this module does.                                 *)
LEMMA FiniteAsHere == \A S : Promotion!IsFiniteSet(S) <=> IsFiniteSet(S)
BY DEF Promotion!IsFiniteSet, IsFiniteSet

LEMMA CountedAsHere == \A S : Promotion!Cardinality(S) = Cardinality(S)
BY DEF Promotion!Cardinality, Cardinality

(* Evidence that was sound is sound when more has been captured.           *)
LEMMA SoundStays ==
  ASSUME NEW C, NEW D, C \subseteq D, NEW f, Sound(f, C)
  PROVE  Sound(f, D)
<1>1. \A r, j : FromJar(r, j, C) => FromJar(r, j, D)
  BY DEF FromJar
<1>2. ScopesOf(C) \subseteq ScopesOf(D)
  BY DEF ScopesOf
<1>3. \A pr : Earned(pr, C) => Earned(pr, D)
  BY <1>2 DEF Earned
<1> QED
  BY <1>1, <1>3 DEF Sound, SoundReport, SoundManifest

(* What is not rejected in a sound report is what the JAR answered.        *)
LEMMA NotRejected ==
  ASSUME NEW C, \A c \in C : Promotion!IsCapture(c),
         NEW r, NEW j, FromJar(r, j, C), r.outcome # "rejected"
  PROVE  \E c \in C : c.jar = j /\ r \in c.runs
BY DEF FromJar, Promotion!IsCapture, Promotion!IsRun

(* A finite set with one element has no two.                               *)
LEMMA OnlyOne ==
  ASSUME NEW S, IsFiniteSet(S), Cardinality(S) = 1
  PROVE  S # {} /\ \A x, y \in S : x = y
BY FS_Singleton

(* The outcomes of finitely many runs are finitely many.                   *)
LEMMA LabelsAreFinite ==
  ASSUME NEW S, IsFiniteSet(S)
  PROVE  IsFiniteSet(Promotion!Labels(S))
<1> DEFINE f == [r \in S |-> r.outcome]
           T == Promotion!Labels(S)
<1>1. f \in Surjection(S, T)
  BY DEF Surjection, Promotion!Labels
<1> QED
  BY <1>1, FS_Surjection

(* The promotion of a candidate is earned.                                 *)
LEMMA PromotionEarned ==
  ASSUME NEW C, \A c \in C : Promotion!IsCapture(c),
         NEW rep, SoundReport(rep, C), NEW sel, Promotion!Promotable(rep, sel)
  PROVE  /\ Promotion!Promotion(rep, sel).scope = sel.scope
         /\ Earned(Promotion!Promotion(rep, sel), C)
<1> DEFINE s == sel.scope
           pr == Promotion!Promotion(rep, sel)
           cell == Promotion!Accepted(Promotion!Cell(rep.runs, s))
           across == Promotion!Accepted(Promotion!AcrossPolicies(rep.runs, s))
<1>1. /\ pr.scope = s /\ pr.jar = rep.jar /\ pr.runs = rep.runs
      /\ pr.label = CHOOSE l \in Promotion!Labels(cell) : TRUE
  BY DEF Promotion!Promotion
<1>2. /\ Cardinality(Promotion!Families(cell)) >= MinFamilies
      /\ Cardinality(Promotion!Labels(cell)) = 1
  BY CountedAsHere DEF Promotion!Promotable, Promotion!CellIsCandidate
<1>3. /\ Cardinality({r.policy : r \in across}) >= MinPolicies
      /\ Cardinality(across) >= MinChecks
      /\ Cardinality(Promotion!Labels(across)) = 1
  BY CountedAsHere DEF Promotion!Promotable, Promotion!CrossPolicyIsCandidate
<1>4. /\ across = {r \in rep.runs : r.mutation = s.mutation /\ r.mode = s.mode
                                    /\ r.outcome # "rejected"}
      /\ cell \subseteq rep.runs /\ across \subseteq rep.runs
      /\ \A r \in cell : Promotion!Scope(r) = s /\ r.outcome # "rejected"
      /\ cell \subseteq across
  BY DEF Promotion!Accepted, Promotion!Cell, Promotion!AcrossPolicies, Promotion!Scope
<1>5. IsFiniteSet(rep.runs) /\ \A r \in rep.runs : Promotion!IsRun(r) /\ FromJar(r, rep.jar, C)
  BY FiniteAsHere DEF SoundReport, Promotion!IsCapture
<1> HIDE DEF pr
<1>6. AnswersOf(pr) = across
  BY <1>1, <1>4 DEF AnswersOf
<1>7. {q \in across : q.policy = s.policy} = cell
  <2>1. \A q \in rep.runs : q.mutation = s.mutation /\ q.mode = s.mode /\ q.policy = s.policy
                            <=> Promotion!Scope(q) = s
    <3>1. PICK z \in cell : TRUE
      <4>1. IsFiniteSet(cell)
        BY <1>4, <1>5, FS_Subset
      <4>2. Promotion!Labels(cell) # {}
        BY <1>2, <4>1, LabelsAreFinite, OnlyOne
      <4> QED BY <4>2 DEF Promotion!Labels
    <3>2. s = [mutation |-> z.mutation, mode |-> z.mode, policy |-> z.policy]
      BY <1>4, <3>1 DEF Promotion!Scope
    <3> HIDE DEF s
    <3> QED BY <3>2 DEF Promotion!Scope
  <2> QED
    BY <1>4, <2>1 DEF Promotion!Accepted, Promotion!Cell, Promotion!AcrossPolicies
<1>8. /\ Promotion!Labels(cell) # {}
      /\ \A x, y \in Promotion!Labels(across) : x = y
  <2>1. IsFiniteSet(cell) /\ IsFiniteSet(across)
    BY <1>4, <1>5, FS_Subset
  <2>2. IsFiniteSet(Promotion!Labels(cell)) /\ IsFiniteSet(Promotion!Labels(across))
    BY <2>1, LabelsAreFinite
  <2> QED BY <1>2, <1>3, <2>2, OnlyOne
<1>9. PICK z \in cell : pr.label = z.outcome
  BY <1>1, <1>8 DEF Promotion!Labels
<1>10. \A r \in across : r.outcome = pr.label
  BY <1>4, <1>8, <1>9 DEF Promotion!Labels
<1>11. pr.label \in {"safe", "warning", "breaking"}
  BY <1>4, <1>5, <1>9 DEF Promotion!IsRun, Promotion!Outcomes
<1>12. \A r \in across : \E c \in C : c.jar = pr.jar /\ r \in c.runs
  <2>1. SUFFICES ASSUME NEW r \in across PROVE \E c \in C : c.jar = rep.jar /\ r \in c.runs
    BY <1>1
  <2>2. FromJar(r, rep.jar, C) /\ r.outcome # "rejected"
    BY <1>4, <1>5
  <2> QED BY <2>2, NotRejected
<1>13. s \in ScopesOf(C)
  <2>1. \E c \in C : z \in c.runs
    BY <1>4, <1>9, <1>12
  <2> QED BY <1>4, <1>9, <2>1 DEF ScopesOf
<1>14. Cardinality({r.family : r \in {q \in AnswersOf(pr) : q.policy = pr.scope.policy}})
         >= MinFamilies
  <2>1. {r.family : r \in {q \in AnswersOf(pr) : q.policy = pr.scope.policy}}
          = Promotion!Families(cell)
    BY <1>1, <1>6, <1>7 DEF Promotion!Families
  <2> QED BY <1>2, <2>1
<1>15. Earned(pr, C)
  BY <1>1, <1>3, <1>6, <1>10, <1>11, <1>12, <1>13, <1>14 DEF Earned
<1> QED
  BY <1>1, <1>15 DEF pr

(* Files that are there, rejections of what crashed, reports put together: *)
(* each is a report of its JAR when what it was made of is.                *)
LEMMA CaptureIsSound ==
  ASSUME NEW C, NEW c \in C, Promotion!IsCapture(c)
  PROVE  Sound(Promotion!Report(c.jar, c.runs), C)
<1> DEFINE f == Promotion!Report(c.jar, c.runs)
<1>1. f.jar = c.jar /\ f.runs = c.runs /\ f.kind = "report"
  BY DEF Promotion!Report
<1> HIDE DEF f
<1>2. Promotion!IsCapture(f) /\ \A r \in f.runs : FromJar(r, f.jar, C)
  BY <1>1 DEF Promotion!IsCapture, FromJar
<1>3. Sound(f, C)
  BY <1>1, <1>2 DEF Sound, SoundReport, Promotion!IsManifest
<1> QED BY <1>3 DEF f

LEMMA ReclassifiedFromJar ==
  ASSUME NEW C, NEW r, NEW j, Promotion!IsRun(r), FromJar(r, j, C)
  PROVE  /\ Promotion!IsRun(Promotion!Reclassified(r))
         /\ FromJar(Promotion!Reclassified(r), j, C)
<1> DEFINE x == Promotion!Reclassified(r)
<1>1. CASE ~r.fatal
  BY <1>1 DEF Promotion!Reclassified
<1>2. CASE r.fatal
  <2>1. x = [r EXCEPT !.outcome = "rejected"]
    BY <1>2 DEF Promotion!Reclassified
  <2>2. Promotion!IsRun(x)
    BY <2>1 DEF Promotion!IsRun, Promotion!Outcomes
  <2>3. PICK c \in C : /\ c.jar = j
                       /\ \/ r \in c.runs
                          \/ \E q \in c.runs : q.fatal /\ r = [q EXCEPT !.outcome = "rejected"]
    BY DEF FromJar
  <2> HIDE DEF x
  <2>4. r \in c.runs => FromJar(x, j, C)
    BY <1>2, <2>1, <2>3 DEF FromJar
  <2>5. ASSUME NEW q \in c.runs, q.fatal, r = [q EXCEPT !.outcome = "rejected"]
        PROVE  FromJar(x, j, C)
    <3>1. x = r
      BY <2>1, <2>5
    <3> QED BY <3>1
  <2>6. FromJar(x, j, C)
    BY <2>3, <2>4, <2>5
  <2> QED BY <2>2, <2>6 DEF x
<1> QED BY <1>1, <1>2

LEMMA ReclassifiedIsSound ==
  ASSUME NEW C, NEW rep, SoundReport(rep, C)
  PROVE  Sound(Promotion!Report(rep.jar, {Promotion!Reclassified(r) : r \in rep.runs}), C)
<1> DEFINE T == {Promotion!Reclassified(r) : r \in rep.runs}
           f == Promotion!Report(rep.jar, T)
           g == [r \in rep.runs |-> Promotion!Reclassified(r)]
<1>1. f.jar = rep.jar /\ f.runs = T /\ f.kind = "report"
  BY DEF Promotion!Report
<1>2. IsFiniteSet(rep.runs) /\ \A r \in rep.runs : Promotion!IsRun(r) /\ FromJar(r, rep.jar, C)
  BY FiniteAsHere DEF SoundReport, Promotion!IsCapture
<1>3. IsFiniteSet(T)
  <2>1. g \in Surjection(rep.runs, T)
    BY DEF Surjection
  <2> QED BY <1>2, <2>1, FS_Surjection
<1>4. \A x \in T : Promotion!IsRun(x) /\ FromJar(x, rep.jar, C)
  BY <1>2, ReclassifiedFromJar
<1> HIDE DEF f, T
<1>5. Sound(f, C)
  BY <1>1, <1>3, <1>4, FiniteAsHere DEF Sound, SoundReport, Promotion!IsCapture, Promotion!IsManifest
<1> QED BY <1>5 DEF f, T

LEMMA MergedIsSound ==
  ASSUME NEW C, NEW a, NEW b, SoundReport(a, C), SoundReport(b, C), a.jar = b.jar
  PROVE  Sound(Promotion!Report(a.jar, a.runs \cup b.runs), C)
<1> DEFINE f == Promotion!Report(a.jar, a.runs \cup b.runs)
<1>1. f.jar = a.jar /\ f.runs = a.runs \cup b.runs /\ f.kind = "report"
  BY DEF Promotion!Report
<1>2. IsFiniteSet(a.runs) /\ IsFiniteSet(b.runs)
  BY FiniteAsHere DEF SoundReport, Promotion!IsCapture
<1>3. IsFiniteSet(a.runs \cup b.runs)
  BY <1>2, FS_Union
<1>4. \A x \in a.runs \cup b.runs : Promotion!IsRun(x) /\ FromJar(x, a.jar, C)
  BY DEF SoundReport, Promotion!IsCapture
<1> HIDE DEF f
<1>5. Sound(f, C)
  BY <1>1, <1>3, <1>4, FiniteAsHere DEF Sound, SoundReport, Promotion!IsCapture, Promotion!IsManifest
<1> QED BY <1>5 DEF f

(* The promotions of what was selected, alone or behind those of a sound   *)
(* manifest, are a sound manifest.                                         *)
LEMMA PromotedIsSound ==
  ASSUME NEW C, \A c \in C : Promotion!IsCapture(c),
         NEW rep, SoundReport(rep, C),
         NEW sels \in Selections,
         \A i \in DOMAIN sels : Promotion!Promotable(rep, sels[i])
  PROVE  /\ Sound(Promotion!Manifest(Promotion!Promoted(rep, sels)), C)
         /\ \A m : /\ SoundManifest(m, C)
                   /\ Promotion!CanMerge(m.promotions, Promotion!Promoted(rep, sels))
                   => Sound(Promotion!Manifest(m.promotions \o Promotion!Promoted(rep, sels)), C)
<1> DEFINE adds == Promotion!Promoted(rep, sels)
           S == {sels[i] : i \in DOMAIN sels}
           T == {adds[i] : i \in DOMAIN adds}
<1>1. sels \in Seq(S)
  BY EvidenceAssumption DEF Promotion!EvidenceAssumption
<1>2. PICK n \in Nat : n = Len(sels)
  BY <1>1
<1>3. DOMAIN sels = 1..n /\ adds = [i \in 1..n |-> Promotion!Promotion(rep, sels[i])]
  BY <1>1, <1>2 DEF Promotion!Promoted
<1>4. adds \in [1..n -> T] /\ DOMAIN adds = 1..n
  BY <1>3
<1>5. \A i \in 1..n : Earned(adds[i], C) /\ adds[i].scope = sels[i].scope
  BY <1>3, PromotionEarned
<1>6. \A i, j \in 1..n : adds[i].scope = adds[j].scope => adds[i] = adds[j]
  <2>1. \A i \in 1..n : adds[i] = Promotion!Promotion(rep, sels[i])
    BY <1>3
  <2> HIDE DEF adds
  <2>2. \A a, b : a.scope = b.scope => Promotion!Promotion(rep, a) = Promotion!Promotion(rep, b)
    BY DEF Promotion!Promotion
  <2> QED BY <1>5, <2>1, <2>2
<1> HIDE DEF adds
<1>7. adds \in Seq(T) /\ Len(adds) = n
  BY <1>4
<1>8. Sound(Promotion!Manifest(adds), C)
  <2> DEFINE f == Promotion!Manifest(adds)
  <2>1. f.kind = "manifest" /\ f.promotions = adds
    BY DEF Promotion!Manifest
  <2> HIDE DEF f
  <2>2. SoundManifest(f, C)
    BY <1>4, <1>5, <1>6, <1>7, <2>1 DEF SoundManifest, IsSequence
  <2>3. Sound(f, C)
    BY <2>1, <2>2 DEF Sound, Promotion!IsReport
  <2> QED BY <2>3 DEF f
<1>9. ASSUME NEW m, SoundManifest(m, C), Promotion!CanMerge(m.promotions, adds)
      PROVE  Sound(Promotion!Manifest(m.promotions \o adds), C)
  <2> DEFINE old == m.promotions
             all == old \o adds
             f == Promotion!Manifest(all)
             V == {old[i] : i \in DOMAIN old}
             W == {all[i] : i \in DOMAIN all}
  <2>1. f.kind = "manifest" /\ f.promotions = all
    BY DEF Promotion!Manifest
  <2>2. /\ old \in Seq(V)
        /\ \A i \in DOMAIN old : Earned(old[i], C)
        /\ \A i, j \in DOMAIN old : old[i].scope = old[j].scope => old[i] = old[j]
    BY <1>9 DEF SoundManifest, IsSequence
  <2>3. /\ \A i \in 1..n : \A j \in DOMAIN old : old[j].scope # adds[i].scope
        /\ \A i, j \in 1..n : adds[i].scope = adds[j].scope => i = j
    BY <1>4, <1>9 DEF Promotion!CanMerge
  <2> HIDE DEF old, V, f
  <2>4. PICK k \in Nat : k = Len(old) /\ DOMAIN old = 1..k
    BY <2>2
  <2>5. /\ all \in Seq(V \cup T) /\ Len(all) = k + n /\ DOMAIN all = 1..(k + n)
        /\ \A i \in 1..(k + n) : all[i] = IF i <= k THEN old[i] ELSE adds[i - k]
    <3>1. V \subseteq V \cup T /\ T \subseteq V \cup T
      OBVIOUS
    <3> HIDE DEF T, all
    <3>2. old \in Seq(V \cup T) /\ adds \in Seq(V \cup T)
      BY <1>7, <2>2, <3>1, SeqMonotonic
    <3>3. /\ all \in Seq(V \cup T) /\ Len(all) = k + n
          /\ \A i \in 1..(k + n) : all[i] = IF i <= k THEN old[i] ELSE adds[i - k]
      BY <1>7, <2>4, <3>2, ConcatProperties DEF all
    <3> QED BY <3>3, LenProperties
  <2> HIDE DEF all
  <2>6. \A i \in 1..(k + n) : i <= k => i \in 1..k
    OBVIOUS
  <2>7. \A i \in 1..(k + n) : ~(i <= k) => i - k \in 1..n
    OBVIOUS
  <2>8. \A i \in 1..(k + n) : Earned(all[i], C)
    BY <1>5, <2>2, <2>4, <2>5, <2>6, <2>7
  <2>9. ASSUME NEW i \in 1..(k + n), NEW j \in 1..(k + n), all[i].scope = all[j].scope
        PROVE  all[i] = all[j]
    <3>1. CASE i <= k /\ j <= k
      BY <2>2, <2>4, <2>5, <2>6, <2>9, <3>1
    <3>2. CASE ~(i <= k) /\ ~(j <= k)
      BY <1>6, <2>5, <2>7, <2>9, <3>2
    <3>3. CASE i <= k /\ ~(j <= k)
      BY <2>3, <2>4, <2>5, <2>6, <2>7, <2>9, <3>3
    <3>4. CASE ~(i <= k) /\ j <= k
      BY <2>3, <2>4, <2>5, <2>6, <2>7, <2>9, <3>4
    <3> QED BY <3>1, <3>2, <3>3, <3>4
  <2>10. all \in Seq(W)
    <3>1. all \in [1..(k + n) -> W]
      BY <2>5
    <3> HIDE DEF W
    <3>2. k + n \in Nat
      OBVIOUS
    <3> QED BY <3>1, <3>2, SeqDef
  <2>11. SoundManifest(f, C)
    BY <2>1, <2>5, <2>8, <2>9, <2>10 DEF SoundManifest, IsSequence
  <2>12. Sound(f, C)
    BY <2>1, <2>11 DEF Sound, Promotion!IsReport
  <2> QED BY <2>12 DEF f, all, old
<1> QED
  BY <1>8, <1>9 DEF adds

LEMMA PromotionStarts == Promotion!Init => PromotionInv
<1> SUFFICES ASSUME Promotion!Init PROVE PromotionInv
  OBVIOUS
<1>1. /\ commands = 0 /\ MaxCommands \in Nat
      /\ captured = {Legacy[p] : p \in DOMAIN Legacy}
      /\ \A p \in DOMAIN Legacy : Promotion!IsCapture(Legacy[p])
  BY EvidenceAssumption DEF Promotion!Init, Promotion!EvidenceAssumption
<1>2. \A p \in Paths : Sound(file[p], captured)
  <2> SUFFICES ASSUME NEW p \in Paths PROVE Sound(file[p], captured)
    OBVIOUS
  <2>1. CASE p \in DOMAIN Legacy
    <3>1. Legacy[p] \in captured /\ Promotion!IsCapture(Legacy[p])
      BY <1>1, <2>1
    <3>2. file[p] = Promotion!Report(Legacy[p].jar, Legacy[p].runs)
      BY <2>1 DEF Promotion!Init
    <3> QED BY <3>1, <3>2, CaptureIsSound
  <2>2. CASE p \notin DOMAIN Legacy
    BY <2>2 DEF Promotion!Init, Sound, Promotion!IsReport, Promotion!IsManifest
  <2> QED BY <2>1, <2>2
<1>3. /\ file \in [Paths -> {file[p] : p \in Paths}]
      /\ job \in [Processes -> {job[p] : p \in Processes}]
      /\ \A p \in Processes : job[p] = None
  BY DEF Promotion!Init
<1>4. commands \in 0..MaxCommands /\ \A c \in captured : Promotion!IsCapture(c)
  BY <1>1
<1> QED
  BY <1>2, <1>3, <1>4 DEF PromotionInv

(* A command that starts with sound content, in what it has just captured. *)
LEMMA StartKeepsPromotionInv ==
  ASSUME PromotionInv, NEW p \in Processes, NEW o \in Paths, NEW x,
         Promotion!Start(p, o, x), captured \subseteq captured',
         \A c \in captured' : Promotion!IsCapture(c), Sound(x, captured')
  PROVE  PromotionInv'
<1>1. /\ commands < MaxCommands /\ commands' = commands + 1 /\ file' = file
      /\ job' = [job EXCEPT ![p] = [output |-> o, content |-> x, writing |-> FALSE]]
  BY DEF Promotion!Start
<1>2. commands' \in 0..MaxCommands
  BY <1>1, EvidenceAssumption DEF PromotionInv, Promotion!EvidenceAssumption
<1>3. \A f : Sound(f, captured) => Sound(f, captured')
  BY SoundStays
<1>4. \A q \in Processes : job'[q] # None =>
        /\ DOMAIN job'[q] = {"output", "content", "writing"}
        /\ job'[q].output \in Paths /\ Sound(job'[q].content, captured')
  <2>1. job'[p] = [output |-> o, content |-> x, writing |-> FALSE] /\ Sound(x, captured')
    BY <1>1 DEF PromotionInv
  <2>2. \A q \in Processes : q # p => job'[q] = job[q]
    BY <1>1 DEF PromotionInv
  <2> QED BY <1>3, <2>1, <2>2 DEF PromotionInv
<1> QED
  BY <1>1, <1>2, <1>3, <1>4 DEF PromotionInv

LEMMA CommandsKeepPromotionInv ==
  ASSUME PromotionInv, NEW p \in Processes,
         \/ Promotion!Conform(p) \/ Promotion!Reclassify(p)
         \/ Promotion!MergeReports(p) \/ Promotion!Promote(p)
  PROVE  PromotionInv'
<1>1. /\ \A c \in captured : Promotion!IsCapture(c)
      /\ \A q \in Paths : Promotion!IsReport(file[q]) => SoundReport(file[q], captured)
      /\ \A q \in Paths : Promotion!IsManifest(file[q]) => SoundManifest(file[q], captured)
  BY DEF PromotionInv, Sound
<1>2. CASE Promotion!Conform(p)
  <2>1. PICK c \in Captured, o \in Paths :
          /\ Promotion!Start(p, o, Promotion!Report(c.jar, c.runs))
          /\ captured' = captured \cup {c}
    BY <1>2 DEF Promotion!Conform
  <2>2. Promotion!IsCapture(c)
    BY EvidenceAssumption DEF Promotion!EvidenceAssumption
  <2>3. Sound(Promotion!Report(c.jar, c.runs), captured')
    BY <2>1, <2>2, CaptureIsSound
  <2> QED BY <1>1, <2>1, <2>2, <2>3, StartKeepsPromotionInv
<1>3. CASE Promotion!Reclassify(p)
  <2>1. PICK i \in Paths, o \in Paths :
          /\ Promotion!IsReport(file[i])
          /\ Promotion!Start(p, o, Promotion!Report(file[i].jar,
                               {Promotion!Reclassified(r) : r \in file[i].runs}))
          /\ captured' = captured
    BY <1>3 DEF Promotion!Reclassify
  <2>2. SoundReport(file[i], captured')
    BY <1>1, <2>1
  <2>3. Sound(Promotion!Report(file[i].jar, {Promotion!Reclassified(r) : r \in file[i].runs}),
              captured')
    BY <2>2, ReclassifiedIsSound
  <2> QED BY <1>1, <2>1, <2>3, StartKeepsPromotionInv
<1>4. CASE Promotion!MergeReports(p)
  <2>1. PICK a \in Paths, b \in Paths, o \in Paths :
          /\ Promotion!IsReport(file[a]) /\ Promotion!IsReport(file[b])
          /\ Promotion!Mergeable(file[a], file[b])
          /\ Promotion!Start(p, o, Promotion!Report(file[a].jar, file[a].runs \cup file[b].runs))
          /\ captured' = captured
    BY <1>4 DEF Promotion!MergeReports
  <2>2. SoundReport(file[a], captured') /\ SoundReport(file[b], captured')
    BY <1>1, <2>1
  <2>3. Sound(Promotion!Report(file[a].jar, file[a].runs \cup file[b].runs), captured')
    BY <2>1, <2>2, MergedIsSound DEF Promotion!Mergeable
  <2> QED BY <1>1, <2>1, <2>3, StartKeepsPromotionInv
<1>5. CASE Promotion!Promote(p)
  <2>1. PICK e \in Paths, o \in Paths, sels \in Selections :
          /\ Promotion!IsReport(file[e])
          /\ \A i \in DOMAIN sels : Promotion!Promotable(file[e], sels[i])
          /\ \/ Promotion!Start(p, o, Promotion!Manifest(Promotion!Promoted(file[e], sels)))
             \/ \E m \in Paths :
                  /\ Promotion!IsManifest(file[m])
                  /\ Promotion!CanMerge(file[m].promotions, Promotion!Promoted(file[e], sels))
                  /\ Promotion!Start(p, o, Promotion!Manifest(
                       file[m].promotions \o Promotion!Promoted(file[e], sels)))
          /\ captured' = captured
    BY <1>5 DEF Promotion!Promote
  <2>2. SoundReport(file[e], captured)
    BY <1>1, <2>1
  <2>3. /\ Sound(Promotion!Manifest(Promotion!Promoted(file[e], sels)), captured)
        /\ \A m : /\ SoundManifest(m, captured)
                  /\ Promotion!CanMerge(m.promotions, Promotion!Promoted(file[e], sels))
                  => Sound(Promotion!Manifest(m.promotions \o Promotion!Promoted(file[e], sels)),
                           captured)
    BY <1>1, <2>1, <2>2, PromotedIsSound
  <2>4. CASE Promotion!Start(p, o, Promotion!Manifest(Promotion!Promoted(file[e], sels)))
    BY <1>1, <2>1, <2>3, <2>4, StartKeepsPromotionInv
  <2>5. ASSUME NEW m \in Paths,
               Promotion!IsManifest(file[m]),
               Promotion!CanMerge(file[m].promotions, Promotion!Promoted(file[e], sels)),
               Promotion!Start(p, o, Promotion!Manifest(
                  file[m].promotions \o Promotion!Promoted(file[e], sels)))
        PROVE  PromotionInv'
    <3>1. SoundManifest(file[m], captured)
      BY <1>1, <2>5
    <3>2. Sound(Promotion!Manifest(file[m].promotions \o Promotion!Promoted(file[e], sels)),
                captured')
      BY <2>1, <2>3, <2>5, <3>1
    <3> QED BY <1>1, <2>1, <2>5, <3>2, StartKeepsPromotionInv
  <2> QED BY <2>1, <2>4, <2>5
<1> QED
  BY <1>2, <1>3, <1>4, <1>5

(* What a write leaves is torn or what the command held.                   *)
LEMMA WritesKeepPromotionInv ==
  ASSUME PromotionInv, NEW p \in Processes,
         Promotion!WriteBegin(p) \/ Promotion!WriteEnd(p) \/ Promotion!Crash(p)
  PROVE  PromotionInv'
<1>1. /\ DOMAIN job[p] = {"output", "content", "writing"}
      /\ job[p].output \in Paths /\ Sound(job[p].content, captured)
  BY DEF PromotionInv, Promotion!WriteBegin, Promotion!WriteEnd, Promotion!Crash
<1>2. commands' = commands /\ captured' = captured
  BY DEF Promotion!WriteBegin, Promotion!WriteEnd, Promotion!Crash
<1>3. /\ file' \in [Paths -> {file'[q] : q \in Paths}]
      /\ \A q \in Paths : Sound(file'[q], captured)
  <2>1. Sound(Torn, captured)
    BY DEF Sound, Promotion!IsReport, Promotion!IsManifest
  <2>2. file' \in {file, [file EXCEPT ![job[p].output] = Torn],
                  [file EXCEPT ![job[p].output] = job[p].content]}
    BY DEF Promotion!WriteBegin, Promotion!WriteEnd, Promotion!Crash
  <2> QED BY <1>1, <2>1, <2>2 DEF PromotionInv
<1>4. job' \in [Processes -> {job'[q] : q \in Processes}]
  BY DEF Promotion!WriteBegin, Promotion!WriteEnd, Promotion!Crash, PromotionInv
<1>5. \A q \in Processes : q # p => job'[q] = job[q]
  BY DEF Promotion!WriteBegin, Promotion!WriteEnd, Promotion!Crash, PromotionInv
<1>6. job'[p] # None =>
        /\ DOMAIN job'[p] = {"output", "content", "writing"}
        /\ job'[p].output = job[p].output /\ job'[p].content = job[p].content
  <2>1. CASE Promotion!WriteBegin(p)
    <3>1. job'[p] = [job[p] EXCEPT !.writing = TRUE]
      BY <2>1 DEF Promotion!WriteBegin, PromotionInv
    <3> QED BY <1>1, <3>1
  <2>2. CASE Promotion!WriteEnd(p) \/ Promotion!Crash(p)
    BY <2>2 DEF Promotion!WriteEnd, Promotion!Crash, PromotionInv
  <2> QED BY <2>1, <2>2
<1>7. \A q \in Processes : job'[q] # None =>
        /\ DOMAIN job'[q] = {"output", "content", "writing"}
        /\ job'[q].output \in Paths /\ Sound(job'[q].content, captured)
  BY <1>1, <1>5, <1>6 DEF PromotionInv
<1> QED
  BY <1>2, <1>3, <1>4, <1>7 DEF PromotionInv

(* Through reclassifying, merging, promoting and crashes: the runs of a    *)
(* report are of the JAR it names, a promotion reaches its thresholds with *)
(* nothing against it, no scope has two labels (models/oracle_evidence.rs).*)
THEOREM PromotionsEarned == Spec => []PromotionsRestOnEvidence
<1> DEFINE Inv == component = "promotion" => PromotionInv
<1>1. Init => Inv
  BY PromotionStarts DEF Init
<1>2. Inv /\ [Next]_vars => Inv'
  <2>1. CASE component = "promotion" /\ Promotion!Next /\ UNCHANGED component
    <3>1. CASE UNCHANGED Promotion!vars
      BY <2>1, <3>1 DEF Promotion!vars, PromotionInv
    <3> QED BY <2>1, <3>1, CommandsKeepPromotionInv, WritesKeepPromotionInv
            DEF Promotion!Next, Promotion!Ended
  <2>2. CASE component # "promotion" /\ UNCHANGED component
    BY <2>2
  <2>3. CASE UNCHANGED vars
    BY <2>3 DEF vars, PromotionInv
  <2> QED BY <2>1, <2>2, <2>3 DEF Next
<1>3. Inv => PromotionsRestOnEvidence
  <2> SUFFICES ASSUME PromotionInv
               PROVE  /\ Promotion!TypeOK /\ Promotion!EvidenceIsTheJars
                      /\ Promotion!PromotionsAreEarned /\ Promotion!OneLabelPerScope
    BY DEF PromotionsRestOnEvidence
  <2>1. ASSUME NEW f \in Promotion!Reports PROVE SoundReport(f, captured)
    BY <2>1 DEF Promotion!Reports, PromotionInv, Sound
  <2>2. ASSUME NEW f \in Promotion!Manifests PROVE SoundManifest(f, captured)
    BY <2>2 DEF Promotion!Manifests, PromotionInv, Sound
  <2>3. Promotion!TypeOK
    BY <2>1, <2>2 DEF Promotion!TypeOK, SoundReport, SoundManifest, Promotion!IsCapture,
                      Promotion!IsRun, Earned, ScopesOf, Promotion!Scopes, PromotionInv
  <2>4. Promotion!EvidenceIsTheJars
    BY <2>1 DEF Promotion!EvidenceIsTheJars, SoundReport, FromJar
  <2>5. Promotion!PromotionsAreEarned
    BY <2>2, CountedAsHere DEF Promotion!PromotionsAreEarned, SoundManifest, Earned, AnswersOf
  <2>6. Promotion!OneLabelPerScope
    BY <2>2 DEF Promotion!OneLabelPerScope, SoundManifest
  <2> QED BY <2>3, <2>4, <2>5, <2>6
<1> QED
  BY <1>1, <1>2, <1>3, PTL DEF Spec

-----------------------------------------------------------------------------
(* What FlattenSeq defines by recursion exists.                            *)
Flattens(f, seqs, n) == f = [i \in 1..n |-> IF i = 1 THEN seqs[i] ELSE f[i - 1] \o seqs[i]]

LEMMA FlattenExists ==
  ASSUME NEW seqs, NEW n \in Nat
  PROVE  \E f : Flattens(f, seqs, n)
<1> DEFINE S == {k \in Nat : \E f : Flattens(f, seqs, k)}
<1>1. 0 \in S
  <2>1. Flattens([i \in 1..0 |-> 0], seqs, 0)
    BY DEF Flattens
  <2> QED BY <2>1
<1>2. ASSUME NEW k \in Nat, k \in S PROVE k + 1 \in S
  <2>1. PICK f : Flattens(f, seqs, k)
    BY <1>2
  <2> DEFINE g == [i \in 1..(k + 1) |-> IF i = 1 THEN seqs[i] ELSE f[i - 1] \o seqs[i]]
  <2>2. \A i \in 1..k : g[i] = f[i]
    <3>1. \A i \in 1..k : f[i] = IF i = 1 THEN seqs[i] ELSE f[i - 1] \o seqs[i]
      BY <2>1 DEF Flattens
    <3>2. \A i \in 1..k : g[i] = IF i = 1 THEN seqs[i] ELSE f[i - 1] \o seqs[i]
      OBVIOUS
    <3> HIDE DEF g
    <3> QED BY <3>1, <3>2
  <2>3. g = [i \in 1..(k + 1) |-> IF i = 1 THEN seqs[i] ELSE g[i - 1] \o seqs[i]]
    <3>1. \A i \in 1..(k + 1) : i # 1 => i - 1 \in 1..k
      OBVIOUS
    <3>2. \A i \in 1..(k + 1) : (IF i = 1 THEN seqs[i] ELSE f[i - 1] \o seqs[i])
                                = (IF i = 1 THEN seqs[i] ELSE g[i - 1] \o seqs[i])
      BY <2>2, <3>1
    <3> QED BY <3>2
  <2>4. Flattens(g, seqs, k + 1)
    BY <2>3 DEF Flattens
  <2> QED BY <2>4
<1> HIDE DEF S
<1>3. n \in S
  BY <1>1, <1>2, Induction
<1> QED
  BY <1>3 DEF S

LEMMA Flattened ==
  ASSUME NEW seqs, Len(seqs) \in Nat \ {0}
  PROVE  \E f : Flattens(f, seqs, Len(seqs)) /\ Removal!FlattenSeq(seqs) = f[Len(seqs)]
<1> DEFINE f == CHOOSE f : f = [i \in 1..Len(seqs) |-> IF i = 1 THEN seqs[i] ELSE f[i - 1] \o seqs[i]]
<1>1. Flattens(f, seqs, Len(seqs))
  BY FlattenExists DEF Flattens
<1>2. Removal!FlattenSeq(seqs) = f[Len(seqs)]
  BY DEF Removal!FlattenSeq
<1> QED BY <1>1, <1>2

(* Every element of every sequence is reached.                             *)
Has(s, t) == \A i \in DOMAIN t : \E n \in DOMAIN s : s[n] = t[i]

Reaches(s, seqs, k) == \A c \in 1..k : Has(s, seqs[c])

LEMMA HasTransitive ==
  ASSUME NEW r, NEW s, NEW t, Has(r, s), Has(s, t)
  PROVE  Has(r, t)
BY DEF Has

LEMMA ConcatHas ==
  ASSUME NEW T, NEW s \in Seq(T), NEW t \in Seq(T)
  PROVE  s \o t \in Seq(T) /\ Has(s \o t, s) /\ Has(s \o t, t)
<1>1. PICK a \in Nat, b \in Nat : a = Len(s) /\ b = Len(t) /\ DOMAIN s = 1..a /\ DOMAIN t = 1..b
  BY LenProperties
<1>2. /\ s \o t \in Seq(T) /\ Len(s \o t) = a + b
      /\ \A i \in 1..(a + b) : (s \o t)[i] = IF i <= a THEN s[i] ELSE t[i - a]
  BY <1>1, ConcatProperties
<1>3. DOMAIN (s \o t) = 1..(a + b)
  BY <1>2, LenProperties
<1>4. \A i \in DOMAIN s : i \in DOMAIN (s \o t) /\ (s \o t)[i] = s[i]
  BY <1>1, <1>2, <1>3
<1>5. \A i \in DOMAIN t : a + i \in DOMAIN (s \o t) /\ (s \o t)[a + i] = t[i]
  <2> SUFFICES ASSUME NEW i \in 1..b PROVE a + i \in 1..(a + b) /\ (s \o t)[a + i] = t[i]
    BY <1>1, <1>3
  <2>1. a + i \in 1..(a + b) /\ ~(a + i <= a) /\ (a + i) - a = i
    OBVIOUS
  <2> QED BY <1>2, <2>1
<1>6. Has(s \o t, s)
  BY <1>4 DEF Has
<1>7. Has(s \o t, t)
  BY <1>5 DEF Has
<1> QED
  BY <1>2, <1>6, <1>7

LEMMA FlattenReaches ==
  ASSUME NEW T, NEW seqs \in Seq(Seq(T))
  PROVE  /\ Removal!FlattenSeq(seqs) \in Seq(T)
         /\ Reaches(Removal!FlattenSeq(seqs), seqs, Len(seqs))
<1>1. PICK N \in Nat : N = Len(seqs) /\ DOMAIN seqs = 1..N /\ \A i \in 1..N : seqs[i] \in Seq(T)
  BY LenProperties, ElementOfSeq
<1>2. CASE N = 0
  <2>1. Removal!FlattenSeq(seqs) = seqs
    BY <1>1, <1>2 DEF Removal!FlattenSeq
  <2>2. seqs = <<>>
    BY <1>1, <1>2, EmptySeq
  <2>3. seqs \in Seq(T)
    BY <2>2, EmptySeq
  <2> QED BY <1>1, <1>2, <2>1, <2>3 DEF Reaches
<1>3. CASE N # 0
  <2>1. PICK f : Flattens(f, seqs, N) /\ Removal!FlattenSeq(seqs) = f[N]
    BY <1>1, <1>3, Flattened
  <2>2. \A i \in 1..N : f[i] = IF i = 1 THEN seqs[i] ELSE f[i - 1] \o seqs[i]
    BY <2>1 DEF Flattens
  <2> DEFINE S == {k \in Nat : k \in 1..N => f[k] \in Seq(T) /\ Reaches(f[k], seqs, k)}
  <2>3. 0 \in S
    OBVIOUS
  <2>4. ASSUME NEW k \in Nat, k \in S PROVE k + 1 \in S
    <3> SUFFICES ASSUME k + 1 \in 1..N
                 PROVE  f[k + 1] \in Seq(T) /\ Reaches(f[k + 1], seqs, k + 1)
      OBVIOUS
    <3>1. CASE k = 0
      <4>1. f[k + 1] = seqs[1] /\ k + 1 = 1 /\ 1 \in 1..N
        BY <1>1, <2>2, <3>1
      <4> QED BY <1>1, <4>1, <3>1 DEF Reaches, Has
    <3>2. CASE k # 0
      <4>1. k \in 1..N /\ f[k] \in Seq(T) /\ Reaches(f[k], seqs, k) /\ seqs[k + 1] \in Seq(T)
        BY <1>1, <2>4, <3>2
      <4>2. f[k + 1] = f[k] \o seqs[k + 1]
        <5>1. (k + 1) - 1 = k /\ k + 1 # 1
          BY <3>2
        <5> QED BY <2>2, <5>1
      <4>3. f[k + 1] \in Seq(T) /\ Has(f[k + 1], f[k]) /\ Has(f[k + 1], seqs[k + 1])
        BY <4>1, <4>2, ConcatHas
      <4>4. \A c \in 1..(k + 1) : c \in 1..k \/ c = k + 1
        OBVIOUS
      <4>5. Reaches(f[k + 1], seqs, k + 1)
        BY <4>1, <4>3, <4>4, HasTransitive DEF Reaches
      <4> QED BY <4>3, <4>5
    <3> QED BY <3>1, <3>2
  <2> HIDE DEF S
  <2>5. N \in S
    BY <2>3, <2>4, Induction
  <2> QED BY <1>1, <1>3, <2>1, <2>5 DEF S
<1> QED
  BY <1>2, <1>3

-----------------------------------------------------------------------------
(* The audit of the removal mechanism.  Every pair of a case and a policy  *)
(* of it is asked about, once in each mode.                                *)
LEMMA EveryPairIsAsked ==
  /\ Len(Removal!Pairs) \in Nat
  /\ \A c \in DOMAIN Cases : \A i \in DOMAIN Removal!PoliciesOf(Cases[c]) :
       \E n \in 1..Len(Removal!Pairs) :
         Removal!Pairs[n] = [case |-> c, policy |-> Removal!PoliciesOf(Cases[c])[i]]
<1> DEFINE seqs == [c \in DOMAIN Cases |-> Removal!PairsOf(c)]
           T == UNION {{Removal!PairsOf(c)[i] : i \in DOMAIN Removal!PairsOf(c)} : c \in DOMAIN Cases}
<1>1. PICK N \in Nat : DOMAIN Cases = 1..N
  BY EvidenceAssumption, LenProperties DEF Removal!AuditAssumption
<1>2. ASSUME NEW c \in DOMAIN Cases
      PROVE  /\ DOMAIN Removal!PairsOf(c) = DOMAIN Removal!PoliciesOf(Cases[c])
             /\ \A i \in DOMAIN Removal!PoliciesOf(Cases[c]) :
                  Removal!PairsOf(c)[i] = [case |-> c, policy |-> Removal!PoliciesOf(Cases[c])[i]]
             /\ \E k \in Nat : DOMAIN Removal!PoliciesOf(Cases[c]) = 1..k
  <2>1. \E k \in Nat : DOMAIN Removal!PoliciesOf(Cases[c]) = 1..k
    BY DEF Removal!PoliciesOf, Removal!Baseline
  <2> QED BY <2>1 DEF Removal!PairsOf
<1>3. ASSUME NEW c \in 1..N PROVE seqs[c] \in Seq(T)
  <2>1. PICK k \in Nat : DOMAIN Removal!PairsOf(c) = 1..k
    BY <1>1, <1>2
  <2>2. Removal!PairsOf(c) = [i \in 1..k |-> Removal!PairsOf(c)[i]]
    BY <1>1, <2>1 DEF Removal!PairsOf
  <2>3. \A i \in 1..k : Removal!PairsOf(c)[i] \in T
    BY <1>1, <2>1
  <2> HIDE DEF T
  <2>4. Removal!PairsOf(c) \in [1..k -> T]
    BY <2>2, <2>3
  <2>5. Removal!PairsOf(c) \in Seq(T)
    BY <2>4, SeqDef
  <2> QED BY <1>1, <2>5
<1>4. seqs \in Seq(Seq(T)) /\ Len(seqs) = N /\ DOMAIN seqs = 1..N
  <2> HIDE DEF T
  <2>1. seqs \in [1..N -> Seq(T)]
    BY <1>1, <1>3
  <2> QED BY <2>1, SeqDef, <1>1
<1>5. Removal!Pairs = Removal!FlattenSeq(seqs)
  BY DEF Removal!Pairs
<1>6. /\ Removal!Pairs \in Seq(T)
      /\ Reaches(Removal!Pairs, seqs, N)
  <2> HIDE DEF T, seqs
  <2> QED BY <1>4, <1>5, FlattenReaches
<1>7. Len(Removal!Pairs) \in Nat /\ DOMAIN Removal!Pairs = 1..Len(Removal!Pairs)
  BY <1>6, LenProperties
<1> QED
  BY <1>1, <1>2, <1>6, <1>7 DEF Reaches, Has

(* The calls are made in their order, and each is answered with numbers of *)
(* findings; a report that passed has every call answered as it must be.   *)
Asked(invs) ==
  /\ IsSequence(invs)
  /\ \A i \in DOMAIN invs : /\ invs[i].call = Removal!Check(i)
                            /\ invs[i].answer.forward \in Nat /\ invs[i].answer.unmarked \in Nat

WholeReport(r) ==
  /\ r.preflights \in Seq(BOOLEAN) /\ Len(r.preflights) = Len(Removal!Pairs)
  /\ Asked(r.invocations) /\ Len(r.invocations) = Removal!NumChecks
  /\ r.passed => /\ \A i \in DOMAIN r.preflights : r.preflights[i]
                 /\ \A i \in DOMAIN r.invocations :
                      Removal!Passed(r.invocations[i].call, r.invocations[i].answer)

RemovalInv ==
  /\ running # None => running \in Outputs
  /\ preflights \in Seq(BOOLEAN)
  /\ Asked(invocations)
  /\ file \in [Outputs -> {file[o] : o \in Outputs}]
  /\ \A o \in Outputs : file[o] \notin {None, Torn} => WholeReport(file[o])

(* Whatever the JAR answers, the numbers of findings are numbers.          *)
LEMMA AnswersCount ==
  ASSUME NEW call, NEW a \in {Removal!Faithful(call)} \cup Removal!Deviations(call)
  PROVE  a.forward \in Nat /\ a.unmarked \in Nat
<1> DEFINE f == Removal!Faithful(call)
<1>1. /\ DOMAIN f = {"rejected", "outcome", "wrongRule", "forward", "unmarked"}
      /\ f.forward \in Nat /\ f.unmarked \in Nat
  BY DEF Removal!Faithful
<1> HIDE DEF f
<1>2. CASE a = f
  BY <1>1, <1>2
<1>3. ASSUME NEW o, a = [f EXCEPT !.outcome = o]
      PROVE  a.forward = f.forward /\ a.unmarked = f.unmarked
  BY <1>1, <1>3
<1>4. ASSUME NEW g \in 0..2, NEW u \in 0..2, a = [f EXCEPT !.forward = g, !.unmarked = u]
      PROVE  a.forward \in Nat /\ a.unmarked \in Nat
  <2> DEFINE mid == [f EXCEPT !.forward = g]
  <2>1. /\ DOMAIN mid = {"rejected", "outcome", "wrongRule", "forward", "unmarked"}
        /\ mid.forward = g
    BY <1>1
  <2>2. a = [mid EXCEPT !.unmarked = u]
    BY <1>4
  <2> HIDE DEF mid
  <2> QED BY <2>1, <2>2
<1>5. CASE a = [f EXCEPT !.wrongRule = TRUE]
  BY <1>1, <1>5
<1>6. CASE a = [f EXCEPT !.rejected = TRUE]
  BY <1>1, <1>6
<1> QED
  BY <1>1, <1>2, <1>3, <1>4, <1>5, <1>6 DEF Removal!Deviations, f

LEMMA RemovalStarts == Removal!Init => RemovalInv
<1> SUFFICES ASSUME Removal!Init PROVE RemovalInv
  OBVIOUS
<1>1. <<>> \in Seq(BOOLEAN) /\ IsSequence(<<>>)
  BY EmptySeq DEF IsSequence
<1> QED
  BY <1>1 DEF Removal!Init, RemovalInv, Asked

LEMMA RemovalStepKeepsInv ==
  ASSUME RemovalInv, Removal!Next
  PROVE  RemovalInv'
<1>1. <<>> \in Seq(BOOLEAN) /\ Asked(<<>>)
  BY EmptySeq DEF IsSequence, Asked
<1>2. ASSUME NEW o \in Outputs, Removal!Start(o) PROVE RemovalInv'
  BY <1>1, <1>2 DEF Removal!Start, RemovalInv
<1>3. CASE Removal!Preflight
  <2>1. PICK accepted \in BOOLEAN : preflights' = Append(preflights, accepted)
    BY <1>3 DEF Removal!Preflight
  <2>2. preflights' \in Seq(BOOLEAN)
    BY <2>1, AppendProperties DEF RemovalInv
  <2>3. UNCHANGED <<file, running, invocations>>
    BY <1>3 DEF Removal!Preflight
  <2> QED BY <2>2, <2>3 DEF RemovalInv
<1>4. CASE Removal!Invoke
  <2> DEFINE call == Removal!Check(Len(invocations) + 1)
  <2>1. PICK a \in {Removal!Faithful(call)} \cup Removal!Deviations(call) :
          invocations' = Append(invocations, [call |-> call, answer |-> a])
    BY <1>4 DEF Removal!Invoke
  <2>2. a.forward \in Nat /\ a.unmarked \in Nat
    BY AnswersCount
  <2>3. Asked(invocations')
    <3> DEFINE e == [call |-> call, answer |-> a]
    <3>1. IsSequence(invocations)
      BY DEF RemovalInv, Asked
    <3>2. PICK k \in Nat : /\ k = Len(invocations) /\ DOMAIN invocations = 1..k
                           /\ IsSequence(invocations') /\ DOMAIN invocations' = 1..(k + 1)
                           /\ \A i \in 1..k : invocations'[i] = invocations[i]
                           /\ invocations'[k + 1] = e
      BY <2>1, <3>1, AppendIsSequence
    <3>3. e.call = Removal!Check(k + 1) /\ e.answer = a
      BY <3>2
    <3>4. \A i \in 1..(k + 1) : i \in 1..k \/ i = k + 1
      OBVIOUS
    <3> QED BY <2>2, <3>2, <3>3, <3>4 DEF RemovalInv, Asked
  <2>4. UNCHANGED <<file, running, preflights>>
    BY <1>4 DEF Removal!Invoke
  <2> QED BY <2>3, <2>4 DEF RemovalInv
<1>5. CASE Removal!InvokeFails
  BY <1>1, <1>5 DEF Removal!InvokeFails, RemovalInv
<1>6. CASE Removal!Write
  <2> DEFINE r == Removal!Report
  <2>1. /\ r.preflights = preflights /\ r.invocations = invocations
        /\ r.passed => /\ \A i \in DOMAIN preflights : preflights[i]
                       /\ \A i \in DOMAIN invocations :
                            Removal!Passed(invocations[i].call, invocations[i].answer)
    BY DEF Removal!Report
  <2>2. WholeReport(r)
    BY <1>6, <2>1 DEF Removal!Write, RemovalInv, WholeReport
  <2> HIDE DEF r
  <2>3. /\ file' \in {[file EXCEPT ![running] = r], [file EXCEPT ![running] = Torn]}
        /\ running \in Outputs /\ running' = None /\ preflights' = <<>> /\ invocations' = <<>>
    BY <1>6 DEF Removal!Write, RemovalInv, r
  <2>4. /\ file' \in [Outputs -> {file'[o] : o \in Outputs}]
        /\ \A o \in Outputs : file'[o] \notin {None, Torn} => WholeReport(file'[o])
    BY <2>2, <2>3 DEF RemovalInv
  <2> QED BY <1>1, <2>3, <2>4 DEF RemovalInv
<1>7. CASE UNCHANGED Removal!vars
  BY <1>7 DEF Removal!vars, RemovalInv
<1> QED
  BY <1>2, <1>3, <1>4, <1>5, <1>6, <1>7 DEF Removal!Next, Removal!Finished

(* A call is made for every case, policy of it and mode.                   *)
LEMMA EveryCallIsMade ==
  ASSUME NEW c \in DOMAIN Cases, NEW i \in DOMAIN Removal!PoliciesOf(Cases[c]),
         NEW m \in {"FORWARD", "FULL"}
  PROVE  \E k \in 1..Removal!NumChecks :
           /\ Removal!Check(k).case = c
           /\ Removal!Check(k).policy = Removal!PoliciesOf(Cases[c])[i]
           /\ Removal!Check(k).mode = m
<1> DEFINE p == [case |-> c, policy |-> Removal!PoliciesOf(Cases[c])[i]]
<1>1. PICK N \in Nat : N = Len(Removal!Pairs) /\ \E n \in 1..N : Removal!Pairs[n] = p
  BY EveryPairIsAsked
<1>2. PICK n \in 1..N : Removal!Pairs[n] = p
  BY <1>1
<1>3. Removal!NumChecks = 2 * N
  BY <1>1 DEF Removal!NumChecks
<1>4. CASE m = "FORWARD"
  <2>1. /\ 2 * n - 1 \in 1..(2 * N)
        /\ ((2 * n - 1) + 1) \div 2 = n /\ (((2 * n - 1) + 1) % 2) + 1 = 1
    OBVIOUS
  <2>2. Removal!Check(2 * n - 1) = [case |-> p.case, policy |-> p.policy, mode |-> Removal!Modes[1]]
    BY <1>2, <2>1 DEF Removal!Check
  <2> QED BY <1>3, <1>4, <2>1, <2>2 DEF Removal!Modes
<1>5. CASE m = "FULL"
  <2>1. /\ 2 * n \in 1..(2 * N)
        /\ (2 * n + 1) \div 2 = n /\ ((2 * n + 1) % 2) + 1 = 2
    OBVIOUS
  <2>2. Removal!Check(2 * n) = [case |-> p.case, policy |-> p.policy, mode |-> Removal!Modes[2]]
    BY <1>2, <2>1 DEF Removal!Check
  <2> QED BY <1>3, <1>5, <2>1, <2>2 DEF Removal!Modes
<1> QED
  BY <1>4, <1>5

(* A report that passed shows, for every case and in both modes, what each *)
(* severity makes of one pair of schemas, and every finding of FORWARD in  *)
(* FULL (build_forward_removal_mechanism_audit).                           *)
THEOREM RemovalShown == Spec => []RemovalAuditShowsBoth
<1> DEFINE Inv == component = "removal" => RemovalInv
<1>1. Init => Inv
  BY RemovalStarts DEF Init
<1>2. Inv /\ [Next]_vars => Inv'
  <2>1. CASE component = "removal" /\ Removal!Next /\ UNCHANGED component
    BY <2>1, RemovalStepKeepsInv
  <2>2. CASE component # "removal" /\ UNCHANGED component
    BY <2>2
  <2>3. CASE UNCHANGED vars
    BY <2>3 DEF vars, RemovalInv
  <2> QED BY <2>1, <2>2, <2>3 DEF Next
<1>3. Inv => RemovalAuditShowsBoth
  <2> SUFFICES ASSUME RemovalInv
               PROVE  Removal!SeverityLadder /\ Removal!FullContainsForward
    BY DEF RemovalAuditShowsBoth
  <2>1. ASSUME NEW r \in Removal!Reports, r.passed
        PROVE  /\ WholeReport(r)
               /\ \A k \in DOMAIN r.invocations :
                    Removal!Passed(r.invocations[k].call, r.invocations[k].answer)
    BY <2>1 DEF Removal!Reports, RemovalInv, WholeReport
  <2>2. ASSUME NEW r \in Removal!Reports, r.passed,
               NEW c, NEW s, NEW m, NEW a \in Removal!Said(r, c, s, m)
        PROVE  /\ a.forward \in Nat /\ a.unmarked \in Nat
               /\ ~a.rejected /\ a.outcome = Removal!ExpectedOutcome(s)
               /\ a.forward + a.unmarked = IF s = "IGNORE" THEN 0 ELSE IF m = "FULL" THEN 2 ELSE 1
               /\ s = "IGNORE" \/ a.forward > 0
    <3>1. PICK k \in DOMAIN r.invocations :
            /\ a = r.invocations[k].answer
            /\ r.invocations[k].call.policy.severity = s /\ r.invocations[k].call.mode = m
      BY DEF Removal!Said
    <3>2. WholeReport(r) /\ Removal!Passed(r.invocations[k].call, r.invocations[k].answer)
      BY <2>1, <2>2
    <3> QED BY <3>1, <3>2 DEF Removal!Passed, Removal!ExpectedFindings, WholeReport, Asked
  <2>3. Removal!FullContainsForward
    <3> SUFFICES ASSUME NEW r \in Removal!Reports, r.passed,
                        NEW c \in DOMAIN Cases, NEW s \in {"BREAKING", "WARNING", "IGNORE"},
                        NEW f \in Removal!Said(r, c, s, "FORWARD"),
                        NEW u \in Removal!Said(r, c, s, "FULL")
                 PROVE  IF s = "IGNORE" THEN f.forward + f.unmarked + u.forward + u.unmarked = 0
                        ELSE /\ f.forward = 1 /\ f.unmarked = 0
                             /\ u.forward >= f.forward
                             /\ u.forward + u.unmarked > f.forward + f.unmarked
      BY DEF Removal!FullContainsForward
    <3>1. /\ f.forward \in Nat /\ f.unmarked \in Nat
          /\ f.forward + f.unmarked = IF s = "IGNORE" THEN 0 ELSE 1
          /\ s = "IGNORE" \/ f.forward > 0
      BY <2>2
    <3>2. /\ u.forward \in Nat /\ u.unmarked \in Nat
          /\ u.forward + u.unmarked = IF s = "IGNORE" THEN 0 ELSE 2
          /\ s = "IGNORE" \/ u.forward > 0
      BY <2>2
    <3> QED BY <3>1, <3>2
  <2>4. Removal!SeverityLadder
    <3> SUFFICES ASSUME NEW r \in Removal!Reports, r.passed
                 PROVE  /\ Len(r.preflights) = Len(Removal!Pairs)
                        /\ \A i \in DOMAIN r.preflights : r.preflights[i]
                        /\ \A c \in DOMAIN Cases, m \in {"FORWARD", "FULL"} :
                             \A s \in {p.severity : p \in {Removal!PoliciesOf(Cases[c])[i] :
                                                     i \in DOMAIN Removal!PoliciesOf(Cases[c])}} :
                               /\ Removal!Said(r, c, s, m) # {}
                               /\ \A a \in Removal!Said(r, c, s, m) :
                                    ~a.rejected /\ a.outcome = Removal!ExpectedOutcome(s)
      BY DEF Removal!SeverityLadder
    <3>1. WholeReport(r)
      BY <2>1
    <3>2. ASSUME NEW c \in DOMAIN Cases, NEW m \in {"FORWARD", "FULL"},
                 NEW i \in DOMAIN Removal!PoliciesOf(Cases[c])
          PROVE  Removal!Said(r, c, Removal!PoliciesOf(Cases[c])[i].severity, m) # {}
      <4>1. PICK k \in 1..Removal!NumChecks :
              /\ Removal!Check(k).case = c
              /\ Removal!Check(k).policy = Removal!PoliciesOf(Cases[c])[i]
              /\ Removal!Check(k).mode = m
        BY EveryCallIsMade
      <4>2. k \in DOMAIN r.invocations /\ r.invocations[k].call = Removal!Check(k)
        BY <3>1, LenProperties DEF WholeReport, Asked, IsSequence
      <4> QED BY <4>1, <4>2 DEF Removal!Said
    <3>3. \A c \in DOMAIN Cases, m \in {"FORWARD", "FULL"} :
            \A s \in {p.severity : p \in {Removal!PoliciesOf(Cases[c])[i] :
                                            i \in DOMAIN Removal!PoliciesOf(Cases[c])}} :
              Removal!Said(r, c, s, m) # {}
      BY <3>2
    <3>4. \A c \in DOMAIN Cases, m \in {"FORWARD", "FULL"} : \A s :
            \A a \in Removal!Said(r, c, s, m) :
              ~a.rejected /\ a.outcome = Removal!ExpectedOutcome(s)
      BY <2>2
    <3> QED BY <2>1, <3>1, <3>3, <3>4 DEF WholeReport
  <2> QED BY <2>3, <2>4
<1> QED
  BY <1>1, <1>2, <1>3, PTL DEF Spec

-----------------------------------------------------------------------------
(* FeatureMigration. *)

Places == {"start", "load", "jar", "policies", "contexts", "sample", "records",
           "rename", "reload", "done", "failed"}

(* What is stamped passed the gate.                                        *)
Audited(corpus) ==
  Migration!Loads(corpus) =>
    Migration!AreRecords(corpus.records) /\ (corpus.stamp = TRUE => Ready(corpus.records))

(* A record beside the one it was rebuilt from.                            *)
IsRebuilt(old, new) ==
  /\ [old EXCEPT !.features = new.features, !.evidence.profile = new.evidence.profile] = new
  /\ new.features.pair = new.evidence.fingerprint.pair
  /\ new.features.policy = new.evidence.fingerprint.policy
  /\ new.evidence.fingerprint.jar = new.evidence.jar
  /\ new.evidence.fingerprint.mode = "BACKWARD"

RebuiltSoFar ==
  /\ IsSequence(rebuilt) /\ Len(rebuilt) <= Len(read.corpus.records)
  /\ \A i \in DOMAIN rebuilt : IsRebuilt(read.corpus.records[i], rebuilt[i])

AllRebuilt ==
  RebuiltSoFar /\ Len(rebuilt) = Len(read.corpus.records) /\ Migration!Valid(Migration!Migrated)

(* What the command has behind it at each of its places.                   *)
BehindIt ==
  /\ place \in {"start", "load", "jar", "policies", "contexts", "sample"} => rebuilt = <<>>
  /\ place \in {"start", "load", "jar", "policies", "contexts", "sample", "records", "rename"} =>
       output = Migration!NoFile
  /\ place \in Places \ {"start", "failed"} => ~read.occupied
  /\ place \in Places \ {"start", "load", "failed"} => Migration!AreRecords(read.corpus.records)
  /\ place \in {"policies", "contexts", "sample", "records"} => {read.jar} = Migration!JarOf(read.corpus)
  /\ place = "records" => RebuiltSoFar
  /\ place = "rename" => AllRebuilt

(* What is on disk was written by the command, with all of it behind it.   *)
Written ==
  output # Migration!NoFile =>
    /\ place \in {"reload", "done", "failed"} /\ ~read.occupied
    /\ AllRebuilt /\ output = Migration!Migrated

MigrationInv ==
  /\ Migration!TypeOK /\ place \in Places
  /\ outside \in [jar : JarContents, policies : PolicyContents, source : DOMAIN SampledFamilies]
  /\ DOMAIN read = {"named", "occupied", "corpus", "jar", "policies", "contexts", "families"}
  /\ Audited(input) /\ \A corpus \in evaluated : Ready(corpus.records)
  /\ BehindIt /\ Written
  /\ reported # Migration!NoFile => place = "done" /\ output \in {reported, Migration!NoFile}

LEMMA MigrationStarts == Migration!Init => MigrationInv
<1> SUFFICES ASSUME Migration!Init PROVE MigrationInv
  OBVIOUS
<1> USE DEF Migration!Init
<1>1. /\ place = "start" /\ output = Migration!NoFile /\ reported = Migration!NoFile
      /\ rebuilt = <<>> /\ evaluated = {} /\ edits = 0
      /\ read.jar = None /\ read.policies = None /\ read.contexts = None
      /\ DOMAIN read = {"named", "occupied", "corpus", "jar", "policies", "contexts", "families"}
  OBVIOUS
<1>2. Audited(input)
  BY EvidenceAssumption DEF Migration!MigrationAssumption, Audited
<1>3. Migration!TypeOK
  BY <1>1, EvidenceAssumption DEF Migration!MigrationAssumption, Migration!TypeOK
<1>4. BehindIt /\ Written
  BY <1>1 DEF BehindIt, Written, Places
<1> QED
  BY <1>1, <1>2, <1>3, <1>4 DEF MigrationInv, Places

(* Records that the gate saw, with its stamp.                              *)
LEMMA StampedIsAudited ==
  ASSUME NEW records \in Generated
  PROVE  Audited(Migration!Stamped(records))
BY EvidenceAssumption DEF Migration!MigrationAssumption, Migration!Stamped, Audited

(* Updated keeps all of a record but what it is to change.                 *)
LEMMA UpdatedIsRebuilt ==
  ASSUME MigrationInv, place = "records", NEW r \in Migration!ToSet(read.corpus.records),
         Migration!Rebuildable(r), Migration!Matches(r)
  PROVE  IsRebuilt(r, Migration!Updated(r))
<1> DEFINE new == Migration!Updated(r)
           P == Profile[read.families[r.family]]
<1>1. Migration!HasFields(r) /\ r.evidence # None
  BY DEF MigrationInv, BehindIt, Places, Migration!AreRecords, Migration!Rebuildable
<1>2. r.evidence.jar = read.jar
  BY <1>1 DEF MigrationInv, BehindIt, Migration!JarOf, Migration!Evidence
<1>3. new = [r EXCEPT !.features = Migration!Features(r), !.evidence.profile = P]
  BY DEF Migration!Updated
<1>4. /\ new.features = Migration!Features(r)
      /\ new.evidence = [r.evidence EXCEPT !.profile = P]
  BY <1>1, <1>3 DEF Migration!HasFields
<1>5. /\ new.evidence.profile = P /\ new.evidence.jar = r.evidence.jar
      /\ new.evidence.fingerprint = r.evidence.fingerprint
  BY <1>1, <1>4 DEF Migration!HasFields
<1>6. [r EXCEPT !.features = new.features, !.evidence.profile = new.evidence.profile] = new
  BY <1>3, <1>4, <1>5
<1>7. /\ r.evidence.fingerprint.pair = Migration!Pair(r)
      /\ r.evidence.fingerprint.policy = r.policy
      /\ r.evidence.fingerprint.mode = "BACKWARD"
      /\ r.evidence.fingerprint.jar = read.jar
  BY DEF Migration!Matches, Migration!Fingerprint
<1>8. new.features.pair = Migration!Pair(r) /\ new.features.policy = r.policy
  BY <1>4 DEF Migration!Features
<1>9. /\ new.features.pair = new.evidence.fingerprint.pair
      /\ new.features.policy = new.evidence.fingerprint.policy
      /\ new.evidence.fingerprint.jar = new.evidence.jar
      /\ new.evidence.fingerprint.mode = "BACKWARD"
  BY <1>2, <1>5, <1>7, <1>8
<1> QED
  BY <1>6, <1>9, Zenon DEF IsRebuilt

LEMMA RebuildKeepsMigrationInv ==
  ASSUME MigrationInv, Migration!Rebuild
  PROVE  MigrationInv'
<1> DEFINE old == read.corpus.records
           r == Migration!Record
           new == Migration!Updated(r)
<1>1. /\ place = "records" /\ UNCHANGED <<place, read, input, output, outside, edits, reported, evaluated>>
      /\ rebuilt' = Append(rebuilt, new) /\ Len(rebuilt) < Len(old) /\ r = old[Len(rebuilt) + 1]
      /\ Migration!Rebuildable(r) /\ Migration!Matches(r)
  BY DEF Migration!Rebuild, Migration!Files, Migration!Left, Migration!Record
<1>2. RebuiltSoFar /\ old \in Seq(Migration!ToSet(old)) /\ output = Migration!NoFile
  BY <1>1 DEF MigrationInv, BehindIt, Places, Migration!AreRecords
<1>3. /\ IsSequence(rebuilt') /\ Len(rebuilt) \in Nat /\ Len(rebuilt') = Len(rebuilt) + 1
      /\ DOMAIN rebuilt = 1..Len(rebuilt) /\ DOMAIN rebuilt' = 1..(Len(rebuilt) + 1)
      /\ \A i \in 1..Len(rebuilt) : rebuilt'[i] = rebuilt[i]
      /\ rebuilt'[Len(rebuilt) + 1] = new
  BY <1>1, <1>2, AppendIsSequence DEF RebuiltSoFar
<1>4. Len(old) \in Nat /\ Len(rebuilt) + 1 <= Len(old)
  BY <1>1, <1>2, <1>3, LenProperties
<1>5. r \in Migration!ToSet(old)
  BY <1>1, <1>2, <1>3, <1>4, LenProperties DEF Migration!ToSet
<1>6. IsRebuilt(r, new)
  BY <1>1, <1>5, UpdatedIsRebuilt
<1> HIDE DEF r, new
<1>7. ASSUME NEW i \in DOMAIN rebuilt' PROVE IsRebuilt(old[i], rebuilt'[i])
  <2>1. CASE i \in 1..Len(rebuilt)
    BY <1>2, <1>3, <2>1 DEF RebuiltSoFar
  <2>2. CASE i = Len(rebuilt) + 1
    BY <1>1, <1>3, <1>6, <2>2
  <2> QED BY <1>3, <2>1, <2>2
<1>8. RebuiltSoFar'
  BY <1>1, <1>3, <1>4, <1>7 DEF RebuiltSoFar
<1>9. Migration!TypeOK'
  BY <1>1, <1>3, <1>4 DEF MigrationInv, Migration!TypeOK, Migration!Loads, Migration!Valid, Migration!NoFile
<1>10. BehindIt' /\ Written'
  BY <1>1, <1>2, <1>8 DEF MigrationInv, BehindIt, Written, Places, Migration!NoFile, Migration!JarOf,
       Migration!Evidence, Migration!AreRecords
<1>11. Audited(input)'
  BY <1>1 DEF MigrationInv, Audited, Migration!Loads, Migration!Valid, Migration!AreRecords
<1> QED
  BY <1>1, <1>9, <1>10, <1>11 DEF MigrationInv, Migration!NoFile

(* What is said of the command's own variables changes with them only.     *)
LEMMA OwnStay ==
  ASSUME UNCHANGED <<place, read, rebuilt>>
  PROVE  /\ RebuiltSoFar' = RebuiltSoFar /\ AllRebuilt' = AllRebuilt
         /\ Migration!Migrated' = Migration!Migrated
         /\ Migration!AreRecords(read.corpus.records)' = Migration!AreRecords(read.corpus.records)
         /\ Migration!JarOf(read.corpus)' = Migration!JarOf(read.corpus)
<1>1. RebuiltSoFar' = RebuiltSoFar
  BY DEF RebuiltSoFar
<1>2. /\ Migration!Migrated' = Migration!Migrated
      /\ Migration!Valid(Migration!Migrated)' = Migration!Valid(Migration!Migrated)
  BY DEF Migration!Migrated, Migration!Valid
<1>3. AllRebuilt' = AllRebuilt
  BY <1>1, <1>2 DEF AllRebuilt
<1>4. Migration!AreRecords(read.corpus.records)' = Migration!AreRecords(read.corpus.records)
  BY DEF Migration!AreRecords
<1>5. Migration!JarOf(read.corpus)' = Migration!JarOf(read.corpus)
  BY DEF Migration!JarOf, Migration!Evidence
<1> QED
  BY <1>1, <1>2, <1>3, <1>4, <1>5

(* A step that writes no file keeps what the files are.                    *)
LEMMA FilesStay ==
  ASSUME MigrationInv, UNCHANGED Migration!Others, place # "done", place' \in Places,
         DOMAIN read' = DOMAIN read,
         read'.jar \in JarContents \cup {None}, read'.policies \in PolicyContents \cup {None},
         read'.contexts \in Resolvable \cup {None},
         rebuilt # <<>> => read'.corpus = read.corpus,
         BehindIt', Written'
  PROVE  MigrationInv'
<1>1. UNCHANGED <<input, output, outside, edits, rebuilt, reported, evaluated>>
  BY DEF Migration!Others
<1>2. reported = Migration!NoFile
  BY DEF MigrationInv
<1>3. Migration!TypeOK'
  BY <1>1, <1>2 DEF MigrationInv, Migration!TypeOK, Migration!Loads, Migration!Valid, Migration!NoFile
<1>4. Audited(input)'
  BY <1>1 DEF MigrationInv, Audited, Migration!Loads, Migration!Valid, Migration!AreRecords
<1> QED
  BY <1>1, <1>2, <1>3, <1>4 DEF MigrationInv, Migration!NoFile

(* An error, or the end of the process.                                    *)
LEMMA FailureKeepsMigrationInv ==
  ASSUME MigrationInv, place \notin {"done", "failed"}, place' = "failed", UNCHANGED read,
         UNCHANGED Migration!Others
  PROVE  MigrationInv'
<1>1. UNCHANGED <<output, rebuilt>>
  BY DEF Migration!Others
<1>2. BehindIt'
  BY DEF BehindIt, Places
<1>3. Written'
  BY <1>1 DEF MigrationInv, Written, AllRebuilt, RebuiltSoFar, Migration!NoFile, Migration!Migrated,
       Migration!Valid
<1>4. place' \in Places /\ place # "done"
  BY DEF Places
<1> QED
  BY <1>2, <1>3, <1>4, FilesStay DEF MigrationInv, Migration!TypeOK

LEMMA ReadsKeepMigrationInv ==
  ASSUME MigrationInv,
         \/ Migration!CheckOutput \/ Migration!LoadInput \/ Migration!HashJar
         \/ Migration!HashPolicies \/ Migration!LoadContexts \/ Migration!SampleSource
  PROVE  MigrationInv'
<1>1. /\ UNCHANGED Migration!Others /\ UNCHANGED <<input, output, outside, rebuilt>>
      /\ place \in {"start", "load", "jar", "policies", "contexts", "sample"}
      /\ place' \in {"load", "jar", "policies", "contexts", "sample", "records"}
  BY DEF Migration!CheckOutput, Migration!LoadInput, Migration!HashJar, Migration!HashPolicies,
       Migration!LoadContexts, Migration!SampleSource, Migration!Step, Migration!Others
<1>2. rebuilt = <<>> /\ output = Migration!NoFile
  BY <1>1 DEF MigrationInv, BehindIt
<1>3. place # "done" /\ place' \in Places /\ Written'
  BY <1>1, <1>2 DEF Places, Written, Migration!NoFile
<1>4. SUFFICES /\ DOMAIN read' = DOMAIN read
               /\ read'.jar \in JarContents \cup {None} /\ read'.policies \in PolicyContents \cup {None}
               /\ read'.contexts \in Resolvable \cup {None}
               /\ BehindIt'
  BY <1>1, <1>2, <1>3, FilesStay
<1>5. /\ read.jar \in JarContents \cup {None} /\ read.policies \in PolicyContents \cup {None}
      /\ read.contexts \in Resolvable \cup {None}
      /\ outside.jar \in JarContents /\ outside.policies \in PolicyContents
      /\ DOMAIN read = {"named", "occupied", "corpus", "jar", "policies", "contexts", "families"}
  BY DEF MigrationInv, Migration!TypeOK
<1>6. rebuilt' = <<>> /\ output' = Migration!NoFile'
  BY <1>1, <1>2 DEF Migration!NoFile
<1>7. CASE Migration!CheckOutput
  <2>1. place' = "load" /\ UNCHANGED read /\ ~read.occupied
    BY <1>7 DEF Migration!CheckOutput, Migration!Step
  <2>2. BehindIt'
    BY <1>6, <2>1 DEF BehindIt, Places
  <2> QED BY <1>5, <2>1, <2>2
<1>8. CASE Migration!LoadInput
  <2>1. /\ place = "load" /\ place' = "jar" /\ read' = [read EXCEPT !.corpus = input]
        /\ Migration!Loads(input)
    BY <1>8 DEF Migration!LoadInput, Migration!Step
  <2>2. Migration!AreRecords(input.records) /\ ~read.occupied
    BY <2>1 DEF MigrationInv, Audited, BehindIt, Places
  <2>3. read'.corpus = input /\ ~read'.occupied
    BY <1>5, <2>1, <2>2
  <2>4. Migration!AreRecords(read.corpus.records)'
    BY <2>2, <2>3 DEF Migration!AreRecords
  <2>5. BehindIt'
    BY <1>6, <2>1, <2>3, <2>4 DEF BehindIt, Places
  <2> QED BY <1>5, <2>1, <2>5
<1>9. CASE Migration!HashJar
  <2>1. /\ place = "jar" /\ place' = "policies" /\ read' = [read EXCEPT !.jar = outside.jar]
        /\ {outside.jar} = Migration!JarOf(read.corpus)
    BY <1>9 DEF Migration!HashJar, Migration!Step
  <2>2. Migration!AreRecords(read.corpus.records) /\ ~read.occupied
    BY <2>1 DEF MigrationInv, BehindIt, Places
  <2>3. read'.corpus = read.corpus /\ read'.jar = outside.jar /\ ~read'.occupied
    BY <1>5, <2>1, <2>2
  <2>4. /\ Migration!AreRecords(read.corpus.records)'
        /\ ({read.jar} = Migration!JarOf(read.corpus))'
    BY <2>1, <2>2, <2>3 DEF Migration!AreRecords, Migration!JarOf, Migration!Evidence
  <2>5. BehindIt'
    BY <1>6, <2>1, <2>3, <2>4 DEF BehindIt, Places
  <2> QED BY <1>5, <2>1, <2>5
<1>10. CASE \/ Migration!HashPolicies \/ Migration!LoadContexts \/ Migration!SampleSource
  <2>1. /\ place \in {"policies", "contexts", "sample"} /\ place' \in {"contexts", "sample", "records"}
        /\ \/ read' = [read EXCEPT !.policies = outside.policies]
           \/ read' = [read EXCEPT !.contexts = outside.policies] /\ outside.policies \in Resolvable
           \/ read' = [read EXCEPT !.families = SampledFamilies[outside.source]]
    BY <1>10 DEF Migration!HashPolicies, Migration!LoadContexts, Migration!SampleSource, Migration!Step
  <2>2. /\ Migration!AreRecords(read.corpus.records) /\ ~read.occupied
        /\ {read.jar} = Migration!JarOf(read.corpus)
    BY <2>1 DEF MigrationInv, BehindIt, Places
  <2>3. /\ DOMAIN read' = DOMAIN read /\ read'.corpus = read.corpus /\ read'.jar = read.jar
        /\ read'.occupied = read.occupied
        /\ read'.policies \in PolicyContents \cup {None} /\ read'.contexts \in Resolvable \cup {None}
    BY <1>5, <2>1
  <2>4. /\ Migration!AreRecords(read.corpus.records)'
        /\ ({read.jar} = Migration!JarOf(read.corpus))'
    BY <2>2, <2>3 DEF Migration!AreRecords, Migration!JarOf, Migration!Evidence
  <2>5. RebuiltSoFar'
    <3>1. Len(rebuilt') = 0 /\ DOMAIN rebuilt' = {} /\ IsSequence(rebuilt')
      BY <1>6 DEF IsSequence
    <3>2. Len(read.corpus.records) \in Nat
      BY <2>2, LenProperties DEF Migration!AreRecords
    <3> QED BY <2>3, <3>1, <3>2 DEF RebuiltSoFar
  <2>6. BehindIt'
    BY <1>6, <2>1, <2>2, <2>3, <2>4, <2>5 DEF BehindIt, Places
  <2> QED BY <1>5, <2>3, <2>6
<1> QED
  BY <1>7, <1>8, <1>9, <1>10

LEMMA WriteKeepsMigrationInv ==
  ASSUME MigrationInv, Migration!Write
  PROVE  MigrationInv'
<1>1. /\ place = "records" /\ place' = "rename" /\ ~Migration!Left /\ Migration!Valid(Migration!Migrated)
      /\ UNCHANGED read /\ UNCHANGED Migration!Others /\ UNCHANGED <<output, rebuilt>>
  BY DEF Migration!Write, Migration!Step, Migration!Others
<1>2. /\ RebuiltSoFar /\ output = Migration!NoFile /\ ~read.occupied
      /\ Migration!AreRecords(read.corpus.records)
  BY <1>1 DEF MigrationInv, BehindIt, Places
<1>3. Len(rebuilt) = Len(read.corpus.records)
  <2>1. Len(rebuilt) \in Nat /\ Len(read.corpus.records) \in Nat
    BY <1>2, LenProperties DEF RebuiltSoFar, IsSequence, Migration!AreRecords
  <2> QED BY <1>1, <1>2, <2>1 DEF RebuiltSoFar, Migration!Left
<1>4. AllRebuilt /\ AllRebuilt'
  BY <1>1, <1>2, <1>3 DEF AllRebuilt, RebuiltSoFar, Migration!Migrated, Migration!Valid
<1>5. BehindIt' /\ Written'
  BY <1>1, <1>2, <1>4 DEF BehindIt, Written, Places, Migration!NoFile, Migration!AreRecords
<1> QED
  BY <1>1, <1>5, FilesStay DEF MigrationInv, Migration!TypeOK, Places

LEMMA SaveKeepsMigrationInv ==
  ASSUME MigrationInv, Migration!Rename \/ Migration!Report
  PROVE  MigrationInv'
<1>1. /\ place \in {"rename", "reload"} /\ place' \in {"reload", "done"} /\ (place = "rename" => place' = "reload")
      /\ UNCHANGED <<input, outside, edits, read, rebuilt, evaluated>>
  BY DEF Migration!Rename, Migration!Report, Migration!Step
<1>2. /\ Migration!AreRecords(read.corpus.records) /\ ~read.occupied
      /\ reported = Migration!NoFile
  BY <1>1 DEF MigrationInv, BehindIt, Places
<1>3. BehindIt'
  BY <1>1, <1>2 DEF BehindIt, Places, Migration!AreRecords
<1>4. Audited(input)'
  BY <1>1 DEF MigrationInv, Audited, Migration!Loads, Migration!Valid, Migration!AreRecords
<1>5. CASE Migration!Rename
  <2>1. /\ place = "rename" /\ place' = "reload" /\ output' = Migration!Migrated /\ UNCHANGED reported
    BY <1>5 DEF Migration!Rename, Migration!Step
  <2>2. AllRebuilt
    BY <2>1 DEF MigrationInv, BehindIt
  <2>3. AllRebuilt' /\ output' = Migration!Migrated'
    BY <1>1, <2>1, <2>2 DEF AllRebuilt, RebuiltSoFar, Migration!Migrated, Migration!Valid
  <2>4. Migration!Loads(output)'
    BY <2>1, <2>2 DEF AllRebuilt, Migration!Loads, Migration!Migrated, Migration!Versions, Migration!Valid
  <2>5. Written'
    BY <1>1, <1>2, <2>1, <2>3 DEF Written
  <2>6. Migration!TypeOK'
    BY <1>1, <1>2, <2>1, <2>4 DEF MigrationInv, Migration!TypeOK, Migration!NoFile
  <2> QED
    BY <1>1, <1>2, <1>3, <1>4, <2>1, <2>5, <2>6 DEF MigrationInv, Places, Migration!NoFile
<1>6. CASE Migration!Report
  <2>1. place = "reload" /\ place' = "done" /\ reported' = output /\ UNCHANGED output
    BY <1>6 DEF Migration!Report, Migration!Step
  <2>2. Written'
    BY <1>1, <2>1 DEF MigrationInv, Written, AllRebuilt, RebuiltSoFar, Migration!NoFile, Migration!Migrated,
         Migration!Valid
  <2>3. Migration!TypeOK'
    BY <1>1, <2>1 DEF MigrationInv, Migration!TypeOK, Migration!Loads, Migration!Valid, Migration!NoFile
  <2> QED
    BY <1>1, <1>3, <1>4, <2>1, <2>2, <2>3 DEF MigrationInv, Places, Migration!NoFile
<1> QED
  BY <1>5, <1>6

(* What others do: a corpus is generated or evaluated, a file replaced or  *)
(* removed.                                                                *)
LEMMA OthersKeepMigrationInv ==
  ASSUME MigrationInv,
         Migration!Generate \/ Migration!Evaluate \/ Migration!Edit \/ Migration!Discard
  PROVE  MigrationInv'
<1>1. UNCHANGED <<place, read, rebuilt, reported>> /\ output' \in {output, Migration!NoFile}
  BY DEF Migration!Generate, Migration!Evaluate, Migration!Edit, Migration!Discard
<1>2. edits \in 0..MaxEdits /\ MaxEdits \in Nat /\ None \notin BOOLEAN
  BY EvidenceAssumption DEF MigrationInv, Migration!TypeOK, Migration!MigrationAssumption
<1>3. edits' \in 0..MaxEdits
  BY <1>2 DEF Migration!Generate, Migration!Evaluate, Migration!Edit, Migration!Discard
<1>4. BehindIt'
  BY <1>1, OwnStay DEF MigrationInv, BehindIt, Migration!NoFile
<1>5. Written'
  BY <1>1, OwnStay DEF MigrationInv, Written, Migration!NoFile
<1>6. Migration!TypeOK'
  BY <1>1, <1>3 DEF MigrationInv, Migration!TypeOK, Migration!Loads, Migration!Valid, Migration!NoFile
<1>7. reported' # Migration!NoFile' => place' = "done" /\ output' \in {reported', Migration!NoFile'}
  BY <1>1 DEF MigrationInv, Migration!NoFile
<1>8. outside' \in [jar : JarContents, policies : PolicyContents, source : DOMAIN SampledFamilies]
  <2>1. CASE Migration!Edit
    BY <2>1 DEF MigrationInv, Migration!Edit
  <2>2. CASE UNCHANGED outside
    BY <2>2 DEF MigrationInv
  <2> QED BY <2>1, <2>2 DEF Migration!Generate, Migration!Evaluate, Migration!Discard
<1>9. Audited(input)'
  <2>1. CASE Migration!Generate
    <3>1. PICK records \in Generated : input' = Migration!Stamped(records)
      BY <2>1 DEF Migration!Generate
    <3>2. Audited(Migration!Stamped(records))
      BY StampedIsAudited
    <3> QED BY <3>1, <3>2 DEF Audited, Migration!Loads, Migration!Valid, Migration!AreRecords
  <2>2. CASE UNCHANGED input
    BY <2>2 DEF MigrationInv, Audited, Migration!Loads, Migration!Valid, Migration!AreRecords
  <2> QED BY <2>1, <2>2 DEF Migration!Evaluate, Migration!Edit, Migration!Discard
<1>10. \A corpus \in evaluated' : Ready(corpus.records)
  <2>1. CASE Migration!Evaluate
    <3>1. PICK corpus \in {input, output} :
            /\ Migration!Loads(corpus) /\ corpus.stamp = TRUE /\ evaluated' = evaluated \cup {corpus}
      BY <2>1 DEF Migration!Evaluate, Migration!RequireReady
    <3>2. output.stamp = None
      BY DEF MigrationInv, Written, Migration!Migrated, Migration!NoFile
    <3>3. corpus = input
      BY <1>2, <3>1, <3>2
    <3>4. Ready(input.records)
      BY <3>1, <3>3 DEF MigrationInv, Audited
    <3> QED BY <3>1, <3>3, <3>4 DEF MigrationInv
  <2>2. CASE UNCHANGED evaluated
    BY <2>2 DEF MigrationInv
  <2> QED BY <2>1, <2>2 DEF Migration!Generate, Migration!Edit, Migration!Discard
<1> QED
  BY <1>1, <1>4, <1>5, <1>6, <1>7, <1>8, <1>9, <1>10 DEF MigrationInv

LEMMA IdleKeepsMigrationInv ==
  ASSUME MigrationInv, UNCHANGED Migration!vars
  PROVE  MigrationInv'
<1>1. UNCHANGED <<input, output, outside, edits, place, read, rebuilt, reported, evaluated>>
  BY DEF Migration!vars
<1>2. Migration!TypeOK'
  BY <1>1 DEF MigrationInv, Migration!TypeOK, Migration!Loads, Migration!Valid, Migration!NoFile
<1>3. BehindIt' /\ Written'
  BY <1>1, OwnStay DEF MigrationInv, BehindIt, Written, Migration!NoFile
<1>4. Audited(input)'
  BY <1>1 DEF MigrationInv, Audited, Migration!Loads, Migration!Valid, Migration!AreRecords
<1> QED
  BY <1>1, <1>2, <1>3, <1>4 DEF MigrationInv, Migration!NoFile

LEMMA MigrationStepKeepsInv ==
  ASSUME MigrationInv, Migration!Next
  PROVE  MigrationInv'
<1>1. CASE \/ Migration!CheckOutput \/ Migration!LoadInput \/ Migration!HashJar
           \/ Migration!HashPolicies \/ Migration!LoadContexts \/ Migration!SampleSource
  BY <1>1, ReadsKeepMigrationInv
<1>2. CASE Migration!Rebuild
  BY <1>2, RebuildKeepsMigrationInv
<1>3. CASE Migration!Write
  BY <1>3, WriteKeepsMigrationInv
<1>4. CASE Migration!Rename \/ Migration!Report
  BY <1>4, SaveKeepsMigrationInv
<1>5. CASE \/ Migration!OutputExists \/ Migration!InputRefused \/ Migration!JarRefused
           \/ Migration!PoliciesRefused \/ Migration!ContextsRefused \/ Migration!RecordRefused
           \/ Migration!RecordsInvalid \/ Migration!WriteFails \/ Migration!ReportFails \/ Migration!Crash
  <2>1. /\ place \notin {"done", "failed"} /\ place' = "failed" /\ UNCHANGED read
        /\ UNCHANGED Migration!Others
    BY <1>5 DEF Migration!OutputExists, Migration!InputRefused, Migration!JarRefused,
         Migration!PoliciesRefused, Migration!ContextsRefused, Migration!RecordRefused,
         Migration!RecordsInvalid, Migration!WriteFails, Migration!ReportFails, Migration!Crash,
         Migration!Refuse, Migration!Step
  <2> QED BY <2>1, FailureKeepsMigrationInv
<1>6. CASE Migration!Generate \/ Migration!Evaluate \/ Migration!Edit \/ Migration!Discard
  BY <1>6, OthersKeepMigrationInv
<1> QED
  BY <1>1, <1>2, <1>3, <1>4, <1>5, <1>6, IdleKeepsMigrationInv
     DEF Migration!Next, Migration!Migrate, Migration!Ended

(* Whatever corpora there are, whatever is replaced between two reads and  *)
(* wherever the command ends: what refeature-v6 has written has features   *)
(* of the pairs that were judged, is what was loaded but for them, is not  *)
(* evaluated unaudited, and is there only once it was renamed              *)
(* (refeature_v6, refeature_v5_as_v6).                                     *)
THEOREM MigrationSound == Spec => []MigrationKeepsEvidence
<1> DEFINE Inv == component = "migration" => MigrationInv
<1>1. Init => Inv
  BY MigrationStarts DEF Init
<1>2. Inv /\ [Next]_vars => Inv'
  <2>1. CASE component = "migration" /\ Migration!Next /\ UNCHANGED component
    BY <2>1, MigrationStepKeepsInv
  <2>2. CASE component # "migration" /\ UNCHANGED component
    BY <2>2
  <2>3. CASE UNCHANGED vars
    <3>1. UNCHANGED component /\ UNCHANGED Migration!vars
      BY <2>3 DEF vars, Migration!vars
    <3> QED BY <3>1, IdleKeepsMigrationInv
  <2> QED BY <2>1, <2>2, <2>3 DEF Next
<1>3. Inv => MigrationKeepsEvidence
  <2> SUFFICES ASSUME MigrationInv
               PROVE  /\ Migration!FeaturesBelongToPairs /\ Migration!OnlyFeaturesChange
                      /\ Migration!EvaluatedWereAudited /\ Migration!OutputOnlyWhenRenamed
    BY DEF MigrationKeepsEvidence, MigrationInv
  <2>1. CASE output = Migration!NoFile
    <3>1. Migration!Persisted = {}
      BY <2>1 DEF Migration!Persisted, Migration!NoFile, Migration!ToSet
    <3> QED BY <2>1, <3>1 DEF MigrationInv, Migration!FeaturesBelongToPairs, Migration!OnlyFeaturesChange,
              Migration!EvaluatedWereAudited, Migration!OutputOnlyWhenRenamed
  <2>2. CASE output # Migration!NoFile
    <3>1. /\ place \in {"reload", "done", "failed"} /\ ~read.occupied
          /\ RebuiltSoFar /\ Len(rebuilt) = Len(read.corpus.records) /\ output.records = rebuilt
      BY <2>2 DEF MigrationInv, Written, AllRebuilt, Migration!Migrated
    <3>2. /\ Len(output.records) = Len(read.corpus.records)
          /\ \A i \in DOMAIN output.records : IsRebuilt(read.corpus.records[i], output.records[i])
      <4>1. \A i \in DOMAIN rebuilt : IsRebuilt(read.corpus.records[i], rebuilt[i])
        BY <3>1 DEF RebuiltSoFar
      <4> QED BY <3>1, <4>1, Zenon
    <3>3. Migration!FeaturesBelongToPairs
      <4> SUFFICES ASSUME NEW r \in Migration!Persisted
                   PROVE  /\ r.features.pair = r.evidence.fingerprint.pair
                          /\ r.features.policy = r.evidence.fingerprint.policy
                          /\ r.evidence.fingerprint.jar = r.evidence.jar
                          /\ r.evidence.fingerprint.mode = "BACKWARD"
        BY DEF Migration!FeaturesBelongToPairs
      <4>1. PICK i \in DOMAIN output.records : r = output.records[i]
        BY Zenon DEF Migration!Persisted, Migration!ToSet
      <4>2. IsRebuilt(read.corpus.records[i], r)
        BY <3>2, <4>1
      <4> QED BY <4>2, Zenon DEF IsRebuilt
    <3>4. Migration!OnlyFeaturesChange
      BY <3>2, Zenon DEF IsRebuilt, Migration!OnlyFeaturesChange
    <3> QED BY <3>1, <3>3, <3>4 DEF MigrationInv, Migration!EvaluatedWereAudited,
              Migration!OutputOnlyWhenRenamed
  <2> QED BY <2>1, <2>2
<1> QED
  BY <1>1, <1>2, <1>3, PTL DEF Spec

=============================================================================
