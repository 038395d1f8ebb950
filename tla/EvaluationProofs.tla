-------------------------- MODULE EvaluationProofs --------------------------
(***************************************************************************)
(* For any manifests, corpora, models and splits, and whatever is replaced *)
(* or left half done between two commands: what is scored was not trained  *)
(* on, and what the JAR is asked about lies apart from V9.                 *)
(***************************************************************************)
EXTENDS Evaluation, FiniteSetTheorems, SequenceTheorems, WellFoundedInduction, TLAPS

-----------------------------------------------------------------------------
(* A set of numbers that has zero and all successors has every number.     *)
LEMMA Induction ==
  ASSUME NEW S, 0 \in S, \A n \in Nat : n \in S => n + 1 \in S
  PROVE  Nat \subseteq S
<1> DEFINE R == OpToRel(<, Nat)
           T == Nat \ S
<1>1. IsWellFoundedOn(R, Nat)
  BY NatLessThanWellFounded
<1>2. SUFFICES ASSUME T # {} PROVE FALSE
  OBVIOUS
<1>3. PICK n \in T : \A m \in T : ~(<<m, n>> \in R)
  <2>1. T \subseteq Nat
    OBVIOUS
  <2> HIDE DEF T, R
  <2> QED BY <1>1, <1>2, <2>1, WFMin
<1>4. \A m \in Nat : m < n => m \in S
  <2>1. \A x, y \in Nat : x < y => <<x, y>> \in R
    BY DEF OpToRel
  <2> HIDE DEF R
  <2> QED BY <1>3, <2>1
<1> HIDE DEF R
<1>5. n \in Nat /\ n # 0 /\ n - 1 \in Nat /\ n - 1 < n
  BY <1>3
<1> QED
  BY <1>3, <1>4, <1>5

(* The least number of a set.                                              *)
LEMMA LeastExists ==
  ASSUME NEW S, S \subseteq Nat, S # {}
  PROVE  Min(S) \in S /\ \A y \in S : Min(S) <= y
<1> DEFINE T == {k \in Nat : \/ \A y \in S : ~(y <= k)
                             \/ \E x \in S : \A y \in S : x <= y}
<1>1. 0 \in T
  OBVIOUS
<1>2. ASSUME NEW k \in Nat, k \in T PROVE k + 1 \in T
  <2>1. \/ \A y \in S : ~(y <= k)
        \/ \E x \in S : \A y \in S : x <= y
    BY <1>2
  <2>2. CASE \A y \in S : ~(y <= k)
    BY <2>2
  <2> QED BY <2>1, <2>2
<1> HIDE DEF T
<1>3. Nat \subseteq T
  BY <1>1, <1>2, Induction
<1>4. PICK n \in S : n \in Nat
  OBVIOUS
<1>5. \E x \in S : \A y \in S : x <= y
  BY <1>3, <1>4 DEF T
<1> QED
  BY <1>5 DEF Min

LEMMA LeastOfTwo ==
  ASSUME NEW a \in Nat, NEW b \in Nat
  PROVE  Min({a, b}) = IF a <= b THEN a ELSE b
<1>1. Min({a, b}) \in {a, b} /\ \A y \in {a, b} : Min({a, b}) <= y
  BY LeastExists
<1> QED BY <1>1

(* In a finite set under a strict total order, few elements have few       *)
(* below them: those with fewer than n are n, or all.                      *)
Below(S, R, r) == {q \in S : <<q, r>> \in R}
First_(S, R, n) == {r \in S : Cardinality(Below(S, R, r)) < n}

StrictOrder(S, R) ==
  /\ \A q, r \in S : <<q, r>> \in R => <<r, q>> \notin R
  /\ \A p, q, r \in S : <<p, q>> \in R /\ <<q, r>> \in R => <<p, r>> \in R
  /\ \A q, r \in S : q # r => <<q, r>> \in R \/ <<r, q>> \in R

LEMMA Ranks ==
  ASSUME NEW S, NEW R, IsFiniteSet(S), StrictOrder(S, R), NEW n \in Nat
  PROVE  /\ Cardinality(First_(S, R, n)) = IF n <= Cardinality(S) THEN n ELSE Cardinality(S)
         /\ S # {} => \E r \in S : /\ \A q \in S : q # r => <<r, q>> \in R
                                   /\ n > 0 => r \in First_(S, R, n)
<1> DEFINE rank == [r \in S |-> Cardinality(Below(S, R, r))]
           c == Cardinality(S)
<1>1. c \in Nat
  BY FS_CardinalityType
<1>2. ASSUME NEW r \in S
      PROVE  /\ IsFiniteSet(Below(S, R, r)) /\ rank[r] = Cardinality(Below(S, R, r))
             /\ rank[r] \in Nat /\ rank[r] < c
  <2>1. Below(S, R, r) \in SUBSET S /\ r \notin Below(S, R, r)
    BY DEF Below, StrictOrder
  <2>2. /\ IsFiniteSet(Below(S, R, r))
        /\ Cardinality(Below(S, R, r)) <= c
        /\ Cardinality(Below(S, R, r)) # c
    BY <2>1, FS_Subset
  <2> QED BY <2>2, <1>1, FS_CardinalityType
<1>3. ASSUME NEW q \in S, NEW r \in S, <<q, r>> \in R
      PROVE  rank[q] < rank[r]
  <2>1. Below(S, R, q) \cup {q} \in SUBSET Below(S, R, r) /\ q \notin Below(S, R, q)
    BY <1>3 DEF Below, StrictOrder
  <2>2. Cardinality(Below(S, R, q) \cup {q}) = Cardinality(Below(S, R, q)) + 1
    BY <1>2, <2>1, FS_AddElement
  <2>3. Cardinality(Below(S, R, q) \cup {q}) <= Cardinality(Below(S, R, r))
    BY <1>2, <2>1, FS_Subset
  <2> QED BY <1>2, <2>2, <2>3
<1> HIDE DEF rank
<1>4. ASSUME NEW q \in S, NEW r \in S, rank[q] = rank[r] PROVE q = r
  <2>1. rank[q] \in Nat /\ rank[r] \in Nat
    BY <1>2
  <2>2. <<q, r>> \notin R /\ <<r, q>> \notin R
    BY <2>1, <1>3, <1>4
  <2> QED BY <2>2 DEF StrictOrder
<1>5. rank \in [S -> 0..(c - 1)]
  BY <1>1, <1>2 DEF rank
<1>6. /\ IsFiniteSet(0..(c - 1)) /\ Cardinality(0..(c - 1)) = c
  BY <1>1, FS_Interval
<1>7. rank \in Surjection(S, 0..(c - 1))
  <2>1. rank \in Injection(S, 0..(c - 1))
    BY <1>4, <1>5 DEF Injection, IsInjective
  <2> QED BY <2>1, <1>6, FS_Injection
<1>8. \A k \in 0..(c - 1) : \E r \in S : rank[r] = k
  BY <1>7 DEF Surjection
<1>9. First_(S, R, n) = {r \in S : rank[r] < n}
  BY <1>2 DEF First_
<1> DEFINE m == IF n <= c THEN n ELSE c
           F == First_(S, R, n)
<1>10. Cardinality(F) = m
  <2> DEFINE f == [r \in F |-> rank[r]]
  <2>1. f \in [F -> 0..(m - 1)]
    BY <1>1, <1>2, <1>9
  <2>2. \A q, r \in F : f[q] = f[r] => q = r
    BY <1>4, <1>9
  <2>3. \A k \in 0..(m - 1) : \E r \in F : f[r] = k
    BY <1>1, <1>8, <1>9
  <2>4. f \in Bijection(F, 0..(m - 1))
    BY <2>1, <2>2, <2>3 DEF Bijection, Injection, Surjection, IsInjective
  <2>5. IsFiniteSet(F)
    BY FS_Subset, <1>9
  <2>6. Cardinality(0..(m - 1)) = Cardinality(F)
    BY <2>4, <2>5, FS_Bijection DEF ExistsBijection
  <2>7. m \in Nat
    BY <1>1
  <2> HIDE DEF m
  <2>8. Cardinality(0..(m - 1)) = m
    BY <2>7, FS_Interval
  <2> QED BY <2>6, <2>8
<1>11. ASSUME S # {}
       PROVE  \E r \in S : /\ \A q \in S : q # r => <<r, q>> \in R
                           /\ n > 0 => r \in F
  <2>1. c # 0
    BY <1>11, FS_EmptySet
  <2>2. PICK r \in S : rank[r] = 0
    BY <1>1, <1>8, <2>1
  <2>3. ASSUME NEW q \in S, q # r PROVE <<r, q>> \in R
    <3>1. rank[q] \in Nat
      BY <1>2
    <3>2. <<q, r>> \notin R
      BY <3>1, <1>3, <2>2
    <3> QED BY <3>2, <2>3 DEF StrictOrder
  <2> QED BY <2>2, <2>3, <1>9
<1> QED BY <1>10, <1>11

-----------------------------------------------------------------------------
(* The experiments.  What a command x has read, checked, created and made. *)
Steps == {"idle", "load", "verify", "fresh", "create", "gate", "ready",
          "fit", "write", "done", "refused", "stopped"}

HasCorpus(x) ==
  \/ x.pc \in {"verify", "gate", "create", "ready", "fit", "write", "done"}
  \/ x.kind = "three_way" /\ x.pc = "fresh"
  \/ x.results # {}

PassedGate(x) ==
  \/ x.pc \in {"ready", "fit", "write", "done"}
  \/ x.kind = "binary" /\ x.pc = "create"
  \/ x.results # {}

FoundFresh(x) ==
  \/ x.pc \in {"create", "gate", "ready", "fit"}
  \/ x.kind = "binary" /\ x.pc \in {"load", "verify"}

HasDirectory(x) ==
  \/ x.pc \in {"ready", "fit", "write"}
  \/ x.kind = "three_way" /\ x.pc = "gate"

(* What a result of the corpus c says.                                     *)
ThreeWayResult(c, r) ==
  /\ r.protocol \in Protocols(c) /\ r.status = Status(r.protocol, c)
  /\ r.status = "scored" => r.trained \subseteq TrainingSet(r.protocol, c)
  /\ r.protocol # Normal => r.evaluated = ChallengeSubset(r.protocol, c)
  /\ r.protocol = Normal => \A t \in r.trained, e \in r.evaluated : t.family # e.family

BinaryResult(c, r) ==
  /\ r.protocol = Normal /\ r.status = "scored"
  /\ r.trained \subseteq Standard(c) /\ r.evaluated = Challenge(c)

ResultOf(x, r) ==
  IF x.kind = "three_way" THEN ThreeWayResult(Corpora[x.data], r)
                          ELSE BinaryResult(Corpora[x.data], r)

HasShape(x) == x = [pc |-> x.pc, kind |-> x.kind, data |-> x.data, hash |-> x.hash,
                    done |-> x.done, results |-> x.results]

CommandInv(x) ==
  /\ HasShape(x) /\ x.pc \in Steps
  /\ x.data \in DOMAIN Corpora \cup {None} /\ x.hash \in DOMAIN Corpora \cup {None}
  /\ x.pc # "idle" => x.kind \in {"three_way", "binary"}
  /\ x.pc = "ready" => x.kind = "three_way"
  /\ x.pc = "write" => x.kind = "binary"
  /\ HasCorpus(x) => x.data \in DOMAIN Corpora
  /\ PassedGate(x) => Corpora[x.data].stamp = TRUE
  /\ x.results # {} => x.pc \in {"fit", "write", "done", "stopped"}
  /\ \A r \in x.results : ResultOf(x, r)
  /\ \A u \in x.done : \E r \in x.results : r.seed = u[1] /\ r.protocol = u[2]

(* The models of the scored results are in the directory, and are k's.     *)
ModelsIn(models, k, results) ==
  \A r \in results : r.status = "scored" =>
    \E m \in models : m.file = FileOf(r.seed, r.protocol) /\ m.by = k

AllDone(x) ==
  {s \in Seeds : ~(({s} \X (IF x.kind = "binary" THEN {Normal} ELSE ProtocolsIn[x.data])) \subseteq x.done)} = {}

ReportOf(k, x, d) ==
  /\ d.report = [by |-> k, kind |-> x.kind, hash |-> x.hash, data |-> x.data,
                 results |-> x.results, whole |-> d.report.whole]
  /\ AllDone(x) /\ ModelsIn(d.models, k, x.results)

Runs(x) == x.pc \notin {"idle", "done", "refused", "stopped"}

(* What holds between a command x, its process k and the directory d.      *)
WorkInv(k, x, d) ==
  /\ FoundFresh(x) => d.report = None /\ \A m \in d.models : m.by = k
  /\ HasDirectory(x) => d.exists
  /\ x.pc = "fit" => ModelsIn(d.models, k, x.results)
  /\ x.pc = "write" => ReportOf(k, x, d)

DirectoryInv(d) ==
  /\ d = [exists |-> d.exists, models |-> d.models, report |-> d.report]
  /\ d.exists \in BOOLEAN
  /\ ~Empty(d) => d.exists

ReportInv ==
  dir.report # None =>
    \E k \in Commands : cmd[k].pc \in {"write", "done", "stopped"} /\ ReportOf(k, cmd[k], dir)

ExperimentInv ==
  /\ file \in DOMAIN Corpora /\ swapped \in BOOLEAN
  /\ cmd = [k \in Commands |-> cmd[k]]
  /\ \A k \in Commands : CommandInv(cmd[k])
  /\ \A j, k \in Commands : Runs(cmd[j]) /\ Runs(cmd[k]) => j = k
  /\ DirectoryInv(dir)
  /\ \A k \in Commands : WorkInv(k, cmd[k], dir)
  /\ ReportInv

-----------------------------------------------------------------------------
(* The protocols of a corpus, stage by stage.                              *)
LEMMA ProtocolStages ==
  ASSUME NEW c
  PROVE  /\ DOMAIN Stages(c) = 1..5 /\ Stages(c)[1] = {Normal}
         /\ \A i \in 1..5 : Paired \in Stages(c)[i] => i = 5
         /\ \A p : p \in Protocols(c) <=> \E i \in 1..5 : p \in Stages(c)[i]
         /\ \A p \in Protocols(c) :
              p[1] \in {"normal", "paired", "policy", "mutation", "variant"}
              /\ (p[1] = "normal" => p = Normal) /\ (p[1] = "paired" => p = Paired)
<1>1. DOMAIN Stages(c) = 1..5
  BY DEF Stages
<1>2. /\ Stages(c)[1] = {Normal} /\ Stages(c)[5] = {Paired}
      /\ Stages(c)[2] = {<<"policy", r.policy, None>> : r \in Standard(c)}
      /\ Stages(c)[3] = {<<"mutation", m, None>> : m \in Mutations(c)}
      /\ Stages(c)[4] = UNION {VariantProtocols(m, c) : m \in Mutations(c) \cap Structural}
  BY DEF Stages
<1>3. \A p \in Stages(c)[4] : p[1] = "variant"
  BY <1>2 DEF VariantProtocols
<1>4. \A p : p \in Protocols(c) <=> \E i \in 1..5 : p \in Stages(c)[i]
  <2>1. Range(Stages(c)) = {Stages(c)[i] : i \in 1..5}
    BY <1>1 DEF Range
  <2> QED BY <2>1 DEF Protocols
<1>5. Paired[1] = "paired" /\ Normal[1] = "normal"
  BY DEF Paired, Normal
<1>6. \A i \in 1..5 : i = 1 \/ i = 2 \/ i = 3 \/ i = 4 \/ i = 5
  OBVIOUS
<1>7. \A i \in 1..5 : Paired \in Stages(c)[i] => i = 5
  BY <1>2, <1>3, <1>5, <1>6
<1>8. ASSUME NEW p \in Protocols(c)
      PROVE  /\ p[1] \in {"normal", "paired", "policy", "mutation", "variant"}
             /\ (p[1] = "normal" => p = Normal) /\ (p[1] = "paired" => p = Paired)
  <2>1. PICK i \in 1..5 : p \in Stages(c)[i]
    BY <1>4
  <2> QED BY <1>2, <1>3, <1>5, <1>6, <2>1
<1> QED
  BY <1>1, <1>2, <1>4, <1>7, <1>8

LEMMA NextIsLeft ==
  ASSUME NEW c, NEW done, ~(Protocols(c) \subseteq done)
  PROVE  LET p == NextProtocol(done, Stages(c))
         IN  p \in Protocols(c) /\ p \notin done /\ (p = Paired => Normal \in done)
<1> DEFINE open == {i \in DOMAIN Stages(c) : ~(Stages(c)[i] \subseteq done)}
           i == Min(open)
           p == NextProtocol(done, Stages(c))
<1>1. i \in open /\ \A j \in open : i <= j
  <2>1. open \subseteq Nat
    BY ProtocolStages
  <2>2. open # {}
    BY ProtocolStages
  <2> HIDE DEF open
  <2> QED BY <2>1, <2>2, LeastExists
<1>2. p = CHOOSE q \in Stages(c)[i] : q \notin done
  BY DEF NextProtocol
<1>3. \E q \in Stages(c)[i] : q \notin done
  BY <1>1
<1> HIDE DEF i, p
<1>4. p \in Stages(c)[i] /\ p \notin done
  BY <1>2, <1>3
<1>5. i \in 1..5 /\ (1 \in open => i = 1)
  BY <1>1, ProtocolStages
<1>6. p = Paired => i # 1
  BY <1>4, <1>5, ProtocolStages
<1>7. p = Paired => Normal \in done
  BY <1>5, <1>6, ProtocolStages
<1> QED
  BY <1>4, <1>5, <1>7, ProtocolStages DEF p

-----------------------------------------------------------------------------
(* Two fields of a command changed at once.                                *)
LEMMA ChangedShape ==
  ASSUME NEW x, HasShape(x), NEW a, NEW b
  PROVE  /\ HasShape([x EXCEPT !.kind = a, !.pc = b])
         /\ HasShape([x EXCEPT !.data = a, !.pc = b])
         /\ HasShape([x EXCEPT !.hash = a, !.pc = b])
         /\ HasShape([x EXCEPT !.done = a, !.results = b])
<1>1. /\ HasShape([x EXCEPT !.kind = a]) /\ HasShape([x EXCEPT !.data = a])
      /\ HasShape([x EXCEPT !.hash = a]) /\ HasShape([x EXCEPT !.done = a])
  BY DEF HasShape
<1>2. ASSUME NEW z, HasShape(z) PROVE HasShape([z EXCEPT !.pc = b]) /\ HasShape([z EXCEPT !.results = b])
  BY <1>2 DEF HasShape
<1>3. /\ [x EXCEPT !.kind = a, !.pc = b] = [[x EXCEPT !.kind = a] EXCEPT !.pc = b]
      /\ [x EXCEPT !.data = a, !.pc = b] = [[x EXCEPT !.data = a] EXCEPT !.pc = b]
      /\ [x EXCEPT !.hash = a, !.pc = b] = [[x EXCEPT !.hash = a] EXCEPT !.pc = b]
      /\ [x EXCEPT !.done = a, !.results = b] = [[x EXCEPT !.done = a] EXCEPT !.results = b]
  OBVIOUS
<1> QED BY <1>1, <1>2, <1>3

(* A step of one command, seen from the others: it leaves the directory as *)
(* it is, or no other command runs.                                        *)
LEMMA StepOfOne ==
  ASSUME ExperimentInv, NEW k \in Commands, NEW y, NEW d,
         cmd' = [cmd EXCEPT ![k] = y], dir' = d,
         file' \in DOMAIN Corpora, swapped' \in BOOLEAN,
         CommandInv(y), DirectoryInv(d), WorkInv(k, y, d),
         Runs(y) \/ d # dir => \A j \in Commands \ {k} : ~Runs(cmd[j]),
         \/ /\ d = dir
            /\ cmd[k].pc \in {"write", "done", "stopped"} /\ ReportOf(k, cmd[k], dir) =>
                 y.pc \in {"write", "done", "stopped"} /\ ReportOf(k, y, dir)
         \/ d.report # None =>
              y.pc \in {"write", "done", "stopped"} /\ ReportOf(k, y, d)
  PROVE  ExperimentInv'
<1>1. cmd' = [j \in Commands |-> cmd'[j]] /\ cmd'[k] = y /\ \A j \in Commands \ {k} : cmd'[j] = cmd[j]
  BY DEF ExperimentInv
<1>2. \A j \in Commands : CommandInv(cmd'[j])
  BY <1>1 DEF ExperimentInv
<1>3. \A i, j \in Commands : Runs(cmd'[i]) /\ Runs(cmd'[j]) => i = j
  BY <1>1 DEF ExperimentInv
<1>4. \A j \in Commands : WorkInv(j, cmd'[j], d)
  <2> SUFFICES ASSUME NEW j \in Commands \ {k}, d # dir
               PROVE  WorkInv(j, cmd[j], d)
    BY <1>1 DEF ExperimentInv
  <2>1. ~Runs(cmd[j]) /\ CommandInv(cmd[j])
    BY DEF ExperimentInv
  <2> QED BY <2>1 DEF WorkInv, Runs, CommandInv, FoundFresh, HasDirectory
<1>5. d.report # None =>
        \E j \in Commands : cmd'[j].pc \in {"write", "done", "stopped"} /\ ReportOf(j, cmd'[j], d)
  <2>1. CASE d.report # None => y.pc \in {"write", "done", "stopped"} /\ ReportOf(k, y, d)
    BY <2>1, <1>1
  <2>2. CASE /\ d = dir
             /\ cmd[k].pc \in {"write", "done", "stopped"} /\ ReportOf(k, cmd[k], dir) =>
                  y.pc \in {"write", "done", "stopped"} /\ ReportOf(k, y, dir)
    <3> SUFFICES ASSUME d.report # None PROVE \E j \in Commands :
          cmd'[j].pc \in {"write", "done", "stopped"} /\ ReportOf(j, cmd'[j], d)
      OBVIOUS
    <3>1. PICK j \in Commands :
            cmd[j].pc \in {"write", "done", "stopped"} /\ ReportOf(j, cmd[j], dir)
      BY <2>2 DEF ExperimentInv, ReportInv
    <3> QED BY <3>1, <2>2, <1>1
  <2> QED BY <2>1, <2>2
<1> QED
  <2>1. DirectoryInv(dir') /\ \A j \in Commands : WorkInv(j, cmd'[j], dir')
    BY <1>4
  <2>2. ReportInv'
    BY <1>5 DEF ReportInv
  <2> QED BY <1>1, <1>2, <1>3, <2>1, <2>2 DEF ExperimentInv

(* A command that only goes on.                                            *)
LEMMA MoveOfOne ==
  ASSUME ExperimentInv, NEW k \in Commands, Runs(cmd[k]), NEW q \in Steps, Goto(k, q),
         NEW d, dir' = d, DirectoryInv(d), UNCHANGED <<file, swapped>>,
         LET y == [cmd[k] EXCEPT !.pc = q]
         IN  CommandInv(y) /\ WorkInv(k, y, d),
         \/ d = dir /\ (cmd[k].pc = "write" => q = "stopped")
         \/ d.report # None => q \in {"write", "done"} /\ ReportOf(k, cmd[k], d)
  PROVE  ExperimentInv'
<1> DEFINE y == [cmd[k] EXCEPT !.pc = q]
<1>1. /\ y.pc = q /\ y.kind = cmd[k].kind /\ y.data = cmd[k].data /\ y.hash = cmd[k].hash
      /\ y.done = cmd[k].done /\ y.results = cmd[k].results
  BY DEF ExperimentInv, CommandInv, HasShape
<1>2. cmd' = [cmd EXCEPT ![k] = y]
  BY DEF Goto
<1>3. \A e : ReportOf(k, cmd[k], e) => ReportOf(k, y, e)
  BY <1>1 DEF ReportOf, AllDone
<1>4. \A j \in Commands \ {k} : ~Runs(cmd[j])
  BY DEF ExperimentInv
<1>5. file' \in DOMAIN Corpora /\ swapped' \in BOOLEAN
  BY DEF ExperimentInv
<1> HIDE DEF y
<1>6. \/ /\ d = dir
         /\ cmd[k].pc \in {"write", "done", "stopped"} /\ ReportOf(k, cmd[k], dir) =>
              y.pc \in {"write", "done", "stopped"} /\ ReportOf(k, y, dir)
      \/ d.report # None => y.pc \in {"write", "done", "stopped"} /\ ReportOf(k, y, d)
  BY <1>1, <1>3 DEF Runs
<1> QED
  BY <1>2, <1>4, <1>5, <1>6, StepOfOne DEF y

(* A command that is refused or stops, and leaves what it made.            *)
LEMMA RefuseStep ==
  ASSUME ExperimentInv, NEW k \in Commands, Runs(cmd[k]), NEW q \in {"refused", "stopped"},
         Goto(k, q), UNCHANGED <<file, swapped, dir>>,
         q = "refused" => cmd[k].pc \notin {"fit", "write"}
  PROVE  ExperimentInv'
<1> DEFINE y == [cmd[k] EXCEPT !.pc = q]
<1>1. /\ y.pc = q /\ y.kind = cmd[k].kind /\ y.data = cmd[k].data /\ y.hash = cmd[k].hash
      /\ y.done = cmd[k].done /\ y.results = cmd[k].results /\ HasShape(y)
  BY DEF ExperimentInv, CommandInv, HasShape
<1>2. CommandInv(cmd[k]) /\ WorkInv(k, cmd[k], dir) /\ DirectoryInv(dir)
  BY DEF ExperimentInv
<1>3. y.results # {} => cmd[k].pc \in {"fit", "write"}
  BY <1>1, <1>2 DEF CommandInv, Runs
<1> HIDE DEF y
<1>4. ASSUME NEW r \in y.results PROVE ResultOf(y, r)
  BY <1>1, <1>2, <1>4 DEF CommandInv, ResultOf
<1>5. CommandInv(y)
  <2>1. HasCorpus(y) => y.results # {} /\ HasCorpus(cmd[k])
    BY <1>1 DEF HasCorpus
  <2>2. PassedGate(y) => y.results # {} /\ PassedGate(cmd[k])
    BY <1>1 DEF PassedGate
  <2> QED BY <1>1, <1>2, <1>3, <1>4, <2>1, <2>2 DEF CommandInv, Steps, Runs
<1>6. WorkInv(k, y, dir)
  BY <1>1, <1>2 DEF WorkInv, FoundFresh, HasDirectory
<1>7. cmd[k].pc = "write" => q = "stopped"
  OBVIOUS
<1> QED
  BY <1>2, <1>5, <1>6, <1>7, MoveOfOne DEF y, Steps

LEMMA StartStep ==
  ASSUME ExperimentInv, ~Overlap, NEW k \in Commands, NEW kind \in {"three_way", "binary"},
         Start(k, kind)
  PROVE  ExperimentInv'
<1> DEFINE q == IF kind = "three_way" THEN "load" ELSE "fresh"
           y == [cmd[k] EXCEPT !.kind = kind, !.pc = q]
<1>0. CommandInv(cmd[k]) /\ cmd[k].pc = "idle"
  BY DEF ExperimentInv, Start
<1>1. /\ y.pc = q /\ y.kind = kind /\ y.data = cmd[k].data /\ y.hash = cmd[k].hash
      /\ y.done = cmd[k].done /\ y.results = cmd[k].results /\ HasShape(y)
      /\ cmd[k].pc = "idle" /\ cmd[k].results = {} /\ cmd[k].done = {}
  <2>1. cmd[k].results = {} /\ cmd[k].done = {} /\ HasShape(cmd[k])
    BY <1>0 DEF CommandInv
  <2>2. HasShape(y)
    BY <2>1, ChangedShape
  <2> QED BY <1>0, <2>1, <2>2 DEF HasShape
<1>2. cmd' = [cmd EXCEPT ![k] = y] /\ dir' = dir /\ file' \in DOMAIN Corpora /\ swapped' \in BOOLEAN
  BY DEF Start, ExperimentInv
<1>3. \A j \in Commands : ~Runs(cmd[j])
  BY DEF Start, Running, Runs
<1>4. cmd[k].data \in DOMAIN Corpora \cup {None} /\ cmd[k].hash \in DOMAIN Corpora \cup {None}
  BY DEF ExperimentInv, CommandInv
<1> HIDE DEF y
<1>5. CommandInv(y)
  BY <1>1, <1>4 DEF CommandInv, Steps, HasCorpus, PassedGate
<1>6. WorkInv(k, y, dir)
  BY <1>1 DEF WorkInv, FoundFresh, HasDirectory
<1>7. DirectoryInv(dir)
  BY DEF ExperimentInv
<1> QED
  BY <1>1, <1>2, <1>3, <1>5, <1>6, <1>7, StepOfOne

(* The directory stays as it is while a command loads and looks.           *)
LEMMA LoadStep ==
  ASSUME ExperimentInv, NEW k \in Commands, Load(k)
  PROVE  ExperimentInv'
<1> DEFINE q == After(k, "load")
           y == [cmd[k] EXCEPT !.data = file, !.pc = q]
<1>1. /\ y.pc = "verify" /\ y.kind = cmd[k].kind /\ y.data = file /\ y.hash = cmd[k].hash
      /\ y.done = cmd[k].done /\ y.results = cmd[k].results /\ HasShape(y)
      /\ cmd[k].pc = "load" /\ cmd[k].results = {} /\ file \in DOMAIN Corpora
      /\ cmd[k].kind \in {"three_way", "binary"}
  <2>1. CommandInv(cmd[k]) /\ cmd[k].pc = "load" /\ file \in DOMAIN Corpora
    BY DEF ExperimentInv, Load
  <2>2. cmd[k].results = {} /\ cmd[k].kind \in {"three_way", "binary"} /\ HasShape(cmd[k])
    BY <2>1 DEF CommandInv
  <2>3. HasShape(y)
    BY <2>2, ChangedShape
  <2> QED BY <2>1, <2>2, <2>3 DEF HasShape, After
<1>2. cmd' = [cmd EXCEPT ![k] = y] /\ dir' = dir /\ file' \in DOMAIN Corpora /\ swapped' \in BOOLEAN
  BY DEF Load, ExperimentInv
<1>3. \A j \in Commands \ {k} : ~Runs(cmd[j])
  BY <1>1 DEF ExperimentInv, Runs
<1>4. cmd[k].hash \in DOMAIN Corpora \cup {None} /\ cmd[k].done = {}
  BY <1>1 DEF ExperimentInv, CommandInv
<1>5. WorkInv(k, cmd[k], dir) /\ DirectoryInv(dir)
  BY DEF ExperimentInv
<1> HIDE DEF y, q
<1>6. CommandInv(y)
  BY <1>1, <1>4 DEF CommandInv, Steps, HasCorpus, PassedGate
<1>7. WorkInv(k, y, dir)
  BY <1>1, <1>5 DEF WorkInv, FoundFresh, HasDirectory
<1> QED
  BY <1>1, <1>2, <1>3, <1>5, <1>6, <1>7, StepOfOne

LEMMA VerifyStep ==
  ASSUME ExperimentInv, NEW k \in Commands, Verify(k)
  PROVE  ExperimentInv'
<1>1. CASE Verified(DataOf(k))
  <2> DEFINE q == After(k, "verify")
             y == [cmd[k] EXCEPT !.hash = file, !.pc = q]
  <2>1. /\ y.pc = (IF cmd[k].kind = "three_way" THEN "fresh" ELSE "gate")
        /\ y.kind = cmd[k].kind /\ y.data = cmd[k].data /\ y.hash = file
        /\ y.done = cmd[k].done /\ y.results = cmd[k].results /\ HasShape(y)
        /\ cmd[k].pc = "verify" /\ cmd[k].results = {} /\ file \in DOMAIN Corpora
        /\ cmd[k].kind \in {"three_way", "binary"}
    <3>1. CommandInv(cmd[k]) /\ cmd[k].pc = "verify" /\ file \in DOMAIN Corpora
      BY DEF ExperimentInv, Verify
    <3>2. cmd[k].results = {} /\ cmd[k].kind \in {"three_way", "binary"} /\ HasShape(cmd[k])
      BY <3>1 DEF CommandInv
    <3>3. HasShape(y)
      BY <3>2, ChangedShape
    <3> QED BY <3>1, <3>2, <3>3 DEF HasShape, After
  <2>2. cmd' = [cmd EXCEPT ![k] = y] /\ dir' = dir /\ file' \in DOMAIN Corpora /\ swapped' \in BOOLEAN
    BY <1>1 DEF Verify, ExperimentInv
  <2>3. \A j \in Commands \ {k} : ~Runs(cmd[j])
    BY <2>1 DEF ExperimentInv, Runs
  <2>4. cmd[k].data \in DOMAIN Corpora /\ cmd[k].done = {}
    BY <2>1 DEF ExperimentInv, CommandInv, HasCorpus
  <2>5. WorkInv(k, cmd[k], dir) /\ DirectoryInv(dir)
    BY DEF ExperimentInv
  <2> HIDE DEF y, q
  <2>6. CommandInv(y)
    BY <2>1, <2>4 DEF CommandInv, Steps, HasCorpus, PassedGate
  <2>7. WorkInv(k, y, dir)
    BY <2>1, <2>5 DEF WorkInv, FoundFresh, HasDirectory
  <2> QED
    BY <2>1, <2>2, <2>3, <2>5, <2>6, <2>7, StepOfOne
<1>2. CASE ~Verified(DataOf(k))
  BY <1>2, RefuseStep DEF Verify, Runs
<1> QED
  BY <1>1, <1>2

LEMMA FreshStep ==
  ASSUME ExperimentInv, NEW k \in Commands, EnsureFresh(k)
  PROVE  ExperimentInv'
<1>1. CASE Empty(dir)
  <2> DEFINE q == IF cmd[k].kind = "three_way" THEN "create" ELSE "load"
             y == [cmd[k] EXCEPT !.pc = q]
  <2>1. CommandInv(cmd[k]) /\ WorkInv(k, cmd[k], dir) /\ DirectoryInv(dir) /\ cmd[k].pc = "fresh"
    BY DEF ExperimentInv, EnsureFresh
  <2>2. cmd[k].results = {} /\ cmd[k].kind \in {"three_way", "binary"} /\ HasShape(cmd[k])
    BY <2>1 DEF CommandInv
  <2>3. /\ y.pc = q /\ y.kind = cmd[k].kind /\ y.data = cmd[k].data /\ y.hash = cmd[k].hash
        /\ y.done = cmd[k].done /\ y.results = cmd[k].results /\ HasShape(y)
    BY <2>2 DEF HasShape
  <2>4. Goto(k, q) /\ UNCHANGED <<file, swapped, dir>> /\ Runs(cmd[k]) /\ q \in Steps
    BY <1>1, <2>1 DEF EnsureFresh, After, Runs, Steps
  <2> HIDE DEF y
  <2>5. CommandInv(y)
    BY <2>1, <2>2, <2>3 DEF CommandInv, Steps, HasCorpus, PassedGate
  <2>6. WorkInv(k, y, dir)
    BY <1>1, <2>2, <2>3 DEF WorkInv, FoundFresh, HasDirectory, Empty
  <2> HIDE DEF q
  <2> QED
    BY <2>1, <2>4, <2>5, <2>6, MoveOfOne DEF y
<1>2. CASE ~Empty(dir)
  BY <1>2, RefuseStep DEF EnsureFresh, Runs
<1> QED
  BY <1>1, <1>2

LEMMA CreateStep ==
  ASSUME ExperimentInv, NEW k \in Commands, CreateDirectory(k)
  PROVE  ExperimentInv'
<1> DEFINE q == IF cmd[k].kind = "three_way" THEN "gate" ELSE "fit"
           y == [cmd[k] EXCEPT !.pc = q]
           d == [dir EXCEPT !.exists = TRUE]
<1>1. CommandInv(cmd[k]) /\ WorkInv(k, cmd[k], dir) /\ DirectoryInv(dir) /\ cmd[k].pc = "create"
  BY DEF ExperimentInv, CreateDirectory
<1>2. cmd[k].results = {} /\ cmd[k].kind \in {"three_way", "binary"} /\ HasShape(cmd[k])
  BY <1>1 DEF CommandInv
<1>3. /\ y.pc = q /\ y.kind = cmd[k].kind /\ y.data = cmd[k].data /\ y.hash = cmd[k].hash
      /\ y.done = cmd[k].done /\ y.results = cmd[k].results /\ HasShape(y)
  BY <1>2 DEF HasShape
<1>4. Goto(k, q) /\ UNCHANGED <<file, swapped>> /\ dir' = d /\ Runs(cmd[k]) /\ q \in Steps
  BY <1>1 DEF CreateDirectory, After, Runs, Steps
<1>5. d.exists = TRUE /\ d.models = dir.models /\ d.report = dir.report /\ DirectoryInv(d)
  <2>1. d = [exists |-> TRUE, models |-> dir.models, report |-> dir.report]
    <3>1. dir = [exists |-> dir.exists, models |-> dir.models, report |-> dir.report]
      BY <1>1 DEF DirectoryInv
    <3>2. \A v : [dir EXCEPT !.exists = v] = [exists |-> v, models |-> dir.models, report |-> dir.report]
      BY <3>1
    <3> QED BY <3>2, Zenon
  <2> HIDE DEF d
  <2> QED BY <2>1 DEF DirectoryInv, Empty
<1> HIDE DEF y, d
<1>6. CommandInv(y)
  BY <1>1, <1>2, <1>3 DEF CommandInv, Steps, HasCorpus, PassedGate
<1>7. dir.report = None /\ \A m \in dir.models : m.by = k
  BY <1>1 DEF WorkInv, FoundFresh
<1>8. WorkInv(k, y, d)
  BY <1>2, <1>3, <1>5, <1>7 DEF WorkInv, ModelsIn
<1> HIDE DEF q
<1> QED
  BY <1>4, <1>5, <1>6, <1>7, <1>8, MoveOfOne DEF y

LEMMA GateStep ==
  ASSUME ExperimentInv, NEW k \in Commands, Gate(k)
  PROVE  ExperimentInv'
<1> DEFINE passed == /\ EvidenceGate(DataOf(k), cmd[k].kind)
                     /\ cmd[k].kind = "binary" => TrainingReady(DataOf(k), cmd[k].kind)
<1>1. cmd[k].pc = "gate" /\ UNCHANGED <<file, swapped, dir>>
      /\ Goto(k, IF passed THEN After(k, "gate") ELSE "refused")
  BY DEF Gate
<1>2. CASE passed
  <2> DEFINE q == IF cmd[k].kind = "three_way" THEN "ready" ELSE "create"
             y == [cmd[k] EXCEPT !.pc = q]
  <2>1. CommandInv(cmd[k]) /\ WorkInv(k, cmd[k], dir) /\ DirectoryInv(dir)
    BY DEF ExperimentInv
  <2>2. cmd[k].results = {} /\ cmd[k].kind \in {"three_way", "binary"} /\ HasShape(cmd[k])
    BY <1>1, <2>1 DEF CommandInv
  <2>3. /\ y.pc = q /\ y.kind = cmd[k].kind /\ y.data = cmd[k].data /\ y.hash = cmd[k].hash
        /\ y.done = cmd[k].done /\ y.results = cmd[k].results /\ HasShape(y)
    BY <2>2 DEF HasShape
  <2>4. Goto(k, q) /\ Runs(cmd[k]) /\ q \in Steps
    BY <1>1, <1>2 DEF After, Runs, Steps
  <2>5. Corpora[cmd[k].data].stamp = TRUE
    BY <1>2 DEF EvidenceGate, BenchmarkReady, DataOf
  <2> HIDE DEF y
  <2>6. CommandInv(y)
    BY <1>1, <2>1, <2>2, <2>3, <2>5 DEF CommandInv, Steps, HasCorpus, PassedGate
  <2>7. WorkInv(k, y, dir)
    BY <1>1, <2>1, <2>2, <2>3 DEF WorkInv, FoundFresh, HasDirectory
  <2> HIDE DEF q
  <2> QED
    BY <1>1, <2>1, <2>4, <2>6, <2>7, MoveOfOne DEF y
<1>3. CASE ~passed
  BY <1>1, <1>3, RefuseStep DEF Runs
<1> QED
  BY <1>2, <1>3

LEMMA ReadinessStep ==
  ASSUME ExperimentInv, NEW k \in Commands, CheckReadiness(k)
  PROVE  ExperimentInv'
<1>1. CASE TrainingReady(DataOf(k), "three_way")
  <2> DEFINE y == [cmd[k] EXCEPT !.pc = "fit"]
  <2>1. CommandInv(cmd[k]) /\ WorkInv(k, cmd[k], dir) /\ DirectoryInv(dir) /\ cmd[k].pc = "ready"
    BY DEF ExperimentInv, CheckReadiness
  <2>2. cmd[k].results = {} /\ cmd[k].kind = "three_way" /\ HasShape(cmd[k])
    BY <2>1 DEF CommandInv
  <2>3. /\ y.pc = "fit" /\ y.kind = cmd[k].kind /\ y.data = cmd[k].data /\ y.hash = cmd[k].hash
        /\ y.done = cmd[k].done /\ y.results = cmd[k].results /\ HasShape(y)
    BY <2>2 DEF HasShape
  <2>4. Goto(k, "fit") /\ UNCHANGED <<file, swapped, dir>> /\ Runs(cmd[k])
    BY <1>1, <2>1 DEF CheckReadiness, Runs
  <2> HIDE DEF y
  <2>5. CommandInv(y)
    BY <2>1, <2>2, <2>3 DEF CommandInv, Steps, HasCorpus, PassedGate
  <2>6. WorkInv(k, y, dir)
    BY <2>1, <2>2, <2>3 DEF WorkInv, FoundFresh, HasDirectory, ModelsIn
  <2> QED
    BY <2>1, <2>4, <2>5, <2>6, MoveOfOne DEF y, Steps
<1>2. CASE ~TrainingReady(DataOf(k), "three_way")
  BY <1>2, RefuseStep DEF CheckReadiness, Runs
<1> QED
  BY <1>1, <1>2

(* A finished result joins the others, and its model the directory.        *)
LEMMA ResultStep ==
  ASSUME ExperimentInv, NEW k \in Commands, cmd[k].pc = "fit",
         NEW s, NEW p, NEW r, NEW d,
         Record(k, s, p, r), dir' = d, UNCHANGED <<file, swapped>>,
         r.seed = s, r.protocol = p, ResultOf(cmd[k], r),
         DirectoryInv(d), d.exists = dir.exists, d.report = dir.report, \A m \in d.models : m.by = k,
         ModelsIn(d.models, k, cmd[k].results), ModelsIn(d.models, k, {r})
  PROVE  ExperimentInv'
<1> DEFINE x == cmd[k]
           y == [x EXCEPT !.done = x.done \cup {<<s, p>>}, !.results = x.results \cup {r}]
<1>1. CommandInv(x) /\ WorkInv(k, x, dir)
  BY DEF ExperimentInv
<1>2. /\ y.pc = x.pc /\ y.kind = x.kind /\ y.data = x.data /\ y.hash = x.hash /\ HasShape(y)
      /\ y.done = x.done \cup {<<s, p>>} /\ y.results = x.results \cup {r}
  <2>1. HasShape(x)
    BY <1>1 DEF CommandInv
  <2> HIDE DEF x
  <2>2. HasShape(y)
    BY <2>1, ChangedShape
  <2> QED BY <2>1, <2>2 DEF HasShape
<1>3. cmd' = [cmd EXCEPT ![k] = y]
  BY DEF Record
<1> HIDE DEF y
<1>4. HasCorpus(x) /\ PassedGate(x) /\ FoundFresh(x) /\ HasDirectory(x)
  BY DEF HasCorpus, PassedGate, FoundFresh, HasDirectory
<1>5. \A q \in y.results : ResultOf(y, q)
  BY <1>1, <1>2 DEF CommandInv, ResultOf
<1>6. \A u \in y.done : \E q \in y.results : q.seed = u[1] /\ q.protocol = u[2]
  BY <1>1, <1>2 DEF CommandInv
<1>7. CommandInv(y)
  BY <1>1, <1>2, <1>4, <1>5, <1>6 DEF CommandInv
<1>8. WorkInv(k, y, d)
  <2>1. dir.report = None /\ dir.exists
    BY <1>1, <1>4 DEF WorkInv
  <2>2. ModelsIn(d.models, k, y.results)
    BY <1>2 DEF ModelsIn
  <2> QED BY <1>2, <2>1, <2>2 DEF WorkInv
<1>9. \A j \in Commands \ {k} : ~Runs(cmd[j])
  BY DEF ExperimentInv, Runs
<1>10. file' \in DOMAIN Corpora /\ swapped' \in BOOLEAN
  BY DEF ExperimentInv
<1>11. d.report = None
  BY <1>1, <1>4 DEF WorkInv
<1> QED
  BY <1>3, <1>7, <1>8, <1>9, <1>10, <1>11, StepOfOne

(* A saved model is there, and replaces none but its own file.             *)
LEMMA SavedModel ==
  ASSUME ExperimentInv, NEW k \in Commands, cmd[k].pc = "fit", NEW s, NEW p, NEW trained,
         Save(k, s, p, trained)
  PROVE  /\ DirectoryInv(dir') /\ dir'.exists = dir.exists /\ dir'.report = dir.report
         /\ \A m \in dir'.models : m.by = k
         /\ ModelsIn(dir'.models, k, cmd[k].results)
         /\ \E m \in dir'.models : m.file = FileOf(s, p) /\ m.by = k
<1> DEFINE new == [file |-> FileOf(s, p), protocol |-> p, by |-> k, trained |-> trained]
           models == {m \in dir.models : m.file # FileOf(s, p)} \cup {new}
<1>1. WorkInv(k, cmd[k], dir) /\ DirectoryInv(dir)
  BY DEF ExperimentInv
<1>2. dir' = [dir EXCEPT !.models = models]
  BY DEF Save
<1>3. new.file = FileOf(s, p) /\ new.by = k
  OBVIOUS
<1>4. new \in models /\ \A m \in dir.models : m.file = FileOf(s, p) \/ m \in models
  OBVIOUS
<1>5. \A m \in models : m = new \/ m \in dir.models
  OBVIOUS
<1> HIDE DEF new, models
<1>6. dir' = [exists |-> dir.exists, models |-> models, report |-> dir.report]
  BY <1>1, <1>2 DEF DirectoryInv
<1>7. dir.exists /\ \A m \in dir.models : m.by = k
  BY <1>1 DEF WorkInv, FoundFresh, HasDirectory
<1>8. DirectoryInv(dir')
  BY <1>1, <1>6, <1>7 DEF DirectoryInv
<1>9. \A m \in models : m.by = k
  BY <1>3, <1>5, <1>7
<1>10. ModelsIn(models, k, cmd[k].results)
  BY <1>1, <1>3, <1>4 DEF WorkInv, ModelsIn
<1> QED
  BY <1>3, <1>4, <1>6, <1>8, <1>9, <1>10

LEMMA SeedStep ==
  ASSUME ExperimentInv, NEW k \in Commands, RunSeed(k)
  PROVE  ExperimentInv'
<1> DEFINE c == Corpora[cmd[k].data]
           s == Min(SeedsLeft(k, {Normal}))
           trained == {r \in Standard(c) : r.family \in TrainOf[s][FamiliesOf(Standard(c))]}
           r == Result(s, Normal, "scored", trained, Challenge(c))
<1>1. /\ cmd[k].pc = "fit" /\ cmd[k].kind = "binary"
      /\ Save(k, s, Normal, trained) /\ Record(k, s, Normal, r) /\ UNCHANGED <<file, swapped>>
  BY DEF RunSeed, DataOf
<1>2. trained \subseteq Standard(c)
  OBVIOUS
<1> HIDE DEF s, trained, c
<1>3. /\ r.seed = s /\ r.protocol = Normal /\ r.status = "scored" /\ r.trained = trained
      /\ r.evaluated = Challenge(c)
  BY DEF Result
<1> HIDE DEF r
<1>4. ResultOf(cmd[k], r)
  BY <1>1, <1>2, <1>3 DEF ResultOf, BinaryResult, c
<1> DEFINE d == dir'
<1>5. /\ DirectoryInv(d) /\ d.exists = dir.exists /\ d.report = dir.report
      /\ \A m \in d.models : m.by = k
      /\ ModelsIn(d.models, k, cmd[k].results) /\ ModelsIn(d.models, k, {r})
  BY <1>1, <1>3, SavedModel DEF ModelsIn
<1>6. d = dir'
  OBVIOUS
<1> HIDE DEF d
<1> QED
  BY <1>1, <1>3, <1>4, <1>5, <1>6, ResultStep

LEMMA ProtocolStep ==
  ASSUME ExperimentInv, ExperimentAssumption, NEW k \in Commands, RunProtocol(k)
  PROVE  ExperimentInv'
<1> DEFINE c == Corpora[cmd[k].data]
           ps == ProtocolsOf(k)
           s == Min(SeedsLeft(k, ps))
           done == {p \in ps : <<s, p>> \in cmd[k].done}
           p == NextProtocol(done, StagesIn[cmd[k].data])
           status == Status(p, c)
           training == TrainingSet(p, c)
           trained == {r \in training : r.family \in TrainOf[s][FamiliesOf(training)]}
           stops == status = "error" \/ (status = "scored" /\ Cardinality(FamiliesOf(training)) < 3)
           r == Result(s, p, status, IF status = "scored" THEN trained ELSE {},
                       IF p = Normal THEN training \ trained ELSE ChallengeSubset(p, c))
<1>1. /\ cmd[k].pc = "fit" /\ cmd[k].kind = "three_way" /\ SeedsLeft(k, ps) # {}
      /\ UNCHANGED <<file, swapped>>
      /\ stops => Goto(k, "stopped") /\ UNCHANGED dir
      /\ ~stops => /\ Record(k, s, p, r)
                   /\ status = "scored" /\ p # Paired => Save(k, s, p, trained)
                   /\ ~(status = "scored" /\ p # Paired) => UNCHANGED dir
  <2> HIDE DEF s, p, r
  <2> QED BY DEF RunProtocol, DataOf, s, p, r
<1>2. CommandInv(cmd[k]) /\ WorkInv(k, cmd[k], dir) /\ DirectoryInv(dir)
  BY DEF ExperimentInv
<1>3. cmd[k].data \in DOMAIN Corpora
  BY <1>1, <1>2 DEF CommandInv, HasCorpus
<1>4. ps = Protocols(c) /\ StagesIn[cmd[k].data] = Stages(c)
  BY <1>3 DEF ProtocolsOf, ProtocolsIn, StagesIn
<1>5. s \in SeedsLeft(k, ps)
  <2>1. SeedsLeft(k, ps) \subseteq Nat
    BY DEF SeedsLeft, ExperimentAssumption
  <2> QED BY <1>1, <2>1, LeastExists
<1>6. p \in Protocols(c) /\ (p = Paired => <<s, Normal>> \in cmd[k].done)
  <2>1. ~(Protocols(c) \subseteq done)
    BY <1>4, <1>5 DEF SeedsLeft
  <2> HIDE DEF done, s
  <2>2. p = Paired => Normal \in done
    BY <1>4, <2>1, NextIsLeft
  <2>3. p \in Protocols(c)
    BY <1>4, <2>1, NextIsLeft
  <2> HIDE DEF p
  <2> QED BY <2>2, <2>3 DEF done
<1>7. CASE stops
  BY <1>1, <1>7, RefuseStep DEF Runs
<1>8. CASE ~stops
  <2>1. /\ r.seed = s /\ r.protocol = p /\ r.status = status
        /\ r.status = "scored" => r.trained = trained
        /\ r.evaluated = IF p = Normal THEN training \ trained ELSE ChallengeSubset(p, c)
    <3> HIDE DEF s, p, status, training, trained, c
    <3> QED BY DEF Result
  <2>2. trained \subseteq training /\ \A t \in trained, e \in training \ trained : t.family # e.family
    OBVIOUS
  <2>3. ThreeWayResult(c, r)
    <3> HIDE DEF s, p, r, trained, c, training
    <3>1. p = Normal => \A t \in r.trained, e \in r.evaluated : t.family # e.family
      <4> SUFFICES ASSUME p = Normal PROVE \A t \in r.trained, e \in r.evaluated : t.family # e.family
        OBVIOUS
      <4>1. status = "scored"
        BY DEF Status
      <4> QED BY <4>1, <2>1, <2>2
    <3> QED BY <1>6, <2>1, <2>2, <3>1 DEF ThreeWayResult, training
  <2>4. ResultOf(cmd[k], r)
    BY <1>1, <2>3 DEF ResultOf
  <2> HIDE DEF r, trained, p, s, stops, status
  <2>5. CASE status = "scored" /\ p # Paired
    <3>1. Save(k, s, p, trained)
      BY <1>1, <1>8, <2>5
    <3> DEFINE d == dir'
    <3>2. /\ DirectoryInv(d) /\ d.exists = dir.exists /\ d.report = dir.report
          /\ \A m \in d.models : m.by = k
          /\ ModelsIn(d.models, k, cmd[k].results) /\ ModelsIn(d.models, k, {r})
      BY <1>1, <2>1, <3>1, SavedModel DEF ModelsIn
    <3>3. d = dir'
      OBVIOUS
    <3> HIDE DEF d
    <3> QED BY <1>1, <1>8, <2>1, <2>4, <3>2, <3>3, ResultStep
  <2>6. CASE ~(status = "scored" /\ p # Paired)
    <3>1. UNCHANGED dir
      BY <1>1, <1>8, <2>6
    <3>2. /\ \A m \in dir.models : m.by = k
          /\ ModelsIn(dir.models, k, cmd[k].results)
      BY <1>1, <1>2 DEF WorkInv, FoundFresh
    <3>3. ModelsIn(dir.models, k, {r})
      <4> SUFFICES ASSUME status = "scored", p = Paired
                   PROVE  \E m \in dir.models : m.file = FileOf(s, p) /\ m.by = k
        BY <2>1, <2>6 DEF ModelsIn
      <4>1. PICK q \in cmd[k].results : q.seed = s /\ q.protocol = Normal
        BY <1>2, <1>6 DEF CommandInv
      <4>2. q.status = "scored"
        BY <1>1, <1>2, <4>1 DEF CommandInv, ResultOf, ThreeWayResult, Status
      <4>3. FileOf(s, Paired) = FileOf(s, Normal)
        BY DEF FileOf, ModelOf, Paired, Normal
      <4> QED BY <3>2, <4>1, <4>2, <4>3 DEF ModelsIn
    <3>4. PICK d : d = dir
      OBVIOUS
    <3> QED BY <1>1, <1>2, <1>8, <2>1, <2>4, <3>1, <3>2, <3>3, ResultStep
  <2> QED BY <2>5, <2>6
<1> QED
  BY <1>7, <1>8

LEMMA ReportStep ==
  ASSUME ExperimentInv, NEW k \in Commands, WriteReport(k)
  PROVE  ExperimentInv'
<1> DEFINE x == cmd[k]
           q == IF x.kind = "three_way" THEN "done" ELSE "write"
           y == [x EXCEPT !.pc = q]
           report == [by |-> k, kind |-> x.kind, hash |-> x.hash, data |-> x.data,
                      results |-> x.results, whole |-> x.kind = "three_way"]
           d == [dir EXCEPT !.report = report]
<1>1. CommandInv(x) /\ WorkInv(k, x, dir) /\ DirectoryInv(dir) /\ x.pc = "fit"
  BY DEF ExperimentInv, WriteReport
<1>2. x.kind \in {"three_way", "binary"} /\ HasShape(x) /\ x.data \in DOMAIN Corpora
      /\ Corpora[x.data].stamp = TRUE
  BY <1>1 DEF CommandInv, HasCorpus, PassedGate
<1>3. /\ y.pc = q /\ y.kind = x.kind /\ y.data = x.data /\ y.hash = x.hash
      /\ y.done = x.done /\ y.results = x.results /\ HasShape(y)
  BY <1>2 DEF HasShape
<1>4. Goto(k, q) /\ UNCHANGED <<file, swapped>> /\ dir' = d /\ Runs(x) /\ q \in Steps
      /\ AllRun(k)
  BY <1>1 DEF WriteReport, Runs, Steps
<1>5. AllDone(x)
  BY <1>4 DEF AllRun, AllDone, SeedsLeft, ProtocolsOf
<1>6. d.exists = dir.exists /\ d.models = dir.models /\ d.report = report
      /\ d = [exists |-> dir.exists, models |-> dir.models, report |-> report]
  <2> HIDE DEF report
  <2>1. dir = [exists |-> dir.exists, models |-> dir.models, report |-> dir.report]
    BY <1>1 DEF DirectoryInv
  <2> QED BY <2>1
<1>7. report = [by |-> k, kind |-> x.kind, hash |-> x.hash, data |-> x.data,
                results |-> x.results, whole |-> report.whole]
  OBVIOUS
<1>8. dir.exists /\ ModelsIn(dir.models, k, x.results)
  BY <1>1 DEF WorkInv, HasDirectory
<1> HIDE DEF y, d, report
<1>9. DirectoryInv(d)
  BY <1>1, <1>6, <1>8 DEF DirectoryInv
<1>10. ReportOf(k, x, d)
  BY <1>5, <1>6, <1>7, <1>8 DEF ReportOf
<1>11. ReportOf(k, y, d)
  BY <1>3, <1>10 DEF ReportOf, AllDone
<1>12. CommandInv(y)
  <2>1. \A r \in y.results : ResultOf(y, r)
    BY <1>1, <1>3 DEF CommandInv, ResultOf
  <2>2. \A u \in y.done : \E r \in y.results : r.seed = u[1] /\ r.protocol = u[2]
    BY <1>1, <1>3 DEF CommandInv
  <2>3. x.hash \in DOMAIN Corpora \cup {None} /\ q \in {"done", "write"}
        /\ (q = "write" => x.kind = "binary")
    BY <1>1, <1>2 DEF CommandInv
  <2> HIDE DEF q
  <2> QED BY <1>2, <1>3, <2>1, <2>2, <2>3 DEF CommandInv, Steps
<1>13. WorkInv(k, y, d)
  <2>1. q \in {"done", "write"}
    OBVIOUS
  <2> HIDE DEF q
  <2> QED BY <1>3, <1>6, <1>8, <1>11, <2>1 DEF WorkInv, FoundFresh, HasDirectory
<1>14. q \in {"write", "done"}
  OBVIOUS
<1> HIDE DEF q
<1> QED
  BY <1>4, <1>9, <1>10, <1>12, <1>13, <1>14, MoveOfOne DEF y

LEMMA EndWriteStep ==
  ASSUME ExperimentInv, NEW k \in Commands, EndWrite(k)
  PROVE  ExperimentInv'
<1> DEFINE x == cmd[k]
           y == [x EXCEPT !.pc = "done"]
           report == [by |-> k, kind |-> x.kind, hash |-> x.hash, data |-> x.data,
                      results |-> x.results, whole |-> TRUE]
           d == [dir EXCEPT !.report.whole = TRUE]
<1>1. CommandInv(x) /\ WorkInv(k, x, dir) /\ DirectoryInv(dir) /\ x.pc = "write"
  BY DEF ExperimentInv, EndWrite
<1>2. x.kind = "binary" /\ HasShape(x) /\ x.data \in DOMAIN Corpora
      /\ Corpora[x.data].stamp = TRUE
  BY <1>1 DEF CommandInv, HasCorpus, PassedGate
<1>3. /\ y.pc = "done" /\ y.kind = x.kind /\ y.data = x.data /\ y.hash = x.hash
      /\ y.done = x.done /\ y.results = x.results /\ HasShape(y)
  BY <1>2 DEF HasShape
<1>4. Goto(k, "done") /\ UNCHANGED <<file, swapped>> /\ dir' = d /\ Runs(x)
  BY <1>1 DEF EndWrite, Runs
<1>5. AllDone(x) /\ ModelsIn(dir.models, k, x.results) /\ dir.exists
  BY <1>1 DEF WorkInv, ReportOf, HasDirectory
<1>6. d = [exists |-> dir.exists, models |-> dir.models, report |-> report]
  <2>1. dir = [exists |-> dir.exists, models |-> dir.models, report |-> dir.report]
    BY <1>1 DEF DirectoryInv
  <2>2. dir.report = [by |-> k, kind |-> x.kind, hash |-> x.hash, data |-> x.data,
                      results |-> x.results, whole |-> dir.report.whole]
    BY <1>1 DEF WorkInv, ReportOf
  <2>3. \A v : [dir.report EXCEPT !.whole = v]
                = [by |-> k, kind |-> x.kind, hash |-> x.hash, data |-> x.data,
                   results |-> x.results, whole |-> v]
    BY <2>2
  <2>4. d = [dir EXCEPT !.report = report]
    BY <2>3, Zenon
  <2> HIDE DEF report, d
  <2> QED BY <2>1, <2>4
<1>7. report = [by |-> k, kind |-> x.kind, hash |-> x.hash, data |-> x.data,
                results |-> x.results, whole |-> report.whole]
  OBVIOUS
<1> HIDE DEF y, d, report
<1>8. DirectoryInv(d)
  BY <1>1, <1>5, <1>6 DEF DirectoryInv
<1>9. ReportOf(k, x, d)
  BY <1>5, <1>6, <1>7 DEF ReportOf
<1>10. CommandInv(y)
  <2>1. \A r \in y.results : ResultOf(y, r)
    BY <1>1, <1>3 DEF CommandInv, ResultOf
  <2>2. \A u \in y.done : \E r \in y.results : r.seed = u[1] /\ r.protocol = u[2]
    BY <1>1, <1>3 DEF CommandInv
  <2>3. x.hash \in DOMAIN Corpora \cup {None}
    BY <1>1 DEF CommandInv
  <2> QED BY <1>2, <1>3, <2>1, <2>2, <2>3 DEF CommandInv, Steps
<1>11. WorkInv(k, y, d)
  BY <1>2, <1>3 DEF WorkInv, FoundFresh, HasDirectory
<1>12. "done" \in Steps
  BY DEF Steps
<1> QED
  BY <1>4, <1>8, <1>9, <1>10, <1>11, <1>12, MoveOfOne DEF y

-----------------------------------------------------------------------------
LEMMA ExperimentStart == Init => ExperimentInv
<1> SUFFICES ASSUME Init PROVE ExperimentInv
  OBVIOUS
<1>1. /\ file \in DOMAIN Corpora /\ swapped \in BOOLEAN
      /\ dir = [exists |-> FALSE, models |-> {}, report |-> None]
      /\ cmd = [k \in Commands |-> Idle]
  BY DEF Init, Absent
<1>2. ASSUME NEW k \in Commands
      PROVE  CommandInv(cmd[k]) /\ ~Runs(cmd[k]) /\ WorkInv(k, cmd[k], dir)
  <2>1. cmd[k] = Idle
    BY <1>1
  <2>2. /\ HasShape(Idle) /\ Idle.pc = "idle" /\ Idle.data = None /\ Idle.hash = None
        /\ Idle.done = {} /\ Idle.results = {}
    BY DEF Idle, HasShape
  <2>3. CommandInv(Idle)
    BY <2>2 DEF CommandInv, HasCorpus, PassedGate, Steps
  <2>4. WorkInv(k, Idle, dir) /\ ~Runs(Idle)
    BY <2>2 DEF WorkInv, FoundFresh, HasDirectory, Runs
  <2> QED BY <2>1, <2>3, <2>4
<1>3. DirectoryInv(dir)
  BY <1>1 DEF DirectoryInv, Empty
<1>4. ReportInv
  BY <1>1 DEF ReportInv
<1> QED
  BY <1>1, <1>2, <1>3, <1>4 DEF ExperimentInv

LEMMA ExperimentNext ==
  ASSUME ExperimentInv, ExperimentAssumption, ~Overlap, Next PROVE ExperimentInv'
<1>1. CASE ReplaceDataset
  <2>1. /\ file' \in DOMAIN Corpora /\ swapped' \in BOOLEAN /\ dir' = dir /\ cmd' = cmd
    BY <1>1 DEF ReplaceDataset, ExperimentAssumption
  <2> QED BY <2>1 DEF ExperimentInv, ReportInv
<1>2. CASE Ended
  BY <1>2 DEF Ended, vars, ExperimentInv, ReportInv
<1>3. ASSUME NEW k \in Commands,
             \/ \E kind \in {"three_way", "binary"} : Start(k, kind)
             \/ Load(k) \/ Verify(k) \/ EnsureFresh(k) \/ CreateDirectory(k)
             \/ Gate(k) \/ CheckReadiness(k)
             \/ RunProtocol(k) \/ RunSeed(k) \/ WriteReport(k) \/ EndWrite(k) \/ Stop(k)
      PROVE  ExperimentInv'
  <2>1. CASE Stop(k)
    BY <2>1, RefuseStep DEF Stop, Running, Runs
  <2> QED
    BY <1>3, <2>1, StartStep, LoadStep, VerifyStep, FreshStep, CreateStep, GateStep,
       ReadinessStep, ProtocolStep, SeedStep, ReportStep, EndWriteStep
<1> QED
  BY <1>1, <1>2, <1>3 DEF Next

LEMMA ExperimentInvariant ==
  ~Overlap => (EvaluationSpec => [](component = "experiment" => ExperimentInv))
<1> DEFINE I == component = "experiment" => ExperimentInv
<1> SUFFICES ASSUME ~Overlap PROVE EvaluationSpec => []I
  OBVIOUS
<1>1. EvaluationInit => I
  BY ExperimentStart DEF EvaluationInit
<1>2. I /\ [EvaluationNext]_evaluation_vars => I'
  <2>1. SUFFICES ASSUME I, [EvaluationNext]_evaluation_vars, component' = "experiment"
                 PROVE  ExperimentInv'
    OBVIOUS
  <2>2. CASE component = "experiment" /\ Next
    BY <2>1, <2>2, ExperimentNext, CommandsAssumption
  <2>3. CASE UNCHANGED evaluation_vars
    BY <2>1, <2>3 DEF evaluation_vars, ExperimentInv, ReportInv
  <2>4. CASE component = "external" /\ UNCHANGED component
    BY <2>1, <2>4
  <2>5. CASE component = "track" /\ UNCHANGED component
    BY <2>1, <2>5
  <2> QED BY <2>1, <2>2, <2>3, <2>4, <2>5 DEF EvaluationNext
<1> QED
  BY <1>1, <1>2, PTL DEF EvaluationSpec

-----------------------------------------------------------------------------
(* What the experiments promise of their results and their report.         *)
LEMMA HeldOutFromInv ==
  ASSUME ExperimentInv, ExperimentAssumption PROVE HeldOutStaysOut
<1> SUFFICES ASSUME NEW k \in Commands, NEW r \in cmd[k].results, r.status = "scored"
             PROVE  /\ \A t \in r.trained : t.role = "standard" /\ t.family \notin FamiliesOf(r.evaluated)
                    /\ r.protocol \notin {Normal, Paired} =>
                          \A t \in r.trained : ~Selects(r.protocol, t)
  BY DEF HeldOutStaysOut
<1> DEFINE c == Corpora[cmd[k].data]
<1>1. CommandInv(cmd[k]) /\ HasCorpus(cmd[k]) /\ PassedGate(cmd[k])
  BY DEF ExperimentInv, HasCorpus, PassedGate
<1>2. c.stamp = TRUE /\ cmd[k].data \in DOMAIN Corpora /\ ResultOf(cmd[k], r)
  BY <1>1 DEF CommandInv
<1>3. \A t \in Standard(c), e \in Challenge(c) : t.family # e.family
  BY <1>2 DEF ExperimentAssumption, SoundCorpus, Standard, Challenge
<1>4. \A t \in Standard(c) : t.role = "standard"
  BY DEF Standard
<1> HIDE DEF c
<1>5. CASE cmd[k].kind = "three_way"
  <2>1. ThreeWayResult(c, r)
    BY <1>2, <1>5 DEF ResultOf, c
  <2>2. r.trained \subseteq TrainingSet(r.protocol, c) /\ TrainingSet(r.protocol, c) \subseteq Standard(c)
    BY <2>1 DEF ThreeWayResult, TrainingSet
  <2>3. ASSUME NEW t \in r.trained PROVE t.family \notin FamiliesOf(r.evaluated)
    <3>1. CASE r.protocol = Normal
      BY <2>1, <3>1 DEF ThreeWayResult, FamiliesOf
    <3>2. CASE r.protocol # Normal
      <4>1. r.evaluated \subseteq Challenge(c)
        BY <2>1, <3>2 DEF ThreeWayResult, ChallengeSubset
      <4> QED BY <2>2, <4>1, <1>3 DEF FamiliesOf
    <3> QED BY <3>1, <3>2
  <2>4. ASSUME r.protocol \notin {Normal, Paired}, NEW t \in r.trained PROVE ~Selects(r.protocol, t)
    <3>1. r.protocol[1] \notin {"normal", "paired"}
      BY <2>1, <2>4, ProtocolStages DEF ThreeWayResult
    <3> QED BY <2>2, <3>1 DEF TrainingSet
  <2> QED BY <2>2, <2>3, <2>4, <1>4
<1>6. CASE cmd[k].kind # "three_way"
  <2>1. BinaryResult(c, r)
    BY <1>2, <1>6 DEF ResultOf, c
  <2>2. r.protocol = Normal /\ r.trained \subseteq Standard(c) /\ r.evaluated = Challenge(c)
    BY <2>1 DEF BinaryResult
  <2> QED BY <2>2, <1>3, <1>4 DEF FamiliesOf
<1> QED
  BY <1>5, <1>6

LEMMA ReportFromInv ==
  ASSUME ExperimentInv PROVE ReportedModelsAreThere /\ OneFatePerProtocol
<1> SUFFICES ASSUME dir.report # None
             PROVE  ReportedModelsAreThere /\ OneFatePerProtocol
  BY DEF ReportedModelsAreThere, OneFatePerProtocol
<1>1. PICK k \in Commands : cmd[k].pc \in {"write", "done", "stopped"} /\ ReportOf(k, cmd[k], dir)
  BY DEF ExperimentInv, ReportInv
<1>2. /\ dir.report.by = k /\ dir.report.kind = cmd[k].kind /\ dir.report.results = cmd[k].results
      /\ AllDone(cmd[k]) /\ ModelsIn(dir.models, k, cmd[k].results)
  BY <1>1 DEF ReportOf
<1>3. ReportedModelsAreThere
  BY <1>2 DEF ReportedModelsAreThere, ModelsIn
<1>4. OneFatePerProtocol
  <2> DEFINE c == Corpora[cmd[k].data]
  <2> SUFFICES ASSUME dir.report.kind = "three_way", NEW a \in dir.report.results, NEW s \in Seeds
               PROVE  \E b \in dir.report.results :
                        /\ b.seed = s /\ b.protocol = a.protocol /\ b.status = a.status
                        /\ a.protocol # Normal => b.evaluated = a.evaluated
    BY DEF OneFatePerProtocol
  <2>1. CommandInv(cmd[k]) /\ HasCorpus(cmd[k])
    BY <1>2 DEF ExperimentInv, HasCorpus
  <2>2. \A r \in cmd[k].results : ThreeWayResult(c, r)
    BY <1>2, <2>1 DEF CommandInv, ResultOf
  <2>3. cmd[k].data \in DOMAIN Corpora
    BY <2>1 DEF CommandInv
  <2>4. ProtocolsIn[cmd[k].data] = Protocols(c)
    BY <2>3 DEF ProtocolsIn
  <2> HIDE DEF c
  <2>5. a.protocol \in Protocols(c)
    BY <1>2, <2>2 DEF ThreeWayResult
  <2>6. <<s, a.protocol>> \in cmd[k].done
    BY <1>2, <2>4, <2>5 DEF AllDone
  <2>7. PICK b \in cmd[k].results : b.seed = s /\ b.protocol = a.protocol
    BY <2>1, <2>6 DEF CommandInv
  <2> QED BY <1>2, <2>2, <2>7 DEF ThreeWayResult
<1> QED
  BY <1>3, <1>4

LEMMA AuditFromInv ==
  ASSUME ExperimentInv PROVE AuditIsOfTheModels
<1> SUFFICES ASSUME NEW k \in Commands, NEW r \in cmd[k].results,
                    r.status = "scored", cmd[k].kind = "three_way",
                    AuditAccepts(r.protocol, Corpora[cmd[k].data])
             PROVE  LET row == AuditOf(r.protocol, Corpora[cmd[k].data], 1) IN
                    /\ r.trained \subseteq row.training /\ r.evaluated = row.challenge
                    /\ FamiliesOf(r.trained) \cap FamiliesOf(r.evaluated) # {} => row.familyLeakage
  BY DEF AuditIsOfTheModels, DataOf
<1> DEFINE c == Corpora[cmd[k].data]
           p == r.protocol
           T == AuditTraining(p, c)
           C == AuditChallenge(p, c)
<1>1. ThreeWayResult(c, r)
  BY DEF ExperimentInv, CommandInv, ResultOf
<1>2. p \in Protocols(c) /\ p \notin {Normal, Paired}
  BY <1>1 DEF ThreeWayResult, AuditAccepts
<1>3. p[1] \in {"policy", "mutation", "variant"}
  BY <1>2, ProtocolStages
<1>4. \A q : KeepTraining(p, q) <=> ~Selects(p, q)
  BY <1>3 DEF KeepTraining, Selects
<1>5. r.trained \subseteq TrainingSet(p, c) /\ r.evaluated = ChallengeSubset(p, c)
  BY <1>1, <1>2 DEF ThreeWayResult
<1>6. r.trained \subseteq T
  BY <1>3, <1>4, <1>5 DEF TrainingSet, AuditTraining
<1>7. r.evaluated = C
  BY <1>2, <1>5 DEF ChallengeSubset, AuditChallenge
<1>8. /\ AuditOf(p, c, 1).training = T /\ AuditOf(p, c, 1).challenge = C
      /\ AuditOf(p, c, 1).familyLeakage = (FamiliesOf(T) \cap FamiliesOf(C) # {})
  BY DEF AuditOf
<1>9. FamiliesOf(r.trained) \subseteq FamiliesOf(T)
  BY <1>6 DEF FamiliesOf
<1> HIDE DEF T, C
<1> QED
  BY <1>6, <1>7, <1>8, <1>9

(* A distance is a number, and nought between records alike.               *)
LEMMA Distances ==
  ASSUME NEW a, NEW b, IsFiniteSet(DOMAIN a)
  PROVE  Distance(a, b) \in Nat /\ (a = b => Distance(a, b) = 0)
<1>1. IsFiniteSet({i \in DOMAIN a : a[i] # b[i]})
  BY FS_Subset
<1>2. a = b => {i \in DOMAIN a : a[i] # b[i]} = {}
  OBVIOUS
<1> QED
  BY <1>1, <1>2, FS_CardinalityType, FS_EmptySet DEF Distance

LEMMA NearestIsNumber ==
  ASSUME NEW r, NEW T, T # {}, IsFiniteSet(DOMAIN r.shape)
  PROVE  Nearest(r, T) \in Nat /\ (StructuralMatch(r, T) => Nearest(r, T) = 0)
<1> DEFINE D == {Distance(r.shape, t.shape) : t \in T}
<1>1. D \subseteq Nat /\ D # {}
  BY Distances
<1>2. Nearest(r, T) = Min(D)
  BY DEF Nearest
<1>3. StructuralMatch(r, T) => 0 \in D
  BY Distances DEF StructuralMatch
<1> HIDE DEF D
<1>4. Min(D) \in D /\ \A y \in D : Min(D) <= y
  BY <1>1, LeastExists
<1>5. Min(D) \in Nat
  BY <1>1, <1>4
<1>6. 0 \in D => Min(D) = 0
  BY <1>4, <1>5
<1> QED
  BY <1>2, <1>3, <1>5, <1>6

LEMMA SamplesFromInv ==
  ASSUME ExperimentInv, ExperimentAssumption PROVE SamplesShowTheWorst
<1> DEFINE c == Corpora[file]
<1> SUFFICES ASSUME NEW p \in Protocols(c), NEW most \in {1, 2}, AuditAccepts(p, c)
             PROVE  LET row == AuditOf(p, c, most) IN
                    /\ row.full # {} => row.samples \cap row.full # {}
                    /\ row.full \subseteq row.structural /\ row.structural \subseteq row.withinOne
                    /\ Cardinality(row.samples) = Min({most, Cardinality(row.challenge)})
  BY DEF SamplesShowTheWorst
<1> DEFINE T == AuditTraining(p, c)
           C == AuditChallenge(p, c)
           full == {r \in C : FullMatch(r, T)}
           structural == {r \in C : StructuralMatch(r, T)}
           within == {r \in C : Nearest(r, T) <= 1}
           row == AuditOf(p, c, most)
<1>1. /\ row.full = full /\ row.structural = structural /\ row.withinOne = within
      /\ row.samples = Samples(C, T, most) /\ row.challenge = C
  BY DEF AuditOf
<1>2. SoundCorpus(c)
  BY DEF ExperimentInv, ExperimentAssumption
<1>3. C \subseteq c.records /\ IsFiniteSet(C) /\ T # {} /\ C # {}
  <2>1. C \subseteq c.records
    BY DEF AuditChallenge, Challenge
  <2>2. IsFiniteSet(C)
    BY <2>1, <1>2, FS_Subset DEF SoundCorpus
  <2> QED BY <2>1, <2>2 DEF AuditAccepts
<1>4. \A r \in C : r.id \in Nat /\ IsFiniteSet(DOMAIN r.shape)
  BY <1>2, <1>3 DEF SoundCorpus
<1>5. \A r, q \in C : r.id = q.id => r = q
  BY <1>2, <1>3 DEF SoundCorpus
<1> HIDE DEF T, C, row, c
<1>6. \A r \in C : Nearest(r, T) \in Nat /\ (StructuralMatch(r, T) => Nearest(r, T) = 0)
  BY <1>3, <1>4, NearestIsNumber
<1>7. full \subseteq structural /\ structural \subseteq within
  BY <1>6 DEF FullMatch, StructuralMatch
<1> DEFINE R == {u \in C \X C : Before(u[1], u[2], T)}
           rank(r) == Urgency(r, T)
<1>8. ASSUME NEW r \in C
      PROVE  /\ rank(r)[1] \in Nat /\ rank(r)[2] \in Nat /\ rank(r) = <<rank(r)[1], rank(r)[2]>>
             /\ FullMatch(r, T) => rank(r)[1] = 0
             /\ ~FullMatch(r, T) => rank(r)[1] > 0
  BY <1>6 DEF Urgency
<1>9. ASSUME NEW a \in C, NEW b \in C
      PROVE  Before(a, b, T) <=> \/ rank(a)[1] < rank(b)[1]
                                 \/ rank(a)[1] = rank(b)[1] /\ rank(a)[2] < rank(b)[2]
                                 \/ rank(a)[1] = rank(b)[1] /\ rank(a)[2] = rank(b)[2] /\ a.id < b.id
  <2>1. rank(a) = rank(b) <=> rank(a)[1] = rank(b)[1] /\ rank(a)[2] = rank(b)[2]
    BY <1>8
  <2> QED BY <2>1 DEF Before
<1>10. \A a, b \in C : <<a, b>> \in R <=> Before(a, b, T)
  OBVIOUS
<1> HIDE DEF R, rank
<1>11. StrictOrder(C, R)
  <2>1. ASSUME NEW a \in C, NEW b \in C, Before(a, b, T) PROVE ~Before(b, a, T)
    BY <2>1, <1>8, <1>9, <1>4
  <2>2. ASSUME NEW a \in C, NEW b \in C, NEW d \in C, Before(a, b, T), Before(b, d, T)
        PROVE  Before(a, d, T)
    BY <2>2, <1>8, <1>9, <1>4
  <2>3. ASSUME NEW a \in C, NEW b \in C, a # b PROVE Before(a, b, T) \/ Before(b, a, T)
    BY <2>3, <1>8, <1>9, <1>4, <1>5
  <2> QED BY <2>1, <2>2, <2>3, <1>10 DEF StrictOrder
<1>12. Samples(C, T, most) = First_(C, R, most)
  <2>1. \A r \in C : Below(C, R, r) = {q \in C : Before(q, r, T)}
    BY <1>10 DEF Below
  <2> QED BY <2>1 DEF Samples, First_
<1>13. most \in Nat /\ most > 0
  OBVIOUS
<1>14. Cardinality(Samples(C, T, most)) = Min({most, Cardinality(C)})
  <2>1. Cardinality(C) \in Nat
    BY <1>3, FS_CardinalityType
  <2> QED BY <2>1, <1>3, <1>11, <1>12, <1>13, Ranks, LeastOfTwo
<1>15. full # {} => Samples(C, T, most) \cap full # {}
  <2> SUFFICES ASSUME NEW f \in full PROVE Samples(C, T, most) \cap full # {}
    OBVIOUS
  <2>1. PICK r \in C : /\ \A q \in C : q # r => <<r, q>> \in R
                       /\ r \in First_(C, R, most)
    BY <1>3, <1>11, <1>13, Ranks
  <2>2. FullMatch(r, T)
    <3>1. f = r \/ Before(r, f, T)
      BY <2>1, <1>10
    <3> QED BY <3>1, <1>8, <1>9
  <2> QED BY <2>1, <2>2, <1>12
<1> QED
  BY <1>1, <1>7, <1>14, <1>15 DEF row

(* The experiments hold out what they say and report what they made, when  *)
(* no two commands run on one directory at once: the run of the finding    *)
(* shows what two of them do.                                              *)
THEOREM HeldOutUnseen == ~Overlap => (EvaluationSpec => []HeldOutIsUnseen)
<1>1. ASSUME component = "experiment" => ExperimentInv PROVE HeldOutIsUnseen
  <2> SUFFICES ASSUME ExperimentInv
               PROVE  /\ TypeOK /\ HeldOutStaysOut /\ ReportedModelsAreThere
                      /\ OneFatePerProtocol /\ AuditIsOfTheModels /\ SamplesShowTheWorst
    BY <1>1 DEF HeldOutIsUnseen
  <2>1. ExperimentAssumption
    BY CommandsAssumption
  <2>2. TypeOK
    <3>1. DOMAIN dir = {"exists", "models", "report"} /\ dir.exists \in BOOLEAN /\ (~Empty(dir) => dir.exists)
      BY DEF ExperimentInv, DirectoryInv
    <3>2. \A k \in Commands : CommandInv(cmd[k])
      BY DEF ExperimentInv
    <3> QED BY <3>1, <3>2 DEF TypeOK, ExperimentInv, CommandInv, Steps
  <2> QED BY <2>1, <2>2, HeldOutFromInv, ReportFromInv, AuditFromInv, SamplesFromInv
<1> QED
  BY <1>1, ExperimentInvariant, PTL

-----------------------------------------------------------------------------
(* The operators of the standard modules, as the instances know them.      *)
LEMMA TrackCountsAsHere ==
  /\ \A S : Track!Cardinality(S) = Cardinality(S)
  /\ \A S : Track!IsFiniteSet(S) <=> IsFiniteSet(S)
  /\ \A S : Track!Min(S) = Min(S)
BY DEF Track!Cardinality, Cardinality, Track!IsFiniteSet, IsFiniteSet, Track!Min, Min

LEMMA FirstNumbers == \A n \in Nat : IsFiniteSet(1..n) /\ Cardinality(1..n) = n
BY FS_Interval

LEMMA LengthOf ==
  ASSUME NEW n \in Nat, NEW s, s = [i \in 1..n |-> s[i]]
  PROVE  Len(s) = n
<1> DEFINE S == {s[i] : i \in 1..n}
<1>1. s \in [1..n -> S]
  OBVIOUS
<1>2. s \in Seq(S)
  <2> HIDE DEF S
  <2> QED BY <1>1, SeqDef
<1>3. DOMAIN s = 1..n
  BY <1>1
<1>4. Len(s) \in Nat /\ DOMAIN s = 1..Len(s)
  <2> HIDE DEF S
  <2> QED BY <1>2, LenProperties
<1> HIDE DEF S
<1>5. Cardinality(1..n) = n /\ Cardinality(1..Len(s)) = Len(s)
  BY <1>4, FS_Interval
<1> QED
  BY <1>3, <1>4, <1>5

(* When as many records are accepted as there are, all of them are.        *)
LEMMA AllAccepted ==
  ASSUME NEW s, NEW n \in Nat, s = [i \in 1..n |-> s[i]], NEW A, A \subseteq 1..n,
         Cardinality(A) = Len(s)
  PROVE  A = 1..n
<1>1. Len(s) = n
  BY LengthOf
<1>2. IsFiniteSet(1..n) /\ Cardinality(1..n) = n
  BY FirstNumbers
<1> QED
  BY <1>1, <1>2, FS_Subset

LEMMA TrackReport ==
  ASSUME NEW m, Track!ParsedManifest(m), NEW v9, NEW h, NEW j, NEW packs, NEW rep,
         rep = Track!PreflightReport(m, v9, h, j, packs), rep # None
  PROVE  /\ rep.manifest = m /\ rep.jar = j /\ rep.packs = packs
         /\ DOMAIN rep.records = DOMAIN m.transitions
         /\ rep.passed => \A i \in DOMAIN m.transitions :
              /\ rep.records[i].reasons = {}
              /\ Track!Reasons(m.transitions[i], v9, j, Track!SeenBefore(m.transitions, j, i)) = {}
<1> DEFINE reasons(i) == Track!Reasons(m.transitions[i], v9, j, Track!SeenBefore(m.transitions, j, i))
           record(i) == [id |-> m.transitions[i].id, reasons |-> reasons(i),
                         exact |-> Track!ExactOverlap(Track!Features(m.transitions[i]), v9),
                         nearest |-> Track!NearestDistance(Track!Features(m.transitions[i]), v9)]
           records == [i \in DOMAIN m.transitions |-> record(i)]
           A == {i \in DOMAIN records : records[i].reasons = {}}
<1>1. rep = [kind |-> "preflight", manifest |-> m, v9 |-> h, jar |-> j, packs |-> packs,
             passed |-> Track!Cardinality(A) = Len(records), total |-> Len(records),
             accepted |-> Track!Cardinality(A),
             rejected |-> Len(records) - Track!Cardinality(A), records |-> records]
  BY DEF Track!PreflightReport
<1>2. /\ rep.manifest = m /\ rep.jar = j /\ rep.packs = packs /\ rep.records = records
      /\ rep.passed = (Track!Cardinality(A) = Len(records))
  <2> HIDE DEF records, A
  <2> QED BY <1>1
<1>3. DOMAIN records = DOMAIN m.transitions /\ \A i \in DOMAIN m.transitions : records[i].reasons = reasons(i)
  OBVIOUS
<1>4. ASSUME rep.passed PROVE \A i \in DOMAIN m.transitions : records[i].reasons = {}
  <2>1. PICK n \in Nat : DOMAIN m.transitions = 1..n
    <3>1. PICK S : m.transitions \in Seq(S)
      BY DEF Track!ParsedManifest, Track!IsSequence
    <3> QED BY <3>1, LenProperties
  <2>2. records = [i \in 1..n |-> records[i]]
    BY <2>1
  <2>3. A \subseteq 1..n /\ Cardinality(A) = Len(records)
    BY <1>2, <1>4, <2>1, TrackCountsAsHere
  <2>4. A = 1..n
    <3> HIDE DEF records, A
    <3> QED BY <2>2, <2>3, AllAccepted
  <2> QED BY <2>1, <2>4
<1> HIDE DEF records
<1> QED
  BY <1>2, <1>3, <1>4

(* The nearest distance is that of some record, and no record is nearer.   *)
LEMMA TrackNearest ==
  ASSUME NEW f, NEW v9, Track!LoadedCorpus(v9), IsFiniteSet(DOMAIN f.structural)
  PROVE  /\ Track!NearestDistance(f, v9) \in Nat
         /\ \A x \in v9.records :
              /\ Track!CoordinateDistance(f.structural, x.features.structural) \in Nat
              /\ Track!NearestDistance(f, v9) <= Track!CoordinateDistance(f.structural, x.features.structural)
<1> DEFINE D == {Track!CoordinateDistance(f.structural, x.features.structural) : x \in v9.records}
<1>1. \A b : Track!CoordinateDistance(f.structural, b) \in Nat
  <2> TAKE b
  <2>1. IsFiniteSet({i \in DOMAIN f.structural : f.structural[i] # b[i]})
    BY FS_Subset
  <2> QED BY <2>1, FS_CardinalityType, TrackCountsAsHere DEF Track!CoordinateDistance
<1>2. D \subseteq Nat /\ D # {}
  BY <1>1 DEF Track!LoadedCorpus
<1>3. Track!NearestDistance(f, v9) = Min(D)
  BY TrackCountsAsHere DEF Track!NearestDistance
<1>4. Min(D) \in D /\ \A y \in D : Min(D) <= y
  <2> HIDE DEF D
  <2> QED BY <1>2, LeastExists
<1> QED
  BY <1>1, <1>2, <1>3, <1>4

-----------------------------------------------------------------------------
(* What the gate leaves in the files of a command whose manifest is m.     *)
Cleared(m, jar, report) ==
  /\ report = Track!PreflightReport(m, V9, V9, jar, PinnedPacks)
  /\ report # None /\ report.passed

(* A transition of a manifest that passed the gate lies apart from V9.     *)
LEMMA GatedAreAway ==
  ASSUME NEW m \in Manifests, NEW j, NEW rep, Cleared(m, j, rep),
         NEW u \in Track!Transitions(m), NEW x \in V9.records
  PROVE  /\ u.source # x.source /\ u.family # x.family
         /\ Track!CoordinateDistance(TrackStructural[u.pair], x.features.structural) > MaxDistance
         /\ x.pair = None \/ x.pair # u.pair
<1>1. Track!ParsedManifest(m) /\ Track!LoadedCorpus(V9)
      /\ MaxDistance \in Nat /\ (x.pair # None =>
           x.pair \in DOMAIN TrackStructural /\ x.features.structural = TrackStructural[x.pair])
      /\ \A pair \in DOMAIN TrackStructural : IsFiniteSet(DOMAIN TrackStructural[pair])
  BY CommandsAssumption, TrackCountsAsHere DEF Track!TrackAssumption, Track!ManifestAssumption
<1>2. PICK i \in DOMAIN m.transitions : u = m.transitions[i]
  BY DEF Track!Transitions, Track!ToSet
<1>3. /\ Track!Reasons(m.transitions[i], V9, j, Track!SeenBefore(m.transitions, j, i)) = {}
      /\ u.pair \in DOMAIN TrackStructural
  <2>1. Track!Reasons(m.transitions[i], V9, j, Track!SeenBefore(m.transitions, j, i)) = {}
    BY <1>1, TrackReport DEF Cleared
  <2>2. m.transitions[i].pair \in DOMAIN TrackStructural
    BY <1>1 DEF Track!ParsedManifest
  <2> QED BY <1>2, <2>1, <2>2
<1>4. /\ u.source \notin {r.source : r \in V9.records}
      /\ u.family \notin {r.family : r \in V9.records}
      /\ ~Track!TooNear(u, V9)
  BY <1>2, <1>3 DEF Track!Reasons
<1>5. Track!Features(u).structural = TrackStructural[u.pair]
  BY DEF Track!Features
<1>6. /\ Track!NearestDistance(Track!Features(u), V9) \in Nat
      /\ Track!CoordinateDistance(TrackStructural[u.pair], x.features.structural) \in Nat
      /\ Track!NearestDistance(Track!Features(u), V9)
            <= Track!CoordinateDistance(TrackStructural[u.pair], x.features.structural)
  BY <1>1, <1>3, <1>5, TrackNearest
<1>7. Track!CoordinateDistance(TrackStructural[u.pair], x.features.structural) > MaxDistance
  BY <1>1, <1>4, <1>6 DEF Track!TooNear
<1>8. ASSUME x.pair # None PROVE x.pair # u.pair
  <2>1. Track!CoordinateDistance(TrackStructural[x.pair], TrackStructural[x.pair]) = 0
    <3> DEFINE a == TrackStructural[x.pair]
    <3>1. {k \in DOMAIN a : a[k] # a[k]} = {}
      OBVIOUS
    <3> QED BY <3>1, FS_EmptySet, TrackCountsAsHere DEF Track!CoordinateDistance
  <2>2. Track!CoordinateDistance(TrackStructural[u.pair], TrackStructural[x.pair]) > MaxDistance
    BY <1>1, <1>7, <1>8
  <2>3. ~(0 > MaxDistance)
    BY <1>1
  <2> QED BY <2>1, <2>2, <2>3
<1> QED
  BY <1>4, <1>7, <1>8

(* Every planned pair is a candidate, named by one transition of the       *)
(* manifest, for the source and the family of another of its contract.     *)
NamedBy(source, family, pair, t, u) ==
  /\ t.source = source /\ t.family = family /\ t.contract = u.contract
  /\ \E c \in Candidates[t.base] : c.variant = u.variant /\ c.pair = pair

LEMMA PlannedAreNamed ==
  ASSUME NEW m \in Manifests, NEW p \in Track!Planned(m)
  PROVE  \E t, u \in Track!Transitions(m) : NamedBy(p.seed.source, p.seed.family, p.pair, t, u)
<1> DEFINE t(i) == m.transitions[i]
<1>1. PICK s \in Track!SeedsOf(m) : \E c \in Candidates[s.base] :
        c.variant \in Track!AllowedVariants(m, s.contract) /\ p = [seed |-> s, pair |-> c.pair]
  BY DEF Track!Planned
<1>2. PICK c \in Candidates[s.base] :
        c.variant \in Track!AllowedVariants(m, s.contract) /\ p = [seed |-> s, pair |-> c.pair]
  BY <1>1
<1>3. PICK u \in Track!Transitions(m) : u.contract = s.contract /\ u.variant = c.variant
  BY <1>2 DEF Track!AllowedVariants
<1>4. PICK w \in Track!Transitions(m) :
        /\ w.contract = s.contract /\ s.base = w.base /\ s.family = w.family /\ s.source = w.source
  <2>1. PICK v \in Track!Transitions(m) : s = Track!SeedOf(m, v.contract)
    BY <1>1 DEF Track!SeedsOf
  <2> DEFINE I == {i \in DOMAIN m.transitions : t(i).contract = v.contract}
  <2>2. I # {}
    BY DEF Track!Transitions, Track!ToSet
  <2>3. I \subseteq Nat
    <3>1. Track!ParsedManifest(m)
      BY CommandsAssumption DEF Track!TrackAssumption
    <3>2. PICK S : m.transitions \in Seq(S)
      BY <3>1 DEF Track!ParsedManifest, Track!IsSequence
    <3> QED BY <3>2, LenProperties
  <2>4. Min(I) \in I
    <3> HIDE DEF I
    <3> QED BY <2>2, <2>3, LeastExists
  <2> DEFINE w == m.transitions[Min(I)]
  <2>5. w \in Track!Transitions(m) /\ w.contract = v.contract
    BY <2>4 DEF Track!Transitions, Track!ToSet
  <2>6. s = [contract |-> v.contract, family |-> w.family, source |-> w.source, base |-> w.base]
    BY <2>1, TrackCountsAsHere DEF Track!SeedOf
  <2> HIDE DEF w
  <2> QED BY <2>5, <2>6
<1>5. p.seed = s /\ p.pair = c.pair
  BY <1>2
<1>6. NamedBy(p.seed.source, p.seed.family, p.pair, w, u)
  BY <1>2, <1>3, <1>4, <1>5 DEF NamedBy
<1> QED
  BY <1>6

(* A question that may be asked: what the properties say of it, of the     *)
(* manifest that was gated and of the one that was planned.                *)
FromPlan(q, m) ==
  /\ \E t, u \in Track!Transitions(m) : NamedBy(q.source, q.family, q.pair, t, u)
  /\ q.mode = "lint" \/ \E t \in Track!Transitions(m) : t.policy = q.policy

AwayAsGated(q, m) ==
  \A g \in Track!Transitions(m), x \in V9.records :
    /\ g.source = q.source => q.source # x.source
    /\ g.family = q.family => q.family # x.family
    /\ g.pair = q.pair =>
         /\ x.pair = None \/ x.pair # q.pair
         /\ Track!CoordinateDistance(TrackStructural[q.pair], x.features.structural) > MaxDistance

Rightful(a) ==
  \A q \in a.questions :
    /\ FromPlan(q, a.planned) /\ AwayAsGated(q, a.gated)
    /\ a.planned = a.gated /\ Track!NamesCandidates(a.planned) => Track!Apart(q)

LEMMA QuestionsAreRightful ==
  ASSUME NEW gated \in Manifests, NEW jar, NEW report, Cleared(gated, jar, report),
         NEW planned \in Manifests, Track!PlanIsSound(planned),
         NEW p \in Track!Planned(planned), NEW policy, NEW mode,
         mode = "lint" \/ policy \in Track!Policies(planned), NEW q, q = Track!Question(p, policy, mode)
  PROVE  /\ FromPlan(q, planned) /\ AwayAsGated(q, gated)
         /\ planned = gated /\ Track!NamesCandidates(planned) => Track!Apart(q)
<1>1. /\ q.source = p.seed.source /\ q.family = p.seed.family /\ q.pair = p.pair
      /\ q.policy = policy /\ q.mode = mode
  BY DEF Track!Question
<1>2. PICK t, u \in Track!Transitions(planned) : NamedBy(q.source, q.family, q.pair, t, u)
  BY <1>1, PlannedAreNamed
<1>3. FromPlan(q, planned)
  BY <1>1, <1>2 DEF FromPlan, Track!Policies
<1>4. AwayAsGated(q, gated)
  BY GatedAreAway DEF AwayAsGated
<1>5. ASSUME planned = gated, Track!NamesCandidates(planned) PROVE Track!Apart(q)
  <2>1. PICK c \in Candidates[t.base] : c.variant = u.variant /\ c.pair = q.pair
    BY <1>2 DEF NamedBy
  <2>2. u.base = t.base
    BY <1>2 DEF NamedBy, Track!PlanIsSound
  <2>3. [variant |-> u.variant, pair |-> u.pair] \in Candidates[t.base] /\ t.base \in DOMAIN Candidates
    BY <1>5, <2>2, CommandsAssumption DEF Track!NamesCandidates, Track!TrackAssumption
  <2>4. c = [variant |-> u.variant, pair |-> u.pair]
    BY <2>1, <2>3, CommandsAssumption DEF Track!TrackAssumption
  <2>5. q.pair = u.pair /\ q.source = t.source /\ q.family = t.family
    BY <1>2, <2>1, <2>4 DEF NamedBy
  <2>6. ASSUME NEW x \in V9.records
        PROVE  /\ q.source # x.source /\ q.family # x.family
               /\ x.pair = None \/ q.pair # x.pair
               /\ Track!CoordinateDistance(TrackStructural[q.pair], x.features.structural) > MaxDistance
    BY <1>5, <2>5, GatedAreAway
  <2> QED BY <2>6 DEF Track!Apart
<1> QED
  BY <1>3, <1>4, <1>5

-----------------------------------------------------------------------------
(* The track.  What a running command j has behind it on the paths d of    *)
(* its slot.                                                               *)
GenerateShape(j) ==
  j = [pc |-> j.pc, slot |-> j.slot, gated |-> j.gated, planned |-> j.planned, jar |-> j.jar,
       records |-> j.records, modes |-> j.modes]

RecordSet == [q : Track!Questions, jar : Jars, packs : {PinnedPacks}]

(* The question of a record was asked, on account of the two manifests.    *)
AskedFor(r, gated, planned, A) ==
  \E a \in A : a.gated = gated /\ a.planned = planned /\ r.q \in a.questions

JobInv(j, d, A) ==
  /\ j.slot \in Slots /\ j.pc \in {"gate", "plan", "lint", "label", "evidence"}
  /\ j.pc = "gate" => d = Track!Empty
  /\ j.pc # "evidence" =>
       /\ GenerateShape(j) /\ j.gated \in Manifests /\ j.jar \in Jars
       /\ j.records \subseteq RecordSet /\ \A r \in j.records : AskedFor(r, j.gated, j.planned, A)
       /\ d.corpus = None /\ d.evidence = None
  /\ j.pc \in {"gate", "plan"} => j.records = {}
  /\ j.pc \in {"plan", "lint", "label"} => \E jar \in Jars : Cleared(j.gated, jar, d.preflight)
  /\ j.pc \in {"lint", "label"} => j.planned \in Manifests /\ Track!PlanIsSound(j.planned)
  /\ j.pc = "evidence" =>
       d.corpus \in Track!CorpusContents /\ d.corpus.records = j.records /\ d.evidence = None

SlotInv(d, A) ==
  /\ d = [preflight |-> d.preflight, corpus |-> d.corpus, evidence |-> d.evidence]
  /\ Track!Readable(d.preflight) =>
       \E m \in Manifests, jar \in Jars : d.preflight = Track!PreflightReport(m, V9, V9, jar, PinnedPacks)
  /\ d.corpus \in {None} \cup Track!CorpusContents
  /\ d.corpus # None /\ ~d.corpus.ready =>
       /\ Track!Readable(d.preflight)
       /\ d.preflight.passed /\ d.preflight.manifest = d.corpus.gated
       /\ \A r \in d.corpus.records : AskedFor(r, d.corpus.gated, d.corpus.planned, A)
  /\ Track!Readable(d.evidence) =>
       IF d.evidence.generated
       THEN d.corpus # None /\ d.corpus.records = d.evidence.records
       ELSE d.corpus = None

(* What makes the corpus c ready.                                          *)
Earned(c) ==
  /\ \E o \in Slots : /\ disk[o].corpus # None /\ ~disk[o].corpus.ready
                      /\ disk[o].corpus.records = c.records
  /\ \A r \in c.records : r.jar = FrozenJar /\ r.packs = PinnedPacks
  /\ LET report == disk[c.report].preflight
     IN Track!Readable(report) /\ report.jar = FrozenJar /\ report.passed

TrackInv ==
  /\ disk = [s \in Slots |-> disk[s]]
  /\ \A s \in Slots : SlotInv(disk[s], asked)
  /\ job # None => JobInv(job, disk[job.slot], asked)
  /\ \A s \in Slots : disk[s].corpus # None /\ disk[s].corpus.ready => Earned(disk[s].corpus)
  /\ \A a \in asked : Rightful(a)

(* The JAR having been asked more, what is on a path stays explained.      *)
LEMMA AskedMore ==
  ASSUME NEW d, NEW A, NEW B, A \subseteq B, SlotInv(d, A)
  PROVE  SlotInv(d, B)
BY DEF SlotInv, AskedFor

(* What made a corpus ready stays on disk: no corpus is written twice, and *)
(* no complete report.                                                     *)
LEMMA EarnedStays ==
  ASSUME TrackInv, NEW c \in Track!CorpusContents, Earned(c),
         NEW s \in Slots, NEW e, disk' = [disk EXCEPT ![s] = e],
         disk[s].corpus # None => e.corpus = disk[s].corpus,
         Track!Readable(disk[s].preflight) => e.preflight = disk[s].preflight
  PROVE  Earned(c)'
<1>1. \A t \in Slots : disk'[t] = IF t = s THEN e ELSE disk[t]
  BY DEF TrackInv
<1>2. PICK o \in Slots : /\ disk[o].corpus # None /\ ~disk[o].corpus.ready
                         /\ disk[o].corpus.records = c.records
  BY DEF Earned
<1>3. disk'[o].corpus = disk[o].corpus
  BY <1>1, <1>2
<1>4. c.report \in Slots
  BY DEF Track!CorpusContents
<1>5. disk'[c.report].preflight = disk[c.report].preflight
  BY <1>1, <1>4 DEF Earned
<1> QED
  BY <1>2, <1>3, <1>5 DEF Earned

(* A step of the track, seen on the paths of the one slot it may write.    *)
LEMMA SlotStep ==
  ASSUME TrackInv, NEW s \in Slots, NEW e, NEW j, NEW A,
         disk' = [disk EXCEPT ![s] = e], job' = j, asked' = A, asked \subseteq A,
         SlotInv(e, A), j # None => j.slot = s /\ JobInv(j, e, A),
         disk[s].corpus # None => e.corpus = disk[s].corpus,
         Track!Readable(disk[s].preflight) => e.preflight = disk[s].preflight,
         e.corpus # None /\ e.corpus.ready => e.corpus = disk[s].corpus \/ Earned(e.corpus),
         \A a \in A : a \in asked \/ Rightful(a)
  PROVE  TrackInv'
<1>1. /\ disk' = [t \in Slots |-> disk'[t]]
      /\ \A t \in Slots : disk'[t] = IF t = s THEN e ELSE disk[t]
  BY DEF TrackInv
<1>2. \A t \in Slots : SlotInv(disk'[t], A)
  BY <1>1, AskedMore DEF TrackInv
<1>3. ASSUME NEW t \in Slots, disk'[t].corpus # None, disk'[t].corpus.ready
      PROVE  Earned(disk[t].corpus)'
  <2>1. PICK c : c = disk'[t].corpus
    OBVIOUS
  <2>2. c \in Track!CorpusContents
    BY <1>2, <1>3, <2>1 DEF SlotInv
  <2>3. Earned(c)
    <3>1. CASE c = disk[t].corpus
      BY <3>1, <2>1, <1>3 DEF TrackInv
    <3>2. CASE c # disk[t].corpus
      BY <3>2, <2>1, <1>1, <1>3
    <3> QED BY <3>1, <3>2
  <2>4. Earned(c)'
    BY <2>2, <2>3, EarnedStays
  <2> QED BY <2>1, <2>4 DEF Earned
<1>4. \A t \in Slots : disk'[t].corpus # None /\ disk'[t].corpus.ready => Earned(disk[t].corpus)'
  BY <1>3
<1>5. job' # None => JobInv(job', disk'[job'.slot], A)
  BY <1>1
<1>6. \A a \in A : Rightful(a)
  BY DEF TrackInv
<1> QED
  BY <1>1, <1>2, <1>4, <1>5, <1>6 DEF TrackInv

(* The same when nothing is written.                                       *)
LEMMA QuietStep ==
  ASSUME TrackInv, disk' = disk, asked' = asked, NEW j, job' = j,
         j # None => j.slot \in Slots /\ JobInv(j, disk[j.slot], asked)
  PROVE  TrackInv'
<1>1. CASE j = None
  BY <1>1 DEF TrackInv, Earned
<1>2. CASE j # None
  BY <1>2 DEF TrackInv, Earned
<1> QED BY <1>1, <1>2

LEMMA GenerateStep ==
  ASSUME TrackInv, NEW s \in Slots, NEW m \in Manifests, NEW jar \in Jars, Track!Generate(s, m, jar)
  PROVE  TrackInv'
<1>1. PICK j : j = [pc |-> "gate", slot |-> s, gated |-> m, planned |-> None, jar |-> jar,
                    records |-> {}, modes |-> {}]
  OBVIOUS
<1>2. job' = j /\ disk' = disk /\ asked' = asked /\ disk[s] = Track!Empty
  BY <1>1 DEF Track!Generate, Track!Start
<1>3. disk[s].corpus = None /\ disk[s].evidence = None
  BY <1>2 DEF Track!Empty
<1>4. /\ j.slot = s /\ j.pc = "gate" /\ j.gated = m /\ j.jar = jar /\ j.records = {}
      /\ GenerateShape(j)
  BY <1>1 DEF GenerateShape
<1>5. JobInv(j, disk[s], asked)
  BY <1>2, <1>3, <1>4 DEF JobInv
<1> QED
  BY <1>2, <1>4, <1>5, QuietStep

LEMMA GateOpensStep ==
  ASSUME TrackInv, Track!Gate
  PROVE  TrackInv'
<1> DEFINE s == job.slot
           rep == Track!PreflightReport(job.gated, V9, V9, job.jar, PinnedPacks)
           d == disk[s]
           e == [d EXCEPT !.preflight = rep]
           j == [job EXCEPT !.pc = "plan"]
<1>1. /\ job # None /\ job.pc = "gate" /\ rep # None /\ asked' = asked
      /\ disk' = [disk EXCEPT ![s] = e]
      /\ IF rep.passed THEN job' = j ELSE job' = None
  BY DEF Track!Gate, Track!At, Track!GateOpens, Track!Quit
<1>2. JobInv(job, d, asked) /\ s \in Slots /\ SlotInv(d, asked)
  BY <1>1 DEF TrackInv, JobInv
<1>3. /\ d = Track!Empty /\ GenerateShape(job) /\ job.gated \in Manifests /\ job.jar \in Jars
      /\ job.records = {}
  BY <1>1, <1>2 DEF JobInv
<1>4. /\ e.preflight = rep /\ e.corpus = None /\ e.evidence = None
      /\ e = [preflight |-> e.preflight, corpus |-> e.corpus, evidence |-> e.evidence]
  <2> HIDE DEF rep
  <2> QED BY <1>3 DEF Track!Empty
<1>5. /\ j.pc = "plan" /\ j.slot = s /\ j.gated = job.gated /\ j.jar = job.jar
      /\ j.records = job.records /\ GenerateShape(j)
  BY <1>3 DEF GenerateShape
<1>6. d.corpus = None /\ ~Track!Readable(d.preflight)
  BY <1>3 DEF Track!Empty, Track!Readable
<1> HIDE DEF e, j, d, s
<1>7. SlotInv(e, asked)
  <2> HIDE DEF rep
  <2> QED BY <1>3, <1>4 DEF SlotInv, Track!Readable, rep
<1>8. rep.passed => JobInv(j, e, asked)
  <2>1. rep.passed => Cleared(j.gated, j.jar, e.preflight)
    BY <1>1, <1>4, <1>5 DEF Cleared
  <2> HIDE DEF rep
  <2> QED BY <1>2, <1>3, <1>4, <1>5, <2>1 DEF JobInv
<1> HIDE DEF rep
<1>9. CASE rep.passed
  BY <1>1, <1>2, <1>4, <1>5, <1>6, <1>7, <1>8, <1>9, SlotStep DEF d
<1>10. CASE ~rep.passed
  BY <1>1, <1>2, <1>4, <1>6, <1>7, <1>10, SlotStep DEF d
<1> QED BY <1>9, <1>10

LEMMA PlanStep ==
  ASSUME TrackInv, NEW m \in Manifests, NEW jar \in Jars, Track!Plan(m, jar)
  PROVE  TrackInv'
<1> DEFINE j == [job EXCEPT !.pc = "lint", !.planned = m, !.jar = jar]
<1>1. /\ job # None /\ job.pc = "plan" /\ asked' = asked /\ disk' = disk /\ job' = j
      /\ Track!PlanIsSound(m)
  BY DEF Track!Plan, Track!At
<1>2. JobInv(job, disk[job.slot], asked)
  BY <1>1 DEF TrackInv
<1>3. GenerateShape(job) /\ job.records = {}
  BY <1>1, <1>2 DEF JobInv
<1>4. /\ j.pc = "lint" /\ j.slot = job.slot /\ j.gated = job.gated /\ j.planned = m /\ j.jar = jar
      /\ j.records = {} /\ GenerateShape(j)
  <2>1. PICK a : a = [job EXCEPT !.pc = "lint"]
    OBVIOUS
  <2>2. a = [pc |-> "lint", slot |-> job.slot, gated |-> job.gated, planned |-> job.planned,
             jar |-> job.jar, records |-> job.records, modes |-> job.modes]
    BY <1>3, <2>1 DEF GenerateShape
  <2>3. PICK b : b = [a EXCEPT !.planned = m]
    OBVIOUS
  <2>4. b = [pc |-> "lint", slot |-> job.slot, gated |-> job.gated, planned |-> m,
             jar |-> job.jar, records |-> job.records, modes |-> job.modes]
    BY <2>2, <2>3
  <2>5. j = [b EXCEPT !.jar = jar]
    BY <2>1, <2>3
  <2> HIDE DEF j
  <2>6. j = [pc |-> "lint", slot |-> job.slot, gated |-> job.gated, planned |-> m,
             jar |-> jar, records |-> job.records, modes |-> job.modes]
    BY <2>4, <2>5
  <2> QED BY <1>3, <2>6 DEF GenerateShape
<1> HIDE DEF j
<1>5. JobInv(j, disk[j.slot], asked)
  BY <1>1, <1>2, <1>4 DEF JobInv
<1>6. j.slot \in Slots
  BY <1>5 DEF JobInv
<1> QED
  BY <1>1, <1>5, <1>6, QuietStep

LEMMA AskingIsRightful ==
  ASSUME NEW j, j.gated \in Manifests, NEW jar, NEW report, Cleared(j.gated, jar, report),
         j.planned \in Manifests, Track!PlanIsSound(j.planned)
  PROVE  /\ Rightful(Track!Asking(Track!LintQuestions(j.planned), j))
         /\ \A mode : Rightful(Track!Asking(Track!LabelQuestions(j.planned, mode), j))
<1>1. \A Q : /\ Track!Asking(Q, j).questions = Q /\ Track!Asking(Q, j).gated = j.gated
             /\ Track!Asking(Q, j).planned = j.planned
  BY DEF Track!Asking
<1>2. \A p \in Track!Planned(j.planned) : \A policy, mode :
        mode = "lint" \/ policy \in Track!Policies(j.planned) =>
          LET q == Track!Question(p, policy, mode)
          IN  /\ FromPlan(q, j.planned) /\ AwayAsGated(q, j.gated)
              /\ j.planned = j.gated /\ Track!NamesCandidates(j.planned) => Track!Apart(q)
  BY QuestionsAreRightful
<1>3. Rightful(Track!Asking(Track!LintQuestions(j.planned), j))
  BY <1>1, <1>2 DEF Rightful, Track!LintQuestions
<1>4. ASSUME NEW mode PROVE Rightful(Track!Asking(Track!LabelQuestions(j.planned, mode), j))
  BY <1>1, <1>2 DEF Rightful, Track!LabelQuestions
<1> QED BY <1>3, <1>4

(* The evidence of a job that keeps its slot without a corpus.             *)
LEMMA EvidenceWritten ==
  ASSUME NEW d, NEW v, NEW A, SlotInv(d, A),
         Track!Readable(v) => IF v.generated THEN d.corpus # None /\ d.corpus.records = v.records
                              ELSE d.corpus = None
  PROVE  LET e == [d EXCEPT !.evidence = v]
         IN  SlotInv(e, A) /\ e.preflight = d.preflight /\ e.corpus = d.corpus /\ e.evidence = v
<1> DEFINE e == [d EXCEPT !.evidence = v]
<1>1. d = [preflight |-> d.preflight, corpus |-> d.corpus, evidence |-> d.evidence]
  BY DEF SlotInv
<1>2. e.preflight = d.preflight /\ e.corpus = d.corpus /\ e.evidence = v
      /\ e = [preflight |-> e.preflight, corpus |-> e.corpus, evidence |-> e.evidence]
  BY <1>1
<1> HIDE DEF e
<1>3. SlotInv(e, A)
  BY <1>2 DEF SlotInv
<1> QED BY <1>2, <1>3 DEF e

LEMMA LintStep ==
  ASSUME TrackInv, Track!Lint
  PROVE  TrackInv'
<1> DEFINE s == job.slot
           d == disk[s]
           A == asked \cup {Track!Asking(Track!LintQuestions(job.planned), job)}
           none == [generated |-> FALSE, records |-> {}]
           e == [d EXCEPT !.evidence = none]
           j == [job EXCEPT !.pc = "label"]
<1>1. /\ job # None /\ job.pc = "lint" /\ asked' = A
      /\ \/ job' = j /\ disk' = disk
         \/ job' = None /\ disk' = [disk EXCEPT ![s] = e]
  BY DEF Track!Lint, Track!At, Track!Quit
<1>2. JobInv(job, d, asked) /\ s \in Slots /\ SlotInv(d, asked)
  BY <1>1 DEF TrackInv, JobInv
<1>3. /\ GenerateShape(job) /\ job.gated \in Manifests /\ job.planned \in Manifests /\ job.jar \in Jars
      /\ job.records \subseteq RecordSet
      /\ \A r \in job.records : AskedFor(r, job.gated, job.planned, asked)
      /\ d.corpus = None /\ d.evidence = None
      /\ (\E jar \in Jars : Cleared(job.gated, jar, d.preflight)) /\ Track!PlanIsSound(job.planned)
  BY <1>1, <1>2 DEF JobInv
<1>4. \A a \in A : a \in asked \/ Rightful(a)
  BY <1>3, AskingIsRightful
<1>5. asked \subseteq A
  OBVIOUS
<1>6. /\ j.pc = "label" /\ j.slot = s /\ j.gated = job.gated /\ j.planned = job.planned /\ j.jar = job.jar
      /\ j.records = job.records /\ GenerateShape(j)
  BY <1>3 DEF GenerateShape
<1> HIDE DEF A, j
<1>7. SlotInv(d, A)
  BY <1>2, <1>5, AskedMore
<1>8. CASE job' = j /\ disk' = disk
  <2>1. JobInv(j, d, A)
    BY <1>2, <1>3, <1>5, <1>6 DEF JobInv, AskedFor
  <2>2. disk' = [disk EXCEPT ![s] = d]
    BY <1>2, <1>8 DEF TrackInv
  <2> QED BY <1>1, <1>2, <1>4, <1>5, <1>6, <1>7, <1>8, <2>1, <2>2, SlotStep
<1>9. CASE job' = None /\ disk' = [disk EXCEPT ![s] = e]
  <2>1. none.generated = FALSE
    OBVIOUS
  <2> HIDE DEF none
  <2>2. SlotInv(e, A) /\ e.preflight = d.preflight /\ e.corpus = d.corpus
    BY <1>3, <1>7, <2>1, EvidenceWritten
  <2> HIDE DEF e
  <2> QED BY <1>1, <1>2, <1>3, <1>4, <1>5, <1>9, <2>2, SlotStep
<1> QED
  BY <1>1, <1>8, <1>9

LEMMA LabelStep ==
  ASSUME TrackInv, NEW mode \in Track!Modes, Track!Label(mode)
  PROVE  TrackInv'
<1> DEFINE s == job.slot
           d == disk[s]
           questions == Track!LabelQuestions(job.planned, mode)
           A == asked \cup {Track!Asking(questions, job)}
           new(refused) == {[q |-> q, jar |-> job.jar, packs |-> PinnedPacks] :
                              q \in {x \in questions : x.family # refused}}
<1>1. PICK refused : /\ job # None /\ job.pc = "label" /\ asked' = A /\ disk' = disk
                     /\ job' = [job EXCEPT !.modes = @ \cup {mode}, !.records = @ \cup new(refused)]
  BY DEF Track!Label, Track!At
<1> DEFINE modes == job.modes \cup {mode}
           records == job.records \cup new(refused)
           j == [job EXCEPT !.modes = modes, !.records = records]
<1>2. JobInv(job, d, asked) /\ s \in Slots /\ SlotInv(d, asked)
  BY <1>1 DEF TrackInv, JobInv
<1>3. /\ GenerateShape(job) /\ job.gated \in Manifests /\ job.planned \in Manifests /\ job.jar \in Jars
      /\ job.records \subseteq RecordSet
      /\ \A r \in job.records : AskedFor(r, job.gated, job.planned, asked)
      /\ d.corpus = None /\ d.evidence = None
      /\ (\E jar \in Jars : Cleared(job.gated, jar, d.preflight)) /\ Track!PlanIsSound(job.planned)
  BY <1>1, <1>2 DEF JobInv
<1>4. \A a \in A : a \in asked \/ Rightful(a)
  BY <1>3, AskingIsRightful
<1>5. asked \subseteq A
  OBVIOUS
<1>6. records \subseteq RecordSet /\ \A r \in records : AskedFor(r, job.gated, job.planned, A)
  <2>1. questions \subseteq Track!Questions
    BY <1>3 DEF Track!Questions
  <2> HIDE DEF questions
  <2>2. new(refused) \subseteq RecordSet /\ \A r \in new(refused) : r.q \in questions
    BY <1>3, <2>1 DEF RecordSet
  <2> HIDE DEF new
  <2>3. PICK a : a = Track!Asking(questions, job)
    OBVIOUS
  <2>4. a \in A /\ a.questions = questions /\ a.gated = job.gated /\ a.planned = job.planned
    BY <2>3 DEF Track!Asking
  <2>5. \A r \in new(refused) : AskedFor(r, job.gated, job.planned, A)
    BY <2>2, <2>4 DEF AskedFor
  <2> HIDE DEF A
  <2>6. \A r \in job.records : AskedFor(r, job.gated, job.planned, A)
    BY <1>3, <1>5 DEF AskedFor
  <2> QED BY <1>3, <2>2, <2>5, <2>6
<1>7. job' = j
  BY <1>1
<1> HIDE DEF A, modes, records
<1>8. /\ j.pc = "label" /\ j.slot = s /\ j.gated = job.gated /\ j.planned = job.planned /\ j.jar = job.jar
      /\ j.records = records /\ GenerateShape(j)
  <2>1. GenerateShape([job EXCEPT !.modes = modes])
    BY <1>3 DEF GenerateShape
  <2>2. \A x : GenerateShape(x) => GenerateShape([x EXCEPT !.records = records])
    BY DEF GenerateShape
  <2>3. j = [[job EXCEPT !.modes = modes] EXCEPT !.records = records]
    OBVIOUS
  <2>4. GenerateShape(j)
    BY <2>1, <2>2, <2>3
  <2> QED BY <1>1, <1>3, <2>4 DEF GenerateShape
<1> HIDE DEF j
<1>9. SlotInv(d, A)
  BY <1>2, <1>5, AskedMore
<1>10. JobInv(j, d, A)
  BY <1>2, <1>3, <1>6, <1>8 DEF JobInv
<1>11. disk' = [disk EXCEPT ![s] = d]
  BY <1>1, <1>2 DEF TrackInv
<1>12. asked' = A
  BY <1>1 DEF A
<1> QED
  BY <1>2, <1>4, <1>5, <1>7, <1>8, <1>9, <1>10, <1>11, <1>12, SlotStep

LEMMA SaveStep ==
  ASSUME TrackInv, Track!Save
  PROVE  TrackInv'
<1> DEFINE s == job.slot
           d == disk[s]
           c == [records |-> job.records, ready |-> FALSE, gated |-> job.gated, planned |-> job.planned,
                 report |-> s]
           e == [d EXCEPT !.corpus = c]
           j == [job EXCEPT !.pc = "evidence"]
<1>1. /\ job # None /\ job.pc = "label" /\ asked' = asked /\ job' = j /\ disk' = [disk EXCEPT ![s] = e]
  BY DEF Track!Save, Track!At
<1>2. JobInv(job, d, asked) /\ s \in Slots /\ SlotInv(d, asked)
  BY <1>1 DEF TrackInv, JobInv
<1>3. /\ GenerateShape(job) /\ job.gated \in Manifests /\ job.planned \in Manifests
      /\ job.records \subseteq RecordSet
      /\ \A r \in job.records : AskedFor(r, job.gated, job.planned, asked)
      /\ d.corpus = None /\ d.evidence = None
      /\ \E jar \in Jars : Cleared(job.gated, jar, d.preflight)
  BY <1>1, <1>2 DEF JobInv
<1>4. /\ c \in Track!CorpusContents /\ c.records = job.records /\ c.ready = FALSE
      /\ c.gated = job.gated /\ c.planned = job.planned
  BY <1>2, <1>3 DEF Track!CorpusContents, RecordSet
<1>5. c # None
  BY <1>4, CommandsAssumption DEF Track!TrackAssumption
<1> HIDE DEF c
<1>6. /\ e.preflight = d.preflight /\ e.corpus = c /\ e.evidence = None
      /\ e = [preflight |-> e.preflight, corpus |-> e.corpus, evidence |-> e.evidence]
  BY <1>2, <1>3 DEF SlotInv
<1>7. j.pc = "evidence" /\ j.slot = s /\ j.records = job.records
  BY <1>3 DEF GenerateShape
<1>8. Track!Readable(d.preflight) /\ d.preflight.passed /\ d.preflight.manifest = job.gated
  <2>1. d.preflight # None /\ d.preflight.passed
    BY <1>3 DEF Cleared
  <2>2. d.preflight \in Track!Reports
    BY <1>3 DEF Cleared, Track!Reports
  <2>3. d.preflight # Torn
    BY <2>2, CommandsAssumption DEF Track!TrackAssumption
  <2>4. Track!ParsedManifest(job.gated)
    BY <1>3, CommandsAssumption DEF Track!TrackAssumption
  <2>5. d.preflight.manifest = job.gated
    BY <1>3, <2>4, TrackReport DEF Cleared
  <2> QED BY <2>1, <2>3, <2>5 DEF Track!Readable
<1> HIDE DEF e, j
<1>9. SlotInv(e, asked)
  <2>1. ~Track!Readable(e.evidence)
    BY <1>6 DEF Track!Readable
  <2> QED BY <1>2, <1>3, <1>4, <1>6, <1>8, <2>1 DEF SlotInv
<1>10. JobInv(j, e, asked)
  BY <1>2, <1>4, <1>6, <1>7 DEF JobInv
<1> HIDE DEF d, s
<1> QED
  BY <1>1, <1>2, <1>3, <1>4, <1>6, <1>7, <1>9, <1>10, SlotStep DEF d

LEMMA EvidenceStep ==
  ASSUME TrackInv, Track!WriteEvidence
  PROVE  TrackInv'
<1> DEFINE s == job.slot
           d == disk[s]
           v == [generated |-> TRUE, records |-> job.records]
           e == [d EXCEPT !.evidence = v]
<1>1. /\ job # None /\ job.pc = "evidence" /\ asked' = asked /\ job' = None
      /\ disk' = [disk EXCEPT ![s] = e]
  BY DEF Track!WriteEvidence, Track!At, Track!Quit
<1>2. JobInv(job, d, asked) /\ s \in Slots /\ SlotInv(d, asked)
  BY <1>1 DEF TrackInv, JobInv
<1>3. d.corpus # None /\ d.corpus.records = job.records
  BY <1>1, <1>2, CommandsAssumption DEF JobInv, Track!TrackAssumption
<1>4. v.generated = TRUE /\ v.records = job.records
  OBVIOUS
<1> HIDE DEF v
<1>5. SlotInv(e, asked) /\ e.preflight = d.preflight /\ e.corpus = d.corpus
  BY <1>2, <1>3, <1>4, EvidenceWritten
<1> HIDE DEF e, d, s
<1> QED
  BY <1>1, <1>2, <1>5, SlotStep DEF d

LEMMA CrashStep ==
  ASSUME TrackInv, Track!Crash
  PROVE  TrackInv'
<1> DEFINE s == job.slot
           d == disk[s]
<1>1. /\ job # None /\ asked' = asked /\ job' = None
      /\ \/ disk' = disk
         \/ job.pc = "gate" /\ disk' = [disk EXCEPT ![s] = [d EXCEPT !.preflight = Torn]]
         \/ /\ job.pc \in {"lint", "evidence"}
            /\ disk' = [disk EXCEPT ![s] = [d EXCEPT !.evidence = Torn]]
  BY DEF Track!Crash, Track!Quit
<1>2. JobInv(job, d, asked) /\ s \in Slots /\ SlotInv(d, asked)
  BY <1>1 DEF TrackInv, JobInv
<1>3. CASE disk' = disk
  BY <1>1, <1>3, QuietStep
<1>4. CASE job.pc = "gate" /\ disk' = [disk EXCEPT ![s] = [d EXCEPT !.preflight = Torn]]
  <2> DEFINE e == [d EXCEPT !.preflight = Torn]
  <2>1. d = [preflight |-> None, corpus |-> None, evidence |-> None]
    BY <1>2, <1>4 DEF JobInv, Track!Empty
  <2>2. e = [preflight |-> Torn, corpus |-> None, evidence |-> None]
    BY <2>1
  <2> HIDE DEF e
  <2>3. SlotInv(e, asked)
    BY <2>2 DEF SlotInv, Track!Readable
  <2>4. e.corpus = None /\ d.corpus = None /\ ~Track!Readable(d.preflight)
    BY <2>1, <2>2 DEF Track!Readable
  <2> QED BY <1>1, <1>2, <1>4, <2>3, <2>4, SlotStep DEF e
<1>5. CASE /\ job.pc \in {"lint", "evidence"}
           /\ disk' = [disk EXCEPT ![s] = [d EXCEPT !.evidence = Torn]]
  <2> DEFINE e == [d EXCEPT !.evidence = Torn]
  <2>1. SlotInv(e, asked) /\ e.preflight = d.preflight /\ e.corpus = d.corpus
    BY <1>2, EvidenceWritten DEF Track!Readable
  <2> HIDE DEF e
  <2> QED BY <1>1, <1>2, <1>5, <2>1, SlotStep DEF e
<1> QED
  BY <1>1, <1>3, <1>4, <1>5

LEMMA PromoteStep ==
  ASSUME TrackInv, NEW s \in Slots, NEW input \in Slots, NEW report \in Slots,
         Track!Promote(s, input, report)
  PROVE  TrackInv'
<1> DEFINE d == disk[s]
           i == disk[input].corpus
           c == [i EXCEPT !.ready = TRUE, !.report = report]
           e == [d EXCEPT !.corpus = c]
<1>1. PICK j : j = [pc |-> "evidence", slot |-> s, records |-> i.records]
  OBVIOUS
<1>2. /\ d.corpus = None /\ d.evidence = None
      /\ Track!Readable(disk[report].preflight) /\ Track!CleanReport(disk[report].preflight)
      /\ Track!Readable(i) /\ ~i.ready /\ Track!FrozenRecords(i)
      /\ disk' = [disk EXCEPT ![s] = e] /\ job' = j /\ asked' = asked
  BY <1>1 DEF Track!Promote
<1>3. SlotInv(d, asked) /\ SlotInv(disk[input], asked)
  BY DEF TrackInv
<1>4. i \in Track!CorpusContents /\ i # None
  BY <1>2, <1>3 DEF SlotInv, Track!Readable
<1>5. /\ c \in Track!CorpusContents /\ c.records = i.records /\ c.ready = TRUE /\ c.report = report
  <2> HIDE DEF i
  <2> QED BY <1>4 DEF Track!CorpusContents
<1>6. c # None
  BY <1>5, CommandsAssumption DEF Track!TrackAssumption
<1>7. Earned(c)
  BY <1>2, <1>4, <1>5 DEF Earned, Track!FrozenRecords, Track!CleanReport
<1> HIDE DEF c
<1>8. /\ e.preflight = d.preflight /\ e.corpus = c /\ e.evidence = None
      /\ e = [preflight |-> e.preflight, corpus |-> e.corpus, evidence |-> e.evidence]
  BY <1>2, <1>3 DEF SlotInv
<1>9. j.pc = "evidence" /\ j.slot = s /\ j.records = i.records
  BY <1>1
<1> HIDE DEF e, i, d
<1>10. SlotInv(e, asked)
  <2>1. ~Track!Readable(e.evidence)
    BY <1>8 DEF Track!Readable
  <2> QED BY <1>3, <1>5, <1>8, <2>1 DEF SlotInv
<1>11. JobInv(j, e, asked)
  BY <1>5, <1>8, <1>9 DEF JobInv
<1> QED
  BY <1>2, <1>7, <1>8, <1>9, <1>10, <1>11, SlotStep DEF d

-----------------------------------------------------------------------------
LEMMA TrackStart == Track!Init => TrackInv
<1> SUFFICES ASSUME Track!Init PROVE TrackInv
  OBVIOUS
<1>1. disk = [s \in Slots |-> Track!Empty] /\ job = None /\ asked = {}
  BY DEF Track!Init
<1>2. ASSUME NEW s \in Slots PROVE SlotInv(disk[s], asked) /\ disk[s].corpus = None
  BY <1>1 DEF Track!Empty, SlotInv, Track!Readable
<1> QED
  BY <1>1, <1>2 DEF TrackInv

LEMMA TrackNext == ASSUME TrackInv, Track!Next PROVE TrackInv'
<1>1. CASE Track!Finished
  BY <1>1 DEF Track!Finished, Track!vars, TrackInv, Earned
<1> QED
  BY <1>1, GenerateStep, GateOpensStep, PlanStep, LintStep, LabelStep, SaveStep, EvidenceStep,
     PromoteStep, CrashStep DEF Track!Next

LEMMA TrackInvariant == EvaluationSpec => [](component = "track" => TrackInv)
<1> DEFINE I == component = "track" => TrackInv
<1>1. EvaluationInit => I
  BY TrackStart DEF EvaluationInit
<1>2. I /\ [EvaluationNext]_evaluation_vars => I'
  <2>1. SUFFICES ASSUME I, [EvaluationNext]_evaluation_vars, component' = "track"
                 PROVE  TrackInv'
    OBVIOUS
  <2>2. CASE component = "track" /\ Track!Next
    BY <2>1, <2>2, TrackNext
  <2>3. CASE UNCHANGED evaluation_vars
    BY <2>1, <2>3 DEF evaluation_vars, TrackInv, Earned
  <2>4. CASE component = "external" /\ UNCHANGED component
    BY <2>1, <2>4
  <2>5. CASE component = "experiment" /\ UNCHANGED component
    BY <2>1, <2>5
  <2> QED BY <2>1, <2>2, <2>3, <2>4, <2>5 DEF EvaluationNext
<1> QED
  BY <1>1, <1>2, PTL DEF EvaluationSpec

(* Whatever is replaced between two readings and however the commands      *)
(* crash: no question goes beyond the manifest that was planned, what the  *)
(* gated one lists of it is away from V9, all of it is where the two are   *)
(* one and list the program's candidates; every corpus lies beside the     *)
(* gate it passed, and readiness is earned.                                *)
THEOREM TrackIsolated == EvaluationSpec => []TrackStaysIsolated
<1>1. ASSUME component = "track" => TrackInv PROVE TrackStaysIsolated
  <2> SUFFICES ASSUME TrackInv
               PROVE  /\ Track!GatedStaysAway /\ Track!AskedAsGatedAreApart /\ Track!CorpusFollowsItsGate
                      /\ Track!EvidenceDescribesDisk /\ Track!ReadyIsEarned
    BY <1>1 DEF TrackStaysIsolated
  <2>1. \A s \in Slots : SlotInv(disk[s], asked)
    BY DEF TrackInv
  <2>2. \A s \in Slots : disk[s].corpus # None => Track!Readable(disk[s].corpus)
    BY <2>1, CommandsAssumption DEF SlotInv, Track!TrackAssumption, Track!Readable
  <2>3. \A s \in Slots : Track!Readable(disk[s].corpus) => disk[s].corpus # None
    BY DEF Track!Readable
  <2>4. Track!CorpusFollowsItsGate
    BY <2>1, <2>3 DEF Track!CorpusFollowsItsGate, Track!CorpusSlots, SlotInv, AskedFor
  <2>5. Track!EvidenceDescribesDisk
    BY <2>1, <2>2 DEF Track!EvidenceDescribesDisk, SlotInv
  <2>6. Track!ReadyIsEarned
    <3> SUFFICES ASSUME NEW s \in Track!CorpusSlots, disk[s].corpus.ready
                 PROVE  /\ \E o \in Track!CorpusSlots : ~disk[o].corpus.ready
                                /\ disk[o].corpus.records = disk[s].corpus.records
                        /\ \A r \in disk[s].corpus.records : r.jar = FrozenJar /\ r.packs = PinnedPacks
                        /\ LET report == disk[disk[s].corpus.report].preflight
                           IN /\ Track!Readable(report) /\ report.jar = FrozenJar
                              /\ \A i \in DOMAIN report.records : report.records[i].reasons = {}
      BY DEF Track!ReadyIsEarned
    <3>1. s \in Slots /\ disk[s].corpus # None
      BY <2>3 DEF Track!CorpusSlots
    <3>2. Earned(disk[s].corpus) /\ disk[s].corpus \in Track!CorpusContents
      BY <2>1, <3>1 DEF TrackInv, SlotInv
    <3>3. disk[s].corpus.report \in Slots
      BY <3>2 DEF Track!CorpusContents
    <3> DEFINE report == disk[disk[s].corpus.report].preflight
    <3>4. Track!Readable(report) /\ report.jar = FrozenJar /\ report.passed
      BY <3>2 DEF Earned
    <3>5. PICK m \in Manifests, jar \in Jars : report = Track!PreflightReport(m, V9, V9, jar, PinnedPacks)
      BY <2>1, <3>3, <3>4 DEF SlotInv
    <3>6. Track!ParsedManifest(m) /\ report # None
      BY <3>4, CommandsAssumption DEF Track!TrackAssumption, Track!Readable
    <3>7. \A i \in DOMAIN report.records : report.records[i].reasons = {}
      <4> HIDE DEF report
      <4> QED BY <3>4, <3>5, <3>6, TrackReport
    <3>8. \E o \in Track!CorpusSlots : ~disk[o].corpus.ready
                                /\ disk[o].corpus.records = disk[s].corpus.records
      BY <2>2, <3>2 DEF Earned, Track!CorpusSlots
    <3> QED BY <3>2, <3>4, <3>7, <3>8 DEF Earned
  <2>7. \A a \in asked : Rightful(a)
    BY DEF TrackInv
  <2>8. Track!GatedStaysAway
    BY <2>7 DEF Track!GatedStaysAway, Rightful, FromPlan, NamedBy, AwayAsGated
  <2>9. Track!AskedAsGatedAreApart
    BY <2>7 DEF Track!AskedAsGatedAreApart, Rightful
  <2> QED BY <2>4, <2>5, <2>6, <2>8, <2>9
<1> QED
  BY <1>1, TrackInvariant, PTL

-----------------------------------------------------------------------------
(* Folds over finite sets.  What the folds of the model define by          *)
(* recursion exists; g is one step of the fold, as a function.             *)
Chosen(s) == CHOOSE x \in s : TRUE
Folded(f, s, base, g) == IF s = {} THEN base ELSE g[Chosen(s)][f[s \ {Chosen(s)}]]
Folds(f, D, base, g) == \A s \in D : f[s] = Folded(f, s, base, g)

LEMMA FoldExists ==
  ASSUME NEW S, IsFiniteSet(S), NEW V, NEW base \in V, NEW g \in [S -> [V -> V]]
  PROVE  \E f \in [SUBSET S -> V] : Folds(f, SUBSET S, base, g)
<1> DEFINE D(k) == {s \in SUBSET S : Cardinality(s) <= k}
           K == {k \in Nat : \E f \in [D(k) -> V] : Folds(f, D(k), base, g)}
<1>1. \A s \in SUBSET S : IsFiniteSet(s) /\ Cardinality(s) \in Nat /\ Cardinality(s) <= Cardinality(S)
  BY FS_Subset, FS_CardinalityType
<1>2. ASSUME NEW s \in SUBSET S, s # {}
      PROVE  /\ Chosen(s) \in S /\ s \ {Chosen(s)} \in SUBSET S
             /\ Cardinality(s \ {Chosen(s)}) = Cardinality(s) - 1
  <2>1. Chosen(s) \in s
    BY <1>2 DEF Chosen
  <2> QED BY <1>1, <2>1, FS_RemoveElement
<1>3. 0 \in K
  <2>1. \A s \in D(0) : s = {}
    BY <1>1, FS_EmptySet
  <2> DEFINE f == [s \in D(0) |-> base]
  <2>2. f \in [D(0) -> V] /\ Folds(f, D(0), base, g)
    BY <2>1 DEF Folds, Folded
  <2> HIDE DEF f, D
  <2> QED BY <2>2
<1>4. ASSUME NEW k \in Nat, k \in K PROVE k + 1 \in K
  <2>1. PICK f \in [D(k) -> V] : Folds(f, D(k), base, g)
    BY <1>4
  <2> DEFINE h == [s \in D(k + 1) |-> Folded(f, s, base, g)]
  <2>2. \A s \in D(k) : s \in D(k + 1)
    BY <1>1
  <2>3. \A s \in D(k + 1) : s # {} => s \ {Chosen(s)} \in D(k) /\ Chosen(s) \in S
    BY <1>1, <1>2
  <2> HIDE DEF D
  <2>4. \A s \in D(k) : h[s] = f[s]
    BY <2>1, <2>2 DEF Folds
  <2>5. \A s \in D(k + 1) : h[s] = Folded(h, s, base, g)
    BY <2>3, <2>4 DEF Folded
  <2>6. h \in [D(k + 1) -> V]
    BY <2>1, <2>3 DEF Folded
  <2> HIDE DEF h
  <2> QED BY <2>5, <2>6 DEF Folds
<1> HIDE DEF K
<1>5. Cardinality(S) \in K
  BY <1>1, <1>3, <1>4, Induction
<1>6. D(Cardinality(S)) = SUBSET S
  BY <1>1
<1> QED
  BY <1>5, <1>6 DEF K

(* What holds of nothing, and of every set once it holds without its       *)
(* chosen element, holds of all subsets of a finite set.                   *)
LEMMA FoldInduction ==
  ASSUME NEW S, IsFiniteSet(S), NEW G, {} \in G,
         \A s \in SUBSET S : s # {} /\ s \ {Chosen(s)} \in G => s \in G
  PROVE  SUBSET S \subseteq G
<1> DEFINE K == {k \in Nat : \A s \in SUBSET S : Cardinality(s) = k => s \in G}
<1>1. \A s \in SUBSET S : IsFiniteSet(s) /\ Cardinality(s) \in Nat
  BY FS_Subset, FS_CardinalityType
<1>2. 0 \in K
  BY <1>1, FS_EmptySet
<1>3. ASSUME NEW k \in Nat, k \in K PROVE k + 1 \in K
  <2> SUFFICES ASSUME NEW s \in SUBSET S, Cardinality(s) = k + 1 PROVE s \in G
    OBVIOUS
  <2>1. s # {}
    BY FS_EmptySet
  <2>2. Chosen(s) \in s
    BY <2>1 DEF Chosen
  <2>3. Cardinality(s \ {Chosen(s)}) = k
    BY <1>1, <2>2, FS_RemoveElement
  <2>4. s \ {Chosen(s)} \in G
    BY <1>3, <2>3
  <2> QED BY <2>1, <2>4
<1> HIDE DEF K
<1>4. Nat \subseteq K
  BY <1>2, <1>3, Induction
<1> QED
  BY <1>1, <1>4 DEF K

(* The operators of the standard modules, as the instance knows them.      *)
LEMMA ExternalCountsAsHere ==
  /\ \A S : External!Cardinality(S) = Cardinality(S)
  /\ \A S : External!IsFiniteSet(S) <=> IsFiniteSet(S)
  /\ \A S : External!Min(S) = Min(S)
BY DEF External!Cardinality, Cardinality, External!IsFiniteSet, IsFiniteSet, External!Min, Min

(* A sum over the cells of a matrix that counts rows counts all the rows.  *)
MatrixOf(rs, I) ==
  [c \in BinaryLabels \X BinaryLabels |->
     Cardinality({i \in I : <<rs[i].actual, rs[i].predicted>> = c})]

LEMMA TotalCountsRows ==
  ASSUME NEW rs, NEW I, IsFiniteSet(I), IsFiniteSet(BinaryLabels),
         \A i \in I : rs[i].actual \in BinaryLabels /\ rs[i].predicted \in BinaryLabels
  PROVE  External!Total(MatrixOf(rs, I)) = Cardinality(I)
<1> DEFINE S == BinaryLabels \X BinaryLabels
           matrix == MatrixOf(rs, I)
           At(s) == {i \in I : <<rs[i].actual, rs[i].predicted>> \in s}
           F == CHOOSE f : f = [s \in SUBSET S |->
                  IF s = {} THEN 0 ELSE matrix[Chosen(s)] + f[s \ {Chosen(s)}]]
<1>1. IsFiniteSet(S)
  BY FS_Product
<1>2. DOMAIN matrix = S /\ \A c \in S : matrix[c] = Cardinality(At({c})) /\ matrix[c] \in Nat
  <2>1. \A c : At({c}) = {i \in I : <<rs[i].actual, rs[i].predicted>> = c}
    OBVIOUS
  <2>2. \A c : IsFiniteSet(At({c})) /\ Cardinality(At({c})) \in Nat
    BY FS_Subset, FS_CardinalityType
  <2> HIDE DEF At
  <2> QED BY <2>1, <2>2 DEF MatrixOf
<1>3. External!Total(matrix) = F[S]
  BY <1>2 DEF External!Total, External!MapThenSumSet, External!MapThenFoldSet, Chosen
<1> HIDE DEF matrix, S
<1>4. F = [s \in SUBSET S |-> IF s = {} THEN 0 ELSE matrix[Chosen(s)] + F[s \ {Chosen(s)}]]
      /\ F \in [SUBSET S -> Nat]
  <2> DEFINE g == [c \in S |-> [v \in Nat |-> matrix[c] + v]]
  <2>1. g \in [S -> [Nat -> Nat]]
    <3>1. \A c \in S : [v \in Nat |-> matrix[c] + v] \in [Nat -> Nat]
      <4> SUFFICES ASSUME NEW c \in S, NEW v \in Nat PROVE matrix[c] + v \in Nat
        OBVIOUS
      <4>1. matrix[c] \in Nat
        BY <1>2
      <4> QED BY <4>1
    <3> QED BY <3>1
  <2> HIDE DEF g
  <2>2. PICK f \in [SUBSET S -> Nat] : Folds(f, SUBSET S, 0, g)
    BY <1>1, <2>1, FoldExists
  <2>3. \A s \in SUBSET S : s # {} => Chosen(s) \in S /\ s \ {Chosen(s)} \in SUBSET S
    BY DEF Chosen
  <2>4. \A s \in SUBSET S : f[s] = IF s = {} THEN 0 ELSE matrix[Chosen(s)] + f[s \ {Chosen(s)}]
    BY <2>2, <2>3 DEF Folds, Folded, g
  <2>5. f = [s \in SUBSET S |-> IF s = {} THEN 0 ELSE matrix[Chosen(s)] + f[s \ {Chosen(s)}]]
    BY <2>2, <2>4
  <2>6. F = [s \in SUBSET S |-> IF s = {} THEN 0 ELSE matrix[Chosen(s)] + F[s \ {Chosen(s)}]]
    BY <2>5
  <2> HIDE DEF F
  <2> DEFINE G == {s \in SUBSET S : F[s] \in Nat}
  <2>7. \A s \in SUBSET S : F[s] = IF s = {} THEN 0 ELSE matrix[Chosen(s)] + F[s \ {Chosen(s)}]
    BY <2>6
  <2>8. {} \in G
    <3>1. F[{}] = 0
      BY <2>7
    <3> QED BY <3>1
  <2>9. ASSUME NEW s \in SUBSET S, s # {}, s \ {Chosen(s)} \in G PROVE s \in G
    <3>1. F[s] = matrix[Chosen(s)] + F[s \ {Chosen(s)}]
      BY <2>7, <2>9
    <3>2. matrix[Chosen(s)] \in Nat /\ F[s \ {Chosen(s)}] \in Nat
      BY <1>2, <2>3, <2>9
    <3>3. F[s] \in Nat
      BY <3>1, <3>2
    <3> QED BY <3>3
  <2> HIDE DEF G
  <2>10. SUBSET S \subseteq G
    BY <1>1, <2>8, <2>9, FoldInduction
  <2>11. \A s \in SUBSET S : F[s] \in Nat
    BY <2>10 DEF G
  <2>12. DOMAIN F = SUBSET S
    BY <2>6
  <2> QED BY <2>6, <2>11, <2>12
<1> HIDE DEF F
<1> DEFINE G == {s \in SUBSET S : F[s] = Cardinality(At(s))}
<1>5. {} \in G
  <2>1. At({}) = {}
    OBVIOUS
  <2> QED BY <1>4, <2>1, FS_EmptySet
<1>6. ASSUME NEW s \in SUBSET S, s # {}, s \ {Chosen(s)} \in G PROVE s \in G
  <2> DEFINE x == Chosen(s)
             r == s \ {x}
  <2>1. x \in s
    BY <1>6 DEF Chosen
  <2>2. At(s) = At({x}) \cup At(r) /\ At({x}) \cap At(r) = {}
    BY <2>1
  <2>3. IsFiniteSet(At({x})) /\ IsFiniteSet(At(r)) /\ IsFiniteSet(At({x}) \cap At(r))
    BY FS_Subset
  <2>4. F[s] = matrix[x] + F[r] /\ matrix[x] = Cardinality(At({x})) /\ F[r] = Cardinality(At(r))
    BY <1>2, <1>4, <1>6, <2>1
  <2> HIDE DEF At, x, r
  <2>5. Cardinality(At({x}) \cup At(r)) = Cardinality(At({x})) + Cardinality(At(r))
    <3>1. Cardinality(At({x}) \cap At(r)) = 0
      BY <2>2, FS_EmptySet
    <3>2. Cardinality(At({x})) \in Nat /\ Cardinality(At(r)) \in Nat
      BY <2>3, FS_CardinalityType
    <3>3. Cardinality(At({x}) \cup At(r))
            = Cardinality(At({x})) + Cardinality(At(r)) - Cardinality(At({x}) \cap At(r))
      BY <2>3, FS_Union
    <3> QED BY <3>1, <3>2, <3>3
  <2> QED BY <2>2, <2>4, <2>5
<1> HIDE DEF G
<1>7. SUBSET S \subseteq G
  BY <1>1, <1>5, <1>6, FoldInduction
<1>8. F[S] = Cardinality(At(S))
  BY <1>7 DEF G
<1>9. At(S) = I
  BY DEF S
<1> QED
  BY <1>3, <1>8, <1>9 DEF matrix

-----------------------------------------------------------------------------
(* The nearest records of a corpus, by the preflight's set of distances    *)
(* and by the diagnostic's single pass.                                    *)
DistanceTo(f, r) == External!CoordinateDistance(f.structural, r.features.structural)

LEMMA DistanceIsNumber ==
  ASSUME NEW f, IsFiniteSet(DOMAIN f.structural)
  PROVE  \A r : DistanceTo(f, r) \in Nat
<1> TAKE r
<1>1. IsFiniteSet({i \in DOMAIN f.structural : f.structural[i] # r.features.structural[i]})
  BY FS_Subset
<1> QED
  BY <1>1, FS_CardinalityType, ExternalCountsAsHere DEF External!CoordinateDistance, DistanceTo

LEMMA NearestDistanceIsLeast ==
  ASSUME NEW f, NEW v9, External!LoadedCorpus(v9), IsFiniteSet(DOMAIN f.structural)
  PROVE  /\ External!NearestDistance(f, v9) \in Nat
         /\ \E x \in v9.records : External!NearestDistance(f, v9) = DistanceTo(f, x)
         /\ \A x \in v9.records : External!NearestDistance(f, v9) <= DistanceTo(f, x)
<1> DEFINE D == {DistanceTo(f, x) : x \in v9.records}
<1>1. D \subseteq Nat /\ D # {}
  BY DistanceIsNumber DEF External!LoadedCorpus
<1>2. External!NearestDistance(f, v9) = Min(D)
  BY ExternalCountsAsHere DEF External!NearestDistance, DistanceTo
<1>3. Min(D) \in D /\ \A y \in D : Min(D) <= y
  <2> HIDE DEF D
  <2> QED BY <1>1, LeastExists
<1> QED
  BY <1>1, <1>2, <1>3

NobodyNear == [distance |-> None, records |-> {}]

NearestOf(near, f, s) ==
  IF s = {} THEN near = NobodyNear
  ELSE /\ near.distance \in Nat
       /\ \E r \in s : DistanceTo(f, r) = near.distance
       /\ \A r \in s : near.distance <= DistanceTo(f, r)
       /\ near.records = {r \in s : DistanceTo(f, r) = near.distance}

LEMMA PassKeepsNearest ==
  ASSUME NEW f, IsFiniteSet(DOMAIN f.structural), NEW s, NEW r, r \notin s, NEW near,
         NearestOf(near, f, s), near = [distance |-> near.distance, records |-> near.records]
  PROVE  NearestOf(External!CloserOf(near, r, f), f, s \cup {r})
<1> DEFINE d == DistanceTo(f, r)
           new == External!CloserOf(near, r, f)
<1>1. d \in Nat /\ \A x : DistanceTo(f, x) \in Nat
  BY DistanceIsNumber
<1>2. None \notin Nat
  BY CommandsAssumption DEF External!ManifestAssumption
<1>3. new = CASE near.distance = None -> [distance |-> d, records |-> {r}]
              [] near.distance # None /\ d < near.distance -> [distance |-> d, records |-> {r}]
              [] near.distance # None /\ d = near.distance -> [near EXCEPT !.records = @ \cup {r}]
              [] OTHER -> near
  BY DEF External!CloserOf, DistanceTo
<1> HIDE DEF d, new
<1>4. CASE s = {}
  <2>1. new = [distance |-> d, records |-> {r}]
    BY <1>3, <1>4 DEF NearestOf, NobodyNear
  <2> QED BY <1>1, <1>4, <2>1 DEF NearestOf, d, new
<1>5. CASE s # {}
  <2>1. /\ near.distance \in Nat /\ near.distance # None
        /\ \E q \in s : DistanceTo(f, q) = near.distance
        /\ \A q \in s : near.distance <= DistanceTo(f, q)
        /\ near.records = {q \in s : DistanceTo(f, q) = near.distance}
    BY <1>2, <1>5 DEF NearestOf
  <2>2. CASE d < near.distance
    <3>1. new = [distance |-> d, records |-> {r}]
      BY <1>3, <2>1, <2>2
    <3>2. \A q \in s : d < DistanceTo(f, q)
      BY <1>1, <2>1, <2>2
    <3>3. \A q \in s : d <= DistanceTo(f, q) /\ DistanceTo(f, q) # d
      BY <1>1, <3>2
    <3>4. {q \in s \cup {r} : DistanceTo(f, q) = d} = {r}
      BY <3>3 DEF d
    <3>5. d <= d
      BY <1>1
    <3> QED BY <1>1, <3>1, <3>3, <3>4, <3>5 DEF NearestOf, d, new
  <2>3. CASE d = near.distance
    <3>1. new = [distance |-> near.distance, records |-> near.records \cup {r}]
      BY <1>3, <1>1, <2>1, <2>3
    <3>2. {q \in s \cup {r} : DistanceTo(f, q) = near.distance} = near.records \cup {r}
      BY <2>1, <2>3 DEF d
    <3>3. \A q \in s \cup {r} : near.distance <= DistanceTo(f, q)
      BY <1>1, <2>1, <2>3 DEF d
    <3> QED BY <2>1, <3>1, <3>2, <3>3 DEF NearestOf, new
  <2>4. CASE near.distance < d
    <3>1. new = near
      BY <1>3, <1>1, <2>1, <2>4
    <3>2. {q \in s \cup {r} : DistanceTo(f, q) = near.distance} = near.records
      <4>1. DistanceTo(f, r) # near.distance
        BY <1>1, <2>1, <2>4 DEF d
      <4> QED BY <2>1, <4>1
    <3>3. \A q \in s \cup {r} : near.distance <= DistanceTo(f, q)
      BY <1>1, <2>1, <2>4 DEF d
    <3> QED BY <2>1, <3>1, <3>2, <3>3 DEF NearestOf, new
  <2> QED BY <1>1, <2>1, <2>2, <2>3, <2>4
<1> QED
  BY <1>4, <1>5

LEMMA PassFindsNearest ==
  ASSUME NEW f, NEW v9, External!LoadedCorpus(v9), IsFiniteSet(DOMAIN f.structural)
  PROVE  LET near == External!Nearest(f, v9)
         IN  /\ near.distance = External!NearestDistance(f, v9)
             /\ near.records = {r \in v9.records : DistanceTo(f, r) = near.distance}
<1> DEFINE S == v9.records
           V == [distance : Nat \cup {None}, records : SUBSET S]
           F == CHOOSE h : h = [s \in SUBSET S |->
                  IF s = {} THEN NobodyNear
                  ELSE External!CloserOf(h[s \ {Chosen(s)}], Chosen(s), f)]
<1>1. IsFiniteSet(S) /\ S # {}
  BY ExternalCountsAsHere DEF External!LoadedCorpus
<1>2. External!Nearest(f, v9) = F[S]
  BY DEF External!Nearest, External!FoldSet, External!MapThenFoldSet, Chosen, NobodyNear
<1>3. NobodyNear \in V
  BY DEF NobodyNear
<1>4. \A r \in S, near \in V : External!CloserOf(near, r, f) \in V
  <2> SUFFICES ASSUME NEW r \in S, NEW near \in V PROVE External!CloserOf(near, r, f) \in V
    OBVIOUS
  <2>1. DistanceTo(f, r) \in Nat
    BY DistanceIsNumber
  <2>2. [near EXCEPT !.records = @ \cup {r}] \in V
    OBVIOUS
  <2>3. [distance |-> DistanceTo(f, r), records |-> {r}] \in V
    BY <2>1
  <2> HIDE DEF V
  <2>4. \/ External!CloserOf(near, r, f) = [distance |-> DistanceTo(f, r), records |-> {r}]
        \/ External!CloserOf(near, r, f) = [near EXCEPT !.records = @ \cup {r}]
        \/ External!CloserOf(near, r, f) = near
    BY DEF External!CloserOf, DistanceTo
  <2> QED BY <2>2, <2>3, <2>4
<1>5. F = [s \in SUBSET S |-> IF s = {} THEN NobodyNear
                              ELSE External!CloserOf(F[s \ {Chosen(s)}], Chosen(s), f)]
  <2> DEFINE g == [r \in S |-> [near \in V |-> External!CloserOf(near, r, f)]]
  <2> HIDE DEF V, S
  <2>1. g \in [S -> [V -> V]]
    BY <1>4
  <2> HIDE DEF g
  <2>2. PICK h \in [SUBSET S -> V] : Folds(h, SUBSET S, NobodyNear, g)
    BY <1>1, <1>3, <2>1, FoldExists
  <2>3. \A s \in SUBSET S : s # {} => Chosen(s) \in S /\ s \ {Chosen(s)} \in SUBSET S
    BY DEF Chosen
  <2>4. \A s \in SUBSET S : h[s] = IF s = {} THEN NobodyNear
                                   ELSE External!CloserOf(h[s \ {Chosen(s)}], Chosen(s), f)
    BY <2>2, <2>3 DEF Folds, Folded, g
  <2>5. h = [s \in SUBSET S |-> IF s = {} THEN NobodyNear
                                ELSE External!CloserOf(h[s \ {Chosen(s)}], Chosen(s), f)]
    BY <2>2, <2>4
  <2> QED BY <2>5
<1> HIDE DEF F
<1>6. \A s \in SUBSET S : F[s] = IF s = {} THEN NobodyNear
                                 ELSE External!CloserOf(F[s \ {Chosen(s)}], Chosen(s), f)
  BY <1>5
<1> DEFINE G == {s \in SUBSET S : F[s] \in V /\ NearestOf(F[s], f, s)}
<1>7. {} \in G
  <2>1. F[{}] = NobodyNear
    BY <1>6
  <2> HIDE DEF V
  <2> QED BY <1>3, <2>1 DEF NearestOf
<1>8. ASSUME NEW s \in SUBSET S, s # {}, s \ {Chosen(s)} \in G PROVE s \in G
  <2> DEFINE x == Chosen(s)
             r == s \ {x}
  <2>1. x \in s /\ x \notin r /\ s = r \cup {x}
    BY <1>8 DEF Chosen
  <2>2. F[s] = External!CloserOf(F[r], x, f)
    BY <1>6, <1>8
  <2>3. F[r] \in V /\ NearestOf(F[r], f, r)
    BY <1>8
  <2> HIDE DEF x, r
  <2>4. F[s] \in V
    <3> HIDE DEF V
    <3> QED BY <1>4, <2>1, <2>2, <2>3
  <2>5. F[r] = [distance |-> F[r].distance, records |-> F[r].records]
    BY <2>3
  <2>6. NearestOf(F[s], f, s)
    BY <2>1, <2>2, <2>3, <2>5, PassKeepsNearest
  <2> QED BY <2>4, <2>6
<1> HIDE DEF G
<1>9. SUBSET S \subseteq G
  BY <1>1, <1>7, <1>8, FoldInduction
<1>10. NearestOf(F[S], f, S)
  BY <1>9 DEF G
<1>11. /\ F[S].distance \in Nat
       /\ \E r \in S : DistanceTo(f, r) = F[S].distance
       /\ \A r \in S : F[S].distance <= DistanceTo(f, r)
       /\ F[S].records = {r \in S : DistanceTo(f, r) = F[S].distance}
  BY <1>1, <1>10 DEF NearestOf
<1>12. /\ External!NearestDistance(f, v9) \in Nat
       /\ \E x \in S : External!NearestDistance(f, v9) = DistanceTo(f, x)
       /\ \A x \in S : External!NearestDistance(f, v9) <= DistanceTo(f, x)
  BY NearestDistanceIsLeast
<1>13. F[S].distance = External!NearestDistance(f, v9)
  BY <1>11, <1>12
<1> QED
  BY <1>2, <1>11, <1>13

-----------------------------------------------------------------------------
(* What a preflight and a diagnostic of the same inputs say.               *)
LEMMA TransitionsNumbered ==
  ASSUME NEW m, External!ParsedManifest(m)
  PROVE  \E n \in Nat : DOMAIN m.transitions = 1..n /\ Len(m.transitions) = n
<1>1. PICK S : m.transitions \in Seq(S)
  BY DEF External!ParsedManifest, External!IsSequence
<1> QED BY <1>1, LenProperties

LEMMA ExternalReport ==
  ASSUME NEW m, External!ParsedManifest(m), NEW v9, NEW h, NEW j, NEW packs, NEW rep,
         rep = External!PreflightReport(m, v9, h, j, packs), rep # None
  PROVE  /\ rep.kind = "preflight" /\ rep.manifest = m /\ rep.v9 = h /\ rep.jar = j
         /\ External!ValidManifest(m) /\ v9.version = "V6"
         /\ DOMAIN rep.records = DOMAIN m.transitions
         /\ \A i \in DOMAIN m.transitions :
              LET features == External!Features(m.transitions[i]) IN
              /\ rep.records[i].id = m.transitions[i].id
              /\ rep.records[i].exact = External!ExactOverlap(features, v9)
              /\ rep.records[i].nearest = External!NearestDistance(features, v9)
         /\ rep.passed => \A i \in DOMAIN m.transitions :
              External!Reasons(m.transitions[i], v9, j, External!SeenBefore(m.transitions, j, i)) = {}
<1> DEFINE reasons(i) == External!Reasons(m.transitions[i], v9, j, External!SeenBefore(m.transitions, j, i))
           record(i) == [id |-> m.transitions[i].id, reasons |-> reasons(i),
                         exact |-> External!ExactOverlap(External!Features(m.transitions[i]), v9),
                         nearest |-> External!NearestDistance(External!Features(m.transitions[i]), v9)]
           records == [i \in DOMAIN m.transitions |-> record(i)]
           A == {i \in DOMAIN records : records[i].reasons = {}}
<1>0. External!ValidManifest(m) /\ v9.version = "V6"
  BY DEF External!PreflightReport
<1>1. rep = [kind |-> "preflight", manifest |-> m, v9 |-> h, jar |-> j, packs |-> packs,
             passed |-> External!Cardinality(A) = Len(records), total |-> Len(records),
             accepted |-> External!Cardinality(A),
             rejected |-> Len(records) - External!Cardinality(A), records |-> records]
  BY DEF External!PreflightReport
<1>2. /\ rep.kind = "preflight" /\ rep.manifest = m /\ rep.v9 = h /\ rep.jar = j /\ rep.records = records
      /\ rep.passed = (External!Cardinality(A) = Len(records))
  <2> HIDE DEF records, A
  <2> QED BY <1>1
<1>3. DOMAIN records = DOMAIN m.transitions /\ \A i \in DOMAIN m.transitions : records[i] = record(i)
  OBVIOUS
<1>4. ASSUME rep.passed PROVE \A i \in DOMAIN m.transitions : reasons(i) = {}
  <2>1. PICK n \in Nat : DOMAIN m.transitions = 1..n
    BY TransitionsNumbered
  <2>2. records = [i \in 1..n |-> records[i]]
    BY <2>1
  <2>3. A \subseteq 1..n /\ Cardinality(A) = Len(records)
    BY <1>2, <1>4, <2>1, ExternalCountsAsHere
  <2>4. A = 1..n
    <3> HIDE DEF records, A
    <3> QED BY <2>2, <2>3, AllAccepted
  <2> QED BY <2>1, <2>4
<1>5. \A i \in DOMAIN m.transitions :
        /\ record(i).id = m.transitions[i].id
        /\ record(i).exact = External!ExactOverlap(External!Features(m.transitions[i]), v9)
        /\ record(i).nearest = External!NearestDistance(External!Features(m.transitions[i]), v9)
  OBVIOUS
<1> HIDE DEF records, record
<1> QED
  BY <1>0, <1>2, <1>3, <1>4, <1>5

(* The records a diagnostic shows, in the order of their identities.       *)
LEMMA ShownRecords ==
  ASSUME NEW v9, External!LoadedCorpus(v9), NEW near, near \subseteq v9.records, NEW limit \in Nat
  PROVE  /\ IsFiniteSet(near) /\ Cardinality(near) \in Nat
         /\ Cardinality({r \in near : Cardinality({x \in near : x.id < r.id}) < limit})
              = Min({limit, Cardinality(near)})
<1> DEFINE R == {u \in near \X near : u[1].id < u[2].id}
           shown == {r \in near : Cardinality({x \in near : x.id < r.id}) < limit}
<1>1. IsFiniteSet(near) /\ Cardinality(near) \in Nat
  BY FS_Subset, FS_CardinalityType, ExternalCountsAsHere DEF External!LoadedCorpus
<1>2. \A q, r \in near : q.id \in Nat /\ r.id \in Nat /\ (q.id = r.id => q = r)
  BY DEF External!LoadedCorpus
<1>3. \A q, r \in near : <<q, r>> \in R <=> q.id < r.id
  OBVIOUS
<1> HIDE DEF R
<1>4. StrictOrder(near, R)
  BY <1>2, <1>3 DEF StrictOrder
<1>5. shown = First_(near, R, limit)
  <2>1. \A r \in near : Below(near, R, r) = {x \in near : x.id < r.id}
    BY <1>3 DEF Below
  <2> QED BY <2>1 DEF First_
<1> HIDE DEF shown
<1>6. Cardinality(shown) = Min({limit, Cardinality(near)})
  BY <1>1, <1>4, <1>5, Ranks, LeastOfTwo
<1> QED
  BY <1>1, <1>6 DEF shown

ShowsTheFirst(rep) == Cardinality(rep.shown) = Min({Limit, rep.nearest})

LEMMA DiagnosticSays ==
  ASSUME NEW m, External!ParsedManifest(m), NEW v9, External!LoadedCorpus(v9), NEW id, NEW rep,
         rep = External!DiagnosticReport(m, v9, id, Limit), rep # None
  PROVE  /\ rep.kind = "diagnostic" /\ rep.manifest = m /\ rep.v9 = v9 /\ rep.id = id
         /\ \A n \in rep.shown : Cardinality(n.differs) = rep.distance
         /\ ShowsTheFirst(rep)
         /\ \A i \in DOMAIN m.transitions : m.transitions[i].id = id =>
              LET features == External!Features(m.transitions[i]) IN
              /\ rep.distance = External!NearestDistance(features, v9)
              /\ rep.exact \in Nat /\ (rep.exact > 0 <=> External!ExactOverlap(features, v9))
<1> DEFINE found == {i \in DOMAIN m.transitions : m.transitions[i].id = id}
           first == CHOOSE i \in found : TRUE
           f == External!Features(m.transitions[first])
           near == External!Nearest(f, v9)
           shown == {r \in near.records : Cardinality({x \in near.records : x.id < r.id}) < Limit}
           same == {r \in v9.records : r.features = f}
           differs(r) == {k \in DOMAIN f.structural : f.structural[k] # r.features.structural[k]}
           line(r) == [id |-> r.id, differs |-> differs(r)]
<1>1. /\ Limit \in Nat
      /\ \A p \in DOMAIN PairStructural : IsFiniteSet(DOMAIN PairStructural[p])
  BY CommandsAssumption, ExternalCountsAsHere DEF External!EvaluationAssumption, External!ManifestAssumption
<1>2. External!ValidManifest(m) /\ found # {} /\ Limit # 0
  BY DEF External!DiagnosticReport
<1>3. rep = [kind |-> "diagnostic", manifest |-> m, v9 |-> v9, id |-> id,
             exact |-> Cardinality(same),
             distance |-> near.distance, nearest |-> Cardinality(near.records),
             shown |-> {line(r) : r \in shown}]
  BY ExternalCountsAsHere DEF External!DiagnosticReport
<1>4. first \in found /\ \A i \in found : i = first
  <2>1. \A i, j \in found : i = j
    BY <1>2 DEF External!ValidManifest
  <2> QED BY <1>2, <2>1
<1> HIDE DEF f
<1>5. IsFiniteSet(DOMAIN f.structural)
  BY <1>1, <1>4 DEF External!ParsedManifest, External!Features, f
<1>6. near.distance = External!NearestDistance(f, v9)
      /\ near.records = {r \in v9.records : DistanceTo(f, r) = near.distance}
  BY <1>1, <1>5, PassFindsNearest
<1> HIDE DEF near
<1>7. near.records \subseteq v9.records
  BY <1>6
<1>8. Cardinality(shown) = Min({Limit, Cardinality(near.records)}) /\ IsFiniteSet(near.records)
  BY <1>1, <1>7, ShownRecords
<1>9. /\ rep.kind = "diagnostic" /\ rep.manifest = m /\ rep.v9 = v9 /\ rep.id = id
      /\ rep.exact = Cardinality(same) /\ rep.distance = near.distance
      /\ rep.nearest = Cardinality(near.records) /\ rep.shown = {line(r) : r \in shown}
  <2> HIDE DEF same, shown, line
  <2> QED BY <1>3
<1>10. ASSUME NEW n \in rep.shown PROVE Cardinality(n.differs) = rep.distance
  <2>1. PICK r \in shown : n = line(r)
    BY <1>9
  <2>2. n.differs = differs(r) /\ r \in near.records
    BY <2>1
  <2>3. Cardinality(differs(r)) = DistanceTo(f, r)
    BY ExternalCountsAsHere DEF DistanceTo, External!CoordinateDistance
  <2> QED BY <1>6, <1>9, <2>2, <2>3
<1>11. Cardinality(rep.shown) = Cardinality(shown)
  <2>1. \A q, r \in shown : line(q) = line(r) => q = r
    <3>1. \A q, r \in shown : q.id = r.id => q = r
      BY <1>1, <1>7 DEF External!LoadedCorpus
    <3>2. \A q : line(q).id = q.id
      OBVIOUS
    <3> HIDE DEF line, shown
    <3> QED BY <3>1, <3>2
  <2>2. IsFiniteSet(shown)
    BY <1>8, FS_Subset
  <2> DEFINE L == {line(r) : r \in shown}
             h == [r \in shown |-> line(r)]
  <2> HIDE DEF line, shown
  <2>3. h \in Bijection(shown, L)
    BY <2>1 DEF Bijection, Injection, Surjection, IsInjective
  <2> HIDE DEF L, h
  <2>4. Cardinality(L) = Cardinality(shown)
    BY <2>2, <2>3, FS_Bijection DEF ExistsBijection
  <2> QED BY <1>9, <2>4 DEF L
<1>12. ASSUME NEW i \in DOMAIN m.transitions, m.transitions[i].id = id
       PROVE  LET features == External!Features(m.transitions[i]) IN
              /\ rep.distance = External!NearestDistance(features, v9)
              /\ rep.exact \in Nat /\ (rep.exact > 0 <=> External!ExactOverlap(features, v9))
  <2>1. External!Features(m.transitions[i]) = f
    BY <1>4, <1>12 DEF f
  <2>2. IsFiniteSet(same) /\ Cardinality(same) \in Nat /\ (Cardinality(same) = 0 <=> same = {})
    <3>1. IsFiniteSet(same)
      BY <1>1, FS_Subset, ExternalCountsAsHere DEF External!LoadedCorpus
    <3> HIDE DEF same
    <3> QED BY <3>1, FS_CardinalityType, FS_EmptySet
  <2>3. External!ExactOverlap(f, v9) <=> same # {}
    BY DEF External!ExactOverlap
  <2> HIDE DEF same
  <2> QED BY <1>6, <1>9, <2>1, <2>2, <2>3
<1> HIDE DEF shown
<1>13. ShowsTheFirst(rep)
  BY <1>8, <1>9, <1>11 DEF ShowsTheFirst
<1> QED
  BY <1>9, <1>10, <1>12, <1>13

-----------------------------------------------------------------------------
(* The rows of an evaluation: the one of each transition so far, in order, *)
(* with what its status says of it, and the matrices that count them.      *)
Statuses == {"scored", "excluded_traceability", "excluded_manifest_overlap",
             "oracle_rejected", "rejected_overlap"}
RowsOf(rs, status) == {i \in DOMAIN rs : rs[i].status = status}

AwayFrom(t, v9) ==
  \A x \in v9.records :
    /\ x.source # t.source /\ x.family # t.family
    /\ x.pair = None \/ x.pair # t.pair \/ x.policy # t.policy
    /\ External!CoordinateDistance(PairStructural[t.pair], x.features.structural) > MaxDistance

RowIs(row, t, v9) ==
  /\ row.t = t /\ row.status \in Statuses
  /\ row.status = "scored" =>
       row.actual \in BinaryLabels /\ row.predicted \in BinaryLabels /\ AwayFrom(t, v9)

SoundRows(rs, m, v9, jar) ==
  /\ External!IsSequence(rs) /\ Len(rs) <= Len(m.transitions)
  /\ \A i \in DOMAIN rs : RowIs(rs[i], m.transitions[i], v9)
  /\ \A i, k \in RowsOf(rs, "scored") :
       i # k => <<rs[i].t.pair, rs[i].t.policy>> # <<rs[k].t.pair, rs[k].t.policy>>
  /\ \A i \in RowsOf(rs, "rejected_overlap") :
       External!Reasons(m.transitions[i], v9, jar, External!SeenBefore(m.transitions, jar, i)) # {}

KeyOf(by, t) ==
  CASE by = "mutation" -> t.mutation
    [] by = "policy"   -> t.policy
    [] by = "both"     -> <<t.mutation, t.policy>>
StrataOf(rs, by) ==
  [k \in {KeyOf(by, rs[i].t) : i \in RowsOf(rs, "scored")} |->
     MatrixOf(rs, {i \in RowsOf(rs, "scored") : KeyOf(by, rs[i].t) = k})]
MetricsOf(rs) ==
  [overall |-> MatrixOf(rs, RowsOf(rs, "scored")), mutation |-> StrataOf(rs, "mutation"),
   policy |-> StrataOf(rs, "policy"), both |-> StrataOf(rs, "both")]

(* An evaluation that labels: what it was approved for, its rows, the      *)
(* fingerprints of the labelled among them, and its matrices.              *)
Approved(j) ==
  /\ j.hashed = Registered.dataset /\ j.jar = Registered.execution /\ j.packs = Registered.packs
  /\ j.scorer.dataset = j.hashed /\ j.scorer.jar = Registered.training

Scores(j) ==
  /\ j = [command |-> j.command, manifest |-> j.manifest, v9 |-> j.v9, pc |-> j.pc,
          hashed |-> j.hashed, model |-> j.model, scorer |-> j.scorer, jar |-> j.jar,
          packs |-> j.packs, records |-> j.records, seen |-> j.seen, metrics |-> j.metrics]
  /\ Approved(j)
  /\ \E x \in External!TrainingJars(j.v9) : External!TrainingJars(j.v9) = {x}
  /\ SoundRows(j.records, j.manifest, j.v9, j.jar)
  /\ j.seen \subseteq External!SeenBefore(j.manifest.transitions, j.jar, Len(j.records) + 1)
  /\ \A i \in RowsOf(j.records, "scored") : External!Fingerprint(j.records[i].t, j.jar) \in j.seen
  /\ j.metrics = MetricsOf(j.records)

(* A running command, by how far it is; nobody replaces what it reads.     *)
RunsOn(j, content) ==
  /\ j.command \in {"evaluate", "preflight", "diagnose"}
  /\ j.pc \in {"manifest", "dataset", "hash", "report", "verify", "score"}
  /\ j.pc # "manifest" => j.manifest \in Versions["manifest"]
  /\ j.pc \notin {"manifest", "dataset"} => j.v9 = content["v9"] /\ j.v9.version = "V6"
  /\ j.pc \in {"verify", "score"} => j.hashed = j.v9
  /\ j.pc = "score" => Scores(j)

GoodEvaluation(r) ==
  /\ r.manifest \in Versions["manifest"] /\ r.v9 \in Versions["v9"]
  /\ SoundRows(r.records, r.manifest, r.v9, r.jar)
  /\ r.total = Len(r.records)
  /\ r.scored = Cardinality(RowsOf(r.records, "scored"))
  /\ r.traceability = Cardinality(RowsOf(r.records, "excluded_traceability"))
  /\ r.overlapExcluded = Cardinality(RowsOf(r.records, "excluded_manifest_overlap"))
  /\ r.rejected = Cardinality(RowsOf(r.records, "oracle_rejected"))
  /\ r.overlap = Cardinality(RowsOf(r.records, "rejected_overlap"))
  /\ r.metrics = MetricsOf(r.records)

GoodReport(r) ==
  \/ r.kind = "evaluation" /\ GoodEvaluation(r)
  \/ \E m \in Versions["manifest"], v9 \in Versions["v9"], jar \in Versions["jar"], packs \in Versions["packs"] :
       r = External!PreflightReport(m, v9, v9, jar, packs) /\ r # None
  \/ \E m \in Versions["manifest"], v9 \in Versions["v9"], id \in RecordIds :
       r = External!DiagnosticReport(m, v9, id, Limit) /\ r # None

ExternalInv ==
  /\ files = [p \in External!Inputs |-> files[p]]
  /\ \A p \in External!Inputs : files[p] \in Versions[p]
  /\ job # None => RunsOn(job, files)
  /\ \A r \in written : GoodReport(r)
  /\ External!NothingAskedUnapproved

-----------------------------------------------------------------------------
(* One more row.                                                           *)
LEMMA AppendRow ==
  ASSUME NEW rs, External!IsSequence(rs), NEW e
  PROVE  /\ Len(rs) \in Nat /\ DOMAIN rs = 1..Len(rs)
         /\ External!IsSequence(Append(rs, e))
         /\ Len(Append(rs, e)) = Len(rs) + 1 /\ DOMAIN Append(rs, e) = 1..(Len(rs) + 1)
         /\ \A i \in 1..Len(rs) : Append(rs, e)[i] = rs[i]
         /\ Append(rs, e)[Len(rs) + 1] = e
<1> DEFINE S == {rs[i] : i \in DOMAIN rs} \cup {e}
           new == Append(rs, e)
<1>1. rs \in Seq(S)
  <2>1. PICK R : rs \in Seq(R) /\ R = {rs[i] : i \in DOMAIN rs}
    BY DEF External!IsSequence
  <2>2. R \subseteq S
    BY <2>1
  <2> HIDE DEF S
  <2> QED BY <2>1, <2>2
<1>2. e \in S
  OBVIOUS
<1> HIDE DEF S
<1>3. Len(rs) \in Nat /\ DOMAIN rs = 1..Len(rs)
  BY <1>1, LenProperties
<1>4. /\ new \in Seq(S) /\ Len(new) = Len(rs) + 1
      /\ \A i \in 1..Len(rs) : new[i] = rs[i]
      /\ new[Len(rs) + 1] = e
  BY <1>1, <1>2, AppendProperties
<1>5. DOMAIN new = 1..(Len(rs) + 1)
  BY <1>4, LenProperties
<1>6. External!IsSequence(new)
  <2>1. PICK n, R : n \in Nat /\ n = Len(new) /\ R = {new[k] : k \in DOMAIN new}
    BY <1>4, LenProperties
  <2>2. new \in [1..n -> R]
    <3>1. DOMAIN new = 1..n /\ \A k \in 1..n : new[k] \in R
      BY <1>4, <1>5, <2>1
    <3>2. new = [k \in 1..n |-> new[k]]
      BY <1>4, <2>1, LenProperties
    <3> HIDE DEF new
    <3> QED BY <3>1, <3>2
  <2> HIDE DEF new
  <2>3. new \in Seq(R)
    <3>1. new \in UNION {[1..i -> R] : i \in Nat}
      BY <2>1, <2>2
    <3> QED BY <3>1, SeqDef
  <2> QED BY <2>1, <2>3 DEF External!IsSequence
<1> QED
  BY <1>3, <1>4, <1>5, <1>6

LEMMA OneMoreRow ==
  ASSUME NEW rs, NEW m, NEW v9, NEW jar, NEW e, SoundRows(rs, m, v9, jar),
         Len(m.transitions) \in Nat, Len(rs) < Len(m.transitions),
         RowIs(e, m.transitions[Len(rs) + 1], v9),
         e.status = "scored" =>
           \A i \in RowsOf(rs, "scored") : <<rs[i].t.pair, rs[i].t.policy>> # <<e.t.pair, e.t.policy>>,
         e.status = "rejected_overlap" =>
           External!Reasons(m.transitions[Len(rs) + 1], v9, jar,
                            External!SeenBefore(m.transitions, jar, Len(rs) + 1)) # {}
  PROVE  SoundRows(Append(rs, e), m, v9, jar)
<1> DEFINE n == Len(rs) + 1
           new == Append(rs, e)
<1>1. /\ Len(rs) \in Nat /\ DOMAIN rs = 1..Len(rs)
      /\ External!IsSequence(new) /\ Len(new) = n /\ DOMAIN new = 1..n
      /\ \A i \in 1..Len(rs) : new[i] = rs[i]
      /\ new[n] = e
  BY AppendRow DEF SoundRows
<1>2. \A i \in 1..n : i \in 1..Len(rs) \/ i = n
  BY <1>1
<1> HIDE DEF new
<1>3. Len(new) <= Len(m.transitions)
  BY <1>1
<1>4. \A i \in 1..Len(rs) : RowIs(rs[i], m.transitions[i], v9)
  BY <1>1 DEF SoundRows
<1> HIDE DEF n
<1>5. \A i \in DOMAIN new : RowIs(new[i], m.transitions[i], v9)
  BY <1>1, <1>2, <1>4 DEF n
<1>6. \A i \in RowsOf(new, "scored") :
        \/ i = n /\ e.status = "scored"
        \/ i \in RowsOf(rs, "scored") /\ new[i] = rs[i]
  BY <1>1, <1>2 DEF RowsOf
<1>7. \A i, k \in RowsOf(new, "scored") :
        i # k => <<new[i].t.pair, new[i].t.policy>> # <<new[k].t.pair, new[k].t.policy>>
  <2> SUFFICES ASSUME NEW i \in RowsOf(new, "scored"), NEW k \in RowsOf(new, "scored"), i # k
               PROVE  <<new[i].t.pair, new[i].t.policy>> # <<new[k].t.pair, new[k].t.policy>>
    OBVIOUS
  <2>1. n \notin RowsOf(rs, "scored")
    BY <1>1 DEF RowsOf, n
  <2>2. CASE i = n
    <3>1. k \in RowsOf(rs, "scored") /\ new[k] = rs[k] /\ e.status = "scored"
      BY <1>6, <2>1, <2>2
    <3> QED BY <1>1, <2>2, <3>1
  <2>3. CASE k = n
    <3>1. i \in RowsOf(rs, "scored") /\ new[i] = rs[i] /\ e.status = "scored"
      BY <1>6, <2>1, <2>3
    <3> QED BY <1>1, <2>3, <3>1
  <2>4. CASE i # n /\ k # n
    <3>1. /\ i \in RowsOf(rs, "scored") /\ new[i] = rs[i]
          /\ k \in RowsOf(rs, "scored") /\ new[k] = rs[k]
      BY <1>6, <2>4
    <3> QED BY <3>1 DEF SoundRows
  <2> QED BY <2>2, <2>3, <2>4
<1>8. \A i \in RowsOf(new, "rejected_overlap") :
        External!Reasons(m.transitions[i], v9, jar, External!SeenBefore(m.transitions, jar, i)) # {}
  <2> SUFFICES ASSUME NEW i \in RowsOf(new, "rejected_overlap")
               PROVE  External!Reasons(m.transitions[i], v9, jar, External!SeenBefore(m.transitions, jar, i)) # {}
    OBVIOUS
  <2>1. \/ i = n /\ e.status = "rejected_overlap"
        \/ i \in RowsOf(rs, "rejected_overlap")
    BY <1>1, <1>2 DEF RowsOf
  <2> QED BY <2>1 DEF SoundRows, n
<1>9. SoundRows(new, m, v9, jar)
  BY <1>1, <1>3, <1>5, <1>7, <1>8 DEF SoundRows
<1> QED
  BY <1>9 DEF new

LEMMA RowsAfter ==
  ASSUME NEW rs, External!IsSequence(rs), NEW e, NEW status
  PROVE  /\ Len(rs) + 1 \notin RowsOf(rs, status) /\ IsFiniteSet(RowsOf(rs, status))
         /\ e.status = status => RowsOf(Append(rs, e), status) = RowsOf(rs, status) \cup {Len(rs) + 1}
         /\ e.status # status => RowsOf(Append(rs, e), status) = RowsOf(rs, status)
         /\ \A i \in RowsOf(rs, status) : Append(rs, e)[i] = rs[i]
<1> DEFINE n == Len(rs) + 1
           new == Append(rs, e)
<1>1. /\ Len(rs) \in Nat /\ DOMAIN rs = 1..Len(rs) /\ DOMAIN new = 1..n
      /\ \A i \in 1..Len(rs) : new[i] = rs[i]
      /\ new[n] = e
  BY AppendRow
<1>2. \A i : i \in 1..n <=> i \in 1..Len(rs) \/ i = n
  BY <1>1
<1>3. n \notin 1..Len(rs)
  BY <1>1
<1>4. IsFiniteSet(1..Len(rs))
  BY <1>1, FirstNumbers
<1>5. RowsOf(rs, status) \subseteq 1..Len(rs)
  BY <1>1 DEF RowsOf
<1>6. IsFiniteSet(RowsOf(rs, status))
  BY <1>4, <1>5, FS_Subset
<1> HIDE DEF n, new
<1>7. /\ e.status = status => RowsOf(new, status) = RowsOf(rs, status) \cup {n}
      /\ e.status # status => RowsOf(new, status) = RowsOf(rs, status)
  BY <1>1, <1>2, <1>3 DEF RowsOf
<1>8. n \notin RowsOf(rs, status) /\ \A i \in RowsOf(rs, status) : new[i] = rs[i]
  BY <1>1, <1>3, <1>5
<1> QED
  BY <1>6, <1>7, <1>8 DEF n, new

-----------------------------------------------------------------------------
(* RowsAfter, for the rows that count.                                     *)
LEMMA ScoredAfter ==
  ASSUME NEW rs, External!IsSequence(rs), NEW e
  PROVE  /\ Len(rs) + 1 \notin RowsOf(rs, "scored") /\ IsFiniteSet(RowsOf(rs, "scored"))
         /\ e.status = "scored" => RowsOf(Append(rs, e), "scored") = RowsOf(rs, "scored") \cup {Len(rs) + 1}
         /\ e.status # "scored" => RowsOf(Append(rs, e), "scored") = RowsOf(rs, "scored")
         /\ \A i \in RowsOf(rs, "scored") : Append(rs, e)[i] = rs[i]
<1> DEFINE status == "scored"
           n == Len(rs) + 1
           new == Append(rs, e)
<1> HIDE DEF status
<1>1. n \notin RowsOf(rs, status) /\ IsFiniteSet(RowsOf(rs, status))
  BY RowsAfter
<1>2. e.status = status => RowsOf(new, status) = RowsOf(rs, status) \cup {n}
  BY RowsAfter
<1>3. e.status # status => RowsOf(new, status) = RowsOf(rs, status)
  BY RowsAfter
<1>4. \A i \in RowsOf(rs, status) : new[i] = rs[i]
  BY AppendRow DEF RowsOf
<1> HIDE DEF n, new
<1> QED BY <1>1, <1>2, <1>3, <1>4 DEF status, n, new

(* The matrices, as rows are added.                                        *)
LEMMA MatrixKept ==
  ASSUME NEW rs, NEW new, NEW I, \A i \in I : new[i] = rs[i]
  PROVE  MatrixOf(new, I) = MatrixOf(rs, I)
<1>1. \A c : {i \in I : <<new[i].actual, new[i].predicted>> = c}
               = {i \in I : <<rs[i].actual, rs[i].predicted>> = c}
  OBVIOUS
<1> QED BY <1>1 DEF MatrixOf

LEMMA MatrixGrows ==
  ASSUME NEW rs, NEW new, NEW I, IsFiniteSet(I), \A i \in I : new[i] = rs[i], NEW n, n \notin I,
         NEW a \in BinaryLabels, NEW p \in BinaryLabels, new[n].actual = a, new[n].predicted = p
  PROVE  MatrixOf(new, I \cup {n}) = [MatrixOf(rs, I) EXCEPT ![<<a, p>>] = @ + 1]
<1> DEFINE C == BinaryLabels \X BinaryLabels
           cell == <<a, p>>
           In(c) == {i \in I : <<rs[i].actual, rs[i].predicted>> = c}
           Now(c) == {i \in I \cup {n} : <<new[i].actual, new[i].predicted>> = c}
<1>1. \A c \in C : c # cell => Now(c) = In(c)
  OBVIOUS
<1>2. Now(cell) = In(cell) \cup {n}
  OBVIOUS
<1>3. IsFiniteSet(In(cell)) /\ n \notin In(cell)
  BY FS_Subset
<1> HIDE DEF In, Now
<1>4. Cardinality(Now(cell)) = Cardinality(In(cell)) + 1
  BY <1>2, <1>3, FS_AddElement
<1>5. MatrixOf(rs, I) = [c \in C |-> Cardinality(In(c))]
      /\ MatrixOf(new, I \cup {n}) = [c \in C |-> Cardinality(Now(c))]
  BY DEF MatrixOf, In, Now
<1>6. cell \in C
  OBVIOUS
<1> HIDE DEF C, cell
<1>7. [c \in C |-> Cardinality(Now(c))] = [[c \in C |-> Cardinality(In(c))] EXCEPT ![cell] = @ + 1]
  BY <1>1, <1>4, <1>6
<1> QED
  BY <1>5, <1>7 DEF cell

LEMMA StrataKept ==
  ASSUME NEW rs, External!IsSequence(rs), NEW e, e.status # "scored", NEW by
  PROVE  StrataOf(Append(rs, e), by) = StrataOf(rs, by)
<1> DEFINE new == Append(rs, e)
           S == RowsOf(rs, "scored")
           In(k) == {i \in S : KeyOf(by, rs[i].t) = k}
           Now(k) == {i \in RowsOf(new, "scored") : KeyOf(by, new[i].t) = k}
<1>1. RowsOf(new, "scored") = S /\ \A i \in S : new[i] = rs[i]
  BY ScoredAfter
<1> HIDE DEF new, S
<1>2. \A k : Now(k) = In(k) /\ \A i \in In(k) : new[i] = rs[i]
  BY <1>1
<1>3. {KeyOf(by, new[i].t) : i \in RowsOf(new, "scored")} = {KeyOf(by, rs[i].t) : i \in S}
  BY <1>1
<1>4. \A k : MatrixOf(new, Now(k)) = MatrixOf(rs, In(k))
  <2> HIDE DEF Now, In
  <2> QED BY <1>2, MatrixKept
<1>5. StrataOf(new, by) = StrataOf(rs, by)
  BY <1>3, <1>4 DEF StrataOf, S
<1> QED BY <1>5 DEF new

LEMMA NothingCounted == \A rs : MatrixOf(rs, {}) = External!NoMatrix
BY FS_EmptySet DEF MatrixOf, External!NoMatrix

LEMMA StrataGrow ==
  ASSUME NEW rs, External!IsSequence(rs), NEW e, e.status = "scored",
         e.actual \in BinaryLabels, e.predicted \in BinaryLabels, NEW by
  PROVE  StrataOf(Append(rs, e), by)
           = External!CountedUnder(KeyOf(by, e.t), StrataOf(rs, by), <<e.actual, e.predicted>>)
<1> DEFINE n == Len(rs) + 1
           new == Append(rs, e)
           S == RowsOf(rs, "scored")
           K == {KeyOf(by, rs[i].t) : i \in S}
           own == KeyOf(by, e.t)
           cell == <<e.actual, e.predicted>>
           In(k) == {i \in S : KeyOf(by, rs[i].t) = k}
           Now(k) == {i \in RowsOf(new, "scored") : KeyOf(by, new[i].t) = k}
           before == [k \in K |-> MatrixOf(rs, In(k))]
<1>1. /\ RowsOf(new, "scored") = S \cup {n} /\ n \notin S /\ IsFiniteSet(S)
      /\ \A i \in S : new[i] = rs[i]
  BY ScoredAfter
<1>2. new[n] = e
  BY AppendRow
<1> HIDE DEF new, S, n
<1>3. \A k : IsFiniteSet(In(k)) /\ n \notin In(k) /\ \A i \in In(k) : new[i] = rs[i]
  BY <1>1, FS_Subset
<1>4. Now(own) = In(own) \cup {n} /\ \A k : k # own => Now(k) = In(k)
  BY <1>1, <1>2
<1>5. {KeyOf(by, new[i].t) : i \in RowsOf(new, "scored")} = K \cup {own}
  BY <1>1, <1>2
<1>6. \A k : k \notin K => In(k) = {}
  OBVIOUS
<1>7. StrataOf(rs, by) = before
      /\ StrataOf(new, by) = [k \in K \cup {own} |-> MatrixOf(new, Now(k))]
  BY <1>5 DEF StrataOf, S
<1> HIDE DEF Now, In, K, own
<1>8. \A k : k # own => MatrixOf(new, Now(k)) = MatrixOf(rs, In(k))
  BY <1>3, <1>4, MatrixKept
<1>9. MatrixOf(new, Now(own)) = [MatrixOf(rs, In(own)) EXCEPT ![cell] = @ + 1]
  BY <1>2, <1>3, <1>4, MatrixGrows
<1>10. MatrixOf(rs, In(own)) = IF own \in DOMAIN before THEN before[own] ELSE External!NoMatrix
  BY <1>6, NothingCounted
<1>11. DOMAIN before = K /\ \A k \in K : before[k] = MatrixOf(rs, In(k))
  OBVIOUS
<1> HIDE DEF cell, before
<1>12. External!CountedUnder(own, before, cell)
         = [k \in K \cup {own} |->
              IF k # own THEN before[k]
              ELSE [(IF own \in DOMAIN before THEN before[own] ELSE External!NoMatrix) EXCEPT ![cell] = @ + 1]]
  BY <1>11 DEF External!CountedUnder, External!Incremented
<1>13. [k \in K \cup {own} |-> MatrixOf(new, Now(k))] = External!CountedUnder(own, before, cell)
  <2>1. ASSUME NEW k \in K \cup {own}
        PROVE  MatrixOf(new, Now(k))
                 = IF k # own THEN before[k]
                   ELSE [(IF own \in DOMAIN before THEN before[own] ELSE External!NoMatrix) EXCEPT ![cell] = @ + 1]
    <3>1. CASE k = own
      BY <1>9, <1>10, <3>1
    <3>2. CASE k # own
      BY <1>8, <1>11, <3>2
    <3> QED BY <3>1, <3>2
  <2> QED BY <1>12, <2>1
<1> QED
  BY <1>7, <1>13 DEF new, own, cell

LEMMA MetricsKept ==
  ASSUME NEW rs, External!IsSequence(rs), NEW e, e.status # "scored"
  PROVE  MetricsOf(Append(rs, e)) = MetricsOf(rs)
<1>1. MatrixOf(Append(rs, e), RowsOf(Append(rs, e), "scored")) = MatrixOf(rs, RowsOf(rs, "scored"))
  <2> DEFINE new == Append(rs, e)
             S == RowsOf(rs, "scored")
  <2>1. RowsOf(new, "scored") = S /\ \A i \in S : new[i] = rs[i]
    BY ScoredAfter
  <2> HIDE DEF new, S
  <2>2. MatrixOf(new, S) = MatrixOf(rs, S)
    BY <2>1, MatrixKept
  <2> QED BY <2>1, <2>2 DEF new, S
<1> QED BY <1>1, StrataKept DEF MetricsOf

LEMMA MetricsCounted ==
  ASSUME NEW rs, External!IsSequence(rs), NEW e, e.status = "scored",
         e.actual \in BinaryLabels, e.predicted \in BinaryLabels, e.t.use = "accuracy-bearing"
  PROVE  MetricsOf(Append(rs, e)) = External!Counted(MetricsOf(rs), e.t, e.actual, e.predicted)
<1> DEFINE S == RowsOf(rs, "scored")
           cell == <<e.actual, e.predicted>>
           grown == Append(rs, e)
           m == MetricsOf(rs)
<1>1. MatrixOf(grown, RowsOf(grown, "scored")) = External!Incremented(MatrixOf(rs, S), cell)
  <2> DEFINE new == Append(rs, e)
             n == Len(rs) + 1
  <2>1. /\ RowsOf(new, "scored") = S \cup {n} /\ n \notin S /\ IsFiniteSet(S)
        /\ \A i \in S : new[i] = rs[i]
    BY ScoredAfter
  <2>2. new[n] = e
    BY AppendRow
  <2> HIDE DEF new, S, n
  <2>3. MatrixOf(new, S \cup {n}) = [MatrixOf(rs, S) EXCEPT ![cell] = @ + 1]
    BY <2>1, <2>2, MatrixGrows
  <2> QED BY <2>1, <2>3 DEF new, External!Incremented
<1>2. \A by : StrataOf(grown, by) = External!CountedUnder(KeyOf(by, e.t), StrataOf(rs, by), cell)
  BY StrataGrow
<1>3. /\ KeyOf("mutation", e.t) = e.t.mutation /\ KeyOf("policy", e.t) = e.t.policy
      /\ KeyOf("both", e.t) = <<e.t.mutation, e.t.policy>>
  BY DEF KeyOf
<1>4. /\ m.overall = MatrixOf(rs, S) /\ m.mutation = StrataOf(rs, "mutation")
      /\ m.policy = StrataOf(rs, "policy") /\ m.both = StrataOf(rs, "both")
  BY DEF MetricsOf
<1> HIDE DEF S, cell, grown, m
<1>5. /\ StrataOf(grown, "mutation") = External!CountedUnder(e.t.mutation, m.mutation, cell)
      /\ StrataOf(grown, "policy") = External!CountedUnder(e.t.policy, m.policy, cell)
      /\ StrataOf(grown, "both") = External!CountedUnder(<<e.t.mutation, e.t.policy>>, m.both, cell)
  BY <1>2, <1>3, <1>4
<1>6. MetricsOf(grown)
        = [overall |-> External!Incremented(m.overall, cell),
           mutation |-> External!CountedUnder(e.t.mutation, m.mutation, cell),
           policy |-> External!CountedUnder(e.t.policy, m.policy, cell),
           both |-> External!CountedUnder(<<e.t.mutation, e.t.policy>>, m.both, cell)]
  BY <1>1, <1>4, <1>5 DEF MetricsOf
<1>7. External!Counted(m, e.t, e.actual, e.predicted)
        = [overall |-> External!Incremented(m.overall, cell),
           mutation |-> External!CountedUnder(e.t.mutation, m.mutation, cell),
           policy |-> External!CountedUnder(e.t.policy, m.policy, cell),
           both |-> External!CountedUnder(<<e.t.mutation, e.t.policy>>, m.both, cell)]
  BY DEF External!Counted, cell
<1> QED
  BY <1>6, <1>7 DEF m, grown

LEMMA MetricsAtTheStart == MetricsOf(<<>>) = External!NoMetrics
<1>1. RowsOf(<<>>, "scored") = {}
  BY DEF RowsOf
<1>2. MatrixOf(<<>>, {}) = External!NoMatrix
  BY NothingCounted
<1>3. \A by : StrataOf(<<>>, by) = External!NoStrata
  BY <1>1 DEF StrataOf, External!NoStrata
<1> QED
  BY <1>1, <1>2, <1>3 DEF MetricsOf, External!NoMetrics

-----------------------------------------------------------------------------
(* What the absence of reasons says of a transition.                       *)
LEMMA NoReasonIsAway ==
  ASSUME NEW t, NEW v9, NEW jar, NEW seen, External!Reasons(t, v9, jar, seen) = {},
         External!LoadedCorpus(v9), t.pair \in DOMAIN PairStructural,
         NEW sole \in External!TrainingJars(v9), External!TrainingJars(v9) = {sole}
  PROVE  AwayFrom(t, v9) /\ External!Fingerprint(t, jar) \notin seen
<1> DEFINE f == External!Features(t)
           near == External!NearestDistance(f, v9)
<1>1. /\ t.source \notin {r.source : r \in v9.records}
      /\ t.family \notin {r.family : r \in v9.records}
      /\ External!Fingerprint(t, External!SoleJar(v9)) \notin External!V9Fingerprints(v9)
      /\ External!Fingerprint(t, jar) \notin seen
      /\ ~(near <= MaxDistance)
  BY DEF External!Reasons, External!TooNear
<1>2. External!SoleJar(v9) = sole
  BY DEF External!SoleJar
<1>3. ASSUME NEW x \in v9.records PROVE x.pair = None \/ x.pair # t.pair \/ x.policy # t.policy
  <2> SUFFICES ASSUME x.pair # None, x.pair = t.pair, x.policy = t.policy PROVE FALSE
    OBVIOUS
  <2>1. x.jar = sole
    BY DEF External!TrainingJars
  <2>2. <<x.pair, x.policy, x.jar>> \in External!V9Fingerprints(v9)
    BY DEF External!V9Fingerprints
  <2> QED BY <1>1, <1>2, <2>1, <2>2 DEF External!Fingerprint
<1>4. IsFiniteSet(DOMAIN f.structural) /\ f.structural = PairStructural[t.pair] /\ MaxDistance \in Nat
  BY CommandsAssumption, ExternalCountsAsHere DEF External!ManifestAssumption, External!Features
<1> HIDE DEF f
<1>5. near \in Nat /\ \A x \in v9.records : near <= DistanceTo(f, x) /\ DistanceTo(f, x) \in Nat
  BY <1>4, NearestDistanceIsLeast, DistanceIsNumber
<1> HIDE DEF near
<1>6. \A x \in v9.records : DistanceTo(f, x) > MaxDistance
  BY <1>1, <1>4, <1>5
<1> QED
  BY <1>1, <1>3, <1>4, <1>6 DEF AwayFrom, DistanceTo

LEMMA ReasonsGrow ==
  ASSUME NEW t, NEW v9, NEW jar, NEW seen, NEW more, seen \subseteq more,
         External!Reasons(t, v9, jar, seen) # {}
  PROVE  External!Reasons(t, v9, jar, more) # {}
<1> DEFINE All == {"source", "family", "pair", "features", "duplicate", "near"}
           Why(why, s) ==
             CASE why = "source"    -> t.source \in {r.source : r \in v9.records}
               [] why = "family"    -> t.family \in {r.family : r \in v9.records}
               [] why = "pair"      -> External!Fingerprint(t, External!SoleJar(v9)) \in External!V9Fingerprints(v9)
               [] why = "features"  -> External!ExactOverlap(External!Features(t), v9)
               [] why = "duplicate" -> External!Fingerprint(t, jar) \in s
               [] why = "near"      -> External!TooNear(t, v9)
<1>1. \A s : External!Reasons(t, v9, jar, s) = {why \in All : Why(why, s)}
  BY DEF External!Reasons
<1>2. \A why \in All : Why(why, seen) => Why(why, more)
  OBVIOUS
<1> HIDE DEF All, Why
<1> QED
  BY <1>1, <1>2

LEMMA OneJar ==
  ASSUME NEW v9, External!LoadedCorpus(v9), External!Cardinality(External!TrainingJars(v9)) = 1
  PROVE  \E x \in External!TrainingJars(v9) : External!TrainingJars(v9) = {x}
<1> DEFINE R == {x \in v9.records : x.pair # None}
           J == {r.jar : r \in R}
<1>1. IsFiniteSet(R)
  BY FS_Subset, ExternalCountsAsHere DEF External!LoadedCorpus
<1>2. IsFiniteSet(J)
  <2> DEFINE f == [r \in R |-> r.jar]
  <2>1. f \in Surjection(R, J)
    BY DEF Surjection
  <2> QED BY <1>1, <2>1, FS_Surjection
<1>3. Cardinality(J) = 1
  BY ExternalCountsAsHere DEF External!TrainingJars
<1>4. \E x : J = {x}
  <2> HIDE DEF J
  <2> QED BY <1>2, <1>3, FS_Singleton
<1> QED
  BY <1>4 DEF External!TrainingJars

(* Every row has one of the five statuses.                                 *)
LEMMA CountsCoverRows ==
  ASSUME NEW rs, NEW m, NEW v9, NEW jar, SoundRows(rs, m, v9, jar)
  PROVE  Len(rs) = Cardinality(RowsOf(rs, "scored")) + Cardinality(RowsOf(rs, "excluded_traceability"))
                     + Cardinality(RowsOf(rs, "excluded_manifest_overlap"))
                     + Cardinality(RowsOf(rs, "oracle_rejected")) + Cardinality(RowsOf(rs, "rejected_overlap"))
<1> DEFINE A == RowsOf(rs, "scored")
           B == RowsOf(rs, "excluded_traceability")
           C == RowsOf(rs, "excluded_manifest_overlap")
           D == RowsOf(rs, "oracle_rejected")
           E == RowsOf(rs, "rejected_overlap")
           n == Len(rs)
<1>1. n \in Nat /\ DOMAIN rs = 1..n
  BY AppendRow DEF SoundRows
<1>2. A \cup B \cup C \cup D \cup E = 1..n
  BY <1>1 DEF SoundRows, RowIs, Statuses, RowsOf
<1>3. /\ A \cap B = {} /\ (A \cup B) \cap C = {} /\ (A \cup B \cup C) \cap D = {}
      /\ (A \cup B \cup C \cup D) \cap E = {}
  BY DEF RowsOf
<1> HIDE DEF A, B, C, D, E, n
<1>4. IsFiniteSet(1..n) /\ Cardinality(1..n) = n
  BY <1>1, FirstNumbers
<1>5. ASSUME NEW X, NEW Y, X \subseteq 1..n, Y \subseteq 1..n, X \cap Y = {}
      PROVE  Cardinality(X \cup Y) = Cardinality(X) + Cardinality(Y)
  <2> DEFINE N == 1..n
  <2>1. IsFiniteSet(N) /\ X \subseteq N /\ Y \subseteq N
    BY <1>4, <1>5
  <2> HIDE DEF N
  <2>2. IsFiniteSet(X) /\ IsFiniteSet(Y) /\ Cardinality(X) \in Nat /\ Cardinality(Y) \in Nat
    BY <2>1, FS_Subset, FS_CardinalityType
  <2>3. Cardinality(X \cup Y) = Cardinality(X) + Cardinality(Y) - Cardinality({})
    BY <1>5, <2>2, FS_Union
  <2> QED BY <2>2, <2>3, FS_EmptySet
<1>6. Cardinality(A \cup B) = Cardinality(A) + Cardinality(B)
  BY <1>2, <1>3, <1>5
<1>7. Cardinality(A \cup B \cup C) = Cardinality(A \cup B) + Cardinality(C)
  BY <1>2, <1>3, <1>5
<1>8. Cardinality(A \cup B \cup C \cup D) = Cardinality(A \cup B \cup C) + Cardinality(D)
  BY <1>2, <1>3, <1>5
<1>9. Cardinality(A \cup B \cup C \cup D \cup E) = Cardinality(A \cup B \cup C \cup D) + Cardinality(E)
  BY <1>2, <1>3, <1>5
<1>10. n = Cardinality(A) + Cardinality(B) + Cardinality(C) + Cardinality(D) + Cardinality(E)
  BY <1>2, <1>4, <1>6, <1>7, <1>8, <1>9
<1> QED
  BY <1>10 DEF A, B, C, D, E, n

-----------------------------------------------------------------------------
(* What good reports say together.                                         *)
LEMMA InputsAreParsed ==
  /\ \A m \in Versions["manifest"] : External!ParsedManifest(m)
  /\ \A v9 \in Versions["v9"] : External!LoadedCorpus(v9)
  /\ IsFiniteSet(BinaryLabels)
BY CommandsAssumption, ExternalCountsAsHere DEF External!EvaluationAssumption

LEMMA KindsOfReports ==
  ASSUME NEW r, GoodReport(r)
  PROVE  /\ r.kind = "evaluation" => GoodEvaluation(r)
         /\ r.kind = "preflight" =>
              \E m \in Versions["manifest"], v9 \in Versions["v9"],
                 jar \in Versions["jar"], packs \in Versions["packs"] :
                r = External!PreflightReport(m, v9, v9, jar, packs) /\ r # None
         /\ r.kind = "diagnostic" =>
              \E m \in Versions["manifest"], v9 \in Versions["v9"], id \in RecordIds :
                r = External!DiagnosticReport(m, v9, id, Limit) /\ r # None
<1>1. ASSUME NEW m \in Versions["manifest"], NEW v9 \in Versions["v9"],
             NEW jar \in Versions["jar"], NEW packs \in Versions["packs"],
             r = External!PreflightReport(m, v9, v9, jar, packs), r # None
      PROVE  r.kind = "preflight"
  BY <1>1, InputsAreParsed, ExternalReport
<1>2. ASSUME NEW m \in Versions["manifest"], NEW v9 \in Versions["v9"], NEW id \in RecordIds,
             r = External!DiagnosticReport(m, v9, id, Limit), r # None
      PROVE  r.kind = "diagnostic"
  BY <1>2, InputsAreParsed, DiagnosticSays
<1> QED
  BY <1>1, <1>2 DEF GoodReport

(* How many scored rows of a report fell into a cell, in a stratum.        *)
RowsIn(r, c) == {i \in RowsOf(r.records, "scored") : <<r.records[i].actual, r.records[i].predicted>> = c}
CellsCount(r) ==
  \A c \in BinaryLabels \X BinaryLabels :
    /\ r.metrics.overall[c] = Cardinality(RowsIn(r, c))
    /\ \A k \in DOMAIN r.metrics.mutation :
         r.metrics.mutation[k][c] = Cardinality({i \in RowsIn(r, c) : r.records[i].t.mutation = k})
    /\ \A k \in DOMAIN r.metrics.policy :
         r.metrics.policy[k][c] = Cardinality({i \in RowsIn(r, c) : r.records[i].t.policy = k})
    /\ \A k \in DOMAIN r.metrics.both :
         r.metrics.both[k][c]
           = Cardinality({i \in RowsIn(r, c) : <<r.records[i].t.mutation, r.records[i].t.policy>> = k})

LEMMA CellsCountRows == ASSUME NEW r, GoodEvaluation(r) PROVE CellsCount(r)
<1> DEFINE rs == r.records
           S == RowsOf(rs, "scored")
<1> SUFFICES ASSUME NEW c \in BinaryLabels \X BinaryLabels
             PROVE  /\ r.metrics.overall[c] = Cardinality(RowsIn(r, c))
                    /\ \A k \in DOMAIN r.metrics.mutation :
                         r.metrics.mutation[k][c] = Cardinality({i \in RowsIn(r, c) : rs[i].t.mutation = k})
                    /\ \A k \in DOMAIN r.metrics.policy :
                         r.metrics.policy[k][c] = Cardinality({i \in RowsIn(r, c) : rs[i].t.policy = k})
                    /\ \A k \in DOMAIN r.metrics.both :
                         r.metrics.both[k][c]
                           = Cardinality({i \in RowsIn(r, c) : <<rs[i].t.mutation, rs[i].t.policy>> = k})
  BY DEF CellsCount
<1>1. /\ r.metrics.overall = MatrixOf(rs, S) /\ r.metrics.mutation = StrataOf(rs, "mutation")
      /\ r.metrics.policy = StrataOf(rs, "policy") /\ r.metrics.both = StrataOf(rs, "both")
  BY DEF GoodEvaluation, MetricsOf
<1>2. r.metrics.overall[c] = Cardinality(RowsIn(r, c))
  BY <1>1 DEF MatrixOf, RowsIn
<1>3. ASSUME NEW by, NEW k \in DOMAIN StrataOf(rs, by)
      PROVE  StrataOf(rs, by)[k][c] = Cardinality({i \in RowsIn(r, c) : KeyOf(by, rs[i].t) = k})
  <2>1. {i \in {l \in S : KeyOf(by, rs[l].t) = k} : <<rs[i].actual, rs[i].predicted>> = c}
          = {i \in RowsIn(r, c) : KeyOf(by, rs[i].t) = k}
    BY DEF RowsIn
  <2>2. StrataOf(rs, by)[k] = MatrixOf(rs, {i \in S : KeyOf(by, rs[i].t) = k})
    BY DEF StrataOf
  <2> QED BY <2>1, <2>2 DEF MatrixOf
<1> HIDE DEF rs, S
<1>4. \A k \in DOMAIN r.metrics.mutation :
        r.metrics.mutation[k][c] = Cardinality({i \in RowsIn(r, c) : rs[i].t.mutation = k})
  <2> DEFINE by == "mutation"
  <2>1. \A t : KeyOf(by, t) = t.mutation
    BY DEF KeyOf
  <2>2. r.metrics.mutation = StrataOf(rs, by)
    BY <1>1
  <2> HIDE DEF by
  <2>3. \A k : {i \in RowsIn(r, c) : KeyOf(by, rs[i].t) = k} = {i \in RowsIn(r, c) : rs[i].t.mutation = k}
    BY <2>1
  <2> QED BY <1>3, <2>2, <2>3
<1>5. \A k \in DOMAIN r.metrics.policy :
        r.metrics.policy[k][c] = Cardinality({i \in RowsIn(r, c) : rs[i].t.policy = k})
  <2> DEFINE by == "policy"
  <2>1. \A t : KeyOf(by, t) = t.policy
    BY DEF KeyOf
  <2>2. r.metrics.policy = StrataOf(rs, by)
    BY <1>1
  <2> HIDE DEF by
  <2>3. \A k : {i \in RowsIn(r, c) : KeyOf(by, rs[i].t) = k} = {i \in RowsIn(r, c) : rs[i].t.policy = k}
    BY <2>1
  <2>4. \A k \in DOMAIN StrataOf(rs, by) :
          StrataOf(rs, by)[k][c] = Cardinality({i \in RowsIn(r, c) : KeyOf(by, rs[i].t) = k})
    BY <1>3
  <2> QED BY <2>2, <2>3, <2>4
<1>6. \A k \in DOMAIN r.metrics.both :
        r.metrics.both[k][c] = Cardinality({i \in RowsIn(r, c) : <<rs[i].t.mutation, rs[i].t.policy>> = k})
  <2> DEFINE by == "both"
  <2>1. \A t : KeyOf(by, t) = <<t.mutation, t.policy>>
    BY DEF KeyOf
  <2>2. r.metrics.both = StrataOf(rs, by)
    BY <1>1
  <2> HIDE DEF by
  <2>3. \A k : {i \in RowsIn(r, c) : KeyOf(by, rs[i].t) = k} = {i \in RowsIn(r, c) : <<rs[i].t.mutation, rs[i].t.policy>> = k}
    BY <2>1
  <2> QED BY <1>3, <2>2, <2>3
<1> QED
  BY <1>2, <1>4, <1>5, <1>6 DEF rs

LEMMA CountsAreOfRows ==
  ASSUME NEW r, GoodEvaluation(r)
  PROVE  /\ r.total = r.scored + r.traceability + r.overlapExcluded + r.rejected + r.overlap
         /\ External!Total(r.metrics.overall) = r.scored
<1> DEFINE rs == r.records
           S == RowsOf(rs, "scored")
<1>1. SoundRows(rs, r.manifest, r.v9, r.jar)
  BY DEF GoodEvaluation
<1>2. r.total = r.scored + r.traceability + r.overlapExcluded + r.rejected + r.overlap
  <2>1. r.total = Len(rs)
    BY DEF GoodEvaluation
  <2> QED BY <1>1, <2>1, CountsCoverRows DEF GoodEvaluation
<1>3. IsFiniteSet(S) /\ \A i \in S : rs[i].actual \in BinaryLabels /\ rs[i].predicted \in BinaryLabels
  BY <1>1, ScoredAfter DEF SoundRows, RowIs, RowsOf
<1>4. r.metrics.overall = MatrixOf(rs, S) /\ r.scored = Cardinality(S)
  BY DEF GoodEvaluation, MetricsOf
<1> HIDE DEF rs, S
<1>5. External!Total(MatrixOf(rs, S)) = Cardinality(S)
  BY <1>3, InputsAreParsed, TotalCountsRows
<1> QED
  BY <1>2, <1>4, <1>5

-----------------------------------------------------------------------------
LEMMA ScoredRowsAreIsolated ==
  ASSUME \A r \in written : GoodReport(r)
  PROVE  External!ScoredAreIsolated
<1> SUFFICES ASSUME NEW r \in External!Written("evaluation"),
                    NEW i \in {k \in DOMAIN r.records : r.records[k].status = "scored"}
             PROVE  /\ AwayFrom(r.records[i].t, r.v9)
                    /\ \A k \in DOMAIN r.records \ {i} : r.records[k].status = "scored" =>
                         <<r.records[k].t.pair, r.records[k].t.policy>>
                           # <<r.records[i].t.pair, r.records[i].t.policy>>
  BY DEF External!ScoredAreIsolated, AwayFrom
<1>1. SoundRows(r.records, r.manifest, r.v9, r.jar)
  BY KindsOfReports DEF External!Written, GoodEvaluation
<1>2. i \in RowsOf(r.records, "scored")
  BY DEF RowsOf
<1>3. AwayFrom(r.records[i].t, r.v9)
  BY <1>1, <1>2 DEF SoundRows, RowIs, RowsOf
<1>4. \A k \in RowsOf(r.records, "scored") : k # i =>
        <<r.records[k].t.pair, r.records[k].t.policy>> # <<r.records[i].t.pair, r.records[i].t.policy>>
  BY <1>1, <1>2 DEF SoundRows
<1> QED
  BY <1>3, <1>4 DEF RowsOf

LEMMA StrataAreOfScored ==
  ASSUME NEW r, GoodEvaluation(r)
  PROVE  /\ DOMAIN r.metrics.mutation = {t.mutation : t \in External!ScoredTransitions(r)}
         /\ DOMAIN r.metrics.policy = {t.policy : t \in External!ScoredTransitions(r)}
         /\ DOMAIN r.metrics.both = {<<t.mutation, t.policy>> : t \in External!ScoredTransitions(r)}
<1>1. /\ r.metrics.mutation = StrataOf(r.records, "mutation")
      /\ r.metrics.policy = StrataOf(r.records, "policy") /\ r.metrics.both = StrataOf(r.records, "both")
  BY DEF GoodEvaluation, MetricsOf
<1>2. \A by : DOMAIN StrataOf(r.records, by) = {KeyOf(by, t) : t \in External!ScoredTransitions(r)}
  BY DEF StrataOf, External!ScoredTransitions, RowsOf
<1>3. /\ \A t : KeyOf("mutation", t) = t.mutation
      /\ \A t : KeyOf("policy", t) = t.policy
      /\ \A t : KeyOf("both", t) = <<t.mutation, t.policy>>
  BY DEF KeyOf
<1>4. /\ {KeyOf("mutation", t) : t \in External!ScoredTransitions(r)} = {t.mutation : t \in External!ScoredTransitions(r)}
      /\ {KeyOf("policy", t) : t \in External!ScoredTransitions(r)} = {t.policy : t \in External!ScoredTransitions(r)}
      /\ {KeyOf("both", t) : t \in External!ScoredTransitions(r)} = {<<t.mutation, t.policy>> : t \in External!ScoredTransitions(r)}
  BY <1>3
<1> QED
  BY <1>1, <1>2, <1>4, Zenon

LEMMA MetricsCountTheScored ==
  ASSUME \A r \in written : GoodReport(r)
  PROVE  External!MetricsAreOfScored
<1>1. \A r \in External!Written("evaluation") : GoodEvaluation(r)
  BY KindsOfReports DEF External!Written
<1> SUFFICES ASSUME NEW r \in External!Written("evaluation")
             PROVE  /\ r.total = r.scored + r.traceability + r.overlapExcluded + r.rejected + r.overlap
                    /\ External!Total(r.metrics.overall) = r.scored
                    /\ DOMAIN r.metrics.mutation = {t.mutation : t \in External!ScoredTransitions(r)}
                    /\ DOMAIN r.metrics.policy = {t.policy : t \in External!ScoredTransitions(r)}
                    /\ DOMAIN r.metrics.both = {<<t.mutation, t.policy>> : t \in External!ScoredTransitions(r)}
                    /\ \A c \in BinaryLabels \X BinaryLabels :
                         /\ r.metrics.overall[c]
                              = External!Cardinality({i \in DOMAIN r.records : r.records[i].status = "scored"
                                           /\ <<r.records[i].actual, r.records[i].predicted>> = c /\ TRUE})
                         /\ \A k \in DOMAIN r.metrics.mutation :
                              r.metrics.mutation[k][c]
                                = External!Cardinality({i \in DOMAIN r.records : r.records[i].status = "scored"
                                           /\ <<r.records[i].actual, r.records[i].predicted>> = c /\ r.records[i].t.mutation = k})
                         /\ \A k \in DOMAIN r.metrics.policy :
                              r.metrics.policy[k][c]
                                = External!Cardinality({i \in DOMAIN r.records : r.records[i].status = "scored"
                                           /\ <<r.records[i].actual, r.records[i].predicted>> = c /\ r.records[i].t.policy = k})
                         /\ \A k \in DOMAIN r.metrics.both :
                              r.metrics.both[k][c]
                                = External!Cardinality({i \in DOMAIN r.records : r.records[i].status = "scored"
                                           /\ <<r.records[i].actual, r.records[i].predicted>> = c /\ <<r.records[i].t.mutation, r.records[i].t.policy>> = k})
  BY DEF External!MetricsAreOfScored
<1>4. /\ DOMAIN r.metrics.mutation = {t.mutation : t \in External!ScoredTransitions(r)}
      /\ DOMAIN r.metrics.policy = {t.policy : t \in External!ScoredTransitions(r)}
      /\ DOMAIN r.metrics.both = {<<t.mutation, t.policy>> : t \in External!ScoredTransitions(r)}
  BY <1>1, StrataAreOfScored
<1>5. \A c : RowsIn(r, c) = {i \in DOMAIN r.records : r.records[i].status = "scored"
                              /\ <<r.records[i].actual, r.records[i].predicted>> = c /\ TRUE}
  BY DEF RowsIn, RowsOf
<1>6. CellsCount(r)
  BY <1>1, CellsCountRows
<1>7. r.total = r.scored + r.traceability + r.overlapExcluded + r.rejected + r.overlap
      /\ External!Total(r.metrics.overall) = r.scored
  BY <1>1, CountsAreOfRows
<1>8. ASSUME NEW c \in BinaryLabels \X BinaryLabels
      PROVE  r.metrics.overall[c]
               = Cardinality({i \in DOMAIN r.records : r.records[i].status = "scored"
                                /\ <<r.records[i].actual, r.records[i].predicted>> = c /\ TRUE})
  BY <1>5, <1>6 DEF CellsCount
<1>9. ASSUME NEW c \in BinaryLabels \X BinaryLabels, NEW k \in DOMAIN r.metrics.mutation
      PROVE  r.metrics.mutation[k][c]
               = Cardinality({i \in DOMAIN r.records : r.records[i].status = "scored"
                                /\ <<r.records[i].actual, r.records[i].predicted>> = c /\ r.records[i].t.mutation = k})
  <2>1. r.metrics.mutation[k][c] = Cardinality({i \in RowsIn(r, c) : r.records[i].t.mutation = k})
    BY <1>6 DEF CellsCount
  <2>2. {i \in RowsIn(r, c) : r.records[i].t.mutation = k}
          = {i \in DOMAIN r.records : r.records[i].status = "scored"
               /\ <<r.records[i].actual, r.records[i].predicted>> = c /\ r.records[i].t.mutation = k}
    BY DEF RowsIn, RowsOf
  <2> QED BY <2>1, <2>2, Zenon
<1>10. ASSUME NEW c \in BinaryLabels \X BinaryLabels, NEW k \in DOMAIN r.metrics.policy
      PROVE  r.metrics.policy[k][c]
               = Cardinality({i \in DOMAIN r.records : r.records[i].status = "scored"
                                /\ <<r.records[i].actual, r.records[i].predicted>> = c /\ r.records[i].t.policy = k})
  <2>1. r.metrics.policy[k][c] = Cardinality({i \in RowsIn(r, c) : r.records[i].t.policy = k})
    BY <1>6 DEF CellsCount
  <2>2. {i \in RowsIn(r, c) : r.records[i].t.policy = k}
          = {i \in DOMAIN r.records : r.records[i].status = "scored"
               /\ <<r.records[i].actual, r.records[i].predicted>> = c /\ r.records[i].t.policy = k}
    BY DEF RowsIn, RowsOf
  <2> QED BY <2>1, <2>2, Zenon
<1>11. ASSUME NEW c \in BinaryLabels \X BinaryLabels, NEW k \in DOMAIN r.metrics.both
      PROVE  r.metrics.both[k][c]
               = Cardinality({i \in DOMAIN r.records : r.records[i].status = "scored"
                                /\ <<r.records[i].actual, r.records[i].predicted>> = c /\ <<r.records[i].t.mutation, r.records[i].t.policy>> = k})
  <2>1. r.metrics.both[k][c] = Cardinality({i \in RowsIn(r, c) : <<r.records[i].t.mutation, r.records[i].t.policy>> = k})
    BY <1>6 DEF CellsCount
  <2>2. {i \in RowsIn(r, c) : <<r.records[i].t.mutation, r.records[i].t.policy>> = k}
          = {i \in DOMAIN r.records : r.records[i].status = "scored"
               /\ <<r.records[i].actual, r.records[i].predicted>> = c /\ <<r.records[i].t.mutation, r.records[i].t.policy>> = k}
    BY DEF RowsIn, RowsOf
  <2> QED BY <2>1, <2>2, Zenon
<1> QED
  BY <1>4, <1>7, <1>8, <1>9, <1>10, <1>11, ExternalCountsAsHere

LEMMA PreflightIsBorneOut ==
  ASSUME \A r \in written : GoodReport(r)
  PROVE  External!PreflightPredicts
<1> SUFFICES ASSUME NEW p \in External!Written("preflight"), NEW e \in External!Written("evaluation"),
                    p.passed, p.manifest = e.manifest, p.v9 = e.v9, p.jar = e.jar
             PROVE  e.overlap = 0
  BY DEF External!PreflightPredicts
<1> DEFINE rs == e.records
           m == e.manifest
           Lost == RowsOf(rs, "rejected_overlap")
<1>1. SoundRows(rs, m, e.v9, e.jar) /\ e.overlap = Cardinality(Lost) /\ m \in Versions["manifest"]
  BY KindsOfReports DEF External!Written, GoodEvaluation
<1>2. PICK o \in Versions["manifest"], v9 \in Versions["v9"], jar \in Versions["jar"], packs \in Versions["packs"] :
        p = External!PreflightReport(o, v9, v9, jar, packs) /\ p # None
  BY KindsOfReports DEF External!Written
<1>3. o = m /\ v9 = e.v9 /\ jar = e.jar
      /\ \A i \in DOMAIN m.transitions :
           External!Reasons(m.transitions[i], v9, jar, External!SeenBefore(m.transitions, jar, i)) = {}
  <2>1. External!ParsedManifest(o)
    BY InputsAreParsed
  <2>2. p.manifest = o /\ p.v9 = v9 /\ p.jar = jar
    BY <1>2, <2>1, ExternalReport
  <2>3. \A i \in DOMAIN o.transitions :
          External!Reasons(o.transitions[i], v9, jar, External!SeenBefore(o.transitions, jar, i)) = {}
    BY <1>2, <2>1, ExternalReport
  <2> QED BY <2>2, <2>3
<1>4. DOMAIN rs \subseteq DOMAIN m.transitions
  <2>1. Len(rs) \in Nat /\ DOMAIN rs = 1..Len(rs) /\ Len(rs) <= Len(m.transitions)
    BY <1>1, AppendRow DEF SoundRows
  <2>2. PICK n \in Nat : DOMAIN m.transitions = 1..n /\ Len(m.transitions) = n
    BY <1>1, InputsAreParsed, TransitionsNumbered
  <2>3. \A i \in 1..Len(rs) : i \in 1..n
    BY <2>1, <2>2
  <2> QED BY <2>1, <2>2, <2>3
<1>5. Lost = {}
  BY <1>1, <1>3, <1>4 DEF SoundRows, RowsOf
<1> QED
  BY <1>1, <1>5, FS_EmptySet

LEMMA DiagnosisIsThePreflights ==
  ASSUME \A r \in written : GoodReport(r)
  PROVE  External!DiagnosisAgrees
<1> SUFFICES ASSUME NEW d \in External!Written("diagnostic")
             PROVE  /\ \A n \in d.shown : Cardinality(n.differs) = d.distance
                    /\ ShowsTheFirst(d)
                    /\ \A p \in External!Written("preflight") :
                         p.manifest = d.manifest /\ p.v9 = d.v9 =>
                           \A i \in DOMAIN p.records : p.records[i].id = d.id =>
                             p.records[i].nearest = d.distance /\ p.records[i].exact = (d.exact > 0)
  BY ExternalCountsAsHere DEF External!DiagnosisAgrees, ShowsTheFirst
<1>1. PICK m \in Versions["manifest"], v9 \in Versions["v9"], id \in RecordIds :
        d = External!DiagnosticReport(m, v9, id, Limit) /\ d # None
  BY KindsOfReports DEF External!Written
<1>2. External!ParsedManifest(m) /\ External!LoadedCorpus(v9)
  BY InputsAreParsed
<1>3. /\ d.manifest = m /\ d.v9 = v9 /\ d.id = id
      /\ \A n \in d.shown : Cardinality(n.differs) = d.distance
      /\ ShowsTheFirst(d)
      /\ \A i \in DOMAIN m.transitions : m.transitions[i].id = id =>
           LET features == External!Features(m.transitions[i]) IN
           /\ d.distance = External!NearestDistance(features, v9)
           /\ d.exact \in Nat /\ (d.exact > 0 <=> External!ExactOverlap(features, v9))
  BY <1>1, <1>2, DiagnosticSays
<1>4. ASSUME NEW p \in External!Written("preflight"), p.manifest = d.manifest, p.v9 = d.v9,
             NEW i \in DOMAIN p.records, p.records[i].id = d.id
      PROVE  p.records[i].nearest = d.distance /\ p.records[i].exact = (d.exact > 0)
  <2>1. PICK o \in Versions["manifest"], w \in Versions["v9"], jar \in Versions["jar"], packs \in Versions["packs"] :
          p = External!PreflightReport(o, w, w, jar, packs) /\ p # None
    BY KindsOfReports DEF External!Written
  <2> DEFINE f == External!Features(m.transitions[i])
  <2>2. /\ o = m /\ w = v9 /\ i \in DOMAIN m.transitions
        /\ p.records[i].id = m.transitions[i].id
        /\ p.records[i].exact = External!ExactOverlap(f, v9)
        /\ p.records[i].nearest = External!NearestDistance(f, v9)
    BY <1>3, <1>4, <2>1, InputsAreParsed, ExternalReport
  <2>3. d.distance = External!NearestDistance(f, v9) /\ (d.exact > 0 <=> External!ExactOverlap(f, v9))
    BY <1>3, <1>4, <2>2
  <2>4. External!ExactOverlap(f, v9) \in BOOLEAN /\ (d.exact > 0) \in BOOLEAN
    BY DEF External!ExactOverlap
  <2> HIDE DEF f
  <2> QED BY <2>2, <2>3, <2>4
<1> QED
  BY <1>3, <1>4

-----------------------------------------------------------------------------
(* Steps of a command.                                                     *)
LEMMA JobStep ==
  ASSUME ExternalInv, NEW j, job' = j, j # None => RunsOn(j, files),
         UNCHANGED <<files, written, asked>>
  PROVE  ExternalInv'
<1>1. files' = files /\ written' = written /\ asked' = asked
  OBVIOUS
<1>2. /\ files' = [p \in External!Inputs |-> files'[p]]
      /\ \A p \in External!Inputs : files'[p] \in Versions[p]
      /\ job' # None => RunsOn(job', files')
      /\ \A r \in written' : GoodReport(r)
  BY <1>1 DEF ExternalInv
<1>3. External!NothingAskedUnapproved'
  BY <1>1 DEF ExternalInv, External!NothingAskedUnapproved
<1> QED
  BY <1>2, <1>3 DEF ExternalInv

(* What is on disk is a version of its input.                              *)
LEMMA InputsOnDisk ==
  ASSUME ExternalInv
  PROVE  /\ files["manifest"] \in Versions["manifest"] /\ files["v9"] \in Versions["v9"]
         /\ files["jar"] \in Versions["jar"] /\ files["packs"] \in Versions["packs"]
BY DEF ExternalInv, External!Inputs

LEMMA BeginStep ==
  ASSUME ExternalInv, NEW c \in {"evaluate", "preflight", "diagnose"}, External!Begin(c)
  PROVE  ExternalInv'
<1>1. PICK j : j = [command |-> c, pc |-> "manifest"]
  OBVIOUS
<1>2. j.command = c /\ j.pc = "manifest"
  BY <1>1
<1>3. RunsOn(j, files)
  BY <1>2 DEF RunsOn
<1>4. job' = j /\ UNCHANGED <<files, written, asked>>
  BY <1>1 DEF External!Begin
<1> QED BY <1>3, <1>4, JobStep

LEMMA AbandonStep == ASSUME ExternalInv, External!Abandon PROVE ExternalInv'
<1>1. job' = None /\ UNCHANGED <<files, written, asked>>
  BY DEF External!Abandon
<1> QED BY <1>1, JobStep

LEMMA ReadManifestStep == ASSUME ExternalInv, External!ReadManifest PROVE ExternalInv'
<1>1. PICK j : j = [command |-> job.command, pc |-> "dataset", manifest |-> files["manifest"]]
  OBVIOUS
<1>2. j.command = job.command /\ j.pc = "dataset" /\ j.manifest = files["manifest"]
  BY <1>1
<1>3. job' = j /\ UNCHANGED <<files, written, asked>> /\ job # None
  BY <1>1 DEF External!ReadManifest, External!Proceed, External!At
<1>4. RunsOn(j, files)
  BY <1>2, <1>3, InputsOnDisk DEF RunsOn, ExternalInv
<1> QED BY <1>3, <1>4, JobStep

LEMMA LoadDatasetStep == ASSUME ExternalInv, External!LoadDataset PROVE ExternalInv'
<1>1. PICK j : j = [command |-> job.command, manifest |-> job.manifest, v9 |-> files["v9"],
                    pc |-> IF job.command = "evaluate" THEN "hash" ELSE "report"]
  OBVIOUS
<1>2. /\ j.command = job.command /\ j.manifest = job.manifest /\ j.v9 = files["v9"]
      /\ j.pc \in {"hash", "report"}
  BY <1>1
<1>3. job' = j /\ UNCHANGED <<files, written, asked>> /\ job # None /\ job.pc = "dataset"
      /\ files["v9"].version = "V6"
  BY <1>1 DEF External!LoadDataset, External!Proceed, External!At
<1>4. RunsOn(j, files)
  BY <1>2, <1>3 DEF RunsOn, ExternalInv
<1> QED BY <1>3, <1>4, JobStep

LEMMA HashInputsStep == ASSUME ExternalInv, External!HashInputs PROVE ExternalInv'
<1>1. PICK j : j = [command |-> job.command, manifest |-> job.manifest, v9 |-> job.v9, pc |-> "verify",
                    hashed |-> files["v9"], model |-> files["model"]]
  OBVIOUS
<1>2. /\ j.command = job.command /\ j.manifest = job.manifest /\ j.v9 = job.v9 /\ j.hashed = files["v9"]
      /\ j.pc = "verify"
  BY <1>1
<1>3. job' = j /\ UNCHANGED <<files, written, asked>> /\ job # None /\ job.pc = "hash"
  BY <1>1 DEF External!HashInputs, External!Proceed, External!At
<1>4. RunsOn(j, files)
  BY <1>2, <1>3 DEF RunsOn, ExternalInv
<1> QED BY <1>3, <1>4, JobStep

LEMMA VerifyInputsStep == ASSUME ExternalInv, External!Verify PROVE ExternalInv'
<1>1. PICK j : j = [command |-> job.command, manifest |-> job.manifest, v9 |-> job.v9, pc |-> "score",
                    hashed |-> job.hashed, model |-> job.model, scorer |-> files["model"],
                    jar |-> files["jar"], packs |-> files["packs"], records |-> <<>>, seen |-> {},
                    metrics |-> External!NoMetrics]
  OBVIOUS
<1>2. /\ j.command = job.command /\ j.manifest = job.manifest /\ j.v9 = job.v9 /\ j.hashed = job.hashed
      /\ j.pc = "score" /\ j.scorer = files["model"] /\ j.jar = files["jar"] /\ j.packs = files["packs"]
      /\ j.records = <<>> /\ j.seen = {} /\ j.metrics = External!NoMetrics
      /\ j = [command |-> j.command, manifest |-> j.manifest, v9 |-> j.v9, pc |-> j.pc,
              hashed |-> j.hashed, model |-> j.model, scorer |-> j.scorer, jar |-> j.jar,
              packs |-> j.packs, records |-> j.records, seen |-> j.seen, metrics |-> j.metrics]
  BY <1>1
<1>3. job' = j /\ UNCHANGED <<files, written, asked>> /\ job # None /\ job.pc = "verify"
      /\ External!DualProvenance(job, files["model"], files["jar"], files["packs"], files["audit"])
  BY <1>1 DEF External!Verify, External!Proceed, External!At
<1>4. RunsOn(job, files) /\ job.v9 \in Versions["v9"]
  BY <1>3, InputsOnDisk DEF ExternalInv, RunsOn
<1>5. \E x \in External!TrainingJars(j.v9) : External!TrainingJars(j.v9) = {x}
  BY <1>2, <1>3, <1>4, InputsAreParsed, OneJar DEF External!DualProvenance
<1>6. Approved(j)
  <2>1. PICK q : q = External!Pairing(job.hashed, files["model"].jar, files["jar"], files["packs"], files["audit"])
    OBVIOUS
  <2>2. /\ q.dataset = job.hashed /\ q.training = files["model"].jar
        /\ q.execution = files["jar"] /\ q.packs = files["packs"]
    BY <2>1 DEF External!Pairing
  <2>3. q = Registered /\ files["model"].dataset = job.hashed
    BY <1>3, <2>1 DEF External!DualProvenance, External!ApprovedPairing
  <2> QED BY <1>2, <2>2, <2>3 DEF Approved
<1>7. SoundRows(j.records, j.manifest, j.v9, j.jar)
  <2>1. External!IsSequence(<<>>) /\ Len(<<>>) = 0 /\ DOMAIN <<>> = {}
    BY EmptySeq DEF External!IsSequence
  <2>2. Len(j.manifest.transitions) \in Nat
    BY <1>2, <1>3, <1>4, InputsAreParsed, TransitionsNumbered DEF RunsOn
  <2> QED BY <1>2, <2>1, <2>2 DEF SoundRows, RowsOf
<1>8. Scores(j)
  <2>1. RowsOf(j.records, "scored") = {}
    BY <1>2 DEF RowsOf
  <2>2. j.metrics = MetricsOf(j.records)
    BY <1>2, MetricsAtTheStart
  <2> QED BY <1>2, <1>5, <1>6, <1>7, <2>1, <2>2 DEF Scores
<1>9. RunsOn(j, files)
  BY <1>2, <1>3, <1>4, <1>8 DEF RunsOn
<1> QED BY <1>3, <1>9, JobStep

-----------------------------------------------------------------------------
(* What an evaluation knows when it comes to a transition.                 *)
LEMMA AtTransition ==
  ASSUME ExternalInv, External!Scoring
  PROVE  /\ job # None /\ job.pc = "score" /\ RunsOn(job, files) /\ Scores(job)
         /\ External!ParsedManifest(job.manifest) /\ External!LoadedCorpus(job.v9)
         /\ Len(job.records) \in Nat /\ Len(job.manifest.transitions) \in Nat
         /\ Len(job.records) < Len(job.manifest.transitions)
         /\ Len(job.records) + 1 \in DOMAIN job.manifest.transitions
<1>1. job # None /\ job.pc = "score" /\ Len(job.records) < Len(job.manifest.transitions)
  BY DEF External!Scoring, External!At
<1>2. RunsOn(job, files) /\ Scores(job)
  BY <1>1 DEF ExternalInv, RunsOn
<1>3. External!ParsedManifest(job.manifest) /\ External!LoadedCorpus(job.v9)
  BY <1>1, <1>2, InputsOnDisk, InputsAreParsed DEF RunsOn
<1>4. PICK n \in Nat : DOMAIN job.manifest.transitions = 1..n /\ Len(job.manifest.transitions) = n
  BY <1>3, TransitionsNumbered
<1>5. Len(job.records) \in Nat
  BY <1>2, AppendRow DEF Scores, SoundRows
<1>6. Len(job.records) + 1 \in 1..n
  BY <1>1, <1>4, <1>5
<1> QED BY <1>1, <1>2, <1>3, <1>4, <1>5, <1>6

(* A row that is neither scored nor rejected for overlap.                  *)
LEMMA PassedOver ==
  ASSUME ExternalInv, External!Scoring, NEW e, e.t = External!Current,
         e.status \in {"excluded_traceability", "excluded_manifest_overlap", "oracle_rejected"},
         NEW k, k = [job EXCEPT !.records = Append(@, e)]
  PROVE  RunsOn(k, files)
<1> DEFINE new == Append(job.records, e)
<1>1. /\ job.pc = "score" /\ RunsOn(job, files) /\ Scores(job)
      /\ Len(job.records) \in Nat /\ Len(job.manifest.transitions) \in Nat
      /\ Len(job.records) < Len(job.manifest.transitions)
  BY AtTransition
<1>2. External!IsSequence(job.records) /\ SoundRows(job.records, job.manifest, job.v9, job.jar)
  BY <1>1 DEF Scores, SoundRows
<1>3. RowIs(e, job.manifest.transitions[Len(job.records) + 1], job.v9)
  BY DEF RowIs, Statuses, External!Current
<1>4. SoundRows(new, job.manifest, job.v9, job.jar)
  BY <1>1, <1>2, <1>3, OneMoreRow
<1>5. MetricsOf(new) = MetricsOf(job.records)
  BY <1>2, MetricsKept
<1>6. /\ RowsOf(new, "scored") = RowsOf(job.records, "scored")
      /\ \A i \in RowsOf(job.records, "scored") : new[i] = job.records[i]
      /\ Len(new) = Len(job.records) + 1
  BY <1>2, ScoredAfter, AppendRow
<1> HIDE DEF new
<1>7. /\ k.command = job.command /\ k.manifest = job.manifest /\ k.v9 = job.v9 /\ k.pc = job.pc
      /\ k.hashed = job.hashed /\ k.model = job.model /\ k.scorer = job.scorer /\ k.jar = job.jar
      /\ k.packs = job.packs /\ k.records = new /\ k.seen = job.seen /\ k.metrics = job.metrics
      /\ k = [command |-> k.command, manifest |-> k.manifest, v9 |-> k.v9, pc |-> k.pc,
              hashed |-> k.hashed, model |-> k.model, scorer |-> k.scorer, jar |-> k.jar,
              packs |-> k.packs, records |-> k.records, seen |-> k.seen, metrics |-> k.metrics]
  BY <1>1 DEF Scores, new
<1>8. External!SeenBefore(k.manifest.transitions, k.jar, Len(job.records) + 1)
        \subseteq External!SeenBefore(k.manifest.transitions, k.jar, Len(k.records) + 1)
  BY <1>1, <1>6, <1>7 DEF External!SeenBefore
<1>9. Scores(k)
  BY <1>1, <1>4, <1>5, <1>6, <1>7, <1>8 DEF Scores, Approved
<1> QED
  BY <1>1, <1>7, <1>9 DEF RunsOn

LEMMA ExcludeStep == ASSUME ExternalInv, External!Exclude PROVE ExternalInv'
<1>1. PICK status : status = IF External!Current.use = "traceability-only" THEN "excluded_traceability"
                             ELSE "excluded_manifest_overlap"
  OBVIOUS
<1>2. PICK e : e = External!Row(External!Current, status, {}, None, None)
  OBVIOUS
<1>3. e.t = External!Current /\ e.status = status
  BY <1>2 DEF External!Row
<1>4. PICK k : k = [job EXCEPT !.records = Append(@, e)]
  OBVIOUS
<1>5. job' = k /\ UNCHANGED <<files, written, asked>> /\ External!Scoring
  BY <1>1, <1>2, <1>4 DEF External!Exclude, External!Proceed
<1>6. status \in {"excluded_traceability", "excluded_manifest_overlap", "oracle_rejected"}
  BY <1>1
<1>7. RunsOn(k, files)
  BY <1>3, <1>4, <1>5, <1>6, PassedOver
<1> QED BY <1>5, <1>7, JobStep

(* Questions are asked of what was approved.                               *)
LEMMA AskedApproved ==
  ASSUME ExternalInv, External!Scoring, External!Current.use = "accuracy-bearing", External!Ask
  PROVE  External!NothingAskedUnapproved'
<1>1. PICK q : q = [use |-> External!Current.use, jar |-> job.jar, packs |-> job.packs,
                    dataset |-> job.hashed, scorer |-> job.scorer]
  OBVIOUS
<1>2. /\ q.use = "accuracy-bearing" /\ q.jar = job.jar /\ q.packs = job.packs
      /\ q.dataset = job.hashed /\ q.scorer = job.scorer
  BY <1>1
<1>3. asked' = asked \cup {q}
  BY <1>1 DEF External!Ask
<1>4. Approved(job)
  BY AtTransition DEF Scores
<1>5. External!NothingAskedUnapproved
  BY DEF ExternalInv
<1> QED
  BY <1>2, <1>3, <1>4, <1>5 DEF External!NothingAskedUnapproved, Approved

LEMMA AskedStep ==
  ASSUME ExternalInv, NEW k, job' = k, RunsOn(k, files), UNCHANGED <<files, written>>,
         External!NothingAskedUnapproved'
  PROVE  ExternalInv'
<1>1. files' = files /\ written' = written
  OBVIOUS
<1> QED BY <1>1 DEF ExternalInv

LEMMA LabelRejectedStep == ASSUME ExternalInv, External!LabelRejected PROVE ExternalInv'
<1>2. PICK e : e = External!Row(External!Current, "oracle_rejected", {}, None, None)
  OBVIOUS
<1>3. e.t = External!Current /\ e.status = "oracle_rejected"
  BY <1>2 DEF External!Row
<1>4. PICK k : k = [job EXCEPT !.records = Append(@, e)]
  OBVIOUS
<1>5. job' = k /\ UNCHANGED <<files, written>> /\ External!Scoring
  BY <1>2, <1>4 DEF External!LabelRejected
<1>6. RunsOn(k, files)
  BY <1>3, <1>4, <1>5, PassedOver
<1>7. External!NothingAskedUnapproved'
  BY AskedApproved DEF External!LabelRejected
<1> QED BY <1>5, <1>6, <1>7, AskedStep

-----------------------------------------------------------------------------
(* A labelled transition is scored or rejected, and remembered.            *)
LEMMA Labelled ==
  ASSUME ExternalInv, External!Scoring, External!Current.use = "accuracy-bearing",
         NEW reasons, reasons = External!Reasons(External!Current, job.v9, job.jar, job.seen),
         NEW actual \in BinaryLabels, NEW predicted \in BinaryLabels,
         NEW e, e.t = External!Current, e.actual = actual,
         reasons = {} => e.status = "scored" /\ e.predicted = predicted,
         reasons # {} => e.status = "rejected_overlap",
         NEW k, k = [job EXCEPT !.seen = @ \cup {External!Fingerprint(External!Current, job.jar)},
                       !.metrics = IF reasons = {} THEN External!Counted(@, External!Current, actual, predicted)
                                   ELSE @,
                       !.records = Append(@, e)]
  PROVE  RunsOn(k, files)
<1> DEFINE rs == job.records
           m == job.manifest
           t == External!Current
           n == Len(rs) + 1
           fp == External!Fingerprint(t, job.jar)
           new == Append(rs, e)
           seen == job.seen \cup {fp}
           counted == IF reasons = {} THEN External!Counted(job.metrics, t, actual, predicted) ELSE job.metrics
<1>1. /\ job.pc = "score" /\ RunsOn(job, files) /\ Scores(job)
      /\ External!ParsedManifest(m) /\ External!LoadedCorpus(job.v9)
      /\ Len(rs) \in Nat /\ Len(m.transitions) \in Nat /\ Len(rs) < Len(m.transitions)
      /\ n \in DOMAIN m.transitions
  BY AtTransition
<1>2. t = m.transitions[n]
  BY DEF External!Current
<1>3. /\ External!IsSequence(rs) /\ SoundRows(rs, m, job.v9, job.jar)
      /\ job.seen \subseteq External!SeenBefore(m.transitions, job.jar, n)
      /\ \A i \in RowsOf(rs, "scored") : External!Fingerprint(rs[i].t, job.jar) \in job.seen
      /\ job.metrics = MetricsOf(rs)
  BY <1>1 DEF Scores, SoundRows
<1>4. ASSUME reasons = {} PROVE AwayFrom(t, job.v9) /\ fp \notin job.seen
  <2>1. PICK sole \in External!TrainingJars(job.v9) : External!TrainingJars(job.v9) = {sole}
    BY <1>1 DEF Scores
  <2>2. t.pair \in DOMAIN PairStructural
    BY <1>1, <1>2 DEF External!ParsedManifest
  <2> QED BY <1>1, <1>4, <2>1, <2>2, NoReasonIsAway
<1>5. RowIs(e, m.transitions[n], job.v9)
  BY <1>2, <1>4 DEF RowIs, Statuses
<1>6. e.status = "scored" =>
        \A i \in RowsOf(rs, "scored") : <<rs[i].t.pair, rs[i].t.policy>> # <<e.t.pair, e.t.policy>>
  BY <1>3, <1>4 DEF External!Fingerprint
<1>7. e.status = "rejected_overlap" =>
        External!Reasons(m.transitions[n], job.v9, job.jar, External!SeenBefore(m.transitions, job.jar, n)) # {}
  <2> SUFFICES ASSUME reasons # {}
               PROVE  External!Reasons(t, job.v9, job.jar, External!SeenBefore(m.transitions, job.jar, n)) # {}
    BY <1>2
  <2> QED BY <1>3, ReasonsGrow
<1>8. SoundRows(new, m, job.v9, job.jar)
  BY <1>1, <1>3, <1>5, <1>6, <1>7, OneMoreRow
<1>9. counted = MetricsOf(new)
  <2>1. CASE reasons = {}
    <3>1. MetricsOf(new) = External!Counted(MetricsOf(rs), e.t, e.actual, e.predicted)
      BY <1>3, <2>1, MetricsCounted
    <3> QED BY <1>3, <2>1, <3>1
  <2>2. CASE reasons # {}
    <3>1. MetricsOf(new) = MetricsOf(rs)
      BY <1>3, <2>2, MetricsKept
    <3> QED BY <1>3, <2>2, <3>1
  <2> QED BY <2>1, <2>2
<1>10. /\ Len(new) = n /\ new[n] = e
       /\ \A i \in RowsOf(new, "scored") : i = n \/ (i \in RowsOf(rs, "scored") /\ new[i] = rs[i])
  <2>1. Len(new) = n /\ new[n] = e
    BY <1>3, AppendRow
  <2>2. RowsOf(new, "scored") \subseteq RowsOf(rs, "scored") \cup {n}
    BY <1>3, ScoredAfter
  <2>3. \A i \in RowsOf(rs, "scored") : new[i] = rs[i]
    BY <1>3, ScoredAfter
  <2> HIDE DEF new, n
  <2> QED BY <2>1, <2>2, <2>3
<1>11. \A i \in RowsOf(new, "scored") : External!Fingerprint(new[i].t, job.jar) \in seen
  BY <1>3, <1>10
<1>12. seen \subseteq External!SeenBefore(m.transitions, job.jar, n + 1)
  <2>1. \A i \in 1..(n - 1) : i \in 1..(n + 1 - 1)
    BY <1>1
  <2>2. n \in 1..(n + 1 - 1)
    BY <1>1
  <2> HIDE DEF n
  <2> QED BY <1>2, <1>3, <2>1, <2>2 DEF External!SeenBefore
<1> HIDE DEF new, seen, counted
<1>13. /\ k.command = job.command /\ k.manifest = m /\ k.v9 = job.v9 /\ k.pc = job.pc
       /\ k.hashed = job.hashed /\ k.model = job.model /\ k.scorer = job.scorer /\ k.jar = job.jar
       /\ k.packs = job.packs /\ k.records = new /\ k.seen = seen /\ k.metrics = counted
       /\ k = [command |-> k.command, manifest |-> k.manifest, v9 |-> k.v9, pc |-> k.pc,
               hashed |-> k.hashed, model |-> k.model, scorer |-> k.scorer, jar |-> k.jar,
               packs |-> k.packs, records |-> k.records, seen |-> k.seen, metrics |-> k.metrics]
  <2>1. k = [job EXCEPT !.seen = seen, !.metrics = counted, !.records = new]
    BY DEF new, seen, counted
  <2> QED BY <1>1, <2>1 DEF Scores
<1> HIDE DEF m, t, n, fp, rs
<1>14. Scores(k)
  <2>1. Approved(k)
    BY <1>1, <1>13 DEF Scores, Approved
  <2>2. \E x \in External!TrainingJars(k.v9) : External!TrainingJars(k.v9) = {x}
    BY <1>1, <1>13 DEF Scores
  <2>3. SoundRows(k.records, k.manifest, k.v9, k.jar)
    BY <1>8, <1>13
  <2>4. k.seen \subseteq External!SeenBefore(k.manifest.transitions, k.jar, Len(k.records) + 1)
    BY <1>10, <1>12, <1>13
  <2>5. \A i \in RowsOf(k.records, "scored") : External!Fingerprint(k.records[i].t, k.jar) \in k.seen
    BY <1>11, <1>13
  <2>6. k.metrics = MetricsOf(k.records)
    BY <1>9, <1>13
  <2> QED BY <1>13, <2>1, <2>2, <2>3, <2>4, <2>5, <2>6 DEF Scores
<1> QED
  BY <1>1, <1>13, <1>14 DEF RunsOn, m

LEMMA ExternalLabelStep == ASSUME ExternalInv, External!Label PROVE ExternalInv'
<1> DEFINE t == External!Current
<1>1. PICK reasons : reasons = External!Reasons(t, job.v9, job.jar, job.seen)
  OBVIOUS
<1>2. /\ External!Scoring /\ t.use = "accuracy-bearing" /\ External!Ask /\ UNCHANGED <<files, written>>
  BY DEF External!Label
<1>3. PICK actual \in BinaryLabels, predicted \in BinaryLabels :
        job' = [job EXCEPT
          !.seen = @ \cup {External!Fingerprint(t, job.jar)},
          !.metrics = IF reasons = {} THEN External!Counted(@, t, actual, predicted) ELSE @,
          !.records = Append(@, IF reasons = {} THEN External!Row(t, "scored", {}, actual, predicted)
                                ELSE External!Row(t, "rejected_overlap", reasons, actual, None))]
  BY <1>1 DEF External!Label
<1>4. PICK e : e = IF reasons = {} THEN External!Row(t, "scored", {}, actual, predicted)
                   ELSE External!Row(t, "rejected_overlap", reasons, actual, None)
  OBVIOUS
<1>5. /\ e.t = t /\ e.actual = actual
      /\ reasons = {} => e.status = "scored" /\ e.predicted = predicted
      /\ reasons # {} => e.status = "rejected_overlap"
  BY <1>4 DEF External!Row
<1>6. PICK k : k = [job EXCEPT !.seen = @ \cup {External!Fingerprint(t, job.jar)},
                      !.metrics = IF reasons = {} THEN External!Counted(@, t, actual, predicted) ELSE @,
                      !.records = Append(@, e)]
  OBVIOUS
<1>7. job' = k
  BY <1>3, <1>4, <1>6
<1>8. RunsOn(k, files)
  BY <1>1, <1>2, <1>5, <1>6, Labelled
<1>9. External!NothingAskedUnapproved'
  BY <1>2, AskedApproved
<1> QED
  BY <1>2, <1>7, <1>8, <1>9, AskedStep

-----------------------------------------------------------------------------
LEMMA PublishStep ==
  ASSUME ExternalInv, NEW r, GoodReport(r), External!Publish(r)
  PROVE  ExternalInv'
<1>1. files' = files /\ job' = None /\ written' = written \cup {r} /\ asked' = asked
  BY DEF External!Publish
<1>2. \A q \in written' : GoodReport(q)
  BY <1>1 DEF ExternalInv
<1>3. External!NothingAskedUnapproved'
  BY <1>1 DEF ExternalInv, External!NothingAskedUnapproved
<1> QED BY <1>1, <1>2, <1>3 DEF ExternalInv

LEMMA EvaluatedStep == ASSUME ExternalInv, External!Evaluated PROVE ExternalInv'
<1>1. job # None /\ job.pc = "score"
  BY DEF External!Evaluated, External!At
<1>2. RunsOn(job, files) /\ Scores(job)
  BY <1>1 DEF ExternalInv, RunsOn
<1>3. PICK used : used = [v9 |-> job.v9, model |-> job.scorer]
  OBVIOUS
<1>4. PICK a, b, c, d, e : /\ a = Cardinality(RowsOf(job.records, "scored"))
                           /\ b = Cardinality(RowsOf(job.records, "excluded_traceability"))
                           /\ c = Cardinality(RowsOf(job.records, "excluded_manifest_overlap"))
                           /\ d = Cardinality(RowsOf(job.records, "oracle_rejected"))
                           /\ e = Cardinality(RowsOf(job.records, "rejected_overlap"))
  OBVIOUS
<1>5. /\ External!Rows("scored") = a /\ External!Rows("excluded_traceability") = b
      /\ External!Rows("excluded_manifest_overlap") = c /\ External!Rows("oracle_rejected") = d
      /\ External!Rows("rejected_overlap") = e
  BY <1>4, ExternalCountsAsHere DEF External!Rows, RowsOf
<1>6. PICK r : r = [kind |-> "evaluation", manifest |-> job.manifest, v9 |-> job.hashed, model |-> job.model,
                    jar |-> job.jar, packs |-> job.packs, total |-> Len(job.records),
                    scored |-> a, traceability |-> b, overlapExcluded |-> c, rejected |-> d,
                    overlap |-> e, metrics |-> job.metrics, records |-> job.records, used |-> used]
  OBVIOUS
<1>7. External!Publish(r)
  <2>1. External!EvaluationReport = r
    BY <1>3, <1>5, <1>6 DEF External!EvaluationReport
  <2> QED BY <2>1 DEF External!Evaluated
<1>8. /\ r.kind = "evaluation" /\ r.manifest = job.manifest /\ r.v9 = job.hashed /\ r.jar = job.jar
      /\ r.total = Len(job.records) /\ r.scored = a /\ r.traceability = b /\ r.overlapExcluded = c
      /\ r.rejected = d /\ r.overlap = e /\ r.metrics = job.metrics /\ r.records = job.records
  BY <1>6
<1>9. job.manifest \in Versions["manifest"] /\ job.hashed = job.v9 /\ job.v9 \in Versions["v9"]
  BY <1>1, <1>2, InputsOnDisk DEF RunsOn
<1>10. GoodEvaluation(r)
  BY <1>2, <1>4, <1>8, <1>9 DEF GoodEvaluation, Scores
<1>11. GoodReport(r)
  BY <1>8, <1>10 DEF GoodReport
<1> QED BY <1>7, <1>11, PublishStep

LEMMA PreflightedStep == ASSUME ExternalInv, External!Preflighted PROVE ExternalInv'
<1>1. PICK r : r = External!PreflightReport(job.manifest, job.v9, files["v9"], files["jar"], files["packs"])
  OBVIOUS
<1>2. job # None /\ job.pc = "report" /\ External!Publish(r)
  BY <1>1 DEF External!Preflighted, External!At
<1>3. job.manifest \in Versions["manifest"] /\ job.v9 = files["v9"]
  BY <1>2 DEF ExternalInv, RunsOn
<1>4. r # None
  BY <1>2 DEF External!Publish
<1>5. GoodReport(r)
  BY <1>1, <1>3, <1>4, InputsOnDisk DEF GoodReport
<1> QED BY <1>2, <1>5, PublishStep

LEMMA DiagnosedStep == ASSUME ExternalInv, External!Diagnosed PROVE ExternalInv'
<1>1. PICK id \in RecordIds : External!Publish(External!DiagnosticReport(job.manifest, job.v9, id, Limit))
  BY DEF External!Diagnosed
<1>2. PICK r : r = External!DiagnosticReport(job.manifest, job.v9, id, Limit)
  OBVIOUS
<1>3. job # None /\ job.pc = "report"
  BY DEF External!Diagnosed, External!At
<1>4. job.manifest \in Versions["manifest"] /\ job.v9 = files["v9"]
  BY <1>3 DEF ExternalInv, RunsOn
<1>5. r # None
  BY <1>1, <1>2 DEF External!Publish
<1>6. GoodReport(r)
  BY <1>2, <1>4, <1>5, InputsOnDisk DEF GoodReport
<1> QED BY <1>1, <1>2, <1>6, PublishStep

(* Files are replaced between two commands.                                *)
LEMMA SwapStep == ASSUME ExternalInv, External!Swap, ~SwapWhileRead PROVE ExternalInv'
<1>1. PICK p \in External!Inputs : \E c \in Versions[p] : files' = [files EXCEPT ![p] = c]
  BY DEF External!Swap
<1>2. job = None /\ job' = job /\ written' = written /\ asked' = asked
  BY DEF External!Swap
<1>3. /\ files' = [q \in External!Inputs |-> files'[q]]
      /\ \A q \in External!Inputs : files'[q] \in Versions[q]
  BY <1>1 DEF ExternalInv
<1>4. External!NothingAskedUnapproved'
  BY <1>2 DEF ExternalInv, External!NothingAskedUnapproved
<1> QED BY <1>2, <1>3, <1>4 DEF ExternalInv

LEMMA ExternalStart == External!Init => ExternalInv
<1> SUFFICES ASSUME External!Init PROVE ExternalInv
  OBVIOUS
<1>1. files = First /\ job = None /\ written = {} /\ asked = {}
  BY DEF External!Init
<1>2. /\ files = [p \in External!Inputs |-> files[p]]
      /\ \A p \in External!Inputs : files[p] \in Versions[p]
  BY <1>1, CommandsAssumption DEF External!EvaluationAssumption
<1> QED BY <1>1, <1>2 DEF ExternalInv, External!NothingAskedUnapproved

LEMMA ExternalNext == ASSUME ExternalInv, External!Next, ~SwapWhileRead PROVE ExternalInv'
<1>1. CASE External!Finished
  <2>1. job' = job /\ (job # None => RunsOn(job, files)) /\ UNCHANGED <<files, written, asked>>
    BY <1>1 DEF External!Finished, External!vars, ExternalInv
  <2> QED BY <2>1, JobStep
<1> QED
  BY <1>1, BeginStep, AbandonStep, ReadManifestStep, LoadDatasetStep, HashInputsStep, VerifyInputsStep,
     ExcludeStep, LabelRejectedStep, ExternalLabelStep, EvaluatedStep, PreflightedStep, DiagnosedStep,
     SwapStep DEF External!Next

LEMMA ExternalInvariant == ~SwapWhileRead => (EvaluationSpec => [](component = "external" => ExternalInv))
<1> SUFFICES ASSUME ~SwapWhileRead PROVE EvaluationSpec => [](component = "external" => ExternalInv)
  OBVIOUS
<1> DEFINE I == component = "external" => ExternalInv
<1>1. EvaluationInit => I
  BY ExternalStart DEF EvaluationInit
<1>2. I /\ [EvaluationNext]_evaluation_vars => I'
  <2>1. SUFFICES ASSUME I, [EvaluationNext]_evaluation_vars, component' = "external"
                 PROVE  ExternalInv'
    OBVIOUS
  <2>2. CASE component = "external" /\ External!Next
    BY <2>1, <2>2, ExternalNext
  <2>3. CASE UNCHANGED evaluation_vars
    <3>1. component = "external" /\ job' = job /\ UNCHANGED <<files, written, asked>>
      BY <2>1, <2>3 DEF evaluation_vars
    <3>2. ExternalInv /\ (job # None => RunsOn(job, files))
      BY <2>1, <3>1 DEF ExternalInv
    <3> QED BY <3>1, <3>2, JobStep
  <2>4. CASE component = "track" /\ UNCHANGED component
    BY <2>1, <2>4
  <2>5. CASE component = "experiment" /\ UNCHANGED component
    BY <2>1, <2>5
  <2> QED BY <2>1, <2>2, <2>3, <2>4, <2>5 DEF EvaluationNext
<1> QED
  BY <1>1, <1>2, PTL DEF EvaluationSpec

(* As long as nobody replaces what a command is reading: what is scored is *)
(* isolated from V9 and asked of the approved JAR, the matrices of a       *)
(* report count its scored rows, a preflight that passed is borne out, and *)
(* a diagnosis is that of the preflight.                                   *)
THEOREM ScoresIsolated == ~SwapWhileRead => (EvaluationSpec => []ExternalScoresAreIsolated)
<1> SUFFICES ASSUME ~SwapWhileRead PROVE EvaluationSpec => []ExternalScoresAreIsolated
  OBVIOUS
<1>1. ASSUME component = "external" => ExternalInv PROVE ExternalScoresAreIsolated
  <2> SUFFICES ASSUME ExternalInv
               PROVE  /\ External!ScoredAreIsolated /\ External!NothingAskedUnapproved
                      /\ External!MetricsAreOfScored
                      /\ External!PreflightPredicts /\ External!DiagnosisAgrees
    BY <1>1 DEF ExternalScoresAreIsolated
  <2>1. (\A r \in written : GoodReport(r)) /\ External!NothingAskedUnapproved
    BY DEF ExternalInv
  <2> QED BY <2>1, ScoredRowsAreIsolated, MetricsCountTheScored, PreflightIsBorneOut, DiagnosisIsThePreflights
<1> QED
  BY <1>1, ExternalInvariant, PTL

=============================================================================
