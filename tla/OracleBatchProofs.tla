------------------------- MODULE OracleBatchProofs -------------------------
(***************************************************************************)
(* For any number of policies and workers, any outcome of each call and    *)
(* any order in which the threads end: a batch returns what a loop over    *)
(* the policies would.                                                     *)
(***************************************************************************)
EXTENDS OracleBatch, FiniteSetTheorems, SequenceTheorems, TLAPS

(* What is collected is a prefix of the answers in declared order, and an  *)
(* error is that of the policy after it.                                   *)
Prefix ==
  /\ Len(ordered) <= NumPolicies
  /\ \A p \in 1..Len(ordered) : oracle[p] \in Labels /\ ordered[p] = oracle[p]
  /\ error # 0 => error = Len(ordered) + 1 /\ oracle[error] \notin Labels

(* Threads run in the current chunk and in its scope only.                 *)
Scope ==
  /\ Running \subseteq Chunk
  /\ phase \in {"chunk", "returned", "panicked"} => Running = {}

(* A chunk starts where the collection stands, its joins go on from there, *)
(* and a batch returns an error or everything.                             *)
Progress ==
  /\ phase \in {"chunk", "join", "drain"} => from <= NumPolicies
  /\ phase = "chunk" => from = Len(ordered) + 1 /\ error = 0
  /\ phase = "join" => Len(ordered) + 1 \in Chunk /\ error = 0
  /\ phase = "returned" => error # 0 \/ Len(ordered) = NumPolicies

BatchInv == TypeOK /\ Prefix /\ Scope /\ Progress

-----------------------------------------------------------------------------
(* A chunk has no more policies than there are workers.                    *)
LEMMA ChunkIsBounded ==
  ASSUME TypeOK
  PROVE  /\ Chunk \subseteq Policies
         /\ IsFiniteSet(Chunk) /\ Cardinality(Chunk) \in Nat /\ Cardinality(Chunk) <= workers
<1> DEFINE last == MinOf(from + MinOf(workers, NumPolicies) - 1, NumPolicies)
<1>1. /\ workers \in Nat \ {0} /\ from \in Nat \ {0} /\ NumPolicies \in Nat \ {0}
      /\ last \in Int /\ last <= NumPolicies /\ last - from + 1 <= workers
  BY BatchAssumption DEF TypeOK, MinOf
<1>2. Chunk = from..last
  BY DEF Chunk
<1> HIDE DEF last
<1>3. IsFiniteSet(Chunk) /\ Cardinality(Chunk) = IF from > last THEN 0 ELSE last - from + 1
  BY <1>1, <1>2, FS_Interval
<1>4. Chunk \subseteq Policies
  BY <1>1, <1>2 DEF Policies
<1> QED
  BY <1>1, <1>3, <1>4

(* A label that is collected extends the prefix.                           *)
LEMMA CollectKeepsPrefix ==
  ASSUME TypeOK, Prefix, NEW p \in Policies, p = Len(ordered) + 1, error = 0, error' = 0,
         oracle[p] \in Labels, oracle' = oracle, ordered' = Append(ordered, oracle[p])
  PROVE  Prefix' /\ ordered' \in Seq(Labels) /\ Len(ordered') = p
<1>1. /\ ordered' \in Seq(Labels) /\ Len(ordered') = Len(ordered) + 1
      /\ \A q \in 1..Len(ordered) : ordered'[q] = ordered[q]
      /\ ordered'[Len(ordered) + 1] = oracle[p]
  BY AppendProperties DEF TypeOK
<1>2. Len(ordered) \in Nat /\ p <= NumPolicies
  BY BatchAssumption DEF TypeOK, Policies
<1>3. ASSUME NEW q \in 1..Len(ordered')
      PROVE  oracle[q] \in Labels /\ ordered'[q] = oracle[q]
  <2>1. q \in 1..Len(ordered) \/ q = p
    BY <1>1, <1>2
  <2> QED BY <1>1, <2>1 DEF Prefix
<1> QED
  BY <1>1, <1>2, <1>3 DEF Prefix

LEMMA TurnKeepsInv ==
  ASSUME BatchInv, CallInTurn
  PROVE  BatchInv'
<1> USE BatchAssumption DEF BatchInv
<1>1. /\ from \in Policies /\ from = Len(ordered) + 1 /\ error = 0 /\ Running = {}
      /\ UNCHANGED <<workers, oracle>>
  BY DEF CallInTurn, Scope, Progress, TypeOK, Policies
<1>2. /\ thread' \in [Policies -> {"none", "running", "ended"}]
      /\ Running' = {}
  BY <1>1 DEF CallInTurn, TypeOK, Running
<1>3. CASE oracle[from] \in Labels
  <2>1. /\ ordered' = Append(ordered, oracle[from]) /\ error' = error /\ from' = from + 1
        /\ phase' = IF from = NumPolicies THEN "returned" ELSE "chunk"
    BY <1>3 DEF CallInTurn
  <2>2. Prefix' /\ ordered' \in Seq(Labels) /\ Len(ordered') = from
    BY <1>1, <1>3, <2>1, CollectKeepsPrefix
  <2>3. TypeOK'
    BY <1>1, <1>2, <2>1, <2>2 DEF TypeOK, Policies
  <2>4. Scope' /\ Progress'
    BY <1>1, <1>2, <2>1, <2>2 DEF Scope, Progress, Policies
  <2> QED BY <2>2, <2>3, <2>4
<1>4. CASE oracle[from] \notin Labels
  <2>1. /\ phase' \in {"returned", "panicked"} /\ error' = from /\ UNCHANGED <<from, ordered>>
    BY <1>4 DEF CallInTurn
  <2>2. TypeOK'
    BY <1>1, <1>2, <2>1 DEF TypeOK, Policies
  <2>3. Prefix'
    BY <1>1, <1>4, <2>1 DEF Prefix
  <2>4. Scope' /\ Progress'
    BY <1>1, <1>2, <2>1 DEF Scope, Progress, Policies
  <2> QED BY <2>2, <2>3, <2>4
<1> QED
  BY <1>3, <1>4

LEMMA ThreadsKeepInv ==
  ASSUME BatchInv, SpawnChunk \/ \E p \in Policies : End(p)
  PROVE  BatchInv'
<1> USE BatchAssumption DEF BatchInv
<1>1. CASE SpawnChunk
  <2>1. /\ UNCHANGED <<workers, oracle, from, ordered, error>> /\ phase = "chunk" /\ phase' = "join"
        /\ Chunk' = Chunk
    BY <1>1 DEF SpawnChunk, Chunk
  <2>2. TypeOK'
    BY <1>1, <2>1 DEF SpawnChunk, TypeOK
  <2>3. Scope'
    BY <1>1, <2>1 DEF SpawnChunk, Scope, Running
  <2>4. from \in Chunk
    BY <2>1 DEF Chunk, MinOf, TypeOK, Progress
  <2> QED BY <2>1, <2>2, <2>3, <2>4 DEF Prefix, Progress
<1>2. ASSUME NEW p \in Policies, End(p) PROVE BatchInv'
  <2>1. /\ UNCHANGED <<workers, oracle, phase, from, ordered, error>>
        /\ Chunk' = Chunk /\ Running' \subseteq Running
    BY <1>2 DEF End, Chunk, Running, TypeOK
  <2>2. TypeOK'
    BY <1>2, <2>1 DEF End, TypeOK
  <2> QED BY <2>1, <2>2 DEF Prefix, Scope, Progress
<1> QED
  BY <1>1, <1>2

LEMMA JoinKeepsInv ==
  ASSUME BatchInv, JoinNext
  PROVE  BatchInv'
<1> USE BatchAssumption DEF BatchInv
<1> DEFINE p == Len(ordered) + 1
<1>1. /\ p \in Chunk /\ p \in Policies /\ error = 0
      /\ phase' \in {"join", "drain"} /\ phase = "join"
      /\ UNCHANGED <<workers, oracle, from, thread>> /\ Chunk' = Chunk /\ Running' = Running
  BY ChunkIsBounded DEF JoinNext, Progress, Chunk, Running
<1>2. Scope'
  BY <1>1 DEF Scope
<1>3. CASE oracle[p] \in Labels
  <2>1. /\ ordered' = Append(ordered, oracle[p]) /\ error' = error
        /\ phase' = IF p + 1 \in Chunk THEN "join" ELSE "drain"
    BY <1>3 DEF JoinNext
  <2>2. Prefix' /\ ordered' \in Seq(Labels) /\ Len(ordered') = p
    BY <1>1, <1>3, <2>1, CollectKeepsPrefix
  <2>3. TypeOK'
    BY <1>1, <2>1, <2>2 DEF TypeOK
  <2>4. Progress'
    BY <1>1, <2>1, <2>2 DEF Progress
  <2> QED BY <1>2, <2>2, <2>3, <2>4
<1>4. CASE oracle[p] \notin Labels
  <2>1. error' = p /\ phase' = "drain" /\ ordered' = ordered
    BY <1>4 DEF JoinNext
  <2>2. TypeOK'
    BY <1>1, <2>1 DEF TypeOK, Policies
  <2>3. Prefix'
    BY <1>1, <1>4, <2>1 DEF Prefix
  <2>4. Progress'
    BY <1>1, <2>1 DEF Progress
  <2> QED BY <1>2, <2>2, <2>3, <2>4
<1> QED
  BY <1>3, <1>4

LEMMA LeaveKeepsInv ==
  ASSUME BatchInv, LeaveScope
  PROVE  BatchInv'
<1> USE BatchAssumption DEF BatchInv
<1>1. /\ phase = "drain" /\ Running = {} /\ Running' = {}
      /\ UNCHANGED <<workers, oracle, thread, ordered, error>>
  BY DEF LeaveScope, Running
<1>2. Len(ordered) \in Nat /\ Len(ordered) <= NumPolicies
  BY DEF Prefix, TypeOK
<1>3. \/ phase' = "panicked" /\ from' = from
      \/ phase' = "returned" /\ from' = from /\ (error # 0 \/ Len(ordered) = NumPolicies)
      \/ /\ phase' = "chunk" /\ from' = Len(ordered) + 1
         /\ error = 0 /\ Len(ordered) # NumPolicies
  BY DEF LeaveScope
<1>4. TypeOK'
  BY <1>1, <1>2, <1>3 DEF TypeOK
<1>5. Prefix' /\ Scope' /\ Progress'
  BY <1>1, <1>2, <1>3 DEF Prefix, Scope, Progress
<1> QED
  BY <1>4, <1>5

(* The strengthening is inductive.                                         *)
LEMMA BatchInductive == Spec => []BatchInv
<1>1. Init => BatchInv
  <2> SUFFICES ASSUME Init PROVE BatchInv
    OBVIOUS
  <2>1. TypeOK /\ Running = {} /\ Len(ordered) = 0
    BY BatchAssumption DEF Init, TypeOK, Running
  <2> QED BY <2>1, BatchAssumption DEF Init, BatchInv, Prefix, Scope, Progress
<1>2. BatchInv /\ [Next]_vars => BatchInv'
  <2> SUFFICES ASSUME BatchInv, [Next]_vars PROVE BatchInv'
    OBVIOUS
  <2>1. CASE UNCHANGED vars
    <3>1. Running' = Running /\ Chunk' = Chunk
      BY <2>1 DEF vars, Running, Chunk
    <3> QED BY <2>1, <3>1 DEF vars, BatchInv, TypeOK, Prefix, Scope, Progress
  <2> QED
    BY <2>1, TurnKeepsInv, ThreadsKeepInv, JoinKeepsInv, LeaveKeepsInv DEF Next, Over
<1> QED
  BY <1>1, <1>2, PTL DEF Spec

-----------------------------------------------------------------------------
(* The first failure ends a loop.                                          *)
LEMMA ErrorIsFirst ==
  ASSUME BatchInv, error # 0
  PROVE  error \in Failing /\ error = FirstFailing
<1>1. /\ error \in Policies /\ error = Len(ordered) + 1 /\ Len(ordered) \in Nat
      /\ oracle[error] \notin Labels
  BY BatchAssumption DEF BatchInv, TypeOK, Prefix, Policies
<1>2. ASSUME NEW q \in Failing PROVE error <= q
  <2>1. q \in Nat \ {0} /\ oracle[q] \notin Labels
    BY BatchAssumption DEF Failing, Policies
  <2>2. q \notin 1..Len(ordered)
    BY <2>1 DEF BatchInv, Prefix
  <2> QED BY <1>1, <2>1, <2>2
<1>3. error \in Failing /\ Failing \subseteq Nat
  BY <1>1, BatchAssumption DEF Failing, Policies
<1>4. \A p \in Failing : (\A q \in Failing : p <= q) => p = error
  BY <1>2, <1>3
<1> QED
  BY <1>2, <1>3, <1>4 DEF FirstFailing

(* A batch returns the runs in declared order or the error of the first    *)
(* policy that failed, whatever the workers, and runs no more JAR          *)
(* processes at once than it was given.                                    *)
THEOREM BatchIsALoop == Spec => []BatchSound
<1>1. BatchInv => BatchSound
  <2> SUFFICES ASSUME BatchInv PROVE BatchSound
    OBVIOUS
  <2>1. SameAsSerial
    <3> SUFFICES ASSUME phase = "returned"
                 PROVE  IF Failing = {} THEN error = 0 /\ ordered = [p \in Policies |-> oracle[p]]
                        ELSE error = FirstFailing
      BY DEF SameAsSerial
    <3>1. CASE error # 0
      BY <3>1, ErrorIsFirst
    <3>2. CASE error = 0
      <4>1. Len(ordered) = NumPolicies /\ DOMAIN ordered = Policies
        BY <3>2 DEF BatchInv, Progress, TypeOK, Policies
      <4>2. \A p \in Policies : oracle[p] \in Labels /\ ordered[p] = oracle[p]
        BY <4>1 DEF BatchInv, Prefix, Policies
      <4>3. ordered = [p \in Policies |-> oracle[p]]
        BY <4>1, <4>2 DEF BatchInv, TypeOK
      <4> QED BY <3>2, <4>2, <4>3 DEF Failing
    <3> QED BY <3>1, <3>2
  <2>2. WorkersBounded
    <3>1. Cardinality(Running) <= Cardinality(Chunk) /\ Cardinality(Running) \in Nat
      BY ChunkIsBounded, FS_Subset, FS_CardinalityType DEF BatchInv, Scope
    <3>2. Cardinality(Running) <= workers
      BY <3>1, ChunkIsBounded, BatchAssumption DEF BatchInv, TypeOK
    <3> QED BY <3>2 DEF WorkersBounded, BatchInv, Scope
  <2> QED BY <2>1, <2>2 DEF BatchSound, BatchInv
<1> QED
  BY <1>1, BatchInductive, PTL

=============================================================================
