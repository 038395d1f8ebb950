----------------------- MODULE ConformancePoolProofs -----------------------
(***************************************************************************)
(* For any number of jobs, calls and workers: the matrix a pool returns    *)
(* is exact, its steps are those of the abstract matrix, and a sample      *)
(* admits whole families only, in their order.                             *)
(***************************************************************************)
EXTENDS ConformancePool, FiniteSetTheorems, WellFoundedInduction, TLAPS

(* A worker between taking a job and publishing or giving it up.           *)
Holds(w) == pc[w] \in {"call", "store", "publish"}

(* What a worker holds is a job, and while it is calling or has just been  *)
(* refused, there was a call left to make.                                 *)
LocalRuns ==
  \A w \in Workers :
    /\ Holds(w) => job[w] \in Jobs
    /\ pc[w] \in {"call", "store"} => answered[w] < NumCalls
    /\ pc[w] = "publish" => answered[w] = NumCalls

LEMMA AdmittedAreJobs ==
  ASSUME TypeOK
  PROVE  Admitted(accepted) \subseteq Jobs
<1>1. accepted \subseteq Jobs
  BY PoolAssumption DEF TypeOK, Jobs
<1>2. FirstFamilies(Complete(accepted)) \subseteq Complete(accepted)
  BY DEF FirstFamilies
<1>3. Complete(accepted) \subseteq Jobs
  BY <1>1 DEF Complete
<1> QED
  BY <1>1, <1>2, <1>3 DEF Admitted

(* One step of a worker keeps the types, given its local state.            *)
LEMMA WorkTyping ==
  ASSUME TypeOK, LocalRuns, NEW w \in Workers, Work(w)
  PROVE  TypeOK' /\ LocalRuns'
<1> USE PoolAssumption DEF TypeOK, LocalRuns, Holds
<1>0. UNCHANGED <<builder, phase, checked, accepted, admitted>>
  BY DEF Work
<1>1. CASE Look(w)
  BY <1>0, <1>1 DEF Look
<1>2. CASE Claim(w)
  <2>1. PICK j \in admitted : job' = [job EXCEPT ![w] = j]
    BY <1>2 DEF Claim
  <2>2. j \in Jobs
    BY <2>1
  <2> QED BY <1>0, <1>2, <2>1, <2>2 DEF Claim
<1>3. CASE NoneLeft(w)
  BY <1>0, <1>3 DEF NoneLeft
<1>4. CASE Answer(w)
  <2>1. answered[w] + 1 \in Calls /\ answered[w] + 1 \in 0..NumCalls /\ job[w] \in Jobs
    BY <1>4 DEF Answer, Calls
  <2>2. <<job[w], answered[w] + 1>> \in Jobs \X Calls
    BY <2>1
  <2>3. made' \in SUBSET (Jobs \X Calls) /\ refused' \in SUBSET made'
    BY <1>4, <2>2 DEF Answer
  <2>4. LocalRuns'
    BY <1>4, <2>1 DEF Answer
  <2> QED BY <1>0, <1>4, <2>1, <2>3, <2>4 DEF Answer
<1>5. CASE Refuse(w)
  <2>1. answered[w] + 1 \in Calls /\ job[w] \in Jobs
    BY <1>5 DEF Refuse, Calls
  <2>2. <<job[w], answered[w] + 1>> \in Jobs \X Calls
    BY <2>1
  <2>3. made' \in SUBSET (Jobs \X Calls) /\ refused' \in SUBSET made'
    BY <1>5, <2>2 DEF Refuse
  <2>4. LocalRuns'
    BY <1>5, <2>1 DEF Refuse
  <2> QED BY <1>0, <1>5, <2>3, <2>4 DEF Refuse
<1>6. CASE Store(w)
  <2>1. answered[w] + 1 \in Calls /\ job[w] \in Jobs
    BY <1>6 DEF Store, Calls
  <2>2. <<job[w], answered[w] + 1>> \in Jobs \X Calls
    BY <2>1
  <2> QED BY <1>0, <1>6, <2>2 DEF Store
<1>7. CASE Publish(w)
  <2>1. runs' \in [Jobs -> [Calls -> Nat]]
    <3>1. [c \in Calls |-> runs[job[w]][c] + IF c <= answered[w] THEN 1 ELSE 0]
            \in [Calls -> Nat]
      BY <1>7 DEF Publish
    <3> QED BY <1>7, <3>1 DEF Publish
  <2> QED BY <1>0, <1>7, <2>1 DEF Publish
<1> QED
  BY <1>1, <1>2, <1>3, <1>4, <1>5, <1>6, <1>7 DEF Work

(* The state keeps its shape, and local runs belong to a job.              *)
LEMMA PoolTypingLocal == Spec => [](TypeOK /\ LocalRuns)
<1> USE PoolAssumption
<1>1. Init => TypeOK /\ LocalRuns
  BY DEF Init, TypeOK, LocalRuns, Holds, Jobs, Calls, Workers
<1>2. TypeOK /\ LocalRuns /\ [Next]_vars => TypeOK' /\ LocalRuns'
  <2> SUFFICES ASSUME TypeOK, LocalRuns, [Next]_vars PROVE TypeOK' /\ LocalRuns'
    OBVIOUS
  <2>1. CASE Preflight
    <3>1. checked' \in 0..NumJobs /\ accepted' \in SUBSET (1..checked')
      BY <2>1 DEF Preflight, TypeOK
    <3> QED BY <2>1, <3>1 DEF Preflight, TypeOK, LocalRuns, Holds, pool
  <2>2. CASE PreflightFails
    BY <2>2 DEF PreflightFails, TypeOK, LocalRuns, Holds, pool
  <2>3. CASE Admit
    BY <2>3, AdmittedAreJobs DEF Admit, TypeOK, LocalRuns, Holds, pool
  <2>4. ASSUME NEW w \in Workers, Work(w) PROVE TypeOK' /\ LocalRuns'
    BY <2>4, WorkTyping
  <2>5. CASE Join
    BY <2>5 DEF Join, TypeOK, LocalRuns, Holds, pool
  <2>6. CASE UNCHANGED vars
    BY <2>6 DEF vars, TypeOK, LocalRuns, Holds
  <2> QED
    BY <2>1, <2>2, <2>3, <2>4, <2>5, <2>6 DEF Next, Returned
<1> QED
  BY <1>1, <1>2, PTL DEF Spec

(* The state of a conformance build keeps its shape.                       *)
THEOREM PoolTyping == Spec => []TypeOK
  BY PoolTypingLocal, PTL

-----------------------------------------------------------------------------
(* The strengthening.  Before the pool starts nothing has happened in it.  *)
Fresh ==
  phase = "preflight" =>
    /\ pc = [w \in Workers |-> "look"]
    /\ next = 0 /\ failure = NoCall /\ refused = {}
    /\ runs = [j \in Jobs |-> [c \in Calls |-> 0]]

(* Held jobs are claimed, not yet published, and held by one worker only.  *)
Held ==
  \A w \in Workers : Holds(w) =>
    /\ job[w] \in admitted /\ IndexOf(job[w]) < next
    /\ \A c \in Calls : runs[job[w]][c] = 0
HeldOnce ==
  \A v, w \in Workers : Holds(v) /\ Holds(w) /\ job[v] = job[w] => v = w

(* The runs of a job appear all at once, and only for a claimed job.       *)
Block(j) == \A c \in Calls : runs[j][c] = 1
Blocks ==
  \A j \in Jobs :
    \/ \A c \in Calls : runs[j][c] = 0
    \/ j \in admitted /\ IndexOf(j) < next /\ Block(j)

(* A claimed job is published or held, unless a failure was stored.        *)
NoneLost ==
  \A j \in admitted : IndexOf(j) < next =>
    failure # NoCall \/ Block(j) \/ \E w \in Workers : Holds(w) /\ job[w] = j

(* A refused call is stored or about to be.                                *)
Errors == refused = {} \/ failure # NoCall \/ \E w \in Workers : pc[w] = "store"

(* Workers leave because of a failure or because no job is left.           *)
Exits ==
  \A w \in Workers :
    /\ pc[w] = "exit" => failure # NoCall \/ next >= Cardinality(admitted)
    /\ pc[w] # "look" => w \in Spawned

Finished ==
  phase = "done" => failure = NoCall /\ \A w \in Spawned : pc[w] = "exit"

PoolInv ==
  Fresh /\ Held /\ HeldOnce /\ Blocks /\ NoneLost /\ Errors /\ Exits /\ Finished

-----------------------------------------------------------------------------
(* The positions of the admitted jobs are distinct and below their number. *)
LEMMA IndexBelow ==
  ASSUME TypeOK, NEW j \in admitted
  PROVE  /\ IndexOf(j) \in Nat /\ Cardinality(admitted) \in Nat
         /\ IndexOf(j) < Cardinality(admitted)
<1> DEFINE S == {i \in admitted : i < j}
<1>1. IsFiniteSet(Jobs)
  BY PoolAssumption, FS_Interval DEF Jobs
<1>2. IsFiniteSet(admitted)
  BY <1>1, FS_Subset DEF TypeOK
<1>3. S \in SUBSET admitted /\ S # admitted
  BY PoolAssumption DEF TypeOK, Jobs
<1>4. IsFiniteSet(S) /\ Cardinality(S) <= Cardinality(admitted)
      /\ Cardinality(S) # Cardinality(admitted)
  BY <1>2, <1>3, FS_Subset
<1>5. Cardinality(S) \in Nat /\ Cardinality(admitted) \in Nat
  BY <1>2, <1>4, FS_CardinalityType
<1> QED
  BY <1>4, <1>5 DEF IndexOf

LEMMA AdmittedIsFinite ==
  ASSUME TypeOK
  PROVE  IsFiniteSet(admitted) /\ Cardinality(admitted) \in Nat
<1>1. IsFiniteSet(Jobs)
  BY PoolAssumption, FS_Interval DEF Jobs
<1> QED
  BY <1>1, FS_Subset, FS_CardinalityType DEF TypeOK

LEMMA IndexDistinct ==
  ASSUME TypeOK, NEW i \in admitted, NEW j \in admitted, i # j
  PROVE  IndexOf(i) # IndexOf(j)
<1>1. ASSUME NEW a \in admitted, NEW b \in admitted, a < b
      PROVE  IndexOf(a) # IndexOf(b)
  <2> DEFINE A == {k \in admitted : k < a}
             B == {k \in admitted : k < b}
  <2>1. admitted \subseteq Nat /\ IsFiniteSet(Jobs)
    BY PoolAssumption, FS_Interval DEF TypeOK, Jobs
  <2>2. IsFiniteSet(admitted)
    BY <2>1, FS_Subset DEF TypeOK
  <2>3. A \subseteq B /\ a \in B /\ a \notin A
    <3>1. \A k \in admitted : k \in Nat
      BY <2>1
    <3>2. \A k \in admitted : k < a => k < b
      BY <1>1, <3>1
    <3> QED BY <1>1, <3>1, <3>2
  <2>4. IsFiniteSet(B)
    BY <2>2, FS_Subset
  <2>5. Cardinality(A) # Cardinality(B)
    <3> HIDE DEF A, B
    <3> QED BY <2>3, <2>4, FS_Subset
  <2> QED BY <2>5 DEF IndexOf
<1>2. i < j \/ j < i
  BY PoolAssumption DEF TypeOK, Jobs
<1> QED
  BY <1>1, <1>2

(* A non-empty pool has a worker.                                          *)
LEMMA SomeoneSpawned ==
  ASSUME TypeOK, admitted # {}
  PROVE  Spawned # {}
<1>1. PICK j \in admitted : TRUE
  OBVIOUS
<1>2. Cardinality(admitted) >= 1
  BY IndexBelow
<1> QED
  BY <1>2, IndexBelow, PoolAssumption DEF Spawned, Workers

-----------------------------------------------------------------------------
(* Steps of the main thread before and after the pool.                     *)
LEMMA MainThreadKeepsInv ==
  ASSUME TypeOK, PoolInv, Preflight \/ PreflightFails \/ Admit \/ Join
  PROVE  PoolInv'
<1> USE PoolAssumption
<1>1. CASE Preflight
  BY <1>1 DEF Preflight, pool, PoolInv, Fresh, Held, HeldOnce, Blocks, Block, NoneLost,
              Errors, Exits, Finished, Holds, IndexOf, Spawned
<1>2. CASE PreflightFails
  BY <1>2 DEF PreflightFails, pool, PoolInv, Fresh, Held, HeldOnce, Blocks, Block, NoneLost,
              Errors, Exits, Finished, Holds, IndexOf, Spawned
<1>3. CASE Admit
  <2>1. /\ pc = [w \in Workers |-> "look"] /\ next = 0 /\ failure = NoCall /\ refused = {}
        /\ runs = [j \in Jobs |-> [c \in Calls |-> 0]]
        /\ UNCHANGED pool
    BY <1>3 DEF Admit, PoolInv, Fresh
  <2>2. TypeOK'
    BY <1>3, AdmittedAreJobs DEF Admit, TypeOK, pool
  <2>3. \A j \in admitted' : ~(IndexOf(j)' < next')
    <3> SUFFICES ASSUME NEW j \in admitted' PROVE ~(IndexOf(j)' < next')
      OBVIOUS
    <3>1. next' = 0
      BY <2>1 DEF pool
    <3>2. IsFiniteSet(admitted')
      <4>1. IsFiniteSet(Jobs)
        BY FS_Interval DEF Jobs
      <4> QED BY <2>2, <4>1, FS_Subset DEF TypeOK
    <3>3. {i \in admitted' : i < j} \in SUBSET admitted'
      OBVIOUS
    <3>4. IndexOf(j)' \in Nat
      BY <3>2, <3>3, FS_Subset, FS_CardinalityType DEF IndexOf
    <3> QED BY <3>1, <3>4
  <2>4. Finished'
    <3>1. CASE admitted' = {}
      BY <1>3, <2>1, <3>1, FS_EmptySet DEF Finished, Spawned, Workers, pool
    <3>2. CASE admitted' # {}
      BY <1>3, <3>2 DEF Admit, Finished
    <3> QED BY <3>1, <3>2
  <2>5. \A w \in Workers : pc'[w] = "look"
    BY <2>1 DEF pool
  <2>6. Held' /\ HeldOnce' /\ Exits'
    BY <2>5 DEF Held, HeldOnce, Exits, Holds
  <2>7. Blocks' /\ Errors' /\ Fresh'
    BY <1>3, <2>1 DEF Admit, Blocks, Errors, Fresh, pool
  <2>8. NoneLost'
    BY <2>3 DEF NoneLost
  <2> QED
    BY <2>4, <2>6, <2>7, <2>8 DEF PoolInv
<1>4. CASE Join
  <2>1. phase' # "preflight" /\ UNCHANGED <<admitted, next, pc, job, runs, failure, refused>>
    BY <1>4 DEF Join, pool
  <2>2. /\ Spawned' = Spawned
        /\ \A j : IndexOf(j)' = IndexOf(j) /\ Block(j)' = Block(j)
        /\ \A w \in Workers : Holds(w)' = Holds(w)
    BY <2>1 DEF Spawned, IndexOf, Block, Holds
  <2>3. Fresh' /\ Finished'
    BY <1>4, <2>1, <2>2 DEF Join, Fresh, Finished
  <2>4. Held' /\ HeldOnce'
    BY <2>1, <2>2 DEF PoolInv, Held, HeldOnce
  <2>5. Blocks' /\ NoneLost'
    BY <2>1, <2>2 DEF PoolInv, Blocks, NoneLost
  <2>6. Errors' /\ Exits'
    BY <2>1, <2>2 DEF PoolInv, Errors, Exits
  <2> QED
    BY <2>3, <2>4, <2>5, <2>6 DEF PoolInv
<1> QED
  BY <1>1, <1>2, <1>3, <1>4

(* What every step of a worker leaves alone.                               *)
LEMMA WorkFrame ==
  ASSUME TypeOK, NEW w \in Workers, Work(w)
  PROVE  /\ phase = "pool" /\ phase' = "pool" /\ w \in Spawned
         /\ admitted' = admitted /\ Spawned' = Spawned
         /\ Cardinality(admitted)' = Cardinality(admitted)
         /\ \A j : IndexOf(j)' = IndexOf(j)
         /\ \A v \in Workers : v # w => pc'[v] = pc[v] /\ job'[v] = job[v]
         /\ Fresh' /\ Finished'
<1>1. phase = "pool" /\ phase' = "pool" /\ w \in Spawned /\ admitted' = admitted
  BY DEF Work
<1>2. \A v \in Workers : v # w => pc'[v] = pc[v] /\ job'[v] = job[v]
  BY DEF Work, Look, Claim, NoneLeft, Answer, Refuse, Store, Publish, TypeOK
<1> QED
  BY <1>1, <1>2 DEF Spawned, IndexOf, Fresh, Finished

(* A worker that looks, leaves, answers, is refused or stores a failure    *)
(* neither takes a job nor publishes one.                                  *)
LEMMA QuietStepKeepsInv ==
  ASSUME TypeOK, LocalRuns, PoolInv, NEW w \in Workers, Work(w),
         Look(w) \/ NoneLeft(w) \/ Answer(w) \/ Refuse(w) \/ Store(w)
  PROVE  PoolInv'
<1> USE PoolAssumption
<1>1. /\ phase = "pool" /\ phase' = "pool" /\ w \in Spawned
      /\ admitted' = admitted /\ Spawned' = Spawned
      /\ Cardinality(admitted)' = Cardinality(admitted)
      /\ \A j : IndexOf(j)' = IndexOf(j)
      /\ \A v \in Workers : v # w => pc'[v] = pc[v] /\ job'[v] = job[v]
      /\ Fresh' /\ Finished'
  BY WorkFrame
<1>2. /\ runs' = runs /\ job' = job
      /\ next' \in Nat /\ next <= next'
      /\ failure # NoCall => failure' # NoCall
  BY DEF Look, NoneLeft, Answer, Refuse, Store, TypeOK
<1>3. /\ Holds(w)' => Holds(w)
      /\ Holds(w) => Holds(w)' \/ failure' # NoCall
  <2>1. pc'[w] \in {"look", "claim", "call", "store", "publish", "exit"}
    BY WorkTyping DEF TypeOK
  <2>2. CASE Store(w)
    <3>1. <<job[w], answered[w] + 1>> \in Jobs \X Calls
      BY <2>2 DEF Store, LocalRuns, Holds, TypeOK, Calls
    <3>2. failure' # NoCall
      BY <2>2, <3>1 DEF Store
    <3> QED BY <2>2, <3>2 DEF Store, Holds, TypeOK
  <2> QED BY <2>1, <2>2 DEF Look, NoneLeft, Answer, Refuse, Holds, TypeOK
<1>4. \A v \in Workers : /\ Holds(v)' => Holds(v)
                         /\ Holds(v) => Holds(v)' \/ failure' # NoCall
  BY <1>1, <1>3 DEF Holds
<1>5. Held'
  BY <1>1, <1>2, <1>4, IndexBelow DEF PoolInv, Held, TypeOK
<1>6. HeldOnce'
  BY <1>2, <1>4 DEF PoolInv, HeldOnce
<1>7. Blocks'
  BY <1>1, <1>2, IndexBelow DEF PoolInv, Blocks, Block, TypeOK
<1>8. NoneLost'
  <2> SUFFICES ASSUME NEW j \in admitted, IndexOf(j) < next', failure' = NoCall, ~Block(j)
               PROVE  \E v \in Workers : Holds(v)' /\ job[v] = j
    BY <1>1, <1>2 DEF NoneLost, Block
  <2>1. IndexOf(j) < next
    <3>1. CASE NoneLeft(w)
      BY <3>1, IndexBelow DEF NoneLeft, TypeOK
    <3> QED BY <3>1 DEF Look, Answer, Refuse, Store
  <2>2. PICK v \in Workers : Holds(v) /\ job[v] = j
    BY <1>2, <2>1 DEF PoolInv, NoneLost
  <2> QED BY <1>4, <2>2
<1>9. Errors'
  <2>1. CASE Refuse(w)
    BY <2>1 DEF Refuse, Errors, TypeOK
  <2>2. CASE Store(w)
    BY <1>3, <2>2 DEF Store, Errors, Holds, TypeOK
  <2>3. CASE Look(w) \/ NoneLeft(w) \/ Answer(w)
    <3>1. refused' = refused /\ failure' = failure /\ pc[w] # "store"
      BY <2>3 DEF Look, NoneLeft, Answer
    <3> QED BY <1>1, <3>1 DEF PoolInv, Errors
  <2> QED BY <2>1, <2>2, <2>3
<1>10. Exits'
  <2>1. pc'[w] = "exit" => failure' # NoCall \/ next' >= Cardinality(admitted)
    <3>1. CASE Store(w)
      BY <1>3, <3>1 DEF Store, Holds, TypeOK
    <3>2. CASE NoneLeft(w)
      BY <3>2, AdmittedIsFinite DEF NoneLeft, TypeOK
    <3> QED BY <3>1, <3>2 DEF Look, Answer, Refuse, TypeOK
  <2>2. \A v \in Workers : v # w /\ pc[v] = "exit" =>
          failure' # NoCall \/ next' >= Cardinality(admitted)
    BY <1>2, AdmittedIsFinite DEF PoolInv, Exits, TypeOK
  <2> QED BY <1>1, <2>1, <2>2 DEF PoolInv, Exits
<1> QED
  BY <1>1, <1>5, <1>6, <1>7, <1>8, <1>9, <1>10 DEF PoolInv

(* The job at the shared index is held by nobody and not yet published.    *)
LEMMA ClaimKeepsInv ==
  ASSUME TypeOK, LocalRuns, PoolInv, NEW w \in Workers, Work(w), Claim(w)
  PROVE  PoolInv'
<1> USE PoolAssumption
<1>1. /\ w \in Spawned
      /\ admitted' = admitted /\ Spawned' = Spawned
      /\ Cardinality(admitted)' = Cardinality(admitted)
      /\ \A j : IndexOf(j)' = IndexOf(j)
      /\ \A v \in Workers : v # w => pc'[v] = pc[v] /\ job'[v] = job[v]
      /\ Fresh' /\ Finished'
  BY WorkFrame
<1>2. PICK j \in admitted : IndexOf(j) = next /\ job' = [job EXCEPT ![w] = j]
  BY DEF Claim
<1>3. /\ pc[w] = "claim" /\ pc'[w] = "call" /\ job'[w] = j /\ next' = next + 1
      /\ runs' = runs /\ failure' = failure /\ refused' = refused
  BY <1>2 DEF Claim, TypeOK
<1>4. \A v \in Workers : Holds(v)' <=> Holds(v) \/ v = w
  BY <1>1, <1>3 DEF Holds
<1>5. \A c \in Calls : runs[j][c] = 0
  BY <1>2, IndexBelow DEF PoolInv, Blocks, TypeOK
<1>6. Held'
  <2> SUFFICES ASSUME NEW v \in Workers, Holds(v)'
               PROVE  /\ job'[v] \in admitted /\ IndexOf(job'[v]) < next'
                      /\ \A c \in Calls : runs[job'[v]][c] = 0
    BY <1>1, <1>3 DEF Held, IndexOf
  <2>1. CASE v = w
    BY <1>2, <1>3, <1>5, <2>1, IndexBelow
  <2>2. CASE v # w
    <3>1. Holds(v) /\ job'[v] = job[v]
      BY <1>1, <1>4, <2>2
    <3> QED BY <1>3, <3>1, IndexBelow DEF PoolInv, Held, TypeOK
  <2> QED BY <2>1, <2>2
<1>7. HeldOnce'
  <2>1. \A v \in Workers : Holds(v) => job[v] # j
    BY <1>2, IndexBelow DEF PoolInv, Held, TypeOK
  <2> QED BY <1>1, <1>3, <1>4, <2>1 DEF PoolInv, HeldOnce
<1>8. Blocks'
  BY <1>1, <1>3, IndexBelow DEF PoolInv, Blocks, Block, TypeOK
<1>9. NoneLost'
  <2> SUFFICES ASSUME NEW k \in admitted, IndexOf(k) < next', failure = NoCall, ~Block(k)
               PROVE  \E v \in Workers : Holds(v)' /\ job'[v] = k
    BY <1>1, <1>3 DEF NoneLost, Block
  <2>1. CASE IndexOf(k) < next
    <3>1. PICK v \in Workers : Holds(v) /\ job[v] = k
      BY <2>1 DEF PoolInv, NoneLost
    <3>2. v # w
      BY <1>3, <3>1 DEF Holds
    <3> QED BY <1>1, <1>4, <3>1, <3>2
  <2>2. CASE ~(IndexOf(k) < next)
    <3>1. IndexOf(k) = next
      <4>1. IndexOf(k) \in Nat /\ next \in Nat
        BY IndexBelow DEF TypeOK
      <4>2. IndexOf(k) < next + 1
        BY <1>3
      <4> QED BY <2>2, <4>1, <4>2
    <3>2. k = j
      BY <1>2, <3>1, IndexDistinct
    <3> QED BY <1>3, <1>4, <3>2
  <2> QED BY <2>1, <2>2
<1>10. Errors'
  BY <1>1, <1>3 DEF PoolInv, Errors
<1>11. Exits'
  BY <1>1, <1>3, AdmittedIsFinite DEF PoolInv, Exits, TypeOK
<1> QED
  BY <1>1, <1>6, <1>7, <1>8, <1>9, <1>10, <1>11 DEF PoolInv

(* The published block is the complete block of the held job.              *)
LEMMA PublishKeepsInv ==
  ASSUME TypeOK, LocalRuns, PoolInv, NEW w \in Workers, Work(w), Publish(w)
  PROVE  PoolInv'
<1> USE PoolAssumption
<1>1. /\ w \in Spawned
      /\ admitted' = admitted /\ Spawned' = Spawned
      /\ Cardinality(admitted)' = Cardinality(admitted)
      /\ \A j : IndexOf(j)' = IndexOf(j)
      /\ \A v \in Workers : v # w => pc'[v] = pc[v] /\ job'[v] = job[v]
      /\ Fresh' /\ Finished'
  BY WorkFrame
<1>2. /\ Holds(w) /\ ~Holds(w)' /\ pc[w] = "publish" /\ pc'[w] = "look"
      /\ job' = job /\ next' = next /\ failure' = failure /\ refused' = refused
  BY DEF Publish, Holds, TypeOK
<1>3. /\ job[w] \in admitted /\ job[w] \in Jobs /\ IndexOf(job[w]) < next
      /\ \A c \in Calls : runs[job[w]][c] = 0
  BY <1>2 DEF PoolInv, Held, TypeOK
<1>4. \A c \in Calls : c <= answered[w]
  BY <1>2 DEF LocalRuns, Calls
<1>5. /\ \A c \in Calls : runs'[job[w]][c] = 1
      /\ \A j \in Jobs : j # job[w] => runs'[j] = runs[j]
  BY <1>3, <1>4 DEF Publish, TypeOK
<1>6. \A v \in Workers : Holds(v)' <=> Holds(v) /\ v # w
  BY <1>1, <1>2 DEF Holds
<1>7. Held'
  <2> SUFFICES ASSUME NEW v \in Workers, Holds(v), v # w
               PROVE  /\ job[v] \in admitted /\ IndexOf(job[v]) < next
                      /\ \A c \in Calls : runs'[job[v]][c] = 0
    BY <1>1, <1>2, <1>6 DEF Held
  <2>1. job[v] # job[w] /\ job[v] \in Jobs
    BY <1>2 DEF PoolInv, HeldOnce, Held, TypeOK
  <2> QED BY <1>5, <2>1 DEF PoolInv, Held
<1>8. HeldOnce'
  BY <1>2, <1>6 DEF PoolInv, HeldOnce
<1>9. Blocks'
  <2> SUFFICES ASSUME NEW j \in Jobs
               PROVE  \/ \A c \in Calls : runs'[j][c] = 0
                      \/ j \in admitted /\ IndexOf(j) < next /\ Block(j)'
    BY <1>1, <1>2 DEF Blocks
  <2>1. CASE j = job[w]
    BY <1>3, <1>5, <2>1 DEF Block
  <2>2. CASE j # job[w]
    BY <1>5, <2>2 DEF PoolInv, Blocks, Block
  <2> QED BY <2>1, <2>2
<1>10. NoneLost'
  <2> SUFFICES ASSUME NEW j \in admitted, IndexOf(j) < next, failure = NoCall, ~Block(j)'
               PROVE  \E v \in Workers : Holds(v)' /\ job[v] = j
    BY <1>1, <1>2 DEF NoneLost
  <2>1. j # job[w] /\ j \in Jobs
    BY <1>5 DEF Block, TypeOK
  <2>2. ~Block(j)
    BY <1>5, <2>1 DEF Block
  <2> QED BY <1>6, <2>1, <2>2 DEF PoolInv, NoneLost
<1>11. Errors'
  BY <1>1, <1>2 DEF PoolInv, Errors
<1>12. Exits'
  BY <1>1, <1>2 DEF PoolInv, Exits
<1> QED
  BY <1>1, <1>7, <1>8, <1>9, <1>10, <1>11, <1>12 DEF PoolInv

-----------------------------------------------------------------------------
LEMMA PoolInductive == Spec => []PoolInv
<1>1. Init => PoolInv
  <2> SUFFICES ASSUME Init PROVE PoolInv
    OBVIOUS
  <2>1. \A w \in Workers : pc[w] = "look"
    BY DEF Init
  <2>2. Fresh /\ Held /\ HeldOnce /\ Exits /\ Finished /\ Errors
    BY <2>1 DEF Init, Fresh, Held, HeldOnce, Exits, Finished, Errors, Holds
  <2>3. Blocks /\ NoneLost
    BY DEF Init, Blocks, NoneLost
  <2> QED BY <2>2, <2>3 DEF PoolInv
<1>2. TypeOK /\ LocalRuns /\ PoolInv /\ [Next]_vars => PoolInv'
  <2> SUFFICES ASSUME TypeOK, LocalRuns, PoolInv, [Next]_vars PROVE PoolInv'
    OBVIOUS
  <2>1. CASE Preflight \/ PreflightFails \/ Admit \/ Join
    BY <2>1, MainThreadKeepsInv
  <2>2. ASSUME NEW w \in Workers, Work(w) PROVE PoolInv'
    BY <2>2, QuietStepKeepsInv, ClaimKeepsInv, PublishKeepsInv DEF Work
  <2>3. CASE UNCHANGED vars
    <3>1. /\ Spawned' = Spawned
          /\ \A j : IndexOf(j)' = IndexOf(j) /\ Block(j)' = Block(j)
          /\ \A w \in Workers : Holds(w)' = Holds(w)
      BY <2>3 DEF vars, Spawned, IndexOf, Block, Holds
    <3>2. Fresh' /\ Finished' /\ Errors' /\ Exits'
      BY <2>3, <3>1 DEF vars, PoolInv, Fresh, Finished, Errors, Exits
    <3>3. Held' /\ HeldOnce' /\ Blocks' /\ NoneLost'
      BY <2>3, <3>1 DEF vars, PoolInv, Held, HeldOnce, Blocks, NoneLost
    <3> QED BY <3>2, <3>3 DEF PoolInv
  <2> QED
    BY <2>1, <2>2, <2>3 DEF Next, Returned
<1> QED
  BY <1>1, <1>2, PoolTypingLocal, PTL DEF Spec

(* Whatever the number of jobs and workers and however they interleave, a  *)
(* matrix is returned only when no call was refused, and it holds every    *)
(* call of every admitted job exactly once.                                *)
THEOREM PoolExact == Spec => []MatrixIsExact
<1>1. TypeOK /\ PoolInv => MatrixIsExact
  <2> SUFFICES ASSUME TypeOK, PoolInv, phase = "done" PROVE
        /\ refused = {}
        /\ \A j \in Jobs, c \in Calls : runs[j][c] = IF j \in admitted THEN 1 ELSE 0
    BY DEF MatrixIsExact
  <2>1. failure = NoCall /\ \A w \in Spawned : pc[w] = "exit"
    BY DEF PoolInv, Finished
  <2>2. \A w \in Workers : pc[w] \in {"look", "exit"}
    BY <2>1 DEF PoolInv, Exits
  <2>3. refused = {}
    BY <2>1, <2>2 DEF PoolInv, Errors
  <2>4. ASSUME NEW j \in admitted PROVE Block(j)
    <3>1. PICK w \in Spawned : TRUE
      BY <2>4, SomeoneSpawned
    <3>2. next >= Cardinality(admitted)
      BY <2>1, <3>1 DEF PoolInv, Exits, Spawned
    <3>3. IndexOf(j) < next
      BY <3>2, IndexBelow DEF TypeOK
    <3> QED BY <2>1, <2>2, <3>3 DEF PoolInv, NoneLost, Holds
  <2>5. ASSUME NEW j \in Jobs, j \notin admitted PROVE \A c \in Calls : runs[j][c] = 0
    BY <2>5 DEF PoolInv, Blocks
  <2> QED BY <2>3, <2>4, <2>5 DEF Block
<1> QED
  BY <1>1, PoolTypingLocal, PoolInductive, PTL

-----------------------------------------------------------------------------
(* The refinement.  Calls are made for claimed jobs only, by the worker    *)
(* that holds the job and in order, so that no call is made twice; what is *)
(* published was made, and what is stored was refused.                     *)
Tracked ==
  /\ phase = "preflight" => admitted = {} /\ made = {}
  /\ \A jc \in made : jc[1] \in admitted /\ IndexOf(jc[1]) < next
  /\ \A w \in Workers : Holds(w) => \A c \in Calls : c <= answered[w] => <<job[w], c>> \in made
  /\ \A w \in Workers : pc[w] = "call" => \A c \in Calls : <<job[w], c>> \in made => c <= answered[w]
  /\ \A w \in Workers : pc[w] = "store" => <<job[w], answered[w] + 1>> \in refused
  /\ \A j \in Jobs, c \in Calls : runs[j][c] = 1 => <<j, c>> \in made
  /\ failure # NoCall => failure \in refused

(* A call in turn is a new one, of a claimed job.                          *)
LEMMA NextCallIsNew ==
  ASSUME TypeOK, LocalRuns, PoolInv, Tracked, NEW w \in Workers, pc[w] = "call"
  PROVE  /\ answered[w] \in Nat /\ answered[w] + 1 \in Calls
         /\ job[w] \in Jobs /\ job[w] \in admitted /\ IndexOf(job[w]) < next
         /\ <<job[w], answered[w] + 1>> \in (Jobs \X Calls) \ made
<1>1. answered[w] \in Nat /\ answered[w] + 1 \in Calls
  BY PoolAssumption DEF TypeOK, LocalRuns, Calls
<1>2. job[w] \in admitted /\ IndexOf(job[w]) < next
  BY DEF PoolInv, Held, Holds
<1>3. job[w] \in Jobs
  BY <1>2 DEF TypeOK
<1>4. <<job[w], answered[w] + 1>> \notin made
  BY <1>1 DEF Tracked
<1> QED
  BY <1>1, <1>2, <1>3, <1>4

LEMMA CallKeepsTracked ==
  ASSUME TypeOK, LocalRuns, PoolInv, Tracked, NEW w \in Workers, Work(w), Answer(w) \/ Refuse(w)
  PROVE  Tracked'
<1> DEFINE call == <<job[w], answered[w] + 1>>
<1>1. /\ admitted' = admitted /\ phase = "pool" /\ phase' = "pool"
      /\ \A j : IndexOf(j)' = IndexOf(j)
      /\ \A v \in Workers : v # w => pc'[v] = pc[v]
  BY WorkFrame
<1>2. /\ pc[w] = "call" /\ made' = made \cup {call} /\ refused \subseteq refused'
      /\ job' = job /\ runs' = runs /\ next' = next /\ failure' = failure
  BY DEF Answer, Refuse
<1>3. /\ answered[w] \in Nat /\ answered[w] + 1 \in Calls
      /\ job[w] \in Jobs /\ job[w] \in admitted /\ IndexOf(job[w]) < next
  BY <1>2, NextCallIsNew
<1>4. \A v \in Workers : v # w => answered'[v] = answered[v]
  BY DEF Answer, Refuse, TypeOK
<1>5. \A v \in Workers : v # w /\ Holds(v) => job[v] # job[w]
  BY <1>2 DEF PoolInv, HeldOnce, Holds
<1>6. \A jc \in made' : jc[1] \in admitted' /\ IndexOf(jc[1])' < next'
  BY <1>1, <1>2, <1>3 DEF Tracked
<1>7. ASSUME NEW v \in Workers, Holds(v)', NEW c \in Calls, c <= answered'[v]
      PROVE  <<job[v], c>> \in made'
  <2>1. CASE v # w
    BY <1>1, <1>2, <1>4, <1>7, <2>1 DEF Holds, Tracked
  <2>2. CASE v = w
    <3>1. answered'[w] \in {answered[w], answered[w] + 1}
      BY DEF Answer, Refuse, TypeOK
    <3>2. c <= answered[w] \/ c = answered[w] + 1
      BY <1>3, <1>7, <2>2, <3>1 DEF Calls
    <3> QED BY <1>2, <2>2, <3>2 DEF Holds, Tracked
  <2> QED BY <2>1, <2>2
<1>8. ASSUME NEW v \in Workers, pc'[v] = "call", NEW c \in Calls, <<job[v], c>> \in made'
      PROVE  c <= answered'[v]
  <2>1. CASE v # w
    <3>1. job[v] # job[w] /\ pc[v] = "call"
      BY <1>1, <1>5, <1>8, <2>1 DEF Holds
    <3> QED BY <1>2, <1>4, <1>8, <2>1, <3>1 DEF Tracked
  <2>2. CASE v = w
    <3>1. answered'[w] = answered[w] + 1
      BY <1>8, <2>2 DEF Answer, Refuse, TypeOK
    <3>2. c <= answered[w] \/ c = answered[w] + 1
      BY <1>2, <1>8, <2>2 DEF Tracked
    <3> QED BY <1>3, <2>2, <3>1, <3>2 DEF Calls
  <2> QED BY <2>1, <2>2
<1>9. ASSUME NEW v \in Workers, pc'[v] = "store"
      PROVE  <<job[v], answered'[v] + 1>> \in refused'
  <2>1. CASE v # w
    BY <1>1, <1>2, <1>4, <1>9, <2>1 DEF Tracked
  <2>2. CASE v = w
    BY <1>9, <2>2 DEF Answer, Refuse, TypeOK
  <2> QED BY <2>1, <2>2
<1>10. \A j \in Jobs, c \in Calls : runs'[j][c] = 1 => <<j, c>> \in made'
  BY <1>2 DEF Tracked
<1> QED
  BY <1>1, <1>2, <1>6, <1>7, <1>8, <1>9, <1>10 DEF Tracked

(* The other steps of a worker make no call.                               *)
LEMMA OtherStepKeepsTracked ==
  ASSUME TypeOK, LocalRuns, PoolInv, Tracked, NEW w \in Workers, Work(w),
         Look(w) \/ Claim(w) \/ NoneLeft(w) \/ Store(w) \/ Publish(w)
  PROVE  Tracked' /\ UNCHANGED <<made, refused>>
<1>1. /\ admitted' = admitted /\ phase = "pool" /\ phase' = "pool"
      /\ \A j : IndexOf(j)' = IndexOf(j)
      /\ \A v \in Workers : v # w => pc'[v] = pc[v] /\ job'[v] = job[v]
  BY WorkFrame
<1>2. UNCHANGED <<made, refused>> /\ next' \in {next, next + 1}
  BY DEF Look, Claim, NoneLeft, Store, Publish
<1>3. \A v \in Workers : v # w => answered'[v] = answered[v]
  BY DEF Look, Claim, NoneLeft, Store, Publish, TypeOK
<1>4. ASSUME NEW jc \in made PROVE jc[1] \in admitted /\ IndexOf(jc[1]) < next'
  <2>1. jc[1] \in admitted /\ IndexOf(jc[1]) < next
    BY DEF Tracked
  <2> QED BY <1>2, <2>1, IndexBelow DEF TypeOK
<1>5. /\ Holds(w)' => /\ Claim(w) /\ answered'[w] = 0 /\ pc'[w] = "call"
                      /\ job'[w] \in admitted /\ IndexOf(job'[w]) = next
      /\ pc'[w] # "store"
  BY DEF Look, Claim, NoneLeft, Store, Publish, Holds, TypeOK
<1>6. ASSUME NEW v \in Workers, Holds(v)', NEW c \in Calls, c <= answered'[v]
      PROVE  <<job'[v], c>> \in made
  <2>1. CASE v # w
    BY <1>1, <1>3, <1>6, <2>1 DEF Holds, Tracked
  <2>2. CASE v = w
    BY <1>5, <1>6, <2>2 DEF Calls
  <2> QED BY <2>1, <2>2
<1>7. ASSUME NEW v \in Workers, pc'[v] = "call", NEW c \in Calls, <<job'[v], c>> \in made
      PROVE  c <= answered'[v]
  <2>1. CASE v # w
    BY <1>1, <1>3, <1>7, <2>1 DEF Tracked
  <2>2. CASE v = w
    <3>1. IndexOf(job'[w]) = next
      BY <1>5, <1>7, <2>2 DEF Holds
    <3>2. IndexOf(job'[w]) < next
      BY <1>7, <2>2 DEF Tracked
    <3> QED BY <3>1, <3>2 DEF TypeOK
  <2> QED BY <2>1, <2>2
<1>8. ASSUME NEW v \in Workers, pc'[v] = "store"
      PROVE  <<job'[v], answered'[v] + 1>> \in refused
  BY <1>1, <1>3, <1>5, <1>8 DEF Tracked
<1>9. ASSUME NEW j \in Jobs, NEW c \in Calls, runs'[j][c] = 1
      PROVE  <<j, c>> \in made
  <2>1. CASE Publish(w) /\ j = job[w]
    <3>1. answered[w] = NumCalls /\ Holds(w)
      BY <2>1 DEF Publish, LocalRuns, Holds
    <3>2. c <= answered[w]
      BY <3>1, PoolAssumption DEF Calls
    <3> QED BY <2>1, <3>1, <3>2 DEF Tracked
  <2>2. CASE Publish(w) /\ j # job[w]
    BY <1>9, <2>2 DEF Publish, TypeOK, Tracked
  <2>3. CASE ~Publish(w)
    BY <1>9, <2>3 DEF Look, Claim, NoneLeft, Store, Tracked
  <2> QED BY <2>1, <2>2, <2>3
<1>10. failure' # NoCall => failure' \in refused
  BY DEF Look, Claim, NoneLeft, Store, Publish, Tracked
<1> QED
  BY <1>1, <1>2, <1>4, <1>6, <1>7, <1>8, <1>9, <1>10 DEF Tracked

(* The main thread makes no call.                                          *)
LEMMA MainThreadKeepsTracked ==
  ASSUME TypeOK, PoolInv, Tracked, Preflight \/ PreflightFails \/ Admit \/ Join
  PROVE  Tracked'
<1>1. (UNCHANGED pool /\ phase' # "preflight") \/ Preflight
  BY DEF Preflight, PreflightFails, Admit, Join
<1>2. \A w \in Workers : Holds(w)' = Holds(w)
  BY <1>1 DEF Preflight, pool, Holds
<1>3. CASE Admit
  <2>1. made = {} /\ made' = {} /\ phase' # "preflight"
    BY <1>3 DEF Admit, Tracked, pool
  <2> QED BY <1>1, <1>2, <1>3, <2>1 DEF Admit, Tracked, pool
<1>4. CASE ~Admit
  <2>1. admitted' = admitted /\ UNCHANGED pool
    BY <1>4 DEF Preflight, PreflightFails, Join
  <2>2. \A j : IndexOf(j)' = IndexOf(j)
    BY <2>1 DEF IndexOf
  <2>3. phase' = "preflight" => phase = "preflight"
    BY <1>4 DEF Preflight, PreflightFails, Join
  <2> QED BY <1>2, <2>1, <2>2, <2>3 DEF Tracked, pool
<1> QED
  BY <1>3, <1>4

LEMMA TrackedInductive == Spec => []Tracked
<1>1. Init => Tracked
  BY PoolAssumption DEF Init, Tracked, Holds
<1>2. TypeOK /\ LocalRuns /\ PoolInv /\ Tracked /\ [Next]_vars => Tracked'
  <2> SUFFICES ASSUME TypeOK, LocalRuns, PoolInv, Tracked, [Next]_vars PROVE Tracked'
    OBVIOUS
  <2>1. CASE Preflight \/ PreflightFails \/ Admit \/ Join
    BY <2>1, MainThreadKeepsTracked
  <2>2. ASSUME NEW w \in Workers, Work(w) PROVE Tracked'
    BY <2>2, CallKeepsTracked, OtherStepKeepsTracked DEF Work
  <2>3. CASE UNCHANGED vars
    <3>1. /\ \A j : IndexOf(j)' = IndexOf(j)
          /\ \A w \in Workers : Holds(w)' = Holds(w)
      BY <2>3 DEF vars, IndexOf, Holds
    <3> QED BY <2>3, <3>1 DEF vars, Tracked
  <2> QED
    BY <2>1, <2>2, <2>3 DEF Next, Returned
<1> QED
  BY <1>1, <1>2, PoolTypingLocal, PoolInductive, PTL DEF Spec

(* What the abstract build sees of a worker is the return of its calls.    *)
LEMMA WorkIsACall ==
  ASSUME TypeOK, LocalRuns, PoolInv, Tracked, NEW w \in Workers, Work(w)
  PROVE  [Matrix!Next]_Matrix!vars
<1>0. phase = "pool" /\ phase' = "pool" /\ admitted' = admitted
  BY WorkFrame
<1>1. CASE Answer(w) \/ Refuse(w)
  <2>1. PICK c \in Jobs \X Calls : c = <<job[w], answered[w] + 1>>
    BY <1>1, NextCallIsNew DEF Answer, Refuse
  <2>2. c \in (admitted \X Calls) \ made
    BY <1>1, <2>1, NextCallIsNew DEF Answer, Refuse
  <2>3. made' = made \cup {c} /\ refused' \in {refused, refused \cup {c}}
    BY <1>1, <2>1 DEF Answer, Refuse
  <2>4. Matrix!Call(c)
    BY <1>0, <2>2, <2>3 DEF Matrix!Call
  <2> QED BY <2>4 DEF Matrix!Next
<1>2. CASE Look(w) \/ Claim(w) \/ NoneLeft(w) \/ Store(w) \/ Publish(w)
  <2>1. UNCHANGED <<made, refused>>
    BY <1>2, OtherStepKeepsTracked
  <2> QED BY <1>0, <2>1 DEF Matrix!vars
<1> QED
  BY <1>1, <1>2 DEF Work

(* The calls are fixed by the preflight.                                   *)
LEMMA AdmitWants ==
  ASSUME TypeOK, PoolInv, Tracked, Admit
  PROVE  Matrix!Want \/ Matrix!Deliver
<1>1. /\ phase = "preflight" /\ admitted = {} /\ made = {} /\ refused = {}
      /\ runs = [j \in Jobs |-> [c \in Calls |-> 0]]
      /\ UNCHANGED <<made, refused, runs>>
  BY DEF Admit, pool, Tracked, PoolInv, Fresh
<1>2. admitted' \subseteq Jobs
  BY AdmittedAreJobs DEF Admit
<1>3. CASE admitted' = {}
  <2>1. phase' = "done"
    BY <1>3 DEF Admit
  <2>2. \A jc \in Jobs \X Calls : runs'[jc[1]][jc[2]] = 0
    BY <1>1
  <2>3. [jc \in Jobs \X Calls |-> runs'[jc[1]][jc[2]]]
          = [jc \in Jobs \X Calls |-> IF jc \in admitted \X Calls THEN 1 ELSE 0]
    BY <1>1, <2>2
  <2>4. Matrix!Deliver
    BY <1>1, <1>3, <2>1, <2>3 DEF Matrix!Deliver, Matrix!Report
  <2> QED BY <2>4
<1>4. CASE admitted' # {}
  <2>1. phase' = "pool"
    BY <1>4 DEF Admit
  <2>2. admitted' \X Calls \in SUBSET (Jobs \X Calls)
    BY <1>2
  <2>3. Matrix!Want
    BY <1>1, <2>1, <2>2 DEF Matrix!Want
  <2> QED BY <2>3
<1> QED
  BY <1>3, <1>4

(* The scope ends with every run there, or with the error of a refusal.    *)
LEMMA JoinDelivers ==
  ASSUME TypeOK, PoolInv, Tracked, Join, MatrixIsExact'
  PROVE  Matrix!Deliver \/ Matrix!Fail
<1>1. /\ phase = "pool" /\ phase' = IF failure = NoCall THEN "done" ELSE "failed"
      /\ UNCHANGED <<admitted, made, refused, runs, failure>>
  BY DEF Join, pool
<1>2. CASE failure = NoCall
  <2>1. /\ refused = {}
        /\ \A j \in Jobs, c \in Calls : runs[j][c] = IF j \in admitted THEN 1 ELSE 0
    BY <1>1, <1>2 DEF MatrixIsExact
  <2>2. made = admitted \X Calls
    <3>1. made \subseteq admitted \X Calls
      BY DEF TypeOK, Tracked
    <3>2. admitted \X Calls \subseteq made
      BY <2>1 DEF TypeOK, Tracked
    <3> QED BY <3>1, <3>2
  <2>3. [jc \in Jobs \X Calls |-> runs'[jc[1]][jc[2]]]
          = [jc \in Jobs \X Calls |-> IF jc \in admitted \X Calls THEN 1 ELSE 0]
    BY <1>1, <2>1
  <2>4. Matrix!Deliver
    BY <1>1, <1>2, <2>1, <2>2, <2>3 DEF Matrix!Deliver, Matrix!Report
  <2> QED BY <2>4
<1>3. CASE failure # NoCall
  <2>1. failure \in refused
    BY <1>3 DEF Tracked
  <2>2. Matrix!Fail
    BY <1>1, <1>3, <2>1 DEF Matrix!Fail, Matrix!Failure
  <2> QED BY <2>2
<1> QED
  BY <1>2, <1>3

(* The pool is an EvidenceMatrix: whatever the number of jobs, calls and   *)
(* workers, no call is made twice or unasked, a build ends with every run  *)
(* or with the error of a call that was refused.                           *)
THEOREM PoolImplementsMatrix == Spec => ImplementsMatrix
<1>1. Init => Matrix!Init
  <2> SUFFICES ASSUME Init PROVE Matrix!Init
    OBVIOUS
  <2> QED BY DEF Init, Matrix!Init
<1>2. TypeOK /\ LocalRuns /\ PoolInv /\ Tracked /\ MatrixIsExact' /\ [Next]_vars
        => [Matrix!Next]_Matrix!vars
  <2> SUFFICES ASSUME TypeOK, LocalRuns, PoolInv, Tracked, MatrixIsExact', [Next]_vars
               PROVE  [Matrix!Next]_Matrix!vars
    OBVIOUS
  <2>1. CASE Preflight
    BY <2>1 DEF Preflight, pool, Matrix!vars
  <2>2. CASE PreflightFails
    <3>1. admitted = {} /\ failure = NoCall
      BY <2>2 DEF PreflightFails, Tracked, PoolInv, Fresh
    <3>2. Matrix!Reject
      BY <2>2, <3>1 DEF PreflightFails, pool, Matrix!Reject
    <3> QED BY <3>2 DEF Matrix!Next
  <2>3. CASE Admit
    BY <2>3, AdmitWants DEF Matrix!Next
  <2>4. ASSUME NEW w \in Workers, Work(w) PROVE [Matrix!Next]_Matrix!vars
    BY <2>4, WorkIsACall
  <2>5. CASE Join
    BY <2>5, JoinDelivers DEF Matrix!Next
  <2>6. CASE UNCHANGED vars
    BY <2>6 DEF vars, Matrix!vars
  <2> QED
    BY <2>1, <2>2, <2>3, <2>4, <2>5, <2>6 DEF Next, Returned
<1> QED
  BY <1>1, <1>2, PoolTypingLocal, PoolInductive, TrackedInductive, PoolExact, PTL
     DEF Spec, ImplementsMatrix, Matrix!Spec

-----------------------------------------------------------------------------
(* The sample of families.  A job opens its family in S when no job of the *)
(* family comes before it; a family is kept when fewer than MaxFamilies    *)
(* others are opened before its own.                                       *)
Opens(S, j)  == \A i \in S : i < j => FamilyAt[i] # FamilyAt[j]
Before(S, j) == {i \in S : i < j /\ Opens(S, i)}
Kept(S)      == {i \in S : Opens(S, i) /\ Cardinality(Before(S, i)) < MaxFamilies}
Families(S)  == {FamilyAt[j] : j \in S}

LEMMA FirstFamiliesAreKept ==
  ASSUME NEW S
  PROVE  FirstFamilies(S) = {j \in S : FamilyAt[j] \in Families(Kept(S))}
BY DEF FirstFamilies, Families, Kept, Before, Opens

(* A set of jobs that is not empty has a first one.                        *)
LEMMA FirstJobExists ==
  ASSUME NEW S \in SUBSET Nat, S # {}
  PROVE  \E i \in S : \A j \in S : i <= j
<1> DEFINE R == OpToRel(<, Nat)
<1>1. IsWellFoundedOn(R, Nat)
  BY NatLessThanWellFounded
<1>2. \A x, y \in Nat : x < y => <<x, y>> \in R
  BY DEF OpToRel
<1> HIDE DEF R
<1>3. PICK i \in S : \A j \in S : ~ (<<j, i>> \in R)
  BY <1>1, WFMin
<1>4. ASSUME NEW j \in S PROVE i <= j
  <2>1. ~ (j < i)
    BY <1>2, <1>3
  <2> QED BY <2>1
<1> QED
  BY <1>4

LEMMA JobsAreNumbers == Jobs \subseteq Nat /\ IsFiniteSet(Jobs) /\ \A j \in Jobs : j <= NumJobs
<1>1. 1 \in Int /\ NumJobs \in Int
  BY PoolAssumption
<1>2. IsFiniteSet(1..NumJobs)
  BY <1>1, FS_Interval
<1> QED
  BY <1>2, PoolAssumption DEF Jobs

(* Every family of S has one job that opens it.                            *)
LEMMA OpenerExists ==
  ASSUME NEW S \in SUBSET Jobs, NEW j \in S
  PROVE  \E i \in S : Opens(S, i) /\ FamilyAt[i] = FamilyAt[j]
<1> DEFINE F == {i \in S : FamilyAt[i] = FamilyAt[j]}
<1>1. F \in SUBSET Nat /\ F # {}
  BY JobsAreNumbers
<1>2. PICK i \in F : \A k \in F : i <= k
  BY <1>1, FirstJobExists
<1>3. ASSUME NEW k \in S, k < i PROVE FamilyAt[k] # FamilyAt[i]
  <2>1. i \in Nat /\ k \in Nat
    BY <1>1, JobsAreNumbers
  <2> QED BY <1>2, <1>3, <2>1
<1> QED
  BY <1>2, <1>3 DEF Opens

LEMMA OpenerIsUnique ==
  ASSUME NEW S \in SUBSET Jobs, NEW i \in S, NEW j \in S,
         Opens(S, i), Opens(S, j), FamilyAt[i] = FamilyAt[j]
  PROVE  i = j
BY PoolAssumption DEF Opens, Jobs

(* The sets of openers are finite, and grow with the job.                  *)
LEMMA OpenersBefore ==
  ASSUME NEW S \in SUBSET Jobs, NEW j \in S
  PROVE  /\ IsFiniteSet(Before(S, j)) /\ Cardinality(Before(S, j)) \in Nat
         /\ \A i \in S : i <= j => Cardinality(Before(S, i)) <= Cardinality(Before(S, j))
<1>1. IsFiniteSet(S)
  BY JobsAreNumbers, FS_Subset
<1>2. \A i \in S : Before(S, i) \in SUBSET S
  BY DEF Before
<1>3. \A i \in S : IsFiniteSet(Before(S, i)) /\ Cardinality(Before(S, i)) \in Nat
  BY <1>1, <1>2, FS_Subset, FS_CardinalityType
<1>4. ASSUME NEW i \in S, i <= j
      PROVE  Cardinality(Before(S, i)) <= Cardinality(Before(S, j))
  <2>1. \A k \in S : k < i => k < j
    <3>1. S \subseteq Nat
      BY JobsAreNumbers
    <3> QED BY <1>4, <3>1
  <2>2. Before(S, i) \in SUBSET Before(S, j)
    BY <2>1 DEF Before
  <2> QED BY <1>3, <2>2, FS_Subset
<1> QED
  BY <1>3, <1>4

(* As many families are taken as there are kept openers.                   *)
LEMMA FamiliesOfKept ==
  ASSUME NEW S \in SUBSET Jobs
  PROVE  /\ IsFiniteSet(Kept(S)) /\ Cardinality(Kept(S)) \in Nat
         /\ Cardinality(Families(Kept(S))) = Cardinality(Kept(S))
<1>1. IsFiniteSet(S) /\ Kept(S) \in SUBSET S
  BY JobsAreNumbers, FS_Subset DEF Kept
<1>2. IsFiniteSet(Kept(S)) /\ Cardinality(Kept(S)) \in Nat
  BY <1>1, FS_Subset, FS_CardinalityType
<1> DEFINE f == [j \in Kept(S) |-> FamilyAt[j]]
<1>3. \A i, j \in Kept(S) : FamilyAt[i] = FamilyAt[j] => i = j
  BY OpenerIsUnique DEF Kept
<1>4. f \in Bijection(Kept(S), Families(Kept(S)))
  <2>1. f \in [Kept(S) -> Families(Kept(S))]
    BY DEF Families
  <2>2. \A a, b \in Kept(S) : f[a] = f[b] => a = b
    BY <1>3
  <2>3. \A t \in Families(Kept(S)) : \E s \in Kept(S) : f[s] = t
    BY DEF Families
  <2> HIDE DEF f
  <2> QED BY <2>1, <2>2, <2>3 DEF Bijection, Injection, Surjection, IsInjective
<1>5. ExistsBijection(Kept(S), Families(Kept(S)))
  BY <1>4 DEF ExistsBijection
<1> QED
  BY <1>2, <1>5, FS_Bijection

(* No more than MaxFamilies openers are kept: the last of them follows all *)
(* the others.                                                             *)
LEMMA KeptIsBounded ==
  ASSUME NEW S \in SUBSET Jobs
  PROVE  Cardinality(Kept(S)) <= MaxFamilies
<1> USE PoolAssumption
<1>1. CASE Kept(S) = {}
  BY <1>1, FS_EmptySet
<1>2. CASE Kept(S) # {}
  <2> DEFINE Bounds == {n \in Nat : \A k \in Kept(S) : k <= n}
  <2>1. Kept(S) \in SUBSET Nat /\ NumJobs \in Bounds
    BY JobsAreNumbers DEF Kept
  <2>2. PICK m \in Bounds : \A n \in Bounds : m <= n
    BY <2>1, FirstJobExists
  <2>3. m \in Kept(S)
    <3> SUFFICES ASSUME m \notin Kept(S) PROVE FALSE
      OBVIOUS
    <3>1. \A k \in Kept(S) : k \in Nat /\ k <= m /\ k # m
      BY <2>1
    <3>2. m # 0
      BY <1>2, <3>1
    <3>3. m - 1 \in Bounds
      BY <3>1, <3>2
    <3> QED BY <2>2, <3>3
  <2>4. Kept(S) \in SUBSET (Before(S, m) \cup {m})
    BY <2>1 DEF Kept, Before
  <2>5. m \in S /\ Cardinality(Before(S, m)) < MaxFamilies
    BY <2>3 DEF Kept
  <2>6. IsFiniteSet(Before(S, m)) /\ Cardinality(Before(S, m)) \in Nat
    BY <2>5, OpenersBefore
  <2>7. /\ IsFiniteSet(Before(S, m) \cup {m})
        /\ Cardinality(Before(S, m) \cup {m}) \in
             {Cardinality(Before(S, m)), Cardinality(Before(S, m)) + 1}
    BY <2>6, FS_AddElement
  <2>8. Cardinality(Kept(S)) <= Cardinality(Before(S, m) \cup {m})
    BY <2>4, <2>7, FS_Subset
  <2> QED BY <2>5, <2>6, <2>7, <2>8, FamiliesOfKept
<1> QED
  BY <1>1, <1>2

(* When an opener is left out, the openers before the first such fill the  *)
(* limit.                                                                  *)
LEMMA KeptIsFull ==
  ASSUME NEW S \in SUBSET Jobs, NEW j \in S, Opens(S, j), j \notin Kept(S)
  PROVE  Cardinality(Kept(S)) = MaxFamilies
<1> USE PoolAssumption
<1> DEFINE Left == {i \in S : Opens(S, i) /\ i \notin Kept(S)}
<1>1. Left \in SUBSET Nat /\ Left # {}
  BY JobsAreNumbers
<1>2. PICK o \in Left : \A i \in Left : o <= i
  BY <1>1, FirstJobExists
<1>3. Before(S, o) \in SUBSET Kept(S)
  BY <1>1, <1>2 DEF Before, Jobs
<1>4. Cardinality(Before(S, o)) \in Nat /\ ~(Cardinality(Before(S, o)) < MaxFamilies)
  BY <1>2, OpenersBefore DEF Kept
<1>5. Cardinality(Before(S, o)) <= Cardinality(Kept(S))
  BY <1>3, FamiliesOfKept, FS_Subset
<1> QED
  BY <1>4, <1>5, KeptIsBounded, FamiliesOfKept

(* A kept opener comes before one that is left out.                        *)
LEMMA KeptComeFirst ==
  ASSUME NEW S \in SUBSET Jobs, NEW i \in Kept(S), NEW j \in S, Opens(S, j), j \notin Kept(S)
  PROVE  i < j
<1>1. i \in S /\ i \in Nat /\ j \in Nat /\ Cardinality(Before(S, i)) < MaxFamilies
  BY PoolAssumption DEF Kept, Jobs
<1>2. ~(Cardinality(Before(S, j)) < MaxFamilies)
  BY DEF Kept
<1>3. ~(j <= i)
  BY <1>1, <1>2, OpenersBefore, PoolAssumption
<1> QED
  BY <1>1, <1>3

(* What is given to the pool is what the preflight and the sample leave.   *)
AdmittedNow == phase \in {"pool", "done"} => admitted = Admitted(accepted)

LEMMA AdmittedNowInductive == Spec => []AdmittedNow
<1>1. Init => AdmittedNow
  BY DEF Init, AdmittedNow
<1>2. AdmittedNow /\ [Next]_vars => AdmittedNow'
  <2> SUFFICES ASSUME AdmittedNow, [Next]_vars PROVE AdmittedNow'
    OBVIOUS
  <2>1. CASE Preflight \/ PreflightFails \/ Admit
    BY <2>1 DEF Preflight, PreflightFails, Admit, AdmittedNow, Admitted
  <2>2. CASE phase = "pool" /\ UNCHANGED <<builder, accepted, admitted>>
    BY <2>2 DEF AdmittedNow, Admitted
  <2>3. CASE UNCHANGED vars
    BY <2>3 DEF vars, AdmittedNow, Admitted
  <2> QED
    BY <2>1, <2>2, <2>3 DEF Next, Work, Join, Returned
<1> QED
  BY <1>1, <1>2, PTL DEF Spec

(* The complete jobs are whole families.                                   *)
LEMMA CompleteIsWhole ==
  ASSUME TypeOK
  PROVE  /\ Complete(accepted) \in SUBSET Jobs
         /\ \A i \in Jobs, j \in Complete(accepted) :
              FamilyAt[i] = FamilyAt[j] => i \in Complete(accepted)
         /\ Families(Complete(accepted)) =
              {f \in {FamilyAt[j] : j \in Jobs} : \A j \in Jobs : FamilyAt[j] = f => j \in accepted}
<1>1. accepted \in SUBSET Jobs
  BY PoolAssumption DEF TypeOK, Jobs
<1> QED
  BY <1>1 DEF Complete, Families

(* The first job of a family that is whole opens it.                       *)
LEMMA FirstOpens ==
  ASSUME NEW S \in SUBSET Jobs,
         \A i \in Jobs, j \in S : FamilyAt[i] = FamilyAt[j] => i \in S,
         NEW i \in S, Opens(S, i)
  PROVE  i = CHOOSE j \in Jobs : /\ FamilyAt[j] = FamilyAt[i]
                                 /\ \A k \in Jobs : FamilyAt[k] = FamilyAt[i] => j <= k
<1> DEFINE IsFirst(j) == /\ FamilyAt[j] = FamilyAt[i]
                         /\ \A k \in Jobs : FamilyAt[k] = FamilyAt[i] => j <= k
<1>1. \A j \in Jobs : j \in Nat
  BY PoolAssumption DEF Jobs
<1>2. i \in Jobs /\ IsFirst(i)
  BY <1>1 DEF Opens
<1>3. \A j \in Jobs : IsFirst(j) => j = i
  <2> SUFFICES ASSUME NEW j \in Jobs, IsFirst(j) PROVE j = i
    OBVIOUS
  <2>1. j <= i /\ i <= j
    BY <1>2
  <2> QED BY <1>1, <1>2, <2>1
<1> HIDE DEF IsFirst
<1>4. i = CHOOSE j \in Jobs : IsFirst(j)
  BY <1>2, <1>3
<1> QED
  BY <1>4 DEF IsFirst

(* A matched report holds whole families only, as many as the limit allows *)
(* and the earliest of those the oracle accepts, whichever jobs it refuses.*)
THEOREM AdmissionWhole == Spec => []AdmissionIsWhole
<1>1. TypeOK /\ AdmittedNow => AdmissionIsWhole
  <2> DEFINE S        == Complete(accepted)
             Whole(f) == \A j \in Jobs : FamilyAt[j] = f => j \in accepted
             whole    == {f \in {FamilyAt[j] : j \in Jobs} : Whole(f)}
             taken    == {FamilyAt[j] : j \in admitted}
             first(f) == CHOOSE j \in Jobs :
                           FamilyAt[j] = f /\ \A i \in Jobs : FamilyAt[i] = f => j <= i
  <2> SUFFICES ASSUME TypeOK, AdmittedNow, phase \in {"pool", "done"}, builder = "matched"
               PROVE  /\ taken \subseteq whole
                      /\ \A j \in Jobs : FamilyAt[j] \in taken => j \in admitted
                      /\ Cardinality(taken) <= MaxFamilies
                      /\ taken # whole => Cardinality(taken) = MaxFamilies
                      /\ \A f \in taken, g \in whole \ taken : first(f) < first(g)
    BY DEF AdmissionIsWhole
  <2>1. /\ S \in SUBSET Jobs /\ whole = Families(S)
        /\ \A i \in Jobs, j \in S : FamilyAt[i] = FamilyAt[j] => i \in S
    BY CompleteIsWhole
  <2>2. admitted = {j \in S : FamilyAt[j] \in Families(Kept(S))}
    BY FirstFamiliesAreKept DEF AdmittedNow, Admitted
  <2> HIDE DEF S, whole
  <2>3. taken = Families(Kept(S))
    BY <2>2 DEF Families, Kept
  <2> HIDE DEF taken
  <2>4. taken \subseteq whole
    BY <2>1, <2>3 DEF Families, Kept
  <2>5. \A j \in Jobs : FamilyAt[j] \in taken => j \in admitted
    BY <2>1, <2>2, <2>3 DEF Families, Kept
  <2>6. Cardinality(taken) <= MaxFamilies
    BY <2>1, <2>3, FamiliesOfKept, KeptIsBounded
  <2>7. ASSUME NEW g \in whole, g \notin taken
        PROVE  \E o \in S : Opens(S, o) /\ FamilyAt[o] = g /\ o \notin Kept(S)
    <3>1. PICK j \in S : FamilyAt[j] = g
      BY <2>1, <2>7 DEF Families
    <3>2. PICK o \in S : Opens(S, o) /\ FamilyAt[o] = g
      BY <2>1, <3>1, OpenerExists
    <3> QED BY <2>3, <2>7, <3>2 DEF Families
  <2>8. taken # whole => Cardinality(taken) = MaxFamilies
    <3> SUFFICES ASSUME taken # whole PROVE Cardinality(taken) = MaxFamilies
      OBVIOUS
    <3>1. PICK g \in whole : g \notin taken
      BY <2>4
    <3>2. PICK o \in S : Opens(S, o) /\ o \notin Kept(S)
      BY <2>7, <3>1
    <3> QED BY <2>1, <2>3, <3>2, FamiliesOfKept, KeptIsFull
  <2>9. ASSUME NEW f \in taken, NEW g \in whole \ taken PROVE first(f) < first(g)
    <3>1. PICK i \in Kept(S) : FamilyAt[i] = f
      BY <2>3 DEF Families
    <3>2. PICK o \in S : Opens(S, o) /\ FamilyAt[o] = g /\ o \notin Kept(S)
      BY <2>7
    <3>3. i = first(f)
      BY <2>1, <3>1, FirstOpens DEF Kept
    <3>4. o = first(g)
      BY <2>1, <3>2, FirstOpens
    <3>5. i < o
      BY <2>1, <3>2, KeptComeFirst
    <3> QED BY <3>3, <3>4, <3>5
  <2> QED
    BY <2>4, <2>5, <2>6, <2>8, <2>9
<1> QED
  BY <1>1, PoolTyping, AdmittedNowInductive, PTL

=============================================================================
