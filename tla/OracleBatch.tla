---------------------------- MODULE OracleBatch ----------------------------
(***************************************************************************)
(* check_candidate_policies of generation/dataset.rs: one candidate is     *)
(* labelled under every policy pack.  With one oracle worker the calls are *)
(* made in turn; with more, a scope of threads is opened for each chunk of *)
(* the packs, its handles are joined in declared order up to the first     *)
(* error, and the scope waits for the threads that were not joined.        *)
(***************************************************************************)
EXTENDS Naturals, Sequences, FiniteSets

CONSTANTS
  NumPolicies,   \* config.policy_packs.len()
  MaxWorkers,    \* bound on config.oracle_workers
  Labels         \* what a successful call returns

Policies == 1..NumPolicies
Outcomes == Labels \cup {"error", "panic"}

ASSUME BatchAssumption ==
  /\ NumPolicies \in Nat \ {0}
  /\ MaxWorkers \in Nat \ {0}
  /\ Labels \cap {"error", "panic"} = {}

VARIABLES
  workers,   \* config.oracle_workers
  oracle,    \* policy -> what a call for it comes to
  phase,     \* "chunk", "join", "drain", "returned" or "panicked"
  from,      \* first policy of the current chunk
  thread,    \* policy -> "none", "running" or "ended"
  ordered,   \* ordered_runs, then those collected from the current chunk
  error      \* policy whose error is returned, 0 for none

vars == <<workers, oracle, phase, from, thread, ordered, error>>

MinOf(a, b) == IF a <= b THEN a ELSE b

(* chunks(worker_count); the last chunk may be shorter.                    *)
Chunk == from .. MinOf(from + MinOf(workers, NumPolicies) - 1, NumPolicies)

Running == {p \in Policies : thread[p] = "running"}

-----------------------------------------------------------------------------
Init ==
  /\ workers \in 1..MaxWorkers
  /\ oracle \in [Policies -> Outcomes]
  /\ phase = "chunk"
  /\ from = 1
  /\ thread = [p \in Policies |-> "none"]
  /\ ordered = <<>>
  /\ error = 0

(* With one worker a panic is not caught.                                  *)
CallInTurn ==
  /\ workers = 1
  /\ phase = "chunk"
  /\ thread' = [thread EXCEPT ![from] = "ended"]
  /\ IF oracle[from] \in Labels
     THEN /\ ordered' = Append(ordered, oracle[from])
          /\ from' = from + 1
          /\ phase' = IF from = NumPolicies THEN "returned" ELSE "chunk"
          /\ UNCHANGED error
     ELSE /\ phase' = IF oracle[from] = "error" THEN "returned" ELSE "panicked"
          /\ error' = from
          /\ UNCHANGED <<from, ordered>>
  /\ UNCHANGED <<workers, oracle>>

SpawnChunk ==
  /\ workers > 1
  /\ phase = "chunk"
  /\ thread' = [p \in Policies |-> IF p \in Chunk THEN "running" ELSE thread[p]]
  /\ phase' = "join"
  /\ UNCHANGED <<workers, oracle, from, ordered, error>>

(* Threads end in any order.                                               *)
End(p) ==
  /\ thread[p] = "running"
  /\ thread' = [thread EXCEPT ![p] = "ended"]
  /\ UNCHANGED <<workers, oracle, phase, from, ordered, error>>

(* Mutant: results are collected as threads end.                           *)
JoinAny ==
  /\ phase = "join"
  /\ \E p \in Chunk :
       /\ thread[p] = "ended"
       /\ IF oracle[p] \in Labels
          THEN /\ ordered' = Append(ordered, oracle[p])
               /\ phase' = IF Len(ordered') = MinOf(from + workers - 1, NumPolicies)
                           THEN "drain" ELSE "join"
               /\ UNCHANGED error
          ELSE error' = p /\ phase' = "drain" /\ UNCHANGED ordered
  /\ UNCHANGED <<workers, oracle, from, thread>>

(* The next handle in declared order; a joined panic becomes an error, and *)
(* the first error ends the collection.                                    *)
JoinNext ==
  LET p == Len(ordered) + 1 IN
  /\ phase = "join"
  /\ thread[p] = "ended"
  /\ IF oracle[p] \in Labels
     THEN /\ ordered' = Append(ordered, oracle[p])
          /\ phase' = IF p + 1 \in Chunk THEN "join" ELSE "drain"
          /\ UNCHANGED error
     ELSE error' = p /\ phase' = "drain" /\ UNCHANGED ordered
  /\ UNCHANGED <<workers, oracle, from, thread>>

(* The scope ends when its threads have; a panic of a thread that was not  *)
(* joined is a panic of the scope.                                         *)
LeaveScope ==
  /\ phase = "drain"
  /\ Running = {}
  /\ IF error # 0 /\ \E p \in Chunk : p > error /\ oracle[p] = "panic"
     THEN phase' = "panicked" /\ UNCHANGED from
     ELSE IF error # 0 \/ Len(ordered) = NumPolicies
     THEN phase' = "returned" /\ UNCHANGED from
     ELSE phase' = "chunk" /\ from' = Len(ordered) + 1
  /\ UNCHANGED <<workers, oracle, thread, ordered, error>>

Over == phase \in {"returned", "panicked"} /\ UNCHANGED vars

Next ==
  \/ CallInTurn \/ SpawnChunk
  \/ \E p \in Policies : End(p)
  \/ JoinNext \/ LeaveScope
  \/ Over

Spec == Init /\ [][Next]_vars

-----------------------------------------------------------------------------
TypeOK ==
  /\ workers \in 1..MaxWorkers
  /\ oracle \in [Policies -> Outcomes]
  /\ phase \in {"chunk", "join", "drain", "returned", "panicked"}
  /\ from \in 1..(NumPolicies + 1)
  /\ thread \in [Policies -> {"none", "running", "ended"}]
  /\ ordered \in Seq(Labels)
  /\ error \in 0..NumPolicies

(* What a loop over the policies in declared order would return.           *)
Failing == {p \in Policies : oracle[p] \notin Labels}
FirstFailing == CHOOSE p \in Failing : \A q \in Failing : p <= q

(* "a worker count never changes corpus semantics": for the same JAR       *)
(* answers the runs come back in declared order, and the error is that of  *)
(* the first failing policy, whatever the worker count and the order in    *)
(* which the threads ended.                                                *)
SameAsSerial ==
  phase = "returned" =>
    IF Failing = {} THEN error = 0 /\ ordered = [p \in Policies |-> oracle[p]]
    ELSE error = FirstFailing

(* No more JAR processes run at once than there are oracle workers, and    *)
(* none outlives the call.                                                 *)
WorkersBounded ==
  /\ Cardinality(Running) <= workers
  /\ phase \in {"returned", "panicked"} => Running = {}

(* A batch is what a loop would have been, within the workers given.      *)
BatchSound == TypeOK /\ SameAsSerial /\ WorkersBounded

=============================================================================
