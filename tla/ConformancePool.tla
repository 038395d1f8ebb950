-------------------------- MODULE ConformancePool --------------------------
(***************************************************************************)
(* The conformance matrix of generation/conformance.rs.  One thread asks   *)
(* the oracle to accept the schemas of every job (preflight_jobs); the     *)
(* accepted jobs are then shared by a pool of worker threads               *)
(* (run_jobs_in_parallel), each of which makes one call per compatibility  *)
(* mode and policy pack.  The workers share an atomic job index, the list  *)
(* of finished runs and the first failure, the last two behind mutexes.    *)
(*                                                                         *)
(* A job is its position in the order the builder proposes them; a call is *)
(* its position in the mode-and-policy loop.  The report sorts its runs by *)
(* mutation, variant, profile, mode, policy and family, which no two calls *)
(* share, so `runs` counts them instead of listing them as they complete.  *)
(***************************************************************************)
EXTENDS Naturals, FiniteSets

CONSTANTS
  NumJobs,      \* jobs the builder proposes
  FamilyAt,     \* job -> family_id of the seed it comes from
  NumCalls,     \* compatibility modes times policy packs
  Builders,     \* which of "matrix" and "matched" are built
  MaxFamilies,  \* the matched builder's max_families
  Parallelism,  \* std::thread::available_parallelism
  MaxWorkers,   \* MAX_CONFORMANCE_WORKERS
  NoCall        \* a failure cell that holds nothing

(* For TLC, a FamilyAt of four jobs of three families: the second family   *)
(* sits between the two jobs of the first, and there are jobs enough for   *)
(* one worker to hold one while another sees a failure and a third runs    *)
(* out of jobs.                                                            *)
InterleavedFamilies == <<"f1", "f2", "f1", "f3">>

Jobs    == 1..NumJobs
Calls   == 1..NumCalls
Workers == 1..MaxWorkers

ASSUME PoolAssumption ==
  /\ NumJobs \in Nat
  /\ DOMAIN FamilyAt = Jobs
  /\ NumCalls \in Nat \ {0}
  /\ Builders \subseteq {"matrix", "matched"}
  /\ MaxFamilies \in Nat \ {0}
  /\ Parallelism \in Nat \ {0}
  /\ MaxWorkers \in Nat \ {0}
  /\ NoCall \notin Jobs \X Calls

VARIABLES
  builder,    \* build_oracle_conformance_matrix or its matched variant
  phase,      \* "preflight", "pool", "done" or "failed"
  checked,    \* number of jobs preflighted so far
  accepted,   \* those the oracle accepted
  admitted,   \* the jobs given to the pool
  next,       \* next_job, the atomic index into them
  pc,         \* worker -> where it is in its loop
  job,        \* worker -> the job it holds
  answered,   \* worker -> its local runs, all of that job
  runs,       \* job -> call -> number of runs of that call in the shared list
  failure,    \* the shared first failure
  made,       \* history: calls that have returned
  refused     \* history: calls that returned an error

pool == <<next, pc, job, answered, runs, failure, made, refused>>
vars == <<builder, phase, checked, accepted, admitted, next, pc, job, answered,
          runs, failure, made, refused>>

-----------------------------------------------------------------------------
(* retain_first_families: the jobs of the first MaxFamilies families of S. *)
FirstFamilies(S) ==
  LET Opens(j)  == \A i \in S : i < j => FamilyAt[i] # FamilyAt[j]
      Before(j) == {i \in S : i < j /\ Opens(i)}
      kept      == {FamilyAt[j] : j \in {i \in S : Opens(i) /\ Cardinality(Before(i)) < MaxFamilies}}
  IN {j \in S : FamilyAt[j] \in kept}

(* require_complete_families: only families none of whose jobs was refused.*)
Complete(S) ==
  {j \in S : \A i \in Jobs : FamilyAt[i] = FamilyAt[j] => i \in S}

(* Mutant: families are sampled before the incomplete ones are dropped.    *)
AdmittedSampledFirst(S) ==
  IF builder = "matched" THEN FirstFamilies(Jobs) \cap Complete(S) ELSE S

Admitted(S) == IF builder = "matched" THEN FirstFamilies(Complete(S)) ELSE S

(* worker_count: the smallest of the three limits.                         *)
Spawned == {w \in Workers : w <= Parallelism /\ w <= Cardinality(admitted)}

(* Position of job j in the vector of admitted jobs.                       *)
IndexOf(j) == Cardinality({i \in admitted : i < j})

-----------------------------------------------------------------------------
Init ==
  /\ builder \in Builders
  /\ phase = "preflight"
  /\ checked = 0
  /\ accepted = {}
  /\ admitted = {}
  /\ next = 0
  /\ pc = [w \in Workers |-> "look"]
  /\ job = [w \in Workers |-> 0]
  /\ answered = [w \in Workers |-> 0]
  /\ runs = [j \in Jobs |-> [c \in Calls |-> 0]]
  /\ failure = NoCall
  /\ made = {}
  /\ refused = {}

Preflight ==
  /\ phase = "preflight"
  /\ checked < NumJobs
  /\ checked' = checked + 1
  /\ accepted' \in {accepted, accepted \cup {checked + 1}}
  /\ UNCHANGED <<builder, phase, admitted, pool>>

(* An error of the oracle, unlike a rejection, ends the build.             *)
PreflightFails ==
  /\ phase = "preflight"
  /\ checked < NumJobs
  /\ phase' = "failed"
  /\ UNCHANGED <<builder, checked, accepted, admitted, pool>>

Admit ==
  /\ phase = "preflight"
  /\ checked = NumJobs
  /\ admitted' = Admitted(accepted)
  /\ phase' = IF admitted' = {} THEN "done" ELSE "pool"
  /\ UNCHANGED <<builder, checked, accepted, pool>>

-----------------------------------------------------------------------------
(* Mutant: a worker that sees a failure waits instead of returning.        *)
LookWaits(w) ==
  /\ pc[w] = "look"
  /\ failure = NoCall
  /\ pc' = [pc EXCEPT ![w] = "claim"]
  /\ UNCHANGED <<next, job, answered, runs, failure, made, refused>>

(* The worker loop: look at the failure cell under its mutex, ...          *)
Look(w) ==
  /\ pc[w] = "look"
  /\ pc' = [pc EXCEPT ![w] = IF failure = NoCall THEN "claim" ELSE "exit"]
  /\ UNCHANGED <<next, job, answered, runs, failure, made, refused>>

(* ... take the job at the shared index and advance it, in one step, ...   *)
Claim(w) ==
  /\ pc[w] = "claim"
  /\ \E j \in admitted :
       /\ IndexOf(j) = next
       /\ job' = [job EXCEPT ![w] = j]
  /\ next' = next + 1
  /\ answered' = [answered EXCEPT ![w] = 0]
  /\ pc' = [pc EXCEPT ![w] = "call"]
  /\ UNCHANGED <<runs, failure, made, refused>>

NoneLeft(w) ==
  /\ pc[w] = "claim"
  /\ next >= Cardinality(admitted)
  /\ next' = next + 1
  /\ pc' = [pc EXCEPT ![w] = "exit"]
  /\ UNCHANGED <<job, answered, runs, failure, made, refused>>

(* ... make its calls in order, ...                                        *)
Answer(w) ==
  LET c == answered[w] + 1 IN
  /\ pc[w] = "call"
  /\ made' = made \cup {<<job[w], c>>}
  /\ answered' = [answered EXCEPT ![w] = c]
  /\ pc' = [pc EXCEPT ![w] = IF c = NumCalls THEN "publish" ELSE "call"]
  /\ UNCHANGED <<next, job, runs, failure, refused>>

(* Mutant: a worker gives up on an error without storing it.               *)
RefuseSilently(w) ==
  LET call == <<job[w], answered[w] + 1>> IN
  /\ pc[w] = "call"
  /\ made' = made \cup {call}
  /\ refused' = refused \cup {call}
  /\ pc' = [pc EXCEPT ![w] = "exit"]
  /\ UNCHANGED <<next, job, answered, runs, failure>>

(* (the local runs of a job one of whose calls fails are dropped)          *)
Refuse(w) ==
  LET call == <<job[w], answered[w] + 1>> IN
  /\ pc[w] = "call"
  /\ made' = made \cup {call}
  /\ refused' = refused \cup {call}
  /\ pc' = [pc EXCEPT ![w] = "store"]
  /\ UNCHANGED <<next, job, answered, runs, failure>>

Store(w) ==
  /\ pc[w] = "store"
  /\ failure' = IF failure = NoCall THEN <<job[w], answered[w] + 1>> ELSE failure
  /\ pc' = [pc EXCEPT ![w] = "exit"]
  /\ UNCHANGED <<next, job, answered, runs, made, refused>>

(* ... and append the runs of the whole job to the shared list.            *)
Publish(w) ==
  /\ pc[w] = "publish"
  /\ runs' = [runs EXCEPT ![job[w]] =
                [c \in Calls |-> runs[job[w]][c] + IF c <= answered[w] THEN 1 ELSE 0]]
  /\ pc' = [pc EXCEPT ![w] = "look"]
  /\ UNCHANGED <<next, job, answered, failure, made, refused>>

Work(w) ==
  /\ phase = "pool"
  /\ w \in Spawned
  /\ Look(w) \/ Claim(w) \/ NoneLeft(w) \/ Answer(w) \/ Refuse(w) \/ Store(w) \/ Publish(w)
  /\ UNCHANGED <<builder, phase, checked, accepted, admitted>>

(* Mutant: the failure cell is read while workers are still running.       *)
JoinEarly ==
  /\ phase = "pool"
  /\ \E w \in Spawned : pc[w] = "exit"
  /\ phase' = IF failure = NoCall THEN "done" ELSE "failed"
  /\ UNCHANGED <<builder, checked, accepted, admitted, pool>>

(* The scope joins every worker; a stored failure discards the runs.       *)
Join ==
  /\ phase = "pool"
  /\ \A w \in Spawned : pc[w] = "exit"
  /\ phase' = IF failure = NoCall THEN "done" ELSE "failed"
  /\ UNCHANGED <<builder, checked, accepted, admitted, pool>>

Returned == phase \in {"done", "failed"} /\ UNCHANGED vars

Next ==
  \/ Preflight \/ PreflightFails \/ Admit
  \/ \E w \in Workers : Work(w)
  \/ Join
  \/ Returned

Spec == Init /\ [][Next]_vars

(* Oracle calls return and runnable threads are scheduled.                 *)
FairSpec ==
  /\ Spec
  /\ WF_vars(Preflight \/ PreflightFails) /\ WF_vars(Admit)
  /\ \A w \in Workers : WF_vars(Work(w))
  /\ WF_vars(Join)

-----------------------------------------------------------------------------
TypeOK ==
  /\ builder \in {"matrix", "matched"}
  /\ phase \in {"preflight", "pool", "done", "failed"}
  /\ checked \in 0..NumJobs
  /\ accepted \in SUBSET (1..checked)
  /\ admitted \in SUBSET Jobs
  /\ next \in Nat
  /\ pc \in [Workers -> {"look", "claim", "call", "store", "publish", "exit"}]
  /\ job \in [Workers -> Jobs \cup {0}]
  /\ answered \in [Workers -> 0..NumCalls]
  /\ runs \in [Jobs -> [Calls -> Nat]]
  /\ failure \in (Jobs \X Calls) \cup {NoCall}
  /\ made \in SUBSET (Jobs \X Calls)
  /\ refused \in SUBSET made

(* A matched family is admitted with all its profiles and variants or not  *)
(* at all, and a family refused at preflight gives its place to the next   *)
(* one: as many complete families are admitted as there are, up to the     *)
(* limit, and never a later one in place of an earlier one.                *)
AdmissionIsWhole ==
  (phase \in {"pool", "done"} /\ builder = "matched") =>
    LET Whole(f)  == \A j \in Jobs : FamilyAt[j] = f => j \in accepted
        whole     == {f \in {FamilyAt[j] : j \in Jobs} : Whole(f)}
        taken     == {FamilyAt[j] : j \in admitted}
        first(f)  == CHOOSE j \in Jobs : FamilyAt[j] = f /\ \A i \in Jobs : FamilyAt[i] = f => j <= i
    IN /\ taken \subseteq whole
       /\ \A j \in Jobs : FamilyAt[j] \in taken => j \in admitted
       /\ Cardinality(taken) <= MaxFamilies
       /\ taken # whole => Cardinality(taken) = MaxFamilies
       /\ \A f \in taken, g \in whole \ taken : first(f) < first(g)

(* However the workers interleave, a report holds every call of every      *)
(* admitted job exactly once and nothing else, and is returned only when   *)
(* no call at all returned an error.                                       *)
MatrixIsExact ==
  phase = "done" =>
    /\ refused = {}
    /\ \A j \in Jobs, c \in Calls : runs[j][c] = IF j \in admitted THEN 1 ELSE 0

(* The pool is an EvidenceMatrix: concurrency shows neither in the report  *)
(* nor, but for the choice among refused calls, in the error.              *)
Matrix == INSTANCE EvidenceMatrix WITH
  Calls    <- Jobs \X Calls,
  NotYet   <- [status |-> "running"],
  Rejected <- [status |-> "rejected"],
  wanted   <- admitted \X Calls,
  made     <- made,
  refused  <- refused,
  result   <-
    IF phase = "done" THEN [ok |-> TRUE, runs |-> [jc \in Jobs \X Calls |-> runs[jc[1]][jc[2]]]]
    ELSE IF phase # "failed" THEN [status |-> "running"]
    ELSE IF failure = NoCall THEN [status |-> "rejected"]
    ELSE [ok |-> FALSE, error |-> failure]

ImplementsMatrix == Matrix!Spec

(* The build always returns: no worker waits for a job or for another      *)
(* worker, whichever calls fail.                                           *)
BuildReturns == <>(phase \in {"done", "failed"})

=============================================================================
