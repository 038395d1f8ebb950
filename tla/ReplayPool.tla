----------------------------- MODULE ReplayPool -----------------------------
(***************************************************************************)
(* run_replay_jobs of generation/equivalence.rs: scoped workers claim jobs *)
(* through one atomic index, call the JAR, and send what it answered       *)
(* through an unbounded channel to the thread that started them.  The      *)
(* first error that thread receives makes it leave the loop, which drops   *)
(* the receiver while the workers are still running; the scope then waits  *)
(* for them.                                                               *)
(***************************************************************************)
EXTENDS Naturals, Sequences, FiniteSets

CONSTANTS
  NumJobs,     \* jobs, one for each preserved record
  MaxWorkers,  \* the `workers` argument, at least 1
  Answers,     \* what a call may return without error
  Error,       \* what a refused call returns
  NoAnswer

ASSUME ReplayAssumption ==
  /\ NumJobs \in Nat
  /\ MaxWorkers \in Nat \ {0}
  /\ Error \notin Answers /\ NoAnswer \notin Answers \cup {Error}

Jobs    == 1..NumJobs
Workers == 1..MaxWorkers

(* workers.min(jobs.len()).max(1) *)
Spawned == {w \in Workers : w <= NumJobs \/ w = 1}

VARIABLES
  phase,     \* the calling thread: "spawn", "receive", "join", "ok", "error"
  next,      \* the shared index
  pc,        \* worker -> "claim", "call", "send", "exit"
  job,       \* worker -> the job it holds
  answer,    \* worker -> what its call returned
  channel,   \* messages sent and not received
  open,      \* the receiver exists
  results,   \* the slots of the calling thread
  error,     \* the job whose error it received
  answered,  \* history: job -> what the JAR returned for it
  late       \* history: worker -> jobs claimed after the receiver was gone

vars == <<phase, next, pc, job, answer, channel, open, results, error, answered, late>>

Init ==
  /\ phase = "spawn"
  /\ next = 1
  /\ pc = [w \in Workers |-> "claim"]
  /\ job = [w \in Workers |-> 0]
  /\ answer = [w \in Workers |-> NoAnswer]
  /\ channel = <<>>
  /\ open = TRUE
  /\ results = [j \in Jobs |-> NoAnswer]
  /\ error = 0
  /\ answered = [j \in Jobs |-> NoAnswer]
  /\ late = [w \in Workers |-> 0]

Spawn ==
  /\ phase = "spawn"
  /\ phase' = "receive"
  /\ UNCHANGED <<next, pc, job, answer, channel, open, results, error, answered, late>>

-----------------------------------------------------------------------------
(* Mutant: the index is read and advanced in two steps.                    *)
ClaimShared(w) ==
  /\ pc[w] = "claim"
  /\ next <= NumJobs
  /\ job' = [job EXCEPT ![w] = next]
  /\ next' \in {next, next + 1}
  /\ pc' = [pc EXCEPT ![w] = "call"]
  /\ late' = [late EXCEPT ![w] = @ + IF open THEN 0 ELSE 1]
  /\ UNCHANGED <<answer, channel, open, answered>>

(* fetch_add, and the job at the index it returned.                        *)
Claim(w) ==
  /\ pc[w] = "claim"
  /\ next <= NumJobs
  /\ job' = [job EXCEPT ![w] = next]
  /\ next' = next + 1
  /\ pc' = [pc EXCEPT ![w] = "call"]
  /\ late' = [late EXCEPT ![w] = @ + IF open THEN 0 ELSE 1]
  /\ UNCHANGED <<answer, channel, open, answered>>

NoneLeft(w) ==
  /\ pc[w] = "claim"
  /\ next > NumJobs
  /\ next' = next + 1
  /\ pc' = [pc EXCEPT ![w] = "exit"]
  /\ UNCHANGED <<job, answer, channel, open, answered, late>>

(* oracle.check returns a run or an error; both are sent.                  *)
Call(w) ==
  /\ pc[w] = "call"
  /\ \E a \in Answers \cup {Error} :
       /\ answer' = [answer EXCEPT ![w] = a]
       /\ answered' = [answered EXCEPT ![job[w]] = a]
  /\ pc' = [pc EXCEPT ![w] = "send"]
  /\ UNCHANGED <<next, job, channel, open, late>>

(* Mutant: a failed send is ignored, the worker goes on with the next job. *)
SendIgnoringReceiver(w) ==
  /\ pc[w] = "send"
  /\ channel' = IF open THEN Append(channel, [job |-> job[w], answer |-> answer[w]]) ELSE channel
  /\ pc' = [pc EXCEPT ![w] = "claim"]
  /\ UNCHANGED <<next, job, answer, open, answered, late>>

(* Sending to a receiver that is gone fails, and the worker leaves.        *)
Send(w) ==
  /\ pc[w] = "send"
  /\ channel' = IF open THEN Append(channel, [job |-> job[w], answer |-> answer[w]]) ELSE channel
  /\ pc' = [pc EXCEPT ![w] = IF open THEN "claim" ELSE "exit"]
  /\ UNCHANGED <<next, job, answer, open, answered, late>>

Work(w) ==
  /\ phase \in {"receive", "join"}
  /\ w \in Spawned
  /\ Claim(w) \/ NoneLeft(w) \/ Call(w) \/ Send(w)
  /\ UNCHANGED <<phase, results, error>>

-----------------------------------------------------------------------------
Receive ==
  /\ phase = "receive"
  /\ channel # <<>>
  /\ Head(channel).answer # Error
  /\ results' = [results EXCEPT ![Head(channel).job] = Head(channel).answer]
  /\ channel' = Tail(channel)
  /\ UNCHANGED <<phase, next, pc, job, answer, open, error, answered, late>>

(* `result?` leaves the loop, which owns the receiver.                     *)
ReceiveError ==
  /\ phase = "receive"
  /\ channel # <<>>
  /\ Head(channel).answer = Error
  /\ error' = Head(channel).job
  /\ channel' = <<>>
  /\ open' = FALSE
  /\ phase' = "join"
  /\ UNCHANGED <<next, pc, job, answer, results, answered, late>>

(* Mutant: the loop ends as soon as it finds the channel empty.            *)
DisconnectedEarly ==
  /\ phase = "receive"
  /\ channel = <<>>
  /\ \E w \in Spawned : pc[w] = "exit"
  /\ phase' = "join"
  /\ UNCHANGED <<next, pc, job, answer, channel, open, results, error, answered, late>>

(* Mutant: the calling thread keeps its own sender during the loop.        *)
DisconnectedNever ==
  /\ phase = "receive"
  /\ channel = <<>>
  /\ ~open
  /\ phase' = "join"
  /\ UNCHANGED <<next, pc, job, answer, channel, open, results, error, answered, late>>

(* The loop ends when nothing is left to receive and every sender is gone: *)
(* the calling thread dropped its own before the loop.                     *)
Disconnected ==
  /\ phase = "receive"
  /\ channel = <<>>
  /\ \A w \in Spawned : pc[w] = "exit"
  /\ phase' = "join"
  /\ UNCHANGED <<next, pc, job, answer, channel, open, results, error, answered, late>>

(* The scope has joined every worker.  An empty slot is an error as well.  *)
Return ==
  /\ phase = "join"
  /\ \A w \in Spawned : pc[w] = "exit"
  /\ phase' = IF error = 0 /\ \A j \in Jobs : results[j] # NoAnswer THEN "ok" ELSE "error"
  /\ UNCHANGED <<next, pc, job, answer, channel, open, results, error, answered, late>>

Returned == phase \in {"ok", "error"} /\ UNCHANGED vars

Next ==
  \/ Spawn
  \/ \E w \in Workers : Work(w)
  \/ Receive \/ ReceiveError \/ Disconnected \/ Return
  \/ Returned

Spec == Init /\ [][Next]_vars

(* JAR processes return, and runnable threads are scheduled.               *)
FairSpec ==
  /\ Spec
  /\ WF_vars(Spawn) /\ WF_vars(Receive \/ ReceiveError \/ Disconnected) /\ WF_vars(Return)
  /\ \A w \in Workers : WF_vars(Work(w))

-----------------------------------------------------------------------------
TypeOK ==
  /\ phase \in {"spawn", "receive", "join", "ok", "error"}
  /\ next \in Nat \ {0}
  /\ pc \in [Workers -> {"claim", "call", "send", "exit"}]
  /\ job \in [Workers -> Jobs \cup {0}]
  /\ answer \in [Workers -> Answers \cup {Error, NoAnswer}]
  /\ channel \in Seq([job : Jobs, answer : Answers \cup {Error}])
  /\ open \in BOOLEAN
  /\ results \in [Jobs -> Answers \cup {NoAnswer}]
  /\ error \in Jobs \cup {0}
  /\ answered \in [Jobs -> Answers \cup {Error, NoAnswer}]
  /\ late \in [Workers -> Nat]

(* Whatever the workers' order, a replay that succeeds holds at each index *)
(* what the JAR answered for the record of that index, and nothing was     *)
(* refused; the error "worker did not return replay index" cannot arise:   *)
(* a replay that fails does so with an error of the JAR.                   *)
EachSlotItsAnswer ==
  /\ phase = "ok" => results = answered /\ \A j \in Jobs : answered[j] \in Answers
  /\ phase = "error" => error # 0 /\ answered[error] = Error

(* After an error has been received no worker starts more than one further *)
(* JAR process: the failing send stops it.                                 *)
StopsPromptly == \A w \in Workers : late[w] <= 1

(* The replay always returns: neither a worker whose receiver is gone nor  *)
(* the calling thread waits for ever.                                      *)
ReplayReturns == <>(phase \in {"ok", "error"})

(* The replay is an EvidenceMatrix of one call a job.                      *)
Matrix == INSTANCE EvidenceMatrix WITH
  Calls    <- Jobs,
  NotYet   <- [status |-> "running"],
  Rejected <- [status |-> "rejected"],
  wanted   <- IF phase = "spawn" THEN {} ELSE Jobs,
  made     <- {j \in Jobs : answered[j] # NoAnswer},
  refused  <- {j \in Jobs : answered[j] = Error},
  result   <- IF phase = "ok" THEN
                [ok |-> TRUE, runs |-> [j \in Jobs |-> IF results[j] # NoAnswer THEN 1 ELSE 0]]
              ELSE IF phase = "error" THEN [ok |-> FALSE, error |-> error]
              ELSE [status |-> "running"]

ImplementsMatrix == Matrix!Spec

=============================================================================
