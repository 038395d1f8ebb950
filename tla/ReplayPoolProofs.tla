-------------------------- MODULE ReplayPoolProofs --------------------------
(***************************************************************************)
(* For any number of jobs and workers: a replay that succeeds has at every *)
(* index what the JAR answered for it, one that fails does so with an      *)
(* error of the JAR, no worker starts a second call after an error was     *)
(* received, and every step is one of the abstract matrix.                 *)
(***************************************************************************)
EXTENDS ReplayPool, TLAPS

Messages == [job : Jobs, answer : Answers \cup {Error}]

LEMMA Appended ==
  ASSUME NEW S, NEW s \in Seq(S), NEW m \in S
  PROVE  /\ Append(s, m) \in Seq(S)
         /\ Len(s) \in Nat /\ DOMAIN s = 1 .. Len(s)
         /\ DOMAIN Append(s, m) = 1 .. (Len(s) + 1)
         /\ \A i \in DOMAIN s : Append(s, m)[i] = s[i]
         /\ Append(s, m)[Len(s) + 1] = m
  OBVIOUS

LEMMA Taken ==
  ASSUME NEW S, NEW s \in Seq(S), s # <<>>
  PROVE  /\ Head(s) \in S /\ Head(s) = s[1] /\ 1 \in DOMAIN s
         /\ Tail(s) \in Seq(S)
         /\ Len(s) \in Nat \ {0} /\ DOMAIN s = 1 .. Len(s)
         /\ DOMAIN Tail(s) = 1 .. (Len(s) - 1)
         /\ \A i \in DOMAIN Tail(s) : Tail(s)[i] = s[i + 1] /\ i + 1 \in DOMAIN s
  OBVIOUS

LEMMA ChannelShape == TypeOK => channel \in Seq(Messages)
  BY DEF TypeOK, Messages

-----------------------------------------------------------------------------
(* The state keeps its shape, and a worker that calls or sends has a job.  *)
Holds(w) == pc[w] \in {"call", "send"}

LocalJobs ==
  \A w \in Workers :
    /\ Holds(w) => job[w] \in Jobs
    /\ pc[w] = "send" => answer[w] \in Answers \cup {Error}

LEMMA WorkTyping ==
  ASSUME TypeOK, LocalJobs, NEW w \in Workers, Work(w)
  PROVE  TypeOK' /\ LocalJobs'
<1> USE ReplayAssumption DEF TypeOK, LocalJobs, Holds
<1>0. UNCHANGED <<phase, results, error>>
  BY DEF Work
<1>1. CASE Claim(w)
  <2>1. next \in Jobs /\ late[w] + (IF open THEN 0 ELSE 1) \in Nat
    BY <1>1 DEF Claim, Jobs
  <2> QED BY <1>0, <1>1, <2>1 DEF Claim
<1>2. CASE NoneLeft(w)
  BY <1>0, <1>2 DEF NoneLeft
<1>3. CASE Call(w)
  BY <1>0, <1>3 DEF Call
<1>4. CASE Send(w)
  <2>1. [job |-> job[w], answer |-> answer[w]] \in Messages
    BY <1>4 DEF Send, Messages
  <2>2. channel' \in Seq(Messages)
    BY <1>4, <2>1, ChannelShape, Appended DEF Send
  <2> QED BY <1>0, <1>4, <2>2 DEF Send, Messages
<1> QED
  BY <1>1, <1>2, <1>3, <1>4 DEF Work

LEMMA TypingStep ==
  ASSUME TypeOK, LocalJobs, [Next]_vars
  PROVE  TypeOK' /\ LocalJobs'
<1> USE ReplayAssumption
<1>1. CASE Spawn
  BY <1>1 DEF Spawn, TypeOK, LocalJobs, Holds
<1>2. ASSUME NEW w \in Workers, Work(w) PROVE TypeOK' /\ LocalJobs'
  BY <1>2, WorkTyping
<1>3. CASE Receive
  <2>1. Head(channel) \in Messages /\ channel' \in Seq(Messages)
    BY <1>3, ChannelShape, Taken DEF Receive
  <2>2. Head(channel).job \in Jobs /\ Head(channel).answer \in Answers
    BY <1>3, <2>1 DEF Receive, Messages
  <2> QED BY <1>3, <2>1, <2>2 DEF Receive, TypeOK, LocalJobs, Holds, Messages
<1>4. CASE ReceiveError
  <2>1. Head(channel) \in Messages
    BY <1>4, ChannelShape, Taken DEF ReceiveError
  <2>2. error' \in Jobs /\ channel' \in Seq([job : Jobs, answer : Answers \cup {Error}])
    BY <1>4, <2>1 DEF ReceiveError, Messages
  <2> HIDE ReplayAssumption
  <2> QED BY <1>4, <2>2 DEF ReceiveError, TypeOK, LocalJobs, Holds
<1>5. CASE Disconnected
  BY <1>5 DEF Disconnected, TypeOK, LocalJobs, Holds
<1>6. CASE Return
  BY <1>6 DEF Return, TypeOK, LocalJobs, Holds
<1>7. CASE UNCHANGED vars
  BY <1>7 DEF vars, TypeOK, LocalJobs, Holds
<1> QED
  BY <1>1, <1>2, <1>3, <1>4, <1>5, <1>6, <1>7 DEF Next, Returned

LEMMA TypingLocal == Spec => [](TypeOK /\ LocalJobs)
<1>1. Init => TypeOK /\ LocalJobs
  BY ReplayAssumption DEF Init, TypeOK, LocalJobs, Holds, Jobs, Workers
<1>2. TypeOK /\ LocalJobs /\ [Next]_vars => (TypeOK /\ LocalJobs)'
  BY TypingStep
<1> QED
  BY <1>1, <1>2, PTL DEF Spec

(* The variables of a replay keep their types.                             *)
THEOREM ReplayTyping == Spec => []TypeOK
  BY TypingLocal, PTL

-----------------------------------------------------------------------------
(* The strengthening.                                                      *)

(* A job that is held is below the index, by one worker only; before its   *)
(* call nothing has answered it, afterwards its holder has the answer.     *)
Held ==
  /\ \A w \in Workers : Holds(w) => job[w] < next
  /\ \A v, w \in Workers : Holds(v) /\ Holds(w) /\ job[v] = job[w] => v = w
  /\ \A w \in Workers : pc[w] = "call" => answered[job[w]] = NoAnswer
  /\ \A w \in Workers : pc[w] = "send" => answered[job[w]] = answer[w]
  /\ \A j \in Jobs : j >= next => answered[j] = NoAnswer

(* What is in the channel and in the slots is what the JAR answered.       *)
Truthful ==
  /\ \A i \in DOMAIN channel : answered[channel[i].job] = channel[i].answer
  /\ \A j \in Jobs : results[j] # NoAnswer => answered[j] = results[j]

InChannel(j) == \E i \in DOMAIN channel : channel[i].job = j
HeldBySome(j) == \E w \in Workers : Holds(w) /\ job[w] = j

(* While the receiver lives, a job that was claimed is held, on its way or *)
(* in its slot; and a worker leaves only when no job is left.              *)
NoneLost ==
  open =>
    /\ \A j \in Jobs : j < next => HeldBySome(j) \/ InChannel(j) \/ results[j] # NoAnswer
    /\ \A w \in Workers : pc[w] = "exit" => next > NumJobs

(* The receiver is gone exactly when an error of the JAR was received.     *)
Closed ==
  /\ open <=> error = 0
  /\ error # 0 => answered[error] = Error /\ phase \in {"join", "error"}

Ends ==
  /\ phase \in {"join", "ok"} /\ open => \A j \in Jobs : results[j] # NoAnswer
  /\ phase = "ok" => open
  /\ phase = "error" => ~open

(* Workers that are not started do nothing.                                *)
Idle == \A w \in Workers \ Spawned : pc[w] = "claim"

ReplayInv == Held /\ Truthful /\ NoneLost /\ Closed /\ Ends /\ Idle

LEMMA WorkKeeps ==
  ASSUME TypeOK, LocalJobs, ReplayInv, NEW w \in Workers, Work(w)
  PROVE  ReplayInv'
<1> USE ReplayAssumption DEF TypeOK, LocalJobs, Holds
<1>0. phase \in {"receive", "join"} /\ w \in Spawned /\ UNCHANGED <<phase, results, error>>
  BY DEF Work
<1>1. CASE Claim(w)
  <2> USE <1>0, <1>1 DEF Claim
  <2>1. next \in Jobs
    BY DEF Jobs
  <2>2. Held'
    BY <2>1 DEF ReplayInv, Held, Jobs
  <2>3. Truthful' /\ Closed' /\ Ends' /\ Idle'
    BY DEF ReplayInv, Truthful, Closed, Ends, Idle
  <2>4. NoneLost'
    <3> SUFFICES ASSUME open
                 PROVE  /\ \A j \in Jobs : j < next + 1 => HeldBySome(j)' \/ InChannel(j) \/ results[j] # NoAnswer
                        /\ \A v \in Workers : pc'[v] = "exit" => next + 1 > NumJobs
      BY DEF NoneLost, InChannel
    <3>1. ASSUME NEW j \in Jobs, j < next + 1
          PROVE  HeldBySome(j)' \/ InChannel(j) \/ results[j] # NoAnswer
      <4>1. CASE j = next
        BY <4>1 DEF HeldBySome
      <4>2. CASE j # next
        <5>1. j < next
          BY <3>1, <4>2 DEF Jobs
        <5>2. HeldBySome(j) => HeldBySome(j)'
          BY DEF HeldBySome
        <5> QED BY <5>1, <5>2 DEF ReplayInv, NoneLost
      <4> QED BY <4>1, <4>2
    <3> QED BY <3>1 DEF ReplayInv, NoneLost
  <2> QED BY <2>2, <2>3, <2>4 DEF ReplayInv
<1>2. CASE NoneLeft(w)
  <2> USE <1>0, <1>2 DEF NoneLeft
  <2>1. Held'
    BY DEF ReplayInv, Held, Jobs
  <2>2. Truthful' /\ Closed' /\ Ends' /\ Idle'
    BY DEF ReplayInv, Truthful, Closed, Ends, Idle
  <2>3. \A j \in Jobs : j < next /\ (HeldBySome(j) => HeldBySome(j)')
    BY DEF HeldBySome, Jobs
  <2>4. NoneLost'
    BY <2>3 DEF ReplayInv, NoneLost, InChannel
  <2> QED BY <2>1, <2>2, <2>4 DEF ReplayInv
<1>3. CASE Call(w)
  <2> USE <1>0, <1>3 DEF Call
  <2>1. job[w] \in Jobs /\ answered[job[w]] = NoAnswer
    BY DEF ReplayInv, Held
  <2>2. Held'
    <3>1. PICK a \in Answers \cup {Error} :
            /\ answer' = [answer EXCEPT ![w] = a]
            /\ answered' = [answered EXCEPT ![job[w]] = a]
      OBVIOUS
    <3>2. \A v \in Workers : Holds(v)' <=> Holds(v)
      OBVIOUS
    <3>3. \A v \in Workers : v # w /\ Holds(v) => job[v] # job[w]
      BY DEF ReplayInv, Held
    <3>4. (\A v \in Workers : Holds(v) => job[v] < next)'
      BY <3>2 DEF ReplayInv, Held
    <3>5. (\A u, v \in Workers : Holds(u) /\ Holds(v) /\ job[u] = job[v] => u = v)'
      BY <3>2 DEF ReplayInv, Held
    <3>6. (\A v \in Workers : pc[v] = "call" => answered[job[v]] = NoAnswer)'
      BY <2>1, <3>1, <3>3 DEF ReplayInv, Held
    <3>7. (\A v \in Workers : pc[v] = "send" => answered[job[v]] = answer[v])'
      BY <2>1, <3>1, <3>3 DEF ReplayInv, Held
    <3>8. (\A j \in Jobs : j >= next => answered[j] = NoAnswer)'
      BY <2>1 DEF ReplayInv, Held, Jobs
    <3> QED BY <3>4, <3>5, <3>6, <3>7, <3>8 DEF Held
  <2>3. ASSUME NEW i \in DOMAIN channel
        PROVE  channel[i].job \in Jobs /\ channel[i].answer # NoAnswer
    <3>1. channel[i] \in Messages
      BY ChannelShape
    <3> HIDE DEF TypeOK, LocalJobs, Call
    <3> QED BY <3>1 DEF Messages
  <2>4. Truthful'
    <3>1. \A j \in Jobs : j # job[w] => answered'[j] = answered[j]
      BY <2>1
    <3>2. ASSUME NEW i \in DOMAIN channel PROVE answered'[channel[i].job] = channel[i].answer
      <4>1. answered[channel[i].job] = channel[i].answer
        BY DEF ReplayInv, Truthful
      <4> HIDE DEF TypeOK, LocalJobs, Call
      <4> QED BY <2>1, <2>3, <3>1, <4>1
    <3>3. ASSUME NEW j \in Jobs, results[j] # NoAnswer PROVE answered'[j] = results[j]
      <4>1. answered[j] = results[j]
        BY <3>3 DEF ReplayInv, Truthful
      <4> HIDE DEF TypeOK, LocalJobs, Call
      <4> QED BY <2>1, <3>1, <3>3, <4>1
    <3>4. UNCHANGED <<channel, results>>
      OBVIOUS
    <3> HIDE DEF TypeOK, LocalJobs, Call
    <3> QED BY <3>2, <3>3, <3>4 DEF Truthful
  <2>5. Closed'
    BY <2>1 DEF ReplayInv, Closed
  <2>6. Ends' /\ Idle'
    BY DEF ReplayInv, Ends, Idle
  <2>7. NoneLost'
    BY DEF ReplayInv, NoneLost, InChannel, HeldBySome
  <2> QED BY <2>2, <2>4, <2>5, <2>6, <2>7 DEF ReplayInv
<1>4. CASE Send(w)
  <2> USE <1>0, <1>4 DEF Send
  <2>1. Held'
    BY DEF ReplayInv, Held
  <2>2. Closed' /\ Ends' /\ Idle'
    BY DEF ReplayInv, Closed, Ends, Idle
  <2>3. CASE open
    <3> DEFINE m == [job |-> job[w], answer |-> answer[w]]
    <3>1. channel' = Append(channel, m) /\ m.job = job[w] /\ m.answer = answer[w] /\ job[w] \in Jobs
      BY <2>3
    <3>2. /\ DOMAIN channel' = 1 .. (Len(channel) + 1) /\ DOMAIN channel = 1 .. Len(channel)
          /\ \A i \in DOMAIN channel : channel'[i] = channel[i]
          /\ channel'[Len(channel) + 1] = m
          /\ Len(channel) \in Nat
      <4>1. m \in Messages
        BY DEF Messages
      <4> QED BY <3>1, <4>1, ChannelShape, Appended
    <3>3. Truthful'
      <4>1. answered[m.job] = m.answer
        BY <3>1 DEF ReplayInv, Held
      <4>2. ASSUME NEW i \in DOMAIN channel' PROVE answered[channel'[i].job] = channel'[i].answer
        <5>1. i \in DOMAIN channel \/ i = Len(channel) + 1
          BY <3>2
        <5> QED BY <3>2, <4>1, <5>1 DEF ReplayInv, Truthful
      <4> QED BY <4>2 DEF ReplayInv, Truthful
    <3>4. NoneLost'
      <4>1. ASSUME NEW j \in Jobs, j < next
            PROVE  HeldBySome(j)' \/ InChannel(j)' \/ results[j] # NoAnswer
        <5>1. CASE HeldBySome(j)
          <6>1. PICK v \in Workers : Holds(v) /\ job[v] = j
            BY <5>1 DEF HeldBySome
          <6>2. CASE v = w
            <7>1. channel'[Len(channel) + 1].job = j
              BY <3>1, <3>2, <6>1, <6>2
            <7>2. Len(channel) + 1 \in DOMAIN channel'
              BY <3>2
            <7> HIDE DEF TypeOK, LocalJobs, Holds, Send, m
            <7> QED BY <7>1, <7>2 DEF InChannel
          <6>3. CASE v # w
            BY <6>1, <6>3 DEF HeldBySome
          <6> QED BY <6>2, <6>3
        <5>2. CASE InChannel(j)
          BY <3>2, <5>2 DEF InChannel
        <5> QED BY <2>3, <4>1, <5>1, <5>2 DEF ReplayInv, NoneLost
      <4>2. \A v \in Workers : pc'[v] = "exit" => next > NumJobs
        BY <2>3 DEF ReplayInv, NoneLost
      <4> QED BY <4>1, <4>2 DEF NoneLost
    <3> QED BY <2>1, <2>2, <3>3, <3>4 DEF ReplayInv
  <2>4. CASE ~open
    <3>1. Truthful' /\ NoneLost'
      BY <2>4 DEF ReplayInv, Truthful, NoneLost
    <3> QED BY <2>1, <2>2, <3>1 DEF ReplayInv
  <2> QED BY <2>3, <2>4
<1> QED
  BY <1>1, <1>2, <1>3, <1>4 DEF Work

(* What the calling thread receives goes into its slot.                    *)
LEMMA ReceiveKeeps ==
  ASSUME TypeOK, LocalJobs, ReplayInv, Receive
  PROVE  ReplayInv'
<1> USE ReplayAssumption DEF Receive
<1> DEFINE m == Head(channel)
<1>1. /\ m \in Messages /\ m = channel[1] /\ 1 \in DOMAIN channel
      /\ Len(channel) \in Nat \ {0} /\ DOMAIN channel = 1 .. Len(channel)
      /\ DOMAIN channel' = 1 .. (Len(channel) - 1)
      /\ \A i \in DOMAIN channel' : channel'[i] = channel[i + 1] /\ i + 1 \in DOMAIN channel
  BY ChannelShape, Taken
<1>2. m.job \in Jobs /\ m.answer \in Answers /\ m.answer # NoAnswer /\ answered[m.job] = m.answer
  BY <1>1 DEF Messages, ReplayInv, Truthful
<1>3. results'[m.job] = m.answer /\ \A j \in Jobs : j # m.job => results'[j] = results[j]
  BY <1>2 DEF TypeOK
<1>4. Truthful'
  BY <1>1, <1>2, <1>3 DEF ReplayInv, Truthful
<1>5. Held' /\ Closed' /\ Idle'
  BY DEF ReplayInv, Held, Closed, Idle, Holds
<1>6. Ends'
  BY DEF ReplayInv, Ends
<1>7. NoneLost'
  <2>1. ASSUME NEW j \in Jobs, InChannel(j) PROVE InChannel(j)' \/ results'[j] # NoAnswer
    <3>1. PICK i \in DOMAIN channel : channel[i].job = j
      BY <2>1 DEF InChannel
    <3>2. CASE i = 1
      BY <1>1, <1>2, <1>3, <3>1, <3>2
    <3>3. CASE i # 1
      <4>1. i - 1 \in DOMAIN channel' /\ channel'[i - 1] = channel[i]
        BY <1>1, <3>3
      <4> QED BY <3>1, <4>1 DEF InChannel
    <3> QED BY <3>2, <3>3
  <2>2. \A j \in Jobs : results[j] # NoAnswer => results'[j] # NoAnswer
    BY <1>2, <1>3
  <2>3. \A j \in Jobs : HeldBySome(j)' <=> HeldBySome(j)
    BY DEF HeldBySome, Holds
  <2> QED BY <2>1, <2>2, <2>3 DEF ReplayInv, NoneLost
<1> QED
  BY <1>4, <1>5, <1>6, <1>7 DEF ReplayInv

LEMMA ReceiveErrorKeeps ==
  ASSUME TypeOK, LocalJobs, ReplayInv, ReceiveError
  PROVE  ReplayInv'
<1> USE ReplayAssumption DEF ReceiveError
<1>1. Head(channel) \in Messages /\ Head(channel) = channel[1] /\ 1 \in DOMAIN channel
  BY ChannelShape, Taken
<1>2. error' \in Jobs /\ error' # 0 /\ answered[error'] = Error
  BY <1>1 DEF Messages, ReplayInv, Truthful, Jobs
<1>3. Held' /\ Idle'
  BY DEF ReplayInv, Held, Holds, Idle
<1>4. Truthful' /\ NoneLost' /\ Ends'
  BY DEF ReplayInv, Truthful, NoneLost, Ends
<1>5. Closed'
  BY <1>2 DEF Closed
<1> QED
  BY <1>3, <1>4, <1>5 DEF ReplayInv

(* When every sender is gone and nothing is left to receive, every slot    *)
(* has its answer, for no job was lost.                                    *)
LEMMA DisconnectedKeeps ==
  ASSUME TypeOK, LocalJobs, ReplayInv, Disconnected
  PROVE  ReplayInv'
<1> USE ReplayAssumption DEF Disconnected
<1>1. Held' /\ Truthful' /\ Closed' /\ Idle'
  BY DEF ReplayInv, Held, Holds, Truthful, Closed, Idle
<1>2. NoneLost'
  BY DEF ReplayInv, NoneLost, HeldBySome, InChannel, Holds
<1>3. 1 \in Workers /\ 1 \in Spawned /\ pc[1] = "exit"
  BY DEF Workers, Spawned
<1>4. \A w \in Workers : ~Holds(w)
  BY DEF ReplayInv, Idle, Holds
<1>5. open => \A j \in Jobs : results[j] # NoAnswer
  <2> SUFFICES ASSUME open, NEW j \in Jobs PROVE results[j] # NoAnswer
    OBVIOUS
  <2>1. next > NumJobs
    BY <1>3 DEF ReplayInv, NoneLost
  <2>2. j < next
    BY <2>1 DEF Jobs, TypeOK
  <2>3. ~HeldBySome(j) /\ ~InChannel(j)
    BY <1>4 DEF HeldBySome, InChannel
  <2> QED BY <2>2, <2>3 DEF ReplayInv, NoneLost
<1>6. Ends'
  BY <1>5 DEF Ends
<1> QED
  BY <1>1, <1>2, <1>6 DEF ReplayInv

LEMMA ReplayStep ==
  ASSUME TypeOK, LocalJobs, ReplayInv, [Next]_vars
  PROVE  ReplayInv'
<1>1. CASE Spawn
  BY <1>1 DEF Spawn, ReplayInv, Held, Holds, Truthful, NoneLost, HeldBySome, InChannel, Closed, Ends, Idle
<1>2. ASSUME NEW w \in Workers, Work(w) PROVE ReplayInv'
  BY <1>2, WorkKeeps
<1>3. CASE Receive
  BY <1>3, ReceiveKeeps
<1>4. CASE ReceiveError
  BY <1>4, ReceiveErrorKeeps
<1>5. CASE Disconnected
  BY <1>5, DisconnectedKeeps
<1>6. CASE Return
  <2>1. Held' /\ Truthful' /\ Idle'
    BY <1>6 DEF Return, ReplayInv, Held, Holds, Truthful, Idle
  <2>2. NoneLost'
    BY <1>6 DEF Return, ReplayInv, NoneLost, HeldBySome, InChannel, Holds
  <2>3. Closed' /\ Ends'
    BY <1>6 DEF Return, ReplayInv, Closed, Ends
  <2> QED BY <2>1, <2>2, <2>3 DEF ReplayInv
<1>7. CASE UNCHANGED vars
  BY <1>7 DEF vars, ReplayInv, Held, Holds, Truthful, NoneLost, HeldBySome, InChannel, Closed, Ends, Idle
<1> QED
  BY <1>1, <1>2, <1>3, <1>4, <1>5, <1>6, <1>7 DEF Next, Returned

LEMMA ReplayInvariant == Spec => [](TypeOK /\ LocalJobs /\ ReplayInv)
<1>1. Init => ReplayInv
  BY ReplayAssumption DEF Init, ReplayInv, Held, Holds, Truthful, NoneLost, Closed, Ends, Idle, Jobs, Workers
<1>2. TypeOK /\ LocalJobs /\ ReplayInv /\ [Next]_vars => ReplayInv'
  BY ReplayStep
<1> QED
  BY <1>1, <1>2, TypingLocal, PTL DEF Spec

(* For any number of jobs and workers and any order of theirs, a replay    *)
(* that succeeds holds at each index what the JAR answered for it, and one *)
(* that fails names an error of the JAR.                                   *)
THEOREM ReplaySlots == Spec => []EachSlotItsAnswer
<1>1. TypeOK /\ ReplayInv => EachSlotItsAnswer
  <2> SUFFICES ASSUME TypeOK, ReplayInv PROVE EachSlotItsAnswer
    OBVIOUS
  <2>1. ASSUME phase = "ok" PROVE results = answered /\ \A j \in Jobs : answered[j] \in Answers
    <3>1. \A j \in Jobs : results[j] # NoAnswer /\ answered[j] = results[j]
      BY <2>1 DEF ReplayInv, Ends, Truthful
    <3> QED BY <3>1 DEF TypeOK
  <2>2. phase = "error" => error # 0 /\ answered[error] = Error
    BY DEF ReplayInv, Ends, Closed
  <2> QED BY <2>1, <2>2 DEF EachSlotItsAnswer
<1> QED
  BY <1>1, ReplayInvariant, PTL

-----------------------------------------------------------------------------
(* After the receiver is gone a worker that claims one more job does not   *)
(* come back for another.                                                  *)
LastClaim ==
  \A w \in Workers :
    /\ late[w] \in {0, 1}
    /\ open => late[w] = 0
    /\ pc[w] = "claim" => late[w] = 0

LEMMA LastClaimStep ==
  ASSUME TypeOK, LastClaim, [Next]_vars
  PROVE  LastClaim'
<1> USE DEF TypeOK, LastClaim
<1>1. CASE Spawn
  BY <1>1 DEF Spawn
<1>2. ASSUME NEW w \in Workers, Work(w) PROVE LastClaim'
  <2>1. CASE Claim(w)
    BY <2>1 DEF Claim
  <2>2. CASE NoneLeft(w)
    BY <2>2 DEF NoneLeft
  <2>3. CASE Call(w)
    BY <2>3 DEF Call
  <2>4. CASE Send(w)
    BY <2>4 DEF Send
  <2> QED BY <1>2, <2>1, <2>2, <2>3, <2>4 DEF Work
<1>3. CASE Receive
  BY <1>3 DEF Receive
<1>4. CASE ReceiveError
  BY <1>4 DEF ReceiveError
<1>5. CASE Disconnected
  BY <1>5 DEF Disconnected
<1>6. CASE Return
  BY <1>6 DEF Return
<1>7. CASE UNCHANGED vars
  BY <1>7 DEF vars
<1> QED
  BY <1>1, <1>2, <1>3, <1>4, <1>5, <1>6, <1>7 DEF Next, Returned

(* After an error was received no worker starts more than one further JAR  *)
(* process, however many jobs are left.                                    *)
THEOREM ReplayStopsPromptly == Spec => []StopsPromptly
<1>1. Init => LastClaim
  BY DEF Init, LastClaim
<1>2. TypeOK /\ LastClaim /\ [Next]_vars => LastClaim'
  BY LastClaimStep
<1>3. LastClaim => StopsPromptly
  BY DEF LastClaim, StopsPromptly
<1> QED
  BY <1>1, <1>2, <1>3, ReplayTyping, PTL DEF Spec

-----------------------------------------------------------------------------
(* The refinement.  What the abstract build sees of a worker's step is the *)
(* return of one call; what it sees of the calling thread is its start and *)
(* its result.                                                             *)

LEMMA WorkIsACall ==
  ASSUME TypeOK, LocalJobs, ReplayInv, NEW w \in Workers, Work(w)
  PROVE  [Matrix!Next]_Matrix!vars
<1> USE ReplayAssumption
<1>0. phase \in {"receive", "join"} /\ UNCHANGED <<phase, results, error>>
  BY DEF Work
<1>1. CASE Call(w)
  <2>1. job[w] \in Jobs /\ answered[job[w]] = NoAnswer
    BY <1>1 DEF Call, LocalJobs, Holds, ReplayInv, Held
  <2>2. PICK a \in Answers \cup {Error} : answered' = [answered EXCEPT ![job[w]] = a]
    BY <1>1 DEF Call
  <2>3. /\ answered'[job[w]] = a
        /\ \A j \in Jobs : j # job[w] => answered'[j] = answered[j]
    BY <2>1, <2>2 DEF TypeOK
  <2>4. {j \in Jobs : answered'[j] # NoAnswer} = {j \in Jobs : answered[j] # NoAnswer} \cup {job[w]}
    BY <2>1, <2>3
  <2>5. {j \in Jobs : answered'[j] = Error} \in
          {{j \in Jobs : answered[j] = Error}, {j \in Jobs : answered[j] = Error} \cup {job[w]}}
    <3>1. CASE a = Error
      BY <2>1, <2>3, <3>1
    <3>2. CASE a # Error
      BY <2>1, <2>3, <3>2
    <3> QED BY <3>1, <3>2
  <2>6. PICK c \in Jobs : c = job[w]
    BY <2>1
  <2>7. Matrix!Call(c)
    BY <1>0, <2>1, <2>4, <2>5, <2>6 DEF Matrix!Call
  <2>8. Matrix!Next
    BY <2>7 DEF Matrix!Next
  <2> QED BY <2>8
<1>2. CASE Claim(w) \/ NoneLeft(w) \/ Send(w)
  BY <1>0, <1>2 DEF Claim, NoneLeft, Send, Matrix!vars
<1> QED
  BY <1>1, <1>2 DEF Work

(* What is returned is every answer, or the error of a refused call.       *)
LEMMA ReturnDelivers ==
  ASSUME TypeOK, ReplayInv, Return
  PROVE  Matrix!Deliver \/ Matrix!Fail
<1> USE ReplayAssumption
<1>0. phase = "join" /\ UNCHANGED <<answered, results, error>>
  BY DEF Return
<1>1. CASE phase' = "ok"
  <2>1. \A j \in Jobs : results[j] # NoAnswer /\ answered[j] = results[j]
    BY <1>1 DEF Return, ReplayInv, Truthful
  <2>2. \A j \in Jobs : answered[j] # NoAnswer /\ answered[j] # Error
    BY <2>1 DEF TypeOK
  <2>3. [j \in Jobs |-> IF results[j] # NoAnswer THEN 1 ELSE 0] = [j \in Jobs |-> IF j \in Jobs THEN 1 ELSE 0]
    BY <2>1
  <2>4. {j \in Jobs : answered[j] # NoAnswer} = Jobs /\ {j \in Jobs : answered[j] = Error} = {}
    BY <2>2
  <2>5. Matrix!Deliver
    BY <1>0, <1>1, <2>3, <2>4 DEF Matrix!Deliver, Matrix!Report
  <2> QED BY <2>5
<1>2. CASE phase' # "ok"
  <2>1. phase' = "error"
    BY <1>2 DEF Return
  <2>2. error \in Jobs /\ answered[error] = Error
    <3>1. open => \A j \in Jobs : results[j] # NoAnswer
      BY <1>0 DEF ReplayInv, Ends
    <3>2. error # 0
      BY <1>2, <3>1 DEF Return, ReplayInv, Closed
    <3> QED BY <3>2 DEF ReplayInv, Closed, TypeOK
  <2>3. Matrix!Fail
    BY <1>0, <2>1, <2>2 DEF Matrix!Fail, Matrix!Failure
  <2> QED BY <2>3
<1> QED
  BY <1>1, <1>2

(* A replay is an evidence matrix of one call a job: whatever the order of *)
(* its workers, it makes each call once and returns all or an error.       *)
THEOREM ReplayImplementsMatrix == Spec => ImplementsMatrix
<1>1. Init => Matrix!Init
  <2> SUFFICES ASSUME Init PROVE Matrix!Init
    OBVIOUS
  <2>1. {j \in Jobs : answered[j] # NoAnswer} = {} /\ {j \in Jobs : answered[j] = Error} = {}
    BY ReplayAssumption DEF Init
  <2> QED BY <2>1 DEF Init, Matrix!Init
<1>2. TypeOK /\ LocalJobs /\ ReplayInv /\ [Next]_vars => [Matrix!Next]_Matrix!vars
  <2> SUFFICES ASSUME TypeOK, LocalJobs, ReplayInv, [Next]_vars
               PROVE  [Matrix!Next]_Matrix!vars
    OBVIOUS
  <2>1. CASE Spawn
    <3>1. Matrix!Want
      BY <2>1 DEF Spawn, Matrix!Want
    <3> QED BY <3>1 DEF Matrix!Next
  <2>2. ASSUME NEW w \in Workers, Work(w) PROVE [Matrix!Next]_Matrix!vars
    BY <2>2, WorkIsACall
  <2>3. CASE Receive
    BY <2>3 DEF Receive, Matrix!vars
  <2>4. CASE ReceiveError
    BY <2>4 DEF ReceiveError, Matrix!vars
  <2>5. CASE Disconnected
    BY <2>5 DEF Disconnected, Matrix!vars
  <2>6. CASE Return
    BY <2>6, ReturnDelivers DEF Matrix!Next
  <2>7. CASE UNCHANGED vars
    BY <2>7 DEF vars, Matrix!vars
  <2> QED
    BY <2>1, <2>2, <2>3, <2>4, <2>5, <2>6, <2>7 DEF Next, Returned
<1> QED
  BY <1>1, <1>2, ReplayInvariant, PTL DEF Spec, ImplementsMatrix, Matrix!Spec

=============================================================================
