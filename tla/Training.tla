------------------------------ MODULE Training ------------------------------
(***************************************************************************)
(* Gradient descent: the optimizers (Sgd, Momentum, Adam) that update a    *)
(* network in place, the Trainer that drives one over epochs and batches,  *)
(* and the two models that train a clone of their network and keep it only *)
(* when training succeeds.                                                 *)
(*                                                                         *)
(* A network is a sequence of layers of neurons.  Of a neuron the model    *)
(* keeps its width and how many updates it has had; of a gradient its      *)
(* shape.  The numbers are left out, so a step is told by what it updates, *)
(* what it checks first, and what it has already changed when it fails.    *)
(***************************************************************************)
EXTENDS Integers, Sequences, FiniteSets

CONSTANTS Architectures,    \* [dims, head]: layer sizes, input first, and the last activation
          Datasets,         \* [width, rows]: width of the features and kind of each row
          ForeignGradients, \* gradients a caller hands to an optimizer, of any shape
          Epochs, BatchSizes, \* values of a TrainingConfig
          MaxRuns,          \* bound: training runs, steps and replacements of a caller
          None

TrainingAssumption ==
  /\ Epochs \subseteq Nat \ {0} /\ BatchSizes \subseteq Nat \ {0} /\ MaxRuns \in Nat
  /\ \A a \in Architectures : a.dims \in Seq(Nat) /\ Len(a.dims) >= 2 /\ a.head \in {"linear", "sigmoid", "softmax"}
  /\ \A d \in Datasets : d.rows \in Seq({"fits", "wide", "improper"}) /\ Len(d.rows) > 0

VARIABLES owner,      \* "dcg", "three_way": a model that trains a clone; "trainer": a Trainer kept by its caller
          model,      \* the network of the model
          net,        \* the network being updated: the clone, or the Trainer's own
          head,       \* activation of the last layer of net
          optimizer,  \* [kind, timestep, shape, folded]
          run,        \* the call in progress, or None
          grad,       \* gradients of the batch just computed, or None
          history,    \* [epochs, validations]: losses recorded by the call
          result,     \* outcome of the last call: None, "ok" or "error"
          runs,       \* calls made so far
          applied,    \* steps applied since the optimizer's state took its shape
          used,       \* for each row, how often the call has used its gradient
          expected    \* updates owed to the model by the calls that succeeded
vars == <<owner, model, net, head, optimizer, run, grad, history, result, runs, applied, used, expected>>

-----------------------------------------------------------------------------
(* Networks and gradients. *)

\* A network of these layer sizes, never updated.
Fresh(dims) == [l \in 1 .. Len(dims) - 1 |-> [k \in 1 .. dims[l + 1] |-> [width |-> dims[l], updates |-> 0]]]

InputSize(n) == n[1][1].width

\* The gradients backpropagation gives: one per layer, of the layer's own shape; it computes them
\* from the last layer and turns them round.
GradientsOf(n) == [l \in DOMAIN n |-> [weights |-> [k \in DOMAIN n[l] |-> n[l][k].width], biases |-> Len(n[l])]]

NoneIsNothing ==
  /\ \A a \in Architectures : GradientsOf(Fresh(a.dims)) # None
  /\ None \notin [data : Datasets, validation : Datasets \cup {None}, epochs : Epochs, batchSize : BatchSizes,
                  objective : {"mse", "cross_entropy"}, epoch : Nat, next : Nat]

\* The sum of a batch's gradients, scaled, has their shape.
Mean(g) == g

\* Where apply_gradients stops: <<layer, 0>> before a layer whose counts do not fit, <<layer, neuron>>
\* at a neuron whose width does not.
Misfits(n, g) ==
  {<<l, 0>> : l \in {i \in DOMAIN n : Len(g[i].weights) # Len(n[i]) \/ g[i].biases # Len(n[i])}}
  \cup UNION {{<<l, k>> : k \in {j \in DOMAIN n[l] \cap DOMAIN g[l].weights : n[l][j].width # g[l].weights[j]}} : l \in DOMAIN n}

Precedes(p, q) == p[1] < q[1] \/ (p[1] = q[1] /\ p[2] < q[2])

Fits(n, g) == Len(g) = Len(n) /\ Misfits(n, g) = {}

\* A neuron is reached when no misfit comes before it or at it.
Reached(n, g, l, k) == Len(g) = Len(n) /\ \A p \in Misfits(n, g) : Precedes(<<l, k>>, p)

\* The network after the update, whole or not: layers and neurons in order, up to the first misfit.
ApplyGradients(n, g) ==
  [l \in DOMAIN n |-> [k \in DOMAIN n[l] |->
     IF Reached(n, g, l, k) THEN [n[l][k] EXCEPT !.updates = @ + 1] ELSE n[l][k]]]

-----------------------------------------------------------------------------
(* Optimizers. *)

Optimizer(kind) == [kind |-> kind, timestep |-> 0, shape |-> None, folded |-> 0]

\* A state that takes one more gradient in.
Fold(o) == [o EXCEPT !.folded = @ + 1]

\* Momentum and Adam start over when the gradients have another shape than their state.
MustReset(o, g) == o.kind # "sgd" /\ o.shape # g
Prepared(o, g) == IF MustReset(o, g) THEN [o EXCEPT !.shape = g, !.folded = 0, !.timestep = 0] ELSE o

\* Adam counts the step before the network accepts it.
Advanced(o, g) == IF o.kind = "adam" THEN [Prepared(o, g) EXCEPT !.timestep = @ + 1] ELSE Prepared(o, g)

\* Velocity and moments take the gradients in only after the network has.
Stepped(o, n, g) == IF o.kind # "sgd" /\ Fits(n, g) THEN Fold(Advanced(o, g)) ELSE Advanced(o, g)

Step(g) ==
  /\ net' = ApplyGradients(net, g)
  /\ optimizer' = Stepped(optimizer, net, g)
  /\ applied' = (IF MustReset(optimizer, g) THEN 0 ELSE applied) + (IF Fits(net, g) THEN 1 ELSE 0)

-----------------------------------------------------------------------------
(* Training. *)

\* Rows fit, have a target of another width, or a target that is no distribution.
Kinds == {"fits", "wide", "improper"}

Objective == run.objective

ForwardFails(d) == d.width # InputSize(net)

\* A softmax layer has no derivative of one value: squared error cannot go back through it.
NoDerivative == head = "softmax"

\* The fused gradient wants a softmax head and a target that is a distribution.
FusedRefuses(kind) == head # "softmax" \/ kind = "improper"

\* A row whose forward pass, loss or gradient fails.
RowFails(d, i) ==
  \/ ForwardFails(d)
  \/ d.rows[i] = "wide"
  \/ Objective = "mse" /\ NoDerivative
  \/ Objective = "cross_entropy" /\ FusedRefuses(d.rows[i])

LossRefuses(kind) == kind # "fits"

\* The validation loss pairs prediction and target without comparing their widths; only
\* cross-entropy does.
ValidationFails(d) ==
  \/ ForwardFails(d)
  \/ Objective = "cross_entropy" /\ \E i \in DOMAIN d.rows : LossRefuses(d.rows[i])

LeastOf(a, b) == IF a <= b THEN a ELSE b
Batch == run.next .. LeastOf(run.next + run.batchSize - 1, Len(run.data.rows))

\* A model or a Trainer is built around a network whose head suits it; a Trainer takes any network.
Suits(who, a) == CASE who = "dcg" -> a.dims[Len(a.dims)] = 1
                   [] who = "three_way" -> a.dims[Len(a.dims)] = 3 /\ a.head = "softmax"
                   [] OTHER -> TRUE

ObjectiveOf(who) == CASE who = "dcg" -> {"mse"} [] who = "three_way" -> {"cross_entropy"}
                      [] OTHER -> {"mse", "cross_entropy"}

Call(d, v, e, b, o) == [data |-> d, validation |-> v, epochs |-> e, batchSize |-> b, objective |-> o, epoch |-> 1, next |-> 1]

\* A model trains a clone of its network with an optimizer it is given; a Trainer goes on with its own two.
StartedNetwork == IF owner = "trainer" THEN net ELSE model
StartedOptimizer(k) == IF owner = "trainer" THEN optimizer ELSE Optimizer(k)

Train ==
  /\ run = None /\ runs < MaxRuns
  /\ \E d \in Datasets, v \in Datasets \cup {None}, e \in Epochs, b \in BatchSizes, o \in ObjectiveOf(owner),
        k \in {"sgd", "momentum", "adam"} :
       /\ run' = Call(d, v, e, b, o)
       /\ used' = [i \in DOMAIN d.rows |-> 0]
       /\ optimizer' = StartedOptimizer(k)
       /\ applied' = IF owner = "trainer" THEN applied ELSE 0
  /\ net' = StartedNetwork
  /\ runs' = runs + 1
  /\ history' = [epochs |-> 0, validations |-> 0]
  /\ result' = None
  /\ UNCHANGED <<owner, model, head, grad, expected>>

\* Mutant: a failed call leaves the model the network it was training.
KeptAsTrained == IF owner = "trainer" THEN model ELSE net

Kept == model

\* Any error ends the call: the model keeps its network, a Trainer what the steps so far have made of it.
Fail ==
  /\ run' = None /\ grad' = None /\ result' = "error"
  /\ model' = Kept
  /\ UNCHANGED <<owner, net, head, optimizer, history, runs, applied, used, expected>>

InEpoch == run # None /\ grad = None /\ run.next <= Len(run.data.rows)

BatchFails == InEpoch /\ (\E i \in Batch : RowFails(run.data, i)) /\ Fail

\* Steps too large leave numbers that are no probabilities: cross-entropy refuses them.
Diverge ==
  /\ run # None /\ grad = None /\ Objective = "cross_entropy"
  /\ \E l \in DOMAIN net : \E k \in DOMAIN net[l] : net[l][k].updates > 0
  /\ Fail

ComputeBatchGradients ==
  /\ InEpoch
  /\ \A i \in Batch : ~RowFails(run.data, i)
  /\ grad' = Mean(GradientsOf(net))
  /\ used' = [i \in DOMAIN used |-> used[i] + (IF i \in Batch THEN 1 ELSE 0)]
  /\ run' = [run EXCEPT !.next = run.next + run.batchSize]
  /\ UNCHANGED <<owner, model, net, head, optimizer, history, result, runs, applied, expected>>

OptimizerStep ==
  /\ run # None /\ grad # None
  /\ Step(grad)
  /\ grad' = None
  /\ IF Fits(net, grad) THEN run' = run /\ result' = result ELSE run' = None /\ result' = "error"
  /\ UNCHANGED <<owner, model, head, history, runs, used, expected>>

\* Mutant: an epoch ends where the last batch ends with the last row.
EpochDoneExactly == run # None /\ grad = None /\ run.next = Len(run.data.rows) + 1 /\ run.epoch <= run.epochs

EpochDone == run # None /\ grad = None /\ run.next > Len(run.data.rows) /\ run.epoch <= run.epochs

EndEpoch ==
  /\ EpochDone
  /\ run.validation # None => ~ValidationFails(run.validation)
  /\ history' = [epochs |-> history.epochs + 1, validations |-> history.validations + (IF run.validation = None THEN 0 ELSE 1)]
  /\ run' = [run EXCEPT !.epoch = @ + 1, !.next = IF run.epoch < run.epochs THEN 1 ELSE @]
  /\ UNCHANGED <<owner, model, net, head, optimizer, grad, result, runs, applied, used, expected>>

ValidationStops == EpochDone /\ run.validation # None /\ ValidationFails(run.validation) /\ Fail

\* Epochs times batches, the last one short when the rows do not divide.
BatchesOf(n, b) == (n + b - 1) \div b

Finish ==
  /\ run # None /\ grad = None /\ run.epoch > run.epochs
  /\ model' = IF owner = "trainer" THEN model ELSE net
  /\ expected' = expected + (IF owner = "trainer" THEN 0 ELSE run.epochs * BatchesOf(Len(run.data.rows), run.batchSize))
  /\ result' = "ok" /\ run' = None
  /\ UNCHANGED <<owner, net, head, optimizer, grad, history, runs, applied, used>>

-----------------------------------------------------------------------------
(* A caller who holds network and optimizer. *)

\* Optimizer::step with gradients of the caller's choice, fitting or not.
StepWith ==
  /\ owner = "trainer" /\ run = None /\ runs < MaxRuns
  /\ \E g \in ForeignGradients \cup {GradientsOf(net)} : Step(g) /\ result' = IF Fits(net, g) THEN "ok" ELSE "error"
  /\ runs' = runs + 1
  /\ UNCHANGED <<owner, model, head, run, grad, history, used, expected>>

\* network_mut: another network under the same optimizer.
ReplaceNetwork ==
  /\ owner = "trainer" /\ run = None /\ runs < MaxRuns
  /\ \E a \in Architectures : net' = Fresh(a.dims) /\ head' = a.head
  /\ runs' = runs + 1
  /\ result' = None
  /\ UNCHANGED <<owner, model, optimizer, run, grad, history, applied, used, expected>>

Init ==
  /\ owner \in {"dcg", "three_way", "trainer"}
  /\ \E a \in {b \in Architectures : Suits(owner, b)} : model = Fresh(a.dims) /\ head = a.head
  /\ net = model
  /\ \E k \in {"sgd", "momentum", "adam"} : optimizer = Optimizer(k)
  /\ run = None /\ grad = None /\ result = None /\ runs = 0 /\ applied = 0 /\ expected = 0
  /\ history = [epochs |-> 0, validations |-> 0] /\ used = <<>>

\* A call that runs goes on.
Running == BatchFails \/ ComputeBatchGradients \/ OptimizerStep \/ EndEpoch \/ ValidationStops \/ Finish

\* No call is running: the only rest.
Ended == run = None /\ UNCHANGED vars

Next == Train \/ BatchFails \/ Diverge \/ ComputeBatchGradients \/ OptimizerStep \/ EndEpoch \/ ValidationStops
          \/ Finish \/ StepWith \/ ReplaceNetwork \/ Ended

\* A call runs to its end; nobody has to call.
Spec == Init /\ [][Next]_vars
             /\ WF_vars(Running)

-----------------------------------------------------------------------------
(* Properties. *)

NeuronsOf(n) == {<<l, k>> : l \in DOMAIN n, k \in UNION {DOMAIN n[m] : m \in DOMAIN n}}
Neurons(n) == {p \in NeuronsOf(n) : p[2] \in DOMAIN n[p[1]]}
UpdatesAt(n, p) == n[p[1]][p[2]].updates

\* Every variable has its shape, and the counters their bounds.
TypeOK ==
  /\ owner \in {"dcg", "three_way", "trainer"}
  /\ \A n \in {net, model} : \A p \in Neurons(n) : UpdatesAt(n, p) \in Nat
  /\ head \in {"linear", "sigmoid", "softmax"}
  /\ optimizer.kind \in {"sgd", "momentum", "adam"} /\ optimizer.timestep \in Nat /\ optimizer.folded \in Nat
  /\ (run # None => run.data \in Datasets /\ run.epoch \in 1 .. run.epochs + 1
                     /\ run.next \in 1 .. Len(run.data.rows) + run.batchSize)
  /\ (grad # None => run # None)
  /\ history.validations <= history.epochs
  /\ result \in {None, "ok", "error"} /\ runs \in 0 .. MaxRuns
  /\ applied \in Nat /\ expected \in Nat

\* A model's network has had all the updates of the trainings that succeeded, in every neuron, and
\* none of those that failed half way (DcgModel::train, ThreeWayCompatibilityModel::train_with_validation).
ModelIsWhole == owner # "trainer" => \A p \in Neurons(model) : UpdatesAt(model, p) = expected

\* By the end of an epoch each row has been used once in it, in whichever batch it came; and the
\* history of a finished call has a loss, and with validation data a validation loss, per epoch.
EveryRowEveryEpoch ==
  run # None =>
    /\ EpochDone => \A i \in DOMAIN used : used[i] = run.epoch
    /\ run.epoch > run.epochs =>
         /\ \A i \in DOMAIN used : used[i] = run.epochs
         /\ history = [epochs |-> run.epochs, validations |-> IF run.validation = None THEN 0 ELSE run.epochs]

\* The gradients a Trainer computes fit the network it updates, whatever was put in its place
\* before: its steps never leave a network half updated.
TrainerNeverHalfUpdates == run # None /\ grad # None => Fits(net, grad)

\* An update that fails has changed a prefix of the network, so that over any sequence of steps no
\* neuron is ahead of one before it (Network::apply_gradients).
EarlierNeuronsLead ==
  \A p, q \in Neurons(net) : Precedes(p, q) => UpdatesAt(net, p) >= UpdatesAt(net, q)

\* Velocity and moments hold exactly the steps the network took since they got their shape, and
\* Adam's bias correction never counts fewer steps than its moments hold.
StateHoldsAppliedSteps ==
  /\ optimizer.kind # "sgd" => optimizer.folded = applied
  /\ optimizer.kind = "adam" => optimizer.folded <= optimizer.timestep

\* What Adam::timestep promises: the number of steps already applied.
TimestepCountsSteps == optimizer.kind = "adam" => optimizer.timestep = applied

\* A training that was called comes to its end.
TrainingEnds == run # None ~> run = None
=============================================================================
