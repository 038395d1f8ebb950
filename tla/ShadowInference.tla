-------------------------- MODULE ShadowInference --------------------------
(***************************************************************************)
(* The shadow inference service: it reads, hashes and parses the pinned    *)
(* policy file and the pinned models of three seeds while their files may  *)
(* be replaced, binds its address, and then answers requests and readiness *)
(* probes on several threads from what it loaded.  A digest is the content *)
(* itself.  What features a pair of schemas has and what a model makes of  *)
(* them are tables.                                                        *)
(***************************************************************************)
EXTENDS Naturals, Sequences, FiniteSets, SequencesExt

CONSTANTS Seeds,       \* the seeds in the order of FROZEN_MODELS
          PinTables,   \* tables file -> content: what a maintainer may have pinned
          Contents,    \* contents a file may get, and what each parses to
          Replacing,   \* file -> contents somebody may give it
          Registered,  \* [dataset, oracle]: the inputs registered for the models
          Packs,       \* policy content -> the packs it declares, None if it cannot be resolved
          Slots,       \* requests handled at a time
          Schemas,     \* schema -> [valid: for the JSON Schema meta-schema, nodes: what is wrong with each, in preorder]
          Bodies,      \* requests: [pack, base, candidate], or None where the JSON is another
          Probe,       \* the body of the readiness probe, for the first pack
          Features,    \* <<base, candidate, pack>> -> a vector, None if they cannot be extracted
          Score,       \* <<model content, vector>> -> a prediction, None if scaler or model fail
          MaxAnswers,  \* bound on answers
          None

Policy == "policy"
Files == {Policy} \cup ToSet(Seeds)
Order == <<Policy>> \o Seeds

VARIABLES files,    \* file -> content, replaced by others at any time
          pins,     \* the table of this build
          loaded,   \* file -> the bytes loaded so far
          phase,    \* "loading", "listening" or "stopped"
          slot,     \* slot -> the request handled there, or None
          answered  \* <<kind, body, answer>> so far
vars == <<files, pins, loaded, phase, slot, answered>>

-----------------------------------------------------------------------------
(* Loading. *)

\* A model records the schema it reads, its seed and its training inputs, the policy file among them.
Identified(seed, content) ==
  LET a == Contents[content] IN
    /\ a.version = "v6" /\ a.seed = seed
    /\ a.dataset = Registered.dataset /\ a.oracle = Registered.oracle /\ a.policy = pins[Policy]

ReadVerified(f) == files[f] = pins[f]
Bytes(f) == files[f]

Resolvable(content) == content \in DOMAIN Packs /\ Packs[content] # {}

Usable(f, content) == IF f = Policy THEN Resolvable(content) ELSE Contents[content].parses /\ Identified(f, content)

NextFile == Order[Cardinality(DOMAIN loaded) + 1]

Load ==
  /\ phase = "loading" /\ DOMAIN loaded # Files
  /\ ReadVerified(NextFile) /\ Usable(NextFile, Bytes(NextFile))
  /\ loaded' = [f \in DOMAIN loaded \cup {NextFile} |-> IF f = NextFile THEN Bytes(f) ELSE loaded[f]]
  /\ UNCHANGED <<files, pins, phase, slot, answered>>

\* Mutant: only a wrong digest ends the command.
RefuseUnpinned ==
  /\ phase = "loading" /\ DOMAIN loaded # Files
  /\ ~ReadVerified(NextFile)
  /\ phase' = "stopped"
  /\ UNCHANGED <<files, pins, loaded, slot, answered>>

\* Any file that cannot be read, is not the pinned one, or is not what it should be ends the command.
Refuse ==
  /\ phase = "loading" /\ DOMAIN loaded # Files
  /\ ~(ReadVerified(NextFile) /\ Usable(NextFile, Bytes(NextFile)))
  /\ phase' = "stopped"
  /\ UNCHANGED <<files, pins, loaded, slot, answered>>

Listen == phase = "loading" /\ DOMAIN loaded = Files /\ phase' = "listening" /\ UNCHANGED <<files, pins, loaded, slot, answered>>
BindFails == phase = "loading" /\ DOMAIN loaded = Files /\ phase' = "stopped" /\ UNCHANGED <<files, pins, loaded, slot, answered>>

-----------------------------------------------------------------------------
(* Requests. *)

Error(status, code) == [status |-> status, code |-> code, predictions |-> <<>>]
Ok(predictions) == [status |-> 200, code |-> "OK", predictions |-> predictions]

Accept(s, kind, body) ==
  /\ phase = "listening" /\ slot[s] = None
  /\ slot' = [slot EXCEPT ![s] = [kind |-> kind, body |-> body, at |-> "checks", vector |-> None, predictions |-> <<>>]]
  /\ UNCHANGED <<files, pins, loaded, phase, answered>>

Predict(s) == \E body \in Bodies : Accept(s, "predict", body)
Ready(s) == Accept(s, "ready", Probe)

\* A probe's failures are all "not ready".
Answer(s, a) ==
  /\ answered' = answered \cup {<<slot[s].kind, slot[s].body, IF slot[s].kind = "ready" /\ a.status # 200 THEN Error(503, "NOT_READY") ELSE a>>}
  /\ slot' = [slot EXCEPT ![s] = None]
  /\ UNCHANGED <<files, pins, loaded, phase>>

At(s, step) == slot[s] # None /\ slot[s].at = step

\* The first thing wrong with a schema: with the whole, then with a node, which comes before its children.
NodeFault ==
  [wrong \in {"no object", "no type", "schema-valued additionalProperties", "type keyword", "properties"} |->
    IF wrong \in {"type keyword", "properties"} THEN "INVALID_SCHEMA" ELSE "UNSUPPORTED_SCHEMA"]
Fault(schema) ==
  LET nodes == Schemas[schema].nodes
      wrong == {i \in DOMAIN nodes : nodes[i] # "fine"}
  IN IF ~Schemas[schema].valid THEN "INVALID_SCHEMA"
     ELSE IF wrong = {} THEN None ELSE NodeFault[nodes[CHOOSE i \in wrong : \A j \in wrong : i <= j]]

\* The JSON first, then the pack by its exact name, the base schema and the candidate.
Rejection(body) ==
  IF body = None THEN "INVALID_REQUEST_JSON"
  ELSE IF body.pack \notin Packs[loaded[Policy]] THEN "UNKNOWN_POLICY_PACK"
  ELSE IF Fault(body.base) # None THEN Fault(body.base)
  ELSE Fault(body.candidate)

Reject(s) == At(s, "checks") /\ Rejection(slot[s].body) # None /\ Answer(s, Error(400, Rejection(slot[s].body)))

VectorOf(body) == Features[<<body.base, body.candidate, body.pack>>]

Extract(s) ==
  /\ At(s, "checks") /\ Rejection(slot[s].body) = None /\ VectorOf(slot[s].body) # None
  /\ slot' = [slot EXCEPT ![s].at = "scores", ![s].vector = VectorOf(slot[s].body)]
  /\ UNCHANGED <<files, pins, loaded, phase, answered>>

ExtractFails(s) ==
  /\ At(s, "checks") /\ Rejection(slot[s].body) = None /\ VectorOf(slot[s].body) = None
  /\ Answer(s, Error(400, "SCHEMA_FEATURE_EXTRACTION_FAILED"))

\* One model after the other, each with its own scaler; the first that fails ends the request.
SeedToScore(s) == Seeds[Len(slot[s].predictions) + 1]
\* Mutant: the file of a model is read for every request.
ModelOnDisk(seed) == files[seed]

ModelFor(seed) == loaded[seed]
PredictionOf(s) == Score[<<ModelFor(SeedToScore(s)), slot[s].vector>>]
MoreSeeds(s) == At(s, "scores") /\ Len(slot[s].predictions) < Len(Seeds)

ScoreSeed(s) ==
  /\ MoreSeeds(s) /\ PredictionOf(s) # None
  /\ slot' = [slot EXCEPT ![s].predictions = Append(@, <<SeedToScore(s), PredictionOf(s)>>)]
  /\ UNCHANGED <<files, pins, loaded, phase, answered>>

ScoreFails(s) == MoreSeeds(s) /\ PredictionOf(s) = None /\ Answer(s, Error(500, "INFERENCE_FAILED"))

RespondTo(s) == At(s, "scores") /\ Len(slot[s].predictions) = Len(Seeds) /\ Answer(s, Ok(slot[s].predictions))

\* Seeds differ and none is named like the policy file; tables pin contents that can be parsed or
\* refused; requests name schemas; None is no error code.
ShadowAssumption ==
  /\ Seeds \in Seq(ToSet(Seeds)) /\ \A i, j \in DOMAIN Seeds : Seeds[i] = Seeds[j] => i = j
  /\ Policy \notin ToSet(Seeds)
  /\ PinTables \subseteq [Files -> DOMAIN Contents]
  /\ \A f \in Files : Replacing[f] \subseteq DOMAIN Contents
  /\ Probe \in Bodies \ {None}
  /\ \A body \in Bodies \ {None} : {body.base, body.candidate} \subseteq DOMAIN Schemas
  /\ \A schema \in DOMAIN Schemas : Schemas[schema].nodes \in Seq({"fine"} \cup DOMAIN NodeFault)
  /\ None \notin {"INVALID_REQUEST_JSON", "UNKNOWN_POLICY_PACK", "INVALID_SCHEMA", "UNSUPPORTED_SCHEMA"}

\* Somebody replaces a file.
Replace == \E f \in Files : \E c \in Replacing[f] : files' = [files EXCEPT ![f] = c] /\ UNCHANGED <<pins, loaded, phase, slot, answered>>

Init ==
  /\ pins \in PinTables /\ files = pins
  /\ loaded = <<>> /\ phase = "loading" /\ slot = [s \in Slots |-> None] /\ answered = {}

Starting == Load \/ Refuse \/ Listen \/ BindFails
Handling(s) == Reject(s) \/ Extract(s) \/ ExtractFails(s) \/ ScoreSeed(s) \/ ScoreFails(s) \/ RespondTo(s)
Next ==
  \/ Starting \/ Replace
  \/ \E s \in Slots : Handling(s) \/ (Cardinality(answered) + Cardinality({t \in Slots : slot[t] # None}) < MaxAnswers /\ (Predict(s) \/ Ready(s)))

\* Start-up goes on, and every thread gets its turns.
Spec == Init /\ [][Next]_vars /\ WF_vars(Starting) /\ \A s \in Slots : WF_vars(Handling(s))

-----------------------------------------------------------------------------
(* Properties. *)

\* Every variable has its shape; what was loaded was loaded in order.
TypeOK ==
  /\ files \in [Files -> DOMAIN Contents] /\ pins \in PinTables
  /\ \E n \in 0 .. Len(Order) : DOMAIN loaded = {Order[i] : i \in 1 .. n}
  /\ phase \in {"loading", "listening", "stopped"}
  /\ \A s \in Slots : slot[s] # None => Len(slot[s].predictions) <= Len(Seeds)

\* Who listens has all files as they were pinned, whatever was replaced while they were read, and models
\* trained under the very policy file it resolves requests with.
ListensWithPinnedState ==
  phase = "listening" =>
    /\ loaded = pins
    /\ \A i \in DOMAIN Seeds : Contents[loaded[Seeds[i]]].seed = Seeds[i] /\ Contents[loaded[Seeds[i]]].policy = loaded[Policy]

\* The same request gets the same answer, whatever else is handled at the time and whatever happened to
\* the files since start-up.
AnswersAgree == \A x, y \in answered : (x[1] = y[1] /\ x[2] = y[2]) => x[3] = y[3]

\* An answer has a prediction of every seed in their order, or none (predict).
AnswersAreWhole ==
  \A x \in answered :
    IF x[3].status = 200 THEN [i \in DOMAIN x[3].predictions |-> x[3].predictions[i][1]] = Seeds ELSE x[3].predictions = <<>>

\* What shadow-inference-service.md says of its errors: an accepted request has a declared pack and two
\* schemas whose every node the extractor reads, whatever a model makes of it; everything else is a 400.
MistakesAreTheClients ==
  \A x \in answered : x[1] = "predict" =>
    ((x[3].status # 400) <=>
      (/\ x[2] # None /\ x[2].pack \in Packs[loaded[Policy]]
       /\ \A schema \in {x[2].base, x[2].candidate} : Schemas[schema].valid /\ ToSet(Schemas[schema].nodes) \subseteq {"fine"}
       /\ VectorOf(x[2]) # None))

\* Once a probe said UP, the same pair of schemas is predicted for every client, by every seed.
UpMeansPredicts ==
  (\E x \in answered : x[1] = "ready" /\ x[3].status = 200) =>
    \A y \in answered : (y[1] = "predict" /\ y[2] = Probe) => y[3].status = 200

\* Start-up ends.
StartEnds == <>(phase # "loading")
=============================================================================
