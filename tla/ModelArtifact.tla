--------------------------- MODULE ModelArtifact ---------------------------
(***************************************************************************)
(* Model artifacts on disk: what an artifact is checked for when it is     *)
(* built, saved and loaded, the temporary file and rename of a save, the   *)
(* commands that load back what they saved, library callers that do not,   *)
(* and runtimes that predict with what they loaded.  Weights are finite or *)
(* not: a hidden ReLU hides a value that is not (NaN.max(0) is 0), JSON    *)
(* writes it as null.  The rounding of decimals is left out.               *)
(***************************************************************************)
EXTENDS Naturals, FiniteSets

CONSTANTS Writers,    \* processes that save to the output
          Readers,    \* inference runtimes
          Commands,   \* the writers that train a model and load it back
          Candidates, \* artifacts a library caller may put together
          Foreign,    \* files somebody else may have left at the output
          Width,      \* feature version -> number of features
          BaseVersion,\* the version of the contract features, which a runtime extracts
          None

\* Commands are writers; no two schemas have as many features; no artifact is None.
ArtifactAssumption ==
  /\ BaseVersion \in DOMAIN Width
  /\ Commands \subseteq Writers
  /\ \A v, w \in DOMAIN Width : Width[v] = Width[w] => v = w
  /\ None \notin Candidates

VARIABLES pc,        \* writer -> its next step
          artifact,  \* writer -> the artifact in its memory, or None
          temporary, \* writer -> its temporary file, or None
          output,    \* the output file, or None
          author,    \* the writer whose file the output is, or None
          runtime,   \* reader -> the artifact it loaded, or None
          answer     \* reader -> the last prediction, or None
vars == <<pc, artifact, temporary, output, author, runtime, answer>>

-----------------------------------------------------------------------------
(* Checks. *)

KnownVersion(v) == v \in DOMAIN Width

\* validate_model_scaler, and validate_three_way_model_scaler for the head.
ModelFitsScaler(a) ==
  /\ KnownVersion(a.version)
  /\ a.inputs = Width[a.version] /\ a.scaler = Width[a.version]
  /\ a.form = "three_way" => a.head = "softmax"

\* What the constructor asks: a binary artifact's metadata is taken as it is.
Constructs(a) == ModelFitsScaler(a) /\ (a.form = "three_way" => a.metadata /\ a.provenance)

\* A temporary file cut short is no artifact.
File(a) == [whole |-> TRUE, body |-> a]
PartOf(a) == [whole |-> FALSE, body |-> a]

\* What load asks, of the format first: numbers must be there and finite, and everything the constructor asks.
Parses(file, form) == file.whole /\ file.body.form = form
Loads(file, form) ==
  /\ Parses(file, form)
  /\ file.body.finite /\ file.body.metadata
  /\ Constructs(file.body)

\* A command has checked its metadata and inputs, and the pipeline sized model and scaler by the corpus.
Trained(a) == a.metadata /\ a.provenance /\ ModelFitsScaler(a)

-----------------------------------------------------------------------------
(* Writers. *)

Build(w) ==
  /\ pc[w] = "build"
  /\ \E a \in Candidates :
       /\ w \in Commands => Trained(a)
       /\ IF Constructs(a)
          THEN artifact' = [artifact EXCEPT ![w] = a] /\ pc' = [pc EXCEPT ![w] = "save"]
          ELSE artifact' = artifact /\ pc' = [pc EXCEPT ![w] = "failed"]
  /\ UNCHANGED <<temporary, output, author, runtime, answer>>

\* Mutant: the output itself is opened for writing.
SaveInPlace(w) ==
  /\ pc[w] = "save" /\ ModelFitsScaler(artifact[w])
  /\ output' = PartOf(artifact[w]) /\ author' = w
  /\ pc' = [pc EXCEPT ![w] = "write"]
  /\ UNCHANGED <<artifact, temporary, runtime, answer>>

\* save: check again, then open the temporary sibling, which a crashed process of that number may have left.
Save(w) ==
  /\ pc[w] = "save" /\ ModelFitsScaler(artifact[w])
  /\ temporary' = [temporary EXCEPT ![w] = PartOf(artifact[w])]
  /\ pc' = [pc EXCEPT ![w] = "write"]
  /\ UNCHANGED <<artifact, output, author, runtime, answer>>

WriteTemporary(w) ==
  /\ pc[w] = "write"
  /\ temporary' = [temporary EXCEPT ![w] = File(artifact[w])]
  /\ pc' = [pc EXCEPT ![w] = "rename"]
  /\ UNCHANGED <<artifact, output, author, runtime, answer>>

Rename(w) ==
  /\ pc[w] = "rename"
  /\ output' = temporary[w] /\ temporary' = [temporary EXCEPT ![w] = None] /\ author' = w
  /\ IF w \in Commands
     THEN pc' = [pc EXCEPT ![w] = "reload"] /\ artifact' = artifact
     ELSE pc' = [pc EXCEPT ![w] = "done"] /\ artifact' = [artifact EXCEPT ![w] = None]
  /\ UNCHANGED <<runtime, answer>>

\* A file system call fails: the file stays as it is.
SaveFails(w) ==
  /\ pc[w] \in {"save", "write", "rename"}
  /\ pc' = [pc EXCEPT ![w] = "failed"] /\ artifact' = [artifact EXCEPT ![w] = None]
  /\ UNCHANGED <<temporary, output, author, runtime, answer>>

\* A command loads what is at the output, be it its own or another process's.
Reload(w) ==
  /\ pc[w] = "reload"
  /\ pc' = [pc EXCEPT ![w] = IF Loads(output, artifact[w].form) THEN "done" ELSE "failed"]
  /\ artifact' = [artifact EXCEPT ![w] = None]
  /\ UNCHANGED <<temporary, output, author, runtime, answer>>

Crash(w) ==
  /\ pc[w] \in {"build", "save", "write", "rename", "reload"}
  /\ pc' = [pc EXCEPT ![w] = "crashed"] /\ artifact' = [artifact EXCEPT ![w] = None]
  /\ UNCHANGED <<temporary, output, author, runtime, answer>>

\* The command is given again.
Again(w) ==
  /\ pc[w] = "crashed"
  /\ pc' = [pc EXCEPT ![w] = "build"]
  /\ UNCHANGED <<artifact, temporary, output, author, runtime, answer>>

-----------------------------------------------------------------------------
(* Runtimes. *)

LoadRuntime(r) ==
  /\ runtime[r] = None /\ output # None /\ Loads(output, "binary")
  /\ runtime' = [runtime EXCEPT ![r] = output.body]
  /\ UNCHANGED <<pc, artifact, temporary, output, author, answer>>

\* predict_contract extracts the base features, whatever the artifact was trained on; the scaler takes
\* a vector of its own length only.
Scales(a, n) == a.scaler = n /\ a.inputs = n

Predict(r) ==
  /\ runtime[r] # None
  /\ answer' = [answer EXCEPT ![r] =
       IF Scales(runtime[r], Width[BaseVersion]) THEN [model |-> runtime[r], version |-> BaseVersion] ELSE None]
  /\ UNCHANGED <<pc, artifact, temporary, output, author, runtime>>

Init ==
  /\ pc = [w \in Writers |-> "build"]
  /\ artifact = [w \in Writers |-> None] /\ temporary = [w \in Writers |-> None]
  /\ output \in {None} \cup {File(a) : a \in Foreign} /\ author = None
  /\ runtime = [r \in Readers |-> None] /\ answer = [r \in Readers |-> None]

Saving(w) == Build(w) \/ Save(w) \/ WriteTemporary(w) \/ Rename(w) \/ Reload(w) \/ SaveFails(w)
\* Where every save has ended there may be nothing left to do.
Ended == (\A w \in Writers : pc[w] \in {"done", "failed"}) /\ UNCHANGED vars
Next ==
  \/ \E w \in Writers : Saving(w) \/ Crash(w) \/ Again(w)
  \/ \E r \in Readers : LoadRuntime(r) \/ Predict(r)
  \/ Ended

\* A process that is not killed goes on.
Spec == Init /\ [][Next]_vars /\ \A w \in Writers : WF_vars(Saving(w))

-----------------------------------------------------------------------------
(* Properties. *)

Artifacts == Candidates \cup Foreign
Files == {File(a) : a \in Artifacts} \cup {PartOf(a) : a \in Artifacts}

\* Every variable has its shape, and a writer holds an artifact exactly while it has one to save.
TypeOK ==
  /\ pc \in [Writers -> {"build", "save", "write", "rename", "reload", "done", "failed", "crashed"}]
  /\ artifact \in [Writers -> Candidates \cup {None}]
  /\ temporary \in [Writers -> Files \cup {None}]
  /\ output \in Files \cup {None} /\ author \in Writers \cup {None}
  /\ runtime \in [Readers -> Artifacts \cup {None}]
  /\ \A r \in Readers : answer[r] # None => answer[r].model = runtime[r]
  /\ \A w \in Writers : pc[w] \in {"save", "write", "rename"} => artifact[w] # None

\* Whatever crashes, fails or runs at the same time, the output is never half a file
\* (ModelArtifact::save writes a sibling and renames it).
OutputAlwaysWhole == output # None => output.whole

\* A model that predicts was loaded from a file whose every number is finite and whose record of its
\* training is complete, and it is one somebody built, though files were replaced since.
PredictsWithSoundModels ==
  \A r \in Readers : runtime[r] # None =>
    runtime[r] \in Artifacts /\ runtime[r].finite /\ runtime[r].metadata /\ ModelFitsScaler(runtime[r])

\* A prediction names the schema its model was trained on: a runtime extracts base features for every
\* artifact and names the base schema in its answer.
PredictionsNameTheirSchema == \A r \in Readers : answer[r] # None => answer[r].version = answer[r].model.version

\* Where a command said it was complete and nobody wrote after it, the output can be loaded.
CompleteMeansLoadable ==
  \A w \in Commands : (pc[w] = "done" /\ author = w) => Loads(output, output.body.form)

\* What artifact.rs says of a ModelArtifact: "A validated in-memory artifact, ready for independent
\* inference".  What is built is saved, and is then refused for its metadata or a number that is null.
BuiltLoadsBack == author # None => Loads(output, output.body.form)
=============================================================================
