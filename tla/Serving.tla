------------------------------ MODULE Serving ------------------------------
(***************************************************************************)
(* What serves predictions: model artifacts on disk, the shadow inference  *)
(* service, and the resolution of policy packs.  They share no state while *)
(* they run: a behaviour is of the one component that the initial state    *)
(* names, and the variables of the others are None.                        *)
(***************************************************************************)
EXTENDS Naturals, Sequences

CONSTANTS
  Writers, Readers, Commands, Candidates, Foreign, Width, BaseVersion,      \* ModelArtifact
  Seeds, PinTables, Contents, Replacing, Registered, Packs, Slots, Schemas,
  Bodies, Probe, Features, Score, MaxAnswers,                               \* ShadowInference
  Documents, Requests, Rules, Baseline, Malformed,                          \* PolicyContexts
  None

VARIABLES component,
          pc, artifact, temporary, output, author, runtime, answer, files, pins, loaded, phase,
          slot, answered, document, asked, contexts, current, status

Artifact == INSTANCE ModelArtifact
Shadow == INSTANCE ShadowInference
Contexts == INSTANCE PolicyContexts

ASSUME ServingAssumption ==
  /\ Artifact!ArtifactAssumption
  /\ Shadow!ShadowAssumption
  /\ Contexts!ContextsAssumption

vars == <<component,
          pc, artifact, temporary, output, author, runtime, answer, files, pins, loaded, phase,
          slot, answered, document, asked, contexts, current, status>>

ArtifactOthers == <<files, pins, loaded, phase, slot, answered, document, asked, contexts, current, status>>

ShadowOthers == <<pc, artifact, temporary, output, author, runtime, answer, document, asked, contexts, current,
                    status>>

ContextsOthers == <<pc, artifact, temporary, output, author, runtime, answer, files, pins, loaded, phase, slot,
                      answered>>

Init ==
  \/ /\ component = "artifact" /\ Artifact!Init
     /\ files = None /\ pins = None /\ loaded = None /\ phase = None /\ slot = None
     /\ answered = None /\ document = None /\ asked = None /\ contexts = None
     /\ current = None /\ status = None
  \/ /\ component = "shadow" /\ Shadow!Init
     /\ pc = None /\ artifact = None /\ temporary = None /\ output = None /\ author = None
     /\ runtime = None /\ answer = None /\ document = None /\ asked = None
     /\ contexts = None /\ current = None /\ status = None
  \/ /\ component = "contexts" /\ Contexts!Init
     /\ pc = None /\ artifact = None /\ temporary = None /\ output = None /\ author = None
     /\ runtime = None /\ answer = None /\ files = None /\ pins = None /\ loaded = None
     /\ phase = None /\ slot = None /\ answered = None

Next ==
  \/ component = "artifact" /\ Artifact!Next /\ UNCHANGED <<component, ArtifactOthers>>
  \/ component = "shadow" /\ Shadow!Next /\ UNCHANGED <<component, ShadowOthers>>
  \/ component = "contexts" /\ Contexts!Next /\ UNCHANGED <<component, ContextsOthers>>

(* A process that is not killed goes on, start-up and every thread get     *)
(* their turns, and a resolution goes on.                                  *)
Spec ==
  /\ Init /\ [][Next]_vars
  /\ \A w \in Writers : WF_vars(component = "artifact" /\ Artifact!Saving(w) /\ UNCHANGED <<component, ArtifactOthers>>)
  /\ WF_vars(component = "shadow" /\ Shadow!Starting /\ UNCHANGED <<component, ShadowOthers>>)
  /\ \A s \in Slots : WF_vars(component = "shadow" /\ Shadow!Handling(s) /\ UNCHANGED <<component, ShadowOthers>>)
  /\ WF_vars(component = "contexts" /\ Contexts!Step /\ UNCHANGED <<component, ContextsOthers>>)

-----------------------------------------------------------------------------
(* Whatever is saved by two processes at once, crashes or fails: the       *)
(* output is never half a file, what predicts is finite and complete and   *)
(* names the schema it was trained on, and what a command said it          *)
(* completed can be loaded until somebody else writes.                     *)
ArtifactsAreSound ==
  component = "artifact" =>
    /\ Artifact!TypeOK /\ Artifact!OutputAlwaysWhole /\ Artifact!PredictsWithSoundModels
    /\ Artifact!PredictionsNameTheirSchema /\ Artifact!CompleteMeansLoadable

(* Whatever files are replaced while it starts or after, the service       *)
(* answers from what it pinned: the same request alike, by every seed or   *)
(* none, and like the probe that said it was up; only the client's         *)
(* mistakes are its fault.                                                 *)
ServesWhatWasPinned ==
  component = "shadow" =>
    /\ Shadow!TypeOK /\ Shadow!ListensWithPinnedState /\ Shadow!AnswersAgree
    /\ Shadow!AnswersAreWhole /\ Shadow!MistakesAreTheClients /\ Shadow!UpMeansPredicts

(* A declared pack is the baseline under its own overrides and no other    *)
(* pack's, two spellings of a name mean one pack, and nothing is resolved  *)
(* from a file where two packs come to one name.                           *)
PacksStandAlone ==
  component = "contexts" =>
    /\ Contexts!TypeOK /\ Contexts!DeclaredPacksStandAlone
    /\ Contexts!SpellingsAgree /\ Contexts!NamesAreUnambiguous

(* A save ends unless its process is killed, start-up and resolution end,  *)
(* and every request that was accepted is answered.                        *)
ServicesEnd ==
  /\ \A w \in Writers :
       (component = "artifact" /\ pc[w] = "build") ~> (component = "artifact" /\ pc[w] \in {"done", "failed", "crashed"})
  /\ component = "shadow" => Shadow!StartEnds
  /\ \A s \in Slots : (component = "shadow" /\ slot[s] # None) ~> (component = "shadow" /\ slot[s] = None)
  /\ component = "contexts" => Contexts!ResolutionEnds

=============================================================================
