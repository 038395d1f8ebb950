--------------------------- MODULE ServingProofs ---------------------------
(***************************************************************************)
(* For any artifacts, pins, requests and policy files, any number of       *)
(* writers, runtimes and request threads: what serves predictions is       *)
(* sound.                                                                  *)
(***************************************************************************)
EXTENDS Serving, FiniteSetTheorems, SequenceTheorems, WellFoundedInduction, TLAPS

-----------------------------------------------------------------------------
(* Model artifacts.  What a writer has staged is the whole of what it      *)
(* holds; what a command reads back is its own while nobody else wrote;    *)
(* and a runtime that has loaded nothing has answered nothing.             *)
ArtifactInv ==
  /\ Artifact!TypeOK
  /\ Artifact!OutputAlwaysWhole
  /\ Artifact!PredictsWithSoundModels
  /\ Artifact!PredictionsNameTheirSchema
  /\ Artifact!CompleteMeansLoadable
  /\ \A w \in Writers : pc[w] = "rename" => temporary[w] = Artifact!File(artifact[w])
  /\ \A w \in Commands : pc[w] = "reload" => artifact[w] # None
  /\ \A w \in Commands : pc[w] = "reload" /\ author = w => output = Artifact!File(artifact[w])
  /\ \A r \in Readers : runtime[r] = None => answer[r] = None

(* The files of candidates are files.                                      *)
LEMMA CandidateFiles ==
  ASSUME NEW a \in Candidates
  PROVE  /\ Artifact!File(a) \in Artifact!Files /\ Artifact!PartOf(a) \in Artifact!Files
         /\ Artifact!File(a).whole /\ Artifact!File(a).body = a /\ a # None
BY ServingAssumption DEF Artifact!File, Artifact!PartOf, Artifact!Files, Artifact!Artifacts,
                         Artifact!ArtifactAssumption

(* A writer that has not renamed its file disturbs nobody.                 *)
LEMMA StagingKeepsArtifactInv ==
  ASSUME ArtifactInv, NEW w \in Writers,
         \/ Artifact!Build(w) \/ Artifact!Save(w) \/ Artifact!WriteTemporary(w)
         \/ Artifact!SaveFails(w) \/ Artifact!Crash(w) \/ Artifact!Again(w)
  PROVE  ArtifactInv'
<1> USE ServingAssumption DEF ArtifactInv, Artifact!ArtifactAssumption
<1>1. UNCHANGED <<output, author, runtime, answer>>
  BY DEF Artifact!Build, Artifact!Save, Artifact!WriteTemporary, Artifact!SaveFails,
         Artifact!Crash, Artifact!Again
<1>2. /\ pc' \in [Writers -> {"build", "save", "write", "rename", "reload", "done", "failed", "crashed"}]
      /\ pc'[w] \notin {"reload", "done"}
      /\ \A v \in Writers : v # w => pc'[v] = pc[v] /\ artifact'[v] = artifact[v] /\ temporary'[v] = temporary[v]
  BY DEF Artifact!TypeOK, Artifact!Build, Artifact!Save, Artifact!WriteTemporary, Artifact!SaveFails,
         Artifact!Crash, Artifact!Again
<1>3. artifact' \in [Writers -> Candidates \cup {None}]
  BY DEF Artifact!TypeOK, Artifact!Build, Artifact!Save, Artifact!WriteTemporary, Artifact!SaveFails,
         Artifact!Crash, Artifact!Again
<1>4. /\ temporary' \in [Writers -> Artifact!Files \cup {None}]
      /\ pc'[w] = "rename" => temporary'[w] = Artifact!File(artifact'[w])
      /\ pc'[w] \in {"save", "write", "rename"} => artifact'[w] # None
  <2>1. CASE Artifact!Save(w) \/ Artifact!WriteTemporary(w)
    <3>1. artifact' = artifact /\ artifact[w] \in Candidates
      BY <2>1 DEF Artifact!Save, Artifact!WriteTemporary, Artifact!TypeOK
    <3> QED BY <2>1, <3>1, CandidateFiles DEF Artifact!Save, Artifact!WriteTemporary, Artifact!TypeOK
  <2>2. CASE Artifact!Build(w)
    BY <2>2 DEF Artifact!Build, Artifact!TypeOK
  <2>3. CASE Artifact!SaveFails(w) \/ Artifact!Crash(w) \/ Artifact!Again(w)
    BY <2>3 DEF Artifact!SaveFails, Artifact!Crash, Artifact!Again, Artifact!TypeOK
  <2> QED BY <2>1, <2>2, <2>3
<1>5. Artifact!TypeOK'
  BY <1>1, <1>2, <1>3, <1>4 DEF Artifact!TypeOK
<1>6. Artifact!OutputAlwaysWhole' /\ Artifact!PredictsWithSoundModels' /\ Artifact!PredictionsNameTheirSchema'
  BY <1>1 DEF Artifact!OutputAlwaysWhole, Artifact!PredictsWithSoundModels,
              Artifact!PredictionsNameTheirSchema
<1>7. Artifact!CompleteMeansLoadable'
  BY <1>1, <1>2 DEF Artifact!CompleteMeansLoadable
<1> QED
  BY <1>1, <1>2, <1>4, <1>5, <1>6, <1>7

LEMMA RenameKeepsArtifactInv ==
  ASSUME ArtifactInv, NEW w \in Writers, Artifact!Rename(w)
  PROVE  ArtifactInv'
<1> USE ServingAssumption DEF ArtifactInv, Artifact!ArtifactAssumption
<1>1. /\ artifact[w] \in Candidates /\ temporary[w] = Artifact!File(artifact[w])
      /\ output' = Artifact!File(artifact[w]) /\ author' = w
      /\ UNCHANGED <<runtime, answer>>
  BY DEF Artifact!Rename, Artifact!TypeOK
<1>2. /\ pc' \in [Writers -> {"build", "save", "write", "rename", "reload", "done", "failed", "crashed"}]
      /\ \A v \in Writers : v # w => pc'[v] = pc[v] /\ artifact'[v] = artifact[v] /\ temporary'[v] = temporary[v]
      /\ IF w \in Commands THEN pc'[w] = "reload" /\ artifact'[w] = artifact[w] ELSE pc'[w] = "done"
      /\ artifact' \in [Writers -> Candidates \cup {None}]
      /\ temporary' \in [Writers -> Artifact!Files \cup {None}]
  BY DEF Artifact!Rename, Artifact!TypeOK
<1>3. output' \in Artifact!Files /\ output'.whole /\ artifact[w] # None
  BY <1>1, CandidateFiles
<1>4. Artifact!TypeOK'
  BY <1>1, <1>2, <1>3 DEF Artifact!TypeOK
<1>5. Artifact!OutputAlwaysWhole' /\ Artifact!PredictsWithSoundModels' /\ Artifact!PredictionsNameTheirSchema'
  BY <1>1, <1>3 DEF Artifact!OutputAlwaysWhole, Artifact!PredictsWithSoundModels,
                    Artifact!PredictionsNameTheirSchema
<1>6. Artifact!CompleteMeansLoadable'
  BY <1>1, <1>2 DEF Artifact!CompleteMeansLoadable
<1> QED
  BY <1>1, <1>2, <1>3, <1>4, <1>5, <1>6

(* A command is complete when what it reads back can be loaded.            *)
LEMMA ReloadKeepsArtifactInv ==
  ASSUME ArtifactInv, NEW w \in Writers, Artifact!Reload(w)
  PROVE  ArtifactInv'
<1> USE ServingAssumption DEF ArtifactInv, Artifact!ArtifactAssumption
<1>1. /\ UNCHANGED <<temporary, output, author, runtime, answer>>
      /\ pc' \in [Writers -> {"build", "save", "write", "rename", "reload", "done", "failed", "crashed"}]
      /\ \A v \in Writers : v # w => pc'[v] = pc[v] /\ artifact'[v] = artifact[v]
      /\ pc[w] = "reload" /\ artifact' \in [Writers -> Candidates \cup {None}]
      /\ pc'[w] = IF Artifact!Loads(output, artifact[w].form) THEN "done" ELSE "failed"
  BY DEF Artifact!Reload, Artifact!TypeOK
<1>2. Artifact!TypeOK'
  BY <1>1 DEF Artifact!TypeOK
<1>3. Artifact!OutputAlwaysWhole' /\ Artifact!PredictsWithSoundModels' /\ Artifact!PredictionsNameTheirSchema'
  BY <1>1 DEF Artifact!OutputAlwaysWhole, Artifact!PredictsWithSoundModels,
              Artifact!PredictionsNameTheirSchema
<1>4. w \in Commands /\ pc'[w] = "done" /\ author = w => Artifact!Loads(output, output.body.form)
  <2> SUFFICES ASSUME w \in Commands, pc'[w] = "done", author = w
               PROVE  Artifact!Loads(output, output.body.form)
    OBVIOUS
  <2>1. artifact[w] \in Candidates /\ output = Artifact!File(artifact[w])
    BY <1>1 DEF Artifact!TypeOK
  <2>2. output.body = artifact[w]
    BY <2>1, CandidateFiles
  <2> QED BY <1>1, <2>2
<1>5. Artifact!CompleteMeansLoadable'
  BY <1>1, <1>4 DEF Artifact!CompleteMeansLoadable
<1> QED
  BY <1>1, <1>2, <1>3, <1>5

(* No two schemas have as many features: what scales is the base schema.   *)
LEMMA RuntimeKeepsArtifactInv ==
  ASSUME ArtifactInv, NEW r \in Readers, Artifact!LoadRuntime(r) \/ Artifact!Predict(r)
  PROVE  ArtifactInv'
<1> USE ServingAssumption DEF ArtifactInv, Artifact!ArtifactAssumption
<1>1. UNCHANGED <<pc, artifact, temporary, output, author>>
  BY DEF Artifact!LoadRuntime, Artifact!Predict
<1>2. Artifact!OutputAlwaysWhole' /\ Artifact!CompleteMeansLoadable'
  BY <1>1 DEF Artifact!OutputAlwaysWhole, Artifact!CompleteMeansLoadable, Artifact!Loads
<1>3. CASE Artifact!LoadRuntime(r)
  <2>1. /\ answer' = answer /\ runtime[r] = None /\ answer[r] = None
        /\ runtime' = [runtime EXCEPT ![r] = output.body]
        /\ output # None /\ Artifact!Loads(output, "binary")
    BY <1>3 DEF Artifact!LoadRuntime
  <2>2. /\ output.body \in Artifact!Artifacts /\ output.body.finite /\ output.body.metadata
        /\ Artifact!ModelFitsScaler(output.body)
    BY <2>1 DEF Artifact!TypeOK, Artifact!Files, Artifact!File, Artifact!PartOf, Artifact!Loads,
                Artifact!Constructs
  <2>3. Artifact!TypeOK'
    BY <1>1, <2>1, <2>2 DEF Artifact!TypeOK
  <2>4. Artifact!PredictsWithSoundModels' /\ Artifact!PredictionsNameTheirSchema'
    BY <2>1, <2>2 DEF Artifact!PredictsWithSoundModels, Artifact!PredictionsNameTheirSchema, Artifact!TypeOK
  <2>5. \A q \in Readers : runtime'[q] = None => answer'[q] = None
    BY <2>1 DEF Artifact!TypeOK
  <2> QED BY <1>1, <1>2, <2>3, <2>4, <2>5
<1>4. CASE Artifact!Predict(r)
  <2>1. /\ runtime' = runtime /\ runtime[r] # None
        /\ answer' = [answer EXCEPT ![r] =
             IF Artifact!Scales(runtime[r], Width[BaseVersion])
             THEN [model |-> runtime[r], version |-> BaseVersion] ELSE None]
    BY <1>4 DEF Artifact!Predict
  <2>2. \A q \in Readers : \/ answer'[q] \in {answer[q], None}
                           \/ /\ q = r /\ answer'[q] = [model |-> runtime[r], version |-> BaseVersion]
                              /\ Artifact!Scales(runtime[r], Width[BaseVersion])
    BY <2>1
  <2>3. Artifact!TypeOK' /\ \A q \in Readers : runtime'[q] = None => answer'[q] = None
    BY <1>1, <2>1, <2>2 DEF Artifact!TypeOK
  <2>4. Artifact!Scales(runtime[r], Width[BaseVersion]) => runtime[r].version = BaseVersion
    BY <2>1 DEF Artifact!Scales, Artifact!PredictsWithSoundModels, Artifact!ModelFitsScaler,
                Artifact!KnownVersion
  <2>5. Artifact!PredictionsNameTheirSchema'
    BY <2>2, <2>4 DEF Artifact!PredictionsNameTheirSchema
  <2>6. Artifact!PredictsWithSoundModels'
    BY <2>1 DEF Artifact!PredictsWithSoundModels
  <2> QED BY <1>1, <1>2, <2>3, <2>5, <2>6
<1> QED
  BY <1>3, <1>4

LEMMA ArtifactInductive == Spec => [](component = "artifact" => ArtifactInv)
<1>1. Init => (component = "artifact" => ArtifactInv)
  <2> SUFFICES ASSUME Artifact!Init PROVE ArtifactInv
    BY DEF Init
  <2>1. Artifact!TypeOK
    BY DEF Artifact!Init, Artifact!TypeOK, Artifact!Files, Artifact!Artifacts
  <2>2. Artifact!OutputAlwaysWhole
    BY DEF Artifact!Init, Artifact!OutputAlwaysWhole, Artifact!File
  <2> QED BY <2>1, <2>2, ServingAssumption
          DEF ArtifactInv, Artifact!Init, Artifact!PredictsWithSoundModels, Artifact!PredictionsNameTheirSchema,
              Artifact!CompleteMeansLoadable, Artifact!ArtifactAssumption
<1>2. (component = "artifact" => ArtifactInv) /\ [Next]_vars => (component = "artifact" => ArtifactInv)'
  <2> SUFFICES ASSUME ArtifactInv, Artifact!Next \/ UNCHANGED Artifact!vars PROVE ArtifactInv'
    BY DEF Next, vars, ArtifactOthers, ShadowOthers, ContextsOthers, Artifact!vars
  <2>1. CASE UNCHANGED Artifact!vars
    BY <2>1 DEF ArtifactInv, Artifact!vars, Artifact!TypeOK, Artifact!OutputAlwaysWhole,
                Artifact!PredictsWithSoundModels, Artifact!PredictionsNameTheirSchema,
                Artifact!CompleteMeansLoadable
  <2>2. CASE Artifact!Next
    BY <2>1, <2>2, StagingKeepsArtifactInv, RenameKeepsArtifactInv, ReloadKeepsArtifactInv,
       RuntimeKeepsArtifactInv DEF Artifact!Next, Artifact!Saving, Artifact!Ended
  <2> QED BY <2>1, <2>2
<1> QED
  BY <1>1, <1>2, PTL DEF Spec

(* Whatever writers crash, fail or run at the same time, a runtime         *)
(* predicts with a whole and sound model and names its schema, and what a  *)
(* command completed can be loaded.                                        *)
THEOREM ArtifactsSound == Spec => []ArtifactsAreSound
<1>1. (component = "artifact" => ArtifactInv) => ArtifactsAreSound
  BY DEF ArtifactInv, ArtifactsAreSound
<1> QED
  BY <1>1, ArtifactInductive, PTL

-----------------------------------------------------------------------------
(* Policy packs.  A name resolves to the rules of its definition, applied  *)
(* in order to the baseline: the last entry of a rule counts.              *)
RulesAsked(name) ==
  IF Contexts!Definition(document, name) = None THEN <<>> ELSE Contexts!Definition(document, name)

ListOf(rules, S) == rules \in Seq(S)

KeysOf(rules, k, rule) == {i \in 1..k : rules[i].rule = rule}
LastOf(keys) == CHOOSE i \in keys : \A j \in keys : j <= i
Applied(rules, k) ==
  [rule \in Rules |->
    IF KeysOf(rules, k, rule) = {} THEN Baseline[rule]
    ELSE Contexts!Action(rules[LastOf(KeysOf(rules, k, rule))])]
Rest(rules, k) == [i \in 1..(Len(rules) - k) |-> rules[k + i]]

(* The name at hand has the first k of its rules applied.                  *)
InHand(k) ==
  /\ k <= Len(RulesAsked(Head(asked)))
  /\ current = [name |-> Head(asked), actions |-> Applied(RulesAsked(Head(asked)), k),
                left |-> Rest(RulesAsked(Head(asked)), k)]

ContextsInv ==
  /\ Contexts!TypeOK
  /\ document \in Documents
  /\ status = "reading" => contexts = <<>> /\ current = None
  /\ status = "failed" => contexts = <<>> /\ current = None
  /\ status \in {"resolving", "done"} => ~Contexts!Duplicated(document)
  /\ \A n \in DOMAIN contexts :
       /\ Contexts!Definition(document, n) # Malformed
       /\ contexts[n] = Applied(RulesAsked(n), Len(RulesAsked(n)))
  /\ current # None =>
       /\ Contexts!Definition(document, Head(asked)) # Malformed
       /\ \E k \in Nat : InHand(k)

(* The rules of a definition that is not refused are a sequence.           *)
LEMMA RulesAreASequence ==
  ASSUME document \in Documents, NEW name, Contexts!Definition(document, name) # Malformed
  PROVE  /\ ListOf(RulesAsked(name), {RulesAsked(name)[i] : i \in DOMAIN RulesAsked(name)})
         /\ Len(RulesAsked(name)) \in Nat /\ DOMAIN RulesAsked(name) = 1..Len(RulesAsked(name))
<1> DEFINE rules == RulesAsked(name)
<1>1. rules \in Seq({rules[i] : i \in DOMAIN rules})
  <2>1. ASSUME NEW norm, Contexts!Declares(document, norm)
        PROVE  Contexts!RulesOf(document, norm) \in {None, Malformed}
                 \/ Contexts!IsSequence(Contexts!RulesOf(document, norm))
    <3> DEFINE at == CHOOSE i \in Contexts!NamedPacks(document) : document.packs[i].name.norm = norm
    <3>1. at \in DOMAIN document.packs
      BY <2>1 DEF Contexts!Declares, Contexts!NamedPacks
    <3>2. Contexts!RulesOf(document, norm) = document.packs[at].rules
      BY DEF Contexts!RulesOf
    <3> HIDE DEF at
    <3> QED BY <3>1, <3>2, ServingAssumption DEF Contexts!ContextsAssumption
  <2>2. \/ Contexts!Definition(document, name) \in {None, Malformed}
        \/ Contexts!IsSequence(Contexts!Definition(document, name))
    BY <2>1 DEF Contexts!Definition
  <2>3. CASE Contexts!Definition(document, name) = None
    BY <2>3 DEF RulesAsked
  <2>4. CASE Contexts!Definition(document, name) # None
    BY <2>2, <2>4 DEF RulesAsked, Contexts!IsSequence
  <2> QED BY <2>3, <2>4
<1> HIDE DEF rules
<1>2. Len(rules) \in Nat /\ DOMAIN rules = 1..Len(rules)
  BY <1>1, LenProperties
<1> QED
  BY <1>1, <1>2 DEF rules, ListOf

(* Nothing applied is the baseline; all applied leaves nothing.            *)
LEMMA RestProperties ==
  ASSUME NEW S, NEW rules, ListOf(rules, S), NEW k \in Nat, k <= Len(rules)
  PROVE  /\ Applied(rules, 0) = Baseline
         /\ Rest(rules, 0) = rules
         /\ Rest(rules, k) = <<>> <=> k = Len(rules)
         /\ k # Len(rules) => /\ Head(Rest(rules, k)) = rules[k + 1]
                              /\ Tail(Rest(rules, k)) = Rest(rules, k + 1)
<1> DEFINE left == Rest(rules, k)
<1>1. Len(rules) \in Nat
  BY LenProperties DEF ListOf
<1>2. rules \in [1..Len(rules) -> S]
  BY LenProperties DEF ListOf
<1>3. Applied(rules, 0) = Baseline
  <2>1. \A rule \in Rules : KeysOf(rules, 0, rule) = {}
    BY DEF KeysOf
  <2> QED BY <2>1, ServingAssumption DEF Applied, Contexts!ContextsAssumption
<1>4. Rest(rules, 0) = rules
  BY <1>1, <1>2 DEF Rest
<1>5. left \in [1..(Len(rules) - k) -> S] /\ Len(rules) - k \in Nat
  BY <1>1, <1>2 DEF Rest
<1>6. ListOf(left, S) /\ Len(left) = Len(rules) - k
  <2> DEFINE n == Len(rules) - k
  <2>1. left \in [1..n -> S] /\ n \in Nat
    BY <1>5
  <2> HIDE DEF left, n
  <2>2. left \in Seq(S)
    BY <2>1, SeqDef
  <2>3. Len(left) \in Nat /\ DOMAIN left = 1..Len(left)
    BY <2>2, LenProperties
  <2>4. 1..n = 1..Len(left)
    BY <2>1, <2>3
  <2>5. Len(left) = n
    BY <2>1, <2>3, <2>4
  <2> QED BY <2>2, <2>5 DEF ListOf, n
<1> HIDE DEF left
<1>7. left = <<>> <=> k = Len(rules)
  <2>1. left = <<>> <=> Len(left) = 0
    BY <1>6, EmptySeq DEF ListOf
  <2> QED BY <1>1, <1>6, <2>1
<1>8. ASSUME k # Len(rules)
      PROVE  Head(left) = rules[k + 1] /\ Tail(left) = Rest(rules, k + 1)
  <2> DEFINE m == Len(rules) - (k + 1)
  <2>1. m \in Nat /\ Len(rules) - k = m + 1 /\ 1 \in 1..(Len(rules) - k)
    BY <1>1, <1>8
  <2>2. left[1] = rules[k + 1] /\ \A i \in 1..m : left[i + 1] = rules[k + 1 + i]
    <3> HIDE DEF m
    <3>1. \A i \in 1..m : i + 1 \in 1..(m + 1) /\ k + (i + 1) = k + 1 + i
      BY <2>1
    <3>2. left = [i \in 1..(m + 1) |-> rules[k + i]]
      BY <2>1 DEF left, Rest
    <3> QED BY <2>1, <3>1, <3>2
  <2>3. /\ Head(left) = left[1] /\ ListOf(Tail(left), S) /\ Len(Tail(left)) = Len(left) - 1
        /\ \A i \in 1..(Len(left) - 1) : Tail(left)[i] = left[i + 1]
    BY <1>6, <1>7, <1>8, HeadTailProperties DEF ListOf
  <2>4. Len(left) - 1 = m
    BY <1>6, <2>1
  <2> DEFINE tail == Tail(left)
  <2>5. tail \in [1..Len(tail) -> S]
    BY <2>3, LenProperties DEF ListOf
  <2> HIDE DEF m, tail
  <2>6. tail = [i \in 1..m |-> tail[i]] /\ \A i \in 1..m : tail[i] = rules[k + 1 + i]
    BY <2>2, <2>3, <2>4, <2>5 DEF tail
  <2>7. tail = [i \in 1..m |-> rules[k + 1 + i]]
    BY <2>6
  <2> QED BY <2>2, <2>3, <2>7 DEF Rest, m, tail
<1> QED
  BY <1>3, <1>4, <1>7, <1>8 DEF left

(* One more entry: the rule it names gets its action, or it names none.    *)
LEMMA AppliedStep ==
  ASSUME NEW rules, NEW k \in Nat, rules[k + 1].rule = None \/ Contexts!Acceptable(rules[k + 1])
  PROVE  Applied(rules, k + 1) =
           IF rules[k + 1].rule = None THEN Applied(rules, k)
           ELSE [Applied(rules, k) EXCEPT ![rules[k + 1].rule] = Contexts!Action(rules[k + 1])]
<1> DEFINE entry == rules[k + 1]
<1>1. \A rule \in Rules :
        KeysOf(rules, k + 1, rule) =
          IF entry.rule = rule THEN KeysOf(rules, k, rule) \cup {k + 1} ELSE KeysOf(rules, k, rule)
  BY DEF KeysOf
<1>2. \A rule \in Rules : entry.rule = rule =>
        LastOf(KeysOf(rules, k + 1, rule)) = k + 1
  <2> SUFFICES ASSUME NEW rule \in Rules, entry.rule = rule
               PROVE  LastOf(KeysOf(rules, k + 1, rule)) = k + 1
    OBVIOUS
  <2> DEFINE K == KeysOf(rules, k + 1, rule)
  <2>1. k + 1 \in K /\ \A j \in K : j \in Nat /\ j <= k + 1
    BY DEF KeysOf
  <2> HIDE DEF K
  <2>2. \A i \in K : (\A j \in K : j <= i) => i = k + 1
    BY <2>1
  <2>3. LastOf(K) \in K /\ \A j \in K : j <= LastOf(K)
    BY <2>1 DEF LastOf
  <2> QED BY <2>2, <2>3 DEF K
<1>3. None \notin Rules
  BY ServingAssumption DEF Contexts!ContextsAssumption
<1>4. CASE entry.rule = None
  <2>1. \A rule \in Rules : KeysOf(rules, k + 1, rule) = KeysOf(rules, k, rule)
    BY <1>1, <1>3, <1>4
  <2> QED BY <1>4, <2>1 DEF Applied
<1>5. CASE entry.rule # None
  <2>1. entry.rule \in Rules
    BY <1>5 DEF Contexts!Acceptable
  <2>2. \A rule \in Rules : rule # entry.rule => KeysOf(rules, k + 1, rule) = KeysOf(rules, k, rule)
    BY <1>1
  <2>3. \A rule \in Rules : rule # entry.rule => Applied(rules, k + 1)[rule] = Applied(rules, k)[rule]
    BY <2>2 DEF Applied
  <2>4. Applied(rules, k + 1)[entry.rule] = Contexts!Action(entry)
    <3>1. KeysOf(rules, k + 1, entry.rule) # {}
      BY <1>1, <2>1
    <3> QED BY <1>2, <2>1, <3>1 DEF Applied
  <2>5. /\ Applied(rules, k + 1) = [rule \in Rules |-> Applied(rules, k + 1)[rule]]
        /\ Applied(rules, k) = [rule \in Rules |-> Applied(rules, k)[rule]]
    BY DEF Applied
  <2> HIDE DEF entry
  <2>6. Applied(rules, k + 1) = [Applied(rules, k) EXCEPT ![entry.rule] = Contexts!Action(entry)]
    BY <2>1, <2>3, <2>4, <2>5
  <2> QED BY <1>5, <2>6 DEF entry
<1> QED
  BY <1>4, <1>5

(* Steps that touch no table of actions.                                   *)
LEMMA ReadingKeepsContextsInv ==
  ASSUME ContextsInv,
         \/ Contexts!Read \/ Contexts!RefuseDuplicates \/ Contexts!RefuseDefinition
         \/ Contexts!RefuseRule \/ Contexts!Finish
  PROVE  ContextsInv'
<1> USE DEF ContextsInv
<1>1. CASE Contexts!Read \/ Contexts!Finish
  BY <1>1 DEF Contexts!Read, Contexts!Finish, Contexts!TypeOK, RulesAsked, InHand
<1>2. CASE Contexts!Fail
  BY <1>2 DEF Contexts!Fail, Contexts!TypeOK
<1> QED
  BY <1>1, <1>2 DEF Contexts!RefuseDuplicates, Contexts!RefuseDefinition, Contexts!RefuseRule

LEMMA StartKeepsContextsInv ==
  ASSUME ContextsInv, Contexts!Start
  PROVE  ContextsInv'
<1> USE DEF ContextsInv
<1> DEFINE name  == Head(asked)
           rules == RulesAsked(name)
<1>1. /\ UNCHANGED <<document, asked, contexts, status>> /\ status = "resolving"
      /\ Contexts!Definition(document, name) # Malformed
      /\ current' = [name |-> name, actions |-> Baseline, left |-> rules]
  BY DEF Contexts!Start, Contexts!StartingActions, RulesAsked
<1>2. ListOf(rules, {rules[i] : i \in DOMAIN rules}) /\ Len(rules) \in Nat
  BY <1>1, RulesAreASequence
<1>3. Applied(rules, 0) = Baseline /\ Rest(rules, 0) = rules
  BY <1>2, RestProperties
<1>4. \A n : RulesAsked(n)' = RulesAsked(n)
  BY <1>1 DEF RulesAsked
<1>5. InHand(0)'
  BY <1>1, <1>2, <1>3, <1>4 DEF InHand
<1>6. Contexts!TypeOK'
  BY <1>1, ServingAssumption DEF Contexts!TypeOK, Contexts!ContextsAssumption
<1>7. Contexts!Definition(document', Head(asked')) # Malformed
  BY <1>1
<1>8. \A n \in DOMAIN contexts' :
        /\ Contexts!Definition(document', n) # Malformed
        /\ contexts'[n] = Applied(RulesAsked(n)', Len(RulesAsked(n)'))
  BY <1>1, <1>4
<1> QED
  BY <1>1, <1>5, <1>6, <1>7, <1>8

LEMMA ApplyKeepsContextsInv ==
  ASSUME ContextsInv, Contexts!Apply
  PROVE  ContextsInv'
<1> USE DEF ContextsInv
<1> DEFINE name  == Head(asked)
           rules == RulesAsked(name)
<1>1. /\ UNCHANGED <<document, asked, contexts, status>> /\ status = "resolving"
      /\ current # None /\ current.left # <<>>
      /\ Contexts!Definition(document, name) # Malformed
  BY DEF Contexts!Apply, Contexts!Working
<1>2. PICK k \in Nat : InHand(k)
  BY <1>1
<1>3. ListOf(rules, {rules[i] : i \in DOMAIN rules}) /\ Len(rules) \in Nat
  BY <1>1, RulesAreASequence
<1>4. /\ k <= Len(rules)
      /\ current = [name |-> name, actions |-> Applied(rules, k), left |-> Rest(rules, k)]
  BY <1>2 DEF InHand
<1>5. /\ k + 1 <= Len(rules) /\ Head(current.left) = rules[k + 1]
      /\ Tail(current.left) = Rest(rules, k + 1)
  BY <1>1, <1>3, <1>4, RestProperties
<1> DEFINE entry == rules[k + 1]
           acts  == IF entry.rule = None THEN current.actions
                    ELSE [current.actions EXCEPT ![entry.rule] = Contexts!Action(entry)]
<1>6. entry.rule = None \/ Contexts!Acceptable(entry)
  BY <1>5 DEF Contexts!Apply
<1>7. current' = [current EXCEPT !.left = Rest(rules, k + 1), !.actions = acts]
  BY <1>5 DEF Contexts!Apply
<1>8. acts = Applied(rules, k + 1)
  BY <1>4, <1>6, AppliedStep
<1>9. current' = [name |-> name, actions |-> Applied(rules, k + 1), left |-> Rest(rules, k + 1)]
  BY <1>4, <1>7, <1>8
<1>10. \A n : RulesAsked(n)' = RulesAsked(n)
  BY <1>1 DEF RulesAsked
<1>11. InHand(k + 1)'
  BY <1>1, <1>5, <1>9, <1>10 DEF InHand
<1>12. current'.actions \in [Rules -> Contexts!Actions]
  <2>1. current.actions \in [Rules -> Contexts!Actions]
    BY <1>1 DEF Contexts!TypeOK
  <2>2. Contexts!Acceptable(entry) => Contexts!Action(entry) \in Contexts!Actions
    BY DEF Contexts!Acceptable, Contexts!Action, Contexts!Actions
  <2>3. acts \in [Rules -> Contexts!Actions]
    BY <1>6, <2>1, <2>2
  <2> QED BY <1>8, <1>9, <2>3
<1>13. Contexts!TypeOK'
  BY <1>1, <1>9, <1>12 DEF Contexts!TypeOK
<1>14. \A n \in DOMAIN contexts' :
         /\ Contexts!Definition(document', n) # Malformed
         /\ contexts'[n] = Applied(RulesAsked(n)', Len(RulesAsked(n)'))
  BY <1>1, <1>10
<1>15. k + 1 \in Nat /\ Contexts!Definition(document', Head(asked')) # Malformed
  BY <1>1
<1> QED
  BY <1>1, <1>11, <1>13, <1>14, <1>15

LEMMA ResolvedKeepsContextsInv ==
  ASSUME ContextsInv, Contexts!Resolved
  PROVE  ContextsInv'
<1> USE DEF ContextsInv
<1> DEFINE name  == Head(asked)
           rules == RulesAsked(name)
<1>1. /\ UNCHANGED <<document, status>> /\ status = "resolving"
      /\ current # None /\ current.left = <<>> /\ current' = None
      /\ Contexts!Definition(document, name) # Malformed
      /\ contexts' = [n \in DOMAIN contexts \cup {current.name} |->
                        IF n = current.name THEN current.actions ELSE contexts[n]]
  BY DEF Contexts!Resolved
<1>2. PICK k \in Nat : InHand(k)
  BY <1>1
<1>3. ListOf(rules, {rules[i] : i \in DOMAIN rules}) /\ Len(rules) \in Nat
  BY <1>1, RulesAreASequence
<1>4. current.name = name /\ current.actions = Applied(rules, Len(rules))
  <2>1. /\ k <= Len(rules) /\ current.left = Rest(rules, k)
        /\ current.actions = Applied(rules, k) /\ current.name = name
    BY <1>2 DEF InHand
  <2> QED BY <1>1, <1>3, <2>1, RestProperties
<1>5. \A n : RulesAsked(n)' = RulesAsked(n)
  BY <1>1 DEF RulesAsked
<1>6. ASSUME NEW n \in DOMAIN contexts'
      PROVE  /\ Contexts!Definition(document', n) # Malformed
             /\ contexts'[n] = Applied(RulesAsked(n)', Len(RulesAsked(n)'))
             /\ contexts'[n] \in [Rules -> Contexts!Actions]
  <2>1. CASE n = name
    BY <1>1, <1>4, <1>5, <2>1 DEF Contexts!TypeOK
  <2>2. CASE n # name
    BY <1>1, <1>4, <1>5, <2>2 DEF Contexts!TypeOK
  <2> QED BY <2>1, <2>2
<1>7. Contexts!TypeOK'
  BY <1>1, <1>6 DEF Contexts!TypeOK
<1> QED
  BY <1>1, <1>6, <1>7

LEMMA ContextsInductive == Spec => [](component = "contexts" => ContextsInv)
<1>1. Init => (component = "contexts" => ContextsInv)
  BY DEF Init, Contexts!Init, ContextsInv, Contexts!TypeOK
<1>2. (component = "contexts" => ContextsInv) /\ [Next]_vars => (component = "contexts" => ContextsInv)'
  <2> SUFFICES ASSUME ContextsInv, Contexts!Next \/ UNCHANGED Contexts!vars PROVE ContextsInv'
    BY DEF Next, vars, ArtifactOthers, ShadowOthers, ContextsOthers, Contexts!vars
  <2>1. CASE UNCHANGED Contexts!vars
    BY <2>1 DEF ContextsInv, Contexts!vars, Contexts!TypeOK, RulesAsked, InHand
  <2>2. CASE Contexts!Next
    BY <2>1, <2>2, ReadingKeepsContextsInv, StartKeepsContextsInv, ApplyKeepsContextsInv,
       ResolvedKeepsContextsInv DEF Contexts!Next, Contexts!Step, Contexts!Ended
  <2> QED BY <2>1, <2>2
<1> QED
  BY <1>1, <1>2, PTL DEF Spec

(* A name that is declared resolves to its own rules.                      *)
LEMMA DeclaredStandsAlone ==
  ASSUME ContextsInv, NEW n \in DOMAIN contexts,
         Contexts!Declares(document, Contexts!Requested(document, n)), NEW rule \in Rules
  PROVE  LET rules == Contexts!RulesOf(document, Contexts!Requested(document, n))
             keys  == Contexts!Keys(rules, rule)
             set   == rules[CHOOSE i \in keys : \A j \in keys : j <= i].action
         IN  contexts[n][rule] =
               IF rules = None \/ keys = {} THEN Baseline[rule]
               ELSE IF set = None THEN "BREAKING" ELSE set
<1> DEFINE rules == Contexts!RulesOf(document, Contexts!Requested(document, n))
           keys  == Contexts!Keys(rules, rule)
           last  == LastOf(keys)
<1>1. Contexts!Definition(document, n) = rules
  BY DEF Contexts!Definition
<1>2. contexts[n] = Applied(RulesAsked(n), Len(RulesAsked(n))) /\ Contexts!Definition(document, n) # Malformed
  BY DEF ContextsInv
<1>3. /\ ListOf(RulesAsked(n), {RulesAsked(n)[i] : i \in DOMAIN RulesAsked(n)})
      /\ Len(RulesAsked(n)) \in Nat /\ DOMAIN RulesAsked(n) = 1..Len(RulesAsked(n))
  BY <1>2, RulesAreASequence DEF ContextsInv
<1>4. CASE rules = None
  <2>1. RulesAsked(n) = <<>>
    BY <1>1, <1>4 DEF RulesAsked
  <2>2. Len(RulesAsked(n)) = 0
    BY <2>1
  <2>3. Applied(RulesAsked(n), 0) = Baseline
    BY <1>3, <2>2, RestProperties
  <2> QED BY <1>2, <1>4, <2>2, <2>3
<1>5. CASE rules # None
  <2>1. RulesAsked(n) = rules
    BY <1>1, <1>5 DEF RulesAsked
  <2>2. keys = KeysOf(rules, Len(rules), rule)
    BY <1>3, <2>1 DEF Contexts!Keys, KeysOf
  <2> HIDE DEF rules, keys
  <2>3. contexts[n][rule] = IF keys = {} THEN Baseline[rule] ELSE Contexts!Action(rules[last])
    BY <1>2, <2>1, <2>2 DEF Applied
  <2> QED BY <1>5, <2>3 DEF rules, keys, LastOf, Contexts!Action
<1> QED
  BY <1>4, <1>5

(* A pack that is declared is the baseline under its own rules, two        *)
(* spellings of a name have one table, and no file with two packs of one   *)
(* name resolves anything.                                                 *)
THEOREM PacksAlone == Spec => []PacksStandAlone
<1>1. ContextsInv => Contexts!DeclaredPacksStandAlone
  <2> SUFFICES ASSUME ContextsInv, NEW n \in DOMAIN contexts,
                      Contexts!Declares(document, Contexts!Requested(document, n))
               PROVE  LET rules == Contexts!RulesOf(document, Contexts!Requested(document, n)) IN
                      \A rule \in Rules :
                        IF rules = None \/ Contexts!Keys(rules, rule) = {} THEN contexts[n][rule] = Baseline[rule]
                        ELSE LET set == rules[CHOOSE i \in Contexts!Keys(rules, rule) :
                                                \A j \in Contexts!Keys(rules, rule) : j <= i].action
                             IN  contexts[n][rule] = IF set = None THEN "BREAKING" ELSE set
    BY DEF Contexts!DeclaredPacksStandAlone
  <2> QED BY DeclaredStandsAlone
<1>2. ContextsInv => Contexts!SpellingsAgree
  <2> SUFFICES ASSUME ContextsInv, NEW n \in DOMAIN contexts, NEW m \in DOMAIN contexts,
                      Contexts!Requested(document, n) = Contexts!Requested(document, m)
               PROVE  contexts[n] = contexts[m]
    BY DEF Contexts!SpellingsAgree
  <2>1. Contexts!Definition(document, n) = Contexts!Definition(document, m)
    BY DEF Contexts!Definition
  <2>2. RulesAsked(n) = RulesAsked(m)
    BY <2>1 DEF RulesAsked
  <2> QED BY <2>2 DEF ContextsInv
<1>3. ContextsInv => Contexts!NamesAreUnambiguous
  <2> SUFFICES ASSUME ContextsInv, contexts # <<>>, NEW i \in DOMAIN document.packs,
                      NEW j \in DOMAIN document.packs, i # j, document.packs[i].name.norm # None
               PROVE  document.packs[i].name.norm # document.packs[j].name.norm
    BY DEF Contexts!NamesAreUnambiguous
  <2>1. ~Contexts!Duplicated(document)
    BY DEF ContextsInv, Contexts!TypeOK
  <2> QED BY <2>1 DEF Contexts!Duplicated, Contexts!NamedPacks
<1>4. (component = "contexts" => ContextsInv) => PacksStandAlone
  BY <1>1, <1>2, <1>3 DEF ContextsInv, PacksStandAlone
<1> QED
  BY <1>4, ContextsInductive, PTL

-----------------------------------------------------------------------------
(* The shadow service.  What a request comes to is a function of the       *)
(* request and of what was loaded.                                         *)
Prediction(i, body) == Score[<<loaded[Seeds[i]], Shadow!VectorOf(body)>>]

Plain(body) ==
  IF Shadow!Rejection(body) # None THEN Shadow!Error(400, Shadow!Rejection(body))
  ELSE IF Shadow!VectorOf(body) = None THEN Shadow!Error(400, "SCHEMA_FEATURE_EXTRACTION_FAILED")
  ELSE IF \E i \in DOMAIN Seeds : Prediction(i, body) = None THEN Shadow!Error(500, "INFERENCE_FAILED")
  ELSE Shadow!Ok([i \in DOMAIN Seeds |-> <<Seeds[i], Prediction(i, body)>>])

Outcome(kind, body) ==
  IF kind = "ready" /\ Plain(body).status # 200 THEN Shadow!Error(503, "NOT_READY") ELSE Plain(body)

Vectors == {Shadow!VectorOf(body) : body \in Bodies} \cup {None}
Scored  == {Score[<<c, v>>] : c \in DOMAIN Contents, v \in Vectors}
Handled ==
  [kind : {"predict", "ready"}, body : Bodies, at : {"checks", "scores"}, vector : Vectors,
   predictions : Seq({Seeds[i] : i \in DOMAIN Seeds} \X Scored)]

(* Files are loaded in order and as pinned.                                *)
LoadedInv ==
  /\ files \in [Shadow!Files -> DOMAIN Contents] /\ pins \in PinTables
  /\ phase \in {"loading", "listening", "stopped"}
  /\ \E n \in 0..Len(Shadow!Order) : DOMAIN loaded = {Shadow!Order[i] : i \in 1..n}
  /\ loaded = [f \in DOMAIN loaded |-> pins[f]]
  /\ \A f \in DOMAIN loaded : Shadow!Usable(f, pins[f])
  /\ phase = "listening" => DOMAIN loaded = Shadow!Files

(* A request that is scored has passed the checks, and has the predictions *)
(* of the first seeds, none of which failed.                               *)
SlotInv(s) ==
  /\ slot[s] \in Handled
  /\ slot[s].kind = "ready" => slot[s].body = Probe
  /\ slot[s].at = "checks" => slot[s].predictions = <<>>
  /\ slot[s].at = "scores" =>
       /\ Shadow!Rejection(slot[s].body) = None /\ slot[s].vector = Shadow!VectorOf(slot[s].body)
       /\ slot[s].vector # None
       /\ Len(slot[s].predictions) <= Len(Seeds)
       /\ \A i \in 1..Len(slot[s].predictions) :
            /\ slot[s].predictions[i] = <<Seeds[i], Prediction(i, slot[s].body)>>
            /\ Prediction(i, slot[s].body) # None

AnswerInv(x) ==
  /\ x[1] \in {"predict", "ready"} /\ x[2] \in Bodies /\ (x[1] = "ready" => x[2] = Probe)
  /\ x[3] = Outcome(x[1], x[2])

ShadowInv ==
  /\ LoadedInv
  /\ slot = [s \in Slots |-> slot[s]]
  /\ phase # "listening" => answered = {} /\ \A s \in Slots : slot[s] = None
  /\ \A s \in Slots : slot[s] # None => SlotInv(s)
  /\ \A x \in answered : AnswerInv(x)

(* The files are loaded in an order that has each once.                    *)
LEMMA OrderProperties ==
  /\ Len(Seeds) \in Nat /\ DOMAIN Seeds = 1..Len(Seeds) /\ Len(Shadow!Order) = Len(Seeds) + 1
  /\ Seeds \in Seq({Seeds[i] : i \in DOMAIN Seeds})
  /\ Shadow!Order[1] = Shadow!Policy
  /\ \A i \in DOMAIN Seeds : Shadow!Order[i + 1] = Seeds[i] /\ Seeds[i] # Shadow!Policy
  /\ Shadow!Files = {Shadow!Order[i] : i \in 1..Len(Shadow!Order)}
  /\ \A i, j \in 1..Len(Shadow!Order) : Shadow!Order[i] = Shadow!Order[j] => i = j
<1> DEFINE S == {Seeds[i] : i \in DOMAIN Seeds}
<1>0. Seeds \in Seq(S)
  BY ServingAssumption DEF Shadow!ShadowAssumption, Shadow!ToSet
<1>1. /\ \A i, j \in DOMAIN Seeds : Seeds[i] = Seeds[j] => i = j
      /\ Shadow!Policy \notin S /\ Shadow!Files = {Shadow!Policy} \cup S
  BY ServingAssumption DEF Shadow!ShadowAssumption, Shadow!ToSet, Shadow!Files
<1>2. Len(Seeds) \in Nat /\ DOMAIN Seeds = 1..Len(Seeds)
  BY <1>0, LenProperties
<1>3. /\ Len(Shadow!Order) = Len(Seeds) + 1 /\ Shadow!Order[1] = Shadow!Policy
      /\ \A i \in DOMAIN Seeds : Shadow!Order[i + 1] = Seeds[i]
  <2> DEFINE T == S \cup {Shadow!Policy}
  <2>1. <<Shadow!Policy>> \in Seq(T) /\ Seeds \in Seq(T) /\ Len(<<Shadow!Policy>>) = 1
    BY <1>0
  <2>2. /\ Len(<<Shadow!Policy>> \o Seeds) = 1 + Len(Seeds)
        /\ \A i \in 1..(1 + Len(Seeds)) : (<<Shadow!Policy>> \o Seeds)[i] =
             IF i <= 1 THEN <<Shadow!Policy>>[i] ELSE Seeds[i - 1]
    BY <2>1, ConcatProperties
  <2> QED BY <1>2, <2>2 DEF Shadow!Order
<1>4. \A k \in 1..(Len(Seeds) + 1) : k = 1 \/ (k - 1 \in DOMAIN Seeds /\ Shadow!Order[k] = Seeds[k - 1])
  <2> SUFFICES ASSUME NEW k \in 1..(Len(Seeds) + 1), k # 1
               PROVE  k - 1 \in DOMAIN Seeds /\ Shadow!Order[k] = Seeds[k - 1]
    OBVIOUS
  <2>1. k - 1 \in DOMAIN Seeds /\ (k - 1) + 1 = k
    BY <1>2
  <2>2. Shadow!Order[(k - 1) + 1] = Seeds[k - 1]
    BY <1>3, <2>1
  <2> QED BY <2>1, <2>2
<1>5. \A i \in DOMAIN Seeds : Seeds[i] # Shadow!Policy
  BY <1>1
<1>6. Shadow!Files = {Shadow!Order[i] : i \in 1..Len(Shadow!Order)}
  <2>1. \A i \in DOMAIN Seeds : i + 1 \in 1..Len(Shadow!Order)
    BY <1>2, <1>3
  <2>2. 1 \in 1..Len(Shadow!Order)
    BY <1>2, <1>3
  <2> QED BY <1>1, <1>3, <1>4, <2>1, <2>2
<1>7. \A i, j \in 1..Len(Shadow!Order) : Shadow!Order[i] = Shadow!Order[j] => i = j
  <2> SUFFICES ASSUME NEW i \in 1..(Len(Seeds) + 1), NEW j \in 1..(Len(Seeds) + 1),
                      Shadow!Order[i] = Shadow!Order[j]
               PROVE  i = j
    BY <1>3
  <2>1. CASE i = 1 \/ j = 1
    BY <1>3, <1>4, <1>5, <2>1
  <2>2. CASE i # 1 /\ j # 1
    <3>1. i - 1 \in DOMAIN Seeds /\ j - 1 \in DOMAIN Seeds /\ Seeds[i - 1] = Seeds[j - 1]
      BY <1>4, <2>2
    <3>2. i - 1 = j - 1
      BY <1>1, <3>1
    <3> QED BY <1>2, <3>2
  <2> QED BY <2>1, <2>2
<1> QED
  BY <1>0, <1>1, <1>2, <1>3, <1>5, <1>6, <1>7

(* Files are counted as everywhere.                                        *)
LEMMA CountedAsHere == \A S : Shadow!Cardinality(S) = Cardinality(S)
BY DEF Shadow!Cardinality, Cardinality

(* The number of files loaded is the position of the last one.             *)
LEMMA NextFileInOrder ==
  ASSUME NEW n \in 0..Len(Shadow!Order), DOMAIN loaded = {Shadow!Order[i] : i \in 1..n},
         DOMAIN loaded # Shadow!Files
  PROVE  n + 1 \in 1..Len(Shadow!Order) /\ Shadow!NextFile = Shadow!Order[n + 1]
<1> DEFINE L == {Shadow!Order[i] : i \in 1..n}
           f == [i \in 1..n |-> Shadow!Order[i]]
<1>1. n \in Nat /\ n <= Len(Shadow!Order) /\ Len(Shadow!Order) \in Nat
  BY OrderProperties
<1>2. \A i, j \in 1..n : Shadow!Order[i] = Shadow!Order[j] => i = j
  BY <1>1, OrderProperties
<1>3. f \in Bijection(1..n, L)
  <2>1. f \in [1..n -> L] /\ (\A a, b \in 1..n : f[a] = f[b] => a = b) /\ (\A t \in L : \E a \in 1..n : f[a] = t)
    BY <1>2
  <2> HIDE DEF f, L
  <2> QED BY <2>1 DEF Bijection, Injection, Surjection, IsInjective
<1>4. ExistsBijection(1..n, L)
  BY <1>3 DEF ExistsBijection
<1>5. Cardinality(L) = n
  BY <1>1, <1>4, FS_CountingElements
<1>6. n # Len(Shadow!Order)
  BY OrderProperties
<1> QED
  <2>1. Cardinality(DOMAIN loaded) = n
    BY <1>5
  <2>2. n + 1 \in 1..Len(Shadow!Order)
    BY <1>1, <1>6
  <2> HIDE DEF L
  <2> QED BY <2>1, <2>2, CountedAsHere DEF Shadow!NextFile

(* Nothing that a request comes to depends on more than what was loaded.   *)
LEMMA OutcomeIsFixed ==
  ASSUME loaded' = loaded
  PROVE  /\ \A body : Shadow!Rejection(body)' = Shadow!Rejection(body)
         /\ \A i, body : Prediction(i, body)' = Prediction(i, body)
         /\ \A kind, body : Outcome(kind, body)' = Outcome(kind, body)
BY DEF Shadow!Rejection, Prediction, Outcome, Plain

LEMMA StartingKeepsShadowInv ==
  ASSUME ShadowInv, Shadow!Load \/ Shadow!Refuse \/ Shadow!Listen \/ Shadow!BindFails
  PROVE  ShadowInv'
<1> USE DEF ShadowInv
<1>1. phase = "loading" /\ UNCHANGED <<files, pins, slot, answered>>
  BY DEF Shadow!Load, Shadow!Refuse, Shadow!Listen, Shadow!BindFails
<1>2. answered = {} /\ \A s \in Slots : slot[s] = None
  BY <1>1
<1>3. LoadedInv'
  <2>1. CASE Shadow!Load
    <3>1. PICK n \in 0..Len(Shadow!Order) : DOMAIN loaded = {Shadow!Order[i] : i \in 1..n}
      BY DEF LoadedInv
    <3>2. /\ n + 1 \in 1..Len(Shadow!Order) /\ Shadow!NextFile = Shadow!Order[n + 1]
          /\ n + 1 \in 0..Len(Shadow!Order)
      BY <2>1, <3>1, NextFileInOrder DEF Shadow!Load
    <3> DEFINE next == Shadow!Order[n + 1]
    <3>3. /\ phase' = "loading"
          /\ files[next] = pins[next] /\ Shadow!Usable(next, pins[next])
          /\ loaded' = [f \in DOMAIN loaded \cup {next} |-> IF f = next THEN pins[next] ELSE loaded[f]]
      BY <1>1, <2>1, <3>2 DEF Shadow!Load, Shadow!ReadVerified, Shadow!Bytes
    <3>4. DOMAIN loaded' = {Shadow!Order[i] : i \in 1..(n + 1)}
      BY <3>1, <3>2, <3>3
    <3>5. loaded' = [f \in DOMAIN loaded' |-> pins[f]]
      BY <3>3 DEF LoadedInv
    <3>6. \A f \in DOMAIN loaded' : Shadow!Usable(f, pins[f])
      BY <3>3 DEF LoadedInv
    <3>7. \A f : Shadow!Usable(f, pins[f])' = Shadow!Usable(f, pins[f])
      BY <1>1 DEF Shadow!Usable, Shadow!Identified
    <3>8. \E m \in 0..Len(Shadow!Order) : DOMAIN loaded' = {Shadow!Order[i] : i \in 1..m}
      BY <3>2, <3>4
    <3>9. \A f \in DOMAIN loaded' : Shadow!Usable(f, pins[f])'
      BY <3>6, <3>7
    <3>10. /\ files' \in [Shadow!Files -> DOMAIN Contents] /\ pins' \in PinTables
           /\ phase' = "loading" /\ loaded' = [f \in DOMAIN loaded' |-> pins'[f]]
      BY <1>1, <3>3, <3>5 DEF LoadedInv
    <3> HIDE DEF next
    <3> QED BY <1>1, <3>8, <3>9, <3>10 DEF LoadedInv
  <2>2. CASE Shadow!Refuse \/ Shadow!Listen \/ Shadow!BindFails
    <3>1. /\ loaded' = loaded /\ phase' \in {"listening", "stopped"}
          /\ phase' = "listening" => DOMAIN loaded = Shadow!Files
      BY <2>2 DEF Shadow!Refuse, Shadow!Listen, Shadow!BindFails
    <3>2. \A f : Shadow!Usable(f, pins[f])' = Shadow!Usable(f, pins[f])
      BY <1>1 DEF Shadow!Usable, Shadow!Identified
    <3>3. \A f \in DOMAIN loaded' : Shadow!Usable(f, pins[f])'
      BY <3>1, <3>2 DEF LoadedInv
    <3>4. /\ files' \in [Shadow!Files -> DOMAIN Contents] /\ pins' \in PinTables
          /\ loaded' = [f \in DOMAIN loaded' |-> pins'[f]]
          /\ \E n \in 0..Len(Shadow!Order) : DOMAIN loaded' = {Shadow!Order[i] : i \in 1..n}
      BY <1>1, <3>1 DEF LoadedInv
    <3> QED BY <3>1, <3>3, <3>4 DEF LoadedInv
  <2> QED BY <2>1, <2>2
<1> QED
  BY <1>1, <1>2, <1>3

(* A replaced file changes nothing that was loaded.                        *)
LEMMA ReplaceKeepsShadowInv ==
  ASSUME ShadowInv, Shadow!Replace
  PROVE  ShadowInv'
<1> USE DEF ShadowInv
<1>1. UNCHANGED <<pins, loaded, phase, slot, answered>>
  BY DEF Shadow!Replace
<1>2. files' \in [Shadow!Files -> DOMAIN Contents]
  BY ServingAssumption DEF Shadow!Replace, Shadow!ShadowAssumption, LoadedInv
<1>3. LoadedInv'
  BY <1>1, <1>2 DEF LoadedInv, Shadow!Usable, Shadow!Identified
<1>4. /\ \A s \in Slots : SlotInv(s) => SlotInv(s)'
      /\ \A x : AnswerInv(x) => AnswerInv(x)'
  BY <1>1, OutcomeIsFixed DEF SlotInv, AnswerInv
<1> QED
  BY <1>1, <1>3, <1>4

(* A step of one request that changes its slot only.                       *)
LEMMA SlotStepKeepsShadowInv ==
  ASSUME ShadowInv, NEW s \in Slots, NEW r, phase = "listening",
         slot' = [slot EXCEPT ![s] = r], UNCHANGED <<files, pins, loaded, phase>>,
         r # None => SlotInv(s)', \A x \in answered' : AnswerInv(x)
  PROVE  ShadowInv'
<1> USE DEF ShadowInv
<1>1. LoadedInv'
  BY DEF LoadedInv, Shadow!Usable, Shadow!Identified
<1>2. slot' = [t \in Slots |-> slot'[t]] /\ \A t \in Slots : t # s => slot'[t] = slot[t]
  OBVIOUS
<1>3. \A x \in answered' : AnswerInv(x)'
  BY OutcomeIsFixed DEF AnswerInv
<1>4. ASSUME NEW t \in Slots, slot'[t] # None PROVE SlotInv(t)'
  <2>1. CASE t = s
    <3>1. slot'[s] = r
      OBVIOUS
    <3> QED BY <1>4, <2>1, <3>1
  <2>2. CASE t # s
    BY <1>2, <1>4, <2>2, OutcomeIsFixed DEF SlotInv
  <2> QED BY <2>1, <2>2
<1> QED
  BY <1>1, <1>2, <1>3, <1>4

LEMMA AcceptKeepsShadowInv ==
  ASSUME ShadowInv, NEW s \in Slots, Shadow!Predict(s) \/ Shadow!Ready(s)
  PROVE  ShadowInv'
<1>1. PICK kind \in {"predict", "ready"}, body \in Bodies :
        Shadow!Accept(s, kind, body) /\ (kind = "ready" => body = Probe)
  BY ServingAssumption DEF Shadow!Predict, Shadow!Ready, Shadow!ShadowAssumption
<1> DEFINE r == [kind |-> kind, body |-> body, at |-> "checks", vector |-> None, predictions |-> <<>>]
<1>2. /\ phase = "listening" /\ slot' = [slot EXCEPT ![s] = r]
      /\ UNCHANGED <<files, pins, loaded, phase, answered>>
  BY <1>1 DEF Shadow!Accept
<1>3. slot'[s] = r
  BY <1>2 DEF ShadowInv
<1>4. r \in Handled
  BY <1>1 DEF Handled, Vectors
<1>5. SlotInv(s)'
  BY <1>1, <1>3, <1>4 DEF SlotInv
<1> HIDE DEF r
<1> QED
  BY <1>2, <1>5, SlotStepKeepsShadowInv DEF ShadowInv

(* A request past its checks; the next seed's prediction.                  *)
LEMMA ScoringKeepsShadowInv ==
  ASSUME ShadowInv, NEW s \in Slots, Shadow!Extract(s) \/ Shadow!ScoreSeed(s)
  PROVE  ShadowInv'
<1>1. /\ slot[s] # None /\ UNCHANGED <<files, pins, loaded, phase, answered>>
  BY DEF Shadow!Extract, Shadow!ScoreSeed, Shadow!MoreSeeds, Shadow!At
<1>2. /\ phase = "listening" /\ SlotInv(s) /\ slot[s] \in Handled /\ slot[s].body \in Bodies
      /\ slot = [t \in Slots |-> slot[t]]
  BY <1>1 DEF ShadowInv, SlotInv, Handled
<1>3. CASE Shadow!Extract(s)
  <2> DEFINE r == [slot[s] EXCEPT !.at = "scores", !.vector = Shadow!VectorOf(slot[s].body)]
  <2>1. /\ slot[s].at = "checks" /\ Shadow!Rejection(slot[s].body) = None
        /\ Shadow!VectorOf(slot[s].body) # None /\ slot' = [slot EXCEPT ![s] = r]
    BY <1>3 DEF Shadow!Extract, Shadow!At
  <2>2. slot'[s] = r
    BY <1>2, <2>1
  <2>3. /\ r.at = "scores" /\ r.kind = slot[s].kind /\ r.body = slot[s].body
        /\ r.vector = Shadow!VectorOf(slot[s].body) /\ r.predictions = <<>>
        /\ r \in Handled
    BY <1>2, <2>1 DEF SlotInv, Handled, Vectors
  <2>4. Len(<<>>) = 0 /\ Len(Seeds) \in Nat
    BY OrderProperties
  <2> HIDE DEF r
  <2>5. SlotInv(s)'
    BY <1>1, <1>2, <2>1, <2>2, <2>3, <2>4, OutcomeIsFixed DEF SlotInv
  <2> QED BY <1>1, <1>2, <2>1, <2>5, SlotStepKeepsShadowInv DEF ShadowInv
<1>4. CASE Shadow!ScoreSeed(s)
  <2> DEFINE n == Len(slot[s].predictions)
             p == <<Seeds[n + 1], Prediction(n + 1, slot[s].body)>>
             r == [slot[s] EXCEPT !.predictions = Append(slot[s].predictions, p)]
  <2>1. /\ slot[s].at = "scores" /\ n < Len(Seeds)
        /\ slot[s].vector = Shadow!VectorOf(slot[s].body)
    BY <1>2, <1>4 DEF Shadow!ScoreSeed, Shadow!MoreSeeds, Shadow!At, SlotInv
  <2>2. slot[s].predictions \in Seq({Seeds[i] : i \in DOMAIN Seeds} \X Scored)
    BY <1>2 DEF Handled
  <2>3. n \in Nat /\ n + 1 \in DOMAIN Seeds
    BY <2>1, <2>2, LenProperties, OrderProperties
  <2>4. slot' = [slot EXCEPT ![s] = r] /\ Prediction(n + 1, slot[s].body) # None
    BY <1>4, <2>1 DEF Shadow!ScoreSeed, Shadow!PredictionOf, Shadow!SeedToScore, Shadow!ModelFor, Prediction
  <2>5. p \in {Seeds[i] : i \in DOMAIN Seeds} \X Scored
    <3>1. Seeds[n + 1] \in Shadow!Files
      BY <2>3, OrderProperties DEF Shadow!Files, Shadow!ToSet
    <3>2. loaded[Seeds[n + 1]] \in DOMAIN Contents
      <4>1. pins \in [Shadow!Files -> DOMAIN Contents] /\ DOMAIN loaded = Shadow!Files
        BY <1>2, ServingAssumption DEF ShadowInv, LoadedInv, Shadow!ShadowAssumption
      <4>2. \A f \in Shadow!Files : loaded[f] = pins[f]
        BY <4>1 DEF ShadowInv, LoadedInv
      <4> QED BY <3>1, <4>1, <4>2
    <3>3. Prediction(n + 1, slot[s].body) \in Scored
      <4>1. Shadow!VectorOf(slot[s].body) \in Vectors
        BY <1>2 DEF Vectors
      <4> DEFINE c == loaded[Seeds[n + 1]]
                 v == Shadow!VectorOf(slot[s].body)
      <4>2. Prediction(n + 1, slot[s].body) = Score[<<c, v>>]
        BY DEF Prediction
      <4> HIDE DEF c, v
      <4>3. c \in DOMAIN Contents /\ v \in Vectors
        BY <3>2, <4>1 DEF c, v
      <4>4. Score[<<c, v>>] \in Scored
        BY <4>3 DEF Scored
      <4> QED BY <4>2, <4>4
    <3> QED BY <2>3, <3>3
  <2>6. /\ Append(slot[s].predictions, p) \in Seq({Seeds[i] : i \in DOMAIN Seeds} \X Scored)
        /\ Len(Append(slot[s].predictions, p)) = n + 1
        /\ \A i \in 1..n : Append(slot[s].predictions, p)[i] = slot[s].predictions[i]
        /\ Append(slot[s].predictions, p)[n + 1] = p
    BY <2>2, <2>5, AppendProperties
  <2> HIDE DEF p
  <2>7. slot'[s] = r
    BY <1>2, <2>4
  <2>8. /\ r.at = "scores" /\ r.kind = slot[s].kind /\ r.body = slot[s].body
        /\ r.vector = slot[s].vector /\ r.predictions = Append(slot[s].predictions, p)
        /\ r \in Handled
    BY <1>2, <2>1, <2>6 DEF Handled
  <2> HIDE DEF r
  <2>9. \A i \in 1..(n + 1) :
          /\ r.predictions[i] = <<Seeds[i], Prediction(i, slot[s].body)>>
          /\ Prediction(i, slot[s].body) # None
    <3> SUFFICES ASSUME NEW i \in 1..(n + 1)
                 PROVE  /\ r.predictions[i] = <<Seeds[i], Prediction(i, slot[s].body)>>
                        /\ Prediction(i, slot[s].body) # None
      OBVIOUS
    <3>1. CASE i \in 1..n
      BY <1>2, <2>1, <2>6, <2>8, <3>1 DEF SlotInv
    <3>2. CASE i = n + 1
      BY <2>4, <2>6, <2>8, <3>2 DEF p
    <3> QED BY <2>3, <3>1, <3>2
  <2>10. n + 1 <= Len(Seeds) /\ Len(r.predictions) = n + 1
    BY <2>1, <2>3, <2>6, <2>8, OrderProperties
  <2>11. SlotInv(s)'
    BY <1>1, <1>2, <2>1, <2>7, <2>8, <2>9, <2>10, OutcomeIsFixed DEF SlotInv
  <2> QED BY <1>1, <1>2, <2>4, <2>11, SlotStepKeepsShadowInv DEF ShadowInv
<1> QED
  BY <1>3, <1>4

(* An answer is what the request comes to.                                 *)
LEMMA AnswerKeepsShadowInv ==
  ASSUME ShadowInv, NEW s \in Slots, NEW x, slot[s] # None, AnswerInv(x),
         answered' = answered \cup {x}, slot' = [slot EXCEPT ![s] = None],
         UNCHANGED <<files, pins, loaded, phase>>
  PROVE  ShadowInv'
<1>1. phase = "listening"
  BY DEF ShadowInv
<1>2. \A y \in answered' : AnswerInv(y)
  BY DEF ShadowInv
<1>3. PICK r : r = None
  OBVIOUS
<1>4. slot' = [slot EXCEPT ![s] = r] /\ (r # None => SlotInv(s)')
  BY <1>3
<1> QED
  BY <1>1, <1>2, <1>4, SlotStepKeepsShadowInv

LEMMA RespondingKeepsShadowInv ==
  ASSUME ShadowInv, NEW s \in Slots,
         Shadow!Reject(s) \/ Shadow!ExtractFails(s) \/ Shadow!ScoreFails(s) \/ Shadow!RespondTo(s)
  PROVE  ShadowInv'
<1>1. slot[s] # None /\ SlotInv(s) /\ slot[s] \in Handled
  BY DEF Shadow!Reject, Shadow!ExtractFails, Shadow!ScoreFails, Shadow!RespondTo, Shadow!MoreSeeds,
         Shadow!At, ShadowInv, SlotInv
<1> DEFINE body == slot[s].body
           n == Len(slot[s].predictions)
<1>2. slot[s].predictions \in Seq({Seeds[i] : i \in DOMAIN Seeds} \X Scored) /\ n \in Nat
      /\ DOMAIN slot[s].predictions = 1..n
  BY <1>1, LenProperties DEF Handled
<1>3. Shadow!Reject(s) => Plain(body) = Shadow!Error(400, Shadow!Rejection(body))
  BY DEF Shadow!Reject, Plain
<1>4. Shadow!ExtractFails(s) => Plain(body) = Shadow!Error(400, "SCHEMA_FEATURE_EXTRACTION_FAILED")
  BY DEF Shadow!ExtractFails, Plain
<1>5. Shadow!ScoreFails(s) => Plain(body) = Shadow!Error(500, "INFERENCE_FAILED")
  <2> SUFFICES ASSUME Shadow!ScoreFails(s) PROVE Plain(body) = Shadow!Error(500, "INFERENCE_FAILED")
    OBVIOUS
  <2>1. /\ slot[s].at = "scores" /\ n < Len(Seeds) /\ Shadow!PredictionOf(s) = None
    BY DEF Shadow!ScoreFails, Shadow!MoreSeeds, Shadow!At
  <2>2. Shadow!Rejection(body) = None /\ Shadow!VectorOf(body) # None /\ slot[s].vector = Shadow!VectorOf(body)
    BY <1>1, <2>1 DEF SlotInv
  <2>3. n + 1 \in DOMAIN Seeds /\ Prediction(n + 1, body) = None
    BY <1>2, <2>1, <2>2, OrderProperties
       DEF Shadow!PredictionOf, Shadow!SeedToScore, Shadow!ModelFor, Prediction
  <2> QED BY <2>2, <2>3 DEF Plain
<1>6. Shadow!RespondTo(s) => Plain(body) = Shadow!Ok(slot[s].predictions)
  <2> SUFFICES ASSUME Shadow!RespondTo(s) PROVE Plain(body) = Shadow!Ok(slot[s].predictions)
    OBVIOUS
  <2>1. slot[s].at = "scores" /\ n = Len(Seeds)
    BY DEF Shadow!RespondTo, Shadow!At
  <2>2. /\ Shadow!Rejection(body) = None /\ Shadow!VectorOf(body) # None
        /\ \A i \in 1..n : /\ slot[s].predictions[i] = <<Seeds[i], Prediction(i, body)>>
                           /\ Prediction(i, body) # None
    BY <1>1, <2>1 DEF SlotInv
  <2>3. DOMAIN Seeds = 1..n
    BY <2>1, OrderProperties
  <2>4. slot[s].predictions = [i \in DOMAIN Seeds |-> <<Seeds[i], Prediction(i, body)>>]
    <3> DEFINE q == slot[s].predictions
    <3>1. q \in [1..n -> {Seeds[i] : i \in DOMAIN Seeds} \X Scored]
      BY <1>2, LenProperties
    <3> HIDE DEF q
    <3>2. q = [i \in 1..n |-> q[i]]
      BY <3>1
    <3>3. \A i \in 1..n : q[i] = <<Seeds[i], Prediction(i, body)>>
      BY <2>2 DEF q
    <3> HIDE DEF n, body
    <3>4. q = [i \in 1..n |-> <<Seeds[i], Prediction(i, body)>>]
      BY <3>2, <3>3
    <3> QED BY <2>3, <3>4 DEF q
  <2> QED BY <2>2, <2>3, <2>4 DEF Plain
<1>7. PICK x : x = <<slot[s].kind, body, Outcome(slot[s].kind, body)>>
  OBVIOUS
<1>8. AnswerInv(x)
  BY <1>1, <1>7 DEF AnswerInv, SlotInv, Handled
<1>9. Shadow!Answer(s, Plain(body))
  BY <1>3, <1>4, <1>5, <1>6 DEF Shadow!Reject, Shadow!ExtractFails, Shadow!ScoreFails, Shadow!RespondTo
<1>10. /\ answered' = answered \cup {x} /\ slot' = [slot EXCEPT ![s] = None]
       /\ UNCHANGED <<files, pins, loaded, phase>>
  BY <1>7, <1>9 DEF Shadow!Answer, Outcome
<1> QED
  BY <1>1, <1>8, <1>10, AnswerKeepsShadowInv

LEMMA ShadowInductive == Spec => [](component = "shadow" => ShadowInv)
<1>1. Init => (component = "shadow" => ShadowInv)
  <2> SUFFICES ASSUME Shadow!Init PROVE ShadowInv
    BY DEF Init
  <2>1. LoadedInv
    <3>1. 0 \in 0..Len(Shadow!Order) /\ {Shadow!Order[i] : i \in 1..0} = {}
      BY OrderProperties
    <3>2. DOMAIN loaded = {} /\ loaded = [f \in {} |-> pins[f]]
      BY DEF Shadow!Init
    <3> QED BY <3>1, <3>2, ServingAssumption DEF Shadow!Init, LoadedInv, Shadow!ShadowAssumption
  <2> QED BY <2>1 DEF Shadow!Init, ShadowInv
<1>2. (component = "shadow" => ShadowInv) /\ [Next]_vars => (component = "shadow" => ShadowInv)'
  <2> SUFFICES ASSUME ShadowInv, Shadow!Next \/ UNCHANGED Shadow!vars PROVE ShadowInv'
    BY DEF Next, vars, ArtifactOthers, ShadowOthers, ContextsOthers, Shadow!vars
  <2>1. CASE UNCHANGED Shadow!vars
    <3>1. /\ \A s \in Slots : SlotInv(s) => SlotInv(s)'
          /\ \A x : AnswerInv(x) => AnswerInv(x)'
      BY <2>1, OutcomeIsFixed DEF SlotInv, AnswerInv, Shadow!vars
    <3> QED BY <2>1, <3>1 DEF ShadowInv, LoadedInv, Shadow!Usable, Shadow!Identified, Shadow!vars
  <2>2. CASE Shadow!Next
    BY <2>2, StartingKeepsShadowInv, ReplaceKeepsShadowInv, AcceptKeepsShadowInv,
       ScoringKeepsShadowInv, RespondingKeepsShadowInv
       DEF Shadow!Next, Shadow!Starting, Shadow!Handling
  <2> QED BY <2>1, <2>2
<1> QED
  BY <1>1, <1>2, PTL DEF Spec

(* A set of positions that is not empty has a first one.                   *)
LEMMA FirstExists ==
  ASSUME NEW S, S \subseteq Nat, S # {}
  PROVE  \E i \in S : \A j \in S : i <= j
<1> DEFINE R == OpToRel(<, Nat)
<1>1. IsWellFoundedOn(R, Nat)
  BY NatLessThanWellFounded
<1>2. \A x, y \in Nat : x < y => <<x, y>> \in R
  BY DEF OpToRel
<1> HIDE DEF R
<1>3. PICK i \in S : \A j \in S : ~ (<<j, i>> \in R)
  BY <1>1, WFMin
<1>4. ASSUME NEW j \in S PROVE i <= j
  <2>1. ~ (j < i)
    BY <1>2, <1>3
  <2> QED BY <2>1
<1> QED
  BY <1>4

(* A schema is refused when a node of it is, under some code.              *)
LEMMA FaultMeansNodes ==
  ASSUME NEW schema \in DOMAIN Schemas
  PROVE  Shadow!Fault(schema) = None <=>
           Schemas[schema].valid /\ Shadow!ToSet(Schemas[schema].nodes) \subseteq {"fine"}
<1> DEFINE nodes == Schemas[schema].nodes
           wrong == {i \in DOMAIN nodes : nodes[i] # "fine"}
           first == CHOOSE i \in wrong : \A j \in wrong : i <= j
<1>1. nodes \in Seq({"fine"} \cup DOMAIN Shadow!NodeFault)
  BY ServingAssumption DEF Shadow!ShadowAssumption
<1>2. None \notin {"INVALID_SCHEMA", "UNSUPPORTED_SCHEMA"}
  BY ServingAssumption DEF Shadow!ShadowAssumption
<1>3. DOMAIN nodes \subseteq Nat /\ \A i \in DOMAIN nodes : nodes[i] \in {"fine"} \cup DOMAIN Shadow!NodeFault
  BY <1>1, LenProperties
<1>4. wrong # {} => Shadow!NodeFault[nodes[first]] # None
  <2> SUFFICES ASSUME wrong # {} PROVE Shadow!NodeFault[nodes[first]] # None
    OBVIOUS
  <2>2. wrong \subseteq Nat
    BY <1>3
  <2> DEFINE W == wrong
  <2>3. \E i \in W : \A j \in W : i <= j
    <3>1. W # {} /\ W \subseteq Nat
      BY <2>2
    <3> HIDE DEF W
    <3> QED BY <3>1, FirstExists
  <2>4. PICK i \in wrong : \A j \in wrong : i <= j
    BY <2>3
  <2>5. first \in wrong
    BY <2>4
  <2> HIDE DEF first
  <2>6. nodes[first] \in DOMAIN Shadow!NodeFault
    BY <1>3, <2>5
  <2> QED BY <1>2, <2>6 DEF Shadow!NodeFault
<1>5. wrong = {} <=> Shadow!ToSet(nodes) \subseteq {"fine"}
  BY DEF Shadow!ToSet
<1> QED
  BY <1>2, <1>4, <1>5 DEF Shadow!Fault

(* A plain request that is not refused as the client's mistake is one.     *)
LEMMA RejectionMeansMistake ==
  ASSUME NEW body \in Bodies
  PROVE  (Plain(body).status # 400) <=>
           /\ body # None /\ body.pack \in Packs[loaded[Shadow!Policy]]
           /\ \A schema \in {body.base, body.candidate} :
                Schemas[schema].valid /\ Shadow!ToSet(Schemas[schema].nodes) \subseteq {"fine"}
           /\ Shadow!VectorOf(body) # None
<1>1. None \notin {"INVALID_REQUEST_JSON", "UNKNOWN_POLICY_PACK", "INVALID_SCHEMA", "UNSUPPORTED_SCHEMA"}
  BY ServingAssumption DEF Shadow!ShadowAssumption
<1>2. body # None => {body.base, body.candidate} \subseteq DOMAIN Schemas
  BY ServingAssumption DEF Shadow!ShadowAssumption
<1>3. Shadow!Rejection(body) = None <=>
        /\ body # None /\ body.pack \in Packs[loaded[Shadow!Policy]]
        /\ Shadow!Fault(body.base) = None /\ Shadow!Fault(body.candidate) = None
  BY <1>1 DEF Shadow!Rejection
<1>4. body # None =>
        (Shadow!Fault(body.base) = None /\ Shadow!Fault(body.candidate) = None <=>
           \A schema \in {body.base, body.candidate} :
             Schemas[schema].valid /\ Shadow!ToSet(Schemas[schema].nodes) \subseteq {"fine"})
  BY <1>2, FaultMeansNodes
<1>5. (Plain(body).status # 400) <=> Shadow!Rejection(body) = None /\ Shadow!VectorOf(body) # None
  BY DEF Plain, Shadow!Error, Shadow!Ok
<1> QED
  BY <1>3, <1>4, <1>5

(* The service answers from what it pinned: who listens has every file as  *)
(* pinned, an answer is a function of the request, has every seed or none, *)
(* and follows the probe; only the client's mistakes are its fault.        *)
THEOREM ServesPinned == Spec => []ServesWhatWasPinned
<1>1. ShadowInv => Shadow!TypeOK
  <2> SUFFICES ASSUME ShadowInv PROVE Shadow!TypeOK
    OBVIOUS
  <2>1. \A s \in Slots : slot[s] # None => Len(slot[s].predictions) <= Len(Seeds)
    <3> SUFFICES ASSUME NEW s \in Slots, SlotInv(s) PROVE Len(slot[s].predictions) <= Len(Seeds)
      BY DEF ShadowInv
    <3>1. Len(<<>>) = 0 /\ Len(Seeds) \in Nat
      BY OrderProperties
    <3> QED BY <3>1 DEF SlotInv, Handled
  <2> QED BY <2>1 DEF ShadowInv, LoadedInv, Shadow!TypeOK
<1>2. ShadowInv => Shadow!ListensWithPinnedState
  <2> SUFFICES ASSUME ShadowInv, phase = "listening"
               PROVE  /\ loaded = pins
                      /\ \A i \in DOMAIN Seeds : /\ Contents[loaded[Seeds[i]]].seed = Seeds[i]
                                                 /\ Contents[loaded[Seeds[i]]].policy = loaded[Shadow!Policy]
    BY DEF Shadow!ListensWithPinnedState
  <2>1. pins \in [Shadow!Files -> DOMAIN Contents] /\ DOMAIN loaded = Shadow!Files
    BY ServingAssumption DEF ShadowInv, LoadedInv, Shadow!ShadowAssumption
  <2>2. loaded = [f \in Shadow!Files |-> pins[f]]
    BY <2>1 DEF ShadowInv, LoadedInv
  <2>3. loaded = pins
    BY <2>1, <2>2
  <2>4. \A i \in DOMAIN Seeds : Seeds[i] \in Shadow!Files /\ Seeds[i] # Shadow!Policy
    BY OrderProperties DEF Shadow!Files, Shadow!ToSet
  <2>5. \A i \in DOMAIN Seeds : Shadow!Identified(Seeds[i], pins[Seeds[i]])
    BY <2>1, <2>4 DEF ShadowInv, LoadedInv, Shadow!Usable
  <2> QED BY <2>3, <2>5 DEF Shadow!Identified
<1>3. ShadowInv => Shadow!AnswersAgree
  BY DEF ShadowInv, AnswerInv, Shadow!AnswersAgree
<1>4. ShadowInv => Shadow!AnswersAreWhole
  <2> SUFFICES ASSUME ShadowInv, NEW x \in answered
               PROVE  IF x[3].status = 200
                      THEN [i \in DOMAIN x[3].predictions |-> x[3].predictions[i][1]] = Seeds
                      ELSE x[3].predictions = <<>>
    BY DEF Shadow!AnswersAreWhole
  <2> DEFINE all == [i \in DOMAIN Seeds |-> <<Seeds[i], Prediction(i, x[2])>>]
  <2>1. \/ x[3].status # 200 /\ x[3].predictions = <<>>
        \/ x[3].status = 200 /\ x[3].predictions = all
    <3>1. x[3] = Plain(x[2]) \/ x[3] = Shadow!Error(503, "NOT_READY")
      BY DEF ShadowInv, AnswerInv, Outcome
    <3>2. \A number, code : /\ Shadow!Error(number, code).status = number
                            /\ Shadow!Error(number, code).predictions = <<>>
      BY DEF Shadow!Error
    <3>3. Shadow!Ok(all).status = 200 /\ Shadow!Ok(all).predictions = all
      BY DEF Shadow!Ok
    <3>4. \/ Plain(x[2]) = Shadow!Ok(all)
          \/ \E number \in {400, 500} : \E code : Plain(x[2]) = Shadow!Error(number, code)
      BY DEF Plain
    <3> HIDE DEF all
    <3> QED BY <3>1, <3>2, <3>3, <3>4
  <2>2. [i \in DOMAIN all |-> all[i][1]] = [i \in DOMAIN Seeds |-> Seeds[i]]
    OBVIOUS
  <2>3. [i \in DOMAIN Seeds |-> Seeds[i]] = Seeds
    BY OrderProperties
  <2> HIDE DEF all
  <2> QED BY <2>1, <2>2, <2>3
<1>5. ShadowInv => Shadow!MistakesAreTheClients
  <2> SUFFICES ASSUME ShadowInv, NEW x \in answered, x[1] = "predict"
               PROVE  (x[3].status # 400) <=>
                        (/\ x[2] # None /\ x[2].pack \in Packs[loaded[Shadow!Policy]]
                         /\ \A schema \in {x[2].base, x[2].candidate} :
                              Schemas[schema].valid /\ Shadow!ToSet(Schemas[schema].nodes) \subseteq {"fine"}
                         /\ Shadow!VectorOf(x[2]) # None)
    BY DEF Shadow!MistakesAreTheClients
  <2>1. x[2] \in Bodies /\ x[3] = Plain(x[2])
    BY DEF ShadowInv, AnswerInv, Outcome
  <2>2. PICK body \in Bodies : body = x[2]
    BY <2>1
  <2> QED BY <2>1, <2>2, RejectionMeansMistake
<1>6. ShadowInv => Shadow!UpMeansPredicts
  <2> SUFFICES ASSUME ShadowInv, NEW x \in answered, x[1] = "ready", x[3].status = 200,
                      NEW y \in answered, y[1] = "predict", y[2] = Probe
               PROVE  y[3].status = 200
    BY DEF Shadow!UpMeansPredicts
  <2>1. x[2] = Probe /\ x[3] = Outcome("ready", Probe) /\ y[3] = Plain(Probe)
    BY DEF ShadowInv, AnswerInv, Outcome
  <2> QED BY <2>1 DEF Outcome, Shadow!Error
<1>7. (component = "shadow" => ShadowInv) => ServesWhatWasPinned
  BY <1>1, <1>2, <1>3, <1>4, <1>5, <1>6 DEF ServesWhatWasPinned
<1> QED
  BY <1>7, ShadowInductive, PTL

=============================================================================
