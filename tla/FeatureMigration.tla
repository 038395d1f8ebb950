-------------------------- MODULE FeatureMigration --------------------------
(***************************************************************************)
(* Prepared corpora as files: generate stamps and saves them, refeature-v6 *)
(* rebuilds the features of a V5 corpus from the source, the policy file   *)
(* and the JAR it was labelled with, and an experiment loads what is       *)
(* stamped.  Every one of these files may be replaced between two reads.   *)
(* A digest is the content itself; features are a record of what they were *)
(* computed from; a pair of schemas is a base and a mutation of it.        *)
(***************************************************************************)
EXTENDS Naturals, Sequences, FiniteSets, SequencesExt

CONSTANTS Inputs,      \* corpora --input may hold, as files
          Generated,   \* record sequences that generate may come to
          Ready(_),    \* the generalization gate over a sequence of records
          Families,    \* source content -> (family -> base schema) of the sampled families
          Proposed,    \* base schema -> the mutations proposed of it, None if it does not parse
          Profile,     \* base schema -> its root profile, None if it has none
          Resolvable,  \* policy contents whose packs resolve
          JarContents, PolicyContents,
          Source,      \* --source-name
          MaxEdits,    \* bound on replaced files
          None

VARIABLES input, output, \* the two corpus files, NoFile where there is none
          outside,       \* [jar, policies, source]: the contents of the other files
          edits,         \* files replaced so far
          place,         \* the place in refeature-v6
          read,          \* what refeature-v6 was given, [named: whether --dataset-version is not blank,
                         \* occupied: whether --output exists], and has read, [corpus, jar, policies, contexts, families]
          rebuilt,       \* records rebuilt so far
          reported,      \* the corpus of the final report, or NoFile
          evaluated      \* corpora an experiment accepted
vars == <<input, output, outside, edits, place, read, rebuilt, reported, evaluated>>

Versions == {"v1", "v2", "v3", "v4", "v5", "v6"}
Outcomes == {"safe", "warning", "breaking", "pass"}

-----------------------------------------------------------------------------
(* Corpora. *)

\* What every record must satisfy; what it says of the oracle is checked where it has evidence.
ValidRecord(r) ==
  /\ r.label # None => r.breaking = (r.label = "breaking") /\ r.incompatible = r.breaking
  /\ r.evidence # None => r.evidence.outcome \in Outcomes /\ r.evidence.profile \in {"open", "closed", None}

\* A corpus has records, each once and of one feature version.
Valid(corpus) ==
  /\ corpus.records # <<>>
  /\ \A r \in ToSet(corpus.records) : ValidRecord(r) /\ r.features.version = corpus.version
  /\ \A i, j \in DOMAIN corpus.records : i # j => corpus.records[i].id # corpus.records[j].id

NoFile == [version |-> None, stamp |-> None, records |-> <<>>]

\* The file names one known version for all records, and keeps the stamp as it is.
Loads(file) == file.version \in Versions /\ Valid(file)

Stamped(records) == [version |-> "v6", stamp |-> Ready(records), records |-> records]

\* A record has these fields, with or without evidence.
HasFields(r) ==
  /\ DOMAIN r = {"id", "source", "family", "policy", "label", "breaking", "incompatible", "features", "evidence"}
  /\ r.evidence # None =>
       DOMAIN r.evidence = {"jar", "policies", "seed", "outcome", "mutation", "profile", "fingerprint"}
AreRecords(records) == records \in Seq(ToSet(records)) /\ \A r \in ToSet(records) : HasFields(r)

\* A stamp is what the gate said of the records beside it.
MigrationAssumption ==
  /\ MaxEdits \in Nat /\ None \notin BOOLEAN
  /\ \A corpus \in Inputs : Loads(corpus) => AreRecords(corpus.records) /\ (corpus.stamp = TRUE => Ready(corpus.records))
  /\ \A records \in Generated : AreRecords(records)

-----------------------------------------------------------------------------
(* refeature-v6. *)

Evidence(corpus) == {r.evidence : r \in {x \in ToSet(corpus.records) : x.evidence # None}}
SingleSeed(corpus)   == Cardinality({e.seed : e \in Evidence(corpus)}) = 1
JarOf(corpus)        == {e.jar : e \in Evidence(corpus)}
PoliciesOf(corpus)   == {e.policies : e \in Evidence(corpus)}
Migratable(corpus) ==
  /\ corpus.version = "v5" /\ SingleSeed(corpus)
  /\ Cardinality(JarOf(corpus)) = 1 /\ Cardinality(PoliciesOf(corpus)) = 1

Step(from, to) == place = from /\ place' = to
Others == <<input, output, outside, edits, rebuilt, reported, evaluated>>
Files == <<input, output, outside, edits, reported, evaluated>>

\* An error at any place ends the command; what it has built is dropped.
Refuse(from, condition) == Step(from, "failed") /\ condition /\ UNCHANGED read /\ UNCHANGED Others

CheckOutput == Step("start", "load") /\ ~read.occupied /\ UNCHANGED read /\ UNCHANGED Others
OutputExists == Refuse("start", read.occupied)

LoadInput == Step("load", "jar") /\ Loads(input) /\ Migratable(input) /\ read' = [read EXCEPT !.corpus = input] /\ UNCHANGED Others
InputRefused == Refuse("load", ~(Loads(input) /\ Migratable(input)))

HashJar == Step("jar", "policies") /\ {outside.jar} = JarOf(read.corpus) /\ read' = [read EXCEPT !.jar = outside.jar] /\ UNCHANGED Others
JarRefused == Refuse("jar", {outside.jar} # JarOf(read.corpus))

FromSource == \A r \in ToSet(read.corpus.records) : r.source = Source
HashPolicies ==
  /\ Step("policies", "contexts") /\ {outside.policies} = PoliciesOf(read.corpus) /\ FromSource
  /\ read' = [read EXCEPT !.policies = outside.policies] /\ UNCHANGED Others
PoliciesRefused == Refuse("policies", {outside.policies} # PoliciesOf(read.corpus) \/ ~FromSource)

\* The file is read again for what the packs say.
LoadContexts == Step("contexts", "sample") /\ outside.policies \in Resolvable /\ read' = [read EXCEPT !.contexts = outside.policies] /\ UNCHANGED Others
ContextsRefused == Refuse("contexts", outside.policies \notin Resolvable)

SampleSource == Step("sample", "records") /\ read' = [read EXCEPT !.families = Families[outside.source]] /\ UNCHANGED Others

Left == Len(rebuilt) < Len(read.corpus.records)
Record == read.corpus.records[Len(rebuilt) + 1]
Rebuildable(r) ==
  /\ r.evidence # None /\ r.family \in DOMAIN read.families
  /\ Proposed[read.families[r.family]] # None /\ r.evidence.mutation \in Proposed[read.families[r.family]]
Pair(r) == <<read.families[r.family], r.evidence.mutation>>

\* Mutant: the pair in the evidence is taken as it is.
FingerprintOfJarAndPolicy(r) == [r.evidence.fingerprint EXCEPT !.policy = r.policy, !.jar = read.jar]

\* Of what the oracle was asked: the rebuilt pair, in backward direction, under the policy and by the JAR.
Fingerprint(r) == [pair |-> Pair(r), policy |-> r.policy, mode |-> "BACKWARD", jar |-> read.jar]
Matches(r) == Fingerprint(r) = r.evidence.fingerprint

Features(r) == [version |-> "v6", pair |-> Pair(r), policy |-> r.policy, contexts |-> read.contexts]
Updated(r) == [r EXCEPT !.features = Features(r), !.evidence.profile = Profile[read.families[r.family]]]

Rebuild ==
  /\ place = "records" /\ Left /\ Rebuildable(Record) /\ Matches(Record)
  /\ rebuilt' = Append(rebuilt, Updated(Record))
  /\ UNCHANGED <<place, read>> /\ UNCHANGED Files

\* Mutant: a pair that does not match is tried again.
RecordNotRebuildable == Refuse("records", Left /\ ~Rebuildable(Record))

RecordRefused == Refuse("records", Left /\ ~(Rebuildable(Record) /\ Matches(Record)))

\* The new corpus has no stamp.  It is validated, written beside the output and renamed.
Migrated == [version |-> "v6", stamp |-> None, records |-> rebuilt]

Write == Step("records", "rename") /\ ~Left /\ read.named /\ Valid(Migrated) /\ UNCHANGED read /\ UNCHANGED Others
RecordsInvalid == Refuse("records", ~Left /\ ~(read.named /\ Valid(Migrated)))
Rename == Step("rename", "reload") /\ output' = Migrated /\ UNCHANGED <<input, outside, edits, read, rebuilt, reported, evaluated>>
WriteFails == Refuse("rename", TRUE)

\* What is reported is what is on disk.
Report == Step("reload", "done") /\ Loads(output) /\ reported' = output /\ UNCHANGED <<input, output, outside, edits, read, rebuilt, evaluated>>
ReportFails == Refuse("reload", ~Loads(output))

Crash == place \notin {"done", "failed"} /\ place' = "failed" /\ UNCHANGED read /\ UNCHANGED Others

-----------------------------------------------------------------------------
(* Around it. *)

\* generate saves over what is there.
Generate ==
  /\ edits < MaxEdits /\ edits' = edits + 1
  /\ \E records \in Generated : input' = Stamped(records)
  /\ UNCHANGED <<output, outside, place, read, rebuilt, reported, evaluated>>

\* An experiment asks for the stamp of the file it trains on.
RequireReady(corpus) == corpus.stamp = TRUE
Evaluate ==
  /\ \E file \in {input, output} : Loads(file) /\ file.stamp \in BOOLEAN /\ RequireReady(file) /\ evaluated' = evaluated \cup {file}
  /\ UNCHANGED <<input, output, outside, edits, place, read, rebuilt, reported>>

\* Somebody replaces the JAR, the policy file or the source, or removes what was written.
Edit ==
  /\ edits < MaxEdits /\ edits' = edits + 1 /\ UNCHANGED output
  /\ \/ \E c \in JarContents : outside' = [outside EXCEPT !.jar = c]
     \/ \E c \in PolicyContents : outside' = [outside EXCEPT !.policies = c]
     \/ \E c \in DOMAIN Families : outside' = [outside EXCEPT !.source = c]
  /\ UNCHANGED <<input, place, read, rebuilt, reported, evaluated>>
Discard ==
  /\ edits < MaxEdits /\ edits' = edits + 1 /\ output # NoFile /\ output' = NoFile
  /\ UNCHANGED <<input, outside, place, read, rebuilt, reported, evaluated>>

Init ==
  /\ input \in Inputs /\ output = NoFile /\ edits = 0
  /\ outside \in [jar : JarContents, policies : PolicyContents, source : DOMAIN Families]
  /\ place = "start"
  /\ read \in [named : BOOLEAN, occupied : BOOLEAN, corpus : {None}, jar : {None}, policies : {None},
               contexts : {None}, families : {<<>>}]
  /\ rebuilt = <<>> /\ reported = NoFile /\ evaluated = {}

Migrate ==
  \/ CheckOutput \/ OutputExists \/ LoadInput \/ InputRefused \/ HashJar \/ JarRefused \/ HashPolicies \/ PoliciesRefused
  \/ LoadContexts \/ ContextsRefused \/ SampleSource \/ Rebuild \/ RecordRefused \/ Write \/ RecordsInvalid \/ Rename \/ WriteFails
  \/ Report \/ ReportFails

\* The command has ended: the only rest.
Ended == place \in {"done", "failed"} /\ UNCHANGED vars

Next == Migrate \/ Crash \/ Generate \/ Evaluate \/ Edit \/ Discard \/ Ended

\* The command goes on until it ends.
Spec == Init /\ [][Next]_vars /\ WF_vars(Migrate)

-----------------------------------------------------------------------------
(* Properties. *)

\* Every variable has its shape, and what is rebuilt was loaded.
TypeOK ==
  /\ Loads(output) \/ output = NoFile
  /\ edits \in 0 .. MaxEdits
  /\ read.jar \in JarContents \cup {None} /\ read.policies \in PolicyContents \cup {None}
  /\ read.contexts \in Resolvable \cup {None}
  /\ rebuilt # <<>> => Len(rebuilt) <= Len(read.corpus.records)
  /\ reported # NoFile => place = "done"

Persisted == ToSet(output.records)

\* Features were computed from the very pair of schemas, and under the very policy pack, that the oracle
\* judged backward by the JAR the record names.
FeaturesBelongToPairs ==
  \A r \in Persisted :
    /\ r.features.pair = r.evidence.fingerprint.pair /\ r.features.policy = r.evidence.fingerprint.policy
    /\ r.evidence.fingerprint.jar = r.evidence.jar /\ r.evidence.fingerprint.mode = "BACKWARD"

\* A migration is of features alone: the records that were loaded, in their order, with their labels,
\* roles and evidence, but for the profile of their root.
OnlyFeaturesChange ==
  output # NoFile =>
    /\ Len(output.records) = Len(read.corpus.records)
    /\ \A i \in DOMAIN output.records :
         LET old == read.corpus.records[i]
             new == output.records[i]
         IN  [old EXCEPT !.features = new.features, !.evidence.profile = new.evidence.profile] = new

\* What an experiment accepted had passed the gate with the records it now has.
EvaluatedWereAudited == \A corpus \in evaluated : Ready(corpus.records)

\* A run that did not get to its rename leaves no output, nothing is written over a file that was there,
\* and what was reported is there as reported until it is removed.
OutputOnlyWhenRenamed ==
  /\ output # NoFile => place \in {"reload", "done", "failed"} /\ ~read.occupied
  /\ reported # NoFile => output \in {reported, NoFile}

\* The command ends.
MigrationEnds == <>(place \in {"done", "failed"})

\* What the comment on refeature_v6 says: every pair still matches the policy file its record names,
\* and so the actions its features are computed under.
FeaturesBelongToPolicies == \A r \in Persisted : r.features.contexts = r.evidence.policies
=============================================================================
