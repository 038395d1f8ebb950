----------------------------- MODULE MCServing -----------------------------
(***************************************************************************)
(* Values for the constants of Serving.                                    *)
(***************************************************************************)
EXTENDS Serving, FiniteSets, TLC

-----------------------------------------------------------------------------
(* ModelArtifact: the train command and a library caller over one output,  *)
(* and a runtime.                                                          *)
MCWriters == {"train", "caller"}
MCCommands == {"train"}
MCReaders == {"runtime"}
MCBaseVersion == "v1"
Base == [form |-> "binary", version |-> "v1", inputs |-> 8, scaler |-> 8, head |-> "sigmoid",
         finite |-> TRUE, metadata |-> TRUE, provenance |-> TRUE]
ThreeWay == [Base EXCEPT !.form = "three_way", !.version = "v6", !.inputs = 76, !.scaler = 76, !.head = "softmax"]

\* Sound, with a hidden value that is not finite, without metadata;
\* three classes, with and without the identities of the inputs.
MCCandidates ==
  {Base, [Base EXCEPT !.finite = FALSE],
   [Base EXCEPT !.metadata = FALSE], ThreeWay, [ThreeWay EXCEPT !.provenance = FALSE]}
MCForeign == {Base, [Base EXCEPT !.version = "v9"]}
MCWidth == [v \in {"v1", "v6"} |-> IF v = "v1" THEN 8 ELSE 76]

-----------------------------------------------------------------------------
(* ShadowInference: two seeds, a good table of pins and four with a wrong  *)
(* entry; two requests at a time, files replaced at any time, and three    *)
(* answers.                                                                *)
MCSlots == {"t1", "t2"}
MCMaxAnswers == 3
Model(seed) == [parses |-> TRUE, version |-> "v6", seed |-> seed, dataset |-> "d", oracle |-> "o", policy |-> "policy"]
PolicyFile == [parses |-> TRUE, version |-> "none", seed |-> "none", dataset |-> "none", oracle |-> "none", policy |-> "none"]
MCSeeds == <<"s1", "s2">>
MCContents ==
  [c \in {"policy", "policy2", "m1", "m2", "m2older", "m2other", "m2broken"} |->
    CASE c \in {"policy", "policy2"} -> PolicyFile
      [] c = "m1" -> Model("s1") [] c \in {"m2", "m2broken"} -> Model("s2")
      [] c = "m2older" -> [Model("s2") EXCEPT !.version = "v5"]
      [] OTHER -> [Model("s2") EXCEPT !.policy = "policy2"]]
Pins(p, m) == [f \in {"policy", "s1", "s2"} |-> IF f = "policy" THEN p ELSE IF f = "s1" THEN "m1" ELSE m]
MCPinTables == {Pins("policy", "m2"), Pins("policy", "m2other"), Pins("policy", "m1"), Pins("policy", "m2older"), Pins("policy", "m2broken")}
MCReplacing == [f \in {"policy", "s1", "s2"} |-> IF f = "policy" THEN {"policy", "policy2"} ELSE IF f = "s2" THEN {"m2", "m2older"} ELSE {}]
MCRegistered == [dataset |-> "d", oracle |-> "o"]
MCPacks == [c \in {"policy", "policy2"} |-> IF c = "policy" THEN {"baseline", "strict"} ELSE {"loose"}]

MCSchemas ==
  [c \in {"object", "invalid", "deep", "wide", "huge"} |->
    CASE c = "invalid" -> [valid |-> FALSE, nodes |-> <<"fine">>]
      [] c = "deep" -> [valid |-> TRUE, nodes |-> <<"fine", "no type", "properties">>]
      [] OTHER -> [valid |-> TRUE, nodes |-> <<"fine">>]]
Body(p, b, c) == [pack |-> p, base |-> b, candidate |-> c]
MCProbe == Body("baseline", "object", "object")
MCBodies == {MCProbe, None, Body("loose", "invalid", "object"), Body("strict", "object", "deep"),
             Body("strict", "object", "wide"), Body("strict", "object", "huge")}

\* "wide" is refused by the extractor, "huge" has a vector that the second model cannot score; a broken
\* model scores nothing.
MCFeatures == [k \in {<<b.base, b.candidate, b.pack>> : b \in MCBodies \ {None}} |-> IF k[2] = "wide" THEN None ELSE IF k[2] = "huge" THEN "v2" ELSE "v1"]
MCScore == [k \in (DOMAIN MCContents) \X {"v1", "v2"} |-> IF k[1] = "m2broken" \/ (k[1] # "m1" /\ k[2] = "v2") THEN None ELSE <<k[1], k[2]>>]

-----------------------------------------------------------------------------
(* PolicyContexts: files of up to two packs, spelled in two ways, with up  *)
(* to two rule entries, and names asked for in two spellings.              *)
Raw(norm, spelling) == [norm |-> norm, spelling |-> spelling]
Names == {Raw("baseline", 1), Raw("strict", 1), Raw("strict", 2), Raw(None, 1)}
Entries == {[rule |-> r, action |-> a] : r \in {"removed", "added", None}, a \in {"IGNORE", "WARNING", None}}
             \cup {[rule |-> "removed", action |-> "PASS"], [rule |-> "unknown", action |-> "IGNORE"]}
Pair == {[rule |-> "removed", action |-> "IGNORE"], [rule |-> "removed", action |-> None],
          [rule |-> "added", action |-> "IGNORE"], [rule |-> None, action |-> "WARNING"]}
Definitions == {None, Malformed, <<>>} \cup {<<e>> : e \in Entries} \cup {<<e, f>> : e, f \in Pair}
Short == {None, <<>>} \cup {<<e>> : e \in {x \in Entries : x.rule = "added"}}

MCDocuments ==
  {[default |-> d, packs |-> p] :
     d \in {None, Raw("strict", 2), Raw("missing", 1)},
     p \in {<<[name |-> n, rules |-> r]>> : n \in Names, r \in Definitions}
             \cup {<<[name |-> nm[1], rules |-> r], [name |-> nm[2], rules |-> s]>> : nm \in {x \in Names \X Names : x[1] # x[2]}, r, s \in Short}}
MCRequests == {<<Raw("strict", 1), Raw("strict", 2)>>, <<Raw("other", 1), Raw("baseline", 1), Raw(None, 1)>>}
MCRules == {"removed", "added"}
MCBaseline == [r \in MCRules |-> IF r = "added" THEN "WARNING" ELSE "BREAKING"]

=============================================================================
