------------------------------ MODULE MCModels ------------------------------
(***************************************************************************)
(* Values for the constants of Models.                                     *)
(***************************************************************************)
EXTENDS Models

-----------------------------------------------------------------------------
(* FamilySplit: up to five families of four shapes, ratios 3/4, 1/8 and    *)
(* 1/8: three families of three records would all be drawn into training.  *)
Shape(s, w, b) == [records |-> s + w + b, safe |-> s, warning |-> w, breaking |-> b]
MCShapes == {Shape(1, 0, 0), Shape(0, 1, 0), Shape(1, 0, 1), Shape(1, 1, 1)}
MCReserved == Shape(0, 0, 1)
MCRatio == [train |-> 6, validation |-> 1, test |-> 1]

(* Scale divides exactly by every target of at most 16 records.            *)
ASSUME ScaleIsExact ==
  \A n \in 0..16 : \A p \in Partition!Partitions :
    Scale % (IF MCRatio[p] * n < 8 THEN 8 ELSE MCRatio[p] * n) = 0

-----------------------------------------------------------------------------
(* Training: networks of one or two layers, data of one to three rows, two *)
(* calls, one or two epochs, batches of one or two rows.                   *)
\* A hidden layer, a binary head, two inputs; and three classes from one input.
Binary == [dims |-> <<1, 2, 1>>, head |-> "sigmoid"]
ThreeWay == [dims |-> <<1, 3>>, head |-> "softmax"]
MCArchitectures == {Binary, ThreeWay}

MCDatasets == {[width |-> 1, rows |-> <<"fits", "fits", "fits">>],
               [width |-> 1, rows |-> <<"fits", "fits", "wide">>],
               [width |-> 1, rows |-> <<"fits", "improper">>],
               [width |-> 2, rows |-> <<"fits">>]}

\* Gradients that stop at the first layer, at a neuron of it, in the second, or at once.
MCForeignGradients ==
  {<<[weights |-> <<1, 1>>, biases |-> 2], [weights |-> <<3>>, biases |-> 1]>>,
   <<[weights |-> <<1, 2>>, biases |-> 2], [weights |-> <<2>>, biases |-> 1]>>,
   <<[weights |-> <<1, 1>>, biases |-> 1], [weights |-> <<2>>, biases |-> 1]>>,
   <<[weights |-> <<1>>, biases |-> 1]>>}

-----------------------------------------------------------------------------
(* Protocols: four standard families, one or two challenge families, or    *)
(* one in both roles, four commands, every split of a seed, and two seeds  *)
(* with a repetition.                                                      *)
Rec(i, f, r, p, m, v, l) == [id |-> i, family |-> f, role |-> r, policy |-> p, mutation |-> m, variant |-> v, label |-> l]

StandardRecords ==
  {Rec(1, "f1", "standard", "p", "m", "v", "safe"), Rec(2, "f1", "standard", "q", "m", "v", "breaking"),
   Rec(3, "f2", "standard", "p", "m", "w", "breaking"), Rec(4, "f2", "standard", "p", "n", "v", "safe"),
   Rec(5, "f3", "standard", "q", "n", "v", "safe"), Rec(6, "f3", "standard", "p", "n", "w", "breaking"),
   Rec(7, "f4", "standard", "p", "n", "w", "breaking"), Rec(8, "f4", "standard", "q", "n", "w", "safe")}

\* Both mutations and policies in the challenge family, seen by two policies.
ChallengeRecords ==
  {Rec(9, "c1", "challenge", "p", "m", "v", "safe"), Rec(10, "c1", "challenge", "q", "m", "v", "breaking"),
   Rec(11, "c1", "challenge", "p", "n", "w", "safe"), Rec(13, "c2", "challenge", "q", "n", "w", "safe")}

\* A family in both roles.
BothRoles == {Rec(14, "f2", "challenge", "p", "m", "v", "safe"), Rec(15, "f2", "challenge", "q", "m", "w", "breaking")}

MCCorpora == {StandardRecords \cup ChallengeRecords, StandardRecords \cup ChallengeRecords \cup BothRoles,
              {r \in StandardRecords \cup ChallengeRecords : r.id # 3} \cup {Rec(12, "f2", "standard", "q", "n", "v", "warning")},
              StandardRecords,
              {r \in StandardRecords : r.family \in {"f1", "f2", "f3"}} \cup ChallengeRecords,
              {r \in StandardRecords : r.family \in {"f2", "f3"}} \cup ChallengeRecords,
              {r \in StandardRecords \cup ChallengeRecords : r.mutation = "n" \/ r.family = "f1"}}

MCPolicyOrder == <<"p", "q">>
MCMutationOrder == <<"m", "n">>

\* Families in an order, dealt to the parts forwards or backwards from one of them: six splits.
Number(x) == CASE x = "f1" -> 1 [] x = "f2" -> 2 [] x = "f3" -> 3 [] x = "f4" -> 4 [] OTHER -> 5
Rank(fs, x) == Cardinality({y \in fs : Number(y) < Number(x)})
Dealt == <<"train", "validation", "test">>
MCSplit(fs, seed) == [x \in fs |-> Dealt[((IF seed < 3 THEN Rank(fs, x) + seed ELSE 8 + seed - Rank(fs, x)) % 3) + 1]]

MCSeedLists == {<<s>> : s \in 0 .. 5} \cup {<<4, 1, 4>>, <<5, 2>>}

-----------------------------------------------------------------------------
(* FeatureAblation: corpora of three or four families and a challenge: one *)
(* the feature explains, one it explains but for a record in each family,  *)
(* one with a tie, and some the command refuses.  Two seeds of the three.  *)
MCOriginalSeeds == <<26, 27>>
MCRequests == {[feature_index |-> 65, seeds |-> <<27, 26, 27>>], [feature_index |-> 65, seeds |-> <<27>>],
             [feature_index |-> 64, seeds |-> MCOriginalSeeds]}

R(f, n, role, label, b) == [family |-> f, n |-> n, role |-> role, label |-> label, bucket |-> b]
Clean(f, role) == {R(f, 1, role, "safe", 0), R(f, 2, role, "breaking", 1)}
Mixed(f, role) == Clean(f, role) \cup {R(f, 3, role, "warning", 0), R(f, 4, role, "breaking", 0),
                                       R(f, 5, role, "breaking", 1), R(f, 6, role, "safe", 0)}
Corpus(records) == [records |-> records, sound |-> TRUE, stamped |-> TRUE, version |-> "v6"]
ThreeClean == UNION {Clean(f, "standard") : f \in {"f", "g", "h"}}
AllClean == Corpus(ThreeClean \cup Clean("x", "challenge"))
AllMixed == Corpus(UNION {Mixed(f, "standard") : f \in {"f", "g", "h"}} \cup Mixed("x", "challenge"))
\* Which family is in the training part decides what is learned and scored.
Uneven == Corpus(Clean("f", "standard") \cup Mixed("g", "standard") \cup {R("h", 1, "standard", "breaking", 0),
                 R("h", 2, "standard", "safe", 1)} \cup Mixed("x", "challenge"))
Tied == Corpus(ThreeClean \cup {R(f, 3, "standard", "breaking", 0) : f \in {"f", "g", "h"}} \cup Clean("x", "challenge"))
Unlabelled == Corpus(ThreeClean \cup {R("x", 1, "challenge", None, 0)})
Two == Corpus(Clean("f", "standard") \cup Clean("g", "standard") \cup Clean("x", "challenge"))
NoChallenge == Corpus(ThreeClean)
MCAblationCorpora == [clean |-> AllClean, mixed |-> AllMixed, uneven |-> Uneven, tied |-> Tied, unlabelled |-> Unlabelled,
              two |-> Two, no_challenge |-> NoChallenge, unstamped |-> [AllClean EXCEPT !.stamped = FALSE],
              v5 |-> [AllClean EXCEPT !.version = "v5"], unsound |-> [AllClean EXCEPT !.sound = FALSE]]

M(tn, fp, fn, tp) == [tn |-> tn, fp |-> fp, fn |-> fn, tp |-> tp]
Same(test, challenge) == [s \in {26, 27} |-> [test |-> test, challenge |-> challenge]]
OfClean == Same(M(1, 0, 0, 1), M(1, 0, 0, 1))
OfMixed == Same(M(3, 0, 1, 2), M(3, 0, 1, 2))
FirstDiffers == [OfClean EXCEPT ![26].test = M(1, 0, 1, 0)]
MCReferences == [of_clean |-> OfClean, of_mixed |-> OfMixed, first_differs |-> FirstDiffers,
               one_missing |-> [s \in {27} |-> OfClean[s]], not_json |-> None]
MCReplacements == {"clean", "of_mixed"}

-----------------------------------------------------------------------------
(* InMemoryDataset: texts of up to five lines, blank lines, words, rows    *)
(* of other widths and what is not a number; every permutation, and eight  *)
(* splits in three.                                                        *)
Line(i) == <<i, i, 0>>
Lines(n) == [i \in 1 .. n |-> Line(i)]
MCTexts == {Lines(n) : n \in 0 .. 5} \cup
  {<<<<>>, Line(1), <<>>, Line(2), Line(3)>>, <<<<Text, Text, Text>>, Line(1), Line(2), Line(3)>>, <<<<>>, <<Text, Text, Text>>, Line(1)>>,
   <<Line(1), <<2, 2>>, Line(3)>>, <<Line(1), <<NotANumber, 2, 0>>>>, <<Line(1), Line(2), <<3, 3, NotANumber>>>>, <<<<1>>, <<2>>>>,
   <<Line(1), Line(1), Line(2)>>}
MCConfigs == {<<70, 15, 15>>, <<80, 10, 10>>, <<34, 33, 33>>, <<98, 1, 1>>, <<1, 1, 98>>, <<50, 49, 1>>, <<70, 20, 20>>, <<100, 0, 0>>}
MCTestRatios == {-1, 0, 1, 20, 25, 50, 99, 100}

=============================================================================
