--------------------------- MODULE SourceSampling ---------------------------
(***************************************************************************)
(* load_sampled_with_profile: one pass over the rows of a source that      *)
(* keeps the schemas of the smallest keys, within bounded memory.  A map   *)
(* is a function from keys, ordered by priority, then rank, then id.       *)
(***************************************************************************)
EXTENDS Naturals, Sequences, FiniteSets, SequencesExt, FiniteSetsExt

CONSTANTS Files,       \* sequences of rows, [id, schema, readable]
          Budgets,     \* values of max_records
          Rank,        \* id -> its rank under the seed
          IdOrder,     \* id -> its place in the order of ids
          Root,        \* schema -> "open", "closed", or None if it is not an object with properties
          Candidates,  \* schema -> the kinds of mutation proposed of it, None if it does not parse
          Blank,       \* an id or a schema of blanks
          Failed, None

Profiles == {"broad", "optional-open", "optional-closed", "balanced-optional", "matched-optional"}

VARIABLES file, max_records, profile, \* what the call was given
          next,                       \* rows read
          sampled, balanced_open, balanced_closed,
          result                      \* None, Failed, or the sequence of rows returned
vars == <<file, max_records, profile, next, sampled, balanced_open, balanced_closed, result>>

-----------------------------------------------------------------------------
(* Keys. *)

\* A class that warnings come from is read first, and what proposes nothing last.
source_priority(schema) ==
  IF Candidates[schema] = None \/ Candidates[schema] = {} THEN 2
  ELSE IF "enum_value_added" \in Candidates[schema] THEN 0 ELSE 1

\* Which profiles look at priorities at all.
Priority(row) == IF profile \in {"broad", "balanced-optional"} THEN source_priority(row.schema) ELSE 0
Key(row) == <<Priority(row), Rank[row.id], row.id>>

Before(k, l) ==
  \/ k[1] < l[1]
  \/ k[1] = l[1] /\ k[2] < l[2]
  \/ k[1] = l[1] /\ k[2] = l[2] /\ IdOrder[k[3]] < IdOrder[l[3]]

Matches(row) ==
  \/ profile = "broad"
  \/ /\ Root[row.schema] # None
     /\ profile = "optional-open" => Root[row.schema] = "open"
     /\ profile = "optional-closed" => Root[row.schema] = "closed"

-----------------------------------------------------------------------------
(* Reading. *)

open_limit == max_records \div 2
closed_limit == max_records - open_limit

LargestKey(map) == CHOOSE k \in DOMAIN map : \A l \in DOMAIN map : l = k \/ Before(l, k)
PopLast(map) == [k \in (DOMAIN map) \ {LargestKey(map)} |-> map[k]]

\* Mutant: a full sample takes in no row.
InsertUnlessFull(map, row, limit) ==
  IF Cardinality(DOMAIN map) >= limit /\ Key(row) \notin DOMAIN map THEN map
  ELSE [k \in DOMAIN map \cup {Key(row)} |-> IF k = Key(row) THEN row ELSE map[k]]

\* Of rows with one key the last is kept, and of more keys than the limit the last goes.
Insert(map, row, limit) ==
  LET grown == [k \in DOMAIN map \cup {Key(row)} |-> IF k = Key(row) THEN row ELSE map[k]]
  IN  IF Cardinality(DOMAIN grown) > limit THEN PopLast(grown) ELSE grown

InOrder(map) ==
  LET at(i) == CHOOSE k \in DOMAIN map : Cardinality({l \in DOMAIN map : Before(l, k)}) = i - 1
  IN  [i \in 1 .. Cardinality(DOMAIN map) |-> map[at(i)]]

Row == file[next + 1]
Given == <<file, max_records, profile>>
Reading == result = None /\ next < Len(file) /\ Row.readable
Blanks(row) == row.id = Blank \/ row.schema = Blank

ReadBlank == Reading /\ Blanks(Row) /\ next' = next + 1 /\ UNCHANGED <<sampled, balanced_open, balanced_closed, result>>

ReadBalanced ==
  /\ Reading /\ ~Blanks(Row) /\ profile = "balanced-optional" /\ next' = next + 1
  /\ balanced_open' = IF Root[Row.schema] = "open" THEN Insert(balanced_open, Row, open_limit) ELSE balanced_open
  /\ balanced_closed' = IF Root[Row.schema] = "closed" THEN Insert(balanced_closed, Row, closed_limit) ELSE balanced_closed
  /\ UNCHANGED <<sampled, result>>

ReadOther ==
  /\ Reading /\ ~Blanks(Row) /\ profile # "balanced-optional" /\ next' = next + 1
  /\ sampled' = IF Matches(Row) THEN Insert(sampled, Row, max_records) ELSE sampled
  /\ UNCHANGED <<balanced_open, balanced_closed, result>>

\* A row that cannot be read fails the whole call.
RowFails ==
  /\ result = None /\ next < Len(file) /\ ~Row.readable /\ result' = Failed
  /\ UNCHANGED <<next, sampled, balanced_open, balanced_closed>>

\* Of the two halves together, priorities no longer count: by rank, then id.
Combined ==
  LET rows == {balanced_open[k] : k \in DOMAIN balanced_open} \cup {balanced_closed[k] : k \in DOMAIN balanced_closed}
  IN  SetToSortSeq(rows, LAMBDA r, s : Before(<<0, Rank[r.id], r.id>>, <<0, Rank[s.id], s.id>>))

Return ==
  /\ result = None /\ next = Len(file)
  /\ result' = IF profile = "balanced-optional" THEN Combined ELSE InOrder(sampled)
  /\ UNCHANGED <<next, sampled, balanced_open, balanced_closed>>

Init ==
  /\ file \in Files /\ max_records \in Budgets /\ profile \in Profiles
  /\ next = 0 /\ sampled = <<>> /\ balanced_open = <<>> /\ balanced_closed = <<>>
  /\ result = IF max_records = 0 THEN Failed ELSE None

Ended == result # None /\ UNCHANGED vars
Next == ((ReadBlank \/ ReadBalanced \/ ReadOther \/ RowFails \/ Return) /\ UNCHANGED Given) \/ Ended

Spec == Init /\ [][Next]_vars

-----------------------------------------------------------------------------
(* Properties. *)

\* What is held is never more than was asked for, however long the file is.
TypeOK ==
  /\ next \in 0 .. Len(file)
  /\ \A map \in {sampled, balanced_open, balanced_closed} : \A k \in DOMAIN map : Key(map[k]) = k
  /\ Cardinality(DOMAIN sampled) <= max_records
  /\ Cardinality(DOMAIN balanced_open) + Cardinality(DOMAIN balanced_closed) <= max_records

Done == result \notin {None, Failed}
Returned == ToSet(result)

\* The places of rows that could be sampled, of those with one key the last.
Eligible(wanted(_)) ==
  LET all == {i \in DOMAIN file : ~Blanks(file[i]) /\ wanted(file[i])}
  IN  {i \in all : ~\E j \in all : j > i /\ Key(file[j]) = Key(file[i])}
Smallest(places, limit) ==
  {file[i] : i \in {j \in places : Cardinality({l \in places : Before(Key(file[l]), Key(file[j]))}) < limit}}

\* The sample is what sorting the whole file would give: of each part the rows with the smallest keys.
\* A row that was dropped for want of room would not have come back.
SampleIsSmallest ==
  Done => Returned =
    IF profile = "balanced-optional"
    THEN Smallest(Eligible(LAMBDA r : Root[r.schema] = "open"), open_limit)
         \cup Smallest(Eligible(LAMBDA r : Root[r.schema] = "closed"), closed_limit)
    ELSE Smallest(Eligible(Matches), max_records)

\* Where ids are distinct the order of rows in the file is of no account: a pass in reverse returns the same.
Kept(rows, wanted(_), limit) == FoldLeft(LAMBDA map, row : IF wanted(row) THEN Insert(map, row, limit) ELSE map, <<>>, rows)
RowOrderDoesNotMatter ==
  LET rows == SelectSeq(file, LAMBDA r : ~Blanks(r))
      back == IF profile = "balanced-optional"
              THEN {Kept(Reverse(rows), LAMBDA r : Root[r.schema] = "open", open_limit),
                    Kept(Reverse(rows), LAMBDA r : Root[r.schema] = "closed", closed_limit)}
              ELSE {Kept(Reverse(rows), Matches, max_records)}
  IN  Done /\ Cardinality({r.id : r \in ToSet(rows)}) = Len(rows) =>
        Returned = UNION {{map[k] : k \in DOMAIN map} : map \in back}

\* A balanced sample has as many open as closed roots, one more closed at odd budgets; it is short only
\* where one of them is scarce in the file.
OfRoot(rows, root) == Cardinality({r \in rows : Root[r.schema] = root})
BalancedIsFair ==
  Done /\ profile = "balanced-optional" =>
    \/ OfRoot(Returned, "open") = open_limit /\ OfRoot(Returned, "closed") = max_records - open_limit
    \/ \E root \in {"open", "closed"} :
         /\ OfRoot(Returned, root) < max_records - open_limit
         /\ {Key(r) : r \in {x \in ToSet(file) : ~Blanks(x) /\ Root[x.schema] = root}}
              \subseteq {Key(r) : r \in Returned}

\* A sample is of the whole file: one that could not be read through gives none.
SampleOfWholeFile == Done => next = Len(file) /\ \A r \in ToSet(file) : r.readable
=============================================================================
