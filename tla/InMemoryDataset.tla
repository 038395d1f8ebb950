-------------------------- MODULE InMemoryDataset --------------------------
(***************************************************************************)
(* A dataset in memory: rows are read from the lines of a CSV text, and    *)
(* are split in two, split in three by a seeded permutation, or cut into   *)
(* batches.  A cell is a number, or NotANumber (which does parse), or Text *)
(* (which does not).  Ratios are hundredths and are multiplied exactly.    *)
(***************************************************************************)
EXTENDS Integers, Sequences, FiniteSets, FiniteSetsExt

CONSTANTS Texts,         \* CSV texts: sequences of lines, each a sequence of cells, <<>> a blank one
          TargetColumns, \* values of target_columns
          Ratios,        \* test ratios, in hundredths
          Configs,       \* ratios of train, validation and test, in hundredths
          BatchSizes,
          NotANumber, Text, None

VARIABLES csv, target_columns, has_header, \* what from_csv_str was given
          pc,       \* "read", "new", "ready", "shuffle", "count", "lift", "trim", "cut", "done" or "error"
          line,     \* the last line read, or 0
          rows,     \* [features, targets] so far, and then the dataset
          error,    \* [kind, row] of the call that failed, or None
          asked,    \* the test ratio, the ratios or the batch size of a call: [call, of]
          indices,  \* the permutation of rows
          counts,   \* rows per partition
          parts     \* what a split or batches returned
vars == <<csv, target_columns, has_header, pc, line, rows, error, asked, indices, counts, parts>>

Cells == Nat \cup {NotANumber, Text}
MemoryAssumption ==
  /\ Texts \subseteq Seq(Seq(Cells))
  /\ TargetColumns \subseteq Nat /\ BatchSizes \subseteq Nat
  /\ Ratios \subseteq Int /\ Configs \subseteq [1 .. 3 -> Int]

Given == <<csv, target_columns, has_header>>
Splitting == <<asked, indices, counts, parts>>

Fail(kind, row) == pc' = "error" /\ error' = [kind |-> kind, row |-> row]

-----------------------------------------------------------------------------
(* from_csv_str. *)

\* The lines that count, by their place in the text: not blank ones, and not the first if it is a header.
Skipped(i) == csv[i] = <<>> \/ (has_header /\ i = 1)
DataLines == {i \in DOMAIN csv : ~Skipped(i)}
Columns(i) == Len(csv[i])

EmptyCsv == pc = "read" /\ DataLines = {} /\ Fail("EmptyCsv", None) /\ UNCHANGED <<line, rows>> /\ UNCHANGED Given /\ UNCHANGED Splitting

Left == {i \in DataLines : i > line}
Current == Min(Left)
Parses(i) == \A j \in DOMAIN csv[i] : csv[i][j] # Text
SameColumns(i) == Columns(i) = Columns(Min(DataLines))
TargetsFit(i) == target_columns > 0 /\ target_columns < Columns(i)
Cut(i) ==
  [features |-> SubSeq(csv[i], 1, Columns(i) - target_columns),
   targets  |-> SubSeq(csv[i], Columns(i) - target_columns + 1, Columns(i))]

ReadLine ==
  /\ pc = "read" /\ Left # {} /\ Parses(Current) /\ SameColumns(Current) /\ TargetsFit(Current)
  /\ rows' = Append(rows, Cut(Current)) /\ line' = Current
  /\ pc' = IF Left = {Current} THEN "new" ELSE "read"
  /\ UNCHANGED error /\ UNCHANGED Given /\ UNCHANGED Splitting

LineRefused ==
  /\ pc = "read" /\ Left # {}
  /\ \/ ~Parses(Current) /\ Fail("ParseFloat", Current)
     \/ Parses(Current) /\ ~SameColumns(Current) /\ Fail("InconsistentColumnCount", Current)
     \/ Parses(Current) /\ SameColumns(Current) /\ ~TargetsFit(Current) /\ Fail("InvalidTargetColumnCount", None)
  /\ UNCHANGED <<line, rows>> /\ UNCHANGED Given /\ UNCHANGED Splitting

\* Features are gone through first and targets after them, counting on; rows count from 0.
NotFinite(values) == {i \in DOMAIN values : \E j \in DOMAIN values[i] : values[i][j] = NotANumber}
Chained == [i \in 1 .. Len(rows) |-> rows[i].features] \o [i \in 1 .. Len(rows) |-> rows[i].targets]

New == pc = "new" /\ NotFinite(Chained) = {} /\ pc' = "ready" /\ UNCHANGED <<line, rows, error>> /\ UNCHANGED Given /\ UNCHANGED Splitting
NewRefused ==
  /\ pc = "new" /\ NotFinite(Chained) # {} /\ Fail("NonFiniteValue", Min(NotFinite(Chained)) - 1)
  /\ UNCHANGED <<line, rows>> /\ UNCHANGED Given /\ UNCHANGED Splitting

-----------------------------------------------------------------------------
(* Splits and batches. *)

N == Len(rows)
Loaded == <<csv, target_columns, has_header, line, rows>>

\* Half a row is rounded up, and either part has a row at least.
TestSize(ratio) ==
  LET rounded == (2 * N * ratio + 100) \div 200
  IN  IF rounded < 1 THEN 1 ELSE IF rounded > N - 1 THEN N - 1 ELSE rounded

train_test_split ==
  /\ pc = "ready"
  /\ \E ratio \in Ratios :
       /\ asked' = [call |-> "train_test_split", of |-> ratio]
       /\ IF ratio < 0 \/ ratio >= 100 THEN Fail("InvalidSplitRatio", None) /\ UNCHANGED parts
          ELSE IF N < 2 THEN Fail("EmptyDataset", None) /\ UNCHANGED parts
          ELSE /\ parts' = <<SubSeq(rows, 1, N - TestSize(ratio)), SubSeq(rows, N - TestSize(ratio) + 1, N)>>
               /\ pc' = "done" /\ UNCHANGED error
  /\ UNCHANGED <<indices, counts>> /\ UNCHANGED Loaded

ConfigValid(config) == (\A i \in 1 .. 3 : config[i] > 0) /\ config[1] + config[2] + config[3] = 100

train_validation_test_split ==
  /\ pc = "ready"
  /\ \E config \in Configs :
       /\ asked' = [call |-> "train_validation_test_split", of |-> config]
       /\ IF ~ConfigValid(config) THEN Fail("InvalidSplitConfiguration", None) /\ UNCHANGED <<indices, counts>>
          ELSE IF N < 3 THEN Fail("EmptyDataset", None) /\ UNCHANGED <<indices, counts>>
          ELSE /\ indices' = [i \in 1 .. N |-> i] /\ counts' = <<N>>
               /\ pc' = "shuffle" /\ UNCHANGED error
  /\ UNCHANGED parts /\ UNCHANGED Loaded

\* Mutant: one of the two is overwritten.
SwappedOneWay(seq, i, j) == [seq EXCEPT ![i] = seq[j]]

\* From the last index down each is swapped with one not above it; which one the seed decides.
\* Until the shuffle is over, counts holds the index that is next.
Swapped(seq, i, j) == [seq EXCEPT ![i] = seq[j], ![j] = seq[i]]

\* What a part is due, in hundredths of a row.
Due(i) == asked.of[i] * N
Floors == [i \in 1 .. 3 |-> Due(i) \div 100]

Shuffle ==
  /\ pc = "shuffle"
  /\ IF counts[1] > 1
     THEN (\E j \in 1 .. counts[1] : indices' = Swapped(indices, counts[1], j)) /\ counts' = <<counts[1] - 1>> /\ UNCHANGED pc
     ELSE counts' = Floors /\ pc' = "count" /\ UNCHANGED indices
  /\ UNCHANGED <<error, asked, parts>> /\ UNCHANGED Loaded

Total(c) == c[1] + c[2] + c[3]
Fractions == [i \in 1 .. 3 |-> Due(i) - 100 * counts[i]]

\* Of equals the last is the largest.
Largest(S, value) == CHOOSE i \in S : \A j \in S : value[j] < value[i] \/ (value[j] = value[i] /\ j <= i)

\* What the floors leave goes to the largest fractions.
Give ==
  /\ pc = "count"
  /\ IF Total(counts) < N THEN counts' = [counts EXCEPT ![Largest(1 .. 3, Fractions)] = @ + 1] /\ UNCHANGED pc
     ELSE pc' = "lift" /\ UNCHANGED counts
  /\ UNCHANGED <<error, asked, indices, parts>> /\ UNCHANGED Loaded

Lift ==
  /\ pc = "lift" /\ counts' = [i \in 1 .. 3 |-> IF counts[i] = 0 THEN 1 ELSE counts[i]] /\ pc' = "trim"
  /\ UNCHANGED <<error, asked, indices, parts>> /\ UNCHANGED Loaded

\* What was lifted is taken from the largest.
Trim ==
  /\ pc = "trim"
  /\ IF Total(counts) > N
     THEN counts' = [counts EXCEPT ![Largest({i \in 1 .. 3 : counts[i] > 1}, counts)] = @ - 1] /\ UNCHANGED pc
     ELSE pc' = "cut" /\ UNCHANGED counts
  /\ UNCHANGED <<error, asked, indices, parts>> /\ UNCHANGED Loaded

MakePartitions ==
  /\ pc = "cut" /\ pc' = "done"
  /\ LET at(from, to) == [i \in 1 .. to - from |-> rows[indices[from + i]]]
     IN  parts' = <<at(0, counts[1]), at(counts[1], counts[1] + counts[2]), at(counts[1] + counts[2], N)>>
  /\ UNCHANGED <<error, asked, indices, counts>> /\ UNCHANGED Loaded

\* Starts are one batch apart, and the last batch has what is left.
Batches(size) == [b \in 1 .. (N + size - 1) \div size |-> SubSeq(rows, (b - 1) * size + 1, Min({b * size, N}))]
batches ==
  /\ pc = "ready"
  /\ \E size \in BatchSizes :
       /\ asked' = [call |-> "batches", of |-> size]
       /\ IF size = 0 THEN Fail("InvalidBatchSize", None) /\ UNCHANGED parts
          ELSE parts' = Batches(size) /\ pc' = "done" /\ UNCHANGED error
  /\ UNCHANGED <<indices, counts>> /\ UNCHANGED Loaded

Init ==
  /\ csv \in Texts /\ target_columns \in TargetColumns /\ has_header \in BOOLEAN
  /\ pc = "read" /\ line = 0 /\ rows = <<>> /\ error = None
  /\ asked = None /\ indices = <<>> /\ counts = <<>> /\ parts = <<>>

\* What is done without a call, once one was made.
Working ==
  \/ EmptyCsv \/ ReadLine \/ LineRefused \/ New \/ NewRefused
  \/ Shuffle \/ Give \/ Lift \/ Trim \/ MakePartitions

\* Everything that was called has returned: the only rest.
Ended == pc \in {"done", "error"} /\ UNCHANGED vars
Next == Working \/ train_test_split \/ train_validation_test_split \/ batches \/ Ended

\* A call goes on until it returns; nobody has to make one.
Spec == Init /\ [][Next]_vars /\ WF_vars(Working)

-----------------------------------------------------------------------------
(* Properties. *)

InThree == indices # <<>>

\* Every variable has its shape; a dataset that is ready has rows of one width, with features and targets.
TypeOK ==
  /\ line \in 0 .. Len(csv) /\ Len(rows) = Cardinality({i \in DataLines : i <= line})
  /\ pc # "error" => error = None
  /\ pc = "ready" => /\ rows # <<>>
                     /\ \A i \in 1 .. N : /\ Len(rows[i].features) = Len(rows[1].features) /\ rows[i].features # <<>>
                                          /\ Len(rows[i].targets) = target_columns
  /\ InThree => DOMAIN indices = 1 .. N /\ {indices[i] : i \in DOMAIN indices} = 1 .. N

\* No row is lost between the text and the dataset, whatever blank lines lie between, and none is cut twice:
\* a line that counts is the row whose number is that of the lines that count down to it.
RowsAreTheLines ==
  pc \in {"ready", "done"} =>
    LET counted == {i \in DOMAIN csv : csv[i] # <<>> /\ (has_header => i # 1)}
        row(l) == rows[Cardinality({i \in counted : i <= l})]
    IN  N = Cardinality(counted) /\ \A l \in counted : row(l).features \o row(l).targets = csv[l]

\* The places in what was returned.
Dealt == UNION {{p} \X DOMAIN parts[p] : p \in DOMAIN parts}

\* Every row is in one part, once: none is trained on and tested on.
PartsPartition ==
  pc = "done" => /\ Cardinality(Dealt) = N
                 /\ \A r \in {rows[i] : i \in 1 .. N} : Cardinality({i \in 1 .. N : rows[i] = r}) =
                                                       Cardinality({d \in Dealt : parts[d[1]][d[2]] = r})

\* However few the rows and however small a ratio, no part is empty.
NoPartIsEmpty == pc = "done" => \A i \in DOMAIN parts : parts[i] # <<>>

\* A part of a split in three is less than a row off its ratio, or it is one row that its ratio does not
\* come to, or the one that such rows were taken from.
PartsFollowRatios ==
  pc = "done" /\ InThree =>
    LET off(i) == 100 * Len(parts[i]) - Due(i)
        lifted == {i \in 1 .. 3 : Due(i) < 100 /\ Len(parts[i]) = 1}
    IN  \A i \in 1 .. 3 :
          \/ -100 < off(i) /\ off(i) < 100
          \/ lifted # {} /\ off(i) > -200 /\ off(i) < 0 /\ \A j \in 1 .. 3 : Len(parts[j]) <= Len(parts[i]) + 1

\* Every call returns or fails.
CallsEnd == <>(pc \in {"ready", "done", "error"}) /\ [](pc = "shuffle" => <>(pc = "done"))

\* What the comment on InvalidSplitRatio says: the open range from 0 to 1 is accepted, nothing else.
RatiosAreInside == (pc = "done" /\ asked.call = "train_test_split") => (0 < asked.of /\ asked.of < 100)

\* What the message of NonFiniteValue says: the dataset has the row it names.
ErrorNamesARow == (error # None /\ error.kind = "NonFiniteValue") => error.row < Cardinality(DataLines)
=============================================================================
