------------------------------ MODULE OcrText -------------------------------
(***************************************************************************)
(* The text of an OCR result (GetText, pkg/ocrtext/text.go): the blocks    *)
(* are put into columns by their left edge, each column and then the       *)
(* columns are sorted from top to bottom, blocks whose tops differ little  *)
(* from left to right.  The columns come out of a Go map, so in any order; *)
(* sort.Slice is an insertion sort at these lengths.                       *)
(*                                                                         *)
(* A block is its position; the text is the sequence of blocks with the    *)
(* places where a column ends.                                             *)
(***************************************************************************)
EXTENDS Integers, FiniteSets, SequencesExt

CONSTANTS
  Tops, Lefts,        \* the edges that blocks may have, in pixels
  Blocks,             \* blocks of a result
  MergeDistance,      \* DefaultMergeDistance
  HorizontalDistance  \* DefaultHorizontalDistance

VARIABLES
  result, \* OcrResult.TextBlocks
  output  \* the columns that were written, a sequence of blocks each

textVars == <<result, output>>

Block == [top : Tops, left : Lefts]

TextTypeOK ==
  /\ result \in [1..Blocks -> Block]
  /\ \A c \in 1..Len(output) : output[c] \in Seq(Block) \ {<<>>}

Distance(a, b) == IF a.top > b.top THEN a.top - b.top ELSE b.top - a.top

(* less, of both sorts                                                     *)
Less(a, b) ==
  IF Distance(a, b) <= HorizontalDistance THEN a.left < b.left ELSE a.top < b.top

(* insertionSort, by the first block of a row: x goes down past the rows   *)
(* it is less than, and stops at the first it is not.                      *)
Insert(sorted, x) ==
  LET stop == CHOOSE k \in 0..Len(sorted) :
                /\ k = 0 \/ ~Less(x[1], sorted[k][1])
                /\ \A j \in (k + 1)..Len(sorted) : Less(x[1], sorted[j][1])
  IN  InsertAt(sorted, stop + 1, x)

Sorted(rows) == FoldLeft(Insert, <<>>, rows)

(* A distance that is not positive makes a column of every edge.           *)
Bucket(b) == b.left \div (IF MergeDistance <= 0 THEN 1 ELSE MergeDistance)

Column(k) ==
  FlattenSeq(Sorted(SelectSeq([i \in 1..Blocks |-> <<result[i]>>],
                              LAMBDA row : Bucket(row[1]) = k)))

TextInit == result \in [1..Blocks -> Block] /\ output = <<>>

(* GetText, for every order in which the map may yield the columns.        *)
GetText ==
  /\ \E order \in SetToSeqs({Bucket(result[i]) : i \in 1..Blocks}) :
       output' = Sorted([i \in 1..Len(order) |-> Column(order[i])])
  /\ UNCHANGED result

TextNext == GetText

TextSpec == TextInit /\ [][TextNext]_textVars

-----------------------------------------------------------------------------
(* "Two blocks in roughly the same column (left within mergeDistance) with *)
(* significantly different top values -> should appear top-first"          *)
(* (pkg/ocrtext/ocrtext_test.go:42-43).  The code does not keep it: being  *)
(* close is not transitive, so of three blocks of a line that is not level *)
(* each may be less than the next one, round in a circle.                  *)
ReadsTopFirst ==
  \A c \in 1..Len(output) : \A i, j \in 1..Len(output[c]) :
    output[c][i].top + HorizontalDistance < output[c][j].top => i < j
=============================================================================
