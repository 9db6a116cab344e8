----------------------------- MODULE Chunking ------------------------------
(***************************************************************************)
(* From a file to the rows of document_chunk: extractors.py joins the      *)
(* pages of a PDF and records where each begins, SmartChunker splits the   *)
(* text into sentences, distributes them over chunks by a greedy fill with *)
(* a merge of the tail (twice if need be), and locates the chunks in the   *)
(* text and on its pages.  A text is its length, a sentence an interval.   *)
(*                                                                         *)
(* A group of sentences is named by its first one: the groups are          *)
(* contiguous, and the last of them is the one being filled.               *)
(***************************************************************************)
EXTENDS Integers, Sequences

CONSTANTS
    Target,         \* CHUNK_SIZE_TARGET, 262144 unless configured
    ShortText,      \* shortest text of a PDF with several pages, 50
    MaxPages,       \* bound on the pages of a PDF
    MaxPageLength   \* bound on the characters of a page

ASSUME TargetAssumption == Target \in Nat \ {0}
ASSUME FileAssumption == ShortText \in Nat /\ MaxPages \in Nat \ {0} /\ MaxPageLength \in Nat

VARIABLES
    at,        \* how far the file got
    pages,     \* the pages as "\f".join puts them into the text: position, length
    offsets,   \* page_offsets of the ExtractionResult
    spans,     \* the sentences Punkt finds: half-open intervals of the text; sum of the
               \* sentence_lengths so far
    goal,      \* target_size of the current _greedy_fill_with_merge
    starts,    \* the first sentence of each group
    size,      \* current_len: characters of the last group
    next,      \* the next sentence to place
    rows       \* rows of document_chunk

vars == <<at, pages, offsets, spans, goal, starts, size, next, rows>>
file == <<pages, offsets, spans>>
fill == <<goal, starts, size, next>>
-----------------------------------------------------------------------------
Last(s) == s[Len(s)]
PageEnd(p) == p.from + p.len
TextLength == IF pages = <<>> THEN 0 ELSE PageEnd(Last(pages))

Length(i) == spans[i].to - spans[i].from
Upto(i) == IF i = 0 THEN 0 ELSE spans[i].sum
Total(i, j) == Upto(j) - Upto(i - 1)
TotalLength == Total(1, Len(spans))
GroupEnd(k) == IF k < Len(starts) THEN starts[k + 1] - 1 ELSE Len(spans)

\* _offset_to_page: the first page whose interval holds the offset, else the last.
OffsetToPage(o, po) ==
    LET Holds(k) == po[k] <= o /\ o < po[k + 1]
        n == Len(po) - 1
    IN  IF \E k \in 1 .. n : Holds(k)
        THEN CHOOSE k \in 1 .. n : Holds(k) /\ \A j \in 1 .. k - 1 : ~Holds(j)
        ELSE n

Init ==
    /\ at = "read"
    /\ pages = <<>> /\ offsets = <<0>> /\ spans = <<>>
    /\ goal = Target /\ starts = <<>> /\ size = 0 /\ next = 1
    /\ rows = <<>>
-----------------------------------------------------------------------------
(* Extraction.                                                             *)

\* A page of a PDF; one that cannot be read counts as empty.
ReadPage ==
    /\ at = "read" /\ Len(pages) < MaxPages
    /\ \E l \in 0 .. MaxPageLength :
          /\ pages' = Append(pages, [len |-> l, from |->
                          IF pages = <<>> THEN 0 ELSE TextLength + 1])
          /\ offsets' = Append(offsets, Last(offsets) + l)
    /\ UNCHANGED <<at, spans, fill, rows>>

\* Mutant: the shift starts one page late.
ShiftOffsetsLate ==
    /\ at = "read"
    /\ offsets' = [k \in DOMAIN offsets |-> IF k >= 4 THEN offsets[k] + k - 2 ELSE offsets[k]]
    /\ at' = "gate"
    /\ UNCHANGED <<pages, spans, fill, rows>>

\* The separators of "\f".join move the pages behind them.
ShiftOffsets ==
    /\ at = "read"
    /\ offsets' = [k \in DOMAIN offsets |-> IF k >= 3 THEN offsets[k] + k - 2 ELSE offsets[k]]
    /\ at' = "gate"
    /\ UNCHANGED <<pages, spans, fill, rows>>

\* A short text is one chunk; another one goes to Punkt.
Onward == at' = IF TextLength <= Target THEN "whole" ELSE "split"

\* Plain text, or text submitted as such, is one page without a quality gate.
ReadText ==
    /\ at = "read" /\ pages = <<>>
    /\ \E l \in 0 .. MaxPages * (MaxPageLength + 1) :
          /\ pages' = <<[from |-> 0, len |-> l]>>
          /\ offsets' = <<0, l>>
          /\ at' = IF l <= Target THEN "whole" ELSE "split"
    /\ UNCHANGED <<spans, fill, rows>>

\* Quality gate: no page, nothing but white space, or hardly any text on
\* several pages.  What strip() leaves of a text with letters is open.
Gate ==
    /\ at = "gate"
    /\ \/ /\ pages # <<>>
          /\ \E stripped \in 1 .. TextLength :
                /\ \E k \in DOMAIN pages : pages[k].len > 0
                /\ stripped >= ShortText \/ Len(pages) = 1
          /\ Onward
       \/ at' = "rejected"
    /\ UNCHANGED <<file, fill, rows>>
-----------------------------------------------------------------------------
(* Chunking.                                                               *)

\* What Punkt makes of the text: sentences in order, with white space between.
Sentence ==
    /\ at = "split"
    /\ \E s, e \in 0 .. TextLength :
          /\ spans # <<>> => s >= Last(spans).to
          /\ s < e
          /\ spans' = Append(spans, [from |-> s, to |-> e, sum |-> Upto(Len(spans)) + e - s])
    /\ UNCHANGED <<at, pages, offsets, fill, rows>>

\* distribute_balanced: sentences that fit together are one group.  A text
\* without a sentence makes a group without one, whose bounds raise IndexError.
Distribute ==
    /\ at = "split"
    /\ IF spans = <<>> \/ TotalLength <= Target
       THEN /\ at' = IF spans = <<>> THEN "raised" ELSE "locate"
            /\ starts' = <<1>>
            /\ UNCHANGED <<goal, size, next>>
       ELSE /\ at' = "fill"
            /\ goal' = Target /\ starts' = <<1>> /\ size' = 0 /\ next' = 1
    /\ UNCHANGED <<file, rows>>

\* Mutant: a sentence beyond the goal leaves an empty group before it.
TakeUnchecked ==
    /\ at \in {"fill", "refill"} /\ next <= Len(spans)
    /\ IF size + Length(next) > goal
       THEN starts' = Append(starts, next) /\ size' = Length(next)
       ELSE size' = size + Length(next) /\ UNCHANGED starts
    /\ next' = next + 1
    /\ UNCHANGED <<at, file, goal, rows>>

\* _greedy_fill_with_merge: a sentence that does not fit opens the next group,
\* unless the current one is empty.
Take ==
    /\ at \in {"fill", "refill"} /\ next <= Len(spans)
    /\ IF size + Length(next) > goal /\ next > Last(starts)
       THEN starts' = Append(starts, next) /\ size' = Length(next)
       ELSE size' = size + Length(next) /\ UNCHANGED starts
    /\ next' = next + 1
    /\ UNCHANGED <<at, file, goal, rows>>

\* Mutant: every last group below the goal is merged.
MergedAlways ==
    IF Len(starts) > 1 /\ size < goal THEN SubSeq(starts, 1, Len(starts) - 1) ELSE starts

\* A last group below half of the goal joins the one before it.
Merged ==
    IF Len(starts) > 1 /\ 2 * size < goal
    THEN SubSeq(starts, 1, Len(starts) - 1) ELSE starts

\* Mutant: the second pass is repeated as long as it collapses.
EndPassAgain ==
    /\ at \in {"fill", "refill"} /\ next = Len(spans) + 1
    /\ IF Len(Merged) = 1 /\ Len(spans) > 1
       THEN /\ at' = "refill"
            /\ goal' = (51 * TotalLength + 99) \div 100
            /\ starts' = <<1>> /\ size' = 0 /\ next' = 1
       ELSE /\ at' = "locate" /\ starts' = Merged
            /\ UNCHANGED <<goal, size, next>>
    /\ UNCHANGED <<file, rows>>

\* If the merge leaves one group, the sentences are distributed once more, with
\* a goal of 51% of the total, rounded up.
EndPass ==
    /\ at \in {"fill", "refill"} /\ next = Len(spans) + 1
    /\ IF at = "fill" /\ Len(Merged) = 1 /\ Len(spans) > 1
       THEN /\ at' = "refill"
            /\ goal' = (51 * TotalLength + 99) \div 100
            /\ starts' = <<1>> /\ size' = 0 /\ next' = 1
       ELSE /\ at' = "locate" /\ starts' = Merged
            /\ UNCHANGED <<goal, size, next>>
    /\ UNCHANGED <<file, rows>>

\* run() passes {"page_offsets": [0]}, which chunk() completes to one page.
PageOffsets == <<0, TextLength>>

Whole ==
    /\ at = "whole"
    /\ rows' = <<[from |-> 0, to |-> TextLength, first |-> 1, last |-> Len(PageOffsets) - 1]>>
    /\ at' = "done"
    /\ UNCHANGED <<file, fill>>

\* Mutant: a chunk ends where the next one starts.
LocateTouching ==
    /\ at = "locate"
    /\ rows' = [k \in DOMAIN starts |->
           LET s == spans[starts[k]].from
               e == IF k < Len(starts) THEN spans[starts[k + 1]].from ELSE Last(spans).to
           IN  [from |-> s, to |-> e, first |-> OffsetToPage(s, PageOffsets),
                last |-> OffsetToPage(e - 1, PageOffsets)]]
    /\ at' = "done"
    /\ UNCHANGED <<file, fill>>

\* A chunk reaches from its first sentence to the end of its last one.
Locate ==
    /\ at = "locate"
    /\ rows' = [k \in DOMAIN starts |->
           LET s == spans[starts[k]].from
               e == spans[GroupEnd(k)].to
           IN  [from |-> s, to |-> e, first |-> OffsetToPage(s, PageOffsets),
                last |-> OffsetToPage(e - 1, PageOffsets)]]
    /\ at' = "done"
    /\ UNCHANGED <<file, fill>>
-----------------------------------------------------------------------------
Next ==
    \/ ReadPage \/ ShiftOffsets \/ ReadText \/ Gate
    \/ Sentence \/ Distribute \/ Take \/ EndPass \/ Whole \/ Locate

Spec == Init /\ [][Next]_vars

\* The functions are sequential: what can be computed is computed.
FairSpec == Spec /\ WF_vars(Next)
-----------------------------------------------------------------------------
Steps == {"read", "gate", "rejected", "whole", "split", "raised", "fill", "refill", "locate", "done"}
Page == [from : Nat, len : Nat]
Span == [from : Nat, to : Nat, sum : Nat]

\* extractors.py:53-55: every character of a page is found on that page by its
\* offset, in spite of the separators that are added after the offsets.
OffsetsFindPages ==
    at # "read" => \A k \in DOMAIN pages : \A o \in pages[k].from .. PageEnd(pages[k]) - 1 :
                       OffsetToPage(o, offsets) = k

\* Each sentence lies in one chunk, whole; the chunks are in the order of the
\* text, do not overlap, and begin and end with a sentence.
ChunksPartition ==
    at = "done" /\ spans # <<>> =>
        /\ \A i \in DOMAIN spans : \E k \in DOMAIN rows :
              rows[k].from <= spans[i].from /\ spans[i].to <= rows[k].to
        /\ \A k \in DOMAIN rows : \E i, j \in DOMAIN spans :
              i <= j /\ rows[k].from = spans[i].from /\ rows[k].to = spans[j].to
        /\ \A k \in 1 .. Len(rows) - 1 : \E i \in DOMAIN spans \ {1} :
              rows[k].to = spans[i - 1].to /\ rows[k + 1].from = spans[i].from

\* A chunk exceeds the target by no more than one sentence that does so alone,
\* or a merged tail below half of the target; only the last one has a tail.
ExcessBounded ==
    at = "locate" =>
        \A k \in DOMAIN starts : \E m \in starts[k] .. GroupEnd(k) :
            /\ m = starts[k] \/ Total(starts[k], m) <= Target
            /\ 2 * Total(m + 1, GroupEnd(k)) < Target
            /\ k < Len(starts) => m = GroupEnd(k)

\* Pages lie in the text one behind the other.  Before the shift page_offsets
\* lack one separator per page, after it they are the ends of the pages.
PagesInv ==
    /\ pages \in Seq(Page) /\ offsets \in Seq(Int) /\ Len(offsets) = Len(pages) + 1
    /\ offsets[1] = 0 /\ (pages # <<>> => pages[1].from = 0)
    /\ \A j, k \in DOMAIN pages : j < k => PageEnd(pages[j]) < pages[k].from
    /\ \A k \in 1 .. Len(pages) - 1 : pages[k + 1].from = PageEnd(pages[k]) + 1
    /\ \A k \in DOMAIN pages :
          offsets[k + 1] = PageEnd(pages[k]) - IF at = "read" THEN k - 1 ELSE 0

\* Sentences are not empty and in the order of the text.
SentencesInv ==
    /\ spans \in Seq(Span)
    /\ at \in {"read", "gate", "whole"} => spans = <<>>
    /\ at \in {"fill", "refill", "locate"} => spans # <<>>
    /\ \A i \in DOMAIN spans : spans[i].from < spans[i].to
    /\ \A i, j \in DOMAIN spans : i < j => spans[i].to <= spans[j].from

\* The sentences that have a group: all before the next one.
Placed == IF at \in {"fill", "refill"} THEN 1 .. next - 1 ELSE DOMAIN spans

Grouped == at \in {"fill", "refill", "locate"} \/ (at = "done" /\ spans # <<>>)

\* Every placed sentence is in a group, no group is empty.
GroupsInv ==
    Grouped =>
        /\ starts \in Seq(Nat \ {0}) /\ starts # <<>> /\ starts[1] = 1
        /\ \A j, k \in DOMAIN starts : j < k => starts[j] < starts[k]
        /\ \A k \in DOMAIN starts : starts[k] <= Len(spans)
        /\ at \in {"fill", "refill"} =>
              /\ next \in 1 .. Len(spans) + 1
              /\ \A k \in DOMAIN starts : starts[k] < next \/ (k = 1 /\ next = 1)
        /\ \A i \in Placed : \E k \in DOMAIN starts :
              starts[k] <= i /\ (k < Len(starts) => i < starts[k + 1])

\* The rows are the groups.
RowsInv ==
    at = "done" /\ spans # <<>> =>
        /\ DOMAIN rows = DOMAIN starts /\ Len(rows) = Len(starts)
        /\ \A k \in DOMAIN rows :
              rows[k].from = spans[starts[k]].from /\ rows[k].to = spans[GroupEnd(k)].to

\* The inductive invariant from which the order of pages and chunks follows.
ChunkingInv == at \in Steps /\ PagesInv /\ SentencesInv /\ GroupsInv /\ RowsInv

\* The sums are those of the sentences' lengths.
SumsInv ==
    /\ \A i \in DOMAIN spans : Upto(i) = Upto(i - 1) + Length(i)
    /\ \A i, j \in 0 .. Len(spans) : i < j => Upto(i) < Upto(j)

\* No pass has a group beyond its goal, but for a sentence alone.  The goal is
\* beyond the target only in a second pass over one long sentence and a short rest.
FillInv ==
    at \in {"fill", "refill"} =>
        /\ goal \in Nat /\ size = Total(Last(starts), next - 1)
        /\ \A k \in 1 .. Len(starts) - 1 :
              starts[k + 1] = starts[k] + 1 \/ Total(starts[k], starts[k + 1] - 1) <= goal
        /\ next <= Last(starts) + 1 \/ size <= goal
        /\ at = "fill" => goal = Target /\ TotalLength > Target
        /\ at = "refill" => goal <= Target \/ (goal < Length(1) /\ 2 * Total(2, Len(spans)) < Target)

\* The second pass may collapse like the first, and still chunking ends.
ChunkingEnds == <>(at \in {"rejected", "raised", "done"})
=============================================================================
