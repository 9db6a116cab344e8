--------------------------- MODULE ChunkingProofs ---------------------------
(***************************************************************************)
(* Pages keep their characters and chunks partition the sentences, for     *)
(* any target, any file and whatever sentences Punkt finds.                *)
(***************************************************************************)
EXTENDS Chunking, SequenceTheorems, TLAPS

\* Nothing is read yet.
LEMMA ChunkingInit == Init => ChunkingInv
<1> SUFFICES ASSUME Init PROVE ChunkingInv
  OBVIOUS
<1>1. at \in Steps
  BY DEF Init, Steps
<1>2. PagesInv
  BY DEF Init, PagesInv
<1>3. SentencesInv
  BY DEF Init, SentencesInv
<1>4. GroupsInv /\ RowsInv
  BY DEF Init, GroupsInv, RowsInv, Grouped
<1> QED
  BY <1>1, <1>2, <1>3, <1>4 DEF ChunkingInv

\* What the invariant says of the elements of the two sequences.
LEMMA PageFacts ==
    ASSUME PagesInv
    PROVE  /\ Len(pages) \in Nat /\ DOMAIN pages = 1 .. Len(pages)
           /\ DOMAIN offsets = 1 .. Len(pages) + 1
           /\ \A k \in DOMAIN pages :
                 /\ pages[k].from \in Nat /\ pages[k].len \in Nat
                 /\ PageEnd(pages[k]) = pages[k].from + pages[k].len
           /\ \A k \in DOMAIN offsets : offsets[k] \in Int
<1>1. pages \in Seq(Page) /\ offsets \in Seq(Int) /\ Len(offsets) = Len(pages) + 1
  BY DEF PagesInv
<1>2. \A k \in DOMAIN pages : pages[k] \in Page
  BY <1>1
<1> QED
  BY <1>1, <1>2 DEF Page, PageEnd

\* The text ends where its last page does, behind all the others.
LEMMA TextEnd ==
    ASSUME PagesInv
    PROVE  /\ TextLength \in Nat
           /\ \A k \in DOMAIN pages : PageEnd(pages[k]) <= TextLength
<1>1. CASE pages = <<>>
  BY <1>1 DEF TextLength
<1>2. CASE pages # <<>>
  <2>1. Len(pages) \in DOMAIN pages
    BY <1>2 DEF PagesInv
  <2>2. TextLength = PageEnd(pages[Len(pages)])
    BY <1>2 DEF TextLength, Last
  <2>3. ASSUME NEW k \in DOMAIN pages PROVE PageEnd(pages[k]) <= TextLength
    <3>1. CASE k = Len(pages)
      BY <3>1, <2>1, <2>2, PageFacts
    <3>2. CASE k < Len(pages)
      <4>1. PageEnd(pages[k]) < pages[Len(pages)].from
        BY <3>2, <2>1 DEF PagesInv
      <4> QED
        BY <4>1, <2>1, <2>2, PageFacts
    <3> QED
      BY <3>1, <3>2, PageFacts
  <2> QED
    BY <2>1, <2>2, <2>3, PageFacts
<1> QED
  BY <1>1, <1>2

\* A page is put behind the text; its end is the old end, a separator unless it
\* is the first page, and its length.
LEMMA ReadPageKeeps ==
    ASSUME ChunkingInv, ReadPage
    PROVE  ChunkingInv'
<1> DEFINE from == IF pages = <<>> THEN 0 ELSE TextLength + 1
<1>1. PICK l \in 0 .. MaxPageLength :
          /\ pages' = Append(pages, [len |-> l, from |-> from])
          /\ offsets' = Append(offsets, Last(offsets) + l)
  BY DEF ReadPage
<1>2. /\ at = "read" /\ at' = "read" /\ spans' = spans
      /\ UNCHANGED <<starts, size, next, goal, rows>>
  BY DEF ReadPage, fill
<1>3. /\ TextLength \in Nat
      /\ \A k \in DOMAIN pages : PageEnd(pages[k]) <= TextLength
  BY TextEnd DEF ChunkingInv
<1>4. l \in Nat
  BY FileAssumption
<1>5. [len |-> l, from |-> from] \in Page
  BY <1>3, <1>4 DEF Page
<1>6. PagesInv'
  <2> DEFINE p == [len |-> l, from |-> from]
  <2>1. PagesInv
    BY DEF ChunkingInv
  <2>2. /\ pages' \in Seq(Page) /\ Len(pages') = Len(pages) + 1
        /\ \A k \in DOMAIN pages : pages'[k] = pages[k]
        /\ pages'[Len(pages) + 1] = p
        /\ DOMAIN pages' = 1 .. Len(pages) + 1 /\ DOMAIN pages = 1 .. Len(pages)
    BY <1>1, <1>5, <2>1 DEF PagesInv
  <2>3. Last(offsets) \in Int /\ Last(offsets) = offsets[Len(pages) + 1]
    BY <2>1 DEF PagesInv, Last
  <2>4. /\ offsets' \in Seq(Int) /\ Len(offsets') = Len(pages) + 2
        /\ \A k \in 1 .. Len(pages) + 1 : offsets'[k] = offsets[k]
        /\ offsets'[Len(pages) + 2] = offsets[Len(pages) + 1] + l
    BY <1>1, <1>4, <2>1, <2>3 DEF PagesInv
  <2>5. pages # <<>> => TextLength = PageEnd(pages[Len(pages)])
    BY DEF TextLength, Last
  <2>6. \A j \in DOMAIN pages : PageEnd(pages[j]) < from
    BY <1>3, <2>1, PageFacts
  <2>7. offsets'[Len(pages) + 2] = PageEnd(p) - Len(pages)
    <3>1. CASE pages = <<>>
      BY <3>1, <1>4, <2>1, <2>4 DEF PagesInv, PageEnd
    <3>2. CASE pages # <<>>
      <4>1. Len(pages) \in DOMAIN pages
        BY <3>2, <2>1 DEF PagesInv
      <4>2. offsets[Len(pages) + 1] = TextLength - (Len(pages) - 1)
        BY <4>1, <3>2, <2>1, <2>5, <1>2 DEF PagesInv
      <4> QED
        BY <4>1, <4>2, <3>2, <1>3, <1>4, <2>4 DEF PageEnd
    <3> QED
      BY <3>1, <3>2
  <2>8. /\ \A j, k \in DOMAIN pages' : j < k => PageEnd(pages'[j]) < pages'[k].from
    <3> SUFFICES ASSUME NEW j \in DOMAIN pages', NEW k \in DOMAIN pages', j < k
                 PROVE  PageEnd(pages'[j]) < pages'[k].from
      OBVIOUS
    <3>1. j \in DOMAIN pages /\ pages'[j] = pages[j]
      BY <2>1, <2>2, PageFacts
    <3>2. CASE k \in DOMAIN pages
      BY <3>1, <3>2, <2>1, <2>2 DEF PagesInv
    <3>3. CASE k = Len(pages) + 1
      BY <3>1, <3>3, <2>2, <2>6
    <3> QED
      BY <3>2, <3>3, <2>1, <2>2, PageFacts
  <2>9. \A k \in 1 .. Len(pages') - 1 : pages'[k + 1].from = PageEnd(pages'[k]) + 1
    <3> SUFFICES ASSUME NEW k \in 1 .. Len(pages)
                 PROVE  pages'[k + 1].from = PageEnd(pages'[k]) + 1
      BY <2>2
    <3>1. CASE k < Len(pages)
      <4>1. /\ k \in 1 .. Len(pages) - 1 /\ k \in DOMAIN pages /\ k + 1 \in DOMAIN pages
        BY <3>1, <2>1, PageFacts
      <4>2. pages'[k] = pages[k] /\ pages'[k + 1] = pages[k + 1]
        BY <4>1, <2>2
      <4> QED
        BY <4>1, <4>2, <2>1 DEF PagesInv
    <3>2. CASE k = Len(pages)
      <4>1. pages # <<>> /\ k \in DOMAIN pages
        BY <3>2, <2>1, PageFacts
      <4>2. pages'[k] = pages[k] /\ pages'[k + 1] = p
        BY <4>1, <3>2, <2>2
      <4> QED
        BY <4>1, <4>2, <3>2, <2>5
    <3> QED
      BY <3>1, <3>2, <2>1, PageFacts
  <2>10. \A k \in DOMAIN pages' : offsets'[k + 1] = PageEnd(pages'[k]) - (k - 1)
    <3> SUFFICES ASSUME NEW k \in 1 .. Len(pages) + 1
                 PROVE  offsets'[k + 1] = PageEnd(pages'[k]) - (k - 1)
      BY <2>2
    <3>1. CASE k \in DOMAIN pages
      BY <3>1, <1>2, <2>1, <2>2, <2>4 DEF PagesInv
    <3>2. CASE k = Len(pages) + 1
      BY <3>2, <2>1, <2>2, <2>7 DEF PagesInv
    <3> QED
      BY <3>1, <3>2, <2>1, <2>2 DEF PagesInv
  <2>11. offsets'[1] = 0 /\ pages'[1].from = 0
    <3>1. offsets'[1] = 0
      BY <2>1, <2>4, PageFacts DEF PagesInv
    <3>2. ASSUME pages = <<>> PROVE pages'[1].from = 0
      <4>1. Len(pages) + 1 = 1 /\ from = 0
        BY <3>2
      <4>2. pages'[1] = p
        BY <4>1, <2>2
      <4> QED
        BY <4>1, <4>2
    <3>3. ASSUME pages # <<>> PROVE pages'[1].from = 0
      <4>1. 1 \in DOMAIN pages
        BY <3>3, <2>1, PageFacts DEF PagesInv
      <4>2. pages'[1] = pages[1]
        BY <4>1, <2>2
      <4> QED
        BY <4>2, <3>3, <2>1 DEF PagesInv
    <3> QED
      BY <3>1, <3>2, <3>3
  <2> QED
    BY <1>2, <2>1, <2>2, <2>4, <2>8, <2>9, <2>10, <2>11 DEF PagesInv
<1>7. SentencesInv' /\ GroupsInv' /\ RowsInv'
  BY <1>2 DEF ChunkingInv, SentencesInv, GroupsInv, RowsInv, Grouped
<1> QED
  BY <1>2, <1>6, <1>7 DEF ChunkingInv

\* The shift turns the offsets into the ends of the pages.
LEMMA ShiftKeeps ==
    ASSUME ChunkingInv, ShiftOffsets
    PROVE  ChunkingInv'
<1>1. /\ at = "read" /\ at' = "gate"
      /\ UNCHANGED <<pages, spans, starts, size, next, goal, rows>>
      /\ offsets' = [k \in DOMAIN offsets |-> IF k >= 3 THEN offsets[k] + k - 2 ELSE offsets[k]]
  BY DEF ShiftOffsets, fill
<1>2. PagesInv'
  <2>1. PagesInv
    BY DEF ChunkingInv
  <2>2. DOMAIN offsets = 1 .. Len(pages) + 1 /\ \A k \in DOMAIN offsets : offsets[k] \in Int
    BY <2>1 DEF PagesInv
  <2>3. offsets' \in Seq(Int) /\ Len(offsets') = Len(pages) + 1
    BY <1>1, <2>1, <2>2 DEF PagesInv
  <2>4. \A k \in DOMAIN pages : offsets'[k + 1] = PageEnd(pages[k])
    <3> SUFFICES ASSUME NEW k \in DOMAIN pages PROVE offsets'[k + 1] = PageEnd(pages[k])
      OBVIOUS
    <3>1. k \in 1 .. Len(pages) /\ pages[k] \in Page
      BY <2>1 DEF PagesInv
    <3>2. offsets[k + 1] = PageEnd(pages[k]) - (k - 1) /\ k + 1 \in DOMAIN offsets
      BY <1>1, <2>1, <2>2, <3>1 DEF PagesInv
    <3> QED
      BY <1>1, <3>1, <3>2 DEF PageEnd, Page
  <2>5. offsets'[1] = 0
    BY <1>1, <2>1, <2>2 DEF PagesInv
  <2>6. \A k \in DOMAIN pages : PageEnd(pages[k]) \in Int
    BY <2>1, PageFacts
  <2>7. \A k \in DOMAIN pages' :
            offsets'[k + 1] = PageEnd(pages'[k]) - IF at' = "read" THEN k - 1 ELSE 0
    <3> SUFFICES ASSUME NEW k \in DOMAIN pages
                 PROVE  offsets'[k + 1] = PageEnd(pages[k]) - 0
      BY <1>1
    <3> QED
      BY <2>4, <2>6
  <2>8. /\ \A j, k \in DOMAIN pages' : j < k => PageEnd(pages'[j]) < pages'[k].from
        /\ \A k \in 1 .. Len(pages') - 1 : pages'[k + 1].from = PageEnd(pages'[k]) + 1
        /\ pages' # <<>> => pages'[1].from = 0
        /\ pages' \in Seq(Page)
    BY <1>1, <2>1 DEF PagesInv
  <2> QED
    BY <1>1, <2>3, <2>5, <2>7, <2>8 DEF PagesInv
<1>3. SentencesInv' /\ GroupsInv' /\ RowsInv'
  BY <1>1 DEF ChunkingInv, SentencesInv, GroupsInv, RowsInv, Grouped
<1> QED
  BY <1>1, <1>2, <1>3 DEF ChunkingInv, Steps

\* A plain text is one page.
LEMMA ReadTextKeeps ==
    ASSUME ChunkingInv, ReadText
    PROVE  ChunkingInv'
<1>1. PICK l \in 0 .. MaxPages * (MaxPageLength + 1) :
          pages' = <<[from |-> 0, len |-> l]>> /\ offsets' = <<0, l>>
  BY DEF ReadText
<1>2. /\ at = "read" /\ at' \in {"whole", "split"}
      /\ UNCHANGED <<spans, starts, size, next, goal, rows>>
  BY DEF ReadText, fill
<1>3. l \in Nat
  BY FileAssumption
<1>4. PagesInv'
  <2>1. [from |-> 0, len |-> l] \in Page
    BY <1>3 DEF Page
  <2>2. pages' \in Seq(Page) /\ Len(pages') = 1 /\ pages'[1] = [from |-> 0, len |-> l]
    BY <1>1, <2>1
  <2>3. offsets' \in Seq(Int) /\ Len(offsets') = 2 /\ offsets'[1] = 0 /\ offsets'[2] = l
    BY <1>1, <1>3
  <2> QED
    BY <1>2, <1>3, <2>2, <2>3 DEF PagesInv, PageEnd
<1>5. SentencesInv' /\ GroupsInv' /\ RowsInv'
  BY <1>2 DEF ChunkingInv, SentencesInv, GroupsInv, RowsInv, Grouped
<1> QED
  BY <1>2, <1>4, <1>5 DEF ChunkingInv, Steps

\* The gate only decides where the file goes.
LEMMA GateKeeps ==
    ASSUME ChunkingInv, Gate
    PROVE  ChunkingInv'
<1>1. /\ at = "gate" /\ at' \in {"whole", "split", "rejected"}
      /\ UNCHANGED <<pages, offsets, spans, starts, size, next, goal, rows>>
  BY DEF Gate, Onward, file, fill
<1>2. PagesInv'
  BY <1>1 DEF ChunkingInv, PagesInv
<1>3. SentencesInv' /\ GroupsInv' /\ RowsInv'
  BY <1>1 DEF ChunkingInv, SentencesInv, GroupsInv, RowsInv, Grouped
<1> QED
  BY <1>1, <1>2, <1>3 DEF ChunkingInv, Steps

\* What the invariant says of the elements of spans.
LEMMA SpanFacts ==
    ASSUME SentencesInv
    PROVE  /\ Len(spans) \in Nat /\ DOMAIN spans = 1 .. Len(spans)
           /\ \A i \in DOMAIN spans : /\ spans[i].from \in Nat /\ spans[i].to \in Nat
                                   /\ spans[i].sum \in Nat
<1>1. spans \in Seq(Span)
  BY DEF SentencesInv
<1>2. \A i \in DOMAIN spans : spans[i] \in Span
  BY <1>1
<1> QED
  BY <1>1, <1>2 DEF Span

\* A sentence is not empty and begins no earlier than the last one ends.
LEMMA SentenceKeeps ==
    ASSUME ChunkingInv, Sentence
    PROVE  ChunkingInv'
<1>1. PICK s, e \in 0 .. TextLength :
          /\ spans # <<>> => s >= Last(spans).to
          /\ s < e
          /\ spans' = Append(spans, [from |-> s, to |-> e, sum |-> Upto(Len(spans)) + e - s])
  BY DEF Sentence
<1>2. /\ at = "split" /\ at' = "split"
      /\ UNCHANGED <<pages, offsets, starts, size, next, goal, rows>>
  BY DEF Sentence, fill
<1>3. s \in Nat /\ e \in Nat
  BY TextEnd DEF ChunkingInv
<1>4. SentencesInv'
  <2> DEFINE new == [from |-> s, to |-> e, sum |-> Upto(Len(spans)) + e - s]
  <2>0. Upto(Len(spans)) \in Nat
    BY SpanFacts DEF ChunkingInv, Upto
  <2>1. spans \in Seq(Span) /\ new \in Span
    BY <1>1, <1>3, <2>0 DEF ChunkingInv, SentencesInv, Span
  <2>2. /\ spans' \in Seq(Span) /\ DOMAIN spans' = 1 .. Len(spans) + 1
        /\ DOMAIN spans = 1 .. Len(spans)
        /\ \A i \in DOMAIN spans : spans'[i] = spans[i]
        /\ spans'[Len(spans) + 1] = new
    BY <1>1, <2>1
  <2>3. \A i \in DOMAIN spans' : spans'[i].from < spans'[i].to
    BY <1>1, <2>2 DEF ChunkingInv, SentencesInv
  <2>4. \A i \in DOMAIN spans : spans[i].to <= s
    <3> SUFFICES ASSUME NEW i \in DOMAIN spans PROVE spans[i].to <= s
      OBVIOUS
    <3>1. Len(spans) \in DOMAIN spans /\ spans[Len(spans)].to <= s
      BY <1>1, <2>1 DEF Last
    <3>2. spans[i] \in Span /\ spans[Len(spans)] \in Span
      BY <2>1, <3>1
    <3>3. i = Len(spans) \/ i < Len(spans)
      BY <2>1
    <3>4. i < Len(spans) => spans[i].to <= spans[Len(spans)].from
      BY <3>1 DEF ChunkingInv, SentencesInv
    <3>5. spans[Len(spans)].from < spans[Len(spans)].to
      BY <3>1 DEF ChunkingInv, SentencesInv
    <3> QED
      BY <1>3, <3>1, <3>2, <3>3, <3>4, <3>5 DEF Span
  <2>5. \A i, j \in DOMAIN spans' : i < j => spans'[i].to <= spans'[j].from
    BY <2>2, <2>4 DEF ChunkingInv, SentencesInv
  <2> QED
    BY <1>2, <2>2, <2>3, <2>5 DEF SentencesInv
<1>5. PagesInv'
  BY <1>2 DEF ChunkingInv, PagesInv
<1>6. GroupsInv' /\ RowsInv'
  BY <1>2 DEF GroupsInv, RowsInv, Grouped
<1> QED
  BY <1>2, <1>4, <1>5, <1>6 DEF ChunkingInv

\* What the invariant says of the elements of starts.
LEMMA GroupFacts ==
    ASSUME GroupsInv, Grouped, SentencesInv
    PROVE  /\ Len(starts) \in Nat \ {0} /\ DOMAIN starts = 1 .. Len(starts)
           /\ \A k \in DOMAIN starts : starts[k] \in Nat \ {0} /\ starts[k] \in DOMAIN spans
<1>1. starts \in Seq(Nat \ {0}) /\ starts # <<>>
  BY DEF GroupsInv
<1>2. \A k \in DOMAIN starts : starts[k] <= Len(spans)
  BY DEF GroupsInv
<1>3. Len(starts) \in Nat \ {0} /\ DOMAIN starts = 1 .. Len(starts)
  BY <1>1
<1>4. \A k \in DOMAIN starts : starts[k] \in Nat \ {0}
  BY <1>1
<1> QED
  BY <1>2, <1>3, <1>4, SpanFacts

\* The first group begins with the first sentence.
LEMMA DistributeKeeps ==
    ASSUME ChunkingInv, Distribute
    PROVE  ChunkingInv'
<1>1. /\ at = "split" /\ starts' = <<1>>
      /\ UNCHANGED <<pages, offsets, spans, rows>>
      /\ \/ at' = "raised"
         \/ at' = "locate" /\ spans # <<>>
         \/ at' = "fill" /\ spans # <<>> /\ next' = 1
  BY DEF Distribute, file
<1>2. PagesInv'
  BY <1>1 DEF ChunkingInv, PagesInv
<1>3. SentencesInv' /\ RowsInv'
  BY <1>1 DEF ChunkingInv, SentencesInv, RowsInv
<1>4. GroupsInv'
  <2> SUFFICES ASSUME spans # <<>> PROVE GroupsInv'
    BY <1>1 DEF GroupsInv, Grouped
  <2>1. Len(spans) \in Nat \ {0} /\ DOMAIN spans = 1 .. Len(spans)
    BY DEF ChunkingInv, SentencesInv
  <2>2. /\ starts' \in Seq(Nat \ {0}) /\ starts' # <<>>
        /\ Len(starts') = 1 /\ DOMAIN starts' = {1} /\ starts'[1] = 1
    BY <1>1
  <2> QED
    BY <1>1, <2>1, <2>2 DEF GroupsInv, Placed
<1> QED
  BY <1>1, <1>2, <1>3, <1>4 DEF ChunkingInv, Steps

\* The next sentence joins the last group, or opens one behind it.
LEMMA TakeKeeps ==
    ASSUME ChunkingInv, Take
    PROVE  ChunkingInv'
<1>1. /\ at \in {"fill", "refill"} /\ at' = at /\ next <= Len(spans) /\ next' = next + 1
      /\ UNCHANGED <<pages, offsets, spans, rows>>
      /\ \/ next > Last(starts) /\ starts' = Append(starts, next)
         \/ starts' = starts
  BY DEF Take, file
<1>2. PagesInv'
  BY <1>1 DEF ChunkingInv, PagesInv
<1>3. SentencesInv' /\ RowsInv'
  BY <1>1 DEF ChunkingInv, SentencesInv, RowsInv
<1>4. GroupsInv /\ Grouped /\ SentencesInv
  BY <1>1 DEF ChunkingInv, Grouped
<1>5. /\ Len(spans) \in Nat /\ DOMAIN spans = 1 .. Len(spans)
      /\ Len(starts) \in Nat \ {0} /\ DOMAIN starts = 1 .. Len(starts)
      /\ \A k \in DOMAIN starts : starts[k] \in Nat \ {0} /\ starts[k] \in DOMAIN spans
  BY <1>4, SpanFacts, GroupFacts
<1>6. /\ starts \in Seq(Nat \ {0}) /\ starts[1] = 1
      /\ next \in 1 .. Len(spans) + 1
      /\ \A j, k \in DOMAIN starts : j < k => starts[j] < starts[k]
      /\ \A k \in DOMAIN starts : starts[k] < next \/ (k = 1 /\ next = 1)
      /\ \A i \in 1 .. next - 1 : \E k \in DOMAIN starts :
            starts[k] <= i /\ (k < Len(starts) => i < starts[k + 1])
  BY <1>1, <1>4 DEF GroupsInv, Placed
<1>7. GroupsInv'
  <2>1. CASE starts' = starts
    <3>1. \A i \in 1 .. next : \E k \in DOMAIN starts :
              starts[k] <= i /\ (k < Len(starts) => i < starts[k + 1])
      <4> SUFFICES ASSUME NEW i \in 1 .. next
                   PROVE  \E k \in DOMAIN starts :
                              starts[k] <= i /\ (k < Len(starts) => i < starts[k + 1])
        OBVIOUS
      <4>1. CASE i = next
        <5>1. Len(starts) \in DOMAIN starts
          BY <1>5
        <5>2. starts[Len(starts)] < next \/ (Len(starts) = 1 /\ next = 1)
          BY <5>1, <1>6
        <5>3. starts[Len(starts)] <= next
          BY <5>1, <5>2, <1>5, <1>6
        <5> QED
          BY <4>1, <5>1, <5>3, <1>5
      <4>2. CASE i \in 1 .. next - 1
        BY <4>2, <1>6
      <4> QED
        BY <4>1, <4>2, <1>6
    <3>2. \A k \in DOMAIN starts : starts[k] < next + 1
      BY <1>5, <1>6
    <3> QED
      BY <1>1, <1>5, <1>6, <2>1, <3>1, <3>2 DEF GroupsInv, Placed
  <2>2. CASE next > Last(starts) /\ starts' = Append(starts, next)
    <3> DEFINE n == Len(starts)
    <3>1. /\ starts' \in Seq(Nat \ {0}) /\ Len(starts') = n + 1 /\ DOMAIN starts' = 1 .. n + 1
          /\ \A k \in DOMAIN starts : starts'[k] = starts[k]
          /\ starts'[n + 1] = next
      BY <2>2, <1>5, <1>6
    <3>2. starts[n] < next
      BY <2>2, <1>5 DEF Last
    <3>3. \A k \in DOMAIN starts : starts[k] < next
      BY <3>2, <1>5, <1>6
    <3>4. \A j, k \in DOMAIN starts' : j < k => starts'[j] < starts'[k]
      <4> SUFFICES ASSUME NEW j \in 1 .. n + 1, NEW k \in 1 .. n + 1, j < k
                   PROVE  starts'[j] < starts'[k]
        BY <3>1
      <4>1. j \in DOMAIN starts /\ (k \in DOMAIN starts \/ k = n + 1)
        BY <1>5
      <4> QED
        BY <4>1, <3>1, <3>3, <1>6
    <3>5. \A k \in DOMAIN starts' : starts'[k] <= Len(spans) /\ starts'[k] < next + 1
      <4> SUFFICES ASSUME NEW k \in 1 .. n + 1
                   PROVE  starts'[k] <= Len(spans) /\ starts'[k] < next + 1
        BY <3>1
      <4>1. CASE k = n + 1
        BY <4>1, <3>1, <1>1, <1>6
      <4>2. CASE k \in DOMAIN starts
        BY <4>2, <3>1, <3>3, <1>1, <1>5, <1>6
      <4> QED
        BY <4>1, <4>2, <1>5
    <3>6. \A i \in 1 .. next : \E k \in DOMAIN starts' :
              starts'[k] <= i /\ (k < Len(starts') => i < starts'[k + 1])
      <4> SUFFICES ASSUME NEW i \in 1 .. next
                   PROVE  \E k \in DOMAIN starts' :
                              starts'[k] <= i /\ (k < Len(starts') => i < starts'[k + 1])
        OBVIOUS
      <4>1. CASE i = next
        <5>1. n + 1 \in DOMAIN starts' /\ starts'[n + 1] <= i
          BY <4>1, <3>1, <1>5, <1>6
        <5>2. ~(n + 1 < Len(starts'))
          BY <3>1, <1>5
        <5> QED
          BY <5>1, <5>2
      <4>2. CASE i \in 1 .. next - 1
        <5>1. PICK k \in DOMAIN starts :
                  starts[k] <= i /\ (k < Len(starts) => i < starts[k + 1])
          BY <4>2, <1>6
        <5>2. k \in DOMAIN starts' /\ starts'[k] <= i
          BY <5>1, <3>1, <1>5
        <5>3. CASE k < n
          <6>1. k + 1 \in DOMAIN starts
            BY <5>1, <5>3, <1>5
          <6> QED
            BY <5>1, <5>2, <5>3, <6>1, <3>1
        <5>4. CASE k = n
          <6>1. starts'[k + 1] = next /\ i < next
            BY <5>4, <3>1, <4>2, <1>6
          <6> QED
            BY <6>1, <5>2
        <5> QED
          BY <5>1, <5>3, <5>4, <1>5
      <4> QED
        BY <4>1, <4>2, <1>6
    <3>7. starts' # <<>> /\ starts'[1] = 1
      BY <3>1, <1>5, <1>6
    <3> QED
      BY <1>1, <1>6, <3>1, <3>4, <3>5, <3>6, <3>7 DEF GroupsInv, Placed
  <2> QED
    BY <1>1, <2>1, <2>2
<1> QED
  BY <1>1, <1>2, <1>3, <1>7 DEF ChunkingInv

\* A pass ends with every sentence in a group; a merged tail stays in one.
LEMMA EndPassKeeps ==
    ASSUME ChunkingInv, EndPass
    PROVE  ChunkingInv'
<1>1. /\ at \in {"fill", "refill"} /\ next = Len(spans) + 1
      /\ UNCHANGED <<pages, offsets, spans, rows>>
      /\ \/ at' = "refill" /\ starts' = <<1>> /\ next' = 1
         \/ at' = "locate" /\ starts' = Merged
  BY DEF EndPass, file
<1>2. PagesInv'
  BY <1>1 DEF ChunkingInv, PagesInv
<1>3. SentencesInv' /\ RowsInv'
  BY <1>1 DEF ChunkingInv, SentencesInv, RowsInv
<1>4. GroupsInv /\ Grouped /\ SentencesInv
  BY <1>1 DEF ChunkingInv, Grouped
<1>5. /\ Len(spans) \in Nat \ {0} /\ DOMAIN spans = 1 .. Len(spans)
      /\ Len(starts) \in Nat \ {0} /\ DOMAIN starts = 1 .. Len(starts)
      /\ \A k \in DOMAIN starts : starts[k] \in Nat \ {0} /\ starts[k] \in DOMAIN spans
  BY <1>1, <1>4, SpanFacts, GroupFacts DEF SentencesInv
<1>6. /\ starts \in Seq(Nat \ {0}) /\ starts # <<>> /\ starts[1] = 1
      /\ \A j, k \in DOMAIN starts : j < k => starts[j] < starts[k]
      /\ \A i \in 1 .. Len(spans) : \E k \in DOMAIN starts :
            starts[k] <= i /\ (k < Len(starts) => i < starts[k + 1])
  BY <1>1, <1>4, <1>5 DEF GroupsInv, Placed
<1>7. GroupsInv'
  <2>1. CASE at' = "refill" /\ starts' = <<1>> /\ next' = 1
    <3>1. /\ starts' \in Seq(Nat \ {0}) /\ starts' # <<>>
          /\ Len(starts') = 1 /\ DOMAIN starts' = {1} /\ starts'[1] = 1
      BY <2>1
    <3> QED
      BY <1>1, <1>5, <2>1, <3>1 DEF GroupsInv, Placed
  <2>2. CASE at' = "locate" /\ starts' = starts
    BY <1>1, <1>5, <1>6, <2>2 DEF GroupsInv, Placed
  <2>3. CASE /\ at' = "locate" /\ Len(starts) > 1
             /\ starts' = SubSeq(starts, 1, Len(starts) - 1)
    <3> DEFINE n == Len(starts)
    <3>1. /\ starts' \in Seq(Nat \ {0}) /\ Len(starts') = n - 1 /\ DOMAIN starts' = 1 .. n - 1
          /\ \A k \in 1 .. n - 1 : starts'[k] = starts[k]
      BY <2>3, <1>5, <1>6
    <3>2. \A i \in 1 .. Len(spans) : \E k \in DOMAIN starts' :
              starts'[k] <= i /\ (k < Len(starts') => i < starts'[k + 1])
      <4> SUFFICES ASSUME NEW i \in 1 .. Len(spans)
                   PROVE  \E k \in DOMAIN starts' :
                              starts'[k] <= i /\ (k < Len(starts') => i < starts'[k + 1])
        OBVIOUS
      <4>1. PICK k \in DOMAIN starts :
                starts[k] <= i /\ (k < Len(starts) => i < starts[k + 1])
        BY <1>6
      <4>2. CASE k = n
        <5>0. n - 1 \in DOMAIN starts /\ n \in DOMAIN starts /\ n - 1 < n
          BY <2>3, <1>5
        <5>1. n - 1 \in DOMAIN starts /\ starts[n - 1] < starts[n]
          BY <5>0, <1>6
        <5>2. n - 1 \in DOMAIN starts' /\ starts'[n - 1] <= i
          BY <4>1, <4>2, <5>1, <2>3, <3>1, <1>5
        <5> QED
          BY <5>2, <3>1
      <4>3. CASE k < n
        <5>1. k \in DOMAIN starts' /\ starts'[k] <= i
          BY <4>1, <4>3, <3>1, <1>5
        <5>2. ASSUME k < Len(starts') PROVE i < starts'[k + 1]
          <6>1. k + 1 \in 1 .. n - 1
            BY <5>2, <3>1, <1>5
          <6> QED
            BY <6>1, <4>1, <4>3, <3>1
        <5> QED
          BY <5>1, <5>2
      <4> QED
        BY <4>2, <4>3, <1>5
    <3>3. \A j, k \in DOMAIN starts' : j < k => starts'[j] < starts'[k]
      <4> SUFFICES ASSUME NEW j \in 1 .. n - 1, NEW k \in 1 .. n - 1, j < k
                   PROVE  starts'[j] < starts'[k]
        BY <3>1
      <4>1. j \in DOMAIN starts /\ k \in DOMAIN starts
        BY <1>5
      <4>2. starts[j] < starts[k]
        BY <4>1, <1>6
      <4> QED
        BY <4>2, <3>1
    <3>4. \A k \in DOMAIN starts' : starts'[k] <= Len(spans)
      BY <3>1, <1>5
    <3>5. starts' # <<>> /\ starts'[1] = 1
      BY <2>3, <3>1, <1>5, <1>6
    <3> QED
      BY <1>1, <1>5, <2>3, <3>1, <3>2, <3>3, <3>4, <3>5 DEF GroupsInv, Placed
  <2> QED
    BY <1>1, <2>1, <2>2, <2>3 DEF Merged
<1> QED
  BY <1>1, <1>2, <1>3, <1>7 DEF ChunkingInv, Steps

\* A short text is a row without sentences.
LEMMA WholeKeeps ==
    ASSUME ChunkingInv, Whole
    PROVE  ChunkingInv'
<1>1. /\ at = "whole" /\ at' = "done"
      /\ UNCHANGED <<pages, offsets, spans, starts, next>>
  BY DEF Whole, file, fill
<1>2. PagesInv'
  BY <1>1 DEF ChunkingInv, PagesInv
<1>3. SentencesInv' /\ GroupsInv' /\ RowsInv'
  BY <1>1 DEF ChunkingInv, SentencesInv, GroupsInv, RowsInv, Grouped
<1> QED
  BY <1>1, <1>2, <1>3 DEF ChunkingInv, Steps

\* Each group becomes a row.
LEMMA LocateKeeps ==
    ASSUME ChunkingInv, Locate
    PROVE  ChunkingInv'
<1>1. /\ at = "locate" /\ at' = "done"
      /\ UNCHANGED <<pages, offsets, spans, starts, next>>
  BY DEF Locate, file, fill
<1>2. PagesInv'
  BY <1>1 DEF ChunkingInv, PagesInv
<1>3. SentencesInv'
  BY <1>1 DEF ChunkingInv, SentencesInv
<1>4. GroupsInv'
  BY <1>1 DEF ChunkingInv, SentencesInv, GroupsInv, Grouped, Placed
<1>5. RowsInv'
  <2>1. DOMAIN rows' = DOMAIN starts
    BY DEF Locate
  <2>2. \A k \in DOMAIN starts :
            rows'[k].from = spans[starts[k]].from /\ rows'[k].to = spans[GroupEnd(k)].to
    BY DEF Locate
  <2>3. Len(starts) \in Nat /\ DOMAIN starts = 1 .. Len(starts)
    BY <1>1, GroupFacts DEF ChunkingInv, Grouped
  <2>4. Len(rows') = Len(starts)
    BY <2>1, <2>3
  <2>5. \A k \in DOMAIN starts : GroupEnd(k)' = GroupEnd(k)
    BY <1>1 DEF GroupEnd
  <2> QED
    BY <1>1, <2>1, <2>2, <2>4, <2>5 DEF RowsInv
<1> QED
  BY <1>1, <1>2, <1>3, <1>4, <1>5 DEF ChunkingInv, Steps

\* Every step of a file keeps the invariant.
LEMMA ChunkingStep == ChunkingInv /\ [Next]_vars => ChunkingInv'
<1> SUFFICES ASSUME ChunkingInv, [Next]_vars PROVE ChunkingInv'
  OBVIOUS
<1>1. CASE UNCHANGED vars
  BY <1>1 DEF vars, ChunkingInv, PagesInv, SentencesInv, GroupsInv, RowsInv, Grouped, Placed,
              GroupEnd
<1>2. CASE Next
  BY <1>2, ReadPageKeeps, ShiftKeeps, ReadTextKeeps, GateKeeps, SentenceKeeps,
     DistributeKeeps, TakeKeeps, EndPassKeeps, WholeKeeps, LocateKeeps DEF Next
<1> QED
  BY <1>1, <1>2

\* From extraction to the rows: pages, sentences and groups stay in order.
THEOREM ChunkingSafe == Spec => []ChunkingInv
<1> QED
  BY ChunkingInit, ChunkingStep, PTL DEF Spec

\* Page offsets that are the ends of the pages find the page of a character.
LEMMA PagesFound == ChunkingInv => OffsetsFindPages
<1> SUFFICES ASSUME ChunkingInv, at # "read",
                    NEW k \in DOMAIN pages,
                    NEW o \in pages[k].from .. PageEnd(pages[k]) - 1
             PROVE  OffsetToPage(o, offsets) = k
  BY DEF OffsetsFindPages
<1> DEFINE Holds(j) == offsets[j] <= o /\ o < offsets[j + 1]
<1>1. PagesInv /\ k \in 1 .. Len(pages) /\ Len(pages) \in Nat
  BY PageFacts DEF ChunkingInv
<1>2. \A j \in DOMAIN pages :
          /\ offsets[j + 1] = PageEnd(pages[j])
          /\ PageEnd(pages[j]) \in Int /\ pages[j].from \in Nat
  <2> SUFFICES ASSUME NEW j \in DOMAIN pages
               PROVE  /\ offsets[j + 1] = PageEnd(pages[j]) - 0
                      /\ PageEnd(pages[j]) \in Int /\ pages[j].from \in Nat
    OBVIOUS
  <2>1. PageEnd(pages[j]) \in Int /\ pages[j].from \in Nat
    BY <1>1, PageFacts
  <2> QED
    BY <2>1, <1>1 DEF PagesInv
<1>3. o \in Int /\ pages[k].from <= o /\ o < PageEnd(pages[k])
  BY <1>1, <1>2
<1>4. Holds(k)
  <2>1. CASE k = 1
    <3>1. offsets[1] = 0
      BY <1>1 DEF PagesInv
    <3> QED
      BY <2>1, <3>1, <1>1, <1>2, <1>3
  <2>2. CASE k > 1
    <3>1. k - 1 \in DOMAIN pages /\ offsets[(k - 1) + 1] = PageEnd(pages[k - 1])
      BY <2>2, <1>1, <1>2, PageFacts
    <3>2. PageEnd(pages[k - 1]) < pages[k].from
      BY <3>1, <1>1 DEF PagesInv
    <3>3. offsets[k] = PageEnd(pages[k - 1])
      BY <3>1, <1>1
    <3> QED
      BY <3>1, <3>2, <3>3, <1>2, <1>3
  <2> QED
    BY <2>1, <2>2, <1>1
<1>5. \A j \in 1 .. k - 1 : ~Holds(j)
  <2> SUFFICES ASSUME NEW j \in 1 .. k - 1 PROVE ~(o < offsets[j + 1])
    OBVIOUS
  <2>1. j \in DOMAIN pages /\ j < k
    BY <1>1, PageFacts
  <2>2. PageEnd(pages[j]) < pages[k].from
    BY <2>1, <1>1 DEF PagesInv
  <2> QED
    BY <2>1, <2>2, <1>2, <1>3
<1>6. Len(offsets) - 1 = Len(pages)
  BY <1>1 DEF PagesInv
<1> DEFINE n == Len(offsets) - 1
<1>7. k \in 1 .. n /\ \A i \in 1 .. n : Holds(i) /\ (\A j \in 1 .. i - 1 : ~Holds(j)) => i = k
  <2>1. n = Len(pages)
    BY <1>6
  <2> HIDE DEF Holds, n
  <2> SUFFICES ASSUME NEW i \in 1 .. n,
                      Holds(i), \A j \in 1 .. i - 1 : ~Holds(j), i # k
               PROVE  FALSE
    BY <1>1, <2>1
  <2>2. CASE i < k
    BY <2>1, <2>2, <1>1, <1>5
  <2>3. CASE i > k
    BY <2>1, <2>3, <1>1, <1>4
  <2> QED
    BY <2>1, <2>2, <2>3, <1>1
<1>8. OffsetToPage(o, offsets) =
          IF \E i \in 1 .. n : Holds(i)
          THEN CHOOSE i \in 1 .. n : Holds(i) /\ \A j \in 1 .. i - 1 : ~Holds(j)
          ELSE n
  BY Zenon DEF OffsetToPage
<1> HIDE DEF Holds, n
<1>9. (CHOOSE i \in 1 .. n : Holds(i) /\ \A j \in 1 .. i - 1 : ~Holds(j)) = k
  BY <1>4, <1>5, <1>7
<1> QED
  BY <1>4, <1>7, <1>8, <1>9

\* extractors.py:53-55: whatever the pages of a PDF, the offsets say where each begins.
THEOREM OffsetsFindPagesTheorem == Spec => []OffsetsFindPages
<1> QED
  BY ChunkingSafe, PagesFound, PTL

\* The rows hold every sentence, in the order of the text and without overlap.
LEMMA RowsPartition == ChunkingInv => ChunksPartition
<1> SUFFICES ASSUME ChunkingInv, at = "done", spans # <<>> PROVE ChunksPartition
  BY DEF ChunksPartition
<1>1. GroupsInv /\ Grouped /\ SentencesInv /\ RowsInv
  BY DEF ChunkingInv, Grouped
<1>2. /\ Len(spans) \in Nat /\ DOMAIN spans = 1 .. Len(spans)
      /\ \A i \in DOMAIN spans : spans[i].from \in Nat /\ spans[i].to \in Nat
      /\ Len(starts) \in Nat \ {0} /\ DOMAIN starts = 1 .. Len(starts)
      /\ \A k \in DOMAIN starts : starts[k] \in Nat \ {0} /\ starts[k] \in DOMAIN spans
  BY <1>1, SpanFacts, GroupFacts
<1>3. /\ DOMAIN rows = DOMAIN starts /\ Len(rows) = Len(starts)
      /\ \A k \in DOMAIN rows :
            rows[k].from = spans[starts[k]].from /\ rows[k].to = spans[GroupEnd(k)].to
  BY <1>1 DEF RowsInv
<1>4. \A k \in DOMAIN starts : k < Len(starts) =>
          k + 1 \in DOMAIN starts /\ starts[k] < starts[k + 1] /\ GroupEnd(k) = starts[k + 1] - 1
  BY <1>1, <1>2 DEF GroupsInv, GroupEnd
<1>5. \A k \in DOMAIN starts : starts[k] <= GroupEnd(k) /\ GroupEnd(k) \in DOMAIN spans
  <2> SUFFICES ASSUME NEW k \in DOMAIN starts
               PROVE  starts[k] <= GroupEnd(k) /\ GroupEnd(k) \in DOMAIN spans
    OBVIOUS
  <2>1. CASE k < Len(starts)
    BY <2>1, <1>2, <1>4
  <2>2. CASE k = Len(starts)
    BY <2>2, <1>2 DEF GroupEnd
  <2> QED
    BY <2>1, <2>2, <1>2
<1>6. \A i, j \in DOMAIN spans : i <= j =>
          spans[i].from <= spans[j].from /\ spans[i].to <= spans[j].to
  <2> SUFFICES ASSUME NEW i \in DOMAIN spans, NEW j \in DOMAIN spans, i < j
               PROVE  spans[i].from <= spans[j].from /\ spans[i].to <= spans[j].to
    BY <1>2
  <2>1. /\ spans[i].from < spans[i].to /\ spans[j].from < spans[j].to
        /\ spans[i].to <= spans[j].from
    BY <1>1 DEF SentencesInv
  <2> QED
    BY <2>1, <1>2
<1>7. ASSUME NEW i \in DOMAIN spans
      PROVE  \E k \in DOMAIN rows : rows[k].from <= spans[i].from /\ spans[i].to <= rows[k].to
  <2>1. PICK k \in DOMAIN starts : starts[k] <= i /\ (k < Len(starts) => i < starts[k + 1])
    BY <1>1, <1>2 DEF GroupsInv, Placed
  <2>2. i <= GroupEnd(k)
    BY <2>1, <1>2, <1>4 DEF GroupEnd
  <2> QED
    BY <2>1, <2>2, <1>2, <1>3, <1>5, <1>6
<1>8. ASSUME NEW k \in DOMAIN rows
      PROVE  \E i, j \in DOMAIN spans :
                 i <= j /\ rows[k].from = spans[i].from /\ rows[k].to = spans[j].to
  BY <1>2, <1>3, <1>5
<1>9. ASSUME NEW k \in 1 .. Len(rows) - 1
      PROVE  \E i \in DOMAIN spans \ {1} :
                 rows[k].to = spans[i - 1].to /\ rows[k + 1].from = spans[i].from
  <2>1. k \in DOMAIN starts /\ k < Len(starts)
    BY <1>2, <1>3
  <2>2. /\ k + 1 \in DOMAIN starts /\ starts[k] < starts[k + 1]
        /\ GroupEnd(k) = starts[k + 1] - 1
    BY <2>1, <1>4
  <2>3. starts[k + 1] \in DOMAIN spans \ {1}
    BY <2>1, <2>2, <1>2
  <2> QED
    BY <2>1, <2>2, <2>3, <1>3
<1> QED
  BY <1>7, <1>8, <1>9 DEF ChunksPartition

\* Whatever the target and the sentences, chunking loses and repeats none.
THEOREM ChunksPartitionTheorem == Spec => []ChunksPartition
<1> QED
  BY ChunkingSafe, RowsPartition, PTL
-----------------------------------------------------------------------------
(* The sizes of the groups.                                                *)

\* The sums of the sentences placed so far are totals, and grow.
LEMMA SumFacts ==
    ASSUME SentencesInv, SumsInv
    PROVE  /\ \A i \in 0 .. Len(spans) : Upto(i) \in Nat
           /\ \A i, j \in 0 .. Len(spans) : i <= j => Upto(i) <= Upto(j)
           /\ \A i, j \in 0 .. Len(spans) : i < j => Upto(i) < Upto(j)
           /\ \A i \in DOMAIN spans : Length(i) \in Nat /\ Length(i) = Upto(i) - Upto(i - 1)
<1>1. \A i \in 0 .. Len(spans) : Upto(i) \in Nat
  BY SpanFacts DEF Upto
<1>2. \A i, j \in 0 .. Len(spans) : i < j => Upto(i) < Upto(j)
  BY DEF SumsInv
<1>3. \A i, j \in 0 .. Len(spans) : i <= j => Upto(i) <= Upto(j)
  BY <1>1, <1>2, SpanFacts
<1>4. ASSUME NEW i \in DOMAIN spans
      PROVE  Length(i) \in Nat /\ Length(i) = Upto(i) - Upto(i - 1)
  <2>1. i \in 0 .. Len(spans) /\ i - 1 \in 0 .. Len(spans) /\ i - 1 < i
    BY SpanFacts
  <2>2. Upto(i) \in Nat /\ Upto(i - 1) \in Nat /\ Upto(i - 1) < Upto(i)
    BY <1>1, <1>2, <2>1
  <2>3. Length(i) \in Int
    BY SpanFacts DEF Length
  <2> QED
    BY <2>2, <2>3 DEF SumsInv
<1> QED
  BY <1>1, <1>2, <1>3, <1>4

\* Only a new sentence changes the sums.
LEMMA SumsStep == ChunkingInv /\ SumsInv /\ [Next]_vars => SumsInv'
<1> SUFFICES ASSUME ChunkingInv, SumsInv, [Next]_vars PROVE SumsInv'
  OBVIOUS
<1>1. CASE Sentence
  <2>1. PICK s, e \in 0 .. TextLength :
            /\ s < e
            /\ spans' = Append(spans, [from |-> s, to |-> e, sum |-> Upto(Len(spans)) + e - s])
    BY <1>1 DEF Sentence
  <2>2. s \in Nat /\ e \in Nat /\ SentencesInv /\ SentencesInv'
    BY <1>1, <2>1, TextEnd, SentenceKeeps DEF ChunkingInv
  <2>n. PICK n \in Nat : n = Len(spans)
    BY <2>2, SpanFacts
  <2>3. /\ n = Len(spans) /\ DOMAIN spans = 1 .. n
        /\ Len(spans') = n + 1 /\ DOMAIN spans' = 1 .. n + 1
        /\ \A i \in 1 .. n : spans'[i] = spans[i]
        /\ spans'[n + 1] = [from |-> s, to |-> e, sum |-> Upto(n) + e - s]
    BY <2>1, <2>2, <2>n DEF SentencesInv
  <2>4. /\ \A i \in 0 .. n : Upto(i)' = Upto(i) /\ Upto(i) \in Nat
        /\ \A i \in 1 .. n : Length(i)' = Length(i)
        /\ Upto(n + 1)' = Upto(n) + (e - s) /\ Length(n + 1)' = e - s
    <3>1. \A i \in 0 .. n : Upto(i) \in Nat
      BY <2>2, <2>3, SumFacts
    <3>2. \A i \in 0 .. n : Upto(i)' = Upto(i)
      BY <2>3 DEF Upto
    <3>3. \A i \in 1 .. n : Length(i)' = Length(i)
      BY <2>3 DEF Length
    <3>4. Upto(n + 1)' = Upto(n) + (e - s)
      <4>1. n \in 0 .. n /\ n + 1 # 0
        BY <2>3
      <4>2. Upto(n + 1)' = Upto(n) + e - s
        BY <2>3, <4>1 DEF Upto
      <4>3. Upto(n) \in Nat
        BY <3>1, <4>1
      <4> QED
        BY <2>2, <4>2, <4>3
    <3>5. Length(n + 1)' = e - s
      BY <2>3 DEF Length
    <3> QED
      BY <3>1, <3>2, <3>3, <3>4, <3>5
  <2>5. \A i \in DOMAIN spans' : Upto(i)' = Upto(i - 1)' + Length(i)'
    <3> SUFFICES ASSUME NEW i \in 1 .. n + 1
                 PROVE  Upto(i)' = Upto(i - 1)' + Length(i)'
      BY <2>3
    <3>1. CASE i = n + 1
      BY <2>3, <2>4, <3>1
    <3>2. CASE i \in 1 .. n
      <4>1. i - 1 \in 0 .. n /\ i \in 0 .. n
        BY <2>3, <3>2
      <4>2. Upto(i) = Upto(i - 1) + Length(i)
        BY <2>3, <3>2 DEF SumsInv
      <4> QED
        BY <2>4, <3>2, <4>1, <4>2
    <3> QED
      BY <2>3, <3>1, <3>2
  <2>6. \A i, j \in 0 .. Len(spans') : i < j => Upto(i)' < Upto(j)'
    <3> SUFFICES ASSUME NEW i \in 0 .. n + 1, NEW j \in 0 .. n + 1, i < j
                 PROVE  Upto(i)' < Upto(j)'
      BY <2>3
    <3>1. CASE j = n + 1
      <4>1. i \in 0 .. n /\ n \in 0 .. n
        BY <2>3, <3>1
      <4>2. Upto(i) <= Upto(n)
        BY <2>2, <2>3, <4>1, SumFacts
      <4> QED
        BY <2>1, <2>2, <2>4, <3>1, <4>1, <4>2
    <3>2. CASE j \in 0 .. n
      <4>1. i \in 0 .. n
        BY <2>3, <3>2
      <4> QED
        BY <2>3, <2>4, <3>2, <4>1 DEF SumsInv
    <3> QED
      BY <2>3, <3>1, <3>2
  <2> QED
    BY <2>5, <2>6 DEF SumsInv
<1>2. CASE ~Sentence
  <2>1. spans' = spans
    BY <1>2 DEF Next, ReadPage, ShiftOffsets, ReadText, Gate, Distribute, Take, EndPass, Whole,
       Locate, vars, file
  <2> QED
    BY <2>1 DEF SumsInv, Upto, Length
<1> QED
  BY <1>1, <1>2

\* What a step of a pass has to show, of the values it leaves.
LEMMA FillNext ==
    ASSUME UNCHANGED spans, SentencesInv, NEW step, NEW st, NEW sz, NEW nx, NEW g \in Nat,
           at' = step, starts' = st, size' = sz, next' = nx, goal' = g,
           sz = Total(st[Len(st)], nx - 1),
           \A k \in 1 .. Len(st) - 1 :
               st[k + 1] = st[k] + 1 \/ Total(st[k], st[k + 1] - 1) <= g,
           nx <= st[Len(st)] + 1 \/ sz <= g,
           step = "fill" => g = Target /\ TotalLength > Target,
           step = "refill" => g <= Target \/ (g < Length(1) /\ 2 * Total(2, Len(spans)) < Target)
    PROVE  FillInv'
BY DEF FillInv, Total, TotalLength, Upto, Length, Last

\* A pass begins with an empty group.
LEMMA PassBegins ==
    ASSUME UNCHANGED spans, SentencesInv, NEW step, NEW g \in Nat,
           at' = step, starts' = << 1 >>, size' = 0, next' = 1, goal' = g,
           step = "fill" => g = Target /\ TotalLength > Target,
           step = "refill" => g <= Target \/ (g < Length(1) /\ 2 * Total(2, Len(spans)) < Target)
    PROVE  FillInv'
<1> DEFINE st == << 1 >>
<1>1. Len(st) = 1 /\ st[Len(st)] = 1
  OBVIOUS
<1>2. starts' = st
  OBVIOUS
<1> HIDE DEF st
<1>3. 0 = Total(st[Len(st)], 1 - 1)
  BY <1>1 DEF Total, Upto
<1>4. \A k \in 1 .. Len(st) - 1 : st[k + 1] = st[k] + 1 \/ Total(st[k], st[k + 1] - 1) <= g
  BY <1>1
<1>5. 1 <= st[Len(st)] + 1
  BY <1>1
<1> QED
  BY <1>2, <1>3, <1>4, <1>5, FillNext

\* A sentence joins a group that has room, or one without a sentence yet.
LEMMA TakeFills ==
    ASSUME ChunkingInv, SumsInv, FillInv, Take
    PROVE  FillInv'
<1>1. /\ at \in {"fill", "refill"} /\ at' = at /\ next <= Len(spans) /\ next' = next + 1
      /\ UNCHANGED spans /\ goal' = goal
      /\ SentencesInv /\ GroupsInv /\ Grouped
  BY DEF Take, file, ChunkingInv, Grouped
<1> DEFINE n == Len(starts)
<1>2. /\ Len(spans) \in Nat /\ DOMAIN spans = 1 .. Len(spans)
      /\ n \in Nat \ {0} /\ DOMAIN starts = 1 .. n
      /\ starts \in Seq(Nat \ {0})
      /\ \A k \in 1 .. n : starts[k] \in 1 .. Len(spans)
      /\ next \in 1 .. Len(spans)
      /\ \A k \in 1 .. n : starts[k] < next \/ (k = 1 /\ next = 1)
      /\ starts[1] = 1
  BY <1>1, SpanFacts, GroupFacts DEF GroupsInv
<1>3. Last(starts) = starts[n] /\ starts[n] \in 1 .. Len(spans) /\ starts[n] <= next
  BY <1>2 DEF Last
<1>4. /\ goal \in Nat /\ size = Total(starts[n], next - 1)
      /\ \A k \in 1 .. n - 1 :
            starts[k + 1] = starts[k] + 1 \/ Total(starts[k], starts[k + 1] - 1) <= goal
      /\ next <= starts[n] + 1 \/ size <= goal
      /\ at = "fill" => goal = Target /\ TotalLength > Target
      /\ at = "refill" => goal <= Target \/ (goal < Length(1) /\ 2 * Total(2, Len(spans)) < Target)
  <2>1. /\ goal \in Nat /\ size = Total(Last(starts), next - 1)
        /\ next <= Last(starts) + 1 \/ size <= goal
        /\ \A k \in 1 .. n - 1 :
              starts[k + 1] = starts[k] + 1 \/ Total(starts[k], starts[k + 1] - 1) <= goal
        /\ at = "fill" => goal = Target /\ TotalLength > Target
        /\ at = "refill" => goal <= Target \/ (goal < Length(1) /\ 2 * Total(2, Len(spans)) < Target)
    BY <1>1 DEF FillInv
  <2> QED
    BY <1>3, <2>1
<1>5. /\ \A i \in 0 .. Len(spans) : Upto(i) \in Nat
      /\ Length(next) = Upto(next) - Upto(next - 1)
  BY <1>1, <1>2, SumFacts
<1>6. /\ Upto(next) \in Nat /\ Upto(next - 1) \in Nat /\ Upto(starts[n] - 1) \in Nat
      /\ (next + 1) - 1 = next
  BY <1>2, <1>3, <1>5
<1>7. CASE size + Length(next) > goal /\ next > Last(starts)
  <2> DEFINE st == Append(starts, next)
  <2>1. starts' = st /\ size' = Length(next)
    BY <1>7 DEF Take
  <2>2. /\ Len(st) = n + 1 /\ st[n + 1] = next
        /\ \A k \in 1 .. n : st[k] = starts[k]
    BY <1>2
  <2>3. Length(next) = Total(next, (next + 1) - 1)
    BY <1>5, <1>6 DEF Total
  <2>4. \A k \in 1 .. n : st[k + 1] = st[k] + 1 \/ Total(st[k], st[k + 1] - 1) <= goal
    <3> SUFFICES ASSUME NEW k \in 1 .. n
                 PROVE  st[k + 1] = st[k] + 1 \/ Total(st[k], st[k + 1] - 1) <= goal
      OBVIOUS
    <3>1. CASE k \in 1 .. n - 1
      <4>1. k + 1 \in 1 .. n /\ k \in 1 .. n
        BY <1>2, <3>1
      <4> QED
        BY <1>4, <2>2, <3>1, <4>1
    <3>2. CASE k = n
      <4>1. st[k + 1] = next /\ st[k] = starts[n]
        BY <1>2, <2>2, <3>2
      <4>2. next = starts[n] + 1 \/ size <= goal
        BY <1>2, <1>3, <1>4, <1>7
      <4> QED
        BY <1>4, <4>1, <4>2
    <3> QED
      BY <1>2, <3>1, <3>2
  <2>5. st[Len(st)] = next /\ Len(st) - 1 = n
    BY <1>2, <2>2
  <2> HIDE DEF st
  <2>6. Length(next) = Total(st[Len(st)], (next + 1) - 1)
    BY <2>3, <2>5
  <2>7. \A k \in 1 .. Len(st) - 1 : st[k + 1] = st[k] + 1 \/ Total(st[k], st[k + 1] - 1) <= goal
    BY <2>4, <2>5
  <2>8. next + 1 <= st[Len(st)] + 1
    BY <1>2, <2>5
  <2> QED
    BY <1>1, <1>4, <2>1, <2>6, <2>7, <2>8, FillNext
<1>8. CASE ~(size + Length(next) > goal /\ next > Last(starts))
  <2>1. starts' = starts /\ size' = size + Length(next)
    BY <1>8 DEF Take
  <2>2. size + Length(next) = Total(starts[n], (next + 1) - 1)
    BY <1>4, <1>5, <1>6 DEF Total
  <2>3. next + 1 <= starts[n] + 1 \/ size + Length(next) <= goal
    <3>1. size \in Int /\ Length(next) \in Int
      BY <1>4, <1>5, <1>6 DEF Total
    <3>2. next \in Nat /\ starts[n] \in Nat /\ goal \in Nat
      BY <1>2, <1>3, <1>4
    <3>3. CASE next > starts[n]
      BY <1>3, <1>8, <3>1, <3>2, <3>3
    <3>4. CASE ~(next > starts[n])
      BY <3>2, <3>4
    <3> QED
      BY <3>3, <3>4
  <2> QED
    BY <1>1, <1>4, <2>1, <2>2, <2>3, FillNext
<1> QED
  BY <1>7, <1>8

\* What the end of a pass has to show, of the groups it leaves.
Within(st, k, end) ==
    \E m \in st[k] .. end :
        /\ m = st[k] \/ Total(st[k], m) <= Target
        /\ 2 * Total(m + 1, end) < Target
        /\ k < Len(st) => m = end

\* The bound on the groups a step leaves, group by group.
LEMMA ExcessNext ==
    ASSUME UNCHANGED spans, NEW st, starts' = st, DOMAIN st = 1 .. Len(st),
           \A k \in 1 .. Len(st) : Within(st, k, IF k < Len(st) THEN st[k + 1] - 1 ELSE Len(spans))
    PROVE  ExcessBounded'
BY DEF ExcessBounded, GroupEnd, Within, Total, Upto

\* A group that ends with a sentence has nothing behind it.
LEMMA WithinWhole ==
    ASSUME NEW st, NEW k, NEW end \in Nat, st[k] \in 1 .. end, Upto(end) \in Nat,
           end = st[k] \/ Total(st[k], end) <= Target
    PROVE  Within(st, k, end)
<1>1. Total(end + 1, end) = 0
  BY DEF Total
<1>2. end \in st[k] .. end /\ 2 * 0 < Target
  BY TargetAssumption
<1> QED
  BY <1>1, <1>2 DEF Within

\* The goal of a second pass is within the target when the first had a tail to
\* merge, unless a long sentence stands before that tail.
LEMMA SecondGoal ==
    ASSUME NEW x \in Nat, NEW s \in Nat, 2 * s < Target, s > 0
    PROVE  /\ x <= Target => (51 * (x + s) + 99) \div 100 <= Target
           /\ x > Target => (51 * (x + s) + 99) \div 100 < x
BY TargetAssumption

\* One group of all sentences, or a pass that aims at the target.
LEMMA DistributeFills ==
    ASSUME ChunkingInv, SumsInv, Distribute
    PROVE  FillInv' /\ ExcessBounded'
<1>1. UNCHANGED spans /\ starts' = <<1>> /\ SentencesInv
  BY DEF Distribute, file, ChunkingInv
<1>2. CASE spans = <<>> \/ TotalLength <= Target
  <2>1. /\ at' = IF spans = <<>> THEN "raised" ELSE "locate"
    BY <1>2 DEF Distribute
  <2>2. CASE spans = <<>>
    BY <2>1, <2>2 DEF FillInv, ExcessBounded
  <2>3. CASE spans # <<>>
    <3> DEFINE st == <<1>>
               n == Len(spans)
    <3>1. Len(st) = 1 /\ st[1] = 1 /\ DOMAIN st = 1 .. Len(st) /\ starts' = st
      BY <1>1
    <3>2. n \in Nat \ {0}
      BY <1>1, <2>3 DEF SentencesInv
    <3>3. Upto(n) \in Nat /\ Total(st[1], n) <= Target
      BY <1>1, <1>2, <2>3, <3>1, <3>2, SumFacts DEF TotalLength
    <3> HIDE DEF st
    <3>4. Within(st, 1, n)
      BY <3>1, <3>2, <3>3, WithinWhole
    <3>5. \A k \in 1 .. Len(st) : Within(st, k, IF k < Len(st) THEN st[k + 1] - 1 ELSE Len(spans))
      BY <3>1, <3>4
    <3>6. ExcessBounded'
      BY <1>1, <3>1, <3>5, ExcessNext
    <3> QED
      BY <2>1, <2>3, <3>6 DEF FillInv
  <2> QED
    BY <2>2, <2>3
<1>3. CASE spans # <<>> /\ ~(TotalLength <= Target)
  <2>1. at' = "fill" /\ goal' = Target /\ size' = 0 /\ next' = 1
    BY <1>3 DEF Distribute
  <2>2. TotalLength > Target
    <3>1. Len(spans) \in Nat \ {0}
      BY <1>1, <1>3 DEF SentencesInv
    <3>2. Upto(Len(spans)) \in Nat /\ Upto(1 - 1) = 0
      BY <1>1, <3>1, SumFacts DEF Upto
    <3>3. TotalLength \in Int
      BY <3>2 DEF TotalLength, Total
    <3> QED
      BY <1>3, <3>3, TargetAssumption
  <2>3. FillInv'
    BY <1>1, <2>1, <2>2, PassBegins, TargetAssumption
  <2> QED
    BY <2>1, <2>3 DEF ExcessBounded
<1> QED
  BY <1>2, <1>3

\* The pass that ends has a group for each sentence, and its goal is what it was.
LEMMA PassEnds ==
    ASSUME ChunkingInv, SumsInv, FillInv, EndPass
    PROVE  /\ UNCHANGED spans /\ SentencesInv /\ at \in {"fill", "refill"}
           /\ Len(spans) \in Nat \ {0} /\ Len(starts) \in Nat \ {0}
           /\ starts \in Seq(Nat \ {0}) /\ DOMAIN starts = 1 .. Len(starts) /\ starts[1] = 1
           /\ \A k \in 1 .. Len(starts) : starts[k] \in 1 .. Len(spans)
           /\ \A j, k \in 1 .. Len(starts) : j < k => starts[j] < starts[k]
           /\ \A i \in 0 .. Len(spans) : Upto(i) \in Nat
           /\ \A i, j \in 0 .. Len(spans) : i <= j => Upto(i) <= Upto(j)
           /\ Length(1) = Upto(1) /\ Upto(0) = 0 /\ goal \in Nat
           /\ size = Upto(Len(spans)) - Upto(starts[Len(starts)] - 1) /\ size \in Nat \ {0}
           /\ \A k \in 1 .. Len(starts) - 1 :
                 \/ starts[k + 1] = starts[k] + 1
                 \/ Upto(starts[k + 1] - 1) - Upto(starts[k] - 1) <= goal
           /\ Len(spans) = starts[Len(starts)] \/ size <= goal
           /\ at = "fill" => goal = Target /\ Upto(Len(spans)) > Target
           /\ at = "refill" => \/ goal <= Target
                               \/ /\ goal < Upto(1)
                                  /\ 2 * (Upto(Len(spans)) - Upto(1)) < Target
<1>1. /\ at \in {"fill", "refill"} /\ next = Len(spans) + 1 /\ UNCHANGED spans
      /\ SentencesInv /\ GroupsInv /\ Grouped
  BY DEF EndPass, file, ChunkingInv, Grouped
<1>2. /\ Len(spans) \in Nat \ {0} /\ Len(starts) \in Nat \ {0} /\ DOMAIN starts = 1 .. Len(starts)
      /\ \A k \in 1 .. Len(starts) : starts[k] \in 1 .. Len(spans)
      /\ starts \in Seq(Nat \ {0}) /\ starts[1] = 1
      /\ \A j, k \in 1 .. Len(starts) : j < k => starts[j] < starts[k]
  BY <1>1, SpanFacts, GroupFacts DEF GroupsInv, SentencesInv
<1>3. /\ \A i \in 0 .. Len(spans) : Upto(i) \in Nat
      /\ \A i, j \in 0 .. Len(spans) : i <= j => Upto(i) <= Upto(j)
      /\ \A i, j \in 0 .. Len(spans) : i < j => Upto(i) < Upto(j)
  BY <1>1, SumFacts
<1>4. Length(1) = Upto(1) /\ Upto(0) = 0
  <2>1. 1 \in DOMAIN spans /\ 1 - 1 = 0 /\ 1 \in 0 .. Len(spans) /\ Upto(0) = 0
    BY <1>1, <1>2, SpanFacts DEF Upto
  <2>2. Length(1) = Upto(1) - Upto(1 - 1) /\ Upto(1) \in Nat
    BY <1>1, <1>3, <2>1, SumFacts
  <2> QED
    BY <2>1, <2>2
<1>5. Last(starts) = starts[Len(starts)] /\ starts[Len(starts)] \in 1 .. Len(spans)
  BY <1>2 DEF Last
<1>6. (Len(spans) + 1) - 1 = Len(spans) /\ 2 - 1 = 1 /\ 1 - 1 = 0
  BY <1>2
<1>7. size = Upto(Len(spans)) - Upto(starts[Len(starts)] - 1)
  BY <1>1, <1>5, <1>6 DEF FillInv, Total
<1>8. size \in Nat \ {0}
  <2>1. /\ starts[Len(starts)] - 1 \in 0 .. Len(spans) /\ Len(spans) \in 0 .. Len(spans)
        /\ starts[Len(starts)] - 1 < Len(spans)
    BY <1>2, <1>5
  <2>2. Upto(starts[Len(starts)] - 1) < Upto(Len(spans))
    BY <1>3, <2>1
  <2> QED
    BY <1>3, <1>7, <2>1, <2>2
<1>9. /\ goal \in Nat
      /\ \A k \in 1 .. Len(starts) - 1 :
            \/ starts[k + 1] = starts[k] + 1
            \/ Upto(starts[k + 1] - 1) - Upto(starts[k] - 1) <= goal
  BY <1>1 DEF FillInv, Total
<1>10. Len(spans) = starts[Len(starts)] \/ size <= goal
  <2>1. Len(spans) + 1 <= starts[Len(starts)] + 1 \/ size <= goal
    BY <1>1, <1>5 DEF FillInv
  <2> QED
    BY <1>2, <1>5, <2>1
<1>11. at = "fill" => goal = Target /\ Upto(Len(spans)) > Target
  <2>1. TotalLength = Upto(Len(spans)) - Upto(0)
    BY <1>6 DEF TotalLength, Total
  <2>2. TotalLength = Upto(Len(spans))
    BY <1>2, <1>3, <1>4, <2>1
  <2> QED
    BY <2>2 DEF FillInv
<1>12. at = "refill" => \/ goal <= Target
                        \/ /\ goal < Upto(1)
                           /\ 2 * (Upto(Len(spans)) - Upto(1)) < Target
  BY <1>4, <1>6 DEF FillInv, Total
<1> QED
  BY <1>1, <1>2, <1>3, <1>4, <1>7, <1>8, <1>9, <1>10, <1>11, <1>12

\* Whichever the goal was, a group is a sentence or fits the target, and a tail
\* that is merged is below half of the target.
LEMMA GroupSizes ==
    ASSUME ChunkingInv, SumsInv, FillInv, EndPass
    PROVE  /\ \A k \in 1 .. Len(starts) - 1 :
                 starts[k + 1] - 1 = starts[k] \/ Total(starts[k], starts[k + 1] - 1) <= Target
           /\ Len(spans) = starts[Len(starts)] \/ size <= Target
           /\ Len(starts) > 1 /\ 2 * size < goal => 2 * size < Target
<1> DEFINE n == Len(starts)
           N == Len(spans)
<1>0. Target \in Nat \ {0}
  BY TargetAssumption
<1>1. /\ N \in Nat \ {0} /\ n \in Nat \ {0} /\ starts[1] = 1
      /\ \A k \in 1 .. n : starts[k] \in 1 .. N
      /\ \A j, k \in 1 .. n : j < k => starts[j] < starts[k]
      /\ \A i \in 0 .. N : Upto(i) \in Nat
      /\ \A i, j \in 0 .. N : i <= j => Upto(i) <= Upto(j)
      /\ Upto(0) = 0 /\ goal \in Nat
      /\ size = Upto(N) - Upto(starts[n] - 1) /\ size \in Nat \ {0}
      /\ \A k \in 1 .. n - 1 : \/ starts[k + 1] = starts[k] + 1
                               \/ Upto(starts[k + 1] - 1) - Upto(starts[k] - 1) <= goal
      /\ N = starts[n] \/ size <= goal
  BY PassEnds
<1> HIDE DEF n, N
<1>2. CASE goal <= Target
  <2>1. ASSUME NEW k \in 1 .. n - 1
        PROVE  starts[k + 1] - 1 = starts[k] \/ Total(starts[k], starts[k + 1] - 1) <= Target
    <3>1. k \in 1 .. n /\ k + 1 \in 1 .. n
      BY <1>1
    <3>2. starts[k] \in 1 .. N /\ starts[k + 1] \in 1 .. N
      BY <1>1, <3>1
    <3>3. starts[k] - 1 \in 0 .. N /\ starts[k + 1] - 1 \in 0 .. N
      BY <1>1, <3>2
    <3>4. Upto(starts[k] - 1) \in Nat /\ Upto(starts[k + 1] - 1) \in Nat
      BY <1>1, <3>3
    <3>5. CASE starts[k + 1] = starts[k] + 1
      BY <3>2, <3>5
    <3>6. CASE Upto(starts[k + 1] - 1) - Upto(starts[k] - 1) <= goal
      BY <1>0, <1>1, <1>2, <3>4, <3>6 DEF Total
    <3> QED
      BY <1>1, <3>5, <3>6
  <2>2. N = starts[n] \/ size <= Target
    BY <1>0, <1>1, <1>2
  <2>3. 2 * size < goal => 2 * size < Target
    BY <1>0, <1>1, <1>2
  <2> QED
    BY <2>1, <2>2, <2>3 DEF n, N
<1>3. CASE ~(goal <= Target)
  <2>1. goal < Upto(1) /\ 2 * (Upto(N) - Upto(1)) < Target
    BY <1>0, <1>1, <1>3, PassEnds DEF n, N
  <2>2. Upto(1) \in Nat /\ Upto(N) \in Nat /\ Upto(1) <= Upto(N)
    BY <1>1
  <2>3. \A k \in 1 .. n : k > 1 => starts[k] >= 2
    <3> SUFFICES ASSUME NEW k \in 1 .. n, k > 1 PROVE starts[k] >= 2
      OBVIOUS
    <3>1. 1 \in 1 .. n
      BY <1>1
    <3> QED
      BY <1>1, <3>1
  <2>4. ASSUME NEW k \in 1 .. n - 1
        PROVE  starts[k + 1] - 1 = starts[k] \/ Total(starts[k], starts[k + 1] - 1) <= Target
    <3>1. k \in 1 .. n /\ k + 1 \in 1 .. n /\ k < k + 1 /\ k + 1 > 1
      BY <1>1
    <3>2. starts[k] \in 1 .. N /\ starts[k + 1] \in 1 .. N /\ starts[k + 1] >= 2
      BY <1>1, <2>3, <3>1
    <3>3. starts[k] - 1 \in 0 .. N /\ starts[k + 1] - 1 \in 1 .. N
      BY <1>1, <3>2
    <3>4. /\ Upto(starts[k] - 1) \in Nat /\ Upto(starts[k + 1] - 1) \in Nat
          /\ Upto(1) <= Upto(starts[k + 1] - 1) /\ Upto(starts[k + 1] - 1) <= Upto(N)
      BY <1>1, <3>3
    <3>5. CASE k = 1
      <4>1. starts[k] - 1 = 0 /\ starts[k] = 1
        BY <1>1, <3>5
      <4>2. ~(Upto(starts[k + 1] - 1) - Upto(starts[k] - 1) <= goal)
        BY <1>1, <2>1, <2>2, <3>4, <4>1
      <4> QED
        BY <1>1, <3>2, <4>2
    <3>6. CASE k # 1
      <4>1. starts[k] >= 2
        BY <2>3, <3>1, <3>6
      <4>2. 1 \in 0 .. N /\ 1 <= starts[k] - 1
        BY <1>1, <3>2, <4>1
      <4>3. Upto(1) <= Upto(starts[k] - 1)
        BY <1>1, <3>3, <4>2
      <4> QED
        BY <1>0, <2>1, <2>2, <3>4, <4>3 DEF Total
    <3> QED
      BY <3>5, <3>6
  <2>5. CASE n = 1
    <3>1. starts[n] - 1 = 0
      BY <1>1, <2>5
    <3>2. size = Upto(N)
      BY <1>1, <2>2, <3>1
    <3>3. ~(size <= goal)
      BY <1>1, <2>1, <2>2, <3>2
    <3> QED
      BY <1>1, <2>4, <2>5, <3>3 DEF n, N
  <2>6. CASE n # 1
    <3>1. n \in 1 .. n /\ n > 1
      BY <1>1, <2>6
    <3>2. starts[n] \in 1 .. N /\ starts[n] >= 2
      BY <1>1, <2>3, <3>1
    <3>3. 1 \in 0 .. N /\ starts[n] - 1 \in 0 .. N /\ 1 <= starts[n] - 1
      BY <1>1, <3>2
    <3>4. Upto(1) <= Upto(starts[n] - 1) /\ Upto(starts[n] - 1) \in Nat
      BY <1>1, <3>3
    <3>5. 2 * size < Target
      BY <1>0, <1>1, <2>1, <2>2, <3>4
    <3>6. size <= Target
      BY <1>0, <1>1, <3>5
    <3> QED
      BY <2>4, <3>5, <3>6 DEF n, N
  <2> QED
    BY <2>5, <2>6
<1> QED
  BY <1>2, <1>3

\* The second pass is entered with a goal that is within the target, or too
\* small for the first sentence.
LEMMA RefillFills ==
    ASSUME ChunkingInv, SumsInv, FillInv, EndPass, at' = "refill"
    PROVE  FillInv'
<1> DEFINE N == Len(spans)
           s2 == starts[2]
           x == Upto(s2 - 1)
           g == (51 * TotalLength + 99) \div 100
<1>0. Target \in Nat \ {0}
  BY TargetAssumption
<1>1. /\ at = "fill" /\ Len(Merged) = 1 /\ N > 1
      /\ goal' = g /\ starts' = <<1>> /\ size' = 0 /\ next' = 1
      /\ UNCHANGED spans /\ SentencesInv
  BY PassEnds DEF EndPass
<1>2. /\ N \in Nat \ {0} /\ starts \in Seq(Nat \ {0}) /\ Len(starts) \in Nat \ {0} /\ starts[1] = 1
      /\ \A i \in 0 .. N : Upto(i) \in Nat
      /\ Upto(0) = 0 /\ Length(1) = Upto(1)
      /\ goal = Target /\ Upto(N) > Target
      /\ size = Upto(N) - Upto(starts[Len(starts)] - 1) /\ size \in Nat \ {0}
      /\ N = starts[Len(starts)] \/ size <= goal
  BY <1>1, PassEnds
<1>3. Len(starts) # 1
  <2> SUFFICES ASSUME Len(starts) = 1 PROVE FALSE
    OBVIOUS
  <2> HIDE DEF N
  <2>1. starts[Len(starts)] = 1
    BY <1>2
  <2>2. starts[Len(starts)] - 1 = 0 /\ N # starts[Len(starts)]
    BY <1>1, <2>1
  <2>3. size = Upto(N) - Upto(0) /\ size <= goal
    BY <1>2, <2>2
  <2>4. Upto(N) \in Nat
    BY <1>0, <1>2
  <2> QED
    BY <1>0, <1>2, <2>3, <2>4
<1>4. Len(starts) = 2 /\ 2 * size < goal
  <2>1. Merged # starts
    BY <1>1, <1>3
  <2>2. 2 * size < goal /\ Merged = SubSeq(starts, 1, Len(starts) - 1)
    BY <2>1 DEF Merged
  <2>3. Len(starts) - 1 = 1
    BY <1>1, <1>2, <1>3, <2>2
  <2> QED
    BY <1>2, <2>2, <2>3
<1>5. /\ s2 \in 1 .. N /\ 1 < s2
      /\ s2 = 2 \/ x - Upto(0) <= Target
  <2>1. 1 \in 1 .. Len(starts) - 1 /\ 1 + 1 = 2 /\ 1 \in 1 .. Len(starts) /\ 2 \in 1 .. Len(starts)
    BY <1>4
  <2> HIDE DEF N
  <2>2. /\ starts[2] \in 1 .. N /\ starts[1] < starts[2]
        /\ starts[1 + 1] = starts[1] + 1 \/ Upto(starts[1 + 1] - 1) - Upto(starts[1] - 1) <= goal
    <3>1. /\ \A k \in 1 .. Len(starts) : starts[k] \in 1 .. N
          /\ \A j, k \in 1 .. Len(starts) : j < k => starts[j] < starts[k]
          /\ \A k \in 1 .. Len(starts) - 1 :
                \/ starts[k + 1] = starts[k] + 1
                \/ Upto(starts[k + 1] - 1) - Upto(starts[k] - 1) <= goal
      BY PassEnds DEF N
    <3> QED
      BY <2>1, <3>1
  <2>3. starts[1] - 1 = 0 /\ starts[1] + 1 = 2
    BY <1>2
  <2> QED
    BY <1>2, <2>1, <2>2, <2>3
<1>6. x \in Nat /\ Upto(N) = x + size /\ 2 * size < Target
  <2>1. s2 - 1 \in 0 .. N /\ N \in 0 .. N
    BY <1>2, <1>5
  <2> HIDE DEF N
  <2>2. x \in Nat /\ Upto(N) \in Nat /\ size = Upto(N) - x
    BY <1>2, <1>4, <2>1
  <2> QED
    BY <1>2, <1>4, <2>2
<1>7. TotalLength = x + size
  <2>1. TotalLength = Upto(N) - Upto(1 - 1) /\ 1 - 1 = 0
    BY DEF TotalLength, Total
  <2> QED
    BY <1>2, <1>6, <2>1
<1>8. g \in Nat /\ g = (51 * (x + size) + 99) \div 100
  <2> HIDE DEF x
  <2>1. g = (51 * (x + size) + 99) \div 100
    BY <1>7
  <2>2. 51 * (x + size) + 99 \in Nat
    BY <1>2, <1>6
  <2> QED
    BY <2>1, <2>2
<1>9. g <= Target \/ (g < Length(1) /\ 2 * Total(2, Len(spans)) < Target)
  <2>1. /\ x <= Target => g <= Target
        /\ x > Target => g < x
    <3> HIDE DEF x, g
    <3>1. x \in Nat /\ size \in Nat /\ 2 * size < Target /\ size > 0
      BY <1>2, <1>6
    <3>2. /\ x <= Target => (51 * (x + size) + 99) \div 100 <= Target
          /\ x > Target => (51 * (x + size) + 99) \div 100 < x
      BY <3>1, SecondGoal
    <3> QED
      BY <1>8, <3>2
  <2>2. CASE x <= Target
    BY <2>1, <2>2
  <2>3. CASE ~(x <= Target)
    <3>1. s2 = 2
      BY <1>2, <1>5, <1>6, <2>3
    <3>2. x = Upto(1) /\ Total(2, Len(spans)) = Upto(N) - Upto(1)
      BY <3>1 DEF Total
    <3>3. Total(2, Len(spans)) = size
      BY <1>2, <1>6, <3>2
    <3> QED
      BY <1>0, <1>2, <1>6, <2>1, <2>3, <3>2, <3>3
  <2> QED
    BY <2>2, <2>3
<1> QED
  BY <1>1, <1>8, <1>9, PassBegins

\* The groups of the last pass stay, or the last two become one.
LEMMA LocateFills ==
    ASSUME ChunkingInv, SumsInv, FillInv, EndPass, at' = "locate"
    PROVE  ExcessBounded'
<1> DEFINE N == Len(spans)
           n == Len(starts)
<1>1. UNCHANGED spans /\ starts' = Merged
  BY PassEnds DEF EndPass
<1>2. /\ N \in Nat \ {0} /\ n \in Nat \ {0}
      /\ starts \in Seq(Nat \ {0}) /\ DOMAIN starts = 1 .. n
      /\ \A k \in 1 .. n : starts[k] \in 1 .. N
      /\ \A j, k \in 1 .. n : j < k => starts[j] < starts[k]
      /\ \A i \in 0 .. N : Upto(i) \in Nat
      /\ size = Upto(N) - Upto(starts[n] - 1)
  BY PassEnds
<1>3. /\ \A k \in 1 .. n - 1 :
            starts[k + 1] - 1 = starts[k] \/ Total(starts[k], starts[k + 1] - 1) <= Target
      /\ N = starts[n] \/ size <= Target
      /\ n > 1 /\ 2 * size < goal => 2 * size < Target
  BY GroupSizes
<1> HIDE DEF N, n
<1>4. size = Total(starts[n], N)
  BY <1>2 DEF Total
<1>5. ASSUME NEW k \in 1 .. n - 1
      PROVE  /\ starts[k + 1] - 1 \in Nat /\ starts[k] \in 1 .. starts[k + 1] - 1
             /\ Upto(starts[k + 1] - 1) \in Nat
  <2>1. k \in 1 .. n /\ k + 1 \in 1 .. n /\ k < k + 1
    BY <1>2
  <2>2. starts[k] \in 1 .. N /\ starts[k + 1] \in 1 .. N /\ starts[k] < starts[k + 1]
    BY <1>2, <2>1
  <2>3. starts[k + 1] - 1 \in 0 .. N
    BY <1>2, <2>2
  <2> QED
    BY <1>2, <2>2, <2>3
<1>6. ASSUME NEW st, NEW k \in 1 .. n - 1, st[k] = starts[k], st[k + 1] = starts[k + 1]
      PROVE  Within(st, k, st[k + 1] - 1)
  BY <1>3, <1>5, <1>6, WithinWhole
<1>7. CASE Merged = starts
  <2>1. ASSUME NEW k \in 1 .. n
        PROVE  Within(starts, k, IF k < n THEN starts[k + 1] - 1 ELSE N)
    <3>1. CASE k < n
      <4>1. k \in 1 .. n - 1
        BY <1>2, <3>1
      <4> QED
        BY <1>6, <3>1, <4>1
    <3>2. CASE ~(k < n)
      <4>1. k = n /\ N \in Nat /\ starts[n] \in 1 .. N /\ N \in 0 .. N
        BY <1>2, <3>2
      <4>2. Within(starts, n, N)
        BY <1>2, <1>3, <1>4, <4>1, WithinWhole
      <4> QED
        BY <3>2, <4>1, <4>2
    <3> QED
      BY <3>1, <3>2
  <2> QED
    BY <1>1, <1>2, <1>7, <2>1, ExcessNext DEF N, n
<1>8. CASE Merged # starts
  <2>1. n > 1 /\ 2 * size < Target /\ Merged = SubSeq(starts, 1, n - 1)
    BY <1>3, <1>8 DEF Merged, n
  <2>2. PICK st : st = Merged
    OBVIOUS
  <2>3. Len(st) = n - 1 /\ DOMAIN st = 1 .. n - 1 /\ \A k \in 1 .. n - 1 : st[k] = starts[k]
    BY <1>2, <2>1, <2>2 DEF n
  <2>4. ASSUME NEW k \in 1 .. n - 1
        PROVE  Within(st, k, IF k < n - 1 THEN st[k + 1] - 1 ELSE N)
    <3>1. CASE k < n - 1
      <4>1. k + 1 \in 1 .. n - 1
        BY <1>2, <3>1
      <4>2. st[k] = starts[k] /\ st[k + 1] = starts[k + 1]
        BY <2>3, <4>1
      <4> QED
        BY <1>6, <3>1, <4>2
    <3>2. CASE ~(k < n - 1)
      <4>1. k = n - 1 /\ k + 1 = n /\ st[k] = starts[k] /\ n \in 1 .. n /\ Len(st) = k
        BY <1>2, <2>3, <3>2
      <4>2. PICK m \in Nat : m = starts[n] - 1
        BY <1>5, <4>1
      <4>3. starts[n] \in 1 .. N /\ m + 1 = starts[n] /\ starts[k] \in 1 .. m
        BY <1>2, <1>5, <4>1, <4>2
      <4>4. m \in st[k] .. N
        BY <1>2, <4>1, <4>2, <4>3
      <4>5. m = st[k] \/ Total(st[k], m) <= Target
        BY <1>3, <4>1, <4>2
      <4>6. 2 * Total(m + 1, N) < Target
        BY <1>4, <2>1, <4>3
      <4>7. ~(k < Len(st))
        BY <4>1
      <4>8. Within(st, k, N)
        BY <4>4, <4>5, <4>6, <4>7 DEF Within
      <4> QED
        BY <3>2, <4>8
    <3> QED
      BY <3>1, <3>2
  <2> QED
    BY <1>1, <2>2, <2>3, <2>4, ExcessNext DEF N
<1> QED
  BY <1>7, <1>8

\* Every step of a run keeps the groups within the goal of their pass, or the bound.
LEMMA FillStep ==
    ChunkingInv /\ SumsInv /\ FillInv /\ ExcessBounded /\ [Next]_vars => FillInv' /\ ExcessBounded'
<1> SUFFICES ASSUME ChunkingInv, SumsInv, FillInv, ExcessBounded, [Next]_vars
             PROVE  FillInv' /\ ExcessBounded'
  OBVIOUS
<1>1. CASE Distribute
  BY <1>1, DistributeFills
<1>2. CASE Take
  <2>1. at' \in {"fill", "refill"}
    BY <1>2 DEF Take
  <2> QED
    BY <1>2, <2>1, TakeFills DEF ExcessBounded
<1>3. CASE EndPass
  <2>1. at' \in {"refill", "locate"}
    BY <1>3 DEF EndPass
  <2> QED
    BY <1>3, <2>1, RefillFills, LocateFills DEF FillInv, ExcessBounded
<1>4. CASE ReadPage \/ ShiftOffsets \/ ReadText \/ Gate \/ Sentence \/ Whole \/ Locate
  <2>1. at' \notin {"fill", "refill", "locate"}
    BY <1>4 DEF ReadPage, ShiftOffsets, ReadText, Gate, Onward, Sentence, Whole, Locate
  <2> QED
    BY <2>1 DEF FillInv, ExcessBounded
<1>5. CASE UNCHANGED vars
  BY <1>5 DEF vars, FillInv, ExcessBounded, GroupEnd, Total, TotalLength, Upto, Length, Last
<1> QED
  BY <1>1, <1>2, <1>3, <1>4, <1>5 DEF Next

\* However the sentences fall, and also after a second pass that collapses like
\* the first, a chunk is beyond the target by one sentence or a short tail only
\* (distribute_balanced, _greedy_fill_with_merge).
THEOREM ExcessBoundedTheorem == Spec => []ExcessBounded
<1>1. Init => SumsInv /\ FillInv /\ ExcessBounded
  BY DEF Init, SumsInv, FillInv, ExcessBounded
<1> QED
  BY <1>1, ChunkingInit, ChunkingStep, SumsStep, FillStep, PTL DEF Spec
=============================================================================
