--------------------------- MODULE ReadingProofs ---------------------------
(***************************************************************************)
(* Proofs about Listing and Locations.                                     *)
(*                                                                         *)
(* Listing: the place of an untied row is the number of rows in front of   *)
(* it, and a page holds exactly the untied rows whose place is one of the  *)
(* page's (SliceMembers).  Inserts only raise a place and deletes only     *)
(* lower it, so a row is on the wrong side of the pages read only if the   *)
(* history has a row to blame.                                             *)
(***************************************************************************)
EXTENDS Listing, Views, Locations, FiniteSetTheorems, TLAPS

\* The rows in front of r.
Before(r) == {q \in table : q.key < r.key}

\* No other row of the table has the key of r.
Alone(r) == \A q \in table \ {r} : q.key # r.key

LEMMA BeforeFinite ==
    ASSUME IsFiniteSet(table), table \subseteq Row, NEW r \in table
    PROVE  /\ IsFiniteSet(Before(r)) /\ Place(r) = Cardinality(Before(r))
           /\ Place(r) \in Nat /\ Cardinality(table) \in Nat
           /\ Place(r) < Cardinality(table)
           /\ IsFiniteSet(Before(r) \cup {r})
           /\ Cardinality(Before(r) \cup {r}) = Place(r) + 1
<1>1. Before(r) \in SUBSET table /\ r \notin Before(r) /\ r.key \in Int
  BY DEF Before, Row
<1>2. IsFiniteSet(Before(r)) /\ Place(r) = Cardinality(Before(r))
  BY <1>1, FS_Subset DEF Before, Place
<1>3. Place(r) \in Nat /\ Cardinality(table) \in Nat
  BY <1>2, FS_CardinalityType
<1>4. /\ IsFiniteSet(Before(r) \cup {r})
      /\ Cardinality(Before(r) \cup {r}) = Place(r) + 1
  BY <1>1, <1>2, FS_AddElement
<1>5. Before(r) \cup {r} \in SUBSET table
  BY <1>1
<1>6. Cardinality(Before(r) \cup {r}) <= Cardinality(table)
  BY <1>5, FS_Subset
<1> QED
  BY <1>2, <1>3, <1>4, <1>6

\* A leading part of the table holds the rows whose place is less than its size.
LEMMA LeadingRank ==
    ASSUME IsFiniteSet(table), table \subseteq Row, NEW r \in table, Alone(r),
           NEW rows, Leading(rows)
    PROVE  r \in rows <=> Place(r) < Cardinality(rows)
<1>1. rows \in SUBSET table
  BY DEF Leading
<1>2. IsFiniteSet(rows) /\ Cardinality(rows) \in Nat
  BY <1>1, FS_Subset, FS_CardinalityType
<1>3. \A q \in table : q.key \in Int
  BY DEF Row
<1> DEFINE front == Cardinality(Before(r))
<1>4. /\ Place(r) = front /\ front \in Nat /\ IsFiniteSet(Before(r))
      /\ Cardinality(Before(r) \cup {r}) = front + 1
  BY BeforeFinite
<1>5. CASE r \in rows
  <2>1. Before(r) \cup {r} \in SUBSET rows
    BY <1>3, <1>5 DEF Before, Leading
  <2>2. Cardinality(Before(r) \cup {r}) <= Cardinality(rows)
    BY <1>2, <2>1, FS_Subset
  <2> QED
    BY <1>2, <1>5, <1>4, <2>2
<1>6. CASE r \notin rows
  <2>1. ASSUME NEW q \in rows PROVE q \in Before(r)
    <3>1. q.key <= r.key /\ q \in table \ {r}
      BY <1>6 DEF Leading
    <3> QED
      BY <1>3, <3>1 DEF Alone, Before
  <2>2. rows \in SUBSET Before(r)
    BY <2>1
  <2>3. Cardinality(rows) <= Cardinality(Before(r))
    BY <2>2, BeforeFinite, FS_Subset
  <2> QED
    BY <1>2, <1>6, <1>4, <2>3
<1> QED
  BY <1>5, <1>6

\* A page holds the rows whose place is one of the page's.
LEMMA SliceMembers ==
    ASSUME IsFiniteSet(table), table \subseteq Row, NEW r \in table, Alone(r),
           NEW o \in Nat, NEW n \in Nat, NEW rows, IsSlice(rows, o, n)
    PROVE  r \in rows <=> o <= Place(r) /\ Place(r) < o + n
<1>1. PICK skipped \in SUBSET table, reached \in SUBSET table :
        /\ skipped \subseteq reached /\ Leading(skipped) /\ Leading(reached)
        /\ Cardinality(skipped) = IF o < Cardinality(table) THEN o ELSE Cardinality(table)
        /\ Cardinality(reached) = IF o + n < Cardinality(table) THEN o + n ELSE Cardinality(table)
        /\ rows = reached \ skipped
  BY DEF IsSlice
<1>2. Place(r) \in Nat /\ Cardinality(table) \in Nat /\ Place(r) < Cardinality(table)
  BY BeforeFinite
<1>3. r \in skipped <=> Place(r) < o
  BY <1>1, <1>2, LeadingRank
<1>4. r \in reached <=> Place(r) < o + n
  BY <1>1, <1>2, LeadingRank
<1> QED
  BY <1>1, <1>2, <1>3, <1>4

\* The pages have room for every row counted.
LEMMA PagesCover ==
    ASSUME NEW total \in Nat
    PROVE  Pages(total) \in Nat /\ total <= Pages(total) * PerPage
<1> DEFINE up == total + PerPage - 1
<1>1. PerPage \in Nat \ {0} /\ up \in Nat
  BY PerPageAssumption
<1>2. up = (PerPage * (up \div PerPage)) + (up % PerPage) /\ up % PerPage \in 0 .. PerPage - 1
      /\ up \div PerPage \in Nat
  BY <1>1
<1>3. total <= (up \div PerPage) * PerPage
  BY <1>1, <1>2
<1>4. CASE total = 0
  BY <1>1, <1>4 DEF Pages
<1>5. CASE total # 0
  BY <1>2, <1>3, <1>5 DEF Pages
<1> QED
  BY <1>4, <1>5

\* A page begins where the one before it ends.
LEMMA OffsetNext ==
    ASSUME NEW page \in Nat \ {0}
    PROVE  /\ Offset(page) \in Nat /\ Offset(page + 1) = Offset(page) + PerPage
           /\ Offset(page + 1) = page * PerPage /\ Offset(1) = 0
  BY PerPageAssumption DEF Offset
-----------------------------------------------------------------------------
\* What the typed rows of a scan at work say of one row.
LEMMA UntiedAlone ==
    ASSUME HistoryInv, Scanning, NEW r \in table, ~Tied(r)
    PROVE  Alone(r)
  BY DEF HistoryInv, Tied, Alone

\* The invariant holds of every initial state.
LEMMA ListingInitial == ListingInit => ListingInv
<1> SUFFICES ASSUME ListingInit PROVE ListingInv
  OBVIOUS
<1>1. ListingTypeOK
  <2>1. /\ table = {} /\ shown = {} /\ again = {} /\ start = {}
        /\ inserted = {} /\ removed = {} /\ late = {}
    BY DEF ListingInit
  <2>2. scan \in [at : {"idle"}, page : {1}, pages : {1}, total : {0}]
    BY DEF ListingInit, NoScan
  <2>3. list = "none" /\ filters = 0 /\ next = 1 /\ document \in BOOLEAN /\ fault \in BOOLEAN
    BY DEF ListingInit
  <2>4. \A rows \in {table, shown, again, start, inserted, removed, late} : rows = {}
    BY <2>1
  <2>5. \A rows \in {table, shown, again, start, inserted, removed, late} :
           rows \subseteq Row /\ \A r \in rows : r.id < next
    BY <2>4
  <2>6. scan \in [at : Stages \cup {"idle", "done", "404", "502"}, page : Nat \ {0},
                  pages : Nat, total : Nat]
    BY <2>2
  <2> QED
    BY <2>3, <2>5, <2>6 DEF ListingTypeOK
<1>2. IsFiniteSet(table)
  BY FS_EmptySet DEF ListingInit
<1>3. ~Scanning /\ scan.at = "idle"
  BY DEF ListingInit, Scanning, NoScan, Stages
<1>4. HistoryInv /\ RepeatedExplained
  BY <1>3 DEF ListingInit, HistoryInv, RepeatedExplained
<1> QED
  BY <1>1, <1>2, <1>3, <1>4 DEF ListingInv, UnseenInv, SeenInv, MissedExplained

\* The keys are integers.
LEMMA KeysInt ==
    ASSUME NEW l, NEW id \in Nat
    PROVE  Keys(l, id) \subseteq Int
  BY SortKeysAssumption DEF Keys

\* Rows made of ids and keys.
LEMMA RowsMade ==
    ASSUME NEW l, NEW low \in Nat, NEW high \in Nat, NEW ids \in SUBSET (low .. high),
           NEW key, \A i \in ids : key[i] \in Keys(l, i)
    PROVE  /\ {[id |-> i, key |-> key[i]] : i \in ids} \subseteq Row
           /\ IsFiniteSet({[id |-> i, key |-> key[i]] : i \in ids})
           /\ \A r \in {[id |-> i, key |-> key[i]] : i \in ids} : r.id \in ids
<1> DEFINE rows == {[id |-> i, key |-> key[i]] : i \in ids}
           make == [i \in ids |-> [id |-> i, key |-> key[i]]]
<1>1. \A i \in ids : i \in Nat /\ key[i] \in Int
  BY KeysInt
<1>2. rows \subseteq Row /\ \A r \in rows : r.id \in ids
  BY <1>1 DEF Row
<1>3. IsFiniteSet(low .. high)
  BY FS_Interval
<1>4. IsFiniteSet(ids)
  BY <1>3, FS_Subset
<1>5. make \in Surjection(ids, rows)
  BY DEF Surjection
<1>6. IsFiniteSet(rows)
  BY <1>4, <1>5, FS_Surjection
<1> QED
  BY <1>2, <1>6

\* A scan begins with nothing shown.
LEMMA OpenKeeps == ListingInv /\ Open => ListingInv'
<1> SUFFICES ASSUME ListingInv, Open PROVE ListingInv'
  OBVIOUS
<1>1. PICK n \in 0 .. MaxRows :
        /\ next' = n + 1
        /\ \E ids \in SUBSET (1 .. n) :
              \E key \in [ids -> UNION {Keys(list', i) : i \in ids}] :
                 /\ \A i \in ids : key[i] \in Keys(list', i)
                 /\ table' = {[id |-> i, key |-> key[i]] : i \in ids}
  BY DEF Open
<1>2. PICK ids \in SUBSET (1 .. n) :
        \E key \in [ids -> UNION {Keys(list', i) : i \in ids}] :
           /\ \A i \in ids : key[i] \in Keys(list', i)
           /\ table' = {[id |-> i, key |-> key[i]] : i \in ids}
  BY <1>1
<1>3. PICK key \in [ids -> UNION {Keys(list', i) : i \in ids}] :
        /\ \A i \in ids : key[i] \in Keys(list', i)
        /\ table' = {[id |-> i, key |-> key[i]] : i \in ids}
  BY <1>2
<1>4. n \in Nat /\ next' \in Nat \ {0}
  BY <1>1, BoundsAssumption
<1>5. table' \subseteq Row /\ IsFiniteSet(table') /\ \A r \in table' : r.id \in 1 .. n
  <2>1. 1 \in Nat /\ ids \in SUBSET (1 .. n) /\ \A i \in ids : key[i] \in Keys(list', i)
    BY <1>3
  <2>2. /\ {[id |-> i, key |-> key[i]] : i \in ids} \subseteq Row
        /\ IsFiniteSet({[id |-> i, key |-> key[i]] : i \in ids})
        /\ \A r \in {[id |-> i, key |-> key[i]] : i \in ids} : r.id \in ids
    BY <1>4, <2>1, RowsMade
  <2> QED
    BY <1>3, <2>2
<1>6. table' \subseteq Row /\ \A r \in table' : r.id < next'
  BY <1>1, <1>4, <1>5
<1>7. shown' = {} /\ again' = {} /\ late' = {} /\ inserted' = {} /\ removed' = {}
  BY DEF ListingInv, HistoryInv, Open, answerVars
<1>8. scan' \in [at : Stages, page : {1}, pages : {1}, total : {0}]
  BY DEF Open, NoScan, FirstStage, Stages
<1>9. list' \in Lists /\ filters' \in Nat /\ document' \in BOOLEAN /\ start' = table' /\ fault' = fault
  <2>1. list' \in Lists /\ start' = table' /\ fault' = fault
    BY DEF Open
  <2>2. filters' \in {0} \cup 0 .. MaxFilters /\ document' \in BOOLEAN
    BY DEF Open
  <2> QED
    BY <2>1, <2>2, BoundsAssumption
<1>10. ListingTypeOK'
  BY <1>4, <1>6, <1>7, <1>8, <1>9 DEF ListingInv, ListingTypeOK, Stages
<1>11. HistoryInv' /\ SeenInv' /\ RepeatedExplained' /\ MissedExplained'
  BY <1>7, <1>8, <1>9 DEF HistoryInv, SeenInv, RepeatedExplained, MissedExplained, Stages
<1>12. scan'.at \in {"exists", "count"} /\ scan'.page = 1
  BY DEF Open, NoScan, FirstStage
<1>13. ASSUME NEW r \in table' PROVE Place(r)' >= Offset(scan'.page)
  <2>1. {q \in table' : q.key < r.key} \in SUBSET table'
    OBVIOUS
  <2>2. Cardinality({q \in table' : q.key < r.key}) \in Nat
    BY <1>5, <2>1, FS_Subset, FS_CardinalityType
  <2>3. Offset(scan'.page) = 0
    BY <1>12, PerPageAssumption DEF Offset
  <2> QED
    BY <2>2, <2>3 DEF Place
<1>14. UnseenInv'
  BY <1>12, <1>13 DEF UnseenInv, Offset
<1> QED
  BY <1>5, <1>10, <1>11, <1>14 DEF ListingInv

\* A document that is looked for, or a statement that fails: nothing is read.
LEMMA MoveKeeps ==
    ASSUME ListingInv, Scanning, NEW at \in {"count", "404", "502"}, Goto(at),
           at = "count" => scan.at = "exists", fault' \in BOOLEAN,
           UNCHANGED <<list, filters, tableVars, answerVars>>
    PROVE  ListingInv'
<1>1. scan' \in [at : {at}, page : Nat \ {0}, pages : Nat, total : Nat] /\ scan'.page = scan.page
  BY DEF ListingInv, ListingTypeOK, Goto
<1>2. ListingTypeOK'
  BY <1>1 DEF ListingInv, ListingTypeOK, tableVars, answerVars, Stages
<1>3. HistoryInv' /\ RepeatedExplained'
  BY <1>1 DEF ListingInv, HistoryInv, RepeatedExplained, Tied, tableVars, answerVars, Scanning
<1>4. UnseenInv' /\ SeenInv'
  BY <1>1 DEF ListingInv, UnseenInv, SeenInv, Tied, Place, Offset, tableVars, answerVars, Scanning
<1>5. MissedExplained'
  BY <1>1 DEF MissedExplained
<1> QED
  BY <1>2, <1>3, <1>4, <1>5 DEF ListingInv, tableVars

\* A list that is found empty has shown everything; else the COUNT is above every place.
LEMMA CountKeeps == ListingInv /\ Count => ListingInv'
<1> SUFFICES ASSUME ListingInv, Count PROVE ListingInv'
  OBVIOUS
<1>1. /\ scan.at = "count" /\ Scanning /\ late' = {}
      /\ UNCHANGED <<list, filters, table, next, document, start, inserted, removed, answerVars, fault>>
  BY DEF Count, Scanning, Stages
<1>3. CASE list = "events" /\ table = {} /\ Advance(Pages(0))
  <2>1. scan' \in [at : {"done"}, page : Nat \ {0}, pages : Nat, total : Nat]
    <3>1. Pages(0) = 0
      BY <1>3 DEF Pages
    <3>2. scan.page \in Nat \ {0} /\ scan \in [at : Stages \cup {"idle", "done", "404", "502"},
                                           page : Nat \ {0}, pages : Nat, total : Nat]
      BY DEF ListingInv, ListingTypeOK
    <3>3. ~(scan.page + 1 <= 0)
      BY <3>2
    <3>4. scan' = [scan EXCEPT !.at = "done", !.page = @ + 1, !.pages = 0]
      BY <1>3, <3>1, <3>3 DEF Advance
    <3>5. scan' = [at |-> "done", page |-> scan.page + 1, pages |-> 0, total |-> scan.total]
      BY <3>2, <3>4
    <3>6. scan.page + 1 \in Nat \ {0} /\ scan.total \in Nat
      BY <3>2
    <3> QED
      BY <3>5, <3>6
  <2>2. ListingTypeOK'
    BY <1>1, <2>1 DEF ListingInv, ListingTypeOK, answerVars
  <2>3. HistoryInv' /\ RepeatedExplained'
    BY <1>1, <2>1 DEF ListingInv, HistoryInv, RepeatedExplained, Tied, answerVars, Scanning, Stages
  <2>4. UnseenInv' /\ SeenInv'
    BY <2>1 DEF UnseenInv, SeenInv, Scanning, Stages
  <2>5. MissedExplained'
    BY <1>1, <1>3 DEF ListingInv, HistoryInv, MissedExplained
  <2> QED
    BY <1>1, <2>2, <2>3, <2>4, <2>5 DEF ListingInv
<1>4. CASE scan' = [scan EXCEPT !.at = "select", !.total = Cardinality(table)]
  <2>1. Cardinality(table) \in Nat
    BY FS_CardinalityType DEF ListingInv
  <2>2. /\ scan' \in [at : {"select"}, page : Nat \ {0}, pages : Nat, total : Nat]
        /\ scan'.page = scan.page /\ scan'.total = Cardinality(table)
    BY <1>4, <2>1 DEF ListingInv, ListingTypeOK
  <2>3. ListingTypeOK'
    BY <1>1, <2>2 DEF ListingInv, ListingTypeOK, answerVars, Stages
  <2>4. HistoryInv' /\ RepeatedExplained'
    BY <1>1, <2>2 DEF ListingInv, HistoryInv, RepeatedExplained, Tied, answerVars, Scanning
  <2>5. SeenInv'
    BY <1>1, <2>2 DEF ListingInv, SeenInv, Tied, Place, Offset, answerVars, Scanning
  <2>6. \A r \in table : Place(r) < Cardinality(table)
    BY BeforeFinite DEF ListingInv, ListingTypeOK
  <2>7. UnseenInv'
    BY <1>1, <2>2, <2>6 DEF ListingInv, UnseenInv, Tied, Place, Offset, answerVars, Scanning
  <2>8. MissedExplained'
    BY <2>2 DEF MissedExplained
  <2> QED
    BY <1>1, <2>3, <2>4, <2>5, <2>7, <2>8 DEF ListingInv
<1> QED
  BY <1>3, <1>4 DEF Count

\* The rows of a page follow those of the page before; the last page ends where
\* the table ended when it was counted.
LEMMA SelectKeeps == ListingInv /\ Select => ListingInv'
<1> SUFFICES ASSUME ListingInv, Select PROVE ListingInv'
  OBVIOUS
<1>1. /\ scan.at = "select" /\ Scanning
      /\ UNCHANGED <<list, filters, tableVars, fault>>
  BY DEF Select, Scanning, Stages
<1>2. CASE Goto("502") /\ UNCHANGED answerVars
  BY <1>1, <1>2, MoveKeeps DEF ListingInv, ListingTypeOK
<1>3. ASSUME NEW rows \in SUBSET table, IsSlice(rows, Offset(scan.page), PerPage),
             shown' = shown \cup rows, again' = again \cup (shown \cap rows),
             Advance(Pages(scan.total))
      PROVE  ListingInv'
  <2> DEFINE page == scan.page
             total == scan.total
  <2>1. scan \in [at : Stages \cup {"idle", "done", "404", "502"}, page : Nat \ {0},
                  pages : Nat, total : Nat]
    BY DEF ListingInv, ListingTypeOK
  <2>2. page \in Nat \ {0} /\ total \in Nat /\ Pages(total) \in Nat /\ total <= Pages(total) * PerPage
    BY <2>1, PagesCover
  <2>3. /\ Offset(page) \in Nat /\ Offset(page + 1) = Offset(page) + PerPage
        /\ Offset(page + 1) = page * PerPage
    BY <2>2, OffsetNext
  <2>4. PerPage \in Nat \ {0}
    BY PerPageAssumption
  <2>5. /\ scan' = [at |-> scan'.at, page |-> page + 1, pages |-> Pages(total), total |-> total]
        /\ scan'.at \in {"exists", "count", "done"}
        /\ scan'.at = "done" => Pages(total) <= page
    <3>1. scan' = [scan EXCEPT !.at = IF page + 1 <= Pages(total) THEN FirstStage(list) ELSE "done",
                               !.page = @ + 1, !.pages = Pages(total)]
      BY <1>3 DEF Advance
    <3>2. CASE page + 1 <= Pages(total)
      <4>1. scan' = [at |-> FirstStage(list), page |-> page + 1, pages |-> Pages(total), total |-> total]
        BY <2>1, <3>1, <3>2
      <4> QED
        BY <4>1 DEF FirstStage
    <3>3. CASE ~(page + 1 <= Pages(total))
      <4>1. scan' = [at |-> "done", page |-> page + 1, pages |-> Pages(total), total |-> total]
        BY <2>1, <3>1, <3>3
      <4> QED
        BY <2>2, <3>3, <4>1
    <3> QED
      BY <3>2, <3>3
  <2>6. scan'.page = page + 1 /\ scan'.at # "select" /\ scan'.at # "idle"
    BY <2>5
  <2>7. /\ UNCHANGED <<list, filters, table, next, document, start, inserted, removed, late, fault>>
        /\ \A r : Tied(r)' <=> Tied(r)
        /\ \A r : Place(r)' = Place(r)
    BY <1>1 DEF tableVars, Tied, Place
  <2>8. table \subseteq Row /\ IsFiniteSet(table) /\ \A r \in table : Place(r) \in Nat
    BY BeforeFinite DEF ListingInv, ListingTypeOK
  <2>9. ASSUME NEW r \in table, ~Tied(r)
        PROVE  r \in rows <=> Offset(page) <= Place(r) /\ Place(r) < Offset(page + 1)
    <3>1. Alone(r)
      BY <1>1, <2>9, UntiedAlone DEF ListingInv
    <3> QED
      BY <1>3, <2>3, <2>4, <2>8, <3>1, SliceMembers
  <2>10. ListingTypeOK'
    <3>1. scan' \in [at : Stages \cup {"idle", "done", "404", "502"}, page : Nat \ {0},
                     pages : Nat, total : Nat]
      <4>1. scan'.at \in Stages \cup {"idle", "done", "404", "502"} /\ page + 1 \in Nat \ {0}
        BY <2>2, <2>5 DEF Stages
      <4> QED
        BY <2>2, <2>5, <4>1
    <3>2. \A q \in rows : q.id < next
      BY DEF ListingInv, ListingTypeOK
    <3>3. shown' \subseteq Row /\ again' \subseteq Row
      BY <1>3, <2>8 DEF ListingInv, ListingTypeOK
    <3>4. \A r \in shown' \cup again' : r.id < next
      BY <1>3, <3>2 DEF ListingInv, ListingTypeOK
    <3> QED
      BY <2>7, <3>1, <3>3, <3>4 DEF ListingInv, ListingTypeOK
  <2>11. HistoryInv'
    <3>1. rows \subseteq start \cup inserted
      BY <1>1 DEF ListingInv, HistoryInv
    <3> QED
      BY <1>1, <1>3, <2>6, <2>7, <3>1 DEF ListingInv, HistoryInv, Stages
  <2>12. ASSUME NEW r \in (start \cap table) \ shown', ~Tied(r),
                \A q \in removed : ~(q.key < r.key)
         PROVE  /\ Place(r) >= Offset(page + 1)
                /\ Place(r) < total \/ \E q \in late : q.key < r.key
    <3>1. r \notin shown /\ r \notin rows
      BY <1>3, <2>12
    <3>2. /\ Place(r) >= Offset(page)
          /\ Place(r) < total \/ \E q \in late : q.key < r.key
      BY <1>1, <2>12, <3>1 DEF ListingInv, UnseenInv
    <3> QED
      BY <2>3, <2>4, <2>8, <2>9, <2>12, <3>1, <3>2
  <2>13. UnseenInv'
    BY <2>6, <2>7, <2>12 DEF UnseenInv
  <2>14. ASSUME NEW r \in shown' \cap table, ~Tied(r), \A q \in inserted : ~(q.key < r.key)
         PROVE  Place(r) < Offset(page + 1)
    <3>1. r \in shown => Place(r) < Offset(page)
      BY <1>1, <2>14 DEF ListingInv, SeenInv
    <3>2. r \in rows => Place(r) < Offset(page + 1)
      BY <2>9, <2>14
    <3> QED
      BY <1>3, <2>3, <2>4, <2>8, <3>1, <3>2
  <2>15. SeenInv'
    BY <2>6, <2>7, <2>14 DEF SeenInv
  <2>16. RepeatedExplained'
    <3>1. ASSUME NEW r \in shown \cap rows, ~Tied(r), \A q \in inserted : ~(q.key < r.key)
          PROVE  FALSE
      <4>1. Place(r) < Offset(page)
        BY <1>1, <3>1 DEF ListingInv, SeenInv
      <4>2. Offset(page) <= Place(r)
        BY <2>9, <3>1
      <4> QED
        BY <2>3, <2>8, <4>1, <4>2
    <3> QED
      BY <1>3, <2>7, <3>1 DEF ListingInv, RepeatedExplained
  <2>17. MissedExplained'
    <3>1. SUFFICES ASSUME scan'.at = "done", NEW r \in (start \ removed) \ shown', ~Tied(r),
                          \A q \in removed : ~(q.key < r.key)
                   PROVE  \E q \in late : q.key < r.key
      BY <2>7 DEF MissedExplained
    <3>2. r \in (start \cap table) \ shown'
      BY <1>1, <3>1 DEF ListingInv, HistoryInv
    <3>3. /\ Place(r) >= Offset(page + 1)
          /\ Place(r) < total \/ \E q \in late : q.key < r.key
      BY <2>12, <3>1, <3>2
    <3>4. Pages(total) <= page
      BY <2>5, <3>1
    <3>5. Pages(total) * PerPage <= page * PerPage
      BY <2>2, <2>4, <3>4
    <3>6. total <= Offset(page + 1)
      BY <2>2, <2>3, <2>4, <3>5
    <3> QED
      BY <2>2, <2>3, <2>4, <2>8, <3>2, <3>3, <3>6
  <2> QED
    BY <2>7, <2>8, <2>10, <2>11, <2>13, <2>15, <2>16, <2>17 DEF ListingInv
<1> QED
  BY <1>2, <1>3 DEF Select

\* Inserts only raise places, deletes only lower them, and both are in the history.
LEMMA WriteKeeps ==
    ASSUME ListingInv, Scanning, NEW gone \in SUBSET table, NEW new, Write(gone, new),
           new \subseteq Row, IsFiniteSet(new), next' \in Nat, next <= next',
           \A r \in new : next <= r.id /\ r.id < next',
           UNCHANGED <<list, filters, scan, shown, again, start, fault>>, document' \in BOOLEAN
    PROVE  ListingInv'
<1>1. /\ table' = (table \ gone) \cup new /\ removed' = removed \cup gone
      /\ inserted' = inserted \cup new /\ late' = late \cup new
  BY DEF Write
<1>2. /\ next \in Nat /\ table \subseteq Row /\ shown \subseteq Row /\ again \subseteq Row
      /\ start \subseteq Row /\ inserted \subseteq Row /\ removed \subseteq Row /\ late \subseteq Row
      /\ \A r \in table \cup shown \cup again \cup start \cup inserted \cup removed \cup late :
            r \in Row /\ r.id \in Nat /\ r.id < next
  BY DEF ListingInv, ListingTypeOK, Row
<1>3. \A r \in new : r.id \in Nat
  BY DEF Row
<1>4. \A r \in table \cup shown \cup start \cup inserted \cup removed : r \notin new
  BY <1>2, <1>3
<1>5. ListingTypeOK'
  <2>1. /\ table' \subseteq Row /\ shown' \subseteq Row /\ again' \subseteq Row /\ start' \subseteq Row
        /\ inserted' \subseteq Row /\ removed' \subseteq Row /\ late' \subseteq Row
    BY <1>1, <1>2
  <2>2. \A r \in table' \cup shown' \cup again' \cup start' \cup inserted' \cup removed' \cup late' :
           r.id < next'
    BY <1>1, <1>2, <1>3
  <2>3. next' \in Nat \ {0}
    BY <1>2 DEF ListingInv, ListingTypeOK
  <2> QED
    BY <2>1, <2>2, <2>3 DEF ListingInv, ListingTypeOK
<1>6. IsFiniteSet(table')
  <2>1. IsFiniteSet(table \ gone)
    BY FS_Subset DEF ListingInv
  <2> QED
    BY <1>1, <2>1, FS_Union
<1>7. HistoryInv'
  <2>1. scan'.at # "idle" /\ list' \in Lists /\ scan' = scan
    BY DEF ListingInv, HistoryInv, Scanning, Stages
  <2>2. table' = (start' \cup inserted') \ removed'
    BY <1>1, <1>4 DEF ListingInv, HistoryInv
  <2> QED
    BY <1>1, <2>1, <2>2 DEF ListingInv, HistoryInv
<1>8. \A r : Tied(r) => Tied(r)'
  BY <1>1 DEF Tied
<1>9. ASSUME NEW r \in table, r \in table', \A q \in gone : ~(q.key < r.key)
      PROVE  Place(r) <= Place(r)'
  <2>1. {q \in table : q.key < r.key} \in SUBSET {q \in table' : q.key < r.key}
    BY <1>1, <1>9
  <2>2. {q \in table' : q.key < r.key} \in SUBSET table'
    OBVIOUS
  <2> QED
    BY <1>6, <2>1, <2>2, FS_Subset DEF Place
<1>10. ASSUME NEW r \in table, r \in table', \A q \in new : ~(q.key < r.key)
       PROVE  Place(r)' <= Place(r)
  <2>1. {q \in table' : q.key < r.key} \in SUBSET {q \in table : q.key < r.key}
    BY <1>1, <1>10
  <2>2. {q \in table : q.key < r.key} \in SUBSET table /\ IsFiniteSet(table)
    BY DEF ListingInv
  <2> QED
    BY <2>1, <2>2, FS_Subset DEF Place
<1>11. \A r \in table : Place(r) \in Nat
  BY <1>2, BeforeFinite DEF ListingInv
<1>12. \A r \in table' : Place(r)' \in Nat
  <2>1. \A r \in table' : {q \in table' : q.key < r.key} \in SUBSET table'
    OBVIOUS
  <2> QED
    BY <1>6, <2>1, FS_Subset, FS_CardinalityType DEF Place
<1>13. Offset(scan.page) \in Nat /\ scan.total \in Nat
  BY OffsetNext DEF ListingInv, ListingTypeOK
<1>14. UnseenInv'
  <2>1. SUFFICES ASSUME NEW r \in (start' \cap table') \ shown', ~Tied(r)',
                        \A q \in removed' : ~(q.key < r.key)
                 PROVE  /\ Place(r)' >= Offset(scan.page)
                        /\ scan.at = "select" => Place(r)' < scan.total \/ \E q \in late' : q.key < r.key
    BY DEF UnseenInv, Offset
  <2>2. r \in (start \cap table) \ shown /\ ~Tied(r) /\ r \in table'
    BY <1>1, <1>4, <1>8, <2>1
  <2>3. /\ \A q \in removed : ~(q.key < r.key)
        /\ \A q \in gone : ~(q.key < r.key)
    BY <1>1, <2>1
  <2>4. /\ Place(r) >= Offset(scan.page)
        /\ scan.at = "select" => Place(r) < scan.total \/ \E q \in late : q.key < r.key
    BY <2>2, <2>3 DEF ListingInv, UnseenInv
  <2>5. Place(r) <= Place(r)' /\ Place(r) \in Nat /\ Place(r)' \in Nat
    BY <1>9, <1>11, <1>12, <2>2, <2>3
  <2>6. Place(r)' >= Offset(scan.page)
    BY <1>13, <2>4, <2>5
  <2>7. ASSUME scan.at = "select", \A q \in late' : ~(q.key < r.key)
        PROVE  Place(r)' < scan.total
    <3>1. Place(r)' <= Place(r)
      BY <1>1, <1>10, <2>2, <2>7
    <3>2. Place(r) < scan.total
      BY <1>1, <2>4, <2>7
    <3> QED
      BY <1>13, <2>5, <3>1, <3>2
  <2> QED
    BY <2>6, <2>7
<1>15. SeenInv'
  <2>1. SUFFICES ASSUME NEW r \in shown' \cap table', ~Tied(r)',
                        \A q \in inserted' : ~(q.key < r.key)
                 PROVE  Place(r)' < Offset(scan.page)
    BY DEF SeenInv, Offset
  <2>2. r \in shown \cap table /\ ~Tied(r) /\ r \in table'
    BY <1>1, <1>4, <1>8, <2>1
  <2>3. /\ \A q \in inserted : ~(q.key < r.key)
        /\ \A q \in new : ~(q.key < r.key)
    BY <1>1, <2>1
  <2>4. Place(r) < Offset(scan.page)
    BY <2>2, <2>3 DEF ListingInv, SeenInv
  <2> QED
    BY <1>10, <1>11, <1>12, <1>13, <2>2, <2>3, <2>4
<1>16. RepeatedExplained' /\ MissedExplained'
  BY <1>1, <1>8 DEF ListingInv, RepeatedExplained, MissedExplained, Scanning, Stages
<1> QED
  BY <1>5, <1>6, <1>7, <1>14, <1>15, <1>16 DEF ListingInv

LEMMA InsertKeeps == ListingInv /\ Insert => ListingInv'
<1> SUFFICES ASSUME ListingInv, Insert PROVE ListingInv'
  OBVIOUS
<1>1. PICK k \in Keys(list, next) : Write({}, {[id |-> next, key |-> k]})
  BY DEF Insert
<1>2. next \in Nat /\ document \in BOOLEAN
  BY DEF ListingInv, ListingTypeOK
<1>3. next' = next + 1 /\ Scanning /\ UNCHANGED <<list, filters, document, scan, shown, again, start, fault>>
  BY DEF Insert, answerVars
<1>4. k \in Int
  BY <1>2, KeysInt
<1>5. {[id |-> next, key |-> k]} \subseteq Row /\ IsFiniteSet({[id |-> next, key |-> k]})
  <2>1. [id |-> next, key |-> k] \in Row
    BY <1>2, <1>4 DEF Row
  <2> QED
    BY <2>1, FS_Singleton
<1> QED
  BY <1>1, <1>2, <1>3, <1>5, WriteKeeps

LEMMA StoreRowsKeeps == ListingInv /\ StoreRows => ListingInv'
<1> SUFFICES ASSUME ListingInv, StoreRows PROVE ListingInv'
  OBVIOUS
<1>1. next \in Nat \ {0} /\ document \in BOOLEAN
  BY DEF ListingInv, ListingTypeOK
<1>2. PICK last \in next - 1 .. MaxRows :
        \E key \in [next .. last -> Keys(list, next)], gone \in SUBSET table :
           /\ Write(gone, {[id |-> i, key |-> key[i]] : i \in next .. last})
           /\ next' = last + 1
  BY DEF StoreRows
<1>3. PICK key \in [next .. last -> Keys(list, next)], gone \in SUBSET table :
        /\ Write(gone, {[id |-> i, key |-> key[i]] : i \in next .. last})
        /\ next' = last + 1
  BY <1>2
<1>4. last \in Nat /\ next' \in Nat /\ next <= next'
  BY <1>1, <1>3, BoundsAssumption
<1>5. \A i \in next .. last : key[i] \in Keys(list, i)
  BY DEF StoreRows, Keys
<1> DEFINE new == {[id |-> i, key |-> key[i]] : i \in next .. last}
<1>6. new \subseteq Row /\ IsFiniteSet(new) /\ \A r \in new : r.id \in next .. last
  <2> DEFINE ids == next .. last
  <2>1. next \in Nat /\ last \in Nat /\ ids \in SUBSET (next .. last)
    BY <1>1, <1>4
  <2>2. \A i \in ids : key[i] \in Keys(list, i)
    BY <1>5
  <2> HIDE DEF ids
  <2>3. /\ {[id |-> i, key |-> key[i]] : i \in ids} \subseteq Row
        /\ IsFiniteSet({[id |-> i, key |-> key[i]] : i \in ids})
        /\ \A r \in {[id |-> i, key |-> key[i]] : i \in ids} : r.id \in ids
    BY <2>1, <2>2, RowsMade
  <2> QED
    BY <2>3 DEF ids
<1>7. \A r \in new : next <= r.id /\ r.id < next'
  BY <1>1, <1>3, <1>4, <1>6
<1>8. Scanning /\ UNCHANGED <<list, filters, document, scan, shown, again, start, fault>>
  BY DEF StoreRows, answerVars
<1>9. Write(gone, new)
  BY <1>3
<1> HIDE DEF new
<1> QED
  BY <1>1, <1>4, <1>6, <1>7, <1>8, <1>9, WriteKeeps

\* A delete, of some rows or of all.
LEMMA DeleteKeeps ==
    ASSUME ListingInv, Scanning, NEW gone \in SUBSET table, Write(gone, {}), next' = next,
           UNCHANGED <<list, filters, scan, shown, again, start, fault>>, document' \in BOOLEAN
    PROVE  ListingInv'
<1>1. next \in Nat
  BY DEF ListingInv, ListingTypeOK
<1>2. {} \subseteq Row /\ IsFiniteSet({})
  BY FS_EmptySet
<1> QED
  BY <1>1, <1>2, WriteKeeps

LEMMA DeletesKeep == ListingInv /\ (DeleteRows \/ DeleteDocument) => ListingInv'
<1>1. ASSUME ListingInv, DeleteRows PROVE ListingInv'
  <2>1. PICK gone \in SUBSET table : Write(gone, {})
    BY <1>1 DEF DeleteRows
  <2>2. Scanning /\ UNCHANGED <<list, filters, next, document, scan, shown, again, start, fault>>
    BY <1>1 DEF DeleteRows, answerVars
  <2>3. document' \in BOOLEAN
    BY <1>1, <2>2 DEF ListingInv, ListingTypeOK
  <2> QED
    BY <1>1, <2>1, <2>2, <2>3, DeleteKeeps
<1>2. ASSUME ListingInv, DeleteDocument PROVE ListingInv'
  <2>1. /\ Scanning /\ Write(table, {}) /\ document' \in BOOLEAN
        /\ UNCHANGED <<list, filters, next, scan, shown, again, start, fault>>
    BY <1>2 DEF DeleteDocument, answerVars
  <2> QED
    BY <1>2, <2>1, DeleteKeeps
<1> QED
  BY <1>1, <1>2

\* Every step keeps the invariant.
LEMMA ListingStep == ListingInv /\ [ListingNext]_listingVars => ListingInv'
<1> SUFFICES ASSUME ListingInv, [ListingNext]_listingVars PROVE ListingInv'
  OBVIOUS
<1>1. CASE CheckDocument
  BY <1>1, MoveKeeps DEF CheckDocument, Scanning, Stages, ListingInv, ListingTypeOK
<1>2. CASE Fault
  BY <1>2, MoveKeeps DEF Fault
<1>3. CASE UNCHANGED listingVars
  <2>1. ListingTypeOK' /\ HistoryInv' /\ IsFiniteSet(table')
    BY <1>3 DEF listingVars, ListingInv, ListingTypeOK, HistoryInv, Scanning
  <2>2. UnseenInv' /\ SeenInv'
    BY <1>3 DEF listingVars, ListingInv, UnseenInv, SeenInv, Tied, Place, Offset, Scanning
  <2>3. MissedExplained' /\ RepeatedExplained'
    BY <1>3 DEF listingVars, ListingInv, MissedExplained, RepeatedExplained, Tied
  <2> QED
    BY <2>1, <2>2, <2>3 DEF ListingInv
<1> QED
  BY <1>1, <1>2, <1>3, OpenKeeps, CountKeeps, SelectKeeps, InsertKeeps, StoreRowsKeeps, DeletesKeep
     DEF ListingNext, Respond

THEOREM ListingSafe == ListingSpec => []ListingInv
<1> QED
  BY ListingInitial, ListingStep, PTL DEF ListingSpec

\* timeline fetchAllEvents, linea-tiempo.js:198-219: a row that was there throughout is
\* missed only for a row deleted or lately inserted in front of it, or for a tie.
THEOREM MissedExplainedTheorem == ListingSpec => []MissedExplained
<1>1. ListingInv => MissedExplained
  BY DEF ListingInv
<1> QED
  BY <1>1, ListingSafe, PTL

\* The pages of documents.py and events_v2.py: a row is shown twice only for a row
\* inserted in front of it, or for a tie.
THEOREM RepeatedExplainedTheorem == ListingSpec => []RepeatedExplained
<1>1. ListingInv => RepeatedExplained
  BY DEF ListingInv
<1> QED
  BY <1>1, ListingSafe, PTL

\* documents.py:873-888, events_v2.py:84-101: the numbers of the parameters are right
\* in every list, for every number of filters, but in the list of documents with one.
THEOREM ErrorsExplainedTheorem == ListingSpec => []ErrorsExplained
<1>1. ListingInit => ErrorsExplained
  BY DEF ListingInit, ErrorsExplained, NoScan
<1>2. ListingTypeOK /\ ErrorsExplained /\ [ListingNext]_listingVars => ErrorsExplained'
  <2> SUFFICES ASSUME ListingTypeOK, ErrorsExplained, [ListingNext]_listingVars PROVE ErrorsExplained'
    OBVIOUS
  <2>1. CASE Open
    BY <2>1 DEF Open, NoScan, FirstStage, ErrorsExplained
  <2>2. CASE Fault
    BY <2>2 DEF Fault, ErrorsExplained
  <2>3. CASE CheckDocument
    BY <2>3 DEF CheckDocument, Goto, ErrorsExplained, ListingTypeOK
  <2>4. CASE Count
    BY <2>4 DEF Count, Advance, FirstStage, ErrorsExplained, ListingTypeOK
  <2>5. CASE Select
    <3>1. CASE Advance(Pages(scan.total))
      BY <3>1 DEF Advance, FirstStage, ErrorsExplained, ListingTypeOK
    <3>2. CASE ~Acceptable /\ UNCHANGED <<list, filters>>
      <4>1. WhereParams \in Nat
        BY DEF WhereParams, ListingTypeOK
      <4>2. list # "documents" => Acceptable
        BY <4>1 DEF Acceptable, LimitAt, OffsetAt
      <4>3. list = "documents" /\ filters = 0 => Acceptable
        BY DEF Acceptable, LimitAt, OffsetAt, WhereParams
      <4> QED
        BY <3>2, <4>2, <4>3 DEF ErrorsExplained, ListingTypeOK
    <3> QED
      BY <2>5, <3>1, <3>2 DEF Select
  <2>6. CASE UNCHANGED listingVars
    BY <2>6 DEF listingVars, ErrorsExplained
  <2>7. CASE Insert \/ StoreRows \/ DeleteRows \/ DeleteDocument
    BY <2>7 DEF Insert, StoreRows, DeleteRows, DeleteDocument, ErrorsExplained
  <2> QED
    BY <2>1, <2>2, <2>3, <2>4, <2>5, <2>6, <2>7 DEF ListingNext, Respond
<1>3. ListingInv => ListingTypeOK
  BY DEF ListingInv
<1> QED
  BY <1>1, <1>2, <1>3, ListingSafe, PTL DEF ListingSpec
-----------------------------------------------------------------------------
\* Locations, their rows and the runs of the backfill.
Placed == [id : Nat, batch : Batches, name : Names, at : Anchors \cup {Null}, found : Nat]
RunRow(n) ==
    [at : {"idle", "next", "update", "over", "broken"}, names : SUBSET Names,
     name : Names \cup {""}, answer : Anchors \cup {Null}, limit : Nat,
     selected : SUBSET Names, unknown : SUBSET Names, present : SUBSET (1 .. n)]

\* The type invariant, taken apart.
LEMMA LocationsTyped ==
    LocationsTypeOK <=>
        /\ newest \in Nat
        /\ locations \subseteq Placed
        /\ \A l \in locations : l.id \in 1 .. newest /\ l.found \in 0 .. newest + 1
        /\ run \in [Runs -> RunRow(newest)]
        /\ \A r \in Runs : run[r].at = "update" => run[r].answer \in Anchors
        /\ map \subseteq [id : 1 .. newest, at : Anchors]
<1>1. ASSUME newest \in Nat
      PROVE  locations \subseteq [id : 1 .. newest, batch : Batches, name : Names,
                                  at : Anchors \cup {Null}, found : 0 .. newest + 1]
             <=> locations \subseteq Placed
                 /\ \A l \in locations : l.id \in 1 .. newest /\ l.found \in 0 .. newest + 1
  BY <1>1 DEF Placed
<1> QED
  BY <1>1 DEF LocationsTypeOK, RunRow

LEMMA LocationsTypedNext ==
    LocationsTypeOK' <=>
        /\ newest' \in Nat
        /\ locations' \subseteq Placed
        /\ \A l \in locations' : l.id \in 1 .. newest' /\ l.found \in 0 .. newest' + 1
        /\ run' \in [Runs -> RunRow(newest')]
        /\ \A r \in Runs : run'[r].at = "update" => run'[r].answer \in Anchors
        /\ map' \subseteq [id : 1 .. newest', at : Anchors]
<1>1. ASSUME newest' \in Nat
      PROVE  locations' \subseteq [id : 1 .. newest', batch : Batches, name : Names,
                                   at : Anchors \cup {Null}, found : 0 .. newest' + 1]
             <=> locations' \subseteq Placed
                 /\ \A l \in locations' : l.id \in 1 .. newest' /\ l.found \in 0 .. newest' + 1
  BY <1>1 DEF Placed
<1> QED
  BY <1>1 DEF LocationsTypeOK, RunRow

LEMMA LocationsInitial == LocationsInit => LocationsInv
<1> SUFFICES ASSUME LocationsInit PROVE LocationsInv
  OBVIOUS
<1>1. locations = {} /\ newest = 0 /\ map = {} /\ run = [r \in Runs |-> NotRun]
  BY DEF LocationsInit
<1>2. NotRun \in RunRow(newest) /\ NotRun.at = "idle"
  BY DEF NotRun, RunRow, Null
<1>3. LocationsTypeOK
  BY <1>1, <1>2, LocationsTyped
<1>4. IsFiniteSet(locations)
  BY <1>1, FS_EmptySet
<1>5. UniqueIds /\ FoundTogether /\ CoordinatesExplained /\ MapAgrees
  BY <1>1 DEF UniqueIds, FoundTogether, CoordinatesExplained, MapAgrees, Unlocated
<1>6. \A r \in Runs : RunInv(r)
  BY <1>1, <1>2 DEF RunInv
<1> QED
  BY <1>3, <1>4, <1>5, <1>6 DEF LocationsInv

\* A new location is younger than everything that was found, selected or shown.
LEMMA StoreLocationsKeeps == LocationsInv /\ StoreLocations => LocationsInv'
<1> SUFFICES ASSUME LocationsInv, StoreLocations PROVE LocationsInv'
  OBVIOUS
<1>1. PICK b \in Batches, names \in {{}} \cup {{n} : n \in Names} :
        LET old == {l \in locations : l.batch = b}
        IN  /\ newest' = newest + Cardinality(names)
            /\ locations' = (locations \ old) \cup
                   {[id |-> newest', batch |-> b, name |-> n, at |-> Null, found |-> 0] : n \in names}
  BY DEF StoreLocations
<1> DEFINE old == {l \in locations : l.batch = b}
           new == {[id |-> newest', batch |-> b, name |-> n, at |-> Null, found |-> 0] : n \in names}
<1>2. UNCHANGED <<run, map>> /\ locations' = (locations \ old) \cup new
  BY <1>1 DEF StoreLocations
<1>3. /\ newest \in Nat /\ locations \subseteq Placed
      /\ \A l \in locations : l.id \in 1 .. newest /\ l.found \in 0 .. newest + 1
      /\ run \in [Runs -> RunRow(newest)]
      /\ \A r \in Runs : run[r].at = "update" => run[r].answer \in Anchors
      /\ map \subseteq [id : 1 .. newest, at : Anchors]
  BY LocationsTyped DEF LocationsInv
<1>4. /\ newest' \in Nat /\ newest <= newest'
      /\ new \subseteq Placed /\ IsFiniteSet(new)
      /\ \A l \in new : l.id = newest + 1 /\ newest' = newest + 1 /\ l.at = Null /\ l.found = 0
      /\ \A k, l \in new : k = l
  <2>1. CASE names = {}
    <3>1. Cardinality(names) = 0 /\ new = {}
      BY <2>1, FS_EmptySet
    <3> HIDE DEF new
    <3>2. IsFiniteSet(new)
      BY <3>1, FS_EmptySet
    <3>3. newest' = newest
      BY <1>1, <1>3, <3>1
    <3> QED
      BY <1>3, <3>1, <3>2, <3>3
  <2>2. CASE names # {}
    <3>1. PICK n \in Names : names = {n}
      BY <2>2
    <3>2. Cardinality(names) = 1
      BY <3>1, FS_Singleton
    <3>3. newest' = newest + 1
      BY <1>1, <3>2
    <3> DEFINE row == [id |-> newest', batch |-> b, name |-> n, at |-> Null, found |-> 0]
    <3>4. new = {row}
      BY <3>1
    <3> HIDE DEF row
    <3>5. IsFiniteSet(new)
      BY <3>4, FS_Singleton
    <3> USE DEF row
    <3> QED
      BY <1>3, <3>3, <3>4, <3>5 DEF Placed, Null
  <2> QED
    BY <2>1, <2>2
<1> HIDE DEF new, old
<1>5. \A l \in locations' : l \in locations \/ l \in new
  BY <1>2
<1>6. Unlocated' \subseteq Unlocated \cup new /\ \A l \in locations' \ Unlocated' : l \in locations \ Unlocated
  BY <1>4, <1>5 DEF Unlocated
<1>7. LocationsTypeOK'
  <2>1. \A l \in locations' : l.id \in 1 .. newest' /\ l.found \in 0 .. newest' + 1
    BY <1>3, <1>4, <1>5
  <2>2. run' \in [Runs -> RunRow(newest')]
    <3>1. 1 .. newest \subseteq 1 .. newest'
      BY <1>3, <1>4
    <3>2. \A r \in Runs : run[r] \in RunRow(newest')
      BY <1>3, <3>1 DEF RunRow
    <3> QED
      BY <1>2, <1>3, <3>2
  <2>3. map' \subseteq [id : 1 .. newest', at : Anchors]
    BY <1>2, <1>3, <1>4
  <2>4. locations' \subseteq Placed
    BY <1>3, <1>4, <1>5
  <2> QED
    BY <1>2, <1>3, <1>4, <2>1, <2>2, <2>3, <2>4, LocationsTypedNext
<1>8. IsFiniteSet(locations')
  <2>1. IsFiniteSet(locations \ old)
    BY FS_Subset DEF LocationsInv
  <2> QED
    BY <1>2, <1>4, <2>1, FS_Union
<1>9. UniqueIds'
  BY <1>3, <1>4, <1>5 DEF LocationsInv, UniqueIds
<1>10. FoundTogether'
  BY <1>3, <1>4, <1>6 DEF LocationsInv, FoundTogether
<1>11. CoordinatesExplained'
  BY <1>4, <1>5 DEF LocationsInv, CoordinatesExplained
<1>12. MapAgrees'
  BY <1>2, <1>3, <1>4, <1>5 DEF LocationsInv, MapAgrees
<1>13. ASSUME NEW r \in Runs PROVE RunInv(r)'
  <2>1. run[r].present \subseteq 1 .. newest
    BY <1>3 DEF RunRow
  <2>2. \A l \in Unlocated' : l.id \in run[r].present => l \in Unlocated
    BY <1>3, <1>4, <1>6, <2>1
  <2> QED
    BY <1>2, <2>2 DEF LocationsInv, RunInv
<1> QED
  BY <1>7, <1>8, <1>9, <1>10, <1>11, <1>12, <1>13 DEF LocationsInv

\* What a step of one run leaves alone.
LEMMA OtherRunsKeep ==
    ASSUME LocationsInv, NEW r \in Runs, NEW row \in RunRow(newest),
           row.at = "update" => row.answer \in Anchors, run' = [run EXCEPT ![r] = row],
           UNCHANGED <<locations, newest, map>>, RunInv(r)'
    PROVE  LocationsInv'
<1>1. /\ newest \in Nat /\ locations \subseteq Placed
      /\ \A l \in locations : l.id \in 1 .. newest /\ l.found \in 0 .. newest + 1
      /\ run \in [Runs -> RunRow(newest)]
      /\ \A s \in Runs : run[s].at = "update" => run[s].answer \in Anchors
      /\ map \subseteq [id : 1 .. newest, at : Anchors]
  BY LocationsTyped DEF LocationsInv
<1>2. run' \in [Runs -> RunRow(newest)] /\ run'[r] = row /\ \A s \in Runs \ {r} : run'[s] = run[s]
  BY <1>1
<1>3. LocationsTypeOK'
  BY <1>1, <1>2, LocationsTypedNext
<1>4. \A s \in Runs \ {r} : RunInv(s)'
  BY <1>2 DEF LocationsInv, RunInv, Unlocated
<1> QED
  BY <1>3, <1>4 DEF LocationsInv, UniqueIds, FoundTogether, CoordinatesExplained, MapAgrees, Unlocated

\* A name without coordinates that is not selected is cut off by the limit.
LEMMA SelectNamesKeeps ==
    ASSUME LocationsInv, NEW r \in Runs, SelectNames(r)
    PROVE  LocationsInv'
<1> DEFINE open == {l.name : l \in Unlocated}
           present == {l.id : l \in Unlocated}
<1>1. PICK limit \in NameLimits, names \in SUBSET open :
        /\ Cardinality(names) = AtMost(limit, Cardinality(open))
        /\ run' = [run EXCEPT ![r] = [NotRun EXCEPT
                     !.at = "next", !.names = names, !.limit = limit, !.selected = names,
                     !.present = present]]
  BY DEF SelectNames
<1> DEFINE row == [NotRun EXCEPT !.at = "next", !.names = names, !.limit = limit,
                                 !.selected = names, !.present = present]
<1>2. /\ newest \in Nat /\ locations \subseteq Placed /\ IsFiniteSet(locations)
      /\ \A l \in locations : l.id \in 1 .. newest
  BY LocationsTyped DEF LocationsInv
<1>3. open \subseteq Names /\ present \subseteq 1 .. newest
  BY <1>2 DEF Unlocated, Placed
<1>4. row \in RunRow(newest) /\ row.at = "next" /\ row.names = names /\ row.selected = names
      /\ row.limit = limit
  <2>1. names \in SUBSET Names /\ limit \in Nat /\ present \in SUBSET (1 .. newest)
    BY <1>3, LimitsAssumption
  <2> HIDE DEF present, open
  <2> QED
    BY <2>1 DEF RunRow, NotRun, Null
<1>5. IsFiniteSet(open)
  <2>1. IsFiniteSet(Unlocated)
    BY <1>2, FS_Subset DEF Unlocated
  <2>2. [l \in Unlocated |-> l.name] \in Surjection(Unlocated, open)
    BY DEF Surjection
  <2> QED
    BY <2>1, <2>2, FS_Surjection
<1>6. ASSUME NEW l \in Unlocated, l.name \notin names PROVE Cardinality(names) = limit
  <2>1. names # open /\ names \in SUBSET open
    BY <1>6
  <2>2. Cardinality(names) # Cardinality(open)
    BY <1>5, <2>1, FS_Subset
  <2> QED
    BY <1>1, <2>2 DEF AtMost
<1>7. /\ run' = [run EXCEPT ![r] = row] /\ UNCHANGED <<locations, newest, map>>
      /\ r \in DOMAIN run
  BY <1>1 DEF SelectNames, LocationsInv, LocationsTypeOK
<1> HIDE DEF row
<1>8. RunInv(r)'
  <2>1. run'[r] = row /\ Unlocated' = Unlocated
    BY <1>7 DEF Unlocated
  <2> QED
    BY <1>4, <1>6, <2>1 DEF RunInv
<1> QED
  BY <1>4, <1>7, <1>8, OtherRunsKeep

\* A name is taken from those to come, and is the current one or unknown.
LEMMA GeocodeKeeps ==
    ASSUME LocationsInv, NEW r \in Runs, Geocode(r)
    PROVE  LocationsInv'
<1>1. run[r] \in RunRow(newest) /\ RunInv(r) /\ r \in DOMAIN run
  BY LocationsTyped DEF LocationsInv
<1>2. UNCHANGED <<locations, newest, map>> /\ Unlocated' = Unlocated /\ run[r].at = "next"
  BY DEF Geocode, Unlocated
<1>3. ASSUME NEW name \in run[r].names, NEW answer \in Anchors, Known(r, name, answer)
      PROVE  LocationsInv'
  <2> DEFINE row == [run[r] EXCEPT !.at = "update", !.names = @ \ {name}, !.name = name,
                                   !.answer = answer]
  <2>1. run' = [run EXCEPT ![r] = row]
    BY <1>3 DEF Known
  <2>2. name \in Names /\ row \in RunRow(newest)
    BY <1>1 DEF RunRow
  <2>3. /\ row.at = "update" /\ row.answer = answer /\ row.names = run[r].names \ {name}
        /\ row.name = name /\ row.unknown = run[r].unknown /\ row.selected = run[r].selected
        /\ row.limit = run[r].limit /\ row.present = run[r].present
    BY <1>1 DEF RunRow
  <2> HIDE DEF row
  <2>4. run'[r] = row
    BY <1>1, <2>1
  <2>5. RunInv(r)'
    BY <1>1, <1>2, <2>3, <2>4 DEF RunInv
  <2> QED
    BY <1>2, <2>1, <2>2, <2>3, <2>5, OtherRunsKeep
<1>4. ASSUME NEW name \in run[r].names,
             run' = [run EXCEPT ![r].names = @ \ {name}, ![r].unknown = @ \cup {name}]
      PROVE  LocationsInv'
  <2> DEFINE row == [run[r] EXCEPT !.names = @ \ {name}, !.unknown = @ \cup {name}]
  <2>1. run' = [run EXCEPT ![r] = row]
    BY <1>4
  <2>2. name \in Names /\ row \in RunRow(newest)
    BY <1>1 DEF RunRow
  <2>3. /\ row.at = "next" /\ row.names = run[r].names \ {name}
        /\ row.unknown = run[r].unknown \cup {name} /\ row.selected = run[r].selected
        /\ row.limit = run[r].limit /\ row.present = run[r].present
    BY <1>1, <1>2 DEF RunRow
  <2> HIDE DEF row
  <2>4. run'[r] = row
    BY <1>1, <2>1
  <2>5. RunInv(r)'
    BY <1>1, <1>2, <2>3, <2>4 DEF RunInv
  <2> QED
    BY <1>2, <2>1, <2>2, <2>3, <2>5, OtherRunsKeep
<1> QED
  BY <1>3, <1>4 DEF Geocode

\* A run ends when no name is to come, or for a reason of its own.
LEMMA EndRunKeeps ==
    ASSUME LocationsInv, NEW r \in Runs, EndRun(r)
    PROVE  LocationsInv'
<1>1. run[r] \in RunRow(newest) /\ RunInv(r) /\ r \in DOMAIN run
  BY LocationsTyped DEF LocationsInv
<1>2. UNCHANGED <<locations, newest, map>> /\ Unlocated' = Unlocated
  BY DEF EndRun, Unlocated
<1>3. CASE run[r].at = "next" /\ run[r].names = {}
  <2> DEFINE row == [run[r] EXCEPT !.at = "over"]
  <2>1. run' = [run EXCEPT ![r] = row]
    BY <1>3 DEF EndRun
  <2>2. /\ row \in RunRow(newest) /\ row.at = "over" /\ row.names = {}
        /\ row.unknown = run[r].unknown /\ row.selected = run[r].selected
        /\ row.limit = run[r].limit /\ row.present = run[r].present
    BY <1>1, <1>3 DEF RunRow
  <2> HIDE DEF row
  <2>3. run'[r] = row
    BY <1>1, <2>1
  <2>4. RunInv(r)'
    BY <1>1, <1>2, <1>3, <2>2, <2>3 DEF RunInv
  <2> QED
    BY <1>2, <2>1, <2>2, <2>4, OtherRunsKeep
<1>4. CASE ~(run[r].at = "next" /\ run[r].names = {})
  <2> DEFINE row == [NotRun EXCEPT !.at = "broken"]
  <2>1. run' = [run EXCEPT ![r] = row]
    BY <1>4 DEF EndRun
  <2>2. row \in RunRow(newest) /\ row.at = "broken"
    BY DEF RunRow, NotRun, Null
  <2> HIDE DEF row
  <2>3. run'[r] = row
    BY <1>1, <2>1
  <2>4. RunInv(r)'
    BY <2>2, <2>3 DEF RunInv
  <2> QED
    BY <1>2, <2>1, <2>2, <2>4, OtherRunsKeep
<1> QED
  BY <1>3, <1>4

\* All locations of the name that have no coordinates get theirs together, later
\* than any location that has some was stored.
LEMMA UpdateLocationsKeeps ==
    ASSUME LocationsInv, NEW r \in Runs, UpdateLocations(r)
    PROVE  LocationsInv'
<1> DEFINE name == run[r].name
           answer == run[r].answer
           chosen == {l \in Unlocated : l.name = name}
           placed(l) == [l EXCEPT !.at = answer, !.found = newest + 1]
           moved == {placed(l) : l \in chosen}
           row == [run[r] EXCEPT !.at = "next", !.name = "", !.answer = Null]
<1>1. /\ run[r].at = "update" /\ UNCHANGED <<newest, map>>
      /\ locations' = (locations \ chosen) \cup moved
      /\ run' = [run EXCEPT ![r] = row]
  BY DEF UpdateLocations, Locate
<1>2. /\ newest \in Nat /\ locations \subseteq Placed /\ IsFiniteSet(locations)
      /\ \A l \in locations : l.id \in 1 .. newest /\ l.found \in 0 .. newest + 1
      /\ run \in [Runs -> RunRow(newest)]
      /\ \A s \in Runs : run[s].at = "update" => run[s].answer \in Anchors
      /\ map \subseteq [id : 1 .. newest, at : Anchors]
  BY LocationsTyped DEF LocationsInv
<1>3. answer \in Anchors /\ answer # Null /\ run[r] \in RunRow(newest) /\ RunInv(r)
  BY <1>1, <1>2, AnchorsAssumption DEF Null, LocationsInv
<1>4. ASSUME NEW l \in chosen
      PROVE  /\ placed(l) \in Placed /\ placed(l).id = l.id /\ placed(l).name = name
             /\ placed(l).at = answer /\ placed(l).found = newest + 1
             /\ l \in locations /\ l.at = Null /\ l.name = name
  <2>1. l \in locations /\ l.at = Null /\ l.name = name /\ l \in Placed
    BY <1>2 DEF Unlocated
  <2>2. newest + 1 \in Nat /\ answer \in Anchors \cup {Null}
    BY <1>2, <1>3
  <2> HIDE DEF name, answer, chosen
  <2>3. /\ placed(l) \in Placed /\ placed(l).id = l.id /\ placed(l).name = l.name
        /\ placed(l).at = answer /\ placed(l).found = newest + 1
    BY <2>1, <2>2 DEF Placed
  <2> QED
    BY <2>1, <2>3
<1>5. \A k \in moved : \E l \in chosen : k = placed(l)
  OBVIOUS
<1>6. chosen \subseteq Unlocated /\ chosen \subseteq locations /\ \A l \in Unlocated \ chosen : l.name # name
  BY DEF Unlocated
<1>7. IsFiniteSet(moved)
  <2>1. IsFiniteSet(chosen)
    BY <1>2, <1>6, FS_Subset
  <2>2. [l \in chosen |-> placed(l)] \in Surjection(chosen, moved)
    BY DEF Surjection
  <2> QED
    BY <2>1, <2>2, FS_Surjection
<1> HIDE DEF moved, placed, chosen
<1>8. \A k \in locations' : k \in locations \ chosen \/ k \in moved
  BY <1>1
<1>9. ASSUME NEW k \in moved
      PROVE  /\ k \in Placed /\ k.name = name /\ k.at = answer /\ k.found = newest + 1
             /\ \E l \in chosen : k = placed(l) /\ k.id = l.id /\ l \in locations /\ l.at = Null /\ l.name = name
  BY <1>4, <1>5
<1>10. Unlocated' = Unlocated \ chosen
  <2>1. ASSUME NEW k \in Unlocated' PROVE k \in Unlocated \ chosen
    <3>1. k \in locations' /\ k.at = Null
      BY <2>1 DEF Unlocated
    <3> QED
      BY <1>3, <1>8, <1>9, <3>1 DEF Unlocated
  <2>2. ASSUME NEW k \in Unlocated \ chosen PROVE k \in Unlocated'
    BY <1>1, <2>2 DEF Unlocated
  <2> QED
    BY <2>1, <2>2
<1>11. /\ row \in RunRow(newest) /\ row.at = "next" /\ row.names = run[r].names
       /\ row.unknown = run[r].unknown /\ row.selected = run[r].selected
       /\ row.limit = run[r].limit /\ row.present = run[r].present
  BY <1>3 DEF RunRow, Null
<1> HIDE DEF row
<1>12. /\ run' \in [Runs -> RunRow(newest)] /\ run'[r] = row
       /\ \A s \in Runs \ {r} : run'[s] = run[s]
  BY <1>1, <1>2, <1>11
<1>13. LocationsTypeOK'
  <2>1. \A l \in locations' : l \in Placed /\ l.id \in 1 .. newest /\ l.found \in 0 .. newest + 1
    BY <1>2, <1>8, <1>9
  <2>2. \A s \in Runs : run'[s].at = "update" => run'[s].answer \in Anchors
    BY <1>2, <1>11, <1>12
  <2> QED
    BY <1>1, <1>2, <1>12, <2>1, <2>2, LocationsTypedNext
<1>14. IsFiniteSet(locations')
  <2>1. IsFiniteSet(locations \ chosen)
    BY <1>2, FS_Subset
  <2> QED
    BY <1>1, <1>7, <2>1, FS_Union
<1>15. UniqueIds'
  <2>1. SUFFICES ASSUME NEW a \in locations', NEW b \in locations', a.id = b.id PROVE a = b
    BY DEF UniqueIds
  <2>2. CASE a \in moved /\ b \in moved
    BY <1>9, <2>1, <2>2 DEF LocationsInv, UniqueIds
  <2>3. CASE a \in moved /\ b \in locations \ chosen
    BY <1>9, <2>1, <2>3 DEF LocationsInv, UniqueIds
  <2>4. CASE a \in locations \ chosen /\ b \in moved
    BY <1>9, <2>1, <2>4 DEF LocationsInv, UniqueIds
  <2>5. CASE a \in locations \ chosen /\ b \in locations \ chosen
    BY <2>1, <2>5 DEF LocationsInv, UniqueIds
  <2> QED
    BY <1>8, <2>2, <2>3, <2>4, <2>5
<1>16. FoundTogether'
  <2>1. SUFFICES ASSUME NEW a \in Unlocated', NEW b \in locations' \ Unlocated', a.name = b.name
                 PROVE  a.id >= b.found
    BY DEF FoundTogether
  <2>2. a \in Unlocated \ chosen /\ a.name # name
    BY <1>6, <1>10, <2>1
  <2>3. b \notin moved
    BY <1>9, <2>1, <2>2
  <2>4. b \in locations \ Unlocated
    BY <1>8, <1>10, <2>1, <2>3
  <2> QED
    BY <2>1, <2>2, <2>4 DEF LocationsInv, FoundTogether
<1>17. CoordinatesExplained'
  <2>1. SUFFICES ASSUME NEW a \in locations', NEW b \in locations', a.name = b.name,
                        Null \notin {a.at, b.at}, a.at # b.at
                 PROVE  a.id >= b.found \/ b.id >= a.found
    BY DEF CoordinatesExplained
  <2>2. \A k \in locations \ chosen : k.at # Null => k \in locations \ Unlocated
    BY DEF Unlocated
  <2>3. ASSUME NEW k \in moved, NEW l \in locations \ Unlocated, l.name = name
        PROVE  k.id >= l.found
    BY <1>6, <1>9, <2>3 DEF LocationsInv, FoundTogether
  <2>4. CASE a \in moved /\ b \in moved
    BY <1>9, <2>1, <2>4
  <2>5. CASE a \in moved /\ b \in locations \ chosen
    BY <1>9, <2>1, <2>2, <2>3, <2>5
  <2>6. CASE a \in locations \ chosen /\ b \in moved
    BY <1>9, <2>1, <2>2, <2>3, <2>6
  <2>7. CASE a \in locations \ chosen /\ b \in locations \ chosen
    BY <2>1, <2>7 DEF LocationsInv, CoordinatesExplained
  <2> QED
    BY <1>8, <2>4, <2>5, <2>6, <2>7
<1>18. MapAgrees'
  <2>1. SUFFICES ASSUME NEW m \in map, NEW l \in locations', l.id = m.id PROVE l.at = m.at
    BY <1>1 DEF MapAgrees
  <2>2. m.at # Null
    BY <1>2, AnchorsAssumption DEF Null
  <2>3. l \notin moved
    BY <1>9, <2>1, <2>2 DEF LocationsInv, MapAgrees
  <2> QED
    BY <1>8, <2>1, <2>3 DEF LocationsInv, MapAgrees
<1>19. ASSUME NEW s \in Runs PROVE RunInv(s)'
  <2>1. CASE s # r
    BY <1>10, <1>12, <2>1 DEF LocationsInv, RunInv
  <2>2. CASE s = r
    BY <1>1, <1>3, <1>6, <1>10, <1>11, <1>12, <2>2 DEF RunInv
  <2> QED
    BY <2>1, <2>2
<1> QED
  BY <1>13, <1>14, <1>15, <1>16, <1>17, <1>18, <1>19 DEF LocationsInv

\* What a map shows is there.
LEMMA ShowMapKeeps == LocationsInv /\ ShowMap => LocationsInv'
<1> SUFFICES ASSUME LocationsInv, ShowMap PROVE LocationsInv'
  OBVIOUS
<1>1. UNCHANGED <<locations, newest, run>> /\ Unlocated' = Unlocated
  BY DEF ShowMap, Unlocated
<1>2. PICK rows \in SUBSET (locations \ Unlocated) : map' = {[id |-> l.id, at |-> l.at] : l \in rows}
  BY DEF ShowMap
<1>3. /\ newest \in Nat /\ locations \subseteq Placed
      /\ \A l \in locations : l.id \in 1 .. newest /\ l.found \in 0 .. newest + 1
      /\ run \in [Runs -> RunRow(newest)]
      /\ \A s \in Runs : run[s].at = "update" => run[s].answer \in Anchors
  BY LocationsTyped DEF LocationsInv
<1>4. \A l \in rows : l.id \in 1 .. newest /\ l.at \in Anchors /\ l \in locations
  BY <1>3 DEF Placed, Unlocated
<1>5. map' \subseteq [id : 1 .. newest, at : Anchors]
  BY <1>2, <1>4
<1>6. LocationsTypeOK'
  BY <1>1, <1>3, <1>5, LocationsTypedNext
<1>7. MapAgrees'
  <2>1. \A m \in map' : \E l \in rows : m.id = l.id /\ m.at = l.at
    BY <1>2
  <2> QED
    BY <1>1, <1>4, <2>1 DEF LocationsInv, UniqueIds, MapAgrees
<1> QED
  BY <1>1, <1>6, <1>7 DEF LocationsInv, UniqueIds, FoundTogether, CoordinatesExplained, RunInv

LEMMA LocationsStep == LocationsInv /\ [LocationsNext]_locationsVars => LocationsInv'
<1> SUFFICES ASSUME LocationsInv, [LocationsNext]_locationsVars PROVE LocationsInv'
  OBVIOUS
<1>1. CASE UNCHANGED locationsVars
  BY <1>1 DEF locationsVars, LocationsInv, LocationsTypeOK, UniqueIds, FoundTogether,
              CoordinatesExplained, MapAgrees, RunInv, Unlocated
<1> QED
  BY <1>1, StoreLocationsKeeps, ShowMapKeeps, SelectNamesKeeps, GeocodeKeeps,
     UpdateLocationsKeeps, EndRunKeeps DEF LocationsNext, Backfill

THEOREM LocationsSafe == LocationsSpec => []LocationsInv
<1> QED
  BY LocationsInitial, LocationsStep, PTL DEF LocationsSpec

\* backfill, geocode.py:109-155: what a run leaves without coordinates, it was told
\* nothing about, or its limit cut off, for any number of runs beside the pipeline.
THEOREM UnlocatedExplainedTheorem == LocationsSpec => []UnlocatedExplained
<1>1. LocationsInv => UnlocatedExplained
  BY DEF LocationsInv, RunInv, UnlocatedExplained
<1> QED
  BY <1>1, LocationsSafe, PTL

\* geocode.py:22-24: identical names share coordinates, but for those stored after
\* the others had been found.
THEOREM CoordinatesExplainedTheorem == LocationsSpec => []CoordinatesExplained
<1>1. LocationsInv => CoordinatesExplained
  BY DEF LocationsInv
<1> QED
  BY <1>1, LocationsSafe, PTL

\* geocode.py:17-19, geo.py:60-138: coordinates that a map shows stay what they are.
THEOREM MapAgreesTheorem == LocationsSpec => []MapAgrees
<1>1. LocationsInv => MapAgrees
  BY DEF LocationsInv
<1> QED
  BY <1>1, LocationsSafe, PTL
-----------------------------------------------------------------------------
\* The request, typed, when n is the id of the next event.
GetRow(n) ==
    [at : {"idle", "events", "chunks", "places", "people", "refs", "done", "404", "502"},
     status : {"open", "processed", "gone"}, events : Nat, chunks : Nat, failed : BOOLEAN,
     event : 0 .. n - 1, places : BOOLEAN, people : BOOLEAN, refs : BOOLEAN]

LEMMA ViewsInitial == ViewsInit => ViewsInv
<1> SUFFICES ASSUME ViewsInit PROVE ViewsInv
  OBVIOUS
<1>1. /\ status = "open" /\ cuts = <<>> /\ chunks = 0 /\ events = {} /\ fresh = 1 /\ links = {} /\ people = {}
      /\ places = {} /\ refs = {} /\ deletion = 0 /\ crossed = {} /\ ~begun /\ ~stray
      /\ begun \in BOOLEAN /\ stray \in BOOLEAN /\ get = NoRequest
  BY DEF ViewsInit
<1>2. get \in GetRow(fresh) /\ get.at = "idle"
  BY <1>1 DEF NoRequest, GetRow
<1>3. ViewsTypeOK
  BY <1>1, <1>2 DEF ViewsTypeOK, GetRow, Ids, Cleared
<1>4. IsFiniteSet(events)
  BY <1>1, FS_EmptySet
<1> QED
  BY <1>1, <1>2, <1>3, <1>4
     DEF ViewsInv, NoRequest, DetailInv, CountsInv, DetailExplained, CountsExplained

\* A step of the document that a request at work does not see.
Unseen == UNCHANGED get /\ get.at \notin {"done", "404", "502"}

\* An attempt of chunk_document that comes after the document is processed is stray.
LEMMA ChunksKeep ==
    ASSUME ViewsInv, Unseen, ClearChunks \/ InsertChunk
    PROVE  ViewsInv'
<1>1. /\ stray' \in BOOLEAN
      /\ stray' <=> stray \/ status = "processed"
      /\ UNCHANGED <<status, eventTables, deletion, get, begun, crossed>>
  BY DEF ClearChunks, InsertChunk, NoteStray, ViewsInv, ViewsTypeOK
<1>2. cuts \in Seq(Nat) /\ chunks \in Nat
  BY DEF ViewsInv, ViewsTypeOK
<1>3. cuts' \in Seq(Nat) /\ chunks' \in Nat
  <2>1. CASE ClearChunks
    BY <1>2, <2>1 DEF ClearChunks
  <2>2. CASE InsertChunk
    <3>1. PICK a \in 1 .. Len(cuts) : cuts' = [cuts EXCEPT ![a] = @ + 1]
      BY <2>2 DEF InsertChunk
    <3>2. cuts[a] + 1 \in Nat
      BY <1>2, <3>1
    <3>3. [cuts EXCEPT ![a] = cuts[a] + 1] \in Seq(Nat)
      BY <1>2, <3>1, <3>2
    <3> QED
      BY <1>2, <2>2, <3>1, <3>3 DEF InsertChunk
  <2> QED
    BY <2>1, <2>2
<1>4. ViewsTypeOK'
  BY <1>1, <1>3 DEF ViewsInv, ViewsTypeOK, eventTables, Ids
<1>5. DetailInv' /\ IsFiniteSet(events')
  BY <1>1 DEF ViewsInv, DetailInv, eventTables
<1>6. CountsInv'
  BY <1>1 DEF ViewsInv, CountsInv, eventTables
<1> QED
  BY <1>1, <1>4, <1>5, <1>6 DEF ViewsInv, DetailExplained, CountsExplained, Unseen

\* A document becomes processed with whatever it has, and stops being so only by
\* a stray attempt.
LEMMA StatusKeeps ==
    ASSUME ViewsInv, Unseen, Complete \/ LateStatus
    PROVE  ViewsInv'
<1>1. /\ status \in {"open", "processed"} /\ status' \in {"open", "processed"}
      /\ stray' \in BOOLEAN
      /\ stray' <=> stray \/ status = "processed"
      /\ UNCHANGED <<cuts, chunks, eventTables, deletion, get, begun, crossed>>
  <2>1. stray \in BOOLEAN
    BY DEF ViewsInv, ViewsTypeOK
  <2>2. CASE Complete
    BY <2>1, <2>2 DEF Complete, history
  <2>3. CASE LateStatus
    BY <2>1, <2>3 DEF LateStatus, NoteStray
  <2> QED
    BY <2>2, <2>3
<1>2. ViewsTypeOK'
  BY <1>1 DEF ViewsInv, ViewsTypeOK, eventTables, Ids
<1>3. DetailInv' /\ IsFiniteSet(events')
  BY <1>1 DEF ViewsInv, DetailInv, eventTables
<1>4. CountsInv'
  BY <1>1 DEF ViewsInv, CountsInv, eventTables
<1> QED
  BY <1>1, <1>2, <1>3, <1>4 DEF ViewsInv, DetailExplained, CountsExplained, Unseen

\* A batch comes with all that belongs to it and goes with all that belongs to it.
LEMMA StoreEventsKeeps ==
    ASSUME ViewsInv, Unseen, StoreEvents
    PROVE  ViewsInv'
<1>1. PICK c \in 1 .. NumChunks, n \in {0, 1} :
        LET old == Ids({e \in events : e.chunk = c /\ e.id \in links})
            new == fresh .. fresh + n - 1
            replaced(rows) == (rows \ old) \cup new
        IN  /\ events' = {e \in events : e.id \notin old} \cup {[id |-> i, chunk |-> c] : i \in new}
            /\ links' = replaced(links) /\ people' = replaced(people)
            /\ places' = replaced(places) /\ refs' = replaced(refs)
            /\ fresh' = fresh + n
            /\ crossed' = IF deletion > 0 THEN crossed \cup new ELSE crossed
  BY DEF StoreEvents
<1> DEFINE old == Ids({e \in events : e.chunk = c /\ e.id \in links})
           new == fresh .. fresh + n - 1
           made == {[id |-> i, chunk |-> c] : i \in new}
<1>2. /\ events' = {e \in events : e.id \notin old} \cup made
      /\ links' = (links \ old) \cup new /\ people' = (people \ old) \cup new
      /\ places' = (places \ old) \cup new /\ refs' = (refs \ old) \cup new
      /\ fresh' = fresh + n /\ crossed' = IF deletion > 0 THEN crossed \cup new ELSE crossed
  BY <1>1
<1>3. /\ stray' \in BOOLEAN
      /\ stray' <=> (stray \/ status = "processed")
      /\ UNCHANGED <<status, cuts, chunks, deletion, get, begun>>
  BY DEF StoreEvents, NoteStray, ViewsInv, ViewsTypeOK
<1>4. /\ fresh \in Nat \ {0} /\ get.event \in 0 .. fresh - 1 /\ deletion \in Nat
      /\ events \subseteq [id : 1 .. fresh - 1, chunk : 1 .. NumChunks]
      /\ links \cup people \cup places \cup refs \subseteq Ids(events)
      /\ crossed \subseteq 1 .. fresh - 1 /\ IsFiniteSet(events)
  BY DEF ViewsInv, ViewsTypeOK, Cleared
<1>5. /\ made \subseteq [id : 1 .. fresh' - 1, chunk : 1 .. NumChunks] /\ IsFiniteSet(made)
      /\ Ids(made) = new
  <2>1. CASE n = 0
    <3>1. new = {}
      BY <1>4, <2>1
    <3>2. made = {}
      BY <3>1
    <3> HIDE DEF made
    <3>3. IsFiniteSet(made)
      BY <3>2, FS_EmptySet
    <3> QED
      BY <3>1, <3>2, <3>3 DEF Ids
  <2>2. CASE n = 1
    <3>1. new = {fresh}
      BY <1>4, <2>2
    <3> DEFINE event == [id |-> fresh, chunk |-> c]
    <3>2. made = {event}
      BY <3>1
    <3>3. event \in [id : 1 .. fresh' - 1, chunk : 1 .. NumChunks] /\ event.id = fresh
      BY <1>2, <1>4, <2>2
    <3> HIDE DEF made, event
    <3>4. IsFiniteSet(made)
      BY <3>2, FS_Singleton
    <3> QED
      BY <3>1, <3>2, <3>3, <3>4 DEF Ids
  <2> QED
    BY <2>1, <2>2
<1>6. fresh' \in Nat \ {0} /\ fresh <= fresh' /\ new \subseteq 1 .. fresh' - 1
      /\ \A i \in new : i >= fresh
  BY <1>2, <1>4
<1> HIDE DEF made, new, old
<1>7. Ids(events') = (Ids(events) \ old) \cup new
  BY <1>2, <1>5 DEF Ids
<1>8. ViewsTypeOK'
  <2>1. events' \subseteq [id : 1 .. fresh' - 1, chunk : 1 .. NumChunks]
    BY <1>2, <1>4, <1>5, <1>6
  <2>2. links' \cup people' \cup places' \cup refs' \subseteq Ids(events')
    BY <1>2, <1>4, <1>7
  <2>3. crossed' \subseteq 1 .. fresh' - 1
    BY <1>2, <1>4, <1>6
  <2>4. get' \in GetRow(fresh')
    <3>1. get \in GetRow(fresh) /\ get.event \in 0 .. fresh' - 1
      BY <1>4, <1>6 DEF ViewsInv, ViewsTypeOK, GetRow
    <3> QED
      BY <1>3, <3>1 DEF GetRow
  <2>5. /\ status' \in {"open", "processed", "gone"} /\ cuts' \in Seq(Nat) /\ chunks' \in Nat
        /\ deletion' \in 0 .. Len(Cleared) - 1
    BY <1>3 DEF ViewsInv, ViewsTypeOK
  <2>6. begun' \in BOOLEAN
    <3>1. begun \in BOOLEAN
      BY DEF ViewsInv, ViewsTypeOK
    <3> QED
      BY <1>3, <3>1
  <2>7. stray' \in BOOLEAN
    BY <1>3
  <2> QED
    BY <1>6, <2>1, <2>2, <2>3, <2>4, <2>5, <2>6, <2>7 DEF ViewsTypeOK, GetRow
<1>9. IsFiniteSet(events')
  <2>1. IsFiniteSet({e \in events : e.id \notin old})
    BY <1>4, FS_Subset
  <2> QED
    BY <1>2, <1>5, <2>1, FS_Union
<1>10. get.event \notin new
  BY <1>4, <1>6
<1>11. DetailInv'
  <2>1. refs' \subseteq (people' \cap places') \cup crossed'
    BY <1>2 DEF ViewsInv, DetailInv
  <2>2. deletion' >= 2 => refs' \subseteq crossed'
    BY <1>2, <1>3, <1>4 DEF ViewsInv, DetailInv
  <2>3. crossed \subseteq crossed' /\ (get.event \in refs' => get.event \in refs)
    BY <1>2, <1>10
  <2> QED
    BY <1>3, <2>1, <2>2, <2>3 DEF ViewsInv, DetailInv
<1>12. CountsInv'
  BY <1>3 DEF ViewsInv, CountsInv, StoreEvents, Exists
<1> QED
  BY <1>3, <1>8, <1>9, <1>11, <1>12 DEF ViewsInv, DetailExplained, CountsExplained, Unseen

\* What a statement of the deletion clears: the references before all the rest.
LEMMA Clears ==
    ASSUME ViewsInv, DeleteStatement
    PROVE  /\ chunks' \in {chunks, 0} /\ events' \in {events, {}} /\ links' \in {links, {}}
           /\ people' \in {people, {}} /\ places' \in {places, {}} /\ refs' \in {refs, {}}
           /\ events' = {} => links' = {} /\ people' = {} /\ places' = {} /\ refs' = {}
           /\ deletion = 1 => refs' = {}
           /\ deletion \notin {0, 1} \/ (people' = people /\ places' = places) \/ events = {}
           /\ deletion' \in 0 .. Len(Cleared) - 1 /\ deletion' \in {0, deletion + 1}
           /\ status' \in {status, "gone"}
<1>1. deletion \in {0, 1, 2, 3, 4, 5, 6}
  BY DEF ViewsInv, ViewsTypeOK, Cleared
<1>2. CASE deletion = 0
  BY <1>2 DEF DeleteStatement, Cleared, ViewsInv, ViewsTypeOK, Ids
<1>3. CASE deletion = 1
  BY <1>3 DEF DeleteStatement, Cleared, ViewsInv, ViewsTypeOK, Ids
<1>4. CASE deletion = 2
  BY <1>4 DEF DeleteStatement, Cleared, ViewsInv, ViewsTypeOK, Ids
<1>5. CASE deletion = 3
  BY <1>5 DEF DeleteStatement, Cleared, ViewsInv, ViewsTypeOK, Ids
<1>6. CASE deletion = 4
  BY <1>6 DEF DeleteStatement, Cleared, ViewsInv, ViewsTypeOK, Ids
<1>7. CASE deletion = 5
  BY <1>7 DEF DeleteStatement, Cleared, ViewsInv, ViewsTypeOK, Ids
<1>8. CASE deletion = 6
  BY <1>8 DEF DeleteStatement, Cleared, ViewsInv, ViewsTypeOK, Ids
<1> QED
  BY <1>1, <1>2, <1>3, <1>4, <1>5, <1>6, <1>7, <1>8

LEMMA DeleteStatementKeeps ==
    ASSUME ViewsInv, Unseen, DeleteStatement
    PROVE  ViewsInv'
<1>1. begun' /\ begun' \in BOOLEAN /\ UNCHANGED <<cuts, fresh, get, crossed, stray>>
  BY DEF DeleteStatement
<1>2. /\ links \cup people \cup places \cup refs \subseteq Ids(events) /\ deletion \in Nat
      /\ IsFiniteSet(events) /\ events \subseteq [id : 1 .. fresh - 1, chunk : 1 .. NumChunks]
  BY DEF ViewsInv, ViewsTypeOK, Cleared
<1>3. ViewsTypeOK'
  <2>1. /\ events' \subseteq [id : 1 .. fresh' - 1, chunk : 1 .. NumChunks]
        /\ cuts' \in Seq(Nat) /\ chunks' \in Nat
    BY <1>1, <1>2, Clears DEF ViewsInv, ViewsTypeOK
  <2>2. links' \cup people' \cup places' \cup refs' \subseteq Ids(events')
    <3>1. CASE events' = events
      BY <1>2, <3>1, Clears
    <3>2. CASE events' = {}
      BY <3>2, Clears
    <3> QED
      BY <3>1, <3>2, Clears
  <2>3. status' \in {"open", "processed", "gone"} /\ deletion' \in 0 .. Len(Cleared) - 1
    BY Clears DEF ViewsInv, ViewsTypeOK
  <2> QED
    BY <1>1, <2>1, <2>2, <2>3 DEF ViewsInv, ViewsTypeOK
<1>4. IsFiniteSet(events')
  BY <1>2, Clears, FS_EmptySet
<1>5. DetailInv'
  <2>1. refs' \subseteq refs
    BY Clears
  <2>2. deletion' >= 2 => refs' \subseteq crossed
    BY <1>2, <2>1, Clears DEF ViewsInv, DetailInv
  <2>3. refs' \subseteq (people' \cap places') \cup crossed
    <3>1. CASE people' = people /\ places' = places
      BY <2>1, <3>1 DEF ViewsInv, DetailInv
    <3>2. CASE events = {}
      BY <1>2, <2>1, <3>2 DEF Ids
    <3>3. CASE deletion \notin {0, 1}
      BY <1>2, <2>1, <3>3 DEF ViewsInv, DetailInv
    <3> QED
      BY <3>1, <3>2, <3>3, Clears
  <2> QED
    BY <1>1, <2>1, <2>2, <2>3 DEF ViewsInv, DetailInv
<1>6. CountsInv'
  BY <1>1 DEF ViewsInv, CountsInv
<1> QED
  BY <1>1, <1>3, <1>4, <1>5, <1>6 DEF ViewsInv, DetailExplained, CountsExplained, Unseen

LEMMA DeleteFailsKeeps ==
    ASSUME ViewsInv, Unseen, DeleteFails
    PROVE  ViewsInv'
<1>1. /\ deletion > 0 /\ deletion' = 0
      /\ UNCHANGED <<status, cuts, chunks, eventTables, get, history>>
  BY DEF DeleteFails
<1>2. ViewsTypeOK'
  BY <1>1 DEF ViewsInv, ViewsTypeOK, eventTables, history, Ids, Cleared
<1>3. DetailInv' /\ IsFiniteSet(events')
  BY <1>1 DEF ViewsInv, DetailInv, eventTables, history
<1>4. CountsInv'
  BY <1>1 DEF ViewsInv, CountsInv, eventTables, history
<1> QED
  BY <1>1, <1>2, <1>3, <1>4 DEF ViewsInv, DetailExplained, CountsExplained, Unseen

\* A statement of a view changes nothing but the request.
LEMMA ReadKeeps ==
    ASSUME ViewsInv, NEW row \in GetRow(fresh), Step(row),
           row.at \in {"people", "refs"} /\ ~row.places => row.event \in crossed \/ row.event \notin refs,
           row.at = "refs" /\ ~row.people => row.event \in crossed \/ row.event \notin refs,
           row.at \in {"events", "chunks", "done"} /\ row.status = "processed" =>
               begun \/ stray \/ status = "processed",
           row.at = "chunks" /\ row.status = "processed" =>
               begun \/ stray \/ row.events = Cardinality(events),
           row.at # "done" => ~row.refs,
           row.at \in {"idle", "places", "people", "refs"} => row.status = "open",
           row.at = "done" /\ row.refs => (row.people /\ row.places) \/ row.event \in crossed,
           row.at = "done" /\ row.status = "processed" =>
               \/ row.failed \/ begun \/ stray
               \/ row.chunks = chunks /\ row.events = Cardinality(events)
    PROVE  ViewsInv'
<1>1. get' = row /\ UNCHANGED <<status, cuts, chunks, eventTables, deletion, history>>
  BY DEF Step
<1>2. ViewsTypeOK'
  BY <1>1 DEF ViewsInv, ViewsTypeOK, eventTables, history, Ids, GetRow
<1>3. DetailInv' /\ IsFiniteSet(events')
  BY <1>1 DEF ViewsInv, DetailInv, eventTables, history
<1>4. CountsInv'
  BY <1>1 DEF ViewsInv, CountsInv, eventTables, history
<1>5. DetailExplained' /\ CountsExplained'
  BY <1>1 DEF DetailExplained, CountsExplained, eventTables, history
<1> QED
  BY <1>2, <1>3, <1>4, <1>5 DEF ViewsInv

\* Whether a row is found is a truth value.
LEMMA Flag ==
    ASSUME NEW row, NEW rows
    PROVE  \E b \in BOOLEAN : b = (row \in rows)
<1>1. CASE row \in rows
  <2>1. TRUE = (row \in rows)
    BY <1>1
  <2> QED
    BY <2>1
<1>2. CASE row \notin rows
  <2>1. FALSE = (row \in rows)
    BY <1>2
  <2> QED
    BY <2>1
<1> QED
  BY <1>1, <1>2

LEMMA RequestKeeps ==
    ASSUME ViewsInv, Request, get.at \notin {"done", "404", "502"}
    PROVE  ViewsInv'
<1>1. /\ get \in GetRow(fresh) /\ fresh \in Nat \ {0} /\ status \in {"open", "processed", "gone"}
      /\ IsFiniteSet(events) /\ DetailInv /\ CountsInv
  BY DEF ViewsInv, ViewsTypeOK, GetRow
<1>2. ASSUME ReadDocument PROVE ViewsInv'
  <2>1. CASE Exists
    <3> DEFINE row == [get EXCEPT !.at = "events", !.status = status]
    <3>1. row \in GetRow(fresh) /\ row.at = "events" /\ row.status = status /\ row.refs = get.refs
      BY <1>1 DEF GetRow
    <3>2. Step(row)
      BY <1>2, <2>1 DEF ReadDocument
    <3> HIDE DEF row
    <3> QED
      BY <1>1, <1>2, <3>1, <3>2, ReadKeeps DEF ReadDocument, DetailInv
  <2>2. CASE ~Exists
    <3> DEFINE row == [get EXCEPT !.at = "404"]
    <3>1. row \in GetRow(fresh) /\ row.at = "404" /\ row.refs = get.refs
      BY <1>1 DEF GetRow
    <3>2. Step(row)
      BY <1>2, <2>2 DEF ReadDocument
    <3> HIDE DEF row
    <3> QED
      BY <1>1, <1>2, <3>1, <3>2, ReadKeeps DEF ReadDocument, DetailInv
  <2> QED
    BY <2>1, <2>2
<1>3. ASSUME CountEvents PROVE ViewsInv'
  <2> DEFINE row == [get EXCEPT !.at = "chunks", !.events = Cardinality(events)]
  <2>1. Cardinality(events) \in Nat
    BY <1>1, FS_CardinalityType
  <2>2. /\ row \in GetRow(fresh) /\ row.at = "chunks" /\ row.status = get.status
        /\ row.events = Cardinality(events) /\ row.refs = get.refs
    BY <1>1, <2>1 DEF GetRow
  <2>3. Step(row) /\ get.at = "events"
    BY <1>3 DEF CountEvents
  <2> HIDE DEF row
  <2> QED
    BY <1>1, <2>2, <2>3, ReadKeeps DEF CountsInv, DetailInv
<1>4. ASSUME CountChunks PROVE ViewsInv'
  <2> DEFINE row == [get EXCEPT !.at = "done", !.chunks = chunks]
  <2>1. chunks \in Nat
    BY DEF ViewsInv, ViewsTypeOK
  <2>2. /\ row \in GetRow(fresh) /\ row.at = "done" /\ row.status = get.status
        /\ row.events = get.events /\ row.chunks = chunks
        /\ row.refs = get.refs /\ row.people = get.people /\ row.places = get.places
        /\ row.event = get.event
    BY <1>1, <2>1 DEF GetRow
  <2>3. Step(row) /\ get.at = "chunks"
    BY <1>4 DEF CountChunks
  <2> HIDE DEF row
  <2>4. ~row.refs
    BY <1>1, <2>2, <2>3 DEF DetailInv
  <2>5. row.status = "processed" =>
            begun \/ stray \/ (row.chunks = chunks /\ row.events = Cardinality(events))
    BY <1>1, <2>2, <2>3 DEF CountsInv
  <2> QED
    BY <1>1, <2>2, <2>3, <2>4, <2>5, ReadKeeps DEF CountsInv
<1>5. ASSUME CountFails PROVE ViewsInv'
  <2> DEFINE row == [get EXCEPT !.at = "done", !.failed = TRUE]
  <2>1. /\ row \in GetRow(fresh) /\ row.at = "done" /\ row.status = get.status /\ row.failed
        /\ row.refs = get.refs
    BY <1>1 DEF GetRow
  <2>2. Step(row) /\ get.at \in {"events", "chunks"}
    BY <1>5 DEF CountFails
  <2> HIDE DEF row
  <2> QED
    BY <1>1, <2>1, <2>2, ReadKeeps DEF CountsInv, DetailInv
<1>6. ASSUME ReadEvent PROVE ViewsInv'
  <2>1. PICK i \in 1 .. fresh - 1 :
          Step([get EXCEPT !.event = i, !.at = IF i \in Ids(events) THEN "places" ELSE "404"])
    BY <1>6 DEF ReadEvent
  <2> DEFINE row == [get EXCEPT !.event = i, !.at = IF i \in Ids(events) THEN "places" ELSE "404"]
  <2>2. PICK at \in {"places", "404"} : row = [get EXCEPT !.event = i, !.at = at]
    <3>1. CASE i \in Ids(events)
      BY <3>1
    <3>2. CASE i \notin Ids(events)
      BY <3>2
    <3> QED
      BY <3>1, <3>2
  <2>3. Step(row) /\ get.at = "idle"
    BY <1>6, <2>1 DEF ReadEvent
  <2> HIDE DEF row
  <2>4. row \in GetRow(fresh) /\ row.at = at /\ row.status = get.status /\ row.refs = get.refs
    <3>1. i \in 0 .. fresh - 1
      BY <1>1
    <3>2. CASE at = "places"
      BY <1>1, <2>2, <3>1, <3>2 DEF GetRow
    <3>3. CASE at = "404"
      BY <1>1, <2>2, <3>1, <3>3 DEF GetRow
    <3> QED
      BY <3>2, <3>3
  <2> QED
    BY <1>1, <2>2, <2>3, <2>4, ReadKeeps DEF CountsInv, DetailInv
<1>7. ASSUME ReadPlaces PROVE ViewsInv'
  <2>3. PICK b \in BOOLEAN : b = (get.event \in places)
    BY Flag
  <2> DEFINE row == [get EXCEPT !.at = "people", !.places = b]
  <2>1. /\ row \in GetRow(fresh) /\ row.at = "people" /\ row.status = get.status
        /\ row.refs = get.refs /\ row.event = get.event
        /\ row.places = b
    BY <1>1 DEF GetRow
  <2>2. Step(row) /\ get.at = "places"
    BY <2>3, <1>7 DEF ReadPlaces
  <2> HIDE DEF row
  <2> QED
    BY <1>1, <2>1, <2>2, <2>3, ReadKeeps DEF CountsInv, DetailInv
<1>8. ASSUME ReadPeople PROVE ViewsInv'
  <2>3. PICK b \in BOOLEAN : b = (get.event \in people)
    BY Flag
  <2> DEFINE row == [get EXCEPT !.at = "refs", !.people = b]
  <2>1. /\ row \in GetRow(fresh) /\ row.at = "refs" /\ row.status = get.status
        /\ row.refs = get.refs /\ row.event = get.event /\ row.places = get.places
        /\ row.people = b
    BY <1>1 DEF GetRow
  <2>2. Step(row) /\ get.at = "people"
    BY <2>3, <1>8 DEF ReadPeople
  <2> HIDE DEF row
  <2> QED
    BY <1>1, <2>1, <2>2, <2>3, ReadKeeps DEF CountsInv, DetailInv
<1>9. ASSUME ReadRefs PROVE ViewsInv'
  <2>3. PICK b \in BOOLEAN : b = (get.event \in refs)
    BY Flag
  <2> DEFINE row == [get EXCEPT !.at = "done", !.refs = b]
  <2>1. /\ row \in GetRow(fresh) /\ row.at = "done" /\ row.status = get.status
        /\ row.event = get.event /\ row.places = get.places /\ row.people = get.people
        /\ row.refs = b
    BY <1>1 DEF GetRow
  <2>2. Step(row) /\ get.at = "refs"
    BY <2>3, <1>9 DEF ReadRefs
  <2> HIDE DEF row
  <2> QED
    BY <1>1, <2>1, <2>2, <2>3, ReadKeeps DEF CountsInv, DetailInv
<1>10. ASSUME ReadFails PROVE ViewsInv'
  <2> DEFINE row == [get EXCEPT !.at = "502"]
  <2>1. row \in GetRow(fresh) /\ row.at = "502" /\ row.refs = get.refs
    BY <1>1 DEF GetRow
  <2>2. Step(row) /\ get.at # "done"
    BY <1>10 DEF ReadFails
  <2> HIDE DEF row
  <2> QED
    BY <1>1, <2>1, <2>2, ReadKeeps DEF DetailInv
<1> QED
  BY <1>2, <1>3, <1>4, <1>5, <1>6, <1>7, <1>8, <1>9, <1>10 DEF Request

LEMMA ViewsStep == ViewsInv /\ [ViewsNext]_viewsVars => ViewsInv'
<1> SUFFICES ASSUME ViewsInv, [ViewsNext]_viewsVars PROVE ViewsInv'
  OBVIOUS
<1>1. CASE UNCHANGED viewsVars
  BY <1>1 DEF viewsVars, eventTables, history, ViewsInv, ViewsTypeOK, DetailInv, CountsInv,
              DetailExplained, CountsExplained, Ids
<1>2. CASE ViewsNext
  <2>1. Pipeline \/ Deletion => Unseen
    BY <1>2 DEF ViewsNext, Pipeline, Deletion, ClearChunks, InsertChunk, StoreEvents, Complete,
                LateStatus, DeleteStatement, DeleteFails, Unseen
  <2> QED
    BY <1>2, <2>1, ChunksKeep, StoreEventsKeeps, StatusKeeps, DeleteStatementKeeps,
       DeleteFailsKeeps, RequestKeeps DEF ViewsNext, Pipeline, Deletion
<1> QED
  BY <1>1, <1>2

THEOREM ViewsSafe == ViewsSpec => []ViewsInv
<1> QED
  BY ViewsInitial, ViewsStep, PTL DEF ViewsSpec

\* get_event_v2_detail, events_v2.py:173-283: references come with the whole event,
\* for any number of chunks and events, but for one stored into a deletion.
THEOREM DetailExplainedTheorem == ViewsSpec => []DetailExplained
<1>1. ViewsInv => DetailExplained
  BY DEF ViewsInv
<1> QED
  BY <1>1, ViewsSafe, PTL

\* list_documents, documents.py:872-1007, and get_document: a processed document is
\* shown with the counts of the rows it has, however many chunk_document left, unless
\* a count failed, a deletion has begun or an attempt came late.
THEOREM CountsExplainedTheorem == ViewsSpec => []CountsExplained
<1>1. ViewsInv => CountsExplained
  BY DEF ViewsInv
<1> QED
  BY <1>1, ViewsSafe, PTL
=============================================================================
