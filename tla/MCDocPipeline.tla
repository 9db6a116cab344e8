--------------------------- MODULE MCDocPipeline ---------------------------
(***************************************************************************)
(* DocPipeline for TLC: two chunks, two worker slots (enough for one live  *)
(* and one late attempt) and a bounded number of faults.                   *)
(***************************************************************************)
EXTENDS DocPipelineInv, TLC

\* References <-: two in each answer; the text of one is not in chunk 0.
Citations == {"first", "second"}
SecondMissing == [c \in Idx |-> IF c = 0 THEN {"first"} ELSE Citations]

\* One reference in each answer, found in its chunk.
OneCitation == {"first"}
AllFound == [c \in Idx |-> OneCitation]

\* Slots are interchangeable: no action or property names one.
SlotSymmetry == Permutations(Slots)
=============================================================================
