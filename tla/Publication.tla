---------------------------- MODULE Publication ----------------------------
(***************************************************************************)
(* What the readers of the event tables are promised about one document:   *)
(* while the document lives, its chunks' events appear in text order, one  *)
(* chunk at a time, and never disappear; a delete request may take them    *)
(* away while the worker still adds some; a document that is gone has no   *)
(* events and never comes back.                                            *)
(***************************************************************************)
EXTENDS Integers

CONSTANT NumChunks

VARIABLES
    phase,    \* absent, live, erasing or gone
    visible   \* the chunks that have events a query can see

Idx == 0 .. NumChunks - 1

Init == phase = "absent" /\ visible = {}

Submit ==
    /\ phase = "absent"
    /\ phase' = "live"
    /\ UNCHANGED visible

Publish(c) ==
    /\ phase = "live"
    /\ \A d \in visible : d < c
    /\ visible' = visible \cup {c}
    /\ UNCHANGED phase

StartErasing ==
    /\ phase = "live"
    /\ phase' = "erasing"
    /\ UNCHANGED visible

Erase ==
    /\ phase = "erasing"
    /\ visible' = {}
    /\ UNCHANGED phase

\* The worker is not told of the delete request and may store meanwhile.
PublishLate(c) ==
    /\ phase = "erasing"
    /\ visible' = visible \cup {c}
    /\ UNCHANGED phase

Vanish ==
    /\ phase = "erasing"
    /\ phase' = "gone"
    /\ visible' = {}

Next ==
    \/ Submit \/ StartErasing \/ Erase \/ Vanish
    \/ \E c \in Idx : Publish(c) \/ PublishLate(c)

Spec == Init /\ [][Next]_<<phase, visible>>
=============================================================================
