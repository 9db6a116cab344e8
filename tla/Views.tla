-------------------------------- MODULE Views --------------------------------
(***************************************************************************)
(* What a client sees of one document while it is processed and deleted:   *)
(* its status with the counts, and the detail of one of its events.  A     *)
(* view is put together from statements that commit on their own, and so   *)
(* is the deletion; store_events_v7 writes its batch in one transaction.   *)
(***************************************************************************)
EXTENDS Integers, FiniteSets, Sequences

CONSTANTS
    NumChunks,  \* chunks of the document
    MaxCuts,    \* attempts of chunk_document, those past their timeout included
    MaxEvents   \* bound on the events ever stored

ASSUME ViewsAssumption == NumChunks \in Nat \ {0} /\ MaxCuts \in Nat /\ MaxEvents \in Nat

VARIABLES
    status,     \* document.status: "open" stands for all but processed; "gone"
    cuts,       \* the attempts of chunk_document: the index each inserts next
    chunks,     \* document_chunk: how many rows
    events,     \* event_v2: id and chunk
    links,      \* event_document: the events it has a row of,
    people,     \* event_participant_v2,
    places,     \* event_location,
    refs,       \* event_ref: likewise
    fresh,      \* id of the next event
    deletion,   \* delete_document: statements done, 0 when none is at work
    get,        \* the request: where it is, and its local variables
    begun,      \* history: a deletion has begun
    crossed,    \* history: the events stored while a deletion was at work
    stray       \* history: an attempt wrote after the document was processed

eventTables == <<events, links, people, places, refs, fresh>>
history == <<begun, crossed, stray>>
viewsVars == <<status, cuts, chunks, eventTables, deletion, get, history>>
-----------------------------------------------------------------------------
Ids(rows) == {e.id : e \in rows}

NoRequest == [at |-> "idle", status |-> "open", events |-> 0, chunks |-> 0, failed |-> FALSE,
              event |-> 0, places |-> FALSE, people |-> FALSE, refs |-> FALSE]

ViewsInit ==
    /\ status = "open" /\ cuts = <<>> /\ chunks = 0 /\ events = {} /\ fresh = 1
    /\ links = {} /\ people = {} /\ places = {} /\ refs = {}
    /\ deletion = 0 /\ get = NoRequest
    /\ begun = FALSE /\ crossed = {} /\ stray = FALSE
-----------------------------------------------------------------------------
(* The pipeline.                                                           *)

Exists == status # "gone"
NoteStray == stray' = (stray \/ status = "processed")

\* chunk_document_activity, the first time or again: DELETE, ...
ClearChunks ==
    /\ Exists /\ Len(cuts) < MaxCuts
    /\ cuts' = Append(cuts, 1) /\ chunks' = 0 /\ NoteStray
    /\ UNCHANGED <<status, eventTables, deletion, get, begun, crossed>>

\* ... and one INSERT after the other, with fresh ids; an attempt may end after
\* any of them, and one past its timeout goes on beside its retry.
InsertChunk ==
    /\ Exists
    /\ \E a \in 1 .. Len(cuts) :
          /\ cuts[a] <= NumChunks
          /\ cuts' = [cuts EXCEPT ![a] = @ + 1]
    /\ chunks' = chunks + 1 /\ NoteStray
    /\ UNCHANGED <<status, eventTables, deletion, get, begun, crossed>>

\* store_events_v7: the batch that event_document finds for the chunk goes with all
\* that belongs to it, and new events, here at most one, take its place.
StoreEvents ==
    /\ Exists
    /\ \E c \in 1 .. NumChunks, n \in {0, 1} :
          LET old == Ids({e \in events : e.chunk = c /\ e.id \in links})
              new == fresh .. fresh + n - 1
              replaced(rows) == (rows \ old) \cup new
          IN  /\ old \cup new # {} /\ fresh + n <= MaxEvents + 1
              /\ events' = {e \in events : e.id \notin old} \cup {[id |-> i, chunk |-> c] : i \in new}
              /\ links' = replaced(links) /\ people' = replaced(people)
              /\ places' = replaced(places) /\ refs' = replaced(refs)
              /\ fresh' = fresh + n
              /\ crossed' = IF deletion > 0 THEN crossed \cup new ELSE crossed
    /\ NoteStray
    /\ UNCHANGED <<status, cuts, chunks, deletion, get, begun>>

\* The last activity.  run() does not look at the result of chunk_document, so
\* whatever chunks are there, none or twice as many, the document is processed.
Complete ==
    /\ status = "open"
    /\ status' = "processed"
    /\ UNCHANGED <<cuts, chunks, eventTables, deletion, get, history>>

\* An attempt past its timeout writes its status, or marks its own failure.
LateStatus ==
    /\ status = "processed"
    /\ status' = "open" /\ NoteStray
    /\ UNCHANGED <<cuts, chunks, eventTables, deletion, get, begun, crossed>>
-----------------------------------------------------------------------------
(* delete_document, statement by statement.                                *)

\* Mutant: the references go after what else belongs to an event.
ClearedRefsLast == <<"chunks", "people", "places", "refs", "links", "events", "document">>

\* The order in which the handler clears the tables modelled here.
Cleared == <<"chunks", "refs", "people", "places", "links", "events", "document">>

\* A statement; the last two take along the rows that refer to theirs.
DeleteStatement ==
    /\ Exists
    /\ LET table == Cleared[deletion + 1]
           left(name, rows) ==
               IF table \in {name, "events", "document"} THEN {} ELSE rows
       IN  /\ chunks' = IF table \in {"chunks", "document"} THEN 0 ELSE chunks
           /\ events' = left("events", events)
           /\ links' = left("links", links) /\ people' = left("people", people)
           /\ places' = left("places", places) /\ refs' = left("refs", refs)
           /\ status' = IF table = "document" THEN "gone" ELSE status
    /\ deletion' = (deletion + 1) % Len(Cleared) /\ begun' = TRUE
    /\ UNCHANGED <<cuts, fresh, get, crossed, stray>>

\* A statement fails: 502, and what is cleared stays cleared.
DeleteFails ==
    /\ deletion > 0 /\ deletion' = 0
    /\ UNCHANGED <<status, cuts, chunks, eventTables, get, history>>
-----------------------------------------------------------------------------
(* The views.                                                              *)

Step(changed) ==
    get' = changed /\ UNCHANGED <<status, cuts, chunks, eventTables, deletion, history>>

\* GET /documents/{id}, and a row of the list: the row itself, ...
ReadDocument ==
    /\ get.at = "idle"
    /\ Step(IF Exists THEN [get EXCEPT !.at = "events", !.status = status]
                      ELSE [get EXCEPT !.at = "404"])

\* ... and on another connection the counts.  The list shows both of them; the
\* detail does not pass on the number of events.
CountEvents ==
    /\ get.at = "events"
    /\ Step([get EXCEPT !.at = "chunks", !.events = Cardinality(events)])

\* Mutant: the row is read after the counts.
CountChunksFirst ==
    /\ get.at = "chunks"
    /\ Step([get EXCEPT !.at = "done", !.chunks = chunks, !.status = status])

CountChunks ==
    /\ get.at = "chunks"
    /\ Step([get EXCEPT !.at = "done", !.chunks = chunks])

\* A count that fails is swallowed: it, and what comes after it, is shown as zero.
CountFails ==
    /\ get.at \in {"events", "chunks"}
    /\ Step([get EXCEPT !.at = "done", !.failed = TRUE])

\* GET /events/{id}, for an event the client has seen in a list: the row, ...
ReadEvent ==
    /\ get.at = "idle"
    /\ \E i \in 1 .. fresh - 1 :
          Step([get EXCEPT !.event = i, !.at = IF i \in Ids(events) THEN "places" ELSE "404"])

\* ... the locations, ...
ReadPlaces ==
    /\ get.at = "places"
    /\ Step([get EXCEPT !.at = "people", !.places = get.event \in places])

\* ... the participants, ...
ReadPeople ==
    /\ get.at = "people"
    /\ Step([get EXCEPT !.at = "refs", !.people = get.event \in people])

\* ... and the references.
ReadRefs ==
    /\ get.at = "refs"
    /\ Step([get EXCEPT !.at = "done", !.refs = get.event \in refs])

\* Any other statement that fails makes the answer a 502.
ReadFails ==
    /\ get.at \in {"idle", "places", "people", "refs"}
    /\ Step([get EXCEPT !.at = "502"])
-----------------------------------------------------------------------------
Pipeline == ClearChunks \/ InsertChunk \/ StoreEvents \/ Complete \/ LateStatus
Deletion == DeleteStatement \/ DeleteFails
Request ==
    \/ ReadDocument \/ CountEvents \/ CountChunks \/ CountFails
    \/ ReadEvent \/ ReadPlaces \/ ReadPeople \/ ReadRefs \/ ReadFails

\* One request, at any time; what happens after its answer is not looked at.
ViewsNext == get.at \notin {"done", "404", "502"} /\ (Pipeline \/ Deletion \/ Request)

ViewsSpec == ViewsInit /\ [][ViewsNext]_viewsVars
-----------------------------------------------------------------------------
\* Type invariant.
ViewsTypeOK ==
    /\ status \in {"open", "processed", "gone"} /\ cuts \in Seq(Nat) /\ chunks \in Nat
    /\ fresh \in Nat \ {0} /\ begun \in BOOLEAN /\ stray \in BOOLEAN
    /\ events \subseteq [id : 1 .. fresh - 1, chunk : 1 .. NumChunks]
    /\ links \cup people \cup places \cup refs \subseteq Ids(events)
    /\ crossed \subseteq 1 .. fresh - 1
    /\ deletion \in 0 .. Len(Cleared) - 1
    /\ get \in [at : {"idle", "events", "chunks", "places", "people", "refs", "done", "404", "502"},
               status : {"open", "processed", "gone"}, events : Nat, chunks : Nat, failed : BOOLEAN,
               event : 0 .. fresh - 1, places : BOOLEAN, people : BOOLEAN, refs : BOOLEAN]

\* A detail that shows a reference shows the event whole, with what was stored
\* beside it: the references are what the handler reads last and what a deletion
\* takes first.  The exception is an event stored while a deletion is at work,
\* which finds it half way.
DetailExplained ==
    get.at = "done" /\ get.refs => (get.people /\ get.places) \/ get.event \in crossed

\* A document that is shown as processed is shown with the counts of the chunks
\* and events it has, all of one moment although the row and the counts are read
\* apart: unless a count failed, a deletion has begun, or an attempt wrote after
\* its time.  How many chunks there are is another matter (Complete).
CountsExplained ==
    get.at = "done" /\ get.status = "processed" =>
        \/ get.failed \/ begun \/ stray
        \/ get.chunks = chunks /\ get.events = Cardinality(events)

\* An event that was stored while no deletion was at work has its references only
\* together with all the rest; so an answer that lacks some of the rest will find
\* no reference.
DetailInv ==
    /\ refs \subseteq (people \cap places) \cup crossed
    /\ deletion >= 2 => refs \subseteq crossed
    /\ get.at \in {"people", "refs"} /\ ~get.places => get.event \in crossed \/ get.event \notin refs
    /\ get.at = "refs" /\ ~get.people => get.event \in crossed \/ get.event \notin refs
    /\ get.at # "done" => ~get.refs

\* A processed document does not change until a deletion or a stray attempt.
CountsInv ==
    /\ deletion > 0 \/ status = "gone" => begun
    /\ get.at \in {"idle", "places", "people", "refs"} => get.status = "open"
    /\ get.at \in {"events", "chunks", "done"} /\ get.status = "processed" =>
          begun \/ stray \/ status = "processed"
    /\ get.at = "chunks" /\ get.status = "processed" =>
          begun \/ stray \/ get.events = Cardinality(events)

\* The inductive invariant.
ViewsInv ==
    /\ ViewsTypeOK /\ IsFiniteSet(events)
    /\ DetailInv /\ CountsInv /\ DetailExplained /\ CountsExplained
=============================================================================
