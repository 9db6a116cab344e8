------------------------------ MODULE Locations ------------------------------
(***************************************************************************)
(* The coordinates of event locations: store_events_v7 writes locations    *)
(* without any, backfill asks a geocoder for one name after the other and  *)
(* writes what it answers to the rows that have none, and the map shows    *)
(* the rows that have some.  Runs of the backfill overlap with each other  *)
(* and with the pipeline; a run waits more than a second between names.    *)
(***************************************************************************)
EXTENDS Integers, FiniteSets

CONSTANTS
    Runs,          \* runs of the backfill, started by hand
    Batches,       \* the chunks of all documents: what is stored, and goes, together
    Names,         \* names of places
    Anchors,       \* coordinates the geocoder may answer with, on one axis
    NameLimits,    \* what --limit, the names of a run, may be; 100 by default
    MapLimit,      \* rows of a map, 1 .. 2000
    MaxLocations   \* bound on the locations ever stored

ASSUME AnchorsAssumption == Anchors \subseteq Int \ {0}
ASSUME LimitsAssumption == NameLimits \subseteq Nat /\ MapLimit \in Nat \ {0} /\ MaxLocations \in Nat

VARIABLES
    locations,  \* event_location, its event being the id: batch, name, lat and lon or 0
                \* for NULL; found is history: the next id when they were found
    newest,     \* id of the newest location
    run,        \* per run: where it is, the names to come, the current name and its answer;
                \* history: its limit, names selected and unknown, rows unlocated at the SELECT
    map         \* the rows that a client has on its map

locationsVars == <<locations, newest, run, map>>
-----------------------------------------------------------------------------
Null == 0
Unlocated == {l \in locations : l.at = Null}

NotRun == [at |-> "idle", names |-> {}, name |-> "", answer |-> Null,
           limit |-> 0, selected |-> {}, unknown |-> {}, present |-> {}]

AtMost(limit, n) == IF n <= limit THEN n ELSE limit

LocationsInit ==
    /\ locations = {} /\ newest = 0
    /\ run = [r \in Runs |-> NotRun]
    /\ map = {}
-----------------------------------------------------------------------------
\* store_events_v7 replaces the locations of a batch, here by at most one new one;
\* delete_document removes them.
StoreLocations ==
    /\ \E b \in Batches, names \in {{}} \cup {{n} : n \in Names} :
          LET old == {l \in locations : l.batch = b}
          IN  /\ old # {} \/ names # {}
              /\ newest' = newest + Cardinality(names) /\ newest' <= MaxLocations
              /\ locations' = (locations \ old) \cup
                     {[id |-> newest', batch |-> b, name |-> n, at |-> Null, found |-> 0] : n \in names}
    /\ UNCHANGED <<run, map>>

\* SELECT DISTINCT name ... WHERE lat IS NULL LIMIT: any of them, there is no order.
SelectNames(r) ==
    /\ run[r].at = "idle"
    /\ LET open == {l.name : l \in Unlocated}
       IN  \E limit \in NameLimits, names \in SUBSET open :
              /\ Cardinality(names) = AtMost(limit, Cardinality(open))
              /\ run' = [run EXCEPT ![r] = [NotRun EXCEPT
                     !.at = "next", !.names = names, !.limit = limit, !.selected = names,
                     !.present = {l.id : l \in Unlocated}]]
    /\ UNCHANGED <<locations, newest, map>>

Known(r, name, answer) ==
    run' = [run EXCEPT ![r].at = "update", ![r].names = @ \ {name}, ![r].name = name,
                       ![r].answer = answer]

\* Mutant: an unknown name ends the run.
GeocodeOrStop(r) ==
    /\ run[r].at = "next"
    /\ \E name \in run[r].names :
          \/ \E answer \in Anchors : Known(r, name, answer)
          \/ run' = [run EXCEPT ![r].at = "over", ![r].names = @ \ {name},
                                ![r].unknown = @ \cup {name}]
    /\ UNCHANGED <<locations, newest, map>>

\* geocode_place: coordinates, or None after any failure, and on to the next name.
Geocode(r) ==
    /\ run[r].at = "next"
    /\ \E name \in run[r].names :
          \/ \E answer \in Anchors : Known(r, name, answer)
          \/ run' = [run EXCEPT ![r].names = @ \ {name}, ![r].unknown = @ \cup {name}]
    /\ UNCHANGED <<locations, newest, map>>

\* The rows chosen get the answer.
Locate(r, chosen) ==
    /\ run[r].at = "update"
    /\ locations' = (locations \ chosen) \cup
           {[l EXCEPT !.at = run[r].answer, !.found = newest + 1] : l \in chosen}
    /\ run' = [run EXCEPT ![r].at = "next", ![r].name = "", ![r].answer = Null]
    /\ UNCHANGED <<newest, map>>

\* Mutant: only the rows that were there at the SELECT.
UpdateSelected(r) ==
    Locate(r, {l \in Unlocated : l.name = run[r].name /\ l.id \in run[r].present})

\* Mutant: without lat IS NULL.
UpdateAll(r) == Locate(r, {l \in locations : l.name = run[r].name})

\* UPDATE ... WHERE name = $1 AND lat IS NULL.
UpdateLocations(r) == Locate(r, {l \in Unlocated : l.name = run[r].name})

\* The names are through; or a statement raises, or the run is stopped.
EndRun(r) ==
    /\ run[r].at \in {"next", "update"}
    /\ run' = [run EXCEPT ![r] =
           IF @.at = "next" /\ @.names = {} THEN [@ EXCEPT !.at = "over"]
                                         ELSE [NotRun EXCEPT !.at = "broken"]]
    /\ UNCHANGED <<locations, newest, map>>

\* parse_bbox, on one axis: both ends or none (Null), in order; else 400.
IsBox(low, high) == (low = Null <=> high = Null) /\ low <= high

\* GET /geo/events: the located rows inside the box, as many as the limit allows.
ShowMap ==
    /\ \E low, high \in Anchors \cup {Null} :
          /\ IsBox(low, high)
          /\ LET inside == {l \in locations \ Unlocated : low = Null \/ l.at \in low .. high}
             IN  \E rows \in SUBSET inside :
                    /\ Cardinality(rows) = AtMost(MapLimit, Cardinality(inside))
                    /\ map' = {[id |-> l.id, at |-> l.at] : l \in rows}
    /\ UNCHANGED <<locations, newest, run>>
-----------------------------------------------------------------------------
Backfill(r) == SelectNames(r) \/ Geocode(r) \/ UpdateLocations(r) \/ EndRun(r)

LocationsNext == StoreLocations \/ ShowMap \/ \E r \in Runs : Backfill(r)

LocationsSpec == LocationsInit /\ [][LocationsNext]_locationsVars
-----------------------------------------------------------------------------
\* Type invariant.
LocationsTypeOK ==
    /\ newest \in Nat
    /\ locations \subseteq [id : 1 .. newest, batch : Batches, name : Names,
                           at : Anchors \cup {Null}, found : 0 .. newest + 1]
    /\ run \in [Runs -> [at : {"idle", "next", "update", "over", "broken"},
                         names : SUBSET Names, name : Names \cup {""}, answer : Anchors \cup {Null},
                         limit : Nat, selected : SUBSET Names, unknown : SUBSET Names,
                         present : SUBSET (1 .. newest)]]
    /\ \A r \in Runs : run[r].at = "update" => run[r].answer \in Anchors
    /\ map \subseteq [id : 1 .. newest, at : Anchors]

\* A location that a run found without coordinates has some when the run is
\* through, unless it was replaced, the geocoder did not know its name, or the
\* limit cut its name off.
UnlocatedExplained ==
    \A r \in Runs : run[r].at = "over" =>
        \A l \in Unlocated : l.id \in run[r].present =>
            \/ l.name \in run[r].unknown
            \/ l.name \notin run[r].selected /\ Cardinality(run[r].selected) = run[r].limit

\* "identical place names share coordinates" (geocode.py:21-22): two locations of
\* one name are apart only if one was stored after the other one had been found.
CoordinatesExplained ==
    \A a, b \in locations :
        a.name = b.name /\ Null \notin {a.at, b.at} /\ a.at # b.at =>
            a.id >= b.found \/ b.id >= a.found

\* A location on a map that is opened later is where the map shows it, unless it
\* was replaced: "the database is the cache" (geocode.py:15-17).
MapAgrees == \A m \in map, l \in locations : l.id = m.id => l.at = m.at

\* A location has its id for itself.
UniqueIds == \A a, b \in locations : a.id = b.id => a = b

\* A location that has no coordinates was stored after every one of its name was
\* found: the UPDATE that found them would have found it, too.
FoundTogether ==
    \A a \in Unlocated, b \in locations \ Unlocated : a.name = b.name => a.id >= b.found

\* A location that a run found without coordinates has some, or its name is still
\* to come, or one of the excuses holds.
RunInv(r) ==
    run[r].at \in {"next", "update", "over"} =>
        \A l \in Unlocated : l.id \in run[r].present =>
            \/ l.name \in run[r].names /\ run[r].at # "over"
            \/ l.name = run[r].name /\ run[r].at = "update"
            \/ l.name \in run[r].unknown
            \/ l.name \notin run[r].selected /\ Cardinality(run[r].selected) = run[r].limit

\* The inductive invariant.
LocationsInv ==
    /\ LocationsTypeOK /\ IsFiniteSet(locations)
    /\ UniqueIds /\ FoundTogether /\ CoordinatesExplained /\ MapAgrees
    /\ \A r \in Runs : RunInv(r)
=============================================================================
