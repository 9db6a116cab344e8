----------------------------- MODULE Providers -----------------------------
(***************************************************************************)
(* The registry of LLM providers and the timeline colour of each: tables   *)
(* llm_provider and model_color, the requests that add and delete          *)
(* providers (each statement commits on its own, requests interleave at    *)
(* every await), and the default provider that the API seeds at start-up.  *)
(***************************************************************************)
EXTENDS Naturals, FiniteSets

CONSTANTS
    Clients,      \* requests to add a provider that may be in progress together
    Names,        \* names a client may choose
    PaletteSize,  \* colours of the palette, 20 in the code
    MaxAdds,      \* bound on requests
    MaxRestarts   \* bound on restarts of the API

ASSUME NamesAssumption == IsFiniteSet(Names)
ASSUME PaletteAssumption == PaletteSize \in Nat \ {0}
ASSUME BoundsAssumption == MaxAdds \in Nat /\ MaxRestarts \in Nat

VARIABLES
    providers,  \* rows of llm_provider: id and name
    colors,     \* rows of model_color: provider and colour
    req,        \* progress of each request to add, with its local variables
    adds,       \* requests so far; the next id (uuid4 in the code: fresh)
    restarts    \* restarts so far

vars == <<providers, colors, req, adds, restarts>>
-----------------------------------------------------------------------------
Palette == 0 .. PaletteSize - 1

DefaultProvider == [id |-> 0, name |-> "default"]

Idle == [at |-> "idle", id |-> 0, name |-> "default", seen |-> {}, color |-> 0]

Ids == {p.id : p \in providers}
UsedNames == {p.name : p \in providers}
ColorsIn(rows) == {r.color : r \in rows}

\* A migrated database without rows; the API runs, its first start was degraded.
Init ==
    /\ providers = {} /\ colors = {}
    /\ req = [c \in Clients |-> Idle]
    /\ adds = 0 /\ restarts = 0

Step(c, at) == req' = [req EXCEPT ![c].at = at]

\* Mutant: ids are taken off the number of rows.
AddProviderByCount(c) ==
    /\ req[c].at = "idle" /\ adds < MaxAdds
    /\ adds' = adds + 1
    /\ \E n \in Names :
          req' = [req EXCEPT ![c] = [Idle EXCEPT !.at = "check", !.name = n,
                                               !.id = Cardinality(providers) + 1]]
    /\ UNCHANGED <<providers, colors, restarts>>

\* POST /api/providers with any name; the id is a fresh uuid4.
AddProvider(c) ==
    /\ req[c].at = "idle" /\ adds < MaxAdds
    /\ adds' = adds + 1
    /\ \E n \in Names :
          req' = [req EXCEPT ![c] = [Idle EXCEPT !.at = "check", !.id = adds', !.name = n]]
    /\ UNCHANGED <<providers, colors, restarts>>

\* SELECT ... WHERE name = $1: 409 when the name is taken.
CheckName(c) ==
    /\ req[c].at = "check"
    /\ Step(c, IF req[c].name \in UsedNames THEN "idle" ELSE "insert")
    /\ UNCHANGED <<providers, colors, adds, restarts>>

\* Mutant: llm_provider.name is not UNIQUE.
InsertProviderTwice(c) ==
    /\ req[c].at = "insert"
    /\ providers' = providers \cup {[id |-> req[c].id, name |-> req[c].name]}
    /\ Step(c, "read")
    /\ UNCHANGED <<colors, adds, restarts>>

\* INSERT INTO llm_provider: the UNIQUE name may have been taken meanwhile (502).
InsertProvider(c) ==
    /\ req[c].at = "insert"
    /\ \/ /\ req[c].name \notin UsedNames
          /\ providers' = providers \cup {[id |-> req[c].id, name |-> req[c].name]}
          /\ Step(c, "read")
       \/ /\ req[c].name \in UsedNames
          /\ Step(c, "idle")
          /\ UNCHANGED providers
    /\ UNCHANGED <<colors, adds, restarts>>

\* Mutant: the next colour is taken off the number of rows.
ReadColorsByCount(c) ==
    /\ req[c].at = "read"
    /\ req' = [req EXCEPT ![c].at = "paint", ![c].seen = colors,
                          ![c].color = Cardinality(colors) % PaletteSize]
    /\ UNCHANGED <<providers, colors, adds, restarts>>

\* assign_free_color: the lowest colour that no row has, ...
ReadColors(c) ==
    /\ req[c].at = "read"
    /\ \/ /\ Palette \subseteq ColorsIn(colors)
          /\ req' = [req EXCEPT ![c].at = "count", ![c].seen = colors]
       \/ \E k \in Palette \ ColorsIn(colors) :
             /\ \A j \in 0 .. k - 1 : j \in ColorsIn(colors)
             /\ req' = [req EXCEPT ![c].at = "paint", ![c].seen = colors, ![c].color = k]
    /\ UNCHANGED <<providers, colors, adds, restarts>>

\* ... or a shared one when the palette is used up.
CountColors(c) ==
    /\ req[c].at = "count"
    /\ req' = [req EXCEPT ![c].at = "paint", ![c].color = Cardinality(colors) % PaletteSize]
    /\ UNCHANGED <<providers, colors, adds, restarts>>

\* Mutant: model_color has no foreign key.
PaintUnchecked(c) ==
    /\ req[c].at = "paint"
    /\ colors' = colors \cup {[provider |-> req[c].id, color |-> req[c].color]}
    /\ Step(c, "idle")
    /\ UNCHANGED <<providers, adds, restarts>>

\* INSERT INTO model_color: a provider that was deleted meanwhile violates the
\* foreign key; a failure is logged and the provider stays without a colour.
Paint(c) ==
    /\ req[c].at = "paint"
    /\ \/ /\ req[c].id \in Ids
          /\ colors' = colors \cup {[provider |-> req[c].id, color |-> req[c].color]}
       \/ UNCHANGED colors
    /\ Step(c, "idle")
    /\ UNCHANGED <<providers, adds, restarts>>

\* The default provider is refused; ON DELETE CASCADE takes the colour.
DeleteProvider(p) ==
    /\ p \in providers /\ p.id # DefaultProvider.id
    /\ providers' = providers \ {p}
    /\ colors' = {r \in colors : r.provider # p.id}
    /\ UNCHANGED <<req, adds, restarts>>

\* The API process starts again: what was in progress is lost.  It seeds the
\* default provider unless the database is not there (degraded mode) or the
\* UNIQUE name is taken; the exception is swallowed.
Restart ==
    /\ restarts < MaxRestarts /\ restarts' = restarts + 1
    /\ req' = [c \in Clients |-> Idle]
    /\ \/ /\ DefaultProvider.id \notin Ids /\ DefaultProvider.name \notin UsedNames
          /\ providers' = providers \cup {DefaultProvider}
       \/ UNCHANGED providers
    /\ UNCHANGED <<colors, adds>>
-----------------------------------------------------------------------------
Add(c) ==
    AddProvider(c) \/ CheckName(c) \/ InsertProvider(c) \/ ReadColors(c)
        \/ CountColors(c) \/ Paint(c)

Next ==
    \/ \E c \in Clients : Add(c)
    \/ \E p \in providers : DeleteProvider(p)
    \/ Restart

Spec == Init /\ [][Next]_vars
-----------------------------------------------------------------------------
Request == [at : {"idle", "check", "insert", "read", "count", "paint"}, id : Nat,
            name : Names \cup {"default"}, seen : SUBSET [provider : Nat, color : Palette],
            color : Palette]

\* Type invariant.
TypeOK ==
    /\ providers \in SUBSET [id : Nat, name : Names \cup {"default"}]
    /\ colors \in SUBSET [provider : Nat, color : Palette]
    /\ req \in [Clients -> Request]
    /\ adds \in Nat /\ restarts \in Nat

\* A name resolves to one provider, although the check of the name and the
\* INSERT are two statements and requests for the same name overlap.
UniqueNames == \A p, q \in providers : p.name = q.name => p = q

\* A colour row belongs to a provider that exists and has no other: a delete
\* that overtakes the assignment of the colour leaves no row behind that would
\* keep the colour from ever being free again.
ColorsAreLive ==
    /\ \A r \in colors : r.provider \in Ids
    /\ \A r, q \in colors : r.provider = q.provider => r = q

\* "Colors are assigned in order to the first available, if a provider is
\* deleted the color is free" (next.md): a provider gets the colour of another
\* one only when that one was not among the rows the request has read, or when
\* it found the palette used up.
SharesOnlyByRace ==
    [][\A r \in colors' \ colors : \A q \in colors :
          q.color = r.color =>
              \E c \in Clients :
                  /\ req[c].id = r.provider
                  /\ q \notin req[c].seen \/ Palette \subseteq ColorsIn(req[c].seen)]_vars

\* The seeded provider is read-only: once there, no request and no restart
\* takes it away.
DefaultStays == [][(DefaultProvider \in providers) => (DefaultProvider \in providers')]_vars

InProgress(c) == req[c].at # "idle"

\* Ids in use were handed out, and no two requests work on one provider.
IdsAreFresh ==
    /\ \A p \in providers : p.id <= adds
    /\ \A r \in colors : r.provider <= adds
    /\ \A c \in Clients : InProgress(c) => req[c].id \in 1 .. adds
    /\ \A c, d \in Clients : InProgress(c) /\ InProgress(d) /\ req[c].id = req[d].id => c = d

\* What a request has in its local variables: a colour that was free among the
\* rows it read, unless none was, for a provider without a colour.
LocalsAgree ==
    \A c \in Clients :
        /\ InProgress(c) => \A r \in colors : r.provider # req[c].id
        /\ req[c].at = "count" => Palette \subseteq ColorsIn(req[c].seen)
        /\ req[c].at = "paint" =>
               \/ req[c].color \notin ColorsIn(req[c].seen)
               \/ Palette \subseteq ColorsIn(req[c].seen)

\* The inductive invariant of the registry: the safety invariants follow from it
\* and every statement of every request preserves it.
RegistryInv ==
    /\ TypeOK /\ IsFiniteSet(colors)
    /\ UniqueNames /\ ColorsAreLive
    /\ IdsAreFresh /\ LocalsAgree
=============================================================================
