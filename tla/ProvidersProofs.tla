-------------------------- MODULE ProvidersProofs --------------------------
(***************************************************************************)
(* The safety of the provider registry for any number of requests, names,  *)
(* colours and restarts.                                                   *)
(***************************************************************************)
EXTENDS Providers, FiniteSetTheorems, TLAPS

\* The initial state has no rows and no request.
LEMMA RegistryInit == Init => RegistryInv
<1> SUFFICES ASSUME Init PROVE RegistryInv
  OBVIOUS
<1>1. TypeOK
  BY PaletteAssumption DEF Init, TypeOK, Idle, Request, Palette
<1>2. IsFiniteSet(colors)
  BY FS_EmptySet DEF Init
<1>3. UniqueNames /\ ColorsAreLive
  BY DEF Init, UniqueNames, ColorsAreLive
<1>4. IdsAreFresh /\ LocalsAgree
  BY DEF Init, IdsAreFresh, LocalsAgree, InProgress, Idle
<1> QED
  BY <1>1, <1>2, <1>3, <1>4 DEF RegistryInv

\* A new request works on an id that no row and no other request has.
LEMMA AddKeeps ==
    ASSUME RegistryInv, NEW c \in Clients, AddProvider(c)
    PROVE  RegistryInv'
<1> USE DEF RegistryInv
<1>1. PICK n \in Names :
          req' = [req EXCEPT ![c] = [at |-> "check", id |-> adds + 1, name |-> n,
                                     seen |-> {}, color |-> 0]]
  BY DEF AddProvider, Idle
<1>2. TypeOK'
  BY <1>1, PaletteAssumption DEF AddProvider, TypeOK, Request, Palette
<1>3. IdsAreFresh'
  BY <1>1 DEF AddProvider, TypeOK, Request, IdsAreFresh, InProgress
<1>4. LocalsAgree'
  BY <1>1 DEF AddProvider, TypeOK, Request, LocalsAgree, IdsAreFresh, InProgress
<1> QED
  BY <1>2, <1>3, <1>4 DEF AddProvider, UniqueNames, ColorsAreLive, Ids

\* The check of the name only decides whether the request goes on.
LEMMA CheckKeeps ==
    ASSUME RegistryInv, NEW c \in Clients, CheckName(c)
    PROVE  RegistryInv'
<1> USE DEF RegistryInv
<1>1. TypeOK'
  BY DEF CheckName, Step, TypeOK, Request
<1>2. IdsAreFresh' /\ LocalsAgree'
  BY DEF CheckName, Step, TypeOK, Request, IdsAreFresh, LocalsAgree, InProgress
<1> QED
  BY <1>1, <1>2 DEF CheckName, UniqueNames, ColorsAreLive, Ids

\* The UNIQUE constraint, not the check, keeps names apart.
LEMMA InsertKeeps ==
    ASSUME RegistryInv, NEW c \in Clients, InsertProvider(c)
    PROVE  RegistryInv'
<1> USE DEF RegistryInv
<1>1. TypeOK'
  BY DEF InsertProvider, Step, TypeOK, Request
<1>2. UniqueNames'
  BY DEF InsertProvider, UniqueNames, UsedNames
<1>3. ColorsAreLive'
  BY DEF InsertProvider, ColorsAreLive, Ids
<1>4. IdsAreFresh' /\ LocalsAgree'
  BY DEF InsertProvider, Step, TypeOK, Request, IdsAreFresh, LocalsAgree, InProgress
<1> QED
  BY <1>1, <1>2, <1>3, <1>4 DEF InsertProvider

\* The colour read is free among the rows read, or none is.
LEMMA ReadKeeps ==
    ASSUME RegistryInv, NEW c \in Clients, ReadColors(c)
    PROVE  RegistryInv'
<1> USE DEF RegistryInv
<1>1. TypeOK'
  BY DEF ReadColors, TypeOK, Request
<1>2. IdsAreFresh'
  BY DEF ReadColors, TypeOK, Request, IdsAreFresh, InProgress
<1>3. LocalsAgree'
  BY DEF ReadColors, TypeOK, Request, LocalsAgree, InProgress
<1> QED
  BY <1>1, <1>2, <1>3 DEF ReadColors, UniqueNames, ColorsAreLive, Ids

\* The remainder of the row count is a colour of the palette.
LEMMA CountKeeps ==
    ASSUME RegistryInv, NEW c \in Clients, CountColors(c)
    PROVE  RegistryInv'
<1> USE DEF RegistryInv
<1>1. Cardinality(colors) \in Nat
  BY FS_CardinalityType
<1>2. Cardinality(colors) % PaletteSize \in Palette
  BY <1>1, PaletteAssumption DEF Palette
<1>3. TypeOK'
  BY <1>2 DEF CountColors, TypeOK, Request
<1>4. IdsAreFresh' /\ LocalsAgree'
  BY DEF CountColors, TypeOK, Request, IdsAreFresh, LocalsAgree, InProgress
<1> QED
  BY <1>3, <1>4 DEF CountColors, UniqueNames, ColorsAreLive, Ids

\* The foreign key: a colour is recorded for a provider that is still there and
\* that has none.
LEMMA PaintKeeps ==
    ASSUME RegistryInv, NEW c \in Clients, Paint(c)
    PROVE  RegistryInv'
<1> USE DEF RegistryInv
<1>1. TypeOK'
  BY DEF Paint, Step, TypeOK, Request
<1>2. IsFiniteSet(colors')
  BY FS_AddElement DEF Paint
<1>3. ColorsAreLive'
  <2>1. \A r \in colors : r.provider # req[c].id
    BY DEF Paint, LocalsAgree, InProgress
  <2> QED
    BY <2>1 DEF Paint, ColorsAreLive, Ids
<1>4. IdsAreFresh'
  BY DEF Paint, Step, TypeOK, Request, IdsAreFresh, InProgress
<1>5. LocalsAgree'
  BY DEF Paint, Step, TypeOK, Request, IdsAreFresh, LocalsAgree, InProgress
<1> QED
  BY <1>1, <1>2, <1>3, <1>4, <1>5 DEF Paint, UniqueNames

\* The cascade takes the colours of the provider and no others.
LEMMA DeleteKeeps ==
    ASSUME RegistryInv, NEW p \in providers, DeleteProvider(p)
    PROVE  RegistryInv'
<1> USE DEF RegistryInv
<1>1. TypeOK'
  BY DEF DeleteProvider, TypeOK
<1>2. IsFiniteSet(colors')
  BY FS_Subset DEF DeleteProvider
<1>3. ColorsAreLive'
  BY DEF DeleteProvider, ColorsAreLive, Ids
<1>4. IdsAreFresh' /\ LocalsAgree'
  BY DEF DeleteProvider, IdsAreFresh, LocalsAgree, InProgress
<1> QED
  BY <1>1, <1>2, <1>3, <1>4 DEF DeleteProvider, UniqueNames

\* A restart forgets the requests and adds at most the default provider.
LEMMA RestartKeeps ==
    ASSUME RegistryInv, Restart
    PROVE  RegistryInv'
<1> USE DEF RegistryInv
<1>1. TypeOK'
  BY PaletteAssumption DEF Restart, TypeOK, Request, Idle, DefaultProvider, Palette
<1>2. UniqueNames'
  BY DEF Restart, UniqueNames, UsedNames
<1>3. ColorsAreLive'
  BY DEF Restart, ColorsAreLive, Ids
<1>4. IdsAreFresh'
  BY DEF Restart, IdsAreFresh, InProgress, Idle, DefaultProvider, TypeOK
<1>5. LocalsAgree'
  BY DEF Restart, LocalsAgree, InProgress, Idle
<1> QED
  BY <1>1, <1>2, <1>3, <1>4, <1>5 DEF Restart

\* Every step of the registry keeps its invariant.
LEMMA RegistryStep == RegistryInv /\ [Next]_vars => RegistryInv'
<1> SUFFICES ASSUME RegistryInv, [Next]_vars PROVE RegistryInv'
  OBVIOUS
<1>1. ASSUME NEW c \in Clients, Add(c) PROVE RegistryInv'
  BY <1>1, AddKeeps, CheckKeeps, InsertKeeps, ReadKeeps, CountKeeps, PaintKeeps DEF Add
<1>2. ASSUME NEW p \in providers, DeleteProvider(p) PROVE RegistryInv'
  BY <1>2, DeleteKeeps
<1>3. CASE Restart
  BY <1>3, RestartKeeps
<1>4. CASE UNCHANGED vars
  BY <1>4 DEF vars, RegistryInv, TypeOK, Request, UniqueNames, ColorsAreLive, Ids,
              IdsAreFresh, LocalsAgree, InProgress
<1> QED
  BY <1>1, <1>2, <1>3, <1>4 DEF Next

\* The inductive invariant holds in every state.
THEOREM RegistrySafe == Spec => []RegistryInv
<1>1. Init => RegistryInv
  BY RegistryInit
<1>2. RegistryInv /\ [Next]_vars => RegistryInv'
  BY RegistryStep
<1> QED
  BY <1>1, <1>2, PTL DEF Spec

\* A name resolves to one provider however many requests for it overlap.
THEOREM UniqueNamesTheorem == Spec => []UniqueNames
<1>1. RegistryInv => UniqueNames
  BY DEF RegistryInv
<1> QED
  BY <1>1, RegistrySafe, PTL

\* No colour row outlives its provider, and no provider has two.
THEOREM ColorsAreLiveTheorem == Spec => []ColorsAreLive
<1>1. RegistryInv => ColorsAreLive
  BY DEF RegistryInv
<1> QED
  BY <1>1, RegistrySafe, PTL

\* A provider shares a colour only with one it could not have read, or when
\* the whole palette was taken.
THEOREM SharesOnlyByRaceTheorem == Spec => SharesOnlyByRace
<1> DEFINE Shares ==
      \A r \in colors' \ colors : \A q \in colors :
          q.color = r.color =>
              \E c \in Clients :
                  /\ req[c].id = r.provider
                  /\ q \notin req[c].seen \/ Palette \subseteq ColorsIn(req[c].seen)
<1>1. RegistryInv /\ [Next]_vars => [Shares]_vars
  <2> SUFFICES ASSUME RegistryInv, [Next]_vars,
                      NEW r \in colors' \ colors, NEW q \in colors, q.color = r.color
               PROVE  \E c \in Clients :
                          /\ req[c].id = r.provider
                          /\ q \notin req[c].seen \/ Palette \subseteq ColorsIn(req[c].seen)
    OBVIOUS
  <2>1. PICK c \in Clients : Paint(c)
    BY DEF Next, vars, Add, AddProvider, CheckName, InsertProvider, ReadColors, CountColors,
           DeleteProvider, Restart
  <2>2. r = [provider |-> req[c].id, color |-> req[c].color] /\ req[c].at = "paint"
    BY <2>1 DEF Paint
  <2>3. q \in req[c].seen => req[c].color \in ColorsIn(req[c].seen)
    BY <2>2 DEF ColorsIn
  <2> QED
    BY <2>2, <2>3 DEF RegistryInv, LocalsAgree
<1> QED
  BY <1>1, RegistrySafe, PTL DEF Spec, SharesOnlyByRace

\* No request and no restart takes the default provider away.
THEOREM DefaultStaysTheorem == Spec => DefaultStays
<1>1. [Next]_vars => [(DefaultProvider \in providers) => (DefaultProvider \in providers')]_vars
  BY DEF Next, vars, Add, AddProvider, CheckName, InsertProvider, ReadColors, CountColors,
         Paint, DeleteProvider, Restart
<1> QED
  BY <1>1, PTL DEF Spec, DefaultStays

\* providers.py: rows and requests stay typed, the colours inside the palette, also
\* the one that is taken from a row count.
THEOREM RegistryTypes == Spec => []TypeOK
<1>1. RegistryInv => TypeOK
  BY DEF RegistryInv
<1> QED
  BY <1>1, RegistrySafe, PTL
=============================================================================
