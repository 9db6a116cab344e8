----------------------------- MODULE MCReading -----------------------------
(***************************************************************************)
(* The reading side for TLC: Listing, Views and Locations, which share no  *)
(* variable.  Each is explored while the others are in their initial       *)
(* state; every state of a component is reached so, and the properties are *)
(* about one component each.                                               *)
(***************************************************************************)
EXTENDS Listing, Views, Locations, TLC

Init == ListingInit /\ ViewsInit /\ LocationsInit

Next ==
    \/ ViewsInit /\ LocationsInit /\ ListingNext /\ UNCHANGED <<viewsVars, locationsVars>>
    \/ ListingInit /\ LocationsInit /\ ViewsNext /\ UNCHANGED <<listingVars, locationsVars>>
    \/ ListingInit /\ ViewsInit /\ LocationsNext /\ UNCHANGED <<listingVars, viewsVars>>

Spec == Init /\ [][Next]_<<listingVars, viewsVars, locationsVars>>

\* No action or property names a run of the backfill or a chunk.
Symmetry == Permutations(Runs) \cup Permutations(Batches)

=============================================================================
