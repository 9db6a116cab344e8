---------------------------- MODULE MCProviders ----------------------------
(***************************************************************************)
(* Providers for TLC: two requests to add at a time and a palette of two   *)
(* colours, so that it is used up, freed and raced for.                    *)
(***************************************************************************)
EXTENDS Providers, TLC

\* Requests are interchangeable: no action or property names one.
ClientSymmetry == Permutations(Clients)
=============================================================================
