-------------------------- MODULE MCProposalTracker --------------------------
(***************************************************************************)
(* Small instances of ProposalTracker, and of its views, for TLC.          *)
(***************************************************************************)
EXTENDS TrackerViews, TLC

Symmetry == Permutations(Callers)

=============================================================================
