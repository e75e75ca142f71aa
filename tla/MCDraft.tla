------------------------------ MODULE MCDraft ------------------------------
(* DraftLifecycle on small instances. *)
EXTENDS DraftLifecycle, TLC

Symmetry == Permutations(Draft) \cup Permutations(Request)
============================================================================
