--------------------------- MODULE MCActionReviews ---------------------------
(* ActionReviews for TLC. *)
EXTENDS ActionReviews, TLC

Interchangeable == Permutations(Callers) \cup Permutations(Migrators)
=============================================================================
