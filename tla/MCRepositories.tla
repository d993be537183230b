--------------------------- MODULE MCRepositories ---------------------------
(* The repositories with two callers and three identities: enough for a     *)
(* page that is cut inside a filter, and for callers that race.             *)
EXTENDS Repositories, TLC

Symmetry == Permutations(Callers) \cup Permutations(Ids) \cup Permutations(Groups)
=============================================================================
