------------------------------- MODULE MCPosts -------------------------------
(* Posts on small instances for TLC: two of the three titles share a slug, *)
(* as "Notes" and "Notes!" do.                                             *)
EXTENDS Posts, TLC

CONSTANTS notes, shouted, other

SharedSlug(t) == IF t = other THEN "other" ELSE "notes"

\* No step tells apart the requests, the two titles that share a slug, or the statuses.
Symmetric == Permutations(Requests) \cup Permutations({notes, shouted}) \cup Permutations(Statuses)
=============================================================================
