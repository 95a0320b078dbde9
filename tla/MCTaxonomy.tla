------------------------------ MODULE MCTaxonomy ------------------------------
(* Taxonomy on small instances for TLC.                                    *)
EXTENDS Taxonomy, TLC

CONSTANT News    \* the names that differ in punctuation only, which slugify drops

SlugOf(n) == IF n \in News THEN "news" ELSE "other"

Symmetric == Permutations(Cats) \cup Permutations(Requests) \cup Permutations(News)
=============================================================================
