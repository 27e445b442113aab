------------------------------ MODULE MCCatalog ------------------------------
(* The instance of MCOneAccount with readers of what it publishes, beside    *)
(* the contract it keeps.                                                   *)
EXTENDS MCOneAccount, UploadRefinement, Catalog

CONSTANTS d1, d2

Symmetry == Permutations({u1, u2}) \cup Permutations({d1, d2})

=============================================================================
