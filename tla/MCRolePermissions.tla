------------------------- MODULE MCRolePermissions --------------------------
(***************************************************************************)
(* RolePermissions for TLC: sets of initial grants, and the parameters     *)
(* that are interchangeable. Role and Slug are left out of the symmetry,   *)
(* as SuperAdmin, Catalogue and the initial grants tell them apart.        *)
(***************************************************************************)
EXTENDS RolePermissions, TLC

SeedNothing == [r \in Role |-> {}]

SeedEverything == [r \in Role |-> Catalogue]

Symmetric == Permutations(Call) \union Permutations(Login)

=============================================================================
