---------------------- MODULE MCRolePermissionsHistory -----------------------
(***************************************************************************)
(* RolePermissionsHistory for TLC.                                         *)
(***************************************************************************)
EXTENDS RolePermissionsHistory

\* One of the permissions is a starting grant of every role.
SeedOne == [r \in Role |-> {CHOOSE p \in Catalogue : TRUE}]

=============================================================================
