------------------------------- MODULE MCBoot -------------------------------
(***************************************************************************)
(* A release with two migrations, and one whose numbering has a hole.      *)
(***************************************************************************)
EXTENDS Boot

AllVersions == 1..2
Releases == {{1}, {1, 2}, {2}}
=============================================================================
