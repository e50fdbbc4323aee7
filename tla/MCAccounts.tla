----------------------------- MODULE MCAccounts -----------------------------
(***************************************************************************)
(* Accounts for TLC: users, usernames, passwords, links and requests of    *)
(* each kind are interchangeable.                                          *)
(***************************************************************************)
EXTENDS Accounts, TLC

Symmetric == Permutations(User) \union Permutations(Name) \union Permutations(Password)
                \union Permutations(Link) \union Permutations(Job)

=============================================================================
