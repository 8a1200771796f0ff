------------------------------ MODULE MCAccounts ------------------------------
(***************************************************************************)
(* Two requests, two tenants and three users at most.                      *)
(***************************************************************************)
EXTENDS Accounts, TLC

Symmetry ==
    UNION {Permutations(Requests), Permutations(Tenants), Permutations(Users),
           Permutations(Slugs), Permutations(Emails)}
===============================================================================
