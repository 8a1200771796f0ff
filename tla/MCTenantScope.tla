---------------------------- MODULE MCTenantScope ----------------------------
(***************************************************************************)
(* Three sessions of two tenants share two connections.                    *)
(***************************************************************************)
EXTENDS TenantScope, TLC

Symmetry == Permutations(Tenants) \union Permutations(Sessions) \union Permutations(Connections)
=============================================================================
