---------------------------- MODULE DirectorySpec ----------------------------
(***************************************************************************)
(* The directory of tenants and users as anybody sees it who signs in or   *)
(* reads the tables: no request, no transaction, no token.  A tenant is    *)
(* known by its slug, a user by the tenant and an email.  A tenant appears *)
(* together with its administrator, and nobody disappears or changes name. *)
(* No endpoint changes a role or closes anything; operators do, and lower  *)
(* roles only.                                                             *)
(*                                                                         *)
(* Accounts implements this module.                                        *)
(***************************************************************************)
EXTENDS Naturals

CONSTANTS Slugs, Emails

VARIABLES
    tenants,    \* rows of the table tenants
    users       \* rows of the table users, with the slug of their tenant

vars == <<tenants, users>>

Roles == {"viewer", "operator", "admin"}
Rank == [viewer |-> 0, operator |-> 1, admin |-> 2]

Init == tenants = {} /\ users = {}

User(s, e, r) == [tenant |-> s, email |-> e, role |-> r, active |-> TRUE]

\* POST /tenants
Found(s, e) ==
    /\ \A t \in tenants : t.slug # s
    /\ tenants' = tenants \union {[slug |-> s, open |-> TRUE]}
    /\ users' = users \union {User(s, e, "admin")}

\* POST /users
AddUser(s, e, r) ==
    /\ \E t \in tenants : t.slug = s
    /\ \A u \in users : u.tenant = s => u.email # e
    /\ users' = users \union {User(s, e, r)}
    /\ UNCHANGED tenants

Becomes(u, row) == users' = (users \ {u}) \union {row} /\ UNCHANGED tenants

Demote(u, r) == Rank[r] < Rank[u.role] /\ Becomes(u, [u EXCEPT !.role = r])

Deactivate(u) == u.active /\ Becomes(u, [u EXCEPT !.active = FALSE])

Close(t) ==
    /\ t.open
    /\ tenants' = (tenants \ {t}) \union {[t EXCEPT !.open = FALSE]}
    /\ UNCHANGED users

Next ==
    \/ \E s \in Slugs, e \in Emails : Found(s, e) \/ \E r \in Roles : AddUser(s, e, r)
    \/ \E u \in users : Deactivate(u) \/ \E r \in Roles : Demote(u, r)
    \/ \E t \in tenants : Close(t)

Spec == Init /\ [][Next]_vars

-----------------------------------------------------------------------------

(***************************************************************************)
(* "Both or neither. A tenant created without its admin is unreachable"    *)
(* (auth.py 46-47): every tenant has a user, and every user a tenant.      *)
(***************************************************************************)
TenantsReachable ==
    /\ \A t \in tenants : \E u \in users : u.tenant = t.slug
    /\ \A u \in users : \E t \in tenants : t.slug = u.tenant

=============================================================================
