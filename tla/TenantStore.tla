----------------------------- MODULE TenantStore -----------------------------
(***************************************************************************)
(* What row-level security promises: the tenant tables behave as if every  *)
(* tenant had a database of its own.  A session acts for one tenant, or    *)
(* for nobody yet; it reads and writes that tenant's rows and no others,   *)
(* for as long as it lives and across all its transactions.                *)
(*                                                                         *)
(* TenantScope implements this module.                                     *)
(***************************************************************************)
CONSTANTS
    Tenants,
    Sessions,
    Nobody      \* the tenant of a session that acts for none

VARIABLES
    acts,       \* the tenant each session acts for
    stored,     \* committed rows
    pending,    \* rows written by the open transaction of each session
    seen        \* what the last read of each session returned

vars == <<acts, stored, pending, seen>>

\* A row of any tenant-scoped table, and the session that wrote it.
Rows == [tenant: Tenants, by: Sessions]

Init ==
    /\ acts = [s \in Sessions |-> Nobody]
    /\ stored = {}
    /\ pending = [s \in Sessions |-> {}]
    /\ seen = [s \in Sessions |-> {}]

Act(s, t) ==
    /\ acts[s] = Nobody
    /\ acts' = [acts EXCEPT ![s] = t]
    /\ UNCHANGED <<stored, pending, seen>>

\* All the rows of the session's tenant, and only those.
Read(s) ==
    /\ seen' = [seen EXCEPT ![s] =
                 {r \in stored \union pending[s] : r.tenant = acts[s]}]
    /\ UNCHANGED <<acts, stored, pending>>

Insert(s) ==
    /\ acts[s] \in Tenants
    /\ pending' = [pending EXCEPT ![s] = @ \union {[tenant |-> acts[s], by |-> s]}]
    /\ UNCHANGED <<acts, stored, seen>>

Commit(s) ==
    /\ stored' = stored \union pending[s]
    /\ pending' = [pending EXCEPT ![s] = {}]
    /\ UNCHANGED <<acts, seen>>

Rollback(s) ==
    /\ pending' = [pending EXCEPT ![s] = {}]
    /\ UNCHANGED <<acts, stored, seen>>

Next ==
    \E s \in Sessions :
        \/ \E t \in Tenants : Act(s, t)
        \/ Read(s) \/ Insert(s) \/ Commit(s) \/ Rollback(s)

Spec == Init /\ [][Next]_vars

-----------------------------------------------------------------------------

(***************************************************************************)
(* No session is shown a row of another tenant, and no row is filed under  *)
(* a tenant other than the one its writer acted for.                       *)
(***************************************************************************)
OwnRowsOnly ==
    /\ \A s \in Sessions : \A r \in seen[s] : r.tenant = acts[s]
    /\ \A r \in stored : r.tenant = acts[r.by]

=============================================================================
