----------------------------- MODULE TenantScope -----------------------------
(***************************************************************************)
(* How the scope of a session reaches PostgreSQL (db.py, deps.py 62-79,    *)
(* tasks.py 69-74) and what the row-level security policies then let       *)
(* through (alembic/versions/0001_tenancy.py 118-129).                     *)
(*                                                                         *)
(* The policies compare tenant_id with the setting app.tenant_id of the    *)
(* database connection.  Connections are pooled and a session may use a    *)
(* different one for each of its transactions.  The setting is made with   *)
(* set_config(..., true): it lasts for one transaction, and the after_begin*)
(* hook makes it again at the start of the next one, from session.info.    *)
(*                                                                         *)
(* A handler is any sequence of reads, inserts, commits and failures: "No  *)
(* tenant_id filters here: the session is scoped and RLS does the          *)
(* filtering" (main.py 349), so isolation may not depend on what it does.  *)
(***************************************************************************)
CONSTANTS
    Tenants, Sessions, Nobody,
    Connections,        \* of the pool
    NoConnection,       \* a session between transactions
    Unset, Empty        \* settings of a connection that name no tenant

ASSUME SentinelAssumption ==
    /\ {Nobody, Unset, Empty} \intersect Tenants = {}
    /\ Nobody \notin {Unset, Empty}
    /\ NoConnection \notin Connections

VARIABLES
    kind,       \* how each session was opened: "new", "request", "unscoped", "worker", "closed"
    acts,       \* the tenant it was opened or scoped for
    bound,      \* session.info["tenant_id"], Nobody when absent
    conn,       \* the connection of its open transaction
    setting,    \* app.tenant_id as the connection's transaction sees it
    resting,    \* app.tenant_id of the connection outside a transaction
    stored, pending, seen

vars == <<kind, acts, bound, conn, setting, resting, stored, pending, seen>>
rows == <<stored, pending, seen>>

Store == INSTANCE TenantStore
Rows == [tenant: Tenants, by: Sessions]
Unscoped == {Unset, Empty}

TypeOK ==
    /\ kind \in [Sessions -> {"new", "request", "unscoped", "worker", "closed"}]
    /\ acts \in [Sessions -> Tenants \union {Nobody}]
    /\ bound \in [Sessions -> Tenants \union {Nobody}]
    /\ conn \in [Sessions -> Connections \union {NoConnection}]
    /\ setting \in [Connections -> Tenants \union Unscoped]
    /\ resting \in [Connections -> Tenants \union Unscoped]
    /\ stored \subseteq Rows
    /\ pending \in [Sessions -> SUBSET Rows]
    /\ seen \in [Sessions -> SUBSET Rows]

Init ==
    /\ kind = [s \in Sessions |-> "new"]
    /\ acts = [s \in Sessions |-> Nobody]
    /\ bound = [s \in Sessions |-> Nobody]
    /\ conn = [s \in Sessions |-> NoConnection]
    /\ setting = [c \in Connections |-> Unset]
    /\ resting = [c \in Connections |-> Unset]
    /\ stored = {}
    /\ pending = [s \in Sessions |-> {}]
    /\ seen = [s \in Sessions |-> {}]

IsOpen(s) == kind[s] \in {"request", "unscoped", "worker"}
InTransaction(s) == conn[s] # NoConnection
Free(c) == \A s \in Sessions : conn[s] # c

-----------------------------------------------------------------------------
(* Transactions *)

\* set_config('app.tenant_id', t, true)
SetLocal(c, t) == setting' = [setting EXCEPT ![c] = t]

\* BEGIN on a connection of the pool, scoped to t unless t is Nobody.
BeginScoped(s, t) ==
    \E c \in Connections :
        /\ Free(c)
        /\ conn' = [conn EXCEPT ![s] = c]
        /\ IF t = Nobody THEN UNCHANGED setting ELSE SetLocal(c, t)
        /\ UNCHANGED resting

\* A slip: set_config(..., false), which outlives the transaction.
KeepSetting(c) ==
    /\ resting' = [resting EXCEPT ![c] = setting[c]]
    /\ UNCHANGED setting

\* A setting made for one transaction leaves the empty string behind.
ResetSetting(c) ==
    LET rest == IF setting[c] = resting[c] THEN resting[c] ELSE Empty IN
    /\ setting' = [setting EXCEPT ![c] = rest]
    /\ resting' = [resting EXCEPT ![c] = rest]

\* COMMIT or ROLLBACK; the connection goes back to the pool.
EndTransaction(s) ==
    /\ conn' = [conn EXCEPT ![s] = NoConnection]
    /\ pending' = [pending EXCEPT ![s] = {}]
    /\ ResetSetting(conn[s])

-----------------------------------------------------------------------------
(* Sessions *)

\* get_session, tenant_session and refresh: apply_tenant_scope fills session.info
\* and opens the transaction.
OpenRequest(s, t) ==
    /\ kind[s] = "new"
    /\ kind' = [kind EXCEPT ![s] = "request"]
    /\ acts' = [acts EXCEPT ![s] = t]
    /\ bound' = [bound EXCEPT ![s] = t]
    /\ BeginScoped(s, t)
    /\ UNCHANGED rows

\* unscoped_session: no tenant, and no transaction before the first statement.
OpenUnscoped(s) ==
    /\ kind[s] = "new"
    /\ kind' = [kind EXCEPT ![s] = "unscoped"]
    /\ UNCHANGED <<acts, bound, conn, setting, resting, rows>>

\* The worker's session: _scope in its only transaction, nothing in session.info.
OpenWorker(s, t) ==
    /\ kind[s] = "new"
    /\ kind' = [kind EXCEPT ![s] = "worker"]
    /\ acts' = [acts EXCEPT ![s] = t]
    /\ BeginScoped(s, t)
    /\ UNCHANGED <<bound, rows>>

\* A slip: only the next transaction is scoped.
BindLater(s, t) ==
    /\ kind[s] = "unscoped"
    /\ InTransaction(s)
    /\ acts[s] = Nobody
    /\ acts' = [acts EXCEPT ![s] = t]
    /\ bound' = [bound EXCEPT ![s] = t]
    /\ UNCHANGED <<kind, conn, setting, resting, rows>>

\* apply_tenant_scope by create_tenant and login, inside the transaction that found
\* or made the tenant.
Bind(s, t) ==
    /\ kind[s] = "unscoped"
    /\ InTransaction(s)
    /\ acts[s] = Nobody
    /\ acts' = [acts EXCEPT ![s] = t]
    /\ bound' = [bound EXCEPT ![s] = t]
    /\ SetLocal(conn[s], t)
    /\ UNCHANGED <<kind, conn, resting, rows>>

\* Slips: no after_begin hook; a hook that does not look whether there is a tenant.
BeginUnhooked(s) ==
    /\ kind[s] \in {"request", "unscoped"}
    /\ ~ InTransaction(s)
    /\ BeginScoped(s, Nobody)
    /\ UNCHANGED <<kind, acts, bound, rows>>

BeginAlwaysScoped(s) ==
    /\ kind[s] \in {"request", "unscoped"}
    /\ ~ InTransaction(s)
    /\ \E c \in Connections :
        /\ Free(c)
        /\ conn' = [conn EXCEPT ![s] = c]
        /\ SetLocal(c, bound[s])
    /\ UNCHANGED <<kind, acts, bound, resting, rows>>

\* The first statement after the session was opened or after a commit.
Begin(s) ==
    /\ kind[s] \in {"request", "unscoped"}
    /\ ~ InTransaction(s)
    /\ BeginScoped(s, bound[s])
    /\ UNCHANGED <<kind, acts, bound, rows>>

\* A slip: a policy that admits everything to a connection with no tenant.
PassesWhenUnscoped(s, t) == setting[conn[s]] \in Unscoped \union {t}

\* USING and WITH CHECK: tenant_id = NULLIF(current_setting('app.tenant_id', true), '')
Passes(s, t) == setting[conn[s]] \notin Unscoped /\ setting[conn[s]] = t

Read(s) ==
    /\ IsOpen(s)
    /\ InTransaction(s)
    /\ seen' = [seen EXCEPT ![s] = {r \in stored \union pending[s] : Passes(s, r.tenant)}]
    /\ UNCHANGED <<kind, acts, bound, conn, setting, resting, stored, pending>>

\* An INSERT of a row of tenant t; one the policy refuses raises, see Close.
Insert(s, t) ==
    /\ IsOpen(s)
    /\ InTransaction(s)
    /\ Passes(s, t)
    /\ pending' = [pending EXCEPT ![s] = @ \union {[tenant |-> t, by |-> s]}]
    /\ UNCHANGED <<kind, acts, bound, conn, setting, resting, stored, seen>>

\* session.commit(): at the end, in commit_now, and before the model call of
\* /chat.  The worker does not use a session again after its commit.
Commit(s) ==
    /\ IsOpen(s)
    /\ InTransaction(s)
    /\ stored' = stored \union pending[s]
    /\ EndTransaction(s)
    /\ kind' = [kind EXCEPT ![s] = IF @ = "worker" THEN "closed" ELSE @]
    /\ UNCHANGED <<acts, bound, seen>>

\* Leaving the session, or an exception in it: what is not committed is rolled back.
Close(s) ==
    /\ IsOpen(s)
    /\ kind' = [kind EXCEPT ![s] = "closed"]
    /\ IF InTransaction(s) THEN EndTransaction(s)
       ELSE UNCHANGED <<conn, pending, setting, resting>>
    /\ UNCHANGED <<acts, bound, stored, seen>>

\* pool_pre_ping replaces a dead connection by a fresh one.
Reconnect(c) ==
    /\ Free(c)
    /\ setting' = [setting EXCEPT ![c] = Unset]
    /\ resting' = [resting EXCEPT ![c] = Unset]
    /\ UNCHANGED <<kind, acts, bound, conn, rows>>

Next ==
    \/ \E s \in Sessions :
        \/ \E t \in Tenants : OpenRequest(s, t) \/ OpenWorker(s, t) \/ Bind(s, t) \/ Insert(s, t)
        \/ OpenUnscoped(s) \/ Begin(s) \/ Read(s) \/ Commit(s) \/ Close(s)
    \/ \E c \in Connections : Reconnect(c)

Spec == Init /\ [][Next]_vars

-----------------------------------------------------------------------------
(* Properties *)

(***************************************************************************)
(* A transaction of a session that acts for a tenant is scoped to that     *)
(* tenant, the first one and every one after a commit, on whichever        *)
(* connection it runs; one of a session that acts for nobody is scoped to  *)
(* nobody, whoever used the connection before (db.py 70-88).               *)
(***************************************************************************)
ScopeFollowsSession ==
    \A s \in Sessions : InTransaction(s) =>
        IF acts[s] = Nobody THEN setting[conn[s]] \in Unscoped
        ELSE setting[conn[s]] = acts[s]

(***************************************************************************)
(* A connection waiting in the pool is scoped to nobody.                   *)
(***************************************************************************)
IdleConnectionsUnscoped ==
    \A c \in Connections : Free(c) => setting[c] \in Unscoped /\ resting[c] \in Unscoped

(***************************************************************************)
(* No session is ever shown another tenant's row, or files one.            *)
(***************************************************************************)
OwnRowsOnly == Store!OwnRowsOnly

(***************************************************************************)
(* The tables behave as if every tenant had its own: a session neither     *)
(* sees too much, nor, after a commit, suddenly nothing.                   *)
(***************************************************************************)
ImplementsTenantStore == Store!Spec

-----------------------------------------------------------------------------
(***************************************************************************)
(* The inductive invariant: who holds a connection, and that session.info  *)
(* agrees with the tenant the session acts for wherever the hook relies on *)
(* it.                                                                     *)
(***************************************************************************)
HoldersInv ==
    /\ \A s \in Sessions : InTransaction(s) => IsOpen(s)
    /\ \A s, u \in Sessions : InTransaction(s) /\ conn[s] = conn[u] => s = u
    /\ \A c \in Connections : resting[c] \in Unscoped

BindingInv ==
    \A s \in Sessions :
        /\ kind[s] = "new" => acts[s] = Nobody /\ bound[s] = Nobody
        /\ kind[s] \in {"request", "unscoped"} => bound[s] = acts[s]

PendingInv ==
    \A s \in Sessions :
        /\ ~ InTransaction(s) => pending[s] = {}
        /\ \A r \in pending[s] : r.tenant = acts[s] /\ r.by = s

ScopeInv ==
    /\ TypeOK
    /\ HoldersInv
    /\ BindingInv
    /\ PendingInv
    /\ ScopeFollowsSession
    /\ IdleConnectionsUnscoped
    /\ OwnRowsOnly

=============================================================================
