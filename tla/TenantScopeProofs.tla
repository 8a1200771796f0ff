-------------------------- MODULE TenantScopeProofs --------------------------
(***************************************************************************)
(* Proofs about TenantScope, for any tenants, sessions and pool.           *)
(***************************************************************************)
EXTENDS TenantScope, TLAPS

(***************************************************************************)
(* Every variable keeps its type.                                          *)
(***************************************************************************)
LEMMA TypeInductive == TypeOK /\ [Next]_vars => TypeOK'
<1> SUFFICES ASSUME TypeOK, [Next]_vars PROVE TypeOK'
  OBVIOUS
<1> USE SentinelAssumption DEF TypeOK, Rows, Unscoped, rows, SetLocal
<1>1. ASSUME NEW s \in Sessions, NEW t \in Tenants, OpenRequest(s, t) PROVE TypeOK'
  BY <1>1 DEF OpenRequest, BeginScoped
<1>2. ASSUME NEW s \in Sessions, NEW t \in Tenants, OpenWorker(s, t) PROVE TypeOK'
  BY <1>2 DEF OpenWorker, BeginScoped
<1>3. ASSUME NEW s \in Sessions, NEW t \in Tenants, Bind(s, t) PROVE TypeOK'
  BY <1>3 DEF Bind
<1>4. ASSUME NEW s \in Sessions, NEW t \in Tenants, Insert(s, t) PROVE TypeOK'
  BY <1>4 DEF Insert
<1>5. ASSUME NEW s \in Sessions, OpenUnscoped(s) PROVE TypeOK'
  BY <1>5 DEF OpenUnscoped
<1>6. ASSUME NEW s \in Sessions, Begin(s) PROVE TypeOK'
  BY <1>6 DEF Begin, BeginScoped
<1>7. ASSUME NEW s \in Sessions, Read(s) PROVE TypeOK'
  BY <1>7 DEF Read
<1>8. ASSUME NEW s \in Sessions, Commit(s) PROVE TypeOK'
  BY <1>8 DEF Commit, EndTransaction, ResetSetting
<1>9. ASSUME NEW s \in Sessions, Close(s) PROVE TypeOK'
  BY <1>9 DEF Close, EndTransaction, ResetSetting
<1>10. ASSUME NEW c \in Connections, Reconnect(c) PROVE TypeOK'
  BY <1>10 DEF Reconnect
<1>11. CASE UNCHANGED vars
  BY <1>11 DEF vars
<1> QED
  BY <1>1, <1>2, <1>3, <1>4, <1>5, <1>6, <1>7, <1>8, <1>9, <1>10, <1>11 DEF Next

(***************************************************************************)
(* The invariant behind isolation is inductive.                            *)
(***************************************************************************)
LEMMA ScopeInvInductive == ScopeInv /\ [Next]_vars => ScopeInv'
<1> SUFFICES ASSUME ScopeInv, [Next]_vars PROVE ScopeInv'
  OBVIOUS
<1> TypeOK'
  BY TypeInductive DEF ScopeInv
<1> USE SentinelAssumption DEF ScopeInv, TypeOK, HoldersInv, BindingInv, PendingInv,
      ScopeFollowsSession, IdleConnectionsUnscoped, OwnRowsOnly, Store!OwnRowsOnly,
      InTransaction, IsOpen, Free, Rows, Unscoped, rows, SetLocal
<1>1. ASSUME NEW s \in Sessions, NEW t \in Tenants, OpenRequest(s, t) PROVE ScopeInv'
  BY <1>1 DEF OpenRequest, BeginScoped
<1>2. ASSUME NEW s \in Sessions, NEW t \in Tenants, OpenWorker(s, t) PROVE ScopeInv'
  BY <1>2 DEF OpenWorker, BeginScoped
<1>3. ASSUME NEW s \in Sessions, NEW t \in Tenants, Bind(s, t) PROVE ScopeInv'
  BY <1>3 DEF Bind
<1>4. ASSUME NEW s \in Sessions, NEW t \in Tenants, Insert(s, t) PROVE ScopeInv'
  BY <1>4 DEF Insert, Passes
<1>5. ASSUME NEW s \in Sessions, OpenUnscoped(s) PROVE ScopeInv'
  BY <1>5 DEF OpenUnscoped
<1>6. ASSUME NEW s \in Sessions, Begin(s) PROVE ScopeInv'
  BY <1>6 DEF Begin, BeginScoped
<1>7. ASSUME NEW s \in Sessions, Read(s) PROVE ScopeInv'
  BY <1>7 DEF Read, Passes
<1>8. ASSUME NEW s \in Sessions, Commit(s) PROVE ScopeInv'
  BY <1>8 DEF Commit, EndTransaction, ResetSetting
<1>9. ASSUME NEW s \in Sessions, Close(s) PROVE ScopeInv'
  BY <1>9 DEF Close, EndTransaction, ResetSetting
<1>10. ASSUME NEW c \in Connections, Reconnect(c) PROVE ScopeInv'
  BY <1>10 DEF Reconnect
<1>11. CASE UNCHANGED vars
  BY <1>11 DEF vars
<1> QED
  BY <1>1, <1>2, <1>3, <1>4, <1>5, <1>6, <1>7, <1>8, <1>9, <1>10, <1>11 DEF Next

(***************************************************************************)
(* The invariant of the sessions holds in every reachable state: one       *)
(* session per connection, and session.info naming the tenant wherever the *)
(* after_begin hook will read it.                                          *)
(***************************************************************************)
THEOREM ScopeInvariant == Spec => []ScopeInv
<1>1. Init => ScopeInv
  BY SentinelAssumption
     DEF Init, ScopeInv, TypeOK, HoldersInv, BindingInv, PendingInv, ScopeFollowsSession,
         IdleConnectionsUnscoped, OwnRowsOnly, Store!OwnRowsOnly, InTransaction, IsOpen, Free,
         Rows, Unscoped
<1> QED
  BY <1>1, ScopeInvInductive, PTL DEF Spec

(***************************************************************************)
(* Every transaction is scoped to the tenant its session acts for, and an  *)
(* idle connection to none.                                                *)
(***************************************************************************)
THEOREM ScopeIsRight == Spec => [](ScopeFollowsSession /\ IdleConnectionsUnscoped)
<1>1. ScopeInv => ScopeFollowsSession /\ IdleConnectionsUnscoped
  BY DEF ScopeInv
<1> QED
  BY <1>1, ScopeInvariant, PTL

(***************************************************************************)
(* No session sees or files another tenant's row.                          *)
(***************************************************************************)
THEOREM Isolation == Spec => []OwnRowsOnly
<1>1. ScopeInv => OwnRowsOnly
  BY DEF ScopeInv
<1> QED
  BY <1>1, ScopeInvariant, PTL

(***************************************************************************)
(* Pooled connections, settings and hooks together are one store per       *)
(* tenant.                                                                 *)
(***************************************************************************)
THEOREM Implements == Spec => ImplementsTenantStore
<1>1. Init => Store!Init
  BY DEF Init, Store!Init
<1>2. ASSUME ScopeInv, [Next]_vars PROVE [Store!Next]_(Store!vars)
  <2> USE <1>2, SentinelAssumption DEF ScopeInv, TypeOK, PendingInv, BindingInv, HoldersInv,
        ScopeFollowsSession, InTransaction, IsOpen, Unscoped, rows, Store!Next, Store!vars
  <2>1. ASSUME NEW s \in Sessions, NEW t \in Tenants, OpenRequest(s, t) \/ OpenWorker(s, t)
        PROVE  Store!Act(s, t)
    BY <2>1 DEF OpenRequest, OpenWorker, Store!Act
  <2>2. ASSUME NEW s \in Sessions, NEW t \in Tenants, Bind(s, t) PROVE Store!Act(s, t)
    BY <2>2 DEF Bind, Store!Act
  <2>3. ASSUME NEW s \in Sessions, NEW t \in Tenants, Insert(s, t) PROVE Store!Insert(s)
    BY <2>3 DEF Insert, Passes, Store!Insert
  <2>4. ASSUME NEW s \in Sessions, Read(s) PROVE Store!Read(s)
    <3>1. \A r \in Rows : Passes(s, r.tenant) <=> r.tenant = acts[s]
      BY <2>4 DEF Read, Passes, Rows
    <3>2. {r \in stored \union pending[s] : Passes(s, r.tenant)}
            = {r \in stored \union pending[s] : r.tenant = acts[s]}
      BY <3>1
    <3> QED
      BY <2>4, <3>2 DEF Read, Store!Read
  <2>5. ASSUME NEW s \in Sessions, Commit(s) PROVE Store!Commit(s)
    BY <2>5 DEF Commit, EndTransaction, Store!Commit
  <2>6. ASSUME NEW s \in Sessions, Close(s) PROVE Store!Rollback(s) \/ UNCHANGED Store!vars
    BY <2>6 DEF Close, EndTransaction, Store!Rollback
  <2>7. ASSUME \/ \E s \in Sessions : OpenUnscoped(s) \/ Begin(s)
               \/ \E c \in Connections : Reconnect(c)
               \/ UNCHANGED vars
        PROVE  UNCHANGED Store!vars
    BY <2>7 DEF OpenUnscoped, Begin, Reconnect, vars
  <2> QED
    BY <2>1, <2>2, <2>3, <2>4, <2>5, <2>6, <2>7 DEF Next
<1> QED
  BY <1>1, <1>2, ScopeInvariant, PTL DEF Spec, ImplementsTenantStore, Store!Spec

(***************************************************************************)
(* Sessions, connections and rows keep their types, whoever holds what.    *)
(***************************************************************************)
THEOREM TypeCorrect == Spec => []TypeOK
<1>1. ScopeInv => TypeOK
  BY DEF ScopeInv
<1> QED
  BY <1>1, ScopeInvariant, PTL

(***************************************************************************)
(* A connection that goes back to the pool carries no tenant over to the   *)
(* next request.                                                           *)
(***************************************************************************)
THEOREM NoScopeIsLeftBehind == Spec => []IdleConnectionsUnscoped
<1>1. ScopeInv => IdleConnectionsUnscoped
  BY DEF ScopeInv
<1> QED
  BY <1>1, ScopeInvariant, PTL

=============================================================================
