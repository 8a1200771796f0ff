--------------------------- MODULE DeploymentProofs ---------------------------
(***************************************************************************)
(* Theorems about Deployment, for any Jobs, commands, retries and faults.  *)
(***************************************************************************)
EXTENDS Deployment, FiniteSetTheorems, TLAPS

-----------------------------------------------------------------------------
(* Types *)

LEMMA StatementsOfATable ==
    \A t \in Tables : {Create(t), Protect(t), Expose(t), Drop(t)} \subseteq Statements
  BY DEF Statements

LEMMA ScriptTypes == \A v, to : NextScript(v, to) \in Seq(Statements)
<1>1. Upgrade1 \in Seq(Statements)
  BY StatementsOfATable DEF Upgrade1, Tables, TENANT_SCOPED_TABLES
<1>2. Upgrade2 \in Seq(Statements) /\ Downgrade2 \in Seq(Statements)
  BY StatementsOfATable DEF Upgrade2, Downgrade2, Tables, TENANT_SCOPED_TABLES
<1>3. Downgrade1 \in Seq(Statements)
  BY StatementsOfATable DEF Downgrade1, Tables, TENANT_SCOPED_TABLES
<1> QED
  BY <1>1, <1>2, <1>3 DEF NextScript

LEMMA StatementTypes ==
    ASSUME NEW s \in Statements
    PROVE  /\ s.table \in Tables
           /\ s.leaves \in SUBSET Marks
           /\ s.op \in {"create", "protect", "expose", "drop"}
           /\ Locked(s) \in SUBSET Tables
  BY DEF Statements, Create, Protect, Expose, Drop, Marks, Protected, Open, Absent, Locked, References,
         Tables, TENANT_SCOPED_TABLES

MigrationTypes ==
    /\ pc \in [Migrators -> {"idle", "running", "complete", "failed"}]
    /\ attempts \in [Migrators -> 0 .. BackoffLimit]
    /\ script \in [Migrators -> Seq(Statements)]
    /\ draft \in [Migrators -> Catalogues]
    /\ stamped \in [Migrators -> Revisions]
    /\ locks \in [Migrators -> SUBSET (Tables \union {VersionTable})]

SchemaTypes ==
    /\ tables \in Catalogues
    /\ version \in Revisions
    /\ dbUp \in BOOLEAN
    /\ target \in [Migrators -> Revisions]

ApplicationTypes ==
    /\ settings \in Settings
    /\ process \in {"down", "refused", "serving"}
    /\ probe \in {"idle", "begun", "selected"}
    /\ report \in [auth: {"none", "enabled", "open mode"},
                   background: {"none", "celery", "inline"},
                   database: {"none", "ok", "unavailable"},
                   rls: {"none", "not applicable", "enforced", "incomplete", "unknown"}]

LEMMA BareType == Bare \in Catalogues
  BY DEF Bare, Catalogues, Absent

LEMMA FailTypes ==
    ASSUME MigrationTypes, NEW ms, Fail(ms)
    PROVE  MigrationTypes'
<1>1. \A m \in Migrators : RetryLimit(m) \in Nat /\ RetryLimit(m) <= BackoffLimit
  BY BoundsAssumption DEF RetryLimit
<1>2. attempts' \in [Migrators -> 0 .. BackoffLimit]
  BY <1>1, BoundsAssumption DEF Fail, Retried, MigrationTypes
<1>3. pc' \in [Migrators -> {"idle", "running", "complete", "failed"}]
  BY DEF Fail, MigrationTypes
<1> QED
  BY <1>2, <1>3, BareType DEF Fail, Release, MigrationTypes, Revisions

LEMMA ViewType ==
    ASSUME MigrationTypes, SchemaTypes, NEW m \in Migrators
    PROVE  View(m) \in Catalogues /\ VersionSeen(m) \in Revisions
  BY DEF View, VersionSeen, Catalogues, MigrationTypes, SchemaTypes

LEMMA ExecuteTypes ==
    ASSUME MigrationTypes, SchemaTypes, NEW m \in Migrators, Execute(m)
    PROVE  MigrationTypes'
<1> DEFINE s == Head(script[m])
<1>1. s \in Statements /\ Tail(script[m]) \in Seq(Statements)
  BY DEF Execute, AtStatement, MigrationTypes
<1>2. Effect(s, View(m)) \in Catalogues
  BY <1>1, StatementTypes, ViewType DEF Effect, Catalogues
<1> QED
  BY <1>1, <1>2, StatementTypes DEF Execute, MigrationTypes

LEMMA StampTypes ==
    ASSUME MigrationTypes, SchemaTypes, NEW m \in Migrators, Stamp(m)
    PROVE  MigrationTypes'
<1>1. Toward(stamped[m], target[m]) \in Revisions
  BY DEF Toward, Revisions, Stamp, AtStamp, MigrationTypes, SchemaTypes
<1> QED
  BY <1>1, ScriptTypes DEF Stamp, MigrationTypes, VersionTable

LEMMA TypesInit == Init => TypeOK
  BY BareType, BoundsAssumption DEF Init, TypeOK, Revisions, NoReport

LEMMA TypesNext == TypeOK /\ [Next]_vars => TypeOK'
<1> SUFFICES ASSUME TypeOK, [Next]_vars PROVE TypeOK'
  OBVIOUS
<1>t. MigrationTypes /\ SchemaTypes /\ ApplicationTypes /\ faults \in 0 .. MaxFaults
  BY DEF TypeOK, MigrationTypes, SchemaTypes, ApplicationTypes
<1>q. MigrationTypes' /\ SchemaTypes' /\ ApplicationTypes' /\ (faults \in 0 .. MaxFaults)' => TypeOK'
  BY DEF TypeOK, MigrationTypes, SchemaTypes, ApplicationTypes
<1>f. Fault => faults' \in 0 .. MaxFaults
  BY <1>t, BoundsAssumption DEF Fault
<1>a. UNCHANGED application => ApplicationTypes'
  BY <1>t DEF application, ApplicationTypes
<1>d. UNCHANGED database => MigrationTypes' /\ SchemaTypes'
  BY <1>t DEF database, transactions, MigrationTypes, SchemaTypes
<1>1. CASE \E m \in Migrators : Begin(m) \/ Settle(m) \/ MigrationFails(m) \/ CommitReplyLost(m)
  <2>0. PICK m \in Migrators : Begin(m) \/ Settle(m) \/ MigrationFails(m) \/ CommitReplyLost(m)
    BY <1>1
  <2>1. CASE BeginMigration(m)
    <3>1. MigrationTypes'
      BY <1>t, <2>1, ScriptTypes DEF BeginMigration, MigrationTypes, SchemaTypes
    <3> QED
      BY <1>t, <1>q, <1>a, <2>1, <3>1 DEF BeginMigration, SchemaTypes
  <2>2. CASE CannotConnect(m) \/ Refused(m)
    BY <1>t, <1>q, <1>a, <2>2, FailTypes DEF CannotConnect, Refused, SchemaTypes
  <2>3. CASE Execute(m)
    BY <1>t, <1>q, <1>a, <2>3, ExecuteTypes DEF Execute, SchemaTypes
  <2>4. CASE Stamp(m)
    BY <1>t, <1>q, <1>a, <2>4, StampTypes DEF Stamp, SchemaTypes
  <2>5. Commits(m) => tables' \in Catalogues /\ version' \in Revisions
    BY <1>t, ViewType DEF Commits
  <2>6. CASE CommitMigration(m)
    <3>1. MigrationTypes'
      BY <1>t, <2>6, BareType DEF CommitMigration, Release, MigrationTypes, Revisions
    <3> QED
      BY <1>t, <1>q, <1>a, <2>5, <2>6, <3>1 DEF CommitMigration, SchemaTypes
  <2>7. CASE MigrationFails(m)
    BY <1>t, <1>q, <1>a, <1>f, <2>7, FailTypes DEF MigrationFails, SchemaTypes
  <2>8. CASE CommitReplyLost(m)
    BY <1>t, <1>q, <1>a, <1>f, <2>5, <2>8, FailTypes DEF CommitReplyLost, SchemaTypes
  <2> QED
    BY <2>0, <2>1, <2>2, <2>3, <2>4, <2>6, <2>7, <2>8 DEF Begin, Settle
<1>2. CASE Outage
  BY <1>t, <1>q, <1>a, <1>f, <1>2, FailTypes DEF Outage, SchemaTypes
<1>3. CASE Recover
  BY <1>t, <1>q, <1>a, <1>3 DEF Recover, transactions, SchemaTypes, MigrationTypes
<1>4. CASE StartProcess
  BY <1>t, <1>q, <1>d, <1>4 DEF StartProcess, ApplicationTypes
<1>8. CASE StopProcess
  BY <1>t, <1>q, <1>d, <1>8 DEF StopProcess, ApplicationTypes, NoReport
<1>5. CASE BeginHealth
  BY <1>t, <1>q, <1>d, <1>5 DEF BeginHealth, Answers, ApplicationTypes, NoReport
<1>6. CASE SelectOne \/ CountForced \/ HealthRaises
  BY <1>t, <1>q, <1>d, <1>6 DEF SelectOne, CountForced, HealthRaises, Answers, ApplicationTypes
<1>7. CASE UNCHANGED vars
  <2>1. UNCHANGED <<transactions, application>>
    BY <1>7 DEF vars
  <2>2. UNCHANGED <<database, faults>>
    BY <1>7 DEF vars, database
  <2> QED
    BY <1>t, <1>q, <1>a, <1>d, <2>1, <2>2
<1> QED
  BY <1>1, <1>2, <1>3, <1>4, <1>5, <1>6, <1>7, <1>8 DEF Next, Health

(***************************************************************************)
(* Every migration is at a revision there is, with statements of the       *)
(* scripts left to run, and no Job retries more often than it may.         *)
(***************************************************************************)
THEOREM TypeCorrect == Spec => []TypeOK
  BY TypesInit, TypesNext, PTL DEF Spec

-----------------------------------------------------------------------------
(* Scripts *)

In(s, x) == \E i \in DOMAIN s : s[i] = x

Creates(s) == {t \in Tables : In(s, Create(t))}
Drops(s) == {t \in Tables : In(s, Drop(t))}

Ups == {"create", "protect"}
Downs == {"expose", "drop"}

\* No statement comes twice, all go one way, and only tenants' own statements are of
\* the kind that takes part in no protection.
Plain(s, ops) ==
    /\ s \in Seq(Statements)
    /\ \A i, j \in DOMAIN s : s[i] = s[j] => i = j
    /\ \A i \in DOMAIN s : s[i].op \in ops
    /\ \A i \in DOMAIN s : s[i].table = "tenants" => s[i].op \in {"create", "drop"}

LEMMA TailOfScript ==
    ASSUME NEW s \in Seq(Statements), s # <<>>
    PROVE  /\ Head(s) = s[1] /\ 1 \in DOMAIN s /\ Head(s) \in Statements
           /\ Tail(s) \in Seq(Statements)
           /\ \A i \in DOMAIN Tail(s) : i + 1 \in DOMAIN s /\ i + 1 # 1 /\ Tail(s)[i] = s[i + 1]
           /\ \A i \in DOMAIN s : i # 1 => i - 1 \in DOMAIN Tail(s) /\ s[i] = Tail(s)[i - 1]
  OBVIOUS

LEMMA TailIsPlain ==
    ASSUME NEW s, NEW ops, Plain(s, ops), s # <<>>
    PROVE  /\ Plain(Tail(s), ops)
           /\ \A x : In(Tail(s), x) <=> In(s, x) /\ x # Head(s)
           /\ In(s, Head(s))
           /\ Head(s).op \in ops
           /\ Head(s).table = "tenants" => Head(s).op \in {"create", "drop"}
<1>1. s \in Seq(Statements)
  BY DEF Plain
<1>2. \A x : In(Tail(s), x) <=> In(s, x) /\ x # Head(s)
  <2> TAKE x
  <2>1. ASSUME In(Tail(s), x) PROVE In(s, x) /\ x # Head(s)
    BY <1>1, <2>1, TailOfScript DEF In, Plain
  <2>2. ASSUME In(s, x), x # Head(s) PROVE In(Tail(s), x)
    <3>1. PICK i \in DOMAIN s : s[i] = x
      BY <2>2 DEF In
    <3>2. s # <<>>
      OBVIOUS
    <3>3. i # 1
      BY <1>1, <3>1, <3>2, <2>2, TailOfScript
    <3>4. i - 1 \in DOMAIN Tail(s) /\ Tail(s)[i - 1] = x
      BY <1>1, <3>1, <3>2, <3>3, TailOfScript
    <3> QED
      BY <3>4 DEF In
  <2> QED
    BY <2>1, <2>2
<1>3. Plain(Tail(s), ops)
  <2>1. \A i, j \in DOMAIN Tail(s) : Tail(s)[i] = Tail(s)[j] => i = j
    <3> TAKE i, j \in DOMAIN Tail(s)
    <3>1. i \in Nat /\ j \in Nat
      BY <1>1
    <3>2. Tail(s)[i] = Tail(s)[j] => i + 1 = j + 1
      BY <1>1, TailOfScript DEF Plain
    <3> QED
      BY <3>1, <3>2
  <2> QED
    BY <1>1, <2>1, TailOfScript DEF Plain
<1> QED
  BY <1>1, <1>2, <1>3, TailOfScript DEF In, Plain

LEMMA UpgradesArePlain ==
    /\ Plain(Upgrade1, Ups) /\ Creates(Upgrade1) = TablesOf(1)
    /\ Plain(Upgrade2, Ups) /\ Creates(Upgrade2) = {"agent_tasks"}
    /\ Head(Upgrade1) = Create("tenants") /\ Head(Upgrade2) = Create("agent_tasks")
    /\ Upgrade1 # <<>> /\ Upgrade2 # <<>>
<1>1. Upgrade1 \in Seq(Statements) /\ Upgrade2 \in Seq(Statements)
  BY StatementsOfATable DEF Upgrade1, Upgrade2, Tables, TENANT_SCOPED_TABLES
<1>2. Plain(Upgrade2, Ups)
  BY <1>1 DEF Plain, Upgrade2, Ups, Create, Protect
<1>3. Plain(Upgrade1, Ups)
  BY <1>1 DEF Plain, Upgrade1, Ups, Create, Protect
<1>4. Creates(Upgrade1) = TablesOf(1)
  BY DEF Creates, In, Upgrade1, Create, Protect, TablesOf, Tables, TENANT_SCOPED_TABLES
<1>5. Creates(Upgrade2) = {"agent_tasks"}
  BY DEF Creates, In, Upgrade2, Create, Protect, Tables, TENANT_SCOPED_TABLES
<1>6. Head(Upgrade1) = Create("tenants") /\ Upgrade1 # <<>>
  BY DEF Upgrade1
<1>7. Head(Upgrade2) = Create("agent_tasks") /\ Upgrade2 # <<>>
  BY DEF Upgrade2
<1> QED
  BY <1>2, <1>3, <1>4, <1>5, <1>6, <1>7

LEMMA DowngradesArePlain ==
    /\ Plain(Downgrade1, Downs) /\ Drops(Downgrade1) = TablesOf(1)
    /\ Plain(Downgrade2, Downs) /\ Drops(Downgrade2) = {"agent_tasks"}
<1>1. Downgrade1 \in Seq(Statements) /\ Downgrade2 \in Seq(Statements)
  BY StatementsOfATable DEF Downgrade1, Downgrade2, Tables, TENANT_SCOPED_TABLES
<1>2. Plain(Downgrade2, Downs)
  BY <1>1 DEF Plain, Downgrade2, Downs, Expose, Drop
<1>3. Plain(Downgrade1, Downs)
  BY <1>1 DEF Plain, Downgrade1, Downs, Expose, Drop
<1>4. Drops(Downgrade1) = TablesOf(1)
  BY DEF Drops, In, Downgrade1, Expose, Drop, TablesOf, Tables, TENANT_SCOPED_TABLES
<1>5. Drops(Downgrade2) = {"agent_tasks"}
  BY DEF Drops, In, Downgrade2, Expose, Drop, Tables, TENANT_SCOPED_TABLES
<1> QED
  BY <1>2, <1>3, <1>4, <1>5

\* Whatever a script does to a tenant's table, it leaves it protected or gone.
Whole == {Absent, Protected}

Settles(s, t) ==
    \E i \in DOMAIN s :
        /\ s[i].table = t /\ s[i].leaves \in Whole
        /\ \A j \in DOMAIN s : j > i => s[j].table # t

Clean(s) == \A t \in TENANT_SCOPED_TABLES : (\E i \in DOMAIN s : s[i].table = t) => Settles(s, t)

LEMMA ScriptsAreClean == \A v, to : Clean(NextScript(v, to))
<1>1. Clean(Upgrade1)
  <2> DEFINE s == Upgrade1
  <2>1. DOMAIN s = 1 .. 11
    BY DEF Upgrade1
  <2>2. /\ s[7] = Protect("users") /\ s[8] = Protect("tool_invocations") /\ s[9] = Protect("conversations")
        /\ s[10] = Protect("messages") /\ s[11] = Protect("audit_events")
    BY DEF Upgrade1
  <2>3. \A i \in 1 .. 6 : s[i].table # "agent_tasks"
    BY DEF Upgrade1, Create
  <2>4. Settles(s, "users") /\ Settles(s, "tool_invocations") /\ Settles(s, "conversations")
        /\ Settles(s, "messages") /\ Settles(s, "audit_events")
    BY <2>1, <2>2 DEF Settles, Protect, Whole
  <2>5. \A i \in DOMAIN s : s[i].table # "agent_tasks"
    BY <2>1, <2>2, <2>3 DEF Protect
  <2> QED
    BY <2>4, <2>5 DEF Clean, TENANT_SCOPED_TABLES
<1>2. Clean(Downgrade1)
  <2> DEFINE s == Downgrade1
  <2>1. DOMAIN s = 1 .. 11
    BY DEF Downgrade1
  <2>2. /\ s[6] = Drop("audit_events") /\ s[7] = Drop("messages") /\ s[8] = Drop("tool_invocations")
        /\ s[9] = Drop("conversations") /\ s[10] = Drop("users") /\ s[11] = Drop("tenants")
    BY DEF Downgrade1
  <2>3. \A i \in 1 .. 5 : s[i].table # "agent_tasks"
    BY DEF Downgrade1, Expose
  <2>4. Settles(s, "users") /\ Settles(s, "tool_invocations") /\ Settles(s, "conversations")
        /\ Settles(s, "messages") /\ Settles(s, "audit_events")
    BY <2>1, <2>2 DEF Settles, Drop, Whole
  <2>5. \A i \in DOMAIN s : s[i].table # "agent_tasks"
    BY <2>1, <2>2, <2>3 DEF Drop
  <2> QED
    BY <2>4, <2>5 DEF Clean, TENANT_SCOPED_TABLES
<1>3. Clean(Upgrade2) /\ Clean(Downgrade2)
  BY DEF Upgrade2, Downgrade2, Clean, Settles, Create, Protect, Expose, Drop, Whole
<1>4. Clean(<<>>)
  BY DEF Clean
<1> QED
  BY <1>1, <1>2, <1>3, <1>4 DEF NextScript

-----------------------------------------------------------------------------
(* Transactions *)

\* A lock has one holder, and only a running migration holds any.
LocksInv ==
    /\ \A m, n \in Migrators : m # n => locks[m] \intersect locks[n] = {}
    /\ \A m \in Migrators : pc[m] # "running" => locks[m] = {} /\ script[m] = <<>>

LEMMA LocksInit == Init => LocksInv
  BY DEF Init, LocksInv

\* A step that gives ms their rest and leaves the others alone.
Rest(ms) ==
    /\ Release(ms)
    /\ \A n \in Migrators : IF n \in ms THEN pc'[n] # "running" ELSE pc'[n] = pc[n]

LEMMA FailRests ==
    \A ms : Fail(ms) => Rest(ms) /\ \A n \in Migrators : n \in ms => pc'[n] # "complete"
  BY DEF Fail, Rest

LEMMA RestKeepsLocks ==
    ASSUME LocksInv, NEW ms, Rest(ms)
    PROVE  LocksInv'
  BY DEF LocksInv, Rest, Release

LEMMA ExecuteKeepsLocks ==
    ASSUME LocksInv, MigrationTypes, NEW m \in Migrators, Execute(m)
    PROVE  LocksInv'
  BY DEF LocksInv, MigrationTypes, Execute, AtStatement, Waits

LEMMA StampKeepsLocks ==
    ASSUME LocksInv, MigrationTypes, NEW m \in Migrators, Stamp(m)
    PROVE  LocksInv'
  BY DEF LocksInv, MigrationTypes, Stamp, AtStamp, Waits

LEMMA BeginKeepsLocks ==
    ASSUME LocksInv, MigrationTypes, NEW m \in Migrators, BeginMigration(m)
    PROVE  LocksInv'
  BY DEF LocksInv, MigrationTypes, BeginMigration

\* What a statement does to the catalogue as the migrators see it.
LEMMA ExecuteView ==
    ASSUME MigrationTypes, SchemaTypes, NEW m \in Migrators, Execute(m)
    PROVE  /\ script[m] # <<>> /\ script[m] \in Seq(Statements) /\ Head(script[m]) \in Statements
           /\ View(m)' = Effect(Head(script[m]), View(m))
           /\ draft'[m] = View(m)'
           /\ VersionSeen(m)' = VersionSeen(m)
           /\ \A n \in Migrators \ {m} : View(n)' = View(n) /\ VersionSeen(n)' = VersionSeen(n)
<1> DEFINE s == Head(script[m])
<1>1. script[m] # <<>> /\ script[m] \in Seq(Statements) /\ s \in Statements
  BY DEF Execute, AtStatement, MigrationTypes
<1>2. /\ draft' = [draft EXCEPT ![m] = Effect(s, View(m))]
      /\ locks' = [locks EXCEPT ![m] = @ \union Locked(s)]
      /\ tables' = tables /\ version' = version /\ stamped' = stamped
  BY DEF Execute
<1>3. /\ draft'[m] = Effect(s, View(m)) /\ locks'[m] = locks[m] \union Locked(s)
      /\ \A n \in Migrators \ {m} : draft'[n] = draft[n] /\ locks'[n] = locks[n]
  BY <1>2 DEF MigrationTypes
<1>4. VersionTable \notin Locked(s)
  BY <1>1, StatementTypes DEF VersionTable, Tables, TENANT_SCOPED_TABLES
<1>5. s.table \in Locked(s)
  BY DEF Locked
<1>6. View(m)' = [t \in Tables |-> IF t \in locks[m] \union Locked(s) THEN Effect(s, View(m))[t] ELSE tables[t]]
  BY <1>2, <1>3 DEF View
<1>7. \A t \in Tables : t \notin locks[m] \union Locked(s) => Effect(s, View(m))[t] = tables[t]
  BY <1>5 DEF Effect, View
<1>8. Effect(s, View(m)) = [t \in Tables |-> Effect(s, View(m))[t]]
  BY DEF Effect, View
<1>9. View(m)' = Effect(s, View(m))
  BY <1>6, <1>7, <1>8
<1> QED
  BY <1>1, <1>2, <1>3, <1>4, <1>9 DEF View, VersionSeen

-----------------------------------------------------------------------------
(* Protection *)

Mended(m) ==
    /\ Clean(script[m])
    /\ \A t \in TENANT_SCOPED_TABLES : View(m)[t] \in Whole \/ Settles(script[m], t)

ProtectionInv == TablesComeProtected /\ \A m \in Migrators : Mended(m)

LEMMA NothingLeft == Clean(<<>>) /\ \A t : ~ Settles(<<>>, t)
  BY DEF Clean, Settles

LEMMA ScopedAreTables == TENANT_SCOPED_TABLES \subseteq Tables
  BY DEF Tables

LEMMA ProtectionInit == Init => ProtectionInv
<1> SUFFICES ASSUME Init PROVE ProtectionInv
  OBVIOUS
<1>1. TablesComeProtected
  BY ScopedAreTables DEF Init, TablesComeProtected, Bare
<1>2. \A m \in Migrators : \A t \in TENANT_SCOPED_TABLES : View(m)[t] = Absent
  BY ScopedAreTables DEF Init, View, Bare
<1> QED
  BY <1>1, <1>2, NothingLeft DEF Init, ProtectionInv, Mended, Whole

\* Of a table settled by its script, a statement leaves it whole or the rest settles it.
LEMMA TailSettles ==
    ASSUME NEW s \in Seq(Statements), s # <<>>, NEW t, Settles(s, t)
    PROVE  /\ Head(s).table = t => Head(s).leaves \in Whole \/ Settles(Tail(s), t)
           /\ Head(s).table # t => Settles(Tail(s), t)
           /\ (\E i \in DOMAIN Tail(s) : Tail(s)[i].table = t) => Settles(Tail(s), t)
<1>1. PICK i \in DOMAIN s :
        /\ s[i].table = t /\ s[i].leaves \in Whole
        /\ \A j \in DOMAIN s : j > i => s[j].table # t
  BY DEF Settles
<1>2. i \in Nat \ {0} /\ \A j \in DOMAIN Tail(s) : j \in Nat \ {0}
  BY TailOfScript
<1>3. ASSUME i # 1 PROVE Settles(Tail(s), t)
  <2>1. i - 1 \in DOMAIN Tail(s) /\ Tail(s)[i - 1] = s[i]
    BY <1>3, TailOfScript
  <2>2. \A j \in DOMAIN Tail(s) : j > i - 1 => Tail(s)[j].table # t
    BY <1>1, <1>2, TailOfScript
  <2> QED
    BY <1>1, <2>1, <2>2 DEF Settles
<1>4. ASSUME i = 1, NEW k \in DOMAIN Tail(s) PROVE Tail(s)[k].table # t
  BY <1>1, <1>2, <1>4, TailOfScript
<1> QED
  BY <1>1, <1>3, <1>4, TailOfScript

LEMMA TailIsClean ==
    ASSUME NEW s \in Seq(Statements), s # <<>>, Clean(s)
    PROVE  Clean(Tail(s))
  BY TailSettles, TailOfScript DEF Clean

LEMMA RestKeepsProtection ==
    ASSUME ProtectionInv, NEW ms, Rest(ms),
           \A t \in TENANT_SCOPED_TABLES : tables'[t] \in Whole
    PROVE  ProtectionInv'
<1>1. TablesComeProtected'
  BY DEF TablesComeProtected, Whole
<1>2. ASSUME NEW m \in Migrators PROVE Mended(m)'
  <2>1. CASE m \in ms
    BY <2>1, NothingLeft, ScopedAreTables DEF Rest, Release, Mended, View
  <2>2. CASE m \notin ms
    BY <2>2, ScopedAreTables DEF Rest, Release, Mended, View, ProtectionInv
  <2> QED
    BY <2>1, <2>2
<1> QED
  BY <1>1, <1>2 DEF ProtectionInv

LEMMA ExecuteKeepsProtection ==
    ASSUME ProtectionInv, MigrationTypes, SchemaTypes, NEW m \in Migrators, Execute(m)
    PROVE  ProtectionInv'
<1> DEFINE s == Head(script[m])
<1>1. /\ script'[m] = Tail(script[m]) /\ tables' = tables
      /\ \A n \in Migrators \ {m} : script'[n] = script[n]
  BY DEF Execute, MigrationTypes
<1>2. Mended(m)'
  <2>1. Clean(Tail(script[m]))
    BY ExecuteView, TailIsClean DEF ProtectionInv, Mended
  <2>2. ASSUME NEW t \in TENANT_SCOPED_TABLES
        PROVE  Effect(s, View(m))[t] \in Whole \/ Settles(Tail(script[m]), t)
    <3>1. CASE t = s.table
      <4>1. Settles(script[m], t)
        BY <3>1, ExecuteView, TailOfScript DEF ProtectionInv, Mended, Clean
      <4>2. Effect(s, View(m))[t] = s.leaves
        BY <3>1, ScopedAreTables DEF Effect, View
      <4> QED
        BY <3>1, <4>1, <4>2, ExecuteView, TailSettles
    <3>2. CASE t # s.table
      <4>1. Effect(s, View(m))[t] = View(m)[t]
        BY <3>2, ScopedAreTables DEF Effect, View
      <4> QED
        BY <3>2, <4>1, ExecuteView, TailSettles DEF ProtectionInv, Mended
    <3> QED
      BY <3>1, <3>2
  <2> QED
    BY <1>1, <2>1, <2>2, ExecuteView DEF Mended
<1>3. \A n \in Migrators \ {m} : Mended(n)'
  BY <1>1, ExecuteView DEF ProtectionInv, Mended
<1> QED
  BY <1>1, <1>2, <1>3 DEF ProtectionInv, TablesComeProtected

LEMMA StampView ==
    ASSUME MigrationTypes, SchemaTypes, NEW m \in Migrators, Stamp(m)
    PROVE  /\ \A n \in Migrators : View(n)' = View(n)
           /\ \A n \in Migrators \ {m} : VersionSeen(n)' = VersionSeen(n)
           /\ VersionSeen(m) = stamped[m] /\ VersionSeen(m)' = Toward(stamped[m], target[m])
<1>1. \A n \in Migrators : \A t \in Tables : t \in locks'[n] <=> t \in locks[n]
  BY DEF Stamp, MigrationTypes, VersionTable, Tables, TENANT_SCOPED_TABLES
<1>2. draft' = draft /\ tables' = tables /\ version' = version
  BY DEF Stamp
<1>3. \A n \in Migrators : View(n)' = View(n)
  BY <1>1, <1>2 DEF View
<1>4. \A n \in Migrators \ {m} : locks'[n] = locks[n] /\ stamped'[n] = stamped[n]
  BY DEF Stamp, MigrationTypes
<1>5. VersionTable \in locks'[m] /\ stamped'[m] = Toward(stamped[m], target[m])
  BY DEF Stamp, MigrationTypes
<1>6. VersionSeen(m) = stamped[m]
  BY DEF Stamp
<1> QED
  BY <1>2, <1>3, <1>4, <1>5, <1>6 DEF VersionSeen

LEMMA StampKeepsProtection ==
    ASSUME ProtectionInv, MigrationTypes, SchemaTypes, NEW m \in Migrators, Stamp(m)
    PROVE  ProtectionInv'
<1>1. /\ script[m] = <<>> /\ Clean(script'[m]) /\ tables' = tables
      /\ \A n \in Migrators \ {m} : script'[n] = script[n]
  BY ScriptsAreClean DEF Stamp, AtStamp, MigrationTypes
<1>2. Mended(m)'
  BY <1>1, StampView, NothingLeft DEF ProtectionInv, Mended
<1>3. \A n \in Migrators \ {m} : Mended(n)'
  BY <1>1, StampView DEF ProtectionInv, Mended
<1> QED
  BY <1>1, <1>2, <1>3 DEF ProtectionInv, TablesComeProtected

LEMMA BeginKeepsProtection ==
    ASSUME ProtectionInv, LocksInv, MigrationTypes, SchemaTypes, NEW m \in Migrators, BeginMigration(m)
    PROVE  ProtectionInv'
<1>1. /\ script[m] = <<>> /\ Clean(script'[m]) /\ tables' = tables
      /\ \A n \in Migrators \ {m} : script'[n] = script[n]
      /\ \A n \in Migrators : View(n)' = View(n)
  BY ScriptsAreClean DEF BeginMigration, MigrationTypes, View, LocksInv
<1>2. Mended(m)'
  BY <1>1, NothingLeft DEF ProtectionInv, Mended
<1>3. \A n \in Migrators \ {m} : Mended(n)'
  BY <1>1 DEF ProtectionInv, Mended
<1> QED
  BY <1>1, <1>2, <1>3 DEF ProtectionInv, TablesComeProtected

\* What a migration commits.
LEMMA CommitWrites ==
    ASSUME ProtectionInv, NEW m \in Migrators, Commits(m)
    PROVE  \A t \in TENANT_SCOPED_TABLES : tables'[t] \in Whole
  BY NothingLeft DEF ProtectionInv, Mended, Commits

\* The ways a step may treat the schema.
SchemaStep ==
    \/ \E m \in Migrators : BeginMigration(m) \/ Execute(m) \/ Stamp(m)
    \/ \E m \in Migrators : Commits(m) /\ Rest({m}) /\ target' = target
    \/ \E ms :
        /\ Rest(ms)
        /\ \A n \in Migrators : n \in ms => pc'[n] # "complete"
        /\ UNCHANGED <<tables, version, target>>
    \/ UNCHANGED <<tables, version, pc, target, script, draft, stamped, locks>>

LEMMA StepsOnSchema == TypeOK /\ [Next]_vars => SchemaStep
<1> SUFFICES ASSUME TypeOK, [Next]_vars PROVE SchemaStep
  OBVIOUS
<1>p. pc \in [Migrators -> {"idle", "running", "complete", "failed"}]
  BY DEF TypeOK
<1>1. CASE \E m \in Migrators : Begin(m) \/ Settle(m) \/ MigrationFails(m) \/ CommitReplyLost(m)
  <2>0. PICK m \in Migrators : Begin(m) \/ Settle(m) \/ MigrationFails(m) \/ CommitReplyLost(m)
    BY <1>1
  <2>1. CASE BeginMigration(m) \/ Execute(m) \/ Stamp(m)
    BY <2>1 DEF SchemaStep
  <2>2. CASE CannotConnect(m) \/ Refused(m) \/ MigrationFails(m)
    <3>1. Fail({m}) /\ UNCHANGED <<tables, version, target>>
      BY <2>2 DEF CannotConnect, Refused, MigrationFails
    <3> QED
      BY <3>1, FailRests DEF SchemaStep
  <2>3. CASE CommitReplyLost(m)
    BY <2>3, FailRests DEF CommitReplyLost, SchemaStep
  <2>4. CASE CommitMigration(m)
    <3>1. Rest({m}) /\ Commits(m) /\ target' = target
      BY <2>4, <1>p DEF CommitMigration, Rest
    <3> QED
      BY <3>1 DEF SchemaStep
  <2> QED
    BY <2>0, <2>1, <2>2, <2>3, <2>4 DEF Begin, Settle
<1>2. CASE Outage
  BY <1>2, FailRests DEF Outage, SchemaStep
<1>3. CASE Recover
  BY <1>3 DEF Recover, transactions, SchemaStep
<1>4. UNCHANGED database => SchemaStep
  BY DEF database, transactions, SchemaStep
<1>5. CASE StartProcess \/ StopProcess \/ Health
  BY <1>4, <1>5 DEF StartProcess, StopProcess, Health, BeginHealth, SelectOne, CountForced, HealthRaises
<1>6. CASE UNCHANGED vars
  <2>1. UNCHANGED transactions /\ UNCHANGED <<tables, version, pc, target>>
    BY <1>6 DEF vars
  <2> QED
    BY <2>1 DEF transactions, SchemaStep
<1> QED
  BY <1>1, <1>2, <1>3, <1>5, <1>6 DEF Next

LEMMA ProtectionNext ==
    ASSUME TypeOK, LocksInv, ProtectionInv, [Next]_vars
    PROVE  LocksInv' /\ ProtectionInv'
<1>t. MigrationTypes /\ SchemaTypes
  BY DEF TypeOK, MigrationTypes, SchemaTypes
<1>w. \A t \in TENANT_SCOPED_TABLES : tables[t] \in Whole
  BY DEF ProtectionInv, TablesComeProtected, Whole
<1>1. CASE \E m \in Migrators : BeginMigration(m)
  BY <1>1, <1>t, BeginKeepsLocks, BeginKeepsProtection
<1>2. CASE \E m \in Migrators : Execute(m)
  BY <1>2, <1>t, ExecuteKeepsLocks, ExecuteKeepsProtection
<1>3. CASE \E m \in Migrators : Stamp(m)
  BY <1>3, <1>t, StampKeepsLocks, StampKeepsProtection
<1>4. CASE \E m \in Migrators : Commits(m) /\ Rest({m})
  BY <1>4, CommitWrites, RestKeepsLocks, RestKeepsProtection
<1>5. CASE \E ms : Rest(ms) /\ UNCHANGED <<tables, version, target>>
  BY <1>5, <1>w, RestKeepsLocks, RestKeepsProtection
<1>6. CASE UNCHANGED <<tables, version, pc, target, script, draft, stamped, locks>>
  BY <1>6 DEF LocksInv, ProtectionInv, Mended, View, TablesComeProtected
<1> QED
  BY <1>1, <1>2, <1>3, <1>4, <1>5, <1>6, StepsOnSchema DEF SchemaStep

(***************************************************************************)
(* However many migrations race, fail or are retried, and whatever they    *)
(* were asked for: a tenant's table is committed with row-level security   *)
(* enabled and forced and its policy in place, or it is not there.  What a *)
(* migration sees is whole, or its script has yet to make it so.           *)
(***************************************************************************)
THEOREM TablesAreProtected == Spec => []TablesComeProtected
<1>1. Init => TypeOK /\ LocksInv /\ ProtectionInv
  BY TypesInit, LocksInit, ProtectionInit
<1>2. TypeOK /\ LocksInv /\ ProtectionInv /\ [Next]_vars => (TypeOK /\ LocksInv /\ ProtectionInv)'
  BY TypesNext, ProtectionNext
<1>3. ProtectionInv => TablesComeProtected
  BY DEF ProtectionInv
<1> QED
  BY <1>1, <1>2, <1>3, PTL DEF Spec

-----------------------------------------------------------------------------
(* Versions *)

TablesIn(view) == {t \in Tables : Exists(view, t)}

\* A migration that has not created or dropped anything yet sees the tables that are
\* committed, and has all its creating or dropping before it.
Waiting(m) ==
    /\ VersionTable \notin locks[m]
    /\ \A t \in Tables : t \in locks[m] => (Exists(draft[m], t) <=> Exists(tables, t))
    /\ stamped[m] = target[m] => script[m] = <<>>
    /\ stamped[m] < target[m] => script[m] = NextScript(stamped[m], target[m])
    /\ stamped[m] > target[m] =>
        Drops(script[m]) = IF stamped[m] = 2 THEN {"agent_tasks"} ELSE TablesOf(1)

\* Any other holds the lock on tenants, so it alone works on the schema; what it sees
\* follows from the version it began with and the statements left.
Working(m) ==
    /\ stamped[m] = target[m] =>
        /\ script[m] = <<>> /\ VersionSeen(m) = stamped[m]
        /\ TablesIn(View(m)) = TablesOf(stamped[m])
    /\ stamped[m] < target[m] =>
        /\ VersionSeen(m) = stamped[m]
        /\ Creates(script[m]) \subseteq TablesOf(stamped[m] + 1)
        /\ TablesIn(View(m)) = TablesOf(stamped[m] + 1) \ Creates(script[m])
    /\ stamped[m] > target[m] /\ stamped[m] = 2 =>
        /\ VersionSeen(m) = 2
        /\ Drops(script[m]) \subseteq {"agent_tasks"}
        /\ TablesIn(View(m)) = TablesOf(1) \union Drops(script[m])
    /\ stamped[m] > target[m] /\ stamped[m] = 1 =>
        /\ VersionSeen(m) \in {1, 2}
        /\ Drops(script[m]) \subseteq TablesOf(1)
        /\ TablesIn(View(m)) = Drops(script[m]) \union (IF VersionSeen(m) = 2 THEN {"agent_tasks"} ELSE {})
        /\ VersionSeen(m) = 2 => "tenants" \in Drops(script[m])

Operations(v, to) == IF v < to THEN Ups ELSE Downs

MigrationInv(m) ==
    pc[m] = "running" =>
        /\ Plain(script[m], Operations(stamped[m], target[m]))
        /\ IF "tenants" \in locks[m] THEN Working(m) ELSE Waiting(m)

VersionInv == VersionMatchesTables /\ \A m \in Migrators : MigrationInv(m)

LEMMA TablesOfRevisions ==
    /\ TablesOf(0) = {}
    /\ TablesOf(1) = Tables \ {"agent_tasks"}
    /\ TablesOf(2) = Tables
    /\ {"tenants", "agent_tasks"} \subseteq Tables /\ "tenants" # "agent_tasks"
  BY DEF TablesOf, Tables, TENANT_SCOPED_TABLES

LEMMA StatementOnTables ==
    ASSUME NEW s \in Statements, NEW view \in Catalogues, Accepted(s, view)
    PROVE  /\ s.op = "create" =>
                /\ s = Create(s.table)
                /\ s.table \notin TablesIn(view) /\ References(s.table) \subseteq TablesIn(view)
                /\ TablesIn(Effect(s, view)) = TablesIn(view) \union {s.table}
           /\ s.op = "drop" =>
                /\ s = Drop(s.table)
                /\ s.table \in TablesIn(view) /\ \A t \in TablesIn(view) : s.table \notin References(t)
                /\ TablesIn(Effect(s, view)) = TablesIn(view) \ {s.table}
           /\ s.op \notin {"create", "drop"} => TablesIn(Effect(s, view)) = TablesIn(view)
<1>1. s.table \in Tables /\ References(s.table) \subseteq Tables
  BY StatementTypes DEF References, Tables, TENANT_SCOPED_TABLES
<1>2. \A t \in Tables : Effect(s, view)[t] = IF t = s.table THEN s.leaves ELSE view[t]
  BY <1>1 DEF Effect, Catalogues
<1>3. CASE s.op = "create"
  <2>1. s = Create(s.table) /\ s.leaves = Open
    BY <1>3 DEF Statements, Create, Protect, Expose, Drop
  <2> QED
    BY <1>1, <1>2, <1>3, <2>1 DEF Accepted, TablesIn, Exists, Open
<1>4. CASE s.op = "drop"
  <2>1. s = Drop(s.table) /\ s.leaves = Absent
    BY <1>4 DEF Statements, Create, Protect, Expose, Drop
  <2>2. s.table \in TablesIn(view) /\ \A t \in TablesIn(view) : s.table \notin References(t)
    BY <1>1, <1>4 DEF Accepted, TablesIn
  <2> QED
    BY <1>1, <1>2, <1>4, <2>1, <2>2 DEF TablesIn, Exists, Absent
<1>5. CASE s.op \in {"protect", "expose"}
  <2>1. "exists" \in s.leaves
    BY <1>5 DEF Statements, Create, Protect, Expose, Drop, Protected, Open
  <2>2. s.table \in TablesIn(view)
    BY <1>1, <1>5 DEF Accepted, TablesIn
  <2> QED
    BY <1>1, <1>2, <1>5, <2>1, <2>2 DEF TablesIn, Exists
<1> QED
  BY <1>3, <1>4, <1>5, StatementTypes

\* Creating and dropping lock tenants, for every table refers to it.
LEMMA SchemaChangesLockTenants ==
    ASSUME NEW s \in Statements
    PROVE  "tenants" \in Locked(s) <=> s.op \in {"create", "drop"} \/ s.table = "tenants"
  BY StatementTypes DEF Locked, References, Tables, TENANT_SCOPED_TABLES

LEMMA RestOfScript ==
    ASSUME NEW s, NEW ops, Plain(s, ops), s # <<>>
    PROVE  /\ Plain(Tail(s), ops)
           /\ \A t : Head(s) = Create(t) => t \in Tables /\ t \in Creates(s) /\ Creates(Tail(s)) = Creates(s) \ {t}
           /\ \A t : Head(s) = Drop(t) => t \in Tables /\ t \in Drops(s) /\ Drops(Tail(s)) = Drops(s) \ {t}
           /\ Head(s).op # "create" => Creates(Tail(s)) = Creates(s)
           /\ Head(s).op # "drop" => Drops(Tail(s)) = Drops(s)
<1>1. Head(s) \in Statements
  BY TailOfScript DEF Plain
<1>2. \A t, u : (Create(t) = Create(u) => t = u) /\ (Drop(t) = Drop(u) => t = u)
  BY DEF Create, Drop
<1>3. \A t : Create(t).op = "create" /\ Drop(t).op = "drop" /\ Create(t).table = t /\ Drop(t).table = t
  BY DEF Create, Drop
<1>4. Plain(Tail(s), ops) /\ In(s, Head(s)) /\ \A x : In(Tail(s), x) <=> In(s, x) /\ x # Head(s)
  BY TailIsPlain
<1>5. ASSUME NEW t, Head(s) = Create(t)
      PROVE  t \in Tables /\ t \in Creates(s) /\ Creates(Tail(s)) = Creates(s) \ {t}
  <2>1. t \in Tables
    BY <1>1, <1>3, <1>5, StatementTypes
  <2> QED
    BY <1>2, <1>4, <1>5, <2>1 DEF Creates
<1>6. ASSUME NEW t, Head(s) = Drop(t)
      PROVE  t \in Tables /\ t \in Drops(s) /\ Drops(Tail(s)) = Drops(s) \ {t}
  <2>1. t \in Tables
    BY <1>1, <1>3, <1>6, StatementTypes
  <2> QED
    BY <1>2, <1>4, <1>6, <2>1 DEF Drops
<1>7. Head(s).op # "create" => Creates(Tail(s)) = Creates(s)
  BY <1>3, <1>4 DEF Creates
<1>8. Head(s).op # "drop" => Drops(Tail(s)) = Drops(s)
  BY <1>3, <1>4 DEF Drops
<1> QED
  BY <1>4, <1>5, <1>6, <1>7, <1>8

LEMMA EmptyScript ==
    /\ Plain(<<>>, Ups) /\ Plain(<<>>, Downs)
    /\ Creates(<<>>) = {} /\ Drops(<<>>) = {}
  BY DEF Plain, Creates, Drops, In

LEMMA NextIsPlain ==
    ASSUME NEW v \in 0 .. 2, NEW to \in 0 .. 2
    PROVE  Plain(NextScript(v, to), Operations(v, to))
<1>1. CASE v < to
  <2>1. Operations(v, to) = Ups
    BY <1>1 DEF Operations
  <2>2. NextScript(v, to) \in {Upgrade1, Upgrade2}
    BY <1>1 DEF NextScript
  <2> QED
    BY <2>1, <2>2, UpgradesArePlain
<1>2. CASE ~ v < to
  <2>1. Operations(v, to) = Downs
    BY <1>2 DEF Operations
  <2>2. NextScript(v, to) \in {Downgrade1, Downgrade2, <<>>}
    BY <1>2 DEF NextScript
  <2> QED
    BY <2>1, <2>2, DowngradesArePlain, EmptyScript
<1> QED
  BY <1>1, <1>2

\* What a migration sees while it waits is what is committed.
LEMMA WaitingView ==
    ASSUME NEW m \in Migrators, Waiting(m), VersionMatchesTables
    PROVE  VersionSeen(m) = version /\ TablesIn(View(m)) = TablesOf(version)
  BY DEF Waiting, VersionSeen, VersionMatchesTables, View, TablesIn, Exists

LEMMA VersionInit == Init => VersionInv
  BY TablesOfRevisions DEF Init, VersionInv, VersionMatchesTables, MigrationInv, Bare, Absent, Exists

LEMMA BeginKeepsVersion ==
    ASSUME VersionInv, LocksInv, MigrationTypes, SchemaTypes, NEW m \in Migrators, BeginMigration(m)
    PROVE  VersionInv'
<1>1. /\ locks'[m] = {} /\ stamped'[m] = version /\ script'[m] = NextScript(version, target[m])
      /\ UNCHANGED <<tables, version, draft, locks, target>>
  BY DEF BeginMigration, LocksInv, MigrationTypes
<1>2. version \in 0 .. 2 /\ target[m] \in 0 .. 2
  BY DEF SchemaTypes, Revisions
<1>3. Plain(NextScript(version, target[m]), Operations(version, target[m]))
  BY <1>2, NextIsPlain
<1>4. Waiting(m)'
  BY <1>1, <1>2, DowngradesArePlain DEF Waiting, NextScript
<1>5. MigrationInv(m)'
  BY <1>1, <1>3, <1>4 DEF MigrationInv
<1>6. ASSUME NEW n \in Migrators \ {m} PROVE MigrationInv(n)'
  <2>1. pc'[n] = pc[n] /\ script'[n] = script[n] /\ stamped'[n] = stamped[n]
    BY DEF BeginMigration, MigrationTypes
  <2> QED
    BY <1>1, <2>1 DEF VersionInv, MigrationInv, Waiting, Working, View, VersionSeen
<1> QED
  BY <1>1, <1>5, <1>6 DEF VersionInv, VersionMatchesTables

LEMMA StampKeepsVersion ==
    ASSUME VersionInv, MigrationTypes, SchemaTypes, NEW m \in Migrators, Stamp(m)
    PROVE  VersionInv'
<1> DEFINE v == stamped[m]
           to == target[m]
           next == Toward(v, to)
<1>1. /\ pc[m] = "running" /\ script[m] = <<>> /\ v # to
      /\ stamped'[m] = next /\ script'[m] = NextScript(next, to) /\ locks'[m] = locks[m] \union {VersionTable}
      /\ UNCHANGED <<tables, version, pc, target>>
  BY DEF Stamp, AtStamp, MigrationTypes
<1>2. v \in 0 .. 2 /\ to \in 0 .. 2
  BY DEF SchemaTypes, MigrationTypes, Revisions
<1>3. "tenants" \in locks[m]
  <2>1. SUFFICES ASSUME "tenants" \notin locks[m] PROVE FALSE
    OBVIOUS
  <2>2. Waiting(m)
    BY <1>1, <2>1 DEF VersionInv, MigrationInv
  <2>3. CASE v < to
    BY <1>1, <1>2, <2>2, <2>3, UpgradesArePlain DEF Waiting, NextScript
  <2>4. CASE v > to
    BY <1>1, <2>2, <2>4, EmptyScript, TablesOfRevisions DEF Waiting
  <2> QED
    BY <1>1, <1>2, <2>3, <2>4
<1>4. Working(m)
  BY <1>1, <1>3 DEF VersionInv, MigrationInv
<1>5. next \in 0 .. 2 /\ Plain(script'[m], Operations(next, to))
  <2>1. next \in 0 .. 2
    BY <1>1, <1>2 DEF Toward
  <2> QED
    BY <1>1, <1>2, <2>1, NextIsPlain
<1>6. TablesIn(View(m)) = TablesOf(next) /\ VersionSeen(m) = v
  <2>1. CASE v < to
    BY <1>1, <1>2, <1>4, <2>1, EmptyScript DEF Working, Toward
  <2>2. CASE v > to /\ v = 2
    <3>1. next = 1
      BY <1>2, <2>2 DEF Toward
    <3>2. VersionSeen(m) = 2 /\ TablesIn(View(m)) = TablesOf(1) \union Drops(script[m])
      BY <1>4, <2>2 DEF Working
    <3> QED
      BY <1>1, <2>2, <3>1, <3>2, EmptyScript
  <2>3. CASE v > to /\ v = 1
    <3>1. VersionSeen(m) = 1
      BY <1>1, <1>4, <2>3, EmptyScript DEF Working
    <3> QED
      <4>1. next = 0
        BY <1>2, <2>3 DEF Toward
      <4>2. TablesIn(View(m)) = Drops(script[m])
        BY <1>4, <2>3, <3>1 DEF Working
      <4> QED
        BY <1>1, <2>3, <3>1, <4>1, <4>2, EmptyScript, TablesOfRevisions
  <2> QED
    BY <1>1, <1>2, <2>1, <2>2, <2>3
<1>7. TablesIn(View(m))' = TablesOf(next) /\ VersionSeen(m)' = next
  BY <1>6, StampView DEF TablesIn, Exists
<1>8. Working(m)'
  <2>1. CASE next = to
    BY <1>1, <1>2, <1>5, <1>7, <2>1 DEF Working, NextScript
  <2>2. CASE next < to
    <3>1. (next = 0 \/ next = 1) /\ (next = 1 => script'[m] = Upgrade2) /\ (next = 0 => script'[m] = Upgrade1)
      BY <1>1, <1>2, <1>5, <2>2 DEF NextScript
    <3>2. next = 1
      BY <1>1, <1>2, <2>2, <3>1 DEF Toward
    <3>3. next + 1 = 2 /\ next # to /\ ~ next > to
      BY <1>2, <3>2, <2>2
    <3> QED
      BY <1>1, <1>7, <3>1, <3>2, <3>3, UpgradesArePlain, TablesOfRevisions DEF Working
  <2>3. CASE next > to
    <3>1. next = 1 /\ script'[m] = Downgrade1 /\ next # to /\ ~ next < to
      BY <1>1, <1>2, <1>5, <2>3 DEF NextScript, Toward
    <3> QED
      BY <1>1, <1>7, <3>1, DowngradesArePlain, TablesOfRevisions DEF Working
  <2> QED
    BY <1>2, <1>5, <2>1, <2>2, <2>3
<1>9. MigrationInv(m)'
  BY <1>1, <1>3, <1>5, <1>8 DEF MigrationInv
<1>10. ASSUME NEW n \in Migrators \ {m} PROVE MigrationInv(n)'
  <2>1. /\ script'[n] = script[n] /\ stamped'[n] = stamped[n] /\ locks'[n] = locks[n] /\ draft' = draft
        /\ TablesIn(View(n))' = TablesIn(View(n)) /\ VersionSeen(n)' = VersionSeen(n)
    BY StampView DEF Stamp, MigrationTypes, TablesIn, Exists
  <2>2. Waiting(n) => Waiting(n)'
    BY <1>1, <2>1 DEF Waiting
  <2>3. Working(n) => Working(n)'
    BY <1>1, <2>1 DEF Working
  <2> QED
    BY <1>1, <2>1, <2>2, <2>3 DEF VersionInv, MigrationInv
<1> QED
  BY <1>1, <1>9, <1>10 DEF VersionInv, VersionMatchesTables

\* A migration that ends without a commit.
LEMMA RestKeepsVersion ==
    ASSUME VersionInv, NEW ms, Rest(ms), UNCHANGED <<tables, version, target>>
    PROVE  VersionInv'
<1>1. ASSUME NEW n \in Migrators PROVE MigrationInv(n)'
  <2>1. CASE n \in ms
    BY <2>1 DEF Rest, MigrationInv
  <2>2. CASE n \notin ms
    <3>1. /\ script'[n] = script[n] /\ stamped'[n] = stamped[n] /\ locks'[n] = locks[n]
          /\ draft'[n] = draft[n] /\ pc'[n] = pc[n]
      BY <2>2 DEF Rest, Release
    <3> QED
      BY <3>1 DEF VersionInv, MigrationInv, Waiting, Working, View, VersionSeen
  <2> QED
    BY <2>1, <2>2
<1> QED
  BY <1>1 DEF VersionInv, VersionMatchesTables

\* What a migration commits: its version, and the tables that go with it.  If it has the
\* lock on tenants all others wait, otherwise it changes neither.
LEMMA CommitIsConsistent ==
    ASSUME VersionInv, SchemaTypes, MigrationTypes, NEW m \in Migrators, Commits(m)
    PROVE  /\ TablesIn(tables') = TablesOf(version')
           /\ version' = target[m] \/ version' = version
           /\ "tenants" \notin locks[m] => version' = version /\ TablesIn(tables') = TablesIn(tables)
<1>1. /\ pc[m] = "running" /\ stamped[m] = target[m]
      /\ tables' = View(m) /\ version' = VersionSeen(m)
  BY DEF Commits
<1>2. CASE "tenants" \in locks[m]
  BY <1>1, <1>2 DEF VersionInv, MigrationInv, Working
<1>3. CASE "tenants" \notin locks[m]
  BY <1>1, <1>3, WaitingView DEF VersionInv, MigrationInv, VersionMatchesTables, TablesIn
<1> QED
  BY <1>2, <1>3

LEMMA CommitKeepsVersion ==
    ASSUME VersionInv, LocksInv, SchemaTypes, MigrationTypes,
           NEW m \in Migrators, Commits(m), Rest({m}), target' = target
    PROVE  VersionInv'
<1>1. tables' = View(m)
  BY DEF Commits
<1>2. ASSUME NEW n \in Migrators PROVE MigrationInv(n)'
  <2>1. CASE n = m
    BY <2>1 DEF Rest, MigrationInv
  <2>2. CASE n # m
    <3>1. /\ script'[n] = script[n] /\ stamped'[n] = stamped[n] /\ locks'[n] = locks[n]
          /\ draft'[n] = draft[n] /\ pc'[n] = pc[n]
      BY <2>2 DEF Rest, Release
    <3>2. Waiting(n) => Waiting(n)'
      <4>1. ASSUME NEW t \in Tables, t \in locks[n] PROVE tables'[t] = tables[t]
        <5>1. t \notin locks[m]
          BY <2>2, <4>1 DEF LocksInv
        <5> QED
          BY <1>1, <5>1 DEF View
      <4> QED
        BY <3>1, <4>1 DEF Waiting, Exists
    <3>3. CASE "tenants" \in locks[n]
      <4>1. "tenants" \notin locks[m]
        BY <2>2, <3>3 DEF LocksInv
      <4>2. version' = version /\ TablesIn(tables') = TablesIn(tables)
        BY <4>1, CommitIsConsistent
      <4>3. VersionSeen(n)' = VersionSeen(n)
        BY <3>1, <4>2 DEF VersionSeen
      <4>4. TablesIn(View(n))' = TablesIn(View(n))
        <5>1. \A t \in Tables : Exists(tables', t) <=> Exists(tables, t)
          BY <4>2 DEF TablesIn
        <5>2. \A t \in Tables : Exists(View(n)', t) <=> Exists(View(n), t)
          BY <3>1, <5>1 DEF View, Exists
        <5> QED
          BY <5>2 DEF TablesIn
      <4>5. Working(n) => Working(n)'
        BY <3>1, <4>3, <4>4 DEF Working
      <4> QED
        BY <3>1, <3>3, <4>5 DEF VersionInv, MigrationInv
    <3>4. CASE "tenants" \notin locks[n]
      BY <3>1, <3>2, <3>4 DEF VersionInv, MigrationInv
    <3> QED
      BY <3>3, <3>4
  <2> QED
    BY <2>1, <2>2
<1> QED
  BY <1>2, CommitIsConsistent DEF VersionInv, VersionMatchesTables, TablesIn

\* The next statement of the migration that works on the schema.
LEMMA ExecuteKeepsWorking ==
    ASSUME VersionInv, MigrationTypes, SchemaTypes, NEW m \in Migrators, Execute(m), "tenants" \in locks[m]
    PROVE  Working(m)'
<1> DEFINE s == Head(script[m])
           v == stamped[m]
           to == target[m]
<1>1. /\ pc[m] = "running" /\ script'[m] = Tail(script[m]) /\ UNCHANGED <<stamped, target>>
      /\ Accepted(s, View(m))
  BY DEF Execute, AtStatement, MigrationTypes
<1>2. v \in 0 .. 2 /\ to \in 0 .. 2
  BY DEF SchemaTypes, MigrationTypes, Revisions
<1>3. Working(m) /\ Plain(script[m], Operations(v, to))
  BY <1>1 DEF VersionInv, MigrationInv
<1>4. /\ script[m] # <<>> /\ s \in Statements
      /\ View(m)' = Effect(s, View(m)) /\ VersionSeen(m)' = VersionSeen(m)
      /\ View(m) \in Catalogues
  BY ExecuteView, ViewType
<1>5. /\ s.op = "create" =>
           /\ s = Create(s.table)
           /\ TablesIn(View(m))' = TablesIn(View(m)) \union {s.table}
           /\ s.table \in Creates(script[m]) /\ Creates(script'[m]) = Creates(script[m]) \ {s.table}
      /\ s.op = "drop" =>
           /\ s = Drop(s.table)
           /\ s.table \in TablesIn(View(m)) /\ \A t \in TablesIn(View(m)) : s.table \notin References(t)
           /\ TablesIn(View(m))' = TablesIn(View(m)) \ {s.table}
           /\ s.table \in Drops(script[m]) /\ Drops(script'[m]) = Drops(script[m]) \ {s.table}
      /\ s.op \notin {"create", "drop"} => TablesIn(View(m))' = TablesIn(View(m))
      /\ s.op # "create" => Creates(script'[m]) = Creates(script[m])
      /\ s.op # "drop" => Drops(script'[m]) = Drops(script[m])
  <2>1. TablesIn(View(m))' = TablesIn(Effect(s, View(m)))
    BY <1>4 DEF TablesIn, Exists
  <2>2. /\ s.op = "create" => s = Create(s.table)
        /\ s.op = "drop" =>
             s = Drop(s.table) /\ s.table \in TablesIn(View(m)) /\ \A t \in TablesIn(View(m)) : s.table \notin References(t)
    BY <1>1, <1>4, StatementOnTables
  <2>3. /\ s.op = "create" => TablesIn(View(m))' = TablesIn(View(m)) \union {s.table}
        /\ s.op = "drop" => TablesIn(View(m))' = TablesIn(View(m)) \ {s.table}
        /\ s.op \notin {"create", "drop"} => TablesIn(View(m))' = TablesIn(View(m))
    BY <1>1, <1>4, <2>1, StatementOnTables
  <2>4. /\ s.op = "create" => s.table \in Creates(script[m]) /\ Creates(script'[m]) = Creates(script[m]) \ {s.table}
        /\ s.op = "drop" => s.table \in Drops(script[m]) /\ Drops(script'[m]) = Drops(script[m]) \ {s.table}
        /\ s.op # "create" => Creates(script'[m]) = Creates(script[m])
        /\ s.op # "drop" => Drops(script'[m]) = Drops(script[m])
    <3> DEFINE rest == Tail(script[m])
    <3>1. script'[m] = rest
      BY <1>1
    <3>2. \A t : s = Create(t) => t \in Creates(script[m]) /\ Creates(rest) = Creates(script[m]) \ {t}
      BY <1>3, <1>4, RestOfScript
    <3>3. \A t : s = Drop(t) => t \in Drops(script[m]) /\ Drops(rest) = Drops(script[m]) \ {t}
      BY <1>3, <1>4, RestOfScript
    <3>4. (s.op # "create" => Creates(rest) = Creates(script[m])) /\ (s.op # "drop" => Drops(rest) = Drops(script[m]))
      BY <1>3, <1>4, RestOfScript
    <3> QED
      BY <2>2, <3>1, <3>2, <3>3, <3>4
  <2> QED
    BY <2>2, <2>3, <2>4
<1>6. s.op \in Operations(v, to)
  BY <1>2, <1>3, <1>4, TailIsPlain
<1>7. CASE v < to
  <2>1. s.op \in {"create", "protect"} /\ v # to /\ ~ v > to
    BY <1>2, <1>6, <1>7 DEF Operations, Ups, Downs
  <2>2. /\ VersionSeen(m) = v /\ Creates(script[m]) \subseteq TablesOf(v + 1)
        /\ TablesIn(View(m)) = TablesOf(v + 1) \ Creates(script[m])
    BY <1>3, <1>7 DEF Working
  <2> QED
    BY <1>1, <1>4, <1>5, <2>1, <2>2 DEF Working
<1>8. CASE v > to
  <2>1. s.op \in {"expose", "drop"} /\ v # to /\ ~ v < to
    BY <1>2, <1>6, <1>8 DEF Operations, Ups, Downs
  <2>2. CASE v = 2
    <3>1. /\ VersionSeen(m) = 2 /\ Drops(script[m]) \subseteq {"agent_tasks"}
          /\ TablesIn(View(m)) = TablesOf(1) \union Drops(script[m])
      BY <1>3, <1>8, <2>2 DEF Working
    <3> QED
      BY <1>1, <1>4, <1>5, <2>1, <2>2, <3>1, TablesOfRevisions DEF Working
  <2>3. CASE v = 1
    <3>1. /\ VersionSeen(m) \in {1, 2} /\ Drops(script[m]) \subseteq TablesOf(1)
          /\ TablesIn(View(m)) = Drops(script[m]) \union (IF VersionSeen(m) = 2 THEN {"agent_tasks"} ELSE {})
          /\ VersionSeen(m) = 2 => "tenants" \in Drops(script[m])
      BY <1>3, <1>8, <2>3 DEF Working
    <3>2. "tenants" \in References("agent_tasks") /\ "agent_tasks" \notin TablesOf(1)
      BY TablesOfRevisions DEF References
    <3>3. VersionSeen(m) = 2 => "tenants" \in Drops(script'[m])
      BY <1>5, <3>1, <3>2
    <3> QED
      BY <1>1, <1>4, <1>5, <2>1, <2>3, <3>1, <3>2, <3>3 DEF Working
  <2> QED
    BY <1>2, <1>8, <2>2, <2>3
<1>9. v # to
  BY <1>3, <1>4 DEF Working
<1> QED
  BY <1>2, <1>7, <1>8, <1>9

\* The statement with which a migration takes the lock on tenants.
LEMMA ExecuteStartsWork ==
    ASSUME VersionInv, MigrationTypes, SchemaTypes, NEW m \in Migrators, Execute(m),
           "tenants" \notin locks[m], Head(script[m]).op \in {"create", "drop"}
    PROVE  Working(m)'
<1> DEFINE s == Head(script[m])
           v == stamped[m]
           to == target[m]
<1>1. /\ pc[m] = "running" /\ script'[m] = Tail(script[m]) /\ UNCHANGED <<stamped, target>>
      /\ Accepted(s, View(m))
  BY DEF Execute, AtStatement, MigrationTypes
<1>2. v \in 0 .. 2 /\ to \in 0 .. 2 /\ version \in 0 .. 2
  BY DEF SchemaTypes, MigrationTypes, Revisions
<1>3. Waiting(m) /\ Plain(script[m], Operations(v, to))
  BY <1>1 DEF VersionInv, MigrationInv
<1>4. /\ script[m] # <<>> /\ s \in Statements
      /\ View(m)' = Effect(s, View(m)) /\ VersionSeen(m)' = VersionSeen(m)
      /\ View(m) \in Catalogues
  BY ExecuteView, ViewType
<1>5. VersionSeen(m) = version /\ TablesIn(View(m)) = TablesOf(version)
  BY <1>3, WaitingView DEF VersionInv
<1>6. TablesIn(View(m))' = TablesIn(Effect(s, View(m)))
  BY <1>4 DEF TablesIn, Exists
<1>7. s.op \in Operations(v, to)
  BY <1>2, <1>3, <1>4, TailIsPlain
<1>8. CASE v < to
  <2>1. s.op = "create" /\ v # to /\ ~ v > to
    BY <1>2, <1>7, <1>8 DEF Operations, Ups, Downs
  <2>2. script[m] = NextScript(v, to)
    BY <1>3, <1>8 DEF Waiting
  <2>3. s.table \notin TablesOf(version) /\ References(s.table) \subseteq TablesOf(version)
    BY <1>1, <1>4, <1>5, <2>1, StatementOnTables
  <2>4. TablesIn(View(m))' = TablesOf(version) \union {s.table}
    BY <1>1, <1>4, <1>5, <1>6, <2>1, StatementOnTables
  <2>5. \A t : s = Create(t) => Creates(script'[m]) = Creates(script[m]) \ {t}
    BY <1>1, <1>2, <1>3, <1>4, RestOfScript
  <2>6. CASE v = 0
    <3>1. script[m] = Upgrade1 /\ s = Create("tenants") /\ s.table = "tenants"
      BY <1>8, <1>2, <2>2, <2>6, UpgradesArePlain DEF NextScript, Create
    <3>2. version = 0
      BY <1>2, <2>3, <3>1, TablesOfRevisions
    <3>3. Creates(script'[m]) = TablesOf(1) \ {"tenants"}
      BY <2>5, <3>1, UpgradesArePlain
    <3> QED
      BY <1>1, <1>4, <1>5, <2>1, <2>4, <2>6, <3>1, <3>2, <3>3, TablesOfRevisions DEF Working
  <2>7. CASE v = 1
    <3>1. script[m] = Upgrade2 /\ s = Create("agent_tasks") /\ s.table = "agent_tasks"
      BY <1>8, <1>2, <2>2, <2>7, UpgradesArePlain DEF NextScript, Create
    <3>2. version = 1
      BY <1>2, <2>3, <3>1, TablesOfRevisions DEF References
    <3>3. Creates(script'[m]) = {}
      BY <2>5, <3>1, UpgradesArePlain
    <3> QED
      BY <1>1, <1>4, <1>5, <2>1, <2>4, <2>7, <3>1, <3>2, <3>3, TablesOfRevisions DEF Working
  <2> QED
    BY <1>2, <1>8, <2>6, <2>7
<1>9. CASE v > to
  <2>1. s.op = "drop" /\ v # to /\ ~ v < to
    BY <1>2, <1>7, <1>9 DEF Operations, Ups, Downs
  <2>2. s.table \in TablesOf(version) /\ \A t \in TablesOf(version) : s.table \notin References(t)
    BY <1>1, <1>4, <1>5, <2>1, StatementOnTables
  <2>3. TablesIn(View(m))' = TablesOf(version) \ {s.table}
    BY <1>1, <1>4, <1>5, <1>6, <2>1, StatementOnTables
  <2>4. s = Drop(s.table)
    BY <1>1, <1>4, <2>1, StatementOnTables
  <2>5. s.table \in Drops(script[m]) /\ Drops(script'[m]) = Drops(script[m]) \ {s.table}
    <3>1. \A t : s = Drop(t) => t \in Drops(script[m]) /\ Drops(Tail(script[m])) = Drops(script[m]) \ {t}
      BY <1>3, <1>4, RestOfScript
    <3> QED
      BY <1>1, <2>4, <3>1
  <2>6. CASE v = 2
    <3>1. Drops(script[m]) = {"agent_tasks"}
      BY <1>3, <1>9, <2>6 DEF Waiting
    <3>2. version = 2
      BY <1>2, <2>2, <2>5, <3>1, TablesOfRevisions
    <3> QED
      BY <1>1, <1>4, <1>5, <2>1, <2>3, <2>5, <2>6, <3>1, <3>2, TablesOfRevisions DEF Working
  <2>7. CASE v = 1
    <3>1. Drops(script[m]) = TablesOf(1)
      BY <1>3, <1>9, <2>7 DEF Waiting
    <3>2. version \in {1, 2}
      BY <1>2, <2>2, TablesOfRevisions
    <3>3. version = 2 => s.table # "tenants"
      BY <2>2, TablesOfRevisions DEF References
    <3> QED
      BY <1>1, <1>4, <1>5, <2>1, <2>3, <2>5, <2>7, <3>1, <3>2, <3>3, TablesOfRevisions DEF Working
  <2> QED
    BY <1>2, <1>9, <2>6, <2>7
<1>10. v # to
  BY <1>3, <1>4 DEF Waiting
<1> QED
  BY <1>2, <1>8, <1>9, <1>10

\* A statement that neither creates nor drops: a waiting migration exposes a table.
LEMMA ExecuteKeepsWaiting ==
    ASSUME VersionInv, MigrationTypes, SchemaTypes, NEW m \in Migrators, Execute(m),
           "tenants" \notin locks[m], Head(script[m]).op \notin {"create", "drop"}
    PROVE  Waiting(m)' /\ "tenants" \notin locks'[m]
<1> DEFINE s == Head(script[m])
           v == stamped[m]
           to == target[m]
<1>1. /\ pc[m] = "running" /\ script'[m] = Tail(script[m]) /\ UNCHANGED <<stamped, target, tables>>
      /\ locks'[m] = locks[m] \union Locked(s)
      /\ Accepted(s, View(m))
  BY DEF Execute, AtStatement, MigrationTypes
<1>2. v \in 0 .. 2 /\ to \in 0 .. 2
  BY DEF SchemaTypes, MigrationTypes, Revisions
<1>3. Waiting(m) /\ Plain(script[m], Operations(v, to))
  BY <1>1 DEF VersionInv, MigrationInv
<1>4. /\ script[m] # <<>> /\ s \in Statements
      /\ draft'[m] = Effect(s, View(m)) /\ View(m) \in Catalogues
  BY ExecuteView, ViewType
<1>5. "tenants" \notin locks'[m] /\ VersionTable \notin locks'[m]
  <2>1. s.table # "tenants"
    BY <1>2, <1>3, <1>4, TailIsPlain
  <2>2. VersionTable \notin Locked(s)
    BY <1>4, StatementTypes DEF VersionTable, Tables, TENANT_SCOPED_TABLES
  <2> QED
    BY <1>1, <1>3, <1>4, <2>1, <2>2, SchemaChangesLockTenants DEF Waiting
<1>6. \A t \in Tables : Exists(draft'[m], t) <=> Exists(tables, t)
  <2>1. TablesIn(draft'[m]) = TablesIn(View(m))
    BY <1>1, <1>4, StatementOnTables
  <2>2. \A t \in Tables : Exists(View(m), t) <=> Exists(tables, t)
    BY <1>3 DEF Waiting, View, Exists
  <2> QED
    BY <2>1, <2>2 DEF TablesIn
<1>7. ~ v < to
  <2>1. SUFFICES ASSUME v < to PROVE FALSE
    OBVIOUS
  <2>2. script[m] = NextScript(v, to)
    BY <1>3, <2>1 DEF Waiting
  <2>3. script[m] \in {Upgrade1, Upgrade2}
    BY <1>2, <2>1, <2>2 DEF NextScript
  <2> QED
    BY <2>3, UpgradesArePlain DEF Create
<1>8. v # to
  BY <1>3, <1>4 DEF Waiting
<1>9. Drops(script'[m]) = Drops(script[m])
  BY <1>1, <1>2, <1>3, <1>4, RestOfScript
<1> QED
  BY <1>1, <1>3, <1>5, <1>6, <1>7, <1>8, <1>9 DEF Waiting

LEMMA ExecuteKeepsVersion ==
    ASSUME VersionInv, MigrationTypes, SchemaTypes, NEW m \in Migrators, Execute(m)
    PROVE  VersionInv'
<1> DEFINE s == Head(script[m])
<1>1. /\ pc[m] = "running" /\ pc' = pc
      /\ script'[m] = Tail(script[m]) /\ locks'[m] = locks[m] \union Locked(s)
      /\ UNCHANGED <<stamped, target, tables, version>>
      /\ \A n \in Migrators \ {m} : script'[n] = script[n] /\ locks'[n] = locks[n] /\ draft'[n] = draft[n]
  BY DEF Execute, AtStatement, MigrationTypes
<1>2. Plain(script'[m], Operations(stamped[m], target[m])')
  <2>1. Plain(script[m], Operations(stamped[m], target[m])) /\ script[m] # <<>>
    BY <1>1, ExecuteView DEF VersionInv, MigrationInv
  <2>2. Plain(Tail(script[m]), Operations(stamped[m], target[m]))
    BY <2>1, TailIsPlain
  <2> QED
    BY <1>1, <2>2
<1>6. MigrationInv(m)'
  <2>e. (IF "tenants" \in locks[m] THEN Working(m) ELSE Waiting(m))' => MigrationInv(m)'
    BY <1>2 DEF MigrationInv
  <2>1. CASE "tenants" \in locks[m]
    <3>1. "tenants" \in locks'[m] /\ Working(m)'
      BY <1>1, <2>1, ExecuteKeepsWorking
    <3> QED
      BY <2>e, <3>1
  <2>2. CASE "tenants" \notin locks[m] /\ s.op \in {"create", "drop"}
    <3>1. "tenants" \in locks'[m]
      BY <1>1, <2>2, ExecuteView, SchemaChangesLockTenants
    <3>2. Working(m)'
      BY <2>2, ExecuteStartsWork
    <3> QED
      BY <2>e, <3>1, <3>2
  <2>3. CASE "tenants" \notin locks[m] /\ s.op \notin {"create", "drop"}
    <3>1. "tenants" \notin locks'[m] /\ Waiting(m)'
      BY <2>3, ExecuteKeepsWaiting
    <3> QED
      BY <2>e, <3>1
  <2> QED
    BY <2>1, <2>2, <2>3
<1>7. ASSUME NEW n \in Migrators \ {m} PROVE  MigrationInv(n)'
  <2>1. TablesIn(View(n))' = TablesIn(View(n)) /\ VersionSeen(n)' = VersionSeen(n)
    BY ExecuteView DEF TablesIn, Exists
  <2>2. Waiting(n) => Waiting(n)'
    BY <1>1 DEF Waiting
  <2>3. Working(n) => Working(n)'
    BY <1>1, <2>1 DEF Working
  <2> QED
    BY <1>1, <2>2, <2>3 DEF VersionInv, MigrationInv
<1> QED
  BY <1>1, <1>6, <1>7 DEF VersionInv, VersionMatchesTables

LEMMA VersionNext ==
    ASSUME TypeOK, LocksInv, VersionInv, [Next]_vars
    PROVE  VersionInv'
<1>t. MigrationTypes /\ SchemaTypes
  BY DEF TypeOK, MigrationTypes, SchemaTypes
<1>1. CASE \E m \in Migrators : BeginMigration(m)
  BY <1>1, <1>t, BeginKeepsVersion
<1>2. CASE \E m \in Migrators : Execute(m)
  BY <1>2, <1>t, ExecuteKeepsVersion
<1>3. CASE \E m \in Migrators : Stamp(m)
  BY <1>3, <1>t, StampKeepsVersion
<1>4. CASE \E m \in Migrators : Commits(m) /\ Rest({m}) /\ target' = target
  BY <1>4, <1>t, CommitKeepsVersion
<1>5. CASE \E ms : Rest(ms) /\ UNCHANGED <<tables, version, target>>
  BY <1>5, RestKeepsVersion
<1>6. CASE UNCHANGED <<tables, version, pc, target, script, draft, stamped, locks>>
  BY <1>6 DEF VersionInv, VersionMatchesTables, MigrationInv, Waiting, Working, View, VersionSeen
<1> QED
  BY <1>1, <1>2, <1>3, <1>4, <1>5, <1>6, StepsOnSchema DEF SchemaStep

SchemaInv == TypeOK /\ LocksInv /\ ProtectionInv /\ VersionInv

LEMMA SchemaInvariant == Spec => []SchemaInv
<1>1. Init => SchemaInv
  BY TypesInit, LocksInit, ProtectionInit, VersionInit DEF SchemaInv
<1>2. SchemaInv /\ [Next]_vars => SchemaInv'
  BY TypesNext, ProtectionNext, VersionNext DEF SchemaInv
<1> QED
  BY <1>1, <1>2, PTL DEF Spec

(***************************************************************************)
(* alembic_version and the tables agree after every commit, however many   *)
(* commands run beside each other, up or down: all that create or drop a   *)
(* table take the lock on tenants first, and what they find there tells    *)
(* them whether the version they read still holds.                         *)
(***************************************************************************)
THEOREM VersionTellsTheTruth == Spec => []VersionMatchesTables
<1>1. SchemaInv => VersionMatchesTables
  BY DEF SchemaInv, VersionInv
<1> QED
  BY <1>1, SchemaInvariant, PTL

-----------------------------------------------------------------------------
(* Refusals *)

\* A script creates a table after those it refers to, drops it after those that refer
\* to it, protects what it has created and exposes what it is going to drop.
Ordered(s) ==
    /\ \A i, j \in DOMAIN s : i < j =>
        /\ s[i].op = "create" /\ s[j].op = "create" => s[j].table \notin References(s[i].table)
        /\ s[i].op = "drop" /\ s[j].op = "drop" => s[i].table \notin References(s[j].table)
        /\ s[i].op = "protect" /\ s[j].op = "create" => s[i].table # s[j].table
        /\ s[i].op = "drop" /\ s[j].op = "expose" => s[i].table # s[j].table
    /\ \A i \in DOMAIN s : s[i].op = "expose" => In(s, Drop(s[i].table))

LEMMA TailIsOrdered ==
    ASSUME NEW s, NEW ops, Plain(s, ops), s # <<>>, Ordered(s)
    PROVE  Ordered(Tail(s))
<1>1. s \in Seq(Statements)
  BY DEF Plain
<1>2. \A i \in DOMAIN Tail(s) : i \in Nat /\ i + 1 \in DOMAIN s /\ i + 1 # 1 /\ Tail(s)[i] = s[i + 1]
  BY <1>1, TailOfScript
<1>3. ASSUME NEW i \in DOMAIN Tail(s), Tail(s)[i].op = "expose"
      PROVE  In(Tail(s), Drop(Tail(s)[i].table))
  <2>1. In(s, Drop(s[i + 1].table))
    BY <1>2, <1>3 DEF Ordered
  <2>2. 1 \in DOMAIN s /\ s[1] = Head(s) /\ 1 < i + 1
    BY <1>1, <1>2, TailOfScript
  <2>3. Drop(s[i + 1].table) # Head(s)
    BY <1>2, <1>3, <2>2 DEF Ordered, Drop
  <2> QED
    BY <1>2, <2>1, <2>3, TailIsPlain
<1>4. ASSUME NEW i \in DOMAIN Tail(s), NEW j \in DOMAIN Tail(s), i < j
      PROVE  i + 1 \in DOMAIN s /\ j + 1 \in DOMAIN s /\ i + 1 < j + 1
  BY <1>2, <1>4
<1> QED
  BY <1>2, <1>3, <1>4 DEF Ordered

LEMMA ScriptsAreOrdered == \A v, to : Ordered(NextScript(v, to))
<1>1. Ordered(Upgrade1)
  <2> DEFINE s == Upgrade1
  <2>1. DOMAIN s = 1 .. 11
    BY DEF Upgrade1
  <2>2. /\ s[1] = Create("tenants") /\ s[2] = Create("users") /\ s[3] = Create("tool_invocations")
        /\ s[4] = Create("conversations") /\ s[5] = Create("messages") /\ s[6] = Create("audit_events")
        /\ \A i \in 7 .. 11 : s[i].op = "protect"
    BY DEF Upgrade1, Protect
  <2>3. \A i \in DOMAIN s : s[i].op = "create" <=> i \in 1 .. 6
    BY <2>1, <2>2 DEF Create
  <2>4. \A i \in DOMAIN s : s[i].op \in {"create", "protect"}
    BY <2>1, <2>2, <2>3
  <2>5. ASSUME NEW i \in 1 .. 6, NEW j \in 1 .. 6, i < j
        PROVE  s[j].table \notin References(s[i].table)
    <3>1. s[1].table = "tenants" /\ s[2].table = "users" /\ s[3].table = "tool_invocations"
          /\ s[4].table = "conversations" /\ s[5].table = "messages" /\ s[6].table = "audit_events"
      BY <2>2 DEF Create
    <3>2. s[j].table # "tenants"
      BY <2>5, <3>1
    <3>3. i = 4 => s[j].table # "users"
      BY <2>5, <3>1
    <3>4. i = 5 => s[j].table # "conversations"
      BY <2>5, <3>1
    <3> QED
      BY <2>5, <3>1, <3>2, <3>3, <3>4 DEF References
  <2> QED
    BY <2>1, <2>3, <2>4, <2>5 DEF Ordered
<1>2. Ordered(Downgrade1)
  <2> DEFINE s == Downgrade1
  <2>1. DOMAIN s = 1 .. 11
    BY DEF Downgrade1
  <2>2. /\ s[6] = Drop("audit_events") /\ s[7] = Drop("messages") /\ s[8] = Drop("tool_invocations")
        /\ s[9] = Drop("conversations") /\ s[10] = Drop("users") /\ s[11] = Drop("tenants")
        /\ s[1] = Expose("users") /\ s[2] = Expose("tool_invocations") /\ s[3] = Expose("conversations")
        /\ s[4] = Expose("messages") /\ s[5] = Expose("audit_events")
    BY DEF Downgrade1
  <2>3. \A i \in DOMAIN s : (s[i].op = "drop" <=> i \in 6 .. 11) /\ (s[i].op = "expose" <=> i \in 1 .. 5)
    BY <2>1, <2>2 DEF Drop, Expose
  <2>4. \A i \in DOMAIN s : s[i].op \in {"drop", "expose"}
    BY <2>1, <2>3
  <2>5. ASSUME NEW i \in 6 .. 11, NEW j \in 6 .. 11, i < j
        PROVE  s[i].table \notin References(s[j].table)
    <3>1. s[6].table = "audit_events" /\ s[7].table = "messages" /\ s[8].table = "tool_invocations"
          /\ s[9].table = "conversations" /\ s[10].table = "users" /\ s[11].table = "tenants"
      BY <2>2 DEF Drop
    <3>2. s[i].table # "tenants"
      BY <2>5, <3>1
    <3>3. j = 9 => s[i].table # "users"
      BY <2>5, <3>1
    <3>4. j = 7 => s[i].table # "conversations"
      BY <2>5, <3>1
    <3> QED
      BY <2>5, <3>1, <3>2, <3>3, <3>4 DEF References
  <2>6. ASSUME NEW i \in 1 .. 5 PROVE In(s, Drop(s[i].table))
    BY <2>1, <2>2 DEF In, Expose
  <2> QED
    BY <2>1, <2>3, <2>4, <2>5, <2>6 DEF Ordered
<1>3. Ordered(Upgrade2)
  BY DEF Upgrade2, Ordered, Create, Protect
<1>4. Ordered(Downgrade2)
  BY DEF Downgrade2, Ordered, Expose, Drop, In
<1>5. Ordered(<<>>)
  BY DEF Ordered
<1> QED
  BY <1>1, <1>2, <1>3, <1>4, <1>5 DEF NextScript

LEMMA ScriptsProtectTheirOwn ==
    \A v, to, t : In(NextScript(v, to), Protect(t)) => In(NextScript(v, to), Create(t))
<1>1. ASSUME NEW t, In(Upgrade1, Protect(t)) PROVE In(Upgrade1, Create(t))
  <2>1. t \in {"users", "tool_invocations", "conversations", "messages", "audit_events"}
    BY <1>1 DEF In, Upgrade1, Create, Protect
  <2> QED
    BY <2>1 DEF In, Upgrade1
<1>2. ASSUME NEW t, In(Upgrade2, Protect(t)) PROVE In(Upgrade2, Create(t))
  BY <1>2 DEF In, Upgrade2, Create, Protect
<1>3. \A t : ~ In(Downgrade1, Protect(t))
  BY DEF In, Downgrade1, Expose, Drop, Protect
<1>4. \A t : ~ In(Downgrade2, Protect(t))
  BY DEF In, Downgrade2, Expose, Drop, Protect
<1>5. \A t : ~ In(<<>>, Protect(t))
  BY DEF In
<1> QED
  BY <1>1, <1>2, <1>3, <1>4, <1>5 DEF NextScript

\* A table yet to be protected is yet to be created, or is as it was created.
Pending(m) ==
    \A t \in Tables : In(script[m], Protect(t)) =>
        In(script[m], Create(t)) \/ (t \in locks[m] /\ draft[m][t] = Open)

OrderInv == \A m \in Migrators : pc[m] = "running" => Ordered(script[m]) /\ Pending(m)

LEMMA OrderInit == Init => OrderInv
  BY DEF Init, OrderInv

LEMMA ExecuteKeepsOrder ==
    ASSUME OrderInv, VersionInv, MigrationTypes, SchemaTypes, NEW m \in Migrators, Execute(m)
    PROVE  OrderInv'
<1> DEFINE s == Head(script[m])
<1>1. /\ pc[m] = "running" /\ pc' = pc
      /\ script'[m] = Tail(script[m]) /\ locks'[m] = locks[m] \union Locked(s)
      /\ draft'[m] = Effect(s, View(m))
      /\ \A n \in Migrators \ {m} : script'[n] = script[n] /\ locks'[n] = locks[n] /\ draft'[n] = draft[n]
  BY DEF Execute, AtStatement, MigrationTypes
<1>2. /\ script[m] # <<>> /\ s \in Statements
      /\ Plain(script[m], Operations(stamped[m], target[m]))
      /\ Ordered(script[m]) /\ Pending(m)
  BY <1>1, ExecuteView DEF VersionInv, MigrationInv, OrderInv
<1>3. Ordered(Tail(script[m]))
  BY <1>2, TailIsOrdered
<1>4. /\ \A x : In(Tail(script[m]), x) <=> In(script[m], x) /\ x # s
      /\ s.op \in Operations(stamped[m], target[m])
  BY <1>2, TailIsPlain
<1>5. ASSUME NEW t \in Tables, In(Tail(script[m]), Protect(t))
      PROVE  In(Tail(script[m]), Create(t)) \/ (t \in locks'[m] /\ draft'[m][t] = Open)
  <2>1. In(script[m], Protect(t)) /\ Protect(t) # s
    BY <1>4, <1>5
  <2>2. Operations(stamped[m], target[m]) = Ups
    <3>1. "protect" \in Operations(stamped[m], target[m])
      BY <1>2, <2>1 DEF Plain, In, Protect
    <3> QED
      BY <3>1 DEF Operations, Downs
  <2>3. CASE s.table = t
    <3>1. s = Create(t) /\ s.leaves = Open
      BY <1>2, <1>4, <2>1, <2>2, <2>3 DEF Ups, Statements, Create, Protect, Expose, Drop
    <3>2. t \in Locked(s)
      BY <2>3 DEF Locked
    <3>3. Effect(s, View(m))[t] = Open
      BY <2>3, <3>1 DEF Effect, View
    <3> QED
      BY <1>1, <3>2, <3>3
  <2>4. CASE s.table # t
    <3>1. In(script[m], Create(t)) => In(Tail(script[m]), Create(t))
      BY <1>4, <2>4 DEF Create
    <3>2. t \in locks[m] => Effect(s, View(m))[t] = draft[m][t]
      BY <2>4 DEF Effect, View
    <3>3. In(script[m], Create(t)) \/ (t \in locks[m] /\ draft[m][t] = Open)
      BY <1>2, <2>1 DEF Pending
    <3>4. CASE In(script[m], Create(t))
      BY <3>1, <3>4
    <3>5. CASE t \in locks[m] /\ draft[m][t] = Open
      BY <1>1, <3>2, <3>5
    <3> QED
      BY <3>3, <3>4, <3>5
  <2> QED
    BY <2>3, <2>4
<1>6. Pending(m)'
  BY <1>1, <1>5 DEF Pending
<1>7. ASSUME NEW n \in Migrators \ {m}, pc[n] = "running" PROVE Ordered(script'[n]) /\ Pending(n)'
  BY <1>1, <1>7 DEF OrderInv, Pending
<1> QED
  BY <1>1, <1>3, <1>6, <1>7 DEF OrderInv

LEMMA OrderNext ==
    ASSUME TypeOK, VersionInv, OrderInv, [Next]_vars
    PROVE  OrderInv'
<1>t. MigrationTypes /\ SchemaTypes
  BY DEF TypeOK, MigrationTypes, SchemaTypes
<1>r. ASSUME NEW ms, Rest(ms) PROVE OrderInv'
  BY <1>r DEF Rest, Release, OrderInv, Pending
<1>1. ASSUME NEW m \in Migrators, BeginMigration(m) \/ Stamp(m) PROVE OrderInv'
  <2>1. /\ \A n \in Migrators \ {m} : script'[n] = script[n] /\ locks'[n] = locks[n] /\ pc'[n] = pc[n]
        /\ draft' = draft
    BY <1>1, <1>t DEF BeginMigration, Stamp, MigrationTypes
  <2>2. \E v, to : script'[m] = NextScript(v, to)
    BY <1>1, <1>t DEF BeginMigration, Stamp, MigrationTypes
  <2>3. Ordered(script'[m])
    BY <2>2, ScriptsAreOrdered
  <2>4. \A t : In(script'[m], Protect(t)) => In(script'[m], Create(t))
    BY <2>2, ScriptsProtectTheirOwn
  <2>5. Pending(m)'
    BY <2>4 DEF Pending
  <2> QED
    BY <2>1, <2>3, <2>5 DEF OrderInv, Pending
<1>2. CASE \E m \in Migrators : Execute(m)
  BY <1>2, <1>t, ExecuteKeepsOrder
<1>3. CASE UNCHANGED <<tables, version, pc, target, script, draft, stamped, locks>>
  BY <1>3 DEF OrderInv, Pending
<1> QED
  BY <1>r, <1>1, <1>2, <1>3, StepsOnSchema DEF SchemaStep

\* What a migration sees that nobody has overtaken.
LEMMA UpwardSees ==
    ASSUME VersionInv, MigrationTypes, SchemaTypes, NEW m \in Migrators, pc[m] = "running",
           VersionSeen(m) = stamped[m], stamped[m] < target[m]
    PROVE  /\ Plain(script[m], Ups)
           /\ Creates(script[m]) \subseteq TablesOf(stamped[m] + 1)
           /\ TablesIn(View(m)) = TablesOf(stamped[m] + 1) \ Creates(script[m])
<1>1. stamped[m] \in {0, 1} /\ target[m] \in 0 .. 2
  BY DEF MigrationTypes, SchemaTypes, Revisions
<1>2. Plain(script[m], Ups)
  BY DEF VersionInv, MigrationInv, Operations
<1>3. CASE "tenants" \in locks[m]
  BY <1>2, <1>3 DEF VersionInv, MigrationInv, Working
<1>4. CASE "tenants" \notin locks[m]
  <2>1. Waiting(m) /\ VersionMatchesTables
    BY <1>4 DEF VersionInv, MigrationInv
  <2>2. TablesIn(View(m)) = TablesOf(stamped[m])
    BY <2>1, WaitingView
  <2>3. script[m] = IF stamped[m] = 0 THEN Upgrade1 ELSE Upgrade2
    BY <1>1, <2>1 DEF Waiting, NextScript
  <2>4. CASE stamped[m] = 0
    BY <1>2, <2>2, <2>3, <2>4, UpgradesArePlain, TablesOfRevisions
  <2>5. CASE stamped[m] = 1
    BY <1>2, <2>2, <2>3, <2>5, UpgradesArePlain, TablesOfRevisions
  <2> QED
    BY <1>1, <2>4, <2>5
<1> QED
  BY <1>3, <1>4

LEMMA DownwardSees ==
    ASSUME VersionInv, MigrationTypes, SchemaTypes, NEW m \in Migrators, pc[m] = "running",
           VersionSeen(m) = stamped[m], stamped[m] > target[m]
    PROVE  /\ Plain(script[m], Downs)
           /\ IF stamped[m] = 2 THEN /\ Drops(script[m]) \subseteq {"agent_tasks"}
                                     /\ TablesIn(View(m)) = TablesOf(1) \union Drops(script[m])
              ELSE TablesIn(View(m)) = Drops(script[m])
<1>1. stamped[m] \in {1, 2} /\ target[m] \in 0 .. 2
  BY DEF MigrationTypes, SchemaTypes, Revisions
<1>2. Plain(script[m], Downs)
  BY <1>1 DEF VersionInv, MigrationInv, Operations
<1>3. CASE "tenants" \in locks[m]
  BY <1>1, <1>2, <1>3 DEF VersionInv, MigrationInv, Working
<1>4. CASE "tenants" \notin locks[m]
  <2>1. Waiting(m) /\ VersionMatchesTables
    BY <1>4 DEF VersionInv, MigrationInv
  <2>2. TablesIn(View(m)) = TablesOf(stamped[m])
    BY <2>1, WaitingView
  <2>3. Drops(script[m]) = IF stamped[m] = 2 THEN {"agent_tasks"} ELSE TablesOf(1)
    BY <2>1 DEF Waiting
  <2> QED
    BY <1>1, <1>2, <2>2, <2>3, TablesOfRevisions
<1> QED
  BY <1>3, <1>4

LEMMA Foreign ==
    /\ \A t \in Tables : t \notin References(t) /\ References(t) \subseteq TablesOf(1)
    /\ \A t \in Tables : "agent_tasks" \notin References(t)
  BY DEF References, TablesOf, Tables, TENANT_SCOPED_TABLES

LEMMA UpwardIsAccepted ==
    ASSUME VersionInv, OrderInv, MigrationTypes, SchemaTypes, NEW m \in Migrators, AtStatement(m),
           VersionSeen(m) = stamped[m], stamped[m] < target[m]
    PROVE  Accepted(Head(script[m]), View(m))
<1> DEFINE q == script[m]
           s == Head(q)
           t == s.table
<1>1. pc[m] = "running" /\ q # <<>> /\ q \in Seq(Statements)
  BY DEF AtStatement, MigrationTypes
<1>2. /\ Plain(q, Ups) /\ Creates(q) \subseteq TablesOf(stamped[m] + 1)
      /\ TablesIn(View(m)) = TablesOf(stamped[m] + 1) \ Creates(q)
  BY <1>1, UpwardSees
<1>3. Ordered(q) /\ Pending(m)
  BY <1>1 DEF OrderInv
<1>4. s = q[1] /\ 1 \in DOMAIN q /\ s \in Statements /\ t \in Tables /\ In(q, s) /\ s.op \in Ups
  BY <1>1, <1>2, TailOfScript, TailIsPlain, StatementTypes
<1>5. \A u \in Creates(q) : u # t => \E j \in DOMAIN q : 1 < j /\ q[j] = Create(u)
  <2> TAKE u \in Creates(q)
  <2>1. PICK j \in DOMAIN q : q[j] = Create(u)
    BY DEF Creates, In
  <2>2. u # t => j # 1
    BY <1>4, <2>1 DEF Create
  <2>3. j \in Nat \ {0}
    BY <1>1
  <2> QED
    BY <2>1, <2>2, <2>3
<1>6. CASE s.op = "create"
  <2>1. s = Create(t)
    BY <1>4, <1>6 DEF Statements, Create, Protect, Expose, Drop
  <2>2. t \in Creates(q)
    BY <1>4, <2>1 DEF Creates
  <2>3. ~ Exists(View(m), t)
    BY <1>2, <1>4, <2>2 DEF TablesIn
  <2>4. References(t) \subseteq TablesOf(stamped[m] + 1)
    <3>1. stamped[m] \in 0 .. 2 /\ target[m] \in 0 .. 2
      BY DEF MigrationTypes, SchemaTypes, Revisions
    <3>2. stamped[m] + 1 \in {1, 2}
      BY <3>1
    <3> QED
      BY <1>4, <3>2, Foreign, TablesOfRevisions
  <2>5. ASSUME NEW u \in References(t) PROVE u \notin Creates(q)
    <3>1. SUFFICES ASSUME u \in Creates(q) PROVE FALSE
      OBVIOUS
    <3>2. u # t
      BY <1>4, <2>5, Foreign
    <3>3. PICK j \in DOMAIN q : 1 < j /\ q[j] = Create(u)
      BY <1>5, <3>1, <3>2
    <3>4. q[j].op = "create" /\ q[j].table = u
      BY <3>3 DEF Create
    <3> QED
      BY <1>3, <1>4, <1>6, <2>5, <3>3, <3>4 DEF Ordered
  <2>6. \A u \in References(t) : Exists(View(m), u)
    BY <1>2, <2>4, <2>5 DEF TablesIn
  <2> QED
    BY <1>6, <2>3, <2>6 DEF Accepted
<1>7. CASE s.op = "protect"
  <2>1. s = Protect(t)
    BY <1>4, <1>7 DEF Statements, Create, Protect, Expose, Drop
  <2>2. ~ In(q, Create(t))
    <3>1. SUFFICES ASSUME NEW j \in DOMAIN q, q[j] = Create(t) PROVE FALSE
      BY DEF In
    <3>2. q[j].op = "create" /\ q[j].table = t
      BY <3>1 DEF Create
    <3>3. 1 < j
      BY <1>1, <1>4, <1>7, <3>2
    <3> QED
      BY <1>3, <1>4, <1>7, <3>2, <3>3 DEF Ordered
  <2>3. t \in locks[m] /\ draft[m][t] = Open
    BY <1>3, <1>4, <2>1, <2>2 DEF Pending
  <2>4. View(m)[t] = Open
    BY <1>4, <2>3 DEF View
  <2> QED
    BY <1>7, <2>4 DEF Accepted, Exists, Open
<1> QED
  BY <1>4, <1>6, <1>7 DEF Ups

LEMMA DownwardIsAccepted ==
    ASSUME VersionInv, OrderInv, MigrationTypes, SchemaTypes, NEW m \in Migrators, AtStatement(m),
           VersionSeen(m) = stamped[m], stamped[m] > target[m]
    PROVE  Accepted(Head(script[m]), View(m))
<1> DEFINE q == script[m]
           s == Head(q)
           t == s.table
<1>1. pc[m] = "running" /\ q # <<>> /\ q \in Seq(Statements)
  BY DEF AtStatement, MigrationTypes
<1>2. /\ Plain(q, Downs)
      /\ IF stamped[m] = 2 THEN Drops(q) \subseteq {"agent_tasks"} /\ TablesIn(View(m)) = TablesOf(1) \union Drops(q)
         ELSE TablesIn(View(m)) = Drops(q)
  BY <1>1, DownwardSees
<1>3. Ordered(q)
  BY <1>1 DEF OrderInv
<1>4. s = q[1] /\ 1 \in DOMAIN q /\ s \in Statements /\ t \in Tables /\ In(q, s) /\ s.op \in Downs
  BY <1>1, <1>2, TailOfScript, TailIsPlain, StatementTypes
<1>5. Drops(q) \subseteq TablesIn(View(m))
  BY <1>2
<1>6. CASE s.op = "drop"
  <2>1. s = Drop(t)
    BY <1>4, <1>6 DEF Statements, Create, Protect, Expose, Drop
  <2>2. t \in Drops(q)
    BY <1>4, <2>1 DEF Drops
  <2>3. Exists(View(m), t)
    BY <1>5, <2>2 DEF TablesIn
  <2>4. ASSUME NEW u \in TablesIn(View(m)) PROVE t \notin References(u)
    <3>0. u \in Tables
      BY DEF TablesIn
    <3>1. CASE stamped[m] = 2
      BY <1>2, <2>2, <3>0, <3>1, Foreign
    <3>2. CASE stamped[m] # 2 /\ u # t
      <4>1. PICK j \in DOMAIN q : q[j] = Drop(u)
        BY <1>2, <2>4, <3>2 DEF Drops, In
      <4>2. q[j].op = "drop" /\ q[j].table = u
        BY <4>1 DEF Drop
      <4>3. 1 < j
        BY <1>1, <1>4, <3>2, <4>2
      <4> QED
        BY <1>3, <1>4, <1>6, <4>2, <4>3 DEF Ordered
    <3> QED
      BY <3>0, <3>1, <3>2, Foreign
  <2> QED
    BY <1>6, <2>3, <2>4 DEF Accepted, TablesIn
<1>7. CASE s.op = "expose"
  <2>1. In(q, Drop(t))
    BY <1>3, <1>4, <1>7 DEF Ordered
  <2>2. t \in TablesIn(View(m))
    BY <1>4, <1>5, <2>1 DEF Drops
  <2> QED
    BY <1>7, <2>2 DEF Accepted, TablesIn
<1> QED
  BY <1>4, <1>6, <1>7 DEF Downs

(***************************************************************************)
(* A migration is refused only if another has committed since it read the  *)
(* version: from every revision to every other, its statements come in an  *)
(* order that the foreign keys allow, whatever ran, failed or was retried  *)
(* before.                                                                 *)
(***************************************************************************)
THEOREM RefusalsAreDeserved == Spec => []RefusedOnlyWhenOvertaken
<1>1. SchemaInv /\ OrderInv => RefusedOnlyWhenOvertaken
  <2> SUFFICES ASSUME SchemaInv, OrderInv, NEW m \in Migrators, Outrun(m), VersionSeen(m) = stamped[m]
               PROVE  FALSE
    BY DEF RefusedOnlyWhenOvertaken
  <2>1. VersionInv /\ MigrationTypes /\ SchemaTypes
    BY DEF SchemaInv, TypeOK, MigrationTypes, SchemaTypes
  <2>2. AtStatement(m) /\ ~ Accepted(Head(script[m]), View(m))
    BY DEF Outrun
  <2>3. stamped[m] # target[m]
    BY <2>1, <2>2 DEF AtStatement, VersionInv, MigrationInv, Working, Waiting
  <2>4. stamped[m] \in 0 .. 2 /\ target[m] \in 0 .. 2
    BY <2>1 DEF MigrationTypes, SchemaTypes, Revisions
  <2>5. stamped[m] < target[m] \/ stamped[m] > target[m]
    BY <2>3, <2>4
  <2> QED
    BY <2>1, <2>2, <2>5, UpwardIsAccepted, DownwardIsAccepted
<1>2. Init => OrderInv
  BY OrderInit
<1>3. SchemaInv /\ OrderInv /\ [Next]_vars => OrderInv'
  BY OrderNext DEF SchemaInv
<1> QED
  BY <1>1, <1>2, <1>3, SchemaInvariant, PTL DEF Spec

-----------------------------------------------------------------------------
(* All clear *)

AllUpward == \A m \in Migrators : target[m] = LatestRevision

\* While nobody works towards an older revision the version only grows, and is the
\* latest once a Job is complete.
UpwardInv ==
    /\ \A j \in Jobs : target[j] = LatestRevision
    /\ AllUpward =>
        /\ \A m \in Migrators : VersionTable \notin locks[m] /\ pc[m] = "running" => stamped[m] <= version
        /\ (\E j \in Jobs : pc[j] = "complete") => version = LatestRevision

LEMMA UpwardInit == Init => UpwardInv
  BY DEF Init, UpwardInv, Migrators

\* A Job that commits has the latest version.
LEMMA CommitUpward ==
    ASSUME SchemaInv, UpwardInv, AllUpward, NEW m \in Migrators, Commits(m)
    PROVE  version' = LatestRevision
<1>t. MigrationTypes /\ SchemaTypes
  BY DEF SchemaInv, TypeOK, MigrationTypes, SchemaTypes
<1>1. /\ pc[m] = "running" /\ stamped[m] = 2 /\ target[m] = 2 /\ version' = VersionSeen(m)
      /\ version \in 0 .. 2
  BY <1>t DEF Commits, AllUpward, LatestRevision, SchemaTypes, Revisions
<1>2. CASE VersionTable \in locks[m]
  BY <1>1, <1>2 DEF VersionSeen, LatestRevision
<1>3. CASE VersionTable \notin locks[m]
  BY <1>1, <1>3 DEF VersionSeen, UpwardInv, LatestRevision
<1> QED
  BY <1>2, <1>3

LEMMA UpwardNext ==
    ASSUME SchemaInv, UpwardInv, [Next]_vars
    PROVE  UpwardInv'
<1>t. MigrationTypes /\ SchemaTypes /\ TypeOK
  BY DEF SchemaInv, TypeOK, MigrationTypes, SchemaTypes
<1>v. version \in 0 .. 2 /\ Jobs \subseteq Migrators
  BY <1>t DEF SchemaTypes, Revisions, Migrators
<1>1. ASSUME NEW m \in Migrators, BeginMigration(m) PROVE UpwardInv'
  BY <1>1, <1>t, <1>v DEF BeginMigration, UpwardInv, AllUpward, MigrationTypes
<1>2. ASSUME NEW m \in Migrators, Execute(m) PROVE UpwardInv'
  BY <1>2, <1>t, <1>v DEF Execute, UpwardInv, AllUpward, MigrationTypes
<1>3. ASSUME NEW m \in Migrators, Stamp(m) PROVE UpwardInv'
  BY <1>3, <1>t, <1>v DEF Stamp, UpwardInv, AllUpward, MigrationTypes
<1>4. ASSUME NEW m \in Migrators, Commits(m), Rest({m}), target' = target PROVE UpwardInv'
  <2>1. ASSUME AllUpward PROVE version' = 2
    BY <1>4, <2>1, CommitUpward DEF LatestRevision
  <2>2. AllUpward' <=> AllUpward
    BY <1>4 DEF AllUpward
  <2>3. ASSUME AllUpward, NEW n \in Migrators, VersionTable \notin locks'[n], pc'[n] = "running"
        PROVE  stamped'[n] <= 2
    <3>1. n # m
      BY <1>4, <2>3 DEF Rest
    <3>2. stamped'[n] = stamped[n]
      BY <1>4, <3>1 DEF Rest, Release
    <3>3. stamped[n] \in 0 .. 2
      BY <1>t DEF MigrationTypes, Revisions
    <3> QED
      BY <3>2, <3>3
  <2> QED
    BY <1>4, <2>1, <2>2, <2>3 DEF UpwardInv, LatestRevision
<1>5. ASSUME NEW ms, Rest(ms), \A n \in Migrators : n \in ms => pc'[n] # "complete",
             UNCHANGED <<tables, version, target>>
      PROVE  UpwardInv'
  <2>1. \A n \in Migrators : /\ pc'[n] = "running" => /\ pc[n] = "running" /\ locks'[n] = locks[n]
                                                     /\ stamped'[n] = stamped[n]
                             /\ pc'[n] = "complete" => pc[n] = "complete"
    BY <1>5 DEF Rest, Release
  <2> QED
    BY <1>5, <1>v, <2>1 DEF UpwardInv, AllUpward
<1>6. CASE UNCHANGED <<tables, version, pc, target, script, draft, stamped, locks>>
  BY <1>6 DEF UpwardInv, AllUpward
<1> QED
  BY <1>t, <1>1, <1>2, <1>3, <1>4, <1>5, <1>6, StepsOnSchema DEF SchemaStep

\* While nobody works towards an older revision the first statement of every migration
\* takes the lock on tenants, and whoever has another lock has that one too.
TurnInv ==
    AllUpward => \A m \in Migrators : locks[m] # {} => "tenants" \in locks[m]

\* A migration that has a lock can take its next step at once.
HoldersGoOn ==
    AllUpward =>
        \A m \in Migrators :
            locks[m] # {} =>
                \/ AtStatement(m) \/ AtStamp(m)
                \/ pc[m] = "running" /\ script[m] = <<>> /\ stamped[m] = target[m]

\* A migration towards the latest revision that waits has all of it before it.
LEMMA WaitingUpward ==
    ASSUME SchemaInv, AllUpward, NEW m \in Migrators, pc[m] = "running", "tenants" \notin locks[m]
    PROVE  /\ script[m] = <<>> => stamped[m] = target[m]
           /\ script[m] # <<>> => "tenants" \in Locked(Head(script[m]))
<1>1. Waiting(m) /\ stamped[m] \in 0 .. 2 /\ target[m] = 2
  BY DEF SchemaInv, VersionInv, MigrationInv, TypeOK, Revisions, AllUpward, LatestRevision
<1>2. CASE stamped[m] = 2
  BY <1>1, <1>2 DEF Waiting
<1>3. CASE stamped[m] < 2
  <2>1. script[m] = NextScript(stamped[m], 2)
    BY <1>1, <1>3 DEF Waiting
  <2>2. script[m] \in {Upgrade1, Upgrade2}
    BY <1>1, <1>3, <2>1 DEF NextScript
  <2>3. script[m] # <<>> /\ Head(script[m]) \in {Create("tenants"), Create("agent_tasks")}
    BY <2>2, UpgradesArePlain
  <2>4. \A t : "tenants" \in Locked(Create(t)) <=> t = "tenants" \/ "tenants" \in References(t)
    BY DEF Locked, Create
  <2>5. "tenants" \in References("agent_tasks")
    BY DEF References
  <2> QED
    BY <2>3, <2>4, <2>5
<1> QED
  BY <1>1, <1>2, <1>3

LEMMA TurnNext ==
    ASSUME SchemaInv, TurnInv, [Next]_vars
    PROVE  TurnInv'
<1>t. MigrationTypes /\ TypeOK
  BY DEF SchemaInv, TypeOK, MigrationTypes
<1>1. ASSUME NEW m \in Migrators, BeginMigration(m) PROVE TurnInv'
  BY <1>1 DEF BeginMigration, TurnInv, AllUpward
<1>2. ASSUME NEW m \in Migrators, Execute(m) PROVE TurnInv'
  <2>1. /\ pc[m] = "running" /\ script[m] # <<>> /\ target' = target
        /\ locks'[m] = locks[m] \union Locked(Head(script[m]))
        /\ \A n \in Migrators \ {m} : locks'[n] = locks[n]
    BY <1>2, <1>t DEF Execute, AtStatement, MigrationTypes
  <2> QED
    BY <2>1, WaitingUpward DEF TurnInv, AllUpward
<1>3. ASSUME NEW m \in Migrators, Stamp(m) PROVE TurnInv'
  <2>1. /\ pc[m] = "running" /\ script[m] = <<>> /\ stamped[m] # target[m] /\ target' = target
        /\ locks[m] \subseteq locks'[m]
        /\ \A n \in Migrators \ {m} : locks'[n] = locks[n]
    BY <1>3, <1>t DEF Stamp, AtStamp, MigrationTypes
  <2> QED
    BY <2>1, WaitingUpward DEF TurnInv, AllUpward
<1>4. ASSUME NEW ms, Rest(ms), UNCHANGED target PROVE TurnInv'
  BY <1>4 DEF Rest, Release, TurnInv, AllUpward
<1>5. CASE UNCHANGED <<tables, version, pc, target, script, draft, stamped, locks>>
  BY <1>5 DEF TurnInv, AllUpward
<1> QED
  BY <1>t, <1>1, <1>2, <1>3, <1>4, <1>5, StepsOnSchema DEF SchemaStep

(***************************************************************************)
(* Migrations towards the latest revision take turns and cannot deadlock,  *)
(* however many pods and operators apply them at once: whoever has locked  *)
(* anything has locked tenants, so nobody else has locked anything, and    *)
(* its next statement waits for nobody (0001_tenancy.py 24-113,            *)
(* 0002_agent_tasks.py 22-42).                                             *)
(***************************************************************************)
THEOREM UpgradesTakeTurns == Spec => []HoldersGoOn
<1>1. Init => TurnInv
  BY DEF Init, TurnInv
<1>2. SchemaInv /\ TurnInv => HoldersGoOn
  <2> SUFFICES ASSUME SchemaInv, TurnInv, AllUpward, NEW m \in Migrators, locks[m] # {}
               PROVE  \/ AtStatement(m) \/ AtStamp(m)
                      \/ pc[m] = "running" /\ script[m] = <<>> /\ stamped[m] = target[m]
    BY DEF HoldersGoOn
  <2>1. pc[m] = "running"
    BY DEF SchemaInv, LocksInv
  <2>2. \A n \in Migrators \ {m} : locks[n] = {}
    BY DEF SchemaInv, LocksInv, TurnInv
  <2>3. \A names : ~ Waits(m, names)
    BY <2>2 DEF Waits
  <2> QED
    BY <2>1, <2>3 DEF AtStatement, AtStamp
<1> QED
  BY <1>1, <1>2, SchemaInvariant, TurnNext, PTL DEF Spec

\* What the application has told of itself is true of its settings.
HealthInv ==
    /\ process = "serving" => validate_for_environment(settings) = {}
    /\ process # "serving" => probe = "idle"
    /\ probe # "idle" => report.rls = "none"
    /\ report.auth = "open mode" => ~ settings.database
    /\ report.rls = "not applicable" => ~ settings.database
    /\ report.background = "inline" => ~ background_enabled(settings)
    /\ report.background = "celery" => background_enabled(settings)

LEMMA HealthInit == Init => HealthInv
  BY DEF Init, HealthInv, NoReport

LEMMA HealthNext ==
    ASSUME TypeOK, HealthInv, [Next]_vars
    PROVE  HealthInv'
<1>t. report \in [auth: {"none", "enabled", "open mode"},
                  background: {"none", "celery", "inline"},
                  database: {"none", "ok", "unavailable"},
                  rls: {"none", "not applicable", "enforced", "incomplete", "unknown"}]
  BY DEF TypeOK
<1>1. CASE UNCHANGED application
  BY <1>1 DEF application, HealthInv
<1>2. CASE StartProcess
  BY <1>2 DEF StartProcess, HealthInv
<1>3. CASE StopProcess
  BY <1>3 DEF StopProcess, HealthInv, NoReport
<1>4. CASE BeginHealth
  BY <1>4, <1>t DEF BeginHealth, Answers, HealthInv, NoReport, auth_enabled
<1>5. CASE SelectOne
  BY <1>5, <1>t DEF SelectOne, HealthInv
<1>6. CASE CountForced
  BY <1>6, <1>t DEF CountForced, Answers, HealthInv
<1>7. CASE HealthRaises
  BY <1>7, <1>t DEF HealthRaises, Answers, HealthInv
<1>8. CASE UNCHANGED vars
  <2>1. UNCHANGED application
    BY <1>8 DEF vars
  <2> QED
    BY <2>1, <1>1
<1>9. ASSUME NEW m \in Migrators, Begin(m) \/ Settle(m) \/ MigrationFails(m) \/ CommitReplyLost(m)
      PROVE  UNCHANGED application
  BY <1>9 DEF Begin, Settle, BeginMigration, CannotConnect, Execute, Refused, Stamp,
     CommitMigration, MigrationFails, CommitReplyLost
<1>10. Outage \/ Recover => UNCHANGED application
  BY DEF Outage, Recover
<1> QED
  BY <1>1, <1>2, <1>3, <1>4, <1>5, <1>6, <1>7, <1>8, <1>9, <1>10 DEF Next, Health

DeploymentInv == SchemaInv /\ UpwardInv /\ HealthInv

LEMMA DeploymentInvariant == Spec => []DeploymentInv
<1>1. Init => DeploymentInv
  BY TypesInit, LocksInit, ProtectionInit, VersionInit, UpwardInit, HealthInit DEF SchemaInv, DeploymentInv
<1>2. DeploymentInv /\ [Next]_vars => DeploymentInv'
  BY TypesNext, ProtectionNext, VersionNext, UpwardNext, HealthNext DEF SchemaInv, DeploymentInv
<1> QED
  BY <1>1, <1>2, PTL DEF Spec

(***************************************************************************)
(* No process serves with settings that would leave a deployment           *)
(* unauthenticated or its tokens forgeable, and /health does not say       *)
(* otherwise.                                                              *)
(***************************************************************************)
THEOREM OpenModeIsAskedFor == Spec => []NeverOpenByAccident
<1>1. DeploymentInv => NeverOpenByAccident
  <2> SUFFICES ASSUME DeploymentInv, process = "serving"
               PROVE  /\ ~ auth_enabled(settings) => settings.local /\ settings.allowOpen
                      /\ ~ settings.local => settings.secret = [default |-> FALSE, length |-> 32]
                      /\ report.auth = "open mode" => ~ settings.database
                      /\ report.rls = "not applicable" => settings.local
    BY DEF NeverOpenByAccident
  <2>1. settings \in Settings /\ HealthInv
    BY DEF DeploymentInv, SchemaInv, TypeOK
  <2>2. validate_for_environment(settings) = {}
    BY <2>1 DEF HealthInv
  <2>3. ~ settings.database => settings.local /\ settings.allowOpen
    BY <2>1, <2>2 DEF validate_for_environment, Settings
  <2>4. ~ settings.local => ~ settings.secret.default /\ ~ (settings.secret.length < 32)
    BY <2>1, <2>2 DEF validate_for_environment, Settings
  <2>5. settings.secret \in Secrets
    BY <2>1 DEF Settings
  <2>6. ~ settings.local => settings.secret = [default |-> FALSE, length |-> 32]
    <3>1. CASE settings.secret = [default |-> TRUE, length |-> 30]
      BY <2>4, <3>1
    <3>2. CASE settings.secret = [default |-> FALSE, length |-> 31]
      BY <2>4, <3>2
    <3> QED
      BY <2>5, <3>1, <3>2 DEF Secrets
  <2> QED
    BY <2>1, <2>3, <2>6 DEF HealthInv, auth_enabled
<1> QED
  BY <1>1, DeploymentInvariant, PTL

\* All six tables are there and protected exactly when the version is the latest.
LEMMA LatestIsWhole ==
    ASSUME SchemaInv, version = LatestRevision
    PROVE  \A t \in TENANT_SCOPED_TABLES : tables[t] = Protected
<1>1. \A t \in Tables : Exists(tables, t)
  BY TablesOfRevisions DEF SchemaInv, VersionInv, VersionMatchesTables, LatestRevision
<1> QED
  BY <1>1, ScopedAreTables DEF SchemaInv, ProtectionInv, TablesComeProtected, Exists, Absent

\* Counting is enough: as many forced tables as there are tables are all of them.
LEMMA CountIsRight ==
    ASSUME SchemaInv, Cardinality(Forced) = Cardinality(TENANT_SCOPED_TABLES)
    PROVE  version = LatestRevision
<1>1. IsFiniteSet(TENANT_SCOPED_TABLES)
  <2> DEFINE two == {"users", "tool_invocations"}
             four == two \union {"conversations", "messages"}
  <2>1. ASSUME NEW S, NEW a, NEW b, IsFiniteSet(S) PROVE IsFiniteSet(S \union {a, b})
    <3>1. IsFiniteSet(S \union {a}) /\ IsFiniteSet((S \union {a}) \union {b})
      BY <2>1, FS_AddElement, Zenon
    <3>2. (S \union {a}) \union {b} = S \union {a, b}
      OBVIOUS
    <3> QED
      BY <3>1, <3>2
  <2>2. IsFiniteSet({} \union two)
    BY <2>1, FS_EmptySet, Zenon
  <2>3. IsFiniteSet(({} \union two) \union {"conversations", "messages"})
    BY <2>1, <2>2, Zenon
  <2>4. IsFiniteSet((({} \union two) \union {"conversations", "messages"}) \union {"audit_events", "agent_tasks"})
    BY <2>1, <2>3, Zenon
  <2>5. TENANT_SCOPED_TABLES
        = (({} \union two) \union {"conversations", "messages"}) \union {"audit_events", "agent_tasks"}
    BY DEF TENANT_SCOPED_TABLES
  <2> QED
    BY <2>4, <2>5
<1>2. Forced \in SUBSET TENANT_SCOPED_TABLES
  BY DEF Forced
<1>3. Forced = TENANT_SCOPED_TABLES
  BY <1>1, <1>2, FS_Subset
<1>4. "agent_tasks" \in TENANT_SCOPED_TABLES
  BY DEF TENANT_SCOPED_TABLES
<1>5. "agent_tasks" \in Tables /\ Exists(tables, "agent_tasks")
  BY <1>3, <1>4, ScopedAreTables DEF Forced, Exists
<1>6. "agent_tasks" \in TablesOf(version)
  BY <1>5 DEF SchemaInv, VersionInv, VersionMatchesTables
<1>7. version \in {0, 1, 2}
  <2>1. version \in Revisions
    BY DEF SchemaInv, TypeOK
  <2>2. Revisions = {0, 1, 2}
    BY DEF Revisions
  <2> QED
    BY <2>1, <2>2
<1> QED
  BY <1>6, <1>7, TablesOfRevisions DEF LatestRevision

\* Only a commit completes a Job.
LEMMA JobCompletes ==
    ASSUME DeploymentInv, [Next]_vars, \A m \in Operators : target[m] = LatestRevision,
           NEW j \in Jobs, pc'[j] = "complete", pc[j] # "complete"
    PROVE  version' = LatestRevision
<1>1. AllUpward
  BY DEF AllUpward, Migrators, DeploymentInv, UpwardInv
<1>2. j \in Migrators /\ pc \in [Migrators -> {"idle", "running", "complete", "failed"}]
  BY DEF Migrators, DeploymentInv, SchemaInv, TypeOK
<1>3. CASE \E m \in Migrators : BeginMigration(m) \/ Execute(m) \/ Stamp(m)
  BY <1>2, <1>3 DEF BeginMigration, Execute, Stamp
<1>4. CASE \E m \in Migrators : Commits(m) /\ Rest({m}) /\ target' = target
  BY <1>1, <1>4, CommitUpward DEF DeploymentInv
<1>5. CASE \E ms : Rest(ms) /\ (\A n \in Migrators : n \in ms => pc'[n] # "complete")
                   /\ UNCHANGED <<tables, version, target>>
  BY <1>2, <1>5 DEF Rest
<1>6. CASE UNCHANGED <<tables, version, pc, target, script, draft, stamped, locks>>
  BY <1>6
<1> QED
  BY <1>3, <1>4, <1>5, <1>6, StepsOnSchema DEF SchemaStep, DeploymentInv, SchemaInv

\* Only the count says "enforced".
LEMMA EnforcedIsCounted ==
    ASSUME DeploymentInv, [Next]_vars, report'.rls = "enforced", report' # report
    PROVE  version = LatestRevision /\ UNCHANGED <<tables, version>>
<1>t. report \in [auth: {"none", "enabled", "open mode"},
                  background: {"none", "celery", "inline"},
                  database: {"none", "ok", "unavailable"},
                  rls: {"none", "not applicable", "enforced", "incomplete", "unknown"}]
  BY DEF DeploymentInv, SchemaInv, TypeOK
<1>h. probe # "idle" => report.rls = "none"
  BY DEF DeploymentInv, HealthInv
<1>1. CASE StopProcess \/ BeginHealth \/ SelectOne \/ HealthRaises
  <2>1. StopProcess => report'.rls # "enforced"
    BY DEF StopProcess, NoReport
  <2>2. BeginHealth => report'.rls # "enforced"
    BY DEF BeginHealth, Answers, NoReport
  <2>3. SelectOne => report'.rls # "enforced"
    BY <1>t, <1>h DEF SelectOne
  <2>4. HealthRaises => report'.rls # "enforced"
    BY <1>t DEF HealthRaises, Answers
  <2> QED
    BY <1>1, <2>1, <2>2, <2>3, <2>4
<1>2. CASE CountForced
  <2>1. Cardinality(Forced) = Cardinality(TENANT_SCOPED_TABLES)
    BY <1>2, <1>t DEF CountForced, Answers
  <2> QED
    BY <1>2, <2>1, CountIsRight DEF DeploymentInv, CountForced, database
<1>3. StartProcess \/ UNCHANGED vars => report' = report
  BY DEF StartProcess, vars, application
<1>4. ASSUME NEW m \in Migrators, Begin(m) \/ Settle(m) \/ MigrationFails(m) \/ CommitReplyLost(m)
      PROVE  report' = report
  BY <1>4 DEF Begin, Settle, BeginMigration, CannotConnect, Execute, Refused, Stamp,
     CommitMigration, MigrationFails, CommitReplyLost, application
<1>5. Outage \/ Recover => report' = report
  BY DEF Outage, Recover, application
<1> QED
  BY <1>1, <1>2, <1>3, <1>4, <1>5 DEF Next, Health

(***************************************************************************)
(* "enforced" is never said, and no Job counts as complete, before the     *)
(* isolation of all six tables is in place.                                *)
(***************************************************************************)
THEOREM AllClearIsTrue == Spec => NoFalseAllClear
<1>1. DeploymentInv /\ DeploymentInv' /\ [Next]_vars
      => [AllClear => version' = LatestRevision /\ \A t \in TENANT_SCOPED_TABLES : tables'[t] = Protected]_vars
  <2> SUFFICES ASSUME DeploymentInv, DeploymentInv', [Next]_vars, AllClear
               PROVE  version' = LatestRevision /\ \A t \in TENANT_SCOPED_TABLES : tables'[t] = Protected
    OBVIOUS
  <2>1. version' = LatestRevision
    BY EnforcedIsCounted, JobCompletes DEF AllClear
  <2>2. SchemaInv'
    BY DEF DeploymentInv
  <2>3. (SchemaInv /\ version = LatestRevision => \A t \in TENANT_SCOPED_TABLES : tables[t] = Protected)'
    BY LatestIsWhole, PTL
  <2> QED
    BY <2>1, <2>2, <2>3 DEF LatestRevision
<1> QED
  BY <1>1, DeploymentInvariant, PTL DEF Spec, NoFalseAllClear

LEMMA NeedsAreTables == \A e \in Endpoints : Needs(e) \subseteq Tables
  BY DEF Endpoints, Accounts, Lists, Needs, Tables, TENANT_SCOPED_TABLES

\* Without a database no endpoint gets as far as its session.
LEMMA GuardsAreThere ==
    ASSUME settings \in Settings, ~ auth_enabled(settings), NEW e \in Endpoints
    PROVE  Guard(e) \notin {"none", "error"}
<1>1. ~ background_enabled(settings)
  BY DEF auth_enabled, background_enabled
<1>2. e \in Accounts \union Lists \union {"tools", "chat", "background chat", "me", "create user", "task"}
  BY DEF Endpoints, Accounts, Lists
<1>3. CASE e = "background chat"
  BY <1>1, <1>3 DEF Guard
<1>4. CASE e # "background chat"
  BY <1>2, <1>4 DEF Guard, Accounts, Lists
<1> QED
  BY <1>3, <1>4

LEMMA ChatNeedsABroker ==
    ASSUME ~ background_enabled(settings), NEW e, e = "background chat"
    PROVE  Guard(e) \in {"unavailable"}
  BY DEF Guard, Accounts, Lists

(***************************************************************************)
(* Every endpoint answers: without a database, for whatever settings let a *)
(* process start; and with one, as soon as a Job is complete and nobody    *)
(* was asked for an older revision.                                        *)
(***************************************************************************)
THEOREM BothModesServe == Spec => []EveryModeServes
<1>1. DeploymentInv => EveryModeServes
  <2> SUFFICES ASSUME DeploymentInv, process = "serving"
               PROVE  /\ ~ auth_enabled(settings) => \A e \in Endpoints : Answer(e) # "error"
                      /\ /\ dbUp /\ \E j \in Jobs : pc[j] = "complete"
                         /\ \A m \in Operators : target[m] = LatestRevision
                         => \A e \in Endpoints : Answer(e) # "error"
                      /\ report.background = "inline" => Answer("background chat") = "unavailable"
                      /\ report.background = "celery" => Answer("background chat") # "unavailable"
    BY DEF EveryModeServes
  <2>1. settings \in Settings /\ HealthInv
    BY DEF DeploymentInv, SchemaInv, TypeOK
  <2>2. ~ auth_enabled(settings) => ~ background_enabled(settings)
    BY <2>1 DEF auth_enabled, background_enabled
  <2>3. ASSUME ~ auth_enabled(settings), NEW e \in Endpoints PROVE Answer(e) # "error"
    BY <2>1, <2>3, GuardsAreThere DEF Answer
  <2>4. ASSUME dbUp, \E j \in Jobs : pc[j] = "complete",
               \A m \in Operators : target[m] = LatestRevision, NEW e \in Endpoints
        PROVE  Answer(e) # "error"
    <3>1. AllUpward
      BY <2>4 DEF AllUpward, Migrators, DeploymentInv, UpwardInv
    <3>2. version = 2
      BY <2>4, <3>1 DEF DeploymentInv, UpwardInv, LatestRevision
    <3>3. \A t \in Tables : Exists(tables, t)
      BY <3>2, TablesOfRevisions DEF DeploymentInv, SchemaInv, VersionInv, VersionMatchesTables
    <3>4. \A t \in Needs(e) : Exists(tables, t)
      BY <3>3, NeedsAreTables
    <3> QED
      BY <2>3, <2>4, <3>4 DEF Answer, Guard
  <2>5. ASSUME report.background = "inline" PROVE Answer("background chat") = "unavailable"
    <3>1. ~ background_enabled(settings)
      BY <2>1, <2>5 DEF HealthInv
    <3>2. Guard("background chat") = "unavailable"
      BY <3>1, ChatNeedsABroker
    <3> QED
      BY <3>2 DEF Answer
  <2>6. report.background = "celery" => Answer("background chat") # "unavailable"
    <3>1. background_enabled(settings) => auth_enabled(settings)
      BY <2>2
    <3> QED
      BY <2>1, <3>1 DEF HealthInv, Answer, Guard
  <2> QED
    BY <2>3, <2>4, <2>5, <2>6
<1> QED
  BY <1>1, DeploymentInvariant, PTL

===============================================================================
