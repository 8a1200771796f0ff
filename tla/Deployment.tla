------------------------------ MODULE Deployment ------------------------------
(***************************************************************************)
(* How a release comes up: the migrations (alembic/), applied by a Job or  *)
(* by an operator; the checks that let a process start (config.py 41-66,   *)
(* main.py 39-57); and what it then says of itself at /health, and answers *)
(* at its other endpoints, with and without a database.                    *)
(*                                                                         *)
(* PostgreSQL runs DDL in transactions and env.py opens one around all the *)
(* revisions of a command.  A statement locks the tables it names; another *)
(* transaction's statement on one of them waits.                           *)
(***************************************************************************)
EXTENDS Naturals, Sequences, FiniteSets

CONSTANTS
    Jobs,           \* runs of k8s/migrate-job.yaml: alembic upgrade head
    Operators,      \* alembic commands given by hand, to any revision
    BackoffLimit,   \* how often a Job starts a new pod after one that failed
    MaxFaults

ASSUME MigratorsAssumption == Jobs \intersect Operators = {}
ASSUME BoundsAssumption == BackoffLimit \in Nat /\ MaxFaults \in Nat

Migrators == Jobs \union Operators

-----------------------------------------------------------------------------
(* The schema *)

TENANT_SCOPED_TABLES == {"users", "tool_invocations", "conversations", "messages",
                         "audit_events", "agent_tasks"}

Tables == TENANT_SCOPED_TABLES \union {"tenants"}

\* The foreign keys of a table.
References(t) ==
    CASE t = "tenants" -> {}
      [] t = "conversations" -> {"tenants", "users"}
      [] t = "messages" -> {"tenants", "conversations"}
      [] OTHER -> {"tenants"}

\* What the catalogue says of a table: nothing if it does not exist.
Absent == {}
Open == {"exists"}
Protected == {"exists", "enabled", "forced", "policy"}
Marks == Protected

\* A statement, or the three of one table, and what it makes of the table.
Create(t) == [op |-> "create", table |-> t, leaves |-> Open]
Protect(t) == [op |-> "protect", table |-> t, leaves |-> Protected]
Expose(t) == [op |-> "expose", table |-> t, leaves |-> Open]
Drop(t) == [op |-> "drop", table |-> t, leaves |-> Absent]

Statements == {Create(t) : t \in Tables} \union {Protect(t) : t \in Tables}
              \union {Expose(t) : t \in Tables} \union {Drop(t) : t \in Tables}

\* A slip: ENABLE without FORCE, which exempts the owner.
ProtectFromOthers(t) == [op |-> "protect", table |-> t, leaves |-> Protected \ {"forced"}]

\* upgrade() and downgrade() of the two revisions.
Upgrade1 ==
    <<Create("tenants"), Create("users"), Create("tool_invocations"),
      Create("conversations"), Create("messages"), Create("audit_events"),
      Protect("users"), Protect("tool_invocations"), Protect("conversations"),
      Protect("messages"), Protect("audit_events")>>

\* A slip: a table is dropped while another refers to it.
DowngradeOutOfOrder ==
    <<Expose("users"), Expose("tool_invocations"), Expose("conversations"),
      Expose("messages"), Expose("audit_events"),
      Drop("audit_events"), Drop("conversations"), Drop("messages"),
      Drop("tool_invocations"), Drop("users"), Drop("tenants")>>

Downgrade1 ==
    <<Expose("users"), Expose("tool_invocations"), Expose("conversations"),
      Expose("messages"), Expose("audit_events"),
      Drop("audit_events"), Drop("messages"), Drop("tool_invocations"),
      Drop("conversations"), Drop("users"), Drop("tenants")>>

\* Slips: a table that is only half protected, a downgrade that leaves its table.
UpgradeUnforced == <<Create("agent_tasks"), ProtectFromOthers("agent_tasks")>>
DowngradeKeepsTable == <<Expose("agent_tasks")>>

Upgrade2 == <<Create("agent_tasks"), Protect("agent_tasks")>>
Downgrade2 == <<Expose("agent_tasks"), Drop("agent_tasks")>>

Revisions == 0 .. 2
LatestRevision == 2

\* What alembic runs next on the way from revision v to revision to.
NextScript(v, to) ==
    CASE v < to -> IF v = 0 THEN Upgrade1 ELSE Upgrade2
      [] v > to -> IF v = 1 THEN Downgrade1 ELSE Downgrade2
      [] OTHER -> <<>>

Toward(v, to) == IF v < to THEN v + 1 ELSE v - 1

-----------------------------------------------------------------------------
(* The settings *)

Secrets == {[default |-> TRUE, length |-> 30], [default |-> FALSE, length |-> 31],
            [default |-> FALSE, length |-> 32]}

Settings == [local: BOOLEAN, database: BOOLEAN, allowOpen: BOOLEAN, broker: BOOLEAN, secret: Secrets]

auth_enabled(c) == c.database

background_enabled(c) == c.broker /\ c.database

\* A slip: any request for open mode is granted.
OpenModeAnywhere(c) ==
    (IF ~ c.database /\ ~ c.allowOpen THEN {"no database"} ELSE {})
    \union (IF ~ c.local /\ c.secret.length < 32 THEN {"weak secret"} ELSE {})

validate_for_environment(c) ==
    (IF ~ c.database /\ ~ c.allowOpen THEN {"no database"} ELSE {})
    \union (IF ~ c.database /\ c.allowOpen /\ ~ c.local THEN {"open mode"} ELSE {})
    \union (IF ~ c.local /\ (c.secret.default \/ c.secret.length < 32) THEN {"weak secret"} ELSE {})

-----------------------------------------------------------------------------

VARIABLES
    tables, version,    \* the committed catalogue, and alembic_version
    dbUp,
    pc,                 \* where each migrator is
    target,             \* the revision it was asked for
    attempts,
    script,             \* statements left of the revision it is at
    draft, stamped,     \* catalogue and version as its transaction leaves them
    locks,
    settings, process,  \* the application process
    probe, report,      \* a request to /health, and the last answer
    faults

transactions == <<script, draft, stamped, locks>>
application == <<settings, process, probe, report>>
vars == <<tables, version, dbUp, pc, target, attempts, transactions, application, faults>>

Catalogues == [Tables -> SUBSET Marks]
VersionTable == "alembic_version"
NoReport == [auth |-> "none", background |-> "none", database |-> "none", rls |-> "none"]

TypeOK ==
    /\ tables \in Catalogues
    /\ version \in Revisions
    /\ dbUp \in BOOLEAN
    /\ pc \in [Migrators -> {"idle", "running", "complete", "failed"}]
    /\ target \in [Migrators -> Revisions]
    /\ attempts \in [Migrators -> 0 .. BackoffLimit]
    /\ script \in [Migrators -> Seq(Statements)]
    /\ draft \in [Migrators -> Catalogues]
    /\ stamped \in [Migrators -> Revisions]
    /\ locks \in [Migrators -> SUBSET (Tables \union {VersionTable})]
    /\ settings \in Settings
    /\ process \in {"down", "refused", "serving"}
    /\ probe \in {"idle", "begun", "selected"}
    /\ report \in [auth: {"none", "enabled", "open mode"},
                   background: {"none", "celery", "inline"},
                   database: {"none", "ok", "unavailable"},
                   rls: {"none", "not applicable", "enforced", "incomplete", "unknown"}]
    /\ faults \in 0 .. MaxFaults

Bare == [t \in Tables |-> Absent]

Init ==
    /\ tables = Bare
    /\ version = 0
    /\ dbUp = TRUE
    /\ pc = [m \in Migrators |-> "idle"]
    /\ target \in {f \in [Migrators -> Revisions] : \A j \in Jobs : f[j] = LatestRevision}
    /\ attempts = [m \in Migrators |-> 0]
    /\ script = [m \in Migrators |-> <<>>]
    /\ draft = [m \in Migrators |-> Bare]
    /\ stamped = [m \in Migrators |-> 0]
    /\ locks = [m \in Migrators |-> {}]
    /\ settings \in Settings
    /\ process = "down"
    /\ probe = "idle"
    /\ report = NoReport
    /\ faults = 0

Fault == faults < MaxFaults /\ faults' = faults + 1

-----------------------------------------------------------------------------
(* alembic upgrade and downgrade *)

Exists(view, t) == "exists" \in view[t]

\* The catalogue as the transaction of m sees it: what it holds no lock on, others
\* may have changed.
View(m) == [t \in Tables |-> IF t \in locks[m] THEN draft[m][t] ELSE tables[t]]

Locked(s) ==
    IF s.op \in {"create", "drop"} THEN {s.table} \union References(s.table) ELSE {s.table}

Waits(m, names) == \E n \in Migrators \ {m} : locks[n] \intersect names # {}

\* PostgreSQL accepts the statement.
Accepted(s, view) ==
    CASE s.op = "create" -> ~ Exists(view, s.table) /\ \A t \in References(s.table) : Exists(view, t)
      [] s.op = "drop" ->
            /\ Exists(view, s.table)
            /\ \A t \in Tables : Exists(view, t) => s.table \notin References(t)
      [] s.op = "protect" -> Exists(view, s.table) /\ "policy" \notin view[s.table]
      [] OTHER -> Exists(view, s.table)

Effect(s, view) == [view EXCEPT ![s.table] = s.leaves]

\* The transactions of ms are over.
Release(ms) ==
    /\ locks' = [m \in Migrators |-> IF m \in ms THEN {} ELSE locks[m]]
    /\ script' = [m \in Migrators |-> IF m \in ms THEN <<>> ELSE script[m]]
    /\ draft' = [m \in Migrators |-> IF m \in ms THEN Bare ELSE draft[m]]
    /\ stamped' = [m \in Migrators |-> IF m \in ms THEN 0 ELSE stamped[m]]

\* A slip: restartPolicy Never and no backoffLimit.
NoRetries(m) == 0

RetryLimit(m) == IF m \in Jobs THEN BackoffLimit ELSE 0

Retried(m) == attempts[m] < RetryLimit(m)

\* The pods of ms fail and their transactions are rolled back.
Fail(ms) ==
    /\ Release(ms)
    /\ pc' = [m \in Migrators |->
                IF m \notin ms THEN pc[m] ELSE IF Retried(m) THEN "idle" ELSE "failed"]
    /\ attempts' = [m \in Migrators |-> IF m \in ms /\ Retried(m) THEN attempts[m] + 1 ELSE attempts[m]]

\* The command reads where the database is.
BeginMigration(m) ==
    /\ pc[m] = "idle"
    /\ dbUp
    /\ pc' = [pc EXCEPT ![m] = "running"]
    /\ script' = [script EXCEPT ![m] = NextScript(version, target[m])]
    /\ stamped' = [stamped EXCEPT ![m] = version]
    /\ UNCHANGED <<tables, version, dbUp, target, attempts, draft, locks, application, faults>>

CannotConnect(m) ==
    /\ pc[m] = "idle"
    /\ ~ dbUp
    /\ Fail({m})
    /\ UNCHANGED <<tables, version, dbUp, target, application, faults>>

\* m has its turn at the next statement of its script.
AtStatement(m) ==
    pc[m] = "running" /\ script[m] # <<>> /\ ~ Waits(m, Locked(Head(script[m])))

Execute(m) ==
    LET s == Head(script[m]) IN
    /\ AtStatement(m)
    /\ Accepted(s, View(m))
    /\ draft' = [draft EXCEPT ![m] = Effect(s, View(m))]
    /\ locks' = [locks EXCEPT ![m] = @ \union Locked(s)]
    /\ script' = [script EXCEPT ![m] = Tail(@)]
    /\ UNCHANGED <<tables, version, dbUp, pc, target, attempts, stamped, application, faults>>

AtStamp(m) ==
    pc[m] = "running" /\ script[m] = <<>> /\ stamped[m] # target[m] /\ ~ Waits(m, {VersionTable})

VersionSeen(m) == IF VersionTable \in locks[m] THEN stamped[m] ELSE version

\* The row of alembic_version must still say what the command read; then the next
\* revision's functions run.
Stamp(m) ==
    LET next == Toward(stamped[m], target[m]) IN
    /\ AtStamp(m)
    /\ VersionSeen(m) = stamped[m]
    /\ stamped' = [stamped EXCEPT ![m] = next]
    /\ script' = [script EXCEPT ![m] = NextScript(next, target[m])]
    /\ locks' = [locks EXCEPT ![m] = @ \union {VersionTable}]
    /\ UNCHANGED <<tables, version, dbUp, pc, target, attempts, draft, application, faults>>

\* The other migrator was faster: its tables do not fit the statement, or alembic's own
\* check of the version fails.
Outrun(m) ==
    \/ AtStatement(m) /\ ~ Accepted(Head(script[m]), View(m))
    \/ AtStamp(m) /\ VersionSeen(m) # stamped[m]

Refused(m) ==
    /\ Outrun(m)
    /\ Fail({m})
    /\ UNCHANGED <<tables, version, dbUp, target, application, faults>>

Commits(m) ==
    /\ pc[m] = "running" /\ script[m] = <<>> /\ stamped[m] = target[m]
    /\ tables' = View(m)
    /\ version' = VersionSeen(m)

CommitMigration(m) ==
    /\ Commits(m)
    /\ Release({m})
    /\ pc' = [pc EXCEPT ![m] = "complete"]
    /\ UNCHANGED <<dbUp, target, attempts, application, faults>>

\* A statement fails, or the pod is killed.
MigrationFails(m) ==
    /\ Fault
    /\ pc[m] = "running"
    /\ Fail({m})
    /\ UNCHANGED <<tables, version, dbUp, target, application>>

\* The commit was made, but the pod never heard of it.
CommitReplyLost(m) ==
    /\ Fault
    /\ Commits(m)
    /\ Fail({m})
    /\ UNCHANGED <<dbUp, target, application>>

-----------------------------------------------------------------------------
(* The database goes away, with every open transaction, and comes back. *)

Outage ==
    /\ Fault
    /\ dbUp
    /\ dbUp' = FALSE
    /\ Fail({m \in Migrators : pc[m] = "running"})
    /\ UNCHANGED <<tables, version, target, application>>

Recover ==
    /\ ~ dbUp
    /\ dbUp' = TRUE
    /\ UNCHANGED <<tables, version, pc, target, attempts, transactions, application, faults>>

-----------------------------------------------------------------------------
(* The application *)

database == <<tables, version, dbUp, pc, target, attempts, transactions>>

\* lifespan
StartProcess ==
    /\ process = "down"
    /\ process' = IF validate_for_environment(settings) = {} THEN "serving" ELSE "refused"
    /\ UNCHANGED <<database, settings, probe, report, faults>>

StopProcess ==
    /\ process = "serving"
    /\ process' = "down"
    /\ probe' = "idle"
    /\ report' = NoReport
    /\ UNCHANGED <<database, settings, faults>>

Answers(body) == report' = body /\ probe' = "idle"

\* The part of the answer made of settings; open mode has no other.
BeginHealth ==
    LET body == [NoReport EXCEPT
            !.auth = IF auth_enabled(settings) THEN "enabled" ELSE "open mode",
            !.background = IF background_enabled(settings) THEN "celery" ELSE "inline"]
    IN
    /\ process = "serving"
    /\ probe = "idle"
    /\ IF auth_enabled(settings) THEN report' = body /\ probe' = "begun"
       ELSE Answers([body EXCEPT !.rls = "not applicable"])
    /\ UNCHANGED <<database, settings, process, faults>>

\* SELECT 1
SelectOne ==
    /\ probe = "begun"
    /\ dbUp
    /\ probe' = "selected"
    /\ report' = [report EXCEPT !.database = "ok"]
    /\ UNCHANGED <<database, settings, process, faults>>

Forced == {t \in TENANT_SCOPED_TABLES : {"exists", "enabled", "forced"} \subseteq tables[t]}

\* A slip: the five tables of the first revision are all that is counted.
CountFirstRevision ==
    /\ probe = "selected"
    /\ dbUp
    /\ Answers([report EXCEPT !.rls =
            IF Cardinality(Forced \ {"agent_tasks"}) = Cardinality(TENANT_SCOPED_TABLES) - 1 THEN "enforced" ELSE "incomplete"])
    /\ UNCHANGED <<database, settings, process, faults>>

CountForced ==
    /\ probe = "selected"
    /\ dbUp
    /\ Answers([report EXCEPT !.rls =
            IF Cardinality(Forced) = Cardinality(TENANT_SCOPED_TABLES) THEN "enforced" ELSE "incomplete"])
    /\ UNCHANGED <<database, settings, process, faults>>

HealthRaises ==
    /\ probe \in {"begun", "selected"}
    /\ ~ dbUp
    /\ Answers([report EXCEPT !.database = "unavailable", !.rls = "unknown"])
    /\ UNCHANGED <<database, settings, process, faults>>

Endpoints == {"tools", "chat", "background chat", "task", "tasks", "invocations", "conversations",
              "messages", "audit", "graphql", "tenants", "token", "refresh", "me", "create user"}

\* Endpoints that ask for a database, and those that ask for a session.
Accounts == {"tenants", "token", "refresh"}

\* A slip: one endpoint uses its session without asking whether there is one.
ListsButMessages == {"tasks", "invocations", "conversations", "audit", "graphql"}

Lists == {"tasks", "invocations", "conversations", "messages", "audit", "graphql"}

\* The tables an endpoint uses in a session; finding the caller is part of it.
Needs(e) ==
    CASE e = "tools" -> {"users", "tool_invocations"}
      [] e = "chat" -> {"users", "conversations", "messages", "audit_events"}
      [] e = "background chat" -> {"users", "agent_tasks", "audit_events"}
      [] e = "tenants" -> {"tenants", "users"}
      [] e = "token" -> {"tenants", "users", "audit_events"}
      [] e \in {"refresh", "me"} -> {"users"}
      [] e \in {"task", "tasks"} -> {"users", "agent_tasks"}
      [] e = "invocations" -> {"users", "tool_invocations"}
      [] e = "conversations" -> {"users", "conversations"}
      [] e = "messages" -> {"users", "conversations", "messages"}
      [] e = "graphql" -> TENANT_SCOPED_TABLES
      [] OTHER -> {"users", "audit_events"}       \* audit, create user

\* What an endpoint's own guard answers before it uses a session; "none" if it goes on.
\* Without a database get_session yields None, and the caller is in open mode.
Guard(e) ==
    CASE e = "background chat" -> IF background_enabled(settings) THEN "none" ELSE "unavailable"
      [] e \in Accounts /\ ~ auth_enabled(settings) -> "unavailable"              \* require_database
      [] e \in Lists /\ ~ auth_enabled(settings) -> "empty"
      [] e \in {"me", "task"} /\ ~ auth_enabled(settings) -> "not found"
      [] e = "create user" /\ ~ auth_enabled(settings) -> "conflict"
      [] e \in {"tools", "chat"} /\ ~ auth_enabled(settings) -> "unrecorded"      \* Recorder.active
      [] OTHER -> "none"

\* What a caller with every right, and a model key, gets of an endpoint now.
Answer(e) ==
    IF Guard(e) # "none" THEN Guard(e)
    ELSE IF auth_enabled(settings) /\ dbUp /\ \A t \in Needs(e) : Exists(tables, t) THEN "ok"
    ELSE "error"

-----------------------------------------------------------------------------

Settle(m) ==
    \/ Execute(m) \/ Stamp(m) \/ Refused(m) \/ CommitMigration(m)

Begin(m) == BeginMigration(m) \/ CannotConnect(m)

Health == BeginHealth \/ SelectOne \/ CountForced \/ HealthRaises

Next ==
    \/ \E m \in Migrators : Begin(m) \/ Settle(m) \/ MigrationFails(m) \/ CommitReplyLost(m)
    \/ Outage \/ Recover
    \/ StartProcess \/ StopProcess \/ Health

Spec == Init /\ [][Next]_vars

(***************************************************************************)
(* Kubernetes starts the pods of a Job, and statements that need not wait  *)
(* return.  Nobody has to give a command by hand.                          *)
(***************************************************************************)
Fairness ==
    /\ \A m \in Jobs : WF_vars(Begin(m))
    /\ \A m \in Migrators : WF_vars(Settle(m))
FairSpec == Spec /\ Fairness

-----------------------------------------------------------------------------
(* Properties *)

TablesOf(r) == IF r = 0 THEN {} ELSE IF r = 1 THEN Tables \ {"agent_tasks"} ELSE Tables

(***************************************************************************)
(* A tenant's table is never to be seen without its policy enabled and     *)
(* forced on it: not between the statements of a migration, nor after one  *)
(* that failed or lost a race (0001_tenancy.py 118-127, 0002_agent_tasks.py *)
(* 44-52; k8s/migrate-job.yaml 6-7).                                       *)
(***************************************************************************)
TablesComeProtected ==
    \A t \in TENANT_SCOPED_TABLES : tables[t] \in {Absent, Protected}

(***************************************************************************)
(* alembic_version tells the truth: the tables that exist are those of the *)
(* revision it names, whatever commands raced or failed (env.py 43-44).    *)
(***************************************************************************)
VersionMatchesTables ==
    {t \in Tables : Exists(tables, t)} = TablesOf(version)

(***************************************************************************)
(* A command is refused only if another has committed since it read the    *)
(* version.  Otherwise, up or down, every statement finds the tables it    *)
(* refers to, and no table is dropped before those that refer to it        *)
(* (0001_tenancy.py 130-143, 0002_agent_tasks.py 55-59).                   *)
(***************************************************************************)
RefusedOnlyWhenOvertaken ==
    \A m \in Migrators : Outrun(m) => VersionSeen(m) # stamped[m]

(***************************************************************************)
(* Nobody is told that isolation is in place when it is not: when /health  *)
(* answers "enforced", or a Job completes while nobody works towards an    *)
(* older revision, the schema is the latest and all six tables are         *)
(* protected, although there are two lists of tables in the migrations and *)
(* a third is counted (models.py 214-219; main.py 153-165;                 *)
(* k8s/migrate-job.yaml 2-7).                                              *)
(***************************************************************************)
AllClear ==
    \/ report'.rls = "enforced" /\ report' # report
    \/ /\ \A m \in Operators : target[m] = LatestRevision
       /\ \E j \in Jobs : pc'[j] = "complete" /\ pc[j] # "complete"

NoFalseAllClear ==
    [][AllClear => version' = LatestRevision /\ \A t \in TENANT_SCOPED_TABLES : tables'[t] = Protected]_vars

(***************************************************************************)
(* "A missing DATABASE_URL on its own is treated as a mistake, never as a  *)
(* request to switch authentication off" (config.py 19-20): who serves     *)
(* without accounts was asked to and is local, and who is not local has a  *)
(* secret of its own and reports so.                                       *)
(***************************************************************************)
NeverOpenByAccident ==
    process = "serving" =>
        /\ ~ auth_enabled(settings) => settings.local /\ settings.allowOpen
        /\ ~ settings.local => settings.secret = [default |-> FALSE, length |-> 32]
        /\ report.auth = "open mode" => ~ settings.database
        /\ report.rls = "not applicable" => settings.local

(***************************************************************************)
(* Every endpoint answers in both modes: without a database because each   *)
(* has a guard before it uses its session, with one as soon as a Job is    *)
(* complete; and /health calls background execution Celery exactly where   *)
(* a background chat is not refused (main.py 133-143, 261-270, 358-451,    *)
(* graphql_api.py 93-173, auth.py 31-37, 146-166; k8s/migrate-job.yaml 2). *)
(***************************************************************************)
EveryModeServes ==
    process = "serving" =>
        /\ ~ auth_enabled(settings) => \A e \in Endpoints : Answer(e) # "error"
        /\ /\ dbUp /\ \E j \in Jobs : pc[j] = "complete"
           /\ \A m \in Operators : target[m] = LatestRevision
           => \A e \in Endpoints : Answer(e) # "error"
        /\ report.background = "inline" => Answer("background chat") = "unavailable"
        /\ report.background = "celery" => Answer("background chat") # "unavailable"

(***************************************************************************)
(* With as many faults as a Job may start again after, and a database that *)
(* does not go away, the schema gets to the latest revision, whoever takes *)
(* it there (k8s/migrate-job.yaml 14).                                     *)
(***************************************************************************)
MigrationsGetDone ==
    [](dbUp /\ \A m \in Operators : target[m] = LatestRevision) => <>(version = LatestRevision)

===============================================================================
