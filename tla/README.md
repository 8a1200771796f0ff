# Network-operations agent platform: formal models

The platform is a FastAPI service, multi-tenant over PostgreSQL, that answers
network-operations questions: tool endpoints over a topology graph and small
neural networks, a chat with a language-model agent, and background chat runs
executed by Celery workers. This directory holds TLA+ models of it, TLC
configurations that check them on small instances, and TLAPS proofs.

Run a check with `tlc -config <cfg> <MC module>`, a proof with
`tlapm <module>Proofs.tla`. `PROJECT.json` lists the runs, says which source
lines every definition stands for, which slip of the code each property
detects, and which hazards the properties are for.

## 1. The system

| Component | State it keeps | Operations |
|---|---|---|
| Background runs (`app/main.py` 261-300, `app/tasks.py`) | `agent_tasks.status`, conversations, audit events, broker messages, each worker's transaction | `POST /chat` with `background`, `run_agent` |
| Tenant isolation (`app/db.py`, `app/deps.py` 62-79, `alembic/versions`) | `session.info`, the pooled connections and their `app.tenant_id`, the tenant tables | open a session, begin, scope, read, write, commit, roll back |
| Requests and recording (`app/main.py`, `app/deps.py` 126-170) | the request's transaction, the pool, audit and invocation records | inline `/chat`, `/tools/*`, history endpoints |
| Accounts and tokens (`app/routers/auth.py`, `app/security.py`) | tenants, users, tokens | create tenant, log in, refresh, create user, authorise |
| Topology graph (`app/graph`) | nodes and edges | upsert, `downstream_impact`, in memory or in Neo4j |
| Tool functions (`app/agents/tools.py`) | the process-wide graph and model | lazy load, the three tools |
| Configuration and health (`app/config.py`, `app/main.py` 39-57, 126-173) | settings, the process, the last report | refuse to start, report, answer with and without a database |
| Migrations (`alembic`, `k8s/migrate-job.yaml`) | the schema, `alembic_version`, each command's transaction | upgrade, downgrade, retry |
| Prompt guard (`app/guard.py`) | none | `inspect_input`, `neutralise` |
| GraphQL (`app/graphql_api.py`) | none of its own | the history endpoints again, in one request |
| Agents, neural networks, deployment | configuration, weights | |

How they interact: a request resolves its token to a tenant, opens a session
scoped to it, reads its principal's row, and runs its handler over the same
session. The handler may commit in the middle. Background runs leave the request through
a broker message that names a task and a tenant only; the worker reads the
prompt from the row, under the scope of the tenant the message names.
Row-level security is the only filter on what a session reads and writes.
The graph is shared by the endpoint threads of a process and by the agents.
Migrations run beside the processes that use the schema; `/health` tells
Kubernetes and its reader what has become of both.

What is hard here: the same message delivered twice or to two workers; a crash
between the claim of a run and its outcome; a message published before its
row is visible; transactions of several statements that fail in the middle;
a tenant setting that ends with each transaction while the session goes on;
connections that pass from tenant to tenant; a shared object that is
published before it is complete; replies sent before the commit; migrations that
race, fail halfway or are repeated after a commit nobody heard of.

For each component, what makes it correct:

- Background runs: the model is charged once per task whatever the broker
  does; row, conversation and audit events change together; a message under
  the wrong tenant does nothing; a run abandoned in the middle is not retried; an
  accepted task finishes unless something that ran it was lost.
- Tenant isolation: every transaction is scoped to the tenant its session
  acts for, on every connection and after every commit; no session sees or
  files another tenant's row, and none loses sight of its own.
- Requests: a refusal is on record although the request fails; a chat holds
  no connection while the model runs; what is recorded is recorded once.
- Accounts: a tenant is never without its administrator; roles and
  deactivation take effect at the next request.
- Deployment: a table is never there without its isolation, the version is that of
  the tables, and nobody is told otherwise; a process without accounts was asked
  for; every endpoint answers in both modes.
- Topology: a search returns exactly the towers within the given hops, once
  each, nearest first, from either backend; the shared graph ends up complete.

## 2. Modules

`BackgroundRuns` is the core. Its variables and the code's state:

| Variable | Code |
|---|---|
| `request` | where the `POST /chat` that makes the task is: row flushed, committed, message sent |
| `row` | `agent_tasks.status` as committed, `none` before the row exists |
| `conversations`, `audits` | committed records, counted per task and tenant |
| `calls` | how often `_run_agent_inline` was started with the task's prompt |
| `queue` | messages a worker may receive, counted per task and tenant |
| `wpc`, `job`, `outcome` | where a worker is in `run_agent`, its arguments, its local `status` |
| `tx` | statements its open transaction has executed |
| `held` | whether the broker still waits for the worker's acknowledgement |

Each statement of `run_agent` that touches the database or calls the model is
an action: `Receive`, `Claim` (the conditional UPDATE), `CommitClaim` or
`Skip`, `NoCredentials` or `CallModel` then `ModelReplies` or `ModelRaises`,
`InsertConversation`, `UpdateRow`, `InsertAudit`, `CommitOutcome`,
`Acknowledge`. The request is `Enqueue`, `CommitEnqueue`, `Dispatch`. What a
transaction has written is invisible until its commit, an UPDATE waits for the
transaction that holds the row, and row-level security makes an UPDATE under
another tenant match nothing (`Visible`). Faults are actions too, each kind
enabled by a member of `Faults`:

- `request`: the request's process dies, or its commit or `send_task` raises;
- `publish`: the publisher's retry puts the message in the queue twice;
- `misroute`: a message names an existing task and another tenant;
- `redeliver`: the broker gives up waiting and queues the message again while
  its worker is still busy;
- `database`: a statement raises, or the reply to a commit is lost; Celery
  acknowledges the task that raised;
- `child`: the pool process is killed and its parent acknowledges;
- `worker`: the whole worker is gone and the broker restores the message.

`faults` counts them and remembers their kinds, so that a property can say
which of them it takes.

`AgentTaskSpec` is what a run promises to whoever reads the database: pending,
running, one outcome, at most one charge, and the outcome together with its records.
`BackgroundRuns` implements it with `status <- row` and `charges <- calls`.

`TenantScope` has the sessions a handler works with (`kind`, `acts`, and
`bound` for `session.info["tenant_id"]`), their connections (`conn`), the
setting `app.tenant_id` of each connection inside and outside its transaction (`setting`,
`resting`), and the rows. `OpenRequest` is `get_session`,
`OpenUnscoped` and `Bind` are login and tenant creation, `OpenWorker` is
`_scope` of the worker, `Begin` is the `after_begin` hook on whichever
connection the pool gives, `Passes` is the policy with its `NULLIF`.
PostgreSQL leaves the empty string behind a setting made for one transaction; a fresh
connection has none at all, and the policy has to refuse both. A handler is any sequence
of `Read`, `Insert`, `Commit` and `Close`, so what is shown does not rest on what a
particular endpoint does. `TenantStore` is what the tables promise: one store per
tenant. `TenantScope` implements it with the variables of the same names.

`Requests` has the other requests of a process over its connection pool:
inline chats, tool endpoints, history endpoints, GraphQL queries and `/health`. `pc` says where a request
is, `holds` which requests have a connection, `pending` what its session has
added and not committed, `records` what it has committed, `reply` what its
client was told. `RejectToken` is `get_claims`, which needs no connection, `Open` is
`get_session` with its first statement, `Deny` and `Admit` are `get_principal` and `require_role`, `Refuse` and `CommitRefusal`
the guard, `Release` the commit of `main.py` 309, `FlushConversation` and `ReplyToChat` the writes
after the model, `RunTool` and `ReadHistory` the other endpoints. `ResolverRaises` is a
role check inside a resolver, whose error is part of a 200 reply, so the session
commits. `ReportHealth` has a session of its own, without a principal, and answers
when it fails as well. `FinalCommit` is the
commit of `get_session`, which comes after the reply: FastAPI leaves a
dependency that yields only once the response is sent (0.118 and later;
`requirements.txt` asks for 0.133). Statements and commits fail, a commit that
raises may have been made, waiting for a connection times out, and the process
dies.

`RequestSpec` is what a request promises, without pool, session or transaction: its
client is told one thing; a refusal is on record in the same step as the 400 is sent,
the work of an endpoint in one piece some time after the 200, or never; nobody else
leaves anything, except that a refusal whose commit was not confirmed may stand
under another error. `Requests` implements it with the variables of the same names.

`Accounts` has the tables `tenants` and `users`, the tokens that have not
expired, and a record per request with its step and locals. A row that its transaction has
not committed is in `uncommitted`: nobody else sees it, but unique constraints
do, so an insert waits for it. `InsertTenant`, `InsertAdmin`, `CommitTenant` are
`create_tenant`; `FindTenant`, `BlockLogin` or `AllowLogin`, `CommitBlocked` and
`RaiseBlocked`, or `CommitLogin` and `ReplyTokens` are `login`: its event is `pending` in
the session until a commit makes it `recorded`, the exception of a refusal rolls
back what is still pending, and any of these steps may fail (`LoginFails`). `Decode` and `Reissue` are `refresh`; `Decode`, `Authorise` and `Act`
are any endpoint behind `require_role`; `CreateUser`, `CommitUser` are
`create_user`. Operators demote, deactivate and close tenants between any two
statements. `standing` remembers the user's row at the moment a request arrived.

`DirectorySpec` is what the two tables promise to whoever reads them or signs in,
without requests and transactions: rows that name a tenant by its slug and a user by
tenant and email. A tenant comes with its administrator in one step, a user
comes to a tenant that is there and under an email that is free in it, operators lower roles and
close accounts and tenants, and nothing else happens: nobody disappears or is
renamed. `Accounts` implements it with the rows that are committed
(`TenantsSeen`, `UsersSeen`).

`Topology` defines graphs and, with paths, what depends on a tower.
`ImpactSearch` is `InMemoryGraph.downstream_impact`: `Visit` is the body of its
inner loop, `Expanded` the end of that loop, `EndHop` the end of an iteration of
the outer one. `GraphLoading` is the module variable `_graph` of `tools.py`
under several threads: `Call`, `Make`, `StartLoad`, `Upsert`, `LoadEnds` are
`_get_graph` and `load_topology` statement by statement, `Take` to `EndHop` a
search that other threads' upserts may overtake. A graph is known by how many
upserts of the topology file it has seen, because loading is idempotent.

`Relevance` computes which lists `rank_relevant_events` answers.

`Deployment` has the committed schema (`tables`: what the catalogue says of
each, and `version`), the migrators, which are Jobs of `k8s/migrate-job.yaml`
and commands given by hand, and an application process with its settings.
`Upgrade1` to `Downgrade2` are the statements of the two revisions in their
order, the three that protect a table as one; `env.py` 43-44 runs all of them in
one transaction. A migrator reads the version (`BeginMigration`), executes
statement by statement on the catalogue as its transaction sees it (`Execute`),
moves `alembic_version` after each revision (`Stamp`), is `Refused` where
somebody was faster, and commits. Alembic's own check of the version is part of
`Refused`, but the statements of a command that was outrun no longer fit the
tables, so it is never the first to fail. A statement locks the tables it names
and those its foreign keys refer to, and waits for other transactions that do.
Statements fail, pods die, the reply to a commit is lost, the database goes away
with all transactions; a Job starts a new pod as often as its `backoffLimit`
says. `StartProcess` is `lifespan` with `validate_for_environment`;
`BeginHealth`, `SelectOne`, `CountForced` and `HealthRaises` are `/health`
statement by statement. For each of the endpoints `Guard` says what it answers before it
uses its session, `Needs` which tables it uses then, and `Answer` what comes of both under
the settings and schema of the moment; an endpoint without a guard would be an error. The model begins with an empty database,
whose version row alembic has made; two commands that make it at once are left
out, as is the offline mode.

## 3. Runs

| Run | Shows | Bounds | States |
|---|---|---|---|
| `bg_safety` | all safety properties and the refinement of background runs; what it takes to strand an accepted task | 2 tasks of 2 tenants, 2 workers, any 3 faults of the 7 kinds | 908,465 |
| `bg_liveness` | an accepted task finishes | the same, 2 faults that duplicate or misroute messages | 150,523 |
| `bg_crash` | counterexample: a lost pool child loses an accepted task | 1 fault | |
| `tenant_scope` | isolation, scoping and the refinement | 2 tenants, 3 sessions, 2 connections | 329,709 |
| `requests` | the refinement of a request, outcomes on record, no connection kept, everybody served while models hang | 3 requests of any kind, 2 connections, 1 fault of 3 kinds | 194,121 |
| `requests_reply_race` | counterexample: the reply overtakes the commit | 1 request | |
| `accounts` | the refinement of the directory, logins unambiguous and on record, no stale privilege | 2 requests, 2 tenants and slugs, 3 users, 2 emails, 2 live tokens, 1 change by an operator | 396,716 |
| `impact_search` | the search against paths, and against the Neo4j query | all graphs of 4 towers, 0 to 3 hops | 109,616 |
| `graph_loading` | answers of two threads that load and search one graph; what leaves it incomplete; it ends complete | 2 threads, 3 towers, 3 edges, both backends, 1 failing load | 229,448 |
| `graph_race` | counterexample: an answer from a graph that is not loaded yet | 2 threads, in memory | |
| `relevance` | counterexample: an odd vocabulary is refused | 2 events, 3 words | |
| `deployment` | tables protected, version true, nobody refused but who was overtaken, no false all-clear, no accidental open mode, both modes answer, migrations get done | a Job and a command to any revision, 2 retries, 2 faults, all settings | 394,300 |

Why the bounds are enough. A charge or a record goes wrong when two deliveries
of one message meet, which takes two workers and one fault; three faults allow
a redelivery, a crash of the second worker and a third delivery in one
behaviour. Two tasks are there so that one may be confused with
the other and so that a message can name the other tenant. The scoping can go wrong
when a connection passes from one tenant to another while a third session, in
the middle of a login, has none: three sessions and two connections. The
proofs below make the safety results independent of these bounds.

A pool is contended when there are more requests than connections: three and
two. A stale privilege takes a token issued before a demotion and a request that
presents it afterwards; ambiguous logins take two concurrent creations. The
graphs of `impact_search` are all those of four towers without self-loops, and
those of up to four edges with a self-loop or an edge of another relation more:
every shape of cycle and diamond that three hops can tell apart. Threads call
again and again, so two of them reach every overwriting of the shared graph.
Two migrators are what it takes to race, one up and one down among them; two
faults allow a lost commit reply followed by an outage.

Deadlock is checked in `tenant_scope`, `graph_loading` and `accounts`, whose
sessions, threads and requests come and go. The other systems may stop: when
every task is finished and the queue empty, every request answered, the search
returned, or the process refused and every migration over, nothing has to
happen. That nobody waits for ever is there what the liveness properties say.

In `bg_liveness` fairness is assumed of workers and requests: a request that has begun goes on,
and a worker goes on with `run_agent`. This includes that the model answers or
raises; the code sets no time limit (`tasks.py` 141), so it is an assumption
about the model service. No request has to arrive and no fault has to happen.
The faults of this run are those that lose nothing: `bg_crash` shows
what one that loses the worker does. In `requests` statements return, and the pool
serves its waiters in turn (strong fairness, as its queue is first in, first
out); of the model nothing is assumed. In `graph_loading` every thread that has
begun a call goes on. The liveness properties of these two speak of behaviours
without failures. In `deployment` Kubernetes starts the pods of a Job, and every
migrator goes on as long as its next statement need not wait. An operator need not
give the command, the database need not come back, and a fault need not stay away:
`MigrationsGetDone` holds with as many faults as a Job has retries.

### Disagreements found

`tests/test_async_and_graphql.py` 281 says "Late acknowledgement means a
worker crash redelivers the message." That holds when the whole worker is lost. With
`task_reject_on_worker_lost=False` (`tasks.py` 43) a killed pool process is
acknowledged by its parent: if it had not claimed the row yet, the task stays
pending with no message left (`bg_crash`).

`tools.py` 35 promises "every tower that depends on the given tower".
`_get_graph` publishes the graph before it loads it, so during the first call
other threads answer 200 from an empty or partial graph (`graph_race`).

`tools.py` 70-71 promises to rank a list of event descriptions. The embedding is
as wide as the number of distinct words, which two attention heads must divide:
three words, or five, raise `ValueError` (`relevance`).

`tests/test_session_scope.py` 90-94 reads the history right after a chat's reply and
expects the conversation. The test's client waits for the whole application;
one over a network may be faster than the commit (`requests_reply_race`).

## 4. Proofs

`BackgroundRunsProofs` proves, for any tasks, tenants, workers, faults and
number of faults, the type invariant, `AtMostOneModelCall`, `SkipIsJustified`,
`NoAutomaticRetry`, `RecordsMatchRow`, `StrandedByLossOnly` and the
refinement of `AgentTaskSpec`. The assumptions are that every task has an owner
among the tenants, that the idle marker is not a message, and that `Faults`
holds kinds of fault. The properties are not inductive. `RunInv` adds who owns
a claimed task (`ExclusiveInv`: at most one worker is between the claim and the
outcome), what that worker may rely on (`ClaimInv`: the row is running and the
model was called as often as its step says), and what an open transaction
contains (`TransactionInv`). The refinement is proved from `RunInv`
step by step: `CommitEnqueue` is `Create`, `CommitClaim` is `Claim`, `CallModel`
is `Charge`, `CommitOutcome` is `Succeed` or `Fail`, and everything else
changes nothing the abstract run shows. That the records agree is then proved
about the abstract actions alone and carried over. `StrandedByLossOnly` says of an
accepted task that is still pending that its message waits or a worker has it. That
is not inductive: the worker may have a copy the broker has stopped waiting for, and
its loss leaves nothing. `LossInv` asks for a copy that the broker still owes, on the
queue or held for a worker: the claim needs the row pending, whoever finds it so and
goes away gives the copy back, and only an exception or a killed child gives
it up.

`TenantScopeProofs` proves `ScopeFollowsSession`, `IdleConnectionsUnscoped`,
`OwnRowsOnly` and the refinement of `TenantStore`, for any tenants, sessions
and connections, assuming only that the markers for "none" are no tenants. `ScopeInv`
adds that a connection has one holder, that no connection keeps a tenant outside a
transaction, that `session.info` agrees with the tenant acted for wherever the
hook reads it, and that uncommitted rows belong to their writer's tenant.

`RequestsProofs` proves the type invariant with the bound on the pool,
`OutcomesOnRecord`, `ConnectionsReturned` and the refinement of `RequestSpec`,
for any requests, pool and faults. `SessionInv` says for each
step whether the request holds a connection and exactly what its session has not
committed, `OutcomeInv` that nothing is committed or told before the last
steps. The pool's bound is proved apart, from the one way to take a connection.
For the refinement `CommitStores` says what a commit makes of the pending
records, `CommitRecords` that this is one of the abstract `Record`, `FailRefusing` or
nothing, `RaisingFails` that an exception is `Fail`; `StepImplements` takes every
action by these: `CommitRefusal` is `Refuse`, `FinalCommit` is `Record`, an answer is
`Answer`, and what happens inside a session is nothing to its client.
`RecordsAreWhole` has two consequences of the inductive invariant in the words of
`RequestSpec`: records are whole, and failed requests leave nothing but a refusal.

`AccountsProofs` proves the type invariant, `LoginIsUnambiguous`,
`NoStalePrivilege`, `LoginsOnRecord` and the refinement of `DirectorySpec`, for any
requests, tenants, users and bounds. None of the properties looks inside an open
transaction, so `AccountInv` adds what it holds: `InsertInv` (an uncommitted
tenant has at most the user its own request inserted), `OwnersInv` (two
transactions insert different rows), `UniqueInv` (the two unique constraints and
the foreign key; together they give `LoginIsUnambiguous`), `UserInv` (tokens and
identified requests are about committed rows, so an abandoned insert disturbs
none), `ReachableInv` (committed tenants have committed users, and the converse)
and `StandingInv`: until it is authorised, a request's user has at most
what its row granted on arrival, because roles only fall. `LoginsOnRecord` speaks of
answers; `RecordInv` says of each step of a login before its answer what its session has pending and what
it has committed, so that the commit is there when the rollback comes. There is one lemma per
action; the six that only end a request share `EndingStep`, the readers share
`RowsKept`. For the refinement `FreshInv` adds that a row nobody sees yet is as it was
inserted, since nobody can demote or close what is not committed; `InsertsUnseen`
and `AbandonUnseen` say that an open transaction shows nothing,
`CommitTenantFounds` and `CommitUserAdds` that a commit shows everything at once, and
`OperatorsChangeRows` that an update replaces one row of the directory, which takes that
no two are alike (`RowsDiffer`). `Reachable` is then proved of `DirectorySpec` alone.

`DeploymentProofs` proves, for any Jobs, commands, retries and faults, the type
invariant, `TablesComeProtected`, `VersionMatchesTables`, `RefusedOnlyWhenOvertaken`,
`NoFalseAllClear`, `NeverOpenByAccident` and `EveryModeServes`. The argument has five parts.
`ProtectionInv`: what a migration sees of a table is whole, or the rest of its
script makes it so (`Settles`; a script is `Clean` when every table it still
touches is settled by it), so nothing half-done is ever committed.
`VersionInv`: a migration without the lock on `tenants` has changed nothing and
still may be refused (`Waiting`); one with the lock sees exactly the tables of
the revision it read plus those its script has created or minus those it has
dropped (`Working`), and since every `CREATE TABLE` and `DROP TABLE` takes
that lock first, and fits only the tables of one revision, only one of those who read
the same version gets on. `OrderInv`: what is left of a script creates a table after
those it refers to, drops it after those that refer to it (`Ordered`), and what it has
yet to protect is as it created it (`Pending`); with the tables `VersionInv` knows of,
the next statement is accepted (`UpwardIsAccepted`, `DownwardIsAccepted`) unless somebody
has moved the version. `UpwardInv`: while nobody was asked for an older
revision the version only grows, to the latest by the time a Job is complete.
`HealthInv`: what has been reported so far is true of the settings.

`UpgradesTakeTurns` is about the locks. As long as every migrator goes to the latest
revision, whoever has locked anything has locked `tenants` (`TurnInv`): the
first statement of either revision takes that lock, and a migrator that has yet to
take it has its script before it (`WaitingUpward`). Two lock holders would
share it, so there is one, and its next statement waits for nobody. With downgrades among
three migrators a cycle of locks is possible: one that goes down from the first revision holds
`users` when it comes to want `tenants`, one that goes down from the second to the
bottom holds `tenants` when it comes to want `users`. PostgreSQL breaks such a cycle by
failing one of them, which is `MigrationFails`.

`TopologyProofs` has the lemmas about walks: one more step (`OneStepFurther`), what
lies within k hops (`WithinOneMore`), sets that no walk leaves
(`ClosedSetsKeepWalks`), and that Cypher's rule of following no edge twice changes
no answer (`TrailsAreEnough`). Where one would use induction they take a
least number instead. `ImpactSearchProofs` proves all four properties of the search
for any graph, start and number of hops: after h iterations `visited` is what
lies within h hops together with what is queued, all of it one hop further
(`SearchInv`). `GraphLoadingProofs` proves `NeverInvents` and `ExactWhenWhole` for
any threads, topology file and interleaving: a search expands only what the file
has within as many hops (`Sound`), and misses nothing when its graph was whole
(`Thorough`), which nothing takes away again. `LeftIncompleteByFailureOnly` follows
from `LoadInv`: a thread that makes a graph loads whatever is shared when it begins, so
an incomplete graph that another has replaced is replaced by one that has a loader, and
a loader's own count never passes that of its graph (`CountsInv`), so it does not
stop early.

Only model-checked: the liveness properties `AcceptedFinishes`,
`ServedWhileModelsHang`, `SettlesComplete` and `MigrationsGetDone`, because liveness under fairness is beyond the prover, and the
counterexamples. Every invariant and action property of the passing runs has
its theorem. Each liveness property rests on a fact of safety that is proved, namely
that whoever waits is waited for by somebody who can go on, and TLC supplies the fairness:

| Liveness, by TLC | What it rests on, proved |
|---|---|
| `AcceptedFinishes` | `StrandedByLossOnly`: the message is there or somebody has it |
| `ServedWhileModelsHang` | `ConnectionsReturned`: who waits for a connection, or for a model, holds none |
| `SettlesComplete` | `LeftIncompleteByFailureOnly`: an incomplete graph has a loader |
| `MigrationsGetDone` | `HoldersGoOn`: who holds a lock need not wait (all migrators upward) |

That what a 200 reports gets on record in the end, when nothing fails, is not a property of
its own: `ServedWhileModelsHang` says that such a request ends, `OutcomesOnRecord` that its
outcome is recorded then.

## 5. Not modelled, and what could follow

- Prompt guard (`guard.py`): a stateless function from the text of a message to yes
  or no, made of regular expressions. The rest of the system only depends on
  the yes or no, and the models take both. Its other functions have no caller
  in the application.
- The numerics of `app/nn` (floating point), and training.
- The ADK agents: configuration of a library in which the conversation runs. Tools
  reach them without the recorder of the endpoints, so tool calls of an agent
  leave no record, although `models.py` 92 asks for one; the code shows it without a
  model.
- Resolvers of one GraphQL query that overlap on one session: SQLAlchemy does not
  say what happens then. A query that fails for it is `ResolverFails`.
- What should become of the users of a deactivated tenant, of a task whose message was
  never sent, of a task whose model never answers, of a graph whose load failed, or of
  somebody demoted while the model runs: the repository does not say. The models have
  these behaviours, and `PROJECT.json` lists them as hazards without a property.
- Kubernetes manifests but for the Job, build files, CI and scripts: no state.

An abstract schema that `Deployment` implements would be the next step.
