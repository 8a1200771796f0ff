---------------------------- MODULE BackgroundRuns ----------------------------
(***************************************************************************)
(* Background agent runs: POST /chat with background=true (main.py 261-300)*)
(* and the Celery task that executes the run (tasks.py 106-197).           *)
(*                                                                         *)
(* A request inserts an agent_tasks row, commits, and only then publishes  *)
(* a message that names the row and a tenant.  A worker that receives the  *)
(* message claims the row with a conditional UPDATE, commits, calls the    *)
(* model outside any transaction, and records the outcome in a second      *)
(* transaction of up to three writes.  The broker may deliver a message    *)
(* again, a message may name the wrong tenant, a request, a pool child, a  *)
(* whole worker or the database may fail between any two steps.            *)
(*                                                                         *)
(* Statements are actions.  A write is private to its transaction until    *)
(* the commit, and a rollback forgets it.                                  *)
(***************************************************************************)
EXTENDS Naturals

CONSTANTS
    Tasks, Tenants, Owner,
    Workers,        \* Celery pool children, one message at a time each
    NoMessage,      \* what an idle worker is working on
    Faults,         \* the kinds of fault that may happen
    MaxFaults       \* how many faults may happen in one behaviour

FaultKinds ==
    {"request", "publish", "misroute", "redeliver", "database", "child", "worker"}

ASSUME OwnerAssumption == Owner \in [Tasks -> Tenants]
ASSUME NoMessageAssumption == NoMessage \notin [task: Tasks, tenant: Tenants]
ASSUME FaultsAssumption == Faults \subseteq FaultKinds /\ MaxFaults \in Nat

VARIABLES
    request,        \* the POST /chat request that makes each task
    row,            \* agent_tasks.status as committed
    conversations,  \* conversations (with their two messages) as committed
    audits,         \* audit_events as committed
    calls,          \* model runs started for each task
    queue,          \* messages a worker may receive, a bag
    wpc,            \* where each worker is in run_agent
    job,            \* the message each worker works on
    held,           \* whether the broker still owes the worker's message
    outcome,        \* the local variable status of run_agent
    tx,             \* writes of the worker's open transaction
    faults          \* how many faults so far, and of which kinds

database == <<row, conversations, audits>>
worker == <<wpc, job, held, outcome, tx>>
vars == <<request, database, calls, queue, worker, faults>>

Messages == [task: Tasks, tenant: Tenants]
Home(t) == [task |-> t, tenant |-> Owner[t]]

Outcomes == {"succeeded", "failed"}
Statuses == {"none", "pending", "running"} \union Outcomes
AuditKinds == {"enqueued"} \union Outcomes
Writes == {"claim", "conversation", "row", "audit"}

\* Between the committed claim and the committed outcome.
Running == {"claimed", "calling", "recording"}
WorkerSteps == {"idle", "received", "claiming", "skipped", "done"} \union Running

TypeOK ==
    /\ request \in [Tasks -> {"none", "inserted", "committed", "accepted", "failed"}]
    /\ row \in [Tasks -> Statuses]
    /\ conversations \in [Messages -> Nat]
    /\ audits \in [Messages -> [AuditKinds -> Nat]]
    /\ calls \in [Tasks -> Nat]
    /\ queue \in [Messages -> Nat]
    /\ wpc \in [Workers -> WorkerSteps]
    /\ job \in [Workers -> Messages \union {NoMessage}]
    /\ held \in [Workers -> BOOLEAN]
    /\ outcome \in [Workers -> Outcomes]
    /\ tx \in [Workers -> SUBSET Writes]
    /\ faults \in [count: 0 .. MaxFaults, kinds: SUBSET FaultKinds]

Init ==
    /\ request = [t \in Tasks |-> "none"]
    /\ row = [t \in Tasks |-> "none"]
    /\ conversations = [m \in Messages |-> 0]
    /\ audits = [m \in Messages |-> [k \in AuditKinds |-> 0]]
    /\ calls = [t \in Tasks |-> 0]
    /\ queue = [m \in Messages |-> 0]
    /\ wpc = [w \in Workers |-> "idle"]
    /\ job = [w \in Workers |-> NoMessage]
    /\ held = [w \in Workers |-> FALSE]
    /\ outcome = [w \in Workers |-> "succeeded"]
    /\ tx = [w \in Workers |-> {}]
    /\ faults = [count |-> 0, kinds |-> {}]

Fault(kind) ==
    /\ kind \in Faults
    /\ faults.count < MaxFaults
    /\ faults' = [count |-> faults.count + 1, kinds |-> faults.kinds \union {kind}]

Published(m, n) == queue' = [queue EXCEPT ![m] = @ + n]

-----------------------------------------------------------------------------
(* The request *)

\* A slip: send_task is called before the commit.
EnqueueAndSend(t) ==
    /\ request[t] = "none"
    /\ request' = [request EXCEPT ![t] = "inserted"]
    /\ Published(Home(t), 1)
    /\ UNCHANGED <<database, calls, worker, faults>>

\* INSERT and flush: the row and the audit event are in the open transaction.
Enqueue(t) ==
    /\ request[t] = "none"
    /\ request' = [request EXCEPT ![t] = "inserted"]
    /\ UNCHANGED <<database, calls, queue, worker, faults>>

\* recorder.commit_now(): both records become visible together.
CommitEnqueue(t) ==
    /\ request[t] = "inserted"
    /\ request' = [request EXCEPT ![t] = "committed"]
    /\ row' = [row EXCEPT ![t] = "pending"]
    /\ audits' = [audits EXCEPT ![Home(t)]["enqueued"] = @ + 1]
    /\ UNCHANGED <<conversations, calls, queue, worker, faults>>

\* send_task, then the 202 reply.
Dispatch(t) ==
    /\ request[t] = "committed"
    /\ request' = [request EXCEPT ![t] = "accepted"]
    /\ Published(Home(t), 1)
    /\ UNCHANGED <<database, calls, worker, faults>>

\* The publisher retries after an error and both attempts reached the broker.
DispatchTwice(t) ==
    /\ Fault("publish")
    /\ request[t] = "committed"
    /\ request' = [request EXCEPT ![t] = "accepted"]
    /\ Published(Home(t), 2)
    /\ UNCHANGED <<database, calls, worker>>

\* The process dies, or the commit or send_task raises.  An open transaction
\* is rolled back; a committed row stays, its message sent or not.
RequestFails(t) ==
    /\ Fault("request")
    /\ request[t] \in {"inserted", "committed"}
    /\ request' = [request EXCEPT ![t] = "failed"]
    /\ \E n \in IF request[t] = "committed" THEN 0 .. 1 ELSE {0} : Published(Home(t), n)
    /\ UNCHANGED <<database, calls, worker>>

-----------------------------------------------------------------------------
(* The worker *)

Goes(w, step) == wpc' = [wpc EXCEPT ![w] = step]

\* A slip: the table owner is exempt from row-level security.
VisibleToOwnerRole(m) == row[m.task] # "none"

\* Row-level security: an UPDATE under a tenant matches that tenant's rows only.
Visible(m) == m.tenant = Owner[m.task]

\* PostgreSQL makes an UPDATE wait for a transaction that has written the row.
RowLocked(w) ==
    \E v \in Workers \ {w} :
        job[v] = job[w] /\ tx[v] \intersect {"claim", "row"} # {}

Receive(w) ==
    /\ wpc[w] = "idle"
    /\ \E m \in Messages :
        /\ queue[m] > 0
        /\ queue' = [queue EXCEPT ![m] = @ - 1]
        /\ job' = [job EXCEPT ![w] = m]
    /\ held' = [held EXCEPT ![w] = TRUE]
    /\ Goes(w, "received")
    /\ UNCHANGED <<request, database, calls, outcome, tx, faults>>

\* Slips: no status in the WHERE clause, or one that takes a run up again.
ClaimableInAnyStatus(m) == Visible(m) /\ row[m.task] # "none"
ClaimableUntilFinished(m) == Visible(m) /\ row[m.task] \in {"pending", "running"}

\* UPDATE ... SET status = 'running' WHERE id = :id AND status = 'pending'
Claimable(m) == Visible(m) /\ row[m.task] = "pending"

Claim(w) ==
    /\ wpc[w] = "received"
    /\ ~ RowLocked(w)
    /\ tx' = [tx EXCEPT ![w] = IF Claimable(job[w]) THEN {"claim"} ELSE {}]
    /\ Goes(w, "claiming")
    /\ UNCHANGED <<request, database, calls, queue, job, held, outcome, faults>>

\* A slip: the claim is left uncommitted while the model runs.
CarryClaim(w) ==
    /\ wpc[w] = "claiming"
    /\ "claim" \in tx[w]
    /\ Goes(w, "claimed")
    /\ UNCHANGED <<request, database, calls, queue, job, held, outcome, tx, faults>>

CommitClaim(w) ==
    /\ wpc[w] = "claiming"
    /\ "claim" \in tx[w]
    /\ row' = [row EXCEPT ![job[w].task] = "running"]
    /\ tx' = [tx EXCEPT ![w] = {}]
    /\ Goes(w, "claimed")
    /\ UNCHANGED <<request, conversations, audits, calls, queue, job, held, outcome, faults>>

\* The UPDATE returned no row: return without running.
Skip(w) ==
    /\ wpc[w] = "claiming"
    /\ "claim" \notin tx[w]
    /\ Goes(w, "skipped")
    /\ UNCHANGED <<request, database, calls, queue, job, held, outcome, tx, faults>>

RunEnds(w, o) ==
    /\ outcome' = [outcome EXCEPT ![w] = o]
    /\ Goes(w, "recording")
    /\ UNCHANGED <<request, database, calls, queue, job, held, tx, faults>>

\* A slip: a status of its own for a run that could not start.
NoCredentialsStatus(w) == wpc[w] = "claimed" /\ RunEnds(w, "unconfigured")

NoCredentials(w) == wpc[w] = "claimed" /\ RunEnds(w, "failed")

CallModel(w) ==
    /\ wpc[w] = "claimed"
    /\ calls' = [calls EXCEPT ![job[w].task] = @ + 1]
    /\ Goes(w, "calling")
    /\ UNCHANGED <<request, database, queue, job, held, outcome, tx, faults>>

ModelReplies(w) == wpc[w] = "calling" /\ RunEnds(w, "succeeded")
ModelRaises(w) == wpc[w] = "calling" /\ RunEnds(w, "failed")

\* One statement of the recording transaction.
Write(w, statement) ==
    /\ wpc[w] = "recording"
    /\ statement \notin tx[w]
    /\ tx' = [tx EXCEPT ![w] = @ \union {statement}]
    /\ UNCHANGED <<request, database, calls, queue, wpc, job, held, outcome, faults>>

\* A slip: the conversation is committed on its own.
InsertConversationAlone(w) ==
    /\ outcome[w] = "succeeded"
    /\ wpc[w] = "recording"
    /\ tx[w] = {}
    /\ tx' = [tx EXCEPT ![w] = {"conversation"}]
    /\ conversations' = [conversations EXCEPT ![job[w]] = @ + 1]
    /\ UNCHANGED <<request, row, audits, calls, queue, wpc, job, held, outcome, faults>>

InsertConversation(w) == outcome[w] = "succeeded" /\ Write(w, "conversation")

UpdateRow(w) ==
    /\ outcome[w] = "succeeded" => "conversation" \in tx[w]
    /\ ~ RowLocked(w)
    /\ Write(w, "row")

InsertAudit(w) == "row" \in tx[w] /\ Write(w, "audit")

\* A slip: the outcome is guarded like the claim.
UpdatableWhilePending(m) == Visible(m) /\ row[m.task] = "pending"

\* UPDATE agent_tasks SET status = :status, ... WHERE id = :id
Updatable(m) == Visible(m)

CommitOutcome(w) ==
    LET m == job[w] IN
    /\ wpc[w] = "recording"
    /\ "audit" \in tx[w]
    /\ row' = IF Updatable(m) THEN [row EXCEPT ![m.task] = outcome[w]] ELSE row
    /\ conversations' = IF "conversation" \in tx[w]
                        THEN [conversations EXCEPT ![m] = @ + 1] ELSE conversations
    /\ audits' = [audits EXCEPT ![m][outcome[w]] = @ + 1]
    /\ tx' = [tx EXCEPT ![w] = {}]
    /\ Goes(w, "done")
    /\ UNCHANGED <<request, calls, queue, job, held, outcome, faults>>

\* The worker forgets the message; the server rolls back what was not committed.
Leaves(w) ==
    /\ Goes(w, "idle")
    /\ job' = [job EXCEPT ![w] = NoMessage]
    /\ held' = [held EXCEPT ![w] = FALSE]
    /\ tx' = [tx EXCEPT ![w] = {}]
    /\ outcome' = [outcome EXCEPT ![w] = "succeeded"]
    /\ UNCHANGED <<request, database, calls>>

\* task_acks_late: acknowledged only now.
Acknowledge(w) ==
    /\ wpc[w] \in {"skipped", "done"}
    /\ Leaves(w)
    /\ UNCHANGED <<queue, faults>>

\* A database call outside the try block raises, or the reply to a commit is
\* lost.  Celery acknowledges a task that raised.
DatabaseError(w) ==
    /\ Fault("database")
    /\ wpc[w] \in {"received", "claiming", "claimed", "recording"}
    /\ Leaves(w)
    /\ UNCHANGED queue

\* The pool child is killed.  With task_reject_on_worker_lost=False the
\* parent acknowledges the message.
ChildLost(w) ==
    /\ Fault("child")
    /\ wpc[w] # "idle"
    /\ Leaves(w)
    /\ UNCHANGED queue

\* A slip: without task_acks_late the message was acknowledged when it came.
WorkerLostAfterEarlyAck(w) ==
    /\ Fault("worker")
    /\ wpc[w] # "idle"
    /\ Leaves(w)
    /\ UNCHANGED queue

\* The whole worker is lost, so nobody acknowledges: the broker restores the
\* message.
WorkerLost(w) ==
    /\ Fault("worker")
    /\ wpc[w] # "idle"
    /\ Published(job[w], IF held[w] THEN 1 ELSE 0)
    /\ Leaves(w)

\* The visibility timeout of the broker passes while the worker is still busy.
Redeliver(w) ==
    /\ Fault("redeliver")
    /\ wpc[w] # "idle"
    /\ held[w]
    /\ Published(job[w], 1)
    /\ held' = [held EXCEPT ![w] = FALSE]
    /\ UNCHANGED <<request, database, calls, wpc, job, outcome, tx>>

\* A message that names an existing task and another tenant.
Misroute(m) ==
    /\ Fault("misroute")
    /\ row[m.task] # "none"
    /\ m # Home(m.task)
    /\ Published(m, 1)
    /\ UNCHANGED <<request, database, calls, worker>>

-----------------------------------------------------------------------------

RequestStep(t) == Enqueue(t) \/ CommitEnqueue(t) \/ Dispatch(t)

RunStep(w) ==
    \/ Receive(w) \/ Claim(w) \/ CommitClaim(w) \/ Skip(w)
    \/ NoCredentials(w) \/ CallModel(w) \/ ModelReplies(w) \/ ModelRaises(w)
    \/ InsertConversation(w) \/ UpdateRow(w) \/ InsertAudit(w) \/ CommitOutcome(w)
    \/ Acknowledge(w)

FaultStep ==
    \/ \E t \in Tasks : DispatchTwice(t) \/ RequestFails(t)
    \/ \E w \in Workers : DatabaseError(w) \/ ChildLost(w) \/ WorkerLost(w) \/ Redeliver(w)
    \/ \E m \in Messages : Misroute(m)

Next ==
    \/ \E t \in Tasks : RequestStep(t)
    \/ \E w \in Workers : RunStep(w)
    \/ FaultStep

(***************************************************************************)
(* A request that has begun goes on by itself.  A worker keeps consuming   *)
(* and keeps executing run_agent.  That the model eventually replies or    *)
(* raises is an assumption about the model service: run_agent sets no time *)
(* limit.  Nobody is obliged to send a request, and no fault is obliged to *)
(* happen.                                                                 *)
(***************************************************************************)
Fairness ==
    /\ \A t \in Tasks : WF_vars(CommitEnqueue(t) \/ Dispatch(t))
    /\ \A w \in Workers : WF_vars(RunStep(w))

Spec == Init /\ [][Next]_vars
FairSpec == Spec /\ Fairness
-----------------------------------------------------------------------------
(* Properties *)

Abstract == INSTANCE AgentTaskSpec WITH status <- row, charges <- calls

(***************************************************************************)
(* The prompt of a task reaches the model at most once, however often the  *)
(* message is published, delivered or restored: "No automatic retries: a   *)
(* retried run is a second model charge" (tasks.py 41).                    *)
(***************************************************************************)
AtMostOneModelCall == \A t \in Tasks : calls[t] <= 1

(***************************************************************************)
(* A message that names another tenant stores nothing anywhere, and no     *)
(* record of a task is stored under a tenant that does not own it          *)
(* (main.py 287-288, tasks.py 126-129).                                    *)
(***************************************************************************)
NothingUnderAnotherTenant == Abstract!NothingElsewhere

(***************************************************************************)
(* The committed records of a run agree with its row at every instant:     *)
(* GET /tasks, /conversations and /audit never tell different stories, a   *)
(* failure between the statements of a transaction leaves no half of an    *)
(* outcome behind, and no record of it is under another tenant             *)
(* (main.py 273-288, tasks.py 126-191).                                    *)
(***************************************************************************)
RecordsMatchRow == Abstract!RecordsMatchStatus /\ NothingUnderAnotherTenant

(***************************************************************************)
(* A worker that skips a message of the right tenant skips it because      *)
(* another delivery has committed a claim, never because the row was not   *)
(* there yet: "Commit before dispatch so the worker can see the row"       *)
(* (main.py 282).                                                          *)
(***************************************************************************)
SkipIsJustified ==
    \A w \in Workers :
        wpc[w] = "skipped" /\ Visible(job[w]) => row[job[w].task] \notin {"none", "pending"}

\* A claimed run that no worker is working on any more.
Abandoned(t) ==
    /\ row[t] = "running"
    /\ \A w \in Workers : wpc[w] \in Running => job[w].task # t

(***************************************************************************)
(* A run whose worker is gone after the claim is never taken up again: it  *)
(* reads "running" for ever and its prompt is not sent a second time, even *)
(* though its message may be delivered again (tasks.py 41-43, 119-129).    *)
(***************************************************************************)
NoAutomaticRetry ==
    [][\A t \in Tasks : Abandoned(t) => Abandoned(t)' /\ calls'[t] = calls[t]]_vars

\* A message for the task waits, or a worker has it and has not decided yet.
InHand(t) ==
    \/ queue[Home(t)] > 0
    \/ \E w \in Workers : job[w] = Home(t) /\ wpc[w] \in {"received", "claiming"}

Happened(kinds) == faults.kinds \intersect kinds # {}

(***************************************************************************)
(* What it takes to lose a task that was accepted with a 202.  Before the  *)
(* claim only an exception or a killed child can, after which the message  *)
(* is acknowledged; the loss of a whole worker, a redelivery, a second     *)
(* copy or a misrouted one cannot.  Once it is claimed, the loss of its    *)
(* worker can too (tasks.py 40-43).                                        *)
(***************************************************************************)
StrandedByLossOnly ==
    \A t \in Tasks :
        /\ request[t] = "accepted" /\ row[t] = "pending" /\ ~ InHand(t) =>
              Happened({"database", "child"})
        /\ Abandoned(t) => Happened({"database", "child", "worker"})

(***************************************************************************)
(* Seen through the database and the model's bill, a background run is the *)
(* run AgentTaskSpec describes.                                            *)
(***************************************************************************)
ImplementsAgentTaskSpec == Abstract!Spec

(***************************************************************************)
(* Unless a fault loses its message or its worker, a task that was         *)
(* accepted with a 202 ends succeeded or failed.                           *)
(***************************************************************************)
AcceptedFinishes ==
    \A t \in Tasks : request[t] = "accepted" ~> row[t] \in Outcomes

(***************************************************************************)
(* "Late acknowledgement means a worker crash redelivers the message"      *)
(* (tests/test_async_and_graphql.py 281): the message of a task that was   *)
(* accepted and not yet claimed is in the queue or with a worker.          *)
(***************************************************************************)
CrashRedelivers ==
    \A t \in Tasks :
        request[t] = "accepted" /\ row[t] = "pending" =>
            \/ queue[Home(t)] > 0
            \/ \E w \in Workers : job[w] = Home(t)

-----------------------------------------------------------------------------
(***************************************************************************)
(* The inductive invariant behind the safety properties.  The properties   *)
(* alone are not inductive: that a second worker cannot charge the model   *)
(* rests on who may be between a claim and an outcome, and that the        *)
(* records match the row rests on what an open transaction has written.    *)
(***************************************************************************)

\* A busy worker has a message, and a message names a row that exists.
MessagesInv ==
    /\ \A w \in Workers : wpc[w] # "idle" => job[w] \in Messages
    /\ \A w \in Workers : job[w] \in Messages => row[job[w].task] # "none"
    /\ \A m \in Messages : queue[m] > 0 => row[m.task] # "none"

\* A request that has not committed has left nothing behind.
RequestInv ==
    \A t \in Tasks :
        /\ request[t] \in {"none", "inserted"} => row[t] = "none"
        /\ request[t] = "committed" => row[t] # "none"

\* Which writes a transaction can hold, and in which order they come.
TransactionInv ==
    \A w \in Workers :
        /\ wpc[w] \notin {"claiming", "recording"} => tx[w] = {}
        /\ wpc[w] = "claiming" => tx[w] \subseteq {"claim"}
        /\ wpc[w] = "recording" => "claim" \notin tx[w]
        /\ wpc[w] = "recording" /\ "conversation" \in tx[w] => outcome[w] = "succeeded"
        /\ "row" \in tx[w] /\ outcome[w] = "succeeded" => "conversation" \in tx[w]
        /\ "audit" \in tx[w] => "row" \in tx[w]

\* What a worker may rely on at each step of run_agent.
ClaimInv ==
    \A w \in Workers :
        /\ "claim" \in tx[w] => Visible(job[w]) /\ row[job[w].task] = "pending"
        /\ wpc[w] \in Running => Visible(job[w]) /\ row[job[w].task] = "running"
        /\ wpc[w] = "claimed" => calls[job[w].task] = 0
        /\ wpc[w] = "calling" => calls[job[w].task] = 1
        /\ wpc[w] = "recording" /\ outcome[w] = "succeeded" => calls[job[w].task] = 1
        /\ wpc[w] = "claiming" /\ "claim" \notin tx[w] /\ Visible(job[w]) =>
              row[job[w].task] \notin {"none", "pending"}

Owns(w) == "claim" \in tx[w] \/ wpc[w] \in Running

\* At most one worker owns a task.
ExclusiveInv ==
    \A v, w \in Workers : Owns(v) /\ Owns(w) /\ job[v].task = job[w].task => v = w

RunInv ==
    /\ TypeOK
    /\ MessagesInv
    /\ RequestInv
    /\ TransactionInv
    /\ ClaimInv
    /\ ExclusiveInv
    /\ AtMostOneModelCall
    /\ Abstract!ChargesMatchStatus
    /\ SkipIsJustified

\* A copy of the message that the broker will hand out again if its worker is lost.
Owed(t) ==
    \/ queue[Home(t)] > 0
    \/ \E w \in Workers :
          job[w] = Home(t) /\ wpc[w] \in {"received", "claiming"} /\ held[w]

\* StrandedByLossOnly alone is not inductive: a copy that is in hand may be one
\* the broker has already stopped waiting for.
LossInv ==
    \A t \in Tasks :
        /\ request[t] = "accepted" /\ row[t] = "pending" =>
              Owed(t) \/ Happened({"database", "child"})
        /\ Abandoned(t) => Happened({"database", "child", "worker"})

=============================================================================
