---------------------------- MODULE AgentTaskSpec ----------------------------
(***************************************************************************)
(* What a background agent run promises to the people who read the         *)
(* database: no queue, no worker, no transaction, no failure.  A run is a  *)
(* row that goes from pending to running to one outcome.  The model may be *)
(* charged once, only while the run is running, and the outcome appears    *)
(* together with the conversation and the audit event that describe it,    *)
(* under the tenant that asked for the run and under no other.             *)
(*                                                                         *)
(* BackgroundRuns implements this module.                                  *)
(***************************************************************************)
EXTENDS Naturals

CONSTANTS
    Tasks,      \* ids of agent_tasks rows
    Tenants,    \* ids of tenants
    Owner       \* the tenant of the principal whose request makes the task

VARIABLES
    status,         \* agent_tasks.status, "none" before the row exists
    charges,        \* model runs started with the prompt of the task
    conversations,  \* conversations stored, per task and tenant
    audits          \* audit events stored, per task and tenant

vars == <<status, charges, conversations, audits>>

(***************************************************************************)
(* A place is a task and the tenant a record about it is stored under; it  *)
(* is also what a queue message names.                                     *)
(***************************************************************************)
Places == [task: Tasks, tenant: Tenants]
Home(t) == [task |-> t, tenant |-> Owner[t]]

Outcomes == {"succeeded", "failed"}
Statuses == {"none", "pending", "running"} \union Outcomes

\* chat.enqueue/allowed, chat.async/allowed and chat.async/error.
AuditKinds == {"enqueued"} \union Outcomes

TypeOK ==
    /\ status \in [Tasks -> Statuses]
    /\ charges \in [Tasks -> Nat]
    /\ conversations \in [Places -> Nat]
    /\ audits \in [Places -> [AuditKinds -> Nat]]

Init ==
    /\ status = [t \in Tasks |-> "none"]
    /\ charges = [t \in Tasks |-> 0]
    /\ conversations = [p \in Places |-> 0]
    /\ audits = [p \in Places |-> [k \in AuditKinds |-> 0]]

(***************************************************************************)
(* The request commits the row and the audit event of the enqueueing.      *)
(***************************************************************************)
Create(t) ==
    /\ status[t] = "none"
    /\ status' = [status EXCEPT ![t] = "pending"]
    /\ audits' = [audits EXCEPT ![Home(t)]["enqueued"] = @ + 1]
    /\ UNCHANGED <<charges, conversations>>

Claim(t) ==
    /\ status[t] = "pending"
    /\ status' = [status EXCEPT ![t] = "running"]
    /\ UNCHANGED <<charges, conversations, audits>>

Charge(t) ==
    /\ status[t] = "running"
    /\ charges[t] = 0
    /\ charges' = [charges EXCEPT ![t] = 1]
    /\ UNCHANGED <<status, conversations, audits>>

Succeed(t) ==
    /\ status[t] = "running"
    /\ charges[t] = 1
    /\ status' = [status EXCEPT ![t] = "succeeded"]
    /\ conversations' = [conversations EXCEPT ![Home(t)] = @ + 1]
    /\ audits' = [audits EXCEPT ![Home(t)]["succeeded"] = @ + 1]
    /\ UNCHANGED charges

\* A run fails with or without having reached the model.
Fail(t) ==
    /\ status[t] = "running"
    /\ status' = [status EXCEPT ![t] = "failed"]
    /\ audits' = [audits EXCEPT ![Home(t)]["failed"] = @ + 1]
    /\ UNCHANGED <<charges, conversations>>

Next == \E t \in Tasks : Create(t) \/ Claim(t) \/ Charge(t) \/ Succeed(t) \/ Fail(t)

Spec == Init /\ [][Next]_vars

-----------------------------------------------------------------------------

Bit(condition) == IF condition THEN 1 ELSE 0

(***************************************************************************)
(* The prompt of a task reaches the model at most once: "No automatic      *)
(* retries: a retried run is a second model charge" (tasks.py).            *)
(***************************************************************************)
AtMostOneModelCall == \A t \in Tasks : charges[t] <= 1

(***************************************************************************)
(* The records agree with the row.  A row exists exactly when its          *)
(* enqueueing is audited once; it is finished exactly when one event of    *)
(* that outcome is audited; it succeeded exactly when one conversation is  *)
(* stored.  What GET /tasks, /conversations and /audit show of one run     *)
(* never disagrees.                                                        *)
(***************************************************************************)
RecordsMatchStatus ==
    \A t \in Tasks :
        /\ audits[Home(t)] = [k \in AuditKinds |->
             IF k = "enqueued" THEN Bit(status[t] # "none") ELSE Bit(status[t] = k)]
        /\ conversations[Home(t)] = Bit(status[t] = "succeeded")

(***************************************************************************)
(* No record about a task is ever stored under a tenant that does not own  *)
(* it, whatever tenant a queue message named.                              *)
(***************************************************************************)
NothingElsewhere ==
    \A p \in Places : p.tenant # Owner[p.task] =>
        /\ conversations[p] = 0
        /\ audits[p] = [k \in AuditKinds |-> 0]

(***************************************************************************)
(* A reply is never recorded for a run that did not reach the model, nor a *)
(* model call made before the run was claimed.                             *)
(***************************************************************************)
ChargesMatchStatus ==
    \A t \in Tasks :
        /\ status[t] = "succeeded" => charges[t] = 1
        /\ status[t] \in {"none", "pending"} => charges[t] = 0

=============================================================================
