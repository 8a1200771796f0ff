------------------------------- MODULE Requests -------------------------------
(***************************************************************************)
(* Requests of one process over its pool of database connections: inline   *)
(* chats, tool endpoints, history endpoints, GraphQL queries and /health   *)
(* (main.py 126-345, 348-455; graphql_api.py; deps.py 62-160).             *)
(*                                                                         *)
(* A session takes a connection with its first statement and gives it back *)
(* with its commit or rollback.  Records a handler adds wait in the        *)
(* session until a commit; the last commit is made by get_session once the *)
(* reply has been sent, for FastAPI leaves a dependency that yields after  *)
(* the response.                                                           *)
(*                                                                         *)
(* Without a database there is no session and nothing to record: that mode *)
(* is left out, and so are background chats, which BackgroundRuns models.  *)
(***************************************************************************)
EXTENDS Naturals, FiniteSets

CONSTANTS
    Requests,
    PoolSize,       \* pool_size + max_overflow
    Faults,         \* which faults may happen: "database", "timeout", "process"
    MaxFaults

ASSUME PoolAssumption == PoolSize \in Nat \ {0}
ASSUME FaultsAssumption == MaxFaults \in Nat

Kinds == {"chat", "tool", "history", "graphql", "health"}

Records == {"refusal", "conversation", "messages", "audit", "invocation"}

Steps == {"idle", "opening", "authorising", "handling", "refusing", "model",
          "writing", "recording", "replied", "done"}

VARIABLES
    pc,         \* where each request is
    kind,       \* which endpoint it is for
    holds,      \* the requests that hold a connection
    pending,    \* records added to its session
    records,    \* its committed records
    reply,      \* what its client was told
    faults

vars == <<pc, kind, holds, pending, records, reply, faults>>

TypeOK ==
    /\ pc \in [Requests -> Steps]
    /\ kind \in [Requests -> Kinds]
    /\ holds \in SUBSET Requests
    /\ Cardinality(holds) <= PoolSize
    /\ pending \in [Requests -> SUBSET Records]
    /\ records \in [Requests -> SUBSET Records]
    /\ reply \in [Requests -> {"none", "ok", "refused", "denied", "error", "degraded"}]
    /\ faults \in 0 .. MaxFaults

Init ==
    /\ pc = [r \in Requests |-> "idle"]
    /\ kind \in [Requests -> Kinds]
    /\ holds = {}
    /\ pending = [r \in Requests |-> {}]
    /\ records = [r \in Requests |-> {}]
    /\ reply = [r \in Requests |-> "none"]
    /\ faults = 0

-----------------------------------------------------------------------------
(* Sessions *)

Goes(r, from, to) == pc[r] = from /\ pc' = [pc EXCEPT ![r] = to]
Replies(r, answer) == reply' = [reply EXCEPT ![r] = answer]
Adds(r, new) == pending' = [pending EXCEPT ![r] = @ \union new]

Free == Cardinality(holds) < PoolSize

\* A slip: max_overflow = -1.
TakesAnother(r) == holds' = holds \union {r}

Takes(r) == Free /\ holds' = holds \union {r}

Commits(r) ==
    /\ records' = [records EXCEPT ![r] = @ \union pending[r]]
    /\ pending' = [pending EXCEPT ![r] = {}]
    /\ holds' = holds \ {r}

RollsBack(r) ==
    /\ pending' = [pending EXCEPT ![r] = {}]
    /\ holds' = holds \ {r}
    /\ UNCHANGED records

\* An exception leaves the handler: get_session rolls back, then the client is told.
Raises(r, from, answer) ==
    /\ Goes(r, from, "done")
    /\ RollsBack(r)
    /\ Replies(r, answer)

-----------------------------------------------------------------------------
(* get_claims, get_session, get_principal, require_role; /health has a session of its own *)

\* get_claims comes before get_session: a missing or bad token needs no connection.  401.
RejectToken(r) ==
    /\ kind[r] # "health"
    /\ Raises(r, "idle", "denied")
    /\ UNCHANGED <<kind, faults>>

Arrive(r) ==
    /\ Goes(r, "idle", "opening")
    /\ UNCHANGED <<kind, holds, pending, records, reply, faults>>

\* apply_tenant_scope is the first statement of the session, SELECT 1 that of /health.
Open(r) ==
    /\ Goes(r, "opening", IF kind[r] = "health" THEN "handling" ELSE "authorising")
    /\ Takes(r)
    /\ UNCHANGED <<kind, pending, records, reply, faults>>

\* The user's row is read: 401 or 403.
Deny(r) ==
    /\ Raises(r, "authorising", "denied")
    /\ UNCHANGED <<kind, faults>>

Admit(r) ==
    /\ Goes(r, "authorising", "handling")
    /\ UNCHANGED <<kind, holds, pending, records, reply, faults>>

-----------------------------------------------------------------------------
(* POST /chat *)

\* The guard refuses the message.
Refuse(r) ==
    /\ kind[r] = "chat"
    /\ Goes(r, "handling", "refusing")
    /\ Adds(r, {"refusal"})
    /\ UNCHANGED <<kind, holds, records, reply, faults>>

\* A slip: no commit_now, so the exception takes the refusal with it.
RaiseRefusal(r) ==
    /\ Raises(r, "refusing", "refused")
    /\ UNCHANGED <<kind, faults>>

\* commit_now, then 400.
CommitRefusal(r) ==
    /\ Goes(r, "refusing", "done")
    /\ Commits(r)
    /\ Replies(r, "refused")
    /\ UNCHANGED <<kind, faults>>

\* No GOOGLE_API_KEY: 503.
NoCredentials(r) ==
    /\ kind[r] = "chat"
    /\ Raises(r, "handling", "error")
    /\ UNCHANGED <<kind, faults>>

\* A slip: the connection is kept while the model runs.
KeepConnection(r) ==
    /\ kind[r] = "chat"
    /\ Goes(r, "handling", "model")
    /\ UNCHANGED <<kind, holds, pending, records, reply, faults>>

\* The commit that gives the connection back before the model runs.
Release(r) ==
    /\ kind[r] = "chat"
    /\ Goes(r, "handling", "model")
    /\ Commits(r)
    /\ UNCHANGED <<kind, reply, faults>>

ModelReplies(r) ==
    /\ Goes(r, "model", "writing")
    /\ UNCHANGED <<kind, holds, pending, records, reply, faults>>

ModelRaises(r) ==
    /\ Raises(r, "model", "error")
    /\ UNCHANGED <<kind, faults>>

\* A slip: the flush is a commit, so the rest becomes a transaction of its own.
CommitConversation(r) ==
    /\ Goes(r, "writing", "recording")
    /\ Free
    /\ records' = [records EXCEPT ![r] = @ \union {"conversation"}]
    /\ UNCHANGED <<kind, holds, pending, reply, faults>>

\* The flush of the conversation begins a new transaction.
FlushConversation(r) ==
    /\ Goes(r, "writing", "recording")
    /\ Takes(r)
    /\ Adds(r, {"conversation"})
    /\ UNCHANGED <<kind, records, reply, faults>>

\* The messages and the audit are added, and the handler returns.
ReplyToChat(r) ==
    /\ Goes(r, "recording", "replied")
    /\ Adds(r, {"messages", "audit"})
    /\ Replies(r, "ok")
    /\ UNCHANGED <<kind, holds, records, faults>>

-----------------------------------------------------------------------------
(* The tool and the history endpoints, /graphql and /health *)

RunTool(r) ==
    /\ kind[r] = "tool"
    /\ Goes(r, "handling", "replied")
    /\ Adds(r, {"invocation"})
    /\ Replies(r, "ok")
    /\ UNCHANGED <<kind, holds, records, faults>>

\* 400 or 500; recorder.tool_call is not reached.
ToolRaises(r) ==
    /\ kind[r] = "tool"
    /\ Raises(r, "handling", "error")
    /\ UNCHANGED <<kind, faults>>

ReadHistory(r) ==
    /\ kind[r] = "history"
    /\ Goes(r, "handling", "replied")
    /\ Replies(r, "ok")
    /\ UNCHANGED <<kind, holds, pending, records, faults>>

\* 404.
NotFound(r) ==
    /\ kind[r] = "history"
    /\ Raises(r, "handling", "error")
    /\ UNCHANGED <<kind, faults>>

\* Each resolver of a query reads in the one session.
ResolveQuery(r) ==
    /\ kind[r] = "graphql"
    /\ Goes(r, "handling", "replied")
    /\ Replies(r, "ok")
    /\ UNCHANGED <<kind, holds, pending, records, faults>>

\* _require raises.  The error becomes part of the reply, so get_session sees none.
ResolverRaises(r) ==
    /\ kind[r] = "graphql"
    /\ Goes(r, "handling", "replied")
    /\ Replies(r, "error")
    /\ UNCHANGED <<kind, holds, pending, records, faults>>

\* /health closes its session and answers.
ReportHealth(r) ==
    /\ kind[r] = "health"
    /\ Raises(r, "handling", "ok")
    /\ UNCHANGED <<kind, faults>>

\* get_session, after the reply.
FinalCommit(r) ==
    /\ Goes(r, "replied", "done")
    /\ Commits(r)
    /\ UNCHANGED <<kind, reply, faults>>

-----------------------------------------------------------------------------
(* Faults *)

Fault(f) == f \in Faults /\ faults < MaxFaults /\ faults' = faults + 1

\* /health answers all the same.
ErrorFor(r) == IF kind[r] = "health" THEN "degraded" ELSE "error"

\* A statement fails.
StatementFails(r) ==
    /\ Fault("database")
    /\ pc[r] = "handling" => kind[r] \in {"history", "health"}
    /\ \E from \in {"opening", "authorising", "handling", "writing"} : Raises(r, from, ErrorFor(r))
    /\ UNCHANGED kind

\* A statement of a resolver fails.
ResolverFails(r) ==
    /\ Fault("database")
    /\ kind[r] = "graphql"
    /\ Goes(r, "handling", "replied")
    /\ Replies(r, "error")
    /\ UNCHANGED <<kind, holds, pending, records>>

\* A commit raises; it may have been made all the same.  After the reply nobody is told.
CommitFails(r) ==
    /\ Fault("database")
    /\ pc[r] \in {"refusing", "handling", "replied"}
    /\ pc[r] = "handling" => kind[r] = "chat"
    /\ pc' = [pc EXCEPT ![r] = "done"]
    /\ Commits(r) \/ RollsBack(r)
    /\ Replies(r, IF pc[r] = "replied" THEN reply[r] ELSE "error")
    /\ UNCHANGED kind

\* No connection came free within the pool's timeout.
PoolTimeout(r) ==
    /\ Fault("timeout")
    /\ ~ Free
    /\ \E from \in {"opening", "writing"} : Raises(r, from, ErrorFor(r))
    /\ UNCHANGED kind

\* The process is gone, and PostgreSQL rolls back whatever it had open.
ProcessDies ==
    /\ Fault("process")
    /\ pc' = [r \in Requests |-> IF pc[r] = "idle" THEN "idle" ELSE "done"]
    /\ holds' = {}
    /\ pending' = [r \in Requests |-> {}]
    /\ UNCHANGED <<kind, records, reply>>

-----------------------------------------------------------------------------

Acquire(r) == Open(r) \/ FlushConversation(r)

\* Steps that wait for nothing but the database.
Proceed(r) ==
    \/ Deny(r) \/ Admit(r)
    \/ Refuse(r) \/ CommitRefusal(r) \/ NoCredentials(r) \/ Release(r) \/ ReplyToChat(r)
    \/ RunTool(r) \/ ToolRaises(r) \/ ReadHistory(r) \/ NotFound(r)
    \/ ResolveQuery(r) \/ ResolverRaises(r) \/ ReportHealth(r)
    \/ FinalCommit(r)

Model(r) == ModelReplies(r) \/ ModelRaises(r)

Next ==
    \/ \E r \in Requests : RejectToken(r) \/ Arrive(r) \/ Acquire(r) \/ Proceed(r) \/ Model(r)
    \/ \E r \in Requests : StatementFails(r) \/ ResolverFails(r) \/ CommitFails(r) \/ PoolTimeout(r)
    \/ ProcessDies

Spec == Init /\ [][Next]_vars

(***************************************************************************)
(* The pool serves its waiters in turn, and statements return.  The model  *)
(* need never answer: POST /chat sets no time limit.                       *)
(***************************************************************************)
Fairness == \A r \in Requests : SF_vars(Acquire(r)) /\ WF_vars(Proceed(r))
FairSpec == Spec /\ Fairness

-----------------------------------------------------------------------------
(* Properties *)

Client == INSTANCE RequestSpec

(***************************************************************************)
(* Seen by its client and through the database, every request does what    *)
(* RequestSpec says: it is told one thing, and what it leaves behind       *)
(* appears whole and agrees with what it was told, wherever a statement, a *)
(* commit, the pool or the process fails (deps.py 62-79, main.py 239-345). *)
(***************************************************************************)
ImplementsRequestSpec == Client!Spec

(***************************************************************************)
(* A message refused by the guard is on record by the time the client      *)
(* hears of it, although the request fails and its session rolls back      *)
(* (main.py 239-249: "recorded either way").  When nothing fails, what a   *)
(* 200 reported is on record by the time the request is over               *)
(* (deps.py 74-76).                                                        *)
(***************************************************************************)
OutcomesOnRecord ==
    \A r \in Requests :
        /\ reply[r] = "refused" => records[r] = {"refusal"}
        /\ reply[r] = "ok" /\ pc[r] = "done" /\ faults = 0 =>
              records[r] = Client!Complete(kind[r])

(***************************************************************************)
(* A request that waits for a connection, whose model is thinking or that  *)
(* has nothing more to read or write has no connection and no unsaved      *)
(* record, however it got there: nobody holds a connection while waiting   *)
(* for another, so the pool alone can stop no request for ever             *)
(* (main.py 305-309, deps.py 72-79).                                       *)
(***************************************************************************)
ConnectionsReturned ==
    \A r \in Requests :
        pc[r] \in {"idle", "opening", "writing", "model", "done"} =>
            r \notin holds /\ pending[r] = {}

(***************************************************************************)
(* "Holding a pooled connection for all of it caps concurrent chats at the *)
(* pool size and starves every other endpoint"                             *)
(* (tests/test_session_scope.py 70-72): however many models hang, every    *)
(* request that is not in the hands of one is answered, and so is /health, *)
(* by which Kubernetes decides whether to kill the process                 *)
(* (k8s/deployment.yaml).                                                  *)
(***************************************************************************)
ServedWhileModelsHang ==
    [](faults = 0) =>
        \A r \in Requests :
            pc[r] \in {"opening", "handling", "writing", "replied"} ~> pc[r] \in {"model", "done"}

(***************************************************************************)
(* The history read after a chat's reply lists the conversation the reply  *)
(* names (tests/test_session_scope.py 90-94).                              *)
(***************************************************************************)
RepliedIsListed ==
    \A r \in Requests :
        kind[r] = "chat" /\ reply[r] = "ok" => "conversation" \in records[r]

===============================================================================
