------------------------ MODULE BackgroundRunsProofs ------------------------
(***************************************************************************)
(* Proofs about BackgroundRuns, for any tasks, tenants, workers, faults    *)
(* and number of faults.                                                   *)
(***************************************************************************)
EXTENDS BackgroundRuns, TLAPS

(***************************************************************************)
(* A message is a task and a tenant, and the message of a task's own       *)
(* request is the only one row-level security lets through to its row.     *)
(***************************************************************************)
LEMMA MessageFacts ==
  /\ \A m \in Messages : m.task \in Tasks /\ m.tenant \in Tenants
  /\ \A t \in Tasks : Home(t) \in Messages /\ Home(t).task = t /\ Visible(Home(t))
  /\ \A m \in Messages : Visible(m) <=> m = Home(m.task)
  /\ NoMessage \notin Messages
BY OwnerAssumption, NoMessageAssumption DEF Messages, Home, Visible

(***************************************************************************)
(* Adding to one entry of a table of counts leaves a table of counts.      *)
(***************************************************************************)
LEMMA Increment ==
  ASSUME NEW S, NEW f \in [S -> Nat], NEW x, NEW n \in Nat
  PROVE  [f EXCEPT ![x] = @ + n] \in [S -> Nat]
<1> DEFINE g == [f EXCEPT ![x] = @ + n]
<1>1. DOMAIN g = S /\ g = [y \in S |-> g[y]]
  OBVIOUS
<1>2. ASSUME NEW y \in S PROVE g[y] \in Nat
  <2>1. CASE y = x
    BY <2>1
  <2>2. CASE y # x
    BY <2>2
  <2> QED
    BY <2>1, <2>2
<1> QED
  BY <1>1, <1>2

(***************************************************************************)
(* Nor does adding to one entry of a table of tables of counts.            *)
(***************************************************************************)
LEMMA IncrementWithin ==
  ASSUME NEW S, NEW R, NEW f \in [S -> [R -> Nat]], NEW x, NEW y
  PROVE  [f EXCEPT ![x][y] = @ + 1] \in [S -> [R -> Nat]]
<1> DEFINE g == [f EXCEPT ![x][y] = @ + 1]
<1>1. DOMAIN g = S /\ g = [z \in S |-> g[z]]
  OBVIOUS
<1>2. ASSUME NEW z \in S PROVE g[z] \in [R -> Nat]
  <2>1. CASE z = x
    BY <2>1, Increment
  <2>2. CASE z # x
    BY <2>2
  <2> QED
    BY <2>1, <2>2
<1> QED
  BY <1>1, <1>2

(***************************************************************************)
(* Every variable keeps its type.                                          *)
(***************************************************************************)
LEMMA TypeInductive == TypeOK /\ [Next]_vars => TypeOK'
<1> SUFFICES ASSUME TypeOK, [Next]_vars PROVE TypeOK'
  OBVIOUS
<1> USE MessageFacts, FaultsAssumption DEF TypeOK, Outcomes, Statuses, AuditKinds, Writes,
      Running, WorkerSteps, database, worker, Published, Goes, Fault
<1>1. ASSUME NEW t \in Tasks, RequestStep(t) PROVE TypeOK'
  <2>1. CASE Enqueue(t)
    BY <2>1 DEF Enqueue
  <2>2. CASE CommitEnqueue(t)
    BY <2>2 DEF CommitEnqueue
  <2>3. CASE Dispatch(t)
    BY <2>3 DEF Dispatch
  <2> QED
    BY <1>1, <2>1, <2>2, <2>3 DEF RequestStep
<1>2. ASSUME NEW w \in Workers, RunStep(w) PROVE TypeOK'
  <2>1. CASE Receive(w)
    BY <2>1 DEF Receive
  <2>2. CASE Claim(w)
    BY <2>2 DEF Claim
  <2>3. CASE CommitClaim(w)
    BY <2>3 DEF CommitClaim
  <2>4. CASE Skip(w)
    BY <2>4 DEF Skip
  <2>5. CASE NoCredentials(w) \/ ModelReplies(w) \/ ModelRaises(w)
    BY <2>5 DEF NoCredentials, ModelReplies, ModelRaises, RunEnds
  <2>6. CASE CallModel(w)
    <3>1. calls' \in [Tasks -> Nat]
      BY <2>6, Increment DEF CallModel
    <3> QED
      BY <2>6, <3>1 DEF CallModel
  <2>7. CASE InsertConversation(w) \/ UpdateRow(w) \/ InsertAudit(w)
    <3>1. PICK s \in Writes : Write(w, s)
      BY <2>7 DEF InsertConversation, UpdateRow, InsertAudit
    <3> QED
      BY <3>1 DEF Write
  <2>8. CASE CommitOutcome(w)
    <3>1. conversations' \in [Messages -> Nat]
      BY <2>8, Increment DEF CommitOutcome
    <3>2. audits' \in [Messages -> [AuditKinds -> Nat]]
      BY <2>8, IncrementWithin DEF CommitOutcome
    <3>3. row' \in [Tasks -> Statuses]
      BY <2>8 DEF CommitOutcome
    <3> QED
      BY <2>8, <3>1, <3>2, <3>3 DEF CommitOutcome
  <2>9. CASE Acknowledge(w)
    BY <2>9 DEF Acknowledge, Leaves
  <2> QED
    BY <1>2, <2>1, <2>2, <2>3, <2>4, <2>5, <2>6, <2>7, <2>8, <2>9 DEF RunStep
<1>3. ASSUME FaultStep PROVE TypeOK'
  <2>0. faults' \in [count: 0 .. MaxFaults, kinds: SUBSET FaultKinds]
    BY <1>3 DEF FaultStep, DispatchTwice, RequestFails, DatabaseError, ChildLost, WorkerLost,
         Redeliver, Misroute
  <2>1. ASSUME NEW t \in Tasks, DispatchTwice(t) \/ RequestFails(t) PROVE TypeOK'
    <3>1. queue' \in [Messages -> Nat]
      <4>1. PICK n \in 0 .. 2 : queue' = [queue EXCEPT ![Home(t)] = @ + n]
        BY <2>1 DEF DispatchTwice, RequestFails
      <4> QED
        BY <4>1, Increment
    <3> QED
      BY <2>0, <2>1, <3>1 DEF DispatchTwice, RequestFails
  <2>2. ASSUME NEW w \in Workers, DatabaseError(w) \/ ChildLost(w) \/ WorkerLost(w)
        PROVE TypeOK'
    <3>1. queue' \in [Messages -> Nat]
      BY <2>2, Increment DEF DatabaseError, ChildLost, WorkerLost
    <3>2. UNCHANGED <<request, database, calls>>
      BY <2>2 DEF DatabaseError, ChildLost, WorkerLost, Leaves
    <3>3. Leaves(w)
      BY <2>2 DEF DatabaseError, ChildLost, WorkerLost
    <3> QED
      BY <2>0, <3>1, <3>2, <3>3 DEF Leaves
  <2>3. ASSUME NEW w \in Workers, Redeliver(w) PROVE TypeOK'
    <3>1. queue' \in [Messages -> Nat]
      BY <2>3, Increment DEF Redeliver
    <3> QED
      BY <2>0, <2>3, <3>1 DEF Redeliver
  <2>4. ASSUME NEW m \in Messages, Misroute(m) PROVE TypeOK'
    BY <2>4 DEF Misroute
  <2> QED
    BY <1>3, <2>1, <2>2, <2>3, <2>4 DEF FaultStep
<1>4. CASE UNCHANGED vars
  BY <1>4 DEF vars
<1> QED
  BY <1>1, <1>2, <1>3, <1>4 DEF Next

(***************************************************************************)
(* Whatever fails, every variable of the request, the broker, the workers  *)
(* and the database keeps its type; in particular a row never holds a      *)
(* status that the check constraint of agent_tasks would refuse.           *)
(***************************************************************************)
THEOREM TypeCorrect == Spec => []TypeOK
<1>1. Init => TypeOK
  BY OwnerAssumption, FaultsAssumption
     DEF Init, TypeOK, Messages, Home, Outcomes, Statuses, AuditKinds, Writes, Running,
         WorkerSteps
<1> QED
  BY <1>1, TypeInductive, PTL DEF Spec

(***************************************************************************)
(* The invariant that every safety property rests on is inductive.         *)
(***************************************************************************)
LEMMA RunInvInductive == RunInv /\ [Next]_vars => RunInv'
<1> SUFFICES ASSUME RunInv, [Next]_vars PROVE RunInv'
  OBVIOUS
<1> TypeOK'
  BY TypeInductive DEF RunInv
<1> USE MessageFacts DEF RunInv, MessagesInv, RequestInv, TransactionInv, ClaimInv,
      ExclusiveInv, Owns, AtMostOneModelCall, Abstract!ChargesMatchStatus, SkipIsJustified,
      TypeOK, Outcomes, Running, database, worker, Published, Goes
<1>1. ASSUME NEW t \in Tasks, RequestStep(t) PROVE RunInv'
  <2>1. CASE Enqueue(t)
    BY <2>1 DEF Enqueue
  <2>2. CASE CommitEnqueue(t)
    BY <2>2 DEF CommitEnqueue
  <2>3. CASE Dispatch(t)
    BY <2>3 DEF Dispatch
  <2> QED
    BY <1>1, <2>1, <2>2, <2>3 DEF RequestStep
<1>2. ASSUME NEW w \in Workers, RunStep(w) PROVE RunInv'
  <2>1. CASE Receive(w)
    BY <2>1 DEF Receive
  <2>2. CASE Claim(w)
    <3>1. CASE Claimable(job[w])
      <4>1. ASSUME NEW v \in Workers, v # w, Owns(v) PROVE job[v].task # job[w].task
        BY <2>2, <3>1, <4>1 DEF Claim, Claimable, RowLocked
      <4> QED
        BY <2>2, <3>1, <4>1 DEF Claim, Claimable
    <3>2. CASE ~ Claimable(job[w])
      BY <2>2, <3>2 DEF Claim, Claimable
    <3> QED
      BY <3>1, <3>2
  <2>3. CASE CommitClaim(w)
    BY <2>3 DEF CommitClaim
  <2>4. CASE Skip(w)
    BY <2>4 DEF Skip
  <2>5. CASE NoCredentials(w)
    BY <2>5 DEF NoCredentials, RunEnds
  <2>6. CASE CallModel(w)
    BY <2>6 DEF CallModel
  <2>7. CASE ModelReplies(w)
    BY <2>7 DEF ModelReplies, RunEnds
  <2>8. CASE ModelRaises(w)
    BY <2>8 DEF ModelRaises, RunEnds
  <2>9. CASE InsertConversation(w)
    BY <2>9 DEF InsertConversation, Write
  <2>10. CASE UpdateRow(w)
    BY <2>10 DEF UpdateRow, Write
  <2>11. CASE InsertAudit(w)
    BY <2>11 DEF InsertAudit, Write
  <2>12. CASE CommitOutcome(w)
    BY <2>12 DEF CommitOutcome, Updatable
  <2>13. CASE Acknowledge(w)
    BY <2>13 DEF Acknowledge, Leaves
  <2> QED
    BY <1>2, <2>1, <2>2, <2>3, <2>4, <2>5, <2>6, <2>7, <2>8, <2>9, <2>10, <2>11, <2>12, <2>13
       DEF RunStep
<1>3. ASSUME FaultStep PROVE RunInv'
  <2>1. ASSUME NEW t \in Tasks, DispatchTwice(t) PROVE RunInv'
    BY <2>1 DEF DispatchTwice
  <2>2. ASSUME NEW t \in Tasks, RequestFails(t) PROVE RunInv'
    BY <2>2 DEF RequestFails
  <2>3. ASSUME NEW w \in Workers, DatabaseError(w) \/ ChildLost(w) PROVE RunInv'
    <3>1. Leaves(w) /\ UNCHANGED queue
      BY <2>3 DEF DatabaseError, ChildLost
    <3> QED
      BY <3>1 DEF Leaves
  <2>4. ASSUME NEW w \in Workers, WorkerLost(w) PROVE RunInv'
    BY <2>4 DEF WorkerLost, Leaves
  <2>5. ASSUME NEW w \in Workers, Redeliver(w) PROVE RunInv'
    BY <2>5 DEF Redeliver
  <2>6. ASSUME NEW m \in Messages, Misroute(m) PROVE RunInv'
    BY <2>6 DEF Misroute
  <2> QED
    BY <1>3, <2>1, <2>2, <2>3, <2>4, <2>5, <2>6 DEF FaultStep
<1>4. CASE UNCHANGED vars
  BY <1>4 DEF vars
<1> QED
  BY <1>1, <1>2, <1>3, <1>4 DEF Next

(***************************************************************************)
(* The invariant of a run holds in every reachable state: one owner per    *)
(* claimed task, and in every open transaction only the writes that        *)
(* run_agent has made so far.                                              *)
(***************************************************************************)
THEOREM RunInvariant == Spec => []RunInv
<1>1. Init => TypeOK
  BY OwnerAssumption, FaultsAssumption
     DEF Init, TypeOK, Messages, Home, Outcomes, Statuses, AuditKinds, Writes, Running,
         WorkerSteps
<1>2. Init => RunInv
  BY <1>1, MessageFacts
     DEF Init, RunInv, MessagesInv, RequestInv, TransactionInv, ClaimInv, ExclusiveInv, Owns,
         AtMostOneModelCall, Abstract!ChargesMatchStatus, SkipIsJustified, Running
<1> QED
  BY <1>2, RunInvInductive, PTL DEF Spec

(***************************************************************************)
(* The model is never charged twice for a task, whatever is redelivered,   *)
(* published twice or lost.                                                *)
(***************************************************************************)
THEOREM OneModelCall == Spec => []AtMostOneModelCall
<1>1. RunInv => AtMostOneModelCall
  BY DEF RunInv
<1> QED
  BY <1>1, RunInvariant, PTL

(***************************************************************************)
(* A worker skips a message of the right tenant only after another         *)
(* delivery committed its claim.                                           *)
(***************************************************************************)
THEOREM SkipsAreJustified == Spec => []SkipIsJustified
<1>1. RunInv => SkipIsJustified
  BY DEF RunInv
<1> QED
  BY <1>1, RunInvariant, PTL

(***************************************************************************)
(* A run abandoned after its claim stays abandoned and is not charged      *)
(* again.                                                                  *)
(***************************************************************************)
THEOREM NoRetryOfAbandonedRuns == Spec => NoAutomaticRetry
<1>1. ASSUME RunInv, [Next]_vars, NEW t \in Tasks, Abandoned(t)
      PROVE  Abandoned(t)' /\ calls'[t] = calls[t]
  <2> USE <1>1, MessageFacts DEF Abandoned, RunInv, MessagesInv, RequestInv, TransactionInv,
        ClaimInv, TypeOK, Outcomes, Running, database, worker, Goes
  <2>1. CASE \E u \in Tasks : RequestStep(u)
    BY <2>1 DEF RequestStep, Enqueue, CommitEnqueue, Dispatch
  <2>2. ASSUME NEW w \in Workers, RunStep(w) PROVE Abandoned(t)' /\ calls'[t] = calls[t]
    <3>1. CASE Receive(w) \/ Claim(w) \/ CommitClaim(w) \/ Skip(w)
      BY <3>1 DEF Receive, Claim, CommitClaim, Skip
    <3>2. CASE NoCredentials(w) \/ CallModel(w) \/ ModelReplies(w) \/ ModelRaises(w)
      BY <3>2 DEF NoCredentials, CallModel, ModelReplies, ModelRaises, RunEnds
    <3>3. CASE InsertConversation(w) \/ UpdateRow(w) \/ InsertAudit(w)
      BY <3>3 DEF InsertConversation, UpdateRow, InsertAudit, Write
    <3>4. CASE CommitOutcome(w) \/ Acknowledge(w)
      BY <3>4 DEF CommitOutcome, Acknowledge, Leaves
    <3> QED
      BY <2>2, <3>1, <3>2, <3>3, <3>4 DEF RunStep
  <2>3. CASE FaultStep
    <3>1. UNCHANGED <<row, calls>>
      BY <2>3 DEF FaultStep, DispatchTwice, RequestFails, DatabaseError, ChildLost, WorkerLost,
           Leaves, Redeliver, Misroute
    <3>2. \/ UNCHANGED <<wpc, job>>
          \/ \E w \in Workers : Leaves(w)
      BY <2>3 DEF FaultStep, DispatchTwice, RequestFails, DatabaseError, ChildLost, WorkerLost,
           Redeliver, Misroute
    <3> QED
      BY <3>1, <3>2 DEF Leaves
  <2>4. CASE UNCHANGED vars
    BY <2>4 DEF vars
  <2> QED
    BY <2>1, <2>2, <2>3, <2>4 DEF Next
<1>2. RunInv /\ [Next]_vars
        => [\A t \in Tasks : Abandoned(t) => Abandoned(t)' /\ calls'[t] = calls[t]]_vars
  BY <1>1
<1> QED
  BY <1>2, RunInvariant, PTL DEF Spec, NoAutomaticRetry

(***************************************************************************)
(* A fault that has happened stays in the record of faults.                *)
(***************************************************************************)
LEMMA FaultsRemembered ==
  ASSUME TypeOK, [Next]_vars
  PROVE  faults.kinds \subseteq faults'.kinds
<1>1. CASE UNCHANGED faults
  BY <1>1
<1>2. CASE \E kind \in FaultKinds : Fault(kind)
  BY <1>2 DEF Fault
<1>3. (\E kind \in FaultKinds : Fault(kind)) \/ UNCHANGED faults
  <2>1. (\E t \in Tasks : RequestStep(t)) => UNCHANGED faults
    BY DEF RequestStep, Enqueue, CommitEnqueue, Dispatch
  <2>2. (\E w \in Workers : RunStep(w)) => UNCHANGED faults
    BY DEF RunStep, Receive, Claim, CommitClaim, Skip, NoCredentials, CallModel, ModelReplies,
         ModelRaises, RunEnds, InsertConversation, UpdateRow, InsertAudit, Write, CommitOutcome,
         Acknowledge
  <2>3. FaultStep => \E kind \in FaultKinds : Fault(kind)
    BY DEF FaultStep, DispatchTwice, RequestFails, DatabaseError, ChildLost, WorkerLost,
         Redeliver, Misroute, FaultKinds
  <2> QED
    BY <2>1, <2>2, <2>3 DEF Next, vars
<1> QED
  BY <1>1, <1>2, <1>3

(***************************************************************************)
(* A copy of the message of a pending task stays owed, and a claimed run   *)
(* keeps its worker, in every step but the losses.                         *)
(***************************************************************************)
LEMMA LossInvInductive ==
  ASSUME RunInv, RunInv', LossInv, [Next]_vars
  PROVE  LossInv'
<1>1. \A kinds : Happened(kinds) => Happened(kinds)'
  BY FaultsRemembered DEF Happened, RunInv
<1> USE <1>1, MessageFacts DEF LossInv, Owed, Abandoned, RunInv, MessagesInv, TransactionInv,
      ClaimInv, TypeOK, Running, database, worker, Published, Goes
<1>2. ASSUME NEW t \in Tasks, RequestStep(t) PROVE LossInv'
  <2>1. CASE Enqueue(t)
    BY <2>1 DEF Enqueue
  <2>2. CASE CommitEnqueue(t)
    BY <2>2 DEF CommitEnqueue
  <2>3. CASE Dispatch(t)
    BY <2>3 DEF Dispatch
  <2> QED
    BY <1>2, <2>1, <2>2, <2>3 DEF RequestStep
<1>3. ASSUME NEW w \in Workers, RunStep(w) PROVE LossInv'
  <2>1. CASE Receive(w)
    BY <2>1 DEF Receive
  <2>2. CASE Claim(w)
    BY <2>2 DEF Claim
  <2>3. CASE CommitClaim(w)
    BY <2>3 DEF CommitClaim
  <2>4. CASE Skip(w)
    BY <2>4 DEF Skip
  <2>5. CASE NoCredentials(w) \/ CallModel(w) \/ ModelReplies(w) \/ ModelRaises(w)
    BY <2>5 DEF NoCredentials, CallModel, ModelReplies, ModelRaises, RunEnds
  <2>6. CASE InsertConversation(w) \/ UpdateRow(w) \/ InsertAudit(w)
    <3>1. UNCHANGED <<request, database, queue, wpc, job, held>>
      BY <2>6 DEF InsertConversation, UpdateRow, InsertAudit, Write
    <3> QED
      BY <3>1
  <2>7. CASE CommitOutcome(w)
    <3>1. /\ row' = [row EXCEPT ![job[w].task] = outcome[w]]
          /\ wpc[w] = "recording" /\ wpc' = [wpc EXCEPT ![w] = "done"]
          /\ UNCHANGED <<request, queue, job, held>>
      BY <2>7 DEF CommitOutcome, Updatable
    <3>2. outcome[w] \in {"succeeded", "failed"}
      BY DEF Outcomes
    <3>3. ASSUME NEW t \in Tasks, Owed(t) PROVE Owed(t)'
      BY <3>1, <3>3
    <3>4. ASSUME NEW t \in Tasks, Abandoned(t)' PROVE Abandoned(t)
      BY <3>1, <3>2, <3>4
    <3>5. ASSUME NEW t \in Tasks, row'[t] = "pending" PROVE row[t] = "pending"
      BY <3>1, <3>2, <3>5
    <3> QED
      BY <3>1, <3>3, <3>4, <3>5
  <2>8. CASE Acknowledge(w)
    <3>1. /\ wpc[w] \in {"skipped", "done"} /\ wpc' = [wpc EXCEPT ![w] = "idle"]
          /\ job' = [job EXCEPT ![w] = NoMessage]
          /\ held' = [held EXCEPT ![w] = FALSE]
          /\ UNCHANGED <<request, row, queue>>
      BY <2>8 DEF Acknowledge, Leaves
    <3>2. ASSUME NEW t \in Tasks, Owed(t) PROVE Owed(t)'
      BY <3>1, <3>2
    <3>3. ASSUME NEW t \in Tasks, Abandoned(t)' PROVE Abandoned(t)
      BY <3>1, <3>3
    <3> QED
      BY <3>1, <3>2, <3>3
  <2> QED
    BY <1>3, <2>1, <2>2, <2>3, <2>4, <2>5, <2>6, <2>7, <2>8 DEF RunStep
<1>4. ASSUME FaultStep PROVE LossInv'
  <2>1. ASSUME NEW t \in Tasks, DispatchTwice(t) \/ RequestFails(t) PROVE LossInv'
    BY <2>1 DEF DispatchTwice, RequestFails
  <2>2. ASSUME NEW w \in Workers, DatabaseError(w) \/ ChildLost(w) PROVE LossInv'
    <3>1. Happened({"database", "child"})' /\ Happened({"database", "child", "worker"})'
      <4>1. PICK kind \in {"database", "child"} : Fault(kind)
        BY <2>2 DEF DatabaseError, ChildLost
      <4>2. kind \in faults'.kinds
        BY <4>1 DEF Fault
      <4> QED
        BY <4>2 DEF Happened
    <3> QED
      BY <3>1
  <2>3. ASSUME NEW w \in Workers, WorkerLost(w) PROVE LossInv'
    <3>1. Happened({"database", "child", "worker"})'
      BY <2>3 DEF WorkerLost, Fault, Happened
    <3>2. ASSUME NEW t \in Tasks, Owed(t) PROVE Owed(t)'
      BY <2>3, <3>2 DEF WorkerLost, Leaves
    <3> QED
      BY <2>3, <3>1, <3>2 DEF WorkerLost, Leaves
  <2>4. ASSUME NEW w \in Workers, Redeliver(w) PROVE LossInv'
    BY <2>4 DEF Redeliver
  <2>5. ASSUME NEW m \in Messages, Misroute(m) PROVE LossInv'
    BY <2>5 DEF Misroute
  <2> QED
    BY <1>4, <2>1, <2>2, <2>3, <2>4, <2>5 DEF FaultStep
<1>5. CASE UNCHANGED vars
  BY <1>5 DEF vars
<1> QED
  BY <1>2, <1>3, <1>4, <1>5 DEF Next

(***************************************************************************)
(* An accepted task is stranded before its claim only by an exception or   *)
(* a killed child, and after it only by one of these or a lost worker.     *)
(***************************************************************************)
THEOREM OnlyLossesStrand == Spec => []StrandedByLossOnly
<1>1. Init => LossInv
  BY DEF Init, LossInv, Abandoned
<1>2. RunInv /\ RunInv' /\ LossInv /\ [Next]_vars => LossInv'
  BY LossInvInductive
<1>3. LossInv => StrandedByLossOnly
  BY DEF LossInv, StrandedByLossOnly, Owed, InHand
<1> QED
  BY <1>1, <1>2, <1>3, RunInvariant, PTL DEF Spec

(***************************************************************************)
(* Every step a run takes is a step of AgentTaskSpec, or changes nothing   *)
(* that the database or the bill shows.                                    *)
(***************************************************************************)
LEMMA StepImplements ==
  ASSUME RunInv, [Next]_vars
  PROVE  [Abstract!Next]_(Abstract!vars)
<1> USE MessageFacts DEF RunInv, MessagesInv, RequestInv, TransactionInv, ClaimInv,
      TypeOK, Outcomes, Running, database, worker, Goes, Home, Abstract!Home,
      Abstract!vars, Abstract!Next
<1>1. ASSUME NEW t \in Tasks, RequestStep(t) PROVE [Abstract!Next]_(Abstract!vars)
  <2>1. CASE Enqueue(t) \/ Dispatch(t)
    BY <2>1 DEF Enqueue, Dispatch
  <2>2. CASE CommitEnqueue(t)
    BY <2>2 DEF CommitEnqueue, Abstract!Create
  <2> QED
    BY <1>1, <2>1, <2>2 DEF RequestStep
<1>2. ASSUME NEW w \in Workers, RunStep(w) PROVE [Abstract!Next]_(Abstract!vars)
  <2>1. CASE Receive(w) \/ Claim(w) \/ Skip(w) \/ NoCredentials(w) \/ ModelReplies(w)
               \/ ModelRaises(w) \/ Acknowledge(w)
    BY <2>1 DEF Receive, Claim, Skip, NoCredentials, ModelReplies, ModelRaises, RunEnds,
         Acknowledge, Leaves
  <2>2. CASE InsertConversation(w) \/ UpdateRow(w) \/ InsertAudit(w)
    BY <2>2 DEF InsertConversation, UpdateRow, InsertAudit, Write
  <2>3. CASE CommitClaim(w)
    <3>1. Abstract!Claim(job[w].task)
      BY <2>3 DEF CommitClaim, Abstract!Claim
    <3> QED
      BY <2>3, <3>1 DEF CommitClaim
  <2>4. CASE CallModel(w)
    <3>1. Abstract!Charge(job[w].task)
      <4>1. calls[job[w].task] = 0 /\ row[job[w].task] = "running"
        BY <2>4 DEF CallModel
      <4>2. calls' = [calls EXCEPT ![job[w].task] = 1]
        BY <2>4, <4>1 DEF CallModel
      <4> QED
        BY <2>4, <4>1, <4>2 DEF CallModel, Abstract!Charge
    <3> QED
      BY <2>4, <3>1 DEF CallModel
  <2>5. CASE CommitOutcome(w)
    <3>1. job[w] = Home(job[w].task) /\ Updatable(job[w])
      BY <2>5 DEF CommitOutcome, Updatable
    <3>2. CASE outcome[w] = "succeeded"
      <4>1. Abstract!Succeed(job[w].task)
        BY <2>5, <3>1, <3>2 DEF CommitOutcome, Abstract!Succeed
      <4> QED
        BY <2>5, <4>1 DEF CommitOutcome
    <3>3. CASE outcome[w] = "failed"
      <4>1. Abstract!Fail(job[w].task)
        BY <2>5, <3>1, <3>3 DEF CommitOutcome, Abstract!Fail
      <4> QED
        BY <2>5, <4>1 DEF CommitOutcome
    <3> QED
      BY <3>2, <3>3
  <2> QED
    BY <1>2, <2>1, <2>2, <2>3, <2>4, <2>5 DEF RunStep
<1>3. CASE FaultStep
  BY <1>3 DEF FaultStep, DispatchTwice, RequestFails, DatabaseError, ChildLost, WorkerLost,
       Leaves, Redeliver, Misroute
<1>4. CASE UNCHANGED vars
  BY <1>4 DEF vars
<1> QED
  BY <1>1, <1>2, <1>3, <1>4 DEF Next

(***************************************************************************)
(* A background run implements AgentTaskSpec.                              *)
(***************************************************************************)
THEOREM Implements == Spec => ImplementsAgentTaskSpec
<1>1. Init => Abstract!Init
  BY DEF Init, Abstract!Init, Messages, Abstract!Places, AuditKinds, Abstract!AuditKinds,
       Outcomes, Abstract!Outcomes
<1>2. RunInv /\ [Next]_vars => [Abstract!Next]_(Abstract!vars)
  BY StepImplements
<1> QED
  BY <1>1, <1>2, RunInvariant, PTL DEF Spec, ImplementsAgentTaskSpec, Abstract!Spec

(***************************************************************************)
(* How many records of a kind a task with status s has.                    *)
(***************************************************************************)
Expected(s, k) ==
  IF k = "enqueued" THEN IF s # "none" THEN 1 ELSE 0 ELSE IF s = k THEN 1 ELSE 0

Agrees(t) ==
  /\ \A k \in AuditKinds : audits[Home(t)][k] = Expected(row[t], k)
  /\ conversations[Home(t)] = Expected(row[t], "succeeded")

Empty(m) == conversations[m] = 0 /\ \A k \in AuditKinds : audits[m][k] = 0

Consistent ==
  /\ \A t \in Tasks : Agrees(t)
  /\ \A m \in Messages : ~ Visible(m) => Empty(m)

(***************************************************************************)
(* Consistent, whose conditions are about one task or one message each, is *)
(* what RecordsMatchRow says.                                              *)
(***************************************************************************)
LEMMA ConsistentMeans ==
  ASSUME TypeOK, Consistent
  PROVE  RecordsMatchRow
<1> USE MessageFacts DEF TypeOK, Consistent, Agrees, Empty
<1>1. Abstract!Places = Messages /\ Abstract!AuditKinds = AuditKinds
  BY DEF Messages, Abstract!Places, AuditKinds, Abstract!AuditKinds, Outcomes, Abstract!Outcomes
<1>2. ASSUME NEW t \in Tasks
      PROVE  /\ Abstract!Home(t) = Home(t)
             /\ audits[Home(t)] = [k \in AuditKinds |->
                  IF k = "enqueued" THEN Abstract!Bit(row[t] # "none")
                                    ELSE Abstract!Bit(row[t] = k)]
             /\ conversations[Home(t)] = Abstract!Bit(row[t] = "succeeded")
  <2>1. Abstract!Home(t) = Home(t)
    BY DEF Home, Abstract!Home
  <2>2. \A k \in AuditKinds :
          audits[Home(t)][k] = IF k = "enqueued" THEN Abstract!Bit(row[t] # "none")
                                                 ELSE Abstract!Bit(row[t] = k)
    BY DEF Expected, Abstract!Bit
  <2>3. conversations[Home(t)] = Abstract!Bit(row[t] = "succeeded")
    BY DEF Expected, Abstract!Bit
  <2> QED
    BY <2>1, <2>2, <2>3
<1>3. Abstract!RecordsMatchStatus
  BY <1>1, <1>2 DEF Abstract!RecordsMatchStatus
<1>4. ASSUME NEW m \in Messages, m.tenant # Owner[m.task]
      PROVE  conversations[m] = 0 /\ audits[m] = [k \in AuditKinds |-> 0]
  BY <1>4 DEF Visible
<1>5. NothingUnderAnotherTenant
  BY <1>1, <1>4 DEF NothingUnderAnotherTenant, Abstract!NothingElsewhere
<1> QED
  BY <1>3, <1>5 DEF RecordsMatchRow

\* The step changes the row and the records of t and of no other task.
Touches(t) ==
  /\ \A u \in Tasks \ {t} : row'[u] = row[u]
  /\ \A m \in Messages \ {Home(t)} : conversations'[m] = conversations[m] /\ audits'[m] = audits[m]

(***************************************************************************)
(* A step that touches the row and the records of one task, and leaves     *)
(* them in agreement, keeps the records consistent.                        *)
(***************************************************************************)
LEMMA RecordStep ==
  ASSUME Consistent, NEW t \in Tasks, Touches(t), Agrees(t)'
  PROVE  Consistent'
<1> USE MessageFacts
<1>1. ASSUME NEW u \in Tasks, u # t PROVE Agrees(u)'
  <2>1. Home(u) \in Messages \ {Home(t)}
    BY <1>1
  <2> QED
    BY <1>1, <2>1 DEF Touches, Consistent, Agrees
<1>2. ASSUME NEW m \in Messages, ~ Visible(m) PROVE Empty(m)'
  BY <1>2 DEF Touches, Consistent, Empty
<1> QED
  BY <1>1, <1>2 DEF Consistent, Visible

(***************************************************************************)
(* AgentTaskSpec keeps the records consistent.                             *)
(***************************************************************************)
LEMMA RecordsInductive ==
  ASSUME TypeOK, Consistent, [Abstract!Next]_(Abstract!vars)
  PROVE  Consistent'
<1> USE MessageFacts DEF TypeOK
<1>0. \A t \in Tasks : Abstract!Home(t) = Home(t)
  BY DEF Home, Abstract!Home
<1>1. ASSUME NEW t \in Tasks, Abstract!Create(t) PROVE Consistent'
  <2>1. /\ row[t] = "none" /\ row' = [row EXCEPT ![t] = "pending"]
        /\ audits' = [audits EXCEPT ![Home(t)]["enqueued"] = @ + 1]
        /\ conversations' = conversations
    BY <1>0, <1>1 DEF Abstract!Create
  <2>2. Touches(t)
    BY <2>1 DEF Touches
  <2>3. ASSUME NEW k \in AuditKinds PROVE audits'[Home(t)][k] = Expected("pending", k)
    <3>1. audits[Home(t)][k] = Expected("none", k)
      BY <2>1 DEF Consistent, Agrees
    <3> QED
      BY <2>1, <3>1 DEF Expected, AuditKinds, Outcomes
  <2>4. conversations'[Home(t)] = Expected("pending", "succeeded")
    BY <2>1 DEF Consistent, Agrees, Expected
  <2>5. row'[t] = "pending"
    BY <2>1
  <2>6. Agrees(t)'
    BY <2>3, <2>4, <2>5 DEF Agrees
  <2> QED
    BY <2>2, <2>6, RecordStep
<1>2. ASSUME NEW t \in Tasks, Abstract!Claim(t) PROVE Consistent'
  <2>1. Touches(t) /\ row[t] = "pending" /\ row'[t] = "running"
    BY <1>2 DEF Abstract!Claim, Touches
  <2>2. Agrees(t)'
    BY <1>2, <2>1 DEF Abstract!Claim, Consistent, Agrees, Expected, AuditKinds, Outcomes
  <2> QED
    BY <2>1, <2>2, RecordStep
<1>3. ASSUME NEW t \in Tasks, Abstract!Succeed(t) PROVE Consistent'
  <2>1. /\ row[t] = "running" /\ row' = [row EXCEPT ![t] = "succeeded"]
        /\ audits' = [audits EXCEPT ![Home(t)]["succeeded"] = @ + 1]
        /\ conversations' = [conversations EXCEPT ![Home(t)] = @ + 1]
    BY <1>0, <1>3 DEF Abstract!Succeed
  <2>2. Touches(t)
    BY <2>1 DEF Touches
  <2>3. ASSUME NEW k \in AuditKinds PROVE audits'[Home(t)][k] = Expected("succeeded", k)
    <3>1. audits[Home(t)][k] = Expected("running", k)
      BY <2>1 DEF Consistent, Agrees
    <3> QED
      BY <2>1, <3>1 DEF Expected, AuditKinds, Outcomes
  <2>4. conversations'[Home(t)] = Expected("succeeded", "succeeded")
    BY <2>1 DEF Consistent, Agrees, Expected
  <2>5. row'[t] = "succeeded"
    BY <2>1
  <2>6. Agrees(t)'
    BY <2>3, <2>4, <2>5 DEF Agrees
  <2> QED
    BY <2>2, <2>6, RecordStep
<1>4. ASSUME NEW t \in Tasks, Abstract!Fail(t) PROVE Consistent'
  <2>1. /\ row[t] = "running" /\ row' = [row EXCEPT ![t] = "failed"]
        /\ audits' = [audits EXCEPT ![Home(t)]["failed"] = @ + 1]
        /\ conversations' = conversations
    BY <1>0, <1>4 DEF Abstract!Fail
  <2>2. Touches(t)
    BY <2>1 DEF Touches
  <2>3. ASSUME NEW k \in AuditKinds PROVE audits'[Home(t)][k] = Expected("failed", k)
    <3>1. audits[Home(t)][k] = Expected("running", k)
      BY <2>1 DEF Consistent, Agrees
    <3> QED
      BY <2>1, <3>1 DEF Expected, AuditKinds, Outcomes
  <2>4. conversations'[Home(t)] = Expected("failed", "succeeded")
    BY <2>1 DEF Consistent, Agrees, Expected
  <2>5. row'[t] = "failed"
    BY <2>1
  <2>6. Agrees(t)'
    BY <2>3, <2>4, <2>5 DEF Agrees
  <2> QED
    BY <2>2, <2>6, RecordStep
<1>5. ASSUME UNCHANGED <<row, conversations, audits>> PROVE Consistent'
  BY <1>5 DEF Consistent, Agrees, Empty, Visible
<1>6. ASSUME NEW t \in Tasks, Abstract!Charge(t) PROVE Consistent'
  BY <1>5, <1>6 DEF Abstract!Charge
<1> QED
  BY <1>1, <1>2, <1>3, <1>4, <1>5, <1>6 DEF Abstract!Next, Abstract!vars

(***************************************************************************)
(* The records of a run always agree with its row, and nothing about it is *)
(* stored under another tenant.                                            *)
(***************************************************************************)
THEOREM RecordsAreConsistent == Spec => []RecordsMatchRow
<1>1. Init => Consistent
  BY MessageFacts DEF Init, Consistent, Agrees, Empty, Expected, AuditKinds, Outcomes
<1>2. RunInv /\ [Next]_vars /\ Consistent => Consistent'
  BY StepImplements, RecordsInductive DEF RunInv
<1>3. RunInv /\ Consistent => RecordsMatchRow
  BY ConsistentMeans DEF RunInv
<1> QED
  BY <1>1, <1>2, <1>3, RunInvariant, PTL DEF Spec

(***************************************************************************)
(* Nothing that a run writes is filed under another tenant than the one    *)
(* its request came from.                                                  *)
(***************************************************************************)
THEOREM FiledUnderItsTenant == Spec => []NothingUnderAnotherTenant
<1>1. RecordsMatchRow => NothingUnderAnotherTenant
  BY DEF RecordsMatchRow
<1> QED
  BY <1>1, RecordsAreConsistent, PTL

=============================================================================
