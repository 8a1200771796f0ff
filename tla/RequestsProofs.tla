---------------------------- MODULE RequestsProofs ----------------------------
(***************************************************************************)
(* Theorems about Requests, for any requests, pool and faults.             *)
(***************************************************************************)
EXTENDS Requests, FiniteSetTheorems, TLAPS

TypesInv ==
    /\ pc \in [Requests -> Steps]
    /\ kind \in [Requests -> Kinds]
    /\ holds \in SUBSET Requests
    /\ pending \in [Requests -> SUBSET Records]
    /\ records \in [Requests -> SUBSET Records]
    /\ reply \in [Requests -> {"none", "ok", "refused", "denied", "error", "degraded"}]
    /\ faults \in 0 .. MaxFaults

PoolInv == IsFiniteSet(holds) /\ Cardinality(holds) <= PoolSize

Holding == {"authorising", "handling", "refusing", "recording", "replied"}

\* What a request's session holds at each of its steps.
SessionInv ==
    \A r \in Requests :
        /\ r \in holds <=> pc[r] \in Holding
        /\ pc[r] \notin {"refusing", "recording", "replied"} => pending[r] = {}
        /\ pc[r] \in {"refusing", "model", "writing", "recording"} => kind[r] = "chat"
        /\ pc[r] = "authorising" => kind[r] # "health"
        /\ pc[r] = "refusing" => pending[r] = {"refusal"}
        /\ pc[r] = "recording" => pending[r] = {"conversation"}
        /\ pc[r] = "replied" => pending[r] = Client!Complete(kind[r])

\* Nothing is committed or told to the client before the last steps.
OutcomeInv ==
    \A r \in Requests :
        /\ pc[r] # "done" => records[r] = {}
        /\ pc[r] \notin {"replied", "done"} => reply[r] = "none"
        /\ pc[r] = "replied" => reply[r] \in {"ok", "error"}
        /\ pc[r] = "replied" /\ kind[r] # "graphql" => reply[r] = "ok"

RequestInv ==
    /\ TypesInv /\ SessionInv /\ OutcomeInv
    /\ OutcomesOnRecord /\ Client!TogetherOrNothing /\ Client!FailuresLeaveNothing

-----------------------------------------------------------------------------
(* The pool *)

\* However a step ends, it takes one connection that is free, or gives some back.
LEMMA PoolStep ==
    ASSUME PoolInv, [Next]_vars
    PROVE  PoolInv'
<1>1. \/ \E r \in Requests : Takes(r)
      \/ \E r \in Requests : holds' = holds \ {r}
      \/ holds' = {}
      \/ holds' = holds
  BY DEF Next, vars, Acquire, Proceed, Model, RejectToken, Arrive, Open, Deny, Admit, Refuse, CommitRefusal,
     NoCredentials, Release, ModelReplies, ModelRaises, FlushConversation, ReplyToChat,
     RunTool, ToolRaises, ReadHistory, NotFound, ResolveQuery, ResolverRaises, ReportHealth, FinalCommit, StatementFails, ResolverFails, CommitFails, PoolTimeout, ProcessDies, Raises, RollsBack, Commits
<1>2. CASE \E r \in Requests : Takes(r)
  <2>1. PICK r \in Requests : holds' = holds \union {r} /\ Cardinality(holds) < PoolSize
    BY <1>2 DEF Takes, Free
  <2>2. IsFiniteSet(holds') /\ Cardinality(holds') \in {Cardinality(holds), Cardinality(holds) + 1}
    BY <2>1, FS_AddElement, Zenon DEF PoolInv
  <2>3. Cardinality(holds) \in Nat
    BY FS_CardinalityType DEF PoolInv
  <2> QED
    BY <2>1, <2>2, <2>3, PoolAssumption DEF PoolInv
<1>3. CASE \E r \in Requests : holds' = holds \ {r}
  <2>1. PICK r \in Requests : holds' = holds \ {r}
    BY <1>3
  <2>2. IsFiniteSet(holds') /\ Cardinality(holds') \in {Cardinality(holds), Cardinality(holds) - 1}
    BY <2>1, FS_RemoveElement, Zenon DEF PoolInv
  <2>3. Cardinality(holds) \in Nat
    BY FS_CardinalityType DEF PoolInv
  <2> QED
    BY <2>2, <2>3, PoolAssumption DEF PoolInv
<1>4. CASE holds' = {}
  BY <1>4, FS_EmptySet, PoolAssumption DEF PoolInv
<1>5. CASE holds' = holds
  BY <1>5 DEF PoolInv
<1> QED
  BY <1>1, <1>2, <1>3, <1>4, <1>5

-----------------------------------------------------------------------------
(* The requests *)

LEMMA RequestInvInit == Init => RequestInv
  BY FaultsAssumption DEF Init, RequestInv, TypesInv, SessionInv, OutcomeInv, Steps, Kinds, Records,
     Holding, OutcomesOnRecord, Client!TogetherOrNothing, Client!FailuresLeaveNothing

\* A session's commit is the first of its records: they become what was pending.
LEMMA CommitStores ==
    ASSUME TypesInv, OutcomeInv, NEW r \in Requests, pc[r] # "done", Commits(r)
    PROVE  /\ records' \in [Requests -> SUBSET Records]
           /\ \A q \in Requests : records'[q] = IF q = r THEN pending[r] ELSE records[q]
BY DEF TypesInv, OutcomeInv, Commits

LEMMA RequestInvNext == RequestInv /\ [Next]_vars => RequestInv'
<1> SUFFICES ASSUME RequestInv, [Next]_vars PROVE RequestInv'
  OBVIOUS
<1> USE DEF RequestInv, TypesInv, SessionInv, OutcomeInv, Holding, Steps, Kinds, Records, Client!Complete,
        OutcomesOnRecord, Client!TogetherOrNothing, Client!FailuresLeaveNothing,
        Goes, Replies, Adds, Takes, Commits, RollsBack, Raises, ErrorFor, Fault
<1>0. CASE \E r \in Requests : RejectToken(r)
  BY <1>0 DEF RejectToken
<1>1. CASE \E r \in Requests : Arrive(r)
  BY <1>1 DEF Arrive
<1>2. CASE \E r \in Requests : Open(r)
  BY <1>2 DEF Open
<1>3. CASE \E r \in Requests : Deny(r)
  BY <1>3 DEF Deny
<1>4. CASE \E r \in Requests : Admit(r)
  BY <1>4 DEF Admit
<1>5. CASE \E r \in Requests : Refuse(r)
  BY <1>5 DEF Refuse
<1>6. CASE \E r \in Requests : CommitRefusal(r)
  <2>1. PICK r \in Requests : CommitRefusal(r)
    BY <1>6
  <2>2. /\ records' \in [Requests -> SUBSET Records]
        /\ \A q \in Requests : records'[q] = IF q = r THEN pending[r] ELSE records[q]
    BY <2>1, CommitStores DEF CommitRefusal
  <2>3. TypesInv'
    BY <2>1, <2>2 DEF CommitRefusal
  <2>4. SessionInv'
    BY <2>1 DEF CommitRefusal
  <2>5. pc[r] = "refusing" /\ UNCHANGED <<kind, faults>>
    BY <2>1 DEF CommitRefusal
  <2>6. /\ \A q \in Requests \ {r} : pc'[q] = pc[q] /\ reply'[q] = reply[q]
        /\ pc'[r] = "done" /\ reply'[r] = "refused"
    BY <2>1 DEF CommitRefusal
  <2>7. OutcomeInv' /\ OutcomesOnRecord'
    BY <2>2, <2>5, <2>6
  <2>8. Client!TogetherOrNothing' /\ Client!FailuresLeaveNothing'
    BY <2>2, <2>5, <2>6
  <2> QED
    BY <2>3, <2>4, <2>7, <2>8
<1>7. CASE \E r \in Requests : NoCredentials(r)
  BY <1>7 DEF NoCredentials
<1>8. CASE \E r \in Requests : Release(r)
  <2>1. PICK r \in Requests : Release(r)
    BY <1>8
  <2>2. /\ records' \in [Requests -> SUBSET Records]
        /\ \A q \in Requests : records'[q] = IF q = r THEN pending[r] ELSE records[q]
    BY <2>1, CommitStores DEF Release
  <2>3. TypesInv'
    BY <2>1, <2>2 DEF Release
  <2>4. SessionInv'
    BY <2>1 DEF Release
  <2>5. pc[r] = "handling" /\ UNCHANGED <<kind, faults>>
    BY <2>1 DEF Release
  <2>6. /\ \A q \in Requests \ {r} : pc'[q] = pc[q] /\ reply'[q] = reply[q]
        /\ pc'[r] = "model" /\ reply'[r] = reply[r]
    BY <2>1 DEF Release
  <2>7. OutcomeInv' /\ OutcomesOnRecord'
    BY <2>2, <2>5, <2>6
  <2>8. Client!TogetherOrNothing' /\ Client!FailuresLeaveNothing'
    BY <2>2, <2>5, <2>6
  <2> QED
    BY <2>3, <2>4, <2>7, <2>8
<1>9. CASE \E r \in Requests : ResolveQuery(r) \/ ResolverRaises(r)
  <2>1. PICK r \in Requests : ResolveQuery(r) \/ ResolverRaises(r)
    BY <1>9
  <2>2. CASE ResolveQuery(r)
    BY <2>2 DEF ResolveQuery
  <2>3. CASE ResolverRaises(r)
    BY <2>3 DEF ResolverRaises
  <2> QED
    BY <2>1, <2>2, <2>3
<1>10. CASE \E r \in Requests : ModelReplies(r)
  BY <1>10 DEF ModelReplies
<1>11. CASE \E r \in Requests : ModelRaises(r)
  BY <1>11 DEF ModelRaises
<1>12. CASE \E r \in Requests : FlushConversation(r)
  BY <1>12 DEF FlushConversation
<1>13. CASE \E r \in Requests : ReplyToChat(r)
  <2>1. PICK r \in Requests : ReplyToChat(r)
    BY <1>13
  <2>2. TypesInv'
    BY <2>1 DEF ReplyToChat
  <2>3. SessionInv'
    BY <2>1 DEF ReplyToChat
  <2>4. OutcomeInv' /\ OutcomesOnRecord' /\ Client!TogetherOrNothing' /\ Client!FailuresLeaveNothing'
    BY <2>1 DEF ReplyToChat
  <2> QED
    BY <2>2, <2>3, <2>4
<1>14. CASE \E r \in Requests : RunTool(r)
  <2>1. PICK r \in Requests : RunTool(r)
    BY <1>14
  <2>2. TypesInv'
    BY <2>1 DEF RunTool
  <2>3. SessionInv'
    BY <2>1 DEF RunTool
  <2>4. OutcomeInv' /\ OutcomesOnRecord' /\ Client!TogetherOrNothing' /\ Client!FailuresLeaveNothing'
    BY <2>1 DEF RunTool
  <2> QED
    BY <2>2, <2>3, <2>4
<1>15. CASE \E r \in Requests : ToolRaises(r)
  BY <1>15 DEF ToolRaises
<1>16. CASE \E r \in Requests : ReadHistory(r)
  <2>1. PICK r \in Requests : ReadHistory(r)
    BY <1>16
  <2>2. TypesInv'
    BY <2>1 DEF ReadHistory
  <2>3. SessionInv'
    BY <2>1 DEF ReadHistory
  <2>4. OutcomeInv' /\ OutcomesOnRecord' /\ Client!TogetherOrNothing' /\ Client!FailuresLeaveNothing'
    BY <2>1 DEF ReadHistory
  <2> QED
    BY <2>2, <2>3, <2>4
<1>17. CASE \E r \in Requests : NotFound(r)
  BY <1>17 DEF NotFound
<1>18. CASE \E r \in Requests : FinalCommit(r)
  <2>1. PICK r \in Requests : FinalCommit(r)
    BY <1>18
  <2>2. /\ records' \in [Requests -> SUBSET Records]
        /\ \A q \in Requests : records'[q] = IF q = r THEN pending[r] ELSE records[q]
    BY <2>1, CommitStores DEF FinalCommit
  <2>3. TypesInv'
    BY <2>1, <2>2 DEF FinalCommit
  <2>4. SessionInv'
    BY <2>1 DEF FinalCommit
  <2>5. pc[r] = "replied" /\ UNCHANGED <<kind, faults>>
    BY <2>1 DEF FinalCommit
  <2>6. /\ \A q \in Requests \ {r} : pc'[q] = pc[q] /\ reply'[q] = reply[q]
        /\ pc'[r] = "done" /\ reply'[r] = reply[r]
    BY <2>1 DEF FinalCommit
  <2>7. OutcomeInv' /\ OutcomesOnRecord'
    BY <2>2, <2>5, <2>6
  <2>8. Client!TogetherOrNothing' /\ Client!FailuresLeaveNothing'
    BY <2>2, <2>5, <2>6
  <2> QED
    BY <2>3, <2>4, <2>7, <2>8
<1>f. ASSUME NEW f, Fault(f) PROVE faults' \in 1 .. MaxFaults
  BY <1>f, FaultsAssumption
<1>19. CASE \E r \in Requests : StatementFails(r)
  <2>1. PICK r \in Requests, from \in {"opening", "authorising", "handling", "writing"} :
          Raises(r, from, ErrorFor(r)) /\ UNCHANGED kind
    BY <1>19 DEF StatementFails
  <2>2. faults' \in 1 .. MaxFaults
    BY <1>19, <1>f DEF StatementFails
  <2> QED
    BY <2>1, <2>2
<1>20. CASE \E r \in Requests : CommitFails(r)
  <2>1. PICK r \in Requests : CommitFails(r)
    BY <1>20
  <2>2. faults' \in 1 .. MaxFaults
    BY <2>1, <1>f DEF CommitFails
  <2>3. CASE Commits(r)
    BY <2>1, <2>2, <2>3 DEF CommitFails
  <2>4. CASE RollsBack(r)
    BY <2>1, <2>2, <2>4 DEF CommitFails
  <2> QED
    BY <2>1, <2>3, <2>4 DEF CommitFails
<1>21. CASE \E r \in Requests : PoolTimeout(r)
  <2>1. PICK r \in Requests, from \in {"opening", "authorising", "handling", "writing"} :
          Raises(r, from, ErrorFor(r)) /\ UNCHANGED kind
    BY <1>21 DEF PoolTimeout
  <2>2. faults' \in 1 .. MaxFaults
    BY <1>21, <1>f DEF PoolTimeout
  <2> QED
    BY <2>1, <2>2
<1>24. CASE \E r \in Requests : ReportHealth(r)
  BY <1>24 DEF ReportHealth
<1>25. CASE \E r \in Requests : ResolverFails(r)
  <2>1. faults' \in 1 .. MaxFaults
    BY <1>25, <1>f DEF ResolverFails
  <2> QED
    BY <1>25, <2>1 DEF ResolverFails
<1>22. CASE ProcessDies
  <2>1. faults' \in 1 .. MaxFaults
    BY <1>22, <1>f DEF ProcessDies
  <2> QED
    BY <1>22, <2>1 DEF ProcessDies
<1>23. CASE UNCHANGED vars
  BY <1>23 DEF vars
<1> QED
  BY <1>0, <1>1, <1>2, <1>3, <1>4, <1>5, <1>6, <1>7, <1>8, <1>9, <1>10, <1>11, <1>12, <1>13, <1>14, <1>15, <1>16, <1>17, <1>18, <1>19, <1>20, <1>21, <1>22, <1>23, <1>24, <1>25 DEF Next, Acquire, Proceed, Model

-----------------------------------------------------------------------------
(* Theorems *)

(***************************************************************************)
(* Every request is at one of its steps, its session adds only known       *)
(* records, and the pool never gives out more connections than it has,     *)
(* whatever fails.                                                         *)
(***************************************************************************)
THEOREM TypeCorrect == Spec => []TypeOK
<1>1. Init => PoolInv
  BY FS_EmptySet, PoolAssumption DEF Init, PoolInv
<1>2. PoolInv /\ [Next]_vars => PoolInv'
  BY PoolStep
<1>3. RequestInv /\ PoolInv => TypeOK
  BY DEF RequestInv, TypesInv, PoolInv, TypeOK
<1> QED
  BY <1>1, <1>2, <1>3, RequestInvInit, RequestInvNext, PTL DEF Spec

(***************************************************************************)
(* The inductive invariant: at each step it is known whether a request     *)
(* holds a connection, what its session has not committed yet, and that    *)
(* nothing was committed or told before the last steps.                    *)
(***************************************************************************)
THEOREM RequestInvariant == Spec => []RequestInv
  BY RequestInvInit, RequestInvNext, PTL DEF Spec

(***************************************************************************)
(* A refusal is on record when its client hears of it, for commit_now runs *)
(* before the exception rolls the session back; and unless something       *)
(* failed, whatever a 200 reported is on record when its request is over.  *)
(***************************************************************************)
THEOREM OutcomesAreOnRecord == Spec => []OutcomesOnRecord
<1>1. RequestInv => OutcomesOnRecord
  BY DEF RequestInv
<1> QED
  BY <1>1, RequestInvariant, PTL

(***************************************************************************)
(* The two transactions of a chat never leave half a conversation behind,  *)
(* and a request that fails leaves nothing but a refusal.                  *)
(***************************************************************************)
THEOREM RecordsAreWhole ==
  Spec => [](Client!TogetherOrNothing /\ Client!FailuresLeaveNothing)
<1>1. RequestInv => Client!TogetherOrNothing /\ Client!FailuresLeaveNothing
  BY DEF RequestInv
<1> QED
  BY <1>1, RequestInvariant, PTL

(***************************************************************************)
(* No connection is held while a model thinks or while a request waits for *)
(* another connection, and none is lost on any of the ways a request may   *)
(* end.                                                                    *)
(***************************************************************************)
THEOREM NoConnectionIsKept == Spec => []ConnectionsReturned
<1>1. RequestInv => ConnectionsReturned
  BY DEF RequestInv, SessionInv, ConnectionsReturned, Holding
<1> QED
  BY <1>1, RequestInvariant, PTL

-----------------------------------------------------------------------------
(* Requests implements RequestSpec *)

\* The step changes nothing that a client or a reader of the database sees.
Unseen == UNCHANGED Client!vars

(***************************************************************************)
(* A request that has neither answered nor ended may raise: its client is  *)
(* told of an error and nothing of it is stored.                           *)
(***************************************************************************)
LEMMA RaisingFails ==
  ASSUME RequestInv, NEW r \in Requests, NEW from \in Steps \ {"replied", "done"}, NEW answer,
         Raises(r, from, answer), UNCHANGED kind
  PROVE  /\ answer = ErrorFor(r) => Client!Fail(r)
         /\ answer = "ok" => Client!Answer(r)
         /\ answer = "denied" /\ kind[r] # "health" => Client!Deny(r)
BY DEF RequestInv, OutcomeInv, Raises, RollsBack, Goes, Replies, ErrorFor, Client!Fail,
       Client!Answer, Client!Deny, Client!Tells

(***************************************************************************)
(* A commit stores what its session had pending: the refusal, the whole    *)
(* work of an endpoint that answered, or nothing at all.                   *)
(***************************************************************************)
LEMMA CommitRecords ==
  ASSUME RequestInv, NEW r \in Requests, Commits(r), UNCHANGED kind
  PROVE  /\ pc[r] = "refusing" => Client!Records(r, {"refusal"})
         /\ pc[r] = "handling" => UNCHANGED records
         /\ pc[r] = "replied" =>
              IF reply[r] = "ok" THEN Client!Records(r, Client!Complete(kind[r]))
                                 ELSE UNCHANGED records
<1> USE DEF RequestInv, TypesInv, SessionInv, OutcomeInv
<1>1. pc[r] # "done" => records' = [records EXCEPT ![r] = pending[r]]
  BY DEF Commits
<1>2. pending[r] = {} => UNCHANGED records
  BY DEF Commits
<1>3. pc[r] = "replied" /\ reply[r] # "ok" => pending[r] = {}
  BY DEF Client!Complete
<1> QED
  BY <1>1, <1>2, <1>3 DEF Client!Records

(***************************************************************************)
(* Every step of Requests is a step of RequestSpec or cannot be seen.      *)
(***************************************************************************)
LEMMA StepImplements ==
  ASSUME RequestInv, [Next]_vars
  PROVE  [Client!Next]_(Client!vars)
<1> USE DEF Client!vars, Unseen
<1>0. ASSUME NEW r \in Requests,
             \/ Client!Deny(r) \/ Client!Refuse(r) \/ Client!Fail(r)
             \/ Client!FailRefusing(r) \/ Client!Answer(r) \/ Client!Record(r)
      PROVE  Client!Next
  BY <1>0 DEF Client!Next
<1>9. ASSUME NEW r \in Requests, RejectToken(r) PROVE Client!Next
  BY <1>0, <1>9, RaisingFails DEF RejectToken, Steps
<1>1. ASSUME NEW r \in Requests, Arrive(r) \/ Acquire(r) PROVE Unseen
  BY <1>1 DEF Arrive, Acquire, Open, FlushConversation
<1>2. ASSUME NEW r \in Requests, Proceed(r) PROVE Client!Next \/ Unseen
  <2>1. CASE Deny(r)
    <3>1. kind[r] # "health" /\ Raises(r, "authorising", "denied") /\ UNCHANGED kind
      BY <2>1 DEF Deny, Raises, Goes, RequestInv, SessionInv
    <3> QED
      BY <1>0, <3>1, RaisingFails DEF Steps
  <2>2. CASE Admit(r) \/ Refuse(r)
    BY <2>2 DEF Admit, Refuse
  <2>3. CASE CommitRefusal(r)
    <3>1. kind[r] = "chat" /\ Client!Records(r, {"refusal"})
      BY <2>3, CommitRecords DEF CommitRefusal, Goes, RequestInv, SessionInv
    <3>2. Client!Tells(r, "refused")
      BY <2>3 DEF CommitRefusal, Goes, Replies, RequestInv, OutcomeInv, Client!Tells
    <3> QED
      BY <1>0, <3>1, <3>2 DEF Client!Refuse
  <2>4. CASE NoCredentials(r) \/ ToolRaises(r) \/ NotFound(r)
    <3>1. Raises(r, "handling", "error") /\ ErrorFor(r) = "error" /\ UNCHANGED kind
      BY <2>4 DEF NoCredentials, ToolRaises, NotFound, ErrorFor
    <3> QED
      BY <1>0, <3>1, RaisingFails DEF Steps
  <2>5. CASE Release(r)
    BY <2>5, CommitRecords DEF Release, Goes
  <2>6. CASE ReplyToChat(r) \/ RunTool(r) \/ ReadHistory(r) \/ ResolveQuery(r)
    <3>1. Client!Tells(r, "ok") /\ UNCHANGED records
      BY <2>6 DEF ReplyToChat, RunTool, ReadHistory, ResolveQuery, Goes, Replies, RequestInv,
           OutcomeInv, Client!Tells
    <3> QED
      BY <1>0, <3>1 DEF Client!Answer
  <2>7. CASE ResolverRaises(r)
    <3>1. Client!Tells(r, "error") /\ UNCHANGED records /\ kind[r] # "health"
      BY <2>7 DEF ResolverRaises, Goes, Replies, RequestInv, OutcomeInv, Client!Tells
    <3> QED
      BY <1>0, <3>1 DEF Client!Fail
  <2>8. CASE ReportHealth(r)
    BY <1>0, <2>8, RaisingFails DEF ReportHealth, Steps
  <2>9. CASE FinalCommit(r)
    <3>1. UNCHANGED reply
      BY <2>9 DEF FinalCommit
    <3>2. CASE reply[r] = "ok"
      BY <1>0, <2>9, <3>1, <3>2, CommitRecords DEF FinalCommit, Goes, Client!Record
    <3>3. CASE reply[r] # "ok"
      BY <2>9, <3>1, <3>3, CommitRecords DEF FinalCommit, Goes
    <3> QED
      BY <3>2, <3>3
  <2> QED
    BY <1>2, <2>1, <2>2, <2>3, <2>4, <2>5, <2>6, <2>7, <2>8, <2>9 DEF Proceed
<1>3. ASSUME NEW r \in Requests, Model(r) PROVE Client!Next \/ Unseen
  <2>1. CASE ModelReplies(r)
    BY <2>1 DEF ModelReplies
  <2>2. CASE ModelRaises(r)
    <3>1. Raises(r, "model", "error") /\ ErrorFor(r) = "error" /\ UNCHANGED kind
      BY <2>2 DEF ModelRaises, Raises, Goes, ErrorFor, RequestInv, SessionInv
    <3> QED
      BY <1>0, <3>1, RaisingFails DEF Steps
  <2> QED
    BY <1>3, <2>1, <2>2 DEF Model
<1>4. ASSUME NEW r \in Requests, StatementFails(r) \/ PoolTimeout(r) PROVE Client!Next
  <2>1. PICK from \in {"opening", "authorising", "handling", "writing"} :
          Raises(r, from, ErrorFor(r)) /\ UNCHANGED kind
    BY <1>4 DEF StatementFails, PoolTimeout
  <2> QED
    BY <1>0, <2>1, RaisingFails DEF Steps
<1>5. ASSUME NEW r \in Requests, ResolverFails(r) PROVE Client!Next
  <2>1. Client!Tells(r, "error") /\ UNCHANGED records /\ kind[r] # "health"
    BY <1>5 DEF ResolverFails, Goes, Replies, RequestInv, OutcomeInv, Client!Tells
  <2> QED
    BY <1>0, <2>1 DEF Client!Fail
<1>6. ASSUME NEW r \in Requests, CommitFails(r) PROVE Client!Next \/ Unseen
  <2> USE <1>6
  <2>1. CASE pc[r] = "replied"
    <3>1. UNCHANGED <<kind, reply>>
      BY <2>1 DEF CommitFails, Replies, RequestInv, TypesInv
    <3>2. CASE RollsBack(r)
      BY <3>1, <3>2 DEF RollsBack
    <3>3. CASE Commits(r) /\ reply[r] = "ok"
      BY <1>0, <2>1, <3>1, <3>3, CommitRecords DEF Client!Record
    <3>4. CASE Commits(r) /\ reply[r] # "ok"
      BY <2>1, <3>1, <3>4, CommitRecords
    <3> QED
      BY <3>2, <3>3, <3>4 DEF CommitFails
  <2>2. CASE pc[r] # "replied"
    <3>1. pc[r] \in {"refusing", "handling"} /\ kind[r] = "chat" /\ Client!Tells(r, "error")
      BY <2>2 DEF CommitFails, Replies, RequestInv, SessionInv, OutcomeInv, Client!Tells
    <3>2. (UNCHANGED records) \/ (pc[r] = "refusing" /\ Client!Records(r, {"refusal"}))
      <4>1. CASE RollsBack(r)
        BY <4>1 DEF RollsBack
      <4>2. CASE Commits(r)
        BY <3>1, <4>2, CommitRecords DEF CommitFails
      <4> QED
        BY <4>1, <4>2 DEF CommitFails
    <3> QED
      BY <1>0, <3>1, <3>2 DEF Client!Fail, Client!FailRefusing
  <2> QED
    BY <2>1, <2>2
<1>7. CASE ProcessDies
  BY <1>7 DEF ProcessDies
<1>8. CASE UNCHANGED vars
  BY <1>8 DEF vars
<1> QED
  BY <1>1, <1>2, <1>3, <1>4, <1>5, <1>6, <1>7, <1>8, <1>9 DEF Next

(***************************************************************************)
(* Requests over any pool, with any faults, do what RequestSpec says.      *)
(***************************************************************************)
THEOREM Implements == Spec => ImplementsRequestSpec
<1>1. Init => Client!Init
  BY DEF Init, Client!Init, Kinds, Client!Kinds
<1>2. RequestInv /\ [Next]_vars => [Client!Next]_(Client!vars)
  BY StepImplements
<1> QED
  BY <1>1, <1>2, RequestInvariant, PTL DEF Spec, ImplementsRequestSpec, Client!Spec

===============================================================================
