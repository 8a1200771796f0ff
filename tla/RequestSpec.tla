----------------------------- MODULE RequestSpec -----------------------------
(***************************************************************************)
(* What a request promises to its client and to the people who read the    *)
(* database: no pool, no session, no transaction, no fault.  A request is  *)
(* told one thing, once.  What it records appears in one piece: a refusal  *)
(* together with the 400 that reports it, the work of an endpoint some     *)
(* time after the 200 that reports it, if at all, and nothing for a client *)
(* who was told anything else.                                             *)
(*                                                                         *)
(* Requests implements this module.                                        *)
(***************************************************************************)

CONSTANT Requests

VARIABLES
    kind,       \* which endpoint a request is for
    reply,      \* what its client was told
    records     \* what it left in the database

vars == <<kind, reply, records>>

Kinds == {"chat", "tool", "history", "graphql", "health"}

\* What an endpoint that answers 200 puts on record.
Complete(k) ==
    CASE k = "chat" -> {"conversation", "messages", "audit"}
      [] k = "tool" -> {"invocation"}
      [] OTHER -> {}

Init ==
    /\ kind \in [Requests -> Kinds]
    /\ reply = [r \in Requests |-> "none"]
    /\ records = [r \in Requests |-> {}]

Tells(r, answer) ==
    /\ reply[r] = "none"
    /\ reply' = [reply EXCEPT ![r] = answer]
    /\ UNCHANGED kind

Records(r, whole) ==
    /\ records[r] = {}
    /\ records' = [records EXCEPT ![r] = whole]
    /\ UNCHANGED kind

\* 401 and 403; /health asks nobody who they are.
Deny(r) == kind[r] # "health" /\ Tells(r, "denied") /\ UNCHANGED records

\* The guard's refusal.
Refuse(r) == kind[r] = "chat" /\ Tells(r, "refused") /\ Records(r, {"refusal"})

\* /health answers 200 whatever fails.
Fail(r) ==
    /\ Tells(r, IF kind[r] = "health" THEN "degraded" ELSE "error")
    /\ UNCHANGED records

\* The refusal is committed, but the confirmation of the commit is lost.
FailRefusing(r) == kind[r] = "chat" /\ Tells(r, "error") /\ Records(r, {"refusal"})

Answer(r) == Tells(r, "ok") /\ UNCHANGED records

\* get_session commits after the reply.
Record(r) ==
    /\ reply[r] = "ok"
    /\ Records(r, Complete(kind[r]))
    /\ UNCHANGED reply

Next ==
    \E r \in Requests :
        Deny(r) \/ Refuse(r) \/ Fail(r) \/ FailRefusing(r) \/ Answer(r) \/ Record(r)

Spec == Init /\ [][Next]_vars

-----------------------------------------------------------------------------

(***************************************************************************)
(* What a request records appears in one piece: a conversation with its    *)
(* messages and its audit event, or none of them (main.py 328-344).        *)
(***************************************************************************)
TogetherOrNothing ==
    \A r \in Requests :
        \/ records[r] \in {{}, Complete(kind[r])}
        \/ kind[r] = "chat" /\ records[r] = {"refusal"}

(***************************************************************************)
(* A request that was denied or that failed leaves nothing behind except,  *)
(* when the reply to its commit was lost, the refusal                      *)
(* (deps.py 72-79).                                                        *)
(***************************************************************************)
FailuresLeaveNothing ==
    \A r \in Requests :
        /\ reply[r] = "denied" => records[r] = {}
        /\ reply[r] = "error" => records[r] \subseteq {"refusal"}

=============================================================================
