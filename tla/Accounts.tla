------------------------------- MODULE Accounts -------------------------------
(***************************************************************************)
(* Tenants, users and tokens (auth.py, security.py 46-94, deps.py 50-123). *)
(* Several requests run at once, each a sequence of statements; rows       *)
(* inserted by an open transaction are in "uncommitted" and nobody else    *)
(* sees them, but unique constraints do.  A request runs under the scope   *)
(* of one tenant, so it sees the users of that tenant only.                *)
(*                                                                         *)
(* No endpoint demotes or deactivates anybody: operators do that in the    *)
(* database, at any time.  Passwords are right or wrong.  A token is what  *)
(* was signed into it; a token that nobody signed does not decode.         *)
(***************************************************************************)
EXTENDS Naturals, FiniteSets

CONSTANTS
    Requests,
    Tenants, Slugs,
    Users, Emails,
    None,
    MaxTokens,          \* bound on the tokens not expired
    MaxChanges          \* bound on what operators change

ASSUME NoneAssumption == None \notin Tenants \union Users \union Slugs \union Emails
ASSUME IdsAssumption == Tenants \intersect Users = {}
ASSUME BoundsAssumption == MaxTokens \in Nat /\ MaxChanges \in Nat

Roles == {"viewer", "operator", "admin"}
Rank == [viewer |-> 0, operator |-> 1, admin |-> 2]
Satisfies(r, required) == Rank[r] >= Rank[required]

TokenTypes == {"access", "refresh"}
Tokens == [typ: TokenTypes, user: Users, role: Roles]
Pair(u, r) == [typ: TokenTypes, user: {u}, role: {r}]

VARIABLES
    slug, open,                     \* the table tenants: slug, is_active
    home, email, role, active,      \* the table users: tenant_id, email, role, is_active
    uncommitted,                    \* rows of either that are not committed
    tokens,                         \* issued and not expired
    req,                            \* the requests
    changes                         \* made by operators

tenantRows == <<slug, open>>
userRows == <<home, email, role, active>>
rows == <<tenantRows, userRows, uncommitted>>
vars == <<rows, tokens, req, changes>>

Steps == {"idle", "tenant", "founder", "scoped", "blocking", "raising", "issuing",
          "replying", "refreshing", "authorising", "acting", "recording", "answered"}
Answers == {"none", "blocked", "loggedIn", "refreshed"}
Events == {"none", "blocked", "allowed"}

\* A request's step, the tenant and the user it is about, the user it inserts,
\* the role in its token, the role it acts for or issues, the user's row when it
\* arrived, the login event it has added to its session and not committed, the one it
\* has committed, and its answer if tokens depend on it.
RequestStates ==
    [pc: Steps, tenant: Tenants \union {None}, user: Users \union {None}, new: Users \union {None},
     acts: Roles, standing: [role: Roles, active: BOOLEAN],
     pending: Events, recorded: Events, answer: Answers]

Idle ==
    [pc |-> "idle", tenant |-> None, user |-> None, new |-> None,
     acts |-> "viewer", standing |-> [role |-> "viewer", active |-> TRUE],
     pending |-> "none", recorded |-> "none", answer |-> "none"]

TypeOK ==
    /\ slug \in [Tenants -> Slugs \union {None}]
    /\ open \in [Tenants -> BOOLEAN]
    /\ home \in [Users -> Tenants \union {None}]
    /\ email \in [Users -> Emails \union {None}]
    /\ role \in [Users -> Roles]
    /\ active \in [Users -> BOOLEAN]
    /\ uncommitted \in SUBSET (Tenants \union Users)
    /\ tokens \in SUBSET Tokens
    /\ req \in [Requests -> RequestStates]
    /\ changes \in 0 .. MaxChanges

Init ==
    /\ slug = [t \in Tenants |-> None]
    /\ open = [t \in Tenants |-> TRUE]
    /\ home = [u \in Users |-> None]
    /\ email = [u \in Users |-> None]
    /\ role = [u \in Users |-> "viewer"]
    /\ active = [u \in Users |-> TRUE]
    /\ uncommitted = {}
    /\ tokens = {}
    /\ req = [p \in Requests |-> Idle]
    /\ changes = 0

-----------------------------------------------------------------------------

At(p, step) == req[p].pc = step
Ends(p) == req' = [req EXCEPT ![p] = Idle]

TenantExists(t) == slug[t] # None /\ t \notin uncommitted
UserExists(u) == home[u] # None /\ u \notin uncommitted

\* Row-level security: a user is seen under the scope of its tenant.
Visible(u, t) == home[u] = t /\ u \notin uncommitted

\* A slip: a role that ck_users_role does not know.
InsertOwner(u, t, e, r) ==
    /\ home[u] = None
    /\ home' = [home EXCEPT ![u] = t]
    /\ email' = [email EXCEPT ![u] = e]
    /\ role' = [role EXCEPT ![u] = "owner"]
    /\ UNCHANGED active

InsertUser(u, t, e, r) ==
    /\ home[u] = None
    /\ home' = [home EXCEPT ![u] = t]
    /\ email' = [email EXCEPT ![u] = e]
    /\ role' = [role EXCEPT ![u] = r]
    /\ UNCHANGED active

\* uq_users_tenant_email
EmailTaken(t, e) == \E u \in Users : home[u] = t /\ email[u] = e

Commit(p) == uncommitted' = uncommitted \ {req[p].tenant, req[p].new}

\* The rows the request has not committed disappear.
Abandon(p) ==
    /\ req[p].pc \in {"tenant", "founder", "recording"}
    /\ slug' = [t \in Tenants |-> IF t \in uncommitted /\ t = req[p].tenant THEN None ELSE slug[t]]
    /\ home' = [u \in Users |-> IF u = req[p].new THEN None ELSE home[u]]
    /\ email' = [u \in Users |-> IF u = req[p].new THEN None ELSE email[u]]
    /\ role' = [u \in Users |-> IF u = req[p].new THEN "viewer" ELSE role[u]]
    /\ Commit(p)
    /\ Ends(p)
    /\ UNCHANGED <<open, active, tokens, changes>>

\* The client has its tokens, or has been refused them.
Leave(p) ==
    /\ At(p, "answered")
    /\ req' = [req EXCEPT ![p] = Idle]
    /\ UNCHANGED <<rows, tokens, changes>>

-----------------------------------------------------------------------------
(* POST /tenants *)

\* Slips: a slug is compared with committed ones only; the tenant is committed on its own.
InsertUncheckedTenant(p, t, s) ==
    /\ At(p, "idle")
    /\ slug[t] = None
    /\ ~ \E u \in Tenants : TenantExists(u) /\ slug[u] = s
    /\ slug' = [slug EXCEPT ![t] = s]
    /\ uncommitted' = uncommitted \union {t}
    /\ req' = [req EXCEPT ![p].pc = "tenant", ![p].tenant = t]
    /\ UNCHANGED <<open, userRows, tokens, changes>>
CommitTenantAlone(p, t, s) ==
    /\ At(p, "idle")
    /\ slug[t] = None
    /\ ~ \E u \in Tenants : slug[u] = s
    /\ slug' = [slug EXCEPT ![t] = s]
    /\ req' = [req EXCEPT ![p].pc = "tenant", ![p].tenant = t]
    /\ UNCHANGED <<open, userRows, uncommitted, tokens, changes>>

\* The first flush.  It waits for an open transaction that inserts the same slug; a slug
\* already taken is answered 409 and changes nothing.
InsertTenant(p, t, s) ==
    /\ At(p, "idle")
    /\ slug[t] = None
    /\ ~ \E u \in Tenants : slug[u] = s
    /\ slug' = [slug EXCEPT ![t] = s]
    /\ uncommitted' = uncommitted \union {t}
    /\ req' = [req EXCEPT ![p].pc = "tenant", ![p].tenant = t]
    /\ UNCHANGED <<open, userRows, tokens, changes>>

\* The second flush.
InsertAdmin(p, u, e) ==
    /\ At(p, "tenant")
    /\ InsertUser(u, req[p].tenant, e, "admin")
    /\ uncommitted' = uncommitted \union {u}
    /\ req' = [req EXCEPT ![p].pc = "founder", ![p].new = u]
    /\ UNCHANGED <<tenantRows, tokens, changes>>

CommitTenant(p) ==
    /\ At(p, "founder")
    /\ Commit(p)
    /\ Ends(p)
    /\ UNCHANGED <<tenantRows, userRows, tokens, changes>>

-----------------------------------------------------------------------------
(* POST /auth/token *)

\* An unknown or closed tenant is answered 401 and changes nothing.
FindTenant(p, s) ==
    /\ At(p, "idle")
    /\ \E t \in Tenants :
         /\ TenantExists(t) /\ slug[t] = s /\ open[t]
         /\ req' = [req EXCEPT ![p].pc = "scoped", ![p].tenant = t]
    /\ UNCHANGED <<rows, tokens, changes>>

NoSuchUser(p, e) ==
    /\ At(p, "scoped")
    /\ ~ \E u \in Users : Visible(u, req[p].tenant) /\ email[u] = e
    /\ Ends(p)
    /\ UNCHANGED <<rows, tokens, changes>>

\* The event leaves the session for the database.
CommitEvent(p, step) ==
    req' = [req EXCEPT ![p].pc = step, ![p].recorded = req[p].pending, ![p].pending = "none"]

\* A login is answered, and its session is closed: what is pending is lost.
Answer(p, result) ==
    req' = [req EXCEPT ![p] = [Idle EXCEPT !.pc = "answered", !.recorded = req[p].recorded, !.answer = result]]

\* The row is read once.  The event is added to the session, which sends nothing yet.
BlockLogin(p, e, goodPassword) ==
    /\ At(p, "scoped")
    /\ \E u \in Users :
         /\ Visible(u, req[p].tenant) /\ email[u] = e
         /\ ~ active[u] \/ ~ goodPassword
         /\ req' = [req EXCEPT ![p].pc = "blocking", ![p].user = u, ![p].pending = "blocked"]
    /\ UNCHANGED <<rows, tokens, changes>>

\* The tokens are signed with the role read here.
AllowLogin(p, e) ==
    /\ At(p, "scoped")
    /\ \E u \in Users :
         /\ Visible(u, req[p].tenant) /\ email[u] = e
         /\ active[u]
         /\ req' = [req EXCEPT ![p].pc = "issuing", ![p].user = u, ![p].acts = role[u],
                               ![p].pending = "allowed"]
    /\ UNCHANGED <<rows, tokens, changes>>

\* A slip: no commit of its own, the event is left to unscoped_session.
LeaveToSession(p) ==
    /\ At(p, "blocking")
    /\ req' = [req EXCEPT ![p].pc = "raising"]
    /\ UNCHANGED <<rows, tokens, changes>>

CommitBlocked(p) ==
    /\ At(p, "blocking")
    /\ CommitEvent(p, "raising")
    /\ UNCHANGED <<rows, tokens, changes>>

\* The exception: unscoped_session rolls back what is pending, and the client gets its 401.
RaiseBlocked(p) ==
    /\ At(p, "raising")
    /\ Answer(p, "blocked")
    /\ UNCHANGED <<rows, tokens, changes>>

\* unscoped_session commits on the way out, before the handler has returned.
CommitLogin(p) ==
    /\ At(p, "issuing")
    /\ CommitEvent(p, "replying")
    /\ UNCHANGED <<rows, tokens, changes>>

ReplyTokens(p) ==
    /\ At(p, "replying")
    /\ tokens' = tokens \union Pair(req[p].user, req[p].acts)
    /\ Cardinality(tokens') <= MaxTokens
    /\ Answer(p, "loggedIn")
    /\ UNCHANGED <<rows, changes>>

\* A statement, a commit or a rollback fails: 500.  The commit that failed may have been made.
LoginFails(p) ==
    /\ req[p].pc \in {"scoped", "blocking", "raising", "issuing", "replying"}
    /\ Ends(p)
    /\ UNCHANGED <<rows, tokens, changes>>

-----------------------------------------------------------------------------
(* POST /auth/refresh, and get_principal and require_role of every other endpoint *)

\* decode_token, with the type the endpoint expects.  The tid of a token is its user's tenant.
Decode(p, tok, expect) ==
    /\ At(p, "idle")
    /\ tok \in tokens
    /\ tok.typ = expect
    /\ req' = [req EXCEPT ![p].pc = IF expect = "refresh" THEN "refreshing" ELSE "authorising",
                          ![p].user = tok.user,
                          ![p].tenant = home[tok.user],
                          ![p].acts = tok.role,
                          ![p].standing = [role |-> role[tok.user], active |-> active[tok.user]]]
    /\ UNCHANGED <<rows, tokens, changes>>

\* The user's row, read now.
Known(p) == Visible(req[p].user, req[p].tenant) /\ active[req[p].user]

Unknown(p) ==
    /\ req[p].pc \in {"refreshing", "authorising"}
    /\ ~ Known(p)
    /\ Ends(p)
    /\ UNCHANGED <<rows, tokens, changes>>

\* A slip: the role is taken from the token.
RoleInToken(p) == req[p].acts

CurrentRole(p) == role[req[p].user]

Reissue(p) ==
    /\ At(p, "refreshing")
    /\ Known(p)
    /\ tokens' = tokens \union Pair(req[p].user, CurrentRole(p))
    /\ Cardinality(tokens') <= MaxTokens
    /\ req' = [req EXCEPT ![p].pc = "answered", ![p].answer = "refreshed", ![p].acts = CurrentRole(p)]
    /\ UNCHANGED <<rows, changes>>

Authorise(p, minimum) ==
    /\ At(p, "authorising")
    /\ Known(p)
    /\ IF Satisfies(CurrentRole(p), minimum)
       THEN req' = [req EXCEPT ![p].pc = "acting", ![p].acts = CurrentRole(p)]
       ELSE Ends(p)
    /\ UNCHANGED <<rows, tokens, changes>>

\* What the endpoints of the other modules do.
Act(p) ==
    /\ At(p, "acting")
    /\ Ends(p)
    /\ UNCHANGED <<rows, tokens, changes>>

-----------------------------------------------------------------------------
(* POST /users, for an administrator *)

\* It waits for an open transaction that inserts the same email.
CreateUser(p, u, e, r) ==
    /\ At(p, "acting")
    /\ req[p].acts = "admin"
    /\ ~ EmailTaken(req[p].tenant, e)
    /\ InsertUser(u, req[p].tenant, e, r)
    /\ uncommitted' = uncommitted \union {u}
    /\ req' = [req EXCEPT ![p].pc = "recording", ![p].new = u]
    /\ UNCHANGED <<tenantRows, tokens, changes>>

EmailConflict(p, e) ==
    /\ At(p, "acting")
    /\ req[p].acts = "admin"
    /\ \E u \in Users : Visible(u, req[p].tenant) /\ email[u] = e
    /\ Ends(p)
    /\ UNCHANGED <<rows, tokens, changes>>

\* get_session, after the reply.
CommitUser(p) ==
    /\ At(p, "recording")
    /\ Commit(p)
    /\ Ends(p)
    /\ UNCHANGED <<tenantRows, userRows, tokens, changes>>

-----------------------------------------------------------------------------
(* Operators, and time *)

Change == changes < MaxChanges /\ changes' = changes + 1

Demote(u, r) ==
    /\ Change
    /\ UserExists(u)
    /\ Rank[r] < Rank[role[u]]
    /\ role' = [role EXCEPT ![u] = r]
    /\ UNCHANGED <<tenantRows, home, email, active, uncommitted, tokens, req>>

Deactivate(u) ==
    /\ Change
    /\ UserExists(u)
    /\ active[u]
    /\ active' = [active EXCEPT ![u] = FALSE]
    /\ UNCHANGED <<tenantRows, home, email, role, uncommitted, tokens, req>>

CloseTenant(t) ==
    /\ Change
    /\ TenantExists(t)
    /\ open[t]
    /\ open' = [open EXCEPT ![t] = FALSE]
    /\ UNCHANGED <<slug, userRows, uncommitted, tokens, req>>

Expire(tok) ==
    /\ tokens' = tokens \ {tok}
    /\ UNCHANGED <<rows, req, changes>>

-----------------------------------------------------------------------------

TenantSteps(p) ==
    \/ \E s \in Slugs, t \in Tenants : InsertTenant(p, t, s)
    \/ \E u \in Users, e \in Emails : InsertAdmin(p, u, e)
    \/ CommitTenant(p)

LoginSteps(p) ==
    \/ \E s \in Slugs : FindTenant(p, s)
    \/ \E e \in Emails : NoSuchUser(p, e) \/ AllowLogin(p, e)
    \/ \E e \in Emails, good \in BOOLEAN : BlockLogin(p, e, good)
    \/ CommitBlocked(p) \/ RaiseBlocked(p)
    \/ CommitLogin(p) \/ ReplyTokens(p) \/ LoginFails(p)

TokenSteps(p) ==
    \/ \E tok \in tokens, expect \in TokenTypes : Decode(p, tok, expect)
    \/ Unknown(p) \/ Reissue(p) \/ Act(p)
    \/ \E r \in Roles : Authorise(p, r)

UserSteps(p) ==
    \/ \E e \in Emails : EmailConflict(p, e)
    \/ \E u \in Users, e \in Emails, r \in Roles : CreateUser(p, u, e, r)
    \/ CommitUser(p)

OperatorSteps ==
    \/ \E u \in Users : Deactivate(u) \/ \E r \in Roles : Demote(u, r)
    \/ \E t \in Tenants : CloseTenant(t)
    \/ \E tok \in tokens : Expire(tok)

Next ==
    \/ \E p \in Requests :
         TenantSteps(p) \/ LoginSteps(p) \/ TokenSteps(p) \/ UserSteps(p) \/ Abandon(p) \/ Leave(p)
    \/ OperatorSteps

Spec == Init /\ [][Next]_vars

-----------------------------------------------------------------------------
(* Properties *)

\* The rows anybody can see, named as DirectorySpec names them.
TenantRow(t) == [slug |-> slug[t], open |-> open[t]]
UserRow(u) == [tenant |-> slug[home[u]], email |-> email[u], role |-> role[u], active |-> active[u]]
TenantsSeen == {TenantRow(t) : t \in {v \in Tenants : TenantExists(v)}}
UsersSeen == {UserRow(u) : u \in {v \in Users : UserExists(v)}}

Directory == INSTANCE DirectorySpec WITH tenants <- TenantsSeen, users <- UsersSeen

(***************************************************************************)
(* What is committed is a directory as DirectorySpec describes it:         *)
(* wherever requests overlap or break off, a tenant is seen only together  *)
(* with its administrator, a user only in a tenant that is seen and with   *)
(* an email that is free there, and nothing that was seen disappears,      *)
(* moves or changes but by an operator's hand (auth.py 40-76, 154-184).    *)
(***************************************************************************)
ImplementsDirectorySpec == Directory!Spec

(***************************************************************************)
(* A slug and an email name one user, whatever is created concurrently:    *)
(* without it "one person in two tenants is ambiguous at login"            *)
(* (auth.py 79-81).                                                        *)
(***************************************************************************)
LoginIsUnambiguous ==
    \A u, v \in Users :
        /\ home[u] # None /\ home[v] # None
        /\ slug[home[u]] = slug[home[v]] /\ email[u] = email[v]
        => u = v

(***************************************************************************)
(* "A privilege revoked five minutes ago must not survive until an old     *)
(* token expires" (deps.py 99-100, auth.py 139-140): no request acts for,  *)
(* or is reissued, more than its user's row granted when it arrived,       *)
(* whatever its token says.                                                *)
(***************************************************************************)
NoStalePrivilege ==
    \A p \in Requests :
        At(p, "acting") \/ req[p].answer = "refreshed" =>
            /\ req[p].standing.active
            /\ Rank[req[p].acts] <= Rank[req[p].standing.role]

(***************************************************************************)
(* A login of a known user is on record before its answer goes out: the    *)
(* refusal although the exception that carries it rolls the session back,  *)
(* the success although its event is committed only as the session closes  *)
(* (auth.py 111-123, db.py 103-113).                                       *)
(***************************************************************************)
LoginsOnRecord ==
    \A p \in Requests :
        /\ req[p].answer = "loggedIn" => req[p].recorded = "allowed"
        /\ req[p].answer = "blocked" => req[p].recorded = "blocked"

===============================================================================
