---------------------------- MODULE AccountsProofs ----------------------------
(***************************************************************************)
(* Theorems about Accounts, for any requests, tenants, users and tokens.   *)
(***************************************************************************)
EXTENDS Accounts, TLAPS

Creating == {"tenant", "founder"}
Inserting == {"founder", "recording"}
Identified == {"blocking", "raising", "issuing", "replying", "refreshing", "authorising", "acting", "recording"}

\* Tokens, and requests that have found a user, are about committed rows.
UserInv ==
    /\ \A tok \in tokens : UserExists(tok.user)
    /\ \A p \in Requests : req[p].pc = "scoped" => req[p].tenant # None
    /\ \A p \in Requests : req[p].pc \in Identified =>
         /\ req[p].user \in Users
         /\ UserExists(req[p].user)
         /\ req[p].tenant = home[req[p].user]

\* What each open transaction has inserted.
InsertInv ==
    \A p \in Requests :
        /\ req[p].pc \in Creating =>
             /\ req[p].tenant \in uncommitted \intersect Tenants
             /\ slug[req[p].tenant] # None
             /\ \A u \in Users : home[u] = req[p].tenant => u = req[p].new
        /\ req[p].pc \in Inserting =>
             /\ req[p].new \in uncommitted \intersect Users
             /\ home[req[p].new] = req[p].tenant
        /\ req[p].pc \notin Inserting => req[p].new = None

\* Two transactions insert different rows.
OwnersInv ==
    \A p, q \in Requests : p # q =>
        /\ req[p].pc \in Creating /\ req[q].pc \in Creating => req[p].tenant # req[q].tenant
        /\ req[p].pc \in Inserting /\ req[q].pc \in Inserting => req[p].new # req[q].new

\* The unique constraints and the foreign key.
UniqueInv ==
    /\ \A t, v \in Tenants : slug[t] # None /\ slug[t] = slug[v] => t = v
    /\ \A u, v \in Users : home[u] # None /\ home[u] = home[v] /\ email[u] = email[v] => u = v
    /\ \A u \in Users : home[u] # None => slug[home[u]] # None

\* Until it is authorised, a request's user has at most what it had on arrival;
\* afterwards the request has.
StandingInv ==
    \A p \in Requests :
        /\ req[p].pc \in {"refreshing", "authorising"} =>
             /\ active[req[p].user] => req[p].standing.active
             /\ Rank[role[req[p].user]] <= Rank[req[p].standing.role]
        /\ req[p].pc = "acting" \/ req[p].answer = "refreshed" =>
             /\ req[p].standing.active
             /\ Rank[req[p].acts] <= Rank[req[p].standing.role]
        /\ req[p].answer # "none" => req[p].pc = "answered"

\* The event of a login is in its session until it is committed, and committed
\* before the request goes on.
RecordInv ==
    \A p \in Requests :
        /\ req[p].pc = "blocking" => req[p].pending = "blocked"
        /\ req[p].pc = "issuing" => req[p].pending = "allowed"
        /\ req[p].pc = "raising" => req[p].recorded = "blocked"
        /\ req[p].pc = "replying" => req[p].recorded = "allowed"

\* What can be seen of a tenant has a user, and the tenant of a user can be seen.
ReachableInv ==
    /\ \A t \in Tenants : TenantExists(t) => \E u \in Users : Visible(u, t)
    /\ \A u \in Users : home[u] # None /\ u \notin uncommitted => TenantExists(home[u])

AccountInv ==
    /\ TypeOK /\ UserInv /\ InsertInv /\ OwnersInv /\ UniqueInv /\ StandingInv
    /\ ReachableInv /\ RecordInv /\ LoginsOnRecord

-----------------------------------------------------------------------------

\* What a request that has ended looks like is well typed.
LEMMA IdleTyped == Idle \in RequestStates
  BY DEF Idle, RequestStates, Steps, Roles, Answers, Events

\* Roles are ranked by numbers.
LEMMA RankType == \A r \in Roles : Rank[r] \in Nat
  BY DEF Roles, Rank

\* What is about the rows alone survives a step that writes none.
LEMMA RowsKept ==
    ASSUME UniqueInv, ReachableInv, UNCHANGED rows
    PROVE  UniqueInv' /\ ReachableInv'
  BY DEF UniqueInv, ReachableInv, TenantExists, Visible, rows, tenantRows, userRows

\* There are no rows at first.
LEMMA InitInv == Init => AccountInv
  BY IdleTyped, NoneAssumption, BoundsAssumption
     DEF Init, AccountInv, TypeOK, UserInv, InsertInv, OwnersInv, UniqueInv, StandingInv,
         ReachableInv, RecordInv, LoginsOnRecord, Idle, Roles, Creating, Inserting, Identified,
         TenantExists, Visible

-----------------------------------------------------------------------------
(* One lemma per action *)

\* InsertTenant: the new tenant has no user, since users live in tenants that have a slug.
LEMMA InsertTenantStep ==
    ASSUME AccountInv, NEW p \in Requests, NEW t \in Tenants, NEW s \in Slugs, InsertTenant(p, t, s)
    PROVE  AccountInv'
<1> USE DEF AccountInv, InsertTenant, At, userRows
<1>1. TypeOK'
  <2>1. req[p] \in RequestStates
    BY DEF TypeOK
  <2>2. req'[p] \in RequestStates
    BY <2>1 DEF TypeOK, RequestStates, Steps
  <2> QED
    BY <2>2 DEF TypeOK
<1>2. UserInv'
  BY IdsAssumption DEF TypeOK, UserInv, Identified, UserExists, Tokens
<1>3. InsertInv'
  BY NoneAssumption, IdsAssumption DEF TypeOK, InsertInv, Creating, Inserting, UniqueInv
<1>4. OwnersInv'
  BY DEF TypeOK, OwnersInv, Creating, Inserting, InsertInv
<1>5. UniqueInv'
  BY DEF TypeOK, UniqueInv
<1>6. StandingInv'
  BY DEF TypeOK, StandingInv
<1>7. ReachableInv'
  BY NoneAssumption, IdsAssumption DEF TypeOK, ReachableInv, TenantExists, Visible,
     UniqueInv
<1>8. RecordInv' /\ LoginsOnRecord'
  BY DEF TypeOK, RecordInv, LoginsOnRecord, StandingInv
<1> QED
  BY <1>1, <1>2, <1>3, <1>4, <1>5, <1>6, <1>7, <1>8

\* InsertAdmin: the new user is no committed one, so nobody's standing is disturbed.
LEMMA InsertAdminStep ==
    ASSUME AccountInv, NEW p \in Requests, NEW u \in Users, NEW e \in Emails, InsertAdmin(p, u, e)
    PROVE  AccountInv'
<1> USE DEF AccountInv, InsertAdmin, At, InsertUser, tenantRows
<1>1. TypeOK'
  <2>1. req[p] \in RequestStates
    BY DEF TypeOK
  <2>2. req'[p] \in RequestStates
    BY <2>1 DEF TypeOK, RequestStates, Steps
  <2> QED
    BY <2>2 DEF TypeOK, InsertInv, Creating, Roles
<1>2. UserInv'
  BY DEF TypeOK, UserInv, Identified, UserExists
<1>3. InsertInv'
  BY NoneAssumption, IdsAssumption DEF TypeOK, InsertInv, Creating, Inserting, UserInv,
     UserExists, Identified, ReachableInv, TenantExists, OwnersInv
<1>4. OwnersInv'
  BY NoneAssumption, IdsAssumption DEF TypeOK, OwnersInv, Creating, Inserting, InsertInv,
     UserInv, Identified, UserExists
<1>5. UniqueInv'
  BY NoneAssumption, IdsAssumption DEF TypeOK, UniqueInv, InsertInv, Creating, Inserting
<1>6. StandingInv'
  <2>1. ASSUME NEW q \in Requests, req[q].pc \in Identified
        PROVE  req[q].user \in Users /\ req[q].user # u
    BY <2>1 DEF UserInv, UserExists
  <2>2. ASSUME NEW q \in Requests, req'[q].pc \in {"refreshing", "authorising"}
        PROVE  q # p /\ UNCHANGED role[req[q].user]
    BY <2>1, <2>2 DEF TypeOK, Identified
  <2>3. ASSUME NEW q \in Requests, q # p
        PROVE  UNCHANGED req[q]
    BY <2>3 DEF TypeOK
  <2>4. req'[p].answer = "none" /\ req'[p].pc \notin {"refreshing", "authorising", "acting"}
    BY DEF TypeOK, StandingInv
  <2> QED
    BY <2>2, <2>3, <2>4 DEF StandingInv
<1>7. ReachableInv'
  BY NoneAssumption, IdsAssumption DEF TypeOK, ReachableInv, TenantExists, Visible,
     InsertInv, Creating
<1>8. RecordInv' /\ LoginsOnRecord'
  BY DEF TypeOK, RecordInv, LoginsOnRecord, StandingInv
<1> QED
  BY <1>1, <1>2, <1>3, <1>4, <1>5, <1>6, <1>7, <1>8

\* CommitTenant: the tenant and its administrator appear together.
LEMMA CommitTenantStep ==
    ASSUME AccountInv, NEW p \in Requests, CommitTenant(p)
    PROVE  AccountInv'
<1> USE DEF AccountInv, CommitTenant, At, Commit, Ends, tenantRows, userRows
<1>1. TypeOK'
  BY IdleTyped DEF TypeOK, RequestStates, Steps
<1>2. UserInv'
  BY DEF TypeOK, UserInv, Identified, UserExists, Idle
<1>3. InsertInv'
  BY NoneAssumption, IdsAssumption DEF TypeOK, InsertInv, Creating, Inserting, Idle,
     OwnersInv, UserInv, Identified, UserExists, ReachableInv, TenantExists
<1>4. OwnersInv'
  BY DEF TypeOK, OwnersInv, Creating, Inserting, Idle
<1>5. UniqueInv'
  BY DEF TypeOK, UniqueInv
<1>6. StandingInv'
  BY DEF TypeOK, StandingInv, Idle
<1>7. ReachableInv'
  BY NoneAssumption, IdsAssumption DEF TypeOK, ReachableInv, TenantExists, Visible,
     InsertInv, UserInv, Identified, UserExists, Creating, Inserting, OwnersInv
<1>8. RecordInv' /\ LoginsOnRecord'
  BY DEF TypeOK, RecordInv, LoginsOnRecord, StandingInv, Idle
<1> QED
  BY <1>1, <1>2, <1>3, <1>4, <1>5, <1>6, <1>7, <1>8

\* FindTenant reads, and identifies nobody yet.
LEMMA FindTenantStep ==
    ASSUME AccountInv, NEW p \in Requests, NEW s \in Slugs, FindTenant(p, s)
    PROVE  AccountInv'
<1> USE DEF AccountInv, FindTenant, At, rows, tenantRows, userRows
<1>1. TypeOK'
  <2>1. req[p] \in RequestStates
    BY DEF TypeOK
  <2>2. PICK t \in Tenants : req' = [req EXCEPT ![p].pc = "scoped", ![p].tenant = t]
    OBVIOUS
  <2>3. req'[p] \in RequestStates
    BY <2>1, <2>2 DEF TypeOK, RequestStates, Steps
  <2> QED
    BY <2>2, <2>3 DEF TypeOK
<1>2. UserInv'
  BY NoneAssumption DEF TypeOK, UserInv, Identified, UserExists
<1>3. InsertInv'
  BY DEF TypeOK, InsertInv, Creating, Inserting
<1>4. OwnersInv'
  BY DEF TypeOK, OwnersInv, Creating, Inserting
<1>5. UniqueInv'
  BY RowsKept
<1>6. StandingInv'
  BY DEF TypeOK, StandingInv
<1>7. ReachableInv'
  BY RowsKept
<1>8. RecordInv' /\ LoginsOnRecord'
  BY DEF TypeOK, RecordInv, LoginsOnRecord, StandingInv
<1> QED
  BY <1>1, <1>2, <1>3, <1>4, <1>5, <1>6, <1>7, <1>8

\* A request that ends and writes nothing: NoSuchUser, LoginFails, Unknown, Act,
\* EmailConflict, Leave, and Authorise when the role does not suffice.
LEMMA EndingStep ==
    ASSUME AccountInv, NEW p \in Requests, Ends(p), UNCHANGED <<rows, tokens, changes>>
    PROVE  AccountInv'
<1> USE DEF AccountInv, Ends, Idle
<1>1. TypeOK'
  BY IdleTyped DEF TypeOK, Idle, rows, tenantRows, userRows
<1>2. UserInv'
  BY DEF TypeOK, UserInv, Identified, UserExists, rows, userRows
<1>3. InsertInv'
  BY DEF TypeOK, InsertInv, Creating, Inserting, rows, tenantRows, userRows
<1>4. OwnersInv'
  BY DEF TypeOK, OwnersInv, Creating, Inserting
<1>5. UniqueInv' /\ ReachableInv'
  BY RowsKept
<1>6. StandingInv'
  BY DEF TypeOK, StandingInv, rows, userRows
<1>7. RecordInv' /\ LoginsOnRecord'
  BY DEF TypeOK, RecordInv, LoginsOnRecord
<1> QED
  BY <1>1, <1>2, <1>3, <1>4, <1>5, <1>6, <1>7

\* BlockLogin: the user it identifies is committed.
LEMMA BlockLoginStep ==
    ASSUME AccountInv, NEW p \in Requests, NEW e \in Emails, NEW good \in BOOLEAN,
           BlockLogin(p, e, good)
    PROVE  AccountInv'
<1>1. PICK u \in Users :
        /\ Visible(u, req[p].tenant)
        /\ req' = [req EXCEPT ![p].pc = "blocking", ![p].user = u, ![p].pending = "blocked"]
  BY DEF BlockLogin
<1>2. req[p].pc = "scoped" /\ UNCHANGED <<rows, tokens, changes>>
  BY DEF BlockLogin, At
<1> USE <1>1, <1>2 DEF AccountInv, Visible, rows, tenantRows, userRows
<1>3. TypeOK'
  <2>1. req[p] \in RequestStates /\ role[u] \in Roles
    BY DEF TypeOK
  <2>2. req'[p] \in RequestStates
    BY <2>1 DEF TypeOK, RequestStates, Steps, Events
  <2> QED
    BY <2>2 DEF TypeOK
<1>4. UserInv'
  BY DEF TypeOK, UserInv, Identified, UserExists
<1>5. InsertInv'
  BY DEF TypeOK, InsertInv, Creating, Inserting
<1>6. OwnersInv'
  BY DEF TypeOK, OwnersInv, Creating, Inserting
<1>7. UniqueInv' /\ ReachableInv'
  BY RowsKept
<1>8. StandingInv'
  BY DEF TypeOK, StandingInv
<1>9. RecordInv' /\ LoginsOnRecord'
  BY DEF TypeOK, RecordInv, LoginsOnRecord, StandingInv
<1> QED
  BY <1>3, <1>4, <1>5, <1>6, <1>7, <1>8, <1>9

\* AllowLogin likewise.
LEMMA AllowLoginStep ==
    ASSUME AccountInv, NEW p \in Requests, NEW e \in Emails, AllowLogin(p, e)
    PROVE  AccountInv'
<1>1. PICK u \in Users :
        /\ Visible(u, req[p].tenant)
        /\ req' = [req EXCEPT ![p].pc = "issuing", ![p].user = u, ![p].acts = role[u],
                              ![p].pending = "allowed"]
  BY DEF AllowLogin
<1>2. req[p].pc = "scoped" /\ UNCHANGED <<rows, tokens, changes>>
  BY DEF AllowLogin, At
<1> USE <1>1, <1>2 DEF AccountInv, Visible, rows, tenantRows, userRows
<1>3. TypeOK'
  <2>1. req[p] \in RequestStates /\ role[u] \in Roles
    BY DEF TypeOK
  <2>2. req'[p] \in RequestStates
    BY <2>1 DEF TypeOK, RequestStates, Steps, Events
  <2> QED
    BY <2>2 DEF TypeOK
<1>4. UserInv'
  BY DEF TypeOK, UserInv, Identified, UserExists
<1>5. InsertInv'
  BY DEF TypeOK, InsertInv, Creating, Inserting
<1>6. OwnersInv'
  BY DEF TypeOK, OwnersInv, Creating, Inserting
<1>7. UniqueInv' /\ ReachableInv'
  BY RowsKept
<1>8. StandingInv'
  BY DEF TypeOK, StandingInv
<1>9. RecordInv' /\ LoginsOnRecord'
  BY DEF TypeOK, RecordInv, LoginsOnRecord, StandingInv
<1> QED
  BY <1>3, <1>4, <1>5, <1>6, <1>7, <1>8, <1>9

\* CommitBlocked: the event of the refusal leaves the session before the exception is raised.
LEMMA CommitBlockedStep ==
    ASSUME AccountInv, NEW p \in Requests, CommitBlocked(p)
    PROVE  AccountInv'
<1> USE DEF AccountInv, CommitBlocked, At, CommitEvent, rows, tenantRows, userRows
<1>1. TypeOK'
  <2>1. req[p] \in RequestStates
    BY DEF TypeOK
  <2>2. req'[p] \in RequestStates
    BY <2>1, IdleTyped DEF TypeOK, RequestStates, Steps, Answers, Events, Idle
  <2> QED
    BY <2>2 DEF TypeOK
<1>2. UserInv'
  BY DEF TypeOK, UserInv, Identified, UserExists
<1>3. InsertInv'
  BY DEF TypeOK, InsertInv, Creating, Inserting
<1>4. OwnersInv'
  BY DEF TypeOK, OwnersInv, Creating, Inserting
<1>5. UniqueInv'
  BY RowsKept
<1>6. StandingInv'
  BY DEF TypeOK, StandingInv
<1>7. ReachableInv'
  BY RowsKept
<1>8. RecordInv' /\ LoginsOnRecord'
  BY DEF TypeOK, RecordInv, LoginsOnRecord, StandingInv
<1> QED
  BY <1>1, <1>2, <1>3, <1>4, <1>5, <1>6, <1>7, <1>8

\* RaiseBlocked: nothing is left for the rollback to take.
LEMMA RaiseBlockedStep ==
    ASSUME AccountInv, NEW p \in Requests, RaiseBlocked(p)
    PROVE  AccountInv'
<1> USE DEF AccountInv, RaiseBlocked, At, Answer, Idle, rows, tenantRows, userRows
<1>1. TypeOK'
  <2>1. req[p] \in RequestStates
    BY DEF TypeOK
  <2>2. req'[p] \in RequestStates
    BY <2>1, IdleTyped DEF TypeOK, RequestStates, Steps, Answers, Events, Idle
  <2> QED
    BY <2>2 DEF TypeOK
<1>2. UserInv'
  BY DEF TypeOK, UserInv, Identified, UserExists
<1>3. InsertInv'
  BY DEF TypeOK, InsertInv, Creating, Inserting
<1>4. OwnersInv'
  BY DEF TypeOK, OwnersInv, Creating, Inserting
<1>5. UniqueInv'
  BY RowsKept
<1>6. StandingInv'
  BY DEF TypeOK, StandingInv
<1>7. ReachableInv'
  BY RowsKept
<1>8. RecordInv' /\ LoginsOnRecord'
  BY DEF TypeOK, RecordInv, LoginsOnRecord, StandingInv
<1> QED
  BY <1>1, <1>2, <1>3, <1>4, <1>5, <1>6, <1>7, <1>8

\* CommitLogin: the event of the login leaves the session before the reply.
LEMMA CommitLoginStep ==
    ASSUME AccountInv, NEW p \in Requests, CommitLogin(p)
    PROVE  AccountInv'
<1> USE DEF AccountInv, CommitLogin, At, CommitEvent, rows, tenantRows, userRows
<1>1. TypeOK'
  <2>1. req[p] \in RequestStates
    BY DEF TypeOK
  <2>2. req'[p] \in RequestStates
    BY <2>1, IdleTyped DEF TypeOK, RequestStates, Steps, Answers, Events, Idle
  <2> QED
    BY <2>2 DEF TypeOK
<1>2. UserInv'
  BY DEF TypeOK, UserInv, Identified, UserExists
<1>3. InsertInv'
  BY DEF TypeOK, InsertInv, Creating, Inserting
<1>4. OwnersInv'
  BY DEF TypeOK, OwnersInv, Creating, Inserting
<1>5. UniqueInv'
  BY RowsKept
<1>6. StandingInv'
  BY DEF TypeOK, StandingInv
<1>7. ReachableInv'
  BY RowsKept
<1>8. RecordInv' /\ LoginsOnRecord'
  BY DEF TypeOK, RecordInv, LoginsOnRecord, StandingInv
<1> QED
  BY <1>1, <1>2, <1>3, <1>4, <1>5, <1>6, <1>7, <1>8

\* ReplyTokens: the event is on record, and the tokens are a committed user's.
LEMMA ReplyTokensStep ==
    ASSUME AccountInv, NEW p \in Requests, ReplyTokens(p)
    PROVE  AccountInv'
<1> USE DEF AccountInv, ReplyTokens, At, Answer, Idle, Pair, rows, tenantRows, userRows
<1>1. TypeOK'
  <2>1. req[p] \in RequestStates
    BY DEF TypeOK
  <2>2. req'[p] \in RequestStates
    BY <2>1, IdleTyped DEF TypeOK, RequestStates, Steps, Answers, Events, Idle
  <2>3. tokens' \in SUBSET Tokens
    BY <2>1 DEF TypeOK, UserInv, Identified, Tokens, RequestStates
  <2> QED
    BY <2>2, <2>3 DEF TypeOK
<1>2. UserInv'
  BY DEF TypeOK, UserInv, Identified, UserExists
<1>3. InsertInv'
  BY DEF TypeOK, InsertInv, Creating, Inserting
<1>4. OwnersInv'
  BY DEF TypeOK, OwnersInv, Creating, Inserting
<1>5. UniqueInv'
  BY RowsKept
<1>6. StandingInv'
  BY DEF TypeOK, StandingInv
<1>7. ReachableInv'
  BY RowsKept
<1>8. RecordInv' /\ LoginsOnRecord'
  BY DEF TypeOK, RecordInv, LoginsOnRecord, StandingInv
<1> QED
  BY <1>1, <1>2, <1>3, <1>4, <1>5, <1>6, <1>7, <1>8

\* Decode: the standing is that of the row as it is now.
LEMMA DecodeStep ==
    ASSUME AccountInv, NEW p \in Requests, NEW tok \in tokens, NEW expect \in TokenTypes, Decode(p, tok, expect)
    PROVE  AccountInv'
<1> USE DEF AccountInv, Decode, At, rows, tenantRows, userRows
<1>1. TypeOK'
  <2>1. req[p] \in RequestStates /\ tok.user \in Users /\ tok.role \in Roles
    BY DEF TypeOK, Tokens
  <2>2. req'[p] \in RequestStates
    BY <2>1 DEF TypeOK, RequestStates, Steps
  <2> QED
    BY <2>2 DEF TypeOK
<1>2. UserInv'
  BY DEF TypeOK, UserInv, Identified, UserExists, Tokens
<1>3. InsertInv'
  BY DEF TypeOK, InsertInv, Creating, Inserting
<1>4. OwnersInv'
  BY DEF TypeOK, OwnersInv, Creating, Inserting
<1>5. UniqueInv'
  BY RowsKept
<1>6. StandingInv'
  <2>1. tok.user \in Users /\ role[tok.user] \in Roles
    BY DEF TypeOK, Tokens
  <2>2. Rank[role[tok.user]] <= Rank[role[tok.user]]
    BY <2>1, RankType
  <2> QED
    BY <2>1, <2>2 DEF TypeOK, StandingInv
<1>7. ReachableInv'
  BY RowsKept
<1>8. RecordInv' /\ LoginsOnRecord'
  BY DEF TypeOK, RecordInv, LoginsOnRecord, StandingInv
<1> QED
  BY <1>1, <1>2, <1>3, <1>4, <1>5, <1>6, <1>7, <1>8

\* Reissue: the role read now is at most the one at arrival.
LEMMA ReissueStep ==
    ASSUME AccountInv, NEW p \in Requests, Reissue(p)
    PROVE  AccountInv'
<1> USE DEF AccountInv, Reissue, At, Known, Visible, CurrentRole, Pair, rows, tenantRows, userRows
<1>1. TypeOK'
  <2>1. req[p] \in RequestStates /\ req[p].user \in Users
    BY DEF TypeOK, UserInv, Identified
  <2>2. req'[p] \in RequestStates
    BY <2>1 DEF TypeOK, RequestStates, Steps, Answers
  <2>3. tokens' \in SUBSET Tokens
    BY <2>1 DEF TypeOK, Tokens
  <2> QED
    BY <2>2, <2>3 DEF TypeOK
<1>2. UserInv'
  BY DEF TypeOK, UserInv, Identified, UserExists
<1>3. InsertInv'
  BY DEF TypeOK, InsertInv, Creating, Inserting
<1>4. OwnersInv'
  BY DEF TypeOK, OwnersInv, Creating, Inserting
<1>5. UniqueInv'
  BY RowsKept
<1>6. StandingInv'
  BY DEF TypeOK, StandingInv
<1>7. ReachableInv'
  BY RowsKept
<1>8. RecordInv' /\ LoginsOnRecord'
  BY DEF TypeOK, RecordInv, LoginsOnRecord, StandingInv
<1> QED
  BY <1>1, <1>2, <1>3, <1>4, <1>5, <1>6, <1>7, <1>8

\* Authorise: the role read now is at most the one at arrival.
LEMMA AuthoriseStep ==
    ASSUME AccountInv, NEW p \in Requests, NEW r \in Roles, Authorise(p, r)
    PROVE  AccountInv'
<1>1. CASE ~ Satisfies(CurrentRole(p), r)
  BY <1>1, EndingStep DEF Authorise
<1>2. CASE Satisfies(CurrentRole(p), r)
  <2>1. /\ req[p].pc = "authorising" /\ Known(p)
        /\ req' = [req EXCEPT ![p].pc = "acting", ![p].acts = role[req[p].user]]
        /\ UNCHANGED <<rows, tokens, changes>>
    BY <1>2 DEF Authorise, At, CurrentRole
  <2> USE <2>1 DEF AccountInv, Known, rows, tenantRows, userRows
  <2>2. TypeOK'
    <3>1. req[p] \in RequestStates /\ req[p].user \in Users
      BY DEF TypeOK, UserInv, Identified
    <3>2. req'[p] \in RequestStates
      BY <3>1 DEF TypeOK, RequestStates, Steps
    <3> QED
      BY <3>2 DEF TypeOK
  <2>3. UserInv'
    BY DEF TypeOK, UserInv, Identified, UserExists
  <2>4. InsertInv'
    BY DEF TypeOK, InsertInv, Creating, Inserting
  <2>5. OwnersInv'
    BY DEF TypeOK, OwnersInv, Creating, Inserting
  <2>6. UniqueInv' /\ ReachableInv'
    BY RowsKept
  <2>7. StandingInv'
    BY DEF TypeOK, StandingInv
  <2>8. RecordInv' /\ LoginsOnRecord'
    BY DEF TypeOK, RecordInv, LoginsOnRecord, StandingInv
  <2> QED
    BY <2>2, <2>3, <2>4, <2>5, <2>6, <2>7, <2>8
<1> QED
  BY <1>1, <1>2

\* CreateUser: the email is free in the tenant of a committed administrator.
LEMMA CreateUserStep ==
    ASSUME AccountInv, NEW p \in Requests, NEW u \in Users, NEW e \in Emails, NEW r \in Roles, CreateUser(p, u, e, r)
    PROVE  AccountInv'
<1> USE DEF AccountInv, CreateUser, At, InsertUser, EmailTaken, tenantRows
<1>1. TypeOK'
  <2>1. req[p] \in RequestStates
    BY DEF TypeOK
  <2>2. req'[p] \in RequestStates
    BY <2>1 DEF TypeOK, RequestStates, Steps
  <2> QED
    BY <2>2 DEF TypeOK, UserInv, Identified, UserExists
<1>2. UserInv'
  BY DEF TypeOK, UserInv, Identified, UserExists
<1>3. InsertInv'
  BY NoneAssumption, IdsAssumption DEF TypeOK, InsertInv, Creating, Inserting, UserInv,
     UserExists, Identified, ReachableInv, TenantExists
<1>4. OwnersInv'
  BY NoneAssumption, IdsAssumption DEF TypeOK, OwnersInv, Creating, Inserting, InsertInv,
     UserInv, Identified, UserExists
<1>5. UniqueInv'
  BY NoneAssumption, IdsAssumption DEF TypeOK, UniqueInv, UserInv, Identified, UserExists
<1>6. StandingInv'
  <2>1. ASSUME NEW q \in Requests, req[q].pc \in Identified
        PROVE  req[q].user \in Users /\ req[q].user # u
    BY <2>1 DEF UserInv, UserExists
  <2>2. ASSUME NEW q \in Requests, req'[q].pc \in {"refreshing", "authorising"}
        PROVE  q # p /\ UNCHANGED role[req[q].user]
    BY <2>1, <2>2 DEF TypeOK, Identified
  <2>3. ASSUME NEW q \in Requests, q # p
        PROVE  UNCHANGED req[q]
    BY <2>3 DEF TypeOK
  <2>4. req'[p].answer = "none" /\ req'[p].pc \notin {"refreshing", "authorising", "acting"}
    BY DEF TypeOK, StandingInv
  <2> QED
    BY <2>2, <2>3, <2>4 DEF StandingInv
<1>7. ReachableInv'
  BY NoneAssumption, IdsAssumption DEF TypeOK, ReachableInv, TenantExists, Visible,
     UserInv, Identified, UserExists
<1>8. RecordInv' /\ LoginsOnRecord'
  BY DEF TypeOK, RecordInv, LoginsOnRecord, StandingInv
<1> QED
  BY <1>1, <1>2, <1>3, <1>4, <1>5, <1>6, <1>7, <1>8

\* CommitUser: the new user's tenant was committed before.
LEMMA CommitUserStep ==
    ASSUME AccountInv, NEW p \in Requests, CommitUser(p)
    PROVE  AccountInv'
<1> USE DEF AccountInv, CommitUser, At, Commit, Ends, tenantRows, userRows
<1>1. TypeOK'
  BY IdleTyped DEF TypeOK, RequestStates, Steps
<1>2. UserInv'
  BY DEF TypeOK, UserInv, Identified, UserExists, Idle
<1>3. InsertInv'
  BY NoneAssumption, IdsAssumption DEF TypeOK, InsertInv, Creating, Inserting, Idle,
     OwnersInv, UserInv, Identified, UserExists, ReachableInv, TenantExists
<1>4. OwnersInv'
  BY DEF TypeOK, OwnersInv, Creating, Inserting, Idle
<1>5. UniqueInv'
  BY DEF TypeOK, UniqueInv
<1>6. StandingInv'
  BY DEF TypeOK, StandingInv, Idle
<1>7. ReachableInv'
  BY NoneAssumption, IdsAssumption DEF TypeOK, ReachableInv, TenantExists, Visible,
     InsertInv, UserInv, Identified, UserExists, Creating, Inserting, OwnersInv
<1>8. RecordInv' /\ LoginsOnRecord'
  BY DEF TypeOK, RecordInv, LoginsOnRecord, StandingInv, Idle
<1> QED
  BY <1>1, <1>2, <1>3, <1>4, <1>5, <1>6, <1>7, <1>8

\* Abandon: the only user of an uncommitted tenant goes with it.
LEMMA AbandonStep ==
    ASSUME AccountInv, NEW p \in Requests, Abandon(p)
    PROVE  AccountInv'
<1> USE DEF AccountInv, Abandon, Commit, Ends
<1>1. TypeOK'
  BY IdleTyped DEF TypeOK, RequestStates, Steps, Roles
<1>2. UserInv'
  <2>1. ASSUME NEW u \in Users, UserExists(u)
        PROVE  UserExists(u)' /\ UNCHANGED home[u]
    BY <2>1, NoneAssumption DEF TypeOK, UserExists, InsertInv, Inserting
  <2>2. \A tok \in tokens : tok.user \in Users
    BY DEF TypeOK, Tokens
  <2>3. ASSUME NEW q \in Requests, q # p
        PROVE  UNCHANGED req[q]
    BY <2>3 DEF TypeOK
  <2>4. req'[p].pc = "idle"
    BY DEF TypeOK, Idle
  <2> QED
    BY <2>1, <2>2, <2>3, <2>4 DEF UserInv, Identified
<1>3. InsertInv'
  BY NoneAssumption, IdsAssumption DEF TypeOK, InsertInv, Creating, Inserting, Idle,
     OwnersInv, UserInv, Identified, UserExists, ReachableInv, TenantExists
<1>4. OwnersInv'
  BY DEF TypeOK, OwnersInv, Creating, Inserting, Idle
<1>5. UniqueInv'
  BY NoneAssumption, IdsAssumption DEF TypeOK, UniqueInv, InsertInv, OwnersInv, UserInv,
     Identified, UserExists, ReachableInv, TenantExists, Creating, Inserting
<1>6. StandingInv'
  <2>1. ASSUME NEW q \in Requests, req[q].pc \in Identified
        PROVE  req[q].user \in Users /\ req[q].user # req[p].new
    BY <2>1, NoneAssumption DEF UserInv, UserExists, InsertInv, Inserting, TypeOK
  <2>2. ASSUME NEW q \in Requests, req[q].pc \in {"refreshing", "authorising"}
        PROVE  UNCHANGED role[req[q].user]
    BY <2>1, <2>2 DEF TypeOK, Identified
  <2> QED
    BY <2>2 DEF TypeOK, StandingInv, Idle
<1>7. ReachableInv'
  BY NoneAssumption, IdsAssumption DEF TypeOK, ReachableInv, TenantExists, Visible,
     InsertInv, UserInv, Identified, UserExists, Creating, Inserting, OwnersInv
<1>8. RecordInv' /\ LoginsOnRecord'
  BY DEF TypeOK, RecordInv, LoginsOnRecord, StandingInv, Idle
<1> QED
  BY <1>1, <1>2, <1>3, <1>4, <1>5, <1>6, <1>7, <1>8

\* Demote: a role only falls.
LEMMA DemoteStep ==
    ASSUME AccountInv, NEW u \in Users, NEW r \in Roles, Demote(u, r)
    PROVE  AccountInv'
<1> USE DEF AccountInv, Demote, Change, tenantRows
<1>1. TypeOK'
  BY BoundsAssumption DEF TypeOK, RequestStates, Steps
<1>2. UserInv'
  BY DEF TypeOK, UserInv, Identified, UserExists
<1>3. InsertInv'
  BY DEF TypeOK, InsertInv, Creating, Inserting
<1>4. OwnersInv'
  BY DEF TypeOK, OwnersInv, Creating, Inserting
<1>5. UniqueInv'
  BY DEF TypeOK, UniqueInv
<1>6. StandingInv'
  <2> SUFFICES ASSUME NEW q \in Requests, req[q].pc \in {"refreshing", "authorising"}
               PROVE  Rank[role'[req[q].user]] <= Rank[req[q].standing.role]
    BY DEF StandingInv
  <2>1. /\ req[q].user \in Users
        /\ role[req[q].user] \in Roles /\ req[q].standing.role \in Roles
        /\ Rank[role[req[q].user]] <= Rank[req[q].standing.role]
    BY DEF TypeOK, UserInv, Identified, StandingInv, RequestStates
  <2>2. CASE req[q].user = u
    <3>1. role'[u] = r
      BY DEF TypeOK
    <3> QED
      BY <2>1, <2>2, <3>1, RankType
  <2>3. CASE req[q].user # u
    BY <2>1, <2>3 DEF TypeOK
  <2> QED
    BY <2>2, <2>3
<1>7. ReachableInv'
  BY DEF TypeOK, ReachableInv, TenantExists, Visible
<1>8. RecordInv' /\ LoginsOnRecord'
  BY DEF TypeOK, RecordInv, LoginsOnRecord, StandingInv
<1> QED
  BY <1>1, <1>2, <1>3, <1>4, <1>5, <1>6, <1>7, <1>8

\* Deactivate: a user only stops being active.
LEMMA DeactivateStep ==
    ASSUME AccountInv, NEW u \in Users, Deactivate(u)
    PROVE  AccountInv'
<1> USE DEF AccountInv, Deactivate, Change, tenantRows
<1>1. TypeOK'
  BY BoundsAssumption DEF TypeOK, RequestStates, Steps
<1>2. UserInv'
  BY DEF TypeOK, UserInv, Identified, UserExists
<1>3. InsertInv'
  BY DEF TypeOK, InsertInv, Creating, Inserting
<1>4. OwnersInv'
  BY DEF TypeOK, OwnersInv, Creating, Inserting
<1>5. UniqueInv'
  BY DEF TypeOK, UniqueInv
<1>6. StandingInv'
  BY DEF TypeOK, StandingInv
<1>7. ReachableInv'
  BY DEF TypeOK, ReachableInv, TenantExists, Visible
<1>8. RecordInv' /\ LoginsOnRecord'
  BY DEF TypeOK, RecordInv, LoginsOnRecord, StandingInv
<1> QED
  BY <1>1, <1>2, <1>3, <1>4, <1>5, <1>6, <1>7, <1>8

\* CloseTenant: nothing else looks at it.
LEMMA CloseTenantStep ==
    ASSUME AccountInv, NEW t \in Tenants, CloseTenant(t)
    PROVE  AccountInv'
<1> USE DEF AccountInv, CloseTenant, Change, TenantExists, userRows
<1>1. TypeOK'
  BY BoundsAssumption DEF TypeOK, RequestStates, Steps
<1>2. UserInv'
  BY DEF TypeOK, UserInv, Identified, UserExists
<1>3. InsertInv'
  BY DEF TypeOK, InsertInv, Creating, Inserting
<1>4. OwnersInv'
  BY DEF TypeOK, OwnersInv, Creating, Inserting
<1>5. UniqueInv'
  BY DEF TypeOK, UniqueInv
<1>6. StandingInv'
  BY DEF TypeOK, StandingInv
<1>7. ReachableInv'
  BY DEF TypeOK, ReachableInv, TenantExists, Visible
<1>8. RecordInv' /\ LoginsOnRecord'
  BY DEF TypeOK, RecordInv, LoginsOnRecord, StandingInv
<1> QED
  BY <1>1, <1>2, <1>3, <1>4, <1>5, <1>6, <1>7, <1>8

\* Expire: one token fewer.
LEMMA ExpireStep ==
    ASSUME AccountInv, NEW tok \in tokens, Expire(tok)
    PROVE  AccountInv'
<1> USE DEF AccountInv, Expire, rows, tenantRows, userRows
<1>1. TypeOK'
  BY DEF TypeOK, RequestStates, Steps
<1>2. UserInv'
  BY DEF TypeOK, UserInv, Identified, UserExists
<1>3. InsertInv'
  BY DEF TypeOK, InsertInv, Creating, Inserting
<1>4. OwnersInv'
  BY DEF TypeOK, OwnersInv, Creating, Inserting
<1>5. UniqueInv'
  BY RowsKept
<1>6. StandingInv'
  BY DEF TypeOK, StandingInv
<1>7. ReachableInv'
  BY RowsKept
<1>8. RecordInv' /\ LoginsOnRecord'
  BY DEF TypeOK, RecordInv, LoginsOnRecord, StandingInv
<1> QED
  BY <1>1, <1>2, <1>3, <1>4, <1>5, <1>6, <1>7, <1>8

-----------------------------------------------------------------------------

\* A stuttering step keeps the invariant.
LEMMA StutterStep ==
    ASSUME AccountInv, UNCHANGED vars
    PROVE  AccountInv'
<1> USE DEF AccountInv, vars, rows, tenantRows, userRows
<1>1. TypeOK' /\ UserInv' /\ InsertInv' /\ OwnersInv'
  BY DEF TypeOK, UserInv, UserExists, InsertInv, OwnersInv
<1>2. UniqueInv' /\ ReachableInv'
  BY RowsKept
<1>3. StandingInv' /\ RecordInv' /\ LoginsOnRecord'
  BY DEF StandingInv, RecordInv, LoginsOnRecord
<1> QED
  BY <1>1, <1>2, <1>3

\* Every step keeps the invariant.
LEMMA NextInv == AccountInv /\ [Next]_vars => AccountInv'
<1> SUFFICES ASSUME AccountInv, [Next]_vars
             PROVE  AccountInv'
  OBVIOUS
<1>1. ASSUME NEW p \in Requests, TenantSteps(p)
      PROVE  AccountInv'
  BY <1>1, InsertTenantStep, InsertAdminStep, CommitTenantStep DEF TenantSteps
<1>2. ASSUME NEW p \in Requests, LoginSteps(p)
      PROVE  AccountInv'
  BY <1>2, FindTenantStep, BlockLoginStep, AllowLoginStep, CommitBlockedStep,
     RaiseBlockedStep, CommitLoginStep, ReplyTokensStep, EndingStep
     DEF LoginSteps, NoSuchUser, LoginFails
<1>3. ASSUME NEW p \in Requests, TokenSteps(p)
      PROVE  AccountInv'
  BY <1>3, DecodeStep, ReissueStep, AuthoriseStep, EndingStep DEF TokenSteps, Unknown, Act
<1>4. ASSUME NEW p \in Requests, UserSteps(p)
      PROVE  AccountInv'
  BY <1>4, CreateUserStep, CommitUserStep, EndingStep DEF UserSteps, EmailConflict
<1>5. ASSUME NEW p \in Requests, Abandon(p) \/ Leave(p)
      PROVE  AccountInv'
  BY <1>5, AbandonStep, EndingStep DEF Leave, Ends
<1>6. CASE OperatorSteps
  BY <1>6, DemoteStep, DeactivateStep, CloseTenantStep, ExpireStep DEF OperatorSteps
<1>7. CASE UNCHANGED vars
  BY <1>7, StutterStep
<1> QED
  BY <1>1, <1>2, <1>3, <1>4, <1>5, <1>6, <1>7 DEF Next

-----------------------------------------------------------------------------

(***************************************************************************)
(* Rows, tokens and requests are well typed, whatever operators change in  *)
(* between (auth.py, models.py tenants and users).                         *)
(***************************************************************************)
THEOREM TypeCorrect == Spec => []TypeOK
<1>1. Init => AccountInv
  BY InitInv
<1>2. AccountInv /\ [Next]_vars => AccountInv'
  BY NextInv
<1>3. AccountInv => TypeOK
  BY DEF AccountInv
<1> QED
  BY <1>1, <1>2, <1>3, PTL DEF Spec

(***************************************************************************)
(* A slug and an email name one user (auth.py 79-95): the constraints on   *)
(* tenants and on users together give what login relies on.                *)
(***************************************************************************)
THEOREM Unambiguous == Spec => []LoginIsUnambiguous
<1>1. Init => AccountInv
  BY InitInv
<1>2. AccountInv /\ [Next]_vars => AccountInv'
  BY NextInv
<1>3. AccountInv => LoginIsUnambiguous
  <2> SUFFICES ASSUME AccountInv, NEW u \in Users, NEW v \in Users,
                      home[u] # None, home[v] # None,
                      slug[home[u]] = slug[home[v]], email[u] = email[v]
               PROVE  u = v
    BY DEF LoginIsUnambiguous
  <2>1. home[u] \in Tenants /\ home[v] \in Tenants /\ slug[home[u]] # None
    BY DEF AccountInv, TypeOK, UniqueInv
  <2>2. home[u] = home[v]
    BY <2>1 DEF AccountInv, UniqueInv
  <2> QED
    BY <2>2 DEF AccountInv, UniqueInv
<1> QED
  BY <1>1, <1>2, <1>3, PTL DEF Spec

(***************************************************************************)
(* No request acts for, or is reissued, more than its user's row granted   *)
(* when it arrived (deps.py 89-123, auth.py 131-147), whenever operators   *)
(* demote or deactivate the user.                                          *)
(***************************************************************************)
THEOREM PrivilegeIsCurrent == Spec => []NoStalePrivilege
<1>1. Init => AccountInv
  BY InitInv
<1>2. AccountInv /\ [Next]_vars => AccountInv'
  BY NextInv
<1>3. AccountInv => NoStalePrivilege
  BY DEF AccountInv, StandingInv, NoStalePrivilege, At
<1> QED
  BY <1>1, <1>2, <1>3, PTL DEF Spec

(***************************************************************************)
(* Every answered login of a known user is on record, the refused ones     *)
(* included (auth.py 103-128).                                             *)
(***************************************************************************)
THEOREM LoginsRecorded == Spec => []LoginsOnRecord
<1>1. Init => AccountInv
  BY InitInv
<1>2. AccountInv /\ [Next]_vars => AccountInv'
  BY NextInv
<1>3. AccountInv => LoginsOnRecord
  BY DEF AccountInv
<1> QED
  BY <1>1, <1>2, <1>3, PTL DEF Spec

-----------------------------------------------------------------------------
(* Accounts implements DirectorySpec *)

\* What nobody sees yet is as its transaction inserts it.
FreshInv ==
    /\ \A t \in Tenants : ~ TenantExists(t) => open[t]
    /\ \A u \in Users : ~ UserExists(u) => active[u]
    /\ \A u \in Users : home[u] # None => email[u] # None
    /\ \A p \in Requests : req[p].pc = "founder" => role[req[p].new] = "admin"

\* A tenant and a user that this step does not change for who can see them.
TenantStays(t) == /\ TenantExists(t)' <=> TenantExists(t)
                  /\ TenantExists(t) => UNCHANGED TenantRow(t)
UserStays(u) == /\ UserExists(u)' <=> UserExists(u)
                /\ UserExists(u) => UNCHANGED UserRow(u)

LEMMA TenantsStay ==
    ASSUME \A t \in Tenants : TenantStays(t)
    PROVE  UNCHANGED TenantsSeen
  BY DEF TenantStays, TenantsSeen

LEMMA UsersStay ==
    ASSUME \A u \in Users : UserStays(u)
    PROVE  UNCHANGED UsersSeen
  BY DEF UserStays, UsersSeen

\* A row that was not seen before is added.
LEMMA TenantAppears ==
    ASSUME NEW t \in Tenants, \A v \in Tenants \ {t} : TenantStays(v),
           ~ TenantExists(t), TenantExists(t)'
    PROVE  TenantsSeen' = TenantsSeen \union {TenantRow(t)'}
  BY DEF TenantStays, TenantsSeen

LEMMA UserAppears ==
    ASSUME NEW u \in Users, \A v \in Users \ {u} : UserStays(v),
           ~ UserExists(u), UserExists(u)'
    PROVE  UsersSeen' = UsersSeen \union {UserRow(u)'}
  BY DEF UserStays, UsersSeen

\* A slug names one tenant, a tenant and an email one user.
LEMMA RowsDiffer ==
    ASSUME AccountInv
    PROVE  /\ \A t, v \in Tenants :
                TenantExists(t) /\ TenantExists(v) /\ TenantRow(t).slug = TenantRow(v).slug => t = v
           /\ \A u, v \in Users :
                /\ UserExists(u) /\ UserExists(v)
                /\ UserRow(u).tenant = UserRow(v).tenant /\ UserRow(u).email = UserRow(v).email
                => u = v
  BY DEF AccountInv, TypeOK, UniqueInv, TenantExists, UserExists, TenantRow, UserRow

\* A row that is written anew takes the place of the old one, which no other equals.
LEMMA TenantChanges ==
    ASSUME AccountInv, NEW t \in Tenants, \A v \in Tenants \ {t} : TenantStays(v),
           TenantExists(t), TenantExists(t)'
    PROVE  TenantsSeen' = (TenantsSeen \ {TenantRow(t)}) \union {TenantRow(t)'}
<1>1. \A v \in Tenants \ {t} : TenantExists(v) => TenantRow(v) # TenantRow(t)
  BY RowsDiffer
<1> QED
  BY <1>1 DEF TenantStays, TenantsSeen

LEMMA UserChanges ==
    ASSUME AccountInv, NEW u \in Users, \A v \in Users \ {u} : UserStays(v),
           UserExists(u), UserExists(u)'
    PROVE  UsersSeen' = (UsersSeen \ {UserRow(u)}) \union {UserRow(u)'}
<1>1. \A v \in Users \ {u} : UserExists(v) => UserRow(v) # UserRow(u)
  BY RowsDiffer
<1> QED
  BY <1>1 DEF UserStays, UsersSeen

\* A step that writes no row is seen by nobody.
LEMMA ReadersUnseen ==
    ASSUME UNCHANGED rows
    PROVE  UNCHANGED <<TenantsSeen, UsersSeen>>
<1>1. \A t \in Tenants : TenantStays(t)
  BY DEF TenantStays, TenantExists, TenantRow, rows, tenantRows
<1>2. \A u \in Users : UserStays(u)
  BY DEF UserStays, UserExists, UserRow, rows, tenantRows, userRows
<1> QED
  BY <1>1, <1>2, TenantsStay, UsersStay

\* Nor does a request write a row when it only reads, ends or issues tokens.
LEMMA ReadersWriteNothing ==
    ASSUME NEW p \in Requests,
           \/ LoginSteps(p) \/ TokenSteps(p) \/ Leave(p)
           \/ \E e \in Emails : EmailConflict(p, e)
           \/ \E tok \in tokens : Expire(tok)
    PROVE  UNCHANGED rows
  BY DEF LoginSteps, FindTenant, NoSuchUser, BlockLogin, AllowLogin, CommitBlocked, RaiseBlocked,
         CommitLogin, ReplyTokens, LoginFails,
         TokenSteps, Decode, Unknown, Reissue, Act, Authorise, Leave, EmailConflict, Expire

\* The tenant of a user that is seen is seen.
LEMMA HomesAreSeen ==
    ASSUME AccountInv, NEW u \in Users, UserExists(u)
    PROVE  home[u] \in Tenants /\ TenantExists(home[u]) /\ u \notin Tenants
  BY IdsAssumption DEF AccountInv, TypeOK, ReachableInv, UserExists

\* An open transaction's inserts are seen by nobody.
LEMMA InsertsUnseen ==
    ASSUME AccountInv, NEW p \in Requests,
           \/ \E s \in Slugs, t \in Tenants : InsertTenant(p, t, s)
           \/ \E u \in Users, e \in Emails : InsertAdmin(p, u, e)
           \/ \E u \in Users, e \in Emails, r \in Roles : CreateUser(p, u, e, r)
    PROVE  UNCHANGED <<TenantsSeen, UsersSeen>>
<1>1. ASSUME NEW s \in Slugs, NEW t \in Tenants, InsertTenant(p, t, s)
      PROVE  UNCHANGED <<TenantsSeen, UsersSeen>>
  <2> USE <1>1, IdsAssumption DEF InsertTenant, userRows
  <2>1. ASSUME NEW v \in Tenants PROVE TenantStays(v)
    BY DEF AccountInv, TypeOK, TenantStays, TenantExists, TenantRow
  <2>2. ASSUME NEW u \in Users PROVE UserStays(u)
    <3>1. UserExists(u) => home[u] # t /\ home[u] \in Tenants
      BY HomesAreSeen DEF TenantExists
    <3> QED
      BY <3>1 DEF AccountInv, TypeOK, UserStays, UserExists, UserRow
  <2> QED
    BY <2>1, <2>2, TenantsStay, UsersStay
<1>2. ASSUME NEW u \in Users, NEW t, NEW e \in Emails, NEW r, InsertUser(u, t, e, r),
             uncommitted' = uncommitted \union {u}, UNCHANGED tenantRows
      PROVE  UNCHANGED <<TenantsSeen, UsersSeen>>
  <2> USE <1>2, IdsAssumption DEF InsertUser, tenantRows
  <2>1. ASSUME NEW v \in Tenants PROVE TenantStays(v)
    BY DEF TenantStays, TenantExists, TenantRow
  <2>2. ASSUME NEW v \in Users PROVE UserStays(v)
    BY DEF AccountInv, TypeOK, UserStays, UserExists, UserRow
  <2> QED
    BY <2>1, <2>2, TenantsStay, UsersStay
<1> QED
  BY <1>1, <1>2 DEF InsertAdmin, CreateUser

\* Nor is their disappearance.
LEMMA AbandonUnseen ==
    ASSUME AccountInv, NEW p \in Requests, Abandon(p)
    PROVE  UNCHANGED <<TenantsSeen, UsersSeen>>
<1> USE DEF Abandon, Commit
<1>1. req[p].pc \in Inserting => ~ UserExists(req[p].new)
  BY DEF AccountInv, InsertInv, UserExists
<1>2. req[p].pc \notin Inserting => req[p].new = None
  BY DEF AccountInv, InsertInv
<1>3. /\ req[p].pc \in Creating => ~ TenantExists(req[p].tenant)
      /\ req[p].pc \notin Creating => req[p].tenant \notin uncommitted
  BY NoneAssumption, IdsAssumption
     DEF AccountInv, InsertInv, UserInv, Creating, Identified, ReachableInv, TenantExists, UserExists
<1>4. ASSUME NEW t \in Tenants PROVE TenantStays(t)
  BY <1>1, <1>2, <1>3, NoneAssumption, IdsAssumption
     DEF AccountInv, TypeOK, InsertInv, TenantStays, TenantExists, TenantRow, Inserting
<1>5. ASSUME NEW u \in Users PROVE UserStays(u)
  <2>1. CASE UserExists(u)
    <3>1. u # req[p].new
      BY <1>1, <1>2, <2>1, NoneAssumption
    <3> QED
      BY <2>1, <3>1, HomesAreSeen, NoneAssumption
         DEF AccountInv, TypeOK, UserStays, UserExists, UserRow, TenantExists
  <2>2. CASE ~ UserExists(u)
    <3>1. CASE u = req[p].new
      BY <2>2, <3>1 DEF UserStays, UserExists
    <3>2. CASE u # req[p].new
      <4>1. u # req[p].tenant
        BY NoneAssumption, IdsAssumption DEF AccountInv, TypeOK, RequestStates
      <4> QED
        BY <2>2, <3>2, <4>1 DEF UserStays, UserExists
    <3> QED
      BY <3>1, <3>2
  <2> QED
    BY <2>1, <2>2
<1> QED
  BY <1>4, <1>5, TenantsStay, UsersStay

\* What is not committed yet keeps what it was inserted with.
LEMMA FreshNext ==
    ASSUME AccountInv, FreshInv, [Next]_vars
    PROVE  FreshInv'
<1> USE DEF FreshInv
<1>1. ASSUME NEW p \in Requests, NEW t \in Tenants, NEW s \in Slugs, InsertTenant(p, t, s)
      PROVE  FreshInv'
  BY <1>1, IdsAssumption
     DEF InsertTenant, AccountInv, TypeOK, TenantExists, UserExists, userRows
<1>2. ASSUME NEW p \in Requests, NEW u \in Users, NEW e \in Emails, InsertAdmin(p, u, e)
      PROVE  FreshInv'
  <2>1. ASSUME NEW q \in Requests \ {p}, req[q].pc = "founder"
        PROVE  req[q].new # u
    BY <1>2, <2>1, NoneAssumption
       DEF InsertAdmin, InsertUser, AccountInv, InsertInv, Inserting, Creating, TypeOK, RequestStates
  <2> QED
    BY <1>2, <2>1, NoneAssumption, IdsAssumption
       DEF InsertAdmin, InsertUser, AccountInv, TypeOK, TenantExists, UserExists, tenantRows
<1>3. ASSUME NEW p \in Requests, NEW u \in Users, NEW e \in Emails, NEW r \in Roles, CreateUser(p, u, e, r)
      PROVE  FreshInv'
  <2>1. ASSUME NEW q \in Requests \ {p}, req[q].pc = "founder"
        PROVE  req[q].new # u
    BY <1>3, <2>1, NoneAssumption
       DEF CreateUser, InsertUser, AccountInv, InsertInv, Inserting, Creating, TypeOK, RequestStates
  <2> QED
    BY <1>3, <2>1, NoneAssumption, IdsAssumption
       DEF CreateUser, InsertUser, AccountInv, TypeOK, TenantExists, UserExists, tenantRows
<1>4. ASSUME NEW p \in Requests, CommitTenant(p) \/ CommitUser(p)
      PROVE  FreshInv'
  BY <1>4 DEF CommitTenant, CommitUser, Commit, Ends, Idle, AccountInv, TypeOK, TenantExists,
     UserExists, tenantRows, userRows
<1>5. ASSUME NEW p \in Requests, Abandon(p)
      PROVE  FreshInv'
  <2>1. \A t \in Tenants : TenantExists(t) => TenantExists(t)'
    BY <1>5 DEF Abandon, Commit, AccountInv, TypeOK, TenantExists
  <2>2. \A u \in Users : UserExists(u) => UserExists(u)'
    BY <1>5, NoneAssumption DEF Abandon, Commit, AccountInv, TypeOK, InsertInv, Inserting, UserExists
  <2>3. ASSUME NEW q \in Requests \ {p}, req[q].pc = "founder"
        PROVE  req[q].new \in Users /\ req[q].new # req[p].new
    BY <1>5, <2>3, NoneAssumption
       DEF Abandon, AccountInv, InsertInv, OwnersInv, Inserting, Creating
  <2> QED
    BY <1>5, <2>1, <2>2, <2>3 DEF Abandon, Ends, Idle, AccountInv, TypeOK
<1>6. ASSUME NEW p \in Requests, LoginSteps(p) \/ TokenSteps(p) \/ Leave(p)
                                   \/ \E e \in Emails : EmailConflict(p, e)
      PROVE  FreshInv'
  <2>1. UNCHANGED rows
    BY <1>6, ReadersWriteNothing
  <2>2. ASSUME NEW q \in Requests, req'[q].pc = "founder"
        PROVE  UNCHANGED req[q]
    <3> USE <2>2 DEF AccountInv, TypeOK
    <3>0. CASE Ends(p)
      BY <3>0 DEF Ends, Idle
    <3>1. CASE LoginSteps(p)
      <4>1. CASE \E s \in Slugs : FindTenant(p, s)
        BY <4>1 DEF FindTenant
      <4>2. CASE \E e \in Emails, good \in BOOLEAN : BlockLogin(p, e, good)
        BY <4>2 DEF BlockLogin
      <4>3. CASE \E e \in Emails : AllowLogin(p, e)
        BY <4>3 DEF AllowLogin
      <4>5. CASE CommitBlocked(p)
        BY <4>5 DEF CommitBlocked, CommitEvent
      <4>6. CASE CommitLogin(p)
        BY <4>6 DEF CommitLogin, CommitEvent
      <4>4. CASE RaiseBlocked(p) \/ ReplyTokens(p)
        BY <4>4 DEF RaiseBlocked, ReplyTokens, Answer, Idle
      <4> QED
        BY <3>0, <3>1, <4>1, <4>2, <4>3, <4>4, <4>5, <4>6 DEF LoginSteps, LoginFails, NoSuchUser
    <3>2. CASE TokenSteps(p)
      <4>1. CASE \E tok \in tokens, expect \in TokenTypes : Decode(p, tok, expect)
        BY <4>1 DEF Decode
      <4>2. CASE Reissue(p)
        BY <4>2 DEF Reissue
      <4>3. ASSUME NEW r \in Roles, Authorise(p, r), ~ Ends(p)
            PROVE  UNCHANGED req[q]
        <5>1. req' = [req EXCEPT ![p].pc = "acting", ![p].acts = CurrentRole(p)]
          BY <4>3 DEF Authorise
        <5> QED
          BY <5>1
      <4> QED
        BY <3>0, <3>2, <4>1, <4>2, <4>3 DEF TokenSteps, Unknown, Act
    <3> QED
      BY <1>6, <3>0, <3>1, <3>2 DEF Leave, EmailConflict, Ends
  <2> QED
    BY <2>1, <2>2 DEF TenantExists, UserExists, rows, tenantRows, userRows
<1>7. CASE OperatorSteps
  <2>1. ASSUME NEW u \in Users, Deactivate(u) \/ \E r \in Roles : Demote(u, r)
        PROVE  FreshInv'
    <3>1. ASSUME NEW q \in Requests, req[q].pc = "founder"
          PROVE  req[q].new \in Users /\ req[q].new # u
      BY <2>1, <3>1 DEF Deactivate, Demote, UserExists, AccountInv, InsertInv, Inserting
    <3> QED
      BY <2>1, <3>1 DEF Deactivate, Demote, AccountInv, TypeOK, TenantExists, UserExists, tenantRows
  <2>2. ASSUME NEW t \in Tenants, CloseTenant(t)
        PROVE  FreshInv'
    BY <2>2 DEF CloseTenant, AccountInv, TypeOK, TenantExists, UserExists, userRows
  <2>3. ASSUME NEW tok \in tokens, Expire(tok)
        PROVE  FreshInv'
    BY <2>3 DEF Expire, TenantExists, UserExists, rows, tenantRows, userRows
  <2> QED
    BY <1>7, <2>1, <2>2, <2>3 DEF OperatorSteps
<1>8. CASE UNCHANGED vars
  BY <1>8 DEF vars, TenantExists, UserExists, rows, tenantRows, userRows
<1> QED
  BY <1>1, <1>2, <1>3, <1>4, <1>5, <1>6, <1>7, <1>8 DEF Next, TenantSteps, UserSteps

\* CommitTenant is Found: the tenant and its administrator come to be seen together.
LEMMA CommitTenantFounds ==
    ASSUME AccountInv, FreshInv, NEW p \in Requests, CommitTenant(p)
    PROVE  \E s \in Slugs, e \in Emails : Directory!Found(s, e)
<1> USE DEF CommitTenant, At, Commit
<1>1. PICK t \in Tenants, u \in Users :
        /\ t = req[p].tenant /\ t \in uncommitted /\ slug[t] # None
        /\ u = req[p].new /\ u \in uncommitted /\ home[u] = t /\ role[u] = "admin"
        /\ open[t] /\ active[u]
  BY DEF AccountInv, InsertInv, Creating, Inserting, FreshInv, TenantExists, UserExists
<1>2. slug[t] \in Slugs /\ email[u] \in Emails
  BY <1>1, NoneAssumption DEF AccountInv, TypeOK, FreshInv
<1>3. ASSUME NEW v \in Tenants \ {t} PROVE TenantStays(v)
  BY <1>1, IdsAssumption DEF TenantStays, TenantExists, TenantRow, tenantRows
<1>4. ASSUME NEW v \in Users \ {u} PROVE UserStays(v)
  BY <1>1, IdsAssumption DEF UserStays, UserExists, UserRow, tenantRows, userRows
<1>5. TenantsSeen' = TenantsSeen \union {TenantRow(t)'}
  BY <1>1, <1>3, TenantAppears DEF TenantExists, tenantRows
<1>6. UsersSeen' = UsersSeen \union {UserRow(u)'}
  BY <1>1, <1>4, UserAppears, NoneAssumption DEF UserExists, userRows
<1>7. \A row \in TenantsSeen : row.slug # slug[t]
  BY <1>1 DEF TenantsSeen, TenantRow, TenantExists, AccountInv, UniqueInv
<1>8. TenantRow(t)' = [slug |-> slug[t], open |-> TRUE]
  BY <1>1 DEF TenantRow, tenantRows
<1>9. UserRow(u)' = Directory!User(slug[t], email[u], "admin")
  BY <1>1 DEF UserRow, tenantRows, userRows, Directory!User
<1> QED
  BY <1>2, <1>5, <1>6, <1>7, <1>8, <1>9 DEF Directory!Found

\* CommitUser is AddUser: the email was free, and the tenant is seen.
LEMMA CommitUserAdds ==
    ASSUME AccountInv, FreshInv, NEW p \in Requests, CommitUser(p)
    PROVE  \E s \in Slugs, e \in Emails, r \in Roles : Directory!AddUser(s, e, r)
<1> USE DEF CommitUser, At, Commit
<1>1. PICK t \in Tenants, u \in Users :
        /\ t = req[p].tenant /\ TenantExists(t)
        /\ u = req[p].new /\ u \in uncommitted /\ home[u] = t /\ active[u]
  BY DEF AccountInv, InsertInv, UserInv, Inserting, Identified, ReachableInv, FreshInv, TypeOK, UserExists
<1>2. slug[t] \in Slugs /\ email[u] \in Emails /\ role[u] \in Roles
  BY <1>1, NoneAssumption DEF AccountInv, TypeOK, FreshInv, TenantExists
<1>3. ASSUME NEW v \in Tenants PROVE TenantStays(v)
  BY <1>1, IdsAssumption DEF TenantStays, TenantExists, TenantRow, tenantRows
<1>4. ASSUME NEW v \in Users \ {u} PROVE UserStays(v)
  BY <1>1, IdsAssumption DEF UserStays, UserExists, UserRow, tenantRows, userRows
<1>5. UNCHANGED TenantsSeen
  BY <1>3, TenantsStay
<1>6. UsersSeen' = UsersSeen \union {UserRow(u)'}
  BY <1>1, <1>4, UserAppears, NoneAssumption DEF UserExists, userRows
<1>7. \E row \in TenantsSeen : row.slug = slug[t]
  <2>1. TenantRow(t) \in TenantsSeen /\ TenantRow(t).slug = slug[t]
    BY <1>1 DEF TenantsSeen, TenantRow
  <2> QED
    BY <2>1
<1>8. ASSUME NEW row \in UsersSeen, row.tenant = slug[t]
      PROVE  row.email # email[u]
  <2>1. PICK v \in Users : UserExists(v) /\ row = UserRow(v)
    BY DEF UsersSeen
  <2>2. home[v] \in Tenants /\ slug[home[v]] = slug[t] /\ slug[t] # None /\ v # u
    BY <1>1, <1>8, <2>1, HomesAreSeen DEF UserRow, TenantExists, UserExists
  <2>3. home[v] = t
    BY <2>2 DEF AccountInv, UniqueInv
  <2> QED
    BY <1>1, <2>1, <2>2, <2>3, NoneAssumption DEF AccountInv, UniqueInv, UserRow, UserExists
<1>9. UserRow(u)' = Directory!User(slug[t], email[u], role[u])
  BY <1>1 DEF UserRow, tenantRows, userRows, Directory!User
<1> QED
  BY <1>2, <1>5, <1>6, <1>7, <1>8, <1>9 DEF Directory!AddUser, Roles

\* What operators do to a row, they do to the row that is seen.
LEMMA OperatorsChangeRows ==
    ASSUME AccountInv, OperatorSteps
    PROVE  Directory!Next \/ UNCHANGED <<TenantsSeen, UsersSeen>>
<1>1. ASSUME NEW u \in Users, NEW r \in Roles, Demote(u, r)
      PROVE  Directory!Next
  <2> USE <1>1 DEF Demote
  <2>1. UserRow(u) \in UsersSeen
    BY DEF UsersSeen
  <2>2. UNCHANGED TenantsSeen
    BY TenantsStay DEF TenantStays, TenantExists, TenantRow, tenantRows
  <2>3. UsersSeen' = (UsersSeen \ {UserRow(u)}) \union {UserRow(u)'}
    <3>1. \A v \in Users \ {u} : UserStays(v)
      BY DEF AccountInv, TypeOK, UserStays, UserExists, UserRow, tenantRows
    <3> QED
      BY <3>1, UserChanges DEF UserExists
  <2>4. UserRow(u)' = [UserRow(u) EXCEPT !.role = r]
    BY DEF AccountInv, TypeOK, UserRow, tenantRows
  <2>5. Directory!Demote(UserRow(u), r)
    BY <2>2, <2>3, <2>4 DEF Directory!Demote, Directory!Becomes, Directory!Rank, Rank, UserRow
  <2> QED
    BY <2>1, <2>5 DEF Directory!Next, Directory!Roles, Roles
<1>2. ASSUME NEW u \in Users, Deactivate(u)
      PROVE  Directory!Next
  <2> USE <1>2 DEF Deactivate
  <2>1. UserRow(u) \in UsersSeen
    BY DEF UsersSeen
  <2>2. UNCHANGED TenantsSeen
    BY TenantsStay DEF TenantStays, TenantExists, TenantRow, tenantRows
  <2>3. UsersSeen' = (UsersSeen \ {UserRow(u)}) \union {UserRow(u)'}
    <3>1. \A v \in Users \ {u} : UserStays(v)
      BY DEF AccountInv, TypeOK, UserStays, UserExists, UserRow, tenantRows
    <3> QED
      BY <3>1, UserChanges DEF UserExists
  <2>4. UserRow(u)' = [UserRow(u) EXCEPT !.active = FALSE]
    <3>1. active'[u] = FALSE
      BY DEF AccountInv, TypeOK
    <3>2. UserRow(u)' = [tenant |-> slug[home[u]], email |-> email[u], role |-> role[u], active |-> FALSE]
      BY <3>1, Zenon DEF UserRow, tenantRows
    <3>3. \A a, b : [[tenant |-> slug[home[u]], email |-> email[u], role |-> role[u], active |-> a] EXCEPT !.active = b]
                      = [tenant |-> slug[home[u]], email |-> email[u], role |-> role[u], active |-> b]
      OBVIOUS
    <3>4. [[tenant |-> slug[home[u]], email |-> email[u], role |-> role[u], active |-> active[u]] EXCEPT !.active = FALSE]
          = [tenant |-> slug[home[u]], email |-> email[u], role |-> role[u], active |-> FALSE]
      BY <3>3, Zenon
    <3> QED
      BY <3>2, <3>4, Zenon DEF UserRow
  <2>5. Directory!Deactivate(UserRow(u))
    BY <2>2, <2>3, <2>4 DEF Directory!Deactivate, Directory!Becomes, UserRow
  <2> QED
    BY <2>1, <2>5 DEF Directory!Next
<1>3. ASSUME NEW t \in Tenants, CloseTenant(t)
      PROVE  Directory!Next
  <2> USE <1>3 DEF CloseTenant
  <2>1. TenantRow(t) \in TenantsSeen
    BY DEF TenantsSeen
  <2>2. UNCHANGED UsersSeen
    BY UsersStay DEF UserStays, UserExists, UserRow, userRows
  <2>3. TenantsSeen' = (TenantsSeen \ {TenantRow(t)}) \union {TenantRow(t)'}
    <3>1. \A v \in Tenants \ {t} : TenantStays(v)
      BY DEF AccountInv, TypeOK, TenantStays, TenantExists, TenantRow
    <3> QED
      BY <3>1, TenantChanges DEF TenantExists
  <2>4. TenantRow(t)' = [TenantRow(t) EXCEPT !.open = FALSE]
    <3>1. open'[t] = FALSE
      BY DEF AccountInv, TypeOK
    <3>2. TenantRow(t)' = [slug |-> slug[t], open |-> FALSE]
      BY <3>1, Zenon DEF TenantRow
    <3>3. \A a, b : [[slug |-> slug[t], open |-> a] EXCEPT !.open = b]
                      = [slug |-> slug[t], open |-> b]
      OBVIOUS
    <3>4. [[slug |-> slug[t], open |-> open[t]] EXCEPT !.open = FALSE]
          = [slug |-> slug[t], open |-> FALSE]
      BY <3>3, Zenon
    <3> QED
      BY <3>2, <3>4, Zenon DEF TenantRow
  <2>5. Directory!Close(TenantRow(t))
    BY <2>2, <2>3, <2>4 DEF Directory!Close, TenantRow
  <2> QED
    BY <2>1, <2>5 DEF Directory!Next
<1>4. ASSUME NEW tok \in tokens, Expire(tok)
      PROVE  UNCHANGED <<TenantsSeen, UsersSeen>>
  BY <1>4, ReadersUnseen DEF Expire
<1> QED
  BY <1>1, <1>2, <1>3, <1>4 DEF OperatorSteps

\* Every step of Accounts is a step of the directory or cannot be seen in it.
LEMMA StepImplements ==
    ASSUME AccountInv, FreshInv, [Next]_vars
    PROVE  [Directory!Next]_(Directory!vars)
<1> USE DEF Directory!vars
<1>1. ASSUME NEW p \in Requests, LoginSteps(p) \/ TokenSteps(p) \/ Leave(p)
                                   \/ \E e \in Emails : EmailConflict(p, e)
      PROVE  UNCHANGED <<TenantsSeen, UsersSeen>>
  BY <1>1, ReadersWriteNothing, ReadersUnseen
<1>2. ASSUME NEW p \in Requests, TenantSteps(p)
      PROVE  Directory!Next \/ UNCHANGED <<TenantsSeen, UsersSeen>>
  BY <1>2, InsertsUnseen, CommitTenantFounds DEF TenantSteps, Directory!Next
<1>3. ASSUME NEW p \in Requests, UserSteps(p)
      PROVE  Directory!Next \/ UNCHANGED <<TenantsSeen, UsersSeen>>
  BY <1>1, <1>3, InsertsUnseen, CommitUserAdds DEF UserSteps, Directory!Next, Directory!Roles, Roles
<1>4. ASSUME NEW p \in Requests, Abandon(p)
      PROVE  UNCHANGED <<TenantsSeen, UsersSeen>>
  BY <1>4, AbandonUnseen
<1>5. CASE UNCHANGED vars
  BY <1>5, ReadersUnseen DEF vars
<1> QED
  BY <1>1, <1>2, <1>3, <1>4, <1>5, OperatorsChangeRows DEF Next

(***************************************************************************)
(* However requests overlap or break off, and whatever operators change in *)
(* between, what is committed behaves as DirectorySpec says                *)
(* (auth.py 40-76, 154-184).                                               *)
(***************************************************************************)
THEOREM Implements == Spec => ImplementsDirectorySpec
<1>1. Init => AccountInv /\ FreshInv
  <2> SUFFICES ASSUME Init PROVE FreshInv
    BY InitInv
  <2>1. \A t \in Tenants : open[t]
    BY Zenon DEF Init
  <2>2. \A u \in Users : active[u]
    BY Zenon DEF Init
  <2>3. \A u \in Users : home[u] = None
    BY DEF Init
  <2>4. \A p \in Requests : req[p].pc # "founder"
    BY DEF Init, Idle
  <2> QED
    BY <2>1, <2>2, <2>3, <2>4 DEF FreshInv
<1>2. Init => Directory!Init
  BY DEF Init, Directory!Init, TenantsSeen, UsersSeen, TenantExists, UserExists
<1>3. AccountInv /\ FreshInv /\ [Next]_vars => (AccountInv /\ FreshInv)'
  BY NextInv, FreshNext
<1>4. AccountInv /\ FreshInv /\ [Next]_vars => [Directory!Next]_(Directory!vars)
  BY StepImplements
<1> QED
  BY <1>1, <1>2, <1>3, <1>4, PTL DEF Spec, ImplementsDirectorySpec, Directory!Spec

(***************************************************************************)
(* "Both or neither. A tenant created without its admin is unreachable"    *)
(* (auth.py 46-47): every step of a directory keeps that, so the tables    *)
(* do, however many requests create tenants and users.                     *)
(***************************************************************************)
THEOREM Reachable == Spec => []Directory!TenantsReachable
<1>1. Directory!Init => Directory!TenantsReachable
  BY DEF Directory!Init, Directory!TenantsReachable
<1>2. Directory!TenantsReachable /\ [Directory!Next]_(Directory!vars) => Directory!TenantsReachable'
  <2> SUFFICES ASSUME Directory!TenantsReachable, [Directory!Next]_(Directory!vars)
               PROVE  Directory!TenantsReachable'
    OBVIOUS
  <2> USE DEF Directory!TenantsReachable
  <2>1. ASSUME NEW s \in Slugs, NEW e \in Emails, Directory!Found(s, e)
        PROVE  Directory!TenantsReachable'
    <3> DEFINE tenant == [slug |-> s, open |-> TRUE]
               admin == Directory!User(s, e, "admin")
    <3>1. TenantsSeen' = TenantsSeen \union {tenant} /\ UsersSeen' = UsersSeen \union {admin}
      BY <2>1 DEF Directory!Found
    <3>2. tenant.slug = s /\ admin.tenant = s
      BY DEF Directory!User
    <3> HIDE DEF tenant, admin
    <3> QED
      BY <3>1, <3>2
  <2>2. ASSUME NEW s \in Slugs, NEW e \in Emails, NEW r, Directory!AddUser(s, e, r)
        PROVE  Directory!TenantsReachable'
    BY <2>2 DEF Directory!AddUser, Directory!User
  <2>3. ASSUME NEW u \in UsersSeen, NEW row, row.tenant = u.tenant, Directory!Becomes(u, row)
        PROVE  Directory!TenantsReachable'
    BY <2>3 DEF Directory!Becomes
  <2>4. ASSUME NEW t \in TenantsSeen, Directory!Close(t)
        PROVE  Directory!TenantsReachable'
    <3> DEFINE row == [t EXCEPT !.open = FALSE]
    <3>1. TenantsSeen' = (TenantsSeen \ {t}) \union {row} /\ UNCHANGED UsersSeen
      BY <2>4 DEF Directory!Close
    <3>2. row.slug = t.slug
      BY DEF TenantsSeen, TenantRow
    <3> HIDE DEF row
    <3> QED
      BY <3>1, <3>2
  <2>5. ASSUME NEW u \in UsersSeen, Directory!Deactivate(u) \/ \E r : Directory!Demote(u, r)
        PROVE  Directory!TenantsReachable'
    <3>1. \A r : [u EXCEPT !.role = r].tenant = u.tenant /\ [u EXCEPT !.active = FALSE].tenant = u.tenant
      BY DEF UsersSeen, UserRow
    <3> QED
      BY <2>3, <2>5, <3>1 DEF Directory!Deactivate, Directory!Demote
  <2>6. CASE UNCHANGED Directory!vars
    BY <2>6 DEF Directory!vars
  <2> QED
    BY <2>1, <2>2, <2>4, <2>5, <2>6 DEF Directory!Next
<1> QED
  BY <1>1, <1>2, Implements, PTL DEF ImplementsDirectorySpec, Directory!Spec

===============================================================================
