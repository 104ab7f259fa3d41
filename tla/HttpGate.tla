------------------------------ MODULE HttpGate ------------------------------
(* Who reaches which handler with what: the middleware chain in front of the *)
(* handlers (router.go, middleware/*.go) and what the handlers then do to    *)
(* the accounts and the ledger, each in one step; their statements one by    *)
(* one, and the checks between them, are in Accounts, WalletTx and Batch.    *)
(* The role that is asked for is the one in the token, as the login read it. *)
EXTENDS HttpRoutes, Requests, FiniteSets

CONSTANTS
  IDs,                \* account ids; the literal segment "me" may be one
  Seeded,             \* the admin that is seeded
  Tokens,             \* the jti values that will be generated: the bound on logins
  Calls,              \* requests being served at the same time
  Paths,              \* the paths that are asked for
  AccountBodies, TransactionBodies,
  Nobody

ASSUME HttpGateAssumption ==
  /\ Seeded \in IDs /\ Nobody \notin IDs
  /\ Paths \subseteq Seq(STRING)
  /\ AccountBodies \subseteq [Decodes : BOOLEAN, Complete : BOOLEAN, ID : STRING, Role : STRING]
  /\ TransactionBodies \subseteq [Decodes : BOOLEAN, Complete : BOOLEAN, Kind : STRING,
                                  Direction : STRING, Points : Int, Key : STRING, Ref : STRING]

VARIABLES
  account,    \* absent, deleted, or the role of an active account
  session,    \* auth_tokens, each with the claims of its token
  call,       \* the request on each connection, past the checks named by At
  posted,     \* history: the ledger entry of the last step, if it wrote one
  onceAdmin   \* history: the accounts that ever were admins

vars == <<account, session, call, posted, onceAdmin>>

Idle == [At |-> "idle", Actor |-> Nobody, Role |-> "none", Handler |-> "none",
         Target |-> Nobody, Late |-> FALSE]
NoSession(state) == [State |-> state, Sub |-> Nobody, Role |-> "none"]
NoEntry == [Actor |-> Nobody, Account |-> Nobody, Kind |-> "none", Direction |-> "none"]

Active(a) == account[a] \in Roles
Methods == {"GET", "HEAD", "POST", "PATCH", "DELETE", "PUT"}

-----------------------------------------------------------------------------
Init ==
  /\ account = [a \in IDs |-> IF a = Seeded THEN "admin" ELSE "absent"]
  /\ session = [t \in Tokens |-> NoSession("unused")]
  /\ call = [c \in Calls |-> Idle]
  /\ posted = NoEntry
  /\ onceAdmin = {Seeded}

Goto(c, at) == call' = [call EXCEPT ![c].At = at]
End(c) == call' = [call EXCEPT ![c] = Idle]

\* Login reads the account and compares the password; the claims it will sign
\* are those of this moment.
LoginRead(c, a) ==
  /\ call[c].At = "idle"
  /\ Active(a)
  /\ call' = [call EXCEPT ![c] =
       [At |-> "login", Actor |-> a, Role |-> account[a], Handler |-> "none",
        Target |-> Nobody, Late |-> FALSE]]
  /\ posted' = NoEntry
  /\ UNCHANGED <<account, session, onceAdmin>>

NewClaims(c) == [State |-> "live", Sub |-> call[c].Actor, Role |-> call[c].Role]
LoginCreate(c, t) ==
  /\ call[c].At = "login"
  /\ session[t].State = "unused"
  /\ session' = [session EXCEPT ![t] = NewClaims(c)]
  /\ End(c)
  /\ posted' = NoEntry
  /\ UNCHANGED <<account, onceAdmin>>

\* The session could not be stored: no token is signed.
LoginFails(c) ==
  /\ call[c].At = "login"
  /\ End(c)
  /\ posted' = NoEntry
  /\ UNCHANGED <<account, session, onceAdmin>>

\* A session is revoked or expires.
EndSession(t) ==
  /\ session[t].State = "live"
  /\ session' = [session EXCEPT ![t] = NoSession("ended")]
  /\ posted' = NoEntry
  /\ UNCHANGED <<account, call, onceAdmin>>

(***************************************************************************)
(* The chain: rate limit, Methods, RequireJSON, Auth, role.  A request that *)
(* is refused at once leaves no trace.                                      *)
(***************************************************************************)
MethodAllowed(route, method) == route.Method = method
RequireJSON(route, json) == route.JSON => json
RequireRole(role, claims) == role \in {"any", claims.Role}

\* GetActiveToken, on a token whose signature and expiry were verified.
Authenticate(c, route, path, t) ==
  /\ session[t].State = "live"
  /\ call' = [call EXCEPT ![c] =
       [At |-> "account", Actor |-> session[t].Sub, Role |-> session[t].Role,
        Handler |-> route.Handler,
        Target |-> IF PathID(path) \in IDs THEN PathID(path) ELSE Nobody,
        Late |-> account[session[t].Sub] = "deleted"]]

Arrive(c, method, path, json, t) ==
  /\ call[c].At = "idle"
  /\ \E route \in MostSpecific(Matching(method, path)) :
       /\ MethodAllowed(route, method) /\ RequireJSON(route, json)
       /\ route.Role # "public"
       /\ Authenticate(c, route, path, t)
  /\ posted' = NoEntry
  /\ UNCHANGED <<account, session, onceAdmin>>

\* IsAccountActive, then the role of the claims.
RoleOf(handler) == (CHOOSE r \in Routes : r.Handler = handler).Role
CheckAccount_SessionOnly(c) ==
  /\ call[c].At = "account"
  /\ IF RequireRole(RoleOf(call[c].Handler), call[c]) THEN Goto(c, "serve") ELSE End(c)
  /\ posted' = NoEntry
  /\ UNCHANGED <<account, session, onceAdmin>>
CheckAccount(c) ==
  /\ call[c].At = "account"
  /\ IF Active(call[c].Actor) /\ RequireRole(RoleOf(call[c].Handler), call[c])
     THEN Goto(c, "serve") ELSE End(c)
  /\ posted' = NoEntry
  /\ UNCHANGED <<account, session, onceAdmin>>

(***************************************************************************)
(* The handlers.  Each may also refuse or fail, and then changes nothing.   *)
(* The count of admins is no guard here: it is another statement than the   *)
(* write, and two requests may remove the last admins (Accounts).           *)
(***************************************************************************)
Serve(c, handlers) ==
  /\ call[c].At = "serve" /\ call[c].Handler \in handlers
  /\ End(c)

SetAccount(a, state) ==
  /\ account' = [account EXCEPT ![a] = state]
  /\ onceAdmin' = IF state = "admin" THEN onceAdmin \cup {a} ELSE onceAdmin
  /\ posted' = NoEntry
  /\ UNCHANGED session

Create_Again(c, body) ==
  /\ Serve(c, {"Create"})
  /\ CreateValid(body) /\ body.ID \in IDs /\ ~Active(body.ID)
  /\ SetAccount(body.ID, RoleToCreate(body))
Create(c, body) ==
  /\ Serve(c, {"Create"})
  /\ CreateValid(body) /\ body.ID \in IDs /\ account[body.ID] = "absent"
  /\ SetAccount(body.ID, RoleToCreate(body))

Update(c, body) ==
  /\ Serve(c, {"Update"})
  /\ UpdateValid(body) /\ call[c].Target \in IDs /\ Active(call[c].Target)
  /\ SetAccount(call[c].Target, Lower(body.Role))

Delete(c) ==
  /\ Serve(c, {"Delete"})
  /\ call[c].Target \in IDs /\ Active(call[c].Target)
  /\ SetAccount(call[c].Target, "deleted")

DeleteMe(c) ==
  /\ Serve(c, {"DeleteMe"})
  /\ Active(call[c].Actor)
  /\ SetAccount(call[c].Actor, "deleted")

Post(c, a, body) ==
  /\ a \in IDs /\ Active(a)
  /\ posted' = [Actor |-> call[c].Actor, Account |-> a, Kind |-> Lower(body.Kind),
                Direction |-> Lower(body.Direction)]
  /\ UNCHANGED <<account, session, onceAdmin>>

AdminTransaction(c, body) ==
  /\ Serve(c, {"AdminTransaction"})
  /\ TransactionValid(body, FALSE)
  /\ Post(c, call[c].Target, body)

MemberTransaction(c, body) ==
  /\ Serve(c, {"MemberTransaction"})
  /\ TransactionValid(body, TRUE)
  /\ Post(c, call[c].Actor, body)

\* A row of a batch, whose actor is the uploading admin.  Batch has the job that posts it
\* later and the parser's rules; of those only kind and direction matter here.
Upload(c, a, body) ==
  /\ Serve(c, {"Upload"})
  /\ TransactionValid(body, FALSE)
  /\ Post(c, a, body)

\* Handlers that only read or write names, emails and sessions, and every refusal.
Answer(c) ==
  /\ call[c].At = "serve"
  /\ End(c)
  /\ posted' = NoEntry
  /\ UNCHANGED <<account, session, onceAdmin>>

Handle(c) ==
  \/ \E body \in AccountBodies : Create(c, body) \/ Update(c, body)
  \/ Delete(c)
  \/ DeleteMe(c)
  \/ \E body \in TransactionBodies :
       \/ AdminTransaction(c, body)
       \/ MemberTransaction(c, body)
       \/ \E a \in IDs : Upload(c, a, body)
  \/ Answer(c)

Next ==
  \/ \E c \in Calls :
       \/ \E a \in IDs : LoginRead(c, a)
       \/ \E t \in Tokens : LoginCreate(c, t)
       \/ \E method \in Methods, path \in Paths, json \in BOOLEAN, t \in Tokens :
            Arrive(c, method, path, json, t)
       \/ LoginFails(c)
       \/ CheckAccount(c)
       \/ Handle(c)
  \/ \E t \in Tokens : EndSession(t)

Spec == Init /\ [][Next]_vars

-----------------------------------------------------------------------------
\* Every variable holds a value of its type; a ledger entry has a kind, and the
\* direction of its kind.
TypeOK ==
  /\ account \in [IDs -> Roles \cup {"absent", "deleted"}]
  /\ session \in [Tokens -> [State : {"unused", "live", "ended"}, Sub : IDs \cup {Nobody},
                             Role : Roles \cup {"none"}]]
  /\ call \in [Calls -> [At : {"idle", "login", "account", "serve"}, Actor : IDs \cup {Nobody},
                         Role : Roles \cup {"none"}, Target : IDs \cup {Nobody},
                         Handler : {r.Handler : r \in Routes} \cup {"none"}, Late : BOOLEAN]]
  /\ posted # NoEntry =>
       /\ posted.Actor \in IDs /\ posted.Account \in IDs /\ posted.Kind \in Kinds
       /\ ResolveTransactionDirection(posted.Kind, posted.Direction) = posted.Direction
  /\ onceAdmin \subseteq IDs

\* What reaches the table of accounts over HTTP is the directory's steps: no body and no
\* path enrols an id twice, gives a role to an account that is gone, or touches two.
Dir == INSTANCE Directory WITH entry <- account

Implements == Dir!Spec

\* An account that never was an admin reaches only itself: it can delete its own
\* account and post earnings and spendings on it.  Every other account that is
\* created, changed or deleted, every role that is given, every adjustment and
\* every entry on another account is the work of a present or former admin.
OthersOnlyByAdmins ==
  [][/\ \A a \in IDs : account'[a] # account[a] =>
          \E c \in Calls : /\ call[c].At = "serve"
                           /\ \/ call[c].Actor \in onceAdmin
                              \/ call[c].Actor = a /\ account'[a] = "deleted"
     /\ posted' # NoEntry /\ posted'.Actor \notin onceAdmin =>
          posted'.Account = posted'.Actor /\ posted'.Kind # "adjustment"]_vars

\* The account that the path of a request names: the caller's where it says "me", and
\* else the one with that id.
Named(request) ==
  IF request.Target \in IDs \ {"me"} THEN request.Target ELSE request.Actor

\* An account is only changed or deleted by a request whose path names it: for every
\* method and path the route that wins and the handler behind it mean the same account by
\* "me".  An account with that id is no exception, which puts it out of the admins' reach,
\* although README.md:322 gives them PATCH and DELETE of any id.
ChangesNamedAccount ==
  [][\A a \in IDs : Active(a) /\ account'[a] # account[a] =>
       \E c \in Calls : call[c].At = "serve" /\ call'[c].At = "idle" /\ Named(call[c]) = a]_vars

\* A request that comes after its account was deleted is never served, whether the
\* revocation of its sessions failed or a login slipped in a session behind it.
DeletedNeverServed == \A c \in Calls : call[c].At = "serve" => ~call[c].Late
=============================================================================
