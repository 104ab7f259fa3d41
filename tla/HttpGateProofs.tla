---------------------------- MODULE HttpGateProofs ----------------------------
(* Proofs about HttpGate, for any accounts, tokens, paths, bodies and number *)
(* of requests served at the same time.                                      *)
EXTENDS HttpGate, TLAPS

-----------------------------------------------------------------------------
(* The route table.                                                          *)

AdminHandlers == {"Create", "Update", "Delete", "AdminTransaction", "Upload"}

LEMMA RoutesOf ==
  /\ \A r \in Routes : r.Handler \in AdminHandlers => r.Role = "admin"
  /\ \A h \in AdminHandlers : \E r \in Routes : r.Handler = h
BY DEF AdminHandlers, Routes, AuthRoutes, AdminRoutes, MemberRoutes, BatchRoutes, Route

LEMMA RoleOfAdminHandlers ==
  ASSUME NEW h \in AdminHandlers
  PROVE  RoleOf(h) = "admin"
BY RoutesOf DEF RoleOf

LEMMA IDRoutes ==
  ASSUME NEW r \in Routes, r.Handler \in {"Update", "Delete"}
  PROVE  /\ r.Path = <<"accounts", AnyID>> /\ r.Method \in {"PATCH", "DELETE"}
         /\ \E s \in Routes : s.Method = r.Method /\ s.Path = <<"accounts", "me">>
BY DEF Routes, AuthRoutes, AdminRoutes, MemberRoutes, BatchRoutes, Route

LEMMA FitsAt ==
  ASSUME NEW p, NEW path, Fits(p, path), NEW i \in 1 .. Len(path)
  PROVE  Len(p) = Len(path) /\ p[i] \in {AnyID, path[i]}
BY DEF Fits

\* The deletion of one's own account is asked for at "me".
LEMMA OwnRoute ==
  ASSUME NEW method, NEW path \in Seq(STRING),
         NEW r \in MostSpecific(Matching(method, path)), r.Handler = "DeleteMe"
  PROVE  PathID(path) = "me"
<1>1. r \in Routes /\ Fits(r.Path, path)
  BY DEF MostSpecific, Matching
<1> DEFINE me == <<"accounts", "me">>
<1>2. r.Path = me
  BY <1>1 DEF Routes, AuthRoutes, AdminRoutes, MemberRoutes, BatchRoutes, Route
<1>3. Len(me) = 2 /\ me[2] = "me"
  OBVIOUS
<1> HIDE DEF me
<1>4. Len(path) = 2
  BY <1>1, <1>2, <1>3 DEF Fits
<1>5. me[2] \in {AnyID, path[2]}
  <2>1. 2 \in 1 .. Len(path)
    BY <1>4
  <2> QED
    BY <1>1, <1>2, <2>1, FitsAt
<1> QED
  BY <1>3, <1>4, <1>5 DEF PathID, AnyID

\* No path through "me" reaches the handlers of an account by its id.
LEMMA MeRoutes ==
  ASSUME NEW method, NEW path \in Seq(STRING),
         NEW r \in MostSpecific(Matching(method, path)), r.Handler \in {"Update", "Delete"}
  PROVE  PathID(path) # "me"
<1> SUFFICES ASSUME PathID(path) = "me" PROVE FALSE
  OBVIOUS
<1> DEFINE me == <<"accounts", "me">>
           id == <<"accounts", AnyID>>
<1>1. r \in Matching(method, path) /\ \A s \in Matching(method, path) : Fits(s.Path, r.Path)
  BY DEF MostSpecific
<1>2. r \in Routes /\ Fits(r.Path, path) /\ (r.Method = method \/ (r.Method = "GET" /\ method = "HEAD"))
  BY <1>1 DEF Matching
<1>3. r.Path = id /\ r.Method \in {"PATCH", "DELETE"}
  BY <1>2, IDRoutes
<1>4. PICK s \in Routes : s.Method = r.Method /\ s.Path = me
  BY <1>2, IDRoutes
<1>5. /\ Len(id) = 2 /\ id[1] = "accounts" /\ id[2] = AnyID
      /\ Len(me) = 2 /\ me[1] = "accounts" /\ me[2] = "me"
  OBVIOUS
<1> HIDE DEF me, id
<1>6. Len(path) = 2 
  BY <1>2, <1>3, <1>5 DEF Fits
<1>7. 1 \in 1 .. Len(path) /\ 2 \in 1 .. Len(path) /\ 1 .. Len(path) = {1, 2}
  BY <1>6
<1>8. path[2] = "me"
  BY <1>6 DEF PathID
<1>9. path[1] = "accounts"
  <2>1. id[1] \in {AnyID, path[1]}
    BY <1>2, <1>3, <1>7, FitsAt
  <2> QED
    BY <2>1, <1>5 DEF AnyID
<1>10. Fits(me, path)
  <2>1. me[1] = path[1] /\ me[2] = path[2]
    BY <1>5, <1>8, <1>9
  <2>2. \A i \in 1 .. Len(path) : me[i] \in {AnyID, path[i]}
    BY <2>1, <1>7
  <2> QED
    BY <2>2, <1>5, <1>6 DEF Fits
<1>11. s \in Matching(method, path)
  BY <1>2, <1>3, <1>4, <1>10 DEF Matching
<1>12. Fits(me, id)
  BY <1>1, <1>3, <1>4, <1>11
<1>13. me[2] \in {AnyID, id[2]}
  <2>1. Len(id) = 2
    BY <1>5
  <2>2. 2 \in 1 .. Len(id)
    BY <2>1
  <2> QED
    BY <2>2, <1>12, FitsAt
<1> QED
  BY <1>13, <1>5 DEF AnyID

\* The shape of the table: an id stands in the second segment behind "accounts", in the
\* third behind "batch", and nowhere else.
WildAt(segment) == IF segment = "accounts" THEN 2 ELSE IF segment = "batch" THEN 3 ELSE 0
Shape(p) ==
  /\ Len(p) \in 1 .. 4
  /\ \A i \in 1 .. Len(p) : p[i] = AnyID => i = WildAt(p[1])

LEMMA Shapes ==
  ASSUME NEW a, NEW b, NEW c, NEW d, a # AnyID, b = AnyID => a = "accounts",
         c = AnyID => a = "batch", d # AnyID
  PROVE  Shape(<<a>>) /\ Shape(<<a, b>>) /\ Shape(<<a, b, c>>) /\ Shape(<<a, b, c, d>>)
BY DEF Shape, WildAt

LEMMA TableShape ==
  ASSUME NEW r \in Routes
  PROVE  Shape(r.Path) /\ r.Method # "HEAD"
<1>1. /\ "accounts" # AnyID /\ "transactions" # AnyID /\ "health" # AnyID /\ "auth" # AnyID
      /\ "login" # AnyID /\ "logout" # AnyID /\ "forgot-password" # AnyID
      /\ "reset-password" # AnyID /\ "me" # AnyID /\ "batch" # AnyID /\ "balance" # AnyID
      /\ "ledger" # AnyID /\ "jobs" # AnyID /\ "audit" # AnyID
  BY DEF AnyID
<1>2. /\ Shape(<<"accounts">>) /\ Shape(<<"transactions">>) /\ Shape(<<"health">>)
      /\ Shape(<<"auth", "login">>) /\ Shape(<<"auth", "logout">>)
      /\ Shape(<<"auth", "forgot-password">>) /\ Shape(<<"auth", "reset-password">>)
      /\ Shape(<<"accounts", AnyID>>) /\ Shape(<<"accounts", "me">>)
      /\ Shape(<<"batch", "transactions">>)
      /\ Shape(<<"accounts", AnyID, "balance">>) /\ Shape(<<"accounts", AnyID, "ledger">>)
      /\ Shape(<<"accounts", AnyID, "transactions">>)
      /\ Shape(<<"accounts", "me", "balance">>) /\ Shape(<<"accounts", "me", "ledger">>)
      /\ Shape(<<"batch", "jobs", AnyID>>) /\ Shape(<<"batch", "jobs", AnyID, "audit">>)
  BY <1>1, Shapes
<1>3. Shape(r.Path)
  BY <1>2 DEF Routes, AuthRoutes, AdminRoutes, MemberRoutes, BatchRoutes, Route
<1>4. r.Method # "HEAD"
  BY DEF Routes, AuthRoutes, AdminRoutes, MemberRoutes, BatchRoutes, Route
<1> QED
  BY <1>3, <1>4

\* No two patterns of the table conflict (the mux would refuse to register them): for
\* any method and path that some pattern takes, one of them is the most specific, and
\* no other pattern is.
THEOREM OnePattern ==
  ASSUME NEW method, NEW path, Matching(method, path) # {}
  PROVE  \E r \in MostSpecific(Matching(method, path)) :
           \A s \in MostSpecific(Matching(method, path)) :
             /\ s.Method = r.Method /\ Len(s.Path) = Len(r.Path)
             /\ \A i \in 1 .. Len(r.Path) : s.Path[i] = r.Path[i]
<1> DEFINE M == Matching(method, path)
           k == WildAt(path[1])
<1>1. ASSUME NEW r \in M
      PROVE  /\ Shape(r.Path) /\ Len(r.Path) = Len(path) /\ 1 \in 1 .. Len(path)
             /\ \A i \in 1 .. Len(path) : r.Path[i] \in {AnyID, path[i]}
             /\ r.Method = IF method = "HEAD" THEN "GET" ELSE method
  BY TableShape DEF Matching, Fits, Shape
<1>2. ASSUME NEW r \in M
      PROVE  \A i \in 1 .. Len(path) : i # k => r.Path[i] = path[i]
  <2>1. r.Path[1] = path[1]
    BY <1>1 DEF Shape, WildAt
  <2> QED
    BY <1>1, <2>1 DEF Shape
<1>3. ASSUME NEW r \in M, NEW s \in M,
             k \in 1 .. Len(path) => s.Path[k] = AnyID \/ r.Path[k] = path[k]
      PROVE  Fits(s.Path, r.Path)
  <2>1. Len(r.Path) = Len(path) /\ Len(s.Path) = Len(path)
    BY <1>1
  <2>2. ASSUME NEW i \in 1 .. Len(path) PROVE s.Path[i] \in {AnyID, r.Path[i]}
    BY <1>1, <1>2, <1>3
  <2> QED
    BY <2>1, <2>2 DEF Fits
<1> HIDE DEF k
<1>4. PICK r \in M : \A s \in M : Fits(s.Path, r.Path)
  <2>1. CASE \E r \in M : r.Path[k] = path[k]
    BY <1>3, <2>1
  <2>2. CASE \A r \in M : r.Path[k] # path[k]
    <3>1. \A s \in M : k \in 1 .. Len(path) => s.Path[k] = AnyID
      BY <1>1, <2>2
    <3> QED
      BY <1>3, <3>1
  <2> QED
    BY <2>1, <2>2
<1>5. r \in MostSpecific(M)
  BY <1>4 DEF MostSpecific
<1>6. ASSUME NEW s \in MostSpecific(M)
      PROVE  /\ s.Method = r.Method /\ Len(s.Path) = Len(r.Path)
             /\ \A i \in 1 .. Len(r.Path) : s.Path[i] = r.Path[i]
  <2>1. s \in M /\ Fits(r.Path, s.Path) /\ Fits(s.Path, r.Path)
    BY <1>4 DEF MostSpecific
  <2> QED
    BY <1>1, <2>1 DEF Fits
<1> QED
  BY <1>5, <1>6

\* A handler is behind one chain: the role that is checked when it is reached is the
\* one its route asks for.
THEOREM OneRole ==
  ASSUME NEW r \in Routes
  PROVE  RoleOf(r.Handler) = r.Role
<1>1. \A s \in Routes : s.Handler = r.Handler => s.Role = r.Role
  BY DEF Routes, AuthRoutes, AdminRoutes, MemberRoutes, BatchRoutes, Route
<1> QED
  BY <1>1 DEF RoleOf

-----------------------------------------------------------------------------
(***************************************************************************)
(* What a request may rely on behind each check of the chain: with TypeOK,  *)
(* the inductive invariant.                                                 *)
(***************************************************************************)

\* What a step leaves of an admin is its place in the history.
AdminsKnown ==
  /\ \A a \in IDs : account[a] = "admin" => a \in onceAdmin
  /\ \A t \in Tokens : /\ session[t].State = "live" => session[t].Sub \in IDs
                       /\ session[t].Role = "admin" => session[t].Sub \in onceAdmin

RequestOK(c) ==
  /\ call[c].At # "idle" => call[c].Actor \in IDs
  /\ call[c].Role = "admin" => call[c].Actor \in onceAdmin
  /\ call[c].At \in {"account", "serve"} =>
       /\ call[c].Late => account[call[c].Actor] = "deleted"
       /\ call[c].Handler \in {"Update", "Delete"} /\ call[c].Target \in IDs =>
            call[c].Target # "me"
       /\ call[c].Handler = "DeleteMe" => call[c].Target \notin IDs \ {"me"}
  /\ call[c].At = "serve" =>
       /\ ~call[c].Late
       /\ call[c].Handler \in AdminHandlers => call[c].Role = "admin"

IInv == TypeOK /\ AdminsKnown /\ \A c \in Calls : RequestOK(c)

Requests == [At : {"idle", "login", "account", "serve"}, Actor : IDs \cup {Nobody},
             Role : Roles \cup {"none"}, Target : IDs \cup {Nobody},
             Handler : {r.Handler : r \in Routes} \cup {"none"}, Late : BOOLEAN]
Claims == [State : {"unused", "live", "ended"}, Sub : IDs \cup {Nobody}, Role : Roles \cup {"none"}]
PostedOK ==
  posted # NoEntry =>
    /\ posted.Actor \in IDs /\ posted.Account \in IDs /\ posted.Kind \in Kinds
    /\ ResolveTransactionDirection(posted.Kind, posted.Direction) = posted.Direction

LEMMA Types ==
  TypeOK <=> /\ account \in [IDs -> Roles \cup {"absent", "deleted"}]
             /\ session \in [Tokens -> Claims]
             /\ call \in [Calls -> Requests]
             /\ PostedOK
             /\ onceAdmin \subseteq IDs
BY DEF TypeOK, Claims, Requests, PostedOK

LEMMA InitIInv == Init => IInv
<1> SUFFICES ASSUME Init PROVE IInv
  OBVIOUS
<1>1. Idle \in Requests /\ NoSession("unused") \in Claims
  BY DEF Idle, Requests, NoSession, Claims
<1>2. TypeOK
  BY <1>1, Types, HttpGateAssumption DEF Init, PostedOK, Roles
<1>3. AdminsKnown
  BY HttpGateAssumption DEF Init, AdminsKnown, NoSession
<1>4. ASSUME NEW c \in Calls PROVE RequestOK(c)
  BY DEF Init, RequestOK, Idle
<1> QED
  BY <1>2, <1>3, <1>4 DEF IInv

-----------------------------------------------------------------------------
(* What one step does to the accounts and the requests.                      *)

\* One request moves on and the others stay where they are.
Moves(c, request) ==
  /\ request \in Requests
  /\ call' = [call EXCEPT ![c] = request]

\* A deleted account stays deleted, and an admin is remembered.
AccountSteps ==
  /\ account' \in [IDs -> Roles \cup {"absent", "deleted"}]
  /\ onceAdmin' \subseteq IDs /\ onceAdmin \subseteq onceAdmin'
  /\ \A a \in IDs : /\ account[a] = "deleted" => account'[a] = "deleted"
                    /\ account'[a] = "admin" => a \in onceAdmin'

LEMMA IdleRequest == Idle \in Requests
BY DEF Idle, Requests

LEMMA GotoMoves ==
  ASSUME TypeOK, NEW c \in Calls, NEW at \in {"account", "serve"}, Goto(c, at)
  PROVE  LET f == call[c] IN
         Moves(c, [At |-> at, Actor |-> f.Actor, Role |-> f.Role, Handler |-> f.Handler,
                   Target |-> f.Target, Late |-> f.Late])
<1> DEFINE f == call[c]
           request == [At |-> at, Actor |-> f.Actor, Role |-> f.Role, Handler |-> f.Handler,
                       Target |-> f.Target, Late |-> f.Late]
<1>1. f \in Requests
  BY Types
<1>2. [f EXCEPT !.At = at] = request /\ request \in Requests
  BY <1>1 DEF Requests
<1>3. call' = [call EXCEPT ![c] = [f EXCEPT !.At = at]]
  BY DEF Goto
<1> QED
  BY <1>2, <1>3 DEF Moves

LEMMA EndMoves ==
  ASSUME NEW c \in Calls, End(c)
  PROVE  Moves(c, Idle)
BY IdleRequest DEF End, Moves

LEMMA SameAccounts ==
  ASSUME IInv, UNCHANGED <<account, onceAdmin>>
  PROVE  AccountSteps
BY Types DEF IInv, AdminsKnown, AccountSteps

\* A write to an account that was never deleted.
LEMMA SetAccountSteps ==
  ASSUME IInv, NEW a \in IDs, NEW state \in Roles \cup {"deleted"},
         account[a] # "deleted", SetAccount(a, state)
  PROVE  AccountSteps
BY Types DEF IInv, AdminsKnown, AccountSteps, SetAccount

LEMMA StepKeeps ==
  ASSUME IInv, NEW c \in Calls, NEW request, Moves(c, request), RequestOK(c)',
         AccountSteps, UNCHANGED session, PostedOK'
  PROVE  IInv'
<1>1. TypeOK'
  <2>1. call' \in [Calls -> Requests]
    BY Types DEF IInv, Moves
  <2> QED
    BY <2>1, Types DEF IInv, AccountSteps, TypeOK, PostedOK, Requests, Claims
<1>2. AdminsKnown'
  BY DEF IInv, AdminsKnown, AccountSteps
<1>3. \A d \in Calls \ {c} : call'[d] = call[d]
  BY Types DEF IInv, Moves
<1>4. ASSUME NEW d \in Calls \ {c} PROVE RequestOK(d)'
  BY <1>3, <1>4, Types DEF IInv, RequestOK, AccountSteps
<1> QED
  BY <1>1, <1>2, <1>4 DEF IInv

-----------------------------------------------------------------------------
(* The steps, each with the properties of the actions.                       *)

Others ==
  /\ \A a \in IDs : account'[a] # account[a] =>
       \E c \in Calls : /\ call[c].At = "serve"
                        /\ \/ call[c].Actor \in onceAdmin
                           \/ call[c].Actor = a /\ account'[a] = "deleted"
  /\ posted' # NoEntry /\ posted'.Actor \notin onceAdmin =>
       posted'.Account = posted'.Actor /\ posted'.Kind # "adjustment"

AsNamed ==
  \A a \in IDs : Active(a) /\ account'[a] # account[a] =>
    \E c \in Calls : call[c].At = "serve" /\ call'[c].At = "idle" /\ Named(call[c]) = a

Good == IInv' /\ Others /\ AsNamed

LEMMA QuietKeeps ==
  ASSUME UNCHANGED account, posted' = NoEntry
  PROVE  Others /\ AsNamed /\ PostedOK'
BY DEF Others, AsNamed, PostedOK

LEMMA EndKeeps ==
  ASSUME IInv, NEW c \in Calls, End(c), AccountSteps, UNCHANGED session, PostedOK'
  PROVE  IInv'
<1>1. Moves(c, Idle)
  BY EndMoves
<1>2. call'[c] = Idle
  BY <1>1, Types DEF IInv, Moves
<1>3. RequestOK(c)'
  BY <1>2 DEF RequestOK, Idle
<1> QED
  BY <1>1, <1>3, StepKeeps

LEMMA LoginReadKeeps ==
  ASSUME IInv, NEW c \in Calls, NEW a \in IDs, LoginRead(c, a)
  PROVE  Good
<1> DEFINE request == [At |-> "login", Actor |-> a, Role |-> account[a], Handler |-> "none",
                       Target |-> Nobody, Late |-> FALSE]
<1>1. account[a] \in Roles
  BY DEF LoginRead, Active
<1>2. request \in Requests
  BY <1>1 DEF Requests
<1>3. Moves(c, request)
  BY <1>2 DEF LoginRead, Moves
<1>4. call'[c] = request
  BY <1>3, Types DEF IInv, Moves
<1>5. UNCHANGED <<account, session, onceAdmin>> /\ posted' = NoEntry
  BY DEF LoginRead
<1>6. RequestOK(c)'
  BY <1>4, <1>5 DEF RequestOK, IInv, AdminsKnown
<1>7. AccountSteps
  BY <1>5, SameAccounts
<1> QED
  BY <1>3, <1>5, <1>6, <1>7, StepKeeps, QuietKeeps DEF Good

\* A new session, or the end of one.
LEMMA SessionKeeps ==
  ASSUME IInv, session' \in [Tokens -> Claims], UNCHANGED <<account, onceAdmin>>, posted' = NoEntry,
         \A t \in Tokens : /\ session'[t].State = "live" => session'[t].Sub \in IDs
                           /\ session'[t].Role = "admin" => session'[t].Sub \in onceAdmin,
         \/ UNCHANGED call
         \/ \E c \in Calls : End(c)
  PROVE  Good
<1>1. call' \in [Calls -> Requests] /\ \A c \in Calls : call'[c] = call[c] \/ call'[c] = Idle
  BY Types, IdleRequest DEF IInv, End
<1>2. Others /\ AsNamed /\ PostedOK'
  BY QuietKeeps
<1>3. TypeOK'
  BY <1>1, <1>2, Types DEF IInv, TypeOK, PostedOK, Requests, Claims
<1>4. AdminsKnown'
  BY DEF IInv, AdminsKnown
<1>5. ASSUME NEW c \in Calls PROVE RequestOK(c)'
  BY <1>1, <1>5 DEF IInv, RequestOK, Idle
<1> QED
  BY <1>2, <1>3, <1>4, <1>5 DEF IInv, Good

LEMMA LoginCreateKeeps ==
  ASSUME IInv, NEW c \in Calls, NEW t \in Tokens, LoginCreate(c, t)
  PROVE  Good
<1>1. call[c] \in Requests /\ call[c].At = "login" /\ RequestOK(c)
  BY Types DEF IInv, LoginCreate
<1>2. NewClaims(c) \in Claims
  BY <1>1 DEF NewClaims, Claims, Requests
<1>3. /\ session' = [session EXCEPT ![t] = NewClaims(c)]
      /\ End(c) /\ posted' = NoEntry /\ UNCHANGED <<account, onceAdmin>>
  BY DEF LoginCreate
<1>4. session' \in [Tokens -> Claims]
  BY <1>2, <1>3, Types DEF IInv
<1>5. ASSUME NEW u \in Tokens
      PROVE  /\ session'[u].State = "live" => session'[u].Sub \in IDs
             /\ session'[u].Role = "admin" => session'[u].Sub \in onceAdmin
  <2>1. CASE u = t
    BY <1>1, <1>3, <2>1, Types DEF IInv, NewClaims, RequestOK
  <2>2. CASE u # t
    BY <1>3, <2>2, Types DEF IInv, AdminsKnown
  <2> QED
    BY <2>1, <2>2
<1> QED
  BY <1>3, <1>4, <1>5, SessionKeeps

LEMMA EndSessionKeeps ==
  ASSUME IInv, NEW t \in Tokens, EndSession(t)
  PROVE  Good
<1>1. NoSession("ended") \in Claims
  BY DEF NoSession, Claims
<1>2. /\ session' = [session EXCEPT ![t] = NoSession("ended")]
      /\ posted' = NoEntry /\ UNCHANGED <<account, call, onceAdmin>>
  BY DEF EndSession
<1>3. session' \in [Tokens -> Claims]
  BY <1>1, <1>2, Types DEF IInv
<1>4. ASSUME NEW u \in Tokens
      PROVE  /\ session'[u].State = "live" => session'[u].Sub \in IDs
             /\ session'[u].Role = "admin" => session'[u].Sub \in onceAdmin
  <2>1. CASE u = t
    BY <1>2, <2>1, Types DEF IInv, NoSession
  <2>2. CASE u # t
    BY <1>2, <2>2, Types DEF IInv, AdminsKnown
  <2> QED
    BY <2>1, <2>2
<1> QED
  BY <1>2, <1>3, <1>4, SessionKeeps

LEMMA ArriveKeeps ==
  ASSUME IInv, NEW c \in Calls, NEW method, NEW path \in Paths, NEW json, NEW t \in Tokens,
         Arrive(c, method, path, json, t)
  PROVE  Good
<1>1. PICK route \in MostSpecific(Matching(method, path)) : Authenticate(c, route, path, t)
  BY DEF Arrive
<1> DEFINE target == IF PathID(path) \in IDs THEN PathID(path) ELSE Nobody
           request == [At |-> "account", Actor |-> session[t].Sub, Role |-> session[t].Role,
                       Handler |-> route.Handler, Target |-> target,
                       Late |-> account[session[t].Sub] = "deleted"]
<1>2. route \in Routes
  BY DEF MostSpecific, Matching
<1>3. session[t] \in Claims /\ session[t].State = "live" /\ session[t].Sub \in IDs
  BY <1>1, Types DEF IInv, AdminsKnown, Authenticate
<1>4. request \in Requests
  BY <1>2, <1>3 DEF Claims, Requests
<1>5. Moves(c, request)
  BY <1>1, <1>4 DEF Authenticate, Moves
<1>6. call'[c] = request
  BY <1>5, Types DEF IInv, Moves
<1>7. UNCHANGED <<account, session, onceAdmin>> /\ posted' = NoEntry
  BY DEF Arrive
<1>8. route.Handler \in {"Update", "Delete"} /\ target \in IDs => target # "me"
  <2>1. path \in Seq(STRING)
    BY HttpGateAssumption
  <2>2. route.Handler \in {"Update", "Delete"} => PathID(path) # "me"
    BY <2>1, MeRoutes
  <2> QED
    BY <2>2, HttpGateAssumption
<1>10. route.Handler = "DeleteMe" => target \notin IDs \ {"me"}
  <2>1. path \in Seq(STRING)
    BY HttpGateAssumption
  <2>2. route.Handler = "DeleteMe" => PathID(path) = "me"
    BY <2>1, OwnRoute
  <2> QED
    BY <2>2, HttpGateAssumption
<1> HIDE DEF target
<1>9. RequestOK(c)'
  <2>1. /\ call'[c].At = "account" /\ call'[c].Actor = session[t].Sub
        /\ call'[c].Role = session[t].Role /\ call'[c].Handler = route.Handler
        /\ call'[c].Target = target /\ call'[c].Late = (account[session[t].Sub] = "deleted")
    BY <1>6
  <2>2. session[t].Role = "admin" => session[t].Sub \in onceAdmin
    BY DEF IInv, AdminsKnown
  <2> QED
    BY <1>3, <1>7, <1>8, <1>10, <2>1, <2>2 DEF RequestOK
<1> QED
  BY <1>5, <1>7, <1>9, SameAccounts, StepKeeps, QuietKeeps DEF Good

LEMMA CheckAccountKeeps ==
  ASSUME IInv, NEW c \in Calls, CheckAccount(c)
  PROVE  Good
<1>1. UNCHANGED <<account, session, onceAdmin>> /\ posted' = NoEntry /\ call[c].At = "account"
  BY DEF CheckAccount
<1>2. AccountSteps /\ Others /\ AsNamed /\ PostedOK'
  BY <1>1, SameAccounts, QuietKeeps
<1>3. CASE End(c)
  BY <1>1, <1>2, <1>3, EndKeeps DEF Good
<1>4. CASE Active(call[c].Actor) /\ RequireRole(RoleOf(call[c].Handler), call[c]) /\ Goto(c, "serve")
  <2> DEFINE f == call[c]
             request == [At |-> "serve", Actor |-> f.Actor, Role |-> f.Role,
                         Handler |-> f.Handler, Target |-> f.Target, Late |-> f.Late]
  <2>1. Moves(c, request)
    BY <1>4, GotoMoves DEF IInv
  <2>2. call'[c] = request
    BY <2>1, Types DEF IInv, Moves
  <2>3. RequestOK(c)
    BY DEF IInv
  <2>4. ~f.Late
    BY <1>1, <1>4, <2>3 DEF RequestOK, Active, Roles
  <2>5. f.Handler \in AdminHandlers => f.Role = "admin"
    BY <1>4, RoleOfAdminHandlers DEF RequireRole
  <2>6. RequestOK(c)'
    BY <1>1, <2>2, <2>3, <2>4, <2>5 DEF RequestOK
  <2> QED
    BY <1>1, <1>2, <2>1, <2>6, StepKeeps DEF Good
<1> QED
  BY <1>3, <1>4 DEF CheckAccount

\* What the chain lets through to a handler.
LEMMA Served ==
  ASSUME IInv, NEW c \in Calls, NEW handlers, Serve(c, handlers)
  PROVE  /\ call[c].At = "serve" /\ call[c].Handler \in handlers /\ End(c)
         /\ call[c].Actor \in IDs
         /\ call[c].Handler \in AdminHandlers => call[c].Actor \in onceAdmin
         /\ call[c].Handler \in {"Update", "Delete"} /\ call[c].Target \in IDs =>
              call[c].Target # "me" /\ Named(call[c]) = call[c].Target
         /\ call[c].Handler = "DeleteMe" => Named(call[c]) = call[c].Actor
BY DEF Serve, IInv, RequestOK, Named

LEMMA SetAccountKeeps ==
  ASSUME IInv, NEW c \in Calls, call[c].At = "serve", End(c),
         NEW a \in IDs, NEW state \in Roles \cup {"deleted"},
         account[a] # "deleted", SetAccount(a, state),
         call[c].Actor \in onceAdmin \/ (call[c].Actor = a /\ state = "deleted"),
         Active(a) => Named(call[c]) = a
  PROVE  Good
<1>1. AccountSteps
  BY SetAccountSteps
<1>2. posted' = NoEntry /\ UNCHANGED session /\ account' = [account EXCEPT ![a] = state]
  BY DEF SetAccount
<1>3. account \in [IDs -> Roles \cup {"absent", "deleted"}]
  BY Types DEF IInv
<1>4. Others
  BY <1>2, <1>3 DEF Others
<1>5. call'[c].At = "idle"
  BY Types DEF IInv, End, Idle
<1>6. AsNamed
  BY <1>2, <1>3, <1>5 DEF AsNamed
<1>7. IInv'
  BY <1>1, <1>2, EndKeeps DEF PostedOK
<1> QED
  BY <1>4, <1>6, <1>7 DEF Good

LEMMA PostKeeps ==
  ASSUME IInv, NEW c \in Calls, call[c].At = "serve", End(c), call[c].Actor \in IDs,
         NEW a, NEW body, Post(c, a, body), NEW memberOnly \in BOOLEAN,
         TransactionValid(body, memberOnly),
         call[c].Actor \in onceAdmin \/ (call[c].Actor = a /\ memberOnly)
  PROVE  Good
<1> DEFINE entry == [Actor |-> call[c].Actor, Account |-> a, Kind |-> Lower(body.Kind),
                     Direction |-> Lower(body.Direction)]
<1>1. posted' = entry /\ a \in IDs /\ UNCHANGED <<account, session, onceAdmin>>
  BY DEF Post
<1>2. /\ Lower(body.Kind) \in Kinds
      /\ ResolveTransactionDirection(Lower(body.Kind), Lower(body.Direction)) # "invalid"
      /\ memberOnly => Lower(body.Kind) # "adjustment"
  BY DEF TransactionValid, ValidateWithResolvedRef
<1>3. \A kind, dir : ResolveTransactionDirection(kind, dir) \in {dir, "invalid"}
  BY DEF ResolveTransactionDirection, Directions
<1>4. PostedOK'
  BY <1>1, <1>2, <1>3 DEF PostedOK
<1>5. Others
  BY <1>1, <1>2 DEF Others
<1>6. AsNamed
  BY <1>1 DEF AsNamed
<1>7. IInv'
  BY <1>1, <1>4, SameAccounts, EndKeeps
<1> QED
  BY <1>5, <1>6, <1>7 DEF Good

LEMMA CreateKeeps ==
  ASSUME IInv, NEW c \in Calls, NEW body \in AccountBodies, Create(c, body)
  PROVE  Good
<1>1. Serve(c, {"Create"}) /\ body.ID \in IDs /\ account[body.ID] = "absent"
      /\ SetAccount(body.ID, RoleToCreate(body)) /\ RoleToCreate(body) \in Roles
  BY DEF Create, CreateValid
<1>2. "Create" \in AdminHandlers /\ ~Active(body.ID)
  BY <1>1 DEF AdminHandlers, Active, Roles
<1> QED
  BY <1>1, <1>2, Served, SetAccountKeeps

LEMMA UpdateKeeps ==
  ASSUME IInv, NEW c \in Calls, NEW body \in AccountBodies, Update(c, body)
  PROVE  Good
<1>1. Serve(c, {"Update"}) /\ call[c].Target \in IDs /\ Active(call[c].Target)
      /\ SetAccount(call[c].Target, Lower(body.Role)) /\ Lower(body.Role) \in Roles
  BY DEF Update, UpdateValid
<1>2. "Update" \in AdminHandlers /\ account[call[c].Target] # "deleted"
  BY <1>1 DEF AdminHandlers, Active, Roles
<1> QED
  BY <1>1, <1>2, Served, SetAccountKeeps

LEMMA DeleteKeeps ==
  ASSUME IInv, NEW c \in Calls, Delete(c)
  PROVE  Good
<1>1. Serve(c, {"Delete"}) /\ call[c].Target \in IDs /\ Active(call[c].Target)
      /\ SetAccount(call[c].Target, "deleted")
  BY DEF Delete
<1>2. "Delete" \in AdminHandlers /\ account[call[c].Target] # "deleted"
  BY <1>1 DEF AdminHandlers, Active, Roles
<1> QED
  BY <1>1, <1>2, Served, SetAccountKeeps

LEMMA DeleteMeKeeps ==
  ASSUME IInv, NEW c \in Calls, DeleteMe(c)
  PROVE  Good
<1>1. Serve(c, {"DeleteMe"}) /\ Active(call[c].Actor) /\ SetAccount(call[c].Actor, "deleted")
  BY DEF DeleteMe
<1>2. account[call[c].Actor] # "deleted"
  BY <1>1 DEF Active, Roles
<1> QED
  BY <1>1, <1>2, Served, SetAccountKeeps

LEMMA TransactionKeeps ==
  ASSUME IInv, NEW c \in Calls, NEW body \in TransactionBodies,
         AdminTransaction(c, body) \/ MemberTransaction(c, body) \/ \E a \in IDs : Upload(c, a, body)
  PROVE  Good
<1>1. CASE AdminTransaction(c, body)
  <2>1. /\ Serve(c, {"AdminTransaction"}) /\ TransactionValid(body, FALSE)
        /\ Post(c, call[c].Target, body) /\ "AdminTransaction" \in AdminHandlers
    BY <1>1 DEF AdminTransaction, AdminHandlers
  <2> QED
    BY <2>1, Served, PostKeeps
<1>2. CASE MemberTransaction(c, body)
  <2>1. /\ Serve(c, {"MemberTransaction"}) /\ TransactionValid(body, TRUE)
        /\ Post(c, call[c].Actor, body)
    BY <1>2 DEF MemberTransaction
  <2> QED
    BY <2>1, Served, PostKeeps
<1>3. ASSUME NEW a \in IDs, Upload(c, a, body) PROVE Good
  <2>1. /\ Serve(c, {"Upload"}) /\ TransactionValid(body, FALSE)
        /\ Post(c, a, body) /\ "Upload" \in AdminHandlers
    BY <1>3 DEF Upload, AdminHandlers
  <2> QED
    BY <2>1, Served, PostKeeps
<1> QED
  BY <1>1, <1>2, <1>3

LEMMA EndingKeeps ==
  ASSUME IInv, NEW c \in Calls, LoginFails(c) \/ Answer(c)
  PROVE  Good
<1>1. End(c) /\ posted' = NoEntry /\ UNCHANGED <<account, session, onceAdmin>>
  BY DEF LoginFails, Answer
<1> QED
  BY <1>1, SameAccounts, QuietKeeps, EndKeeps DEF Good

LEMMA StutterKeeps ==
  ASSUME IInv, UNCHANGED vars
  PROVE  IInv'
<1>1. TypeOK'
  BY DEF IInv, TypeOK, vars
<1>2. AdminsKnown'
  BY DEF IInv, AdminsKnown, vars
<1>3. ASSUME NEW c \in Calls PROVE RequestOK(c)'
  BY DEF IInv, RequestOK, vars
<1> QED
  BY <1>1, <1>2, <1>3 DEF IInv

LEMMA NextGood ==
  ASSUME IInv, Next
  PROVE  Good
<1>1. ASSUME NEW c \in Calls, Handle(c) PROVE Good
  BY <1>1, CreateKeeps, UpdateKeeps, DeleteKeeps, DeleteMeKeeps, TransactionKeeps, EndingKeeps
     DEF Handle
<1> QED
  BY <1>1, LoginReadKeeps, LoginCreateKeeps, ArriveKeeps, EndingKeeps, CheckAccountKeeps,
     EndSessionKeeps DEF Next

-----------------------------------------------------------------------------
(* The directory, to which each request is a step on one account or none.    *)

LEMMA StepImplements ==
  ASSUME IInv, [Next]_vars
  PROVE  Dir!Next \/ UNCHANGED account
<1>1. Dir!Roles = Roles
  BY DEF Dir!Roles, Roles
<1>2. ASSUME NEW c \in Calls, NEW body \in AccountBodies, Create(c, body)
      PROVE  Dir!Next
  <2>1. body.ID \in IDs /\ RoleToCreate(body) \in Roles
    BY <1>2 DEF Create, CreateValid
  <2>2. Dir!Enrol(body.ID, RoleToCreate(body))
    BY <1>2 DEF Create, SetAccount, Dir!Enrol
  <2> QED
    BY <1>1, <2>1, <2>2 DEF Dir!Next
<1>3. ASSUME NEW c \in Calls, NEW body \in AccountBodies, Update(c, body)
      PROVE  Dir!Next
  <2>1. call[c].Target \in IDs /\ Lower(body.Role) \in Roles
    BY <1>3 DEF Update, UpdateValid
  <2>2. Dir!SetRole(call[c].Target, Lower(body.Role))
    BY <1>1, <1>3 DEF Update, Active, SetAccount, Dir!SetRole
  <2> QED
    BY <1>1, <2>1, <2>2 DEF Dir!Next
<1>4. ASSUME NEW c \in Calls, Delete(c)
      PROVE  Dir!Next
  BY <1>1, <1>4 DEF Delete, Active, SetAccount, Dir!Remove, Dir!Next
<1>5. ASSUME NEW c \in Calls, DeleteMe(c)
      PROVE  Dir!Next
  <2>1. call[c].Actor \in IDs
    BY <1>5, Served DEF DeleteMe
  <2>2. Dir!Remove(call[c].Actor)
    BY <1>1, <1>5 DEF DeleteMe, Active, SetAccount, Dir!Remove
  <2> QED
    BY <2>1, <2>2 DEF Dir!Next
<1>6. ASSUME NEW c \in Calls, Handle(c)
      PROVE  Dir!Next \/ UNCHANGED account
  BY <1>2, <1>3, <1>4, <1>5, <1>6
     DEF Handle, AdminTransaction, MemberTransaction, Upload, Post, Answer
<1>7. CASE Next
  BY <1>6, <1>7
     DEF Next, LoginRead, LoginCreate, LoginFails, EndSession, Arrive, CheckAccount
<1> QED
  BY <1>7 DEF vars

-----------------------------------------------------------------------------
\* What a request may rely on behind each check holds in every reachable state.
THEOREM Invariant == Spec => []IInv
<1>1. IInv /\ [Next]_vars => IInv'
  BY NextGood, StutterKeeps DEF Good
<1> QED
  BY <1>1, InitIInv, PTL DEF Spec

\* Whatever the paths, bodies and sessions, requests change the accounts by the
\* directory's steps.
THEOREM Implementation == Spec => Implements
<1>1. Init => Dir!Init
  BY HttpGateAssumption DEF Init, Dir!Init
<1>2. IInv /\ [Next]_vars => [Dir!Next]_account
  BY StepImplements
<1> QED
  BY <1>1, <1>2, Invariant, PTL DEF Spec, Implements, Dir!Spec

\* Every variable holds a value of its type, and an entry the direction of its kind.
THEOREM TypeCorrect == Spec => []TypeOK
<1>1. IInv => TypeOK
  BY DEF IInv
<1> QED
  BY <1>1, Invariant, PTL

\* However a login, a deletion and the revocation of the sessions interleave, no
\* request that came after its account was deleted reaches a handler.
THEOREM DeletedAreRefused == Spec => []DeletedNeverServed
<1>1. IInv => DeletedNeverServed
  BY DEF IInv, RequestOK, DeletedNeverServed
<1> QED
  BY <1>1, Invariant, PTL

\* An account that never was an admin changes no account but its own, and adds no
\* entry to another and no adjustment to its own.
THEOREM AdminsOnly == Spec => OthersOnlyByAdmins
<1>1. IInv /\ [Next]_vars => [Others]_vars
  BY NextGood DEF Good
<1> QED
  BY <1>1, Invariant, PTL DEF Spec, OthersOnlyByAdmins, Others

\* For any paths, ids and methods: who changes or deletes an account asked for that one.
THEOREM NamedOnly == Spec => ChangesNamedAccount
<1>1. IInv /\ [Next]_vars => [AsNamed]_vars
  BY NextGood DEF Good
<1> QED
  BY <1>1, Invariant, PTL DEF Spec, ChangesNamedAccount, AsNamed
===============================================================================
