---------------------------- MODULE SessionsProofs ----------------------------
(* Proofs about Sessions, for any accounts, passwords, tokens and number of  *)
(* flows served at the same time.                                            *)
EXTENDS Sessions, FiniteSetTheorems, TLAPS

(***************************************************************************)
(* What a flow may rely on at each of its statements: with TypeOK, the      *)
(* inductive invariant.                                                     *)
(***************************************************************************)

\* A row that was written has its foreign keys.
RowsOwned ==
  /\ \A t \in Tokens : token[t].State # "unused" =>
       token[t].Account \in Accounts /\ token[t].Password \in Passwords
  /\ \A r \in Resets : reset[r].State # "unused" => reset[r].Account \in Accounts

\* A flow holds what its next statements need, and a reset token only once used.
FlowOK(c) ==
  /\ call[c].At # "idle" => call[c].Account \in Accounts
  /\ call[c].At \in {"login_revoke", "login_create", "reset_password"} =>
       call[c].Password \in Passwords
  /\ call[c].At \in {"check_account", "serve"} =>
       call[c].Token \in Tokens /\ token[call[c].Token].State # "unused"
  /\ call[c].At \in {"reset_password", "reset_revoke"} => call[c].Reset \in Resets
  /\ call[c].Reset \in Resets => reset[call[c].Reset].State = "used"

ResetsApart ==
  \A c, d \in Calls : call[c].Reset \in Resets /\ call[c].Reset = call[d].Reset => c = d

IInv == TypeOK /\ RowsOwned /\ (\A c \in Calls : FlowOK(c)) /\ ResetsApart

Sessions == [State : {"unused", "live", "revoked", "expired"},
             Account : Accounts \cup {None}, Password : Passwords \cup {None}]
Flows == [At : Statements \cup {"idle"}, Account : Accounts \cup {None},
          Password : Passwords \cup {None}, Reset : Resets \cup {None},
          Token : Tokens \cup {None}]

LEMMA InitIInv == Init => IInv
BY SessionsAssumption DEF Init, IInv, TypeOK, RowsOwned, FlowOK, ResetsApart, Idle, Statements

-----------------------------------------------------------------------------
(* What one step does to the sessions and the flows.                         *)

\* The rows of a session go one way, and no session changes hands.
TokenSteps ==
  /\ token' \in [Tokens -> Sessions]
  /\ \A t \in Tokens : token[t].State # "unused" =>
       /\ token'[t].State # "unused"
       /\ token'[t].Account = token[t].Account /\ token'[t].Password = token[t].Password
       /\ token[t].State # "live" => token'[t].State = token[t].State

\* One flow moves and the others stay where they are.
Moves(c, flow) ==
  /\ flow \in Flows
  /\ call' = [call EXCEPT ![c] = flow]

LEMMA IdleFlow == Idle \in Flows
BY DEF Idle, Flows, Statements

LEMMA GotoMoves ==
  ASSUME TypeOK, NEW c \in Calls, NEW at \in Statements, Goto(c, at)
  PROVE  LET f == call[c] IN
         Moves(c, [At |-> at, Account |-> f.Account, Password |-> f.Password,
                   Reset |-> f.Reset, Token |-> f.Token])
<1> DEFINE f == call[c]
           flow == [At |-> at, Account |-> f.Account, Password |-> f.Password,
                    Reset |-> f.Reset, Token |-> f.Token]
<1>1. f \in Flows
  BY DEF TypeOK, Flows
<1>2. [f EXCEPT !.At = at] = flow /\ flow \in Flows
  BY <1>1 DEF Flows
<1>3. call' = [call EXCEPT ![c] = [f EXCEPT !.At = at]]
  BY DEF Goto
<1> QED
  BY <1>2, <1>3 DEF Moves

LEMMA EndMoves ==
  ASSUME NEW c \in Calls, End(c)
  PROVE  Moves(c, Idle)
BY IdleFlow DEF End, Moves

LEMMA RevokeSteps ==
  ASSUME TypeOK, NEW a \in Accounts \cup {None}, RevokeAllTokens(a)
  PROVE  TokenSteps
<1> DEFINE revoked(t) == [State |-> "revoked", Account |-> token[t].Account,
                          Password |-> token[t].Password]
<1>1. \A t \in Tokens : token[t] \in Sessions /\ revoked(t) \in Sessions
  BY DEF TypeOK, Sessions
<1>2. \A t \in Tokens : [token[t] EXCEPT !.State = "revoked"] = revoked(t)
  BY <1>1 DEF Sessions
<1>3. token' = [t \in Tokens |-> IF Live(t, a) THEN revoked(t) ELSE token[t]]
  BY <1>2 DEF RevokeAllTokens
<1> QED
  BY <1>1, <1>3 DEF TokenSteps, Live

\* A step that keeps the types of the rows and moves one flow to one that is in
\* order keeps the invariant.
LEMMA StepKeeps ==
  ASSUME IInv, NEW c \in Calls, NEW flow, Moves(c, flow),
         TokenSteps, FlowOK(c)',
         RowsOwned',
         active' \in [Accounts -> BOOLEAN], password' \in [Accounts -> Passwords],
         settled' \in [Accounts -> BOOLEAN],
         reset' \in [Resets -> [State : {"unused", "live", "used", "expired"},
                                Account : Accounts \cup {None}]],
         \A r \in Resets : reset[r].State = "used" => reset'[r].State = "used",
         flow.Reset \in Resets => \A d \in Calls \ {c} : call[d].Reset # flow.Reset
  PROVE  IInv'
<1>1. TypeOK'
  BY DEF IInv, TypeOK, TokenSteps, Moves, Sessions, Flows
<1>2. \A d \in Calls \ {c} : call'[d] = call[d]
  BY DEF IInv, TypeOK, Moves
<1>3. ASSUME NEW d \in Calls \ {c} PROVE FlowOK(d)'
  BY <1>2, <1>3 DEF IInv, FlowOK, TokenSteps
<1>4. call'[c] = flow
  BY DEF IInv, TypeOK, Moves
<1>5. ResetsApart'
  BY <1>2, <1>4 DEF IInv, ResetsApart
<1> QED
  BY <1>1, <1>3, <1>5 DEF IInv

LEMMA SameTokens ==
  ASSUME TypeOK, UNCHANGED token
  PROVE  TokenSteps
BY DEF TypeOK, TokenSteps, Sessions

\* RowsOwned outlives every step of the tokens that makes no new row.
LEMMA OwnedKept ==
  ASSUME IInv, TokenSteps, UNCHANGED reset,
         \A t \in Tokens : token[t].State = "unused" => token'[t] = token[t]
  PROVE  RowsOwned'
BY DEF IInv, RowsOwned, TokenSteps

-----------------------------------------------------------------------------
(* One lemma per action.                                                     *)

LEMMA LoginCompareKeeps ==
  ASSUME IInv, NEW c \in Calls, NEW a \in Accounts, NEW pwd \in Passwords,
         LoginCompare(c, a, pwd)
  PROVE  IInv' /\ TokenSteps
<1> DEFINE flow == [At |-> IF SingleActiveSession THEN "login_revoke" ELSE "login_create",
                    Account |-> a, Password |-> pwd, Reset |-> None, Token |-> None]
<1>1. Moves(c, flow)
  BY DEF LoginCompare, Moves, Flows, Statements
<1>2. TokenSteps
  BY SameTokens DEF LoginCompare, IInv
<1>3. RowsOwned'
  BY <1>2, OwnedKept DEF LoginCompare
<1>4. FlowOK(c)'
  BY SessionsAssumption DEF LoginCompare, FlowOK, IInv, TypeOK
<1> QED
  BY <1>1, <1>2, <1>3, <1>4, StepKeeps, SessionsAssumption DEF LoginCompare, IInv, TypeOK

\* Every step that ends a flow and writes no password and no reset.
LEMMA EndKeeps ==
  ASSUME IInv, NEW c \in Calls, End(c), UNCHANGED <<active, password>>,
         settled' \in [Accounts -> BOOLEAN], TokenSteps, RowsOwned',
         reset' \in [Resets -> [State : {"unused", "live", "used", "expired"},
                                Account : Accounts \cup {None}]],
         \A r \in Resets : reset[r].State = "used" => reset'[r].State = "used"
  PROVE  IInv'
<1>1. Moves(c, Idle)
  BY EndMoves
<1>2. FlowOK(c)'
  BY SessionsAssumption DEF End, FlowOK, IInv, TypeOK, Idle
<1> QED
  BY <1>1, <1>2, StepKeeps, SessionsAssumption DEF IInv, TypeOK, Idle

\* Every step that brings a flow to its next statement.
LEMMA GotoKeeps ==
  ASSUME IInv, NEW c \in Calls, NEW at \in Statements, Goto(c, at), call[c].At # "idle",
         at \in {"login_create"} => call[c].At = "login_revoke",
         at \notin {"login_revoke", "reset_password", "check_account"},
         at = "serve" => call[c].At = "check_account",
         at = "reset_revoke" => call[c].At = "reset_password",
         UNCHANGED <<active, reset>>,
         password' \in [Accounts -> Passwords], settled' \in [Accounts -> BOOLEAN],
         TokenSteps, RowsOwned'
  PROVE  IInv'
<1> DEFINE f == call[c]
           flow == [At |-> at, Account |-> f.Account, Password |-> f.Password,
                    Reset |-> f.Reset, Token |-> f.Token]
<1>1. Moves(c, flow)
  BY GotoMoves DEF IInv
<1>2. call'[c] = flow
  BY <1>1 DEF IInv, TypeOK, Moves
<1>3. FlowOK(c)
  BY DEF IInv
<1>4. FlowOK(c)'
  BY <1>2, <1>3 DEF FlowOK, TokenSteps
<1>5. flow.Reset \in Resets => \A d \in Calls \ {c} : call[d].Reset # flow.Reset
  BY DEF IInv, ResetsApart
<1>6. /\ reset' \in [Resets -> [State : {"unused", "live", "used", "expired"},
                                Account : Accounts \cup {None}]]
      /\ active' \in [Accounts -> BOOLEAN]
      /\ \A r \in Resets : reset[r].State = "used" => reset'[r].State = "used"
  BY DEF IInv, TypeOK
<1> HIDE DEF flow
<1> QED
  BY <1>1, <1>4, <1>5, <1>6, StepKeeps

\* A revocation, or none because its error is ignored.
LEMMA RevokeKeeps ==
  ASSUME IInv, NEW c \in Calls, RevokeAllTokens(call[c].Account) \/ UNCHANGED token, UNCHANGED reset
  PROVE  TokenSteps /\ RowsOwned'
<1>1. call[c].Account \in Accounts \cup {None}
  BY DEF IInv, TypeOK
<1>2. TokenSteps
  BY <1>1, RevokeSteps, SameTokens DEF IInv
<1>3. \A t \in Tokens : token[t].State = "unused" => token'[t] = token[t]
  BY DEF RevokeAllTokens, Live
<1> QED
  BY <1>2, <1>3, OwnedKept

LEMMA LoginRevokeKeeps ==
  ASSUME IInv, NEW c \in Calls, LoginRevoke(c)
  PROVE  IInv' /\ TokenSteps
<1>1. TokenSteps /\ RowsOwned'
  BY RevokeKeeps DEF LoginRevoke
<1> QED
  BY <1>1, GotoKeeps DEF LoginRevoke, Statements, IInv, TypeOK

LEMMA ForgotRevokeKeeps ==
  ASSUME IInv, NEW c \in Calls, ForgotRevoke(c)
  PROVE  IInv' /\ TokenSteps
<1>1. TokenSteps /\ RowsOwned'
  BY RevokeKeeps DEF ForgotRevoke
<1> QED
  BY <1>1, GotoKeeps DEF ForgotRevoke, Statements, IInv, TypeOK

LEMMA ResetRevokeKeeps ==
  ASSUME IInv, NEW c \in Calls, ResetRevoke(c)
  PROVE  IInv' /\ TokenSteps
<1>1. TokenSteps /\ RowsOwned'
  BY RevokeKeeps DEF ResetRevoke
<1> QED
  BY <1>1, EndKeeps DEF ResetRevoke, IInv, TypeOK

LEMMA DeleteRevokeKeeps ==
  ASSUME IInv, NEW c \in Calls, DeleteRevoke(c)
  PROVE  IInv' /\ TokenSteps
<1>1. TokenSteps /\ RowsOwned'
  BY RevokeKeeps DEF DeleteRevoke
<1> QED
  BY <1>1, EndKeeps DEF DeleteRevoke, IInv, TypeOK

LEMMA LoginCreateKeeps ==
  ASSUME IInv, NEW c \in Calls, NEW t \in Tokens, LoginCreate(c, t)
  PROVE  IInv' /\ TokenSteps
<1>1. call[c].Account \in Accounts /\ call[c].Password \in Passwords
  BY DEF IInv, FlowOK, LoginCreate
<1>2. TokenSteps
  BY <1>1 DEF LoginCreate, TokenSteps, Sessions, IInv, TypeOK
<1>3. RowsOwned'
  BY <1>1 DEF LoginCreate, RowsOwned, IInv, TypeOK
<1> QED
  BY <1>2, <1>3, EndKeeps DEF LoginCreate, IInv, TypeOK

LEMMA LookupTokenKeeps ==
  ASSUME IInv, NEW c \in Calls, NEW t \in Tokens, LookupToken(c, t)
  PROVE  IInv' /\ TokenSteps
<1> DEFINE flow == [At |-> "check_account", Account |-> token[t].Account, Password |-> None,
                    Reset |-> None, Token |-> t]
<1>1. token[t].Account \in Accounts
  BY DEF IInv, RowsOwned, LookupToken
<1>2. Moves(c, flow)
  BY <1>1 DEF LookupToken, Moves, Flows, Statements
<1>3. TokenSteps
  BY SameTokens DEF LookupToken, IInv
<1>4. RowsOwned'
  BY <1>3, OwnedKept DEF LookupToken
<1>5. call'[c] = flow
  BY <1>2 DEF IInv, TypeOK, Moves
<1>6. FlowOK(c)'
  BY <1>1, <1>5, SessionsAssumption DEF LookupToken, FlowOK
<1> QED
  BY <1>2, <1>3, <1>4, <1>6, StepKeeps, SessionsAssumption DEF LookupToken, IInv, TypeOK

LEMMA CheckAccountKeeps ==
  ASSUME IInv, NEW c \in Calls, CheckAccount(c)
  PROVE  IInv' /\ TokenSteps
<1>1. TokenSteps
  BY SameTokens DEF CheckAccount, IInv
<1>2. RowsOwned'
  BY <1>1, OwnedKept DEF CheckAccount
<1> QED
  BY <1>1, <1>2, GotoKeeps, EndKeeps DEF CheckAccount, Statements, IInv, TypeOK

LEMMA LogoutKeeps ==
  ASSUME IInv, NEW c \in Calls, Logout(c)
  PROVE  IInv' /\ TokenSteps
<1> DEFINE t == call[c].Token
           row == [State |-> IF token[t].State = "live" THEN "revoked" ELSE token[t].State,
                   Account |-> token[t].Account, Password |-> token[t].Password]
<1>1. t \in Tokens /\ token[t].State # "unused"
  BY DEF IInv, FlowOK, Logout
<1>2. token[t] \in Sessions
  BY <1>1 DEF IInv, TypeOK, Sessions
<1>3. /\ row \in Sessions
      /\ [token[t] EXCEPT !.State = IF @ = "live" THEN "revoked" ELSE @] = row
  BY <1>2 DEF Sessions
<1>4. token' = [token EXCEPT ![t] = row]
  BY <1>3 DEF Logout
<1>5. TokenSteps
  BY <1>1, <1>2, <1>3, <1>4 DEF TokenSteps, Sessions, IInv, TypeOK
<1>6. RowsOwned'
  BY <1>1, <1>4, <1>5, OwnedKept DEF Logout, IInv, TypeOK
<1> QED
  BY <1>5, <1>6, EndKeeps DEF Logout, IInv, TypeOK

\* The flow that a forgot or a deletion starts.
LEMMA FlowStarts ==
  ASSUME NEW c \in Calls, NEW a \in Accounts, ForgotLookup(c, a) \/ DeleteAccount(c, a)
  PROVE  \E at \in {"forgot_revoke", "delete_revoke"} :
           call' = [call EXCEPT ![c] = [At |-> at, Account |-> a, Password |-> None,
                                        Reset |-> None, Token |-> None]]
<1>1. ASSUME NEW at
      PROVE  [Idle EXCEPT !.At = at, !.Account = a] =
               [At |-> at, Account |-> a, Password |-> None, Reset |-> None, Token |-> None]
  <2> DEFINE moved == [At |-> at, Account |-> None, Password |-> None, Reset |-> None, Token |-> None]
  <2>1. [Idle EXCEPT !.At = at] = moved
    BY DEF Idle
  <2>2. [moved EXCEPT !.Account = a] =
          [At |-> at, Account |-> a, Password |-> None, Reset |-> None, Token |-> None]
    OBVIOUS
  <2> QED
    BY <2>1, <2>2
<1>2. CASE ForgotLookup(c, a)
  BY <1>1, <1>2 DEF ForgotLookup
<1>3. CASE DeleteAccount(c, a)
  BY <1>1, <1>3 DEF DeleteAccount
<1> QED
  BY <1>2, <1>3

LEMMA ForgotLookupKeeps ==
  ASSUME IInv, NEW c \in Calls, NEW a \in Accounts, ForgotLookup(c, a) \/ DeleteAccount(c, a)
  PROVE  IInv' /\ TokenSteps
<1>1. PICK at \in {"forgot_revoke", "delete_revoke"} :
        call' = [call EXCEPT ![c] = [At |-> at, Account |-> a, Password |-> None,
                                     Reset |-> None, Token |-> None]]
  BY FlowStarts
<1> DEFINE flow == [At |-> at, Account |-> a, Password |-> None, Reset |-> None, Token |-> None]
<1>2. Moves(c, flow)
  BY <1>1 DEF Moves, Flows, Statements
<1>3. TokenSteps
  BY SameTokens DEF ForgotLookup, DeleteAccount, IInv
<1>4. RowsOwned'
  BY <1>3, OwnedKept DEF ForgotLookup, DeleteAccount
<1>5. FlowOK(c)'
  BY <1>1, SessionsAssumption DEF FlowOK, IInv, TypeOK
<1> QED
  BY <1>2, <1>3, <1>4, <1>5, StepKeeps, SessionsAssumption
     DEF ForgotLookup, DeleteAccount, IInv, TypeOK

LEMMA ForgotCreateKeeps ==
  ASSUME IInv, NEW c \in Calls, NEW r \in Resets, ForgotCreate(c, r)
  PROVE  IInv' /\ TokenSteps
<1>1. call[c].Account \in Accounts
  BY DEF IInv, FlowOK, ForgotCreate
<1>2. TokenSteps
  BY SameTokens DEF ForgotCreate, IInv
<1>3. RowsOwned'
  BY <1>1 DEF ForgotCreate, RowsOwned, IInv, TypeOK
<1> QED
  BY <1>1, <1>2, <1>3, EndKeeps DEF ForgotCreate, IInv, TypeOK

LEMMA UseResetTokenKeeps ==
  ASSUME IInv, NEW c \in Calls, NEW r \in Resets, NEW pwd \in Passwords, UseResetToken(c, r, pwd)
  PROVE  IInv' /\ TokenSteps
<1> DEFINE flow == [At |-> "reset_password", Account |-> reset[r].Account, Password |-> pwd,
                    Reset |-> r, Token |-> None]
           row == [State |-> "used", Account |-> reset[r].Account]
<1>1. reset[r].Account \in Accounts
  BY DEF IInv, RowsOwned, UseResetToken
<1>2. [reset[r] EXCEPT !.State = "used"] = row
  BY DEF IInv, TypeOK
<1>3. reset' = [reset EXCEPT ![r] = row]
  BY <1>2 DEF UseResetToken
<1>4. Moves(c, flow)
  BY <1>1 DEF UseResetToken, Moves, Flows, Statements
<1>5. TokenSteps
  BY SameTokens DEF UseResetToken, IInv
<1>6. RowsOwned'
  BY <1>1, <1>3 DEF UseResetToken, RowsOwned, IInv, TypeOK
<1>7. call'[c] = flow
  BY <1>4 DEF IInv, TypeOK, Moves
<1>8. FlowOK(c)'
  BY <1>1, <1>3, <1>7 DEF FlowOK, IInv, TypeOK
<1>9. \A d \in Calls : call[d].Reset # r
  BY DEF UseResetToken, IInv, FlowOK
<1>10. /\ reset' \in [Resets -> [State : {"unused", "live", "used", "expired"},
                                 Account : Accounts \cup {None}]]
       /\ \A x \in Resets : reset[x].State = "used" => reset'[x].State = "used"
  BY <1>1, <1>3 DEF IInv, TypeOK
<1> QED
  BY <1>4, <1>5, <1>6, <1>8, <1>9, <1>10, StepKeeps DEF UseResetToken, IInv, TypeOK

LEMMA UpdatePasswordKeeps ==
  ASSUME IInv, NEW c \in Calls, UpdatePassword(c)
  PROVE  IInv' /\ TokenSteps
<1>1. call[c].Account \in Accounts /\ call[c].Password \in Passwords
  BY DEF IInv, FlowOK, UpdatePassword
<1>2. TokenSteps
  BY SameTokens DEF UpdatePassword, IInv
<1>3. RowsOwned'
  BY <1>2, OwnedKept DEF UpdatePassword
<1>4. password' \in [Accounts -> Passwords] /\ settled' \in [Accounts -> BOOLEAN]
  BY <1>1 DEF UpdatePassword, IInv, TypeOK
<1> QED
  BY <1>2, <1>3, <1>4, GotoKeeps DEF UpdatePassword, Statements

LEMMA StopKeeps ==
  ASSUME IInv, NEW c \in Calls, Stop(c)
  PROVE  IInv' /\ TokenSteps
<1>1. TokenSteps
  BY SameTokens DEF Stop, IInv
<1>2. RowsOwned'
  BY <1>1, OwnedKept DEF Stop
<1> QED
  BY <1>1, <1>2, EndKeeps DEF Stop, IInv, TypeOK

LEMMA ExpireKeeps ==
  ASSUME IInv, Expire
  PROVE  IInv' /\ TokenSteps
<1>1. CASE \E t \in Tokens : /\ token[t].State = "live"
                             /\ token' = [token EXCEPT ![t].State = "expired"]
                             /\ UNCHANGED reset
  <2>1. PICK t \in Tokens : /\ token[t].State = "live"
                            /\ token' = [token EXCEPT ![t].State = "expired"]
                            /\ UNCHANGED reset
    BY <1>1
  <2> DEFINE row == [State |-> "expired", Account |-> token[t].Account,
                     Password |-> token[t].Password]
  <2>2. token[t] \in Sessions
    BY DEF IInv, TypeOK, Sessions
  <2>3. [token[t] EXCEPT !.State = "expired"] = row /\ row \in Sessions
    BY <2>2 DEF Sessions
  <2>4. token' = [token EXCEPT ![t] = row]
    BY <2>1, <2>3
  <2>5. TokenSteps
    BY <2>1, <2>3, <2>4 DEF TokenSteps, Sessions, IInv, TypeOK
  <2>6. RowsOwned'
    BY <2>1, <2>4, <2>5, OwnedKept DEF IInv, TypeOK
  <2>7. \A c \in Calls : FlowOK(c)'
    BY <2>1, <2>5 DEF IInv, FlowOK, TokenSteps, Expire
  <2> QED
    BY <2>1, <2>5, <2>6, <2>7 DEF IInv, TypeOK, ResetsApart, Expire, TokenSteps, Sessions
<1>2. CASE \E r \in Resets : /\ reset[r].State = "live"
                             /\ reset' = [reset EXCEPT ![r].State = "expired"]
                             /\ UNCHANGED token
  <2>1. PICK r \in Resets : /\ reset[r].State = "live"
                            /\ reset' = [reset EXCEPT ![r].State = "expired"]
                            /\ UNCHANGED token
    BY <1>2
  <2> DEFINE row == [State |-> "expired", Account |-> reset[r].Account]
  <2>2. [reset[r] EXCEPT !.State = "expired"] = row
    BY DEF IInv, TypeOK
  <2>3. reset' = [reset EXCEPT ![r] = row]
    BY <2>1, <2>2
  <2>4. reset' \in [Resets -> [State : {"unused", "live", "used", "expired"},
                               Account : Accounts \cup {None}]]
    BY <2>3 DEF IInv, TypeOK
  <2>5. TokenSteps
    BY <2>1, SameTokens DEF IInv
  <2>6. RowsOwned'
    BY <2>1, <2>3 DEF IInv, TypeOK, RowsOwned
  <2>7. \A c \in Calls : FlowOK(c)'
    BY <2>1, <2>3 DEF IInv, TypeOK, FlowOK, Expire
  <2> QED
    BY <2>1, <2>4, <2>5, <2>6, <2>7 DEF IInv, TypeOK, ResetsApart, Expire
<1> QED
  BY <1>1, <1>2 DEF Expire

LEMMA ExecuteKeeps ==
  ASSUME IInv, NEW c \in Calls, Execute(c)
  PROVE  IInv' /\ TokenSteps
BY LoginRevokeKeeps, LoginCreateKeeps, ForgotRevokeKeeps, ForgotCreateKeeps, UpdatePasswordKeeps,
   ResetRevokeKeeps, DeleteRevokeKeeps, CheckAccountKeeps, LogoutKeeps DEF Execute

LEMMA NextKeeps ==
  ASSUME IInv, Next
  PROVE  IInv' /\ TokenSteps
BY LoginCompareKeeps, ForgotLookupKeeps, UseResetTokenKeeps, LookupTokenKeeps, ExecuteKeeps,
   StopKeeps, ExpireKeeps DEF Next

LEMMA StutterKeeps ==
  ASSUME IInv, UNCHANGED vars
  PROVE  IInv' /\ TokenSteps
<1>1. TokenSteps
  BY SameTokens DEF IInv, vars
<1> QED
  BY <1>1 DEF IInv, TypeOK, RowsOwned, FlowOK, ResetsApart, vars

THEOREM Invariant == Spec => []IInv
<1>1. IInv /\ [Next]_vars => IInv'
  BY NextKeeps, StutterKeeps
<1> QED
  BY InitIInv, <1>1, PTL DEF Spec

\* Every column and variable keeps its type.
THEOREM TypeCorrect == Spec => []TypeOK
<1>1. IInv => TypeOK
  BY DEF IInv
<1> QED
  BY <1>1, Invariant, PTL

\* A reset token is in the hands of one flow at most, and used up by then.
THEOREM ResetsUsedOnce == Spec => []ResetUsedOnce
<1>1. IInv => ResetUsedOnce
  BY DEF IInv, FlowOK, ResetsApart, ResetUsedOnce
<1> QED
  BY <1>1, Invariant, PTL

\* A session that ended is never live again.
THEOREM EndIsFinal == Spec => EndedForGood
<1>1. IInv /\ [Next]_vars =>
        [\A t \in Tokens : token[t].State \in {"revoked", "expired"} =>
                             token'[t].State = token[t].State]_vars
  BY NextKeeps DEF TokenSteps
<1> QED
  BY <1>1, Invariant, PTL DEF Spec, EndedForGood

-----------------------------------------------------------------------------
(* Counting sessions: a login holds a place among the flows until its        *)
(* session takes it, so sessions and logins together never outgrow them.     *)

\* Sets that shrink, or hand one member from the second to the first.
Passed(L, L2, C, C2) ==
  \/ L2 \subseteq L /\ C2 \subseteq C
  \/ \E c \in C, t \in Tokens : L2 \subseteq L \cup {t} /\ C2 \subseteq C \ {c}

LEMMA PassedBounds ==
  ASSUME NEW L \in SUBSET Tokens, NEW L2 \in SUBSET Tokens,
         NEW C \in SUBSET Calls, NEW C2 \in SUBSET Calls, Passed(L, L2, C, C2)
  PROVE  /\ Cardinality(L2) + Cardinality(C2) <= Cardinality(L) + Cardinality(C)
         /\ Cardinality(L2) + Cardinality(C2) \in Nat
         /\ Cardinality(L) + Cardinality(C) \in Nat
<1>1. IsFiniteSet(L) /\ IsFiniteSet(L2) /\ IsFiniteSet(C) /\ IsFiniteSet(C2)
  BY FS_Subset, SessionsAssumption
<1>2. /\ Cardinality(L) \in Nat /\ Cardinality(L2) \in Nat
      /\ Cardinality(C) \in Nat /\ Cardinality(C2) \in Nat
  BY <1>1, FS_CardinalityType
<1>3. CASE L2 \subseteq L /\ C2 \subseteq C
  <2>1. Cardinality(L2) <= Cardinality(L) /\ Cardinality(C2) <= Cardinality(C)
    BY <1>1, <1>3, FS_Subset
  <2> QED
    BY <1>2, <2>1
<1>4. CASE \E c \in C, t \in Tokens : L2 \subseteq L \cup {t} /\ C2 \subseteq C \ {c}
  <2>1. PICK c \in C, t \in Tokens : L2 \subseteq L \cup {t} /\ C2 \subseteq C \ {c}
    BY <1>4
  <2>2. /\ IsFiniteSet(L \cup {t})
        /\ Cardinality(L \cup {t}) = IF t \in L THEN Cardinality(L) ELSE Cardinality(L) + 1
    BY <1>1, FS_AddElement
  <2>3. IsFiniteSet(C \ {c}) /\ Cardinality(C \ {c}) = Cardinality(C) - 1
    BY <1>1, <2>1, FS_RemoveElement
  <2>4. Cardinality(L2) <= Cardinality(L \cup {t}) /\ Cardinality(C2) <= Cardinality(C \ {c})
    BY <2>1, <2>2, <2>3, FS_Subset
  <2> QED
    BY <1>2, <2>2, <2>3, <2>4
<1> QED
  BY <1>2, <1>3, <1>4 DEF Passed

LEMMA CallsBound ==
  ASSUME NEW C \in SUBSET Calls
  PROVE  /\ Cardinality({}) + Cardinality(C) <= Cardinality(Calls)
         /\ Cardinality(Calls) \in Nat
         /\ \A c \in Calls : C \subseteq Calls \ {c} =>
              Cardinality({}) + Cardinality(C) < Cardinality(Calls)
<1>1. IsFiniteSet(Calls) /\ Cardinality(Calls) \in Nat /\ Cardinality({}) = 0
  BY SessionsAssumption, FS_CardinalityType, FS_EmptySet
<1>2. IsFiniteSet(C) /\ Cardinality(C) \in Nat /\ Cardinality(C) <= Cardinality(Calls)
  BY <1>1, FS_Subset, FS_CardinalityType
<1>3. ASSUME NEW c \in Calls, C \subseteq Calls \ {c}
      PROVE  Cardinality(C) < Cardinality(Calls)
  <2>1. IsFiniteSet(Calls \ {c}) /\ Cardinality(Calls \ {c}) = Cardinality(Calls) - 1
    BY <1>1, FS_RemoveElement
  <2>2. Cardinality(C) <= Cardinality(Calls \ {c})
    BY <1>3, <2>1, FS_Subset
  <2> QED
    BY <1>1, <1>2, <2>1, <2>2
<1> QED
  BY <1>1, <1>2, <1>3

Creating(a) == {c \in Calls : call[c].At = "login_create" /\ call[c].Account = a}

\* A step that makes no session live, and moves no flow but c.
Quiet(c) ==
  /\ TokenSteps
  /\ \A t \in Tokens : token[t].State = "unused" => token'[t] = token[t]
  /\ \A d \in Calls \ {c} : call'[d] = call[d]

LEMMA RevokedNone ==
  ASSUME TypeOK, NEW a \in Accounts, RevokeAllTokens(a)
  PROVE  /\ LiveOf(a)' = {}
         /\ \A t \in Tokens : token[t].State = "unused" => token'[t] = token[t]
BY DEF TypeOK, RevokeAllTokens, LiveOf, Live

LEMMA QuietLive ==
  ASSUME NEW c, Quiet(c), NEW a
  PROVE  LiveOf(a)' \subseteq LiveOf(a)
BY DEF Quiet, TokenSteps, LiveOf, Live

\* The steps of one flow, as far as sessions and logins go.
LEMMA FlowSteps ==
  ASSUME IInv, NEW c \in Calls,
         \/ \E a \in Accounts, pwd \in Passwords : LoginCompare(c, a, pwd)
         \/ \E a \in Accounts : ForgotLookup(c, a) \/ DeleteAccount(c, a)
         \/ \E r \in Resets, pwd \in Passwords : UseResetToken(c, r, pwd)
         \/ \E t \in Tokens : LookupToken(c, t)
         \/ \E r \in Resets : ForgotCreate(c, r)
         \/ LoginRevoke(c) \/ ForgotRevoke(c) \/ UpdatePassword(c) \/ ResetRevoke(c)
         \/ DeleteRevoke(c) \/ CheckAccount(c) \/ Logout(c) \/ Stop(c)
  PROVE  Quiet(c)
<1>1. TokenSteps
  BY NextKeeps DEF Next, Execute
<1>2. \A d \in Calls \ {c} : call'[d] = call[d]
  BY DEF IInv, TypeOK, LoginCompare, ForgotLookup, DeleteAccount, UseResetToken, LookupToken,
         ForgotCreate, LoginRevoke, ForgotRevoke, UpdatePassword, ResetRevoke, DeleteRevoke,
         CheckAccount, Logout, Stop, End, Goto
<1>3. \/ UNCHANGED token
      \/ RevokeAllTokens(call[c].Account)
      \/ Logout(c)
  BY DEF LoginCompare, ForgotLookup, DeleteAccount, UseResetToken, LookupToken,
         ForgotCreate, LoginRevoke, ForgotRevoke, UpdatePassword, ResetRevoke, DeleteRevoke,
         CheckAccount, Logout, Stop
<1>4. ASSUME Logout(c), NEW t \in Tokens, token[t].State = "unused"
      PROVE  token'[t] = token[t]
  BY <1>4 DEF Logout, IInv, FlowOK, TypeOK
<1>5. \A t \in Tokens : token[t].State = "unused" => token'[t] = token[t]
  BY <1>3, <1>4 DEF RevokeAllTokens, Live
<1> QED
  BY <1>1, <1>2, <1>5 DEF Quiet

LEMMA CreateStep ==
  ASSUME IInv, NEW c \in Calls, NEW t \in Tokens, LoginCreate(c, t)
  PROVE  /\ call[c].Account \in Accounts /\ call[c].Account # None
         /\ token' = [token EXCEPT ![t] = [State |-> "live", Account |-> call[c].Account,
                                           Password |-> call[c].Password]]
         /\ \A a \in Accounts :
              LiveOf(a)' = IF a = call[c].Account THEN LiveOf(a) \cup {t} ELSE LiveOf(a)
         /\ call' = [call EXCEPT ![c] = Idle]
<1>1. call[c].Account \in Accounts
  BY DEF IInv, FlowOK, LoginCreate
<1>2. ASSUME NEW a \in Accounts
      PROVE  LiveOf(a)' = IF a = call[c].Account THEN LiveOf(a) \cup {t} ELSE LiveOf(a)
  BY DEF LoginCreate, IInv, TypeOK, LiveOf, Live
<1> QED
  BY <1>1, <1>2, SessionsAssumption DEF LoginCreate, End

LEMMA ExpireStep ==
  ASSUME IInv, Expire
  PROVE  /\ UNCHANGED <<active, password, settled, call>>
         /\ \A a \in Accounts : LiveOf(a)' \subseteq LiveOf(a)
         /\ TokenSteps
<1>1. TokenSteps
  BY ExpireKeeps
<1>2. \A t \in Tokens : token[t].State = "unused" => token'[t] = token[t]
  BY DEF IInv, TypeOK, Expire
<1> QED
  BY <1>1, <1>2 DEF Expire, TokenSteps, LiveOf, Live

\* The flows that come to the insertion of a session are logins.
LEMMA OtherFlows ==
  ASSUME IInv, SingleActiveSession, NEW c \in Calls,
         \/ \E b \in Accounts, pwd \in Passwords : LoginCompare(c, b, pwd)
         \/ \E b \in Accounts : ForgotLookup(c, b) \/ DeleteAccount(c, b)
         \/ \E r \in Resets, pwd \in Passwords : UseResetToken(c, r, pwd)
         \/ \E t \in Tokens : LookupToken(c, t)
         \/ \E r \in Resets : ForgotCreate(c, r)
         \/ ForgotRevoke(c) \/ UpdatePassword(c) \/ ResetRevoke(c)
         \/ DeleteRevoke(c) \/ CheckAccount(c) \/ Logout(c) \/ Stop(c)
  PROVE  call'[c].At # "login_create"
<1>1. call \in [Calls -> Flows]
  BY DEF IInv, TypeOK, Flows
<1>2. CASE End(c)
  BY <1>1, <1>2 DEF End, Idle
<1>3. CASE \E at \in {"forgot_create", "reset_revoke", "serve"} : Goto(c, at)
  BY <1>1, <1>3 DEF Goto, Flows
<1>4. CASE \E b \in Accounts, pwd \in Passwords : LoginCompare(c, b, pwd)
  BY <1>1, <1>4 DEF LoginCompare
<1>5. CASE \E b \in Accounts : ForgotLookup(c, b) \/ DeleteAccount(c, b)
  <2>1. PICK b \in Accounts : ForgotLookup(c, b) \/ DeleteAccount(c, b)
    BY <1>5
  <2>2. PICK at \in {"forgot_revoke", "delete_revoke"} :
          call' = [call EXCEPT ![c] = [At |-> at, Account |-> b, Password |-> None,
                                       Reset |-> None, Token |-> None]]
    BY <2>1, FlowStarts
  <2> QED
    BY <1>1, <2>2
<1>6. CASE \E r \in Resets, pwd \in Passwords : UseResetToken(c, r, pwd)
  BY <1>1, <1>6 DEF UseResetToken
<1>7. CASE \E t \in Tokens : LookupToken(c, t)
  BY <1>1, <1>7 DEF LookupToken
<1> QED
  BY <1>2, <1>3, <1>4, <1>5, <1>6, <1>7
     DEF ForgotCreate, ForgotRevoke, UpdatePassword, ResetRevoke, DeleteRevoke, CheckAccount,
         Logout, Stop

LEMMA RaceSteps ==
  ASSUME IInv, SingleActiveSession, NEW a \in Accounts, Next
  PROVE  \/ Passed(LiveOf(a), LiveOf(a)', Creating(a), Creating(a)')
         \/ LiveOf(a)' = {}
<1>1. CASE \E c \in Calls, t \in Tokens : LoginCreate(c, t)
  <2>1. PICK c \in Calls, t \in Tokens : LoginCreate(c, t)
    BY <1>1
  <2>2. c \in Creating(a) <=> call[c].Account = a
    BY <2>1 DEF Creating, LoginCreate
  <2>3. Creating(a)' \subseteq Creating(a) \ {c}
    BY <2>1, CreateStep DEF Creating, Idle, IInv, TypeOK
  <2> QED
    BY <2>1, <2>2, <2>3, CreateStep DEF Passed
<1>2. CASE Expire
  BY <1>2, ExpireStep DEF Creating, Passed
<1>3. CASE \E c \in Calls : LoginRevoke(c)
  <2>1. PICK c \in Calls : LoginRevoke(c)
    BY <1>3
  <2>2. Quiet(c)
    BY <2>1, FlowSteps
  <2>3. CASE call[c].Account = a
    BY <2>1, <2>3, RevokedNone DEF LoginRevoke, IInv
  <2>4. CASE call[c].Account # a
    <3>1. call'[c].Account # a
      BY <2>1, <2>4 DEF LoginRevoke, Goto, IInv, TypeOK
    <3>2. Creating(a)' \subseteq Creating(a)
      BY <2>2, <3>1 DEF Quiet, Creating
    <3> QED
      BY <2>2, <3>2, QuietLive DEF Passed
  <2> QED
    BY <2>3, <2>4
<1>4. ASSUME NEW c \in Calls,
             \/ \E b \in Accounts, pwd \in Passwords : LoginCompare(c, b, pwd)
             \/ \E b \in Accounts : ForgotLookup(c, b) \/ DeleteAccount(c, b)
             \/ \E r \in Resets, pwd \in Passwords : UseResetToken(c, r, pwd)
             \/ \E t \in Tokens : LookupToken(c, t)
             \/ \E r \in Resets : ForgotCreate(c, r)
             \/ ForgotRevoke(c) \/ UpdatePassword(c) \/ ResetRevoke(c)
             \/ DeleteRevoke(c) \/ CheckAccount(c) \/ Logout(c) \/ Stop(c)
      PROVE  Passed(LiveOf(a), LiveOf(a)', Creating(a), Creating(a)')
  <2>1. Quiet(c)
    BY <1>4, FlowSteps
  <2>2. call'[c].At # "login_create"
    BY <1>4, OtherFlows
  <2>3. Creating(a)' \subseteq Creating(a)
    BY <2>1, <2>2 DEF Quiet, Creating
  <2> QED
    BY <2>1, <2>3, QuietLive DEF Passed
<1> QED
  BY <1>1, <1>2, <1>3, <1>4 DEF Next, Execute

\* However many logins race, an account has no more sessions than flows.
THEOREM SessionsBounded == Spec => []SessionsBoundedByRace
<1> DEFINE Bound(a) == Cardinality(LiveOf(a)) + Cardinality(Creating(a)) <= Cardinality(Calls)
           Inv == SingleActiveSession => \A a \in Accounts : Bound(a)
<1>1. Init => Inv
  <2> SUFFICES ASSUME Init, NEW a \in Accounts PROVE Bound(a)
    OBVIOUS
  <2>1. LiveOf(a) = {} /\ Creating(a) \in SUBSET Calls
    BY DEF Init, LiveOf, Live, Creating
  <2> QED
    BY <2>1, CallsBound
<1>2. IInv /\ Inv /\ [Next]_vars => Inv'
  <2> SUFFICES ASSUME IInv, Inv, [Next]_vars, SingleActiveSession, NEW a \in Accounts
               PROVE  Bound(a)'
    OBVIOUS
  <2>1. Bound(a)
    OBVIOUS
  <2>2. /\ LiveOf(a) \in SUBSET Tokens /\ LiveOf(a)' \in SUBSET Tokens
        /\ Creating(a) \in SUBSET Calls /\ Creating(a)' \in SUBSET Calls
    BY DEF LiveOf, Creating
  <2>3. CASE Passed(LiveOf(a), LiveOf(a)', Creating(a), Creating(a)')
    BY <2>1, <2>2, <2>3, PassedBounds, CallsBound
  <2>4. CASE LiveOf(a)' = {}
    BY <2>2, <2>4, CallsBound
  <2>5. CASE UNCHANGED vars
    BY <2>1, <2>5 DEF vars, LiveOf, Live, Creating
  <2> QED
    BY <2>3, <2>4, <2>5, RaceSteps
<1>3. Inv => SessionsBoundedByRace
  BY DEF SessionsBoundedByRace, Creating
<1> QED
  BY <1>1, <1>2, <1>3, Invariant, PTL DEF Spec

-----------------------------------------------------------------------------
(* Counting sessions of older passwords, in the same way.                    *)

Old(a) == {t \in LiveOf(a) : token[t].Password # password[a]}

\* A step that writes no password of the account.
LEMMA QuietOld ==
  ASSUME IInv, NEW c \in Calls, Quiet(c), NEW a \in Accounts, password'[a] = password[a],
         \/ call'[c].At \notin {"login_revoke", "login_create"}
         \/ call'[c].Password = password[a]
         \/ c \in LoginsWithOld(a)
         \/ call'[c].Account # a
  PROVE  Passed(Old(a), Old(a)', LoginsWithOld(a), LoginsWithOld(a)')
<1>1. Old(a)' \subseteq Old(a)
  BY QuietLive DEF Old, LiveOf, Live, Quiet, TokenSteps
<1>2. LoginsWithOld(a)' \subseteq LoginsWithOld(a)
  BY DEF LoginsWithOld, Quiet
<1> QED
  BY <1>1, <1>2 DEF Passed

LEMMA OldCreate ==
  ASSUME IInv, NEW c \in Calls, NEW t \in Tokens, LoginCreate(c, t), NEW a \in Accounts
  PROVE  Passed(Old(a), Old(a)', LoginsWithOld(a), LoginsWithOld(a)')
<1>1. call' = [call EXCEPT ![c] = Idle] /\ call \in [Calls -> Flows] /\ password' = password
  BY CreateStep DEF LoginCreate, IInv, TypeOK, Flows
<1>2. LoginsWithOld(a)' \subseteq LoginsWithOld(a) \ {c}
  BY <1>1 DEF LoginsWithOld, Idle
<1>3. LiveOf(a)' = IF a = call[c].Account THEN LiveOf(a) \cup {t} ELSE LiveOf(a)
  BY CreateStep
<1>4. LiveOf(a) \subseteq Tokens \ {t}
  BY DEF LiveOf, Live, LoginCreate
<1>5. \A s \in Tokens \ {t} : token'[s] = token[s]
  BY DEF LoginCreate, IInv, TypeOK
<1>6. Old(a)' = {s \in LiveOf(a)' : token'[s].Password # password[a]}
  BY <1>1 DEF Old
<1>7. CASE call[c].Account = a /\ call[c].Password # password[a]
  <2>1. c \in LoginsWithOld(a)
    BY <1>7 DEF LoginsWithOld, LoginCreate
  <2>2. Old(a)' \subseteq Old(a) \cup {t}
    BY <1>3, <1>4, <1>5, <1>6 DEF Old
  <2> QED
    BY <1>2, <2>1, <2>2 DEF Passed
<1>8. CASE ~(call[c].Account = a /\ call[c].Password # password[a])
  <2>1. token'[t].Password = call[c].Password
    BY DEF LoginCreate, IInv, TypeOK
  <2>2. Old(a)' \subseteq Old(a)
    BY <1>3, <1>4, <1>5, <1>6, <1>8, <2>1 DEF Old
  <2> QED
    BY <1>2, <2>2 DEF Passed
<1> QED
  BY <1>7, <1>8

LEMMA OldRevoke ==
  ASSUME IInv, NEW c \in Calls, ResetRevoke(c), NEW a \in Accounts
  PROVE  \/ Passed(Old(a), Old(a)', LoginsWithOld(a), LoginsWithOld(a)') /\ settled'[a] = settled[a]
         \/ Old(a)' = {} /\ LoginsWithOld(a)' \subseteq Calls \ {c}
<1>1. Quiet(c)
  BY FlowSteps
<1>2. call' = [call EXCEPT ![c] = Idle]
  BY DEF ResetRevoke, End
<1>3. call'[c].At = "idle"
  BY <1>2 DEF Idle, IInv, TypeOK
<1>4. CASE call[c].Account = a
  <2>1. Old(a)' = {}
    BY <1>4, RevokedNone DEF ResetRevoke, Old, IInv
  <2>2. LoginsWithOld(a)' \subseteq Calls \ {c}
    BY <1>3 DEF LoginsWithOld
  <2> QED
    BY <2>1, <2>2
<1>5. CASE call[c].Account # a
  <2>1. settled'[a] = settled[a] /\ password' = password
    BY <1>5 DEF ResetRevoke, IInv, TypeOK
  <2>2. Old(a)' \subseteq Old(a)
    BY <1>1, <2>1, QuietLive DEF Old, LiveOf, Live, Quiet, TokenSteps
  <2>3. LoginsWithOld(a)' \subseteq LoginsWithOld(a)
    BY <1>1, <1>3, <2>1 DEF LoginsWithOld, Quiet
  <2> QED
    BY <2>1, <2>2, <2>3 DEF Passed
<1> QED
  BY <1>4, <1>5

LEMMA OldUpdate ==
  ASSUME IInv, NEW c \in Calls, UpdatePassword(c), NEW a \in Accounts, settled'[a]
  PROVE  Passed(Old(a), Old(a)', LoginsWithOld(a), LoginsWithOld(a)') /\ settled[a]
<1>1. call[c].Account \in Accounts
  BY DEF IInv, FlowOK, UpdatePassword
<1>2. password'[a] = password[a] /\ settled'[a] = settled[a]
  BY <1>1 DEF UpdatePassword, IInv, TypeOK
<1>3. call \in [Calls -> Flows]
  BY DEF IInv, TypeOK, Flows
<1>4. call'[c].At = "reset_revoke"
  BY <1>3 DEF UpdatePassword, Goto, Flows
<1> QED
  BY <1>2, <1>4, FlowSteps, QuietOld

LEMMA OldLogin ==
  ASSUME IInv, NEW c \in Calls,
         LoginRevoke(c) \/ (\E b \in Accounts, pwd \in Passwords : LoginCompare(c, b, pwd)),
         NEW a \in Accounts
  PROVE  Passed(Old(a), Old(a)', LoginsWithOld(a), LoginsWithOld(a)') /\ settled'[a] = settled[a]
<1>1. Quiet(c) /\ password' = password /\ settled' = settled
  BY FlowSteps DEF LoginRevoke, LoginCompare
<1>2. call \in [Calls -> Flows]
  BY DEF IInv, TypeOK, Flows
<1>3. CASE LoginRevoke(c)
  <2>1. call'[c].Account = call[c].Account /\ call'[c].Password = call[c].Password
    BY <1>2, <1>3 DEF LoginRevoke, Goto, Flows
  <2>2. \/ call'[c].Password = password[a]
        \/ c \in LoginsWithOld(a)
        \/ call'[c].Account # a
    BY <1>3, <2>1 DEF LoginRevoke, LoginsWithOld
  <2> QED
    BY <1>1, <2>2, QuietOld
<1>4. CASE \E b \in Accounts, pwd \in Passwords : LoginCompare(c, b, pwd)
  <2>1. PICK b \in Accounts, pwd \in Passwords : LoginCompare(c, b, pwd)
    BY <1>4
  <2>2. call'[c].Account = b /\ call'[c].Password = password[b]
    BY <1>2, <2>1 DEF LoginCompare
  <2> QED
    BY <1>1, <2>2, QuietOld
<1> QED
  BY <1>3, <1>4

LEMMA OldOther ==
  ASSUME IInv, NEW c \in Calls,
         \/ \E b \in Accounts : ForgotLookup(c, b) \/ DeleteAccount(c, b)
         \/ \E r \in Resets, pwd \in Passwords : UseResetToken(c, r, pwd)
         \/ \E t \in Tokens : LookupToken(c, t)
         \/ \E r \in Resets : ForgotCreate(c, r)
         \/ ForgotRevoke(c) \/ DeleteRevoke(c) \/ CheckAccount(c) \/ Logout(c) \/ Stop(c),
         NEW a \in Accounts
  PROVE  Passed(Old(a), Old(a)', LoginsWithOld(a), LoginsWithOld(a)') /\ settled'[a] = settled[a]
<1>1. Quiet(c)
  BY FlowSteps
<1>2. password' = password /\ settled' = settled
  BY DEF ForgotLookup, DeleteAccount, UseResetToken, LookupToken, ForgotCreate, ForgotRevoke,
         DeleteRevoke, CheckAccount, Logout, Stop
<1>3. call \in [Calls -> Flows]
  BY DEF IInv, TypeOK, Flows
<1> DEFINE Elsewhere == call'[c].At \notin {"login_revoke", "login_create"}
<1>4. ASSUME End(c) PROVE Elsewhere
  BY <1>3, <1>4 DEF End, Idle
<1>5. ASSUME NEW at \in {"forgot_create", "serve"}, Goto(c, at) PROVE Elsewhere
  BY <1>3, <1>5 DEF Goto, Flows
<1>6. ASSUME NEW b \in Accounts, ForgotLookup(c, b) \/ DeleteAccount(c, b) PROVE Elsewhere
  <2>1. PICK at \in {"forgot_revoke", "delete_revoke"} :
          call' = [call EXCEPT ![c] = [At |-> at, Account |-> b, Password |-> None,
                                       Reset |-> None, Token |-> None]]
    BY <1>6, FlowStarts
  <2> QED
    BY <1>3, <2>1
<1>7. ASSUME NEW r \in Resets, NEW pwd \in Passwords, UseResetToken(c, r, pwd) PROVE Elsewhere
  BY <1>3, <1>7 DEF UseResetToken
<1>8. ASSUME NEW t \in Tokens, LookupToken(c, t) PROVE Elsewhere
  BY <1>3, <1>8 DEF LookupToken
<1>9. Elsewhere
  BY <1>4, <1>5, <1>6, <1>7, <1>8
     DEF ForgotCreate, ForgotRevoke, DeleteRevoke, CheckAccount, Logout, Stop
<1> QED
  BY <1>1, <1>2, <1>9, QuietOld

LEMMA OldSteps ==
  ASSUME IInv, Next, NEW a \in Accounts, settled'[a]
  PROVE  \/ Passed(Old(a), Old(a)', LoginsWithOld(a), LoginsWithOld(a)') /\ settled[a]
         \/ \E c \in Calls : Old(a)' = {} /\ LoginsWithOld(a)' \subseteq Calls \ {c}
<1>1. CASE Expire
  <2>1. Old(a)' \subseteq Old(a) /\ LoginsWithOld(a)' = LoginsWithOld(a) /\ settled[a]
    BY <1>1, ExpireStep DEF Old, LiveOf, Live, TokenSteps, LoginsWithOld
  <2> QED
    BY <2>1 DEF Passed
<1>2. ASSUME NEW c \in Calls, NEW t \in Tokens, LoginCreate(c, t)
      PROVE  Passed(Old(a), Old(a)', LoginsWithOld(a), LoginsWithOld(a)') /\ settled[a]
  BY <1>2, OldCreate DEF LoginCreate
<1> QED
  BY <1>1, <1>2, OldRevoke, OldUpdate, OldLogin, OldOther DEF Next, Execute

\* What a reset answered with success leaves behind fits among the flows that raced it.
THEOREM OldSessionsBounded == Spec => []OldSessionsBoundedByRace
<1> DEFINE Bound(a) == Cardinality(Old(a)) + Cardinality(LoginsWithOld(a)) < Cardinality(Calls)
           Inv == \A a \in Accounts : settled[a] => Bound(a)
<1>1. Init => Inv
  <2> SUFFICES ASSUME Init, NEW a \in Accounts PROVE Bound(a)
    OBVIOUS
  <2>1. Old(a) = {} /\ LoginsWithOld(a) = {}
    BY DEF Init, Old, LiveOf, Live, LoginsWithOld, Idle
  <2>2. PICK c \in Calls : TRUE
    BY SessionsAssumption
  <2> QED
    BY <2>1, <2>2, CallsBound
<1>2. IInv /\ Inv /\ [Next]_vars => Inv'
  <2> SUFFICES ASSUME IInv, Inv, [Next]_vars, NEW a \in Accounts, settled'[a]
               PROVE  Bound(a)'
    OBVIOUS
  <2>1. /\ Old(a) \in SUBSET Tokens /\ Old(a)' \in SUBSET Tokens
        /\ LoginsWithOld(a) \in SUBSET Calls /\ LoginsWithOld(a)' \in SUBSET Calls
    BY DEF Old, LiveOf, LoginsWithOld
  <2>2. CASE Passed(Old(a), Old(a)', LoginsWithOld(a), LoginsWithOld(a)') /\ settled[a]
    BY <2>1, <2>2, PassedBounds, CallsBound
  <2>3. CASE \E c \in Calls : Old(a)' = {} /\ LoginsWithOld(a)' \subseteq Calls \ {c}
    BY <2>1, <2>3, CallsBound
  <2>4. CASE UNCHANGED vars
    BY <2>4 DEF vars, Old, LiveOf, Live, LoginsWithOld
  <2> QED
    BY <2>2, <2>3, <2>4, OldSteps
<1>3. Inv => OldSessionsBoundedByRace
  BY DEF OldSessionsBoundedByRace, Old
<1> QED
  BY <1>1, <1>2, <1>3, Invariant, PTL DEF Spec
===============================================================================
