------------------------------ MODULE Sessions ------------------------------
(* Logins, sessions and password resets (src/internal/service/auth/          *)
(* service.go, src/internal/dao/postgres/auth_dao.go).  A session is a row   *)
(* of auth_tokens; a flow is several statements with no transaction around   *)
(* them, so flows of one account interleave, and each may stop half way.     *)
EXTENDS Integers, FiniteSets

CONSTANTS
  Accounts,
  Passwords,
  Tokens,                \* the jti values that will be generated: the bound on logins
  Resets,                \* the reset tokens that will be generated
  Calls,                 \* flows being served at the same time
  FirstPassword,         \* every account's password at the start
  SingleActiveSession,   \* the configuration switch
  None

ASSUME SessionsAssumption ==
  /\ FirstPassword \in Passwords
  /\ SingleActiveSession \in BOOLEAN
  /\ IsFiniteSet(Tokens) /\ IsFiniteSet(Calls) /\ Calls # {}
  /\ None \notin Accounts \cup Passwords \cup Resets \cup Tokens

VARIABLES
  active,     \* accounts.deleted_at is null
  password,   \* accounts.password_hash
  settled,    \* history: the last password reset of the account answered success
  token,      \* auth_tokens, each with the password that was given for it
  reset,      \* password_reset_tokens
  call        \* the flow on each connection and its next statement

vars == <<active, password, settled, token, reset, call>>

Idle == [At |-> "idle", Account |-> None, Password |-> None, Reset |-> None,
         Token |-> None]
Live(t, a) == token[t].State = "live" /\ token[t].Account = a
LiveOf(a) == {t \in Tokens : Live(t, a)}

-----------------------------------------------------------------------------
Init ==
  /\ active = [a \in Accounts |-> TRUE]
  /\ password = [a \in Accounts |-> FirstPassword]
  /\ settled = [a \in Accounts |-> TRUE]
  /\ token = [t \in Tokens |-> [State |-> "unused", Account |-> None, Password |-> None]]
  /\ reset = [r \in Resets |-> [State |-> "unused", Account |-> None]]
  /\ call = [c \in Calls |-> Idle]

Goto(c, at) == call' = [call EXCEPT ![c].At = at]
End(c) == call' = [call EXCEPT ![c] = Idle]

\* UPDATE auth_tokens SET revoked_at of every live token of the account; one that
\* expired or was revoked is over already.
RevokeAllTokens(a) ==
  token' = [t \in Tokens |-> IF Live(t, a) THEN [token[t] EXCEPT !.State = "revoked"] ELSE token[t]]

(***************************************************************************)
(* Login: compare the hash that was read, revoke, insert.                   *)
(***************************************************************************)
LoginCompare(c, a, pwd) ==
  /\ call[c].At = "idle"
  /\ active[a] /\ password[a] = pwd
  /\ call' = [call EXCEPT ![c] =
       [At |-> IF SingleActiveSession THEN "login_revoke" ELSE "login_create",
        Account |-> a, Password |-> pwd, Reset |-> None, Token |-> None]]
  /\ UNCHANGED <<active, password, settled, token, reset>>

LoginRevoke_Skipped(c) ==
  /\ call[c].At = "login_revoke"
  /\ Goto(c, "login_create")
  /\ UNCHANGED <<active, password, settled, token, reset>>
LoginRevoke(c) ==
  /\ call[c].At = "login_revoke"
  /\ RevokeAllTokens(call[c].Account)
  /\ Goto(c, "login_create")
  /\ UNCHANGED <<active, password, settled, reset>>

LoginCreate(c, t) ==
  /\ call[c].At = "login_create"
  /\ token[t].State = "unused"
  /\ token' = [token EXCEPT ![t] = [State |-> "live", Account |-> call[c].Account,
                                    Password |-> call[c].Password]]
  /\ End(c)
  /\ UNCHANGED <<active, password, settled, reset>>

(***************************************************************************)
(* A request with a session: the middleware looks up the token, then the    *)
(* account; the handler runs in "serve", and sign-out is one.               *)
(***************************************************************************)
LookupToken(c, t) ==
  /\ call[c].At = "idle"
  /\ token[t].State = "live"
  /\ call' = [call EXCEPT ![c] = [At |-> "check_account", Account |-> token[t].Account,
                                  Password |-> None, Reset |-> None, Token |-> t]]
  /\ UNCHANGED <<active, password, settled, token, reset>>

CheckAccount_Renews(c) ==
  /\ call[c].At = "check_account"
  /\ Goto(c, "serve")
  /\ token' = [token EXCEPT ![call[c].Token].State = "live"]
  /\ UNCHANGED <<active, password, settled, reset>>
CheckAccount(c) ==
  /\ call[c].At = "check_account"
  /\ IF active[call[c].Account] THEN Goto(c, "serve") ELSE End(c)
  /\ UNCHANGED <<active, password, settled, token, reset>>

\* The session may have ended since the lookup.
Logout(c) ==
  /\ call[c].At = "serve"
  /\ token' = [token EXCEPT ![call[c].Token].State = IF @ = "live" THEN "revoked" ELSE @]
  /\ End(c)
  /\ UNCHANGED <<active, password, settled, reset>>

(***************************************************************************)
(* Forgotten password: both statements' errors are ignored.                 *)
(***************************************************************************)
ForgotLookup(c, a) ==
  /\ call[c].At = "idle"
  /\ active[a]
  /\ call' = [call EXCEPT ![c] = [Idle EXCEPT !.At = "forgot_revoke", !.Account = a]]
  /\ UNCHANGED <<active, password, settled, token, reset>>

ForgotRevoke(c) ==
  /\ call[c].At = "forgot_revoke"
  /\ RevokeAllTokens(call[c].Account) \/ UNCHANGED token
  /\ Goto(c, "forgot_create")
  /\ UNCHANGED <<active, password, settled, reset>>

ForgotCreate(c, r) ==
  /\ call[c].At = "forgot_create"
  /\ reset[r].State = "unused"
  /\ reset' = [reset EXCEPT ![r] = [State |-> "live", Account |-> call[c].Account]]
  /\ End(c)
  /\ UNCHANGED <<active, password, settled, token>>

(***************************************************************************)
(* Reset: use the token up, write the password, revoke the sessions.        *)
(***************************************************************************)

\* One conditional UPDATE ... RETURNING, so a reset token is used once.
UseResetToken_Select(c, r, pwd) ==
  /\ call[c].At = "idle"
  /\ reset[r].State = "live"
  /\ call' = [call EXCEPT ![c] = [At |-> "reset_password", Account |-> reset[r].Account,
                                  Password |-> pwd, Reset |-> r, Token |-> None]]
  /\ UNCHANGED <<active, password, settled, token, reset>>
UseResetToken(c, r, pwd) ==
  /\ call[c].At = "idle"
  /\ reset[r].State = "live"
  /\ reset' = [reset EXCEPT ![r].State = "used"]
  /\ call' = [call EXCEPT ![c] = [At |-> "reset_password", Account |-> reset[r].Account,
                                  Password |-> pwd, Reset |-> r, Token |-> None]]
  /\ UNCHANGED <<active, password, settled, token>>

\* No row is written for an account deleted meanwhile; the flow goes on.
UpdatePassword_Blank(c) ==
  /\ call[c].At = "reset_password"
  /\ password' = [password EXCEPT ![call[c].Account] = None]
  /\ Goto(c, "reset_revoke")
  /\ UNCHANGED <<active, settled, token, reset>>
UpdatePassword(c) ==
  /\ call[c].At = "reset_password"
  /\ LET a == call[c].Account IN
       IF active[a]
       THEN /\ password' = [password EXCEPT ![a] = call[c].Password]
            /\ settled' = [settled EXCEPT ![a] = FALSE]
       ELSE UNCHANGED <<password, settled>>
  /\ Goto(c, "reset_revoke")
  /\ UNCHANGED <<active, token, reset>>

ResetRevoke_Skipped(c) ==
  /\ call[c].At = "reset_revoke"
  /\ settled' = [settled EXCEPT ![call[c].Account] = TRUE]
  /\ End(c)
  /\ UNCHANGED <<active, password, token, reset>>
ResetRevoke(c) ==
  /\ call[c].At = "reset_revoke"
  /\ RevokeAllTokens(call[c].Account)
  /\ settled' = [settled EXCEPT ![call[c].Account] = TRUE]
  /\ End(c)
  /\ UNCHANGED <<active, password, reset>>

\* A statement of a flow fails or the server stops: the flow ends where it is.
Stop(c) ==
  /\ call[c].At # "idle"
  /\ End(c)
  /\ UNCHANGED <<active, password, settled, token, reset>>

(***************************************************************************)
(* Soft deletion of the account, whose revocation may fail unnoticed.       *)
(***************************************************************************)
DeleteAccount(c, a) ==
  /\ call[c].At = "idle"
  /\ active[a]
  /\ active' = [active EXCEPT ![a] = FALSE]
  /\ call' = [call EXCEPT ![c] = [Idle EXCEPT !.At = "delete_revoke", !.Account = a]]
  /\ UNCHANGED <<password, settled, token, reset>>

DeleteRevoke(c) ==
  /\ call[c].At = "delete_revoke"
  /\ RevokeAllTokens(call[c].Account) \/ UNCHANGED token
  /\ End(c)
  /\ UNCHANGED <<active, password, settled, reset>>

\* expires_at passes.
Expire ==
  /\ \/ \E t \in Tokens : /\ token[t].State = "live"
                          /\ token' = [token EXCEPT ![t].State = "expired"]
                          /\ UNCHANGED reset
     \/ \E r \in Resets : /\ reset[r].State = "live"
                          /\ reset' = [reset EXCEPT ![r].State = "expired"]
                          /\ UNCHANGED token
  /\ UNCHANGED <<active, password, settled, call>>

Execute(c) ==
  \/ LoginRevoke(c)
  \/ \E t \in Tokens : LoginCreate(c, t)
  \/ ForgotRevoke(c)
  \/ \E r \in Resets : ForgotCreate(c, r)
  \/ UpdatePassword(c)
  \/ ResetRevoke(c)
  \/ DeleteRevoke(c)
  \/ CheckAccount(c)
  \/ Logout(c)

Next ==
  \/ \E c \in Calls :
       \/ \E a \in Accounts, pwd \in Passwords : LoginCompare(c, a, pwd)
       \/ \E a \in Accounts : ForgotLookup(c, a) \/ DeleteAccount(c, a)
       \/ \E r \in Resets, pwd \in Passwords : UseResetToken(c, r, pwd)
       \/ \E t \in Tokens : LookupToken(c, t)
       \/ Execute(c)
       \/ Stop(c)
  \/ Expire

Spec == Init /\ [][Next]_vars

-----------------------------------------------------------------------------
Statements == {"login_revoke", "login_create", "forgot_revoke", "forgot_create",
               "reset_password", "reset_revoke", "delete_revoke",
               "check_account", "serve"}

\* Every variable holds a value of its column or Go type.
TypeOK ==
  /\ active \in [Accounts -> BOOLEAN]
  /\ password \in [Accounts -> Passwords]
  /\ settled \in [Accounts -> BOOLEAN]
  /\ token \in [Tokens -> [State : {"unused", "live", "revoked", "expired"},
                           Account : Accounts \cup {None}, Password : Passwords \cup {None}]]
  /\ reset \in [Resets -> [State : {"unused", "live", "used", "expired"},
                           Account : Accounts \cup {None}]]
  /\ call \in [Calls -> [At : Statements \cup {"idle"}, Account : Accounts \cup {None},
                         Password : Passwords \cup {None}, Reset : Resets \cup {None},
                         Token : Tokens \cup {None}]]

\* A reset token changes one password: no two flows ever hold the same one, and
\* one that a flow holds can never be presented again.
ResetUsedOnce ==
  \A c \in Calls : call[c].At \in {"reset_password", "reset_revoke"} =>
    /\ reset[call[c].Reset].State = "used"
    /\ \A d \in Calls \ {c} : call[d].Reset # call[c].Reset

\* A session that ended stays ended, whatever logs in afterwards.
EndedForGood ==
  [][\A t \in Tokens : token[t].State \in {"revoked", "expired"} => token'[t].State = token[t].State]_vars

\* SINGLE_ACTIVE_SESSION: each login revokes before it inserts, so an account
\* has no more sessions than logins that raced each other; flows that stop half
\* way add none, and flows served one at a time leave a single session.
SessionsBoundedByRace ==
  SingleActiveSession => \A a \in Accounts :
    Cardinality(LiveOf(a))
      + Cardinality({c \in Calls : call[c].At = "login_create" /\ call[c].Account = a})
        <= Cardinality(Calls)

LoginsWithOld(a) ==
  {c \in Calls : /\ call[c].At \in {"login_revoke", "login_create"}
                 /\ call[c].Account = a
                 /\ call[c].Password # password[a]}

\* After a password reset that was answered with success, the only sessions an
\* older password opens or keeps are those of logins under way during the reset;
\* with flows served one at a time there are none.
OldSessionsBoundedByRace ==
  \A a \in Accounts : settled[a] =>
    Cardinality({t \in LiveOf(a) : token[t].Password # password[a]})
      + Cardinality(LoginsWithOld(a)) < Cardinality(Calls)

(***************************************************************************)
(* A claim of the documents that the code does not meet.                    *)
(***************************************************************************)

\* PLAN.md: a password reset revokes all sessions.  After one that was answered
\* with success, no session remains that an older password opened.
ResetEndsOldSessions ==
  \A a \in Accounts : settled[a] => \A t \in LiveOf(a) : token[t].Password = password[a]
=============================================================================
