------------------------------ MODULE Accounts ------------------------------
(* Accounts under concurrent administration: creation, profile and role      *)
(* updates, soft deletion and the start-up seed of the first admin           *)
(* (src/internal/service/wallet/service.go, wallet_dao.go, auth_dao.go).     *)
(* Each request runs its SQL statements one by one with no transaction       *)
(* around them, so requests interleave between a check and the write it      *)
(* guards.                                                                   *)
EXTENDS Integers, FiniteSets

CONSTANTS
  IDs, PlainIDs,       \* the ids that can be part of an email address as they are
  Emails, Formatted,   \* the addresses that accounts_email_format accepts
  Requests,      \* the admin and member requests that are submitted
  Ops,           \* requests being served at the same time
  SeedID, SeedEmail,
  NoRequest, Anonymized

Roles == {"member", "admin"}

ASSUME AccountsAssumption ==
  /\ Requests \subseteq [Kind : {"create", "update", "profile", "delete"},
                         ID : IDs, Role : Roles, Email : Emails]
  /\ SeedID \in IDs /\ SeedEmail \in Formatted
  /\ PlainIDs \subseteq IDs /\ Formatted \subseteq Emails
  /\ NoRequest \notin Requests /\ Anonymized \notin Emails

VARIABLES
  account,   \* the accounts table
  at,        \* the statement each request is about to execute
  in,        \* the request
  reply,     \* how the last request was answered
  overtaken, \* history: a row was written since the request passed its check
  up         \* the server runs

vars == <<account, at, in, reply, overtaken, up>>

Absent == [State |-> "absent", Role |-> "member", Email |-> Anonymized]
Row(role, email) == [State |-> "active", Role |-> role, Email |-> email]

Active(id) == account[id].State = "active"
ActiveAdmins == {id \in IDs : Active(id) /\ account[id].Role = "admin"}

\* The partial unique index on the email of accounts that are not deleted.
EmailTaken(id, email) ==
  \E other \in IDs \ {id} : Active(other) /\ account[other].Email = email

-----------------------------------------------------------------------------
\* SeedAdminIfMissing: nothing if the id was ever used or the email is taken.
Seeded_ActiveOnly(id) ==
  IF id = SeedID /\ ~Active(id) /\ ~EmailTaken(SeedID, SeedEmail)
  THEN Row("admin", SeedEmail) ELSE account[id]
Seeded(id) ==
  IF id = SeedID /\ account[id].State = "absent" /\ ~EmailTaken(SeedID, SeedEmail)
  THEN Row("admin", SeedEmail) ELSE account[id]

Init ==
  /\ account = [id \in IDs |-> IF id = SeedID THEN Row("admin", SeedEmail) ELSE Absent]
  /\ at = [o \in Ops |-> "idle"]
  /\ in = [o \in Ops |-> NoRequest]
  /\ reply = [o \in Ops |-> "none"]
  /\ overtaken = [o \in Ops |-> FALSE]
  /\ up = TRUE

Answer(o, r) ==
  /\ at' = [at EXCEPT ![o] = "idle"]
  /\ in' = [in EXCEPT ![o] = NoRequest]
  /\ reply' = [reply EXCEPT ![o] = r]

GoTo(o, statement) ==
  /\ at' = [at EXCEPT ![o] = statement]
  /\ UNCHANGED <<in, reply, overtaken>>

\* The request is answered without a write, or after one that overtakes the
\* requests about to write on the strength of an earlier check.  The answer to a
\* write that took effect may be lost.
Refuse(o, r) ==
  /\ Answer(o, r)
  /\ overtaken' = [overtaken EXCEPT ![o] = FALSE]
  /\ UNCHANGED account
Store(o, table) ==
  /\ account' = table
  /\ Answer(o, "ok") \/ Answer(o, "internal_error")
  /\ overtaken' = [p \in Ops |-> p # o /\ (overtaken[p] \/ at[p] = "write")]

\* A request that was decoded and passed its checks.
Arrive(o, req, statement) ==
  /\ up /\ at[o] = "idle"
  /\ in' = [in EXCEPT ![o] = req]
  /\ at' = [at EXCEPT ![o] = statement]
  /\ reply' = [reply EXCEPT ![o] = "none"]
  /\ UNCHANGED <<account, overtaken, up>>

\* An admin creates an account.
BeginCreate(o, req) == req.Kind = "create" /\ Arrive(o, req, "write")

\* A user's own update goes straight to its write; the updates of an admin and
\* the deletions, one's own included, read the account first.
Begin(o, req) ==
  \/ req.Kind = "profile" /\ Arrive(o, req, "write")
  \/ req.Kind \in {"update", "delete"} /\ Arrive(o, req, "read")

\* Whether the request takes an admin away, as far as the row it read says.
RemovesAdmin(req) ==
  /\ account[req.ID].Role = "admin"
  /\ req.Kind = "delete" \/ req.Role = "member"

\* GetAccount, then ensureNotLastAdmin if it is an admin that goes.
ReadAccount(o) ==
  /\ at[o] = "read"
  /\ \/ ~Active(in[o].ID) /\ Refuse(o, "not_found")
     \/ Active(in[o].ID) /\ RemovesAdmin(in[o]) /\ GoTo(o, "count") /\ UNCHANGED account
     \/ Active(in[o].ID) /\ ~RemovesAdmin(in[o]) /\ GoTo(o, "write") /\ UNCHANGED account
  /\ UNCHANGED up

EnsureNotLastAdmin_OffByOne(o) ==
  /\ at[o] = "count"
  /\ IF Cardinality(ActiveAdmins) < 1 THEN Refuse(o, "last_admin")
     ELSE GoTo(o, "write") /\ UNCHANGED account
  /\ UNCHANGED up
EnsureNotLastAdmin(o) ==
  /\ at[o] = "count"
  /\ IF Cardinality(ActiveAdmins) <= 1 THEN Refuse(o, "last_admin")
     ELSE GoTo(o, "write") /\ UNCHANGED account
  /\ UNCHANGED up

\* CHECK accounts_email_format comes before the unique indexes.
InsertAccount(o) ==
  /\ at[o] = "write" /\ in[o].Kind = "create"
  /\ \/ in[o].Email \notin Formatted /\ Refuse(o, "validation_error")
     \/ /\ in[o].Email \in Formatted /\ account[in[o].ID].State # "absent"
        /\ Refuse(o, "account_already_exists")
     \/ /\ in[o].Email \in Formatted /\ account[in[o].ID].State = "absent"
        /\ EmailTaken(in[o].ID, in[o].Email)
        /\ Refuse(o, "email_already_exists")
     \/ /\ in[o].Email \in Formatted /\ account[in[o].ID].State = "absent"
        /\ ~EmailTaken(in[o].ID, in[o].Email)
        /\ Store(o, [account EXCEPT ![in[o].ID] = Row(in[o].Role, in[o].Email)])
  /\ UNCHANGED up

\* UpdateProfile leaves the role alone; UpdateProfileRole writes it.
NewRow_WholeRow(req) == Row(req.Role, req.Email)
NewRow_NoRole(req) == Row(IF req.Kind = "update" THEN req.Role ELSE "", req.Email)
NewRow(req) == Row(IF req.Kind = "update" THEN req.Role ELSE account[req.ID].Role, req.Email)

WriteProfile_AnyState(o) ==
  /\ at[o] = "write" /\ in[o].Kind \in {"update", "profile"}
  /\ Store(o, [account EXCEPT ![in[o].ID] = NewRow(in[o])])
  /\ UNCHANGED up
WriteProfile(o) ==
  /\ at[o] = "write" /\ in[o].Kind \in {"update", "profile"}
  /\ \/ ~Active(in[o].ID) /\ Refuse(o, "not_found")
     \/ Active(in[o].ID) /\ in[o].Email \notin Formatted /\ Refuse(o, "validation_error")
     \/ /\ Active(in[o].ID) /\ in[o].Email \in Formatted /\ EmailTaken(in[o].ID, in[o].Email)
        /\ Refuse(o, "email_already_exists")
     \/ /\ Active(in[o].ID) /\ in[o].Email \in Formatted /\ ~EmailTaken(in[o].ID, in[o].Email)
        /\ Store(o, [account EXCEPT ![in[o].ID] = NewRow(in[o])])
  /\ UNCHANGED up

\* The row is kept with its role; the email is anonymized to free the address.  The
\* anonymized address contains the id and has to pass accounts_email_format too.
Deleted(id) == [State |-> "deleted", Role |-> account[id].Role, Email |-> Anonymized]

WriteDeletion(o) ==
  /\ at[o] = "write" /\ in[o].Kind = "delete"
  /\ \/ ~Active(in[o].ID) /\ Refuse(o, "not_found")
     \/ Active(in[o].ID) /\ in[o].ID \notin PlainIDs /\ Refuse(o, "validation_error")
     \/ /\ Active(in[o].ID) /\ in[o].ID \in PlainIDs
        /\ Store(o, [account EXCEPT ![in[o].ID] = Deleted(in[o].ID)])
  /\ UNCHANGED up

\* A statement fails, having changed nothing.
Fail(o) ==
  /\ at[o] # "idle"
  /\ Refuse(o, "internal_error")
  /\ UNCHANGED up

Crash ==
  /\ up
  /\ up' = FALSE
  /\ at' = [o \in Ops |-> "idle"]
  /\ in' = [o \in Ops |-> NoRequest]
  /\ reply' = [o \in Ops |-> "none"]
  /\ overtaken' = [o \in Ops |-> FALSE]
  /\ UNCHANGED account

Restart ==
  /\ ~up
  /\ up' = TRUE
  /\ account' = [id \in IDs |-> Seeded(id)]
  /\ UNCHANGED <<at, in, reply, overtaken>>

Execute(o) ==
  \/ ReadAccount(o)
  \/ EnsureNotLastAdmin(o)
  \/ InsertAccount(o)
  \/ WriteProfile(o)
  \/ WriteDeletion(o)

Next ==
  \/ \E o \in Ops : (\E req \in Requests : BeginCreate(o, req) \/ Begin(o, req)) \/ Execute(o) \/ Fail(o)
  \/ Crash
  \/ Restart

Spec == Init /\ [][Next]_vars

-----------------------------------------------------------------------------
\* Every variable holds a value of its column or Go type; a stored address is one
\* that accounts_email_format accepts.
TypeOK ==
  /\ account \in [IDs -> [State : {"absent", "active", "deleted"}, Role : Roles,
                          Email : Formatted \cup {Anonymized}]]
  /\ at \in [Ops -> {"idle", "read", "count", "write"}]
  /\ in \in [Ops -> Requests \cup {NoRequest}]
  /\ reply \in [Ops -> {"none", "ok", "not_found", "last_admin", "email_already_exists",
                        "account_already_exists", "validation_error", "internal_error"}]
  /\ overtaken \in [Ops -> BOOLEAN]
  /\ up \in BOOLEAN

\* An email signs in to one account: active accounts never share it, through
\* updates that swap addresses, deletions that free them and the start-up seed.
EmailIdentifies ==
  \A a, b \in IDs : Active(a) /\ Active(b) /\ account[a].Email = account[b].Email => a = b

\* Deletion is final: a request that read the account while it was active, a
\* re-creation under its id and a restart all leave the deleted row as it is.
DeletedIsFinal ==
  [][\A id \in IDs : account[id].State = "deleted" => account'[id] = account[id]]_vars

\* A role changes only by an admin's update: neither a member's concurrent
\* profile update nor a deletion writes back a role.
RoleOnlyByUpdate ==
  [][\A id \in IDs : Active(id) /\ account'[id].Role # account[id].Role =>
       \E o \in Ops : at[o] = "write" /\ in[o].Kind = "update" /\ in[o].ID = id]_vars

\* The last admin is only ever removed by a request that another one overtook
\* between its check and its write: without such a race an admin remains, through
\* updates, deletions, failed statements and restarts.
LastAdminGoesOnlyByRace ==
  [][ActiveAdmins # {} /\ ActiveAdmins' = {} =>
       \E o \in Ops : at[o] = "write" /\ at'[o] = "idle" /\ overtaken[o]]_vars

\* Administration implements the directory: however the statements of requests, their
\* failures and the restarts with their seed interleave, the table changes one account
\* at a time, an id is enrolled once and what was removed stays removed.
Dir == INSTANCE Directory WITH
         entry <- [id \in IDs |-> IF Active(id) THEN account[id].Role ELSE account[id].State]

Implements == Dir!Spec

(***************************************************************************)
(* A claim of the documents that the code does not meet.                    *)
(***************************************************************************)

\* SOLUTION.md: the last admin cannot be deleted or demoted.  Somebody can always
\* administer the wallet.
AdminRemains == ActiveAdmins # {}
=============================================================================
