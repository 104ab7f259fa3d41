---------------------------- MODULE AccountsProofs ----------------------------
(* Proofs about Accounts, for every set of ids, emails and requests and any  *)
(* number of requests served at the same time.                               *)
EXTENDS Accounts, FiniteSetTheorems, TLAPS

States == {"absent", "active", "deleted"}

\* What one step may do to the accounts table: nothing, or write one row.
RowWritten(id, row) ==
  /\ \/ account[id].State # "deleted" /\ row.State = "active"
     \/ account[id].State = "active" /\ row.State = "deleted"
  /\ row \in [State : States, Role : Roles, Email : Formatted \cup {Anonymized}]
  /\ row.State = "active" => ~EmailTaken(id, row.Email)
  /\ account' = [account EXCEPT ![id] = row]

TableSteps ==
  \/ UNCHANGED account
  \/ \E id \in IDs : \E row \in [State : States, Role : Roles, Email : Formatted \cup {Anonymized}] :
       RowWritten(id, row)

-----------------------------------------------------------------------------
(* Types.                                                                    *)

LEMMA InitType == Init => TypeOK
BY AccountsAssumption DEF Init, TypeOK, Absent, Row, Roles

LEMMA AnswerType ==
  ASSUME TypeOK, NEW o \in Ops,
         NEW r \in {"none", "ok", "not_found", "last_admin", "email_already_exists",
                    "account_already_exists", "validation_error", "internal_error"},
         Answer(o, r)
  PROVE  /\ at' \in [Ops -> {"idle", "read", "count", "write"}]
         /\ in' \in [Ops -> Requests \cup {NoRequest}]
         /\ reply' \in [Ops -> {"none", "ok", "not_found", "last_admin", "email_already_exists",
                        "account_already_exists", "validation_error", "internal_error"}]
BY DEF TypeOK, Answer

LEMMA RefuseType ==
  ASSUME TypeOK, NEW o \in Ops,
         NEW r \in {"none", "ok", "not_found", "last_admin", "email_already_exists",
                    "account_already_exists", "validation_error", "internal_error"},
         Refuse(o, r), UNCHANGED up
  PROVE  TypeOK' /\ UNCHANGED account
<1>1. Answer(o, r) /\ UNCHANGED account
  BY DEF Refuse
<1>2. overtaken' \in [Ops -> BOOLEAN]
  BY DEF TypeOK, Refuse
<1> QED
  BY <1>1, <1>2, AnswerType DEF TypeOK

LEMMA GoToType ==
  ASSUME TypeOK, NEW o \in Ops, NEW s \in {"read", "count", "write"}, GoTo(o, s),
         UNCHANGED <<account, up>>
  PROVE  TypeOK'
BY DEF TypeOK, GoTo

LEMMA ArriveType ==
  ASSUME TypeOK, NEW o \in Ops, NEW req \in Requests, NEW s \in {"read", "write"},
         Arrive(o, req, s)
  PROVE  TypeOK' /\ UNCHANGED account
BY DEF TypeOK, Arrive

\* A store of one typed row.
LEMMA StoreType ==
  ASSUME TypeOK, NEW o \in Ops, NEW id \in IDs,
         NEW row \in [State : States, Role : Roles, Email : Formatted \cup {Anonymized}],
         Store(o, [account EXCEPT ![id] = row]), UNCHANGED up
  PROVE  TypeOK'
<1>1. Answer(o, "ok") \/ Answer(o, "internal_error")
  BY DEF Store
<1>2. account' \in [IDs -> [State : States, Role : Roles, Email : Formatted \cup {Anonymized}]]
  BY DEF TypeOK, Store, States
<1>3. overtaken' \in [Ops -> BOOLEAN]
  BY DEF Store
<1> QED
  BY <1>1, <1>2, <1>3, AnswerType DEF TypeOK, States

-----------------------------------------------------------------------------
(* The request that an operation serves.                                     *)

\* While a request is under way the server is up and in holds the request: with
\* TypeOK, the inductive invariant.
Serving == \A o \in Ops : at[o] # "idle" => up /\ in[o] \in Requests

IInv == TypeOK /\ Serving

LEMMA InitIInv == Init => IInv
BY InitType DEF Init, IInv, Serving

LEMMA RequestType ==
  ASSUME NEW req \in Requests
  PROVE  /\ req.Kind \in {"create", "update", "profile", "delete"}
         /\ req.ID \in IDs /\ req.Role \in Roles /\ req.Email \in Emails
BY AccountsAssumption

LEMMA AnswerServing ==
  ASSUME IInv, NEW o \in Ops, NEW r, Answer(o, r), UNCHANGED up
  PROVE  Serving'
BY DEF IInv, TypeOK, Serving, Answer

LEMMA RefuseKeeps ==
  ASSUME IInv, NEW o \in Ops,
         NEW r \in {"none", "ok", "not_found", "last_admin", "email_already_exists",
                    "account_already_exists", "validation_error", "internal_error"},
         Refuse(o, r), UNCHANGED up
  PROVE  IInv' /\ TableSteps
<1>1. TypeOK' /\ UNCHANGED account
  BY RefuseType DEF IInv
<1>2. Serving'
  BY AnswerServing DEF Refuse
<1> QED
  BY <1>1, <1>2 DEF IInv, TableSteps

LEMMA GoToKeeps ==
  ASSUME IInv, NEW o \in Ops, at[o] # "idle", NEW s \in {"read", "count", "write"}, GoTo(o, s),
         UNCHANGED <<account, up>>
  PROVE  IInv' /\ TableSteps
<1>1. TypeOK'
  BY GoToType DEF IInv
<1>2. Serving'
  BY DEF IInv, TypeOK, Serving, GoTo
<1> QED
  BY <1>1, <1>2 DEF IInv, TableSteps

LEMMA StoreKeeps ==
  ASSUME IInv, NEW o \in Ops, NEW id \in IDs,
         NEW row \in [State : States, Role : Roles, Email : Formatted \cup {Anonymized}],
         \/ account[id].State # "deleted" /\ row.State = "active"
         \/ account[id].State = "active" /\ row.State = "deleted",
         row.State = "active" => ~EmailTaken(id, row.Email),
         Store(o, [account EXCEPT ![id] = row]), UNCHANGED up
  PROVE  IInv' /\ TableSteps
<1>1. TypeOK'
  BY StoreType DEF IInv
<1>2. Serving'
  BY AnswerServing DEF Store
<1>3. RowWritten(id, row)
  BY DEF RowWritten, Store
<1> QED
  BY <1>1, <1>2, <1>3 DEF IInv, TableSteps

-----------------------------------------------------------------------------
(* One lemma per action.                                                     *)

LEMMA BeginKeeps ==
  ASSUME IInv, NEW o \in Ops, NEW req \in Requests, BeginCreate(o, req) \/ Begin(o, req)
  PROVE  IInv' /\ TableSteps
<1>1. PICK s \in {"read", "write"} : Arrive(o, req, s)
  BY DEF BeginCreate, Begin
<1>2. TypeOK' /\ UNCHANGED account
  BY <1>1, ArriveType DEF IInv
<1>3. Serving'
  BY <1>1 DEF IInv, TypeOK, Serving, Arrive
<1> QED
  BY <1>2, <1>3 DEF IInv, TableSteps

LEMMA ReadAccountKeeps ==
  ASSUME IInv, NEW o \in Ops, ReadAccount(o)
  PROVE  IInv' /\ TableSteps
<1>1. CASE Refuse(o, "not_found")
  BY <1>1, RefuseKeeps DEF ReadAccount
<1>2. CASE GoTo(o, "count") /\ UNCHANGED account
  BY <1>2, GoToKeeps DEF ReadAccount
<1>3. CASE GoTo(o, "write") /\ UNCHANGED account
  BY <1>3, GoToKeeps DEF ReadAccount
<1> QED
  BY <1>1, <1>2, <1>3 DEF ReadAccount

LEMMA CountKeeps ==
  ASSUME IInv, NEW o \in Ops, EnsureNotLastAdmin(o)
  PROVE  IInv' /\ TableSteps
<1>1. CASE Refuse(o, "last_admin")
  BY <1>1, RefuseKeeps DEF EnsureNotLastAdmin
<1>2. CASE GoTo(o, "write") /\ UNCHANGED account
  BY <1>2, GoToKeeps DEF EnsureNotLastAdmin
<1> QED
  BY <1>1, <1>2 DEF EnsureNotLastAdmin

LEMMA InsertAccountKeeps ==
  ASSUME IInv, NEW o \in Ops, InsertAccount(o)
  PROVE  IInv' /\ TableSteps
<1>1. in[o] \in Requests
  BY DEF IInv, Serving, InsertAccount
<1>2. CASE \/ Refuse(o, "validation_error")
             \/ Refuse(o, "account_already_exists") \/ Refuse(o, "email_already_exists")
  BY <1>2, RefuseKeeps DEF InsertAccount
<1>3. CASE /\ account[in[o].ID].State = "absent" /\ ~EmailTaken(in[o].ID, in[o].Email)
           /\ in[o].Email \in Formatted
           /\ Store(o, [account EXCEPT ![in[o].ID] = Row(in[o].Role, in[o].Email)])
  <2> DEFINE row == Row(in[o].Role, in[o].Email)
  <2>1. /\ row \in [State : States, Role : Roles, Email : Formatted \cup {Anonymized}]
        /\ row.Email = in[o].Email /\ row.State = "active"
    BY <1>1, <1>3, RequestType DEF Row, States
  <2> QED
    BY <1>1, <1>3, <2>1, RequestType, StoreKeeps DEF InsertAccount
<1> QED
  BY <1>2, <1>3 DEF InsertAccount

LEMMA WriteProfileKeeps ==
  ASSUME IInv, NEW o \in Ops, WriteProfile(o)
  PROVE  IInv' /\ TableSteps
<1>1. in[o] \in Requests
  BY DEF IInv, Serving, WriteProfile
<1>2. CASE \/ Refuse(o, "not_found")
             \/ Refuse(o, "validation_error") \/ Refuse(o, "email_already_exists")
  BY <1>2, RefuseKeeps DEF WriteProfile
<1>3. CASE /\ Active(in[o].ID) /\ ~EmailTaken(in[o].ID, in[o].Email)
           /\ in[o].Email \in Formatted
           /\ Store(o, [account EXCEPT ![in[o].ID] = NewRow(in[o])])
  <2> DEFINE row == NewRow(in[o])
  <2>1. account[in[o].ID].Role \in Roles
    BY <1>1, RequestType DEF IInv, TypeOK
  <2>2. /\ row \in [State : States, Role : Roles, Email : Formatted \cup {Anonymized}]
        /\ row.Email = in[o].Email /\ row.State = "active"
    BY <1>1, <1>3, <2>1, RequestType DEF NewRow, Row, States
  <2>3. account[in[o].ID].State # "deleted"
    BY <1>3 DEF Active
  <2> QED
    BY <1>1, <1>3, <2>2, <2>3, RequestType, StoreKeeps DEF WriteProfile
<1> QED
  BY <1>2, <1>3 DEF WriteProfile

LEMMA WriteDeletionKeeps ==
  ASSUME IInv, NEW o \in Ops, WriteDeletion(o)
  PROVE  IInv' /\ TableSteps
<1>1. in[o] \in Requests
  BY DEF IInv, Serving, WriteDeletion
<1>2. CASE Refuse(o, "not_found") \/ Refuse(o, "validation_error")
  BY <1>2, RefuseKeeps DEF WriteDeletion
<1>3. CASE /\ Active(in[o].ID)
           /\ Store(o, [account EXCEPT ![in[o].ID] = Deleted(in[o].ID)])
  <2>1. in[o].ID \in IDs
    BY <1>1, RequestType
  <2>2. /\ Deleted(in[o].ID) \in [State : States, Role : Roles, Email : Formatted \cup {Anonymized}]
        /\ Deleted(in[o].ID).State = "deleted"
    BY <2>1 DEF IInv, TypeOK, States, Deleted
  <2>3. account[in[o].ID].State = "active"
    BY <1>3 DEF Active
  <2> QED
    BY <1>3, <2>1, <2>2, <2>3, StoreKeeps DEF WriteDeletion
<1> QED
  BY <1>2, <1>3 DEF WriteDeletion

LEMMA CrashKeeps ==
  ASSUME IInv, Crash
  PROVE  IInv' /\ TableSteps
BY DEF IInv, TypeOK, Serving, TableSteps, Crash

LEMMA RestartKeeps ==
  ASSUME IInv, Restart
  PROVE  IInv' /\ TableSteps
<1> DEFINE new == Seeded(SeedID)
<1>1. SeedID \in IDs /\ SeedEmail \in Formatted
  BY AccountsAssumption
<1>2. account \in [IDs -> [State : States, Role : Roles, Email : Formatted \cup {Anonymized}]]
  BY DEF IInv, TypeOK, States
<1>3. account' = [account EXCEPT ![SeedID] = new]
  BY <1>1, <1>2 DEF Restart, Seeded
<1>4. new \in [State : States, Role : Roles, Email : Formatted \cup {Anonymized}]
  BY <1>1, <1>2 DEF Seeded, Row, States, Roles
<1>5. TypeOK'
  BY <1>1, <1>2, <1>3, <1>4 DEF Restart, IInv, TypeOK, States
<1>6. Serving'
  BY DEF Restart, IInv, TypeOK, Serving
<1>7. CASE new = account[SeedID]
  BY <1>1, <1>2, <1>3, <1>5, <1>6, <1>7 DEF IInv, TableSteps
<1>8. CASE new # account[SeedID]
  <2>1. /\ account[SeedID].State = "absent" /\ ~EmailTaken(SeedID, SeedEmail)
        /\ new = Row("admin", SeedEmail)
    BY <1>8 DEF Seeded
  <2>2. RowWritten(SeedID, new)
    BY <1>3, <1>4, <2>1 DEF RowWritten, Row
  <2> QED
    BY <1>1, <1>4, <1>5, <1>6, <2>2 DEF IInv, TableSteps
<1> QED
  BY <1>7, <1>8

LEMMA NextKeeps == IInv /\ [Next]_vars => IInv' /\ TableSteps
<1> SUFFICES ASSUME IInv, [Next]_vars PROVE IInv' /\ TableSteps
  OBVIOUS
<1>1. ASSUME NEW o \in Ops, NEW req \in Requests, BeginCreate(o, req) \/ Begin(o, req)
      PROVE  IInv' /\ TableSteps
  BY <1>1, BeginKeeps
<1>2. ASSUME NEW o \in Ops, Execute(o) PROVE IInv' /\ TableSteps
  BY <1>2, ReadAccountKeeps, CountKeeps, InsertAccountKeeps, WriteProfileKeeps,
     WriteDeletionKeeps DEF Execute
<1>3. ASSUME NEW o \in Ops, Fail(o) PROVE IInv' /\ TableSteps
  BY <1>3, RefuseKeeps DEF Fail
<1>4. CASE UNCHANGED vars
  BY <1>4 DEF vars, IInv, TypeOK, Serving, TableSteps
<1> QED
  BY <1>1, <1>2, <1>3, <1>4, CrashKeeps, RestartKeeps DEF Next

\* Every reachable state has the inductive invariant.
THEOREM Invariant == Spec => []IInv
BY InitIInv, NextKeeps, PTL DEF Spec

\* The accounts, the requests and the answers keep their types.
THEOREM TypeCorrect == Spec => []TypeOK
BY Invariant, PTL DEF IInv

-----------------------------------------------------------------------------
(* Emails and deletion.                                                      *)

LEMMA EmailKeeps == IInv /\ IInv' /\ TableSteps /\ EmailIdentifies => EmailIdentifies'
<1> SUFFICES ASSUME IInv, TableSteps, EmailIdentifies,
                    NEW a \in IDs, NEW b \in IDs,
                    Active(a)', Active(b)', account'[a].Email = account'[b].Email, a # b
             PROVE  FALSE
  BY DEF EmailIdentifies
<1>1. CASE UNCHANGED account
  BY <1>1 DEF EmailIdentifies, Active
<1>2. ASSUME NEW id \in IDs,
             NEW row \in [State : States, Role : Roles, Email : Formatted \cup {Anonymized}],
             RowWritten(id, row)
      PROVE  FALSE
  <2>1. \A x \in IDs : account'[x] = IF x = id THEN row ELSE account[x]
    BY <1>2 DEF RowWritten, IInv, TypeOK
  <2>2. row.State = "active" => \A x \in IDs \ {id} :
          account[x].State = "active" => account[x].Email # row.Email
    BY <1>2 DEF RowWritten, EmailTaken, Active
  <2> QED
    BY <2>1, <2>2 DEF EmailIdentifies, Active
<1> QED
  BY <1>1, <1>2 DEF TableSteps

\* Active accounts never share an email, for any number of interleaved requests:
\* the check is the index the write itself passes, not a statement before it.
THEOREM EmailsIdentify == Spec => []EmailIdentifies
<1>1. Init => EmailIdentifies
  BY DEF Init, EmailIdentifies, Active, Row, Absent
<1>2. IInv /\ IInv' /\ EmailIdentifies /\ [Next]_vars => EmailIdentifies'
  BY NextKeeps, EmailKeeps
<1> QED
  BY <1>1, <1>2, Invariant, PTL DEF Spec

\* A deleted account is never written again, whatever its requests had read.
THEOREM DeletionFinal == Spec => DeletedIsFinal
<1>1. IInv /\ [Next]_vars =>
        [\A id \in IDs : account[id].State = "deleted" => account'[id] = account[id]]_vars
  <2> SUFFICES ASSUME IInv, [Next]_vars, NEW id \in IDs, account[id].State = "deleted"
               PROVE  account'[id] = account[id]
    OBVIOUS
  <2>1. TableSteps
    BY NextKeeps
  <2> QED
    BY <2>1 DEF TableSteps, RowWritten, IInv, TypeOK
<1> QED
  BY <1>1, Invariant, PTL DEF Spec, DeletedIsFinal

-----------------------------------------------------------------------------
(* The directory.                                                            *)

EntryOf(row) == IF row.State = "active" THEN row.Role ELSE row.State

LEMMA RowImplements ==
  ASSUME IInv, NEW id \in IDs,
         NEW row \in [State : States, Role : Roles, Email : Formatted \cup {Anonymized}],
         RowWritten(id, row)
  PROVE  Dir!Next
<1> DEFINE entry == [x \in IDs |-> EntryOf(account[x])]
           after == [x \in IDs |-> EntryOf(account'[x])]
<1>1. account \in [IDs -> [State : States, Role : Roles, Email : Formatted \cup {Anonymized}]]
  BY DEF IInv, TypeOK, States
<1>2. after = [entry EXCEPT ![id] = EntryOf(row)]
  BY <1>1 DEF RowWritten
<1>3. entry[id] = EntryOf(account[id])
  OBVIOUS
<1>4. /\ entry = [x \in IDs |-> IF Active(x) THEN account[x].Role ELSE account[x].State]
      /\ after = [x \in IDs |-> IF Active(x) THEN account[x].Role ELSE account[x].State]'
  BY DEF EntryOf, Active
<1> HIDE DEF entry, after
<1>5. CASE account[id].State = "absent"
  <2>1. row.State = "active" /\ EntryOf(row) = row.Role /\ row.Role \in Dir!Roles
        /\ entry[id] = "absent"
    BY <1>3, <1>5 DEF RowWritten, EntryOf, Roles, Dir!Roles
  <2>2. Dir!Enrol(id, row.Role)
    BY <1>2, <1>4, <2>1 DEF Dir!Enrol
  <2> QED
    BY <2>1, <2>2 DEF Dir!Next
<1>6. CASE account[id].State = "active" /\ row.State = "active"
  <2>1. EntryOf(row) = row.Role /\ row.Role \in Dir!Roles /\ entry[id] \in Dir!Roles
    BY <1>1, <1>3, <1>6 DEF EntryOf, Roles, Dir!Roles
  <2>2. Dir!SetRole(id, row.Role)
    BY <1>2, <1>4, <2>1 DEF Dir!SetRole
  <2> QED
    BY <2>1, <2>2 DEF Dir!Next
<1>7. CASE account[id].State = "active" /\ row.State = "deleted"
  <2>1. EntryOf(row) = "deleted" /\ entry[id] \in Dir!Roles
    BY <1>1, <1>3, <1>7 DEF EntryOf, Roles, Dir!Roles
  <2>2. Dir!Remove(id)
    BY <1>2, <1>4, <2>1 DEF Dir!Remove
  <2> QED
    BY <2>2 DEF Dir!Next
<1> QED
  BY <1>1, <1>5, <1>6, <1>7 DEF RowWritten, States

LEMMA StepImplements == IInv /\ [Next]_vars =>
  [Dir!Next]_[id \in IDs |-> IF Active(id) THEN account[id].Role ELSE account[id].State]
<1> SUFFICES ASSUME IInv, [Next]_vars
             PROVE  Dir!Next \/ UNCHANGED [id \in IDs |-> IF Active(id) THEN account[id].Role
                                                          ELSE account[id].State]
  OBVIOUS
<1>1. CASE UNCHANGED account
  BY <1>1 DEF Active
<1> QED
  BY <1>1, NextKeeps, RowImplements DEF TableSteps

\* However the statements of requests, their failures and the restarts interleave,
\* administration changes accounts by the directory's steps.
THEOREM Implementation == Spec => Implements
<1>1. Init => Dir!Init
  <2> SUFFICES ASSUME Init
               PROVE  [id \in IDs |-> IF Active(id) THEN account[id].Role ELSE account[id].State]
                        = [id \in IDs |-> IF id = SeedID THEN "admin" ELSE "absent"]
    BY AccountsAssumption DEF Dir!Init
  <2> QED
    BY DEF Init, Active, Row, Absent
<1> QED
  BY <1>1, Invariant, StepImplements, PTL DEF Spec, Implements, Dir!Spec

-----------------------------------------------------------------------------
(* The last admin.                                                           *)

\* A request about to take an admin away that was not overtaken since its count
\* still finds a second one.
Counted == \A o \in Ops :
  at[o] = "write" /\ in[o].Kind \in {"update", "delete"} /\ ~overtaken[o]
    /\ Active(in[o].ID) /\ RemovesAdmin(in[o])
  => ~(Cardinality(ActiveAdmins) <= 1)

\* A request that was refused, or wrote, is no longer about to write, and those
\* left are as they were or overtaken.
LEMMA RefuseCounted ==
  ASSUME IInv, Counted, NEW o \in Ops, NEW r, Refuse(o, r)
  PROVE  Counted'
BY DEF IInv, TypeOK, Counted, Refuse, Answer, ActiveAdmins, Active, RemovesAdmin

LEMMA StoreCounted ==
  ASSUME IInv, NEW o \in Ops, NEW table, Store(o, table)
  PROVE  Counted'
BY DEF IInv, TypeOK, Counted, Store, Answer

LEMMA ReadCounted ==
  ASSUME IInv, Counted, NEW o \in Ops, ReadAccount(o)
  PROVE  Counted'
<1>1. CASE Refuse(o, "not_found")
  BY <1>1, RefuseCounted
<1>2. CASE GoTo(o, "count") /\ UNCHANGED account
  BY <1>2 DEF IInv, TypeOK, Counted, GoTo, ActiveAdmins, Active, RemovesAdmin
<1>3. CASE ~RemovesAdmin(in[o]) /\ GoTo(o, "write") /\ UNCHANGED account
  BY <1>3 DEF IInv, TypeOK, Counted, GoTo, ActiveAdmins, Active, RemovesAdmin
<1> QED
  BY <1>1, <1>2, <1>3 DEF ReadAccount

LEMMA CountCounted ==
  ASSUME IInv, Counted, NEW o \in Ops, EnsureNotLastAdmin(o)
  PROVE  Counted'
<1>1. CASE Refuse(o, "last_admin")
  BY <1>1, RefuseCounted
<1>2. CASE ~(Cardinality(ActiveAdmins) <= 1) /\ GoTo(o, "write") /\ UNCHANGED account
  BY <1>2 DEF IInv, TypeOK, Counted, GoTo, ActiveAdmins, Active, RemovesAdmin
<1> QED
  BY <1>1, <1>2 DEF EnsureNotLastAdmin

LEMMA RestCounted ==
  ASSUME IInv, Counted, NEW o \in Ops,
         \/ \E req \in Requests : BeginCreate(o, req) \/ Begin(o, req)
         \/ InsertAccount(o) \/ WriteProfile(o) \/ WriteDeletion(o) \/ Fail(o)
  PROVE  Counted'
<1>1. CASE \E r : Refuse(o, r)
  BY <1>1, RefuseCounted
<1>2. CASE \E table : Store(o, table)
  BY <1>2, StoreCounted
<1>3. ASSUME NEW req \in Requests, BeginCreate(o, req) \/ Begin(o, req)
      PROVE  Counted'
  <2>1. /\ UNCHANGED <<account, overtaken>>
        /\ at' = [at EXCEPT ![o] = "read"] \/ (at' = [at EXCEPT ![o] = "write"]
                                               /\ req.Kind \in {"create", "profile"})
        /\ in' = [in EXCEPT ![o] = req]
    BY <1>3 DEF BeginCreate, Begin, Arrive
  <2> QED
    BY <2>1 DEF IInv, TypeOK, Counted, ActiveAdmins, Active, RemovesAdmin
<1> QED
  BY <1>1, <1>2, <1>3 DEF InsertAccount, WriteProfile, WriteDeletion, Fail

LEMMA CountedKeeps == IInv /\ Counted /\ [Next]_vars => Counted'
<1> SUFFICES ASSUME IInv, Counted, [Next]_vars PROVE Counted'
  OBVIOUS
<1>1. CASE Crash \/ Restart
  <2>1. \A o \in Ops : at'[o] # "write"
    BY <1>1 DEF Crash, Restart, IInv, TypeOK, Serving
  <2> QED
    BY <2>1 DEF Counted
<1>2. CASE UNCHANGED vars
  BY <1>2 DEF vars, Counted, ActiveAdmins, Active, RemovesAdmin
<1> QED
  BY <1>1, <1>2, ReadCounted, CountCounted, RestCounted DEF Next, Execute

LEMMA AtMostOne ==
  ASSUME NEW S, NEW x, S \subseteq {x}
  PROVE  Cardinality(S) <= 1
<1>1. CASE S = {}
  BY <1>1, FS_EmptySet
<1>2. CASE S = {x}
  BY <1>2, FS_Singleton
<1> QED
  BY <1>1, <1>2

\* Writing any row but that of the only admin leaves an admin.
LEMMA LastAdminStep ==
  ASSUME IInv, Counted, NEW o \in Ops, at[o] = "write", in[o].Kind \in {"update", "delete"},
         Active(in[o].ID), RemovesAdmin(in[o]),
         NEW row, account' = [account EXCEPT ![in[o].ID] = row],
         ActiveAdmins' = {}
  PROVE  overtaken[o]
<1> SUFFICES ASSUME ~overtaken[o] PROVE FALSE
  OBVIOUS
<1>1. ~(Cardinality(ActiveAdmins) <= 1)
  BY DEF Counted
<1>2. ActiveAdmins \subseteq {in[o].ID}
  <2> SUFFICES ASSUME NEW id \in ActiveAdmins, id # in[o].ID PROVE FALSE
    OBVIOUS
  <2>1. id \in IDs /\ account'[id] = account[id]
    BY DEF ActiveAdmins, IInv, TypeOK
  <2>2. id \in ActiveAdmins'
    BY <2>1 DEF ActiveAdmins, Active
  <2> QED
    BY <2>2
<1> QED
  BY <1>1, <1>2, AtMostOne

\* A write that takes no admin away keeps them all.
LEMMA OtherWrites ==
  ASSUME IInv, NEW id \in IDs, NEW row, account' = [account EXCEPT ![id] = row],
         ~(Active(id) /\ account[id].Role = "admin") \/ (row.State = "active" /\ row.Role = "admin"),
         ActiveAdmins # {}
  PROVE  ActiveAdmins' # {}
<1>1. PICK a \in ActiveAdmins : TRUE
  OBVIOUS
<1>2. a \in IDs /\ account'[a] = IF a = id THEN row ELSE account[a]
  BY DEF ActiveAdmins, IInv, TypeOK
<1>3. a \in ActiveAdmins'
  BY <1>2 DEF ActiveAdmins, Active
<1> QED
  BY <1>3

LEMMA LastAdminKeeps ==
  ASSUME IInv, Counted, [Next]_vars, ActiveAdmins # {}, ActiveAdmins' = {}
  PROVE  \E o \in Ops : at[o] = "write" /\ at'[o] = "idle" /\ overtaken[o]
<1>1. account' # account
  BY DEF ActiveAdmins, Active
<1>2. ASSUME NEW o \in Ops, NEW table, Store(o, table)
      PROVE  account' = table /\ at'[o] = "idle"
  BY <1>2 DEF Store, Answer, IInv, TypeOK
<1>3. ASSUME NEW o \in Ops, InsertAccount(o)
      PROVE  FALSE
  <2>1. /\ in[o] \in Requests
        /\ account[in[o].ID].State = "absent"
        /\ Store(o, [account EXCEPT ![in[o].ID] = Row(in[o].Role, in[o].Email)])
    BY <1>1, <1>3 DEF InsertAccount, Refuse, IInv, Serving
  <2>2. in[o].ID \in IDs /\ ~Active(in[o].ID)
    BY <2>1, RequestType DEF Active
  <2> QED
    BY <1>2, <2>1, <2>2, OtherWrites
<1>4. ASSUME NEW o \in Ops, WriteProfile(o)
      PROVE  at[o] = "write" /\ at'[o] = "idle" /\ overtaken[o]
  <2>1. /\ in[o] \in Requests /\ at[o] = "write" /\ in[o].Kind \in {"update", "profile"}
        /\ Active(in[o].ID)
        /\ Store(o, [account EXCEPT ![in[o].ID] = NewRow(in[o])])
    BY <1>1, <1>4 DEF WriteProfile, Refuse, IInv, Serving
  <2>2. in[o].ID \in IDs /\ in[o].Role \in Roles
    BY <2>1, RequestType
  <2>3. in[o].Kind = "update" /\ RemovesAdmin(in[o])
    <3> SUFFICES ASSUME ~(in[o].Kind = "update" /\ RemovesAdmin(in[o])) PROVE FALSE
      OBVIOUS
    <3>1. account[in[o].ID].Role = "admin" => NewRow(in[o]).Role = "admin"
      BY <2>1, <2>2 DEF NewRow, Row, RemovesAdmin, Roles
    <3>2. NewRow(in[o]).State = "active"
      BY DEF NewRow, Row
    <3> QED
      BY <1>2, <2>1, <2>2, <3>1, <3>2, OtherWrites
  <2> QED
    BY <1>2, <2>1, <2>3, LastAdminStep
<1>5. ASSUME NEW o \in Ops, WriteDeletion(o)
      PROVE  at[o] = "write" /\ at'[o] = "idle" /\ overtaken[o]
  <2>1. /\ in[o] \in Requests /\ at[o] = "write" /\ in[o].Kind = "delete"
        /\ Active(in[o].ID)
        /\ Store(o, [account EXCEPT ![in[o].ID] = Deleted(in[o].ID)])
    BY <1>1, <1>5 DEF WriteDeletion, Refuse, IInv, Serving
  <2>2. in[o].ID \in IDs
    BY <2>1, RequestType
  <2>3. RemovesAdmin(in[o])
    BY <1>2, <2>1, <2>2, OtherWrites DEF RemovesAdmin
  <2> QED
    BY <1>2, <2>1, <2>3, LastAdminStep
<1>6. ASSUME Restart PROVE FALSE
  <2>1. account' = [account EXCEPT ![SeedID] = Seeded(SeedID)]
    BY <1>6, AccountsAssumption DEF Restart, Seeded, IInv, TypeOK
  <2>2. Seeded(SeedID) = account[SeedID] \/ ~Active(SeedID)
    BY DEF Seeded, Active
  <2>3. ~Active(SeedID)
    BY <1>1, <2>1, <2>2, AccountsAssumption DEF IInv, TypeOK
  <2> QED
    BY <2>1, <2>3, OtherWrites, AccountsAssumption
<1>7. ASSUME NEW o \in Ops, NEW req \in Requests, BeginCreate(o, req) \/ Begin(o, req)
      PROVE  FALSE
  BY <1>1, <1>7 DEF BeginCreate, Begin, Arrive
<1>8. ASSUME NEW o \in Ops, ReadAccount(o) \/ EnsureNotLastAdmin(o) \/ Fail(o)
      PROVE  FALSE
  BY <1>1, <1>8 DEF ReadAccount, EnsureNotLastAdmin, Fail, Refuse
<1>9. ~Crash /\ ~UNCHANGED vars
  BY <1>1 DEF Crash, vars
<1> QED
  BY <1>3, <1>4, <1>5, <1>6, <1>7, <1>8, <1>9 DEF Next, Execute

\* The last admin goes only by a race: the count of ensureNotLastAdmin protects
\* the last admin from every request that no other write overtook.
THEOREM LastAdminOnlyByRace == Spec => LastAdminGoesOnlyByRace
<1>1. Init => Counted
  BY DEF Init, Counted
<1>2. IInv /\ Counted /\ [Next]_vars => Counted'
  BY CountedKeeps
<1>3. IInv /\ Counted /\ [Next]_vars =>
        [ActiveAdmins # {} /\ ActiveAdmins' = {} =>
           \E o \in Ops : at[o] = "write" /\ at'[o] = "idle" /\ overtaken[o]]_vars
  BY LastAdminKeeps
<1> QED
  BY <1>1, <1>2, <1>3, Invariant, PTL DEF Spec, LastAdminGoesOnlyByRace

-----------------------------------------------------------------------------
(* Roles.                                                                    *)

LEMMA RoleKeeps ==
  ASSUME IInv, [Next]_vars, NEW id \in IDs, Active(id), account'[id].Role # account[id].Role
  PROVE  \E o \in Ops : at[o] = "write" /\ in[o].Kind = "update" /\ in[o].ID = id
<1>1. account' # account
  OBVIOUS
<1>2. ASSUME NEW o \in Ops, InsertAccount(o) PROVE FALSE
  <2>1. /\ in[o] \in Requests
        /\ account[in[o].ID].State = "absent"
        /\ account' = [account EXCEPT ![in[o].ID] = Row(in[o].Role, in[o].Email)]
    BY <1>1, <1>2 DEF InsertAccount, Refuse, Store, IInv, Serving
  <2>2. in[o].ID # id
    BY <2>1 DEF Active
  <2> QED
    BY <2>1, <2>2 DEF IInv, TypeOK
<1>3. ASSUME NEW o \in Ops, WriteProfile(o)
      PROVE  at[o] = "write" /\ in[o].Kind = "update" /\ in[o].ID = id
  <2>1. /\ in[o] \in Requests /\ at[o] = "write" /\ in[o].Kind \in {"update", "profile"}
        /\ account' = [account EXCEPT ![in[o].ID] = NewRow(in[o])]
    BY <1>1, <1>3 DEF WriteProfile, Refuse, Store, IInv, Serving
  <2>2. in[o].ID = id
    BY <2>1 DEF IInv, TypeOK
  <2>3. account'[id] = NewRow(in[o])
    BY <2>1, <2>2 DEF IInv, TypeOK
  <2> QED
    BY <2>1, <2>2, <2>3 DEF NewRow, Row
<1>4. ASSUME NEW o \in Ops, WriteDeletion(o) PROVE FALSE
  <2>1. account' = [account EXCEPT ![in[o].ID] = Deleted(in[o].ID)]
    BY <1>1, <1>4 DEF WriteDeletion, Refuse, Store
  <2> QED
    BY <2>1 DEF Deleted, IInv, TypeOK
<1>5. ASSUME Restart PROVE FALSE
  BY <1>5 DEF Restart, Seeded, Active, IInv, TypeOK
<1>6. ASSUME NEW o \in Ops, NEW req \in Requests, BeginCreate(o, req) \/ Begin(o, req)
      PROVE  FALSE
  BY <1>1, <1>6 DEF BeginCreate, Begin, Arrive
<1>7. ASSUME NEW o \in Ops, ReadAccount(o) \/ EnsureNotLastAdmin(o) \/ Fail(o)
      PROVE  FALSE
  BY <1>1, <1>7 DEF ReadAccount, EnsureNotLastAdmin, Fail, Refuse
<1>8. ~Crash /\ ~UNCHANGED vars
  BY <1>1 DEF Crash, vars
<1> QED
  BY <1>2, <1>3, <1>4, <1>5, <1>6, <1>7, <1>8 DEF Next, Execute

\* No concurrent profile update, deletion or restart writes back a role.
THEOREM RolesByUpdate == Spec => RoleOnlyByUpdate
<1>1. IInv /\ [Next]_vars =>
        [\A id \in IDs : Active(id) /\ account'[id].Role # account[id].Role =>
           \E o \in Ops : at[o] = "write" /\ in[o].Kind = "update" /\ in[o].ID = id]_vars
  BY RoleKeeps
<1> QED
  BY <1>1, Invariant, PTL DEF Spec, RoleOnlyByUpdate
=============================================================================
