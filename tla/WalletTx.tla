------------------------------ MODULE WalletTx ------------------------------
(* Concurrent wallet transactions.  Each call of the service's               *)
(* ApplyTransaction runs one READ COMMITTED database transaction, a step per *)
(* SQL statement, on a connection of its own                                 *)
(* (src/internal/dao/postgres/wallet_dao.go, ApplyTransaction).              *)
(*                                                                           *)
(* PostgreSQL is external and modelled as the code uses it: row locks        *)
(* (FOR UPDATE, the KEY SHARE lock a foreign-key check takes), the wait of   *)
(* an INSERT for another transaction's uncommitted row with the same unique  *)
(* ref, the CHECK constraints, the deadlock detector, and rollback of what   *)
(* was not committed.  A lock lasts to the end of the transaction, so who    *)
(* holds which lock is a function of pc and in.                              *)
EXTENDS Points, Sequences, FiniteSets

CONSTANTS
  Accounts,
  Refs,
  Calls,           \* connections, each serving one call at a time
  Requests,        \* the transactions clients and batch workers submit
  NoRequest,
  InitiallyOpen    \* accounts that exist at the start

ASSUME RequestsAssumption ==
  /\ Requests \subseteq [Ref : Refs, AccountID : Accounts, Kind : Kinds \cup {"other"},
                         Direction : Directions \cup {"other"}, WholePoints : Int,
                         ActorAccountID : Accounts]
  /\ NoRequest \notin Requests
  /\ InitiallyOpen \subseteq Accounts

\* The server holds finitely many connections.
ASSUME CallsAssumption == IsFiniteSet(Calls)

VARIABLES
  status,    \* accounts.deleted_at, and whether the row exists at all
  balance,   \* accounts.balance_points, committed
  ledger,    \* ledger_entries, committed, in commit order
  pc,        \* the statement each call is about to execute
  in,        \* the TransactionInput of each call
  current,   \* the balance the call read under its lock
  stored,    \* the balance the call has written and not committed
  reply      \* how the last call on the connection was answered

database == <<status, balance, ledger>>
vars == <<status, balance, ledger, pc, in, current, stored, reply>>

NoWrite == -1

Statuses == {"absent", "active", "deleted"}
Inserted == {"fkey", "update", "commit"}              \* the ledger row is written
Locking == {"exists", "insert"} \cup Inserted         \* the account row is locked
Statements == {"lock"} \cup Locking
Errors == {"validation_error", "not_found", "duplicate_ref", "insufficient_balance",
           "internal_error"}
Replies == {"none", "accepted"} \cup Errors

(***************************************************************************)
(* What a request asks for.                                                 *)
(***************************************************************************)

\* The request checks, made before the database is reached.
Valid(req) ==
  /\ req.Kind \in Kinds
  /\ ResolveTransactionDirection(req.Kind, req.Direction) # "invalid"
  /\ req.WholePoints > 0

Direction(req) == ResolveTransactionDirection(req.Kind, req.Direction)
Delta(req) == PointsFromWhole(req.WholePoints)

NewBalance(req, before) ==
  IF Direction(req) = "debit" THEN Sub(before, Delta(req)) ELSE Add(before, Delta(req))

Insufficient(req, before) == Direction(req) = "debit" /\ Sub(before, Delta(req)) < 0

\* CHECK (points > 0) and CHECK (balance_after_points >= 0).
Checks_PointsOnly(req, before) == Delta(req) > 0
Checks_BalanceOnly(req, before) == NewBalance(req, before) >= 0
Checks(req, before) == Delta(req) > 0 /\ NewBalance(req, before) >= 0

\* The ledger row the INSERT writes.
Row(req, before) ==
  [Ref |-> req.Ref, AccountID |-> req.AccountID, Direction |-> Direction(req),
   Points |-> Delta(req), BalanceAfterPoints |-> NewBalance(req, before),
   ActorAccountID |-> req.ActorAccountID]

Recorded(ref) == \E i \in 1 .. Len(ledger) : ledger[i].Ref = ref

(***************************************************************************)
(* Locks.                                                                   *)
(***************************************************************************)

\* FOR UPDATE on the account, from the SELECT to the end of the transaction.
RowLocked_NoRollback(c, a) ==
  /\ pc[c] \in Locking \/ (pc[c] = "idle" /\ reply[c] \in {"duplicate_ref", "insufficient_balance"})
  /\ in[c].AccountID = a
RowLocked_Briefly(c, a) == pc[c] = "exists" /\ in[c].AccountID = a
RowLocked(c, a) == pc[c] \in Locking /\ in[c].AccountID = a

\* The uncommitted ledger row, which another INSERT of the ref waits for.
RefPending(c, ref) == pc[c] \in Inserted /\ in[c].Ref = ref

\* KEY SHARE on the actor's account, taken by the check of the foreign key.
KeyShared_FirstStatement(c, a) == pc[c] \in Statements /\ in[c].ActorAccountID = a
KeyShared(c, a) == pc[c] \in {"update", "commit"} /\ in[c].ActorAccountID = a

Others(c) == Calls \ {c}

\* d holds what c's next statement waits for.
WaitsFor(c, d) ==
  /\ d # c
  /\ \/ /\ pc[c] = "lock"
        /\ status[in[c].AccountID] = "active"
        /\ RowLocked(d, in[c].AccountID) \/ KeyShared(d, in[c].AccountID)
     \/ /\ pc[c] = "insert"
        /\ Checks(in[c], current[c])
        /\ RefPending(d, in[c].Ref)
     \/ /\ pc[c] = "fkey"
        /\ RowLocked(d, in[c].ActorAccountID)

Blocked_OnlyRows(c) == pc[c] # "insert" /\ \E d \in Calls : WaitsFor(c, d)
Blocked(c) == \E d \in Calls : WaitsFor(c, d)

\* n waits lead from c to d.
WaitPath(c, d, n) ==
  \E walk \in [0 .. n -> Calls] :
    /\ walk[0] = c /\ walk[n] = d
    /\ \A i \in 0 .. n - 1 : WaitsFor(walk[i], walk[i + 1])

\* c waits for itself through a cycle of other calls.
Deadlocked(c) == \E n \in 1 .. Cardinality(Calls) : WaitPath(c, c, n)

-----------------------------------------------------------------------------
Init ==
  /\ status = [a \in Accounts |-> IF a \in InitiallyOpen THEN "active" ELSE "absent"]
  /\ balance = [a \in Accounts |-> 0]
  /\ ledger = <<>>
  /\ pc = [c \in Calls |-> "idle"]
  /\ in = [c \in Calls |-> NoRequest]
  /\ current = [c \in Calls |-> 0]
  /\ stored = [c \in Calls |-> NoWrite]
  /\ reply = [c \in Calls |-> "none"]

\* The call returns r; the deferred Rollback drops its locks and its writes.
Answer(c, r) ==
  /\ pc' = [pc EXCEPT ![c] = "idle"]
  /\ reply' = [reply EXCEPT ![c] = r]
  /\ current' = [current EXCEPT ![c] = 0]
  /\ stored' = [stored EXCEPT ![c] = NoWrite]
  /\ UNCHANGED in

\* A caller submits req; the actor has signed in, so its account row exists.
Begin(c, req) ==
  /\ pc[c] = "idle"
  /\ status[req.ActorAccountID] # "absent"
  /\ in' = [in EXCEPT ![c] = req]
  /\ \/ /\ Valid(req)
        /\ pc' = [pc EXCEPT ![c] = "lock"]
        /\ reply' = [reply EXCEPT ![c] = "none"]
     \/ /\ ~Valid(req)
        /\ pc' = pc
        /\ reply' = [reply EXCEPT ![c] = "validation_error"]
  /\ UNCHANGED <<database, current, stored>>

\* SELECT balance_points ... FOR UPDATE.
LockAccount(c) ==
  /\ pc[c] = "lock"
  /\ \/ /\ status[in[c].AccountID] # "active"
        /\ Answer(c, "not_found")
     \/ /\ status[in[c].AccountID] = "active"
        /\ ~Blocked(c)
        /\ pc' = [pc EXCEPT ![c] = "exists"]
        /\ current' = [current EXCEPT ![c] = balance[in[c].AccountID]]
        /\ UNCHANGED <<in, stored, reply>>
  /\ UNCHANGED database

\* SELECT EXISTS of the ref, which sees committed entries only; then the balance.
CheckRef_PendingToo(c) ==
  /\ pc[c] = "exists"
  /\ IF Recorded(in[c].Ref) \/ \E d \in Others(c) : RefPending(d, in[c].Ref)
     THEN Answer(c, "duplicate_ref")
     ELSE pc' = [pc EXCEPT ![c] = "insert"] /\ UNCHANGED <<in, current, stored, reply>>
  /\ UNCHANGED database
CheckRef(c) ==
  /\ pc[c] = "exists"
  /\ \/ /\ Recorded(in[c].Ref)
        /\ Answer(c, "duplicate_ref")
     \/ /\ ~Recorded(in[c].Ref)
        /\ Insufficient(in[c], current[c])
        /\ Answer(c, "insufficient_balance")
     \/ /\ ~Recorded(in[c].Ref)
        /\ ~Insufficient(in[c], current[c])
        /\ pc' = [pc EXCEPT ![c] = "insert"]
        /\ UNCHANGED <<in, current, stored, reply>>
  /\ UNCHANGED database

\* INSERT INTO ledger_entries: the CHECKs, then the unique index on ref.
InsertRow(c) ==
  /\ pc[c] = "insert"
  /\ \/ /\ ~Checks(in[c], current[c])
        /\ Answer(c, "internal_error")
     \/ /\ Checks(in[c], current[c])
        /\ ~Blocked(c)
        /\ Recorded(in[c].Ref)
        /\ Answer(c, "duplicate_ref")
     \/ /\ Checks(in[c], current[c])
        /\ ~Blocked(c)
        /\ ~Recorded(in[c].Ref)
        /\ pc' = [pc EXCEPT ![c] = "fkey"]
        /\ UNCHANGED <<in, current, stored, reply>>
  /\ UNCHANGED database

\* The INSERT's foreign-key check on the actor, at the end of the statement.
CheckActor(c) ==
  /\ pc[c] = "fkey"
  /\ ~Blocked(c)
  /\ pc' = [pc EXCEPT ![c] = "update"]
  /\ UNCHANGED <<database, in, current, stored, reply>>

\* UPDATE accounts SET balance_points; a row count of 0 is not looked at.
UpdateBalance(c) ==
  /\ pc[c] = "update"
  /\ stored' = [stored EXCEPT ![c] =
       IF status[in[c].AccountID] = "active" THEN NewBalance(in[c], current[c]) ELSE NoWrite]
  /\ pc' = [pc EXCEPT ![c] = "commit"]
  /\ UNCHANGED <<database, in, current, reply>>

\* The transaction's writes become visible.
Publish(c) ==
  /\ ledger' = Append(ledger, Row(in[c], current[c]))
  /\ balance' = IF stored[c] = NoWrite THEN balance
                ELSE [balance EXCEPT ![in[c].AccountID] = stored[c]]
  /\ UNCHANGED status

Commit_IgnoresError(c) ==
  /\ pc[c] = "commit"
  /\ Publish(c) \/ UNCHANGED database
  /\ Answer(c, "accepted")
Commit(c) ==
  /\ pc[c] = "commit"
  /\ Publish(c)
  /\ Answer(c, "accepted")

\* The commit took effect and its acknowledgement was lost.
CommitUnacknowledged(c) ==
  /\ pc[c] = "commit"
  /\ Publish(c)
  /\ Answer(c, "internal_error")

\* A statement fails or the caller's context ends before the commit took effect.
Fail(c) ==
  /\ pc[c] \in Statements
  /\ Answer(c, "internal_error")
  /\ UNCHANGED database

\* PostgreSQL aborts one transaction of a wait cycle.
DeadlockAbort_Never(c) ==
  /\ FALSE
  /\ UNCHANGED vars
DeadlockAbort(c) ==
  /\ pc[c] \in Statements
  /\ Deadlocked(c)
  /\ Answer(c, "internal_error")
  /\ UNCHANGED database

\* The server stops: open transactions roll back and nobody is answered.
Crash ==
  /\ \E c \in Calls : pc[c] # "idle"
  /\ pc' = [c \in Calls |-> "idle"]
  /\ in' = [c \in Calls |-> NoRequest]
  /\ current' = [c \in Calls |-> 0]
  /\ stored' = [c \in Calls |-> NoWrite]
  /\ reply' = [c \in Calls |-> "none"]
  /\ UNCHANGED database

CreateAccount(a) ==
  /\ status[a] = "absent"
  /\ status' = [status EXCEPT ![a] = "active"]
  /\ UNCHANGED <<balance, ledger, pc, in, current, stored, reply>>

\* UPDATE accounts SET deleted_at, which waits for the FOR UPDATE lock.
SoftDelete_NoWait(a) ==
  /\ status[a] = "active"
  /\ status' = [status EXCEPT ![a] = "deleted"]
  /\ UNCHANGED <<balance, ledger, pc, in, current, stored, reply>>
SoftDelete(a) ==
  /\ status[a] = "active"
  /\ \A c \in Calls : ~RowLocked(c, a)
  /\ status' = [status EXCEPT ![a] = "deleted"]
  /\ UNCHANGED <<balance, ledger, pc, in, current, stored, reply>>

Execute(c) ==
  \/ LockAccount(c)
  \/ CheckRef(c)
  \/ InsertRow(c)
  \/ CheckActor(c)
  \/ UpdateBalance(c)
  \/ Commit(c)
  \/ CommitUnacknowledged(c)

Next ==
  \/ \E c \in Calls : (\E req \in Requests : Begin(c, req)) \/ Execute(c)
                        \/ Fail(c) \/ DeadlockAbort(c)
  \/ Crash
  \/ \E a \in Accounts : CreateAccount(a) \/ SoftDelete(a)

Spec == Init /\ [][Next]_vars

\* A statement that can run does run.  PostgreSQL grants a lock and an index
\* entry to waiters in turn, so a statement that is unblocked again and again
\* is executed (SF), and it looks for deadlocks until one victim is aborted.
Fairness ==
  \A c \in Calls :
    /\ SF_vars(LockAccount(c) \/ InsertRow(c) \/ CheckActor(c))
    /\ WF_vars(CheckRef(c) \/ UpdateBalance(c) \/ Commit(c) \/ DeadlockAbort(c))

FairSpec == Spec /\ Fairness

-----------------------------------------------------------------------------
Entry == [Ref : Refs, AccountID : Accounts, Direction : Directions,
          Points : Stored, BalanceAfterPoints : Stored, ActorAccountID : Accounts]

\* Every variable holds a value of its column or Go type.
TypeOK ==
  /\ status \in [Accounts -> Statuses]
  /\ balance \in [Accounts -> Stored]
  /\ ledger \in Seq(Entry)
  /\ pc \in [Calls -> Statements \cup {"idle"}]
  /\ in \in [Calls -> Requests \cup {NoRequest}]
  /\ current \in [Calls -> Stored]
  /\ stored \in [Calls -> Stored \cup {NoWrite}]
  /\ reply \in [Calls -> Replies]

\* The balance an entry must leave, from the one before it, in exact integers.
Moved(e, before) == IF e.Direction = "credit" THEN before + e.Points ELSE before - e.Points

SameAccountBetween(i, j) ==
  \E k \in i + 1 .. j - 1 : ledger[k].AccountID = ledger[j].AccountID

\* The entries of an account form one chain without gaps: each records the
\* balance its predecessor left, moved by exactly its points, and nothing was
\* lost to a concurrent transaction, to int64 wrap-around or to an UPDATE that
\* found no row.
BalanceChain ==
  \A j \in 1 .. Len(ledger) :
    /\ ledger[j].Points > 0
    /\ SameAccountBetween(0, j) \/ ledger[j].BalanceAfterPoints = Moved(ledger[j], 0)
    /\ \A i \in 1 .. j - 1 :
         ledger[i].AccountID = ledger[j].AccountID /\ ~SameAccountBetween(i, j)
           => ledger[j].BalanceAfterPoints = Moved(ledger[j], ledger[i].BalanceAfterPoints)

\* accounts.balance_points is the balance the account's last entry recorded, so
\* the column never drifts from the ledger, whatever fails in between.
BalanceIsLast ==
  \A a \in Accounts :
    \/ /\ \A i \in 1 .. Len(ledger) : ledger[i].AccountID # a
       /\ balance[a] = 0
    \/ \E i \in 1 .. Len(ledger) :
         /\ ledger[i].AccountID = a
         /\ \A k \in i + 1 .. Len(ledger) : ledger[k].AccountID # a
         /\ balance[a] = ledger[i].BalanceAfterPoints

\* A ref is recorded once, however many calls carry it at the same time.
RefUnique ==
  \A i, j \in 1 .. Len(ledger) : ledger[i].Ref = ledger[j].Ref => i = j

\* The balance a call read is still the committed one, and the account still
\* active, at every later statement of its transaction: no lost update.
LockedReadFresh ==
  \A c \in Calls : pc[c] \in Locking =>
    /\ status[in[c].AccountID] = "active"
    /\ current[c] = balance[in[c].AccountID]

\* What an open transaction may rely on at each of its statements: nobody else
\* holds its account or has written its ref, its row passed the CHECKs, and the
\* balance it wrote is the one its row records.
CallOK(c) ==
  /\ pc[c] # "idle" => /\ in[c] \in Requests
                       /\ Valid(in[c])
                       /\ status[in[c].ActorAccountID] # "absent"
  /\ pc[c] \in Locking => /\ status[in[c].AccountID] = "active"
                          /\ current[c] = balance[in[c].AccountID]
  /\ pc[c] \in Inserted => Checks(in[c], current[c]) /\ ~Recorded(in[c].Ref)
  /\ pc[c] = "commit" => stored[c] = NewBalance(in[c], current[c])

Apart(c, d) ==
  /\ pc[c] \in Locking /\ pc[d] \in Locking => in[c].AccountID # in[d].AccountID
  /\ pc[c] \in Inserted /\ pc[d] \in Inserted => in[c].Ref # in[d].Ref

TransactionsApart == \A c \in Calls : CallOK(c) /\ \A d \in Others(c) : Apart(c, d)

Accepted(req) == \E c \in Calls : in[c] = req /\ reply[c] = "accepted"

InLedger(req) ==
  \E i \in 1 .. Len(ledger) :
    /\ ledger[i].Ref = req.Ref
    /\ ledger[i].AccountID = req.AccountID
    /\ ledger[i].ActorAccountID = req.ActorAccountID
    /\ ledger[i].Direction = Direction(req)
    /\ ledger[i].Points = Delta(req)

\* A transaction answered as accepted is in the ledger, with the points and the direction
\* asked for, when it is answered, and no later step takes it out again: neither a crash,
\* which forgets the answer, nor a rollback, a deletion or what the same connection serves
\* next.  (AcceptedForGood in WalletTxProofs draws the conclusion.)
AcceptedIsDurable ==
  [][\A req \in Requests : Accepted(req)' \/ InLedger(req) => InLedger(req)']_vars

\* A caller told duplicate_ref may stop retrying: the ref is committed, never
\* merely pending in a transaction that can still roll back.
DuplicateIsTruthful ==
  \A c \in Calls : reply[c] = "duplicate_ref" => Recorded(in[c].Ref)

\* accounts.balance_points is the sum of what the ledger says was credited, less
\* what was debited: points are neither made nor lost beside the ledger.
RunningSum(entries, a) ==
  LET sum[n \in 0 .. Len(entries)] ==
        IF n = 0 THEN 0
        ELSE IF entries[n].AccountID = a THEN Moved(entries[n], sum[n - 1])
        ELSE sum[n - 1]
  IN sum

BalanceIsSum == \A a \in Accounts : balance[a] = RunningSum(ledger, a)[Len(ledger)]

\* Calls deadlock only across a foreign key: whoever waits for himself has his account
\* locked already, and one of the calls in his way is checking an actor who is not the
\* owner of its account.  Calls of members on themselves never deadlock, whatever
\* their refs.
DeadlockThroughActor ==
  \A c \in Calls : Deadlocked(c) =>
    /\ pc[c] \in {"insert", "fkey"}
    /\ \E d \in Calls, n \in 0 .. 1 :
         /\ WaitPath(c, d, n) /\ Blocked(d)
         /\ pc[d] = "fkey" /\ in[d].ActorAccountID # in[d].AccountID

\* No lock outlives its transaction: from every call in progress the waits lead to one
\* in progress whose statement can run, or to a cycle of which PostgreSQL aborts one.
WaitsLeadToProgress ==
  \A c \in Calls : pc[c] # "idle" =>
    \E d \in Calls, n \in 0 .. Cardinality(Calls) :
      WaitPath(c, d, n) /\ pc[d] # "idle" /\ (~Blocked(d) \/ Deadlocked(d))

\* The ledger only grows, and a closed account's balance and entries stay.
AppendOnly ==
  [][/\ Len(ledger') >= Len(ledger)
     /\ \A i \in 1 .. Len(ledger) : ledger'[i] = ledger[i]
     /\ \A a \in Accounts : status[a] # "active" => balance'[a] = balance[a]]_vars

\* The calls implement the atomic ledger: a commit is one Post and every other
\* step leaves the ledger alone.
PL == INSTANCE PointsLedger WITH
        Amounts <- {Delta(req) : req \in Requests},
        MaxBalance <- HalfRange - 1

Implements == PL!Spec

\* Every call that reaches the database is answered or dies with the server:
\* lock waits and deadlocks always end.
EveryCallEnds == \A c \in Calls : pc[c] # "idle" ~> pc[c] = "idle"

(***************************************************************************)
(* Claims of the documents that the code does not meet.                     *)
(***************************************************************************)

\* SOLUTION.md: different accounts proceed concurrently.  A call waits only for
\* a call on its own account or with its own ref.
DifferentAccountsNeverWait ==
  \A c, d \in Calls : WaitsFor(c, d) =>
    \/ in[c].AccountID = in[d].AccountID
    \/ in[c].Ref = in[d].Ref

\* README.md: whole points are stored times 100.  What was accepted is what
\* was asked for.
AcceptedInFull ==
  \A c \in Calls : reply[c] = "accepted" => WholePoints(Delta(in[c])) = in[c].WholePoints
=============================================================================
