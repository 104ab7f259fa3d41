--------------------------- MODULE WalletTxProofs ---------------------------
(* Proofs about WalletTx, for every set of accounts, refs, calls and         *)
(* requests, every point scale and every integer width.                      *)
EXTENDS WalletTx, FiniteSetTheorems, WellFoundedInduction, TLAPS

-----------------------------------------------------------------------------
(* Induction, by sets: a set of naturals that holds 0 and with each number   *)
(* the next holds them all.                                                  *)

LEMMA Least ==
  ASSUME NEW S \in SUBSET Nat, S # {}
  PROVE  \E n \in S : \A m \in S : n <= m
<1> DEFINE Less == {ss \in Nat \X Nat : ss[1] < ss[2]}
<1>1. IsWellFoundedOn(Less, Nat)
  BY NatLessThanWellFounded DEF OpToRel
<1>2. \A m, n \in Nat : m < n => <<m, n>> \in Less
  OBVIOUS
<1> HIDE DEF Less
<1>3. PICK n \in S : \A m \in S : <<m, n>> \notin Less
  BY <1>1, WFMin
<1>4. \A m \in S : ~(m < n)
  BY <1>2, <1>3
<1> QED
  BY <1>4

LEMMA NatInduct ==
  ASSUME NEW S \in SUBSET Nat, 0 \in S, \A n \in S : n + 1 \in S
  PROVE  S = Nat
<1> SUFFICES ASSUME Nat \ S # {} PROVE FALSE
  OBVIOUS
<1>1. PICK n \in Nat \ S : \A m \in Nat \ S : n <= m
  BY Least
<1>2. n - 1 \in Nat /\ n - 1 \notin Nat \ S
  BY <1>1
<1> QED
  BY <1>1, <1>2

-----------------------------------------------------------------------------
(* Amounts.                                                                  *)

\* Conversion to an int64 stays in range, whatever is multiplied.
LEMMA WrapInRange == ASSUME NEW n \in Int PROVE Wrap(n) \in Int64
BY PointsAssumption, SMT DEF Wrap, Int64

LEMMA DeltaInRange == ASSUME NEW req \in Requests PROVE Delta(req) \in Int64
<1>1. req.WholePoints * PointsScale \in Int
  BY RequestsAssumption, PointsAssumption
<1> QED
  BY <1>1, WrapInRange DEF Delta, PointsFromWhole

\* A row that passes the CHECK constraints moved the balance by exact integers:
\* no wrap-around is left in it.
LEMMA CheckedIsExact ==
  ASSUME NEW req \in Requests, Valid(req), NEW before \in Stored, Checks(req, before)
  PROVE  /\ Direction(req) \in Directions
         /\ Delta(req) \in Stored /\ Delta(req) > 0
         /\ NewBalance(req, before) \in Stored
         /\ NewBalance(req, before) = PL!Moved(Direction(req), Delta(req), before)
<1>1. Direction(req) \in Directions
  BY DEF Valid, Direction, ResolveTransactionDirection, Directions, Kinds
<1>2. Delta(req) \in Int64 /\ before \in Int64 /\ before >= 0
  BY DeltaInRange, PointsAssumption DEF Int64, Stored
<1>3. Delta(req) > 0 /\ NewBalance(req, before) >= 0
  BY DEF Checks
<1> DEFINE d == Delta(req)
<1>4. CASE Direction(req) = "debit"
  <2>1. NewBalance(req, before) = WrapOnce(before - d)
    BY <1>4 DEF NewBalance, Sub
  <2> HIDE DEF d
  <2>2. d \in Int64 /\ d > 0
    BY <1>2, <1>3 DEF d
  <2>3. WrapOnce(before - d) = before - d /\ before - d \in Stored
    BY <1>2, <1>3, <2>1, <2>2, PointsAssumption DEF WrapOnce, Int64, Stored
  <2> QED
    BY <1>1, <1>4, <2>1, <2>2, <2>3, PointsAssumption DEF PL!Moved, d, Int64, Stored
<1>5. CASE Direction(req) # "debit"
  <2>1. NewBalance(req, before) = WrapOnce(before + d) /\ Direction(req) = "credit"
    BY <1>1, <1>5 DEF NewBalance, Add, Directions
  <2> HIDE DEF d
  <2>2. d \in Int64 /\ d > 0
    BY <1>2, <1>3 DEF d
  <2>3. WrapOnce(before + d) = before + d /\ before + d \in Stored
    BY <1>2, <1>3, <2>1, <2>2, PointsAssumption DEF WrapOnce, Int64, Stored
  <2> QED
    BY <1>1, <2>1, <2>2, <2>3, PointsAssumption DEF PL!Moved, d, Int64, Stored
<1> QED
  BY <1>4, <1>5

\* What AcceptedInFull asks for holds wherever the product fits: only an amount of at
\* least HalfRange / PointsScale whole points is converted to another.
THEOREM ExactWhereItFits ==
  ASSUME NEW whole \in Nat, whole * PointsScale < HalfRange
  PROVE  /\ PointsFromWhole(whole) = whole * PointsScale
         /\ WholePoints(PointsFromWhole(whole)) = whole
<1> DEFINE p == whole * PointsScale
<1>1. p \in Nat /\ p < HalfRange
  BY PointsAssumption
<1>2. p \div PointsScale = whole
  BY PointsAssumption, Z3
<1> HIDE DEF p
<1>3. Wrap(p) = p
  BY <1>1, PointsAssumption DEF Wrap
<1> QED
  BY <1>1, <1>2, <1>3 DEF PointsFromWhole, WholePoints, p

-----------------------------------------------------------------------------
(* The inductive invariant.  TypeOK is not inductive alone: that a row fits  *)
(* its columns at the commit needs the CHECKs passed at the INSERT and the   *)
(* balance unchanged in between, which TransactionsApart records.            *)

IInv == TypeOK /\ TransactionsApart

LEMMA InitIInv == Init => IInv
<1> SUFFICES ASSUME Init PROVE IInv
  OBVIOUS
<1>1. TypeOK
  BY PointsAssumption DEF Init, TypeOK, Statuses, Stored, Replies
<1>2. TransactionsApart
  BY DEF Init, TransactionsApart, CallOK, Apart, Others, Locking, Inserted
<1> QED
  BY <1>1, <1>2 DEF IInv

\* A call keeps what it relies on while it and the database do not move.
LEMMA CallFramed ==
  ASSUME NEW d \in Calls, CallOK(d), UNCHANGED database,
         pc'[d] = pc[d], in'[d] = in[d], current'[d] = current[d], stored'[d] = stored[d]
  PROVE  CallOK(d)'
BY DEF CallOK, database, Recorded

\* A call that is idle relies on nothing and is in nobody's way.
LEMMA IdleOK ==
  ASSUME NEW c \in Calls, pc'[c] = "idle"
  PROVE  /\ CallOK(c)'
         /\ \A d \in Calls : Apart(c, d)' /\ Apart(d, c)'
BY DEF CallOK, Apart, Locking, Inserted

\* A step of c that leaves the database and the other calls alone is judged by
\* what it does to c.
LEMMA StepKeeps ==
  ASSUME IInv, NEW c \in Calls, UNCHANGED database,
         \A d \in Others(c) : /\ pc'[d] = pc[d] /\ in'[d] = in[d]
                              /\ current'[d] = current[d] /\ stored'[d] = stored[d],
         TypeOK', CallOK(c)',
         \A d \in Others(c) : Apart(c, d)' /\ Apart(d, c)'
  PROVE  IInv'
<1>1. ASSUME NEW d \in Calls PROVE CallOK(d)'
  <2>1. CASE d = c
    BY <2>1
  <2>2. CASE d # c
    BY <2>2, CallFramed DEF IInv, TransactionsApart, Others
  <2> QED
    BY <2>1, <2>2
<1>2. ASSUME NEW d \in Calls, NEW e \in Others(d) PROVE Apart(d, e)'
  <2>1. CASE d = c \/ e = c
    BY <2>1 DEF Others
  <2>2. CASE d # c /\ e # c
    BY <2>2 DEF IInv, TransactionsApart, Apart, Others
  <2> QED
    BY <2>1, <2>2
<1> QED
  BY <1>1, <1>2 DEF IInv, TransactionsApart, Others

\* Answering a call, without a change of the database, keeps the invariant.
LEMMA AnswerKeeps ==
  ASSUME IInv, NEW c \in Calls, NEW r \in Replies, Answer(c, r), UNCHANGED database
  PROVE  IInv'
<1>1. TypeOK'
  BY PointsAssumption DEF IInv, TypeOK, Answer, database, Stored
<1>2. pc'[c] = "idle"
  BY DEF IInv, TypeOK, Answer
<1>3. ASSUME NEW d \in Others(c)
      PROVE  pc'[d] = pc[d] /\ in'[d] = in[d] /\ current'[d] = current[d] /\ stored'[d] = stored[d]
  BY DEF IInv, TypeOK, Answer, Others
<1> QED
  BY <1>1, <1>2, <1>3, IdleOK, StepKeeps DEF Others

LEMMA BeginKeeps ==
  ASSUME IInv, NEW c \in Calls, NEW req \in Requests, Begin(c, req)
  PROVE  IInv'
<1>1. TypeOK'
  BY DEF IInv, TypeOK, Begin, database, Statements, Replies, Errors
<1>2. \A d \in Others(c) : /\ pc'[d] = pc[d] /\ in'[d] = in[d]
                           /\ current'[d] = current[d] /\ stored'[d] = stored[d]
  BY DEF IInv, TypeOK, Begin, Others
<1>3. in'[c] = req /\ pc'[c] \in {"idle", "lock"} /\ (pc'[c] = "lock" => Valid(req))
  BY DEF IInv, TypeOK, Begin
<1>4. status'[req.ActorAccountID] # "absent"
  BY DEF Begin, database
<1>5. CallOK(c)' /\ \A d \in Others(c) : Apart(c, d)' /\ Apart(d, c)'
  BY <1>3, <1>4 DEF CallOK, Apart, Locking, Inserted
<1> QED
  BY <1>1, <1>2, <1>5, StepKeeps DEF Begin

LEMMA LockAccountKeeps ==
  ASSUME IInv, NEW c \in Calls, LockAccount(c)
  PROVE  IInv'
<1>1. CASE Answer(c, "not_found")
  BY <1>1, AnswerKeeps DEF LockAccount, Replies, Errors
<1>2. CASE ~Answer(c, "not_found")
  <2>1. /\ pc[c] = "lock" /\ status[in[c].AccountID] = "active" /\ ~Blocked(c)
        /\ pc' = [pc EXCEPT ![c] = "exists"]
        /\ current' = [current EXCEPT ![c] = balance[in[c].AccountID]]
        /\ UNCHANGED <<database, in, stored, reply>>
    BY <1>2 DEF LockAccount
  <2>2. in[c] \in Requests /\ in[c].AccountID \in Accounts
    BY <2>1, RequestsAssumption DEF IInv, TransactionsApart, CallOK
  <2>3. TypeOK'
    BY <2>1, <2>2 DEF IInv, TypeOK, database, Statements, Locking
  <2>4. \A d \in Others(c) : pc'[d] = pc[d] /\ current'[d] = current[d]
    BY <2>1 DEF IInv, TypeOK, Others
  <2>5. pc'[c] = "exists" /\ current'[c] = balance[in[c].AccountID]
    BY <2>1 DEF IInv, TypeOK
  <2>6. CallOK(c)'
    BY <2>1, <2>5 DEF IInv, TransactionsApart, CallOK, Inserted, database
  <2>7. ASSUME NEW d \in Others(c) PROVE Apart(c, d)' /\ Apart(d, c)'
    <3>1. ~RowLocked(d, in[c].AccountID)
      BY <2>1 DEF Blocked, WaitsFor, Others
    <3> QED
      BY <2>1, <2>4, <2>5, <3>1 DEF Apart, RowLocked, Inserted
  <2> QED
    BY <2>1, <2>3, <2>4, <2>6, <2>7, StepKeeps
<1> QED
  BY <1>1, <1>2

LEMMA CheckRefKeeps ==
  ASSUME IInv, NEW c \in Calls, CheckRef(c)
  PROVE  IInv'
<1>1. CASE Answer(c, "duplicate_ref") \/ Answer(c, "insufficient_balance")
  BY <1>1, AnswerKeeps DEF CheckRef, Replies, Errors
<1>2. CASE /\ pc[c] = "exists" /\ pc' = [pc EXCEPT ![c] = "insert"]
           /\ UNCHANGED <<database, in, current, stored, reply>>
  <2>1. TypeOK'
    BY <1>2 DEF IInv, TypeOK, database, Statements, Locking
  <2>2. pc'[c] = "insert" /\ \A d \in Others(c) : pc'[d] = pc[d]
    BY <1>2 DEF IInv, TypeOK, Others
  <2>3. CallOK(c)'
    BY <1>2, <2>2 DEF IInv, TransactionsApart, CallOK, Locking, Inserted, database
  <2>4. \A d \in Others(c) : Apart(c, d)' /\ Apart(d, c)'
    BY <1>2, <2>2 DEF IInv, TransactionsApart, Apart, Others, Locking, Inserted
  <2> QED
    BY <1>2, <2>1, <2>2, <2>3, <2>4, StepKeeps
<1> QED
  BY <1>1, <1>2 DEF CheckRef

LEMMA InsertRowKeeps ==
  ASSUME IInv, NEW c \in Calls, InsertRow(c)
  PROVE  IInv'
<1>1. CASE Answer(c, "internal_error") \/ Answer(c, "duplicate_ref")
  BY <1>1, AnswerKeeps DEF InsertRow, Replies, Errors
<1>2. CASE /\ pc[c] = "insert" /\ Checks(in[c], current[c]) /\ ~Blocked(c) /\ ~Recorded(in[c].Ref)
           /\ pc' = [pc EXCEPT ![c] = "fkey"]
           /\ UNCHANGED <<database, in, current, stored, reply>>
  <2>1. TypeOK'
    BY <1>2 DEF IInv, TypeOK, database, Statements, Locking, Inserted
  <2>2. pc'[c] = "fkey" /\ \A d \in Others(c) : pc'[d] = pc[d]
    BY <1>2 DEF IInv, TypeOK, Others
  <2>3. CallOK(c)'
    BY <1>2, <2>2 DEF IInv, TransactionsApart, CallOK, Locking, Inserted, database, Recorded
  <2>4. ASSUME NEW d \in Others(c) PROVE Apart(c, d)' /\ Apart(d, c)'
    <3>1. ~RefPending(d, in[c].Ref)
      BY <1>2 DEF Blocked, WaitsFor, Others
    <3> QED
      BY <1>2, <2>2, <3>1 DEF IInv, TransactionsApart, Apart, RefPending, Others, Locking, Inserted
  <2> QED
    BY <1>2, <2>1, <2>2, <2>3, <2>4, StepKeeps
<1> QED
  BY <1>1, <1>2 DEF InsertRow

LEMMA CheckActorKeeps ==
  ASSUME IInv, NEW c \in Calls, CheckActor(c)
  PROVE  IInv'
<1>1. TypeOK'
  BY DEF IInv, TypeOK, CheckActor, database, Statements, Locking, Inserted
<1>2. pc[c] = "fkey" /\ pc'[c] = "update" /\ \A d \in Others(c) : pc'[d] = pc[d]
  BY DEF IInv, TypeOK, CheckActor, Others
<1>3. CallOK(c)'
  BY <1>2 DEF CheckActor, IInv, TransactionsApart, CallOK, Locking, Inserted, database, Recorded
<1>4. \A d \in Others(c) : Apart(c, d)' /\ Apart(d, c)'
  BY <1>2 DEF CheckActor, IInv, TransactionsApart, Apart, Others, Locking, Inserted
<1> QED
  BY <1>1, <1>2, <1>3, <1>4, StepKeeps DEF CheckActor

LEMMA UpdateBalanceKeeps ==
  ASSUME IInv, NEW c \in Calls, UpdateBalance(c)
  PROVE  IInv'
<1>1. pc[c] = "update" /\ pc'[c] = "commit"
  BY DEF IInv, TypeOK, UpdateBalance
<1>2. /\ in[c] \in Requests /\ Valid(in[c]) /\ Checks(in[c], current[c])
      /\ status[in[c].AccountID] = "active" /\ current[c] \in Stored
  BY <1>1 DEF IInv, TypeOK, TransactionsApart, CallOK, Locking, Inserted
<1>3. NewBalance(in[c], current[c]) \in Stored
  BY <1>2, CheckedIsExact
<1>4. stored' = [stored EXCEPT ![c] = NewBalance(in[c], current[c])]
  BY <1>2 DEF UpdateBalance
<1>5. TypeOK'
  BY <1>3, <1>4 DEF UpdateBalance, IInv, TypeOK, database, Statements, Locking, Inserted
<1>6. \A d \in Others(c) : pc'[d] = pc[d] /\ stored'[d] = stored[d]
  BY <1>4 DEF IInv, TypeOK, UpdateBalance, Others
<1>7. stored'[c] = NewBalance(in[c], current[c])
  BY <1>4 DEF IInv, TypeOK
<1>8. CallOK(c)'
  BY <1>1, <1>7 DEF UpdateBalance, IInv, TransactionsApart, CallOK, Locking, Inserted, database, Recorded
<1>9. \A d \in Others(c) : Apart(c, d)' /\ Apart(d, c)'
  BY <1>1, <1>6 DEF UpdateBalance, IInv, TransactionsApart, Apart, Others, Locking, Inserted
<1> QED
  BY <1>5, <1>6, <1>8, <1>9, StepKeeps DEF UpdateBalance

\* What a commit publishes: a fresh ref, on an active account, and the balance
\* of its own row, which is the committed balance moved by exact integers.
LEMMA PublishFacts ==
  ASSUME IInv, NEW c \in Calls, pc[c] = "commit", Publish(c)
  PROVE  LET e == Row(in[c], current[c]) IN
         /\ e \in Entry
         /\ e.Points > 0
         /\ ~Recorded(e.Ref)
         /\ status[e.AccountID] = "active"
         /\ status[e.ActorAccountID] # "absent"
         /\ e.BalanceAfterPoints = PL!Moved(e.Direction, e.Points, balance[e.AccountID])
         /\ ledger' = Append(ledger, e)
         /\ balance' = [balance EXCEPT ![e.AccountID] = e.BalanceAfterPoints]
         /\ status' = status
<1>1. /\ in[c] \in Requests /\ Valid(in[c]) /\ Checks(in[c], current[c])
      /\ ~Recorded(in[c].Ref) /\ current[c] \in Stored
      /\ status[in[c].AccountID] = "active" /\ current[c] = balance[in[c].AccountID]
      /\ status[in[c].ActorAccountID] # "absent"
      /\ stored[c] = NewBalance(in[c], current[c])
  BY DEF IInv, TypeOK, TransactionsApart, CallOK, Locking, Inserted
<1>2. /\ Direction(in[c]) \in Directions
      /\ Delta(in[c]) \in Stored /\ Delta(in[c]) > 0
      /\ NewBalance(in[c], current[c]) \in Stored
      /\ NewBalance(in[c], current[c]) = PL!Moved(Direction(in[c]), Delta(in[c]), current[c])
  BY <1>1, CheckedIsExact
<1>3. /\ in[c].Ref \in Refs /\ in[c].AccountID \in Accounts /\ in[c].ActorAccountID \in Accounts
  BY <1>1, RequestsAssumption
<1>4. Row(in[c], current[c]) \in Entry
  BY <1>2, <1>3 DEF Row, Entry
<1>5. stored[c] # NoWrite
  BY <1>1, <1>2, PointsAssumption DEF Stored, NoWrite
<1> QED
  BY <1>1, <1>2, <1>4, <1>5 DEF Row, Publish

\* A commit keeps the invariant; the caller may be told either way.
LEMMA PublishKeeps ==
  ASSUME IInv, NEW c \in Calls, pc[c] = "commit", Publish(c),
         NEW r \in Replies, Answer(c, r)
  PROVE  IInv'
<1> DEFINE e == Row(in[c], current[c])
<1>1. /\ e \in Entry /\ ledger' = Append(ledger, e) /\ status' = status
      /\ balance' = [balance EXCEPT ![e.AccountID] = e.BalanceAfterPoints]
  BY PublishFacts
<1>2. e.Ref = in[c].Ref /\ e.AccountID = in[c].AccountID
  BY DEF Row
<1> HIDE DEF e
<1>3. e.AccountID \in Accounts /\ e.BalanceAfterPoints \in Stored
  BY <1>1 DEF Entry
<1>4. TypeOK'
  BY <1>1, <1>3, PointsAssumption DEF IInv, TypeOK, Answer, Stored
<1>5. pc'[c] = "idle"
  BY DEF IInv, TypeOK, Answer
<1>6. ASSUME NEW d \in Others(c)
      PROVE  /\ pc'[d] = pc[d] /\ in'[d] = in[d] /\ current'[d] = current[d] /\ stored'[d] = stored[d]
             /\ CallOK(d) /\ Apart(c, d)
  BY DEF IInv, TypeOK, TransactionsApart, Answer, Others
<1>7. ASSUME NEW d \in Others(c) PROVE CallOK(d)'
  <2>1. pc[d] \in Locking => in[d].AccountID # e.AccountID /\ in[d].AccountID \in Accounts
    BY <1>2, <1>6, RequestsAssumption DEF Apart, CallOK, Locking, Inserted
  <2>2. pc[d] \in Locking => balance'[in[d].AccountID] = balance[in[d].AccountID]
    BY <1>1, <2>1 DEF IInv, TypeOK
  <2>3. pc[d] \in Inserted => in[d].Ref # e.Ref
    BY <1>2, <1>6 DEF Apart, Locking, Inserted
  <2>4. pc[d] \in Inserted => ~Recorded(in[d].Ref)'
    <3>1. \A i \in 1 .. Len(ledger') : ledger'[i] = e \/ (i \in 1 .. Len(ledger) /\ ledger'[i] = ledger[i])
      BY <1>1 DEF IInv, TypeOK
    <3>2. pc[d] \in Inserted => \A i \in 1 .. Len(ledger) : ledger[i].Ref # in[d].Ref
      BY <1>6 DEF CallOK, Recorded
    <3> QED
      BY <1>6, <2>3, <3>1, <3>2 DEF Recorded
  <2> QED
    BY <1>1, <1>6, <2>2, <2>4 DEF CallOK
<1>8. ASSUME NEW d \in Calls PROVE CallOK(d)'
  BY <1>5, <1>7, <1>8, IdleOK DEF Others
<1>9. ASSUME NEW d \in Calls, NEW f \in Others(d) PROVE Apart(d, f)'
  <2>1. CASE d = c \/ f = c
    BY <1>5, <2>1, IdleOK DEF Others
  <2>2. CASE d # c /\ f # c
    BY <1>6, <2>2 DEF IInv, TransactionsApart, Apart, Others
  <2> QED
    BY <2>1, <2>2
<1> QED
  BY <1>4, <1>8, <1>9 DEF IInv, TransactionsApart, Others

LEMMA CrashKeeps == IInv /\ Crash => IInv'
<1> SUFFICES ASSUME IInv, Crash PROVE IInv'
  OBVIOUS
<1>1. TypeOK'
  BY PointsAssumption DEF IInv, TypeOK, Crash, database, Stored, Replies
<1>2. \A c \in Calls : pc'[c] = "idle"
  BY DEF Crash
<1> QED
  BY <1>1, <1>2, IdleOK DEF IInv, TransactionsApart, Others

LEMMA CreateAccountKeeps ==
  ASSUME IInv, NEW a \in Accounts, CreateAccount(a)
  PROVE  IInv'
<1>1. TypeOK'
  BY DEF IInv, TypeOK, CreateAccount, Statuses
<1>2. \A b \in Accounts : status'[b] = status[b] \/ (b = a /\ status'[b] = "active")
  BY DEF IInv, TypeOK, CreateAccount
<1>3. ASSUME NEW c \in Calls PROVE CallOK(c)'
  <2>1. CallOK(c) /\ (pc[c] # "idle" => in[c].AccountID \in Accounts /\ in[c].ActorAccountID \in Accounts)
    BY RequestsAssumption DEF IInv, TransactionsApart, CallOK
  <2> QED
    BY <1>2, <2>1 DEF CallOK, CreateAccount, Recorded, Locking, Inserted
<1>4. ASSUME NEW c \in Calls, NEW d \in Others(c) PROVE Apart(c, d)'
  BY DEF IInv, TransactionsApart, Apart, CreateAccount
<1> QED
  BY <1>1, <1>3, <1>4 DEF IInv, TransactionsApart, Others

LEMMA SoftDeleteKeeps ==
  ASSUME IInv, NEW a \in Accounts, SoftDelete(a)
  PROVE  IInv'
<1>1. TypeOK'
  BY DEF IInv, TypeOK, SoftDelete, Statuses
<1>2. \A b \in Accounts : status'[b] = status[b] \/ (b = a /\ status'[b] = "deleted")
  BY DEF IInv, TypeOK, SoftDelete
<1>3. ASSUME NEW c \in Calls PROVE CallOK(c)'
  <2>1. CallOK(c) /\ (pc[c] # "idle" => in[c].AccountID \in Accounts /\ in[c].ActorAccountID \in Accounts)
    BY RequestsAssumption DEF IInv, TransactionsApart, CallOK
  <2>2. pc[c] \in Locking => in[c].AccountID # a
    BY DEF SoftDelete, RowLocked
  <2> QED
    BY <1>2, <2>1, <2>2 DEF CallOK, SoftDelete, Recorded, Locking, Inserted
<1>4. ASSUME NEW c \in Calls, NEW d \in Others(c) PROVE Apart(c, d)'
  BY DEF IInv, TransactionsApart, Apart, SoftDelete
<1> QED
  BY <1>1, <1>3, <1>4 DEF IInv, TransactionsApart, Others

LEMMA NextKeeps == IInv /\ [Next]_vars => IInv'
<1> SUFFICES ASSUME IInv, [Next]_vars PROVE IInv'
  OBVIOUS
<1>1. ASSUME NEW c \in Calls, Execute(c) PROVE IInv'
  BY <1>1, LockAccountKeeps, CheckRefKeeps, InsertRowKeeps, CheckActorKeeps,
     UpdateBalanceKeeps, PublishKeeps DEF Execute, Commit, CommitUnacknowledged, Replies, Errors
<1>2. ASSUME NEW c \in Calls, NEW req \in Requests, Begin(c, req) PROVE IInv'
  BY <1>2, BeginKeeps
<1>3. ASSUME NEW c \in Calls, Fail(c) \/ DeadlockAbort(c) PROVE IInv'
  BY <1>3, AnswerKeeps DEF Fail, DeadlockAbort, Replies, Errors
<1>4. CASE UNCHANGED vars
  BY <1>4 DEF vars, IInv, TypeOK, TransactionsApart, CallOK, Apart, Others, Recorded
<1> QED
  BY <1>1, <1>2, <1>3, <1>4, CrashKeeps, CreateAccountKeeps, SoftDeleteKeeps DEF Next

THEOREM Invariant == Spec => []IInv
BY InitIInv, NextKeeps, PTL DEF Spec

\* Every variable always holds a value of its column or Go type.
THEOREM TypeCorrect == Spec => []TypeOK
BY Invariant, PTL DEF IInv

\* Open transactions never meet on an account or on an uncommitted ref.
THEOREM Isolation == Spec => []TransactionsApart
BY Invariant, PTL DEF IInv

\* No lost update: a call's balance is fresh to the end of its transaction.
THEOREM NoLostUpdate == Spec => []LockedReadFresh
<1>1. IInv => LockedReadFresh
  BY DEF IInv, TransactionsApart, CallOK, LockedReadFresh
<1> QED
  BY <1>1, Invariant, PTL

-----------------------------------------------------------------------------
(* The ledger: it changes only by a commit, which appends one posted entry.  *)

Posted(e) ==
  /\ e \in Entry
  /\ e.Points > 0
  /\ ~Recorded(e.Ref)
  /\ status[e.AccountID] = "active"
  /\ status[e.ActorAccountID] # "absent"
  /\ e.BalanceAfterPoints = PL!Moved(e.Direction, e.Points, balance[e.AccountID])
  /\ ledger' = Append(ledger, e)
  /\ balance' = [balance EXCEPT ![e.AccountID] = e.BalanceAfterPoints]
  /\ UNCHANGED status

Committed(c) == Commit(c) \/ CommitUnacknowledged(c)

LEMMA CommitPosts ==
  ASSUME IInv, NEW c \in Calls, Committed(c)
  PROVE  Posted(Row(in[c], current[c]))
BY PublishFacts DEF Committed, Commit, CommitUnacknowledged, Posted

LEMMA LedgerSteps ==
  ASSUME IInv, [Next]_vars
  PROVE  UNCHANGED <<balance, ledger>> \/ \E e \in Entry : Posted(e)
<1>1. ASSUME NEW c \in Calls, Committed(c) PROVE \E e \in Entry : Posted(e)
  BY <1>1, CommitPosts DEF Posted
<1> QED
  BY <1>1 DEF Next, Execute, Committed, vars, database, Begin, LockAccount, CheckRef, InsertRow,
     CheckActor, UpdateBalance, Fail, DeadlockAbort, Crash, CreateAccount, SoftDelete

\* Where the entries of the longer ledger come from.
LEMMA PostedEntries ==
  ASSUME TypeOK, NEW e \in Entry, Posted(e)
  PROVE  /\ Len(ledger) \in Nat
         /\ Len(ledger') = Len(ledger) + 1
         /\ ledger'[Len(ledger')] = e
         /\ \A i \in 1 .. Len(ledger) : ledger'[i] = ledger[i]
         /\ ledger' \in Seq(Entry)
BY DEF TypeOK, Posted

LEMMA RefUniqueKeeps == IInv /\ RefUnique /\ [Next]_vars => RefUnique'
<1> SUFFICES ASSUME IInv, RefUnique, [Next]_vars PROVE RefUnique'
  OBVIOUS
<1>1. CASE UNCHANGED <<balance, ledger>>
  BY <1>1 DEF RefUnique
<1>2. ASSUME NEW e \in Entry, Posted(e) PROVE RefUnique'
  <2>1. \A i \in 1 .. Len(ledger) : ledger[i].Ref # e.Ref
    BY <1>2 DEF Posted, Recorded
  <2> QED
    BY <1>2, <2>1, PostedEntries DEF RefUnique, IInv
<1> QED
  BY <1>1, <1>2, LedgerSteps

\* A ref is recorded at most once.
THEOREM RefsUnique == Spec => []RefUnique
<1>1. Init => RefUnique
  BY DEF Init, RefUnique
<1> QED
  BY <1>1, Invariant, RefUniqueKeeps, PTL DEF Spec

LEMMA AppendKeeps == IInv /\ [Next]_vars =>
  /\ Len(ledger') >= Len(ledger)
  /\ \A i \in 1 .. Len(ledger) : ledger'[i] = ledger[i]
  /\ \A a \in Accounts : status[a] # "active" => balance'[a] = balance[a]
<1> SUFFICES ASSUME IInv, [Next]_vars
             PROVE  /\ Len(ledger') >= Len(ledger)
                    /\ \A i \in 1 .. Len(ledger) : ledger'[i] = ledger[i]
                    /\ \A a \in Accounts : status[a] # "active" => balance'[a] = balance[a]
  OBVIOUS
<1>1. CASE UNCHANGED <<balance, ledger>>
  BY <1>1 DEF IInv, TypeOK
<1>2. ASSUME NEW e \in Entry, Posted(e), NEW a \in Accounts, status[a] # "active"
      PROVE  balance'[a] = balance[a]
  BY <1>2 DEF Posted, IInv, TypeOK
<1> QED
  BY <1>1, <1>2, LedgerSteps, PostedEntries DEF IInv

\* The ledger only grows and nothing moves the balance of an inactive account.
THEOREM LedgerAppendOnly == Spec => AppendOnly
BY Invariant, AppendKeeps, PTL DEF Spec, AppendOnly

-----------------------------------------------------------------------------
(* Answers.                                                                  *)

\* How a step may answer c: only a commit accepts, and only a committed ref is
\* called a duplicate.
LEMMA Answers ==
  ASSUME IInv, [Next]_vars, NEW c \in Calls
  PROVE  \/ reply'[c] = reply[c] /\ in'[c] = in[c]
         \/ reply'[c] \notin {"accepted", "duplicate_ref"}
         \/ reply'[c] = "accepted" /\ in'[c] = in[c] /\ Posted(Row(in[c], current[c]))
         \/ reply'[c] = "duplicate_ref" /\ in'[c] = in[c] /\ Recorded(in[c].Ref)
<1> DEFINE Goal == \/ reply'[c] = reply[c] /\ in'[c] = in[c]
                   \/ reply'[c] \notin {"accepted", "duplicate_ref"}
                   \/ reply'[c] = "accepted" /\ in'[c] = in[c] /\ Posted(Row(in[c], current[c]))
                   \/ reply'[c] = "duplicate_ref" /\ in'[c] = in[c] /\ Recorded(in[c].Ref)
<1>1. ASSUME NEW d \in Calls, NEW r \in Replies, Answer(d, r)
      PROVE  (d # c => reply'[c] = reply[c]) /\ (d = c => reply'[c] = r) /\ in' = in
  BY <1>1 DEF Answer, IInv, TypeOK
<1>2. ASSUME NEW d \in Calls, Execute(d) PROVE Goal
  <2>1. CASE Commit(d) \/ CommitUnacknowledged(d)
    BY <1>1, <2>1, CommitPosts DEF Committed, Commit, CommitUnacknowledged, Replies, Errors
  <2>2. CASE LockAccount(d)
    BY <1>1, <2>2 DEF LockAccount, Replies, Errors
  <2>3. CASE CheckRef(d)
    BY <1>1, <2>3 DEF CheckRef, Replies, Errors
  <2>4. CASE InsertRow(d)
    BY <1>1, <2>4 DEF InsertRow, Replies, Errors
  <2>5. CASE CheckActor(d) \/ UpdateBalance(d)
    BY <2>5 DEF CheckActor, UpdateBalance
  <2> QED
    BY <1>2, <2>1, <2>2, <2>3, <2>4, <2>5 DEF Execute
<1>3. ASSUME NEW d \in Calls, Fail(d) \/ DeadlockAbort(d) PROVE Goal
  BY <1>1, <1>3 DEF Fail, DeadlockAbort, Replies, Errors
<1>4. ASSUME NEW d \in Calls, NEW req \in Requests, Begin(d, req) PROVE Goal
  BY <1>4 DEF Begin, IInv, TypeOK
<1>5. CASE Crash
  BY <1>5 DEF Crash
<1>6. ASSUME NEW a \in Accounts, CreateAccount(a) \/ SoftDelete(a) PROVE Goal
  BY <1>6 DEF CreateAccount, SoftDelete
<1> QED
  BY <1>2, <1>3, <1>4, <1>5, <1>6 DEF Next, vars

\* An entry stays, whatever step is taken.
LEMMA EntryStays ==
  ASSUME IInv, [Next]_vars, NEW req \in Requests, InLedger(req)
  PROVE  InLedger(req)'
<1>1. PICK i \in 1 .. Len(ledger) :
        /\ ledger[i].Ref = req.Ref /\ ledger[i].AccountID = req.AccountID
        /\ ledger[i].ActorAccountID = req.ActorAccountID
        /\ ledger[i].Direction = Direction(req) /\ ledger[i].Points = Delta(req)
  BY DEF InLedger
<1>2. Len(ledger) \in Nat /\ Len(ledger') \in Nat
  BY LedgerSteps, PostedEntries DEF IInv, TypeOK
<1>3. ledger'[i] = ledger[i] /\ i \in 1 .. Len(ledger')
  BY <1>2, AppendKeeps
<1> QED
  BY <1>1, <1>3 DEF InLedger

\* A request that is answered as accepted is in the ledger, or was when it was answered.
LEMMA AcceptedKeeps ==
  ASSUME IInv, [Next]_vars, NEW req \in Requests, Accepted(req) => InLedger(req)
  PROVE  Accepted(req)' \/ InLedger(req) => InLedger(req)'
<1> SUFFICES ASSUME NEW c \in Calls, in'[c] = req, reply'[c] = "accepted"
             PROVE  InLedger(req)'
  BY EntryStays DEF Accepted
<1>1. CASE reply[c] = "accepted" /\ in[c] = req
  BY <1>1, EntryStays DEF Accepted
<1>2. CASE in[c] = req /\ Posted(Row(req, current[c]))
  <2>1. Row(req, current[c]) \in Entry
    BY <1>2 DEF Posted
  <2>2. ledger'[Len(ledger')] = Row(req, current[c]) /\ Len(ledger') \in 1 .. Len(ledger')
    BY <1>2, <2>1, PostedEntries DEF IInv
  <2> QED
    BY <2>2 DEF Row, InLedger
<1> QED
  BY <1>1, <1>2, Answers

LEMMA NoneAccepted == ASSUME Init, NEW req PROVE ~Accepted(req)
BY DEF Init, Accepted

\* From the moment a transaction is answered as accepted its entry is in the ledger, with
\* the points and the direction asked for, for good: after every crash and restart, and
\* long after the answer is forgotten.
THEOREM AcceptedForGood ==
  ASSUME NEW req \in Requests
  PROVE  Spec => [](Accepted(req) => []InLedger(req))
<1>1. Init => (Accepted(req) => InLedger(req))
  BY NoneAccepted
<1>2. IInv /\ [Next]_vars /\ (Accepted(req) => InLedger(req)) => (Accepted(req) => InLedger(req))'
  BY AcceptedKeeps
<1>3. IInv /\ [Next]_vars /\ InLedger(req) => InLedger(req)'
  BY EntryStays
<1> QED
  BY <1>1, <1>2, <1>3, Invariant, PTL DEF Spec

\* The same, step by step.
THEOREM AcceptedDurable == Spec => AcceptedIsDurable
<1> DEFINE Answered == \A req \in Requests : Accepted(req) => InLedger(req)
<1>1. Init => Answered
  BY NoneAccepted
<1>2. IInv /\ [Next]_vars /\ Answered => Answered'
  BY AcceptedKeeps
<1>3. IInv /\ [Next]_vars /\ Answered =>
        [\A req \in Requests : Accepted(req)' \/ InLedger(req) => InLedger(req)']_vars
  BY AcceptedKeeps
<1> QED
  BY <1>1, <1>2, <1>3, Invariant, PTL DEF Spec, AcceptedIsDurable

LEMMA DuplicateKeeps == IInv /\ DuplicateIsTruthful /\ [Next]_vars => DuplicateIsTruthful'
<1> SUFFICES ASSUME IInv, DuplicateIsTruthful, [Next]_vars,
                    NEW c \in Calls, reply'[c] = "duplicate_ref"
             PROVE  \E i \in 1 .. Len(ledger') : ledger'[i].Ref = in'[c].Ref
  BY DEF DuplicateIsTruthful, Recorded
<1>1. in'[c] = in[c] /\ Recorded(in[c].Ref)
  BY Answers DEF DuplicateIsTruthful
<1>2. Len(ledger) \in Nat /\ Len(ledger') \in Nat
  BY LedgerSteps, PostedEntries DEF IInv, TypeOK
<1>3. PICK i \in 1 .. Len(ledger) : ledger[i].Ref = in[c].Ref
  BY <1>1 DEF Recorded
<1>4. i \in 1 .. Len(ledger') /\ ledger'[i] = ledger[i]
  BY <1>2, AppendKeeps
<1> QED
  BY <1>1, <1>3, <1>4

\* duplicate_ref is only ever said of a committed ref.
THEOREM DuplicateTruthful == Spec => []DuplicateIsTruthful
<1>1. Init => DuplicateIsTruthful
  BY DEF Init, DuplicateIsTruthful
<1> QED
  BY <1>1, Invariant, DuplicateKeeps, PTL DEF Spec

-----------------------------------------------------------------------------
(* Balances.                                                                 *)

LEMMA BalanceIsLastKeeps == IInv /\ BalanceIsLast /\ [Next]_vars => BalanceIsLast'
<1> SUFFICES ASSUME IInv, BalanceIsLast, [Next]_vars PROVE BalanceIsLast'
  OBVIOUS
<1>1. CASE UNCHANGED <<balance, ledger>>
  BY <1>1 DEF BalanceIsLast
<1>2. ASSUME NEW e \in Entry, Posted(e) PROVE BalanceIsLast'
  <2>1. /\ Len(ledger) \in Nat /\ Len(ledger') = Len(ledger) + 1
        /\ ledger'[Len(ledger')] = e
        /\ \A i \in 1 .. Len(ledger) : ledger'[i] = ledger[i]
    BY <1>2, PostedEntries DEF IInv
  <2>2. SUFFICES ASSUME NEW a \in Accounts
                 PROVE  \/ /\ \A i \in 1 .. Len(ledger') : ledger'[i].AccountID # a
                           /\ balance'[a] = 0
                        \/ \E i \in 1 .. Len(ledger') :
                             /\ ledger'[i].AccountID = a
                             /\ \A k \in i + 1 .. Len(ledger') : ledger'[k].AccountID # a
                             /\ balance'[a] = ledger'[i].BalanceAfterPoints
    BY DEF BalanceIsLast
  <2>3. CASE e.AccountID = a
    <3>1. balance'[a] = e.BalanceAfterPoints
      BY <1>2, <2>3 DEF Posted, IInv, TypeOK
    <3>2. \A k \in Len(ledger') + 1 .. Len(ledger') : FALSE
      BY <2>1
    <3> QED
      BY <2>1, <2>3, <3>1, <3>2
  <2>4. CASE e.AccountID # a
    <3>1. balance'[a] = balance[a]
      BY <1>2, <2>4 DEF Posted, IInv, TypeOK
    <3>2. CASE \A i \in 1 .. Len(ledger) : ledger[i].AccountID # a
      <4>1. balance[a] = 0
        BY <3>2 DEF BalanceIsLast
      <4>2. \A i \in 1 .. Len(ledger') : ledger'[i].AccountID # a
        BY <2>1, <2>4, <3>2
      <4> QED
        BY <3>1, <4>1, <4>2
    <3>3. ASSUME NEW i \in 1 .. Len(ledger), ledger[i].AccountID = a,
                 \A k \in i + 1 .. Len(ledger) : ledger[k].AccountID # a,
                 balance[a] = ledger[i].BalanceAfterPoints
          PROVE  /\ i \in 1 .. Len(ledger') /\ ledger'[i].AccountID = a
                 /\ \A k \in i + 1 .. Len(ledger') : ledger'[k].AccountID # a
                 /\ balance'[a] = ledger'[i].BalanceAfterPoints
      BY <2>1, <2>4, <3>1, <3>3
    <3> QED
      BY <3>2, <3>3 DEF BalanceIsLast
  <2> QED
    BY <2>3, <2>4
<1> QED
  BY <1>1, <1>2, LedgerSteps

\* The balance column always agrees with the ledger.
THEOREM BalanceAgrees == Spec => []BalanceIsLast
<1>1. Init => BalanceIsLast
  BY DEF Init, BalanceIsLast
<1> QED
  BY <1>1, Invariant, BalanceIsLastKeeps, PTL DEF Spec

\* The new entry continues the chain: the balance it starts from is the one the
\* last entry of its account left.
LEMMA PostedContinues ==
  ASSUME IInv, BalanceIsLast, NEW e \in Entry, Posted(e)
  PROVE  /\ (\A i \in 1 .. Len(ledger) : ledger[i].AccountID # e.AccountID)
              => e.BalanceAfterPoints = Moved(e, 0)
         /\ \A i \in 1 .. Len(ledger) :
              /\ ledger[i].AccountID = e.AccountID
              /\ \A k \in i + 1 .. Len(ledger) : ledger[k].AccountID # e.AccountID
              => e.BalanceAfterPoints = Moved(e, ledger[i].BalanceAfterPoints)
<1>1. e.BalanceAfterPoints = Moved(e, balance[e.AccountID]) /\ e.AccountID \in Accounts
  BY DEF Posted, Entry, Moved, PL!Moved
<1>2. Len(ledger) \in Nat
  BY DEF IInv, TypeOK
<1>3. ASSUME \A i \in 1 .. Len(ledger) : ledger[i].AccountID # e.AccountID
      PROVE  balance[e.AccountID] = 0
  BY <1>1, <1>3 DEF BalanceIsLast
<1>4. ASSUME NEW i \in 1 .. Len(ledger), ledger[i].AccountID = e.AccountID,
             \A k \in i + 1 .. Len(ledger) : ledger[k].AccountID # e.AccountID
      PROVE  balance[e.AccountID] = ledger[i].BalanceAfterPoints
  <2>1. PICK j \in 1 .. Len(ledger) :
          /\ ledger[j].AccountID = e.AccountID
          /\ \A k \in j + 1 .. Len(ledger) : ledger[k].AccountID # e.AccountID
          /\ balance[e.AccountID] = ledger[j].BalanceAfterPoints
    BY <1>1, <1>4 DEF BalanceIsLast
  <2>2. i = j
    BY <1>2, <1>4, <2>1
  <2> QED
    BY <2>1, <2>2
<1> QED
  BY <1>1, <1>3, <1>4

LEMMA BalanceChainKeeps == IInv /\ BalanceIsLast /\ BalanceChain /\ [Next]_vars => BalanceChain'
<1> SUFFICES ASSUME IInv, BalanceIsLast, BalanceChain, [Next]_vars PROVE BalanceChain'
  OBVIOUS
<1>1. CASE UNCHANGED <<balance, ledger>>
  BY <1>1 DEF BalanceChain, SameAccountBetween
<1>2. ASSUME NEW e \in Entry, Posted(e) PROVE BalanceChain'
  <2>1. /\ Len(ledger) \in Nat /\ Len(ledger') = Len(ledger) + 1
        /\ ledger'[Len(ledger')] = e
        /\ \A i \in 1 .. Len(ledger) : ledger'[i] = ledger[i]
    BY <1>2, PostedEntries DEF IInv
  <2> DEFINE Between(i, j) == \E k \in i + 1 .. j - 1 : ledger'[k].AccountID = ledger'[j].AccountID
  <2>2. SUFFICES ASSUME NEW j \in 1 .. Len(ledger')
                 PROVE  /\ ledger'[j].Points > 0
                        /\ Between(0, j) \/ ledger'[j].BalanceAfterPoints = Moved(ledger'[j], 0)
                        /\ \A i \in 1 .. j - 1 :
                             ledger'[i].AccountID = ledger'[j].AccountID /\ ~Between(i, j)
                               => ledger'[j].BalanceAfterPoints
                                    = Moved(ledger'[j], ledger'[i].BalanceAfterPoints)
    BY DEF BalanceChain, SameAccountBetween
  <2>3. CASE j \in 1 .. Len(ledger)
    <3>1. \A k \in 1 .. j : ledger'[k] = ledger[k]
      BY <2>1, <2>3
    <3>2. \A i \in 0 .. j - 1 : Between(i, j) <=> SameAccountBetween(i, j)
      BY <3>1, <2>3 DEF SameAccountBetween
    <3>3. 0 \in 0 .. j - 1 /\ 1 .. j - 1 \subseteq 0 .. j - 1 /\ j \in 1 .. j
      BY <2>3
    <3>4. /\ ledger[j].Points > 0
          /\ SameAccountBetween(0, j) \/ ledger[j].BalanceAfterPoints = Moved(ledger[j], 0)
          /\ \A i \in 1 .. j - 1 :
               ledger[i].AccountID = ledger[j].AccountID /\ ~SameAccountBetween(i, j)
                 => ledger[j].BalanceAfterPoints = Moved(ledger[j], ledger[i].BalanceAfterPoints)
      BY <2>3 DEF BalanceChain
    <3>5. \A i \in 1 .. j - 1 : ledger'[i] = ledger[i]
      BY <3>1, <2>3
    <3> HIDE DEF Between
    <3> QED
      BY <3>1, <3>2, <3>3, <3>4, <3>5
  <2>4. CASE j = Len(ledger')
    <3>1. ledger'[j] = e /\ e.Points > 0 /\ j - 1 = Len(ledger)
      BY <1>2, <2>1, <2>4 DEF Posted
    <3>2. \A i \in 0 .. Len(ledger) :
            Between(i, j) <=> \E k \in i + 1 .. Len(ledger) : ledger[k].AccountID = e.AccountID
      BY <2>1, <3>1
    <3>3. Between(0, j) <=> \E k \in 1 .. Len(ledger) : ledger[k].AccountID = e.AccountID
      BY <2>1, <3>2
    <3>4. \A i \in 1 .. Len(ledger) : ledger'[i] = ledger[i] /\ i \in 0 .. Len(ledger)
      BY <2>1
    <3> HIDE DEF Between
    <3> QED
      BY <1>2, <3>1, <3>2, <3>3, <3>4, PostedContinues
  <2> QED
    BY <2>1, <2>3, <2>4
<1> QED
  BY <1>1, <1>2, LedgerSteps

\* The entries of each account form one chain of exact integer balances.
THEOREM LedgerChains == Spec => []BalanceChain
<1>1. Init => BalanceChain
  BY DEF Init, BalanceChain
<1>2. Spec => []BalanceIsLast
  BY BalanceAgrees
<1> QED
  BY <1>1, <1>2, Invariant, BalanceChainKeeps, PTL DEF Spec

-----------------------------------------------------------------------------
(* Sums.  RunningSum is defined by recursion, so its equation has to be      *)
(* proved before it can be used.                                             *)

\* What the sum of n entries is, from the sums of fewer.
SumStep(es, a, sum, n) ==
  IF n = 0 THEN 0
  ELSE IF es[n].AccountID = a THEN Moved(es[n], sum[n - 1])
  ELSE sum[n - 1]

Sums(es, a, m, sum) ==
  /\ sum \in [0 .. m -> Int]
  /\ \A n \in 0 .. m : sum[n] = SumStep(es, a, sum, n)

LEMMA SumsExist ==
  ASSUME NEW es \in Seq(Entry), NEW a, NEW m \in 0 .. Len(es)
  PROVE  \E sum : Sums(es, a, m, sum)
<1> DEFINE S == {k \in Nat : k <= Len(es) => \E sum : Sums(es, a, k, sum)}
<1>1. 0 \in S
  <2>1. Sums(es, a, 0, [n \in 0 .. 0 |-> 0])
    BY DEF Sums, SumStep
  <2> QED
    BY <2>1
<1>2. ASSUME NEW k \in S PROVE k + 1 \in S
  <2> SUFFICES ASSUME k + 1 <= Len(es) PROVE \E sum : Sums(es, a, k + 1, sum)
    OBVIOUS
  <2>1. PICK sum : Sums(es, a, k, sum)
    BY DEF S
  <2> DEFINE next == IF es[k + 1].AccountID = a THEN Moved(es[k + 1], sum[k]) ELSE sum[k]
             longer == [n \in 0 .. k + 1 |-> IF n = k + 1 THEN next ELSE sum[n]]
  <2>2. k \in Nat /\ sum[k] \in Int /\ es[k + 1] \in Entry
    BY <2>1 DEF Sums, S
  <2>3. next \in Int
    BY <2>2, PointsAssumption DEF Moved, Entry, Stored
  <2> HIDE DEF next
  <2>4. longer \in [0 .. k + 1 -> Int]
    BY <2>1, <2>2, <2>3 DEF Sums
  <2>5. \A n \in 0 .. k : longer[n] = sum[n] /\ (n # 0 => n - 1 \in 0 .. k)
    BY <2>2
  <2>6. ASSUME NEW n \in 0 .. k PROVE longer[n] = SumStep(es, a, longer, n)
    BY <2>1, <2>5 DEF Sums, SumStep
  <2>7. longer[k + 1] = SumStep(es, a, longer, k + 1)
    <3>1. longer[k + 1] = next /\ longer[k] = sum[k] /\ (k + 1) - 1 = k /\ k + 1 # 0
      BY <2>2
    <3> HIDE DEF longer
    <3> QED
      BY <3>1 DEF SumStep, next
  <2>8. \A n \in 0 .. k + 1 : n \in 0 .. k \/ n = k + 1
    BY <2>2
  <2>9. Sums(es, a, k + 1, longer)
    BY <2>4, <2>6, <2>7, <2>8 DEF Sums
  <2> QED
    BY <2>9
<1>3. S = Nat
  <2> HIDE DEF S
  <2>1. S \in SUBSET Nat
    BY DEF S
  <2> QED
    BY <1>1, <1>2, <2>1, NatInduct
<1>4. Len(es) \in Nat
  OBVIOUS
<1> QED
  BY <1>3, <1>4

LEMMA RunningSumIs ==
  ASSUME NEW es \in Seq(Entry), NEW a
  PROVE  Sums(es, a, Len(es), RunningSum(es, a))
<1> DEFINE Eq(sum) == sum = [n \in 0 .. Len(es) |->
                               IF n = 0 THEN 0
                               ELSE IF es[n].AccountID = a THEN Moved(es[n], sum[n - 1])
                               ELSE sum[n - 1]]
<1>1. Len(es) \in 0 .. Len(es)
  OBVIOUS
<1>2. PICK sum : Sums(es, a, Len(es), sum)
  BY <1>1, SumsExist
<1>3. Eq(sum)
  BY <1>2 DEF Sums, SumStep
<1>4. RunningSum(es, a) = CHOOSE s : Eq(s)
  BY DEF RunningSum
<1>5. Eq(RunningSum(es, a))
  <2> HIDE DEF Eq
  <2> QED
    BY <1>3, <1>4
<1>6. ASSUME NEW other, Eq(other) PROVE other = sum
  <2> DEFINE Differ == {n \in 0 .. Len(es) : other[n] # sum[n]}
  <2>1. CASE Differ = {}
    <3>1. /\ other = [n \in 0 .. Len(es) |-> other[n]]
          /\ sum = [n \in 0 .. Len(es) |-> sum[n]]
      BY <1>2, <1>6 DEF Sums
    <3> QED
      BY <2>1, <3>1
  <2>2. CASE Differ # {}
    <3>1. PICK n \in Differ : \A k \in Differ : n <= k
      <4> HIDE DEF Differ
      <4>1. Differ \in SUBSET Nat
        BY DEF Differ
      <4> QED
        BY <2>2, <4>1, Least
    <3>2. n # 0 => n - 1 \in 0 .. Len(es) /\ n - 1 \notin Differ
      BY <3>1
    <3>3. n # 0 => other[n - 1] = sum[n - 1]
      BY <3>2
    <3>4. other[n] = SumStep(es, a, other, n) /\ sum[n] = SumStep(es, a, sum, n)
      BY <1>2, <1>6 DEF Sums, SumStep
    <3> QED
      BY <3>1, <3>3, <3>4 DEF SumStep
  <2> QED
    BY <2>1, <2>2
<1> QED
  BY <1>2, <1>5, <1>6

\* An entry that is appended leaves the sums of those before it.
LEMMA RunningSumAppends ==
  ASSUME NEW es \in Seq(Entry), NEW more \in Seq(Entry), NEW e \in Entry, NEW a,
         Len(more) = Len(es) + 1, more[Len(more)] = e,
         \A i \in 1 .. Len(es) : more[i] = es[i]
  PROVE  RunningSum(more, a)[Len(more)] =
           IF e.AccountID = a THEN Moved(e, RunningSum(es, a)[Len(es)])
           ELSE RunningSum(es, a)[Len(es)]
<1> DEFINE f == RunningSum(es, a)
           g == RunningSum(more, a)
           Differ == {n \in 0 .. Len(es) : f[n] # g[n]}
<1>1. Sums(es, a, Len(es), f) /\ Sums(more, a, Len(more), g)
  BY RunningSumIs
<1>2. Len(es) \in Nat
  OBVIOUS
<1> HIDE DEF f, g
<1>3. Differ = {}
  <2> SUFFICES ASSUME Differ # {} PROVE FALSE
    OBVIOUS
  <2>1. PICK n \in Differ : \A k \in Differ : n <= k
    <3> HIDE DEF Differ
    <3>1. Differ \in SUBSET Nat
      BY <1>2 DEF Differ
    <3> QED
      BY <3>1, Least
  <2>2. n \in 0 .. Len(es) /\ n \in 0 .. Len(more) /\ f[n] # g[n]
    BY <1>2, <2>1
  <2>3. n # 0 => n - 1 \in 0 .. Len(es) /\ n - 1 \notin Differ /\ more[n] = es[n]
    BY <2>1, <2>2
  <2>4. n # 0 => f[n - 1] = g[n - 1] /\ more[n] = es[n]
    BY <2>3
  <2>5. f[n] = SumStep(es, a, f, n) /\ g[n] = SumStep(more, a, g, n)
    BY <1>1, <2>2 DEF Sums
  <2> QED
    BY <2>2, <2>4, <2>5 DEF SumStep
<1>4. f[Len(es)] = g[Len(es)]
  BY <1>2, <1>3
<1>5. g[Len(more)] = SumStep(more, a, g, Len(more)) /\ Len(more) # 0 /\ Len(more) - 1 = Len(es)
  BY <1>1, <1>2 DEF Sums
<1> QED
  BY <1>4, <1>5 DEF SumStep, f, g

LEMMA BalanceIsSumKeeps == IInv /\ BalanceIsSum /\ [Next]_vars => BalanceIsSum'
<1> SUFFICES ASSUME IInv, BalanceIsSum, [Next]_vars PROVE BalanceIsSum'
  OBVIOUS
<1>1. CASE UNCHANGED <<balance, ledger>>
  BY <1>1 DEF BalanceIsSum
<1>2. ASSUME NEW e \in Entry, Posted(e) PROVE BalanceIsSum'
  <2>1. /\ ledger \in Seq(Entry) /\ ledger' \in Seq(Entry) /\ Len(ledger') = Len(ledger) + 1
        /\ ledger'[Len(ledger')] = e
        /\ \A i \in 1 .. Len(ledger) : ledger'[i] = ledger[i]
    BY <1>2, PostedEntries DEF IInv, TypeOK
  <2>2. ASSUME NEW a \in Accounts PROVE balance'[a] = RunningSum(ledger', a)[Len(ledger')]
    <3>1. RunningSum(ledger', a)[Len(ledger')] =
            IF e.AccountID = a THEN Moved(e, RunningSum(ledger, a)[Len(ledger)])
            ELSE RunningSum(ledger, a)[Len(ledger)]
      BY <2>1, RunningSumAppends
    <3>2. balance[a] = RunningSum(ledger, a)[Len(ledger)]
      BY DEF BalanceIsSum
    <3>3. balance'[a] = IF e.AccountID = a THEN Moved(e, balance[a]) ELSE balance[a]
      BY <1>2 DEF Posted, IInv, TypeOK, Moved, PL!Moved
    <3> QED
      BY <3>1, <3>2, <3>3
  <2> QED
    BY <2>2 DEF BalanceIsSum
<1> QED
  BY <1>1, <1>2, LedgerSteps

\* The balance column is the sum of the ledger's entries.
THEOREM BalanceSums == Spec => []BalanceIsSum
<1>1. Init => BalanceIsSum
  <2> SUFFICES ASSUME Init, NEW a \in Accounts PROVE balance[a] = RunningSum(ledger, a)[Len(ledger)]
    BY DEF BalanceIsSum
  <2>1. ledger \in Seq(Entry) /\ Len(ledger) = 0 /\ balance[a] = 0
    BY DEF Init
  <2>2. Sums(ledger, a, Len(ledger), RunningSum(ledger, a))
    BY <2>1, RunningSumIs
  <2>3. RunningSum(ledger, a)[0] = SumStep(ledger, a, RunningSum(ledger, a), 0)
    BY <2>1, <2>2 DEF Sums
  <2> QED
    BY <2>1, <2>3 DEF SumStep
<1> QED
  BY <1>1, Invariant, BalanceIsSumKeeps, PTL DEF Spec

-----------------------------------------------------------------------------
(* Waits and deadlocks.                                                      *)

LEMMA WaitEnds ==
  ASSUME NEW c \in Calls, NEW d \in Calls, WaitsFor(c, d)
  PROVE  /\ c # d
         /\ pc[c] \in {"lock", "insert", "fkey"}
         /\ pc[d] \in Locking
         /\ pc[c] = "insert" => pc[d] \in Inserted
BY DEF WaitsFor, RowLocked, RefPending, KeyShared, Locking, Inserted

\* A foreign-key check on the account that the call has locked itself finds nobody there.
LEMMA ActorIsAnother ==
  ASSUME IInv, NEW c \in Calls, NEW d \in Calls, WaitsFor(c, d), pc[c] = "fkey"
  PROVE  in[c].ActorAccountID # in[c].AccountID
<1>1. RowLocked(d, in[c].ActorAccountID) /\ d \in Others(c)
  BY DEF WaitsFor, Others
<1>2. Apart(c, d)
  BY <1>1 DEF IInv, TransactionsApart
<1> QED
  BY <1>1, <1>2 DEF Apart, RowLocked, Locking, Inserted

LEMMA NoStep == ASSUME NEW c \in Calls PROVE WaitPath(c, c, 0)
<1> DEFINE walk == [i \in 0 .. 0 |-> c]
<1>1. walk \in [0 .. 0 -> Calls] /\ walk[0] = c /\ \A i \in 0 .. 0 - 1 : FALSE
  OBVIOUS
<1> HIDE DEF walk
<1> QED
  BY <1>1 DEF WaitPath

\* One more wait at the end of a path.
LEMMA OneMoreWait ==
  ASSUME NEW c \in Calls, NEW d \in Calls, NEW e \in Calls, NEW n \in Nat,
         WaitPath(c, d, n), WaitsFor(d, e)
  PROVE  WaitPath(c, e, n + 1)
<1>1. PICK walk \in [0 .. n -> Calls] :
        /\ walk[0] = c /\ walk[n] = d
        /\ \A i \in 0 .. n - 1 : WaitsFor(walk[i], walk[i + 1])
  BY DEF WaitPath
<1> DEFINE longer == [i \in 0 .. n + 1 |-> IF i = n + 1 THEN e ELSE walk[i]]
<1>2. longer \in [0 .. n + 1 -> Calls] /\ longer[0] = c /\ longer[n + 1] = e
  BY <1>1
<1>3. ASSUME NEW i \in 0 .. (n + 1) - 1 PROVE WaitsFor(longer[i], longer[i + 1])
  <2>1. longer[i] = walk[i] /\ longer[i + 1] = IF i = n THEN e ELSE walk[i + 1]
    OBVIOUS
  <2> HIDE DEF longer
  <2>2. CASE i = n
    BY <1>1, <2>1, <2>2
  <2>3. CASE i # n
    <3>1. i \in 0 .. n - 1
      BY <2>3
    <3> QED
      BY <1>1, <2>1, <2>3, <3>1
  <2> QED
    BY <2>2, <2>3
<1> HIDE DEF longer
<1> QED
  BY <1>2, <1>3 DEF WaitPath

LEMMA CyclesMeetActor == IInv => DeadlockThroughActor
<1> SUFFICES ASSUME IInv, NEW c \in Calls, Deadlocked(c)
             PROVE  /\ pc[c] \in {"insert", "fkey"}
                    /\ \E d \in Calls, n \in 0 .. 1 :
                         /\ WaitPath(c, d, n) /\ Blocked(d)
                         /\ pc[d] = "fkey" /\ in[d].ActorAccountID # in[d].AccountID
  BY DEF DeadlockThroughActor
<1>0. Cardinality(Calls) \in Nat
  BY CallsAssumption, FS_CardinalityType
<1>1. PICK n \in 1 .. Cardinality(Calls) : WaitPath(c, c, n)
  BY DEF Deadlocked
<1>2. PICK walk \in [0 .. n -> Calls] :
        /\ walk[0] = c /\ walk[n] = c
        /\ \A i \in 0 .. n - 1 : WaitsFor(walk[i], walk[i + 1])
  BY <1>1 DEF WaitPath
<1>3. n \in Nat \ {0} /\ (n - 1) + 1 = n
  BY <1>0
<1>4. WaitsFor(c, walk[1]) /\ walk[1] \in Calls
  BY <1>2, <1>3
<1>5. WaitsFor(walk[n - 1], c) /\ walk[n - 1] \in Calls
  <2>1. n - 1 \in 0 .. n - 1
    BY <1>3
  <2> QED
    BY <1>2, <1>3, <2>1
<1>6. pc[c] \in {"insert", "fkey"}
  BY <1>4, <1>5, WaitEnds DEF Locking, Inserted
<1>7. n > 1
  BY <1>2, <1>3, <1>4, WaitEnds
<1>8. WaitsFor(walk[1], walk[2]) /\ walk[2] \in Calls
  BY <1>2, <1>3, <1>7
<1>9. CASE pc[c] = "fkey"
  <2>1. in[c].ActorAccountID # in[c].AccountID /\ Blocked(c)
    BY <1>4, <1>9, ActorIsAnother DEF Blocked
  <2> QED
    BY <1>9, <2>1, NoStep
<1>10. CASE pc[c] = "insert"
  <2>1. pc[walk[1]] = "fkey"
    BY <1>4, <1>8, <1>10, WaitEnds DEF Inserted
  <2>2. in[walk[1]].ActorAccountID # in[walk[1]].AccountID /\ Blocked(walk[1])
    BY <1>4, <1>8, <2>1, ActorIsAnother DEF Blocked
  <2>3. WaitPath(c, walk[1], 0 + 1)
    BY <1>4, NoStep, OneMoreWait
  <2>4. 0 + 1 \in 0 .. 1
    OBVIOUS
  <2> QED
    BY <1>4, <1>10, <2>1, <2>2, <2>3, <2>4
<1> QED
  BY <1>6, <1>9, <1>10

\* Calls deadlock only through the foreign-key check of an actor who is not the owner
\* of the account, however many calls there are.
THEOREM DeadlocksThroughActor == Spec => []DeadlockThroughActor
BY CyclesMeetActor, Invariant, PTL

\* Where a path meets a call twice there is a deadlock, and the path leads to it.
LEMMA PathCloses ==
  ASSUME NEW c \in Calls, NEW d \in Calls, WaitPath(c, d, Cardinality(Calls))
  PROVE  \E e \in Calls, n \in 0 .. Cardinality(Calls) : WaitPath(c, e, n) /\ Deadlocked(e)
<1> DEFINE N == Cardinality(Calls)
<1>1. N \in Nat
  BY CallsAssumption, FS_CardinalityType
<1>2. PICK walk \in [0 .. N -> Calls] :
        /\ walk[0] = c /\ walk[N] = d
        /\ \A i \in 0 .. N - 1 : WaitsFor(walk[i], walk[i + 1])
  BY DEF WaitPath
<1>3. IsFiniteSet(0 .. N) /\ Cardinality(0 .. N) = N + 1
  BY <1>1, FS_Interval
<1>4. Cardinality(Calls) < Cardinality(0 .. N)
  BY <1>1, <1>3
<1>5. PICK x \in 0 .. N, y \in 0 .. N : x # y /\ walk[x] = walk[y]
  BY <1>2, <1>3, <1>4, CallsAssumption, FS_PigeonHole
<1>6. PICK i \in 0 .. N, j \in 0 .. N : i < j /\ walk[i] = walk[j]
  BY <1>1, <1>5
<1> HIDE DEF N
<1> DEFINE start == [k \in 0 .. i |-> walk[k]]
           cycle == [k \in 0 .. j - i |-> walk[i + k]]
<1>7. WaitPath(c, walk[i], i)
  <2>1. start \in [0 .. i -> Calls] /\ start[0] = c /\ start[i] = walk[i]
    BY <1>1, <1>2
  <2>2. \A k \in 0 .. i - 1 : start[k] = walk[k] /\ start[k + 1] = walk[k + 1] /\ k \in 0 .. N - 1
    BY <1>1
  <2> HIDE DEF start
  <2> QED
    BY <1>2, <2>1, <2>2 DEF WaitPath
<1>8. WaitPath(walk[i], walk[i], j - i)
  <2>1. cycle \in [0 .. j - i -> Calls] /\ cycle[0] = walk[i] /\ cycle[j - i] = walk[i]
    BY <1>1, <1>2, <1>6
  <2>2. \A k \in 0 .. (j - i) - 1 : /\ cycle[k] = walk[i + k] /\ cycle[k + 1] = walk[(i + k) + 1]
                                    /\ i + k \in 0 .. N - 1
    BY <1>1, <1>6
  <2> HIDE DEF cycle
  <2> QED
    BY <1>2, <2>1, <2>2 DEF WaitPath
<1>9. walk[i] \in Calls /\ j - i \in 1 .. N /\ i \in 0 .. N
  BY <1>1, <1>2, <1>6
<1> QED
  BY <1>7, <1>8, <1>9 DEF Deadlocked, N

LEMMA WaitsLead == WaitsLeadToProgress
<1> SUFFICES ASSUME NEW c \in Calls, pc[c] # "idle",
                    \A d \in Calls, n \in 0 .. Cardinality(Calls) :
                      WaitPath(c, d, n) /\ pc[d] # "idle" => Blocked(d) /\ ~Deadlocked(d)
             PROVE  FALSE
  BY DEF WaitsLeadToProgress
<1> DEFINE N == Cardinality(Calls)
           S == {n \in Nat : n <= N => \E d \in Calls : WaitPath(c, d, n) /\ pc[d] # "idle"}
<1>1. N \in Nat
  BY CallsAssumption, FS_CardinalityType
<1>2. 0 \in S
  BY NoStep
<1>3. ASSUME NEW n \in S PROVE n + 1 \in S
  <2> SUFFICES ASSUME n + 1 <= N PROVE \E d \in Calls : WaitPath(c, d, n + 1) /\ pc[d] # "idle"
    OBVIOUS
  <2>1. n \in Nat /\ n \in 0 .. N
    BY <1>1
  <2>2. PICK d \in Calls : WaitPath(c, d, n) /\ pc[d] # "idle"
    BY <2>1
  <2>3. PICK e \in Calls : WaitsFor(d, e)
    BY <2>1, <2>2 DEF Blocked
  <2>4. pc[e] # "idle"
    BY <2>3, WaitEnds DEF Locking, Inserted
  <2> QED
    BY <2>1, <2>2, <2>3, <2>4, OneMoreWait
<1>4. N \in S
  <2> HIDE DEF N, S
  <2>1. S \in SUBSET Nat
    BY DEF S
  <2> QED
    BY <1>1, <1>2, <1>3, <2>1, NatInduct
<1>5. PICK d \in Calls : WaitPath(c, d, N)
  BY <1>1, <1>4
<1>6. PICK e \in Calls, n \in 0 .. N : WaitPath(c, e, n) /\ Deadlocked(e)
  BY <1>5, PathCloses
<1>7. pc[e] # "idle"
  <2>1. PICK k \in 1 .. N : WaitPath(e, e, k)
    BY <1>6 DEF Deadlocked
  <2>2. PICK walk \in [0 .. k -> Calls] :
          walk[0] = e /\ \A i \in 0 .. k - 1 : WaitsFor(walk[i], walk[i + 1])
    BY <2>1 DEF WaitPath
  <2>3. WaitsFor(e, walk[1]) /\ walk[1] \in Calls
    BY <1>1, <2>2
  <2> QED
    BY <2>3, WaitEnds
<1> QED
  BY <1>6, <1>7

\* From every call in progress the waits lead to one that can run or to a deadlock,
\* however many calls there are.
THEOREM WaitsAlwaysLead == Spec => []WaitsLeadToProgress
BY WaitsLead, PTL

-----------------------------------------------------------------------------
(* Refinement.                                                               *)

LEMMA StepImplements == IInv /\ [Next]_vars => [PL!Next]_(PL!vars)
<1> SUFFICES ASSUME IInv, [Next]_vars PROVE [PL!Next]_(PL!vars)
  OBVIOUS
<1>1. ASSUME NEW c \in Calls, Committed(c) PROVE PL!Next
  <2> DEFINE e == Row(in[c], current[c])
  <2>1. Posted(e)
    BY <1>1, CommitPosts
  <2>2. in[c] \in Requests
    BY <1>1 DEF Committed, Commit, CommitUnacknowledged, IInv, TransactionsApart, CallOK
  <2>3. e.Points \in {Delta(req) : req \in Requests}
    BY <2>2 DEF Row
  <2>4. e = [Ref |-> e.Ref, AccountID |-> e.AccountID, Direction |-> e.Direction,
             Points |-> e.Points, BalanceAfterPoints |-> e.BalanceAfterPoints,
             ActorAccountID |-> e.ActorAccountID]
    BY DEF Row
  <2> HIDE DEF e
  <2>5. /\ e.Ref \in Refs /\ e.AccountID \in Accounts /\ e.ActorAccountID \in Accounts
        /\ e.Direction \in {"credit", "debit"} /\ e.BalanceAfterPoints \in 0 .. HalfRange - 1
    BY <2>1 DEF Posted, Entry, Directions, Stored
  <2>6. \A i \in 1 .. Len(ledger) : ledger[i].Ref # e.Ref
    BY <2>1 DEF Posted, Recorded
  <2>7. PL!Post(e.Ref, e.AccountID, e.Direction, e.Points, e.ActorAccountID)
    BY <2>1, <2>4, <2>5, <2>6 DEF Posted, PL!Post
  <2> QED
    BY <2>3, <2>5, <2>7 DEF PL!Next
<1>2. ASSUME NEW a \in Accounts, CreateAccount(a) \/ SoftDelete(a) PROVE PL!Next
  BY <1>2 DEF CreateAccount, SoftDelete, PL!Open, PL!Close, PL!Next
<1> QED
  BY <1>1, <1>2 DEF Next, Execute, Committed, vars, database, PL!vars, Begin, LockAccount, CheckRef,
     InsertRow, CheckActor, UpdateBalance, Fail, DeadlockAbort, Crash

\* The interleaved, failing, crashing calls implement the atomic ledger.
THEOREM Implementation == Spec => Implements
<1>1. Init => PL!Init
  BY DEF Init, PL!Init
<1> QED
  BY <1>1, Invariant, StepImplements, PTL DEF Spec, Implements, PL!Spec
=============================================================================
