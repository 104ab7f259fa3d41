---------------------------- MODULE PointsLedger ----------------------------
(* What the wallet promises: one atomic ledger.  An accepted transaction is  *)
(* one step that checks the balance, appends the entry and moves the balance *)
(* by exactly the points recorded; a ref is used once; accounts open empty   *)
(* and close once.  No calls, locks, statements or failures appear here.     *)
EXTENDS Integers, Sequences

CONSTANTS
  Accounts,
  Refs,
  Amounts,      \* the points a transaction may move
  MaxBalance    \* the largest balance the column holds

VARIABLES status, balance, ledger

vars == <<status, balance, ledger>>

Moved(dir, points, before) == IF dir = "credit" THEN before + points ELSE before - points

Init ==
  /\ status \in [Accounts -> {"absent", "active"}]
  /\ balance = [a \in Accounts |-> 0]
  /\ ledger = <<>>

Open(a) ==
  /\ status[a] = "absent"
  /\ status' = [status EXCEPT ![a] = "active"]
  /\ UNCHANGED <<balance, ledger>>

Close(a) ==
  /\ status[a] = "active"
  /\ status' = [status EXCEPT ![a] = "deleted"]
  /\ UNCHANGED <<balance, ledger>>

Post(ref, a, dir, points, actor) ==
  LET after == Moved(dir, points, balance[a]) IN
  /\ status[a] = "active"
  /\ status[actor] # "absent"
  /\ \A i \in 1 .. Len(ledger) : ledger[i].Ref # ref
  /\ points > 0
  /\ after \in 0 .. MaxBalance
  /\ ledger' = Append(ledger, [Ref |-> ref, AccountID |-> a, Direction |-> dir,
                               Points |-> points, BalanceAfterPoints |-> after,
                               ActorAccountID |-> actor])
  /\ balance' = [balance EXCEPT ![a] = after]
  /\ UNCHANGED status

Next ==
  \/ \E a \in Accounts : Open(a) \/ Close(a)
  \/ \E ref \in Refs, a, actor \in Accounts, dir \in {"credit", "debit"}, points \in Amounts :
       Post(ref, a, dir, points, actor)

Spec == Init /\ [][Next]_vars
=============================================================================
