------------------------------ MODULE Directory ------------------------------
(* What account administration promises: a directory in which each change is *)
(* one atomic step on one account.  An id is used once: it is enrolled,      *)
(* changes roles while it is active, and is removed for good.  No requests,  *)
(* statements, sessions or restarts appear here.  Accounts implements it     *)
(* statement by statement, and HttpGate, which takes each handler as one     *)
(* step, as the requests that reach it do.                                   *)
EXTENDS Naturals

CONSTANTS IDs

VARIABLE entry   \* absent, deleted, or the role of an active account

Roles == {"member", "admin"}

\* The first admin is seeded before anything is served.
Init == \E first \in IDs : entry = [id \in IDs |-> IF id = first THEN "admin" ELSE "absent"]

Enrol(id, role) ==
  /\ entry[id] = "absent"
  /\ entry' = [entry EXCEPT ![id] = role]

SetRole(id, role) ==
  /\ entry[id] \in Roles
  /\ entry' = [entry EXCEPT ![id] = role]

Remove(id) ==
  /\ entry[id] \in Roles
  /\ entry' = [entry EXCEPT ![id] = "deleted"]

Next == \E id \in IDs : Remove(id) \/ \E role \in Roles : Enrol(id, role) \/ SetRole(id, role)

Spec == Init /\ [][Next]_entry

\* To the wallet an account is open or closed; what WalletTx and Batch take of
\* administration is that accounts open once and close once.
Wallet == INSTANCE PointsLedger WITH
            Accounts <- IDs, Refs <- {}, Amounts <- {}, MaxBalance <- 0,
            status <- [id \in IDs |-> IF entry[id] \in Roles THEN "active" ELSE entry[id]],
            balance <- [id \in IDs |-> 0],
            ledger <- <<>>

OpensAndCloses == Wallet!Spec
=============================================================================
