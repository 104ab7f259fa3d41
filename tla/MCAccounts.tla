----------------------------- MODULE MCAccounts -----------------------------
(* Small instances of Accounts for TLC.                                      *)
EXTENDS Accounts

CONSTANTS root, alice, Bob, e1, e2, localhost

AllRequests ==
  [Kind : {"create", "update"}, ID : {root, alice}, Role : Roles, Email : {e1, e2}]
    \cup [Kind : {"profile"}, ID : {root, alice}, Role : {"member"}, Email : {e1, e2}]
    \cup [Kind : {"delete"}, ID : {root, alice, Bob}, Role : {"member"}, Email : {e1}]
    \cup [Kind : {"create"}, ID : {Bob}, Role : {"admin"}, Email : {e2}]
    \cup [Kind : {"create", "update"}, ID : {alice}, Role : {"member"}, Email : {localhost}]
=============================================================================
