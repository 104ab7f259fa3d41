----------------------------- MODULE MCHttpGate -----------------------------
(* Small instances of HttpGate for TLC: a seeded admin and an account that   *)
(* is named like the literal path segment.                                   *)
EXTENDS HttpGate, TLC

\* Every path of the table, with an account of either id where it has one.
SomePaths ==
  {<<"auth", "logout">>, <<"accounts">>, <<"transactions">>, <<"batch", "transactions">>,
   <<"accounts", "me">>, <<"accounts", "root">>, <<"accounts", "me", "balance">>,
   <<"accounts", "root", "ledger">>, <<"accounts", "me", "transactions">>,
   <<"accounts", "root", "transactions">>, <<"batch", "jobs", "job">>}

SomeAccountBodies ==
  {[Decodes |-> TRUE, Complete |-> TRUE, ID |-> "me", Role |-> role] : role \in {" ", "ADMIN", "other"}}
    \cup {[Decodes |-> TRUE, Complete |-> TRUE, ID |-> " ", Role |-> "member"],
          [Decodes |-> FALSE, Complete |-> FALSE, ID |-> "", Role |-> ""]}

Body(kind, direction, points, key, ref) ==
  [Decodes |-> TRUE, Complete |-> TRUE, Kind |-> kind, Direction |-> direction,
   Points |-> points, Key |-> key, Ref |-> ref]
SomeTransactionBodies ==
  {Body("earn", "credit", 1, "r1", " "), Body("spend", "debit", 1, "", "r1"),
   Body(" Adjustment", "debit", 1, "r1", "r1"), Body("earn", "credit", 1, "r1", "r2"),
   Body("earn", "debit", 1, "r1", ""), Body("spend", "debit", 0, "r1", ""),
   Body("other", "credit", 1, "r1", ""), Body("earn", "credit", 1, " ", "")}

Symmetry == Permutations(Tokens) \cup Permutations(Calls)
=============================================================================
