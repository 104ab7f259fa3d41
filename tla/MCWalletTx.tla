----------------------------- MODULE MCWalletTx -----------------------------
(* Small instances of WalletTx for TLC.  HalfRange is 512 beside a           *)
(* PointsScale of 100, so that 6 whole points wrap to a negative amount and  *)
(* 11 to a small positive one, as 2^63 / 100 and 2^64 / 100 do.              *)
EXTENDS WalletTx

CONSTANTS admin, member, r1, r2, r3

\* The transaction req(ref, account, kind, direction, whole points, actor).
Req(ref, a, kind, dir, whole, actor) ==
  [Ref |-> ref, AccountID |-> a, Kind |-> kind, Direction |-> dir,
   WholePoints |-> whole, ActorAccountID |-> actor]

\* The admin credits the member, the member spends, either may meet the other's
\* ref; two calls adjust each other's account; amounts and a sum that wrap; a
\* request the checks refuse.
MixedRequests ==
  {Req(r1, member, "earn", "credit", 3, admin),
   Req(r2, member, "spend", "debit", 1, member),
   Req(r2, admin, "earn", "credit", 4, admin),
   Req(r3, member, "adjustment", "credit", 11, admin),
   Req(r3, admin, "adjustment", "debit", 6, admin),
   Req(r1, admin, "adjustment", "credit", 2, member),
   Req(r1, admin, "spend", "credit", 1, admin)}

\* Two admins adjust each other's account.
CrossRequests ==
  {Req(r1, member, "adjustment", "credit", 1, admin),
   Req(r2, admin, "adjustment", "credit", 2, member),
   Req(r1, admin, "spend", "debit", 1, admin)}
=============================================================================
