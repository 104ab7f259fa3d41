------------------------------- MODULE MCBatch -------------------------------
(* Small instances of Batch for TLC.                                         *)
EXTENDS Batch

CONSTANTS admin, member, r1, r2

Rec(ref, a, kind, dir, whole) ==
  [WellFormed |-> TRUE, Ref |-> ref, AccountID |-> a, Kind |-> kind, Direction |-> dir,
   WholePoints |-> whole]

Five(records) == [Header |-> "five", Records |-> records]
Six(records) == [Header |-> "six", Records |-> records]

\* A file, and its first row uploaded again beside a row that reuses the ref.
Reupload ==
  {Five(<<Rec(r1, admin, "earn", "", 3)>>),
   Six(<<Rec(r1, admin, "earn", "credit", 3), Rec(r1, admin, "adjustment", "credit", 2)>>)}

\* One file of two rows, the second debits what the first may have credited.
TwoRows == {Five(<<Rec(r1, member, "earn", "", 2), Rec(r2, member, "spend", "", 1)>>)}

\* One file of three rows for a pool of two workers, with a repeated ref and
\* an amount that wraps; an empty file; and files to refuse: a kind without its
\* direction, a debit that earns, an unknown kind, no points, a wrong header.
ThreeRows ==
  {Six(<<Rec(r1, member, "earn", "", 2), Rec(r2, member, "adjustment", "debit", 1),
         Rec(r1, member, "earn", "credit", 6)>>),
   Five(<<>>),
   Five(<<Rec(r1, member, "adjustment", "debit", 1)>>),
   Six(<<Rec(r1, member, "earn", "debit", 1)>>),
   Six(<<Rec(r2, member, "other", "credit", 1)>>),
   Five(<<Rec(r2, member, "earn", "", 0)>>),
   [Header |-> "invalid", Records |-> <<>>]}
=============================================================================
