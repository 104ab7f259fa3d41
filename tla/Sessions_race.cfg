CONSTANTS
  t1 = t1
  t2 = t2
  t3 = t3
  Accounts = {a1}
  Passwords = {p1, p2}
  Tokens = {t1, t2, t3}
  Resets = {x1, x2}
  Calls = {c1, c2}
  FirstPassword = p1
  SingleActiveSession = TRUE
  None = None
SPECIFICATION Spec
CHECK_DEADLOCK FALSE
SYMMETRY TokenSymmetry
INVARIANTS
  TypeOK
  ResetUsedOnce
  SessionsBoundedByRace
  OldSessionsBoundedByRace
PROPERTY EndedForGood
