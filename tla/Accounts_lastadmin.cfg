CONSTANTS
  root = root
  alice = alice
  e1 = e1
  e2 = e2
  Bob = Bob
  localhost = localhost
  IDs = {root, alice, Bob}
  PlainIDs = {root, alice}
  Emails = {e1, e2, localhost}
  Formatted = {e1, e2}
  SeedID = root
  SeedEmail = e1
  Ops = {o1, o2}
  NoRequest = NoRequest
  Anonymized = Anonymized
  Requests <- AllRequests
SPECIFICATION Spec
INVARIANT AdminRemains
