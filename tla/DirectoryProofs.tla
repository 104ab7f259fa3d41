--------------------------- MODULE DirectoryProofs ---------------------------
(* The directory is one with the wallet's view of accounts, for every set of *)
(* ids.                                                                      *)
EXTENDS Directory, TLAPS

Typed == entry \in [IDs -> Roles \cup {"absent", "deleted"}]

LEMMA TypedKeeps == Typed /\ [Next]_entry => Typed'
BY DEF Typed, Next, Enrol, SetRole, Remove

\* A step opens one account, closes one, or, when only a role changes, does nothing
\* that the wallet could see.
LEMMA StepOpensOrCloses == Typed /\ [Next]_entry => [Wallet!Next]_(Wallet!vars)
<1> SUFFICES ASSUME Typed, [Next]_entry PROVE [Wallet!Next]_(Wallet!vars)
  OBVIOUS
<1> DEFINE status(e) == [id \in IDs |-> IF e[id] \in Roles THEN "active" ELSE e[id]]
<1>1. ASSUME NEW id \in IDs, NEW role \in Roles, Enrol(id, role) PROVE Wallet!Open(id)
  <2>1. status(entry)[id] = "absent"
    BY <1>1 DEF Enrol, Roles
  <2>2. status(entry') = [status(entry) EXCEPT ![id] = "active"]
    BY <1>1 DEF Enrol, Typed
  <2> QED
    BY <2>1, <2>2 DEF Wallet!Open
<1>2. ASSUME NEW id \in IDs, Remove(id) PROVE Wallet!Close(id)
  <2>1. status(entry)[id] = "active"
    BY <1>2 DEF Remove
  <2>2. status(entry') = [status(entry) EXCEPT ![id] = "deleted"]
    BY <1>2 DEF Remove, Typed, Roles
  <2> QED
    BY <2>1, <2>2 DEF Wallet!Close
<1>3. ASSUME NEW id \in IDs, NEW role \in Roles, SetRole(id, role) PROVE UNCHANGED Wallet!vars
  <2>1. status(entry') = status(entry)
    BY <1>3 DEF SetRole, Typed
  <2> QED
    BY <2>1 DEF Wallet!vars
<1>4. CASE UNCHANGED entry
  BY <1>4 DEF Wallet!vars
<1> QED
  BY <1>1, <1>2, <1>3, <1>4 DEF Next, Wallet!Next

\* What the wallet, the batch jobs and the ledger take of administration, that accounts
\* open once and close once, is what the directory promises.
THEOREM Lifecycle == Spec => OpensAndCloses
<1>1. Init => Typed /\ Wallet!Init
  <2> SUFFICES ASSUME Init PROVE Typed /\ Wallet!Init
    OBVIOUS
  <2>1. PICK first \in IDs : entry = [id \in IDs |-> IF id = first THEN "admin" ELSE "absent"]
    BY DEF Init
  <2>2. Typed
    BY <2>1 DEF Typed, Roles
  <2>3. [id \in IDs |-> IF entry[id] \in Roles THEN "active" ELSE entry[id]]
          \in [IDs -> {"absent", "active"}]
    BY <2>1 DEF Roles
  <2> QED
    BY <2>2, <2>3 DEF Wallet!Init
<1>2. Spec => []Typed
  BY <1>1, TypedKeeps, PTL DEF Spec
<1> QED
  BY <1>1, <1>2, StepOpensOrCloses, PTL DEF Spec, OpensAndCloses, Wallet!Spec
=============================================================================
