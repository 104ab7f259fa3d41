------------------------------ MODULE Requests ------------------------------
(* Request bodies: what is left of them after Sanitize, and which ones the   *)
(* handlers take (src/internal/models/dto/requests.go).  A body says whether *)
(* it is one JSON object of known fields (Decodes), whether its fields other *)
(* than the ones named are present and well-formed (Complete), and the text  *)
(* of the named ones.                                                        *)
EXTENDS Points

Roles == {"member", "admin"}

\* TrimSpace, and ToLower.
Trimmed(text) == IF text \in {" ", ""} THEN "" ELSE text
Lower(text) ==
  CASE text = "ADMIN"       -> "admin"
    [] text = " Adjustment" -> "adjustment"
    [] OTHER                -> Trimmed(text)

RoleToCreate(body) == IF Lower(body.Role) = "" THEN "member" ELSE Lower(body.Role)
CreateValid(body) ==
  /\ body.Decodes /\ body.Complete
  /\ Trimmed(body.ID) # ""
  /\ RoleToCreate(body) \in Roles

UpdateValid(body) == body.Decodes /\ body.Complete /\ Lower(body.Role) \in Roles

\* The Idempotency-Key header and the ref of the body must agree when both are given.
ResolveTransactionRef(key, ref) ==
  LET header == Trimmed(key)
      body == Trimmed(ref)
  IN CASE header # "" /\ body # "" /\ header # body -> "mismatch"
       [] header # ""                               -> header
       [] OTHER                                     -> body

ValidateWithResolvedRef_AnyDirection(ref, kind, direction, points) ==
  ref # "" /\ kind \in Kinds /\ points > 0
ValidateWithResolvedRef(ref, kind, direction, points) ==
  /\ ref # ""
  /\ kind \in Kinds
  /\ ResolveTransactionDirection(kind, direction) # "invalid"
  /\ points > 0

\* postTransaction up to the wallet: a member may not post an adjustment.
TransactionValid_EarlyCheck(body, memberOnly) ==
  LET ref == ResolveTransactionRef(body.Key, body.Ref) IN
  /\ body.Decodes /\ body.Complete
  /\ ~(memberOnly /\ body.Kind = "adjustment")
  /\ ref # "mismatch"
  /\ ValidateWithResolvedRef(ref, Lower(body.Kind), Lower(body.Direction), body.Points)
TransactionValid(body, memberOnly) ==
  LET ref == ResolveTransactionRef(body.Key, body.Ref) IN
  /\ body.Decodes /\ body.Complete
  /\ ~(memberOnly /\ Lower(body.Kind) = "adjustment")
  /\ ref # "mismatch"
  /\ ValidateWithResolvedRef(ref, Lower(body.Kind), Lower(body.Direction), body.Points)
=============================================================================
