----------------------------- MODULE HttpRoutes -----------------------------
(* The route table (src/internal/router/router.go): for each pattern of the  *)
(* mux the handler behind it, whether its body has to be JSON and the role   *)
(* its chain asks for.  A path is the sequence of its segments.              *)
EXTENDS Integers, Sequences

\* A wildcard segment.
AnyID == "{id}"

Route(method, path, json, role, handler) ==
  [Method |-> method, Path |-> path, JSON |-> json, Role |-> role, Handler |-> handler]

AuthRoutes == {
  Route("POST",   <<"auth", "login">>,                      TRUE,  "public", "Login"),
  Route("POST",   <<"auth", "logout">>,                     FALSE, "any",    "Logout"),
  Route("POST",   <<"auth", "forgot-password">>,            TRUE,  "public", "ForgotPassword"),
  Route("POST",   <<"auth", "reset-password">>,             TRUE,  "public", "ResetPassword")}

AdminRoutes == {
  Route("GET",    <<"accounts">>,                           FALSE, "admin",  "List"),
  Route("POST",   <<"accounts">>,                           TRUE,  "admin",  "Create"),
  Route("PATCH",  <<"accounts", AnyID>>,                    TRUE,  "admin",  "Update"),
  Route("DELETE", <<"accounts", AnyID>>,                    FALSE, "admin",  "Delete"),
  Route("GET",    <<"accounts", AnyID>>,                    FALSE, "admin",  "Get"),
  Route("GET",    <<"accounts", AnyID, "balance">>,         FALSE, "admin",  "Balance"),
  Route("GET",    <<"accounts", AnyID, "ledger">>,          FALSE, "admin",  "AccountLedger"),
  Route("POST",   <<"accounts", AnyID, "transactions">>,    TRUE,  "admin",  "AdminTransaction")}

MemberRoutes == {
  Route("GET",    <<"accounts", "me", "balance">>,          FALSE, "member", "MyBalance"),
  Route("PATCH",  <<"accounts", "me">>,                     TRUE,  "member", "UpdateMe"),
  Route("DELETE", <<"accounts", "me">>,                     FALSE, "member", "DeleteMe"),
  Route("GET",    <<"accounts", "me", "ledger">>,           FALSE, "member", "MyLedger"),
  Route("POST",   <<"transactions">>,                       TRUE,  "member", "MemberTransaction")}

BatchRoutes == {
  Route("POST",   <<"batch", "transactions">>,              FALSE, "admin",  "Upload"),
  Route("GET",    <<"batch", "jobs", AnyID>>,               FALSE, "admin",  "GetJob"),
  Route("GET",    <<"batch", "jobs", AnyID, "audit">>,      FALSE, "admin",  "Audit")}

Routes == AuthRoutes \cup AdminRoutes \cup MemberRoutes \cup BatchRoutes
            \cup {Route("GET", <<"health">>, FALSE, "public", "Health")}

Fits(pattern, path) ==
  /\ Len(pattern) = Len(path)
  /\ \A i \in 1 .. Len(path) : pattern[i] \in {AnyID, path[i]}

\* A GET pattern takes HEAD too; the chain's Methods then refuses it.
Matching(method, path) ==
  {r \in Routes : /\ r.Method = method \/ (r.Method = "GET" /\ method = "HEAD")
                  /\ Fits(r.Path, path)}

\* The mux prefers a literal segment to a wildcard.
MostSpecific_Wildcard(routes) ==
  {r \in routes : \A s \in routes : Fits(r.Path, s.Path)}
MostSpecific(routes) ==
  {r \in routes : \A s \in routes : Fits(s.Path, r.Path)}

\* The account id in the path.
PathID(path) == IF Len(path) >= 2 THEN path[2] ELSE ""
=============================================================================
