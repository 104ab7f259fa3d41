------------------------------- MODULE Listing -------------------------------
(* The paginated lists: the ledger of an account, the audit trail of a batch *)
(* and the accounts (ledger_controller.go, ledger_dao.go, audit_dao.go,      *)
(* wallet_dao.go, dto/pagination.go).  A client reads one of them page by    *)
(* page, for as long as it is told there is more, while rows are written.    *)
(* A request is two statements, a count and a page cut by offset.            *)
EXTENDS Integers, FiniteSets

CONSTANTS
  Rows,                    \* the rows that are written, in the order of their ids
  DefaultLimit, MaxLimit,  \* PAGINATION_DEFAULT_LIMIT, PAGINATION_MAX_LIMIT
  RawLimits, RawOffsets    \* what a query string carries, 0 for what is no number

ASSUME ListingAssumption ==
  /\ Rows \subseteq Int /\ IsFiniteSet(Rows)
  /\ DefaultLimit \in Nat \ {0} /\ MaxLimit \in Nat \ {0}
  /\ RawLimits \subseteq Int /\ RawOffsets \subseteq Int

VARIABLES
  list,     \* the list that is read
  row,      \* its rows: the key they are sorted by; history: when they began and were committed
  now,      \* the clock of recorded_at and created_at, the sequence of the audit ids
  request,  \* the client's request and the count it is served with
  walk      \* history: the rows the client is owed and has seen since its first page,
            \* and how many were repeated, came, came too late to be counted, vanished

vars == <<list, row, now, request, walk>>

NoRequest == [At |-> "done", Limit |-> 1, Offset |-> 0, Total |-> 0]
NewWalk(owed) ==
  [Owed |-> owed, Seen |-> {}, Repeats |-> 0, Came |-> 0, Late |-> 0, Vanished |-> 0]
\* The history of a client that is done is dropped with the next write.
Noted(w) == IF request.At = "done" THEN NewWalk({}) ELSE w
Absent == [State |-> "absent", Key |-> 0, Began |-> 0, Committed |-> 0]
Gone == [State |-> "gone", Key |-> 0, Began |-> 0, Committed |-> 0]
Visible == {r \in Rows : row[r].State = "visible"}

-----------------------------------------------------------------------------
(* The orders of the three lists.  Ledger entries begun in the same          *)
(* microsecond are in no order.                                              *)
NewestFirst(r, s) == row[r].Key > row[s].Key
ByID(r, s)        == row[r].Key < row[s].Key
ByCreation(r, s)  == row[r].Key < row[s].Key \/ (row[r].Key = row[s].Key /\ r < s)

Before_Unordered(r, s) == FALSE
Before(r, s) ==
  \/ list = "ledger" /\ NewestFirst(r, s)
  \/ list = "audit" /\ ByID(r, s)
  \/ list = "accounts" /\ ByCreation(r, s)

WithDefaults(limit, offset) ==
  LET wanted == IF limit <= 0 THEN DefaultLimit ELSE limit IN
  [Limit  |-> IF wanted > MaxLimit THEN MaxLimit ELSE wanted,
   Offset |-> IF offset < 0 THEN 0 ELSE offset]

Validate(p) == p.Limit \in 1 .. MaxLimit /\ p.Offset >= 0

HasMore_AtEnd(offset, total, count) == offset + count <= total
HasMore_Short(offset, total, count) == offset + count + 1 < total
HasMore(offset, total, count) == offset + count < total

-----------------------------------------------------------------------------
Init ==
  /\ list \in {"ledger", "audit", "accounts"}
  /\ row = [r \in Rows |-> Absent]
  /\ now = 0
  /\ request = NoRequest
  /\ walk = NewWalk({})

\* A transaction that will insert a row takes its key; other transactions begin
\* at the same time or later.
Begin_AnyTime(r, next) ==
  /\ row[r].State = "absent"
  /\ \E key \in 0 .. now :
       row' = [row EXCEPT ![r] = [State |-> "pending", Key |-> key, Began |-> now, Committed |-> 0]]
  /\ now' = next
  /\ walk' = Noted(walk)
  /\ UNCHANGED <<list, request>>
Begin(r, next) ==
  /\ row[r].State = "absent"
  /\ row' = [row EXCEPT ![r] = [State |-> "pending", Key |-> now, Began |-> now, Committed |-> 0]]
  /\ now' = next
  /\ walk' = Noted(walk)
  /\ UNCHANGED <<list, request>>

\* now() is the start of the transaction for an entry, of the statement for an
\* account; the id of an audit event comes from a sequence.
BeginEntry(r)   == list = "ledger" /\ \E next \in {now, now + 1} : Begin(r, next)
BeginAccount(r) == list = "accounts" /\ \E next \in {now, now + 1} : Begin(r, next)
BeginEvent(r)   == list = "audit" /\ Begin(r, now + 1)

Commit(r) ==
  /\ row[r].State = "pending"
  /\ row' = [row EXCEPT ![r] = [State |-> "visible", Key |-> @.Key, Began |-> @.Began,
                                Committed |-> now]]
  /\ LET counted == [walk EXCEPT !.Came = @ + 1] IN
       walk' = Noted(IF request.At = "page" THEN [counted EXCEPT !.Late = @ + 1] ELSE counted)
  /\ UNCHANGED <<list, now, request>>

Abort(r) ==
  /\ row[r].State = "pending"
  /\ row' = [row EXCEPT ![r] = Gone]
  /\ walk' = Noted(walk)
  /\ UNCHANGED <<list, now, request>>

\* An account that is soft-deleted leaves the list.
SoftDelete(r) ==
  /\ list = "accounts"
  /\ row[r].State = "visible"
  /\ row' = [row EXCEPT ![r] = Gone]
  /\ walk' = Noted([walk EXCEPT !.Vanished = @ + 1])
  /\ UNCHANGED <<list, now, request>>

-----------------------------------------------------------------------------
\* The first page a client asks for; it reads from the top of the list.
Open_Raw(limit, offset) ==
  LET p == WithDefaults(limit, offset) IN
  /\ request.At = "done"
  /\ Validate(p)
  /\ request' = [At |-> "count", Limit |-> limit, Offset |-> p.Offset, Total |-> 0]
  /\ walk' = NewWalk(IF p.Offset = 0 THEN Visible ELSE {})
  /\ UNCHANGED <<list, row, now>>
Open(limit, offset) ==
  LET p == WithDefaults(limit, offset) IN
  /\ request.At = "done"
  /\ Validate(p)
  /\ request' = [At |-> "count", Limit |-> p.Limit, Offset |-> p.Offset, Total |-> 0]
  /\ walk' = NewWalk(IF p.Offset = 0 THEN Visible ELSE {})
  /\ UNCHANGED <<list, row, now>>

ListLedger == list = "ledger" /\ \E limit \in RawLimits, offset \in RawOffsets : Open(limit, offset)
Audit == list = "audit" /\ \E limit \in RawLimits, offset \in RawOffsets : Open(limit, offset)
List == list = "accounts" /\ \E limit \in RawLimits, offset \in RawOffsets : Open(limit, offset)

CountRows ==
  /\ request.At = "count"
  /\ request' = [request EXCEPT !.At = "page", !.Total = Cardinality(Visible)]
  /\ walk' = [walk EXCEPT !.Late = 0]
  /\ UNCHANGED <<list, row, now>>

Least(a, b) == IF a <= b THEN a ELSE b
First(some, all) == \A r \in some, s \in all \ some : ~Before(s, r)

\* SELECT ... ORDER BY ... LIMIT ... OFFSET, and the answer.
FetchPage ==
  /\ request.At = "page"
  /\ \E skipped \in SUBSET Visible : \E page \in SUBSET (Visible \ skipped) :
       LET rest == Visible \ skipped
           more == HasMore(request.Offset, request.Total, Cardinality(page))
       IN
       /\ Cardinality(skipped) = Least(request.Offset, Cardinality(Visible))
       /\ Cardinality(page) = Least(request.Limit, Cardinality(rest))
       /\ First(skipped, Visible) /\ First(page, rest)
       /\ request' = IF more THEN [At |-> "answered", Limit |-> request.Limit, Total |-> 0,
                                   Offset |-> request.Offset + Cardinality(page)]
                     ELSE NoRequest
       /\ LET again == [walk EXCEPT !.Repeats = @ + Cardinality(page \cap walk.Seen)] IN
            walk' = [again EXCEPT !.Seen = @ \cup page]
  /\ UNCHANGED <<list, row, now>>

\* A statement fails and the client asks for the same page again.
Fail ==
  /\ request.At \in {"count", "page"}
  /\ request' = [At |-> "count", Limit |-> request.Limit, Offset |-> request.Offset, Total |-> 0]
  /\ UNCHANGED <<list, row, now, walk>>

\* The client asks for the page after the one it has, as long as has_more is true.
Follow ==
  /\ request.At = "answered"
  /\ request' = [request EXCEPT !.At = "count"]
  /\ UNCHANGED <<list, row, now, walk>>

Read == ListLedger \/ Audit \/ List \/ CountRows \/ FetchPage \/ Fail \/ Follow

Next ==
  \/ \E r \in Rows : \/ BeginEntry(r) \/ BeginAccount(r) \/ BeginEvent(r)
                     \/ Commit(r) \/ Abort(r) \/ SoftDelete(r)
  \/ Read

Spec == Init /\ [][Next]_vars

\* The server executes a request that was made; not every execution of a page
\* fails; the client goes on.
Fairness == WF_vars(CountRows \/ Follow) /\ SF_vars(FetchPage)

FairSpec == Spec /\ Fairness

-----------------------------------------------------------------------------
\* Every variable holds a value of its type; a request that reaches the database
\* has a limit between 1 and the configured maximum.
TypeOK ==
  /\ list \in {"ledger", "audit", "accounts"}
  /\ row \in [Rows -> [State : {"absent", "pending", "visible", "gone"}, Key : Nat,
                   Began : Nat, Committed : Nat]]
  /\ now \in Nat
  /\ request \in [At : {"count", "page", "answered", "done"}, Limit : 1 .. MaxLimit,
                  Offset : Nat, Total : Nat]
  /\ walk \in [Owed : SUBSET Rows, Seen : SUBSET Rows, Repeats : Nat, Came : Nat,
               Late : Nat, Vanished : Nat]

\* The lists are in the order of writing except for transactions that overlap: a
\* row that was committed before another began is on its older side.
OrderedUnlessConcurrent ==
  \A r, s \in Visible : row[r].Committed < row[s].Began =>
    IF list = "ledger" THEN Before(s, r) ELSE Before(r, s)

\* No two visible rows share a place, in a list whose order does not break ties.
NoTies == list = "ledger" => \A r, s \in Visible : row[r].Key = row[s].Key => r = s

\* A client that follows has_more to the end has seen every row that was there
\* from the first page on, but for one per row deleted meanwhile and one per row
\* committed between the count and the page of its last request.
MissedBoundedByRaces ==
  request.At = "done" /\ NoTies =>
    Cardinality((walk.Owed \cap Visible) \ walk.Seen) <= walk.Vanished + walk.Late

\* A row is shown twice only for a row that was committed in front of it since
\* the first page: without writes nothing repeats.
RepeatsBoundedByCommits == NoTies => walk.Repeats <= walk.Came

\* A client that is told there is more got further with the page it was given, and not
\* past the rows; it is sent on with nothing new only if rows were deleted between the
\* count and the page, so that no list leads a client in circles by itself.
PagesAdvance ==
  [][request.At = "page" /\ request'.At = "answered" =>
       \/ request'.Offset \in request.Offset + 1 .. Cardinality(Visible)
       \/ Cardinality(Visible) < request.Total]_vars

\* A client that follows has_more comes to the end: no page leads back to itself.
WalkEnds == request.At = "count" ~> request.At = "done"
=============================================================================
