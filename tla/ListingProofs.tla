---------------------------- MODULE ListingProofs ----------------------------
(* Proofs about Listing, for every finite set of rows, every query string    *)
(* and all positive page limits.                                             *)
EXTENDS Listing, FiniteSetTheorems, TLAPS

\* Whatever the query string carries, the defaults make of it a page that
\* Validate lets through: a list is never refused for its limit or offset.
THEOREM DefaultsAreValid ==
  ASSUME NEW limit \in Int, NEW offset \in Int
  PROVE  Validate(WithDefaults(limit, offset))
BY ListingAssumption DEF Validate, WithDefaults

\* The keys follow the clock: with TypeOK, the inductive invariant.
Clocked ==
  \A r \in Rows :
    /\ row[r].State \in {"pending", "visible"} => row[r].Key = row[r].Began /\ row[r].Began <= now
    /\ row[r].State = "visible" => row[r].Began <= row[r].Committed

IInv == TypeOK /\ Clocked

RowType == [State : {"absent", "pending", "visible", "gone"}, Key : Nat, Began : Nat, Committed : Nat]
RequestType == [At : {"count", "page", "answered", "done"}, Limit : 1 .. MaxLimit,
                Offset : Nat, Total : Nat]
WalkType == [Owed : SUBSET Rows, Seen : SUBSET Rows, Repeats : Nat, Came : Nat,
             Late : Nat, Vanished : Nat]

LEMMA Sizes ==
  ASSUME NEW S \in SUBSET Rows
  PROVE  Cardinality(S) \in Nat
BY ListingAssumption, FS_Subset, FS_CardinalityType

LEMMA VisibleRows == Visible \in SUBSET Rows
BY DEF Visible

LEMMA NewWalkType ==
  ASSUME NEW owed \in SUBSET Rows
  PROVE  NewWalk(owed) \in WalkType
BY DEF NewWalk, WalkType

LEMMA NotedType ==
  ASSUME NEW w \in WalkType
  PROVE  Noted(w) \in WalkType
BY NewWalkType DEF Noted

LEMMA InitIInv == Init => IInv
BY ListingAssumption, NewWalkType
   DEF Init, IInv, TypeOK, Clocked, Absent, NoRequest, WalkType, RequestType

-----------------------------------------------------------------------------
(* The writers.                                                              *)

\* A step that writes one row and leaves the reader's request alone.
LEMMA RowKeeps ==
  ASSUME IInv, NEW r \in Rows, NEW new \in RowType, NEW next \in Nat, now <= next,
         row' = [row EXCEPT ![r] = new], now' = next, UNCHANGED <<list, request>>,
         walk' \in WalkType,
         new.State \in {"pending", "visible"} => new.Key = new.Began /\ new.Began <= next,
         new.State = "visible" => new.Began <= new.Committed
  PROVE  IInv'
<1>1. row' \in [Rows -> RowType]
  BY DEF IInv, TypeOK, RowType
<1>2. TypeOK'
  BY <1>1 DEF IInv, TypeOK, RowType, WalkType
<1>3. row'[r] = new /\ \A s \in Rows \ {r} : row'[s] = row[s]
  BY DEF IInv, TypeOK
<1>4. \A s \in Rows : row[s].Began \in Nat
  BY DEF IInv, TypeOK
<1>5. Clocked'
  BY <1>3, <1>4 DEF IInv, TypeOK, Clocked
<1> QED
  BY <1>2, <1>5 DEF IInv

LEMMA BeginKeeps ==
  ASSUME IInv, NEW r \in Rows, NEW next \in {now, now + 1}, Begin(r, next)
  PROVE  IInv'
<1> DEFINE new == [State |-> "pending", Key |-> now, Began |-> now, Committed |-> 0]
<1>1. now \in Nat /\ next \in Nat /\ now <= next
  BY DEF IInv, TypeOK
<1>2. new \in RowType
  BY <1>1 DEF RowType
<1>3. walk' \in WalkType
  BY NotedType DEF IInv, TypeOK, WalkType, Begin
<1> QED
  BY <1>1, <1>2, <1>3, RowKeeps DEF Begin

LEMMA CommitKeeps ==
  ASSUME IInv, NEW r \in Rows, Commit(r)
  PROVE  IInv'
<1> DEFINE old == row[r]
           new == [State |-> "visible", Key |-> old.Key, Began |-> old.Began, Committed |-> now]
<1>1. old \in RowType /\ now \in Nat
  BY DEF IInv, TypeOK, RowType
<1>2. new \in RowType
  BY <1>1 DEF RowType
<1>3. row' = [row EXCEPT ![r] = new]
  BY DEF Commit
<1>4. old.Key = old.Began /\ old.Began <= now
  BY DEF Commit, IInv, Clocked
<1> DEFINE counted == [walk EXCEPT !.Came = @ + 1]
           late == [counted EXCEPT !.Late = @ + 1]
<1>5. counted \in WalkType
  BY DEF IInv, TypeOK, WalkType
<1>6. walk' = Noted(late) \/ walk' = Noted(counted)
  BY DEF Commit
<1> HIDE DEF counted
<1>7. late \in WalkType
  BY <1>5 DEF WalkType
<1>8. walk' \in WalkType
  BY <1>5, <1>6, <1>7, NotedType
<1>9. UNCHANGED <<list, request>> /\ now' = now /\ now <= now
  BY <1>1 DEF Commit
<1>10. new.Key = new.Began /\ new.Began <= now /\ new.Began <= new.Committed
  BY <1>4
<1> HIDE DEF new
<1> QED
  BY <1>1, <1>2, <1>3, <1>8, <1>9, <1>10, RowKeeps

LEMMA LeaveKeeps ==
  ASSUME IInv, NEW r \in Rows, Abort(r) \/ SoftDelete(r)
  PROVE  IInv'
<1>1. Gone \in RowType /\ now \in Nat /\ now <= now
  BY DEF Gone, RowType, IInv, TypeOK
<1>2. walk' \in WalkType
  BY NotedType DEF IInv, TypeOK, WalkType, Abort, SoftDelete
<1> QED
  BY <1>1, <1>2, RowKeeps DEF Abort, SoftDelete, Gone

-----------------------------------------------------------------------------
(* The reader.                                                               *)

LEMMA ReadKeeps ==
  ASSUME IInv, UNCHANGED <<list, row, now>>, request' \in RequestType, walk' \in WalkType
  PROVE  IInv'
BY DEF IInv, TypeOK, Clocked, RequestType, WalkType

LEMMA OpenKeeps ==
  ASSUME IInv, NEW limit \in RawLimits, NEW offset \in RawOffsets, Open(limit, offset)
  PROVE  IInv'
<1> DEFINE p == WithDefaults(limit, offset)
<1>1. p.Limit \in 1 .. MaxLimit /\ p.Offset \in Nat
  BY ListingAssumption DEF WithDefaults
<1>2. request' \in RequestType
  BY <1>1 DEF Open, RequestType
<1>3. walk' \in WalkType
  BY VisibleRows, NewWalkType DEF Open
<1> QED
  BY <1>2, <1>3, ReadKeeps DEF Open

LEMMA CountRowsKeeps ==
  ASSUME IInv, CountRows
  PROVE  IInv'
<1>1. request' \in RequestType /\ walk' \in WalkType
  BY VisibleRows, Sizes DEF CountRows, IInv, TypeOK, RequestType, WalkType
<1> QED
  BY <1>1, ReadKeeps DEF CountRows

LEMMA FetchPageKeeps ==
  ASSUME IInv, FetchPage
  PROVE  IInv'
<1>1. PICK skipped \in SUBSET Visible : \E page \in SUBSET (Visible \ skipped) :
        /\ \/ request' = [At |-> "answered", Limit |-> request.Limit, Total |-> 0,
                          Offset |-> request.Offset + Cardinality(page)]
           \/ request' = NoRequest
        /\ LET again == [walk EXCEPT !.Repeats = @ + Cardinality(page \cap walk.Seen)] IN
             walk' = [again EXCEPT !.Seen = @ \cup page]
  BY DEF FetchPage
<1>2. PICK page \in SUBSET (Visible \ skipped) :
        /\ \/ request' = [At |-> "answered", Limit |-> request.Limit, Total |-> 0,
                          Offset |-> request.Offset + Cardinality(page)]
           \/ request' = NoRequest
        /\ LET again == [walk EXCEPT !.Repeats = @ + Cardinality(page \cap walk.Seen)] IN
             walk' = [again EXCEPT !.Seen = @ \cup page]
  BY <1>1
<1>3. page \in SUBSET Rows /\ page \cap walk.Seen \in SUBSET Rows
  BY VisibleRows
<1>4. Cardinality(page) \in Nat /\ Cardinality(page \cap walk.Seen) \in Nat
  BY <1>3, Sizes
<1>5. request' \in RequestType
  BY <1>2, <1>4, ListingAssumption DEF IInv, TypeOK, RequestType, NoRequest
<1> DEFINE repeats == walk.Repeats + Cardinality(page \cap walk.Seen)
           again == [walk EXCEPT !.Repeats = repeats]
<1>6. walk' = [again EXCEPT !.Seen = @ \cup page]
  BY <1>2
<1>7. walk \in WalkType /\ repeats \in Nat
  BY <1>4 DEF IInv, TypeOK, WalkType
<1> HIDE DEF repeats
<1>8. again \in WalkType
  BY <1>7 DEF WalkType
<1> HIDE DEF again
<1>9. walk' \in WalkType
  BY <1>3, <1>6, <1>8 DEF WalkType
<1> QED
  BY <1>5, <1>9, ReadKeeps DEF FetchPage

LEMMA AgainKeeps ==
  ASSUME IInv, Fail \/ Follow
  PROVE  IInv'
<1>1. request' \in RequestType /\ walk' \in WalkType
  BY DEF Fail, Follow, IInv, TypeOK, RequestType, WalkType
<1> QED
  BY <1>1, ReadKeeps DEF Fail, Follow

THEOREM Invariant == Spec => []IInv
<1>1. ASSUME IInv, Next PROVE IInv'
  BY <1>1, BeginKeeps, CommitKeeps, LeaveKeeps, OpenKeeps, CountRowsKeeps, FetchPageKeeps,
     AgainKeeps DEF Next, Read, BeginEntry, BeginAccount, BeginEvent, ListLedger, Audit, List
<1>2. ASSUME IInv, UNCHANGED vars PROVE IInv'
  BY <1>2 DEF IInv, TypeOK, Clocked, vars
<1> QED
  BY InitIInv, <1>1, <1>2, PTL DEF Spec

\* Every variable keeps its type, and every request that reaches the database a
\* limit the configuration allows.
THEOREM TypeCorrect == Spec => []TypeOK
<1>1. IInv => TypeOK
  BY DEF IInv
<1> QED
  BY <1>1, Invariant, PTL

\* Only transactions that overlap are listed in another order than they were written.
THEOREM Ordered == Spec => []OrderedUnlessConcurrent
<1>1. IInv => OrderedUnlessConcurrent
  <2> SUFFICES ASSUME IInv, NEW r \in Visible, NEW s \in Visible,
                      row[r].Committed < row[s].Began
               PROVE  row[r].Key < row[s].Key /\ list \in {"ledger", "audit", "accounts"}
    BY DEF OrderedUnlessConcurrent, Before, NewestFirst, ByID, ByCreation
  <2>1. /\ row[r].Key = row[r].Began /\ row[s].Key = row[s].Began
        /\ row[r].Began <= row[r].Committed
    BY DEF IInv, Clocked, Visible
  <2>2. row[r] \in RowType /\ row[s] \in RowType
    BY DEF IInv, TypeOK, RowType, Visible
  <2> QED
    BY <2>1, <2>2 DEF RowType, IInv, TypeOK
<1> QED
  BY <1>1, Invariant, PTL

-----------------------------------------------------------------------------
(***************************************************************************)
(* The walk.  Where no two rows tie, every row has a rank of its own, the   *)
(* number of rows ahead of it, and a page is an interval of ranks.  A write *)
(* moves at most one row over the offset of the reader.                     *)
(***************************************************************************)

Ahead(r) == {s \in Visible : Before(s, r)}
Rank(r) == Cardinality(Ahead(r))

\* The ids of the audit trail are handed out once; a row that was owed or seen does not
\* come again.
Known ==
  /\ list = "audit" => \A r \in Rows : row[r].State \in {"pending", "visible"} => row[r].Key < now
  /\ list = "audit" => \A r, s \in Rows :
       /\ row[r].State \in {"pending", "visible"} /\ row[s].State \in {"pending", "visible"}
       /\ row[r].Key = row[s].Key
       => r = s
  /\ \A r \in walk.Owed \cup walk.Seen : row[r].State \in {"visible", "gone"}

\* What Before is then among the visible rows.
Ordering ==
  /\ \A r \in Visible : ~Before(r, r)
  /\ \A r, s \in Visible : r # s => Before(r, s) \/ Before(s, r)
  /\ \A r, s \in Visible : Before(r, s) => ~Before(s, r)
  /\ \A r, s, u \in Visible : Before(r, s) /\ Before(s, u) => Before(r, u)

LEMMA TotalOrder ==
  ASSUME TypeOK, Known, NoTies
  PROVE  Ordering
<1>1. \A r \in Visible : r \in Int /\ row[r].Key \in Int
  BY ListingAssumption DEF Visible, TypeOK
<1>2. list \in {"ledger", "audit", "accounts"}
  BY DEF TypeOK
<1>3. CASE list = "ledger"
  <2>1. \A r, s \in Visible : Before(r, s) <=> row[r].Key > row[s].Key
    BY <1>3 DEF Before, NewestFirst
  <2>2. \A r, s \in Visible : row[r].Key = row[s].Key => r = s
    BY <1>3 DEF NoTies
  <2> QED
    BY <1>1, <2>1, <2>2 DEF Ordering
<1>4. CASE list = "audit"
  <2>1. \A r, s \in Visible : Before(r, s) <=> row[r].Key < row[s].Key
    BY <1>4 DEF Before, ByID
  <2>2. \A r, s \in Visible : row[r].Key = row[s].Key => r = s
    BY <1>4 DEF Known, Visible
  <2> QED
    BY <1>1, <2>1, <2>2 DEF Ordering
<1>5. CASE list = "accounts"
  <2>1. \A r, s \in Visible : Before(r, s) <=> row[r].Key < row[s].Key \/ (row[r].Key = row[s].Key /\ r < s)
    BY <1>5 DEF Before, ByCreation
  <2> QED
    BY <1>1, <2>1 DEF Ordering
<1> QED
  BY <1>2, <1>3, <1>4, <1>5

LEMMA Ranks ==
  ASSUME NEW r
  PROVE  Ahead(r) \in SUBSET Visible /\ IsFiniteSet(Ahead(r)) /\ Rank(r) \in Nat
<1>1. Ahead(r) \subseteq Visible /\ Ahead(r) \subseteq Rows
  BY VisibleRows DEF Ahead
<1> QED
  BY <1>1, ListingAssumption, FS_Subset, FS_CardinalityType DEF Rank

\* Sets of rows are finite; the larger set has as many rows, or one more.
LEMMA Fewer ==
  ASSUME NEW S \in SUBSET Rows, NEW T \in SUBSET S
  PROVE  Cardinality(T) <= Cardinality(S) /\ Cardinality(S) \in Nat /\ Cardinality(T) \in Nat
         /\ (Cardinality(T) = Cardinality(S) => T = S)
BY ListingAssumption, FS_Subset, FS_CardinalityType

LEMMA FewerBut ==
  ASSUME NEW S \in SUBSET Rows, NEW x, NEW T \in SUBSET (S \cup {x})
  PROVE  Cardinality(T) <= Cardinality(S) + 1
<1>1. IsFiniteSet(S) /\ Cardinality(S) \in Nat
  BY ListingAssumption, FS_Subset, FS_CardinalityType
<1>2. /\ IsFiniteSet(S \cup {x})
      /\ Cardinality(S \cup {x}) = IF x \in S THEN Cardinality(S) ELSE Cardinality(S) + 1
  BY <1>1, FS_AddElement
<1>3. Cardinality(T) <= Cardinality(S \cup {x}) /\ Cardinality(T) \in Nat
  BY <1>2, FS_Subset, FS_CardinalityType
<1> QED
  BY <1>1, <1>2, <1>3

LEMMA Apart ==
  ASSUME NEW S \in SUBSET Rows, NEW T \in SUBSET Rows, S \cap T = {}
  PROVE  Cardinality(S \cup T) = Cardinality(S) + Cardinality(T)
<1>1. IsFiniteSet(S) /\ IsFiniteSet(T) /\ Cardinality(S) \in Nat /\ Cardinality(T) \in Nat
  BY ListingAssumption, FS_Subset, FS_CardinalityType
<1>2. Cardinality(S \cup T) = Cardinality(S) + Cardinality(T) - Cardinality(S \cap T)
  BY <1>1, FS_Union
<1>3. Cardinality(S \cap T) = 0
  BY FS_EmptySet
<1> QED
  BY <1>1, <1>2, <1>3

LEMMA RankUnique ==
  ASSUME Ordering, NEW r \in Visible, NEW s \in Visible, Rank(r) = Rank(s)
  PROVE  r = s
<1>1. ASSUME NEW u \in Visible, NEW v \in Visible, Before(u, v) PROVE Rank(u) < Rank(v)
  <2>1. Ahead(u) \subseteq Ahead(v) /\ u \in Ahead(v) /\ u \notin Ahead(u)
    BY <1>1 DEF Ordering, Ahead
  <2>2. Ahead(u) \in SUBSET Rows /\ Ahead(v) \in SUBSET Rows
    BY Ranks, VisibleRows
  <2>3. Cardinality(Ahead(u)) <= Cardinality(Ahead(v)) /\ Cardinality(Ahead(u)) # Cardinality(Ahead(v))
    BY <2>1, <2>2, Fewer
  <2> QED
    BY <2>3, Ranks DEF Rank
<1>2. Rank(r) \in Nat
  BY Ranks
<1>3. r # s => Before(r, s) \/ Before(s, r)
  BY DEF Ordering
<1> QED
  BY <1>1, <1>2, <1>3

\* The first rows of a list are those of a rank below their number.
LEMMA FirstRanks ==
  ASSUME Ordering, NEW D \in SUBSET Visible, First(D, Visible), NEW r \in Visible
  PROVE  r \in D <=> Rank(r) < Cardinality(D)
<1>1. D \in SUBSET Rows /\ Ahead(r) \in SUBSET Rows
  BY VisibleRows, Ranks
<1>2. CASE r \in D
  <2>1. Ahead(r) \subseteq D /\ r \notin Ahead(r)
    BY <1>2 DEF First, Ahead, Ordering
  <2> QED
    BY <1>1, <1>2, <2>1, Fewer DEF Rank
<1>3. CASE r \notin D
  <2>1. D \subseteq Ahead(r)
    BY <1>3 DEF First, Ahead, Ordering
  <2> QED
    BY <1>1, <1>3, <2>1, Fewer DEF Rank
<1> QED
  BY <1>2, <1>3

\* One row at most has a given rank.
LEMMA AtRank ==
  ASSUME Ordering, NEW n
  PROVE  \E x : \A r \in Visible : Rank(r) = n => r = x
BY RankUnique

\* Rows seen that are yet to come, and rows not seen that are behind the reader.
SeenAhead == {r \in Visible \cap walk.Seen : Rank(r) >= request.Offset}
LeftBehind == {r \in (Visible \cap walk.Owed) \ walk.Seen : Rank(r) < request.Offset}

Walked ==
  IF request.At = "done"
  THEN /\ walk.Repeats <= walk.Came
       /\ Cardinality((walk.Owed \cap Visible) \ walk.Seen) <= walk.Vanished + walk.Late
  ELSE /\ Cardinality(SeenAhead) + walk.Repeats <= walk.Came
       /\ Cardinality(LeftBehind) <= walk.Vanished
       /\ request.At = "page" => Cardinality(Visible) <= request.Total + walk.Late

WInv == IInv /\ Known /\ (NoTies => Walked)

LEMMA WalkSets ==
  /\ SeenAhead \in SUBSET Rows /\ LeftBehind \in SUBSET Rows /\ Visible \in SUBSET Rows
  /\ Cardinality(SeenAhead) \in Nat /\ Cardinality(LeftBehind) \in Nat /\ Cardinality(Visible) \in Nat
<1>1. SeenAhead \in SUBSET Rows /\ LeftBehind \in SUBSET Rows /\ Visible \in SUBSET Rows
  BY VisibleRows DEF SeenAhead, LeftBehind
<1> QED
  BY <1>1, Sizes

LEMMA FreshWalk ==
  ASSUME request.At = "done", walk = NewWalk({})
  PROVE  Walked
<1>1. (walk.Owed \cap Visible) \ walk.Seen = {}
  BY DEF NewWalk
<1>2. walk.Repeats = 0 /\ walk.Came = 0 /\ walk.Vanished = 0 /\ walk.Late = 0
  BY DEF NewWalk
<1>3. Cardinality((walk.Owed \cap Visible) \ walk.Seen) = 0
  BY <1>1, FS_EmptySet
<1> QED
  BY <1>2, <1>3 DEF Walked

LEMMA InitWInv == Init => WInv
<1> SUFFICES ASSUME Init PROVE WInv
  OBVIOUS
<1>1. Known
  BY DEF Init, Known, Absent, NewWalk
<1>2. Walked
  BY FreshWalk DEF Init, NoRequest
<1> QED
  BY <1>1, <1>2, InitIInv DEF WInv

-----------------------------------------------------------------------------
(* Writes and the walk.                                                      *)

\* What a write does to the history.
Noting(came, late, vanished) ==
  IF request.At = "done" THEN walk' = NewWalk({})
  ELSE /\ walk'.Owed = walk.Owed /\ walk'.Seen = walk.Seen /\ walk'.Repeats = walk.Repeats
       /\ walk'.Came = walk.Came + came /\ walk'.Late = walk.Late + late
       /\ walk'.Vanished = walk.Vanished + vanished

LEMMA DoneWalked ==
  ASSUME request'.At = "done", walk' = NewWalk({})
  PROVE  Walked'
<1>1. ((walk.Owed \cap Visible) \ walk.Seen)' = {}
  BY DEF NewWalk
<1>2. walk'.Repeats = 0 /\ walk'.Came = 0 /\ walk'.Vanished = 0 /\ walk'.Late = 0
  BY DEF NewWalk
<1>3. Cardinality((walk.Owed \cap Visible) \ walk.Seen)' = 0
  BY <1>1, FS_EmptySet
<1> QED
  BY <1>2, <1>3 DEF Walked

\* A write moves the reader's bounds as far as it is counted.
LEMMA NotingWalked ==
  ASSUME WInv, NoTies, NEW came \in Nat, NEW late \in Nat, NEW vanished \in Nat,
         request' = request, request.At # "done", Noting(came, late, vanished),
         Cardinality(SeenAhead)' <= Cardinality(SeenAhead) + came,
         Cardinality(LeftBehind)' <= Cardinality(LeftBehind) + vanished,
         request.At = "page" => Cardinality(Visible)' <= Cardinality(Visible) + late,
         Cardinality(SeenAhead)' \in Nat, Cardinality(LeftBehind)' \in Nat,
         Cardinality(Visible)' \in Nat
  PROVE  Walked'
<1>1. /\ walk'.Repeats = walk.Repeats /\ walk'.Came = walk.Came + came
      /\ walk'.Late = walk.Late + late /\ walk'.Vanished = walk.Vanished + vanished
  BY DEF Noting
<1>2. /\ walk.Repeats \in Nat /\ walk.Came \in Nat /\ walk.Late \in Nat /\ walk.Vanished \in Nat
      /\ request.Total \in Nat
  BY DEF WInv, IInv, TypeOK
<1>3. /\ Cardinality(SeenAhead) + walk.Repeats <= walk.Came
      /\ Cardinality(LeftBehind) <= walk.Vanished
      /\ request.At = "page" => Cardinality(Visible) <= request.Total + walk.Late
  BY DEF WInv, Walked
<1>4. Cardinality(SeenAhead)' + walk'.Repeats <= walk'.Came
  BY <1>1, <1>2, <1>3, WalkSets
<1>5. Cardinality(LeftBehind)' <= walk'.Vanished
  BY <1>1, <1>2, <1>3, WalkSets
<1>6. request'.At = "page" => Cardinality(Visible)' <= request'.Total + walk'.Late
  BY <1>1, <1>2, <1>3, WalkSets
<1> QED
  BY <1>4, <1>5, <1>6 DEF Walked

\* Where the rows that are visible keep their order, a place among them is kept.
LEMMA SameOrder ==
  ASSUME list' = list, NEW r, NEW s, row'[r] = row[r], row'[s] = row[s]
  PROVE  Before(r, s)' = Before(r, s)
BY DEF Before, NewestFirst, ByID, ByCreation

\* A row that does not become visible and was not.
LEMMA HiddenWalked ==
  ASSUME WInv, NEW r \in Rows, row[r].State \in {"absent", "pending"},
         \A s \in Rows \ {r} : row'[s] = row[s], row'[r].State \in {"pending", "gone"},
         UNCHANGED <<list, request>>, Noting(0, 0, 0)
  PROVE  NoTies' => Walked'
<1>1. Visible' = Visible /\ \A s \in Visible : row'[s] = row[s]
  BY DEF Visible
<1>2. \A s, u \in Visible : Before(s, u)' = Before(s, u)
  BY <1>1, SameOrder
<1>3. \A s \in Visible : Ahead(s)' = Ahead(s)
  BY <1>1, <1>2 DEF Ahead
<1>4. \A s \in Visible : Rank(s)' = Rank(s)
  BY <1>3 DEF Rank
<1>5. NoTies' => NoTies
  BY <1>1 DEF NoTies
<1>6. CASE request.At = "done"
  BY <1>6, DoneWalked DEF Noting
<1>7. CASE request.At # "done"
  <2>1. walk'.Owed = walk.Owed /\ walk'.Seen = walk.Seen
    BY <1>7 DEF Noting
  <2>2. SeenAhead' = SeenAhead /\ LeftBehind' = LeftBehind
    BY <1>1, <1>4, <2>1 DEF SeenAhead, LeftBehind
  <2>3. /\ Cardinality(SeenAhead)' = Cardinality(SeenAhead)
        /\ Cardinality(LeftBehind)' = Cardinality(LeftBehind)
        /\ Cardinality(Visible)' = Cardinality(Visible)
    BY <1>1, <2>2
  <2>4. ASSUME NoTies PROVE Walked'
    BY <1>7, <2>3, <2>4, WalkSets, NotingWalked
  <2> QED
    BY <1>5, <2>4
<1> QED
  BY <1>6, <1>7

\* A row that becomes visible: it is not among those owed or seen, and it moves at most
\* one row that was seen over the offset.
LEMMA CommitWalked ==
  ASSUME WInv, NEW r \in Rows, row[r].State = "pending",
         \A s \in Rows \ {r} : row'[s] = row[s], row'[r].State = "visible",
         UNCHANGED <<list, request>>, Noting(1, IF request.At = "page" THEN 1 ELSE 0, 0)
  PROVE  NoTies' => Walked'
<1>1. Visible' = Visible \cup {r} /\ r \notin Visible /\ \A s \in Visible : row'[s] = row[s]
  BY DEF Visible
<1>2. \A s, u \in Visible : Before(s, u)' = Before(s, u)
  BY <1>1, SameOrder
<1>3. ASSUME NEW s \in Visible
      PROVE  Ahead(s) \subseteq Ahead(s)' /\ Ahead(s)' \subseteq Ahead(s) \cup {r}
  BY <1>1, <1>2 DEF Ahead
<1>4. ASSUME NEW s \in Visible
      PROVE  Rank(s)' \in Nat /\ Rank(s) <= Rank(s)' /\ Rank(s)' <= Rank(s) + 1
  <2>1. Ahead(s) \in SUBSET Rows /\ Ahead(s)' \in SUBSET Rows
    BY <1>1, VisibleRows, Ranks DEF Ahead
  <2>2. Cardinality(Ahead(s)) <= Cardinality(Ahead(s)') /\ Cardinality(Ahead(s)') \in Nat
    BY <1>3, <2>1, Fewer
  <2>3. Cardinality(Ahead(s)') <= Cardinality(Ahead(s)) + 1
    BY <1>3, <2>1, FewerBut
  <2> QED
    BY <2>2, <2>3 DEF Rank
<1>5. NoTies' => NoTies
  BY <1>1 DEF NoTies
<1>6. CASE request.At = "done"
  BY <1>6, DoneWalked DEF Noting
<1>7. CASE request.At # "done" /\ NoTies'
  <2>1. walk'.Owed = walk.Owed /\ walk'.Seen = walk.Seen
    BY <1>7 DEF Noting
  <2>2. r \notin walk.Owed /\ r \notin walk.Seen
    BY DEF WInv, Known
  <2>3. request.Offset \in Nat
    BY DEF WInv, IInv, TypeOK
  <2>4. Ordering
    BY <1>5, <1>7, TotalOrder DEF WInv, IInv
  <2>5. PICK x : \A s \in Visible : Rank(s) = request.Offset - 1 => s = x
    BY <2>4, AtRank
  <2>6. SeenAhead' \subseteq SeenAhead \cup {x}
    <3>1. ASSUME NEW s \in SeenAhead', s \notin SeenAhead PROVE s = x
      <4>1. s \in Visible /\ s \in walk.Seen /\ Rank(s)' >= request.Offset
        BY <1>1, <2>1, <2>2, <3>1 DEF SeenAhead
      <4>2. ~(Rank(s) >= request.Offset)
        BY <3>1, <4>1 DEF SeenAhead
      <4>3. Rank(s) \in Nat
        BY Ranks
      <4> QED
        BY <1>4, <2>3, <2>5, <4>1, <4>2, <4>3
    <3> QED
      BY <3>1
  <2>7. LeftBehind' \subseteq LeftBehind
    <3>1. ASSUME NEW s \in LeftBehind' PROVE s \in LeftBehind
      <4>1. s \in Visible /\ s \in walk.Owed /\ s \notin walk.Seen /\ Rank(s)' < request.Offset
        BY <1>1, <2>1, <2>2 DEF LeftBehind
      <4>2. Rank(s) \in Nat
        BY Ranks
      <4> QED
        BY <1>4, <2>3, <4>1, <4>2 DEF LeftBehind
    <3> QED
      BY <3>1
  <2>8. /\ Cardinality(SeenAhead)' <= Cardinality(SeenAhead) + 1 /\ Cardinality(SeenAhead)' \in Nat
        /\ Cardinality(LeftBehind)' <= Cardinality(LeftBehind) /\ Cardinality(LeftBehind)' \in Nat
        /\ Cardinality(Visible)' <= Cardinality(Visible) + 1 /\ Cardinality(Visible)' \in Nat
    <3>1. SeenAhead' \in SUBSET Rows /\ LeftBehind' \in SUBSET Rows /\ Visible' \in SUBSET Rows
      BY <1>1, VisibleRows DEF SeenAhead, LeftBehind
    <3>2. Cardinality(SeenAhead') <= Cardinality(SeenAhead) + 1
      BY <2>6, WalkSets, FewerBut
    <3>3. Cardinality(LeftBehind') <= Cardinality(LeftBehind)
      BY <2>7, WalkSets, Fewer
    <3>4. Cardinality(Visible') <= Cardinality(Visible) + 1
      BY <1>1, WalkSets, FewerBut
    <3> QED
      BY <3>1, <3>2, <3>3, <3>4, Sizes
  <2> DEFINE late == IF request.At = "page" THEN 1 ELSE 0
  <2>9. late \in Nat /\ (request.At = "page" => late = 1)
    OBVIOUS
  <2> HIDE DEF late
  <2>10. Noting(1, late, 0)
    BY DEF late
  <2> QED
    BY <1>5, <1>7, <2>8, <2>9, <2>10, WalkSets, NotingWalked
<1> QED
  BY <1>6, <1>7

\* A row that is deleted moves at most one row that was not seen over the offset.
LEMMA DeleteWalked ==
  ASSUME WInv, NEW r \in Rows, row[r].State = "visible",
         \A s \in Rows \ {r} : row'[s] = row[s], row'[r].State = "gone",
         list # "ledger", UNCHANGED <<list, request>>, Noting(0, 0, 1)
  PROVE  NoTies' => Walked'
<1>1. Visible' = Visible \ {r} /\ \A s \in Visible' : row'[s] = row[s]
  BY DEF Visible
<1>2. \A s, u \in Visible' : Before(s, u)' = Before(s, u)
  BY <1>1, SameOrder
<1>3. ASSUME NEW s \in Visible'
      PROVE  Ahead(s)' \subseteq Ahead(s) /\ Ahead(s) \subseteq Ahead(s)' \cup {r}
  BY <1>1, <1>2 DEF Ahead
<1>4. ASSUME NEW s \in Visible'
      PROVE  Rank(s)' \in Nat /\ Rank(s)' <= Rank(s) /\ Rank(s) <= Rank(s)' + 1
  <2>1. Ahead(s) \in SUBSET Rows /\ Ahead(s)' \in SUBSET Rows
    BY <1>1, VisibleRows, Ranks DEF Ahead
  <2>2. Cardinality(Ahead(s)') <= Cardinality(Ahead(s)) /\ Cardinality(Ahead(s)') \in Nat
    BY <1>3, <2>1, Fewer
  <2>3. Cardinality(Ahead(s)) <= Cardinality(Ahead(s)') + 1
    BY <1>3, <2>1, FewerBut
  <2> QED
    BY <2>2, <2>3 DEF Rank
<1>5. NoTies
  BY DEF NoTies
<1>6. CASE request.At = "done"
  BY <1>6, DoneWalked DEF Noting
<1>7. CASE request.At # "done"
  <2>1. walk'.Owed = walk.Owed /\ walk'.Seen = walk.Seen
    BY <1>7 DEF Noting
  <2>2. request.Offset \in Nat
    BY DEF WInv, IInv, TypeOK
  <2>3. Ordering
    BY <1>5, TotalOrder DEF WInv, IInv
  <2>4. PICK x : \A s \in Visible : Rank(s) = request.Offset => s = x
    BY <2>3, AtRank
  <2>5. SeenAhead' \subseteq SeenAhead
    <3>1. ASSUME NEW s \in SeenAhead' PROVE s \in SeenAhead
      <4>1. s \in Visible /\ s \in Visible' /\ s \in walk.Seen /\ Rank(s)' >= request.Offset
        BY <1>1, <2>1 DEF SeenAhead
      <4>2. Rank(s) \in Nat
        BY Ranks
      <4> QED
        BY <1>4, <2>2, <4>1, <4>2 DEF SeenAhead
    <3> QED
      BY <3>1
  <2>6. LeftBehind' \subseteq LeftBehind \cup {x}
    <3>1. ASSUME NEW s \in LeftBehind', s \notin LeftBehind PROVE s = x
      <4>1. /\ s \in Visible /\ s \in Visible' /\ s \in walk.Owed /\ s \notin walk.Seen
            /\ Rank(s)' < request.Offset
        BY <1>1, <2>1, <3>1 DEF LeftBehind
      <4>2. ~(Rank(s) < request.Offset)
        BY <3>1, <4>1 DEF LeftBehind
      <4>3. Rank(s) \in Nat
        BY Ranks
      <4> QED
        BY <1>4, <2>2, <2>4, <4>1, <4>2, <4>3
    <3> QED
      BY <3>1
  <2>7. /\ Cardinality(SeenAhead)' <= Cardinality(SeenAhead) /\ Cardinality(SeenAhead)' \in Nat
        /\ Cardinality(LeftBehind)' <= Cardinality(LeftBehind) + 1 /\ Cardinality(LeftBehind)' \in Nat
        /\ Cardinality(Visible)' <= Cardinality(Visible) /\ Cardinality(Visible)' \in Nat
    <3>1. SeenAhead' \in SUBSET Rows /\ LeftBehind' \in SUBSET Rows /\ Visible' \in SUBSET Rows
      BY <1>1, VisibleRows DEF SeenAhead, LeftBehind
    <3>2. Cardinality(SeenAhead') <= Cardinality(SeenAhead)
      BY <2>5, WalkSets, Fewer
    <3>3. Cardinality(LeftBehind') <= Cardinality(LeftBehind) + 1
      BY <2>6, WalkSets, FewerBut
    <3>4. Cardinality(Visible') <= Cardinality(Visible)
      BY <1>1, WalkSets, Fewer
    <3> QED
      BY <3>1, <3>2, <3>3, <3>4, Sizes
  <2> QED
    BY <1>5, <1>7, <2>7, WalkSets, NotingWalked
<1> QED
  BY <1>6, <1>7

LEMMA BeginWalked ==
  ASSUME WInv, NEW r \in Rows, NEW next \in {now, now + 1}, Begin(r, next),
         list = "audit" => next = now + 1
  PROVE  WInv'
<1>1. /\ row[r].State = "absent" /\ row'[r].State = "pending" /\ row'[r].Key = now
      /\ \A s \in Rows \ {r} : row'[s] = row[s]
  BY DEF Begin, WInv, IInv, TypeOK
<1>2. now' = next /\ UNCHANGED <<list, request>>
  BY DEF Begin
<1>3. Noting(0, 0, 0)
  BY DEF Begin, Noted, Noting, WInv, IInv, TypeOK
<1>4. now \in Nat /\ \A s \in Rows : row[s].Key \in Nat
  BY DEF WInv, IInv, TypeOK
<1>5. Known'
  <2>1. list' = "audit" => \A s \in Rows : row'[s].State \in {"pending", "visible"} => row'[s].Key < now'
    BY <1>1, <1>2, <1>4 DEF WInv, Known
  <2>2. list' = "audit" => \A s, u \in Rows :
          /\ row'[s].State \in {"pending", "visible"} /\ row'[u].State \in {"pending", "visible"}
          /\ row'[s].Key = row'[u].Key
          => s = u
    BY <1>1, <1>2, <1>4 DEF WInv, Known
  <2>3. walk'.Owed \cup walk'.Seen \subseteq walk.Owed \cup walk.Seen
    BY <1>3 DEF Noting, NewWalk
  <2>4. r \notin walk.Owed \cup walk.Seen /\ \A s \in walk.Owed \cup walk.Seen : s \in Rows
    BY <1>1 DEF WInv, Known, IInv, TypeOK
  <2>5. \A s \in walk'.Owed \cup walk'.Seen : row'[s].State \in {"visible", "gone"}
    BY <1>1, <2>3, <2>4 DEF WInv, Known
  <2> QED
    BY <2>1, <2>2, <2>5 DEF Known
<1>6. NoTies' => Walked'
  BY <1>1, <1>2, <1>3, HiddenWalked
<1> QED
  BY <1>5, <1>6, BeginKeeps DEF WInv

\* The ids and the rows owed or seen, when a row that was begun is settled.
LEMMA SettledKnown ==
  ASSUME WInv, NEW r \in Rows, row[r].State \in {"pending", "visible"},
         row'[r].State = "visible" => row'[r].Key = row[r].Key,
         row'[r].State \in {"visible", "gone"},
         \A s \in Rows \ {r} : row'[s] = row[s], UNCHANGED <<list, now>>,
         NEW came, NEW late, NEW vanished, Noting(came, late, vanished)
  PROVE  Known'
<1>1. list' = "audit" => \A s \in Rows : row'[s].State \in {"pending", "visible"} => row'[s].Key < now'
  BY DEF WInv, Known
<1>2. list' = "audit" => \A s, u \in Rows :
        /\ row'[s].State \in {"pending", "visible"} /\ row'[u].State \in {"pending", "visible"}
        /\ row'[s].Key = row'[u].Key
        => s = u
  BY DEF WInv, Known
<1>3. walk'.Owed \cup walk'.Seen \subseteq walk.Owed \cup walk.Seen
  BY DEF Noting, NewWalk
<1>4. \A s \in walk.Owed \cup walk.Seen : s \in Rows /\ row[s].State \in {"visible", "gone"}
  BY DEF WInv, Known, IInv, TypeOK
<1>5. \A s \in walk'.Owed \cup walk'.Seen : row'[s].State \in {"visible", "gone"}
  BY <1>3, <1>4
<1> QED
  BY <1>1, <1>2, <1>5 DEF Known

LEMMA CommitWInv ==
  ASSUME WInv, NEW r \in Rows, Commit(r)
  PROVE  WInv'
<1>1. /\ row[r].State = "pending" /\ row'[r].State = "visible" /\ row'[r].Key = row[r].Key
      /\ \A s \in Rows \ {r} : row'[s] = row[s]
  BY DEF Commit, WInv, IInv, TypeOK
<1>2. UNCHANGED <<list, now, request>>
  BY DEF Commit
<1> DEFINE late == IF request.At = "page" THEN 1 ELSE 0
<1>3. Noting(1, late, 0)
  <2>1. walk \in WalkType
    BY DEF WInv, IInv, TypeOK, WalkType
  <2>2. CASE request.At = "done"
    BY <2>2 DEF Commit, Noted, Noting
  <2>3. CASE request.At = "page"
    <3>1. walk' = [[walk EXCEPT !.Came = @ + 1] EXCEPT !.Late = @ + 1]
      BY <2>3 DEF Commit, Noted
    <3> QED
      BY <2>1, <2>3, <3>1 DEF Noting, WalkType
  <2>4. CASE request.At # "done" /\ request.At # "page"
    <3>1. walk' = [walk EXCEPT !.Came = @ + 1]
      BY <2>4 DEF Commit, Noted
    <3> QED
      BY <2>1, <2>4, <3>1 DEF Noting, WalkType
  <2> QED
    BY <2>2, <2>3, <2>4
<1>4. NoTies' => Walked'
  BY <1>1, <1>2, <1>3, CommitWalked
<1>5. Known'
  BY <1>1, <1>2, <1>3, SettledKnown
<1> QED
  BY <1>4, <1>5, CommitKeeps DEF WInv

LEMMA AbortWInv ==
  ASSUME WInv, NEW r \in Rows, Abort(r)
  PROVE  WInv'
<1>1. /\ row[r].State = "pending" /\ row'[r].State = "gone"
      /\ \A s \in Rows \ {r} : row'[s] = row[s]
  BY DEF Abort, Gone, WInv, IInv, TypeOK
<1>2. UNCHANGED <<list, now, request>>
  BY DEF Abort
<1>3. Noting(0, 0, 0)
  BY DEF Abort, Noted, Noting, WInv, IInv, TypeOK
<1>4. NoTies' => Walked'
  BY <1>1, <1>2, <1>3, HiddenWalked
<1>5. Known'
  BY <1>1, <1>2, <1>3, SettledKnown
<1> QED
  BY <1>4, <1>5, LeaveKeeps DEF WInv

LEMMA SoftDeleteWInv ==
  ASSUME WInv, NEW r \in Rows, SoftDelete(r)
  PROVE  WInv'
<1>1. /\ row[r].State = "visible" /\ row'[r].State = "gone"
      /\ \A s \in Rows \ {r} : row'[s] = row[s]
  BY DEF SoftDelete, Gone, WInv, IInv, TypeOK
<1>2. UNCHANGED <<list, now, request>> /\ list # "ledger"
  BY DEF SoftDelete
<1>3. Noting(0, 0, 1)
  BY DEF SoftDelete, Noted, Noting, WInv, IInv, TypeOK
<1>4. NoTies' => Walked'
  BY <1>1, <1>2, <1>3, DeleteWalked
<1>5. Known'
  BY <1>1, <1>2, <1>3, SettledKnown
<1> QED
  BY <1>4, <1>5, LeaveKeeps DEF WInv

-----------------------------------------------------------------------------
(* Reads and the walk.                                                       *)

LEMMA Unwritten ==
  ASSUME UNCHANGED <<list, row>>
  PROVE  /\ Visible' = Visible /\ (NoTies' <=> NoTies)
         /\ \A r : Rank(r)' = Rank(r)
<1>1. Visible' = Visible /\ \A r, s : Before(r, s)' = Before(r, s)
  BY SameOrder DEF Visible
<1>2. \A r : Ahead(r)' = Ahead(r)
  BY <1>1 DEF Ahead
<1> QED
  BY <1>1, <1>2 DEF Rank, NoTies

LEMMA ReadKnown ==
  ASSUME WInv, UNCHANGED <<list, row, now>>,
         walk'.Owed \cup walk'.Seen \subseteq Visible \cup walk.Owed \cup walk.Seen
  PROVE  Known'
<1>1. \A r \in Visible \cup walk.Owed \cup walk.Seen : row[r].State \in {"visible", "gone"}
  BY DEF WInv, Known, Visible
<1> QED
  BY <1>1 DEF WInv, Known

LEMMA OpenWInv ==
  ASSUME WInv, NEW limit \in RawLimits, NEW offset \in RawOffsets, Open(limit, offset)
  PROVE  WInv'
<1>1. UNCHANGED <<list, row, now>> /\ request'.At = "count" /\ request'.Offset \in Nat
  <2>1. offset \in Int
    BY ListingAssumption
  <2> QED
    BY <2>1 DEF Open, WithDefaults
<1>2. walk' = NewWalk(IF request'.Offset = 0 THEN Visible ELSE {})
  BY DEF Open
<1>3. /\ walk'.Owed = (IF request'.Offset = 0 THEN Visible ELSE {}) /\ walk'.Seen = {}
      /\ walk'.Repeats = 0 /\ walk'.Came = 0 /\ walk'.Vanished = 0
  BY <1>2 DEF NewWalk
<1>4. SeenAhead' = {}
  BY <1>3 DEF SeenAhead
<1>5. LeftBehind' = {}
  <2>1. \A r \in Rows : Rank(r)' \in Nat
    BY <1>1, Unwritten, Ranks
  <2>2. \A r \in LeftBehind' : r \in Rows /\ r \in walk'.Owed /\ Rank(r)' < request'.Offset
    BY DEF LeftBehind, Visible
  <2> QED
    BY <1>1, <1>3, <2>1, <2>2
<1>6. Cardinality(SeenAhead)' = 0 /\ Cardinality(LeftBehind)' = 0
  BY <1>4, <1>5, FS_EmptySet
<1>7. Walked'
  BY <1>1, <1>3, <1>6 DEF Walked
<1>8. Known'
  BY <1>1, <1>3, ReadKnown
<1> QED
  BY <1>7, <1>8, OpenKeeps DEF WInv

LEMMA AskWInv ==
  ASSUME WInv, CountRows \/ Fail \/ Follow
  PROVE  WInv'
<1>1. /\ UNCHANGED <<list, row, now>> /\ request'.Offset = request.Offset
      /\ request.At # "done" /\ request'.At # "done"
      /\ walk'.Owed = walk.Owed /\ walk'.Seen = walk.Seen /\ walk'.Repeats = walk.Repeats
      /\ walk'.Came = walk.Came /\ walk'.Vanished = walk.Vanished
      /\ request'.At = "page" => CountRows
  <2>1. request \in RequestType /\ walk \in WalkType
    BY DEF WInv, IInv, TypeOK, RequestType, WalkType
  <2>2. CASE CountRows
    BY <2>1, <2>2 DEF CountRows, RequestType, WalkType
  <2>3. CASE Fail
    BY <2>3 DEF Fail
  <2>4. CASE Follow
    BY <2>1, <2>4 DEF Follow, RequestType
  <2> QED
    BY <2>2, <2>3, <2>4
<1>2. SeenAhead' = SeenAhead /\ LeftBehind' = LeftBehind /\ Visible' = Visible
  BY <1>1, Unwritten DEF SeenAhead, LeftBehind
<1>3. /\ Cardinality(SeenAhead)' = Cardinality(SeenAhead)
      /\ Cardinality(LeftBehind)' = Cardinality(LeftBehind)
      /\ Cardinality(Visible)' = Cardinality(Visible)
  BY <1>2
<1>4. request'.At = "page" => Cardinality(Visible)' <= request'.Total + walk'.Late
  <2>1. SUFFICES ASSUME CountRows
                 PROVE  Cardinality(Visible) <= request'.Total + walk'.Late
    BY <1>1, <1>3
  <2>2. request'.Total = Cardinality(Visible) /\ walk'.Late = 0
    BY <2>1 DEF CountRows, WInv, IInv, TypeOK
  <2> QED
    BY <2>2, WalkSets
<1>5. NoTies' => Walked'
  <2>1. SUFFICES ASSUME NoTies PROVE Walked'
    BY <1>1, Unwritten
  <2>2. Cardinality(SeenAhead) + walk.Repeats <= walk.Came /\ Cardinality(LeftBehind) <= walk.Vanished
    BY <1>1, <2>1 DEF WInv, Walked
  <2> QED
    BY <1>1, <1>3, <1>4, <2>2 DEF Walked
<1>6. Known'
  BY <1>1, ReadKnown
<1>7. IInv'
  BY CountRowsKeeps, AgainKeeps DEF WInv
<1> QED
  BY <1>5, <1>6, <1>7 DEF WInv

\* The pages up to the one that is read are the first rows of the list.
LEMMA FirstPages ==
  ASSUME NEW skipped \in SUBSET Visible, NEW page \in SUBSET (Visible \ skipped),
         First(skipped, Visible), First(page, Visible \ skipped)
  PROVE  First(skipped \cup page, Visible)
BY DEF First

\* A page repeats the rows seen that were ahead, and leaves none of its own behind; the
\* rows that stay unread at the end are those the count did not have.
LEMMA PageWalked ==
  ASSUME WInv, NoTies, request.At = "page", UNCHANGED <<list, row, now>>,
         NEW skipped \in SUBSET Visible, NEW page \in SUBSET (Visible \ skipped),
         Cardinality(skipped) = Least(request.Offset, Cardinality(Visible)),
         First(skipped, Visible), First(page, Visible \ skipped),
         request' = IF HasMore(request.Offset, request.Total, Cardinality(page))
                    THEN [At |-> "answered", Limit |-> request.Limit, Total |-> 0,
                          Offset |-> request.Offset + Cardinality(page)]
                    ELSE NoRequest,
         walk'.Owed = walk.Owed, walk'.Seen = walk.Seen \cup page,
         walk'.Repeats = walk.Repeats + Cardinality(page \cap walk.Seen),
         walk'.Came = walk.Came, walk'.Late = walk.Late, walk'.Vanished = walk.Vanished
  PROVE  Walked'
<1> DEFINE end == request.Offset + Cardinality(page)
           read == skipped \cup page
<1>1. Ordering
  BY TotalOrder DEF WInv, IInv
<1>2. Visible' = Visible /\ \A r : Rank(r)' = Rank(r)
  BY Unwritten
<1>3. /\ skipped \in SUBSET Rows /\ page \in SUBSET Rows /\ Visible \in SUBSET Rows
      /\ read \in SUBSET Rows /\ read \in SUBSET Visible
  BY VisibleRows
<1>4. /\ Cardinality(skipped) \in Nat /\ Cardinality(page) \in Nat /\ Cardinality(Visible) \in Nat
      /\ Cardinality(read) \in Nat /\ request.Offset \in Nat /\ request.Total \in Nat
      /\ walk.Repeats \in Nat /\ walk.Came \in Nat /\ walk.Late \in Nat /\ walk.Vanished \in Nat
  BY <1>3, Sizes DEF WInv, IInv, TypeOK
<1>5. Cardinality(read) = Cardinality(skipped) + Cardinality(page)
  BY <1>3, Apart
<1>6. First(read, Visible)
  BY FirstPages
<1>7. ASSUME NEW r \in Visible
      PROVE  /\ Rank(r) \in Nat
             /\ r \in skipped <=> Rank(r) < request.Offset
             /\ r \in read <=> Rank(r) < end
  <2>1. Rank(r) \in Nat
    BY Ranks
  <2>2. r \in skipped <=> Rank(r) < Cardinality(skipped)
    BY <1>1, FirstRanks
  <2>3. r \in read <=> Rank(r) < Cardinality(read)
    BY <1>1, <1>3, <1>6, FirstRanks
  <2>4. CASE Cardinality(skipped) = request.Offset
    BY <1>5, <2>1, <2>2, <2>3, <2>4
  <2>5. CASE Cardinality(skipped) # request.Offset
    <3>1. Cardinality(skipped) = Cardinality(Visible) /\ Cardinality(Visible) <= request.Offset
      BY <1>4, <2>5 DEF Least
    <3>2. skipped = Visible
      BY <1>3, <3>1, Fewer
    <3> QED
      BY <1>4, <2>1, <2>2, <3>1, <3>2
  <2> QED
    BY <2>1, <2>4, <2>5
<1>8. /\ Cardinality(SeenAhead) + walk.Repeats <= walk.Came
      /\ Cardinality(LeftBehind) <= walk.Vanished
      /\ Cardinality(Visible) <= request.Total + walk.Late
  BY DEF WInv, Walked
<1> HIDE DEF read
<1>9. CASE HasMore(request.Offset, request.Total, Cardinality(page))
  <2>1. request'.At = "answered" /\ request'.Offset = end
    BY <1>9
  <2> HIDE DEF end
  <2> DEFINE repeated == page \cap walk.Seen
  <2>2. SeenAhead' \cap repeated = {} /\ SeenAhead' \cup repeated \subseteq SeenAhead
    <3>1. ASSUME NEW r \in SeenAhead' PROVE r \in SeenAhead /\ r \notin page
      <4>1. r \in Visible /\ r \in walk.Seen \cup page /\ Rank(r) >= end
        BY <1>2, <2>1 DEF SeenAhead
      <4>2. r \notin read
        BY <1>4, <1>7, <4>1 DEF end
      <4>3. Rank(r) >= request.Offset
        BY <1>4, <1>7, <4>1 DEF end
      <4> QED
        BY <4>1, <4>2, <4>3 DEF read, SeenAhead
    <3>2. ASSUME NEW r \in repeated PROVE r \in SeenAhead
      <4>1. r \in Visible /\ r \notin skipped /\ r \in walk.Seen
        OBVIOUS
      <4> QED
        BY <1>4, <1>7, <4>1 DEF SeenAhead
    <3> QED
      BY <3>1, <3>2
  <2>3. Cardinality(SeenAhead') + Cardinality(repeated) <= Cardinality(SeenAhead)
    <3>1. SeenAhead' \in SUBSET Rows /\ repeated \in SUBSET Rows
      BY <1>3, <2>2, WalkSets
    <3>2. Cardinality(SeenAhead' \cup repeated) = Cardinality(SeenAhead') + Cardinality(repeated)
      BY <2>2, <3>1, Apart
    <3>3. Cardinality(SeenAhead' \cup repeated) <= Cardinality(SeenAhead)
      BY <2>2, WalkSets, Fewer
    <3> QED
      BY <3>2, <3>3
  <2>4. SeenAhead' \in SUBSET Rows /\ repeated \in SUBSET Rows
    BY <1>3, <2>2, WalkSets
  <2>5. Cardinality(SeenAhead') \in Nat /\ Cardinality(repeated) \in Nat
    BY <2>4, Sizes
  <2> HIDE DEF repeated
  <2>6. walk'.Repeats = walk.Repeats + Cardinality(repeated)
    BY DEF repeated
  <2>7. Cardinality(SeenAhead)' + walk'.Repeats <= walk'.Came
    BY <1>4, <1>8, <2>3, <2>5, <2>6, WalkSets
  <2>8. LeftBehind' \subseteq LeftBehind
    <3>1. ASSUME NEW r \in LeftBehind' PROVE r \in LeftBehind
      <4>1. r \in Visible /\ r \in walk.Owed /\ r \notin walk.Seen \cup page /\ Rank(r) < end
        BY <1>2, <2>1 DEF LeftBehind
      <4>2. r \in read
        BY <1>7, <4>1 DEF end
      <4>3. r \in skipped
        BY <4>1, <4>2 DEF read
      <4> QED
        BY <1>7, <4>1, <4>3 DEF LeftBehind
    <3> QED
      BY <3>1
  <2>9. Cardinality(LeftBehind') <= Cardinality(LeftBehind) /\ Cardinality(LeftBehind') \in Nat
    BY <2>8, WalkSets, Fewer
  <2>10. Cardinality(LeftBehind)' <= walk'.Vanished
    BY <1>4, <1>8, <2>9, WalkSets
  <2> QED
    BY <2>1, <2>7, <2>10 DEF Walked
<1>10. CASE ~HasMore(request.Offset, request.Total, Cardinality(page))
  <2>1. request'.At = "done" /\ request.Total <= end
    BY <1>4, <1>10 DEF NoRequest, HasMore
  <2> DEFINE repeated == page \cap walk.Seen
             unread == Visible \ read
             missed == (walk.Owed \cap Visible) \ (walk.Seen \cup page)
  <2>2. Cardinality(unread) <= walk.Late /\ Cardinality(unread) \in Nat /\ unread \in SUBSET Rows
    <3>1. unread \in SUBSET Rows
      BY <1>3
    <3>2. Cardinality(unread \cup read) = Cardinality(unread) + Cardinality(read)
      BY <1>3, <3>1, Apart
    <3>3. unread \cup read = Visible
      BY <1>3
    <3>4. Cardinality(unread) \in Nat
      BY <3>1, Sizes
    <3> HIDE DEF unread
    <3>5. Cardinality(Visible) = Cardinality(unread) + Cardinality(skipped) + Cardinality(page)
      BY <1>4, <1>5, <3>2, <3>3, <3>4
    <3>6. CASE Cardinality(skipped) = request.Offset
      BY <1>4, <1>8, <2>1, <3>1, <3>4, <3>5, <3>6
    <3>7. CASE Cardinality(skipped) # request.Offset
      <4>1. Cardinality(skipped) = Cardinality(Visible)
        BY <1>4, <3>7 DEF Least
      <4> QED
        BY <1>4, <3>1, <3>4, <3>5, <4>1
    <3> QED
      BY <3>6, <3>7
  <2>3. missed \subseteq LeftBehind \cup unread
    <3>1. ASSUME NEW r \in missed, r \notin unread PROVE r \in LeftBehind
      <4>1. r \in Visible /\ r \in walk.Owed /\ r \notin walk.Seen /\ r \in skipped
        BY <3>1 DEF read
      <4> QED
        BY <1>7, <4>1 DEF LeftBehind
    <3> QED
      BY <3>1
  <2>4. LeftBehind \cap unread = {}
    <3>1. ASSUME NEW r \in LeftBehind PROVE r \in read
      <4>1. r \in Visible /\ Rank(r) < request.Offset
        BY DEF LeftBehind
      <4>2. r \in skipped
        BY <1>7, <4>1
      <4> QED
        BY <4>2 DEF read
    <3> QED
      BY <3>1
  <2> HIDE DEF unread, missed
  <2>5. Cardinality(missed) <= walk.Vanished + walk.Late
    <3>1. LeftBehind \cup unread \in SUBSET Rows
      BY <2>2, WalkSets
    <3>2. Cardinality(missed) <= Cardinality(LeftBehind \cup unread) /\ Cardinality(missed) \in Nat
      BY <2>3, <3>1, Fewer
    <3>3. Cardinality(LeftBehind \cup unread) = Cardinality(LeftBehind) + Cardinality(unread)
      BY <2>2, <2>4, WalkSets, Apart
    <3> QED
      BY <1>4, <1>8, <2>2, <3>2, <3>3, WalkSets
  <2>6. Cardinality((walk.Owed \cap Visible) \ walk.Seen)' <= walk'.Vanished + walk'.Late
    BY <1>2, <2>5 DEF missed
  <2>7. walk'.Repeats <= walk'.Came
    <3>1. repeated \subseteq SeenAhead
      <4>1. ASSUME NEW r \in repeated PROVE r \in SeenAhead
        <5>1. r \in Visible /\ r \notin skipped /\ r \in walk.Seen
          OBVIOUS
        <5> QED
          BY <1>4, <1>7, <5>1 DEF SeenAhead
      <4> QED
        BY <4>1
    <3>2. Cardinality(repeated) <= Cardinality(SeenAhead) /\ Cardinality(repeated) \in Nat
      BY <3>1, WalkSets, Fewer
    <3> HIDE DEF repeated
    <3>3. walk'.Repeats = walk.Repeats + Cardinality(repeated)
      BY DEF repeated
    <3> QED
      BY <1>4, <1>8, <3>2, <3>3, WalkSets
  <2> QED
    BY <2>1, <2>6, <2>7 DEF Walked
<1> QED
  BY <1>9, <1>10

LEMMA FetchPageWInv ==
  ASSUME WInv, FetchPage
  PROVE  WInv'
<1> DEFINE Answer(page) ==
      IF HasMore(request.Offset, request.Total, Cardinality(page))
      THEN [At |-> "answered", Limit |-> request.Limit, Total |-> 0,
            Offset |-> request.Offset + Cardinality(page)]
      ELSE NoRequest
           Shown(skipped, page) ==
      /\ Cardinality(skipped) = Least(request.Offset, Cardinality(Visible))
      /\ First(skipped, Visible) /\ First(page, Visible \ skipped)
      /\ request' = Answer(page)
      /\ LET again == [walk EXCEPT !.Repeats = @ + Cardinality(page \cap walk.Seen)] IN
           walk' = [again EXCEPT !.Seen = @ \cup page]
<1>1. /\ request.At = "page" /\ UNCHANGED <<list, row, now>>
      /\ \E skipped \in SUBSET Visible : \E page \in SUBSET (Visible \ skipped) : Shown(skipped, page)
  BY DEF FetchPage
<1>2. PICK skipped \in SUBSET Visible : \E page \in SUBSET (Visible \ skipped) : Shown(skipped, page)
  BY <1>1
<1>3. PICK page \in SUBSET (Visible \ skipped) : Shown(skipped, page)
  BY <1>2
<1> DEFINE again == [walk EXCEPT !.Repeats = @ + Cardinality(page \cap walk.Seen)]
<1>4. walk' = [again EXCEPT !.Seen = @ \cup page]
  BY <1>3
<1>5. walk \in WalkType
  BY DEF WInv, IInv, TypeOK, WalkType
<1>6. /\ again.Owed = walk.Owed /\ again.Seen = walk.Seen /\ again.Came = walk.Came
      /\ again.Late = walk.Late /\ again.Vanished = walk.Vanished
      /\ again.Repeats = walk.Repeats + Cardinality(page \cap walk.Seen)
      /\ again = [Owed |-> again.Owed, Seen |-> again.Seen, Repeats |-> again.Repeats,
                  Came |-> again.Came, Late |-> again.Late, Vanished |-> again.Vanished]
  BY <1>5 DEF WalkType
<1> HIDE DEF again
<1>7. /\ walk'.Owed = walk.Owed /\ walk'.Seen = walk.Seen \cup page
      /\ walk'.Repeats = walk.Repeats + Cardinality(page \cap walk.Seen)
      /\ walk'.Came = walk.Came /\ walk'.Late = walk.Late /\ walk'.Vanished = walk.Vanished
  BY <1>4, <1>6
<1>8. NoTies => Walked'
  <2>1. /\ Cardinality(skipped) = Least(request.Offset, Cardinality(Visible))
        /\ First(skipped, Visible) /\ First(page, Visible \ skipped) /\ request' = Answer(page)
    BY <1>3
  <2> QED
    BY <1>1, <1>7, <2>1, PageWalked
<1>9. NoTies' => NoTies
  BY <1>1, Unwritten
<1>10. Known'
  BY <1>1, <1>7, ReadKnown
<1> QED
  BY <1>8, <1>9, <1>10, FetchPageKeeps DEF WInv

THEOREM WalkInvariant == Spec => []WInv
<1>1. ASSUME WInv, Next PROVE WInv'
  <2>1. ASSUME NEW r \in Rows, BeginEntry(r) \/ BeginAccount(r) \/ BeginEvent(r) PROVE WInv'
    <3>1. PICK next \in {now, now + 1} : Begin(r, next) /\ (list = "audit" => next = now + 1)
      BY <2>1 DEF BeginEntry, BeginAccount, BeginEvent
    <3> QED
      BY <1>1, <3>1, BeginWalked
  <2>2. ASSUME NEW r \in Rows, Commit(r) \/ Abort(r) \/ SoftDelete(r) PROVE WInv'
    BY <1>1, <2>2, CommitWInv, AbortWInv, SoftDeleteWInv
  <2>3. CASE ListLedger \/ Audit \/ List
    BY <1>1, <2>3, OpenWInv DEF ListLedger, Audit, List
  <2>4. CASE CountRows \/ Fail \/ Follow
    BY <1>1, <2>4, AskWInv
  <2>5. CASE FetchPage
    BY <1>1, <2>5, FetchPageWInv
  <2> QED
    BY <1>1, <2>1, <2>2, <2>3, <2>4, <2>5 DEF Next, Read
<1>2. ASSUME WInv, UNCHANGED vars PROVE WInv'
  <2>1. UNCHANGED <<list, row, now, request, walk>>
    BY <1>2 DEF vars
  <2>2. IInv' /\ Known'
    BY <1>2, <2>1, ReadKnown DEF WInv, IInv, TypeOK, Clocked
  <2>3. SeenAhead' = SeenAhead /\ LeftBehind' = LeftBehind /\ Visible' = Visible /\ (NoTies' => NoTies)
    BY <2>1, Unwritten DEF SeenAhead, LeftBehind
  <2>4. NoTies' => Walked'
    BY <1>2, <2>1, <2>3 DEF WInv, Walked
  <2> QED
    BY <2>2, <2>4 DEF WInv
<1> QED
  BY InitWInv, <1>1, <1>2, PTL DEF Spec

\* A client sees a row twice at most once for each row committed since its first page,
\* whatever the order of the writes: the offset moves by one row per commit.
THEOREM RepeatsBounded == Spec => []RepeatsBoundedByCommits
<1>1. WInv => RepeatsBoundedByCommits
  <2> SUFFICES ASSUME WInv, NoTies PROVE walk.Repeats <= walk.Came
    BY DEF RepeatsBoundedByCommits
  <2>1. walk.Repeats \in Nat /\ walk.Came \in Nat
    BY DEF WInv, IInv, TypeOK
  <2> QED
    BY <2>1, WalkSets DEF WInv, Walked
<1> QED
  BY <1>1, WalkInvariant, PTL

\* A client that follows has_more to the end misses at most one row for each row that
\* was deleted on its way and each that slipped between its last count and its last page.
THEOREM MissedBounded == Spec => []MissedBoundedByRaces
<1>1. WInv => MissedBoundedByRaces
  BY DEF WInv, Walked, MissedBoundedByRaces
<1> QED
  BY <1>1, WalkInvariant, PTL

\* For any rows and limits, a page that leads to another one moves the client on, unless
\* rows were deleted between its count and it.
THEOREM PagesLeadOn == Spec => PagesAdvance
<1>1. ASSUME IInv, Next, request.At = "page", request'.At = "answered",
             ~(Cardinality(Visible) < request.Total)
      PROVE  request'.Offset \in request.Offset + 1 .. Cardinality(Visible)
  <2>1. FetchPage
    BY <1>1 DEF Next, Read, BeginEntry, BeginAccount, BeginEvent, Begin, Commit, Abort, SoftDelete,
                ListLedger, Audit, List, Open, CountRows, Fail, Follow
  <2>2. PICK skipped \in SUBSET Visible : \E page \in SUBSET (Visible \ skipped) :
          /\ Cardinality(skipped) = Least(request.Offset, Cardinality(Visible))
          /\ Cardinality(page) = Least(request.Limit, Cardinality(Visible \ skipped))
          /\ request' = IF HasMore(request.Offset, request.Total, Cardinality(page))
                        THEN [At |-> "answered", Limit |-> request.Limit, Total |-> 0,
                              Offset |-> request.Offset + Cardinality(page)]
                        ELSE NoRequest
    BY <2>1 DEF FetchPage
  <2>3. PICK page \in SUBSET (Visible \ skipped) :
          /\ Cardinality(page) = Least(request.Limit, Cardinality(Visible \ skipped))
          /\ request' = IF HasMore(request.Offset, request.Total, Cardinality(page))
                        THEN [At |-> "answered", Limit |-> request.Limit, Total |-> 0,
                              Offset |-> request.Offset + Cardinality(page)]
                        ELSE NoRequest
    BY <2>2
  <2>4. HasMore(request.Offset, request.Total, Cardinality(page))
        /\ request'.Offset = request.Offset + Cardinality(page)
    BY <1>1, <2>3 DEF NoRequest
  <2>5. /\ IsFiniteSet(Visible) /\ Cardinality(Visible) \in Nat /\ Cardinality(page) \in Nat
        /\ Cardinality(Visible \ skipped) = Cardinality(Visible) - Cardinality(skipped)
    <3>1. IsFiniteSet(Visible)
      BY VisibleRows, ListingAssumption, FS_Subset
    <3>2. Visible \cap skipped = skipped
      OBVIOUS
    <3>3. Cardinality(Visible \ skipped) = Cardinality(Visible) - Cardinality(skipped)
      BY <3>1, <3>2, FS_Difference
    <3>4. Cardinality(Visible) \in Nat /\ Cardinality(page) \in Nat
      BY <3>1, FS_Subset, FS_CardinalityType
    <3> QED
      BY <3>1, <3>3, <3>4
  <2>6. request.Offset \in Nat /\ request.Total \in Nat /\ request.Limit \in Nat /\ request.Limit >= 1
    BY <1>1, ListingAssumption DEF IInv, TypeOK
  <2>7. request.Offset < Cardinality(Visible)
    BY <1>1, <2>2, <2>3, <2>4, <2>5, <2>6 DEF HasMore, Least
  <2>8. Cardinality(skipped) = request.Offset
    BY <2>2, <2>5, <2>6, <2>7 DEF Least
  <2>9. Cardinality(page) \in 1 .. Cardinality(Visible) - request.Offset
    BY <2>3, <2>5, <2>6, <2>7, <2>8 DEF Least
  <2> QED
    BY <2>4, <2>5, <2>6, <2>9
<1>2. IInv /\ [Next]_vars =>
        [request.At = "page" /\ request'.At = "answered" =>
           \/ request'.Offset \in request.Offset + 1 .. Cardinality(Visible)
           \/ Cardinality(Visible) < request.Total]_vars
  BY <1>1
<1> QED
  BY <1>2, Invariant, PTL DEF Spec, PagesAdvance
===============================================================================
