------------------------------- MODULE BatchCsv -------------------------------
(* Uploaded CSV files (src/internal/service/batch/service.go, ParseCSV).  A  *)
(* file is accepted whole or refused whole: one bad record refuses it.       *)
EXTENDS Points, Sequences

CONSTANTS Accounts, Refs

\* The header has the five columns, a sixth one for the direction, or neither.
Headers == {"five", "six", "invalid"}

\* A record as it is read.  WellFormed: it has as many fields as the header,
\* its points are an integer and its time is RFC 3339.  An absent direction is "".
Records ==
  [WellFormed : BOOLEAN, Ref : Refs, AccountID : Accounts, Kind : Kinds \cup {"other"},
   Direction : Directions \cup {"", "other"}, WholePoints : Int]

Csvs == [Header : Headers, Records : Seq(Records)]

\* The direction column when it is there and filled, else what the kind implies.
RowDirection(csv, rec) ==
  IF csv.Header = "six" /\ rec.Direction # "" THEN rec.Direction
  ELSE CASE rec.Kind = "earn"  -> "credit"
         [] rec.Kind = "spend" -> "debit"
         [] OTHER              -> ""

RecordOK_AnyKind(csv, rec) ==
  /\ rec.WellFormed
  /\ rec.WholePoints > 0
  /\ RowDirection(csv, rec) # ""
RecordOK(csv, rec) ==
  /\ rec.WellFormed
  /\ rec.WholePoints > 0
  /\ ResolveTransactionDirection(rec.Kind, RowDirection(csv, rec)) # "invalid"

ParsesOK(csv) ==
  /\ csv.Header # "invalid"
  /\ \A i \in 1 .. Len(csv.Records) : RecordOK(csv, csv.Records[i])

BatchRow(csv, rec) ==
  [Ref |-> rec.Ref, AccountID |-> rec.AccountID, Kind |-> rec.Kind,
   Direction |-> RowDirection(csv, rec), WholePoints |-> rec.WholePoints]

ParseCSV(csv) == [i \in 1 .. Len(csv.Records) |-> BatchRow(csv, csv.Records[i])]
=============================================================================
