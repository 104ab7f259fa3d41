-------------------------------- MODULE Batch --------------------------------
(* Batch uploads: the job row, the goroutine that feeds a buffered channel,  *)
(* the worker pool, the audit trail and the restart of the server            *)
(* (src/internal/service/batch/service.go and src/internal/dao/postgres).    *)
(* A row's transaction is one step of the atomic ledger PointsLedger, which  *)
(* the calls of WalletTx implement; its answer may be lost after it          *)
(* committed, as there.                                                      *)
EXTENDS BatchCsv, FiniteSets

CONSTANTS
  Jobs,
  Workers,      \* the pool each job starts, of at least one
  Files,        \* the CSV files that are uploaded
  Uploader      \* the admin, actor of every row

ASSUME BatchAssumption ==
  /\ Files \subseteq Csvs
  /\ Workers # {} /\ IsFiniteSet(Workers)
  /\ Uploader \in Accounts

VARIABLES
  status, balance, ledger,   \* the wallet
  job,       \* batch_jobs
  audit,     \* audit_events; the position of the row stands for the event's id
  file,      \* the rows of each job, in the memory of its goroutine
  stage,     \* where the goroutine of a job is
  fed,       \* rows sent to the channel
  taken,     \* rows received from it
  worker,    \* per job and worker: what it does, with which row, with which result
  summary,   \* BatchSummary, shared by the workers of a job
  up         \* the server runs

wallet == <<status, balance, ledger>>
memory == <<file, stage, fed, taken, worker, summary>>
vars == <<status, balance, ledger, job, audit, file, stage, fed, taken, worker, summary, up>>

PL == INSTANCE PointsLedger WITH Amounts <- Stored, MaxBalance <- HalfRange - 1

Verdicts == {"Accepted", "Rejected", "Duplicates"}
Zero == [v \in Verdicts |-> 0]
NoJob == [Status |-> "none", TotalRows |-> 0, Counts |-> Zero]
Waiting == [At |-> "recv", Row |-> 0, Err |-> "none"]

Recorded(ref) == \E i \in 1 .. Len(ledger) : ledger[i].Ref = ref

-----------------------------------------------------------------------------
Init ==
  /\ PL!Init /\ status[Uploader] = "active"
  /\ job = [j \in Jobs |-> NoJob]
  /\ audit = {}
  /\ file = [j \in Jobs |-> <<>>]
  /\ stage = [j \in Jobs |-> "none"]
  /\ fed = [j \in Jobs |-> 0]
  /\ taken = [j \in Jobs |-> 0]
  /\ worker = [j \in Jobs |-> [w \in Workers |-> Waiting]]
  /\ summary = [j \in Jobs |-> Zero]
  /\ up = TRUE

\* ParseCSV, CreateJob, then the goroutine and the answer 202; no goroutine starts when the
\* acknowledgement of the queued row is lost.
Upload(j, csv) ==
  /\ up
  /\ ParsesOK(csv)
  /\ job[j].Status = "none"
  /\ job' = [job EXCEPT ![j] = [Status |-> "queued", TotalRows |-> Len(ParseCSV(csv)),
                                Counts |-> Zero]]
  /\ \/ /\ file' = [file EXCEPT ![j] = ParseCSV(csv)]
        /\ stage' = [stage EXCEPT ![j] = "start"]
     \/ UNCHANGED <<file, stage>>
  /\ UNCHANGED <<wallet, audit, fed, taken, worker, summary, up>>

\* UpdateJobStatus(processing), whose error is ignored.
Start_Running(j) ==
  /\ stage[j] = "start"
  /\ job' = [job EXCEPT ![j].Status = "running"]
  /\ stage' = [stage EXCEPT ![j] = "feed"]
  /\ UNCHANGED <<wallet, audit, file, fed, taken, worker, summary, up>>
Start(j) ==
  /\ stage[j] = "start"
  /\ \/ job' = [job EXCEPT ![j].Status = "processing"]
     \/ UNCHANGED job
  /\ stage' = [stage EXCEPT ![j] = "feed"]
  /\ UNCHANGED <<wallet, audit, file, fed, taken, worker, summary, up>>

\* Send the next row; the buffer holds them all, so a send never blocks.
Feed(j) ==
  /\ stage[j] = "feed"
  /\ fed[j] < Len(file[j])
  /\ fed' = [fed EXCEPT ![j] = @ + 1]
  /\ UNCHANGED <<wallet, job, audit, file, stage, taken, worker, summary, up>>

Close_Never(j) ==
  /\ FALSE
  /\ UNCHANGED vars
Close(j) ==
  /\ stage[j] = "feed"
  /\ fed[j] = Len(file[j])
  /\ stage' = [stage EXCEPT ![j] = "wait"]
  /\ UNCHANGED <<wallet, job, audit, file, fed, taken, worker, summary, up>>

Step(j, w, at, row, err) ==
  worker' = [worker EXCEPT ![j][w] = [At |-> at, Row |-> row, Err |-> err]]

\* The workers run from the start of the feed to the exit on a drained channel.
Receive_Peek(j, w) ==
  /\ stage[j] \in {"feed", "wait"} /\ worker[j][w].At = "recv"
  /\ taken[j] < fed[j]
  /\ Step(j, w, "apply", taken[j] + 1, "none")
  /\ UNCHANGED <<wallet, job, audit, file, stage, fed, taken, summary, up>>
Receive(j, w) ==
  /\ stage[j] \in {"feed", "wait"} /\ worker[j][w].At = "recv"
  /\ taken[j] < fed[j]
  /\ taken' = [taken EXCEPT ![j] = @ + 1]
  /\ Step(j, w, "apply", taken[j] + 1, "none")
  /\ UNCHANGED <<wallet, job, audit, file, stage, fed, summary, up>>

Exit(j, w) ==
  /\ stage[j] = "wait" /\ worker[j][w].At = "recv"
  /\ taken[j] = fed[j]
  /\ Step(j, w, "exit", 0, "none")
  /\ UNCHANGED <<wallet, job, audit, file, stage, fed, taken, summary, up>>

Delta(row) == PointsFromWhole(row.WholePoints)

\* Why ApplyTransaction refuses a row, none when it may accept it; an amount or
\* a sum that wraps then fails a CHECK, as internal_error.
Refusal(row) ==
  CASE row.WholePoints <= 0 \/ row.Kind \notin Kinds         -> "validation_error"
    [] status[row.AccountID] # "active"                      -> "account_not_found"
    [] Recorded(row.Ref)                                     -> "duplicate_ref"
    [] ResolveTransactionDirection(row.Kind, row.Direction) = "invalid"
                                                             -> "validation_error"
    [] row.Direction = "debit" /\ Sub(balance[row.AccountID], Delta(row)) < 0
                                                             -> "insufficient_balance"
    [] OTHER                                                 -> "none"

Post_AnyRef(row) ==
  LET after == PL!Moved(row.Direction, Delta(row), balance[row.AccountID]) IN
  /\ status[row.AccountID] = "active" /\ Delta(row) > 0 /\ after \in Stored
  /\ balance' = [balance EXCEPT ![row.AccountID] = after]
  /\ ledger' = Append(ledger, [Ref |-> row.Ref, AccountID |-> row.AccountID,
       Direction |-> row.Direction, Points |-> Delta(row), BalanceAfterPoints |-> after,
       ActorAccountID |-> Uploader])
  /\ UNCHANGED status
Post(row) ==
  /\ Refusal(row) = "none"
  /\ PL!Post(row.Ref, row.AccountID, row.Direction, Delta(row), Uploader)

\* wallet.ApplyTransaction: accepted, committed with the answer lost, refused,
\* or failed without effect.
Apply_IgnoresCommit(j, w) ==
  /\ worker[j][w].At = "apply"
  /\ Step(j, w, "audit", worker[j][w].Row, Refusal(file[j][worker[j][w].Row]))
  /\ Post(file[j][worker[j][w].Row]) \/ UNCHANGED wallet
  /\ UNCHANGED <<job, audit, file, stage, fed, taken, summary, up>>
Apply_Retries(j, w) ==
  LET n == worker[j][w].Row
      row == file[j][n]
  IN
  /\ worker[j][w].At = "apply"
  /\ \/ Post(row) /\ \E at \in {"audit", "apply"} : Step(j, w, at, n, "none")
     \/ Refusal(row) # "none" /\ Step(j, w, "audit", n, Refusal(row)) /\ UNCHANGED wallet
  /\ UNCHANGED <<job, audit, file, stage, fed, taken, summary, up>>
Apply(j, w) ==
  LET n == worker[j][w].Row
      row == file[j][n]
  IN
  /\ worker[j][w].At = "apply"
  /\ \/ Post(row) /\ Step(j, w, "audit", n, "none")
     \/ Post(row) /\ Step(j, w, "audit", n, "internal_error")
     \/ Refusal(row) # "none" /\ Step(j, w, "audit", n, Refusal(row)) /\ UNCHANGED wallet
     \/ Step(j, w, "audit", n, "internal_error") /\ UNCHANGED wallet
  /\ UNCHANGED <<job, audit, file, stage, fed, taken, summary, up>>

\* InsertAuditEvent, whose error is ignored.
InsertAuditEvent(j, w) ==
  LET n == worker[j][w].Row
      err == worker[j][w].Err
      event == [Job |-> j, Row |-> n, Ref |-> file[j][n].Ref,
                AccountID |-> file[j][n].AccountID,
                Status |-> IF err = "none" THEN "accepted" ELSE "rejected",
                Reason |-> IF err = "none" THEN "ok" ELSE err]
  IN
  /\ worker[j][w].At = "audit"
  /\ audit' \in {audit, audit \cup {event}}
  /\ Step(j, w, "record", n, err)
  /\ UNCHANGED <<wallet, job, file, stage, fed, taken, summary, up>>

\* summary.Record under the mutex.
Counted_AllErrorsRejected(err) == IF err = "none" THEN "Accepted" ELSE "Rejected"
Counted(err) ==
  CASE err = "none"          -> "Accepted"
    [] err = "duplicate_ref" -> "Duplicates"
    [] OTHER                 -> "Rejected"

Record(j, w) ==
  /\ worker[j][w].At = "record"
  /\ summary' = [summary EXCEPT ![j][Counted(worker[j][w].Err)] = @ + 1]
  /\ worker' = [worker EXCEPT ![j][w] = Waiting]
  /\ UNCHANGED <<wallet, job, audit, file, stage, fed, taken, up>>

\* wg.Wait, then CompleteJob, whose error is ignored.
Complete(j) ==
  /\ stage[j] = "wait"
  /\ \A w \in Workers : worker[j][w].At = "exit"
  /\ \/ job' = [job EXCEPT ![j] = [Status |-> "completed", TotalRows |-> @.TotalRows,
                                   Counts |-> summary[j]]]
     \/ UNCHANGED job
  /\ stage' = [stage EXCEPT ![j] = "done"]
  /\ UNCHANGED <<wallet, audit, file, fed, taken, worker, summary, up>>

\* The process ends; goroutines, channels and summaries are gone.
Crash ==
  /\ up
  /\ up' = FALSE
  /\ file' = [j \in Jobs |-> <<>>]
  /\ stage' = [j \in Jobs |-> "none"]
  /\ fed' = [j \in Jobs |-> 0]
  /\ taken' = [j \in Jobs |-> 0]
  /\ worker' = [j \in Jobs |-> [w \in Workers |-> Waiting]]
  /\ summary' = [j \in Jobs |-> Zero]
  /\ UNCHANGED <<wallet, job, audit>>

\* Start-up marks the jobs found in processing as failed, then serves.
Recovered_None(row) == row
Recovered(row) ==
  IF row.Status = "processing" THEN [row EXCEPT !.Status = "failed"] ELSE row

Restart ==
  /\ ~up
  /\ up' = TRUE
  /\ job' = [j \in Jobs |-> Recovered(job[j])]
  /\ UNCHANGED <<wallet, audit, memory>>

\* Accounts come and go meanwhile.
Environment ==
  /\ \E a \in Accounts : PL!Open(a) \/ PL!Close(a)
  /\ UNCHANGED <<job, audit, memory, up>>

Goroutine(j) == Start(j) \/ Feed(j) \/ Close(j) \/ Complete(j)
Work(j, w) == Receive(j, w) \/ Apply(j, w) \/ InsertAuditEvent(j, w) \/ Record(j, w) \/ Exit(j, w)

Next ==
  \/ \E j \in Jobs, csv \in Files : Upload(j, csv)
  \/ \E j \in Jobs : Goroutine(j) \/ \E w \in Workers : Work(j, w)
  \/ Crash
  \/ Restart
  \/ Environment

Spec == Init /\ [][Next]_vars

\* The Go scheduler runs every goroutine that can run; the server is restarted.
Fairness ==
  /\ \A j \in Jobs : WF_vars(Goroutine(j)) /\ \A w \in Workers : WF_vars(Work(j, w))
  /\ WF_vars(Restart)

FairSpec == Spec /\ Fairness

-----------------------------------------------------------------------------
Results == {"none", "validation_error", "account_not_found", "duplicate_ref", "insufficient_balance", "internal_error"}
Counts == [Verdicts -> Nat]
Total(counts) == counts["Accepted"] + counts["Rejected"] + counts["Duplicates"]

\* Every variable holds a value of its table or Go type.
TypeOK ==
  /\ status \in [Accounts -> {"absent", "active", "deleted"}]
  /\ balance \in [Accounts -> Stored]
  /\ job \in [Jobs -> [Status : {"none", "queued", "processing", "completed", "failed"},
                       TotalRows : Nat, Counts : Counts]]
  /\ \A e \in audit : /\ e.Job \in Jobs /\ e.Row \in Nat /\ e.Ref \in Refs
                      /\ e.AccountID \in Accounts /\ e.Status \in {"accepted", "rejected"}
                      /\ e.Reason \in (Results \cup {"ok"}) \ {"none"}
  /\ file \in [Jobs -> {ParseCSV(csv) : csv \in Files} \cup {<<>>}]
  /\ stage \in [Jobs -> {"none", "start", "feed", "wait", "done"}]
  /\ fed \in [Jobs -> Nat] /\ taken \in [Jobs -> Nat]
  /\ worker \in [Jobs -> [Workers -> [At : {"recv", "apply", "audit", "record", "exit"},
                                      Row : Nat, Err : Results]]]
  /\ summary \in [Jobs -> Counts]
  /\ up \in BOOLEAN

Busy(j) == {w \in Workers : worker[j][w].At \in {"apply", "audit", "record"}}

\* No row of a running job is lost, skipped or processed twice: each is still to
\* be sent, in the channel, in the hands of one worker, or counted once.
RowsAccountedFor ==
  \A j \in Jobs :
    /\ taken[j] <= fed[j] /\ fed[j] <= Len(file[j])
    /\ Total(summary[j]) + Cardinality(Busy(j)) = taken[j]
    /\ \A w, v \in Busy(j) : worker[j][w].Row = worker[j][v].Row => w = v

Class(e) ==
  CASE e.Status = "accepted"      -> "Accepted"
    [] e.Reason = "duplicate_ref" -> "Duplicates"
    [] OTHER                      -> "Rejected"

\* A job reported as completed has a verdict on every row of its file, and its
\* audit trail never shows more of any verdict than was counted.
CompletedCountsEveryRow ==
  \A j \in Jobs : job[j].Status = "completed" =>
    /\ Total(job[j].Counts) = job[j].TotalRows
    /\ \A k \in Verdicts :
         Cardinality({e \in audit : e.Job = j /\ Class(e) = k}) <= job[j].Counts[k]

\* The parser and the wallet agree on what a valid row is: once a file is accepted,
\* no row of it is refused for its kind, direction or sign, so a file is either
\* refused whole at the upload or judged on the state of the accounts.
NoRowInvalid == \A e \in audit : e.Reason # "validation_error"

\* A ref is accepted once, over all rows, workers, uploads and restarts.
AcceptedOncePerRef ==
  \A e, f \in audit : e.Status = "accepted" /\ f.Status = "accepted" /\ e.Ref = f.Ref => e = f

\* An accepted row is in the ledger, on its account.
AcceptedIsInLedger ==
  \A e \in audit : e.Status = "accepted" =>
    \E i \in 1 .. Len(ledger) : ledger[i].Ref = e.Ref /\ ledger[i].AccountID = e.AccountID

\* No other row that is ever uploaded carries the ref of the event's row.
Sole(e) ==
  /\ \A j \in Jobs : job[j].Status # "none" => j = e.Job
  /\ \A csv \in Files : ParsesOK(csv) =>
       \A n \in 1 .. Len(csv.Records) : csv.Records[n].Ref = e.Ref => n = e.Row

\* A rejected attempt leaves no ledger row, unless its answer was lost: whatever
\* other reason the audit trail gives, the transaction it is about did not happen.
RejectedLeavesNoRow ==
  \A e \in audit : e.Status = "rejected" /\ Sole(e) /\ Recorded(e.Ref) => e.Reason = "internal_error"

\* A job shown as processing has its goroutine at work, or that has judged and counted every
\* row and only its last write, CompleteJob, failed: a restart leaves none behind, and no
\* job is given up with rows to do.
ProcessingIsAlive ==
  up => \A j \in Jobs : job[j].Status = "processing" =>
    \/ stage[j] \in {"feed", "wait"}
    \/ stage[j] = "done" /\ Total(summary[j]) = job[j].TotalRows

\* A terminal status and its counts never change.
TerminalIsFinal ==
  [][\A j \in Jobs : job[j].Status \in {"completed", "failed"} => job'[j] = job[j]]_vars

\* The steps left of a started job: each row is sent, and received, applied, audited
\* and recorded; each worker goes on with the row it holds, and leaves; the goroutine
\* starts, closes the channel and completes.
WorkersAt(j, places) == Cardinality({w \in Workers : worker[j][w].At \in places})
HandSteps(j) ==
  WorkersAt(j, {"apply"}) + WorkersAt(j, {"apply", "audit"})
    + WorkersAt(j, {"apply", "audit", "record"}) + Cardinality(Workers) - WorkersAt(j, {"exit"})
StageSteps(j) ==
  CASE stage[j] = "start" -> 3 [] stage[j] = "feed" -> 2 [] stage[j] = "wait" -> 1 [] OTHER -> 0
Left(j) ==
  Len(file[j]) - fed[j] + 4 * (Len(file[j]) - taken[j]) + HandSteps(j) + StageSteps(j)

\* A job does its work once: whatever the writes and the wallet answer, each step of its
\* goroutine or of a worker is one of those left and brings no new one, nothing else
\* adds to them, and the job is done when none is left.
WorkShrinks ==
  [][\A j \in Jobs : stage[j] # "none" /\ up' =>
       /\ Left(j)' = IF Goroutine(j) \/ \E w \in Workers : Work(j, w) THEN Left(j) - 1 ELSE Left(j)
       /\ stage'[j] = "done" <=> Left(j)' = 0]_vars

\* The pool drains: every job that starts runs to its end unless the server
\* stops, with no worker left waiting on the channel.
JobDrains == \A j \in Jobs : stage[j] # "none" ~> stage[j] \in {"none", "done"}

(***************************************************************************)
(* A claim of the documents that the code does not meet.                    *)
(***************************************************************************)

\* PLAN.md: a client polls until the job is completed or failed.  Once the server
\* stays up, a job whose upload was answered gets there.
JobsEnd ==
  <>[]up => \A j \in Jobs : stage[j] = "start" ~> job[j].Status \in {"completed", "failed"}
=============================================================================
