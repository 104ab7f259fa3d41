----------------------------- MODULE BatchProofs -----------------------------
(* Proofs about Batch, for any jobs, files and pools of workers, and any     *)
(* number of crashes and restarts.                                           *)
EXTENDS Batch, FiniteSetTheorems, TLAPS

-----------------------------------------------------------------------------
(* Parsed files.                                                             *)

Parsed == {ParseCSV(csv) : csv \in Files} \cup {<<>>}

\* A row the wallet does not refuse for what is in it.
RowOK(row) ==
  /\ row.Ref \in Refs /\ row.AccountID \in Accounts
  /\ row.Kind \in Kinds /\ row.Direction \in Directions
  /\ row.WholePoints \in Int /\ row.WholePoints > 0
  /\ ResolveTransactionDirection(row.Kind, row.Direction) # "invalid"

RowsOK(rows) == Len(rows) \in Nat /\ \A n \in 1 .. Len(rows) : RowOK(rows[n])

LEMMA ParsedRows ==
  ASSUME NEW csv \in Files, ParsesOK(csv)
  PROVE  RowsOK(ParseCSV(csv))
<1>1. csv \in Csvs
  BY BatchAssumption
<1>2. csv.Records \in Seq(Records)
  BY <1>1 DEF Csvs
<1>3. Len(csv.Records) \in Nat /\ \A i \in 1 .. Len(csv.Records) : csv.Records[i] \in Records
  BY <1>2
<1>4. /\ Len(ParseCSV(csv)) = Len(csv.Records)
      /\ \A i \in 1 .. Len(csv.Records) : ParseCSV(csv)[i] = BatchRow(csv, csv.Records[i])
  BY <1>3 DEF ParseCSV
<1>5. ASSUME NEW i \in 1 .. Len(csv.Records)
      PROVE  RowOK(BatchRow(csv, csv.Records[i]))
  <2> DEFINE rec == csv.Records[i]
             dir == RowDirection(csv, rec)
  <2>1. rec \in Records /\ RecordOK(csv, rec)
    BY <1>3 DEF ParsesOK
  <2>2. /\ rec.Ref \in Refs /\ rec.AccountID \in Accounts /\ rec.WholePoints \in Int
        /\ rec.WholePoints > 0 /\ ResolveTransactionDirection(rec.Kind, dir) # "invalid"
    BY <2>1 DEF Records, RecordOK
  <2>3. rec.Kind \in Kinds /\ dir \in Directions
    <3> HIDE DEF dir
    <3> QED
      BY <2>2 DEF ResolveTransactionDirection, Kinds, Directions
  <2> QED
    BY <2>2, <2>3 DEF RowOK, BatchRow
<1> QED
  BY <1>3, <1>4, <1>5 DEF RowsOK

LEMMA NoRows == RowsOK(<<>>) /\ Len(<<>>) = 0
BY DEF RowsOK

-----------------------------------------------------------------------------
(***************************************************************************)
(* The inductive invariant, first part: the jobs and their rows.            *)
(***************************************************************************)

Rows == [Status : {"none", "queued", "processing", "completed", "failed"}, TotalRows : Nat,
         Counts : Counts]
Stages == {"none", "start", "feed", "wait", "done"}
Hands == [At : {"recv", "apply", "audit", "record", "exit"}, Row : Nat, Err : Results]
Entries == [Ref : Refs, AccountID : Accounts, Direction : {"credit", "debit"}, Points : Stored,
            BalanceAfterPoints : Stored, ActorAccountID : Accounts]
Event(e) ==
  /\ e.Job \in Jobs /\ e.Row \in Nat /\ e.Ref \in Refs
  /\ e.AccountID \in Accounts /\ e.Status \in {"accepted", "rejected"}
  /\ e.Reason \in (Results \cup {"ok"}) \ {"none"}

Wallet ==
  /\ status \in [Accounts -> {"absent", "active", "deleted"}]
  /\ balance \in [Accounts -> Stored]
  /\ ledger \in Seq(Entries)
  /\ status[Uploader] # "absent"

Memory ==
  /\ file \in [Jobs -> Parsed]
  /\ stage \in [Jobs -> Stages]
  /\ fed \in [Jobs -> Nat] /\ taken \in [Jobs -> Nat]
  /\ worker \in [Jobs -> [Workers -> Hands]]
  /\ summary \in [Jobs -> Counts]

Typed ==
  /\ Wallet
  /\ job \in [Jobs -> Rows]
  /\ \A e \in audit : Event(e)
  /\ Memory
  /\ up \in BOOLEAN

\* The memory of a job whose workers have not run.
Fresh(j) ==
  /\ fed[j] = 0 /\ taken[j] = 0 /\ summary[j] = Zero
  /\ \A w \in Workers : worker[j][w] = Waiting

\* The job row and its goroutine.
Runs(j) ==
  /\ job[j].Status = "none" => stage[j] = "none"
  /\ stage[j] # "none" => up /\ job[j].TotalRows = Len(file[j])
  /\ stage[j] = "none" => file[j] = <<>>
  /\ stage[j] \in {"none", "start"} => Fresh(j)
  /\ stage[j] = "start" => job[j].Status = "queued"
  /\ stage[j] \in {"feed", "wait"} => job[j].Status \in {"queued", "processing"}
  /\ up /\ job[j].Status = "processing" => stage[j] # "none"
  /\ stage[j] \in {"wait", "done"} => fed[j] = Len(file[j])
  /\ stage[j] = "done" => \A w \in Workers : worker[j][w].At = "exit"
  /\ job[j].Status = "completed" =>
       stage[j] \in {"none", "done"} /\ Total(job[j].Counts) = job[j].TotalRows

\* The channel and the rows in the hands of the workers.
Channel(j) ==
  /\ RowsOK(file[j])
  /\ taken[j] <= fed[j] /\ fed[j] <= Len(file[j])
  /\ Total(summary[j]) + Cardinality(Busy(j)) = taken[j]

Held(j) ==
  /\ \A w \in Workers :
       /\ w \in Busy(j) => worker[j][w].Row \in 1 .. taken[j]
       /\ worker[j][w].At = "exit" => stage[j] \in {"wait", "done"} /\ taken[j] = fed[j]
       /\ worker[j][w].At \in {"audit", "record"} => worker[j][w].Err # "validation_error"
  /\ \A w, v \in Busy(j) : worker[j][w].Row = worker[j][v].Row => w = v

JobOK(j) == Runs(j) /\ Channel(j) /\ Held(j)

Jobwise == Typed /\ \A j \in Jobs : JobOK(j)

LEMMA TypedTypes == Typed => TypeOK
BY DEF Typed, Wallet, Memory, TypeOK, Rows, Stages, Hands, Event, Parsed

LEMMA ZeroCounts ==
  /\ Zero \in Counts /\ Total(Zero) = 0
  /\ Waiting \in Hands
  /\ NoJob \in Rows
<1>1. Zero \in Counts /\ Total(Zero) = 0
  BY DEF Zero, Counts, Total, Verdicts
<1> QED
  BY <1>1 DEF Waiting, Hands, NoJob, Rows, Results

LEMMA TotalAdds ==
  ASSUME NEW counts \in Counts, NEW k \in Verdicts
  PROVE  /\ [counts EXCEPT ![k] = @ + 1] \in Counts
         /\ Total([counts EXCEPT ![k] = @ + 1]) = Total(counts) + 1
         /\ Total(counts) \in Nat
BY DEF Counts, Total, Verdicts

LEMMA BusyFinite ==
  ASSUME NEW j \in Jobs
  PROVE  /\ Busy(j) \subseteq Workers /\ IsFiniteSet(Busy(j)) /\ Cardinality(Busy(j)) \in Nat
         /\ Busy(j) = {} <=> Cardinality(Busy(j)) = 0
<1>1. Busy(j) \subseteq Workers
  BY DEF Busy
<1> QED
  BY <1>1, BatchAssumption, FS_Subset, FS_CardinalityType, FS_EmptySet

\* Fresh memory is in order.
LEMMA FreshOK ==
  ASSUME NEW j \in Jobs, Fresh(j), RowsOK(file[j])
  PROVE  Channel(j) /\ Held(j) /\ Busy(j) = {}
<1>1. \A w \in Workers : worker[j][w].At = "recv"
  BY DEF Fresh, Waiting
<1>2. Busy(j) = {}
  BY <1>1 DEF Busy
<1>3. Channel(j)
  BY <1>2, ZeroCounts, FS_EmptySet DEF Fresh, Channel, RowsOK
<1> QED
  BY <1>1, <1>2, <1>3 DEF Held

LEMMA InitJobwise == Init => Jobwise
<1> SUFFICES ASSUME Init PROVE Jobwise
  OBVIOUS
<1>1. 0 \in Stored /\ <<>> \in Seq(Entries) /\ <<>> \in Parsed
  BY PointsAssumption DEF Stored, Parsed
<1>2. Wallet
  BY <1>1, BatchAssumption DEF Init, PL!Init, Wallet
<1>3. Memory
  BY <1>1, ZeroCounts DEF Init, Memory, Stages
<1>4. Typed
  BY <1>2, <1>3, ZeroCounts DEF Init, Typed
<1>5. ASSUME NEW j \in Jobs PROVE JobOK(j)
  <2>1. Fresh(j) /\ RowsOK(file[j])
    BY NoRows DEF Init, Fresh
  <2>2. Runs(j)
    BY <2>1, <1>4 DEF Init, Runs, NoJob
  <2> QED
    BY <2>1, <2>2, FreshOK DEF JobOK
<1> QED
  BY <1>4, <1>5 DEF Jobwise

-----------------------------------------------------------------------------
(* One lemma per step.                                                       *)

\* A step that does not concern a job.
Same(i) ==
  /\ job'[i] = job[i] /\ file'[i] = file[i] /\ stage'[i] = stage[i] /\ fed'[i] = fed[i]
  /\ taken'[i] = taken[i] /\ worker'[i] = worker[i] /\ summary'[i] = summary[i]
  /\ up' = up

LEMMA JobFramed ==
  ASSUME NEW i \in Jobs, JobOK(i), Same(i)
  PROVE  JobOK(i)'
<1>1. Busy(i)' = Busy(i)
  BY DEF Busy, Same
<1>2. Runs(i)'
  BY DEF JobOK, Runs, Fresh, Same
<1>3. Channel(i)'
  BY <1>1 DEF JobOK, Channel, Same
<1>4. Held(i)'
  BY <1>1 DEF JobOK, Held, Same
<1> QED
  BY <1>2, <1>3, <1>4 DEF JobOK

LEMMA OneJob ==
  ASSUME Jobwise, NEW j \in Jobs, Typed', JobOK(j)', \A i \in Jobs \ {j} : Same(i)
  PROVE  Jobwise'
BY JobFramed DEF Jobwise

LEMMA StepMoves ==
  ASSUME Typed, NEW j \in Jobs, NEW w \in Workers, NEW at, NEW row \in Nat, NEW err \in Results,
         at \in {"recv", "apply", "audit", "record", "exit"}, Step(j, w, at, row, err)
  PROVE  /\ worker' \in [Jobs -> [Workers -> Hands]]
         /\ \A i \in Jobs \ {j} : worker'[i] = worker[i]
         /\ \A v \in Workers \ {w} : worker'[j][v] = worker[j][v]
         /\ worker'[j][w] = [At |-> at, Row |-> row, Err |-> err]
<1> DEFINE hand == [At |-> at, Row |-> row, Err |-> err]
           hands == [worker[j] EXCEPT ![w] = hand]
<1>1. hand \in Hands
  BY DEF Hands
<1>2. worker' = [worker EXCEPT ![j] = hands]
  BY DEF Step
<1>3. worker \in [Jobs -> [Workers -> Hands]]
  BY DEF Typed, Memory
<1>4. hands \in [Workers -> Hands] /\ hands[w] = hand /\ \A v \in Workers \ {w} : hands[v] = worker[j][v]
  BY <1>1, <1>3
<1> HIDE DEF hands, hand
<1>5. worker' \in [Jobs -> [Workers -> Hands]] /\ worker'[j] = hands
      /\ \A i \in Jobs \ {j} : worker'[i] = worker[i]
  BY <1>2, <1>3, <1>4
<1> QED
  BY <1>4, <1>5 DEF hand

LEMMA UploadJobwise ==
  ASSUME Jobwise, NEW j \in Jobs, NEW csv \in Files, Upload(j, csv)
  PROVE  Jobwise'
<1> DEFINE rows == ParseCSV(csv)
           new == [Status |-> "queued", TotalRows |-> Len(rows), Counts |-> Zero]
<1>1. RowsOK(rows) /\ rows \in Parsed
  BY ParsedRows DEF Upload, Parsed
<1>2. new \in Rows
  BY <1>1, ZeroCounts DEF Rows, RowsOK
<1>3. /\ job[j].Status = "none" /\ stage[j] = "none" /\ Fresh(j) /\ file[j] = <<>> /\ up
      /\ RowsOK(file[j])
  BY DEF Upload, Jobwise, JobOK, Runs, Channel
<1>4. /\ job' = [job EXCEPT ![j] = new]
      /\ UNCHANGED <<wallet, audit, fed, taken, worker, summary, up>>
  BY DEF Upload
<1>5. \/ file' = [file EXCEPT ![j] = rows] /\ stage' = [stage EXCEPT ![j] = "start"]
      \/ UNCHANGED <<file, stage>>
  BY DEF Upload
<1> HIDE DEF rows, new
<1>6. Typed'
  BY <1>1, <1>2, <1>4, <1>5 DEF Jobwise, Typed, Memory, Stages, Wallet, wallet, Event
<1>7. \A i \in Jobs \ {j} : Same(i)
  BY <1>4, <1>5 DEF Jobwise, Typed, Memory, Same
<1>8. /\ job'[j] = new
      /\ \/ file'[j] = rows /\ stage'[j] = "start"
         \/ file'[j] = <<>> /\ stage'[j] = "none"
  <2>1. job'[j] = new
    BY <1>4 DEF Jobwise, Typed
  <2>2. CASE UNCHANGED <<file, stage>>
    BY <1>3, <2>1, <2>2
  <2>3. CASE file' = [file EXCEPT ![j] = rows] /\ stage' = [stage EXCEPT ![j] = "start"]
    BY <2>1, <2>3 DEF Jobwise, Typed, Memory
  <2> QED
    BY <1>5, <2>2, <2>3
<1>9. Fresh(j)' /\ RowsOK(file[j])'
  BY <1>1, <1>3, <1>4, <1>8 DEF Fresh
<1>10. Runs(j)'
  BY <1>3, <1>4, <1>8, <1>9 DEF Runs, new
<1>11. Channel(j)' /\ Held(j)'
  <2>1. \A w \in Workers : worker'[j][w].At = "recv"
    BY <1>9 DEF Fresh, Waiting
  <2>2. Busy(j)' = {}
    BY <2>1 DEF Busy
  <2> QED
    BY <1>9, <2>1, <2>2, ZeroCounts, FS_EmptySet DEF Fresh, Channel, RowsOK, Held
<1> QED
  BY <1>6, <1>7, <1>10, <1>11, OneJob DEF JobOK

LEMMA StartJobwise ==
  ASSUME Jobwise, NEW j \in Jobs, Start(j)
  PROVE  Jobwise'
<1> DEFINE new == [Status |-> "processing", TotalRows |-> job[j].TotalRows, Counts |-> job[j].Counts]
<1>1. stage[j] = "start" /\ Runs(j) /\ Channel(j) /\ Held(j) /\ job[j] \in Rows
  BY DEF Start, Jobwise, JobOK, Typed
<1>2. [job[j] EXCEPT !.Status = "processing"] = new /\ new \in Rows
  BY <1>1 DEF Rows
<1>3. job' = [job EXCEPT ![j] = [job[j] EXCEPT !.Status = "processing"]] \/ job' = job
  BY DEF Start
<1>4. job' = [job EXCEPT ![j] = new] \/ job' = job
  BY <1>2, <1>3
<1>5. /\ stage' = [stage EXCEPT ![j] = "feed"]
      /\ UNCHANGED <<wallet, audit, file, fed, taken, worker, summary, up>>
  BY DEF Start
<1> HIDE DEF new
<1>6. Typed'
  <2>1. job' \in [Jobs -> Rows]
    BY <1>2, <1>4 DEF Jobwise, Typed
  <2>2. Memory'
    BY <1>5 DEF Jobwise, Typed, Memory, Stages
  <2>3. Wallet' /\ (\A e \in audit' : Event(e)') /\ up' \in BOOLEAN
    BY <1>5 DEF Jobwise, Typed, Wallet, wallet, Event
  <2> QED
    BY <2>1, <2>2, <2>3 DEF Typed
<1>7. \A i \in Jobs \ {j} : Same(i)
  BY <1>4, <1>5 DEF Jobwise, Typed, Memory, Same
<1>8. stage'[j] = "feed" /\ job'[j] \in {new, job[j]}
  BY <1>4, <1>5 DEF Jobwise, Typed, Memory
<1>9. Busy(j)' = Busy(j)
  BY <1>5 DEF Busy
<1>10. Runs(j)'
  BY <1>1, <1>5, <1>8 DEF Runs, new
<1>11. Channel(j)'
  BY <1>1, <1>5, <1>9 DEF Channel
<1>12. Held(j)'
  BY <1>1, <1>5, <1>8, <1>9 DEF Held
<1> QED
  BY <1>6, <1>7, <1>10, <1>11, <1>12, OneJob DEF JobOK

LEMMA FeedJobwise ==
  ASSUME Jobwise, NEW j \in Jobs, Feed(j)
  PROVE  Jobwise'
<1>1. /\ stage[j] = "feed" /\ fed[j] < Len(file[j]) /\ fed' = [fed EXCEPT ![j] = fed[j] + 1]
      /\ UNCHANGED <<wallet, job, audit, file, stage, taken, worker, summary, up>>
  BY DEF Feed
<1>2. Runs(j) /\ Channel(j) /\ Held(j) /\ fed[j] \in Nat /\ taken[j] \in Nat /\ Len(file[j]) \in Nat
  BY DEF Jobwise, JobOK, Typed, Memory, Channel, RowsOK
<1>3. Typed'
  BY <1>1, <1>2 DEF Jobwise, Typed, Memory, Wallet, wallet, Event
<1>4. \A i \in Jobs \ {j} : Same(i)
  BY <1>1 DEF Jobwise, Typed, Memory, Same
<1>5. fed'[j] = fed[j] + 1 /\ Busy(j)' = Busy(j)
  BY <1>1 DEF Jobwise, Typed, Memory, Busy
<1>6. Runs(j)'
  BY <1>1, <1>2 DEF Runs
<1>7. Channel(j)'
  BY <1>1, <1>2, <1>5 DEF Channel
<1>8. Held(j)'
  BY <1>1, <1>2, <1>5 DEF Held
<1> QED
  BY <1>3, <1>4, <1>6, <1>7, <1>8, OneJob DEF JobOK

LEMMA CloseJobwise ==
  ASSUME Jobwise, NEW j \in Jobs, Close(j)
  PROVE  Jobwise'
<1>1. /\ stage[j] = "feed" /\ fed[j] = Len(file[j]) /\ stage' = [stage EXCEPT ![j] = "wait"]
      /\ UNCHANGED <<wallet, job, audit, file, fed, taken, worker, summary, up>>
  BY DEF Close
<1>2. Runs(j) /\ Channel(j) /\ Held(j)
  BY DEF Jobwise, JobOK
<1>3. Typed'
  BY <1>1 DEF Jobwise, Typed, Memory, Stages, Wallet, wallet, Event
<1>4. \A i \in Jobs \ {j} : Same(i)
  BY <1>1 DEF Jobwise, Typed, Memory, Same
<1>5. stage'[j] = "wait" /\ Busy(j)' = Busy(j)
  BY <1>1 DEF Jobwise, Typed, Memory, Busy
<1>6. Runs(j)'
  BY <1>1, <1>2, <1>5 DEF Runs
<1>7. Channel(j)'
  BY <1>1, <1>2, <1>5 DEF Channel
<1>8. Held(j)'
  BY <1>1, <1>2, <1>5 DEF Held
<1> QED
  BY <1>3, <1>4, <1>6, <1>7, <1>8, OneJob DEF JobOK

LEMMA CompleteJobwise ==
  ASSUME Jobwise, NEW j \in Jobs, Complete(j)
  PROVE  Jobwise'
<1> DEFINE new == [Status |-> "completed", TotalRows |-> job[j].TotalRows, Counts |-> summary[j]]
<1>1. /\ stage[j] = "wait" /\ \A w \in Workers : worker[j][w].At = "exit"
      /\ job' = [job EXCEPT ![j] = new] \/ job' = job
      /\ stage' = [stage EXCEPT ![j] = "done"]
      /\ UNCHANGED <<wallet, audit, file, fed, taken, worker, summary, up>>
  BY DEF Complete
<1>2. /\ Runs(j) /\ Channel(j) /\ Held(j) /\ job[j] \in Rows /\ summary[j] \in Counts
      /\ taken[j] \in Nat
  BY DEF Jobwise, JobOK, Typed, Memory
<1>3. new \in Rows
  BY <1>2 DEF Rows
<1>4. Busy(j) = {}
  BY <1>1 DEF Busy
<1>5. Total(summary[j]) = job[j].TotalRows
  <2>1. PICK w \in Workers : TRUE
    BY BatchAssumption
  <2>2. taken[j] = Len(file[j])
    BY <1>1, <1>2, <2>1 DEF Held, Runs
  <2>3. Total(summary[j]) = taken[j]
    BY <1>2, <1>4, FS_EmptySet DEF Channel, Total, Counts, Verdicts
  <2> QED
    BY <1>1, <1>2, <2>2, <2>3 DEF Runs
<1> HIDE DEF new
<1>6. Typed'
  <2>1. job' \in [Jobs -> Rows]
    BY <1>1, <1>3 DEF Jobwise, Typed
  <2>2. Memory'
    BY <1>1 DEF Jobwise, Typed, Memory, Stages
  <2>3. Wallet' /\ (\A e \in audit' : Event(e)') /\ up' \in BOOLEAN
    BY <1>1 DEF Jobwise, Typed, Wallet, wallet, Event
  <2> QED
    BY <2>1, <2>2, <2>3 DEF Typed
<1>7. \A i \in Jobs \ {j} : Same(i)
  BY <1>1 DEF Jobwise, Typed, Memory, Same
<1>8. stage'[j] = "done" /\ job'[j] \in {new, job[j]} /\ Busy(j)' = Busy(j)
  BY <1>1 DEF Jobwise, Typed, Memory, Busy
<1>9. Runs(j)'
  BY <1>1, <1>2, <1>5, <1>8 DEF Runs, new
<1>10. Channel(j)'
  BY <1>1, <1>2, <1>8 DEF Channel
<1>11. Held(j)'
  BY <1>1, <1>2, <1>8 DEF Held
<1> QED
  BY <1>6, <1>7, <1>9, <1>10, <1>11, OneJob DEF JobOK

LEMMA CrashJobwise ==
  ASSUME Jobwise, Crash
  PROVE  Jobwise'
<1>1. <<>> \in Parsed
  BY DEF Parsed
<1>2. Typed'
  BY <1>1, ZeroCounts DEF Crash, Jobwise, Typed, Memory, Stages, Wallet, wallet, Event
<1>3. ASSUME NEW j \in Jobs PROVE JobOK(j)'
  <2>1. Fresh(j)' /\ file'[j] = <<>> /\ stage'[j] = "none" /\ ~up' /\ job'[j] = job[j]
    BY DEF Crash, Fresh
  <2>2. \A w \in Workers : worker'[j][w].At = "recv"
    BY <2>1 DEF Fresh, Waiting
  <2>3. Busy(j)' = {}
    BY <2>2 DEF Busy
  <2>4. Runs(j)'
    BY <2>1 DEF Jobwise, JobOK, Runs
  <2>5. Channel(j)' /\ Held(j)'
    BY <2>1, <2>2, <2>3, NoRows, ZeroCounts, FS_EmptySet DEF Fresh, Channel, RowsOK, Held
  <2> QED
    BY <2>4, <2>5 DEF JobOK
<1> QED
  BY <1>2, <1>3 DEF Jobwise

LEMMA RecoveredRow ==
  ASSUME NEW row \in Rows
  PROVE  /\ Recovered(row) \in Rows
         /\ Recovered(row).TotalRows = row.TotalRows /\ Recovered(row).Counts = row.Counts
         /\ row.Status # "processing" => Recovered(row) = row
         /\ row.Status = "processing" => Recovered(row).Status = "failed"
<1>1. [row EXCEPT !.Status = "failed"] = [Status |-> "failed", TotalRows |-> row.TotalRows, Counts |-> row.Counts]
  BY DEF Rows
<1> QED
  BY <1>1 DEF Recovered, Rows

LEMMA RestartJobwise ==
  ASSUME Jobwise, Restart
  PROVE  Jobwise'
<1>1. /\ ~up /\ up' /\ UNCHANGED <<wallet, audit, memory>>
      /\ \A j \in Jobs : job'[j] = Recovered(job[j]) /\ job[j] \in Rows
      /\ job' \in [Jobs -> Rows]
  BY RecoveredRow DEF Restart, Jobwise, Typed
<1>2. Typed'
  BY <1>1 DEF Restart, Jobwise, Typed, Memory, memory, Wallet, wallet, Event
<1>3. ASSUME NEW j \in Jobs PROVE JobOK(j)'
  <2>1. stage[j] = "none" /\ Runs(j) /\ Channel(j) /\ Held(j)
    BY <1>1 DEF Jobwise, JobOK, Runs
  <2>2. /\ job'[j].TotalRows = job[j].TotalRows /\ job'[j].Counts = job[j].Counts
        /\ job'[j].Status # "processing"
        /\ job'[j].Status = job[j].Status \/ job'[j].Status = "failed"
    BY <1>1, RecoveredRow
  <2>3. Busy(j)' = Busy(j)
    BY <1>1 DEF memory, Busy
  <2>4. Runs(j)'
    BY <1>1, <2>1, <2>2 DEF memory, Runs, Fresh
  <2>5. Channel(j)' /\ Held(j)'
    BY <1>1, <2>1, <2>3 DEF memory, Channel, Held
  <2> QED
    BY <2>4, <2>5 DEF JobOK
<1> QED
  BY <1>2, <1>3 DEF Jobwise

LEMMA EnvironmentJobwise ==
  ASSUME Jobwise, Environment
  PROVE  Jobwise'
<1>1. UNCHANGED <<job, audit, memory, up, balance, ledger>>
  BY DEF Environment, PL!Open, PL!Close
<1>2. Wallet'
  BY BatchAssumption DEF Environment, PL!Open, PL!Close, Jobwise, Typed, Wallet
<1>3. Typed'
  BY <1>1, <1>2 DEF Jobwise, Typed, Memory, memory, Event
<1>4. \A j \in Jobs : Same(j)
  BY <1>1 DEF memory, Same
<1> QED
  BY <1>3, <1>4, JobFramed DEF Jobwise

\* The workers' steps.

LEMMA ReceiveJobwise ==
  ASSUME Jobwise, NEW j \in Jobs, NEW w \in Workers, Receive(j, w)
  PROVE  Jobwise'
<1>1. /\ stage[j] \in {"feed", "wait"} /\ worker[j][w].At = "recv" /\ taken[j] < fed[j]
      /\ taken' = [taken EXCEPT ![j] = taken[j] + 1]
      /\ Step(j, w, "apply", taken[j] + 1, "none")
      /\ UNCHANGED <<wallet, job, audit, file, stage, fed, summary, up>>
  BY DEF Receive
<1>2. Runs(j) /\ Channel(j) /\ Held(j) /\ fed[j] \in Nat /\ taken[j] \in Nat /\ summary[j] \in Counts
  BY DEF Jobwise, JobOK, Typed, Memory
<1>3. /\ worker' \in [Jobs -> [Workers -> Hands]]
      /\ \A i \in Jobs \ {j} : worker'[i] = worker[i]
      /\ \A v \in Workers \ {w} : worker'[j][v] = worker[j][v]
      /\ worker'[j][w] = [At |-> "apply", Row |-> taken[j] + 1, Err |-> "none"]
  <2>1. taken[j] + 1 \in Nat /\ "none" \in Results
    BY <1>2 DEF Results
  <2> QED
    BY <1>1, <2>1, StepMoves DEF Jobwise
<1>4. Typed'
  <2>1. taken' \in [Jobs -> Nat]
    BY <1>1, <1>2 DEF Jobwise, Typed, Memory
  <2>2. Memory'
    BY <1>1, <1>3, <2>1 DEF Jobwise, Typed, Memory
  <2> QED
    BY <1>1, <2>2 DEF Jobwise, Typed, Wallet, wallet, Event
<1>5. \A i \in Jobs \ {j} : Same(i)
  BY <1>1, <1>3 DEF Jobwise, Typed, Memory, Same
<1>6. taken'[j] = taken[j] + 1
  BY <1>1 DEF Jobwise, Typed, Memory
<1>7. Busy(j)' = Busy(j) \cup {w} /\ w \notin Busy(j)
  BY <1>1, <1>3 DEF Busy
<1>8. Runs(j)'
  BY <1>1, <1>2, <1>3 DEF Runs
<1>9. Channel(j)'
  <2>1. Cardinality(Busy(j)') = Cardinality(Busy(j)) + 1
    BY <1>7, BusyFinite, FS_AddElement
  <2>2. Total(summary[j]) \in Nat /\ Cardinality(Busy(j)) \in Nat
    BY <1>2, BusyFinite DEF Total, Counts, Verdicts
  <2>3. Cardinality(Busy(j))' = Cardinality(Busy(j)) + 1
    BY <2>1
  <2> QED
    BY <1>1, <1>2, <1>6, <2>2, <2>3 DEF Channel
<1>10. Held(j)'
  <2>1. ASSUME NEW v \in Workers
        PROVE  /\ v \in Busy(j)' => worker'[j][v].Row \in 1 .. taken'[j]
               /\ worker'[j][v].At # "exit"
               /\ worker'[j][v].At \in {"audit", "record"} => worker'[j][v].Err # "validation_error"
    <3>1. CASE v = w
      BY <1>2, <1>3, <1>6, <3>1
    <3>2. CASE v # w
      BY <1>1, <1>2, <1>3, <1>6, <1>7, <3>2 DEF Held
    <3> QED
      BY <3>1, <3>2
  <2>2. ASSUME NEW v \in Busy(j)', NEW u \in Busy(j)', worker'[j][v].Row = worker'[j][u].Row
        PROVE  v = u
    <3>1. \A x \in Busy(j) : x \in Workers \ {w} /\ worker[j][x].Row \in 1 .. taken[j]
      BY <1>2, <1>7, BusyFinite DEF Held
    <3> QED
      BY <1>2, <1>3, <1>7, <2>2, <3>1 DEF Held
  <2> QED
    BY <2>1, <2>2 DEF Held
<1> QED
  BY <1>4, <1>5, <1>8, <1>9, <1>10, OneJob DEF JobOK

\* A worker goes on with the row it holds.
LEMMA HandJobwise ==
  ASSUME Jobwise, NEW j \in Jobs, NEW w \in Workers, worker[j][w].At \in {"apply", "audit"},
         NEW at \in {"audit", "record"}, NEW err \in Results \ {"validation_error"},
         Step(j, w, at, worker[j][w].Row, err), Wallet', \A e \in audit' : Event(e),
         UNCHANGED <<job, file, stage, fed, taken, summary, up>>
  PROVE  Jobwise'
<1>1. Runs(j) /\ Channel(j) /\ Held(j) /\ worker[j][w] \in Hands /\ Typed
  BY DEF Jobwise, JobOK, Typed, Memory
<1>2. /\ worker' \in [Jobs -> [Workers -> Hands]]
      /\ \A i \in Jobs \ {j} : worker'[i] = worker[i]
      /\ \A v \in Workers \ {w} : worker'[j][v] = worker[j][v]
      /\ worker'[j][w] = [At |-> at, Row |-> worker[j][w].Row, Err |-> err]
  <2>1. worker[j][w].Row \in Nat
    BY <1>1 DEF Hands
  <2> QED
    BY <1>1, <2>1, StepMoves
<1>3. Typed'
  <2>1. Memory'
    BY <1>1, <1>2 DEF Typed, Memory
  <2> QED
    BY <1>1, <2>1 DEF Typed, Event
<1>4. \A i \in Jobs \ {j} : Same(i)
  BY <1>2 DEF Same
<1>5. Busy(j)' = Busy(j) /\ w \in Busy(j)
  BY <1>2 DEF Busy
<1>6. Runs(j)'
  BY <1>1, <1>2 DEF Runs, Fresh, Waiting
<1>7. Channel(j)'
  BY <1>1, <1>5 DEF Channel
<1>8. Held(j)'
  <2>1. ASSUME NEW v \in Workers
        PROVE  /\ v \in Busy(j)' => worker'[j][v].Row \in 1 .. taken'[j]
               /\ worker'[j][v].At = "exit" => stage'[j] \in {"wait", "done"} /\ taken'[j] = fed'[j]
               /\ worker'[j][v].At \in {"audit", "record"} => worker'[j][v].Err # "validation_error"
    <3>1. CASE v = w
      BY <1>1, <1>2, <1>5, <3>1 DEF Held
    <3>2. CASE v # w
      BY <1>1, <1>2, <1>5, <3>2 DEF Held
    <3> QED
      BY <3>1, <3>2
  <2>2. \A v \in Workers : worker'[j][v].Row = worker[j][v].Row
    BY <1>2
  <2>3. ASSUME NEW v \in Busy(j)', NEW u \in Busy(j)', worker'[j][v].Row = worker'[j][u].Row
        PROVE  v = u
    BY <1>1, <1>5, <2>2, <2>3, BusyFinite DEF Held
  <2> QED
    BY <2>1, <2>3 DEF Held
<1> QED
  BY <1>3, <1>4, <1>6, <1>7, <1>8, OneJob DEF JobOK

LEMMA ExitJobwise ==
  ASSUME Jobwise, NEW j \in Jobs, NEW w \in Workers, Exit(j, w)
  PROVE  Jobwise'
<1>1. /\ stage[j] = "wait" /\ worker[j][w].At = "recv" /\ taken[j] = fed[j]
      /\ Step(j, w, "exit", 0, "none")
      /\ UNCHANGED <<wallet, job, audit, file, stage, fed, taken, summary, up>>
  BY DEF Exit
<1>2. Runs(j) /\ Channel(j) /\ Held(j) /\ Typed
  BY DEF Jobwise, JobOK
<1>3. /\ worker' \in [Jobs -> [Workers -> Hands]]
      /\ \A i \in Jobs \ {j} : worker'[i] = worker[i]
      /\ \A v \in Workers \ {w} : worker'[j][v] = worker[j][v]
      /\ worker'[j][w] = [At |-> "exit", Row |-> 0, Err |-> "none"]
  <2>1. "none" \in Results
    BY DEF Results
  <2> QED
    BY <1>1, <1>2, <2>1, StepMoves
<1>4. Typed'
  <2>1. Memory'
    BY <1>1, <1>2, <1>3 DEF Typed, Memory
  <2> QED
    BY <1>1, <1>2, <2>1 DEF Typed, Wallet, wallet, Event
<1>5. \A i \in Jobs \ {j} : Same(i)
  BY <1>1, <1>3 DEF Same
<1>6. Busy(j)' = Busy(j) /\ w \notin Busy(j)
  BY <1>1, <1>3 DEF Busy
<1>7. Runs(j)'
  BY <1>1, <1>2, <1>3 DEF Runs
<1>8. Channel(j)'
  BY <1>1, <1>2, <1>6 DEF Channel
<1>9. Held(j)'
  <2>1. ASSUME NEW v \in Workers
        PROVE  /\ v \in Busy(j)' => worker'[j][v].Row \in 1 .. taken'[j]
               /\ worker'[j][v].At = "exit" => stage'[j] \in {"wait", "done"} /\ taken'[j] = fed'[j]
               /\ worker'[j][v].At \in {"audit", "record"} => worker'[j][v].Err # "validation_error"
    <3>1. CASE v = w
      BY <1>1, <1>3, <1>6, <3>1
    <3>2. CASE v # w
      BY <1>1, <1>2, <1>3, <1>6, <3>2 DEF Held
    <3> QED
      BY <3>1, <3>2
  <2>2. ASSUME NEW v \in Busy(j)', NEW u \in Busy(j)', worker'[j][v].Row = worker'[j][u].Row
        PROVE  v = u
    BY <1>2, <1>3, <1>6, <2>2, BusyFinite DEF Held
  <2> QED
    BY <2>1, <2>2 DEF Held
<1> QED
  BY <1>4, <1>5, <1>7, <1>8, <1>9, OneJob DEF JobOK

LEMMA RecordJobwise ==
  ASSUME Jobwise, NEW j \in Jobs, NEW w \in Workers, Record(j, w)
  PROVE  Jobwise'
<1> DEFINE k == Counted(worker[j][w].Err)
           counts == [summary[j] EXCEPT ![k] = @ + 1]
           hands == [worker[j] EXCEPT ![w] = Waiting]
<1>1. /\ worker[j][w].At = "record"
      /\ summary' = [summary EXCEPT ![j] = counts]
      /\ worker' = [worker EXCEPT ![j] = hands]
      /\ UNCHANGED <<wallet, job, audit, file, stage, fed, taken, up>>
  BY DEF Record
<1>2. /\ Runs(j) /\ Channel(j) /\ Held(j) /\ Typed /\ summary[j] \in Counts
      /\ worker[j] \in [Workers -> Hands]
  BY DEF Jobwise, JobOK, Typed, Memory
<1>3. k \in Verdicts
  BY DEF Counted, Verdicts
<1> HIDE DEF k
<1>4. counts \in Counts /\ Total(counts) = Total(summary[j]) + 1 /\ Total(summary[j]) \in Nat
  BY <1>2, <1>3, TotalAdds
<1>5. /\ hands \in [Workers -> Hands] /\ hands[w] = Waiting
      /\ \A v \in Workers \ {w} : hands[v] = worker[j][v]
  BY <1>2, ZeroCounts
<1> HIDE DEF counts, hands
<1>6. Typed'
  <2>1. summary' \in [Jobs -> Counts]
    BY <1>1, <1>2, <1>4 DEF Typed, Memory
  <2>2. worker' \in [Jobs -> [Workers -> Hands]]
    BY <1>1, <1>2, <1>5 DEF Typed, Memory
  <2>3. Memory'
    BY <1>1, <1>2, <2>1, <2>2 DEF Typed, Memory
  <2> QED
    BY <1>1, <1>2, <2>3 DEF Typed, Wallet, wallet, Event
<1>7. \A i \in Jobs \ {j} : Same(i)
  BY <1>1, <1>2 DEF Typed, Memory, Same
<1>8. summary'[j] = counts /\ worker'[j] = hands
  BY <1>1, <1>2 DEF Typed, Memory
<1>9. Busy(j)' = Busy(j) \ {w} /\ w \in Busy(j)
  BY <1>1, <1>5, <1>8 DEF Busy, Waiting
<1>10. Runs(j)'
  BY <1>1, <1>2, <1>5, <1>8 DEF Runs, Fresh, Waiting
<1>11. Channel(j)'
  <2>1. Cardinality(Busy(j) \ {w}) = Cardinality(Busy(j)) - 1 /\ Cardinality(Busy(j)) \in Nat
    BY <1>9, BusyFinite, FS_RemoveElement
  <2>2. Cardinality(Busy(j))' = Cardinality(Busy(j)) - 1
    BY <1>9, <2>1
  <2> QED
    BY <1>1, <1>2, <1>4, <1>8, <2>1, <2>2 DEF Channel
<1>12. Held(j)'
  <2>1. ASSUME NEW v \in Workers
        PROVE  /\ v \in Busy(j)' => worker'[j][v].Row \in 1 .. taken'[j]
               /\ worker'[j][v].At = "exit" => stage'[j] \in {"wait", "done"} /\ taken'[j] = fed'[j]
               /\ worker'[j][v].At \in {"audit", "record"} => worker'[j][v].Err # "validation_error"
    <3>1. CASE v = w
      BY <1>5, <1>8, <1>9, <3>1 DEF Waiting
    <3>2. CASE v # w
      BY <1>1, <1>2, <1>5, <1>8, <1>9, <3>2 DEF Held
    <3> QED
      BY <3>1, <3>2
  <2>2. ASSUME NEW v \in Busy(j)', NEW u \in Busy(j)', worker'[j][v].Row = worker'[j][u].Row
        PROVE  v = u
    BY <1>2, <1>5, <1>8, <1>9, <2>2, BusyFinite DEF Held
  <2> QED
    BY <2>1, <2>2 DEF Held
<1> QED
  BY <1>6, <1>7, <1>10, <1>11, <1>12, OneJob DEF JobOK

\* Rows and the wallet.

LEMMA HeldRow ==
  ASSUME Jobwise, NEW j \in Jobs, NEW w \in Busy(j)
  PROVE  /\ RowOK(file[j][worker[j][w].Row]) /\ worker[j][w].Row \in 1 .. taken[j]
         /\ worker[j][w].Row \in 1 .. Len(file[j]) /\ w \in Workers
BY BusyFinite DEF Jobwise, JobOK, Channel, Held, RowsOK, Typed, Memory

LEMMA RefusalInRange ==
  ASSUME NEW row, RowOK(row)
  PROVE  Refusal(row) \in Results \ {"validation_error"}
BY DEF RowOK, Refusal, Results

LEMMA DeltaInRange ==
  ASSUME NEW row, RowOK(row)
  PROVE  Delta(row) \in Int64
<1>1. row.WholePoints * PointsScale \in Int
  BY PointsAssumption DEF RowOK
<1>2. \A n \in Int : Wrap(n) \in Int64
  BY PointsAssumption, SMT DEF Wrap, Int64
<1> QED
  BY <1>1, <1>2 DEF Delta, PointsFromWhole

\* An accepted row appends its entry, of a ref that was not recorded.
LEMMA PostSteps ==
  ASSUME Wallet, NEW row, RowOK(row), Post(row)
  PROVE  /\ Wallet' /\ ~Recorded(row.Ref)
         /\ \E e \in Entries : e.Ref = row.Ref /\ e.AccountID = row.AccountID
                                 /\ ledger' = Append(ledger, e)
<1> DEFINE d == Delta(row)
           after == PL!Moved(row.Direction, d, balance[row.AccountID])
           e == [Ref |-> row.Ref, AccountID |-> row.AccountID, Direction |-> row.Direction,
                 Points |-> d, BalanceAfterPoints |-> after, ActorAccountID |-> Uploader]
<1>1. PL!Post(row.Ref, row.AccountID, row.Direction, d, Uploader)
  BY DEF Post
<1>2. /\ d > 0 /\ after \in 0 .. HalfRange - 1
      /\ ledger' = Append(ledger, e)
      /\ balance' = [balance EXCEPT ![row.AccountID] = after] /\ UNCHANGED status
      /\ ~Recorded(row.Ref)
  BY <1>1 DEF PL!Post, Recorded
<1>3. d \in Int64
  BY DeltaInRange
<1> HIDE DEF d, after
<1>4. after \in Stored /\ d \in Stored
  BY <1>2, <1>3, PointsAssumption DEF Stored, Int64
<1>5. e \in Entries
  BY <1>4, BatchAssumption DEF Entries, RowOK, Directions
<1> HIDE DEF e
<1>6. Wallet'
  BY <1>2, <1>4, <1>5 DEF Wallet, RowOK
<1> QED
  BY <1>2, <1>5, <1>6 DEF e

LEMMA ApplyJobwise ==
  ASSUME Jobwise, NEW j \in Jobs, NEW w \in Workers, Apply(j, w)
  PROVE  Jobwise'
<1> DEFINE row == file[j][worker[j][w].Row]
<1>1. worker[j][w].At = "apply" /\ w \in Busy(j)
  BY DEF Apply, Busy
<1>2. RowOK(row)
  BY <1>1, HeldRow
<1>3. PICK err : /\ err \in {"none", "internal_error", Refusal(row)}
                 /\ Step(j, w, "audit", worker[j][w].Row, err)
                 /\ Post(row) \/ UNCHANGED wallet
  BY DEF Apply
<1>4. err \in Results \ {"validation_error"}
  BY <1>2, <1>3, RefusalInRange DEF Results
<1>5. Wallet'
  BY <1>2, <1>3, PostSteps DEF Jobwise, Typed, Wallet, wallet
<1>6. UNCHANGED <<job, audit, file, stage, fed, taken, summary, up>>
  BY DEF Apply
<1>7. \A e \in audit' : Event(e)
  BY <1>6 DEF Jobwise, Typed
<1> QED
  BY <1>1, <1>3, <1>4, <1>5, <1>6, <1>7, HandJobwise

\* What InsertAuditEvent writes.
Written(j, w) ==
  LET err == worker[j][w].Err
      row == file[j][worker[j][w].Row]
  IN [Job |-> j, Row |-> worker[j][w].Row, Ref |-> row.Ref, AccountID |-> row.AccountID,
      Status |-> IF err = "none" THEN "accepted" ELSE "rejected",
      Reason |-> IF err = "none" THEN "ok" ELSE err]

LEMMA Writes ==
  ASSUME Jobwise, NEW j \in Jobs, NEW w \in Workers, InsertAuditEvent(j, w)
  PROVE  /\ worker[j][w].At = "audit" /\ w \in Busy(j)
         /\ audit' = audit \/ audit' = audit \cup {Written(j, w)}
         /\ Event(Written(j, w)) /\ Written(j, w).Reason # "validation_error"
         /\ Step(j, w, "record", worker[j][w].Row, worker[j][w].Err)
         /\ worker[j][w].Err \in Results \ {"validation_error"}
         /\ UNCHANGED <<wallet, job, file, stage, fed, taken, summary, up>>
<1>1. worker[j][w].At = "audit" /\ w \in Busy(j)
  BY DEF InsertAuditEvent, Busy
<1>2. worker[j][w] \in Hands /\ worker[j][w].Err # "validation_error"
  BY <1>1 DEF Jobwise, JobOK, Held, Typed, Memory
<1>3. RowOK(file[j][worker[j][w].Row])
  BY <1>1, HeldRow
<1>4. Event(Written(j, w)) /\ Written(j, w).Reason # "validation_error"
  BY <1>2, <1>3 DEF Event, Written, Hands, RowOK, Results
<1>5. audit' = audit \/ audit' = audit \cup {Written(j, w)}
  BY DEF InsertAuditEvent, Written
<1> QED
  BY <1>1, <1>2, <1>4, <1>5 DEF InsertAuditEvent, Hands

LEMMA InsertJobwise ==
  ASSUME Jobwise, NEW j \in Jobs, NEW w \in Workers, InsertAuditEvent(j, w)
  PROVE  Jobwise'
<1>1. Wallet' /\ \A e \in audit' : Event(e)
  BY Writes DEF Jobwise, Typed, Wallet, wallet
<1> QED
  BY <1>1, Writes, HandJobwise

LEMMA StutterJobwise ==
  ASSUME Jobwise, UNCHANGED vars
  PROVE  Jobwise'
<1>1. Typed'
  BY DEF vars, wallet, Jobwise, Typed, Wallet, Memory, Event
<1>2. \A j \in Jobs : Same(j)
  BY DEF vars, Same
<1> QED
  BY <1>1, <1>2, JobFramed DEF Jobwise

LEMMA NextJobwise ==
  ASSUME Jobwise, [Next]_vars
  PROVE  Jobwise'
<1>1. ASSUME NEW j \in Jobs, Goroutine(j) PROVE Jobwise'
  BY <1>1, StartJobwise, FeedJobwise, CloseJobwise, CompleteJobwise DEF Goroutine
<1>2. ASSUME NEW j \in Jobs, NEW w \in Workers, Work(j, w) PROVE Jobwise'
  BY <1>2, ReceiveJobwise, ApplyJobwise, InsertJobwise, RecordJobwise, ExitJobwise DEF Work
<1> QED
  BY <1>1, <1>2, UploadJobwise, CrashJobwise, RestartJobwise, EnvironmentJobwise, StutterJobwise
     DEF Next

-----------------------------------------------------------------------------
(***************************************************************************)
(* Second part: the audit trail against the counts.  A row has one event at *)
(* most, which is written before the row is counted and not after.          *)
(***************************************************************************)

Judged(j, k) == {e \in audit : e.Job = j /\ Class(e) = k}
Recording(j, k) == {w \in Workers : worker[j][w].At = "record" /\ Counted(worker[j][w].Err) = k}

EventOK(e) ==
  /\ job[e.Job].Status # "none" /\ e.Reason # "validation_error"
  /\ stage[e.Job] # "none" =>
       /\ e.Row <= taken[e.Job]
       /\ \A w \in Workers :
            worker[e.Job][w].At \in {"apply", "audit"} => worker[e.Job][w].Row # e.Row

Once == \A e, f \in audit : e.Job = f.Job /\ e.Row = f.Row => e = f

Tally(j, k) ==
  /\ stage[j] # "none" =>
       Cardinality(Judged(j, k)) <= summary[j][k] + Cardinality(Recording(j, k))
  /\ job[j].Status = "completed" => Cardinality(Judged(j, k)) <= job[j].Counts[k]

Audited ==
  /\ IsFiniteSet(audit)
  /\ \A e \in audit : EventOK(e)
  /\ Once
  /\ \A j \in Jobs, k \in Verdicts : Tally(j, k)

LEMMA Cards ==
  ASSUME IsFiniteSet(audit), NEW j, NEW k
  PROVE  /\ IsFiniteSet(Judged(j, k)) /\ Cardinality(Judged(j, k)) \in Nat
         /\ IsFiniteSet(Recording(j, k)) /\ Cardinality(Recording(j, k)) \in Nat
<1>1. Judged(j, k) \subseteq audit /\ Recording(j, k) \subseteq Workers
  BY DEF Judged, Recording
<1> QED
  BY <1>1, BatchAssumption, FS_Subset, FS_CardinalityType

LEMMA InitAudited == Init => Audited
<1> SUFFICES ASSUME Init PROVE Audited
  OBVIOUS
<1>1. audit = {} /\ \A j \in Jobs : stage[j] = "none" /\ job[j].Status = "none"
  BY DEF Init, NoJob
<1> QED
  BY <1>1, FS_EmptySet DEF Audited, Once, Tally

\* What a job may do in a step that leaves the audit trail and the counts alone.
Quiet(i) ==
  /\ job[i].Status # "none" => job'[i].Status # "none"
  /\ \/ stage'[i] = "none"
     \/ job[i].Status = "none"
     \/ /\ stage[i] # "none" /\ taken[i] <= taken'[i] /\ summary'[i] = summary[i]
        /\ \A w \in Workers :
             /\ worker'[i][w].At \in {"apply", "audit"} =>
                  \/ worker[i][w].At \in {"apply", "audit"} /\ worker'[i][w].Row = worker[i][w].Row
                  \/ worker'[i][w].Row > taken[i]
             /\ "record" \in {worker[i][w].At, worker'[i][w].At} => worker'[i][w] = worker[i][w]
  /\ job'[i].Status = "completed" =>
       \/ job[i].Status = "completed" /\ job'[i].Counts = job[i].Counts
       \/ /\ stage[i] # "none" /\ job'[i].Counts = summary[i]
          /\ \A w \in Workers : worker[i][w].At # "record"

LEMMA QuietAudited ==
  ASSUME Jobwise, Jobwise', Audited, UNCHANGED audit, \A i \in Jobs : Quiet(i)
  PROVE  Audited'
<1>1. ASSUME NEW e \in audit PROVE EventOK(e)'
  <2> DEFINE i == e.Job
  <2>1. i \in Jobs /\ e.Row \in Nat /\ taken[i] \in Nat /\ taken'[i] \in Nat
    BY DEF Jobwise, Typed, Event, Memory
  <2>2. EventOK(e) /\ Quiet(i)
    BY <2>1 DEF Audited
  <2>3. job'[i].Status # "none" /\ e.Reason # "validation_error"
    BY <2>2 DEF EventOK, Quiet
  <2>4. ASSUME stage'[i] # "none"
        PROVE  /\ e.Row <= taken'[i]
               /\ \A w \in Workers :
                    worker'[i][w].At \in {"apply", "audit"} => worker'[i][w].Row # e.Row
    <3>0. job[i].Status # "none"
      BY <2>2 DEF EventOK
    <3> HIDE DEF i
    <3>1. /\ stage[i] # "none" /\ taken[i] <= taken'[i]
          /\ \A w \in Workers : worker'[i][w].At \in {"apply", "audit"} =>
               \/ worker[i][w].At \in {"apply", "audit"} /\ worker'[i][w].Row = worker[i][w].Row
               \/ worker'[i][w].Row > taken[i]
      BY <2>2, <2>4, <3>0 DEF Quiet
    <3>2. /\ e.Row <= taken[i]
          /\ \A w \in Workers :
               worker[i][w].At \in {"apply", "audit"} => worker[i][w].Row # e.Row
      BY <2>2, <3>1 DEF EventOK, i
    <3> QED
      BY <2>1, <3>1, <3>2
  <2> QED
    BY <2>3, <2>4 DEF EventOK
<1>2. Once'
  BY DEF Audited, Once
<1>3. ASSUME NEW i \in Jobs, NEW k \in Verdicts PROVE Tally(i, k)'
  <2>1. Tally(i, k) /\ Quiet(i) /\ IsFiniteSet(audit) /\ IsFiniteSet(audit)'
    BY DEF Audited
  <2>2. /\ summary[i][k] \in Nat /\ summary'[i][k] \in Nat
        /\ Cardinality(Judged(i, k)) \in Nat /\ Cardinality(Recording(i, k)) \in Nat
    BY <2>1, Cards DEF Jobwise, Typed, Memory, Counts
  <2>3. Judged(i, k)' = Judged(i, k)
    BY DEF Judged
  <2>4. Cardinality(Judged(i, k))' = Cardinality(Judged(i, k))
    BY <2>3
  <2>5. Recording(i, k)' \subseteq Workers
    BY DEF Recording
  <2>6. Cardinality(Recording(i, k)') \in Nat
    BY <2>5, BatchAssumption, FS_Subset, FS_CardinalityType
  <2>7. ASSUME stage'[i] # "none"
        PROVE  Cardinality(Judged(i, k))' <= summary'[i][k] + Cardinality(Recording(i, k)')
    <3>1. CASE job[i].Status = "none"
      <4>1. Judged(i, k) = {}
        BY <3>1 DEF Judged, Audited, EventOK
      <4> QED
        BY <2>2, <2>4, <2>6, <4>1, FS_EmptySet
    <3>2. CASE job[i].Status # "none"
      <4>1. /\ stage[i] # "none" /\ summary'[i] = summary[i]
            /\ \A w \in Workers : "record" \in {worker[i][w].At, worker'[i][w].At} =>
                 worker'[i][w] = worker[i][w]
        BY <2>1, <2>7, <3>2 DEF Quiet
      <4>2. Recording(i, k)' = Recording(i, k)
        BY <4>1 DEF Recording
      <4> QED
        BY <2>1, <2>2, <2>4, <4>1, <4>2 DEF Tally
    <3> QED
      BY <3>1, <3>2
  <2>8. ASSUME job'[i].Status = "completed"
        PROVE  Cardinality(Judged(i, k))' <= job'[i].Counts[k]
    <3>1. CASE job[i].Status = "completed" /\ job'[i].Counts = job[i].Counts
      BY <2>1, <2>4, <3>1 DEF Tally
    <3>2. CASE /\ stage[i] # "none" /\ job'[i].Counts = summary[i]
               /\ \A w \in Workers : worker[i][w].At # "record"
      <4>1. Recording(i, k) = {}
        BY <3>2 DEF Recording
      <4> QED
        BY <2>1, <2>2, <2>4, <3>2, <4>1, FS_EmptySet DEF Tally
    <3> QED
      BY <2>1, <2>8, <3>1, <3>2 DEF Quiet
  <2> QED
    BY <2>7, <2>8 DEF Tally
<1> QED
  BY <1>1, <1>2, <1>3 DEF Audited

LEMMA SameQuiet ==
  ASSUME Jobwise, NEW i \in Jobs, Same(i)
  PROVE  Quiet(i)
<1>1. taken[i] \in Nat
  BY DEF Jobwise, Typed, Memory
<1> QED
  BY <1>1 DEF Same, Quiet

\* A step of one job whose workers keep their places.
LEMMA GoroutineQuiet ==
  ASSUME Jobwise, NEW j \in Jobs, Goroutine(j) \/ \E csv \in Files : Upload(j, csv)
  PROVE  UNCHANGED audit /\ \A i \in Jobs : Quiet(i)
<1>1. UNCHANGED <<audit, taken, worker, summary, up>>
  BY DEF Goroutine, Start, Feed, Close, Complete, Upload
<1>2. \A i \in Jobs \ {j} : Same(i)
  BY <1>1 DEF Goroutine, Start, Feed, Close, Complete, Upload, Jobwise, Typed, Memory, Same
<1>3. Quiet(j)
  <2>1. taken[j] \in Nat /\ job[j] \in Rows /\ Runs(j)
    BY DEF Jobwise, JobOK, Typed, Memory
  <2>2. CASE Start(j)
    <3>1. /\ stage[j] = "start"
          /\ \/ job' = job
             \/ job' = [job EXCEPT ![j] = [job[j] EXCEPT !.Status = "processing"]]
      BY <2>2 DEF Start
    <3>2. job'[j].Status \in {job[j].Status, "processing"}
      BY <2>1, <3>1 DEF Jobwise, Typed, Rows
    <3> QED
      BY <1>1, <2>1, <3>1, <3>2 DEF Runs, Quiet
  <2>3. CASE Feed(j) \/ Close(j)
    BY <1>1, <2>1, <2>3 DEF Feed, Close, Runs, Quiet
  <2>4. CASE Complete(j)
    <3> DEFINE new == [Status |-> "completed", TotalRows |-> job[j].TotalRows, Counts |-> summary[j]]
    <3>1. /\ stage[j] = "wait" /\ \A w \in Workers : worker[j][w].At = "exit"
          /\ job' = [job EXCEPT ![j] = new] \/ job' = job
      BY <2>4 DEF Complete
    <3>2. job'[j] \in {job[j], new}
      BY <3>1 DEF Jobwise, Typed
    <3> QED
      BY <1>1, <2>1, <3>1, <3>2 DEF Runs, Quiet
  <2>5. CASE \E csv \in Files : Upload(j, csv)
    <3>1. PICK csv \in Files : Upload(j, csv)
      BY <2>5
    <3> DEFINE new == [Status |-> "queued", TotalRows |-> Len(ParseCSV(csv)), Counts |-> Zero]
    <3>2. job[j].Status = "none" /\ job' = [job EXCEPT ![j] = new]
      BY <3>1 DEF Upload
    <3>3. job'[j].Status = "queued"
      BY <3>2 DEF Jobwise, Typed
    <3> QED
      BY <3>2, <3>3 DEF Quiet
  <2> QED
    BY <2>2, <2>3, <2>4, <2>5 DEF Goroutine
<1> QED
  BY <1>1, <1>2, <1>3, SameQuiet

\* A step of one worker that neither writes an event nor counts.
LEMMA WorkQuiet ==
  ASSUME Jobwise, NEW j \in Jobs, NEW w \in Workers, Receive(j, w) \/ Apply(j, w) \/ Exit(j, w)
  PROVE  UNCHANGED audit /\ \A i \in Jobs : Quiet(i)
<1>1. UNCHANGED <<job, audit, file, stage, fed, summary, up>>
  BY DEF Receive, Apply, Exit
<1>2. /\ taken[j] \in Nat /\ worker[j][w] \in Hands /\ Runs(j) /\ Typed
      /\ "none" \in Results /\ "internal_error" \in Results
  BY DEF Jobwise, JobOK, Typed, Memory, Results
<1>3. PICK at \in {"apply", "audit", "exit"}, row \in Nat, err \in Results :
        /\ Step(j, w, at, row, err)
        /\ worker[j][w].At \in {"recv", "apply"}
        /\ \/ UNCHANGED taken
           \/ at = "apply" /\ taken' = [taken EXCEPT ![j] = taken[j] + 1]
        /\ \/ at = "apply" /\ row = taken[j] + 1
           \/ at = "audit" /\ worker[j][w].At = "apply" /\ row = worker[j][w].Row
           \/ at = "exit"
  <2>1. CASE Receive(j, w)
    <3>1. /\ Step(j, w, "apply", taken[j] + 1, "none") /\ worker[j][w].At = "recv"
          /\ taken' = [taken EXCEPT ![j] = taken[j] + 1]
      BY <2>1 DEF Receive
    <3>2. taken[j] + 1 \in Nat
      BY <1>2
    <3> QED
      BY <1>2, <3>1, <3>2
  <2>2. CASE Apply(j, w)
    <3> DEFINE row == file[j][worker[j][w].Row]
    <3>1. w \in Busy(j) /\ worker[j][w].At = "apply"
      BY <2>2 DEF Apply, Busy
    <3>2. Refusal(row) \in Results
      BY <3>1, HeldRow, RefusalInRange
    <3>3. PICK err \in {"none", "internal_error", Refusal(row)} :
            Step(j, w, "audit", worker[j][w].Row, err)
      BY <2>2 DEF Apply
    <3>4. err \in Results /\ worker[j][w].Row \in Nat
      BY <1>2, <3>2, <3>3 DEF Hands
    <3>5. UNCHANGED taken
      BY <2>2 DEF Apply
    <3> QED
      BY <3>1, <3>3, <3>4, <3>5
  <2>3. CASE Exit(j, w)
    <3>1. Step(j, w, "exit", 0, "none") /\ worker[j][w].At = "recv" /\ UNCHANGED taken
      BY <2>3 DEF Exit
    <3> QED
      BY <1>2, <3>1
  <2> QED
    BY <2>1, <2>2, <2>3
<1>4. /\ \A i \in Jobs \ {j} : worker'[i] = worker[i]
      /\ \A v \in Workers \ {w} : worker'[j][v] = worker[j][v]
      /\ worker'[j][w] = [At |-> at, Row |-> row, Err |-> err]
  BY <1>2, <1>3, StepMoves
<1>5. (\A i \in Jobs \ {j} : taken'[i] = taken[i]) /\ taken[j] <= taken'[j]
  BY <1>2, <1>3 DEF Typed, Memory
<1>6. \A i \in Jobs \ {j} : Same(i)
  BY <1>1, <1>4, <1>5 DEF Same
<1>7. stage[j] # "none"
  <2>1. CASE Receive(j, w) \/ Exit(j, w)
    BY <2>1 DEF Receive, Exit
  <2>2. CASE Apply(j, w)
    <3>1. worker[j][w].At = "apply"
      BY <2>2 DEF Apply
    <3> QED
      BY <1>2, <3>1 DEF Runs, Fresh, Waiting
  <2> QED
    BY <2>1, <2>2
<1>8. Quiet(j)
  <2>1. ASSUME NEW v \in Workers
        PROVE  /\ worker'[j][v].At \in {"apply", "audit"} =>
                    \/ worker[j][v].At \in {"apply", "audit"} /\ worker'[j][v].Row = worker[j][v].Row
                    \/ worker'[j][v].Row > taken[j]
               /\ "record" \in {worker[j][v].At, worker'[j][v].At} => worker'[j][v] = worker[j][v]
    <3>1. CASE v = w
      BY <1>2, <1>3, <1>4, <3>1
    <3>2. CASE v # w
      BY <1>4, <3>2
    <3> QED
      BY <3>1, <3>2
  <2>2. job'[j] = job[j] /\ summary'[j] = summary[j]
    BY <1>1
  <2> QED
    BY <1>5, <1>7, <2>1, <2>2 DEF Quiet
<1> QED
  BY <1>1, <1>6, <1>8, SameQuiet

LEMMA ServerQuiet ==
  ASSUME Jobwise, Crash \/ Restart \/ Environment \/ UNCHANGED vars
  PROVE  UNCHANGED audit /\ \A i \in Jobs : Quiet(i)
<1>1. UNCHANGED audit
  BY DEF Crash, Restart, Environment, vars
<1>2. ASSUME Crash, NEW i \in Jobs PROVE Quiet(i)
  BY <1>2 DEF Crash, Quiet
<1>3. ASSUME Restart, NEW i \in Jobs PROVE Quiet(i)
  <2>1. ~up /\ job'[i] = Recovered(job[i]) /\ job[i] \in Rows /\ stage'[i] = stage[i] /\ Runs(i)
    BY <1>3 DEF Restart, memory, Jobwise, JobOK, Typed
  <2>2. /\ stage'[i] = "none"
        /\ job'[i] = job[i] \/ (job'[i].Status = "failed" /\ job[i].Status = "processing")
    BY <2>1, RecoveredRow DEF Runs
  <2> QED
    BY <2>2 DEF Quiet
<1>4. ASSUME Environment \/ UNCHANGED vars, NEW i \in Jobs PROVE Quiet(i)
  BY <1>4, SameQuiet DEF Environment, vars, memory, Same
<1> QED
  BY <1>1, <1>2, <1>3, <1>4

LEMMA OneMore ==
  ASSUME NEW S, IsFiniteSet(S), NEW x, NEW T, T = S \/ T = S \cup {x}
  PROVE  Cardinality(T) \in Nat /\ Cardinality(T) <= Cardinality(S) + 1
<1>1. Cardinality(S) \in Nat
  BY FS_CardinalityType
<1>2. CASE T = S
  BY <1>1, <1>2
<1>3. CASE T = S \cup {x}
  <2>1. Cardinality(S \cup {x}) \in {Cardinality(S), Cardinality(S) + 1}
    BY FS_AddElement
  <2> QED
    BY <1>1, <1>3, <2>1
<1> QED
  BY <1>2, <1>3

LEMMA InsertAudited ==
  ASSUME Jobwise, Audited, NEW j \in Jobs, NEW w \in Workers, InsertAuditEvent(j, w)
  PROVE  Audited'
<1>0. PICK new : new = Written(j, w)
  OBVIOUS
<1> DEFINE n == worker[j][w].Row
           err == worker[j][w].Err
<1>1. /\ worker[j][w].At = "audit" /\ w \in Busy(j)
      /\ audit' = audit \/ audit' = audit \cup {new}
      /\ Event(new) /\ new.Reason # "validation_error"
      /\ Step(j, w, "record", n, err)
      /\ UNCHANGED <<wallet, job, file, stage, fed, taken, summary, up>>
  BY <1>0, Writes
<1>2. /\ Runs(j) /\ Channel(j) /\ Held(j) /\ worker[j][w] \in Hands /\ Typed
      /\ stage[j] # "none" /\ job[j].Status # "none"
  BY <1>1 DEF Jobwise, JobOK, Typed, Memory, Runs, Fresh, Waiting
<1>3. /\ \A i \in Jobs \ {j} : worker'[i] = worker[i]
      /\ \A v \in Workers \ {w} : worker'[j][v] = worker[j][v]
      /\ worker'[j][w] = [At |-> "record", Row |-> n, Err |-> err]
  <2>1. n \in Nat /\ err \in Results
    BY <1>2 DEF Hands
  <2> QED
    BY <1>1, <1>2, <2>1, StepMoves
<1>4. /\ new.Job = j /\ new.Row = n /\ n \in 1 .. taken[j]
      /\ Class(new) = Counted(err)
  BY <1>0, <1>1, <1>2, HeldRow DEF Written, Class, Counted, Hands, Results
<1>5. \A i \in Jobs, v \in Workers :
        worker'[i][v].At \in {"apply", "audit"} =>
          worker'[i][v] = worker[i][v] /\ (i = j => v # w)
  BY <1>3
<1>6. ASSUME NEW e \in audit PROVE EventOK(e)'
  BY <1>1, <1>5 DEF Audited, EventOK, Jobwise, Typed, Event
<1>7. EventOK(new)'
  <2>1. ASSUME NEW v \in Workers, worker'[j][v].At \in {"apply", "audit"} PROVE worker'[j][v].Row # n
    <3>1. v # w /\ v \in Busy(j) /\ worker'[j][v].Row = worker[j][v].Row
      BY <1>5, <2>1 DEF Busy
    <3> QED
      BY <1>1, <1>2, <3>1 DEF Held
  <2> QED
    BY <1>1, <1>2, <1>4, <2>1 DEF EventOK
<1>8. \A e \in audit' : EventOK(e)'
  BY <1>1, <1>6, <1>7
<1>9. Once'
  <2>1. ASSUME NEW e \in audit PROVE ~(e.Job = new.Job /\ e.Row = new.Row)
    BY <1>1, <1>2, <1>4 DEF Audited, EventOK
  <2> QED
    BY <1>1, <2>1 DEF Audited, Once
<1>10. IsFiniteSet(audit')
  BY <1>1, FS_AddElement DEF Audited
<1>11. ASSUME NEW i \in Jobs, NEW k \in Verdicts PROVE Tally(i, k)'
  <2> DEFINE held == Recording(i, k)
  <2>1. /\ Tally(i, k) /\ IsFiniteSet(Judged(i, k)) /\ Cardinality(Judged(i, k)) \in Nat
        /\ IsFiniteSet(held) /\ Cardinality(held) \in Nat
        /\ summary[i][k] \in Nat
    BY Cards DEF Audited, Jobwise, Typed, Memory, Counts
  <2>2. job'[i] = job[i] /\ stage'[i] = stage[i] /\ summary'[i] = summary[i]
    BY <1>1
  <2>3. CASE i = j /\ k = Counted(err)
    <3>1. Judged(i, k)' = Judged(i, k) \/ Judged(i, k)' = Judged(i, k) \cup {new}
      BY <1>1 DEF Judged
    <3>2. Cardinality(Judged(i, k)') <= Cardinality(Judged(i, k)) + 1
      BY <2>1, <3>1, OneMore
    <3>3. Recording(i, k)' = held \cup {w} /\ w \notin held
      BY <1>1, <1>3, <2>3 DEF Recording
    <3>4. Cardinality(Recording(i, k)') = Cardinality(held) + 1
      BY <2>1, <3>3, FS_AddElement
    <3>5. Cardinality(Judged(i, k)') \in Nat
      BY <2>1, <3>1, OneMore
    <3>6. Cardinality(Judged(i, k)') <= summary'[i][k] + Cardinality(Recording(i, k)')
      BY <1>2, <2>1, <2>2, <2>3, <3>2, <3>4, <3>5 DEF Tally
    <3>7. job'[i].Status # "completed"
      <4>1. stage[j] \in {"feed", "wait"}
        BY <1>1, <1>2 DEF Runs, Fresh, Waiting, Jobwise, Typed, Memory, Stages
      <4> QED
        BY <1>2, <2>2, <2>3, <4>1 DEF Runs
    <3> QED
      BY <3>6, <3>7 DEF Tally
  <2>4. CASE ~(i = j /\ k = Counted(err))
    <3>1. Judged(i, k)' = Judged(i, k)
      BY <1>1, <1>4, <2>4 DEF Judged
    <3>2. Recording(i, k)' = held
      BY <1>1, <1>3, <2>4 DEF Recording
    <3> QED
      BY <2>1, <2>2, <3>1, <3>2 DEF Tally
  <2> QED
    BY <2>3, <2>4
<1> QED
  BY <1>8, <1>9, <1>10, <1>11 DEF Audited

LEMMA RecordAudited ==
  ASSUME Jobwise, Audited, NEW j \in Jobs, NEW w \in Workers, Record(j, w)
  PROVE  Audited'
<1> DEFINE c == Counted(worker[j][w].Err)
           counts == [summary[j] EXCEPT ![c] = @ + 1]
           hands == [worker[j] EXCEPT ![w] = Waiting]
<1>1. /\ worker[j][w].At = "record"
      /\ summary' = [summary EXCEPT ![j] = counts]
      /\ worker' = [worker EXCEPT ![j] = hands]
      /\ UNCHANGED <<wallet, job, audit, file, stage, fed, taken, up>>
  BY DEF Record
<1>2. /\ Runs(j) /\ Typed /\ summary[j] \in Counts /\ worker[j] \in [Workers -> Hands]
  BY DEF Jobwise, JobOK, Typed, Memory
<1>3. c \in Verdicts
  BY DEF Counted, Verdicts
<1> HIDE DEF c
<1>4. /\ counts[c] = summary[j][c] + 1 /\ \A k \in Verdicts \ {c} : counts[k] = summary[j][k]
      /\ hands[w] = Waiting /\ \A v \in Workers \ {w} : hands[v] = worker[j][v]
  BY <1>2, <1>3 DEF Counts
<1> HIDE DEF counts, hands
<1>5. /\ summary'[j] = counts /\ worker'[j] = hands
      /\ \A i \in Jobs \ {j} : summary'[i] = summary[i] /\ worker'[i] = worker[i]
  BY <1>1, <1>2 DEF Typed, Memory
<1>6. \A i \in Jobs, v \in Workers :
        worker'[i][v].At \in {"apply", "audit"} => worker'[i][v] = worker[i][v]
  BY <1>4, <1>5 DEF Waiting
<1>7. ASSUME NEW e \in audit PROVE EventOK(e)'
  BY <1>1, <1>6 DEF Audited, EventOK, Jobwise, Typed, Event
<1>8. Once'
  BY <1>1 DEF Audited, Once
<1>9. ASSUME NEW i \in Jobs, NEW k \in Verdicts PROVE Tally(i, k)'
  <2>1. /\ Tally(i, k) /\ Cardinality(Judged(i, k)) \in Nat
        /\ IsFiniteSet(Recording(i, k)) /\ Cardinality(Recording(i, k)) \in Nat
        /\ summary[i][k] \in Nat
    BY Cards DEF Audited, Jobwise, Typed, Memory, Counts
  <2>2. job'[i] = job[i] /\ stage'[i] = stage[i] /\ Judged(i, k)' = Judged(i, k)
    BY <1>1 DEF Judged
  <2>3. CASE i = j /\ k = c
    <3>1. Recording(i, k)' = Recording(i, k) \ {w} /\ w \in Recording(i, k)
      BY <1>1, <1>4, <1>5, <2>3 DEF Recording, Waiting, c
    <3>2. Cardinality(Recording(i, k)') = Cardinality(Recording(i, k)) - 1
      <4>1. IsFiniteSet(Recording(i, k))
        BY <2>1
      <4>2. Cardinality(Recording(i, k) \ {w}) = Cardinality(Recording(i, k)) - 1
        BY <3>1, <4>1, FS_RemoveElement
      <4> QED
        BY <3>1, <4>2
    <3>3. summary'[i][k] = summary[i][k] + 1
      BY <1>4, <1>5, <2>3
    <3> QED
      BY <2>1, <2>2, <3>2, <3>3 DEF Tally
  <2>4. CASE ~(i = j /\ k = c)
    <3>1. Recording(i, k)' = Recording(i, k)
      <4>1. CASE i # j
        BY <1>5, <4>1 DEF Recording
      <4>2. CASE i = j /\ k # c
        BY <1>1, <1>4, <1>5, <4>2 DEF Recording, Waiting, c
      <4> QED
        BY <2>4, <4>1, <4>2
    <3>2. summary'[i][k] = summary[i][k]
      BY <1>4, <1>5, <2>4
    <3> QED
      BY <2>1, <2>2, <3>1, <3>2 DEF Tally
  <2> QED
    BY <2>3, <2>4
<1> QED
  BY <1>1, <1>7, <1>8, <1>9 DEF Audited

LEMMA NextAudited ==
  ASSUME Jobwise, Audited, [Next]_vars
  PROVE  Audited'
<1>1. Jobwise'
  BY NextJobwise
<1>2. ASSUME NEW j \in Jobs, Goroutine(j) \/ \E csv \in Files : Upload(j, csv) PROVE Audited'
  BY <1>1, <1>2, GoroutineQuiet, QuietAudited
<1>3. ASSUME NEW j \in Jobs, NEW w \in Workers, Work(j, w) PROVE Audited'
  <2>1. CASE Receive(j, w) \/ Apply(j, w) \/ Exit(j, w)
    BY <1>1, <2>1, WorkQuiet, QuietAudited
  <2> QED
    BY <1>3, <2>1, InsertAudited, RecordAudited DEF Work
<1>4. ASSUME Crash \/ Restart \/ Environment \/ UNCHANGED vars PROVE Audited'
  BY <1>1, <1>4, ServerQuiet, QuietAudited
<1> QED
  BY <1>2, <1>3, <1>4 DEF Next

-----------------------------------------------------------------------------
(***************************************************************************)
(* Third part: an acceptance is in the ledger, and of one row only, from    *)
(* the worker that holds the row to the event that tells of it.             *)
(***************************************************************************)

InLedger(ref, account) ==
  \E i \in 1 .. Len(ledger) : ledger[i].Ref = ref /\ ledger[i].AccountID = account

\* The worker holds a row that it was told is accepted.
Won(j, w) == worker[j][w].At \in {"audit", "record"} /\ worker[j][w].Err = "none"
RowAt(j, w) == file[j][worker[j][w].Row]

Accepts ==
  /\ \A e \in audit : e.Status = "accepted" => InLedger(e.Ref, e.AccountID)
  /\ \A j \in Jobs, w \in Workers :
       Won(j, w) => InLedger(RowAt(j, w).Ref, RowAt(j, w).AccountID)
  /\ \A e, f \in audit :
       e.Status = "accepted" /\ f.Status = "accepted" /\ e.Ref = f.Ref => e = f
  /\ \A j \in Jobs, w \in Workers, e \in audit :
       Won(j, w) /\ e.Status = "accepted" /\ e.Ref = RowAt(j, w).Ref =>
         e.Job = j /\ e.Row = worker[j][w].Row
  /\ \A i, j \in Jobs, v, w \in Workers :
       Won(i, v) /\ Won(j, w) /\ RowAt(i, v).Ref = RowAt(j, w).Ref => i = j /\ v = w

LEMMA InitAccepts == Init => Accepts
<1> SUFFICES ASSUME Init PROVE Accepts
  OBVIOUS
<1>1. audit = {} /\ \A j \in Jobs, w \in Workers : ~Won(j, w)
  BY DEF Init, Won, Waiting
<1> QED
  BY <1>1 DEF Accepts

LEMMA Grows ==
  ASSUME Wallet, ledger' = ledger \/ \E e \in Entries : ledger' = Append(ledger, e),
         NEW ref, NEW account, InLedger(ref, account)
  PROVE  InLedger(ref, account)'
<1>1. CASE ledger' = ledger
  BY <1>1 DEF InLedger
<1>2. ASSUME NEW e \in Entries, ledger' = Append(ledger, e) PROVE InLedger(ref, account)'
  <2>1. PICK i \in 1 .. Len(ledger) : ledger[i].Ref = ref /\ ledger[i].AccountID = account
    BY DEF InLedger
  <2>2. ledger \in Seq(Entries) /\ Len(ledger) \in Nat
    BY DEF Wallet
  <2>3. i \in 1 .. Len(ledger') /\ ledger'[i] = ledger[i]
    BY <1>2, <2>2
  <2> QED
    BY <2>1, <2>3 DEF InLedger
<1> QED
  BY <1>1, <1>2

\* No row is accepted in the step.
LEMMA QuietAccepts ==
  ASSUME Jobwise, Accepts, UNCHANGED audit,
         ledger' = ledger \/ \E e \in Entries : ledger' = Append(ledger, e),
         \A j \in Jobs, w \in Workers : Won(j, w)' =>
           Won(j, w) /\ RowAt(j, w)' = RowAt(j, w) /\ worker'[j][w].Row = worker[j][w].Row
  PROVE  Accepts'
<1>1. Wallet
  BY DEF Jobwise, Typed
<1>2. \A e \in audit : e.Status = "accepted" => InLedger(e.Ref, e.AccountID)'
  BY <1>1, Grows DEF Accepts
<1>3. ASSUME NEW j \in Jobs, NEW w \in Workers, Won(j, w)'
      PROVE  InLedger(RowAt(j, w).Ref, RowAt(j, w).AccountID)'
  <2>1. PICK row : row = RowAt(j, w) /\ row = RowAt(j, w)'
    BY <1>3
  <2>2. InLedger(row.Ref, row.AccountID)
    BY <1>3, <2>1 DEF Accepts
  <2>3. InLedger(row.Ref, row.AccountID)'
    BY <1>1, <2>2, Grows
  <2> QED
    BY <2>1, <2>3
<1> QED
  BY <1>2, <1>3 DEF Accepts

\* Everything but the steps that judge a row and tell of it.
LEMMA OthersAccept ==
  ASSUME Jobwise, Accepts,
         \/ \E j \in Jobs : Goroutine(j) \/ (\E csv \in Files : Upload(j, csv))
                            \/ \E w \in Workers : Receive(j, w) \/ Record(j, w) \/ Exit(j, w)
         \/ Crash \/ Restart \/ Environment \/ UNCHANGED vars
  PROVE  Accepts'
<1> DEFINE Still == \A i \in Jobs, v \in Workers : Won(i, v)' =>
             Won(i, v) /\ RowAt(i, v)' = RowAt(i, v) /\ worker'[i][v].Row = worker[i][v].Row
<1>1. UNCHANGED <<audit, ledger>>
  BY DEF Goroutine, Start, Feed, Close, Complete, Upload, Receive, Record, Exit, Crash, Restart,
         Environment, vars, wallet, PL!Open, PL!Close
<1>2. CASE UNCHANGED <<worker, file>>
  <2>1. Still
    BY <1>2 DEF Won, RowAt
  <2> QED
    BY <1>1, <2>1, QuietAccepts
<1>3. ASSUME NEW j \in Jobs, NEW csv \in Files, Upload(j, csv) PROVE Accepts'
  <2>1. UNCHANGED worker /\ stage[j] = "none" /\ Fresh(j)
    BY <1>3 DEF Upload, Jobwise, JobOK, Runs
  <2>2. \A i \in Jobs \ {j} : file'[i] = file[i]
    BY <1>3 DEF Upload, Jobwise, Typed, Memory
  <2>3. \A v \in Workers : ~Won(j, v)'
    BY <2>1 DEF Fresh, Waiting, Won
  <2>4. Still
    BY <2>1, <2>2, <2>3 DEF Won, RowAt
  <2> QED
    BY <1>1, <2>4, QuietAccepts
<1>4. ASSUME NEW j \in Jobs, NEW w \in Workers, Receive(j, w) \/ Record(j, w) \/ Exit(j, w)
      PROVE  Accepts'
  <2>1. PICK hand : /\ hand.At \in {"recv", "apply", "exit"}
                    /\ worker' = [worker EXCEPT ![j] = [worker[j] EXCEPT ![w] = hand]]
    <3> DEFINE Takes(h) == worker' = [worker EXCEPT ![j] = [worker[j] EXCEPT ![w] = h]]
               received == [At |-> "apply", Row |-> taken[j] + 1, Err |-> "none"]
               left == [At |-> "exit", Row |-> 0, Err |-> "none"]
    <3>1. Takes(received) \/ Takes(Waiting) \/ Takes(left)
      BY <1>4 DEF Receive, Record, Exit, Step
    <3>2. \A h \in {received, Waiting, left} : h.At \in {"recv", "apply", "exit"}
      BY DEF Waiting
    <3> HIDE DEF received, left
    <3> QED
      BY <3>1, <3>2
  <2>2. /\ worker'[j] = [worker[j] EXCEPT ![w] = hand]
        /\ \A i \in Jobs \ {j} : worker'[i] = worker[i]
    BY <2>1 DEF Jobwise, Typed, Memory
  <2>3. worker'[j][w] = hand /\ \A v \in Workers \ {w} : worker'[j][v] = worker[j][v]
    BY <2>2 DEF Jobwise, Typed, Memory
  <2>4. UNCHANGED file
    BY <1>4 DEF Receive, Record, Exit
  <2>5. \A i \in Jobs, v \in Workers : worker'[i][v] = worker[i][v] \/ ~Won(i, v)'
    BY <2>1, <2>2, <2>3 DEF Won
  <2>6. Still
    BY <2>4, <2>5 DEF Won, RowAt
  <2> QED
    BY <1>1, <2>6, QuietAccepts
<1>5. CASE Crash
  <2>1. Still
    BY <1>5 DEF Crash, Waiting, Won
  <2> QED
    BY <1>1, <2>1, QuietAccepts
<1> QED
  BY <1>2, <1>3, <1>4, <1>5 DEF Goroutine, Start, Feed, Close, Complete, Restart, Environment,
     memory, vars

LEMMA AppendRecords ==
  ASSUME Wallet, NEW e \in Entries, ledger' = Append(ledger, e)
  PROVE  InLedger(e.Ref, e.AccountID)'
<1>1. ledger \in Seq(Entries) /\ Len(ledger) \in Nat
  BY DEF Wallet
<1>2. Len(ledger') = Len(ledger) + 1 /\ ledger'[Len(ledger) + 1] = e
  BY <1>1
<1>3. Len(ledger) + 1 \in 1 .. Len(ledger')
  BY <1>1, <1>2
<1> QED
  BY <1>2, <1>3 DEF InLedger

LEMMA ApplyAccepts ==
  ASSUME Jobwise, Accepts, NEW j \in Jobs, NEW w \in Workers, Apply(j, w)
  PROVE  Accepts'
<1>0. PICK row : row = RowAt(j, w)
  OBVIOUS
<1> DEFINE n == worker[j][w].Row
<1>1. worker[j][w].At = "apply" /\ w \in Busy(j) /\ UNCHANGED <<audit, file>>
  BY DEF Apply, Busy
<1>2. RowOK(row) /\ Wallet /\ Typed /\ n \in Nat
  BY <1>0, <1>1, HeldRow DEF RowAt, Jobwise, Typed, Memory, Hands
<1>3. PICK err : /\ err \in {"none", "internal_error", Refusal(row)}
                 /\ Step(j, w, "audit", n, err)
                 /\ Post(row) \/ UNCHANGED wallet
                 /\ err = "none" => Post(row)
  BY <1>0 DEF Apply, RowAt
<1>4. err \in Results
  BY <1>2, <1>3, RefusalInRange DEF Results
<1>5. /\ \A i \in Jobs \ {j} : worker'[i] = worker[i]
      /\ \A v \in Workers \ {w} : worker'[j][v] = worker[j][v]
      /\ worker'[j][w] = [At |-> "audit", Row |-> n, Err |-> err]
  BY <1>2, <1>3, <1>4, StepMoves
<1>6. ledger' = ledger \/ \E e \in Entries : ledger' = Append(ledger, e)
  BY <1>2, <1>3, PostSteps DEF wallet
<1>7. \A i \in Jobs, v \in Workers : ~(i = j /\ v = w) => worker'[i][v] = worker[i][v]
  BY <1>5
<1>8. \A i \in Jobs, v \in Workers : ~(i = j /\ v = w) =>
        /\ Won(i, v)' = Won(i, v) /\ RowAt(i, v)' = RowAt(i, v)
        /\ worker'[i][v].Row = worker[i][v].Row
  BY <1>1, <1>7 DEF Won, RowAt
<1>9. CASE err # "none"
  <2>1. ~Won(j, w)'
    BY <1>5, <1>9 DEF Won
  <2> QED
    BY <1>1, <1>6, <1>8, <2>1, QuietAccepts
<1>10. CASE err = "none"
  <2>1. /\ ~Recorded(row.Ref)
        /\ \E e \in Entries : e.Ref = row.Ref /\ e.AccountID = row.AccountID
                                /\ ledger' = Append(ledger, e)
    BY <1>2, <1>3, <1>10, PostSteps
  <2>2. InLedger(row.Ref, row.AccountID)'
    <3>1. PICK e \in Entries : e.Ref = row.Ref /\ e.AccountID = row.AccountID
                                /\ ledger' = Append(ledger, e)
      BY <2>1
    <3> QED
      BY <1>2, <3>1, AppendRecords
  <2>3. \A account : ~InLedger(row.Ref, account)
    BY <2>1 DEF InLedger, Recorded
  <2>4. RowAt(j, w)' = row /\ worker'[j][w].Row = worker[j][w].Row
    BY <1>0, <1>1, <1>5 DEF RowAt
  <2>5. \A e \in audit : e.Status = "accepted" =>
          e.Ref # row.Ref /\ InLedger(e.Ref, e.AccountID)'
    BY <1>2, <1>6, <2>3, Grows DEF Accepts
  <2>6. ASSUME NEW i \in Jobs, NEW v \in Workers, ~(i = j /\ v = w), Won(i, v)
        PROVE  /\ RowAt(i, v).Ref # row.Ref
               /\ InLedger(RowAt(i, v).Ref, RowAt(i, v).AccountID)'
    <3>1. PICK other : other = RowAt(i, v)
      OBVIOUS
    <3>2. InLedger(other.Ref, other.AccountID)
      BY <2>6, <3>1 DEF Accepts
    <3>3. InLedger(other.Ref, other.AccountID)'
      BY <1>2, <1>6, <3>2, Grows
    <3>4. RowAt(i, v)' = other
      BY <1>8, <2>6, <3>1
    <3> QED
      BY <2>3, <3>1, <3>2, <3>3, <3>4
  <2>7. \A i \in Jobs, v \in Workers : Won(i, v)' =>
          InLedger(RowAt(i, v).Ref, RowAt(i, v).AccountID)'
    BY <1>8, <2>2, <2>4, <2>6
  <2>8. ASSUME NEW i \in Jobs, NEW v \in Workers, NEW e \in audit,
               Won(i, v)', e.Status = "accepted", e.Ref = RowAt(i, v)'.Ref
        PROVE  e.Job = i /\ e.Row = worker'[i][v].Row
    BY <1>8, <2>4, <2>5, <2>8 DEF Accepts
  <2>9. ASSUME NEW i \in Jobs, NEW v \in Workers, NEW k \in Jobs, NEW u \in Workers,
               Won(i, v)', Won(k, u)', RowAt(i, v)'.Ref = RowAt(k, u)'.Ref
        PROVE  i = k /\ v = u
    BY <1>8, <2>4, <2>6, <2>9 DEF Accepts
  <2>10. \A e, f \in audit : e.Status = "accepted" /\ f.Status = "accepted" /\ e.Ref = f.Ref => e = f
    BY DEF Accepts
  <2> QED
    BY <1>1, <2>5, <2>7, <2>8, <2>9, <2>10 DEF Accepts
<1> QED
  BY <1>9, <1>10

LEMMA InsertAccepts ==
  ASSUME Jobwise, Audited, Accepts, NEW j \in Jobs, NEW w \in Workers, InsertAuditEvent(j, w)
  PROVE  Accepts'
<1>0. PICK new : new = Written(j, w)
  OBVIOUS
<1> DEFINE n == worker[j][w].Row
           err == worker[j][w].Err
<1>1. /\ worker[j][w].At = "audit" /\ w \in Busy(j)
      /\ audit' = audit \/ audit' = audit \cup {new}
      /\ Step(j, w, "record", n, err)
      /\ UNCHANGED <<wallet, job, file, stage, fed, taken, summary, up>>
  BY <1>0, Writes
<1>2. /\ Typed /\ worker[j][w] \in Hands /\ stage[j] # "none"
  BY <1>1 DEF Jobwise, JobOK, Typed, Memory, Runs, Fresh, Waiting
<1>3. /\ \A i \in Jobs \ {j} : worker'[i] = worker[i]
      /\ \A v \in Workers \ {w} : worker'[j][v] = worker[j][v]
      /\ worker'[j][w] = [At |-> "record", Row |-> n, Err |-> err]
  <2>1. n \in Nat /\ err \in Results
    BY <1>2 DEF Hands
  <2> QED
    BY <1>1, <1>2, <2>1, StepMoves
<1>4. \A i \in Jobs, v \in Workers :
        /\ Won(i, v)' = Won(i, v) /\ RowAt(i, v)' = RowAt(i, v)
        /\ worker'[i][v].Row = worker[i][v].Row
  <2>1. \A i \in Jobs, v \in Workers : ~(i = j /\ v = w) => worker'[i][v] = worker[i][v]
    BY <1>3
  <2> QED
    BY <1>1, <1>3, <2>1 DEF Won, RowAt
<1>5. /\ new.Job = j /\ new.Row = n
      /\ new.Ref = RowAt(j, w).Ref /\ new.AccountID = RowAt(j, w).AccountID
      /\ new.Status = "accepted" => Won(j, w)
  BY <1>0, <1>1 DEF Written, RowAt, Won
<1>6. \A ref, account : InLedger(ref, account)' = InLedger(ref, account)
  BY <1>1 DEF wallet, InLedger
<1>7. \A e \in audit' : e.Status = "accepted" => InLedger(e.Ref, e.AccountID)'
  BY <1>1, <1>5, <1>6 DEF Accepts
<1>8. ASSUME NEW e \in audit, e.Status = "accepted", new.Status = "accepted"
      PROVE  e.Ref # new.Ref
  <2>1. e.Ref = new.Ref => e.Job = j /\ e.Row = n
    BY <1>5, <1>8 DEF Accepts
  <2>2. ~(e.Job = j /\ e.Row = n)
    BY <1>1, <1>2 DEF Audited, EventOK
  <2> QED
    BY <2>1, <2>2
<1>9. \A e, f \in audit' : e.Status = "accepted" /\ f.Status = "accepted" /\ e.Ref = f.Ref => e = f
  BY <1>1, <1>8 DEF Accepts
<1>10. ASSUME NEW i \in Jobs, NEW v \in Workers, NEW e \in audit',
              Won(i, v)', e.Status = "accepted", e.Ref = RowAt(i, v)'.Ref
       PROVE  e.Job = i /\ e.Row = worker'[i][v].Row
  <2>1. CASE e \in audit
    BY <1>4, <1>10, <2>1 DEF Accepts
  <2>2. CASE e = new
    BY <1>4, <1>5, <1>10, <2>2 DEF Accepts
  <2> QED
    BY <1>1, <2>1, <2>2
<1>11. \A i \in Jobs, v \in Workers : Won(i, v)' =>
         InLedger(RowAt(i, v).Ref, RowAt(i, v).AccountID)'
  <2> SUFFICES ASSUME NEW i \in Jobs, NEW v \in Workers, Won(i, v)'
               PROVE  InLedger(RowAt(i, v).Ref, RowAt(i, v).AccountID)'
    OBVIOUS
  <2>1. PICK other : other = RowAt(i, v) /\ other = RowAt(i, v)'
    BY <1>4
  <2>2. InLedger(other.Ref, other.AccountID)
    BY <1>4, <2>1 DEF Accepts
  <2>3. InLedger(other.Ref, other.AccountID)'
    BY <1>6, <2>2
  <2> QED
    BY <2>1, <2>3
<1>12. \A i, k \in Jobs, v, u \in Workers :
         Won(i, v)' /\ Won(k, u)' /\ RowAt(i, v)'.Ref = RowAt(k, u)'.Ref => i = k /\ v = u
  BY <1>4 DEF Accepts
<1> QED
  BY <1>7, <1>9, <1>10, <1>11, <1>12 DEF Accepts

LEMMA NextAccepts ==
  ASSUME Jobwise, Audited, Accepts, [Next]_vars
  PROVE  Accepts'
BY OthersAccept, ApplyAccepts, InsertAccepts DEF Next, Work

-----------------------------------------------------------------------------
(***************************************************************************)
(* Fourth part: a ref that only one row carries is not in the ledger before *)
(* that row is judged, nor after it was refused.                            *)
(***************************************************************************)

\* No other row that is ever uploaded carries the ref.
Only(j, n, ref) ==
  /\ \A i \in Jobs : job[i].Status # "none" => i = j
  /\ \A csv \in Files : ParsesOK(csv) =>
       \A m \in 1 .. Len(csv.Records) : csv.Records[m].Ref = ref => m = n

\* A row that is still to be judged, in the file, the channel or a worker's hands.
Pending(j, n) ==
  /\ stage[j] # "none" /\ n \in 1 .. Len(file[j])
  /\ n > taken[j] \/ \E w \in Workers : worker[j][w].At = "apply" /\ worker[j][w].Row = n

\* The worker holds a row that it was told is refused.
Turned(j, w) == worker[j][w].At = "audit" /\ worker[j][w].Err \notin {"none", "internal_error"}

Refused ==
  /\ (\A j \in Jobs : job[j].Status = "none") => ledger = <<>>
  /\ \A j \in Jobs : stage[j] # "none" =>
       \E csv \in Files : ParsesOK(csv) /\ file[j] = ParseCSV(csv)
  /\ \A j \in Jobs, n \in Nat :
       Pending(j, n) /\ Only(j, n, file[j][n].Ref) => ~Recorded(file[j][n].Ref)
  /\ \A j \in Jobs, w \in Workers :
       Turned(j, w) /\ Only(j, worker[j][w].Row, RowAt(j, w).Ref) => ~Recorded(RowAt(j, w).Ref)
  /\ \A e \in audit :
       /\ e.Status = "rejected" /\ e.Reason # "internal_error"
       /\ Only(e.Job, e.Row, e.Ref)
       => ~Recorded(e.Ref)

LEMMA InitRefused == Init => Refused
<1> SUFFICES ASSUME Init PROVE Refused
  OBVIOUS
<1>1. ledger = <<>> /\ audit = {} /\ \A j \in Jobs : stage[j] = "none"
  BY DEF Init, PL!Init
<1>2. \A j \in Jobs, w \in Workers : ~Turned(j, w)
  BY DEF Init, Waiting, Turned
<1> QED
  BY <1>1, <1>2 DEF Refused, Pending

\* The writers of batch_jobs.
LEMMA JobSteps ==
  ASSUME [Next]_vars
  PROVE  \/ UNCHANGED job
         \/ \E j \in Jobs, csv \in Files : Upload(j, csv)
         \/ \E j \in Jobs : Start(j) \/ Complete(j)
         \/ Restart
<1>1. ASSUME NEW j \in Jobs, Goroutine(j) PROVE UNCHANGED job \/ Start(j) \/ Complete(j)
  BY <1>1 DEF Goroutine, Feed, Close
<1>2. ASSUME NEW j \in Jobs, NEW w \in Workers, Work(j, w) PROVE UNCHANGED job
  BY <1>2 DEF Work, Receive, Apply, InsertAuditEvent, Record, Exit
<1>3. ASSUME Crash \/ Environment \/ UNCHANGED vars PROVE UNCHANGED job
  BY <1>3 DEF Crash, Environment, vars
<1> QED
  BY <1>1, <1>2, <1>3 DEF Next

\* A job row, once there, stays.
LEMMA JobsStay ==
  ASSUME Jobwise, [Next]_vars, NEW i \in Jobs, job[i].Status # "none"
  PROVE  job'[i].Status # "none"
<1>1. job \in [Jobs -> Rows]
  BY DEF Jobwise, Typed
<1>2. ASSUME NEW j \in Jobs, NEW csv \in Files, Upload(j, csv) PROVE job'[i].Status # "none"
  BY <1>1, <1>2 DEF Upload
<1>3. ASSUME NEW j \in Jobs, Start(j) \/ Complete(j) PROVE job'[i].Status # "none"
  BY <1>1, <1>3 DEF Start, Complete, Rows
<1>4. CASE Restart
  BY <1>1, <1>4, RecoveredRow DEF Restart
<1> QED
  BY <1>2, <1>3, <1>4, JobSteps

LEMMA OnlyShrinks ==
  ASSUME Jobwise, [Next]_vars, NEW j, NEW n, NEW ref, Only(j, n, ref)'
  PROVE  Only(j, n, ref)
BY JobsStay DEF Only

\* Who holds a row of the ref is the only one to hold it.
LEMMA SoleHolder ==
  ASSUME Jobwise, Refused, NEW j \in Jobs, NEW w \in Busy(j),
         NEW i, NEW n, NEW ref, Only(i, n, ref), RowAt(j, w).Ref = ref
  PROVE  i = j /\ worker[j][w].Row = n
<1>1. stage[j] # "none" /\ job[j].Status # "none"
  BY DEF Jobwise, JobOK, Runs, Fresh, Waiting, Busy
<1>2. PICK csv \in Files : ParsesOK(csv) /\ file[j] = ParseCSV(csv)
  BY <1>1 DEF Refused
<1>3. PICK m : m = worker[j][w].Row
  OBVIOUS
<1>4. m \in 1 .. Len(file[j])
  BY <1>3, HeldRow
<1>5. csv.Records \in Seq(Records)
  BY BatchAssumption DEF Csvs
<1>6. Len(csv.Records) \in Nat
  BY <1>5
<1>7. Len(file[j]) = Len(csv.Records) /\ file[j][m] = BatchRow(csv, csv.Records[m])
  BY <1>2, <1>4, <1>6 DEF ParseCSV
<1>8. csv.Records[m].Ref = ref
  BY <1>3, <1>7 DEF RowAt, BatchRow
<1> QED
  BY <1>1, <1>2, <1>3, <1>4, <1>7, <1>8 DEF Only

\* Nothing is posted, refused or reported in the step.
LEMMA QuietRefused ==
  ASSUME Jobwise, Refused, [Next]_vars, UNCHANGED <<audit, ledger>>,
         \A j \in Jobs : stage'[j] # "none" => stage[j] # "none" /\ file'[j] = file[j],
         \A j \in Jobs, n \in Nat : Pending(j, n)' => Pending(j, n),
         \A j \in Jobs, w \in Workers : Turned(j, w)' =>
           Turned(j, w) /\ stage'[j] # "none" /\ worker'[j][w].Row = worker[j][w].Row
  PROVE  Refused'
<1>1. \A ref : Recorded(ref)' = Recorded(ref)
  BY DEF Recorded
<1>2. (\A j \in Jobs : job'[j].Status = "none") => ledger' = <<>>
  BY JobsStay DEF Refused
<1>3. \A j \in Jobs : stage'[j] # "none" =>
        \E csv \in Files : ParsesOK(csv) /\ file'[j] = ParseCSV(csv)
  BY DEF Refused
<1>4. ASSUME NEW j \in Jobs, NEW n \in Nat, Pending(j, n)', Only(j, n, file[j][n].Ref)'
      PROVE  ~Recorded(file[j][n].Ref)'
  <2>1. Pending(j, n) /\ file'[j] = file[j]
    BY <1>4 DEF Pending
  <2>2. PICK ref : ref = file[j][n].Ref /\ ref = file'[j][n].Ref
    BY <2>1
  <2>3. Only(j, n, ref)
    BY <1>4, <2>2, OnlyShrinks
  <2> QED
    BY <1>1, <2>1, <2>2, <2>3 DEF Refused
<1>5. ASSUME NEW j \in Jobs, NEW w \in Workers, Turned(j, w)',
             Only(j, worker[j][w].Row, RowAt(j, w).Ref)'
      PROVE  ~Recorded(RowAt(j, w).Ref)'
  <2>1. Turned(j, w) /\ file'[j] = file[j] /\ worker'[j][w].Row = worker[j][w].Row
    BY <1>5
  <2>2. PICK n, ref : /\ n = worker[j][w].Row /\ n = worker'[j][w].Row
                      /\ ref = RowAt(j, w).Ref /\ ref = RowAt(j, w)'.Ref
    BY <2>1 DEF RowAt
  <2>3. Only(j, n, ref)
    BY <1>5, <2>2, OnlyShrinks
  <2> QED
    BY <1>1, <2>1, <2>2, <2>3 DEF Refused
<1>6. \A e \in audit : /\ e.Status = "rejected" /\ e.Reason # "internal_error"
                       /\ Only(e.Job, e.Row, e.Ref)'
                       => ~Recorded(e.Ref)'
  BY <1>1, OnlyShrinks DEF Refused
<1> QED
  BY <1>2, <1>3, <1>4, <1>5, <1>6 DEF Refused

LEMMA OthersRefused ==
  ASSUME Jobwise, Refused, [Next]_vars,
         \/ \E j \in Jobs : Goroutine(j) \/ \E w \in Workers : Receive(j, w) \/ Record(j, w) \/ Exit(j, w)
         \/ Crash \/ Restart \/ Environment \/ UNCHANGED vars
  PROVE  Refused'
<1>1. UNCHANGED <<audit, ledger>>
  BY DEF Goroutine, Start, Feed, Close, Complete, Receive, Record, Exit, Crash, Restart,
         Environment, vars, wallet, PL!Open, PL!Close
<1>2. ASSUME UNCHANGED <<worker, file, taken>>,
             \A i \in Jobs : stage'[i] # "none" => stage[i] # "none",
             \A i \in Jobs : stage[i] # "none" => stage'[i] # "none"
      PROVE  Refused'
  <2>1. \A i \in Jobs, n \in Nat : Pending(i, n)' => Pending(i, n)
    BY <1>2 DEF Pending
  <2>2. \A i \in Jobs, v \in Workers : Turned(i, v)' =>
          Turned(i, v) /\ stage'[i] # "none" /\ worker'[i][v].Row = worker[i][v].Row
    BY <1>2 DEF Turned, Jobwise, JobOK, Runs, Fresh, Waiting
  <2> QED
    BY <1>1, <1>2, <2>1, <2>2, QuietRefused
<1>3. ASSUME NEW j \in Jobs, Goroutine(j) PROVE Refused'
  <2>1. /\ UNCHANGED <<worker, file, taken>> /\ stage[j] # "none"
        /\ \/ stage' = stage
           \/ \E s \in {"feed", "wait", "done"} : stage' = [stage EXCEPT ![j] = s]
    BY <1>3 DEF Goroutine, Start, Feed, Close, Complete
  <2>2. stage \in [Jobs -> Stages]
    BY DEF Jobwise, Typed, Memory
  <2>3. ASSUME NEW i \in Jobs PROVE (stage'[i] # "none") <=> (stage[i] # "none")
    <3>1. CASE stage' = stage
      BY <3>1
    <3>2. ASSUME NEW s \in {"feed", "wait", "done"}, stage' = [stage EXCEPT ![j] = s]
          PROVE  (stage'[i] # "none") <=> (stage[i] # "none")
      BY <2>1, <2>2, <3>2
    <3> QED
      BY <2>1, <3>1, <3>2
  <2>4. UNCHANGED <<worker, file, taken>>
    BY <2>1
  <2> QED
    BY <1>2, <2>3, <2>4
<1>4. ASSUME NEW j \in Jobs, NEW w \in Workers, Receive(j, w) \/ Record(j, w) \/ Exit(j, w)
      PROVE  Refused'
  <2>1. PICK at, row, err :
          /\ Step(j, w, at, row, err) /\ at \in {"recv", "apply", "exit"}
          /\ row \in Nat /\ err \in Results
          /\ at = "apply" => row = taken[j] + 1
          /\ \/ taken' = [taken EXCEPT ![j] = @ + 1]
             \/ taken' = taken /\ at # "apply"
    <3>1. taken[j] + 1 \in Nat /\ 0 \in Nat /\ "none" \in Results
      BY DEF Jobwise, Typed, Memory, Results
    <3>2. CASE Receive(j, w)
      <4>1. Step(j, w, "apply", taken[j] + 1, "none") /\ taken' = [taken EXCEPT ![j] = @ + 1]
        BY <3>2 DEF Receive
      <4> QED
        BY <3>1, <4>1
    <3>3. CASE Exit(j, w)
      BY <3>1, <3>3 DEF Exit
    <3>4. CASE Record(j, w)
      <4>1. Step(j, w, "recv", 0, "none") /\ taken' = taken
        BY <3>4 DEF Record, Step, Waiting
      <4> QED
        BY <3>1, <4>1
    <3> QED
      BY <1>4, <3>2, <3>3, <3>4
  <2>2. /\ \A i \in Jobs \ {j} : worker'[i] = worker[i]
        /\ \A v \in Workers \ {w} : worker'[j][v] = worker[j][v]
        /\ worker'[j][w] = [At |-> at, Row |-> row, Err |-> err]
    BY <2>1, StepMoves DEF Jobwise
  <2>3. UNCHANGED <<file, stage>>
    BY <1>4 DEF Receive, Record, Exit
  <2>4. \A i \in Jobs : taken[i] \in Nat /\ taken'[i] \in Nat /\ taken[i] <= taken'[i]
    BY <2>1 DEF Jobwise, Typed, Memory
  <2>5. \A i \in Jobs, n \in Nat : Pending(i, n)' => Pending(i, n)
    <3> SUFFICES ASSUME NEW i \in Jobs, NEW n \in Nat, Pending(i, n)' PROVE Pending(i, n)
      OBVIOUS
    <3>1. stage[i] # "none" /\ n \in 1 .. Len(file[i])
      BY <2>3 DEF Pending
    <3>2. CASE n > taken'[i]
      BY <2>4, <3>1, <3>2 DEF Pending
    <3>3. ASSUME NEW v \in Workers, worker'[i][v].At = "apply", worker'[i][v].Row = n
          PROVE  Pending(i, n)
      <4>1. CASE i = j /\ v = w
        <5>1. at = "apply" /\ n = row
          BY <2>2, <3>3, <4>1
        <5>2. n > taken[i]
          BY <2>1, <2>4, <4>1, <5>1
        <5> QED
          BY <3>1, <5>2 DEF Pending
      <4>2. CASE ~(i = j /\ v = w)
        BY <2>2, <3>1, <3>3, <4>2 DEF Pending
      <4> QED
        BY <4>1, <4>2
    <3> QED
      BY <3>2, <3>3 DEF Pending
  <2>6. \A i \in Jobs, v \in Workers : Turned(i, v)' => Turned(i, v) /\ worker'[i][v] = worker[i][v]
    BY <2>1, <2>2 DEF Turned
  <2>7. \A i \in Jobs, v \in Workers : Turned(i, v) => stage[i] # "none"
    BY DEF Turned, Jobwise, JobOK, Runs, Fresh, Waiting
  <2> QED
    BY <1>1, <2>3, <2>5, <2>6, <2>7, QuietRefused
<1>5. CASE Crash
  <2>1. \A i \in Jobs, n \in Nat : ~Pending(i, n)'
    BY <1>5 DEF Crash, Pending
  <2>2. \A i \in Jobs, v \in Workers : ~Turned(i, v)'
    BY <1>5 DEF Crash, Turned, Waiting
  <2>3. \A i \in Jobs : stage'[i] = "none"
    BY <1>5 DEF Crash
  <2> QED
    BY <1>1, <2>1, <2>2, <2>3, QuietRefused
<1> QED
  BY <1>2, <1>3, <1>4, <1>5 DEF Restart, Environment, memory, vars

LEMMA UploadRefused ==
  ASSUME Jobwise, Audited, Refused, NEW j \in Jobs, NEW csv \in Files, Upload(j, csv)
  PROVE  Refused'
<1>1. /\ ParsesOK(csv) /\ UNCHANGED <<ledger, audit, worker, taken>> /\ job[j].Status = "none"
      /\ \/ file' = [file EXCEPT ![j] = ParseCSV(csv)] /\ stage' = [stage EXCEPT ![j] = "start"]
         \/ UNCHANGED <<file, stage>>
  BY DEF Upload, wallet
<1>2. job'[j].Status = "queued" /\ \A i \in Jobs \ {j} : job'[i] = job[i]
  BY DEF Upload, Jobwise, Typed
<1>3. \A i, n, ref : i # j => ~Only(i, n, ref)'
  BY <1>2 DEF Only
<1>4. ASSUME NEW n, NEW ref, Only(j, n, ref)' PROVE ~Recorded(ref)'
  <2>1. \A i \in Jobs : job[i].Status = "none"
    BY <1>1, <1>2, <1>4 DEF Only
  <2>2. ledger' = <<>>
    BY <1>1, <2>1 DEF Refused
  <2> QED
    BY <2>2 DEF Recorded
<1>5. \A i \in Jobs : stage'[i] # "none" =>
        \E c \in Files : ParsesOK(c) /\ file'[i] = ParseCSV(c)
  <2>1. CASE UNCHANGED <<file, stage>>
    BY <2>1 DEF Refused
  <2>2. CASE file' = [file EXCEPT ![j] = ParseCSV(csv)] /\ stage' = [stage EXCEPT ![j] = "start"]
    <3>1. file'[j] = ParseCSV(csv) /\ \A i \in Jobs \ {j} : file'[i] = file[i] /\ stage'[i] = stage[i]
      BY <2>2 DEF Jobwise, Typed, Memory
    <3> QED
      BY <1>1, <3>1 DEF Refused
  <2> QED
    BY <1>1, <2>1, <2>2
<1>6. \A i \in Jobs, n \in Nat :
        Pending(i, n)' /\ Only(i, n, file[i][n].Ref)' => ~Recorded(file[i][n].Ref)'
  BY <1>3, <1>4
<1>7. \A i \in Jobs, w \in Workers :
        Turned(i, w)' /\ Only(i, worker[i][w].Row, RowAt(i, w).Ref)' => ~Recorded(RowAt(i, w).Ref)'
  BY <1>3, <1>4
<1>8. \A e \in audit' :
        /\ e.Status = "rejected" /\ e.Reason # "internal_error"
        /\ Only(e.Job, e.Row, e.Ref)'
        => ~Recorded(e.Ref)'
  BY <1>3, <1>4
<1> QED
  BY <1>2, <1>5, <1>6, <1>7, <1>8 DEF Refused

LEMMA ApplyRefused ==
  ASSUME Jobwise, Audited, Refused, NEW j \in Jobs, NEW w \in Workers, Apply(j, w)
  PROVE  Refused'
<1>0. PICK row : row = RowAt(j, w)
  OBVIOUS
<1> DEFINE n == worker[j][w].Row
<1>1. /\ worker[j][w].At = "apply" /\ w \in Busy(j)
      /\ UNCHANGED <<job, audit, file, stage, taken>>
  BY DEF Apply, Busy
<1>2. /\ RowOK(row) /\ Wallet /\ Typed /\ Held(j)
      /\ n \in Nat /\ n \in 1 .. taken[j] /\ n \in 1 .. Len(file[j]) /\ taken[j] \in Nat
  BY <1>0, <1>1, HeldRow DEF RowAt, Jobwise, JobOK, Typed, Memory, Hands
<1>3. PICK err : /\ err \in {"none", "internal_error", Refusal(row)}
                 /\ Step(j, w, "audit", n, err)
                 /\ \/ Post(row) /\ err \in {"none", "internal_error"}
                    \/ UNCHANGED wallet
  BY <1>0 DEF Apply, RowAt
<1>4. /\ \A i \in Jobs \ {j} : worker'[i] = worker[i]
      /\ \A v \in Workers \ {w} : worker'[j][v] = worker[j][v]
      /\ worker'[j][w] = [At |-> "audit", Row |-> n, Err |-> err]
  <2>1. err \in Results
    BY <1>2, <1>3, RefusalInRange DEF Results
  <2>2. Step(j, w, "audit", n, err) /\ Typed /\ n \in Nat
    BY <1>2, <1>3
  <2> QED
    BY <2>1, <2>2, StepMoves
<1>5. \A ref : Recorded(ref)' => Recorded(ref) \/ (Post(row) /\ ref = row.Ref)
  <2>1. CASE UNCHANGED wallet
    BY <2>1 DEF wallet, Recorded
  <2>2. CASE Post(row)
    <3>1. PICK e \in Entries : e.Ref = row.Ref /\ ledger' = Append(ledger, e)
      BY <1>2, <2>2, PostSteps
    <3>2. ledger \in Seq(Entries) /\ Len(ledger) \in Nat
      BY <1>2 DEF Wallet
    <3>3. \A i \in 1 .. Len(ledger') : ledger'[i] = IF i = Len(ledger) + 1 THEN e ELSE ledger[i]
      BY <3>1, <3>2
    <3>4. \A i \in 1 .. Len(ledger') : i = Len(ledger) + 1 \/ i \in 1 .. Len(ledger)
      BY <3>1, <3>2
    <3> QED
      BY <2>2, <3>1, <3>3, <3>4 DEF Recorded
  <2> QED
    BY <1>3, <2>1, <2>2
<1>6. \A i, m, ref : Only(i, m, ref)' => Only(i, m, ref)
  BY <1>1 DEF Only
<1>7. \A i, m, ref : Only(i, m, ref) /\ ref = row.Ref => i = j /\ m = n
  BY <1>0, <1>1, SoleHolder
<1>8. job'[j].Status # "none"
  BY <1>1 DEF Jobwise, JobOK, Runs, Fresh, Waiting
<1>9. \A i \in Jobs : stage'[i] # "none" =>
        \E csv \in Files : ParsesOK(csv) /\ file'[i] = ParseCSV(csv)
  BY <1>1 DEF Refused
<1>10. ASSUME NEW i \in Jobs, NEW m \in Nat, Pending(i, m)', Only(i, m, file[i][m].Ref)'
       PROVE  ~Recorded(file[i][m].Ref)'
  <2>1. PICK ref : ref = file[i][m].Ref /\ ref = file'[i][m].Ref
    BY <1>1
  <2>2. Pending(i, m) /\ ~(i = j /\ m = n)
    <3>1. CASE m > taken[i]
      BY <1>1, <1>2, <1>10, <3>1 DEF Pending
    <3>2. ASSUME NEW v \in Workers, worker'[i][v].At = "apply", worker'[i][v].Row = m
          PROVE  Pending(i, m) /\ ~(i = j /\ m = n)
      <4>1. ~(i = j /\ v = w)
        BY <1>4, <3>2
      <4>2. worker'[i][v] = worker[i][v]
        BY <1>4, <4>1
      <4>3. v \in Busy(i)
        BY <3>2, <4>2 DEF Busy
      <4>4. ~(i = j /\ m = n)
        BY <1>1, <1>2, <3>2, <4>1, <4>2, <4>3 DEF Held
      <4> QED
        BY <1>1, <1>10, <3>2, <4>2, <4>4 DEF Pending
    <3> QED
      BY <1>1, <1>10, <3>1, <3>2 DEF Pending
  <2>3. Only(i, m, ref)
    BY <1>6, <1>10, <2>1
  <2>4. ~Recorded(ref)
    BY <2>1, <2>2, <2>3 DEF Refused
  <2> QED
    BY <1>5, <1>7, <2>1, <2>2, <2>3, <2>4
<1>11. ASSUME NEW i \in Jobs, NEW v \in Workers, Turned(i, v)',
              Only(i, worker[i][v].Row, RowAt(i, v).Ref)'
       PROVE  ~Recorded(RowAt(i, v).Ref)'
  <2>1. CASE i = j /\ v = w
    <3>1. row = RowAt(i, v)' /\ n = worker'[i][v].Row
      BY <1>0, <1>1, <1>4, <2>1 DEF RowAt
    <3>2. ~Post(row)
      BY <1>3, <1>4, <1>11, <2>1 DEF Turned, Post
    <3>3. Pending(j, n)
      BY <1>1, <1>2 DEF Pending, Jobwise, JobOK, Runs, Fresh, Waiting
    <3>4. Only(j, n, row.Ref) /\ row.Ref = file[j][n].Ref
      BY <1>0, <1>6, <1>11, <2>1, <3>1 DEF RowAt
    <3>5. ~Recorded(row.Ref)
      BY <1>2, <3>3, <3>4 DEF Refused
    <3> QED
      BY <1>5, <3>1, <3>2, <3>5
  <2>2. CASE ~(i = j /\ v = w)
    <3>1. worker'[i][v] = worker[i][v]
      BY <1>4, <2>2
    <3>2. PICK ref, m : /\ ref = RowAt(i, v).Ref /\ ref = RowAt(i, v)'.Ref
                        /\ m = worker[i][v].Row /\ m = worker'[i][v].Row
      BY <1>1, <3>1 DEF RowAt
    <3>3. Turned(i, v) /\ v \in Busy(i)
      BY <1>11, <3>1 DEF Turned, Busy
    <3>4. Only(i, m, ref)
      BY <1>6, <1>11, <3>2
    <3>5. ~Recorded(ref)
      BY <3>2, <3>3, <3>4 DEF Refused
    <3>6. ~(i = j /\ m = n)
      BY <1>1, <1>2, <2>2, <3>2, <3>3 DEF Held
    <3> QED
      BY <1>5, <1>7, <3>2, <3>4, <3>5, <3>6
  <2> QED
    BY <2>1, <2>2
<1>12. ASSUME NEW e \in audit, e.Status = "rejected", e.Reason # "internal_error",
              Only(e.Job, e.Row, e.Ref)'
       PROVE  ~Recorded(e.Ref)'
  <2>1. Only(e.Job, e.Row, e.Ref) /\ ~Recorded(e.Ref)
    BY <1>6, <1>12 DEF Refused
  <2>2. ~(e.Job = j /\ e.Row = n)
    <3>1. stage[j] # "none"
      BY <1>1 DEF Jobwise, JobOK, Runs, Fresh, Waiting
    <3> QED
      BY <1>1, <3>1 DEF Audited, EventOK
  <2> QED
    BY <1>5, <1>7, <2>1, <2>2
<1> QED
  BY <1>1, <1>8, <1>9, <1>10, <1>11, <1>12 DEF Refused

LEMMA InsertRefused ==
  ASSUME Jobwise, Refused, NEW j \in Jobs, NEW w \in Workers, InsertAuditEvent(j, w)
  PROVE  Refused'
<1>0. PICK new : new = Written(j, w)
  OBVIOUS
<1> DEFINE n == worker[j][w].Row
           err == worker[j][w].Err
<1>1. /\ worker[j][w].At = "audit" /\ err \in Results
      /\ audit' = audit \/ audit' = audit \cup {new}
      /\ Step(j, w, "record", n, err)
      /\ UNCHANGED <<wallet, job, file, stage, taken>>
  BY <1>0, Writes
<1>2. /\ \A i \in Jobs \ {j} : worker'[i] = worker[i]
      /\ \A v \in Workers \ {w} : worker'[j][v] = worker[j][v]
      /\ worker'[j][w] = [At |-> "record", Row |-> n, Err |-> err]
  <2>1. Typed /\ n \in Nat
    BY DEF Jobwise, Typed, Memory, Hands
  <2> QED
    BY <1>1, <2>1, StepMoves
<1>3. \A ref : Recorded(ref)' = Recorded(ref)
  BY <1>1 DEF wallet, Recorded
<1>4. \A i, m, ref : Only(i, m, ref)' = Only(i, m, ref)
  BY <1>1 DEF Only
<1>5. \A i \in Jobs, v \in Workers :
        worker'[i][v] = worker[i][v] \/ worker'[i][v].At = "record"
  BY <1>2
<1>6. \A i \in Jobs, m \in Nat : Pending(i, m)' => Pending(i, m)
  BY <1>1, <1>5 DEF Pending
<1>7. \A i \in Jobs, m \in Nat :
        Pending(i, m)' /\ Only(i, m, file[i][m].Ref)' => ~Recorded(file[i][m].Ref)'
  <2> SUFFICES ASSUME NEW i \in Jobs, NEW m \in Nat,
                      Pending(i, m)', Only(i, m, file[i][m].Ref)'
               PROVE  ~Recorded(file[i][m].Ref)'
    OBVIOUS
  <2>1. PICK ref : ref = file[i][m].Ref /\ ref = file'[i][m].Ref
    BY <1>1
  <2> QED
    BY <1>3, <1>4, <1>6, <2>1 DEF Refused
<1>8. \A i \in Jobs, v \in Workers :
        Turned(i, v)' /\ Only(i, worker[i][v].Row, RowAt(i, v).Ref)' => ~Recorded(RowAt(i, v).Ref)'
  <2> SUFFICES ASSUME NEW i \in Jobs, NEW v \in Workers, Turned(i, v)',
                      Only(i, worker[i][v].Row, RowAt(i, v).Ref)'
               PROVE  ~Recorded(RowAt(i, v).Ref)'
    OBVIOUS
  <2>1. worker'[i][v] = worker[i][v]
    BY <1>5 DEF Turned
  <2>2. PICK ref, m : /\ ref = RowAt(i, v).Ref /\ ref = RowAt(i, v)'.Ref
                      /\ m = worker[i][v].Row /\ m = worker'[i][v].Row
    BY <1>1, <2>1 DEF RowAt
  <2>3. Turned(i, v)
    BY <2>1 DEF Turned
  <2> QED
    BY <1>3, <1>4, <2>2, <2>3 DEF Refused
<1>9. ASSUME NEW e \in audit', e.Status = "rejected", e.Reason # "internal_error",
             Only(e.Job, e.Row, e.Ref)'
      PROVE  ~Recorded(e.Ref)'
  <2>1. CASE e \in audit
    BY <1>3, <1>4, <1>9, <2>1 DEF Refused
  <2>2. CASE e = new
    <3>1. /\ e.Job = j /\ e.Row = n /\ e.Ref = RowAt(j, w).Ref
          /\ err \notin {"none", "internal_error"}
      BY <1>0, <1>9, <2>2 DEF Written, RowAt
    <3>2. Turned(j, w) /\ Only(j, n, RowAt(j, w).Ref)
      BY <1>1, <1>4, <1>9, <3>1 DEF Turned
    <3> QED
      BY <1>3, <3>1, <3>2 DEF Refused
  <2> QED
    BY <1>1, <1>9, <2>1, <2>2
<1> QED
  BY <1>1, <1>7, <1>8, <1>9 DEF wallet, Refused

LEMMA NextRefused ==
  ASSUME Jobwise, Audited, Refused, [Next]_vars
  PROVE  Refused'
BY OthersRefused, UploadRefused, ApplyRefused, InsertRefused DEF Next, Work

-----------------------------------------------------------------------------
(***************************************************************************)
(* The theorems.                                                            *)
(***************************************************************************)

IInv == Jobwise /\ Audited /\ Accepts /\ Refused

\* The jobs, the audit trail and the acceptances stay in order over every interleaving
\* of feeders and workers, every lost write and every restart.
THEOREM Invariant == Spec => []IInv
<1>1. Init => IInv
  BY InitJobwise, InitAudited, InitAccepts, InitRefused DEF IInv
<1>2. IInv /\ [Next]_vars => IInv'
  BY NextJobwise, NextAudited, NextAccepts, NextRefused DEF IInv
<1> QED
  BY <1>1, <1>2, PTL DEF Spec

\* Tables, channels, workers and summaries keep their types.
THEOREM TypeCorrect == Spec => []TypeOK
<1>1. IInv => TypeOK
  BY TypedTypes DEF IInv, Jobwise
<1> QED
  BY <1>1, Invariant, PTL

\* For every pool of workers, no row of a file is lost or processed twice.
THEOREM RowsCounted == Spec => []RowsAccountedFor
<1>1. IInv => RowsAccountedFor
  BY DEF IInv, Jobwise, JobOK, Channel, Held, RowsAccountedFor
<1> QED
  BY <1>1, Invariant, PTL

\* A completed job has as many verdicts as rows, and no more events of a verdict.
THEOREM CompletedIsCounted == Spec => []CompletedCountsEveryRow
<1>1. IInv => CompletedCountsEveryRow
  <2> SUFFICES ASSUME IInv, NEW j \in Jobs, job[j].Status = "completed"
               PROVE  /\ Total(job[j].Counts) = job[j].TotalRows
                      /\ \A k \in Verdicts : Cardinality(Judged(j, k)) <= job[j].Counts[k]
    BY DEF CompletedCountsEveryRow, Judged
  <2>1. Runs(j) /\ \A k \in Verdicts : Tally(j, k)
    BY DEF IInv, Jobwise, JobOK, Audited
  <2> QED
    BY <2>1 DEF Runs, Tally
<1> QED
  BY <1>1, Invariant, PTL

\* What the parser accepts the wallet does not call invalid.
THEOREM ParserAgreesWithWallet == Spec => []NoRowInvalid
<1>1. IInv => NoRowInvalid
  BY DEF IInv, Audited, EventOK, NoRowInvalid
<1> QED
  BY <1>1, Invariant, PTL

\* No ref is accepted twice, however many jobs, workers and uploads carry it.
THEOREM AcceptedOnce == Spec => []AcceptedOncePerRef
<1>1. IInv => AcceptedOncePerRef
  BY DEF IInv, Accepts, AcceptedOncePerRef
<1> QED
  BY <1>1, Invariant, PTL

\* The audit trail never calls accepted what the ledger does not hold.
THEOREM AcceptedIsRecorded == Spec => []AcceptedIsInLedger
<1>1. IInv => AcceptedIsInLedger
  BY DEF IInv, Accepts, InLedger, AcceptedIsInLedger
<1> QED
  BY <1>1, Invariant, PTL

\* Over any jobs and restarts, a reason other than internal_error means that nothing was posted.
THEOREM RejectedIsAbsent == Spec => []RejectedLeavesNoRow
<1>1. IInv => RejectedLeavesNoRow
  <2>1. \A e \in audit : Sole(e) => Only(e.Job, e.Row, e.Ref)
    BY DEF Sole, Only
  <2> QED
    BY <2>1 DEF IInv, Refused, RejectedLeavesNoRow
<1> QED
  BY <1>1, Invariant, PTL

\* While the server is up, the goroutine of a job in processing is at work, or it is done
\* with every row and its last write failed.
THEOREM NoneLeftProcessing == Spec => []ProcessingIsAlive
<1>1. ASSUME IInv, up, NEW j \in Jobs, job[j].Status = "processing"
      PROVE  \/ stage[j] \in {"feed", "wait"}
             \/ stage[j] = "done" /\ Total(summary[j]) = job[j].TotalRows
  <2>1. JobOK(j) /\ stage[j] \in {"none", "start", "feed", "wait", "done"} /\ taken[j] \in Nat
    BY <1>1, TypedTypes DEF IInv, Jobwise, TypeOK
  <2>2. stage[j] \in {"feed", "wait", "done"}
    BY <1>1, <2>1 DEF JobOK, Runs
  <2>3. CASE stage[j] = "done"
    <3>1. PICK w \in Workers : worker[j][w].At = "exit"
      BY <2>1, <2>3, BatchAssumption DEF JobOK, Runs
    <3>2. taken[j] = Len(file[j]) /\ job[j].TotalRows = Len(file[j])
      BY <2>1, <2>3, <3>1 DEF JobOK, Runs, Held
    <3>3. Busy(j) = {}
      BY <2>1, <2>3 DEF JobOK, Runs, Busy
    <3>4. summary[j] \in Counts
      BY <1>1, TypedTypes DEF IInv, Jobwise, TypeOK
    <3>5. Total(summary[j]) \in Nat
      BY <3>4 DEF Counts, Total, Verdicts
    <3>6. Total(summary[j]) + Cardinality(Busy(j)) = taken[j] /\ Cardinality(Busy(j)) = 0
      BY <2>1, <3>3, FS_EmptySet DEF JobOK, Channel
    <3> QED
      BY <2>3, <3>2, <3>5, <3>6
  <2> QED
    BY <2>2, <2>3
<1>2. IInv => ProcessingIsAlive
  BY <1>1 DEF ProcessingIsAlive
<1> QED
  BY <1>2, Invariant, PTL

-----------------------------------------------------------------------------
(* The work that is left of a job.                                           *)

LEMMA WorkersCounted ==
  ASSUME NEW j \in Jobs, NEW places
  PROVE  /\ WorkersAt(j, places) \in Nat /\ Cardinality(Workers) \in Nat
         /\ WorkersAt(j, places) <= Cardinality(Workers)
<1>1. {w \in Workers : worker[j][w].At \in places} \subseteq Workers
  OBVIOUS
<1> QED
  BY <1>1, BatchAssumption, FS_Subset, FS_CardinalityType DEF WorkersAt

\* A worker that moves leaves one place and enters another.
LEMMA WorkerMoves ==
  ASSUME NEW j \in Jobs, NEW w \in Workers, NEW places,
         \A v \in Workers \ {w} : worker'[j][v] = worker[j][v]
  PROVE  WorkersAt(j, places)' =
           WorkersAt(j, places) + (IF worker'[j][w].At \in places THEN 1 ELSE 0)
                                - (IF worker[j][w].At \in places THEN 1 ELSE 0)
<1> DEFINE before == {v \in Workers : worker[j][v].At \in places}
           after == {v \in Workers : worker'[j][v].At \in places}
           others == {v \in Workers \ {w} : worker[j][v].At \in places}
<1>1. IsFiniteSet(others)
  <2>1. others \subseteq Workers
    OBVIOUS
  <2> QED
    BY <2>1, BatchAssumption, FS_Subset
<1>2. before = IF worker[j][w].At \in places THEN others \cup {w} ELSE others
  OBVIOUS
<1>3. after = IF worker'[j][w].At \in places THEN others \cup {w} ELSE others
  OBVIOUS
<1>4. w \notin others
  OBVIOUS
<1> HIDE DEF others, before, after
<1>5. Cardinality(others \cup {w}) = Cardinality(others) + 1 /\ Cardinality(others) \in Nat
  BY <1>1, <1>4, FS_AddElement, FS_CardinalityType
<1>6. Cardinality(after) = Cardinality(before) + (IF worker'[j][w].At \in places THEN 1 ELSE 0)
                                               - (IF worker[j][w].At \in places THEN 1 ELSE 0)
  BY <1>2, <1>3, <1>5
<1>7. WorkersAt(j, places) = Cardinality(before) /\ WorkersAt(j, places)' = Cardinality(after)
  BY DEF WorkersAt, before, after
<1> QED
  BY <1>6, <1>7

\* What a worker has to do with the row in its hands; one that left lacks its exit.
Rank(at) ==
  CASE at = "apply" -> 3 [] at = "audit" -> 2 [] at = "record" -> 1 [] at = "exit" -> -1
    [] OTHER -> 0

LEMMA HandsCounted ==
  ASSUME NEW j \in Jobs
  PROVE  /\ HandSteps(j) \in Nat
         /\ (\A w \in Workers : worker[j][w].At = "exit") => HandSteps(j) = 0
<1>1. /\ WorkersAt(j, {"apply"}) \in Nat /\ WorkersAt(j, {"apply", "audit"}) \in Nat
      /\ WorkersAt(j, {"apply", "audit", "record"}) \in Nat /\ WorkersAt(j, {"exit"}) \in Nat
      /\ WorkersAt(j, {"exit"}) <= Cardinality(Workers) /\ Cardinality(Workers) \in Nat
  BY WorkersCounted
<1>2. ASSUME \A w \in Workers : worker[j][w].At = "exit" PROVE HandSteps(j) = 0
  <2>1. WorkersAt(j, {"exit"}) = Cardinality(Workers)
    <3>1. {w \in Workers : worker[j][w].At \in {"exit"}} = Workers
      BY <1>2
    <3> QED
      BY <3>1 DEF WorkersAt
  <2>2. /\ {w \in Workers : worker[j][w].At \in {"apply"}} = {}
        /\ {w \in Workers : worker[j][w].At \in {"apply", "audit"}} = {}
        /\ {w \in Workers : worker[j][w].At \in {"apply", "audit", "record"}} = {}
    BY <1>2
  <2>3. /\ WorkersAt(j, {"apply"}) = 0 /\ WorkersAt(j, {"apply", "audit"}) = 0
        /\ WorkersAt(j, {"apply", "audit", "record"}) = 0
    BY <2>2, FS_EmptySet DEF WorkersAt
  <2> QED
    BY <1>1, <2>1, <2>3 DEF HandSteps
<1> QED
  BY <1>1, <1>2 DEF HandSteps

LEMMA HandMoves ==
  ASSUME NEW j \in Jobs, NEW w \in Workers,
         \A v \in Workers \ {w} : worker'[j][v] = worker[j][v]
  PROVE  HandSteps(j)' = HandSteps(j) + Rank(worker'[j][w].At) - Rank(worker[j][w].At)
<1> DEFINE In(at, places) == IF at \in places THEN 1 ELSE 0
           from == worker[j][w].At
           to == worker'[j][w].At
<1>1. ASSUME NEW at
      PROVE  Rank(at) = In(at, {"apply"}) + In(at, {"apply", "audit"})
                          + In(at, {"apply", "audit", "record"}) - In(at, {"exit"})
  BY DEF Rank
<1>2. \A at, places : In(at, places) \in Int
  OBVIOUS
<1>3. /\ WorkersAt(j, {"apply"})' = WorkersAt(j, {"apply"}) + In(to, {"apply"}) - In(from, {"apply"})
      /\ WorkersAt(j, {"apply", "audit"})' = WorkersAt(j, {"apply", "audit"})
           + In(to, {"apply", "audit"}) - In(from, {"apply", "audit"})
      /\ WorkersAt(j, {"apply", "audit", "record"})' = WorkersAt(j, {"apply", "audit", "record"})
           + In(to, {"apply", "audit", "record"}) - In(from, {"apply", "audit", "record"})
      /\ WorkersAt(j, {"exit"})' = WorkersAt(j, {"exit"}) + In(to, {"exit"}) - In(from, {"exit"})
  BY WorkerMoves
<1>4. /\ WorkersAt(j, {"apply"}) \in Nat /\ WorkersAt(j, {"apply", "audit"}) \in Nat
      /\ WorkersAt(j, {"apply", "audit", "record"}) \in Nat /\ WorkersAt(j, {"exit"}) \in Nat
      /\ Cardinality(Workers) \in Nat
  BY WorkersCounted
<1>5. /\ Rank(from) = In(from, {"apply"}) + In(from, {"apply", "audit"})
                        + In(from, {"apply", "audit", "record"}) - In(from, {"exit"})
      /\ Rank(to) = In(to, {"apply"}) + In(to, {"apply", "audit"})
                        + In(to, {"apply", "audit", "record"}) - In(to, {"exit"})
  BY <1>1
<1> HIDE DEF In, from, to
<1>6. HandSteps(j)' = HandSteps(j) + Rank(to) - Rank(from)
  BY <1>2, <1>3, <1>4, <1>5 DEF HandSteps
<1> QED
  BY <1>6 DEF from, to

LEMMA MemoryNumbers ==
  ASSUME Jobwise, NEW j \in Jobs
  PROVE  /\ Len(file[j]) \in Nat /\ fed[j] \in Nat /\ taken[j] \in Nat
         /\ taken[j] <= fed[j] /\ fed[j] <= Len(file[j])
         /\ HandSteps(j) \in Nat /\ StageSteps(j) \in Nat
<1>1. Channel(j) /\ fed[j] \in Nat /\ taken[j] \in Nat
  BY DEF Jobwise, JobOK, Typed, Memory
<1> QED
  BY <1>1, HandsCounted DEF Channel, RowsOK, StageSteps

\* A step of a worker that takes rows rows from the channel.
LEMMA WorkerLeft ==
  ASSUME Jobwise, NEW j \in Jobs, NEW w \in Workers,
         \A v \in Workers \ {w} : worker'[j][v] = worker[j][v],
         UNCHANGED <<file, stage, fed>>, NEW rows \in Nat, taken'[j] = taken[j] + rows,
         Rank(worker'[j][w].At) - Rank(worker[j][w].At) = 4 * rows - 1
  PROVE  Left(j)' = Left(j) - 1
<1>1. Rank(worker'[j][w].At) \in Int /\ Rank(worker[j][w].At) \in Int
  BY DEF Rank
<1>2. HandSteps(j)' = HandSteps(j) + 4 * rows - 1
  BY <1>1, HandMoves, MemoryNumbers
<1>3. StageSteps(j)' = StageSteps(j)
  BY DEF StageSteps
<1>4. /\ Left(j) = Len(file[j]) - fed[j] + 4 * (Len(file[j]) - taken[j]) + HandSteps(j) + StageSteps(j)
      /\ Left(j)' = Len(file[j]) - fed[j] + 4 * (Len(file[j]) - (taken[j] + rows))
                      + HandSteps(j)' + StageSteps(j)'
  BY DEF Left
<1> DEFINE n == Len(file[j])
           f == fed[j]
           t == taken[j]
           h == HandSteps(j)
           s == StageSteps(j)
<1>5. n \in Nat /\ f \in Nat /\ t \in Nat /\ h \in Nat /\ s \in Nat
  BY MemoryNumbers
<1>6. n - f + 4 * (n - (t + rows)) + (h + 4 * rows - 1) + s = (n - f + 4 * (n - t) + h + s) - 1
  <2> HIDE DEF n, f, t, h, s
  <2> QED
    BY <1>5
<1>7. Left(j)' = n - f + 4 * (n - (t + rows)) + (h + 4 * rows - 1) + s
  BY <1>2, <1>3, <1>4
<1> QED
  BY <1>4, <1>6, <1>7

LEMMA WorkLeft ==
  ASSUME Jobwise, NEW j \in Jobs, NEW w \in Workers, Work(j, w)
  PROVE  Left(j)' = Left(j) - 1
<1>1. Typed /\ worker[j][w] \in Hands /\ taken[j] \in Nat /\ taken \in [Jobs -> Nat]
      /\ worker[j] \in [Workers -> Hands] /\ worker \in [Jobs -> [Workers -> Hands]]
  BY DEF Jobwise, Typed, Memory
<1>2. ASSUME NEW at \in {"apply", "audit", "record", "exit"}, NEW row, NEW err, Step(j, w, at, row, err)
      PROVE  (\A v \in Workers \ {w} : worker'[j][v] = worker[j][v]) /\ worker'[j][w].At = at
  BY <1>1, <1>2 DEF Step
<1>3. CASE Receive(j, w)
  <2>1. Step(j, w, "apply", taken[j] + 1, "none") /\ worker[j][w].At = "recv"
        /\ UNCHANGED <<file, stage, fed>> /\ taken'[j] = taken[j] + 1
    BY <1>1, <1>3 DEF Receive
  <2>2. Rank("apply") - Rank("recv") = 4 * 1 - 1
    BY DEF Rank
  <2> QED
    BY <1>2, <2>1, <2>2, WorkerLeft
<1>4. CASE Apply(j, w) \/ InsertAuditEvent(j, w) \/ Exit(j, w)
  <2>1. /\ UNCHANGED <<file, stage, fed>> /\ taken'[j] = taken[j] + 0
        /\ \/ worker[j][w].At = "apply" /\ \E row, err : Step(j, w, "audit", row, err)
           \/ worker[j][w].At = "audit" /\ \E row, err : Step(j, w, "record", row, err)
           \/ worker[j][w].At = "recv" /\ \E row, err : Step(j, w, "exit", row, err)
    <3>1. UNCHANGED <<file, stage, fed, taken>>
      BY <1>4 DEF Apply, InsertAuditEvent, Exit
    <3>2. CASE Apply(j, w)
      BY <1>1, <3>1, <3>2 DEF Apply
    <3>3. CASE InsertAuditEvent(j, w)
      BY <1>1, <3>1, <3>3 DEF InsertAuditEvent
    <3>4. CASE Exit(j, w)
      BY <1>1, <3>1, <3>4 DEF Exit
    <3> QED
      BY <1>4, <3>2, <3>3, <3>4
  <2>2. /\ \A v \in Workers \ {w} : worker'[j][v] = worker[j][v]
        /\ \/ worker[j][w].At = "apply" /\ worker'[j][w].At = "audit"
           \/ worker[j][w].At = "audit" /\ worker'[j][w].At = "record"
           \/ worker[j][w].At = "recv" /\ worker'[j][w].At = "exit"
    BY <1>2, <2>1
  <2>3. Rank(worker'[j][w].At) - Rank(worker[j][w].At) = 4 * 0 - 1
    BY <2>2 DEF Rank
  <2> QED
    BY <2>1, <2>2, <2>3, WorkerLeft
<1>5. CASE Record(j, w)
  <2>1. /\ UNCHANGED <<file, stage, fed>> /\ taken'[j] = taken[j] + 0 /\ worker[j][w].At = "record"
        /\ worker' = [worker EXCEPT ![j][w] = Waiting]
    BY <1>1, <1>5 DEF Record
  <2>2. (\A v \in Workers \ {w} : worker'[j][v] = worker[j][v]) /\ worker'[j][w].At = "recv"
    BY <1>1, <2>1 DEF Waiting
  <2>3. Rank("recv") - Rank("record") = 4 * 0 - 1
    BY DEF Rank
  <2> QED
    BY <2>1, <2>2, <2>3, WorkerLeft
<1> QED
  BY <1>3, <1>4, <1>5 DEF Work

LEMMA GoroutineLeft ==
  ASSUME Jobwise, NEW j \in Jobs, Goroutine(j)
  PROVE  Left(j)' = Left(j) - 1
<1>1. UNCHANGED <<file, worker, taken>>
      /\ HandSteps(j)' = HandSteps(j)
  <2>1. UNCHANGED <<file, worker, taken>>
    BY DEF Goroutine, Start, Feed, Close, Complete
  <2> QED
    BY <2>1 DEF HandSteps, WorkersAt
<1>2. \/ fed'[j] = fed[j] + 1 /\ StageSteps(j)' = StageSteps(j)
      \/ fed'[j] = fed[j] /\ StageSteps(j)' = StageSteps(j) - 1
  <2>1. stage \in [Jobs -> Stages] /\ fed \in [Jobs -> Nat]
    BY DEF Jobwise, Typed, Memory
  <2>2. CASE Feed(j)
    BY <2>1, <2>2 DEF Feed, StageSteps
  <2>3. CASE Start(j) \/ Close(j) \/ Complete(j)
    BY <2>1, <2>3 DEF Start, Close, Complete, StageSteps
  <2> QED
    BY <2>2, <2>3 DEF Goroutine
<1>3. /\ Left(j) = Len(file[j]) - fed[j] + 4 * (Len(file[j]) - taken[j]) + HandSteps(j) + StageSteps(j)
      /\ Left(j)' = Len(file[j]) - fed'[j] + 4 * (Len(file[j]) - taken[j])
                      + HandSteps(j) + StageSteps(j)'
  BY <1>1 DEF Left
<1> DEFINE n == Len(file[j])
           f == fed[j]
           t == taken[j]
           h == HandSteps(j)
           s == StageSteps(j)
<1>4. n \in Nat /\ f \in Nat /\ t \in Nat /\ h \in Nat /\ s \in Nat
  BY MemoryNumbers
<1>5. /\ n - (f + 1) + 4 * (n - t) + h + s = (n - f + 4 * (n - t) + h + s) - 1
      /\ n - f + 4 * (n - t) + h + (s - 1) = (n - f + 4 * (n - t) + h + s) - 1
  <2> HIDE DEF n, f, t, h, s
  <2> QED
    BY <1>4
<1>6. Left(j)' = n - (f + 1) + 4 * (n - t) + h + s \/ Left(j)' = n - f + 4 * (n - t) + h + (s - 1)
  BY <1>2, <1>3
<1> QED
  BY <1>3, <1>5, <1>6

\* The rest of the system leaves a started job its work.
Kept(j) ==
  /\ file'[j] = file[j] /\ stage'[j] = stage[j] /\ fed'[j] = fed[j] /\ taken'[j] = taken[j]
  /\ worker'[j] = worker[j]

LEMMA OthersLeft ==
  ASSUME Jobwise, [Next]_vars, NEW j \in Jobs, stage[j] # "none", up',
         ~Goroutine(j), \A w \in Workers : ~Work(j, w)
  PROVE  Left(j)' = Left(j)
<1>1. up /\ job[j].Status # "none"
  BY DEF Jobwise, JobOK, Runs
<1>2. Jobwise
  OBVIOUS
<1>3. Kept(j)
  <2>1. ASSUME NEW i \in Jobs, NEW csv \in Files, Upload(i, csv) PROVE Kept(j)
    <3>1. i # j
      BY <1>1, <2>1 DEF Upload
    <3>2. UNCHANGED <<fed, taken, worker>>
      BY <2>1 DEF Upload
    <3>3. file'[j] = file[j] /\ stage'[j] = stage[j]
      BY <1>2, <2>1, <3>1 DEF Upload, Jobwise, Typed, Memory
    <3> QED
      BY <3>2, <3>3 DEF Kept
  <2>2. ASSUME NEW i \in Jobs \ {j}, Goroutine(i) PROVE Kept(j)
    BY <1>2, <2>2 DEF Goroutine, Start, Feed, Close, Complete, Kept, Jobwise, Typed, Memory
  <2>3. ASSUME NEW i \in Jobs \ {j}, NEW w \in Workers, Work(i, w) PROVE Kept(j)
    BY <1>2, <2>3 DEF Work, Receive, Apply, InsertAuditEvent, Record, Exit, Step, Kept, Jobwise, Typed, Memory
  <2>4. ~Crash /\ ~Restart
    BY <1>1 DEF Crash, Restart
  <2>5. CASE Environment \/ UNCHANGED vars
    BY <2>5 DEF Kept, Environment, memory, vars
  <2> QED
    BY <2>1, <2>2, <2>3, <2>4, <2>5 DEF Next
<1> QED
  BY <1>3 DEF Kept, Left, HandSteps, WorkersAt, StageSteps

LEMMA StageStays ==
  ASSUME Jobwise, [Next]_vars, NEW j \in Jobs, stage[j] # "none", up'
  PROVE  stage'[j] # "none"
<1>1. up /\ job[j].Status # "none" /\ stage \in [Jobs -> Stages]
  BY DEF Jobwise, JobOK, Runs, Typed, Memory
<1>2. ASSUME NEW i \in Jobs, NEW csv \in Files, Upload(i, csv) PROVE stage'[j] # "none"
  BY <1>1, <1>2 DEF Upload
<1>3. ASSUME NEW i \in Jobs, Goroutine(i) PROVE stage'[j] # "none"
  BY <1>1, <1>3 DEF Goroutine, Start, Feed, Close, Complete
<1>4. ASSUME NEW i \in Jobs, NEW w \in Workers, Work(i, w) PROVE stage' = stage
  <2>1. CASE Apply(i, w)
    BY <2>1 DEF Apply
  <2>2. CASE InsertAuditEvent(i, w)
    BY <2>2 DEF InsertAuditEvent
  <2> QED
    BY <1>4, <2>1, <2>2 DEF Work, Receive, Record, Exit
<1>5. ~Crash /\ ~Restart
  BY <1>1 DEF Crash, Restart
<1>6. CASE Environment \/ UNCHANGED vars
  BY <1>6 DEF Environment, memory, vars
<1> QED
  BY <1>2, <1>3, <1>4, <1>5, <1>6 DEF Next

\* A started job is done when, and only when, nothing is left.
DoneIsNone(j) == stage[j] # "none" => (stage[j] = "done" <=> Left(j) = 0)

LEMMA DoneLeft ==
  ASSUME Jobwise, NEW j \in Jobs
  PROVE  DoneIsNone(j)
<1>1. Runs(j) /\ Held(j) /\ stage[j] \in Stages
  BY DEF Jobwise, JobOK, Typed, Memory
<1>2. CASE stage[j] = "done"
  <2>1. fed[j] = Len(file[j]) /\ \A w \in Workers : worker[j][w].At = "exit"
    BY <1>1, <1>2 DEF Runs
  <2>2. taken[j] = fed[j]
    BY <1>1, <2>1, BatchAssumption DEF Held
  <2>3. HandSteps(j) = 0 /\ StageSteps(j) = 0
    BY <1>2, <2>1, HandsCounted DEF StageSteps
  <2> QED
    BY <1>2, <2>1, <2>2, <2>3, MemoryNumbers DEF Left, DoneIsNone
<1>3. CASE stage[j] \in {"start", "feed", "wait"}
  <2>1. StageSteps(j) >= 1
    BY <1>3 DEF StageSteps
  <2>2. Left(j) = Len(file[j]) - fed[j] + 4 * (Len(file[j]) - taken[j]) + HandSteps(j) + StageSteps(j)
    BY DEF Left
  <2>3. \A n, f, t, h, s \in Nat : t <= f /\ f <= n /\ s >= 1 => n - f + 4 * (n - t) + h + s >= 1
    OBVIOUS
  <2>4. Left(j) >= 1
    BY <2>1, <2>2, <2>3, MemoryNumbers
  <2> QED
    BY <1>3, <2>4 DEF DoneIsNone
<1> QED
  BY <1>1, <1>2, <1>3 DEF Stages, DoneIsNone

\* A step leaves the row of a completed or failed job alone.
LEMMA TerminalStays ==
  ASSUME Jobwise, [Next]_vars, NEW j \in Jobs, job[j].Status \in {"completed", "failed"}
  PROVE  job'[j] = job[j]
<1>1. job \in [Jobs -> Rows] /\ Runs(j)
  BY DEF Jobwise, JobOK, Typed
<1>2. stage[j] \in {"none", "done"}
  BY <1>1 DEF Runs, Jobwise, Typed, Memory, Stages
<1>3. ASSUME NEW i \in Jobs, NEW csv \in Files, Upload(i, csv) PROVE job'[j] = job[j]
  <2>1. i # j
    BY <1>3 DEF Upload
  <2> QED
    BY <1>1, <1>3, <2>1 DEF Upload
<1>4. ASSUME NEW i \in Jobs, Start(i) \/ Complete(i) PROVE job'[j] = job[j]
  <2>1. i # j
    BY <1>2, <1>4 DEF Start, Complete
  <2> QED
    BY <1>1, <1>4, <2>1 DEF Start, Complete
<1>5. CASE Restart
  BY <1>1, <1>5, RecoveredRow DEF Restart
<1> QED
  BY <1>3, <1>4, <1>5, JobSteps

\* A terminal status and its counts are final, over restarts too.
THEOREM TerminalRowsFinal == Spec => TerminalIsFinal
<1>1. IInv /\ [Next]_vars =>
        [\A j \in Jobs : job[j].Status \in {"completed", "failed"} => job'[j] = job[j]]_vars
  BY TerminalStays DEF IInv
<1> QED
  BY <1>1, Invariant, PTL DEF Spec, TerminalIsFinal

\* For any file and any pool, a started job takes 5 steps for each of its rows, one for
\* each worker and three of its own, whatever fails on the way, and then it is done.
THEOREM WorkIsBounded == Spec => WorkShrinks
<1> DEFINE Accounted == \A j \in Jobs : DoneIsNone(j)
<1>1. IInv => Accounted
  BY DoneLeft DEF IInv
<1>2. ASSUME IInv, Accounted', [Next]_vars, NEW j \in Jobs, stage[j] # "none", up'
      PROVE  /\ Left(j)' = IF Goroutine(j) \/ \E w \in Workers : Work(j, w) THEN Left(j) - 1 ELSE Left(j)
             /\ stage'[j] = "done" <=> Left(j)' = 0
  <2>1. Left(j)' = IF Goroutine(j) \/ \E w \in Workers : Work(j, w) THEN Left(j) - 1 ELSE Left(j)
    BY <1>2, GoroutineLeft, WorkLeft, OthersLeft DEF IInv
  <2>2. stage'[j] # "none" /\ DoneIsNone(j)'
    BY <1>2, StageStays DEF IInv
  <2> QED
    BY <2>1, <2>2 DEF DoneIsNone
<1>3. IInv /\ Accounted' /\ [Next]_vars =>
        [\A j \in Jobs : stage[j] # "none" /\ up' =>
           /\ Left(j)' = IF Goroutine(j) \/ \E w \in Workers : Work(j, w) THEN Left(j) - 1 ELSE Left(j)
           /\ stage'[j] = "done" <=> Left(j)' = 0]_vars
  BY <1>2
<1> QED
  BY <1>1, <1>3, Invariant, PTL DEF Spec, WorkShrinks
===============================================================================
