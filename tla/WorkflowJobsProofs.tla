------------------------- MODULE WorkflowJobsProofs -------------------------
(***************************************************************************)
(* Proofs about WorkflowJobs, for any number of workers, steps and         *)
(* retries, any kinds of steps and any error routes.                       *)
(*                                                                         *)
(* The ledger (run, executions, jobs, attempts) is written by transactions *)
(* that do not look at the effects, so its invariant, LedgerInv, is proved *)
(* first, one lemma per transaction; each also shows what the transaction  *)
(* leaves alone (LedgerStep).  The invariant of the effects rests on it.   *)
(***************************************************************************)
EXTENDS WorkflowJobs, TLAPS

----------------------------------------------------------------------------
(* The invariant.                                                          *)

RunRow == [state : RunState, terminal : 0 .. MaxSteps, over : BOOLEAN]
JobRow == [status : {"none", "pending", "processing", "completed", "failed"},
           retries : 0 .. MaxRetries,
           owner : Workers \cup {NoWorker}, live : BOOLEAN]
AttemptRow == [status : {"none", "processing", "completed", "failed"},
               worker : Workers \cup {NoWorker},
               safety : {"none", "safe", "unknown"},
               retirement : {"none", "live", "expired", "deadline", "cancel"},
               code : {"none", "ordinary", "barred"}]

Released(row, st, r) ==
    /\ row \in JobRow
    /\ row.status = st /\ row.retries = r
    /\ row.owner = NoWorker /\ row.live = FALSE

RowTypes ==
    /\ run \in RunRow
    /\ exec \in [Steps -> {"absent", "open", "success", "final_error"}]
    /\ job \in [Steps -> JobRow]
    /\ att \in [Steps -> [Attempts -> AttemptRow]]

(* The execution f is the last one activated: those before it are routed   *)
(* and closed, those after it do not exist, and its job is where the state *)
(* of the run says.                                                        *)
Frontier(f) ==
    /\ \A t \in Steps : t < f =>
          /\ exec[t] \in {"success", "final_error"}
          /\ job[t].status \in {"completed", "failed"}
    /\ \A t \in Steps : t > f =>
          exec[t] = "absent" /\ job[t].status = "none" /\ job[t].retries = 0
    /\ exec[f] # "absent"
    /\ run.state \in {"queued", "running"} =>
          /\ exec[f] = "open"
          /\ job[f].status \in {"pending", "processing"}
          /\ job[f].retries < MaxRetries
    /\ run.state = "waiting" => exec[f] = "open" /\ job[f].status = "failed"
    /\ run.state \in is_terminal => job[f].status \in {"completed", "failed"}

ChainHasFrontier == \E f \in Steps : Frontier(f)

(* One row of the ledger, and its job.                                     *)
Matches(s, n) ==
    /\ (att[s][n].status = "processing") <=>
           (job[s].status = "processing" /\ n = job[s].retries + 1)
    /\ att[s][n].status = "processing" => att[s][n].worker = job[s].owner
    /\ (n <= job[s].retries) <=> att[s][n].status = "failed"
    /\ att[s][n].status = "completed" =>
           job[s].status = "completed" /\ n = job[s].retries + 1
    /\ job[s].status # "processing" => job[s].owner = NoWorker /\ ~job[s].live

WorkType ==
    work \in [Workers -> [pc : Phases, step : Steps, att : Attempts, report : Reports]]

LedgerInv == RowTypes /\ LedgerMatchesJob /\ ChainHasFrontier

(* What every step does to the ledger, whoever takes it: an attempt that   *)
(* was opened stays there, for the same worker; what is closed is not      *)
(* written again.                                                          *)
AttemptStep(s, n) ==
    /\ att[s][n].status # "none" =>
          att'[s][n].status # "none" /\ att'[s][n].worker = att[s][n].worker
    /\ att[s][n].status \in {"completed", "failed"} => att'[s][n] = att[s][n]

LedgerStep ==
    /\ \A s \in Steps : \A n \in Attempts : AttemptStep(s, n)
    /\ \A s \in Steps : exec[s] \in {"success", "final_error"} => exec'[s] = exec[s]
    /\ run.state \in {"succeeded", "cancelled"} => run'.state = run.state

EffectTypes ==
    /\ marker \in [Steps -> 0 .. MaxRetries]
    /\ entry \in [Steps -> SUBSET Attempts]
    /\ receipt \in [Steps -> BOOLEAN]
    /\ proofs \in [Steps -> SUBSET [cover : SUBSET Attempts, usedBy : SUBSET Attempts,
                                    valid : BOOLEAN]]
    /\ applied \in [Steps -> BOOLEAN]
    /\ conflict \in [Steps -> BOOLEAN]
    /\ request \in [Steps -> [Attempts -> {"none", "flying", "applied", "lost"}]]
    /\ attest \in [says : {"nothing", "not_applied", "applied", "recovered"}, step : Steps,
                   cover : SUBSET Attempts, entry : Attempts]

(* A request belongs to an attempt that was opened, and its reservation    *)
(* came first: the entry of the attempt, or the marker of a local effect.  *)
Reserved(s, n) ==
    /\ request[s][n] # "none" =>
          /\ att[s][n].status # "none"
          /\ \/ KindOf[s] = "remote" /\ n \in entry[s]
             \/ KindOf[s] = "local" /\ marker[s] = n
    /\ n \in entry[s] => KindOf[s] = "remote" /\ att[s][n].status # "none" /\ marker[s] # 0

RequestsAreReserved == \A s \in Steps : \A n \in Attempts : Reserved(s, n)

(* A result is saved, or claimed to be recovered, of a performed request.  *)
ReceiptsAreReal ==
    /\ \A s \in Steps : receipt[s] => \E n \in Attempts : request[s][n] = "applied"
    /\ attest.says = "recovered" => request[attest.step][attest.entry] = "applied"

(* Without a replay contract every entry but the first used up a proof     *)
(* that covers the ones before it.                                         *)
ResendsAreCovered ==
    ~Replayable =>
        \A s \in Steps : \A a, b \in entry[s] :
            a < b => \E p \in proofs[s] : a \in p.cover /\ p.usedBy = {b}

(* Where a worker stands says what its attempt has done so far.            *)
BeforeCall == {"claiming", "working", "reserving", "reserved", "entered"}
Called == {"reserved", "entered", "sent", "answered", "receipted"}
Sound(w) ==
    LET s == work[w].step
        n == work[w].att
    IN /\ work[w].pc \notin {"idle", "claiming"} =>
             att[s][n].worker = w /\ att[s][n].status # "none"
       /\ work[w].pc \in BeforeCall /\ att[s][n].worker = w => request[s][n] = "none"
       /\ work[w].pc \in Called => n \in entry[s]
       /\ work[w].pc = "reserving" => KindOf[s] = "remote"
       /\ work[w].pc = "answered" => request[s][n] = "applied"
       /\ work[w].pc = "receipted" => receipt[s]
       /\ work[w].pc \in {"output", "ready"} /\ KindOf[s] \in {"remote", "local"} => receipt[s]

WorkersAreSound == \A w \in Workers : Sound(w)

EvidenceInv ==
    /\ EffectTypes /\ WorkType
    /\ RequestsAreReserved
    /\ ReceiptsAreReal
    /\ ResendsAreCovered
    /\ WorkersAreSound

EffectsInv == EvidenceInv /\ SuccessHasEffect

JobsInv == LedgerInv /\ EffectsInv

----------------------------------------------------------------------------
(* The ledger.                                                             *)

(* The constants are what the assumption says, and the first step and the  *)
(* first attempt exist.                                                    *)
LEMMA ConstantFacts ==
    /\ MaxSteps \in Nat /\ MaxRetries \in Nat
    /\ 1 \in Steps /\ 1 \in Attempts
    /\ Steps \subseteq Nat /\ Attempts \subseteq Nat
    /\ NoWorker \notin Workers
BY JobsAssumption DEF Steps, Attempts

(* The rows a job starts and ends as.                                      *)
LEMMA JobRows ==
    /\ NoJob \in JobRow /\ NewJob \in JobRow
    /\ NoJob.status = "none" /\ NoJob.retries = 0 /\ NoJob.owner = NoWorker /\ ~NoJob.live
    /\ NewJob.status = "pending" /\ NewJob.retries = 0
    /\ NewJob.owner = NoWorker /\ ~NewJob.live
<1>1. NoJob \in JobRow
  BY JobsAssumption DEF NoJob, JobRow
<1>2. QED
  BY <1>1 DEF NewJob, NoJob, JobRow

(* A job that is given back or closed keeps nothing of its claim.          *)
LEMMA ReleasedRow ==
    ASSUME NEW r \in 0 .. MaxRetries, NEW st \in {"pending", "completed", "failed"}
    PROVE  Released([NoJob EXCEPT !.status = st, !.retries = r], st, r)
BY JobRows DEF NoJob, JobRow, Released

(* A new run has its first step open and nothing in the ledger.            *)
LEMMA InitLedger == Init => LedgerInv
<1>1. SUFFICES ASSUME Init PROVE LedgerInv
  OBVIOUS
<1>2. RowTypes
  <2>1. run \in RunRow
    BY <1>1, ConstantFacts DEF Init, RunRow, RunState
  <2>3. NoAttempt \in AttemptRow
    BY DEF AttemptRow, NoAttempt
  <2>4. QED
    BY <1>1, <2>1, <2>3, JobRows DEF Init, RowTypes
<1>3. LedgerMatchesJob
  BY <1>1, ConstantFacts DEF Init, LedgerMatchesJob, NewJob, NoJob, NoAttempt, Steps, Attempts
<1>4. Frontier(1)
  <2>1. exec[1] = "open" /\ job[1].status = "pending" /\ job[1].retries = 0
    BY <1>1, ConstantFacts DEF Init, NewJob, NoJob
  <2>2. \A t \in Steps : t > 1 =>
          exec[t] = "absent" /\ job[t].status = "none" /\ job[t].retries = 0
    BY <1>1, JobRows DEF Init, Steps
  <2>3. QED
    BY <1>1, <2>1, <2>2, JobsAssumption DEF Init, Frontier, Steps, is_terminal
<1>5. QED
  BY <1>2, <1>3, <1>4, ConstantFacts DEF LedgerInv, ChainHasFrontier

(* The execution of an active scope is the frontier: only it is open.      *)
LEMMA ScopeIsFrontier ==
    ASSUME LedgerInv, NEW s \in Steps, exec[s] = "open"
    PROVE  Frontier(s)
<1>1. PICK f \in Steps : Frontier(f)
  BY DEF LedgerInv, ChainHasFrontier
<1>2. ~(s < f) /\ ~(s > f)
  BY <1>1 DEF Frontier
<1>3. s = f
  BY <1>2, ConstantFacts
<1>4. QED
  BY <1>1, <1>3

(* A run past its deadline, a cancelled one: retire_jobs closes the open   *)
(* attempts and jobs of every step and nothing else.                       *)
LEMMA RetireJobsLedger ==
    ASSUME LedgerInv, NEW cause \in {"deadline", "cancel"}, retire_jobs(cause),
           UNCHANGED exec, run.state \notin is_terminal,
           run' \in RunRow, run'.state \in {"failed", "cancelled"}
    PROVE  LedgerInv' /\ LedgerStep
<1>1. PICK f \in Steps : Frontier(f)
  BY DEF LedgerInv, ChainHasFrontier
<1>2. \A s \in Steps : job[s].status = "processing" => job[s].retries < MaxRetries
  <2>1. run.state \in {"queued", "running", "waiting"}
    BY DEF LedgerInv, RowTypes, RunRow, RunState, is_terminal
  <2>2. \A s \in Steps : s < f \/ s = f \/ s > f
    BY DEF Steps
  <2>3. QED
    BY <1>1, <2>1, <2>2 DEF Frontier
<1>3. ASSUME NEW s \in Steps
      PROVE  /\ job'[s] \in JobRow
             /\ job[s].status \notin {"pending", "processing"} => job'[s] = job[s]
             /\ job[s].status \in {"pending", "processing"} =>
                  /\ job'[s].status = "failed"
                  /\ job'[s].owner = NoWorker /\ ~job'[s].live
             /\ job[s].status = "processing" => job'[s].retries = job[s].retries + 1
             /\ job[s].status # "processing" => job'[s].retries = job[s].retries
  <2>1. job[s] \in JobRow
    BY DEF LedgerInv, RowTypes
  <2>2. CASE job[s].status = "processing"
    <3>1. job'[s] = [NoJob EXCEPT !.status = "failed", !.retries = job[s].retries + 1]
      BY <2>2 DEF retire_jobs
    <3>2. job[s].retries + 1 \in 0 .. MaxRetries
      BY <1>2, <2>1, <2>2, JobsAssumption DEF JobRow
    <3>3. Released(job'[s], "failed", job[s].retries + 1)
      BY <3>1, <3>2, ReleasedRow
    <3>4. QED
      BY <2>2, <3>3 DEF Released
  <2>3. CASE job[s].status = "pending"
    <3>1. job'[s] = [NoJob EXCEPT !.status = "failed", !.retries = job[s].retries]
      BY <2>3 DEF retire_jobs
    <3>2. job[s].retries \in 0 .. MaxRetries
      BY <2>1 DEF JobRow
    <3>3. Released(job'[s], "failed", job[s].retries)
      BY <3>1, <3>2, ReleasedRow
    <3>4. QED
      BY <2>3, <3>3 DEF Released
  <2>4. CASE job[s].status \notin {"pending", "processing"}
    BY <2>1, <2>4 DEF retire_jobs
  <2>5. QED
    BY <2>2, <2>3, <2>4
<1>4. RowTypes'
  <2>1. ASSUME NEW s \in Steps, NEW n \in Attempts PROVE att'[s][n] \in AttemptRow
    <3>1. att[s][n] \in AttemptRow
      BY DEF LedgerInv, RowTypes
    <3>2. QED
      BY <3>1 DEF AttemptRow, retire_jobs
  <2>2. QED
    BY <1>3, <2>1 DEF LedgerInv, RowTypes, retire_jobs
<1>5. LedgerMatchesJob' /\ Frontier(f)'
  <2>1. LedgerMatchesJob'
    <3>1. SUFFICES ASSUME NEW s \in Steps, NEW n \in Attempts
          PROVE Matches(s, n)'
      BY DEF LedgerMatchesJob, Matches
    <3>2. att[s][n] \in AttemptRow /\ job[s] \in JobRow
      BY DEF LedgerInv, RowTypes
    <3>3. CASE job[s].status = "processing" /\ n = job[s].retries + 1
      <4>1. att'[s][n].status = "failed"
        BY <3>2, <3>3 DEF retire_jobs, AttemptRow
      <4>2. QED
        BY <1>3, <3>2, <3>3, <4>1 DEF JobRow, Attempts, Matches
    <3>4. CASE ~(job[s].status = "processing" /\ n = job[s].retries + 1)
      <4>1. att'[s][n] = att[s][n]
        BY <3>4 DEF retire_jobs
      <4>2. QED
        BY <1>3, <3>2, <3>4, <4>1 DEF LedgerInv, LedgerMatchesJob, JobRow, Attempts, Matches
    <3>5. QED
      BY <3>3, <3>4
  <2>2. \A s \in Steps : job[s].status = "none" => job'[s] = job[s]
    BY <1>3
  <2>3. job'[f].status \in {"completed", "failed"}
    BY <1>1, <1>3 DEF Frontier, LedgerInv, RowTypes, RunRow, RunState, is_terminal
  <2>4. run'.state \in is_terminal /\ run'.state \notin {"queued", "running", "waiting"}
    BY DEF LedgerInv, RowTypes, RunRow, is_terminal
  <2>5. QED
    BY <1>1, <1>3, <2>1, <2>2, <2>3, <2>4 DEF Frontier
<1>6. LedgerStep
  <2>1. ASSUME NEW s \in Steps, NEW n \in Attempts
        PROVE  AttemptStep(s, n)
    <3>1. att[s][n] \in AttemptRow
      BY DEF LedgerInv, RowTypes
    <3>2. QED
      BY <3>1 DEF AttemptRow, AttemptStep, LedgerInv, LedgerMatchesJob, retire_jobs
  <2>2. QED
    BY <2>1 DEF LedgerStep, is_terminal
<1>7. QED
  BY <1>4, <1>5, <1>6 DEF LedgerInv, ChainHasFrontier

(* A transaction that writes one open execution, its job, and perhaps the  *)
(* next execution with a new job, leaves the chain with one frontier.      *)
LEMMA Advance ==
    ASSUME LedgerInv, RowTypes', NEW s \in Steps, exec[s] = "open",
           run.state \notin {"succeeded", "cancelled"},
           NEW to \in {"stop", "step"}, to = "step" => s < MaxSteps,
           \A t \in Steps : t # s =>
               IF to = "step" /\ t = s + 1
               THEN job'[t] = NewJob /\ exec'[t] = "open"
               ELSE job'[t] = job[t] /\ exec'[t] = exec[t],
           \A t \in Steps : t # s => att'[t] = att[t],
           \A n \in Attempts : Matches(s, n)' /\ AttemptStep(s, n),
           exec'[s] # "absent",
           to = "step" =>
               /\ run'.state = "running"
               /\ exec'[s] # "open" /\ job'[s].status \in {"completed", "failed"},
           to = "stop" =>
               \/ /\ run'.state = "running" /\ exec'[s] = "open"
                  /\ job'[s].status \in {"pending", "processing"}
                  /\ job'[s].retries < MaxRetries
               \/ run'.state = "waiting" /\ exec'[s] = "open" /\ job'[s].status = "failed"
               \/ /\ run'.state \in {"failed", "succeeded"}
                  /\ job'[s].status \in {"completed", "failed"}
    PROVE  LedgerInv' /\ LedgerStep
<1>1. Frontier(s)
  BY ScopeIsFrontier
<1>2. LedgerMatchesJob'
  <2>1. SUFFICES ASSUME NEW t \in Steps, NEW n \in Attempts PROVE Matches(t, n)'
    BY DEF LedgerMatchesJob, Matches
  <2>2. Matches(t, n)
    BY DEF LedgerInv, LedgerMatchesJob, Matches
  <2>3. CASE t = s
    BY <2>3
  <2>4. CASE t # s /\ to = "step" /\ t = s + 1
    <3>1. job[t].status = "none" /\ job[t].retries = 0
      BY <1>1, <2>4 DEF Frontier, Steps
    <3>2. att[t][n].status \notin {"processing", "failed", "completed"}
      BY <2>2, <3>1, JobRows DEF Matches, Attempts
    <3>3. job'[t] = NewJob /\ att'[t] = att[t]
      BY <2>4
    <3>4. QED
      BY <3>2, <3>3, JobRows DEF Matches, Attempts
  <2>5. CASE t # s /\ ~(to = "step" /\ t = s + 1)
    <3>1. job'[t] = job[t] /\ att'[t] = att[t]
      BY <2>5
    <3>2. QED
      BY <2>2, <3>1 DEF Matches
  <2>6. QED
    BY <2>3, <2>4, <2>5
<1>3. ChainHasFrontier'
  <2>1. CASE to = "stop"
    <3>1. \A t \in Steps : t # s => job'[t] = job[t] /\ exec'[t] = exec[t]
      BY <2>1
    <3>2. Frontier(s)'
      BY <1>1, <2>1, <3>1 DEF Frontier, Steps, is_terminal
    <3>3. QED
      BY <3>2 DEF ChainHasFrontier
  <2>2. CASE to = "step"
    <3>1. s + 1 \in Steps
      BY <2>2, JobsAssumption DEF Steps
    <3>2. exec'[s] \in {"success", "final_error"}
      BY <2>2 DEF RowTypes
    <3>3. job'[s + 1].status = "pending" /\ job'[s + 1].retries < MaxRetries
      BY <2>2, <3>1, JobRows, JobsAssumption DEF Steps
    <3>4. exec'[s + 1] = "open" /\ run'.state = "running"
      BY <2>2, <3>1 DEF Steps
    <3>5. \A t \in Steps : t < s \/ t > s + 1 => job'[t] = job[t] /\ exec'[t] = exec[t]
      BY DEF Steps
    <3>6. Frontier(s + 1)'
      BY <1>1, <2>2, <3>1, <3>2, <3>3, <3>4, <3>5 DEF Frontier, Steps, is_terminal
    <3>7. QED
      BY <3>1, <3>6 DEF ChainHasFrontier
  <2>3. QED
    BY <2>1, <2>2
<1>4. LedgerStep
  <2>1. ASSUME NEW t \in Steps, NEW n \in Attempts PROVE AttemptStep(t, n)
    BY DEF AttemptStep
  <2>2. ASSUME NEW t \in Steps, exec[t] \in {"success", "final_error"} PROVE exec'[t] = exec[t]
    BY <1>1, <2>2 DEF Frontier, Steps
  <2>3. QED
    BY <2>1, <2>2 DEF LedgerStep
<1>5. QED
  BY <1>2, <1>3, <1>4 DEF LedgerInv

(* Closing the current attempt of a processing job, as failed and charged  *)
(* or as completed, keeps the ledger and the job together.                 *)
LEMMA CloseAttempt ==
    ASSUME LedgerInv, RowTypes', NEW s \in Steps, job[s].status = "processing",
           job[s].retries + 1 \in Attempts,
           \A n \in Attempts : n # job[s].retries + 1 => att'[s][n] = att[s][n],
           att'[s][job[s].retries + 1].worker = att[s][job[s].retries + 1].worker,
           \/ /\ att'[s][job[s].retries + 1].status = "failed"
              /\ \E st \in {"pending", "failed"} : Released(job'[s], st, job[s].retries + 1)
           \/ /\ att'[s][job[s].retries + 1].status = "completed"
              /\ Released(job'[s], "completed", job[s].retries)
    PROVE  \A n \in Attempts : Matches(s, n)' /\ AttemptStep(s, n)
<1>1. SUFFICES ASSUME NEW n \in Attempts PROVE Matches(s, n)' /\ AttemptStep(s, n)
  OBVIOUS
<1>2. Matches(s, n) /\ job[s] \in JobRow /\ job[s].retries \in Nat
  BY DEF LedgerInv, LedgerMatchesJob, Matches, RowTypes, JobRow
<1>3. CASE n = job[s].retries + 1
  BY <1>2, <1>3 DEF Matches, AttemptStep, Released, Attempts
<1>4. CASE n # job[s].retries + 1
  BY <1>2, <1>4 DEF Matches, AttemptStep, Released, Attempts
<1>5. QED
  BY <1>3, <1>4

(* A processing job of an active run still has the attempt it is on.       *)
LEMMA CurrentAttempt ==
    ASSUME LedgerInv, NEW s \in Steps, lock_scope(s)
    PROVE  /\ run.state \notin {"succeeded", "cancelled"}
           /\ job[s] \in JobRow /\ job[s].retries \in Nat
           /\ job[s].retries + 1 \in Attempts /\ job[s].retries + 1 \in 0 .. MaxRetries
<1>1. Frontier(s)
  BY ScopeIsFrontier DEF lock_scope
<1>2. job[s] \in JobRow /\ job[s].retries < MaxRetries
  BY <1>1 DEF Frontier, lock_scope, LedgerInv, RowTypes
<1>3. QED
  BY <1>2, JobsAssumption DEF JobRow, Attempts, lock_scope

(* Retiring the attempt of an active scope: a retry, a wait for            *)
(* reconciliation, the error route or the end of the run.                  *)
LEMMA RetireLedger ==
    ASSUME LedgerInv, NEW s \in Steps, lock_scope(s), job[s].status = "processing",
           NEW reported \in Reports, NEW retirement \in {"live", "expired"},
           retire_on(s, reported, retirement)
    PROVE  LedgerInv' /\ LedgerStep
<1> DEFINE n == job[s].retries + 1
           report == IF marker[s] = 0 THEN reported
                     ELSE [reported EXCEPT !.safety =
                           IF workflow_action_retry_safe(s) THEN "safe" ELSE "unknown"]
<1>1. PICK decision \in decide(s, report) :
        LET routed == decision = "FinalError" /\ route_failure(s)
            onward == routed /\ OnError[s] = "step"
            state == settled_state(s, decision)
        IN /\ att' = [att EXCEPT ![s][n] =
                        [@ EXCEPT !.status = "failed", !.safety = report.safety,
                                  !.retirement = retirement, !.code = report.code]]
           /\ job' = [t \in Steps |->
                        IF t = s THEN [NoJob EXCEPT
                                !.status = IF decision = "RetryAt" THEN "pending" ELSE "failed",
                                !.retries = n]
                        ELSE IF onward /\ t = s + 1 THEN NewJob ELSE job[t]]
           /\ exec' = [t \in Steps |->
                        IF t = s /\ routed THEN "final_error"
                        ELSE IF onward /\ t = s + 1 THEN "open" ELSE exec[t]]
           /\ run' = [run EXCEPT !.state = state,
                                 !.terminal = IF state = "failed" THEN s ELSE 0]
           /\ attest' = NoAttest
  BY DEF retire_on
<1> DEFINE to == IF decision = "FinalError" /\ OnError[s] = "step" /\ s < MaxSteps
                 THEN "step" ELSE "stop"
<1>2. report.safety \in {"safe", "unknown"} /\ report.code \in {"ordinary", "barred"}
  BY DEF Reports
<1> HIDE DEF report
<1>3. n \in Attempts /\ n \in 0 .. MaxRetries /\ run.state \notin {"succeeded", "cancelled"}
      /\ exec[s] = "open" /\ job[s].retries \in Nat
  BY CurrentAttempt DEF lock_scope
<1>4. /\ decision \in {"Reconcile", "FinalError", "RetryAt", "FailRun"}
      /\ decision = "RetryAt" => n # MaxRetries
  BY DEF decide
<1>5. Released(job'[s], IF decision = "RetryAt" THEN "pending" ELSE "failed", n)
  <2>1. job'[s] = [NoJob EXCEPT !.status = IF decision = "RetryAt" THEN "pending" ELSE "failed",
                                !.retries = n]
    BY <1>1
  <2>2. CASE decision = "RetryAt"
    BY <1>3, <2>1, <2>2, ReleasedRow
  <2>3. CASE decision # "RetryAt"
    BY <1>3, <2>1, <2>3, ReleasedRow
  <2>4. QED
    BY <2>2, <2>3
<1>6. RowTypes'
  <2>1. run' \in RunRow
    <3>1. settled_state(s, decision) \in RunState
      BY <1>4 DEF settled_state, RunState
    <3>2. s \in 0 .. MaxSteps /\ 0 \in 0 .. MaxSteps
      BY JobsAssumption DEF Steps
    <3>3. QED
      BY <1>1, <3>1, <3>2 DEF LedgerInv, RowTypes, RunRow
  <2>2. job' \in [Steps -> JobRow]
    <3>1. ASSUME NEW t \in Steps PROVE job'[t] \in JobRow
      BY <1>1, <1>5, JobRows DEF LedgerInv, RowTypes, Released
    <3>2. QED
      BY <1>1, <3>1
  <2>3. att' \in [Steps -> [Attempts -> AttemptRow]]
    <3>1. att[s][n] \in AttemptRow
      BY <1>3 DEF LedgerInv, RowTypes
    <3>2. [att[s][n] EXCEPT !.status = "failed", !.safety = report.safety,
                            !.retirement = retirement, !.code = report.code] \in AttemptRow
      BY <1>2, <3>1 DEF AttemptRow
    <3>3. QED
      BY <1>1, <1>3, <3>2 DEF LedgerInv, RowTypes
  <2>4. exec' \in [Steps -> {"absent", "open", "success", "final_error"}]
    BY <1>1 DEF LedgerInv, RowTypes
  <2>5. QED
    BY <2>1, <2>2, <2>3, <2>4 DEF RowTypes
<1>7. \A k \in Attempts : Matches(s, k)' /\ AttemptStep(s, k)
  <2>1. /\ \A k \in Attempts : k # n => att'[s][k] = att[s][k]
        /\ att'[s][n].worker = att[s][n].worker /\ att'[s][n].status = "failed"
    <3>1. att[s][n] \in AttemptRow
      BY <1>3 DEF LedgerInv, RowTypes
    <3>2. QED
      BY <1>1, <1>3, <3>1 DEF LedgerInv, RowTypes, AttemptRow
  <2>2. QED
    BY <1>3, <1>5, <1>6, <2>1, CloseAttempt
<1>8. \A t \in Steps : t # s => att'[t] = att[t]
  BY <1>1 DEF LedgerInv, RowTypes
<1>9. /\ to = "step" => s < MaxSteps
      /\ \A t \in Steps : t # s =>
               IF to = "step" /\ t = s + 1
               THEN job'[t] = NewJob /\ exec'[t] = "open"
               ELSE job'[t] = job[t] /\ exec'[t] = exec[t]
  BY <1>1 DEF route_failure
<1>10. /\ exec'[s] \in {"open", "final_error"}
       /\ exec'[s] = "final_error" <=> decision = "FinalError" /\ route_failure(s)
  BY <1>1, <1>3
<1>11. run'.state = settled_state(s, decision)
  BY <1>1 DEF LedgerInv, RowTypes, RunRow
<1>12. CASE to = "step"
  <2>1. run'.state = "running" /\ exec'[s] = "final_error" /\ job'[s].status = "failed"
    BY <1>5, <1>10, <1>11, <1>12 DEF settled_state, route_failure, Released
  <2>2. QED
    BY <1>3, <1>6, <1>7, <1>8, <1>9, <1>12, <2>1, Advance
<1>13. CASE to = "stop"
  <2>1. \/ /\ run'.state = "running" /\ exec'[s] = "open"
           /\ job'[s].status = "pending" /\ job'[s].retries < MaxRetries
        \/ run'.state = "waiting" /\ exec'[s] = "open" /\ job'[s].status = "failed"
        \/ run'.state = "failed" /\ job'[s].status = "failed"
    BY <1>3, <1>4, <1>5, <1>10, <1>11, <1>13, JobsAssumption DEF settled_state, Released
  <2>2. QED
    BY <1>3, <1>6, <1>7, <1>8, <1>9, <1>10, <1>13, <2>1, Advance
<1>14. QED
  BY <1>12, <1>13

(* Claiming a pending job opens its next attempt, which no one has used.   *)
LEMMA InstallLedger ==
    ASSUME LedgerInv, NEW s \in Steps, lock_scope(s), job[s].status = "pending",
           NEW w \in Workers, install(w, s)
    PROVE  /\ LedgerInv' /\ LedgerStep
           /\ att[s][job[s].retries + 1].status = "none"
           /\ att'[s][job[s].retries + 1].status = "processing"
           /\ att'[s][job[s].retries + 1].worker = w
<1> DEFINE n == job[s].retries + 1
<1>1. n \in Attempts /\ run.state \notin {"succeeded", "cancelled"} /\ exec[s] = "open"
      /\ job[s] \in JobRow /\ job[s].retries \in Nat
  BY CurrentAttempt DEF lock_scope
<1>2. /\ job'[s] \in JobRow
      /\ job'[s].status = "processing" /\ job'[s].owner = w /\ job'[s].retries = job[s].retries
  <2>1. job'[s] = [job[s] EXCEPT !.status = "processing", !.owner = w, !.live = TRUE]
    BY DEF install, LedgerInv, RowTypes
  <2>2. QED
    BY <1>1, <2>1 DEF JobRow
<1>3. /\ att'[s][n] \in AttemptRow
      /\ att'[s][n].status = "processing" /\ att'[s][n].worker = w
  <2>1. att'[s][n] = [NoAttempt EXCEPT !.status = "processing", !.worker = w]
    BY <1>1 DEF install, LedgerInv, RowTypes
  <2>2. NoAttempt \in AttemptRow
    BY DEF NoAttempt, AttemptRow
  <2>3. QED
    BY <2>1, <2>2 DEF AttemptRow
<1>4. /\ \A k \in Attempts : k # n => att'[s][k] = att[s][k]
      /\ \A t \in Steps : t # s => att'[t] = att[t] /\ job'[t] = job[t]
  BY <1>1 DEF install, LedgerInv, RowTypes
<1>5. RowTypes'
  <2>1. run' \in RunRow
    BY DEF install, LedgerInv, RowTypes, RunRow, RunState
  <2>2. job' \in [Steps -> JobRow]
    BY <1>2 DEF install, LedgerInv, RowTypes
  <2>3. att' \in [Steps -> [Attempts -> AttemptRow]]
    BY <1>1, <1>3 DEF install, LedgerInv, RowTypes
  <2>4. QED
    BY <2>1, <2>2, <2>3 DEF install, LedgerInv, RowTypes
<1>6. ASSUME NEW k \in Attempts
      PROVE  Matches(s, k) /\ Matches(s, k)' /\ AttemptStep(s, k)
  <2>1. Matches(s, k) /\ att[s][k] \in AttemptRow
    BY DEF LedgerInv, LedgerMatchesJob, Matches, RowTypes
  <2>2. CASE k = n
    BY <1>1, <1>2, <1>3, <2>1, <2>2 DEF Matches, AttemptStep, AttemptRow
  <2>3. CASE k # n
    BY <1>1, <1>2, <1>4, <2>1, <2>3 DEF Matches, AttemptStep, AttemptRow, Attempts
  <2>4. QED
    BY <2>1, <2>2, <2>3
<1>7. att[s][n].status = "none"
  <2>1. att[s][n] \in AttemptRow
    BY <1>1 DEF LedgerInv, RowTypes
  <2>2. QED
    BY <1>1, <1>6, <2>1 DEF Matches, AttemptRow
<1>8. run'.state = "running" /\ exec'[s] = "open" /\ job'[s].retries < MaxRetries
  BY <1>1, <1>2, JobsAssumption DEF install, LedgerInv, RowTypes, RunRow, Attempts
<1>9. \A t \in Steps : exec'[t] = exec[t]
  BY DEF install
<1>10. LedgerInv' /\ LedgerStep
  <2> DEFINE to == "stop"
  <2>1. QED
    BY <1>1, <1>2, <1>4, <1>5, <1>6, <1>8, <1>9, Advance
<1>11. QED
  BY <1>3, <1>7, <1>10

(* A pending job closed without an attempt.                                *)
LEMMA SettlePendingLedger ==
    ASSUME LedgerInv, NEW s \in Steps, lock_scope(s), job[s].status = "pending",
           NEW activated \in BOOLEAN, settle_pending(s, activated)
    PROVE  LedgerInv' /\ LedgerStep
<1> DEFINE to == IF activated /\ OnError[s] = "step" /\ s < MaxSteps THEN "step" ELSE "stop"
<1>1. run.state \notin {"succeeded", "cancelled"} /\ exec[s] = "open" /\ job[s] \in JobRow
  BY CurrentAttempt DEF lock_scope
<1>2. job'[s] = [job[s] EXCEPT !.status = "failed"]
  BY DEF settle_pending
<1>3. /\ job'[s] \in JobRow /\ job'[s].status = "failed"
      /\ job'[s].retries = job[s].retries /\ job'[s].owner = job[s].owner
      /\ job'[s].live = job[s].live
  BY <1>1, <1>2 DEF JobRow
<1>4. RowTypes'
  <2>1. run' \in RunRow
    <3>1. run' = [run EXCEPT !.state = IF to = "step" THEN "running" ELSE "failed",
                             !.terminal = IF to = "step" THEN 0 ELSE s]
      BY DEF settle_pending, route_failure
    <3>2. s \in 0 .. MaxSteps /\ 0 \in 0 .. MaxSteps /\ run \in RunRow
      BY JobsAssumption DEF Steps, LedgerInv, RowTypes
    <3>3. CASE to = "step"
      BY <3>1, <3>2, <3>3 DEF RunRow, RunState
    <3>4. CASE to # "step"
      BY <3>1, <3>2, <3>4 DEF RunRow, RunState
    <3>5. QED
      BY <3>3, <3>4
  <2>2. ASSUME NEW t \in Steps PROVE job'[t] \in JobRow
    BY <1>3, JobRows DEF settle_pending, LedgerInv, RowTypes
  <2>3. QED
    BY <2>1, <2>2 DEF settle_pending, LedgerInv, RowTypes
<1>5. \A n \in Attempts : Matches(s, n)' /\ AttemptStep(s, n)
  <2>1. ASSUME NEW n \in Attempts PROVE Matches(s, n)' /\ AttemptStep(s, n)
    <3>1. Matches(s, n) /\ att' = att
      BY DEF LedgerInv, LedgerMatchesJob, Matches, settle_pending
    <3>2. QED
      BY <1>3, <3>1 DEF Matches, AttemptStep
  <2>2. QED
    BY <2>1
<1>6. /\ to = "step" => s < MaxSteps
      /\ \A t \in Steps : t # s =>
               IF to = "step" /\ t = s + 1
               THEN job'[t] = NewJob /\ exec'[t] = "open"
               ELSE job'[t] = job[t] /\ exec'[t] = exec[t]
  BY DEF settle_pending, route_failure
<1>7. exec'[s] # "absent" /\ (to = "step" => exec'[s] # "open")
  BY <1>1 DEF settle_pending, route_failure
<1>8. run'.state = IF to = "step" THEN "running" ELSE "failed"
  BY DEF settle_pending, route_failure, LedgerInv, RowTypes, RunRow
<1>9. \A t \in Steps : t # s => att'[t] = att[t]
  BY DEF settle_pending
<1>10. to \in {"stop", "step"}
  OBVIOUS
<1> HIDE DEF to
<1>11. QED
  BY <1>1, <1>3, <1>4, <1>5, <1>6, <1>7, <1>8, <1>9, <1>10, Advance

(* Committing a route: the run ends, or its next execution opens.          *)
LEMMA CompleteLedger ==
    ASSUME LedgerInv, NEW s \in Steps, lock_scope(s),
           NEW target \in {"end", "step"}, target = "step" => s < MaxSteps,
           complete(s, target),
           \/ job[s].status = "pending" /\ UNCHANGED att
           \/ job[s].status = "processing" /\ finish_fenced(s)
    PROVE  LedgerInv' /\ LedgerStep
<1> DEFINE n == job[s].retries + 1
           to == IF target = "step" THEN "step" ELSE "stop"
<1>1. /\ run.state \notin {"succeeded", "cancelled"} /\ exec[s] = "open"
      /\ job[s] \in JobRow /\ job[s].retries \in Nat /\ n \in Attempts
  BY CurrentAttempt DEF lock_scope
<1>2. Released(job'[s], "completed", job[s].retries)
  <2>1. job'[s] = [NoJob EXCEPT !.status = "completed", !.retries = job[s].retries]
    BY DEF complete
  <2>2. job[s].retries \in 0 .. MaxRetries
    BY <1>1 DEF JobRow
  <2>3. QED
    BY <2>1, <2>2, ReleasedRow
<1>3. RowTypes'
  <2>1. run' \in RunRow
    <3>1. run' = [run EXCEPT !.state = IF target = "step" THEN "running" ELSE "succeeded",
                             !.terminal = IF target = "step" THEN 0 ELSE s]
      BY DEF complete
    <3>2. s \in 0 .. MaxSteps /\ 0 \in 0 .. MaxSteps /\ run \in RunRow
      BY JobsAssumption DEF Steps, LedgerInv, RowTypes
    <3>3. CASE target = "step"
      BY <3>1, <3>2, <3>3 DEF RunRow, RunState
    <3>4. CASE target # "step"
      BY <3>1, <3>2, <3>4 DEF RunRow, RunState
    <3>5. QED
      BY <3>3, <3>4
  <2>2. ASSUME NEW t \in Steps PROVE job'[t] \in JobRow
    BY <1>2, JobRows DEF complete, LedgerInv, RowTypes, Released
  <2>3. att' \in [Steps -> [Attempts -> AttemptRow]]
    <3>1. CASE UNCHANGED att
      BY <3>1 DEF LedgerInv, RowTypes
    <3>2. CASE finish_fenced(s)
      <4>1. att[s][n] \in AttemptRow
        BY <1>1 DEF LedgerInv, RowTypes
      <4>2. [att[s][n] EXCEPT !.status = "completed"] \in AttemptRow
        BY <4>1 DEF AttemptRow
      <4>3. QED
        BY <1>1, <3>2, <4>2 DEF finish_fenced, LedgerInv, RowTypes
    <3>3. QED
      BY <3>1, <3>2
  <2>4. QED
    BY <2>1, <2>2, <2>3 DEF complete, LedgerInv, RowTypes
<1>4. \A k \in Attempts : Matches(s, k)' /\ AttemptStep(s, k)
  <2>1. CASE job[s].status = "pending" /\ UNCHANGED att
    <3>1. ASSUME NEW k \in Attempts PROVE Matches(s, k)' /\ AttemptStep(s, k)
      <4>1. Matches(s, k)
        BY DEF LedgerInv, LedgerMatchesJob, Matches
      <4>2. QED
        BY <1>2, <2>1, <4>1 DEF Matches, AttemptStep, Released
    <3>2. QED
      BY <3>1
  <2>2. CASE job[s].status = "processing" /\ finish_fenced(s)
    <3>1. att[s][n] \in AttemptRow
      BY <1>1 DEF LedgerInv, RowTypes
    <3>2. /\ \A k \in Attempts : k # n => att'[s][k] = att[s][k]
          /\ att'[s][n].worker = att[s][n].worker /\ att'[s][n].status = "completed"
      BY <1>1, <2>2, <3>1 DEF finish_fenced, LedgerInv, RowTypes, AttemptRow
    <3>3. QED
      BY <1>1, <1>2, <1>3, <2>2, <3>2, CloseAttempt
  <2>3. QED
    BY <2>1, <2>2
<1>5. /\ to \in {"stop", "step"}
      /\ to = "step" => s < MaxSteps
      /\ \A t \in Steps : t # s =>
               IF to = "step" /\ t = s + 1
               THEN job'[t] = NewJob /\ exec'[t] = "open"
               ELSE job'[t] = job[t] /\ exec'[t] = exec[t]
  BY DEF complete
<1>6. exec'[s] = "success" /\ job'[s].status = "completed"
  BY <1>2 DEF complete, Released
<1>7. run'.state = IF to = "step" THEN "running" ELSE "succeeded"
  BY DEF complete, LedgerInv, RowTypes, RunRow
<1>8. \A t \in Steps : t # s => att'[t] = att[t]
  BY DEF finish_fenced, LedgerInv, RowTypes
<1> HIDE DEF to
<1>9. QED
  BY <1>1, <1>3, <1>4, <1>5, <1>6, <1>7, <1>8, Advance

(* An operator, or evidence, puts a failed job back with its attempts.     *)
LEMMA ReopenLedger ==
    ASSUME LedgerInv, NEW s \in Steps, run.state \in {"failed", "waiting"},
           reopenable(s), reopen(s)
    PROVE  LedgerInv' /\ LedgerStep
<1>1. /\ exec[s] = "open" /\ job[s] \in JobRow /\ job[s].status = "failed"
      /\ job[s].retries < MaxRetries
  BY DEF reopenable, LedgerInv, RowTypes
<1>2. /\ job'[s] \in JobRow /\ job'[s].status = "pending"
      /\ job'[s].retries = job[s].retries /\ job'[s].owner = job[s].owner
      /\ job'[s].live = job[s].live
      /\ \A t \in Steps : t # s => job'[t] = job[t]
  BY <1>1 DEF reopen, LedgerInv, RowTypes, JobRow
<1>3. RowTypes'
  <2>1. run' \in RunRow
    <3>1. run' = [run EXCEPT !.state = "running", !.terminal = 0]
      BY DEF reopen
    <3>2. run \in RunRow /\ 0 \in 0 .. MaxSteps
      BY JobsAssumption DEF LedgerInv, RowTypes
    <3>3. QED
      BY <3>1, <3>2 DEF RunRow, RunState
  <2>2. job' \in [Steps -> JobRow]
    BY <1>2 DEF reopen, LedgerInv, RowTypes
  <2>3. QED
    BY <2>1, <2>2 DEF reopen, LedgerInv, RowTypes
<1>4. ASSUME NEW n \in Attempts PROVE Matches(s, n)' /\ AttemptStep(s, n)
  <2>1. Matches(s, n) /\ att' = att
    BY DEF LedgerInv, LedgerMatchesJob, Matches, reopen
  <2>2. QED
    BY <1>1, <1>2, <2>1 DEF Matches, AttemptStep
<1>5. run'.state = "running" /\ exec' = exec /\ att' = att
  BY DEF reopen, LedgerInv, RowTypes, RunRow
<1> DEFINE to == "stop"
<1>6. QED
  BY <1>1, <1>2, <1>3, <1>4, <1>5, Advance

(* A lease that lapses, one or all of them, changes nothing else.          *)
LEMMA LapseLedger ==
    ASSUME LedgerInv, UNCHANGED <<exec, att>>,
           run' \in RunRow, run'.state = run.state,
           job' = [s \in Steps |-> job'[s]],
           \A s \in Steps : job'[s] = job[s] \/ job'[s] = [job[s] EXCEPT !.live = FALSE]
    PROVE  LedgerInv' /\ LedgerStep
<1>1. ASSUME NEW s \in Steps
      PROVE  /\ job'[s] \in JobRow
             /\ job'[s].status = job[s].status /\ job'[s].retries = job[s].retries
             /\ job'[s].owner = job[s].owner
             /\ job'[s] = job[s] \/ ~job'[s].live
  <2>1. job[s] \in JobRow
    BY DEF LedgerInv, RowTypes
  <2>2. QED
    BY <2>1 DEF JobRow
<1>2. RowTypes'
  BY <1>1 DEF LedgerInv, RowTypes
<1>3. LedgerMatchesJob'
  <2>1. ASSUME NEW s \in Steps, NEW n \in Attempts PROVE Matches(s, n)'
    <3>1. Matches(s, n)
      BY DEF LedgerInv, LedgerMatchesJob, Matches
    <3>2. QED
      BY <1>1, <3>1 DEF Matches
  <2>2. QED
    BY <2>1 DEF LedgerMatchesJob, Matches
<1>4. ChainHasFrontier'
  <2>1. PICK f \in Steps : Frontier(f)
    BY DEF LedgerInv, ChainHasFrontier
  <2>2. \A t \in Steps :
          /\ exec'[t] = exec[t]
          /\ job'[t].status = job[t].status /\ job'[t].retries = job[t].retries
    BY <1>1
  <2>3. Frontier(f)'
    BY <2>1, <2>2 DEF Frontier
  <2>4. QED
    BY <2>3 DEF ChainHasFrontier
<1>5. LedgerStep
  BY DEF LedgerStep, AttemptStep
<1>6. QED
  BY <1>2, <1>3, <1>4, <1>5 DEF LedgerInv

(* A contradiction closes a pending job and parks its run; the attempts    *)
(* and the routes stay.                                                    *)
LEMMA ParkLedger ==
    ASSUME LedgerInv, NEW s \in Steps, conflict_park_pending(s), UNCHANGED <<exec, att>>
    PROVE  LedgerInv' /\ LedgerStep
<1> DEFINE parked == exec[s] = "open" /\ job[s].status = "pending"
<1>1. job \in [Steps -> JobRow] /\ run \in RunRow /\ exec' = exec /\ att' = att
  BY DEF LedgerInv, RowTypes
<1>2. /\ job' \in [Steps -> JobRow]
      /\ \A t \in Steps :
           /\ job'[t].status = IF t = s /\ parked THEN "failed" ELSE job[t].status
           /\ job'[t].retries = job[t].retries
           /\ job'[t].owner = job[t].owner /\ job'[t].live = job[t].live
  <2>1. job[s] \in JobRow
    BY <1>1
  <2>2. CASE parked
    <3>1. job' = [job EXCEPT ![s] = [job[s] EXCEPT !.status = "failed"]]
      BY <2>2 DEF conflict_park_pending
    <3>2. QED
      BY <1>1, <2>1, <2>2, <3>1 DEF JobRow
  <2>3. CASE ~parked
    <3>1. job' = [job EXCEPT ![s] = [job[s] EXCEPT !.status = job[s].status]]
      BY <2>3 DEF conflict_park_pending
    <3>2. QED
      BY <1>1, <2>1, <2>3, <3>1 DEF JobRow
  <2>4. QED
    BY <2>2, <2>3
<1>3. /\ run' \in RunRow
      /\ run'.state = IF /\ exec[s] = "open" /\ run.state \in {"queued", "running"}
                         /\ job[s].status # "processing"
                      THEN "waiting" ELSE run.state
  BY <1>1 DEF conflict_park_pending, RunRow, RunState
<1>4. RowTypes'
  BY <1>1, <1>2, <1>3 DEF LedgerInv, RowTypes
<1>5. LedgerMatchesJob'
  <2>1. ASSUME NEW t \in Steps, NEW n \in Attempts PROVE Matches(t, n)'
    <3>1. Matches(t, n)
      BY DEF LedgerInv, LedgerMatchesJob, Matches
    <3>2. QED
      BY <1>1, <1>2, <3>1 DEF Matches
  <2>2. QED
    BY <2>1 DEF LedgerMatchesJob, Matches
<1>6. ChainHasFrontier'
  <2>1. CASE exec[s] = "open"
    <3>1. Frontier(s)
      BY <2>1, ScopeIsFrontier
    <3>2. Frontier(s)'
      BY <1>1, <1>2, <1>3, <2>1, <3>1 DEF Frontier, is_terminal
    <3>3. QED
      BY <3>2 DEF ChainHasFrontier
  <2>2. CASE exec[s] # "open"
    <3>1. PICK f \in Steps : Frontier(f)
      BY DEF LedgerInv, ChainHasFrontier
    <3>2. run'.state = run.state /\ \A t \in Steps :
            job'[t].status = job[t].status /\ job'[t].retries = job[t].retries
      BY <1>2, <1>3, <2>2
    <3>3. Frontier(f)'
      BY <1>1, <3>1, <3>2 DEF Frontier
    <3>4. QED
      BY <3>3 DEF ChainHasFrontier
  <2>3. QED
    BY <2>1, <2>2
<1>7. LedgerStep
  BY <1>1, <1>3 DEF LedgerStep, AttemptStep
<1>8. QED
  BY <1>4, <1>5, <1>6, <1>7 DEF LedgerInv

(* A transaction that does not touch the ledger.                           *)
LEMMA LedgerUntouched ==
    ASSUME LedgerInv, UNCHANGED ledger
    PROVE  LedgerInv' /\ LedgerStep
<1>1. run' = run /\ exec' = exec /\ job' = job /\ att' = att
  BY DEF ledger
<1>2. LedgerInv'
  BY <1>1 DEF LedgerInv, RowTypes, LedgerMatchesJob, ChainHasFrontier, Frontier
<1>3. LedgerStep
  BY <1>1 DEF LedgerStep, AttemptStep
<1>4. QED
  BY <1>2, <1>3

(* A worker's position names a step and an attempt, and its report is one  *)
(* a handler can give.                                                     *)
LEMMA WorkRow ==
    ASSUME WorkType, NEW w \in Workers
    PROVE  work[w].step \in Steps /\ work[w].att \in Attempts /\ work[w].report \in Reports
BY DEF WorkType

(* What the engine reports of an attempt it interrupts.                    *)
LEMMA InterruptedReport ==
    ASSUME NEW s, NEW class \in {"retryable", "terminal"}, NEW code \in {"ordinary", "barred"}
    PROVE  interrupted(s, class, code) \in Reports
BY DEF interrupted, Reports

(* The worker's own steps.                                                 *)
LEMMA WorkerLedger ==
    ASSUME LedgerInv, WorkType, NEW w \in Workers, Worker(w)
    PROVE  LedgerInv' /\ LedgerStep
<1>1. work[w].step \in Steps /\ work[w].att \in Attempts /\ work[w].report \in Reports
  BY WorkRow
<1>2. ASSUME NEW s \in Steps, claim_io(w, s) PROVE LedgerInv' /\ LedgerStep
  <2>1. CASE install(w, s)
    BY <1>2, <2>1, InstallLedger DEF claim_io
  <2>2. CASE UNCHANGED <<ledger, attest>>
    BY <2>2, LedgerUntouched
  <2>3. QED
    BY <1>2, <2>1, <2>2 DEF claim_io
<1>3. CASE release_once(w)
  <2>1. CASE UNCHANGED <<ledger, attest>>
    BY <2>1, LedgerUntouched
  <2>2. CASE live_window(w) /\ retire_on(work[w].step, work[w].report, "live")
    BY <1>1, <2>2, RetireLedger DEF live_window
  <2>3. QED
    BY <1>3, <2>1, <2>2 DEF release_once
<1>4. CASE complete_io(w)
  <2> DEFINE s == work[w].step
  <2>1. CASE UNCHANGED <<ledger, attest>>
    BY <2>1, LedgerUntouched
  <2>2. ASSUME live_window(w), NEW reported \in Reports, retire_on(s, reported, "live")
        PROVE  LedgerInv' /\ LedgerStep
    BY <1>1, <2>2, RetireLedger DEF live_window
  <2>3. ASSUME live_window(w), complete(s, "end"), finish_fenced(s)
        PROVE  LedgerInv' /\ LedgerStep
    BY <1>1, <2>3, CompleteLedger DEF live_window
  <2>4. ASSUME live_window(w), s < MaxSteps, complete(s, "step"), finish_fenced(s)
        PROVE  LedgerInv' /\ LedgerStep
    BY <1>1, <2>4, CompleteLedger DEF live_window
  <2>5. /\ [class |-> "terminal", safety |-> "unknown", code |-> "ordinary"] \in Reports
        /\ interrupted(s, "terminal", "barred") \in Reports
    BY InterruptedReport DEF Reports
  <2>6. QED
    BY <1>4, <2>1, <2>2, <2>3, <2>4, <2>5 DEF complete_io
<1>5. CASE \/ claimed_on(w) \/ execute(w) \/ reserve_remote(w) \/ resolve_reservation(w)
           \/ enter_remote(w) \/ invoke(w) \/ answer(w)
           \/ return_authorized(w) \/ local(w) \/ stop(w) \/ validate_io(w)
           \/ released_on(w) \/ crash(w)
  <2>1. UNCHANGED ledger
    BY <1>5 DEF claimed_on, execute, reserve_remote, resolve_reservation, enter_remote, invoke,
                answer, return_authorized, local, stop, validate_io,
                released_on, crash
  <2>2. QED
    BY <2>1, LedgerUntouched
<1>6. CASE commit_remote(w)
  <2>1. UNCHANGED <<exec, att>>
    BY <1>6 DEF commit_remote
  <2>2. CASE conflict_park_pending(work[w].step)
    BY <1>1, <2>1, <2>2, ParkLedger
  <2>3. CASE UNCHANGED <<run, job>>
    BY <2>1, <2>3, LedgerUntouched DEF ledger
  <2>4. QED
    BY <1>6, <2>2, <2>3 DEF commit_remote
<1>7. QED
  BY <1>2, <1>3, <1>4, <1>5, <1>6 DEF Worker

(* The engine's, the sweeps' and the operator's steps.                     *)
LEMMA EngineLedger ==
    ASSUME LedgerInv, attest.step \in Steps,
           \/ \E s \in Steps : \/ activate(s) \/ advance_pure(s) \/ lapse(s)
                               \/ recover_expired(s)
           \/ deadline \/ expire_on \/ cancel_run_on \/ retry_on \/ settle
    PROVE  LedgerInv' /\ LedgerStep
<1>1. ASSUME NEW s \in Steps, activate(s) PROVE LedgerInv' /\ LedgerStep
  BY <1>1, SettlePendingLedger DEF activate
<1>2. ASSUME NEW s \in Steps, advance_pure(s) PROVE LedgerInv' /\ LedgerStep
  <2>1. CASE complete(s, "end") /\ UNCHANGED att
    BY <1>2, <2>1, CompleteLedger DEF advance_pure
  <2>2. CASE s < MaxSteps /\ complete(s, "step") /\ UNCHANGED att
    BY <1>2, <2>2, CompleteLedger DEF advance_pure
  <2>3. CASE \E activated \in BOOLEAN : settle_pending(s, activated)
    BY <1>2, <2>3, SettlePendingLedger DEF advance_pure
  <2>4. QED
    BY <1>2, <2>1, <2>2, <2>3 DEF advance_pure
<1>3. ASSUME NEW s \in Steps, lapse(s) PROVE LedgerInv' /\ LedgerStep
  <2>1. job \in [Steps -> JobRow] /\ run \in RunRow
    BY DEF LedgerInv, RowTypes
  <2>2. /\ job' = [t \in Steps |-> job'[t]]
        /\ \A t \in Steps : job'[t] = job[t] \/ job'[t] = [job[t] EXCEPT !.live = FALSE]
    BY <1>3, <2>1 DEF lapse
  <2>3. run' = run /\ UNCHANGED <<exec, att>>
    BY <1>3 DEF lapse
  <2>4. QED
    BY <2>1, <2>2, <2>3, LapseLedger
<1>4. ASSUME NEW s \in Steps, recover_expired(s) PROVE LedgerInv' /\ LedgerStep
  <2>1. interrupted(s, "retryable", "ordinary") \in Reports
    BY InterruptedReport
  <2>2. QED
    BY <1>4, <2>1, RetireLedger DEF recover_expired
<1>5. CASE deadline
  <2>1. job \in [Steps -> JobRow] /\ run \in RunRow
    BY DEF LedgerInv, RowTypes
  <2>2. /\ job' = [t \in Steps |-> job'[t]]
        /\ \A t \in Steps : job'[t] = job[t] \/ job'[t] = [job[t] EXCEPT !.live = FALSE]
    BY <1>5, <2>1 DEF deadline
  <2>3. run' \in RunRow /\ run'.state = run.state /\ UNCHANGED <<exec, att>>
    BY <1>5, <2>1 DEF deadline, RunRow
  <2>4. QED
    BY <2>1, <2>2, <2>3, LapseLedger
<1>6. CASE expire_on
  <2>1. PICK s \in Steps : run' = [run EXCEPT !.state = "failed", !.terminal = s]
    BY <1>6 DEF expire_on
  <2>2. /\ run.state \notin is_terminal
        /\ run' \in RunRow /\ run'.state = "failed"
    <3>1. run \in RunRow /\ s \in 0 .. MaxSteps
      BY DEF Steps, LedgerInv, RowTypes
    <3>2. run' \in RunRow /\ run'.state = "failed"
      BY <2>1, <3>1 DEF RunRow, RunState
    <3>3. QED
      BY <1>6, <3>2 DEF expire_on, is_terminal
  <2>3. QED
    BY <1>6, <2>1, <2>2, RetireJobsLedger DEF expire_on
<1>7. CASE cancel_run_on
  <2>1. run' \in RunRow /\ run'.state = "cancelled"
    BY <1>7 DEF cancel_run_on, LedgerInv, RowTypes, RunRow, RunState
  <2>2. QED
    BY <1>7, <2>1, RetireJobsLedger DEF cancel_run_on
<1>8. CASE retry_on
  BY <1>8, ReopenLedger DEF retry_on
<1>9. CASE settle
  <2>1. CASE UNCHANGED <<run, job>>
    BY <1>9, <2>1, LedgerUntouched DEF settle, ledger
  <2>2. CASE /\ run.state = "waiting" /\ reopenable(attest.step) /\ reopen(attest.step)
    BY <2>2, ReopenLedger
  <2>3. CASE conflict_park_pending(attest.step)
    BY <1>9, <2>3, ParkLedger DEF settle
  <2>4. QED
    BY <1>9, <2>1, <2>2, <2>3 DEF settle
<1>10. QED
  BY <1>1, <1>2, <1>3, <1>4, <1>5, <1>6, <1>7, <1>8, <1>9

----------------------------------------------------------------------------
(* The effects.                                                            *)

(* The type invariant is that of the ledger, of the effects and of the     *)
(* workers.                                                                *)
LEMMA TypeParts == TypeOK <=> RowTypes /\ EffectTypes /\ WorkType
BY DEF TypeOK, RowTypes, EffectTypes, WorkType, RunRow, JobRow, AttemptRow

(* The positions a worker can move to, of the same attempt.                *)
LEMMA StepFacts ==
    ASSUME WorkType, NEW w \in Workers, NEW pc \in Phases, Step(w, pc)
    PROVE  /\ WorkType'
           /\ work'[w].pc = pc /\ work'[w].step = work[w].step /\ work'[w].att = work[w].att
           /\ \A v \in Workers : v # w => work'[v] = work[v]
BY DEF WorkType, Step

(* A worker that gives its attempt up.                                     *)
LEMMA FailFacts ==
    ASSUME WorkType, NEW w \in Workers, NEW report \in Reports, Fail(w, report)
    PROVE  /\ WorkType'
           /\ work'[w].pc = "releasing"
           /\ work'[w].step = work[w].step /\ work'[w].att = work[w].att
           /\ \A v \in Workers : v # w => work'[v] = work[v]
<1>1. "releasing" \in Phases
  BY DEF Phases
<1>2. QED
  BY <1>1 DEF WorkType, Fail

(* A worker that forgets its attempt.                                      *)
LEMMA DoneFacts ==
    ASSUME WorkType, NEW w \in Workers, Done(w)
    PROVE  WorkType' /\ work'[w].pc = "idle" /\ \A v \in Workers : v # w => work'[v] = work[v]
<1>1. Idle \in [pc : Phases, step : Steps, att : Attempts, report : Reports] /\ Idle.pc = "idle"
  BY ConstantFacts DEF Idle, Phases, Reports
<1>2. QED
  BY <1>1 DEF WorkType, Done

(* What an action report says.                                             *)
LEMMA ActionFailure ==
    ASSUME NEW w \in Workers, WorkType, action_step_failure(w)
    PROVE  /\ WorkType'
           /\ work'[w].pc = "releasing"
           /\ work'[w].step = work[w].step /\ work'[w].att = work[w].att
           /\ \A v \in Workers : v # w => work'[v] = work[v]
<1>1. [class |-> "retryable", safety |-> "safe", code |-> "ordinary"] \in Reports
  BY DEF Reports
<1>2. QED
  BY <1>1, FailFacts DEF action_step_failure

(* Types of a fresh database, and the invariant in it.                     *)
LEMMA InitEffects == Init => EffectsInv
<1>1. SUFFICES ASSUME Init PROVE EffectsInv
  OBVIOUS
<1>2. EffectTypes
  BY <1>1, ConstantFacts DEF Init, EffectTypes, NoAttest
<1>3. WorkType
  BY <1>1, ConstantFacts DEF Init, WorkType, Idle, Phases, Reports
<1>4. RequestsAreReserved
  BY <1>1 DEF Init, RequestsAreReserved, Reserved
<1>5. ReceiptsAreReal
  BY <1>1 DEF Init, ReceiptsAreReal, NoAttest
<1>6. ResendsAreCovered
  BY <1>1 DEF Init, ResendsAreCovered
<1>7. WorkersAreSound
  BY <1>1 DEF Init, WorkersAreSound, Sound, Idle, BeforeCall, Called
<1>8. SuccessHasEffect
  BY <1>1 DEF Init, SuccessHasEffect
<1>9. QED
  BY <1>2, <1>3, <1>4, <1>5, <1>6, <1>7, <1>8 DEF EffectsInv, EvidenceInv

(* A step that writes no evidence and sends no request.                    *)
LEMMA QuietEffects ==
    ASSUME JobsInv, LedgerStep, UNCHANGED <<effects, request>>, attest' \in {attest, NoAttest}
    PROVE  EffectTypes' /\ RequestsAreReserved' /\ ReceiptsAreReal' /\ ResendsAreCovered'
<1>1. /\ marker' = marker /\ entry' = entry /\ receipt' = receipt /\ proofs' = proofs
      /\ applied' = applied /\ conflict' = conflict /\ request' = request
  BY DEF effects
<1>2. EffectTypes'
  <2>1. attest' \in [says : {"nothing", "not_applied", "applied", "recovered"}, step : Steps,
                     cover : SUBSET Attempts, entry : Attempts]
    BY ConstantFacts DEF JobsInv, EffectsInv, EvidenceInv, EffectTypes, NoAttest
  <2>2. QED
    BY <1>1, <2>1 DEF JobsInv, EffectsInv, EvidenceInv, EffectTypes
<1>3. RequestsAreReserved'
  BY <1>1 DEF JobsInv, EffectsInv, EvidenceInv, RequestsAreReserved, Reserved, LedgerStep, AttemptStep
<1>4. ReceiptsAreReal'
  BY <1>1 DEF JobsInv, EffectsInv, EvidenceInv, ReceiptsAreReal, NoAttest
<1>5. ResendsAreCovered'
  BY <1>1 DEF JobsInv, EffectsInv, EvidenceInv, ResendsAreCovered
<1>6. QED
  BY <1>2, <1>3, <1>4, <1>5

(* A worker that does not move stays sound: reservations and receipts are  *)
(* kept, and only the worker that owns an attempt sends its request.       *)
LEMMA SoundKept ==
    ASSUME JobsInv, LedgerStep, NEW v \in Workers, work'[v] = work[v],
           \A s \in Steps : entry[s] \subseteq entry'[s] /\ (receipt[s] => receipt'[s]),
           \A s \in Steps : \A n \in Attempts :
               \/ request[s][n] \in {"none", "applied"} => request'[s][n] = request[s][n]
               \/ att[s][n].worker # v /\ att[s][n].status # "none"
    PROVE  Sound(v)'
<1> DEFINE s == work[v].step
           n == work[v].att
<1>1. s \in Steps /\ n \in Attempts
  BY WorkRow DEF JobsInv, EffectsInv, EvidenceInv
<1>2. Sound(v) /\ Reserved(s, n) /\ AttemptStep(s, n)
  BY <1>1 DEF JobsInv, EffectsInv, EvidenceInv, WorkersAreSound, RequestsAreReserved, LedgerStep
<1>3. work'[v].step = s /\ work'[v].att = n /\ work'[v].pc = work[v].pc
  OBVIOUS
<1>4. entry[s] \subseteq entry'[s] /\ (receipt[s] => receipt'[s])
  BY <1>1
<1>5. \/ request[s][n] \in {"none", "applied"} => request'[s][n] = request[s][n]
      \/ att[s][n].worker # v /\ att[s][n].status # "none"
  BY <1>1
<1>6. QED
  BY <1>2, <1>3, <1>4, <1>5 DEF Sound, Reserved, AttemptStep, BeforeCall, Called

(* A step of a worker that writes no evidence: the others stay sound.      *)
LEMMA QuietWorker ==
    ASSUME JobsInv, LedgerStep, UNCHANGED <<effects, request>>, NEW w \in Workers,
           \A v \in Workers : v # w => work'[v] = work[v], Sound(w)'
    PROVE  WorkersAreSound'
<1>1. entry' = entry /\ receipt' = receipt /\ request' = request
  BY DEF effects
<1>2. ASSUME NEW v \in Workers, v # w PROVE Sound(v)'
  <2>1. work'[v] = work[v]
    BY <1>2
  <2>2. QED
    BY <1>1, <2>1, SoundKept
<1>3. QED
  BY <1>2 DEF WorkersAreSound

(* A worker that leaves its attempt, or only holds on to it, is sound.     *)
LEMMA SoundLeaving ==
    ASSUME JobsInv, LedgerStep, NEW w \in Workers,
           \/ work'[w].pc = "idle"
           \/ /\ work[w].pc \notin {"idle", "claiming"}
              /\ work'[w].step = work[w].step /\ work'[w].att = work[w].att
              /\ work'[w].pc \in {"releasing", "releasing_again", "resolving_release", "sent"}
              /\ work'[w].pc = "sent" => work[w].att \in entry'[work[w].step]
    PROVE  Sound(w)'
<1>1. CASE work'[w].pc = "idle"
  BY <1>1 DEF Sound, BeforeCall, Called
<1>2. CASE /\ work[w].pc \notin {"idle", "claiming"}
           /\ work'[w].step = work[w].step /\ work'[w].att = work[w].att
           /\ work'[w].pc \in {"releasing", "releasing_again", "resolving_release", "sent"}
           /\ work'[w].pc = "sent" => work[w].att \in entry'[work[w].step]
  <2>1. work[w].step \in Steps /\ work[w].att \in Attempts
    BY WorkRow DEF JobsInv, EffectsInv, EvidenceInv
  <2>2. Sound(w) /\ AttemptStep(work[w].step, work[w].att)
    BY <2>1 DEF JobsInv, EffectsInv, EvidenceInv, WorkersAreSound, LedgerStep
  <2>3. QED
    BY <1>2, <2>2 DEF Sound, AttemptStep, BeforeCall, Called
<1>3. QED
  BY <1>1, <1>2

(* Success is committed by the engine for a pure step, or by a worker that *)
(* stands before its completion.                                           *)
SuccessStep ==
    \A s \in Steps : exec'[s] = "success" =>
        \/ exec[s] = "success" \/ KindOf[s] = "pure"
        \/ \E w \in Workers : work[w].pc = "ready" /\ work[w].step = s

(* Such a step keeps every success backed by an effect.                    *)
LEMMA SuccessKept ==
    ASSUME JobsInv, SuccessStep, ReceiptsAreReal', \A s \in Steps : receipt[s] => receipt'[s]
    PROVE  SuccessHasEffect'
<1>1. SUFFICES ASSUME NEW s \in Steps, KindOf[s] \in {"remote", "local"}, exec'[s] = "success"
      PROVE  receipt'[s]
  BY DEF SuccessHasEffect, ReceiptsAreReal
<1>2. CASE exec[s] = "success"
  BY <1>1, <1>2 DEF JobsInv, EffectsInv, EvidenceInv, SuccessHasEffect
<1>3. ASSUME NEW w \in Workers, work[w].pc = "ready", work[w].step = s PROVE receipt'[s]
  BY <1>1, <1>3 DEF JobsInv, EffectsInv, EvidenceInv, WorkersAreSound, Sound
<1>4. QED
  BY <1>1, <1>2, <1>3 DEF SuccessStep

(* The worker's steps that read the evidence and write none.               *)
LEMMA ReadingSteps ==
    ASSUME JobsInv, LedgerStep, NEW w \in Workers,
           \/ (\E s \in Steps : claim_io(w, s)) \/ claimed_on(w) \/ execute(w)
           \/ resolve_reservation(w) \/ enter_remote(w) \/ answer(w)
           \/ return_authorized(w) \/ stop(w) \/ validate_io(w)
           \/ release_once(w) \/ released_on(w) \/ complete_io(w) \/ crash(w)
    PROVE  EvidenceInv' /\ UNCHANGED receipt
<1> DEFINE s == work[w].step
           n == work[w].att
           Others == \A v \in Workers : v # w => work'[v] = work[v]
<1>1. /\ s \in Steps /\ n \in Attempts /\ WorkType
      /\ Sound(w) /\ AttemptStep(s, n) /\ Reserved(s, n)
  BY WorkRow DEF JobsInv, EffectsInv, EvidenceInv, WorkersAreSound, LedgerStep,
                 RequestsAreReserved
<1>2. UNCHANGED <<effects, request>> /\ attest' \in {attest, NoAttest}
  BY DEF claim_io, install, claimed_on, execute, resolve_reservation, enter_remote, answer,
         return_authorized, stop, validate_io, release_once, retire_on, released_on,
         complete_io, complete, crash
<1>3. entry' = entry /\ receipt' = receipt /\ request' = request
  BY <1>2 DEF effects
<1>4. Phases \cap {"working", "output", "ready", "reserved", "entered", "answered",
                   "resolving_release", "releasing_again"} =
      {"working", "output", "ready", "reserved", "entered", "answered",
       "resolving_release", "releasing_again"}
  BY DEF Phases, InHandler
<1>5. SUFFICES WorkType' /\ Others /\ Sound(w)'
  BY <1>2, <1>3, QuietEffects, QuietWorker DEF EvidenceInv
<1>6. ASSUME Done(w) PROVE WorkType' /\ Others /\ Sound(w)'
  BY <1>1, <1>6, DoneFacts, SoundLeaving
<1>7. ASSUME NEW report \in Reports, Fail(w, report), work[w].pc \notin {"idle", "claiming"}
      PROVE  WorkType' /\ Others /\ Sound(w)'
  BY <1>1, <1>7, FailFacts, SoundLeaving
<1>8. ASSUME action_step_failure(w), work[w].pc \notin {"idle", "claiming"}
      PROVE  WorkType' /\ Others /\ Sound(w)'
  BY <1>1, <1>8, ActionFailure, SoundLeaving
<1>9. ASSUME NEW t \in Steps, claim_io(w, t) PROVE WorkType' /\ Others /\ Sound(w)'
  <2> DEFINE k == job[t].retries + 1
  <2>1. k \in Attempts /\ job[t].status = "pending" /\ job[t].retries \in Nat
    BY <1>9, CurrentAttempt DEF claim_io, JobsInv
  <2>2. /\ WorkType' /\ Others /\ work'[w].step = t /\ work'[w].att = k
        /\ work'[w].pc \in {"working", "claiming"}
    <3>1. PICK pc \in {"working", "claiming"} :
            work' = [work EXCEPT ![w] = [Idle EXCEPT !.pc = pc, !.step = t, !.att = k]]
      BY <1>9 DEF claim_io
    <3>2. [Idle EXCEPT !.pc = pc, !.step = t, !.att = k] \in
              [pc : Phases, step : Steps, att : Attempts, report : Reports]
      BY <2>1, ConstantFacts DEF Idle, Phases, Reports, InHandler
    <3>3. work'[w] = [Idle EXCEPT !.pc = pc, !.step = t, !.att = k]
      BY <1>1, <3>1 DEF WorkType
    <3>4. work'[w].pc = pc /\ work'[w].step = t /\ work'[w].att = k
      BY <3>3 DEF Idle
    <3>5. QED
      BY <1>1, <3>1, <3>2, <3>4 DEF WorkType
  <2>3. att[t][k].status = "none" /\ request[t][k] = "none"
    <3>1. Matches(t, k) /\ att[t][k] \in AttemptRow
      BY <2>1 DEF JobsInv, LedgerInv, LedgerMatchesJob, Matches, RowTypes
    <3>2. att[t][k].status = "none"
      BY <2>1, <3>1 DEF Matches, AttemptRow
    <3>3. QED
      BY <2>1, <3>2 DEF JobsInv, EffectsInv, EvidenceInv, RequestsAreReserved, Reserved
  <2>4. work'[w].pc = "working" =>
          att'[t][k].worker = w /\ att'[t][k].status = "processing"
    <3>1. CASE install(w, t)
      BY <1>9, <3>1, InstallLedger DEF claim_io, JobsInv
    <3>2. CASE work'[w].pc = "claiming"
      BY <3>2
    <3>3. QED
      BY <1>9, <3>1, <3>2 DEF claim_io
  <2>5. QED
    BY <1>3, <2>2, <2>3, <2>4 DEF Sound, BeforeCall, Called
<1>10. ASSUME live_window(w), Step(w, "working"), work[w].pc = "claiming"
       PROVE  WorkType' /\ Others /\ Sound(w)'
  <2>1. /\ WorkType' /\ Others /\ work'[w].pc = "working"
        /\ work'[w].step = s /\ work'[w].att = n
    BY <1>1, <1>4, <1>10, StepFacts
  <2>2. att[s][n].worker = w /\ att[s][n].status = "processing"
    BY <1>10 DEF live_window
  <2>3. QED
    BY <1>1, <1>3, <1>10, <2>1, <2>2 DEF Sound, AttemptStep, BeforeCall, Called
<1>11. ASSUME NEW pc \in {"output", "ready", "reserved", "entered", "answered",
                           "resolving_release", "releasing_again"},
              Step(w, pc), work[w].pc \notin {"idle", "claiming"},
              pc \in {"output", "ready"} /\ KindOf[s] \in {"remote", "local"} => receipt[s],
              pc \in {"reserved", "entered"} => n \in entry[s] /\ request[s][n] = "none",
              pc = "answered" => n \in entry[s] /\ request[s][n] = "applied"
       PROVE  WorkType' /\ Others /\ Sound(w)'
  <2>1. /\ WorkType' /\ Others /\ work'[w].pc = pc
        /\ work'[w].step = s /\ work'[w].att = n
    BY <1>1, <1>4, <1>11, StepFacts
  <2>2. QED
    BY <1>1, <1>3, <1>11, <2>1 DEF Sound, AttemptStep, BeforeCall, Called
<1>12. CASE claimed_on(w)
  BY <1>6, <1>10, <1>12 DEF claimed_on
<1>13. CASE execute(w)
  BY <1>7, <1>11, <1>13 DEF execute
<1>14. CASE resolve_reservation(w)
  BY <1>1, <1>8, <1>11, <1>14 DEF resolve_reservation, Sound, BeforeCall
<1>15. CASE enter_remote(w)
  BY <1>1, <1>8, <1>11, <1>15 DEF enter_remote, Sound, BeforeCall, Called
<1>16. CASE answer(w)
  BY <1>1, <1>8, <1>11, <1>16 DEF answer, Sound, Called
<1>17. CASE return_authorized(w)
  BY <1>1, <1>8, <1>11, <1>17 DEF return_authorized, Sound
<1>18. CASE stop(w)
  <2>1. interrupted(s, "retryable", "ordinary") \in Reports
    BY InterruptedReport
  <2>2. work[w].pc \notin {"idle", "claiming"}
    BY <1>18 DEF stop, InHandler
  <2>3. QED
    BY <1>7, <1>18, <2>1, <2>2 DEF stop
<1>19. CASE validate_io(w)
  BY <1>1, <1>11, <1>19 DEF validate_io, Sound
<1>20. CASE release_once(w)
  <2>1. CASE Done(w)
    BY <1>6, <2>1
  <2>2. CASE Step(w, "resolving_release")
    BY <1>11, <1>20, <2>2 DEF release_once
  <2>3. QED
    BY <1>20, <2>1, <2>2 DEF release_once
<1>21. CASE released_on(w)
  BY <1>6, <1>11, <1>21 DEF released_on
<1>22. CASE complete_io(w) \/ crash(w)
  BY <1>6, <1>22 DEF complete_io, crash
<1>23. QED
  BY <1>9, <1>12, <1>13, <1>14, <1>15, <1>16, <1>17, <1>18, <1>19, <1>20, <1>21, <1>22

(* The fence of a worker names the current attempt of its step; no later   *)
(* one has been opened.                                                    *)
LEMMA FenceIsLatest ==
    ASSUME JobsInv, NEW w \in Workers, live_window(w),
           NEW b \in Attempts, att[work[w].step][b].status # "none"
    PROVE  b <= work[w].att
<1> DEFINE s == work[w].step
<1>1. s \in Steps
  BY WorkRow DEF JobsInv, EffectsInv, EvidenceInv
<1>2. /\ job[s] \in JobRow /\ job[s].retries + 1 = work[w].att
      /\ att[s][b] \in AttemptRow /\ Matches(s, b)
  BY <1>1 DEF JobsInv, LedgerInv, LedgerMatchesJob, Matches, RowTypes, live_window
<1>3. QED
  BY <1>2 DEF JobRow, AttemptRow, Matches, Attempts

(* Reserving a request: the marker, the entry, the proof that is used up.  *)
LEMMA ReserveEvidence ==
    ASSUME JobsInv, NEW w \in Workers, live_window(w), KindOf[work[w].step] = "remote",
           marker_on(work[w].step, work[w].att), work[w].att \notin entry[work[w].step],
           UNCHANGED <<ledger, request, attest>>, reserve(work[w].step, work[w].att)
    PROVE  /\ EffectTypes' /\ RequestsAreReserved' /\ ReceiptsAreReal' /\ ResendsAreCovered'
           /\ work[w].att \in entry'[work[w].step]
           /\ \A t \in Steps : entry[t] \subseteq entry'[t]
           /\ receipt' = receipt
<1> DEFINE s == work[w].step
           n == work[w].att
           Proof == [cover : SUBSET Attempts, usedBy : SUBSET Attempts, valid : BOOLEAN]
<1>1. s \in Steps /\ n \in Attempts /\ n # 0 /\ EffectTypes /\ att' = att /\ request' = request
      /\ attest' = attest
  BY WorkRow DEF JobsInv, EffectsInv, EvidenceInv, ledger, Attempts
<1>2. /\ receipt' = receipt /\ applied' = applied /\ conflict' = conflict
      /\ entry' = [entry EXCEPT ![s] = @ \cup {n}]
      /\ marker' = [marker EXCEPT ![s] = IF @ = 0 THEN n ELSE @]
  BY DEF reserve
<1>3. /\ entry'[s] = entry[s] \cup {n}
      /\ marker'[s] = IF marker[s] = 0 THEN n ELSE marker[s]
      /\ \A t \in Steps : t # s => entry'[t] = entry[t] /\ marker'[t] = marker[t]
  BY <1>1, <1>2 DEF EffectTypes
<1>4. \/ not_applied_available(s, 0) = {} /\ proofs' = proofs
      \/ \E p \in not_applied_available(s, 0) :
           proofs' = [proofs EXCEPT ![s] = (@ \ {p}) \cup {[p EXCEPT !.usedBy = @ \cup {n}]}]
  BY DEF reserve
<1>5. \A p \in not_applied_available(s, 0) :
         /\ p \in proofs[s] /\ p \in Proof /\ p.usedBy = {}
         /\ \A a \in entry[s] : a \in p.cover
  BY <1>1, JobsAssumption DEF not_applied_available, EffectTypes, Attempts
<1>6. EffectTypes'
  <2>1. proofs' \in [Steps -> SUBSET Proof]
    <3>1. CASE proofs' = proofs
      BY <1>1, <3>1 DEF EffectTypes
    <3>2. ASSUME NEW p \in not_applied_available(s, 0),
                 proofs' = [proofs EXCEPT ![s] =
                              (@ \ {p}) \cup {[p EXCEPT !.usedBy = @ \cup {n}]}]
          PROVE  proofs' \in [Steps -> SUBSET Proof]
      <4>1. [p EXCEPT !.usedBy = @ \cup {n}] \in Proof
        BY <1>1, <1>5
      <4>2. (proofs[s] \ {p}) \cup {[p EXCEPT !.usedBy = @ \cup {n}]} \in SUBSET Proof
        BY <1>1, <4>1 DEF EffectTypes
      <4>3. QED
        BY <1>1, <3>2, <4>2 DEF EffectTypes
    <3>3. QED
      BY <1>4, <3>1, <3>2
  <2>2. marker' \in [Steps -> 0 .. MaxRetries] /\ entry' \in [Steps -> SUBSET Attempts]
    <3>1. n \in 0 .. MaxRetries
      BY <1>1, JobsAssumption DEF Attempts
    <3>2. QED
      BY <1>1, <1>2, <3>1 DEF EffectTypes
  <2>3. QED
    BY <1>1, <1>2, <2>1, <2>2 DEF EffectTypes
<1>7. RequestsAreReserved'
  <2>1. SUFFICES ASSUME NEW t \in Steps, NEW k \in Attempts PROVE Reserved(t, k)'
    BY DEF RequestsAreReserved
  <2>2. Reserved(t, k)
    BY DEF JobsInv, EffectsInv, EvidenceInv, RequestsAreReserved
  <2>3. CASE t = s
    <3>1. att[s][n].status # "none" /\ marker'[s] # 0
      BY <1>1, <1>3 DEF live_window
    <3>2. QED
      BY <1>1, <1>3, <2>2, <2>3, <3>1 DEF Reserved
  <2>4. CASE t # s
    BY <1>1, <1>3, <2>2, <2>4 DEF Reserved
  <2>5. QED
    BY <2>3, <2>4
<1>8. ReceiptsAreReal'
  BY <1>1, <1>2 DEF JobsInv, EffectsInv, EvidenceInv, ReceiptsAreReal
<1>9. ResendsAreCovered'
  <2>1. SUFFICES ASSUME ~Replayable, NEW t \in Steps, NEW a \in entry'[t], NEW b \in entry'[t],
                        a < b
                 PROVE  \E p \in proofs'[t] : a \in p.cover /\ p.usedBy = {b}
    BY DEF ResendsAreCovered
  <2>2. CASE t # s
    <3>1. entry'[t] = entry[t] /\ proofs'[t] = proofs[t]
      BY <1>1, <1>3, <1>4, <2>2 DEF EffectTypes
    <3>2. QED
      BY <2>1, <3>1 DEF JobsInv, EffectsInv, EvidenceInv, ResendsAreCovered
  <2>3. CASE t = s
    <3>1. a \in Attempts /\ b \in Attempts
      BY <1>6 DEF EffectTypes
    <3>2. \A k \in entry[s] : att[s][k].status # "none" /\ marker[s] # 0
      BY <1>1 DEF JobsInv, EffectsInv, EvidenceInv, RequestsAreReserved, Reserved, EffectTypes
    <3>3. b <= n \/ b = n
      BY <1>3, <2>3, <3>1, <3>2, FenceIsLatest
    <3>4. a \in entry[s]
      BY <1>3, <2>1, <2>3, <3>1, <3>3 DEF Attempts
    <3>5. PICK p \in not_applied_available(s, 0) :
            proofs' = [proofs EXCEPT ![s] = (@ \ {p}) \cup {[p EXCEPT !.usedBy = @ \cup {n}]}]
      BY <1>4, <2>1, <3>2, <3>4 DEF marker_on
    <3>6. proofs'[s] = (proofs[s] \ {p}) \cup {[p EXCEPT !.usedBy = @ \cup {n}]}
      BY <1>1, <3>5 DEF EffectTypes
    <3>7. CASE b = n
      <4> DEFINE q == [p EXCEPT !.usedBy = @ \cup {n}]
      <4>1. q.cover = p.cover /\ q.usedBy = {n}
        BY <1>5, <3>5
      <4>2. a \in q.cover /\ q \in proofs'[s]
        BY <1>5, <3>4, <3>5, <3>6, <4>1
      <4> HIDE DEF q
      <4>3. QED
        BY <2>3, <3>7, <4>1, <4>2
    <3>8. CASE b # n
      <4>1. b \in entry[s]
        BY <1>3, <2>3, <3>8
      <4>2. PICK q \in proofs[s] : a \in q.cover /\ q.usedBy = {b}
        BY <1>1, <2>1, <3>4, <4>1 DEF JobsInv, EffectsInv, EvidenceInv, ResendsAreCovered
      <4>3. q # p
        BY <1>5, <3>5, <4>2
      <4>4. QED
        BY <2>3, <3>6, <4>2, <4>3
    <3>9. QED
      BY <3>7, <3>8
  <2>4. QED
    BY <2>2, <2>3
<1>10. QED
  BY <1>2, <1>3, <1>6, <1>7, <1>8, <1>9

(* reserve_remote: the result is there, the effect may not be sent, or the *)
(* request is reserved, with or without the worker knowing.                *)
LEMMA ReserveRemoteStep ==
    ASSUME JobsInv, LedgerStep, NEW w \in Workers, reserve_remote(w)
    PROVE  EvidenceInv' /\ UNCHANGED receipt
<1> DEFINE s == work[w].step
           n == work[w].att
           Others == \A v \in Workers : v # w => work'[v] = work[v]
<1>1. /\ s \in Steps /\ n \in Attempts /\ WorkType /\ work[w].pc = "working"
      /\ Sound(w) /\ AttemptStep(s, n) /\ KindOf[s] = "remote"
      /\ UNCHANGED <<ledger, request, attest>> /\ request' = request
  BY WorkRow DEF JobsInv, EffectsInv, EvidenceInv, WorkersAreSound, LedgerStep, reserve_remote
<1>2. "output" \in Phases /\ "reserved" \in Phases /\ "reserving" \in Phases
  BY DEF Phases, InHandler
<1>3. ASSUME UNCHANGED effects, WorkType', Others, Sound(w)'
      PROVE  EvidenceInv' /\ UNCHANGED receipt
  BY <1>1, <1>3, QuietEffects, QuietWorker DEF EvidenceInv, effects
<1>4. ASSUME NEW pc \in {"output", "reserved", "reserving"}, Step(w, pc),
             pc = "output" => receipt'[s], pc = "reserved" => n \in entry'[s]
      PROVE  WorkType' /\ Others /\ Sound(w)'
  <2>1. /\ WorkType' /\ Others /\ work'[w].pc = pc
        /\ work'[w].step = s /\ work'[w].att = n
    BY <1>1, <1>2, <1>4, StepFacts
  <2>2. QED
    BY <1>1, <1>4, <2>1 DEF Sound, AttemptStep, BeforeCall, Called
<1>5. CASE receipt[s] /\ Step(w, "output") /\ UNCHANGED effects
  BY <1>3, <1>4, <1>5 DEF effects
<1>6. CASE action_step_failure(w) /\ UNCHANGED effects
  BY <1>1, <1>3, <1>6, ActionFailure, SoundLeaving
<1>7. CASE Step(w, "reserving") /\ UNCHANGED effects
  BY <1>3, <1>4, <1>7
<1>8. CASE /\ live_window(w) /\ marker_on(s, n) /\ n \notin entry[s]
           /\ reserve(s, n)
           /\ Step(w, "reserved") \/ Step(w, "reserving")
  <2>1. /\ EffectTypes' /\ RequestsAreReserved' /\ ReceiptsAreReal' /\ ResendsAreCovered'
        /\ n \in entry'[s]
        /\ \A t \in Steps : entry[t] \subseteq entry'[t]
        /\ receipt' = receipt
    BY <1>1, <1>8, ReserveEvidence
  <2>2. WorkType' /\ Others /\ Sound(w)'
    BY <1>4, <1>8, <2>1
  <2>3. ASSUME NEW v \in Workers, v # w PROVE Sound(v)'
    <3>1. work'[v] = work[v]
      BY <2>2, <2>3
    <3>2. QED
      BY <1>1, <2>1, <3>1, SoundKept
  <2>4. QED
    BY <2>1, <2>2, <2>3 DEF EvidenceInv, WorkersAreSound
<1>9. QED
  BY <1>5, <1>6, <1>7, <1>8 DEF reserve_remote

(* The call: from here on the provider may perform the request.            *)
LEMMA InvokeStep ==
    ASSUME JobsInv, LedgerStep, NEW w \in Workers, invoke(w)
    PROVE  EvidenceInv' /\ UNCHANGED receipt
<1> DEFINE s == work[w].step
           n == work[w].att
<1>1. /\ s \in Steps /\ n \in Attempts /\ WorkType /\ EffectTypes /\ work[w].pc = "entered"
      /\ Sound(w) /\ AttemptStep(s, n) /\ Reserved(s, n)
      /\ request' = [request EXCEPT ![s][n] = "flying"]
      /\ Step(w, "sent")
      /\ UNCHANGED <<ledger, effects, attest>>
  BY WorkRow DEF JobsInv, EffectsInv, EvidenceInv, WorkersAreSound, LedgerStep, invoke,
                 RequestsAreReserved
<1>2. /\ marker' = marker /\ entry' = entry /\ receipt' = receipt /\ proofs' = proofs
      /\ applied' = applied /\ conflict' = conflict /\ att' = att /\ attest' = attest
  BY <1>1 DEF effects, ledger
<1>3. /\ request[s][n] = "none" /\ n \in entry[s]
      /\ att[s][n].worker = w /\ att[s][n].status # "none"
  BY <1>1 DEF Sound, BeforeCall, Called
<1>4. /\ request'[s][n] = "flying"
      /\ \A t \in Steps : \A k \in Attempts : (t # s \/ k # n) => request'[t][k] = request[t][k]
      /\ request' \in [Steps -> [Attempts -> {"none", "flying", "applied", "lost"}]]
  BY <1>1 DEF EffectTypes
<1>5. EffectTypes'
  BY <1>1, <1>2, <1>4 DEF EffectTypes
<1>6. RequestsAreReserved'
  <2>1. ASSUME NEW t \in Steps, NEW k \in Attempts PROVE Reserved(t, k)'
    <3>1. Reserved(t, k)
      BY DEF JobsInv, EffectsInv, EvidenceInv, RequestsAreReserved
    <3>2. QED
      BY <1>1, <1>2, <1>3, <1>4, <3>1 DEF Reserved
  <2>2. QED
    BY <2>1 DEF RequestsAreReserved
<1>7. ReceiptsAreReal'
  <2>1. \A t \in Steps : \A k \in Attempts :
          request[t][k] = "applied" => request'[t][k] = "applied"
    BY <1>3, <1>4
  <2>2. attest.step \in Steps /\ attest.entry \in Attempts
    BY <1>1 DEF EffectTypes
  <2>3. QED
    BY <1>2, <2>1, <2>2 DEF JobsInv, EffectsInv, EvidenceInv, ReceiptsAreReal
<1>8. ResendsAreCovered'
  BY <1>2 DEF JobsInv, EffectsInv, EvidenceInv, ResendsAreCovered
<1>9. /\ WorkType' /\ work'[w].pc = "sent" /\ work'[w].step = s /\ work'[w].att = n
      /\ \A v \in Workers : v # w => work'[v] = work[v]
  <2>1. "sent" \in Phases
    BY DEF Phases, InHandler
  <2>2. QED
    BY <1>1, <2>1, StepFacts
<1>10. WorkersAreSound'
  <2>1. Sound(w)'
    BY <1>1, <1>2, <1>3, <1>9, SoundLeaving
  <2>2. ASSUME NEW v \in Workers, v # w PROVE Sound(v)'
    <3>1. work'[v] = work[v]
      BY <1>9, <2>2
    <3>2. \A t \in Steps : \A k \in Attempts :
             \/ request[t][k] \in {"none", "applied"} => request'[t][k] = request[t][k]
             \/ att[t][k].worker # v /\ att[t][k].status # "none"
      BY <1>3, <1>4, <2>2
    <3>3. QED
      BY <1>2, <3>1, <3>2, SoundKept
  <2>3. QED
    BY <2>1, <2>2 DEF WorkersAreSound
<1>11. QED
  BY <1>2, <1>5, <1>6, <1>7, <1>8, <1>9, <1>10 DEF EvidenceInv

(* Saving the provider's answer.                                           *)
LEMMA CommitRemoteStep ==
    ASSUME JobsInv, LedgerStep, NEW w \in Workers, commit_remote(w)
    PROVE  EvidenceInv' /\ \A t \in Steps : receipt[t] => receipt'[t]
<1> DEFINE s == work[w].step
           n == work[w].att
           Others == \A v \in Workers : v # w => work'[v] = work[v]
<1>1. /\ s \in Steps /\ n \in Attempts /\ WorkType /\ EffectTypes /\ work[w].pc = "answered"
      /\ Sound(w) /\ AttemptStep(s, n)
      /\ UNCHANGED <<exec, att, request>>
  BY WorkRow DEF JobsInv, EffectsInv, EvidenceInv, WorkersAreSound, LedgerStep, commit_remote
<1>2. request[s][n] = "applied" /\ n \in entry[s]
  BY <1>1 DEF Sound, Called
<1>3. CASE action_step_failure(w) /\ UNCHANGED <<effects, attest>>
  <2>1. WorkType' /\ Others /\ Sound(w)'
    BY <1>1, <1>3, ActionFailure, SoundLeaving
  <2>2. QED
    BY <1>1, <1>3, <2>1, QuietEffects, QuietWorker DEF EvidenceInv, effects
<1>4. CASE /\ receipt' = [receipt EXCEPT ![s] = TRUE]
           /\ \E b \in BOOLEAN : conflict' = [conflict EXCEPT ![s] = @ \/ b]
           /\ attest' \in {attest, NoAttest}
           /\ UNCHANGED <<marker, entry, proofs, applied>>
           /\ Step(w, "receipted") \/ action_step_failure(w)
  <2>1. receipt'[s] = TRUE /\ \A t \in Steps : t # s => receipt'[t] = receipt[t]
    BY <1>1, <1>4 DEF EffectTypes
  <2>2. \A t \in Steps : receipt[t] => receipt'[t]
    BY <2>1
  <2>3. EffectTypes'
    <3>1. attest' \in [says : {"nothing", "not_applied", "applied", "recovered"}, step : Steps,
                       cover : SUBSET Attempts, entry : Attempts]
      BY <1>1, <1>4, ConstantFacts DEF EffectTypes, NoAttest
    <3>2. receipt' \in [Steps -> BOOLEAN] /\ conflict' \in [Steps -> BOOLEAN]
      BY <1>1, <1>4 DEF EffectTypes
    <3>3. QED
      BY <1>1, <1>4, <3>1, <3>2 DEF EffectTypes
  <2>4. RequestsAreReserved'
    BY <1>1, <1>4 DEF JobsInv, EffectsInv, EvidenceInv, RequestsAreReserved, Reserved
  <2>5. ReceiptsAreReal'
    BY <1>1, <1>2, <1>4, <2>1 DEF JobsInv, EffectsInv, EvidenceInv, ReceiptsAreReal, NoAttest
  <2>6. ResendsAreCovered'
    BY <1>4 DEF JobsInv, EffectsInv, EvidenceInv, ResendsAreCovered
  <2>7. WorkType' /\ Others /\ Sound(w)'
    <3>1. CASE Step(w, "receipted")
      <4>1. "receipted" \in Phases
        BY DEF Phases, InHandler
      <4>2. /\ WorkType' /\ Others /\ work'[w].pc = "receipted"
            /\ work'[w].step = s /\ work'[w].att = n
        BY <1>1, <3>1, <4>1, StepFacts
      <4>3. QED
        BY <1>1, <1>2, <1>4, <2>1, <4>2 DEF Sound, AttemptStep, BeforeCall, Called
    <3>2. CASE action_step_failure(w)
      BY <1>1, <3>2, ActionFailure, SoundLeaving
    <3>3. QED
      BY <1>4, <3>1, <3>2
  <2>8. ASSUME NEW v \in Workers, v # w PROVE Sound(v)'
    <3>1. work'[v] = work[v]
      BY <2>7, <2>8
    <3>2. QED
      BY <1>1, <1>4, <2>2, <3>1, SoundKept
  <2>9. QED
    BY <2>2, <2>3, <2>4, <2>5, <2>6, <2>7, <2>8 DEF EvidenceInv, WorkersAreSound
<1>5. QED
  BY <1>3, <1>4 DEF commit_remote

(* A local effect: marker, effect and receipt in one transaction.          *)
LEMMA LocalStep ==
    ASSUME JobsInv, LedgerStep, NEW w \in Workers, local(w)
    PROVE  EvidenceInv' /\ \A t \in Steps : receipt[t] => receipt'[t]
<1> DEFINE s == work[w].step
           n == work[w].att
           Others == \A v \in Workers : v # w => work'[v] = work[v]
<1>1. /\ s \in Steps /\ n \in Attempts /\ n # 0 /\ WorkType /\ EffectTypes
      /\ work[w].pc = "working" /\ KindOf[s] = "local"
      /\ Sound(w) /\ AttemptStep(s, n)
      /\ UNCHANGED <<ledger, attest>> /\ att' = att /\ attest' = attest
  BY WorkRow DEF JobsInv, EffectsInv, EvidenceInv, WorkersAreSound, LedgerStep, local,
                 Attempts, ledger
<1>2. att[s][n].worker = w /\ att[s][n].status # "none" /\ request[s][n] = "none"
  BY <1>1 DEF Sound, BeforeCall
<1>3. ASSUME Step(w, "output"), receipt'[s] PROVE WorkType' /\ Others /\ Sound(w)'
  <2>1. "output" \in Phases
    BY DEF Phases
  <2>2. /\ WorkType' /\ Others /\ work'[w].pc = "output"
        /\ work'[w].step = s /\ work'[w].att = n
    BY <1>1, <1>3, <2>1, StepFacts
  <2>3. QED
    BY <1>1, <1>2, <1>3, <2>2 DEF Sound, BeforeCall, Called
<1>4. ASSUME action_step_failure(w) PROVE WorkType' /\ Others /\ Sound(w)'
  BY <1>1, <1>4, ActionFailure, SoundLeaving
<1>5. CASE /\ UNCHANGED <<effects, request>>
           /\ (receipt[s] /\ Step(w, "output")) \/ action_step_failure(w)
  <2>1. receipt' = receipt /\ UNCHANGED <<effects, request>>
    BY <1>5 DEF effects
  <2>2. WorkType' /\ Others /\ Sound(w)'
    BY <1>3, <1>4, <1>5, <2>1
  <2>3. QED
    BY <1>1, <2>1, <2>2, QuietEffects, QuietWorker DEF EvidenceInv
<1>6. CASE /\ marker[s] = 0
           /\ marker' = [marker EXCEPT ![s] = n]
           /\ receipt' = [receipt EXCEPT ![s] = TRUE]
           /\ request' = [request EXCEPT ![s][n] = "applied"]
           /\ UNCHANGED <<entry, proofs, applied, conflict>>
           /\ Step(w, "output") \/ action_step_failure(w)
  <2>1. receipt'[s] = TRUE /\ \A t \in Steps : t # s => receipt'[t] = receipt[t]
    BY <1>1, <1>6 DEF EffectTypes
  <2>2. \A t \in Steps : receipt[t] => receipt'[t]
    BY <2>1
  <2>3. /\ request'[s][n] = "applied"
        /\ \A t \in Steps : \A k \in Attempts :
              (t # s \/ k # n) => request'[t][k] = request[t][k]
        /\ request' \in [Steps -> [Attempts -> {"none", "flying", "applied", "lost"}]]
    BY <1>1, <1>6 DEF EffectTypes
  <2>4. /\ marker'[s] = n /\ \A t \in Steps : t # s => marker'[t] = marker[t]
        /\ marker' \in [Steps -> 0 .. MaxRetries]
    <3>1. n \in 0 .. MaxRetries
      BY <1>1, JobsAssumption DEF Attempts
    <3>2. QED
      BY <1>1, <1>6, <3>1 DEF EffectTypes
  <2>5. EffectTypes'
    BY <1>1, <1>6, <2>3, <2>4 DEF EffectTypes
  <2>6. RequestsAreReserved'
    <3>1. SUFFICES ASSUME NEW t \in Steps, NEW k \in Attempts PROVE Reserved(t, k)'
      BY DEF RequestsAreReserved
    <3>2. Reserved(t, k) /\ k # 0
      BY DEF JobsInv, EffectsInv, EvidenceInv, RequestsAreReserved, Attempts
    <3>3. QED
      BY <1>1, <1>2, <1>6, <2>3, <2>4, <3>2 DEF Reserved
  <2>7. ReceiptsAreReal'
    <3>1. \A t \in Steps : \A k \in Attempts :
            request[t][k] = "applied" => request'[t][k] = "applied"
      BY <1>2, <2>3
    <3>2. attest.step \in Steps /\ attest.entry \in Attempts
      BY <1>1 DEF EffectTypes
    <3>3. ReceiptsAreReal
      BY DEF JobsInv, EffectsInv, EvidenceInv
    <3>4. \A t \in Steps : receipt'[t] => \E k \in Attempts : request'[t][k] = "applied"
      BY <1>1, <2>1, <2>3, <3>1, <3>3 DEF ReceiptsAreReal
    <3>5. attest'.says = "recovered" => request'[attest'.step][attest'.entry] = "applied"
      BY <1>1, <3>1, <3>2, <3>3 DEF ReceiptsAreReal
    <3>6. QED
      BY <3>4, <3>5 DEF ReceiptsAreReal
  <2>8. ResendsAreCovered'
    BY <1>6 DEF JobsInv, EffectsInv, EvidenceInv, ResendsAreCovered
  <2>9. WorkType' /\ Others /\ Sound(w)'
    BY <1>3, <1>4, <1>6, <2>1
  <2>10. ASSUME NEW v \in Workers, v # w PROVE Sound(v)'
    <3>1. work'[v] = work[v]
      BY <2>9, <2>10
    <3>2. \A t \in Steps : \A k \in Attempts :
             \/ request[t][k] \in {"none", "applied"} => request'[t][k] = request[t][k]
             \/ att[t][k].worker # v /\ att[t][k].status # "none"
      BY <1>2, <2>3, <2>10
    <3>3. \A t \in Steps : entry[t] \subseteq entry'[t]
      BY <1>6
    <3>4. QED
      BY <2>2, <3>1, <3>2, <3>3, SoundKept
  <2>11. QED
    BY <2>2, <2>5, <2>6, <2>7, <2>8, <2>9, <2>10 DEF EvidenceInv, WorkersAreSound
<1>7. QED
  BY <1>5, <1>6 DEF local

(* No worker moves and no request is sent.                                 *)
LEMMA WorkersStill ==
    ASSUME JobsInv, LedgerStep, UNCHANGED <<work, entry, request>>,
           \A s \in Steps : receipt[s] => receipt'[s]
    PROVE  WorkType' /\ WorkersAreSound'
<1>1. WorkType'
  BY DEF JobsInv, EffectsInv, EvidenceInv, WorkType
<1>2. ASSUME NEW v \in Workers PROVE Sound(v)'
  BY SoundKept
<1>3. QED
  BY <1>1, <1>2 DEF WorkersAreSound

(* The steps of the engine and of the operator that leave the evidence.    *)
LEMMA EngineEvidence ==
    ASSUME JobsInv, LedgerStep,
           \/ \E s \in Steps : \/ activate(s) \/ advance_pure(s) \/ lapse(s)
                               \/ recover_expired(s)
           \/ deadline \/ expire_on \/ cancel_run_on \/ retry_on
    PROVE  EvidenceInv' /\ UNCHANGED receipt
<1>1. UNCHANGED <<effects, request, work>> /\ attest' \in {attest, NoAttest}
  <2>1. ASSUME NEW s \in Steps, activate(s) \/ lapse(s)
        PROVE  UNCHANGED <<effects, request, work>> /\ attest' \in {attest, NoAttest}
    BY <2>1 DEF activate, settle_pending, lapse
  <2>2. ASSUME NEW s \in Steps, advance_pure(s)
        PROVE  UNCHANGED <<effects, request, work>> /\ attest' \in {attest, NoAttest}
    BY <2>2 DEF advance_pure, complete, settle_pending
  <2>3. ASSUME NEW s \in Steps, recover_expired(s)
        PROVE  UNCHANGED <<effects, request, work>> /\ attest' \in {attest, NoAttest}
    BY <2>3 DEF recover_expired, retire_on
  <2>4. ASSUME deadline \/ expire_on \/ cancel_run_on \/ retry_on
        PROVE  UNCHANGED <<effects, request, work>> /\ attest' \in {attest, NoAttest}
    BY <2>4 DEF deadline, expire_on, cancel_run_on, retry_on
  <2>5. QED
    BY <2>1, <2>2, <2>3, <2>4
<1>2. entry' = entry /\ receipt' = receipt /\ request' = request /\ work' = work
  BY <1>1 DEF effects
<1>3. QED
  BY <1>1, <1>2, QuietEffects, WorkersStill DEF EvidenceInv

(* The provider performs a request that is on its way, or loses it.        *)
LEMMA ProviderStep ==
    ASSUME JobsInv, LedgerStep, NEW s \in Steps, NEW n \in Attempts, provider(s, n)
    PROVE  EvidenceInv' /\ UNCHANGED receipt
<1>1. /\ request[s][n] = "flying" /\ EffectTypes
      /\ UNCHANGED <<ledger, effects, attest, work>>
      /\ \E outcome \in {"applied", "lost"} : request' = [request EXCEPT ![s][n] = outcome]
  BY DEF provider, JobsInv, EffectsInv, EvidenceInv
<1>2. /\ marker' = marker /\ entry' = entry /\ receipt' = receipt /\ proofs' = proofs
      /\ applied' = applied /\ conflict' = conflict /\ att' = att /\ attest' = attest
      /\ work' = work
  BY <1>1 DEF effects, ledger
<1>3. /\ \A t \in Steps : \A k \in Attempts : (t # s \/ k # n) => request'[t][k] = request[t][k]
      /\ request' \in [Steps -> [Attempts -> {"none", "flying", "applied", "lost"}]]
  BY <1>1 DEF EffectTypes
<1>4. \A t \in Steps : \A k \in Attempts :
         request[t][k] \in {"none", "applied"} => request'[t][k] = request[t][k]
  BY <1>1, <1>3
<1>5. EffectTypes'
  BY <1>1, <1>2, <1>3 DEF EffectTypes
<1>6. RequestsAreReserved'
  <2>1. ASSUME NEW t \in Steps, NEW k \in Attempts PROVE Reserved(t, k)'
    <3>1. Reserved(t, k)
      BY DEF JobsInv, EffectsInv, EvidenceInv, RequestsAreReserved
    <3>2. QED
      BY <1>2, <1>4, <3>1 DEF Reserved
  <2>2. QED
    BY <2>1 DEF RequestsAreReserved
<1>7. ReceiptsAreReal'
  <2>1. attest.step \in Steps /\ attest.entry \in Attempts
    BY <1>1 DEF EffectTypes
  <2>2. QED
    BY <1>2, <1>4, <2>1 DEF JobsInv, EffectsInv, EvidenceInv, ReceiptsAreReal
<1>8. ResendsAreCovered'
  BY <1>2 DEF JobsInv, EffectsInv, EvidenceInv, ResendsAreCovered
<1>9. ASSUME NEW v \in Workers PROVE Sound(v)'
  BY <1>2, <1>4, SoundKept
<1>10. WorkType'
  BY <1>2 DEF JobsInv, EffectsInv, EvidenceInv, WorkType
<1>11. QED
  BY <1>2, <1>5, <1>6, <1>7, <1>8, <1>9, <1>10 DEF EvidenceInv, WorkersAreSound

(* A verifier's answer, about to be settled.                               *)
LEMMA VerifyStep ==
    ASSUME JobsInv, LedgerStep, NEW s \in Steps, verify(s)
    PROVE  EvidenceInv' /\ UNCHANGED receipt
<1>1. /\ EffectTypes /\ UNCHANGED <<ledger, effects, request, work>>
  BY DEF verify, JobsInv, EffectsInv, EvidenceInv
<1>2. /\ marker' = marker /\ entry' = entry /\ receipt' = receipt /\ proofs' = proofs
      /\ applied' = applied /\ conflict' = conflict /\ att' = att /\ request' = request
      /\ work' = work
  BY <1>1 DEF effects, ledger
<1> DEFINE Answered ==
      /\ attest' \in [says : {"nothing", "not_applied", "applied", "recovered"}, step : Steps,
                       cover : SUBSET Attempts, entry : Attempts]
      /\ attest'.says = "recovered" => request[attest'.step][attest'.entry] = "applied"
<1>3. Answered
  <2>1. entry[s] \in SUBSET Attempts
    BY <1>1 DEF EffectTypes
  <2>2. CASE attest' = [says |-> "not_applied", step |-> s, cover |-> entry[s], entry |-> 1]
    BY <2>1, <2>2, ConstantFacts
  <2>3. ASSUME NEW n \in entry[s], NEW says \in {"applied", "recovered"},
               request[s][n] = "applied",
               attest' = [says |-> says, step |-> s, cover |-> entry[s], entry |-> n]
        PROVE  Answered
    BY <2>1, <2>3
  <2>4. QED
    BY <2>2, <2>3 DEF verify
<1>4. EffectTypes'
  BY <1>1, <1>2, <1>3 DEF EffectTypes
<1>5. RequestsAreReserved' /\ ResendsAreCovered'
  BY <1>2 DEF JobsInv, EffectsInv, EvidenceInv, RequestsAreReserved, Reserved, ResendsAreCovered
<1>6. ReceiptsAreReal'
  BY <1>2, <1>3 DEF JobsInv, EffectsInv, EvidenceInv, ReceiptsAreReal
<1>7. QED
  BY <1>2, <1>4, <1>5, <1>6, WorkersStill DEF EvidenceInv

(* Settling an answer: proofs are added, never taken away; a result is     *)
(* recovered only of a performed request.                                  *)
LEMMA SettleStep ==
    ASSUME JobsInv, LedgerStep, settle
    PROVE  EvidenceInv' /\ \A t \in Steps : receipt[t] => receipt'[t]
<1> DEFINE s == attest.step
           Proof == [cover : SUBSET Attempts, usedBy : SUBSET Attempts, valid : BOOLEAN]
           proof == [cover |-> attest.cover, usedBy |-> {}, valid |-> TRUE]
<1>1. /\ EffectTypes /\ s \in Steps /\ attest.entry \in Attempts
      /\ attest.cover \in SUBSET Attempts
  BY DEF JobsInv, EffectsInv, EvidenceInv, EffectTypes
<1>2. /\ UNCHANGED <<exec, att, marker, entry, request, work>>
      /\ attest' = NoAttest
      /\ receipt' = [receipt EXCEPT ![s] = @ \/ attest.says = "recovered"]
  BY DEF settle
<1>3. /\ proofs' = [proofs EXCEPT ![s] =
           IF attest.says = "not_applied" /\ ~ \E p \in proofs[s] : p.cover = attest.cover
           THEN @ \cup {proof} ELSE @]
      /\ applied' = [applied EXCEPT ![s] = @ \/ ~(attest.says = "not_applied")]
      /\ conflict' \in [Steps -> BOOLEAN]
  <2>1. conflict' \in [Steps -> BOOLEAN]
    <3>1. \E b \in BOOLEAN : conflict' = [conflict EXCEPT ![s] = @ \/ b]
      BY DEF settle
    <3>2. QED
      BY <1>1, <3>1 DEF EffectTypes
  <2>2. QED
    BY <2>1 DEF settle
<1>4. /\ receipt' \in [Steps -> BOOLEAN]
      /\ \A t \in Steps : receipt'[t] <=> (receipt[t] \/ (t = s /\ attest.says = "recovered"))
  BY <1>1, <1>2 DEF EffectTypes
<1>5. \A t \in Steps : proofs[t] \subseteq proofs'[t]
  BY <1>1, <1>3 DEF EffectTypes
<1>6. EffectTypes'
  <2>1. proofs' \in [Steps -> SUBSET Proof]
    <3>1. proof \in Proof
      BY <1>1
    <3>2. proofs[s] \in SUBSET Proof /\ proofs \in [Steps -> SUBSET Proof]
      BY <1>1 DEF EffectTypes
    <3> HIDE DEF proof, Proof
    <3>3. QED
      BY <1>1, <1>3, <3>1, <3>2
  <2>2. applied' \in [Steps -> BOOLEAN]
    BY <1>1, <1>3 DEF EffectTypes
  <2>3. attest' \in [says : {"nothing", "not_applied", "applied", "recovered"}, step : Steps,
                     cover : SUBSET Attempts, entry : Attempts]
    BY <1>2, ConstantFacts DEF NoAttest
  <2>4. QED
    BY <1>1, <1>2, <1>3, <1>4, <2>1, <2>2, <2>3 DEF EffectTypes
<1>7. RequestsAreReserved'
  BY <1>2 DEF JobsInv, EffectsInv, EvidenceInv, RequestsAreReserved, Reserved
<1>8. ReceiptsAreReal'
  BY <1>1, <1>2, <1>4 DEF JobsInv, EffectsInv, EvidenceInv, ReceiptsAreReal, NoAttest
<1>9. ResendsAreCovered'
  <2>1. SUFFICES ASSUME ~Replayable, NEW t \in Steps, NEW a \in entry[t], NEW b \in entry[t],
                        a < b
                 PROVE  \E p \in proofs'[t] : a \in p.cover /\ p.usedBy = {b}
    BY <1>2 DEF ResendsAreCovered
  <2>2. \E p \in proofs[t] : a \in p.cover /\ p.usedBy = {b}
    BY <2>1 DEF JobsInv, EffectsInv, EvidenceInv, ResendsAreCovered
  <2>3. QED
    BY <1>5, <2>2
<1>10. WorkType' /\ WorkersAreSound'
  BY <1>2, <1>4, WorkersStill
<1>11. QED
  BY <1>4, <1>6, <1>7, <1>8, <1>9, <1>10 DEF EvidenceInv

(* A proof that expires still says what it covers and who used it.         *)
LEMMA ProofExpiresStep ==
    ASSUME JobsInv, LedgerStep, NEW s \in Steps, proof_expires(s)
    PROVE  EvidenceInv' /\ UNCHANGED receipt
<1> DEFINE Proof == [cover : SUBSET Attempts, usedBy : SUBSET Attempts, valid : BOOLEAN]
<1>1. PICK p \in proofs[s] :
        /\ proofs' = [proofs EXCEPT ![s] = (@ \ {p}) \cup {[p EXCEPT !.valid = FALSE]}]
        /\ UNCHANGED <<ledger, marker, entry, receipt, applied, conflict, request, attest, work>>
  BY DEF proof_expires
<1> DEFINE q == [p EXCEPT !.valid = FALSE]
<1>2. EffectTypes /\ proofs \in [Steps -> SUBSET Proof] /\ p \in Proof
  BY DEF JobsInv, EffectsInv, EvidenceInv, EffectTypes
<1>3. q \in Proof /\ q.cover = p.cover /\ q.usedBy = p.usedBy
  BY <1>2
<1> HIDE DEF q, Proof
<1>4. /\ proofs'[s] = (proofs[s] \ {p}) \cup {q}
      /\ \A t \in Steps : t # s => proofs'[t] = proofs[t]
      /\ proofs' \in [Steps -> SUBSET Proof]
  <2>1. proofs' = [proofs EXCEPT ![s] = (@ \ {p}) \cup {q}]
    BY <1>1 DEF q
  <2>2. QED
    BY <1>2, <1>3, <2>1
<1>5. EffectTypes'
  BY <1>1, <1>2, <1>4 DEF EffectTypes, Proof
<1>6. RequestsAreReserved' /\ ReceiptsAreReal'
  BY <1>1 DEF JobsInv, EffectsInv, EvidenceInv, RequestsAreReserved, Reserved, ReceiptsAreReal,
              ledger
<1>7. ResendsAreCovered'
  <2>1. SUFFICES ASSUME ~Replayable, NEW t \in Steps, NEW a \in entry[t], NEW b \in entry[t],
                        a < b
                 PROVE  \E r \in proofs'[t] : a \in r.cover /\ r.usedBy = {b}
    BY <1>1 DEF ResendsAreCovered
  <2>2. PICK r \in proofs[t] : a \in r.cover /\ r.usedBy = {b}
    BY <2>1 DEF JobsInv, EffectsInv, EvidenceInv, ResendsAreCovered
  <2>3. CASE t = s /\ r = p
    BY <1>3, <1>4, <2>2, <2>3
  <2>4. CASE ~(t = s /\ r = p)
    BY <1>4, <2>2, <2>4
  <2>5. QED
    BY <2>3, <2>4
<1>8. WorkType' /\ WorkersAreSound'
  BY <1>1, WorkersStill
<1>9. QED
  BY <1>1, <1>5, <1>6, <1>7, <1>8 DEF EvidenceInv

----------------------------------------------------------------------------
(* Every step.                                                             *)

(* Where success comes from.                                               *)
LEMMA NextSuccess ==
    ASSUME JobsInv, Next
    PROVE  SuccessStep
<1>1. ASSUME NEW s \in Steps, NEW reported, NEW retirement, retire_on(s, reported, retirement)
      PROVE  SuccessStep
  BY <1>1 DEF retire_on, SuccessStep
<1>2. ASSUME NEW s \in Steps, NEW activated \in BOOLEAN, settle_pending(s, activated)
      PROVE  SuccessStep
  BY <1>2 DEF settle_pending, SuccessStep
<1>3. ASSUME NEW s \in Steps, NEW target, complete(s, target),
             \/ KindOf[s] = "pure"
             \/ \E w \in Workers : work[w].pc = "ready" /\ work[w].step = s
      PROVE  SuccessStep
  BY <1>3 DEF complete, SuccessStep
<1>4. ASSUME UNCHANGED exec PROVE SuccessStep
  BY <1>4 DEF SuccessStep
<1>5. ASSUME NEW w \in Workers, Worker(w) PROVE SuccessStep
  <2>1. work[w].step \in Steps
    BY WorkRow DEF JobsInv, EffectsInv, EvidenceInv
  <2>2. CASE release_once(w)
    BY <1>1, <1>4, <2>1, <2>2 DEF release_once, ledger
  <2>3. CASE complete_io(w)
    <3>1. CASE UNCHANGED <<ledger, attest>>
      BY <1>4, <3>1 DEF ledger
    <3>2. CASE \E reported : retire_on(work[w].step, reported, "live")
      BY <1>1, <2>1, <3>2
    <3>3. CASE complete(work[w].step, "end") \/ complete(work[w].step, "step")
      BY <1>3, <2>1, <2>3, <3>3 DEF complete_io
    <3>4. QED
      BY <2>3, <3>1, <3>2, <3>3 DEF complete_io
  <2>4. CASE \/ (\E s \in Steps : claim_io(w, s)) \/ claimed_on(w) \/ execute(w)
             \/ reserve_remote(w) \/ resolve_reservation(w) \/ enter_remote(w) \/ invoke(w)
             \/ answer(w) \/ commit_remote(w) \/ return_authorized(w) \/ local(w) \/ stop(w)
             \/ validate_io(w) \/ released_on(w) \/ crash(w)
    <3>1. UNCHANGED exec
      BY <2>4 DEF claim_io, install, claimed_on, execute, reserve_remote, resolve_reservation,
                  enter_remote, invoke, answer, commit_remote, return_authorized, local, stop,
                  validate_io, released_on, crash, ledger
    <3>2. QED
      BY <1>4, <3>1
  <2>5. QED
    BY <1>5, <2>2, <2>3, <2>4 DEF Worker
<1>6. ASSUME NEW s \in Steps, activate(s) PROVE SuccessStep
  BY <1>2, <1>6 DEF activate
<1>7. ASSUME NEW s \in Steps, advance_pure(s) PROVE SuccessStep
  BY <1>2, <1>3, <1>7 DEF advance_pure
<1>8. ASSUME NEW s \in Steps, recover_expired(s) PROVE SuccessStep
  BY <1>1, <1>8 DEF recover_expired
<1>9. CASE \/ \E s \in Steps : lapse(s) \/ verify(s) \/ proof_expires(s)
           \/ \E s \in Steps, n \in Attempts : provider(s, n)
           \/ deadline \/ expire_on \/ cancel_run_on \/ retry_on \/ settle
  <2>1. UNCHANGED exec
    BY <1>9 DEF lapse, verify, proof_expires, provider, deadline, expire_on, cancel_run_on,
                retry_on, reopen, settle, ledger
  <2>2. QED
    BY <1>4, <2>1
<1>10. QED
  BY <1>5, <1>6, <1>7, <1>8, <1>9 DEF Next

(* What a step does to the ledger.                                         *)
LEMMA NextLedger ==
    ASSUME JobsInv, Next
    PROVE  LedgerInv' /\ LedgerStep
<1>1. LedgerInv /\ WorkType /\ attest.step \in Steps
  BY DEF JobsInv, EffectsInv, EvidenceInv, EffectTypes
<1>2. ASSUME NEW w \in Workers, Worker(w) PROVE LedgerInv' /\ LedgerStep
  BY <1>1, <1>2, WorkerLedger
<1>3. CASE \/ \E s \in Steps : \/ activate(s) \/ advance_pure(s) \/ lapse(s)
                               \/ recover_expired(s)
           \/ deadline \/ expire_on \/ cancel_run_on \/ retry_on \/ settle
  BY <1>1, <1>3, EngineLedger
<1>4. CASE \/ \E s \in Steps : verify(s) \/ proof_expires(s)
           \/ \E s \in Steps, n \in Attempts : provider(s, n)
  <2>1. UNCHANGED ledger
    BY <1>4 DEF verify, proof_expires, provider
  <2>2. QED
    BY <1>1, <2>1, LedgerUntouched
<1>5. QED
  BY <1>2, <1>3, <1>4 DEF Next

(* What a step does to the evidence.                                       *)
LEMMA NextEvidence ==
    ASSUME JobsInv, LedgerStep, Next
    PROVE  EvidenceInv' /\ \A t \in Steps : receipt[t] => receipt'[t]
<1>1. ASSUME NEW w \in Workers, Worker(w)
      PROVE  EvidenceInv' /\ \A t \in Steps : receipt[t] => receipt'[t]
  <2>1. CASE reserve_remote(w)
    BY <2>1, ReserveRemoteStep
  <2>2. CASE invoke(w)
    BY <2>2, InvokeStep
  <2>3. CASE commit_remote(w)
    BY <2>3, CommitRemoteStep
  <2>4. CASE local(w)
    BY <2>4, LocalStep
  <2>5. CASE \/ (\E s \in Steps : claim_io(w, s)) \/ claimed_on(w) \/ execute(w)
             \/ resolve_reservation(w) \/ enter_remote(w) \/ answer(w)
             \/ return_authorized(w) \/ stop(w) \/ validate_io(w)
             \/ release_once(w) \/ released_on(w) \/ complete_io(w) \/ crash(w)
    BY <2>5, ReadingSteps
  <2>6. QED
    BY <1>1, <2>1, <2>2, <2>3, <2>4, <2>5 DEF Worker
<1>2. CASE \/ \E s \in Steps : \/ activate(s) \/ advance_pure(s) \/ lapse(s)
                               \/ recover_expired(s)
           \/ deadline \/ expire_on \/ cancel_run_on \/ retry_on
  BY <1>2, EngineEvidence
<1>3. CASE settle
  BY <1>3, SettleStep
<1>4. ASSUME NEW s \in Steps, verify(s)
      PROVE  EvidenceInv' /\ \A t \in Steps : receipt[t] => receipt'[t]
  BY <1>4, VerifyStep
<1>5. ASSUME NEW s \in Steps, proof_expires(s)
      PROVE  EvidenceInv' /\ \A t \in Steps : receipt[t] => receipt'[t]
  BY <1>5, ProofExpiresStep
<1>6. ASSUME NEW s \in Steps, NEW n \in Attempts, provider(s, n)
      PROVE  EvidenceInv' /\ \A t \in Steps : receipt[t] => receipt'[t]
  BY <1>6, ProviderStep
<1>7. QED
  BY <1>1, <1>2, <1>3, <1>4, <1>5, <1>6 DEF Next

(* The invariant is inductive.                                             *)
LEMMA NextInv == JobsInv /\ [Next]_vars => JobsInv'
<1>1. ASSUME JobsInv, Next PROVE JobsInv'
  <2>1. LedgerInv' /\ LedgerStep
    BY <1>1, NextLedger
  <2>2. EvidenceInv' /\ \A t \in Steps : receipt[t] => receipt'[t]
    BY <1>1, <2>1, NextEvidence
  <2>3. SuccessHasEffect'
    BY <1>1, <2>2, NextSuccess, SuccessKept DEF EvidenceInv
  <2>4. QED
    BY <2>1, <2>2, <2>3 DEF JobsInv, EffectsInv
<1>2. ASSUME JobsInv, UNCHANGED vars PROVE JobsInv'
  <2>1. UNCHANGED ledger /\ UNCHANGED <<effects, request>> /\ attest' = attest /\ work' = work
    BY <1>2 DEF vars
  <2>2. LedgerInv' /\ LedgerStep
    BY <1>2, <2>1, LedgerUntouched DEF JobsInv
  <2>3. entry' = entry /\ receipt' = receipt /\ request' = request /\ exec' = exec
    BY <2>1 DEF effects, ledger
  <2>4. EffectTypes' /\ RequestsAreReserved' /\ ReceiptsAreReal' /\ ResendsAreCovered'
    BY <1>2, <2>1, <2>2, QuietEffects
  <2>5. WorkType' /\ WorkersAreSound'
    BY <1>2, <2>1, <2>2, <2>3, WorkersStill
  <2>6. SuccessHasEffect'
    BY <1>2, <2>3 DEF JobsInv, EffectsInv, SuccessHasEffect
  <2>7. QED
    BY <2>2, <2>4, <2>5, <2>6 DEF JobsInv, EffectsInv, EvidenceInv
<1>3. QED
  BY <1>1, <1>2

----------------------------------------------------------------------------
(* The theorems.                                                           *)

(* Every reachable state satisfies the invariant, for any workers, steps,  *)
(* retries, kinds and error routes.                                        *)
THEOREM JobsInvHolds == Spec => []JobsInv
<1>1. Init => JobsInv
  BY InitLedger, InitEffects DEF JobsInv
<1>2. QED
  BY <1>1, NextInv, PTL DEF Spec

(* Every variable keeps its type: no attempt past the retries of its job,  *)
(* no execution past the activation limit.                                 *)
THEOREM JobTypesHold == Spec => []TypeOK
<1>1. JobsInv => TypeOK
  BY TypeParts DEF JobsInv, LedgerInv, EffectsInv, EvidenceInv
<1>2. QED
  BY <1>1, JobsInvHolds, PTL

(* The job rows and the attempt ledger agree, whichever of the claim, the  *)
(* release, the completion, the expiry sweep, the deadline sweep and a     *)
(* cancellation closed the attempt.                                        *)
THEOREM LedgerAgrees == Spec => []LedgerMatchesJob
<1>1. JobsInv => LedgerMatchesJob
  BY DEF JobsInv, LedgerInv
<1>2. QED
  BY <1>1, JobsInvHolds, PTL

(* An active run always has exactly one execution to work on and an ended  *)
(* one leaves no job behind.                                               *)
THEOREM FrontierHolds == Spec => []FrontierMatchesRun
<1>1. JobsInv => FrontierMatchesRun
  <2>1. SUFFICES ASSUME JobsInv PROVE FrontierMatchesRun
    OBVIOUS
  <2>2. PICK f \in Steps : Frontier(f)
    BY <2>1 DEF JobsInv, LedgerInv, ChainHasFrontier
  <2>3. \A t \in Steps : t # f =>
          exec[t] # "open" /\ job[t].status \notin {"pending", "processing"}
    BY <2>2 DEF Frontier, Steps
  <2>4. QED
    BY <2>2, <2>3 DEF Frontier, FrontierMatchesRun, is_terminal
<1>2. QED
  BY <1>1, JobsInvHolds, PTL

(* A handler only ever runs for an attempt the ledger records as its       *)
(* worker's, also after a claim whose COMMIT answer was lost.              *)
THEOREM HandlersOwnTheirClaims == Spec => []HandlerOwnsClaim
<1>1. JobsInv => HandlerOwnsClaim
  BY DEF JobsInv, EffectsInv, EvidenceInv, WorkersAreSound, Sound, HandlerOwnsClaim
<1>2. QED
  BY <1>1, JobsInvHolds, PTL

(* Without a replay contract no request is sent again unless a proof, used *)
(* for it alone, says the earlier ones were not applied.                   *)
THEOREM RequestsAreNotBlindlyResent == Spec => []NoBlindResend
<1>1. JobsInv => NoBlindResend
  <2>1. SUFFICES ASSUME JobsInv, ~Replayable, NEW s \in Steps,
                        NEW a \in Attempts, NEW b \in Attempts, a < b,
                        request[s][a] # "none", request[s][b] # "none"
                 PROVE  \E p \in proofs[s] : a \in p.cover /\ p.usedBy = {b}
    BY DEF NoBlindResend
  <2>2. Reserved(s, a) /\ Reserved(s, b)
    BY <2>1 DEF JobsInv, EffectsInv, EvidenceInv, RequestsAreReserved
  <2>3. a \in entry[s] /\ b \in entry[s]
    BY <2>1, <2>2 DEF Reserved, Attempts
  <2>4. QED
    BY <2>1, <2>3 DEF JobsInv, EffectsInv, EvidenceInv, ResendsAreCovered
<1>2. QED
  BY <1>1, JobsInvHolds, PTL

(* A step with an effect succeeds only if the provider performed it and    *)
(* its result is saved.                                                    *)
THEOREM SuccessesHaveEffects == Spec => []SuccessHasEffect
<1>1. JobsInv => SuccessHasEffect
  BY DEF JobsInv, EffectsInv
<1>2. QED
  BY <1>1, JobsInvHolds, PTL

(* Closed attempts, committed routes, and succeeded or cancelled runs are  *)
(* never written again.                                                    *)
THEOREM DecisionsStand == Spec => ClosedStaysClosed
<1> DEFINE Kept ==
        /\ \A s \in Steps, n \in Attempts :
              att[s][n].status \in {"completed", "failed"} => att'[s][n] = att[s][n]
        /\ \A s \in Steps : exec[s] \in {"success", "final_error"} => exec'[s] = exec[s]
        /\ run.state \in {"succeeded", "cancelled"} => run'.state = run.state
<1>1. JobsInv /\ [Next]_vars => [Kept]_vars
  <2>1. ASSUME JobsInv, Next PROVE Kept
    BY <2>1, NextLedger DEF LedgerStep, AttemptStep
  <2>2. QED
    BY <2>1
<1>2. QED
  BY <1>1, JobsInvHolds, PTL DEF Spec, ClosedStaysClosed
=============================================================================
