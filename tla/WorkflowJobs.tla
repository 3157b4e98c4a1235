---------------------------- MODULE WorkflowJobs ----------------------------
(***************************************************************************)
(* One workflow run: its chain of step executions, the job of each step,   *)
(* the ledger of attempts, the workers that lease jobs                     *)
(* (adapters/persistence/workflow/lease, lease_claim, recovery,            *)
(* completion, maintenance; application/workflow/worker, supervise), and   *)
(* the effects a step sends to the outside world (action_dispatch,         *)
(* action_receipts, action_reconciliation).                                *)
(*                                                                         *)
(* Every PostgreSQL transaction is one action.  They all lock the run row  *)
(* first, so a transaction whose COMMIT answer is lost has taken effect or *)
(* has not by the time anyone, its own resolution included, reads the run: *)
(* it is an action with two outcomes that leaves the worker unsure.  A     *)
(* lease lapses and a backoff elapses at any moment, so a renewal that     *)
(* succeeds is a lease that has not lapsed, and a pending job is due when  *)
(* it is claimed.  An attempt number is claimed once, so the worker and    *)
(* the number stand for the generation of a claim.                         *)
(***************************************************************************)
EXTENDS Integers, FiniteSets

CONSTANTS
    Workers,      \* worker loops
    NoWorker,     \* a NULL worker_id
    MaxSteps,     \* workflow_runs.max_steps: executions a run may activate
    MaxRetries,   \* background_tasks.max_retries
    KindOf,       \* [Steps -> Kinds]: the kind of the step at each ordinal
    OnError,      \* [Steps -> ErrorRoutes]: target of its final_error route
    Replayable    \* the provider's replay contract covers the run

Steps == 1 .. MaxSteps
Attempts == 1 .. MaxRetries
Kinds == {"pure", "effect_free", "remote", "local", "unmarked"}
ErrorRoutes == {"none", "end", "step"}

ASSUME JobsAssumption ==
    /\ NoWorker \notin Workers
    /\ MaxSteps \in Nat \ {0}
    /\ MaxRetries \in Nat \ {0}
    /\ KindOf \in [Steps -> Kinds]
    /\ OnError \in [Steps -> ErrorRoutes]
    /\ Replayable \in BOOLEAN

RunState == {"queued", "running", "waiting", "succeeded", "failed", "cancelled"}
is_terminal == {"succeeded", "failed", "cancelled"}

(* Step kinds whose interruption sent nothing unless a marker says so.     *)
retry_safe_without_marker(kind) == kind \in {"effect_free", "remote", "local"}

VARIABLES
    (* workflow_runs and workflow_executions *)
    run,          \* state, terminal execution (0 is NULL), deadline passed
    exec,         \* of each ordinal: absent, open, or its committed route
    (* background_tasks and task_attempts *)
    job,          \* status, retry_count, worker_id, lease not lapsed
    att,          \* the attempts of each job, by attempt number
    (* workflow_action_dispatches, _remote_entries, _receipts, _evidence *)
    marker,       \* attempt that first reserved the step's effect, 0 for none
    entry,        \* attempts that reserved a request of their own
    receipt,      \* the saved result of the effect
    proofs,       \* grant-eligible final_not_applied evidence
    applied,      \* applied evidence, with or without a recovered result
    conflict,     \* a row of workflow_action_evidence_conflicts
    (* the provider *)
    request,      \* what became of the request of each attempt
    (* the operator *)
    attest,       \* a verified answer about to be settled
    (* the workers *)
    work          \* where each worker stands, for which attempt, and why it stops

ledger == <<run, exec, job, att>>
effects == <<marker, entry, receipt, proofs, applied, conflict>>
vars == <<ledger, effects, request, attest, work>>

NoJob == [status |-> "none", retries |-> 0, owner |-> NoWorker, live |-> FALSE]
NewJob == [NoJob EXCEPT !.status = "pending"]
NoAttempt == [status |-> "none", worker |-> NoWorker, safety |-> "none",
              retirement |-> "none", code |-> "none"]
NoAttest == [says |-> "nothing", step |-> 1, cover |-> {}, entry |-> 1]

(* What a released attempt reports: its class, whether it may be retried,  *)
(* and whether its code bars a retry by an operator.                       *)
Reports == [class : {"retryable", "terminal"}, safety : {"safe", "unknown"},
            code : {"ordinary", "barred"}]
Idle == [pc |-> "idle", step |-> 1, att |-> 1,
         report |-> [class |-> "retryable", safety |-> "safe", code |-> "ordinary"]]

InHandler == {"working", "reserving", "reserved", "entered", "sent", "answered",
              "receipted"}
Phases == {"idle", "claiming", "output", "ready", "releasing", "resolving_release",
           "releasing_again"} \cup InHandler

Init ==
    /\ run = [state |-> "queued", terminal |-> 0, over |-> FALSE]
    /\ exec = [s \in Steps |-> IF s = 1 THEN "open" ELSE "absent"]
    /\ job = [s \in Steps |-> IF s = 1 THEN NewJob ELSE NoJob]
    /\ att = [s \in Steps |-> [n \in Attempts |-> NoAttempt]]
    /\ marker = [s \in Steps |-> 0]
    /\ entry = [s \in Steps |-> {}]
    /\ receipt = [s \in Steps |-> FALSE]
    /\ proofs = [s \in Steps |-> {}]
    /\ applied = [s \in Steps |-> FALSE]
    /\ conflict = [s \in Steps |-> FALSE]
    /\ request = [s \in Steps |-> [n \in Attempts |-> "none"]]
    /\ attest = NoAttest
    /\ work = [w \in Workers |-> Idle]

----------------------------------------------------------------------------
(* Ownership.                                                              *)

(* lock_scope finds a run that is active and not past its deadline, and an *)
(* execution that is not completed.                                        *)
lock_scope(s) ==
    /\ run.state \in {"queued", "running"}
    /\ ~run.over
    /\ exec[s] = "open"

(* lock_fence and live_window: the job and the attempt row are those of    *)
(* the claim, and the lease has not expired.                               *)
live_window(w) ==
    LET s == work[w].step
        n == work[w].att
    IN /\ lock_scope(s)
       /\ job[s].status = "processing"
       /\ job[s].owner = w
       /\ job[s].retries + 1 = n
       /\ job[s].live
       /\ att[s][n].status = "processing"
       /\ att[s][n].worker = w

(* workflow_action_not_applied_available for the entries other than        *)
(* `excluded` (0 for none): a proof that has not expired, that no other    *)
(* entry consumed, that covers every other entry, none of them still       *)
(* processing.                                                             *)
not_applied_available(s, excluded) ==
    {p \in proofs[s] :
        /\ ~conflict[s] /\ ~receipt[s] /\ ~applied[s]
        /\ p.valid
        /\ IF excluded = 0 THEN p.usedBy = {} ELSE excluded \in p.usedBy
        /\ entry[s] \ {excluded} \subseteq p.cover
        /\ excluded \notin p.cover
        /\ \A n \in (entry[s] \cup {marker[s]}) \ {excluded} :
               att[s][n].status # "processing"}

(* workflow_action_retry_safe of an execution that has a marker.           *)
workflow_action_retry_safe(s) ==
    /\ ~conflict[s]
    /\ \/ receipt[s]
       \/ /\ ~applied[s]
          /\ \/ Replayable /\ KindOf[s] = "remote"
             \/ not_applied_available(s, 0) # {}

(* RecoveryPolicy::decide.  A backoff that would end after the run's       *)
(* deadline fails the run.                                                 *)
decide(s, report) ==
    IF report.safety = "unknown" THEN {"Reconcile"}
    ELSE IF report.class = "terminal" \/ job[s].retries + 1 = MaxRetries
         THEN {"FinalError"}
         ELSE {"RetryAt", "FailRun"}

(* A final error takes the step's error route, if it has one and the run   *)
(* has an activation left for it.                                          *)
route_failure(s) == OnError[s] = "end" \/ (OnError[s] = "step" /\ s < MaxSteps)

settled_state(s, decision) ==
    IF decision = "RetryAt" THEN "running"
    ELSE IF decision = "Reconcile" THEN "waiting"
    ELSE IF decision = "FinalError" /\ OnError[s] = "step" /\ s < MaxSteps
         THEN "running" ELSE "failed"

(* retire_on: close the attempt, settle the run, take the error route,     *)
(* charge the job.                                                         *)
retire_on(s, reported, retirement) ==
    LET n == job[s].retries + 1
        report == IF marker[s] = 0 THEN reported
                  ELSE [reported EXCEPT !.safety =
                           IF workflow_action_retry_safe(s) THEN "safe" ELSE "unknown"]
    IN \E decision \in decide(s, report) :
        LET routed == decision = "FinalError" /\ route_failure(s)
            onward == routed /\ OnError[s] = "step"
            state == settled_state(s, decision)
        IN /\ att' = [att EXCEPT ![s][n] =
                        [@ EXCEPT !.status = "failed", !.safety = report.safety,
                                  !.retirement = retirement, !.code = report.code]]
           /\ job' = [t \in Steps |->
                        IF t = s THEN [NoJob EXCEPT
                                !.status = IF decision = "RetryAt" THEN "pending" ELSE "failed",
                                !.retries = n]
                        ELSE IF onward /\ t = s + 1 THEN NewJob ELSE job[t]]
           /\ exec' = [t \in Steps |->
                        IF t = s /\ routed THEN "final_error"
                        ELSE IF onward /\ t = s + 1 THEN "open" ELSE exec[t]]
           /\ run' = [run EXCEPT !.state = state,
                                 !.terminal = IF state = "failed" THEN s ELSE 0]
           /\ attest' = NoAttest

(* The report of an attempt that its handler did not classify.             *)
interrupted(s, class, code) ==
    [class |-> class, code |-> code,
     safety |-> IF retry_safe_without_marker(KindOf[s]) THEN "safe" ELSE "unknown"]

(* Mutant: the ledger row stays open when the job is failed.               *)
retire_jobs_Jobs(cause) ==
    /\ UNCHANGED att
    /\ job' = [s \in Steps |->
                 IF job[s].status \in {"pending", "processing"}
                 THEN [NoJob EXCEPT !.status = "failed", !.retries =
                          IF job[s].status = "processing" THEN job[s].retries + 1
                          ELSE job[s].retries]
                 ELSE job[s]]

(* Mutant: the attempt and its job are charged one after the other.        *)
retire_jobs_Twice(cause) ==
    /\ att' = [s \in Steps |-> [n \in Attempts |->
                 IF job[s].status = "processing" /\ n = job[s].retries + 1
                 THEN [att[s][n] EXCEPT !.status = "failed"] ELSE att[s][n]]]
    /\ job' = [s \in Steps |->
                 IF job[s].status = "processing"
                 THEN [NoJob EXCEPT !.status = "failed", !.retries = job[s].retries + 2]
                 ELSE job[s]]

(* retire_jobs: every processing attempt is closed as unknown and charged, *)
(* every pending job is closed.                                            *)
retire_jobs(cause) ==
    /\ att' = [s \in Steps |-> [n \in Attempts |->
                 IF job[s].status = "processing" /\ n = job[s].retries + 1
                 THEN [att[s][n] EXCEPT !.status = "failed", !.safety = "unknown",
                                        !.retirement = cause, !.code = "barred"]
                 ELSE att[s][n]]]
    /\ job' = [s \in Steps |->
                 IF job[s].status \in {"pending", "processing"}
                 THEN [NoJob EXCEPT !.status = "failed", !.retries =
                          IF job[s].status = "processing" THEN job[s].retries + 1
                          ELSE job[s].retries]
                 ELSE job[s]]

Step(w, pc) == work' = [work EXCEPT ![w].pc = pc]
Fail(w, report) == work' = [work EXCEPT ![w].pc = "releasing", ![w].report = report]
Done(w) == work' = [work EXCEPT ![w] = Idle]

----------------------------------------------------------------------------
(* Claiming.                                                               *)

install(w, s) ==
    LET n == job[s].retries + 1
    IN /\ job' = [job EXCEPT ![s] = [@ EXCEPT !.status = "processing", !.owner = w,
                                              !.live = TRUE]]
       /\ att' = [att EXCEPT ![s][n] = [NoAttempt EXCEPT !.status = "processing",
                                                         !.worker = w]]
       /\ run' = [run EXCEPT !.state = "running"]
       /\ attest' = NoAttest
       /\ UNCHANGED exec

(* claim_io.  Acknowledged, the handler starts; the answer lost, the claim *)
(* was installed or was not.                                               *)
claim_io(w, s) ==
    /\ work[w].pc = "idle"
    /\ lock_scope(s)
    /\ KindOf[s] # "pure"
    /\ job[s].status = "pending"
    /\ job[s].retries < MaxRetries
    /\ \E pc \in {"working", "claiming"} :
         work' = [work EXCEPT ![w] = [Idle EXCEPT !.pc = pc, !.step = s,
                                                  !.att = job[s].retries + 1]]
    /\ \/ install(w, s)
       \/ work'[w].pc = "claiming" /\ UNCHANGED <<ledger, attest>>
    /\ UNCHANGED <<effects, request>>

(* pending_recovery::settle: a pending job is closed without an attempt.   *)
(* Input that does not validate never activated the execution and takes no *)
(* route; neither does the activation limit.                               *)
settle_pending(s, activated) ==
    LET routed == activated /\ route_failure(s)
        onward == routed /\ OnError[s] = "step"
    IN /\ job' = [t \in Steps |->
                    IF t = s THEN [job[s] EXCEPT !.status = "failed"]
                    ELSE IF onward /\ t = s + 1 THEN NewJob ELSE job[t]]
       /\ exec' = [t \in Steps |->
                    IF t = s /\ routed THEN "final_error"
                    ELSE IF onward /\ t = s + 1 THEN "open" ELSE exec[t]]
       /\ run' = [run EXCEPT !.state = IF onward THEN "running" ELSE "failed",
                             !.terminal = IF onward THEN 0 ELSE s]
       /\ attest' = NoAttest
       /\ UNCHANGED att

(* A first claim whose inputs do not validate.                             *)
activate(s) ==
    /\ lock_scope(s)
    /\ KindOf[s] # "pure"
    /\ job[s].status = "pending"
    /\ job[s].retries = 0
    /\ settle_pending(s, FALSE)
    /\ UNCHANGED <<effects, request, work>>

(* Mutant: any live claim of the job is taken for the caller's own.        *)
claimed_on_Job(w) ==
    LET s == work[w].step
    IN /\ work[w].pc = "claiming"
       /\ IF lock_scope(s) /\ job[s].status = "processing" /\ job[s].live
          THEN Step(w, "working") ELSE Done(w)
       /\ UNCHANGED <<ledger, effects, request, attest>>

(* claimed_on: adopt the claim if its attempt row is there and live.       *)
claimed_on(w) ==
    /\ work[w].pc = "claiming"
    /\ IF live_window(w) THEN Step(w, "working") ELSE Done(w)
    /\ UNCHANGED <<ledger, effects, request, attest>>

----------------------------------------------------------------------------
(* The handler, under supervise_io.                                        *)

(* A step without an effect, or with one no marker records, returns a      *)
(* result or a classified failure.                                         *)
execute(w) ==
    LET s == work[w].step
    IN /\ work[w].pc = "working"
       /\ KindOf[s] \in {"effect_free", "unmarked"}
       /\ \/ Step(w, "output")
          \/ \E report \in Reports :
               /\ report.code = "ordinary"
               /\ report.safety = "unknown" => KindOf[s] = "unmarked"
               /\ Fail(w, report)
       /\ UNCHANGED <<ledger, effects, request, attest>>

(* action_step_failure: an action that did not finish is retryable; the    *)
(* marker decides whether that is safe.                                    *)
action_step_failure(w) ==
    Fail(w, [class |-> "retryable", safety |-> "safe", code |-> "ordinary"])

(* Mutant: an existing marker may always be sent again.                    *)
marker_on_Again(s, n) == marker[s] < n

(* marker_on: the first reservation, or an earlier attempt's marker that   *)
(* may be sent again.                                                      *)
marker_on(s, n) ==
    \/ marker[s] = 0
    \/ /\ marker[s] < n
       /\ Replayable \/ not_applied_available(s, 0) # {}

(* reserve_action and reserve_entry_on: the marker, the entry of this      *)
(* attempt, and the proof it uses up.                                      *)
reserve(s, n) ==
    LET available == not_applied_available(s, 0)
    IN /\ marker' = [marker EXCEPT ![s] = IF @ = 0 THEN n ELSE @]
       /\ entry' = [entry EXCEPT ![s] = @ \cup {n}]
       /\ \/ available = {} /\ UNCHANGED proofs
          \/ \E p \in available :
               proofs' = [proofs EXCEPT ![s] = (@ \ {p}) \cup {[p EXCEPT !.usedBy = @ \cup {n}]}]
       /\ UNCHANGED <<receipt, applied, conflict>>

reserve_remote(w) ==
    LET s == work[w].step
        n == work[w].att
    IN /\ work[w].pc = "working"
       /\ KindOf[s] = "remote"
       /\ \/ /\ live_window(w) /\ ~conflict[s] /\ receipt[s]
             /\ Step(w, "output")
             /\ UNCHANGED effects
          \/ /\ \/ ~live_window(w)
                \/ conflict[s]
                \/ ~receipt[s] /\ (~marker_on(s, n) \/ n \in entry[s] \/ applied[s])
             /\ action_step_failure(w)
             /\ UNCHANGED effects
          \/ /\ live_window(w) /\ ~conflict[s] /\ ~receipt[s]
             /\ marker_on(s, n) /\ n \notin entry[s]
             /\ ~applied[s]
             /\ \/ reserve(s, n) /\ Step(w, "reserved")
                \/ reserve(s, n) /\ Step(w, "reserving")
                \/ UNCHANGED effects /\ Step(w, "reserving")
       /\ UNCHANGED <<ledger, request, attest>>

(* resolve_reservation: absent, it aborted; present under a live fence, it *)
(* is the permit; otherwise the outcome stays unknown.                     *)
resolve_reservation(w) ==
    LET s == work[w].step
        n == work[w].att
    IN /\ work[w].pc = "reserving"
       /\ IF n \in entry[s] /\ live_window(w) THEN Step(w, "reserved")
          ELSE action_step_failure(w)
       /\ UNCHANGED <<ledger, effects, request, attest>>

(* enter_remote: the fence and the evidence, read again before the call.   *)
enter_remote(w) ==
    LET s == work[w].step
        n == work[w].att
        consumed == \E p \in proofs[s] : n \in p.usedBy
    IN /\ work[w].pc = "reserved"
       /\ IF /\ live_window(w)
             /\ ~conflict[s] /\ ~applied[s]
             /\ consumed => not_applied_available(s, n) # {}
          THEN Step(w, "entered")
          ELSE action_step_failure(w)
       /\ UNCHANGED <<ledger, effects, request, attest>>

invoke(w) ==
    /\ work[w].pc = "entered"
    /\ request' = [request EXCEPT ![work[w].step][work[w].att] = "flying"]
    /\ Step(w, "sent")
    /\ UNCHANGED <<ledger, effects, attest>>

(* The provider performs a request, or never does.                         *)
provider(s, n) ==
    /\ request[s][n] = "flying"
    /\ \E outcome \in {"applied", "lost"} :
         request' = [request EXCEPT ![s][n] = outcome]
    /\ UNCHANGED <<ledger, effects, attest, work>>

(* Mutant: a call that ends without an answer is saved as a result.        *)
answer_Any(w) ==
    /\ work[w].pc = "sent"
    /\ request[work[w].step][work[w].att] \in {"applied", "lost"}
    /\ Step(w, "answered")
    /\ UNCHANGED <<ledger, effects, request, attest>>

answer(w) ==
    /\ work[w].pc = "sent"
    /\ \/ request[work[w].step][work[w].att] = "applied" /\ Step(w, "answered")
       \/ request[work[w].step][work[w].att] = "lost" /\ action_step_failure(w)
    /\ UNCHANGED <<ledger, effects, request, attest>>

(* The trigger on every row of workflow_action_evidence_conflicts: a step  *)
(* that is not completed loses its pending job, and its run waits for      *)
(* reconciliation unless an attempt of the step is still processing.       *)
conflict_park_pending(s) ==
    /\ job' = [job EXCEPT ![s].status =
                 IF exec[s] = "open" /\ job[s].status = "pending" THEN "failed" ELSE @]
    /\ run' = [run EXCEPT !.state =
                 IF exec[s] = "open" /\ @ \in {"queued", "running"} /\ job[s].status # "processing"
                 THEN "waiting" ELSE @]

(* commit_remote saves what the provider said, with or without the lease.  *)
(* It contradicts any proof that covers this request, and may contradict   *)
(* a result that is already saved.                                         *)
commit_remote(w) ==
    LET s == work[w].step
        n == work[w].att
        breach == \E p \in proofs[s] : n \in p.cover
    IN /\ work[w].pc = "answered"
       /\ \/ \E differs \in {FALSE, receipt[s]} :
               /\ receipt' = [receipt EXCEPT ![s] = TRUE]
               /\ conflict' = [conflict EXCEPT ![s] = @ \/ breach \/ differs]
               /\ IF breach \/ differs
                  THEN conflict_park_pending(s) /\ attest' = NoAttest
                  ELSE UNCHANGED <<run, job, attest>>
               /\ UNCHANGED <<marker, entry, proofs, applied>>
               /\ Step(w, "receipted") \/ action_step_failure(w)
          \/ action_step_failure(w) /\ UNCHANGED <<run, job, effects, attest>>
       /\ UNCHANGED <<exec, att, request>>

return_authorized(w) ==
    /\ work[w].pc = "receipted"
    /\ IF live_window(w) /\ ~conflict[work[w].step] THEN Step(w, "output")
       ELSE action_step_failure(w)
    /\ UNCHANGED <<ledger, effects, request, attest>>

(* local: marker, effect and receipt in one transaction.                   *)
local(w) ==
    LET s == work[w].step
        n == work[w].att
    IN /\ work[w].pc = "working"
       /\ KindOf[s] = "local"
       /\ \/ /\ live_window(w) /\ ~conflict[s] /\ marker[s] = 0
             /\ marker' = [marker EXCEPT ![s] = n]
             /\ receipt' = [receipt EXCEPT ![s] = TRUE]
             /\ request' = [request EXCEPT ![s][n] = "applied"]
             /\ UNCHANGED <<entry, proofs, applied, conflict>>
             /\ Step(w, "output") \/ action_step_failure(w)
          \/ /\ live_window(w) /\ ~conflict[s] /\ marker[s] # 0 /\ receipt[s]
             /\ Step(w, "output")
             /\ UNCHANGED <<effects, request>>
          \/ /\ action_step_failure(w)
             /\ UNCHANGED <<effects, request>>
       /\ UNCHANGED <<ledger, attest>>

(* supervise_io stops the handler: shutdown, deadline, lost lease, a       *)
(* renewal that failed, a result that is too large.                        *)
stop(w) ==
    /\ work[w].pc \in InHandler \cup {"output"}
    /\ Fail(w, interrupted(work[w].step, "retryable", "ordinary"))
    /\ UNCHANGED <<ledger, effects, request, attest>>

validate_io(w) ==
    /\ work[w].pc = "output"
    /\ live_window(w)
    /\ Step(w, "ready")
    /\ UNCHANGED <<ledger, effects, request, attest>>

----------------------------------------------------------------------------
(* Leaving an attempt.                                                     *)

(* release_once: the fence, then retirement.  The answer may be lost       *)
(* whether it applied or not; the second try is the last one.              *)
release_once(w) ==
    LET s == work[w].step
        next == IF work[w].pc = "releasing" THEN "resolving_release" ELSE "idle"
    IN /\ work[w].pc \in {"releasing", "releasing_again"}
       /\ \/ /\ live_window(w)
             /\ retire_on(s, work[w].report, "live")
             /\ Done(w) \/ (next # "idle" /\ Step(w, next))
          \/ /\ UNCHANGED <<ledger, attest>>
             /\ IF live_window(w) /\ next # "idle" THEN Step(w, next) ELSE Done(w)
       /\ UNCHANGED <<effects, request>>

(* released_on: the own attempt row says whether the release applied.      *)
released_on(w) ==
    LET s == work[w].step
        n == work[w].att
    IN /\ work[w].pc = "resolving_release"
       /\ IF att[s][n].status = "processing" THEN Step(w, "releasing_again") ELSE Done(w)
       /\ UNCHANGED <<ledger, effects, request, attest>>

(* batch_commit::complete: the route is committed, the job is closed, the  *)
(* successor is inserted, in the caller's transaction.                     *)
complete(s, target) ==
    LET onward == target = "step"
    IN /\ job' = [t \in Steps |->
                    IF t = s THEN [NoJob EXCEPT !.status = "completed",
                                                !.retries = job[s].retries]
                    ELSE IF onward /\ t = s + 1 THEN NewJob ELSE job[t]]
       /\ exec' = [t \in Steps |-> IF t = s THEN "success"
                                   ELSE IF onward /\ t = s + 1 THEN "open" ELSE exec[t]]
       /\ run' = [run EXCEPT !.state = IF onward THEN "running" ELSE "succeeded",
                             !.terminal = IF onward THEN 0 ELSE s]
       /\ attest' = NoAttest

finish_fenced(s) == att' = [att EXCEPT ![s][job[s].retries + 1].status = "completed"]

(* advance_pure: a step the engine evaluates itself needs no claim.        *)
advance_pure(s) ==
    /\ lock_scope(s)
    /\ KindOf[s] = "pure"
    /\ job[s].status = "pending"
    /\ job[s].retries < MaxRetries
    /\ \/ complete(s, "end") /\ UNCHANGED att
       \/ s < MaxSteps /\ complete(s, "step") /\ UNCHANGED att
       \/ \E activated \in BOOLEAN : settle_pending(s, activated)
    /\ UNCHANGED <<effects, request, work>>

(* Mutant: the completion does not ask whether the attempt is still live.  *)
complete_io_Late(w) ==
    LET s == work[w].step
    IN /\ work[w].pc = "ready"
       /\ exec[s] = "open" /\ run.state \notin is_terminal
       /\ att' = [att EXCEPT ![s][work[w].att].status = "completed"]
       /\ job' = [job EXCEPT ![s] = [NoJob EXCEPT !.status = "completed",
                                                  !.retries = job[s].retries]]
       /\ exec' = [exec EXCEPT ![s] = "success"]
       /\ run' = [run EXCEPT !.state = "succeeded", !.terminal = s]
       /\ attest' = NoAttest
       /\ Done(w)
       /\ UNCHANGED <<effects, request>>

(* complete_io.  An effect whose evidence is contradictory, a result that  *)
(* is invalid and a route past the activation limit retire the attempt.    *)
complete_io(w) ==
    LET s == work[w].step
    IN /\ work[w].pc = "ready"
       /\ \/ /\ live_window(w)
             /\ IF conflict[s]
                THEN retire_on(s, [class |-> "terminal", safety |-> "unknown",
                                   code |-> "ordinary"], "live")
                ELSE \/ retire_on(s, interrupted(s, "terminal", "barred"), "live")
                     \/ complete(s, "end") /\ finish_fenced(s)
                     \/ s < MaxSteps /\ complete(s, "step") /\ finish_fenced(s)
          \/ ~live_window(w) /\ UNCHANGED <<ledger, attest>>
       /\ Done(w)
       /\ UNCHANGED <<effects, request>>

(* A worker process dies, or its write fails and it drops the attempt.     *)
crash(w) ==
    /\ work[w].pc # "idle"
    /\ Done(w)
    /\ UNCHANGED <<ledger, effects, request, attest>>

----------------------------------------------------------------------------
(* Maintenance, by whichever worker polls.                                 *)

lapse(s) ==
    /\ job[s].live
    /\ job' = [job EXCEPT ![s].live = FALSE]
    /\ UNCHANGED <<run, exec, att, effects, request, attest, work>>

(* recover_expired, from the expired-lease sweep or from a claim.          *)
recover_expired(s) ==
    /\ lock_scope(s)
    /\ job[s].status = "processing"
    /\ ~job[s].live
    /\ retire_on(s, interrupted(s, "retryable", "ordinary"), "expired")
    /\ UNCHANGED <<effects, request, work>>

(* A lease never outlives the run's deadline.                              *)
deadline ==
    /\ ~run.over
    /\ run' = [run EXCEPT !.over = TRUE]
    /\ job' = [s \in Steps |-> [job[s] EXCEPT !.live = FALSE]]
    /\ UNCHANGED <<exec, att, effects, request, attest, work>>

(* Mutant: a run that waits is not looked at.                              *)
expire_on_Active ==
    /\ run.over
    /\ run.state \in {"queued", "running"}
    /\ retire_jobs("deadline")
    /\ \E s \in Steps : /\ exec[s] = "open"
                        /\ run' = [run EXCEPT !.state = "failed", !.terminal = s]
    /\ attest' = NoAttest
    /\ UNCHANGED <<exec, effects, request, work>>

expire_on ==
    /\ run.over
    /\ run.state \in {"queued", "running", "waiting"}
    /\ retire_jobs("deadline")
    /\ \E s \in Steps : /\ exec[s] = "open"
                        /\ run' = [run EXCEPT !.state = "failed", !.terminal = s]
    /\ attest' = NoAttest
    /\ UNCHANGED <<exec, effects, request, work>>

----------------------------------------------------------------------------
(* Operators.                                                              *)

(* Mutant: a job that waits for its next attempt is forgotten.             *)
cancel_run_on_Processing ==
    /\ run.state \notin is_terminal
    /\ \E s \in Steps : job[s].status = "pending"
    /\ run' = [run EXCEPT !.state = "cancelled"]
    /\ attest' = NoAttest
    /\ UNCHANGED <<exec, job, att, effects, request, work>>

cancel_run_on ==
    /\ run.state \notin is_terminal
    /\ retire_jobs("cancel")
    /\ run' = [run EXCEPT !.state = "cancelled"]
    /\ attest' = NoAttest
    /\ UNCHANGED <<exec, effects, request, work>>

(* workflow_control_retry_safe and reopen_safe share: the last attempt of  *)
(* the failed job ended live or expired, with a code that may be retried.  *)
reopenable(s) ==
    /\ ~run.over
    /\ exec[s] = "open"
    /\ job[s].status = "failed"
    /\ job[s].retries > 0 /\ job[s].retries < MaxRetries
    /\ LET last == att[s][job[s].retries]
       IN last.status = "failed" /\ last.retirement \in {"live", "expired"}
                                 /\ last.code = "ordinary"
    /\ \A t \in Steps \ {s} : job[t].status \notin {"pending", "processing"}

reopen(s) ==
    /\ job' = [job EXCEPT ![s].status = "pending"]
    /\ run' = [run EXCEPT !.state = "running", !.terminal = 0]
    /\ UNCHANGED <<exec, att>>

retry_on ==
    /\ run.state = "failed"
    /\ run.terminal \in Steps
    /\ reopenable(run.terminal)
    /\ att[run.terminal][job[run.terminal].retries].safety = "safe"
    /\ marker[run.terminal] # 0 => workflow_action_retry_safe(run.terminal)
    /\ reopen(run.terminal)
    /\ attest' = NoAttest
    /\ UNCHANGED <<effects, request, work>>

(* An external verifier looks at the provider for the entries of a         *)
(* snapshot.  A request it does not see may still be on its way.           *)
verify(s) ==
    /\ attest = NoAttest
    /\ KindOf[s] = "remote" /\ marker[s] # 0
    /\ \/ /\ \A n \in entry[s] : request[s][n] # "applied"
          /\ attest' = [says |-> "not_applied", step |-> s, cover |-> entry[s], entry |-> 1]
       \/ \E n \in entry[s], says \in {"applied", "recovered"} :
             /\ request[s][n] = "applied"
             /\ attest' = [says |-> says, step |-> s, cover |-> entry[s], entry |-> n]
    /\ UNCHANGED <<ledger, effects, request, work>>

(* settle: the evidence is recorded if the coverage it was verified for is *)
(* current (a snapshot of an older revision is gone from `attest`), it is  *)
(* compared with what is known, and a step it makes safe is reopened.  A   *)
(* recovered result may differ from the one that is saved.                 *)
settle ==
    \E differs \in {FALSE, receipt[attest.step] /\ attest.says = "recovered"} :
    LET s == attest.step
        negative == attest.says = "not_applied"
        disagrees ==
            IF negative THEN receipt[s] \/ applied[s]
            ELSE differs \/ \E p \in proofs[s] : attest.entry \in p.cover
        known == \E p \in proofs[s] : p.cover = attest.cover
        proof == [cover |-> attest.cover, usedBy |-> {}, valid |-> TRUE]
    IN /\ attest # NoAttest
       /\ attest.cover = entry[s]
       /\ proofs' = [proofs EXCEPT ![s] = IF negative /\ ~known THEN @ \cup {proof} ELSE @]
       /\ applied' = [applied EXCEPT ![s] = @ \/ ~negative]
       /\ receipt' = [receipt EXCEPT ![s] = @ \/ attest.says = "recovered"]
       /\ conflict' = [conflict EXCEPT ![s] = @ \/ disagrees]
       /\ attest' = NoAttest
       /\ UNCHANGED <<exec, att, marker, entry, request, work>>
       /\ LET continued == /\ ~conflict'[s]
                           /\ negative \/ receipt'[s]
                           /\ run.state = "waiting"
                           /\ reopenable(s)
                           /\ workflow_action_retry_safe(s)'
          IN IF continued THEN reopen(s)
             ELSE IF disagrees THEN conflict_park_pending(s) ELSE UNCHANGED <<run, job>>

proof_expires(s) ==
    \E p \in proofs[s] :
        /\ p.valid
        /\ proofs' = [proofs EXCEPT ![s] = (@ \ {p}) \cup {[p EXCEPT !.valid = FALSE]}]
        /\ UNCHANGED <<ledger, marker, entry, receipt, applied, conflict, request, attest,
                       work>>

----------------------------------------------------------------------------

Worker(w) ==
    \/ \E s \in Steps : claim_io(w, s)
    \/ claimed_on(w)
    \/ execute(w)
    \/ reserve_remote(w)
    \/ resolve_reservation(w)
    \/ enter_remote(w)
    \/ invoke(w)
    \/ answer(w)
    \/ commit_remote(w)
    \/ return_authorized(w)
    \/ local(w)
    \/ stop(w)
    \/ validate_io(w)
    \/ release_once(w)
    \/ released_on(w)
    \/ complete_io(w)
    \/ crash(w)

Next ==
    \/ \E w \in Workers : Worker(w)
    \/ \E s \in Steps :
          \/ activate(s)
          \/ advance_pure(s)
          \/ lapse(s)
          \/ recover_expired(s)
          \/ verify(s)
          \/ proof_expires(s)
    \/ \E s \in Steps, n \in Attempts : provider(s, n)
    \/ deadline
    \/ expire_on
    \/ cancel_run_on
    \/ retry_on
    \/ settle

Spec == Init /\ [][Next]_vars

(* The clock reaches the run's deadline and a worker polls for runs past   *)
(* theirs; nothing is assumed of claims, handlers or providers.            *)
FairSpec == Spec /\ WF_vars(deadline) /\ WF_vars(expire_on)

----------------------------------------------------------------------------
(* Properties.                                                             *)

(* Types of the rows, of the evidence and of the workers' positions.       *)
TypeOK ==
    /\ run \in [state : RunState, terminal : 0 .. MaxSteps, over : BOOLEAN]
    /\ exec \in [Steps -> {"absent", "open", "success", "final_error"}]
    /\ job \in [Steps -> [status : {"none", "pending", "processing", "completed", "failed"},
                          retries : 0 .. MaxRetries,
                          owner : Workers \cup {NoWorker}, live : BOOLEAN]]
    /\ att \in [Steps -> [Attempts ->
                 [status : {"none", "processing", "completed", "failed"},
                  worker : Workers \cup {NoWorker},
                  safety : {"none", "safe", "unknown"},
                  retirement : {"none", "live", "expired", "deadline", "cancel"},
                  code : {"none", "ordinary", "barred"}]]]
    /\ marker \in [Steps -> 0 .. MaxRetries]
    /\ entry \in [Steps -> SUBSET Attempts]
    /\ receipt \in [Steps -> BOOLEAN]
    /\ proofs \in [Steps -> SUBSET [cover : SUBSET Attempts, usedBy : SUBSET Attempts,
                                    valid : BOOLEAN]]
    /\ applied \in [Steps -> BOOLEAN]
    /\ conflict \in [Steps -> BOOLEAN]
    /\ request \in [Steps -> [Attempts -> {"none", "flying", "applied", "lost"}]]
    /\ attest \in [says : {"nothing", "not_applied", "applied", "recovered"}, step : Steps,
                   cover : SUBSET Attempts, entry : Attempts]
    /\ work \in [Workers -> [pc : Phases, step : Steps, att : Attempts, report : Reports]]

(* The job row and its ledger tell one story, whoever closed the attempt:  *)
(* a processing job has exactly its current attempt open, under the same   *)
(* worker; any other job has none open; every attempt already charged is   *)
(* closed, and only a completed one beyond those.                          *)
LedgerMatchesJob ==
    \A s \in Steps : \A n \in Attempts :
        /\ (att[s][n].status = "processing") <=>
               (job[s].status = "processing" /\ n = job[s].retries + 1)
        /\ att[s][n].status = "processing" => att[s][n].worker = job[s].owner
        /\ (n <= job[s].retries) <=> att[s][n].status = "failed"
        /\ att[s][n].status = "completed" =>
               job[s].status = "completed" /\ n = job[s].retries + 1
        /\ job[s].status # "processing" => job[s].owner = NoWorker /\ ~job[s].live

(* An active run can always be picked up and an ended one never is: an     *)
(* active run has one open execution whose job is claimable or claimed,    *)
(* with an attempt left (so the sweep for exhausted pending jobs is only a *)
(* backstop); a run waiting for reconciliation has one whose job is        *)
(* closed; a terminal run leaves no job that a worker could take.          *)
FrontierMatchesRun ==
    /\ run.state \in {"queued", "running"} =>
         \E s \in Steps : /\ exec[s] = "open"
                          /\ job[s].status \in {"pending", "processing"}
                          /\ job[s].retries < MaxRetries
                          /\ \A t \in Steps \ {s} :
                               /\ exec[t] # "open"
                               /\ job[t].status \notin {"pending", "processing"}
    /\ run.state = "waiting" =>
         \E s \in Steps : /\ exec[s] = "open" /\ job[s].status = "failed"
                          /\ \A t \in Steps \ {s} : exec[t] # "open"
    /\ run.state \in is_terminal \cup {"waiting"} =>
         \A s \in Steps : job[s].status \notin {"pending", "processing"}

(* A worker that runs a handler runs it for an attempt the ledger records  *)
(* as its own, also when it learnt of the claim by reading it back after a *)
(* lost COMMIT answer.                                                     *)
HandlerOwnsClaim ==
    \A w \in Workers :
        work[w].pc \notin {"idle", "claiming"} => att[work[w].step][work[w].att].worker = w

(* What was decided stays decided: a closed attempt is never reopened or   *)
(* reworded, a committed route never changes, and a succeeded or cancelled *)
(* run stays so, whatever a late worker, sweep or operator still does.     *)
ClosedStaysClosed ==
    [][/\ \A s \in Steps, n \in Attempts :
            att[s][n].status \in {"completed", "failed"} => att'[s][n] = att[s][n]
       /\ \A s \in Steps : exec[s] \in {"success", "final_error"} => exec'[s] = exec[s]
       /\ run.state \in {"succeeded", "cancelled"} => run'.state = run.state]_vars

(* Without a replay contract a second request for one effect is sent only  *)
(* on a proof, used for it alone, that every earlier one was not applied.  *)
NoBlindResend ==
    ~Replayable =>
        \A s \in Steps : \A a, b \in Attempts :
            /\ a < b
            /\ request[s][a] # "none" /\ request[s][b] # "none"
            => \E p \in proofs[s] : a \in p.cover /\ p.usedBy = {b}

(* A step with an effect succeeds only if the provider performed it and    *)
(* the result is saved, whichever attempt did it.                          *)
SuccessHasEffect ==
    \A s \in Steps :
        KindOf[s] \in {"remote", "local"} /\ exec[s] = "success" =>
            receipt[s] /\ \E n \in Attempts : request[s][n] = "applied"

(* Every run ends for good: no wait, retry or operator keeps it open past  *)
(* its deadline.                                                           *)
RunSettles == <>[](run.state \in is_terminal)

============================================================================
