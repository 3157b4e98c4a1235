---------------------------- MODULE InboundInbox ----------------------------
(***************************************************************************)
(* How a mail becomes one canonical message: the durable inbox of          *)
(* authenticated provider events (adapters/persistence/inbound_event), the *)
(* worker that decodes and commits them under a lease                      *)
(* (application/services/inbound_event_worker), the inbound commit         *)
(* (adapters/persistence/thread/inbound) and the SMTP session that commits *)
(* directly (adapters/smtp/server).  The same mail may arrive several      *)
(* times, over either path, while channel settings are being edited.       *)
(*                                                                         *)
(* Every PostgreSQL transaction is one action.  A commit whose answer is   *)
(* lost leaves its task in "landed".  A supervised future may be dropped   *)
(* between any two of its steps.  A lease lapses, a backoff elapses and a  *)
(* retention period passes at any moment, so a renewal that succeeds is a  *)
(* lease that has not lapsed.                                              *)
(***************************************************************************)
EXTENDS Integers, FiniteSets

CONSTANTS
    Mails,            \* mails, by the key that identifies one for a company
    Workers,          \* inbound event worker processes
    Sessions,         \* SMTP sessions
    NoWorker,         \* a NULL owner_worker_id
    NoMail,           \* an SMTP session between two transactions
    MaxAttempts,      \* inbound_events.max_attempts
    MaxArrivals,      \* bound: times a mail is delivered to the platform
    MaxEdits,         \* bound: channel settings edits
    BatchLimit,       \* INBOUND_EVENT_CLAIM_BATCH
    Concurrency,      \* WORKER_CONCURRENCY
    PerCompany,       \* PER_COMPANY_CONCURRENCY
    CompanyOf,        \* [Mails -> companies]
    ScopeOf,          \* [Mails -> (company, installation) pairs]
    Direct,           \* mails that arrive over SMTP; the others over the webhook
    WithAttachments,  \* mails that carry attachments to upload
    Accepts,          \* {<<mail, revision>>}: routing accepts it under these settings
    Drops             \* {<<mail, revision>>}: it may choose not to route it under these

MaxClaims == MaxAttempts * MaxArrivals

ASSUME InboxAssumption ==
    /\ NoWorker \notin Workers
    /\ NoMail \notin Mails
    /\ MaxAttempts \in Nat \ {0}
    /\ MaxArrivals \in Nat
    /\ MaxEdits \in Nat
    /\ BatchLimit \in Nat \ {0}
    /\ Concurrency \in Nat \ {0}
    /\ PerCompany \in Nat \ {0}
    /\ \A m, n \in Mails : ScopeOf[m] = ScopeOf[n] => CompanyOf[m] = CompanyOf[n]
    /\ Direct \subseteq Mails
    /\ WithAttachments \subseteq Mails
    /\ Accepts \subseteq Mails \X (0 .. MaxEdits)
    /\ Drops \subseteq Mails \X (0 .. MaxEdits)

InboundEventStatus ==
    {"pending", "processing", "retryable", "completed", "ignored", "dead_letter"}
is_claimable == {"pending", "retryable"}
is_terminal == {"completed", "ignored", "dead_letter"}

(* canonical_message_hash of a mail: its bytes are fixed by its key, so    *)
(* what varies is AttachmentMetadata.storage_key, Some when the upload     *)
(* succeeded and None when it failed.                                      *)
Hashes == {"uploaded", "not_uploaded"}

(* What routing planned: the settings revision it read, and the hash.      *)
Plans == [revision : 0 .. MaxEdits, hash : Hashes]
NoPlan == [revision |-> 0, hash |-> "uploaded"]

(* What a sender was told of a mail, and the settings it was routed under. *)
Answers == [code : {"250", "451", "550"}, revision : 0 .. MaxEdits]

VARIABLES
    (* inbound_events *)
    status,       \* status, "absent" when there is no row
    attempt,      \* attempt_count
    lease,        \* execution_id (0 is NULL), owner_worker_id, not lapsed
    due,          \* available_at <= now
    minted,       \* executions minted so far for this key
    arrivals,     \* deliveries of the mail so far
    (* the canonical store *)
    message,      \* content hash of the stored message, "none" without one
    storedAt,     \* settings revision in force when it was stored
    admissions,   \* times admission intents were written for it
    revision,     \* channels.settings_revision
    bounces,      \* bounce notices queued, by mail and the settings they quote
    (* one worker: its claimed batch *)
    phase,        \* where the task of each claimed event stands
    exec,         \* execution id under which the event was claimed
    plan,         \* the commit request the decoder built
    (* SMTP sessions *)
    session,      \* mail and plan of a session about to commit
    told          \* answers the senders of each mail got

rowVars == <<status, attempt, lease, due, minted>>
storeVars == <<message, storedAt, admissions>>
workerVars == <<phase, exec, plan>>
smtpVars == <<session, told>>
vars == <<rowVars, arrivals, storeVars, revision, bounces, workerVars, smtpVars>>

NoLease == [exec |-> 0, owner |-> NoWorker, live |-> FALSE]
IdleSession == [mail |-> NoMail, plan |-> NoPlan]

Running == {"decoding", "committing", "landed", "ignore", "retry", "terminal"}
Phases == {"none", "waiting", "panicked"} \cup Running
Supervised == {"decoding", "committing", "landed"}

Init ==
    /\ status = [m \in Mails |-> "absent"]
    /\ attempt = [m \in Mails |-> 0]
    /\ lease = [m \in Mails |-> NoLease]
    /\ due = [m \in Mails |-> TRUE]
    /\ minted = [m \in Mails |-> 0]
    /\ arrivals = [m \in Mails |-> 0]
    /\ message = [m \in Mails |-> "none"]
    /\ storedAt = [m \in Mails |-> 0]
    /\ admissions = [m \in Mails |-> 0]
    /\ revision = 0
    /\ bounces = {}
    /\ phase = [w \in Workers |-> [m \in Mails |-> "none"]]
    /\ exec = [w \in Workers |-> [m \in Mails |-> 0]]
    /\ plan = [w \in Workers |-> [m \in Mails |-> NoPlan]]
    /\ session = [s \in Sessions |-> IdleSession]
    /\ told = [m \in Mails |-> {}]

----------------------------------------------------------------------------
(* The inbox.                                                              *)

(* store_authenticated: the bytes become a row.  A key that has a row is a *)
(* duplicate and changes nothing, so only a mail without one is stored.    *)
store_authenticated(m) ==
    /\ status[m] = "absent"
    /\ status' = [status EXCEPT ![m] = "pending"]
    /\ attempt' = [attempt EXCEPT ![m] = 0]
    /\ due' = [due EXCEPT ![m] = TRUE]
    /\ UNCHANGED <<lease, minted>>

(* The webhook answers 200 only once the event is stored.                  *)
resend_api_inbound_webhook(m) ==
    /\ m \notin Direct
    /\ arrivals[m] < MaxArrivals
    /\ arrivals' = [arrivals EXCEPT ![m] = @ + 1]
    /\ store_authenticated(m)
    /\ UNCHANGED <<storeVars, revision, bounces, workerVars, smtpVars>>

Idle(w) == \A m \in Mails : phase[w][m] = "none"

(* claim_inbound_events: a batch of due rows under fresh executions.  When *)
(* the answer is lost, or one row of it cannot be read, the rows stay      *)
(* leased and the worker knows nothing of them.                            *)
claim_inbound_events(w, S) ==
    /\ Idle(w)
    /\ S # {} /\ Cardinality(S) <= BatchLimit
    /\ \A m \in S : status[m] \in is_claimable /\ due[m]
    /\ status' = [m \in Mails |-> IF m \in S THEN "processing" ELSE status[m]]
    /\ minted' = [m \in Mails |-> IF m \in S THEN minted[m] + 1 ELSE minted[m]]
    /\ lease' = [m \in Mails |->
                    IF m \in S THEN [exec |-> minted[m] + 1, owner |-> w, live |-> TRUE]
                    ELSE lease[m]]
    /\ \/ /\ phase' = [phase EXCEPT ![w] =
                          [m \in Mails |-> IF m \in S THEN "waiting" ELSE "none"]]
          /\ exec' = [exec EXCEPT ![w] =
                         [m \in Mails |-> IF m \in S THEN minted[m] + 1 ELSE 0]]
       \/ UNCHANGED <<phase, exec>>
    /\ UNCHANGED <<attempt, due, arrivals, storeVars, revision, bounces, plan, smtpVars>>

(* The row still belongs to the execution this worker claimed.             *)
owns_row(w, m) ==
    /\ status[m] = "processing"
    /\ lease[m].exec = exec[w][m]
    /\ lease[m].owner = w

(* The fence of a settlement: owned, and lock_expires_at > now.            *)
live_fence(w, m) == owns_row(w, m) /\ lease[m].live

(* The task of one event is over.                                          *)
TaskEnds(w, m) ==
    /\ phase' = [phase EXCEPT ![w][m] = "none"]
    /\ exec' = [exec EXCEPT ![w][m] = 0]
    /\ plan' = [plan EXCEPT ![w][m] = NoPlan]

TaskGoesTo(w, m, p) ==
    /\ phase' = [phase EXCEPT ![w][m] = p]
    /\ UNCHANGED <<exec, plan>>

Tasks(w, S) == {m \in Mails : phase[w][m] \in S}

(* next_schedulable: a free slot, no other event of the same installation, *)
(* and fewer than two of the company.  A scope whose task panicked is      *)
(* never freed in this batch.                                              *)
next_schedulable(w, m) ==
    /\ phase[w][m] = "waiting"
    /\ Cardinality(Tasks(w, Running)) < Concurrency
    /\ \A n \in Tasks(w, Running \cup {"panicked"}) : ScopeOf[n] # ScopeOf[m]
    /\ Cardinality({n \in Tasks(w, Running \cup {"panicked"}) : CompanyOf[n] = CompanyOf[m]})
          < PerCompany

process_claimed(w, m) ==
    /\ next_schedulable(w, m)
    /\ TaskGoesTo(w, m, "decoding")
    /\ UNCHANGED <<rowVars, arrivals, storeVars, revision, bounces, smtpVars>>

(* preflight_inbound: routing under the settings in force.                 *)
preflight_inbound(m) == <<m, revision>> \in Accepts

(* The rejections that are decisions and not failures: an auto-reply, a    *)
(* system address that was answered, a thread at its turn limit.  The last *)
(* depends on the hour's messages too, so a mail the settings accept may   *)
(* still meet it.                                                          *)
chooses_not_to_route(m) == <<m, revision>> \in Drops

(* persist: the commit requests one routing of the mail can lead to, by    *)
(* whether its attachments could be uploaded.                              *)
persist(m) ==
    {[revision |-> revision, hash |-> h] :
        h \in IF m \in WithAttachments THEN Hashes ELSE {"uploaded"}}

(* handle_bounce_dispatch: keyed by what the bounce says.                  *)
handle_bounce_dispatch(m) == bounces' = bounces \cup {<<m, revision>>}

(* decode: a provider event that is no message or a mail that is rejected  *)
(* without a bounce, a transient or a permanent failure, a mail routing    *)
(* refuses with a bounce (which is queued first), or a mail it accepts,    *)
(* whose attachments are uploaded, successfully or not, and whose commit   *)
(* request names the settings it was routed under.                         *)
decode(w, m) ==
    /\ phase[w][m] = "decoding"
    /\ \/ /\ \E p \in {"ignore", "retry", "terminal"} : TaskGoesTo(w, m, p)
          /\ UNCHANGED bounces
       \/ /\ ~preflight_inbound(m)
          /\ handle_bounce_dispatch(m)
          /\ \E p \in {"ignore", "retry"} : TaskGoesTo(w, m, p)
       \/ /\ preflight_inbound(m)
          /\ \E p \in persist(m) : plan' = [plan EXCEPT ![w][m] = p]
          /\ phase' = [phase EXCEPT ![w][m] = "committing"]
          /\ UNCHANGED <<exec, bounces>>
    /\ UNCHANGED <<rowVars, arrivals, storeVars, revision, smtpVars>>

----------------------------------------------------------------------------
(* The inbound commit, one transaction for both paths.                     *)

(* Mutant: commit whatever routing planned, however old.                   *)
unverified_settings(p) == TRUE

(* verify_channel_settings, under the channel gates: no edit landed since  *)
(* routing read the settings.  Otherwise the commit is Superseded.         *)
verify_channel_settings(p) == p.revision = revision

(* Mutant: never look for a message the key already names.                 *)
no_existing_message(m) == FALSE

existing_message(m) == message[m] # "none"

(* reuse_or_reject: a stored key with other content is a collision.        *)
reuse_or_reject(m, p) == message[m] = p.hash

Collides(m, p) ==
    /\ verify_channel_settings(p)
    /\ existing_message(m)
    /\ ~reuse_or_reject(m, p)

(* The rows of a new message, its admission intents among them.            *)
store_canonical(m, p) ==
    /\ message' = [message EXCEPT ![m] = p.hash]
    /\ storedAt' = [storedAt EXCEPT ![m] = revision]
    /\ admissions' = [admissions EXCEPT ![m] = @ + 1]

(* commit_on: a redelivery writes nothing.                                 *)
commit_on(m, p) ==
    /\ verify_channel_settings(p)
    /\ ~Collides(m, p)
    /\ IF existing_message(m)
       THEN UNCHANGED storeVars
       ELSE store_canonical(m, p)

(* Mutant: a completion that matches no row is not an error.               *)
ignores_zero_rows(w, m) == TRUE

(* complete_claimed_event: the fence is compared with the start of the     *)
(* transaction, so a lease that lapsed during it still counts; a row that  *)
(* was reaped meanwhile rolls everything back.                             *)
complete_claimed_event(w, m) == owns_row(w, m)

complete_inbound_event_on(w, m) ==
    IF owns_row(w, m)
    THEN /\ status' = [status EXCEPT ![m] = "completed"]
         /\ lease' = [lease EXCEPT ![m] = NoLease]
    ELSE UNCHANGED <<status, lease>>

(* commit_inbound and classify_commit_error: it commits; the database      *)
(* fails or the settings were superseded, to retry; or it is refused for   *)
(* good, as a collision or because the event is no longer ours.            *)
commit_inbound(w, m) ==
    /\ phase[w][m] = "committing"
    /\ \/ /\ complete_claimed_event(w, m)
          /\ commit_on(m, plan[w][m])
          /\ complete_inbound_event_on(w, m)
          /\ TaskGoesTo(w, m, "landed")
          /\ UNCHANGED <<attempt, due, minted>>
       \/ /\ TaskGoesTo(w, m, "retry")
          /\ UNCHANGED <<rowVars, storeVars>>
       \/ /\ \/ Collides(m, plan[w][m])
             \/ verify_channel_settings(plan[w][m]) /\ ~live_fence(w, m)
          /\ TaskGoesTo(w, m, "terminal")
          /\ UNCHANGED <<rowVars, storeVars>>
    /\ UNCHANGED <<arrivals, revision, bounces, smtpVars>>

(* The COMMIT's answer arrives, or is lost and taken for a database error. *)
commit_answers(w, m) ==
    /\ phase[w][m] = "landed"
    /\ TaskEnds(w, m) \/ TaskGoesTo(w, m, "retry")
    /\ UNCHANGED <<rowVars, arrivals, storeVars, revision, bounces, smtpVars>>

----------------------------------------------------------------------------
(* Settlement, recovery and retention.                                     *)

Least(a, b) == IF a < b THEN a ELSE b

(* Mutant: the last attempt is offered again.                              *)
failed_status_off_by_one(n) == IF n + 1 > MaxAttempts THEN "dead_letter" ELSE "retryable"

(* The status after one more failed attempt.                               *)
failed_status(n) == IF n + 1 >= MaxAttempts THEN "dead_letter" ELSE "retryable"

(* settle, with ignore_inbound_event and settle_failure: one fenced UPDATE.*)
(* It may match no row or fail; either way the task is over, and the       *)
(* reaper owns the rest.                                                   *)
settle(w, m) ==
    /\ phase[w][m] \in {"ignore", "retry", "terminal"}
    /\ \/ /\ live_fence(w, m)
          /\ lease' = [lease EXCEPT ![m] = NoLease]
          /\ \/ /\ phase[w][m] = "ignore"
                /\ status' = [status EXCEPT ![m] = "ignored"]
                /\ UNCHANGED <<attempt, due>>
             \/ /\ phase[w][m] = "retry"
                /\ status' = [status EXCEPT ![m] = failed_status(attempt[m])]
                /\ attempt' = [attempt EXCEPT ![m] = @ + 1]
                /\ due' = [due EXCEPT ![m] = FALSE]
             \/ /\ phase[w][m] = "terminal"
                /\ status' = [status EXCEPT ![m] = "dead_letter"]
                /\ attempt' = [attempt EXCEPT ![m] = Least(@ + 1, MaxAttempts)]
                /\ UNCHANGED due
       \/ UNCHANGED <<status, attempt, lease, due>>
    /\ TaskEnds(w, m)
    /\ UNCHANGED <<minted, arrivals, storeVars, revision, bounces, smtpVars>>

(* supervise_event_lease drops the work between any two of its steps: the  *)
(* deadline sends it to a retryable settlement; a renewal that is refused  *)
(* or fails ends the task with nothing written.                            *)
supervise_event_lease(w, m) ==
    /\ phase[w][m] \in Supervised
    /\ TaskGoesTo(w, m, "retry") \/ TaskEnds(w, m)
    /\ UNCHANGED <<rowVars, arrivals, storeVars, revision, bounces, smtpVars>>

(* A child panics: process_batch never frees its scope.                    *)
TaskPanics(w, m) ==
    /\ phase[w][m] \in Running
    /\ TaskGoesTo(w, m, "panicked")
    /\ UNCHANGED <<rowVars, arrivals, storeVars, revision, bounces, smtpVars>>

(* process_batch returns: nothing runs and nothing can be scheduled.       *)
(* Events still waiting behind a panicked scope are abandoned to their     *)
(* leases, and so is the whole batch when the process dies or the shutdown *)
(* broadcast aborts every child.                                           *)
BatchEnds(w) ==
    /\ ~Idle(w)
    /\ phase' = [phase EXCEPT ![w] = [m \in Mails |-> "none"]]
    /\ exec' = [exec EXCEPT ![w] = [m \in Mails |-> 0]]
    /\ plan' = [plan EXCEPT ![w] = [m \in Mails |-> NoPlan]]
    /\ UNCHANGED <<rowVars, arrivals, storeVars, revision, bounces, smtpVars>>

process_batch_returns(w) ==
    /\ Tasks(w, Running) = {}
    /\ \A m \in Mails : ~next_schedulable(w, m)
    /\ BatchEnds(w)

LeaseLapses(m) ==
    /\ lease[m].live
    /\ lease' = [lease EXCEPT ![m].live = FALSE]
    /\ UNCHANGED <<status, attempt, due, minted, arrivals, storeVars, revision, bounces,
                   workerVars, smtpVars>>

BackoffElapses(m) ==
    /\ status[m] = "retryable" /\ ~due[m]
    /\ due' = [due EXCEPT ![m] = TRUE]
    /\ UNCHANGED <<status, attempt, lease, minted, arrivals, storeVars, revision, bounces,
                   workerVars, smtpVars>>

(* Mutant: sweep every row whose lease columns are empty or lapsed.        *)
expired_in_any_status(m) == status[m] # "absent" /\ ~lease[m].live

(* Mutant: sweep only rows whose lease columns are malformed.              *)
expired_when_malformed(m) == status[m] = "processing" /\ lease[m].exec = 0

Expired(m) == status[m] = "processing" /\ ~lease[m].live

(* reap_expired_inbound_events, one UPDATE: every lapsed lease costs an    *)
(* attempt.                                                                *)
reap_expired_inbound_events(w) ==
    /\ Idle(w)
    /\ \E m \in Mails : Expired(m)
    /\ status' = [m \in Mails |-> IF Expired(m) THEN failed_status(attempt[m]) ELSE status[m]]
    /\ attempt' = [m \in Mails |-> IF Expired(m) THEN attempt[m] + 1 ELSE attempt[m]]
    /\ due' = [m \in Mails |-> due[m] /\ ~Expired(m)]
    /\ lease' = [m \in Mails |-> IF Expired(m) THEN NoLease ELSE lease[m]]
    /\ UNCHANGED <<minted, arrivals, storeVars, revision, bounces, workerVars, smtpVars>>

(* purge_inbound_events: a settled row past its retention period.          *)
purge_inbound_events(w, m) ==
    /\ Idle(w)
    /\ status[m] \in is_terminal
    /\ status' = [status EXCEPT ![m] = "absent"]
    /\ attempt' = [attempt EXCEPT ![m] = 0]
    /\ due' = [due EXCEPT ![m] = TRUE]
    /\ UNCHANGED <<lease, minted, arrivals, storeVars, revision, bounces, workerVars, smtpVars>>

(* A channel settings edit, which moves settings_revision on.              *)
update_channel ==
    /\ revision < MaxEdits
    /\ revision' = revision + 1
    /\ UNCHANGED <<rowVars, arrivals, storeVars, bounces, workerVars, smtpVars>>

----------------------------------------------------------------------------
(* SMTP: the session holds the mail until the commit is answered.          *)

(* Mutant: a commit that failed is answered like one that went through.    *)
always_accepted(ingest) == "250"

(* for_ingest and for_error: what the sender is told of an ingest that     *)
(* committed, that routing dropped or refused, or that failed.  A mail     *)
(* that is no message at all is refused too.                               *)
SmtpAnswer(ingest) ==
    CASE ingest \in {"committed", "dropped"} -> "250"
      [] ingest = "refused"                  -> "550"
      [] ingest = "failed"                   -> "451"

(* The session answers a mail that was routed under the settings r.        *)
Says(m, ingest, r) ==
    told' = [told EXCEPT ![m] = @ \cup {[code |-> SmtpAnswer(ingest), revision |-> r]}]

(* finish_data_transaction up to the commit: routing accepts the mail and  *)
(* its attachments are uploaded, or not.  A mail it drops or refuses is    *)
(* answered without storing anything, and so is one that took longer than  *)
(* DATA_TIMEOUT; a routing or an upload that fails closes the connection   *)
(* with nothing said.                                                      *)
finish_data_transaction(s, m) ==
    /\ session[s].mail = NoMail
    /\ m \in Direct
    /\ arrivals[m] < MaxArrivals
    /\ arrivals' = [arrivals EXCEPT ![m] = @ + 1]
    /\ \/ /\ preflight_inbound(m)
          /\ \E p \in persist(m) : session' = [session EXCEPT ![s] = [mail |-> m, plan |-> p]]
          /\ UNCHANGED told
       \/ /\ \/ chooses_not_to_route(m) /\ Says(m, "dropped", revision)
             \/ ~preflight_inbound(m) /\ Says(m, "refused", revision)
             \/ Says(m, "failed", revision)
             \/ UNCHANGED told
          /\ UNCHANGED session
    /\ UNCHANGED <<rowVars, storeVars, revision, bounces, workerVars>>

(* commit_prepared_inbound and the answer: committed and answered so;      *)
(* committed, but the COMMIT's answer or the read after it is lost, which  *)
(* is a transient failure to the sender; or not committed.  The connection *)
(* or the process may also die with nothing said, before or after.         *)
commit_prepared_inbound(s) ==
    LET m == session[s].mail
        r == session[s].plan.revision
    IN  /\ m # NoMail
        /\ \/ /\ commit_on(m, session[s].plan)
              /\ Says(m, "committed", r) \/ Says(m, "failed", r) \/ UNCHANGED told
           \/ /\ Says(m, "failed", r) \/ UNCHANGED told
              /\ UNCHANGED storeVars
        /\ session' = [session EXCEPT ![s] = IdleSession]
        /\ UNCHANGED <<rowVars, arrivals, revision, bounces, workerVars>>

----------------------------------------------------------------------------
TaskStep(w, m) ==
    \/ process_claimed(w, m)
    \/ decode(w, m)
    \/ commit_inbound(w, m)
    \/ commit_answers(w, m)
    \/ settle(w, m)
    \/ supervise_event_lease(w, m)

ClaimsEvent(w, m) == \E S \in SUBSET Mails : m \in S /\ claim_inbound_events(w, S)

Next ==
    \/ \E m \in Mails :
          \/ resend_api_inbound_webhook(m)
          \/ LeaseLapses(m)
          \/ BackoffElapses(m)
          \/ \E w \in Workers :
                \/ TaskStep(w, m)
                \/ TaskPanics(w, m)
                \/ ClaimsEvent(w, m)
                \/ purge_inbound_events(w, m)
          \/ \E s \in Sessions : finish_data_transaction(s, m)
    \/ \E w \in Workers : BatchEnds(w) \/ reap_expired_inbound_events(w)
    \/ \E s \in Sessions : commit_prepared_inbound(s)
    \/ update_channel

Spec == Init /\ [][Next]_vars

(* The loop of a worker runs, its tasks end (the deadline bounds each), a  *)
(* lease nobody renews lapses, a backoff elapses, and claims take the      *)
(* longest due first.                                                      *)
Fairness ==
    /\ \A w \in Workers :
          /\ WF_vars(process_batch_returns(w))
          /\ WF_vars(reap_expired_inbound_events(w))
          /\ \A m \in Mails : WF_vars(TaskStep(w, m)) /\ WF_vars(ClaimsEvent(w, m))
    /\ \A m \in Mails : WF_vars(LeaseLapses(m)) /\ WF_vars(BackoffElapses(m))

FairSpec == Spec /\ Fairness

----------------------------------------------------------------------------
(* Properties.                                                             *)

(* inbound_events_lease_check and _attempt_check, and the budget behind    *)
(* them: an event that can still run has an attempt left, and each attempt *)
(* is charged for at most one claim.                                       *)
StoredChecks ==
    \A m \in Mails :
        /\ (status[m] = "processing") = (lease[m].exec # 0)
        /\ status[m] \in is_claimable \cup {"processing"} => attempt[m] < MaxAttempts
        /\ minted[m] <= MaxAttempts * arrivals[m]

(* Every column, task and session stays in its range, attempt_count never  *)
(* passes max_attempts, and every row satisfies the table's checks.        *)
TypeOK ==
    /\ status \in [Mails -> InboundEventStatus \cup {"absent"}]
    /\ attempt \in [Mails -> 0 .. MaxAttempts]
    /\ lease \in [Mails ->
          [exec : 0 .. MaxClaims, owner : Workers \cup {NoWorker}, live : BOOLEAN]]
    /\ due \in [Mails -> BOOLEAN]
    /\ minted \in [Mails -> 0 .. MaxClaims]
    /\ arrivals \in [Mails -> 0 .. MaxArrivals]
    /\ message \in [Mails -> Hashes \cup {"none"}]
    /\ storedAt \in [Mails -> 0 .. MaxEdits]
    /\ admissions \in [Mails -> Nat]
    /\ revision \in 0 .. MaxEdits
    /\ bounces \subseteq Mails \X (0 .. MaxEdits)
    /\ phase \in [Workers -> [Mails -> Phases]]
    /\ exec \in [Workers -> [Mails -> 0 .. MaxClaims]]
    /\ plan \in [Workers -> [Mails -> Plans]]
    /\ session \in [Sessions -> [mail : Mails \cup {NoMail}, plan : Plans]]
    /\ told \in [Mails -> SUBSET Answers]
    /\ StoredChecks

(* A mail admits workflow runs at most once, however often it is           *)
(* delivered, retried after a lost answer, or offered again once its event *)
(* was purged (recognise_redelivery: "the alternative is a second workflow *)
(* admission for the same turn").                                          *)
AdmittedOnce ==
    \A m \in Mails : admissions[m] = IF message[m] = "none" THEN 0 ELSE 1

(* The message and the completion of its event move together: while the    *)
(* only delivery of a mail is in the inbox, its message exists exactly     *)
(* when its event is completed, so a reaped, reclaimed or dead-lettered    *)
(* event never left a message behind (complete_claimed_event).             *)
MessageMovesWithEvent ==
    \A m \in Mails \ Direct :
        arrivals[m] = 1 /\ status[m] # "absent" =>
            (message[m] # "none" <=> status[m] = "completed")

(* A 250 acknowledges a stored message, or one the platform may choose not *)
(* to route under the settings it read: never "something nothing had       *)
(* written" for a reason of its own (SmtpAnswer, for_error).               *)
AcceptedIsStored ==
    \A m \in Mails : \A a \in told[m] :
        a.code = "250" => message[m] # "none" \/ <<m, a.revision>> \in Drops

(* A stored message was acceptable under the settings in force at the      *)
(* moment it was stored, whatever was edited between routing and commit    *)
(* (hold_channel_settings).                                                *)
StoredUnderSettingsInForce ==
    \A m \in Mails : message[m] # "none" => <<m, storedAt[m]>> \in Accepts

(* A settled event stays as it is until retention deletes it: no late      *)
(* settlement, sweep or claim reopens it.                                  *)
SettledIsFinal ==
    [][\A m \in Mails : status[m] \in is_terminal => status'[m] \in {status[m], "absent"}]_vars

(* Every stored event ends: completed, ignored, dead-lettered or, having   *)
(* been one of these, purged.                                              *)
EventsSettle ==
    \A m \in Mails :
        status[m] \in is_claimable \cup {"processing"}
            ~> status[m] \in is_terminal \cup {"absent"}

(* "A redelivery is not an error" (application/transport/ingress.rs): no   *)
(* commit of a mail whose message is stored is refused as a collision.     *)
RedeliveryIsNotAnError ==
    /\ \A w \in Workers, m \in Mails :
          phase[w][m] = "committing" => ~Collides(m, plan[w][m])
    /\ \A s \in Sessions :
          session[s].mail # NoMail => ~Collides(session[s].mail, session[s].plan)
============================================================================
