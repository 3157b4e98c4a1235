--------------------------- MODULE DeliveryQueue ---------------------------
(***************************************************************************)
(* The durable outbound delivery queue of openbots and the workers that    *)
(* drain it: message_deliveries / message_delivery_parts rows, the fenced  *)
(* writes of adapters/persistence/delivery/{queue,cancellation,evidence},  *)
(* the drain loop of application/services/delivery_worker, the lease       *)
(* sweep, cancellation, and the settlement of an unknown outcome by        *)
(* verified evidence.  Every PostgreSQL transaction is one action; every   *)
(* await between two transactions, and every provider call, is a point     *)
(* where another actor may step, the worker may crash, or a commit's       *)
(* acknowledgement may be lost.                                            *)
(*                                                                         *)
(* Time is abstracted: a lease lapses, a backoff elapses and a proof       *)
(* expires at any moment.  The provider is external: it accepts a request  *)
(* at any moment while the request is on the wire, also after its caller   *)
(* gave up.                                                                *)
(***************************************************************************)
EXTENDS Integers, FiniteSets

CONSTANTS
    Deliveries,     \* ids of message_deliveries rows
    Workers,        \* delivery worker processes
    NoWorker,       \* a NULL owner_worker_id
    NoDelivery,     \* "no current delivery" in a worker's loop
    NParts,         \* frozen parts per delivery
    MaxAttempts,    \* message_deliveries.max_attempts
    MaxClaims,      \* bound: executions minted per delivery
    BatchLimit,     \* DELIVERY_CLAIM_BATCH
    DependsOn,      \* {<<dependent, dependency>>}: depends_on_delivery_id
    Linked,         \* deliveries a workflow run owns (begin_part rechecks it)
    Explicit,       \* of those, message-action destinations: evidence settles them
    Unroutable,     \* deliveries whose transport has no configured adapter
    Replayed,       \* deliveries whose transport calls an ambiguous request Retryable
    Unkeyed         \* of those, the ones sent without an idempotency key

ASSUME ConstantsAssumption ==
    /\ NoWorker \notin Workers
    /\ NoDelivery \notin Deliveries
    /\ NParts \in Nat \ {0}
    /\ MaxAttempts \in Nat \ {0}
    /\ MaxClaims \in Nat
    /\ BatchLimit \in Nat \ {0}
    /\ DependsOn \subseteq Deliveries \X Deliveries
    /\ Linked \subseteq Deliveries
    /\ Explicit \subseteq Linked
    /\ Unroutable \subseteq Deliveries
    /\ Replayed \subseteq Deliveries
    /\ Unkeyed \subseteq Replayed

Parts == 1 .. NParts

DeliveryStatus ==
    {"pending", "sending", "retryable", "delivered", "outcome_unknown", "dead_letter"}
PartStatus ==
    {"prepared", "sending", "delivered", "outcome_unknown", "retryable", "dead"}

is_claimable == {"pending", "retryable"}
needs_attention == {"outcome_unknown", "dead_letter"}
is_unfinished == {"prepared", "retryable"}

ProviderSendOutcome == {"delivered", "retry_after", "retryable", "unknown", "terminal"}

(* A request the provider may see: the execution that began it names it.   *)
Requests == [row : Deliveries, part : Parts, exec : 1 .. MaxClaims]

VARIABLES
    (* message_deliveries *)
    status,         \* status, "absent" before the row exists
    attempt,        \* attempt_count
    cancelled,      \* cancellation_requested_at IS NOT NULL
    lease,          \* execution_id (0 is NULL), owner_worker_id, lease not lapsed
    due,            \* available_at <= now
    proof,          \* the reopen proof a request must still consume
    minted,         \* executions minted so far for this row
    (* message_delivery_parts *)
    part,           \* status of each part
    (* one delivery worker process *)
    phase,          \* where the drain loop stands
    claim,          \* execution id held per delivery, 0 when not in the batch
    held,           \* BatchLeases.held
    todo,           \* unfinished parts of the claimed snapshot
    cur,            \* delivery being sent
    at,             \* part being sent
    outcome,        \* what the provider call returned
    stopping,       \* the shutdown broadcast was sent
    (* the provider *)
    wire,           \* requests that may still be accepted
    accepted,       \* requests the provider accepted
    (* what the worker told its operators *)
    reported        \* status last given to record_settled / record_cancelled

rowVars == <<status, attempt, cancelled, lease, due, proof, minted, part>>
workerVars == <<phase, claim, held, todo, cur, at, outcome, stopping>>
providerVars == <<wire, accepted>>
vars == <<rowVars, workerVars, providerVars, reported>>

NoLease == [exec |-> 0, owner |-> NoWorker, live |-> FALSE]
EmptyBatch == [d \in Deliveries |-> 0]
NoParts == [d \in Deliveries |-> {}]

Init ==
    /\ status = [d \in Deliveries |-> "absent"]
    /\ attempt = [d \in Deliveries |-> 0]
    /\ cancelled = [d \in Deliveries |-> FALSE]
    /\ lease = [d \in Deliveries |-> NoLease]
    /\ due = [d \in Deliveries |-> TRUE]
    /\ proof = [d \in Deliveries |-> "none"]
    /\ minted = [d \in Deliveries |-> 0]
    /\ part = [d \in Deliveries |-> [p \in Parts |-> "prepared"]]
    /\ phase = [w \in Workers |-> "loop"]
    /\ claim = [w \in Workers |-> EmptyBatch]
    /\ held = [w \in Workers |-> {}]
    /\ todo = [w \in Workers |-> NoParts]
    /\ cur = [w \in Workers |-> NoDelivery]
    /\ at = [w \in Workers |-> 0]
    /\ outcome = [w \in Workers |-> "none"]
    /\ stopping = [w \in Workers |-> FALSE]
    /\ wire = {}
    /\ accepted = {}
    /\ reported = [d \in Deliveries |-> "none"]

----------------------------------------------------------------------------
(* Pure rules: domain/entities/transport/delivery.rs and                   *)
(* application/transport/delivery.rs.  ps is a function Parts -> PartStatus *)

(* Mutant: a dead part no longer poisons its delivery.                     *)
aggregate_without_poison(ps) ==
    IF \E p \in Parts : ps[p] = "outcome_unknown" THEN "outcome_unknown"
    ELSE IF \A p \in Parts : ps[p] = "delivered" THEN "delivered"
    ELSE "retryable"

aggregate_parent_status(ps) ==
    IF \E p \in Parts : ps[p] = "dead" THEN "dead_letter"
    ELSE IF \E p \in Parts : ps[p] = "outcome_unknown" THEN "outcome_unknown"
    ELSE IF \A p \in Parts : ps[p] = "delivered" THEN "delivered"
    ELSE "retryable"

(* Mutant: the ordinary aggregate, in which a buried part outranks an      *)
(* ambiguous one.                                                          *)
cancelled_as_aggregate(ps) == aggregate_parent_status(ps)

cancelled_parent_status(ps) ==
    IF \E p \in Parts : ps[p] \in {"outcome_unknown", "sending"} THEN "outcome_unknown"
    ELSE IF \A p \in Parts : ps[p] = "delivered" THEN "delivered"
    ELSE "dead_letter"

(* Mutant: an ambiguous answer is taken for a refusal.                     *)
unknown_as_retryable(o) ==
    CASE o = "delivered"                               -> "delivered"
      [] o \in {"retry_after", "retryable", "unknown"} -> "retryable"
      [] o = "terminal"                                -> "dead"

(* PartTransition::of: the part status an outcome leaves, and whether it   *)
(* spends one of the delivery's attempts.                                  *)
PartTransitionStatus(o) ==
    CASE o = "delivered"                    -> "delivered"
      [] o \in {"retry_after", "retryable"} -> "retryable"
      [] o = "unknown"                      -> "outcome_unknown"
      [] o = "terminal"                     -> "dead"

consumes_attempt(o) == o \in {"retryable", "unknown", "terminal"}

bury_unsent_parts(ps) ==
    [p \in Parts |-> IF ps[p] \in is_unfinished THEN "dead" ELSE ps[p]]

(* LEAST(attempt_count + 1, max_attempts)                                  *)
Least(n) == IF n + 1 <= MaxAttempts THEN n + 1 ELSE MaxAttempts

(* Mutant: the last attempt is handed back.                                *)
attempt_failed_off_by_one(n) == IF n + 1 > MaxAttempts THEN "dead_letter" ELSE "retryable"

(* attempt_failed_set: the status that ends one failed attempt.            *)
attempt_failed_status(n) == IF n + 1 >= MaxAttempts THEN "dead_letter" ELSE "retryable"

----------------------------------------------------------------------------
(* Fences and the writes several handlers share.                           *)

(* Mutant: a write keyed on the row alone.                                 *)
no_fence(w, d) == claim[w][d] # 0

(* own_row_fence_sql: still sending under this execution and this worker.  *)
own_row_fence(w, d) ==
    /\ status[d] = "sending"
    /\ lease[d].exec = claim[w][d]
    /\ lease[d].owner = w

(* live_fence_sql: the same, and the lease has not lapsed.                 *)
live_fence(w, d) == own_row_fence(w, d) /\ lease[d].live

(* settle_cancelled_on: bury what was never sent, record what the rest     *)
(* proves, release the lease.  No attempt is charged.                      *)
settle_cancelled(d, ps) ==
    /\ part' = [part EXCEPT ![d] = bury_unsent_parts(ps)]
    /\ status' = [status EXCEPT ![d] = cancelled_parent_status(bury_unsent_parts(ps))]
    /\ lease' = [lease EXCEPT ![d] = NoLease]
    /\ UNCHANGED <<attempt, due, proof, minted>>

(* Mutant: finishing one delivery stops renewing the rest of the batch.    *)
finish_drops_batch(w, d) ==
    /\ claim' = [claim EXCEPT ![w][d] = 0]
    /\ held' = [held EXCEPT ![w] = {}]
    /\ todo' = [todo EXCEPT ![w][d] = {}]
    /\ cur' = [cur EXCEPT ![w] = NoDelivery]
    /\ at' = [at EXCEPT ![w] = 0]
    /\ outcome' = [outcome EXCEPT ![w] = "none"]
    /\ phase' = [phase EXCEPT ![w] = "loop"]
    /\ UNCHANGED stopping

(* BatchLeases::finish, and the loop moves on to the rest of the batch.    *)
finish(w, d) ==
    /\ claim' = [claim EXCEPT ![w][d] = 0]
    /\ held' = [held EXCEPT ![w] = @ \ {d}]
    /\ todo' = [todo EXCEPT ![w][d] = {}]
    /\ cur' = [cur EXCEPT ![w] = NoDelivery]
    /\ at' = [at EXCEPT ![w] = 0]
    /\ outcome' = [outcome EXCEPT ![w] = "none"]
    /\ phase' = [phase EXCEPT ![w] = "loop"]
    /\ UNCHANGED stopping

(* The worker is between drains: nothing of a batch is left.               *)
Idle(w) == phase[w] = "loop" /\ claim[w] = EmptyBatch

(* d is the delivery the drain loop of w is about to work on.  fair_order  *)
(* decides which one is next; any order is allowed here.                   *)
Turn(w, d) ==
    /\ phase[w] = "loop"
    /\ claim[w][d] # 0
    /\ cur[w] \in {d, NoDelivery}

----------------------------------------------------------------------------
(* Producers and the queue's port.                                         *)

(* insert_delivery_on: the row and its frozen parts appear in one          *)
(* transaction.  A second insert under the same idempotency key is         *)
(* absorbed and changes nothing.                                           *)
enqueue(d) ==
    /\ status[d] = "absent"
    /\ \A e \in Deliveries : <<d, e>> \in DependsOn => status[e] # "absent"
    /\ status' = [status EXCEPT ![d] = "pending"]
    /\ UNCHANGED <<attempt, cancelled, lease, due, proof, minted, part,
                   workerVars, providerVars, reported>>

(* Mutant: a dependent does not wait.                                      *)
claimable_any_time(d) ==
    status[d] \in is_claimable /\ ~cancelled[d] /\ due[d] /\ minted[d] < MaxClaims

Claimable(d) ==
    /\ status[d] \in is_claimable
    /\ ~cancelled[d]
    /\ due[d]
    /\ \A e \in Deliveries : <<d, e>> \in DependsOn => status[e] = "delivered"
    /\ minted[d] < MaxClaims

(* claim_deliveries: lease a batch under fresh execution ids and return    *)
(* its parts.  When the commit's acknowledgement is lost the rows stay     *)
(* leased and the worker knows nothing of them.                            *)
claim_deliveries(w, S) ==
    /\ Idle(w)
    /\ ~stopping[w]
    /\ S # {} /\ Cardinality(S) <= BatchLimit
    /\ \A d \in S : Claimable(d)
    /\ status' = [d \in Deliveries |-> IF d \in S THEN "sending" ELSE status[d]]
    /\ minted' = [d \in Deliveries |-> IF d \in S THEN minted[d] + 1 ELSE minted[d]]
    /\ lease' = [d \in Deliveries |->
                    IF d \in S THEN [exec |-> minted[d] + 1, owner |-> w, live |-> TRUE]
                    ELSE lease[d]]
    /\ reported' = [d \in Deliveries |-> IF d \in S THEN "none" ELSE reported[d]]
    /\ \/ /\ claim' = [claim EXCEPT ![w] =
                          [d \in Deliveries |-> IF d \in S THEN minted[d] + 1 ELSE 0]]
          /\ held' = [held EXCEPT ![w] = S]
          /\ todo' = [todo EXCEPT ![w] =
                          [d \in Deliveries |->
                             IF d \in S THEN {p \in Parts : part[d][p] \in is_unfinished}
                             ELSE {}]]
       \/ UNCHANGED <<claim, held, todo>>
    /\ UNCHANGED <<attempt, cancelled, due, proof, part, phase, cur, at, outcome,
                   stopping, providerVars>>

(* renew_delivery_leases: the held fences whose lease has not lapsed come  *)
(* back extended; the others are dropped.  A renewal that errors drops     *)
(* nothing: begin_part decides.  p is the first unfinished part.           *)
renew_delivery_leases(w, d, p) ==
    LET renewed == {e \in held[w] : live_fence(w, e)} IN
    /\ Turn(w, d)
    /\ ~stopping[w]
    /\ d \notin Unroutable
    /\ p \in todo[w][d] /\ \A q \in todo[w][d] : p <= q
    /\ \/ /\ d \in renewed
          /\ held' = [held EXCEPT ![w] = renewed]
          /\ cur' = [cur EXCEPT ![w] = d]
          /\ at' = [at EXCEPT ![w] = p]
          /\ phase' = [phase EXCEPT ![w] = "ready"]
          /\ UNCHANGED <<claim, todo, outcome, stopping>>
       \/ /\ cur' = [cur EXCEPT ![w] = d]
          /\ at' = [at EXCEPT ![w] = p]
          /\ phase' = [phase EXCEPT ![w] = "ready"]
          /\ UNCHANGED <<claim, held, todo, outcome, stopping>>
       \/ /\ d \notin renewed
          /\ held' = [held EXCEPT ![w] = renewed]
          /\ claim' = [claim EXCEPT ![w][d] = 0]
          /\ todo' = [todo EXCEPT ![w][d] = {}]
          /\ cur' = [cur EXCEPT ![w] = NoDelivery]
          /\ UNCHANGED <<phase, at, outcome, stopping>>
    /\ UNCHANGED <<rowVars, providerVars, reported>>

(* begin_part: the committed marker that comes before the provider call.   *)
(* Lost or lapsed fences start nothing; a cancelled delivery is settled;   *)
(* a refusal by the owning workflow cancels and settles it; a reopened     *)
(* part whose proof expired goes back to outcome_unknown.  When the        *)
(* commit's acknowledgement is lost the worker walks away and no call is   *)
(* made.                                                                   *)
begin_part(w) ==
    LET d == cur[w]
        p == at[w]
        expired == d \in Linked /\ proof[d] = "expired"
    IN
    /\ phase[w] = "ready"
    /\ \/ /\ ~own_row_fence(w, d)
          /\ finish(w, d)
          /\ UNCHANGED rowVars
       \/ /\ own_row_fence(w, d)
          /\ cancelled[d]
          /\ settle_cancelled(d, part[d])
          /\ finish(w, d)
          /\ UNCHANGED cancelled
       \/ /\ own_row_fence(w, d)
          /\ ~cancelled[d]
          /\ d \in Linked
          /\ settle_cancelled(d, part[d])
          /\ cancelled' = [cancelled EXCEPT ![d] = TRUE]
          /\ finish(w, d)
       \/ /\ own_row_fence(w, d)
          /\ ~cancelled[d]
          /\ expired
          /\ part[d][p] = "retryable"
          /\ part' = [part EXCEPT ![d][p] = "outcome_unknown"]
          /\ status' = [status EXCEPT ![d] = "outcome_unknown"]
          /\ lease' = [lease EXCEPT ![d] = NoLease]
          /\ finish(w, d)
          /\ UNCHANGED <<attempt, cancelled, due, proof, minted>>
       \/ /\ live_fence(w, d)
          /\ ~cancelled[d]
          /\ ~expired
          /\ part[d][p] \in is_unfinished
          /\ part' = [part EXCEPT ![d][p] = "sending"]
          /\ proof' = [proof EXCEPT ![d] = "none"]
          /\ \/ /\ phase' = [phase EXCEPT ![w] = "calling"]
                /\ UNCHANGED <<claim, held, todo, cur, at, outcome, stopping>>
             \/ finish(w, d)
          /\ UNCHANGED <<status, attempt, cancelled, lease, due, minted>>
       \/ /\ own_row_fence(w, d)
          /\ ~cancelled[d]
          /\ IF expired THEN part[d][p] # "retryable"
             ELSE ~(lease[d].live /\ part[d][p] \in is_unfinished)
          /\ finish(w, d)
          /\ UNCHANGED rowVars
    /\ UNCHANGED <<providerVars, reported>>

(* The request a worker past begin_part makes.                             *)
RequestOf(w) == [row |-> cur[w], part |-> at[w], exec |-> claim[w][cur[w]]]

(* call_provider: the request leaves this process, unless the shutdown     *)
(* signal is already there.                                                *)
call_provider(w) ==
    /\ phase[w] = "calling"
    /\ \/ /\ ~stopping[w]
          /\ wire' = wire \cup {RequestOf(w)}
          /\ phase' = [phase EXCEPT ![w] = "waiting"]
          /\ UNCHANGED outcome
       \/ /\ stopping[w]
          /\ outcome' = [outcome EXCEPT ![w] = "unknown"]
          /\ phase' = [phase EXCEPT ![w] = "reporting"]
          /\ UNCHANGED wire
    /\ UNCHANGED <<rowVars, claim, held, todo, cur, at, stopping, accepted, reported>>

SamePart(r, s) == r.row = s.row /\ r.part = s.part

(* Mutant: an idempotency key that changes with every attempt.             *)
recognises_no_repeat(r) == FALSE

(* The provider knows the idempotency key of r from a request it accepted. *)
(* The key is the Message-ID of the part: every attempt replays it.        *)
Recognised(r) ==
    /\ r.row \in Replayed \ Unkeyed
    /\ \E s \in accepted : SamePart(r, s)

(* The provider call returns: an acceptance it made, now or for an earlier *)
(* request under the same key; a refusal of this request; or no answer it  *)
(* can rely on.  The last is unknown (the adapter's ambiguity,             *)
(* PROVIDER_TIMEOUT, a shutdown during the call) or, from a transport that *)
(* counts on its key, retryable: a 5xx, a dropped connection, an HTTP      *)
(* timeout or a failed hand-over to an own channel leaves the request      *)
(* where it is, accepted or not.                                           *)
provider_returns(w, o) ==
    LET r == RequestOf(w) IN
    /\ phase[w] = "waiting"
    /\ \/ o = "delivered" /\ r \in accepted /\ wire' = wire
       \/ o = "delivered" /\ r \in wire /\ Recognised(r) /\ wire' = wire \ {r}
       \/ o \in {"retry_after", "retryable", "terminal"} /\ r \in wire /\ wire' = wire \ {r}
       \/ o = "retryable" /\ cur[w] \in Replayed /\ wire' = wire
       \/ o = "unknown" /\ wire' = wire
    /\ outcome' = [outcome EXCEPT ![w] = o]
    /\ phase' = [phase EXCEPT ![w] = "reporting"]
    /\ UNCHANGED <<rowVars, claim, held, todo, cur, at, stopping, accepted, reported>>

(* The provider accepts a request it still holds, whoever still listens,   *)
(* unless it knows it for a repeat.                                        *)
ProviderAccepts(r) ==
    /\ r \in wire
    /\ ~Recognised(r)
    /\ wire' = wire \ {r}
    /\ accepted' = accepted \cup {r}
    /\ UNCHANGED <<rowVars, workerVars, reported>>

(* A request dies on the way, or is a repeat the provider ignores.         *)
RequestDropped(r) ==
    /\ r \in wire
    /\ wire' = wire \ {r}
    /\ UNCHANGED <<rowVars, workerVars, accepted, reported>>

(* aggregate_parent_on keeps the lease while this run can make progress.   *)
KeepsLease(ps, o) ==
    \/ \E p \in Parts : ps[p] = "sending"
    \/ PartTransitionStatus(o) = "delivered" /\ \E p \in Parts : ps[p] \in is_unfinished

(* retry_parent_on / settle_parent_on: where the parts leave the parent.   *)
settle_parent(d, ps, o) ==
    LET target == aggregate_parent_status(ps) IN
    /\ lease' = [lease EXCEPT ![d] = NoLease]
    /\ \/ /\ target = "retryable" /\ consumes_attempt(o)
          /\ status' = [status EXCEPT ![d] = attempt_failed_status(attempt[d])]
          /\ attempt' = [attempt EXCEPT ![d] = @ + 1]
          /\ due' = [due EXCEPT ![d] = FALSE]
       \/ /\ target = "retryable" /\ ~consumes_attempt(o)
          /\ status' = [status EXCEPT ![d] = "retryable"]
          /\ due' = [due EXCEPT ![d] = FALSE]
          /\ UNCHANGED attempt
       \/ /\ target # "retryable"
          /\ status' = [status EXCEPT ![d] = target]
          /\ attempt' = [attempt EXCEPT ![d] = IF consumes_attempt(o) THEN Least(@) ELSE @]
          /\ UNCHANGED due
    /\ UNCHANGED <<cancelled, proof, minted>>

(* complete_part: record what the provider said under the execution's own  *)
(* fence, lapsed lease or not, and settle the parent from its parts.  The  *)
(* worker is told the aggregate; when the acknowledgement is lost it is    *)
(* told nothing and walks away.                                            *)
complete_part(w) ==
    LET d  == cur[w]
        p  == at[w]
        o  == outcome[w]
        ps == [part[d] EXCEPT ![p] = PartTransitionStatus(o)]
        recorded == own_row_fence(w, d) /\ part[d][p] = "sending"
    IN
    /\ phase[w] = "reporting"
    /\ \/ /\ ~recorded
          /\ finish(w, d)
          /\ UNCHANGED <<rowVars, reported>>
       \/ /\ recorded
          /\ cancelled[d]
          /\ settle_cancelled(d, ps)
          /\ finish(w, d)
          /\ UNCHANGED <<cancelled, reported>>
       \/ /\ recorded
          /\ ~cancelled[d]
          /\ KeepsLease(ps, o)
          /\ part' = [part EXCEPT ![d] = ps]
          /\ \/ /\ todo' = [todo EXCEPT ![w][d] = @ \ {p}]
                /\ at' = [at EXCEPT ![w] = 0]
                /\ outcome' = [outcome EXCEPT ![w] = "none"]
                /\ phase' = [phase EXCEPT ![w] = "loop"]
                /\ UNCHANGED <<claim, held, cur, stopping>>
             \/ finish(w, d)
          /\ UNCHANGED <<status, attempt, cancelled, lease, due, proof, minted, reported>>
       \/ /\ recorded
          /\ ~cancelled[d]
          /\ ~KeepsLease(ps, o)
          /\ part' = [part EXCEPT ![d] = ps]
          /\ settle_parent(d, ps, o)
          /\ finish(w, d)
          /\ \/ reported' = [reported EXCEPT ![d] = aggregate_parent_status(ps)]
             \/ UNCHANGED reported
    /\ UNCHANGED providerVars

(* fail_delivery with Disposition::Terminal, the one the worker uses: no   *)
(* adapter speaks the transport this row names.                            *)
fail_delivery(w, d) ==
    /\ Turn(w, d)
    /\ ~stopping[w]
    /\ d \in Unroutable
    /\ finish(w, d)
    /\ \/ ~own_row_fence(w, d) /\ UNCHANGED rowVars
       \/ /\ own_row_fence(w, d) /\ cancelled[d]
          /\ settle_cancelled(d, part[d])
          /\ UNCHANGED cancelled
       \/ /\ own_row_fence(w, d) /\ ~cancelled[d]
          /\ status' = [status EXCEPT ![d] = "dead_letter"]
          /\ attempt' = [attempt EXCEPT ![d] = Least(@)]
          /\ lease' = [lease EXCEPT ![d] = NoLease]
          /\ UNCHANGED <<cancelled, due, proof, minted, part>>
    /\ UNCHANGED <<providerVars, reported>>

(* Mutant: releases a claim without looking for a cancellation.            *)
release_unconditionally(w, d) ==
    /\ stopping[w]
    /\ Turn(w, d) \/ (phase[w] = "ready" /\ cur[w] = d)
    /\ finish(w, d)
    /\ own_row_fence(w, d)
    /\ status' = [status EXCEPT ![d] = "pending"]
    /\ lease' = [lease EXCEPT ![d] = NoLease]
    /\ UNCHANGED <<attempt, cancelled, due, proof, minted, part, providerVars, reported>>

(* release_delivery: a shutdown that arrives before begin_part hands the   *)
(* claim back, uncharged; a cancelled delivery is settled instead.         *)
release_delivery(w, d) ==
    /\ stopping[w]
    /\ Turn(w, d) \/ (phase[w] = "ready" /\ cur[w] = d)
    /\ finish(w, d)
    /\ \/ ~own_row_fence(w, d) /\ UNCHANGED rowVars
       \/ /\ own_row_fence(w, d) /\ cancelled[d]
          /\ settle_cancelled(d, part[d])
          /\ UNCHANGED cancelled
       \/ /\ own_row_fence(w, d) /\ ~cancelled[d]
          /\ status' = [status EXCEPT ![d] = "pending"]
          /\ lease' = [lease EXCEPT ![d] = NoLease]
          /\ UNCHANGED <<attempt, cancelled, due, proof, minted, part>>
    /\ UNCHANGED <<providerVars, reported>>

(* A fenced write whose transaction failed and rolled back: the worker     *)
(* logs it and leaves the delivery to its lease.                           *)
WriteFails(w, d) ==
    /\ \/ Turn(w, d) /\ (stopping[w] \/ d \in Unroutable)
       \/ phase[w] \in {"ready", "reporting"} /\ cur[w] = d
    /\ finish(w, d)
    /\ UNCHANGED <<rowVars, providerVars, reported>>

----------------------------------------------------------------------------
(* The sweep, cancellation and evidence.                                   *)

(* Mutant: the sweep leaves cancelled deliveries to their worker.          *)
expired_uncancelled(d) == status[d] = "sending" /\ ~lease[d].live /\ ~cancelled[d]

Expired(d) == status[d] = "sending" /\ ~lease[d].live

(* Mutant: the sweep takes every stranded part for unsent.                 *)
reaped_parts_unsent(d) ==
    [p \in Parts |-> IF part[d][p] = "sending" THEN "retryable" ELSE part[d][p]]

(* What the sweep makes of a stranded delivery's parts: a part whose       *)
(* request started may be held by the provider.  begin_part stamps         *)
(* request_started_at in the statement that sets sending, so no sending    *)
(* part is without it.                                                     *)
reaped_parts(d) ==
    [p \in Parts |-> IF part[d][p] = "sending" THEN "outcome_unknown" ELSE part[d][p]]

(* A stranded delivery that is neither ambiguous nor cancelled: the sweep  *)
(* ends its attempt and backs off.                                         *)
Retried(d) ==
    /\ Expired(d)
    /\ ~cancelled[d]
    /\ \A p \in Parts : reaped_parts(d)[p] # "outcome_unknown"

(* Mutant: the sweep retries a cancelled delivery.                         *)
reaped_status_uncancelled(d) ==
    IF \E p \in Parts : reaped_parts(d)[p] = "outcome_unknown" THEN "outcome_unknown"
    ELSE attempt_failed_status(attempt[d])

reaped_status(d) ==
    IF \E p \in Parts : reaped_parts(d)[p] = "outcome_unknown" THEN "outcome_unknown"
    ELSE IF cancelled[d] THEN "dead_letter"
    ELSE attempt_failed_status(attempt[d])

(* Mutant: only a dead letter orphans its dependents.                      *)
orphaned_by_dead_letter(d, st) ==
    /\ st[d] \in is_claimable
    /\ \E e \in Deliveries : <<d, e>> \in DependsOn /\ st[e] = "dead_letter"

(* orphan_stuck_dependents_on reads the statuses the lease sweep of the    *)
(* same transaction left behind.                                           *)
Orphaned(d, st) ==
    /\ st[d] \in is_claimable
    /\ \E e \in Deliveries : <<d, e>> \in DependsOn /\ st[e] \in needs_attention

(* reap_expired_deliveries: end every lapsed claim, charging an attempt,   *)
(* then dead-letter the dependents of a predecessor that needs attention.  *)
reap_expired_deliveries(w) ==
    LET swept == [d \in Deliveries |-> IF Expired(d) THEN reaped_status(d) ELSE status[d]]
    IN
    /\ Idle(w)
    /\ ~stopping[w]
    /\ \E d \in Deliveries : Expired(d) \/ Orphaned(d, swept)
    /\ status' = [d \in Deliveries |-> IF Orphaned(d, swept) THEN "dead_letter" ELSE swept[d]]
    /\ attempt' = [d \in Deliveries |->
                      IF Orphaned(d, swept) THEN MaxAttempts
                      ELSE IF Retried(d) THEN attempt[d] + 1
                      ELSE IF Expired(d) THEN Least(attempt[d])
                      ELSE attempt[d]]
    /\ part' = [d \in Deliveries |->
                   IF ~Expired(d) THEN part[d]
                   ELSE IF cancelled[d] THEN bury_unsent_parts(reaped_parts(d))
                   ELSE reaped_parts(d)]
    /\ lease' = [d \in Deliveries |-> IF Expired(d) THEN NoLease ELSE lease[d]]
    /\ due' = [d \in Deliveries |-> due[d] /\ ~Retried(d)]
    /\ UNCHANGED <<cancelled, proof, minted, workerVars, providerVars, reported>>

(* Mutant: a cancellation also buries the unsent parts of a held delivery. *)
cancel_buries_held(d) ==
    /\ ~cancelled[d]
    /\ status[d] \in is_claimable \cup {"sending", "outcome_unknown"}
    /\ cancelled' = [cancelled EXCEPT ![d] = TRUE]
    /\ status' = [status EXCEPT ![d] = IF @ \in is_claimable THEN "dead_letter" ELSE @]
    /\ part' = [part EXCEPT ![d] = bury_unsent_parts(@)]
    /\ UNCHANGED <<attempt, lease, due, proof, minted, workerVars, providerVars, reported>>

(* cancel_locked_deliveries_on, for one delivery of the cancelled run,     *)
(* invocation or removed member: nobody holds a claimable one, so it is    *)
(* superseded now; a held or ambiguous one gets only the intent.           *)
cancel_deliveries(d) ==
    /\ ~cancelled[d]
    /\ status[d] \in is_claimable \cup {"sending", "outcome_unknown"}
    /\ cancelled' = [cancelled EXCEPT ![d] = TRUE]
    /\ \/ /\ status[d] \in is_claimable
          /\ status' = [status EXCEPT ![d] = "dead_letter"]
          /\ part' = [part EXCEPT ![d] = bury_unsent_parts(@)]
       \/ /\ status[d] \notin is_claimable
          /\ UNCHANGED <<status, part>>
    /\ UNCHANGED <<attempt, lease, due, proof, minted, workerVars, providerVars, reported>>

(* What the external verifier may truthfully attest of a delivery: that    *)
(* the provider accepted it, or that it did not and never will, no request *)
(* of it being on the wire or about to leave a worker.                     *)
AttestedApplied(d) == \E r \in accepted : r.row = d
AttestedFinalNotApplied(d) ==
    /\ \A r \in wire \cup accepted : r.row # d
    /\ \A w \in Workers : ~(phase[w] = "calling" /\ cur[w] = d)

(* settle_unknown_delivery_on, under truth_on: evidence is the only way    *)
(* out of outcome_unknown, for a one-part message-action delivery.  The    *)
(* run is live or not as the settlement reads it.                          *)
settle_unknown_delivery(d, disposition, run_live) ==
    LET set(st, pst) ==
            /\ status' = [status EXCEPT ![d] = st]
            /\ part' = [part EXCEPT ![d] = [p \in Parts |-> pst]]
    IN
    /\ status[d] = "outcome_unknown"
    /\ d \in Explicit
    /\ NParts = 1
    /\ part[d][1] = "outcome_unknown"
    /\ \/ /\ disposition = "applied"
          /\ AttestedApplied(d)
          /\ set("delivered", "delivered")
          /\ UNCHANGED <<cancelled, due, proof>>
       \/ /\ disposition = "final_not_applied"
          /\ AttestedFinalNotApplied(d)
          /\ \/ /\ run_live /\ ~cancelled[d] /\ attempt[d] < MaxAttempts
                /\ set("retryable", "retryable")
                /\ due' = [due EXCEPT ![d] = TRUE]
                /\ proof' = [proof EXCEPT ![d] = "valid"]
                /\ UNCHANGED cancelled
             \/ /\ ~run_live \/ cancelled[d]
                /\ set("dead_letter", "dead")
                /\ cancelled' = [cancelled EXCEPT ![d] = TRUE]
                /\ UNCHANGED <<due, proof>>
             \/ /\ run_live /\ ~cancelled[d] /\ attempt[d] >= MaxAttempts
                /\ set("dead_letter", "dead")
                /\ UNCHANGED <<cancelled, due, proof>>
    /\ UNCHANGED <<attempt, lease, minted, workerVars, providerVars, reported>>

----------------------------------------------------------------------------
(* Time, and the life of a worker process.                                 *)

LeaseLapses(d) ==
    /\ status[d] = "sending" /\ lease[d].live
    /\ lease' = [lease EXCEPT ![d] = [exec |-> @.exec, owner |-> @.owner, live |-> FALSE]]
    /\ UNCHANGED <<status, attempt, cancelled, due, proof, minted, part,
                   workerVars, providerVars, reported>>

BackoffElapses(d) ==
    /\ status[d] = "retryable" /\ ~due[d]
    /\ due' = [due EXCEPT ![d] = TRUE]
    /\ UNCHANGED <<status, attempt, cancelled, lease, proof, minted, part,
                   workerVars, providerVars, reported>>

ProofExpires(d) ==
    /\ proof[d] = "valid"
    /\ proof' = [proof EXCEPT ![d] = "expired"]
    /\ UNCHANGED <<status, attempt, cancelled, lease, due, minted, part,
                   workerVars, providerVars, reported>>

ShutdownRequested(w) ==
    /\ phase[w] # "down" /\ ~stopping[w]
    /\ stopping' = [stopping EXCEPT ![w] = TRUE]
    /\ UNCHANGED <<rowVars, phase, claim, held, todo, cur, at, outcome,
                   providerVars, reported>>

(* The process ends: killed at any point, past its shutdown grace, or      *)
(* because run returned.  Only the leases remember what it was doing.      *)
WorkerEnds(w) ==
    /\ phase[w] # "down"
    /\ phase' = [phase EXCEPT ![w] = "down"]
    /\ claim' = [claim EXCEPT ![w] = EmptyBatch]
    /\ held' = [held EXCEPT ![w] = {}]
    /\ todo' = [todo EXCEPT ![w] = NoParts]
    /\ cur' = [cur EXCEPT ![w] = NoDelivery]
    /\ at' = [at EXCEPT ![w] = 0]
    /\ outcome' = [outcome EXCEPT ![w] = "none"]
    /\ stopping' = [stopping EXCEPT ![w] = FALSE]
    /\ UNCHANGED <<rowVars, providerVars, reported>>

(* run returns once the shutdown signal has been drained.                  *)
run_returns(w) == stopping[w] /\ Idle(w) /\ WorkerEnds(w)

WorkerStarts(w) ==
    /\ phase[w] = "down"
    /\ phase' = [phase EXCEPT ![w] = "loop"]
    /\ UNCHANGED <<rowVars, claim, held, todo, cur, at, outcome, stopping,
                   providerVars, reported>>

WorkerStep(w) ==
    \/ \E S \in SUBSET Deliveries : claim_deliveries(w, S)
    \/ \E d \in Deliveries, p \in Parts : renew_delivery_leases(w, d, p)
    \/ begin_part(w)
    \/ call_provider(w)
    \/ \E o \in ProviderSendOutcome : provider_returns(w, o)
    \/ complete_part(w)
    \/ \E d \in Deliveries : fail_delivery(w, d)
    \/ \E d \in Deliveries : release_delivery(w, d)
    \/ reap_expired_deliveries(w)

Environment ==
    \/ \E w \in Workers, d \in Deliveries : WriteFails(w, d)
    \/ \E r \in wire : ProviderAccepts(r) \/ RequestDropped(r)
    \/ \E w \in Workers : ShutdownRequested(w) \/ WorkerEnds(w) \/ WorkerStarts(w)
    \/ \E d \in Deliveries :
          \/ enqueue(d)
          \/ cancel_deliveries(d)
          \/ \E o \in {"applied", "final_not_applied"}, live \in BOOLEAN :
                settle_unknown_delivery(d, o, live)
          \/ LeaseLapses(d) \/ BackoffElapses(d) \/ ProofExpires(d)

Next == (\E w \in Workers : WorkerStep(w)) \/ Environment

Spec == Init /\ [][Next]_vars

(* The steps a claimed batch takes once it is claimed.                     *)
DrainStep(w) ==
    \/ \E d \in Deliveries, p \in Parts : renew_delivery_leases(w, d, p)
    \/ begin_part(w)
    \/ call_provider(w)
    \/ \E o \in ProviderSendOutcome : provider_returns(w, o)
    \/ complete_part(w)
    \/ \E d \in Deliveries : fail_delivery(w, d) \/ release_delivery(w, d)

ClaimsRow(w, d) == \E S \in SUBSET Deliveries : d \in S /\ claim_deliveries(w, S)

(* A process that ended is started again; a drain runs to its end          *)
(* (provider calls have a deadline); leases and backoffs are clocks (a     *)
(* batch renews a lease finitely often); run sweeps before its first claim *)
(* and every REAP_INTERVAL, and claims in due order, so neither is put off *)
(* for ever by crashes.                                                    *)
Fairness ==
    /\ \A w \in Workers :
          /\ WF_vars(WorkerStarts(w))
          /\ WF_vars(run_returns(w))
          /\ WF_vars(DrainStep(w))
          /\ SF_vars(reap_expired_deliveries(w))
    /\ \A d \in Deliveries :
          /\ WF_vars(LeaseLapses(d))
          /\ WF_vars(BackoffElapses(d))
          /\ \A w \in Workers : SF_vars(ClaimsRow(w, d))

FairSpec == Spec /\ Fairness

----------------------------------------------------------------------------
(* Properties.                                                             *)

(* Every column, worker register and request stays in its range; in        *)
(* particular no attempt is charged past max_attempts.                     *)
TypeOK ==
    /\ status \in [Deliveries -> DeliveryStatus \cup {"absent"}]
    /\ attempt \in [Deliveries -> 0 .. MaxAttempts]
    /\ cancelled \in [Deliveries -> BOOLEAN]
    /\ lease \in [Deliveries ->
                    [exec : 0 .. MaxClaims, owner : Workers \cup {NoWorker}, live : BOOLEAN]]
    /\ due \in [Deliveries -> BOOLEAN]
    /\ proof \in [Deliveries -> {"none", "valid", "expired"}]
    /\ minted \in [Deliveries -> 0 .. MaxClaims]
    /\ part \in [Deliveries -> [Parts -> PartStatus]]
    /\ phase \in [Workers -> {"down", "loop", "ready", "calling", "waiting", "reporting"}]
    /\ claim \in [Workers -> [Deliveries -> 0 .. MaxClaims]]
    /\ held \in [Workers -> SUBSET Deliveries]
    /\ todo \in [Workers -> [Deliveries -> SUBSET Parts]]
    /\ cur \in [Workers -> Deliveries \cup {NoDelivery}]
    /\ at \in [Workers -> 0 .. NParts]
    /\ outcome \in [Workers -> ProviderSendOutcome \cup {"none"}]
    /\ stopping \in [Workers -> BOOLEAN]
    /\ wire \subseteq Requests
    /\ accepted \subseteq Requests
    /\ reported \in [Deliveries -> DeliveryStatus \cup {"none"}]

(* No part of a delivery is accepted by its provider twice, and no second  *)
(* request for a part that was or may yet be accepted is ever on the wire: *)
(* begin_part's marker, the fences and the sweep's outcome_unknown exist   *)
(* for this.  A transport that replays ambiguous requests sends the second *)
(* one on purpose and leaves the rest to its key; without a key (a         *)
(* Message-ID over MAX_IDEMPOTENCY_KEY_BYTES) nothing is promised.         *)
AtMostOnce ==
    /\ \A r, s \in wire \cup accepted : SamePart(r, s) /\ r.row \notin Replayed => r = s
    /\ \A r \in wire \cap accepted : r.row \in Replayed
    /\ \A r, s \in accepted : SamePart(r, s) /\ r.row \notin Unkeyed => r = s

(* A request of part p was accepted or may still be.                       *)
Sent(d, p) == \E r \in wire \cup accepted : r.row = d /\ r.part = p

(* One is about to leave a worker whose begin_part committed.              *)
Leaving(d, p) == \E w \in Workers : phase[w] = "calling" /\ cur[w] = d /\ at[w] = p

(* A part status is true of the provider: an unsent part was never sent; a *)
(* retryable or dead one is not about to be sent and, unless its transport *)
(* calls ambiguous requests retryable, was not accepted and never will be; *)
(* a delivered one was accepted.                                           *)
TrueOf(d, p, st) ==
    /\ st \in {"prepared", "retryable", "dead"} => ~Leaving(d, p)
    /\ st \in {"retryable", "dead"} /\ d \notin Replayed => ~Sent(d, p)
    /\ st = "prepared" => ~Sent(d, p)
    /\ st = "delivered" => \E r \in accepted : r.row = d /\ r.part = p

(* What the rows say of the provider is true, of every part and of a       *)
(* delivered delivery as a whole.                                          *)
RowsTellTheTruth ==
    \A d \in Deliveries, p \in Parts :
        /\ TrueOf(d, p, part[d][p])
        /\ status[d] = "delivered" => TrueOf(d, p, "delivered")

(* The parent always agrees with its parts: a claimable delivery has work  *)
(* left and nothing ambiguous or dead, an ambiguous part always holds its  *)
(* parent at outcome_unknown, and no uncertainty is written off as a dead  *)
(* letter or passed over by a cancellation.                                *)
ParentMatchesParts ==
    \A d \in Deliveries :
        LET has(S) == \E p \in Parts : part[d][p] \in S IN
        /\ status[d] \in is_claimable =>
              has(is_unfinished) /\ ~has({"sending", "outcome_unknown", "dead"})
        /\ status[d] = "sending" =>
              /\ ~has({"outcome_unknown", "dead"})
              /\ has(is_unfinished \cup {"sending"})
        /\ status[d] = "outcome_unknown" => has({"outcome_unknown"})
        /\ has({"outcome_unknown"}) => status[d] = "outcome_unknown"
        /\ has({"sending"}) => status[d] = "sending"
        /\ (\A p \in Parts : part[d][p] = "delivered") <=> status[d] = "delivered"

(* The CHECK constraints of message_deliveries hold after every write, and *)
(* a row that may still be claimed or is claimed has an attempt left to    *)
(* charge: otherwise the sweep's charge would break attempt_check and      *)
(* abort the sweep of every other delivery with it.                        *)
StoredChecks ==
    \A d \in Deliveries :
        /\ status[d] = "sending" <=> lease[d] # NoLease
        /\ cancelled[d] => status[d] \notin is_claimable \cup {"absent"}
        /\ status[d] \in is_claimable \cup {"absent", "sending"} => attempt[d] < MaxAttempts

(* The snapshot a worker claimed stays accurate for as long as its fence   *)
(* holds, however long ago it was read: the parts it still means to send   *)
(* are exactly the ones the rows still call unfinished, or the one it is   *)
(* sending right now.                                                      *)
SnapshotFresh ==
    \A w \in Workers, d \in Deliveries :
        claim[w][d] # 0 /\ own_row_fence(w, d) =>
            todo[w][d] = {p \in Parts :
                            \/ part[d][p] \in is_unfinished
                            \/ part[d][p] = "sending"}

(* No delivery of a batch silently stops being renewed: as long as its     *)
(* lease is live under the execution this worker claimed, BatchLeases      *)
(* still lists it.                                                         *)
WaitingStaysRenewed ==
    \A w \in Workers, d \in Deliveries :
        claim[w][d] # 0 /\ live_fence(w, d) => d \in held[w]

(* A dependent never starts before its predecessor is delivered, and the   *)
(* predecessor stays delivered.                                            *)
DependencyFirst ==
    \A d, e \in Deliveries :
        <<d, e>> \in DependsOn /\ (\E r \in wire \cup accepted : r.row = d) =>
            status[e] = "delivered"

(* The inductive invariant behind AtMostOnce and RowsTellTheTruth.  An     *)
(* execution id is minted once, is held by one worker, and is on the row   *)
(* only while the row is sending.                                          *)
FencesAreUnique ==
    /\ \A d \in Deliveries :
          /\ status[d] = "sending" => lease[d].exec # 0
          /\ lease[d].exec <= minted[d]
    /\ \A w \in Workers, d \in Deliveries :
          /\ claim[w][d] <= minted[d]
          /\ lease[d].exec # 0 /\ claim[w][d] = lease[d].exec => lease[d].owner = w
          /\ \A v \in Workers : claim[w][d] # 0 /\ claim[v][d] = claim[w][d] => v = w

(* A worker past the renewal works on a delivery it claimed.  One past     *)
(* begin_part and before the call is alone with its part: it owns the row  *)
(* for as long as the part is sending and, if its transport never repeats  *)
(* a request, nothing else of the part is outstanding.  What it was told   *)
(* by the provider still holds while its fence does.                       *)
SenderIsSound(w) ==
    /\ phase[w] \in {"ready", "calling", "waiting", "reporting"} =>
          cur[w] \in Deliveries /\ at[w] \in Parts /\ claim[w][cur[w]] # 0
    /\ phase[w] = "calling" =>
          /\ part[cur[w]][at[w]] = "sending" => own_row_fence(w, cur[w])
          /\ cur[w] \notin Replayed => ~Sent(cur[w], at[w])
          /\ \A v \in Workers :
                phase[v] = "calling" /\ cur[v] = cur[w] /\ at[v] = at[w] => v = w
    /\ phase[w] = "reporting" =>
          /\ outcome[w] # "none"
          /\ outcome[w] = "delivered" =>
                \E s \in accepted : s.row = cur[w] /\ s.part = at[w]
          /\ outcome[w] \in {"retry_after", "retryable", "terminal"}
             /\ cur[w] \notin Replayed
             /\ own_row_fence(w, cur[w]) /\ part[cur[w]][at[w]] = "sending" =>
                ~Sent(cur[w], at[w])

SendersAreSound == \A w \in Workers : SenderIsSound(w)

DeliveredMeansAllParts ==
    \A d \in Deliveries, p \in Parts :
        status[d] = "delivered" => part[d][p] = "delivered"

(* Together they are preserved by every step of every actor.               *)
QueueInv ==
    /\ TypeOK
    /\ StoredChecks
    /\ FencesAreUnique
    /\ AtMostOnce
    /\ SendersAreSound
    /\ RowsTellTheTruth
    /\ DeliveredMeansAllParts

(* Nothing starts a request for a delivery once its cancellation intent is *)
(* recorded, the intent is never withdrawn, and a delivery with an intent  *)
(* never returns to the queue.                                             *)
CancelledStays(d) ==
    cancelled[d] =>
        /\ cancelled'[d]
        /\ status'[d] \notin is_claimable
        /\ \A p \in Parts : part'[d][p] = "sending" => part[d][p] = "sending"

CancellationSticks == [][\A d \in Deliveries : CancelledStays(d)]_vars

(* Outcomes are final: a delivered or dead-lettered delivery, a delivered  *)
(* or dead part never changes again, and only a message-action delivery    *)
(* ever leaves outcome_unknown (workflow_message_delivery_transition_guard *)
(* and workflow_message_part_transition_guard never have to refuse).       *)
OutcomeStays(d) ==
    /\ status[d] \in {"delivered", "dead_letter"} =>
          status'[d] = status[d] /\ part'[d] = part[d]
    /\ status[d] = "outcome_unknown" /\ d \notin Explicit => status'[d] = status[d]
    /\ \A p \in Parts : part[d][p] \in {"delivered", "dead"} => part'[d][p] = part[d][p]

OutcomesAreFinal == [][\A d \in Deliveries : OutcomeStays(d)]_vars

(* Every claim ends: crashes, lost acknowledgements and failed writes      *)
(* leave a lease that lapses and a sweep that finds it.                    *)
LeasesEnd ==
    \A d \in Deliveries : status[d] = "sending" ~> status[d] # "sending"

(* Every queued delivery settles, unless the model's bound on executions   *)
(* is reached: nothing waits for ever, not even a dependent whose          *)
(* predecessor failed.                                                     *)
QueuedSettles ==
    \A d \in Deliveries :
        status[d] \in is_claimable \cup {"sending"} ~>
            \/ status[d] \in {"delivered", "outcome_unknown", "dead_letter"}
            \/ \E e \in Deliveries : minted[e] = MaxClaims

(* The status a fenced write reports is the status it left, as the         *)
(* documentation of DeliveryOutcome says.                                  *)
ReportIsWhatWasWritten ==
    [][\A d \in Deliveries :
         reported'[d] # reported[d] /\ reported'[d] # "none" =>
            reported'[d] = status'[d]]_vars
============================================================================
