# Verification of openbots: mail in, deliveries out

TLA+ models of the parts of openbots that decide whether a message is stored
once, sent at most once and never forgotten; TLC runs that check them on small
instances; TLAPS proofs of the main results for every instance. Paths below are
relative to the crate (`src/src/` in the map of `PROJECT.json`).

## The system

openbots is a Rust server over PostgreSQL. Several copies of it may run. Work
moves between components through tables that workers claim under leases.

| Component | State | Operations | Hard behaviour |
|---|---|---|---|
| Outbound delivery queue and worker (`adapters/persistence/delivery/*`, `application/services/delivery_worker.rs`) | `message_deliveries`, their parts, a worker's batch | enqueue, claim, renew, begin/complete a part, fail, release, sweep, cancel, settle by evidence | crashes around a provider call, late writes, cancellation races, batches, dependencies |
| Inbound inbox and worker (`adapters/persistence/inbound_event`, `application/services/inbound_event_worker.rs`) | `inbound_events`, a supervised batch | store, claim, renew, complete, ignore, retry, dead-letter, reap, purge | lost answers, lapsed executions, dropped futures, panics |
| Inbound commit (`adapters/persistence/thread/inbound.rs`) | messages, provider keys, intents, `channels.settings_revision` | one transaction | redelivery, collision, settings edited between routing and commit |
| SMTP and webhook ingress (`adapters/smtp`, `adapters/http/routes/webhooks`, `adapters/resend_api`) | one session or request | accept, route, upload, commit, answer | what a sender is told when a commit is uncertain |
| Workflow jobs (`application/workflow/{worker,lease,supervise}.rs`, `adapters/persistence/workflow/{lease*,recovery,completion,batch*,maintenance,controls}.rs`) | runs, executions, jobs, the ledger of attempts | claim with a generation, renew, release, complete, retire, cancel, expire, retry | ambiguous COMMIT, expiry or cancellation against completion, error routes |
| Actions, receipts and reconciliation (`adapters/persistence/workflow/{action_*,message_receipts}.rs`, `action_reconciliation/*`) | markers, entries, receipts, evidence | reserve, enter, call, save, reconcile, reopen | crash around a call, late answers, proofs that expire or are contradicted |
| Event waits and replies (`.../waits.rs`, `wait_commit.rs`, `reply_waits.rs`), children, decisions | waits, wait events, child runs, decisions | park, record, offer, resume, expire, submit | a reply against a deadline, a stalled offer |
| Schedules (`.../schedules.rs`, `application/workflow/schedule_admission.rs`) | schedules, occurrences | edit, capture, run now, claim, admit, record, sweep | outcome of a lapsed claim, slots across a clock shift |
| Message intents and admission (`.../message_intents.rs`, `admission.rs`, `application/workflow/message_admission.rs`) | intents, outcomes per binding | claim, offer, settle, admit, defer, sweep | crash between an outcome and its record |
| Ingest policy, graph compiler, budgets, channel replies, notification projector, credential rotation, authentication limits, harness, knowledge, provisioning, MCP, HTTP | - | - | see `PROJECT.json` for each and why it is modelled or not |

The inbound commit writes admission intents, which start workflow runs; runs
dispatch actions, and message actions enqueue deliveries whose outcome comes
back as receipts. The delivery queue consults the workflow only to admit a
workflow delivery (`workflow_delivery_admission_on`) and to check the proof
behind a reopened one.

## Modules

| Module | Models |
|---|---|
| `DeliveryQueue` | the delivery queue, its worker processes, the provider, cancellation and evidence |
| `DeliveryQueueProofs` | theorems about `DeliveryQueue`: requests, rows and fences |
| `DeliveryOrderProofs` | theorems about `DeliveryQueue`: parents and parts, batches, predecessors |
| `DeliveryRefinementProofs` | the proof that `DeliveryQueue` implements `DeliveryContract` |
| `DeliveryContract` | what the delivery queue promises, without rows, leases, workers or sweeps |
| `DeliveryRefinement` | the refinement mapping from `DeliveryQueue` to `DeliveryContract` |
| `MCDelivery` | TLC instances of both |
| `InboundInbox`, `MCInbox` | the inbox, its workers, the inbound commit, SMTP sessions |
| `WorkflowJobs`, `MCJobs` | one workflow run: jobs, attempts, workers, effects, evidence, operators |
| `MessageIntents`, `MCIntents` | message intents, their workers, and the event wait a reply may answer |
| `ChannelSchedules`, `MCSchedules` | a schedule, its occurrences, the materializer and run-now requests |
| `InboundInboxProofs`, `WorkflowJobsProofs`, `MessageIntentsProofs`, `ChannelSchedulesProofs` | theorems about the module each is named after |

Every PostgreSQL transaction is one action: the code takes the row locks it
needs before it decides. Time is abstract: a lease lapses and a backoff elapses
at any moment; a renewal that succeeds is a lease that has not lapsed yet. A
COMMIT whose answer is lost is part of every action that can meet it. Operators
whose comment begins with "Mutant" are deliberate mistakes, used only to show
that a property can fail.

### DeliveryQueue

`status`, `attempt`, `cancelled`, `lease`, `due`, `proof` are the columns of a
`message_deliveries` row, `part` the status of its parts. An execution id is a
number minted per delivery (`gen_random_uuid` in the code: only freshness
matters). A worker has a `phase` (`loop`, `ready` after renewal, `calling` after
`begin_part` committed, `waiting` for the provider, `reporting` its outcome),
the claimed executions (`claim`), the leases it still renews (`held`, the
`BatchLeases`), the parts it read when it claimed (`todo`), and where it is
(`cur`, `at`). `wire` and `accepted` are the requests on their way to the
provider and those it accepted. The provider is external: it accepts or loses a
request at any time, also after the worker gave up waiting, and a definite answer
of it is true.

What a worker makes of an ambiguous call depends on the transport
(`provider_returns`). The worker's own `PROVIDER_TIMEOUT` and a shutdown during
the call are `outcome_unknown` for all of them. For the deliveries in `Replayed`
the transport itself calls a 5xx, an HTTP timeout or a dropped connection
`Retryable`, although the request may have been acted on: Resend
(`resend_api/transport.rs:71-78`, `egress.rs:603`), and the hand-over to one of
the platform's own channels (`egress.rs:505-510`). The retry is then sent on
purpose under the same key, the Message-ID of the part, and the provider, or the
relay's own deduplication, is trusted to remember it for as long as retries go on
(`Recognised`, `ProviderAccepts`: an external assumption). The key is left out
when the Message-ID exceeds 256 bytes (`transport.rs:172-175`), which takes an
application domain of more than about 210 bytes: `Unkeyed`. `AtMostOnce` is
therefore three statements: outside `Replayed` no second request for a part that
was or may yet be accepted is ever on the wire; no request is both accepted and
on its way there; and no part is accepted twice, unless it is `Unkeyed`.

`claim_deliveries`, `renew_delivery_leases`, `begin_part`, `complete_part`,
`fail_delivery`, `release_delivery`, `reap_expired_deliveries` are the methods
of the queue port, each with its fence, its cancellation branch and the parent
status it derives. `cancel_deliveries` is `cancel_locked_deliveries_on` with its
callers; `settle_unknown_delivery` is `settle_unknown_delivery_on`, whose
evidence is taken to be true (`AttestedApplied`, `AttestedFinalNotApplied`,
external). `WorkerEnds` is a crash at any point; `ShutdownRequested` is the
broadcast the worker looks at before each part.

Abstracted: payloads, provider keys, error classes, companies and their
round-robin order, the order within a claim (any due set may be claimed).

### InboundInbox

One key identifies a mail for a company. A mail arrives over the webhook, which
stores an event, or over SMTP (`Direct`), whose session commits it; it may
arrive `MaxArrivals` times. `status`, `attempt`, `lease`, `due` are the event's
row. `message`, `storedAt`, `admissions` are the canonical message: its content
hash, the settings in force when it was stored, and how often admission intents
were written for it. `Accepts` says under which settings revisions routing
accepts a mail. A content hash varies only in whether the attachments could be
uploaded, because the storage key is hashed with the rest.

A worker's batch is a `phase` per event: `waiting`, `decoding`, `committing`,
`landed` (the COMMIT went through and its answer is awaited), or the settlement
it is about to write (`ignore`, `retry`, `terminal`). `supervise_event_lease`
may drop the first three between any two steps. A panicked child keeps its scope
for the rest of the batch. Shutdown aborts every child at an arbitrary point,
so it is the same step as a crash (`BatchEnds`). The commit's fence is compared
with `CURRENT_TIMESTAMP`, the start of the transaction, so a lease that lapsed
during the transaction still counts while one that was reaped does not.

`told` keeps every answer an SMTP sender got, with the settings revision it was
given under. `SmtpAnswer` is `for_ingest` and `for_error`: 250 for a committed
mail, and also for one the platform chose not to route (`Drops`: an auto-reply, a
system address that was answered, a thread at its turn limit); 550 for any other
rejection or a request that cannot be read, 451 for a failure or an uncertain
commit. A session that ends after its commit answers nothing. `AcceptedIsStored`
says that a 250 was given for a stored mail or for one dropped on purpose.

Abstracted: bindings and threads of a message (the code looks for an existing
message per binding and provider key; here a mail is one key in one binding), the
reason of a rejection beyond what it answers, the fair order within a batch (any
schedulable event may be next).

### DeliveryContract and DeliveryRefinement

The contract knows what is said of a delivery (`fate`), whether it was
withdrawn, which requests are underway and which parts the provider took. Parts
start one at a time, in order, never for a withdrawn delivery and never again
once taken; `delivered` is said of a delivery taken whole, and `dead`, or `open`
after `uncertain`, only when nothing of it is underway. A `Repeatable` delivery
(`Replayed`) may start a part again and say `dead` of it while a request is
underway: that is what its transport's reading of an ambiguous answer costs. The mapping reads `fate`
off the row's status, and counts a request as underway from the commit of
`begin_part` (the worker may still make the call) until the provider accepts or
loses it. The contract bounds nothing in time: liveness is checked of the queue
itself.

### WorkflowJobs

One run is a chain of `MaxSteps` executions; `exec[s]` is the route an execution
committed, `job[s]` its `background_tasks` row, `att[s]` its `task_attempts`.
`KindOf` gives the kind of each step: `pure` steps are advanced by the engine
without a claim, `effect_free` ones send nothing, `remote` and `local` ones have
an effect with a marker, `unmarked` ones one that leaves no trace. `OnError` is
the target of the step's error route. `live_window` is the fence every write of
a worker passes: run active and in time, job and attempt those of the claim,
lease not expired. `retire_on` closes an attempt wherever it ends (release,
completion, expiry): it asks the marker whether a retry is safe, decides
(`decide`), settles the run, takes the error route and charges the job.

All these transactions lock the run row first. A COMMIT whose answer is lost has
therefore happened or not by the time its own resolution reads the run
(`claimed_on`, `released_on`, `resolve_reservation`), and is modelled as an
action with two outcomes that leaves the worker unsure. `execute`, `stop` and
`crash` are the handler under `supervise_io`: it returns, fails, is interrupted
or dies between any two transactions.

Effects: `marker` is the attempt that first reserved the effect, `entry` those
that reserved a request of their own, `receipt` the saved result, `proofs` the
evidence that the covered entries were not applied, with the entry that used it
up, `applied` the opposite evidence, `conflict` a recorded contradiction.
`request` is the truth at the provider, which no code reads. `verify` is an
external verifier that reports what it sees at the provider; a request it does
not see may still be on its way, so that a proof can turn out wrong, which the
code meets with `conflict`. A row of `conflict` is written when a receipt breaches
a proof or states another result than the one saved (`commit_remote`), or when a
settlement recovers another result (`settle`); its trigger
(`conflict_park_pending`, schema lines 2225-2243 and 8620) fails the pending job
and moves the run to `waiting` for reconciliation, in the same transaction.
`attest` becomes void whenever the run's revision
advances. `reopenable` is what an operator's retry and a settlement both demand.

Abstracted: payloads and schemas (a result is valid or not), backoff lengths,
authority, budgets, capacity and the fair order of polling.
`retire_exhausted_work` is left out: `FrontierMatchesRun` shows that no pending
job without attempts is left in an active run, so it finds nothing here.

### MessageIntents

`intent` is a row of `workflow_message_intents`, `outcome` the rows per binding,
`work` the position of a worker in `process` (`offer`, `match`, `settle`,
`candidates`, `bindings`, `record`, `exhaust`, `finish`, or a deferral). On the
other side are the `run` whose message is answered and its `wait`; `inbox` holds
the recorded events in order, `late` those stamped after the wait's deadline.
Time is a set of facts that become true: a lease lapsed, a grace ended, the
wait's deadline passed, then the run's. `offer_reply` is the one write of a
worker that does not look at its claim, and workers may stall before it for as
long as they like. `stale` is history: the intents whose reply was recorded by a
worker that no longer held their claim. `ReplyUsedOnce` speaks of the others,
`AnswersOrAdmits` of all; the second is what the code's comment says, and `stalled`
refutes it.

`record_event` stamps its event before it locks the run, so that a resume may
commit in between (`record_event_on`, then `record_event`); `NeverExpiredOver`
speaks of replies, which are stamped and inserted under the lock. Neither
`record_event` nor `sweep_waits` has a caller in the program today; the worker's
poll resumes waits through the same `resume_on`.

Abstracted: how a message names the one it answers, what a trigger filters,
what an admission checks (the result is admitted, refused, ineligible or
transient), backoff lengths.

### ChannelSchedules

`sched` is the row of a schedule, `occ` its occurrences, named by slot or by the
command key of a run-now request (their unique indexes). `now` is the clock;
intervals, days and the zone's shift are whole numbers of its unit, so that an
interval may be shorter than the shift. `local` and `instant` are the two `AT TIME ZONE`
conversions around one shift, with PostgreSQL's reading of an ambiguous or a
skipped local time. `claim_due` is the whole transaction: it captures the due
slot, steps the schedule and claims one occurrence. `admit` and its
`settle_claim` are the admission transaction, `record` the outcome written after
it, fenced by worker and generation but not by the lease. The sweep of exhausted
claims is two statements (`fail_expired_occurrences`, `name_failure`), the
second of which may fail. `row.by` is history: the attempt that decided the row.

`CadenceHolds` bounds the next slot on both sides: past now, and at most one
interval past it. Its exceptions are what the code does at a shift: a daily
schedule whose local time falls into the skipped hour moves later by the shift
and stays there; when slots were missed across a spring shift the next one can be
in the past once, which costs one extra catch-up; in autumn a step into the
repeated hour lands on its second reading, so that a cadence shorter than the
shift pauses for the length of the shift. A one-off saved again
for a slot already captured is absorbed by the unique index.

## Runs

| Run | Instance | Shows |
|---|---|---|
| `evidence` | 1 workflow delivery and 1 without an adapter, claimed in one batch, 2 crashing workers, 2 claims each | `AtMostOnce`, `RowsTellTheTruth`, `StoredChecks`, `WaitingStaysRenewed`, `CancellationSticks`, `OutcomesAreFinal`, `ImplementsContract` |
| `chain` | 2 deliveries of 2 parts, one threading under the other over a replaying transport, 2 workers | `AtMostOnce`, `DependencyFirst`, `ParentMatchesParts`, `SnapshotFresh`, `ImplementsContract` |
| `live` | a chain of 2 deliveries, a crashing worker, 2 attempts, 3 claims | `TypeOK`, `LeasesEnd`, `QueuedSettles` |
| `inbox` | 1 webhook and 1 SMTP mail, each delivered twice, the second dropped under one of the revisions, 2 workers, 2 sessions, 2 edits | `TypeOK` (with the table's checks), `AdmittedOnce`, `MessageMovesWithEvent`, `AcceptedIsStored`, `StoredUnderSettingsInForce`, `SettledIsFinal` |
| `inbox_live` | 3 events in a batch, 2 of one installation, crashes and panics | `EventsSettle` |
| `jobs` | a run of an unmarked, a pure and a local step, 2 attempts each, 2 workers | `TypeOK`, `LedgerMatchesJob`, `FrontierMatchesRun`, `HandlerOwnsClaim`, `ClosedStaysClosed`, `RunSettles` |
| `actions` | 1 remote step without a replay contract, 2 attempts, 2 workers | `NoBlindResend`, `SuccessHasEffect` |
| `waits` | 1 reply, 1 binding, 2 other events of which 1 answers, an inbox of 1 event, 2 workers | `TypeOK`, `ReplyUsedOnce`, `OutcomeIsTrue`, `NeverExpiredOver`, `RecordedReplyAnswers`, `IntentsSettle` |
| `schedules` | a schedule of one day, of an interval shorter than the shift or one-off, a spring shift of 2 units, 1 worker, 1 run-now request, 1 edit, 2 attempts | `TypeOK` (with the table's checks), `OutcomeIsTheLatestClaims`, `CadenceHolds`, `OccurrencesSettle` |
| `report` | 1 delivery | a divergence: the status `complete_part` reports |
| `redelivery` | 1 mail with attachments, delivered twice over SMTP | a divergence: an identical redelivery refused |
| `stalled` | 1 reply, 2 workers, one of which outlives its lease before it offers | a divergence: the reply answers a wait and admits a run |

Bounds. Two workers are enough for a late worker and its successor to meet over
one row; two attempts for a retry and the last attempt; the claim bound
(`MaxClaims`) leaves room for claim, lapse, reopen and claim again. A rate-limited
answer costs no attempt, which is why claims need a bound of their own in
`DeliveryQueue`; `QueuedSettles` excepts behaviours that reach it. In
`InboundInbox` no such bound is needed: every claim that does not settle costs an
attempt, which `TypeOK` includes. Two parts and two deliveries are the
least with an order between them. Two arrivals are one redelivery; two edits
close a channel to a mail and open it again. Deadlock is not checked for the
inbox, for `jobs` and `actions`, or for `waits`: every mail, run or intent may
have ended and every arrival been used.

`jobs` has one step of each kind that differs in what an interrupted attempt may
have done, so that a retry, a reconciliation and an error route all occur;
`actions` has the one effect whose repetition is dangerous, and two attempts:
one request and one that repeats it. Its two workers are interchangeable, and
only invariants are checked there, so the symmetry is sound. In `waits` the
inbox bound of one event makes the full inbox occur; a second intent was too
large to check and would meet the first only over the one wait, which the
second event (`Answers`) already contends for. In `schedules` the request is the
second claimant beside the worker, the clock reaches the shift and slots are
stepped across it, into the skipped hours and beyond them, and one slot is
followed (`MaxCaptures`); later slots of the cadence are stepped but not
captured.

Fairness. Worker loops run (a process that ends is restarted by its
supervisor), provider calls and event work end (`PROVIDER_TIMEOUT`,
`EVENT_DEADLINE`), clocks advance. The sweeps run on their interval before the
next claim; claims are ordered by `available_at`, so a due row is not passed
over for ever. Strong fairness is assumed only for a delivery worker's sweep and
for its claims, which a crash can interrupt any number of times. No fairness is
assumed of producers, cancellation, evidence, arrivals, edits or the provider.
`WorkflowJobs` assumes only that the clock reaches a run's deadline and that a
worker polls for runs past it; no claim, handler, provider or operator has to
act. `MessageIntents` assumes polling workers and passing time, and that a
worker stuck in a claim is eventually given up (`abandon`), but of the run
nothing except its deadline. `ChannelSchedules` assumes that the worker polls
and finishes what it claimed, that leases lapse and backoffs elapse; the caller
of a run-now request may never come back, nor the clock advance.

Where the code and its words differ (findings in `PROJECT.json`):

* `complete_part` reports `retryable` for a delivery it has dead-lettered on its
  last attempt; the port says the value is where the write left the delivery.
* An identical mail is refused as a collision when its attachments were
  uploaded the first time and could not be the second (or the reverse), since
  the hash of "everything a provider actually delivered" includes where the
  upload went. SMTP then answers 451 to each retry and the inbox dead-letters
  the event. The stored message is not harmed.
* A message that answers a wait is said never to admit runs as well, and every
  write after a claim to name the claim. The offer of a reply does not: a worker
  that claimed an intent, stalled past its lease and then offers it can record
  the reply after the next owner found nothing awaiting it and while that owner
  admits runs. It takes a stall of the length of the lease between the claim and
  the offer, and a wait that parks after the park grace.

Smaller observations, made while modelling and not the subject of a run:
`Retryable` is documented as "Definitely not accepted"
(`application/transport/delivery.rs:641`, `domain/entities/transport/delivery.rs:134`),
which the Resend adapter's ambiguous answers are not (see above); `queue.rs:619` calls a dead letter's attempts the provider while
`fail_delivery` and the sweeps charge attempts without a call; the comment of the
cadence's SQL says a daily one "holds its local time across a DST shift", and one
at a skipped time does not; and the
best-effort second statement of the schedule sweep may name an error on a
schedule after a later run has succeeded and cleared it (the theorem
`ErrorsHaveCauses` holds because the failed occurrence is still there to be seen).

## Proofs

Every safety property of the passing runs, invariant or action property, and
the refinement are proved for every value of the constants. The proofs rest only
on the assumption each module makes of its constants (`ConstantsAssumption`,
`InboxAssumption`, `JobsAssumption`, `IntentConstants`, `ScheduleConstants`),
which TLC evaluates in each run. The bounds of the models (claims, arrivals,
edits, captures, time) are constants too, so a theorem holds for every bound.

Each proof has the same layout: an inductive invariant as a conjunction of named
parts, lemmas on the operators (what a row looks like after a write), one lemma
per action, the combination, and the theorems read off it.

| Module | Theorems |
|---|---|
| `DeliveryQueueProofs` | `QueueInvHolds`; `TypesHold`, `PartsAreAcceptedAtMostOnce`, `RowsAreTruthful`, `StoredChecksHold`; `OutcomesStayFinal`, `CancellationsStick` |
| `DeliveryOrderProofs` | `OrderInvHolds`; `ParentsMatchParts`, `SnapshotsStayFresh`, `WaitingIsRenewed`, `PredecessorsAreDelivered` |
| `DeliveryRefinementProofs` | `QueueImplementsContract`, `PartsGoInOrder` |
| `InboundInboxProofs` | `InboxInvHolds`; `InboxTypesHold`, `MailsAreAdmittedOnce`, `MessagesMoveWithEvents`, `AcceptedMailsAreStored`, `StoredUnderSettings`; `SettledStaysFinal` |
| `WorkflowJobsProofs` | `JobsInvHolds`; `JobTypesHold`, `LedgerAgrees`, `FrontierHolds`, `HandlersOwnTheirClaims`, `RequestsAreNotBlindlyResent`, `SuccessesHaveEffects`; `DecisionsStand` |
| `MessageIntentsProofs` | `IntentsInvHolds`; `IntentTypesHold`, `OutcomesAreTrue`, `RepliesAreUsedOnce`; `RepliesAreNotExpired` |
| `ChannelSchedulesProofs` | `ScheduleInvHolds`; `ScheduleTypesHold`, `OutcomesAreTheLatestClaims`, `ErrorsHaveCauses`; `CadenceIsKept` |

**Requests and rows (`QueueInv`).** `AtMostOnce` speaks of requests, the code
only of rows. (1) `FencesAreUnique`: an execution id is minted once and belongs
to one worker, so a fenced write that matches is made by the worker that began
the request. (2) `begin_part` stores the part as `sending` before a request
exists, and the part leaves `sending` only through that worker's answer or as
`outcome_unknown`. (3) `SendersAreSound` ties a worker between `begin_part` and
its report to what is on the wire. (4) Hence `RowsTellTheTruth`: a part whose row
allows another request has none outstanding, and a new request cannot duplicate
one. For `Replayed` deliveries step (4) is not available, a retryable row may hide
an accepted request, and the only ground is that every attempt of a part carries
the same key. `OutcomesAreFinal` and `CancellationSticks` need `QueueInv` because a fence
can match only a `sending` row.

**Parents, batches, predecessors (`OrderInv`, on top of `QueueInv`).** None of
the four properties is inductive alone. `ParentMatchesParts` needs that at most
one part of a delivery is `sending` (otherwise the answer to one would settle the
parent over the other), which needs that a worker whose fence stands and who is
not sending finds nothing sending (`BatchOK`), which needs that its snapshot is
right. `BeginsFirst` adds that a worker at `begin_part` is at the least part
left. `DependencyFirst` becomes inductive when it is said of every claimed
delivery (`Active`) and not only of one with a request: the claim is where the
predecessor is looked at, and a delivered predecessor stays so.

**The refinement.** The committed `begin_part` is the contract's `Start`, the
provider's acceptance `Take`; a refusal, a lost request, a shutdown before the
call and a crash before the call are `Drop`; every other step leaves what is
underway and taken as it was and is `Settle` (`SettleSays`), because in states
that satisfy both invariants what a status says is true of the provider
(`SaidIsTrue`) and statuses move only as the contract allows (`StepMoves`,
`StepKeepsOutcomes`). `PartsGoInOrder` is then derived from the contract alone:
one part of a delivery at a time, and only after all earlier ones were accepted.

**The inbox (`InboxInv`).** The claim bound in `TypeOK` is not inductive: a claim
could be the last. It is proved with a budget (`Ledger`): claims made and
attempts left together never exceed what the deliveries of the mail have paid
for. `AdmittedOnce` follows from tying `admissions` to the existence of the
message, `StoredUnderSettingsInForce` from what a commit request carries
(`TasksOK`, `SessionsOK`) and the revision check under the channel's lock,
`MessageMovesWithEvent` from the single transaction and the fact that nothing
exists before the first delivery.

**Jobs and effects (`JobsInv`).** `LedgerInv` is preserved by every transaction
without looking at effects; its core is `Frontier`: one execution is the last
activated, everything before it is routed and closed, everything after it
absent, and its job is where the run's state says; the conflict trigger keeps it,
because it moves job and run together (`ParkLedger`). `EffectsInv` builds on it: a
request belongs to an opened attempt and was reserved first
(`RequestsAreReserved`), every later entry of an effect without a replay contract
used up a proof covering the earlier ones (`ResendsAreCovered`), and where a
worker stands says what its attempt has done (`Sound`), which must hold also of a
worker that has lost its claim without knowing it.

**Intents (`IntentsInv`).** A worker's place is of two kinds: what holds even
after its claim was lost (`Placed`), and what only the claim guarantees
(`Owned`). `RepliesAreUsedOnce` has no hypothesis about stalls: while the claim
that recorded a reply stands, its worker finishes the intent as matched, and a
later owner finds the reply recorded before it settles. A reply in `stale` may
come after the settlement, which is what `stalled` shows.

**Schedules (`ScheduleInv`).** `OutcomeIsTheLatestClaims` needs that what an agent
is about to record was really admitted (`Sound`); `ErrorHasCause` that the failure
the sweep's second statement will name still stands. `CadenceIsKept` is about the
arithmetic of `next_slot`, for every interval, day and shift, whole numbers of the
clock's unit.

Only model-checked: the liveness properties (`LeasesEnd`, `QueuedSettles`,
`EventsSettle`, `RunSettles`, `RecordedReplyAnswers`, `IntentsSettle`,
`OccurrencesSettle`), because the proof system does not reason about fairness;
and the three divergences, which are counterexamples. On the
instances of the runs TLC also finds every inductive invariant true of every
reachable state (`QueueInv`, `OrderInv` and `PartsInOrder` on `chain` and
`evidence`, the others on the runs of their module).

## Not modelled

Parsing, rendering, signatures, spam scores, the SMTP dialogue, model calls,
object storage, embeddings, provisioning and HTTP pages are data or I/O around
the protocols; they are most of the repository's lines and keep no state of
their own that two steps could disagree about. Evidence about a delivery is
trusted. Of the workflow engine these parts are left out: waits for decisions,
children and deliveries; root budgets, capacity and fairness between tenants;
the compiler and its expressions; channel replies and proposals; the
notification projector, a third leased queue of the inbox's shape; credential
rotation. `components` in `PROJECT.json` says so for each, and `hazards` lists
what each property is for, and the known exposures no property covers.

## Plan

1. Done: `DeliveryQueue`, `InboundInbox`, `WorkflowJobs`, `MessageIntents` and
   `ChannelSchedules`, with the proofs of their safety properties; the contract
   of the delivery queue and the proof that the queue implements it.
2. Next: abstract specifications of the other components and the proofs that
   they implement them, in the way of `DeliveryContract`: a mail that is stored
   once and then admitted for the inbox, an effect that is requested, answered
   and recorded for a workflow action.
3. Then decisions and child runs beside `WorkflowJobs`, and the composition of
   a message action with the delivery it becomes.
