--------------------------- MODULE MessageIntents ---------------------------
(***************************************************************************)
(* Message intents and the reply wait they may answer.                     *)
(*                                                                         *)
(* Ingress commits one intent per accepted message and channel.  A worker  *)
(* claims it, offers it to the run whose message it answers, and otherwise *)
(* admits one run per eligible binding; every write but the offer is       *)
(* fenced by the claim.  On the other side a run parks an event wait that  *)
(* a worker resumes, expires or fails.                                     *)
(*                                                                         *)
(* Time is a set of facts that only become true: a lease lapsed, a reply's *)
(* park grace ended, the wait's deadline passed, the run's passed.  A      *)
(* worker handles one claim of an intent at a time, so its identity stands *)
(* for the claim generation.                                               *)
(***************************************************************************)
EXTENDS Naturals, Sequences, SequencesExt, FiniteSets

CONSTANTS
    Workers,
    Intents,       \* replies to the message this run published
    Rejected,      \* those whose payload the waiting step's schema rejects
    Quiet,         \* the intents whose sender asked for no answer
    Bindings,      \* the bindings with a message trigger on the channel
    Signals,       \* events produced through record_event, not by a reply
    Answers,       \* those of the awaited name
    None,
    MaxAttempts,   \* MAX_INTENT_ATTEMPTS
    MaxEvents      \* MAX_UNCONSUMED_EVENTS

ASSUME IntentConstants ==
    /\ Quiet \subseteq Intents /\ Rejected \subseteq Intents
    /\ Intents \cap Signals = {}
    /\ Answers \subseteq Signals
    /\ None \notin Workers \cup Intents \cup Signals \cup Bindings
    /\ MaxAttempts \in Nat \ {0}
    /\ MaxEvents \in Nat \ {0}

Events == Intents \cup Signals
Awaited == Intents \cup Answers

VARIABLES
    intent,    \* a row of workflow_message_intents
    outcome,   \* the rows of workflow_message_intent_bindings
    work,      \* what each worker is doing, and for which intent
    pastGrace, \* the intents whose park grace is over
    run,       \* the run whose message is answered: running, waiting, ended
    wait,      \* its row in workflow_waits
    due,       \* the wait's deadline has passed
    runDue,    \* the run's deadline has passed
    inbox,     \* workflow_wait_events of the run, as stamped
    late,      \* those stamped after the wait's deadline
    consumed,  \* the event the wait consumed
    producing, \* the record_event that holds the producer lock
    stale      \* history: the intents recorded by a worker without their claim

queue == <<intent, outcome, work, pastGrace>>
waiting == <<run, wait, due, runDue, inbox, late, consumed, producing, stale>>
vars == <<queue, waiting>>

Live == {"running", "waiting"}

NewIntent == [state |-> "pending", attempts |-> 0, owner |-> None,
              lease |-> FALSE, settled |-> FALSE, outcome |-> "null"]
Idle == [pc |-> "idle", on |-> None, todo |-> {}, binding |-> None,
         result |-> "none", transient |-> FALSE]

Init ==
    /\ intent = [i \in Intents |-> NewIntent]
    /\ outcome = [i \in Intents |-> [b \in Bindings |-> "none"]]
    /\ work = [w \in Workers |-> Idle]
    /\ pastGrace = {}
    /\ run = "running"
    /\ wait = "none"
    /\ due = FALSE
    /\ runDue = FALSE
    /\ inbox = <<>>
    /\ late = {}
    /\ consumed = None
    /\ producing = None
    /\ stale = {}

----------------------------------------------------------------------------
(* The run and its wait.                                                   *)

Recorded(e) == e \in ToSet(inbox)
InLease(i) == Recorded(i) /\ i \notin stale
Unconsumed == ToSet(inbox) \ {consumed}

(* The run reaches its wait step, whose specification may be invalid or    *)
(* name a deadline already past: then the step fails with InvalidInput.    *)
park_on ==
    /\ run = "running" /\ wait = "none" /\ ~runDue
    /\ \/ wait' = "waiting" /\ run' = "waiting"
       \/ wait' = wait /\ run' = "ended"
    /\ UNCHANGED <<due, runDue, inbox, late, consumed, producing, stale, queue>>

(* The rest of the run's steps: it may end without reaching the wait, or   *)
(* after it.                                                               *)
finish_run ==
    /\ run = "running"
    /\ run' = "ended"
    /\ UNCHANGED <<wait, due, runDue, inbox, late, consumed, producing, stale, queue>>

(* The run's deadline, which ends the run and whatever it waits for.       *)
expire_on ==
    /\ run \in Live /\ runDue
    /\ run' = "ended"
    /\ wait' = IF wait = "waiting" THEN "expired" ELSE wait
    /\ UNCHANGED <<due, runDue, inbox, late, consumed, producing, stale, queue>>

cancel_run_on ==
    /\ run \in Live
    /\ run' = "ended"
    /\ wait' = IF wait = "waiting" THEN "cancelled" ELSE wait
    /\ UNCHANGED <<due, runDue, inbox, late, consumed, producing, stale, queue>>

(* The events a resume may consume, by their places in the inbox: all of   *)
(* them before the deadline, and past it only those recorded in time.      *)
Eligible == {n \in DOMAIN inbox : inbox[n] \in Awaited /\ (due => inbox[n] \notin late)}

expire ==
    /\ wait' = "expired"
    /\ run' = IF run = "waiting" THEN "ended" ELSE run
    /\ UNCHANGED consumed

fail ==
    /\ wait' = "failed"
    /\ run' = "ended"
    /\ UNCHANGED consumed

commit_wake ==
    /\ wait' = "completed"
    /\ run' \in {"running", "ended"}
    /\ \E n \in Eligible : (\A m \in Eligible : n <= m) /\ consumed' = inbox[n]

(* Mutant: an event wait past its deadline expires whatever was recorded.  *)
resume_on_Due ==
    /\ wait = "waiting" /\ ~runDue
    /\ \/ (run # "waiting" \/ due) /\ expire
       \/ run = "waiting" /\ ~due /\ Eligible # {} /\ (commit_wake \/ fail)
    /\ UNCHANGED <<due, runDue, inbox, late, producing, stale, queue>>

(* A worker's poll or the sweep.  A wait that has neither an event nor a   *)
(* passed deadline stays pending; the successor may exceed the activation  *)
(* limit or the output be invalid, which fails the wait.                   *)
resume_on ==
    /\ wait = "waiting" /\ ~runDue
    /\ \/ (run # "waiting" \/ (due /\ Eligible = {})) /\ expire
       \/ run = "waiting" /\ Eligible # {} /\ (commit_wake \/ fail)
    /\ UNCHANGED <<due, runDue, inbox, late, producing, stale, queue>>

(* record_event takes the producer lock and stamps its event, and inserts  *)
(* it in a second step: it locks no run row before the clock is read, so a *)
(* resume may commit in between.                                           *)
record_event_on(e) ==
    /\ producing = None /\ ~Recorded(e)
    /\ run \in Live /\ ~runDue
    /\ Cardinality(Unconsumed) < MaxEvents
    /\ producing' = e
    /\ late' = IF due THEN late \cup {e} ELSE late
    /\ UNCHANGED <<run, wait, due, runDue, inbox, consumed, stale, queue>>

record_event ==
    /\ producing # None
    /\ \/ inbox' = Append(inbox, producing) /\ late' = late
       \/ inbox' = inbox /\ late' = late \ {producing}
    /\ producing' = None
    /\ UNCHANGED <<run, wait, due, runDue, consumed, stale, queue>>

----------------------------------------------------------------------------
(* Offering a reply.  The producer lock and the lock on the run serialise  *)
(* the offer with record_event and with every resume.                      *)

Open == wait = "waiting" /\ ~due
Answered == \E e \in Awaited : Recorded(e)

(* What deliver_on answers: the producer's identity first, then whether    *)
(* the run lives, whether the wait is open (or may still park), and        *)
(* whether the message was answered.                                       *)
deliver_on(i) ==
    IF Recorded(i) THEN "duplicate"
    ELSE IF run \notin Live \/ runDue THEN "unmatched"
    ELSE IF ~Open THEN IF wait = "none" /\ i \notin pastGrace THEN "not_yet"
                       ELSE "unmatched"
    ELSE IF Answered THEN "unmatched"
    ELSE IF i \in Rejected \/ Cardinality(Unconsumed) >= MaxEvents THEN "undeliverable"
    ELSE "recorded"

Held(w) == LET i == work[w].on IN
    intent[i].state = "claimed" /\ intent[i].owner = w /\ intent[i].lease

Step(w, pc) == work' = [work EXCEPT ![w].pc = pc]
Stop(w) == work' = [work EXCEPT ![w] = Idle]

NextOf(answer) ==
    CASE answer \in {"recorded", "duplicate"} -> "match"
      [] answer = "not_yet" -> "not_yet"
      [] answer \in {"unmatched", "undeliverable"} -> "settle"

(* offer_reply: the delivery may run out of time before or after its       *)
(* commit, which is transient.  It does not name the claim, so a worker    *)
(* that stalled past its lease records the reply all the same.             *)
offer_reply(w) ==
    LET i == work[w].on
        answer == deliver_on(i)
    IN
    /\ work[w].pc = "offer"
    /\ producing = None
    /\ \/ /\ inbox' = IF answer = "recorded" THEN Append(inbox, i) ELSE inbox
          /\ Step(w, NextOf(answer)) \/ Step(w, "transient")
       \/ inbox' = inbox /\ Step(w, "transient")
    /\ stale' = IF inbox' = inbox \/ Held(w) THEN stale ELSE stale \cup {i}
    /\ UNCHANGED <<intent, outcome, pastGrace, run, wait, due, runDue, late,
                   consumed, producing>>

----------------------------------------------------------------------------
(* The queue.                                                              *)

(* What the claim's snapshot makes the worker do first. *)
FirstStep(i) ==
    IF ~intent[i].settled THEN "offer"
    ELSE IF i \in Quiet THEN "finish" ELSE "candidates"

Claimable(i) ==
    \/ intent[i].state = "pending"
    \/ intent[i].state = "claimed" /\ ~intent[i].lease
       /\ intent[i].attempts < MaxAttempts

claim_intents(w, i) ==
    /\ work[w] = Idle /\ Claimable(i)
    /\ intent' = [intent EXCEPT ![i].state = "claimed", ![i].owner = w,
                                ![i].lease = TRUE, ![i].attempts = @ + 1]
    /\ work' = [work EXCEPT ![w] = [Idle EXCEPT !.pc = FirstStep(i), !.on = i]]
    /\ UNCHANGED <<outcome, pastGrace, waiting>>

Admitted(i) == \E b \in Bindings : outcome[i][b] = "admitted"

Release(i, state, result) ==
    [intent[i] EXCEPT !.state = state, !.owner = None, !.lease = FALSE,
                      !.outcome = result]

(* Mutant: the last attempt is never the last. *)
fail_expired_intents_Later(i) ==
    /\ intent[i].state = "claimed" /\ ~intent[i].lease
    /\ intent[i].attempts > MaxAttempts
    /\ intent' = [intent EXCEPT ![i] = IF Admitted(i) THEN Release(i, "done", "admitted")
                                       ELSE Release(i, "failed", "null")]
    /\ UNCHANGED <<outcome, work, pastGrace, waiting>>

(* Mutant: a lapsed last attempt fails though a binding admitted. *)
fail_expired_intents_Blind(i) ==
    /\ intent[i].state = "claimed" /\ ~intent[i].lease
    /\ intent[i].attempts >= MaxAttempts
    /\ intent' = [intent EXCEPT ![i] = Release(i, "failed", "null")]
    /\ UNCHANGED <<outcome, work, pastGrace, waiting>>

fail_expired_intents(i) ==
    /\ intent[i].state = "claimed" /\ ~intent[i].lease
    /\ intent[i].attempts >= MaxAttempts
    /\ intent' = [intent EXCEPT ![i] = IF Admitted(i) THEN Release(i, "done", "admitted")
                                       ELSE Release(i, "failed", "null")]
    /\ UNCHANGED <<outcome, work, pastGrace, waiting>>

(* The offer was matched: the intent is done. *)
finish_matched(w) ==
    LET i == work[w].on IN
    /\ work[w].pc = "match"
    /\ intent' = IF Held(w) THEN [intent EXCEPT ![i] = Release(i, "done", "matched")]
                 ELSE intent
    /\ Stop(w)
    /\ UNCHANGED <<outcome, pastGrace, waiting>>

(* Mutant: the decision is not stored. *)
settle_reply_Unsaved(w) ==
    LET i == work[w].on IN
    /\ work[w].pc = "settle"
    /\ intent' = intent
    /\ \/ ~Held(w) /\ Stop(w)
       \/ Held(w) /\ Step(w, IF i \in Quiet THEN "finish" ELSE "candidates")
    /\ UNCHANGED <<outcome, pastGrace, waiting>>

(* Nothing awaits the reply: ordinary ingress from now on. *)
settle_reply(w) ==
    LET i == work[w].on IN
    /\ work[w].pc = "settle"
    /\ \/ ~Held(w) /\ intent' = intent /\ Stop(w)
       \/ /\ Held(w)
          /\ intent' = [intent EXCEPT ![i].settled = TRUE]
          /\ Step(w, IF i \in Quiet THEN "finish" ELSE "candidates")
    /\ UNCHANGED <<outcome, pastGrace, waiting>>

(* Mutant: the last attempt is deferred like any other. *)
defer_transient_Always(w) ==
    LET i == work[w].on IN
    /\ work[w].pc = "transient"
    /\ intent' = IF Held(w) THEN [intent EXCEPT ![i] = Release(i, "pending", "null")]
                 ELSE intent
    /\ Stop(w)
    /\ UNCHANGED <<outcome, pastGrace, waiting>>

(* Spends the attempt; the last one fails the intent. *)
defer_transient(w) ==
    LET i == work[w].on IN
    /\ work[w].pc = "transient"
    /\ intent' = IF ~Held(w) THEN intent
                 ELSE [intent EXCEPT ![i] =
                          Release(i, IF @.attempts >= MaxAttempts THEN "failed"
                                     ELSE "pending", "null")]
    /\ Stop(w)
    /\ UNCHANGED <<outcome, pastGrace, waiting>>

(* Returns the attempt. *)
defer_not_yet(w) ==
    LET i == work[w].on IN
    /\ work[w].pc = "not_yet"
    /\ intent' = IF ~Held(w) THEN intent
                 ELSE [intent EXCEPT ![i] = [Release(i, "pending", "null")
                                               EXCEPT !.attempts = @ - 1]]
    /\ Stop(w)
    /\ UNCHANGED <<outcome, pastGrace, waiting>>

Undecided(i) == {b \in Bindings : outcome[i][b] = "none"}

(* The eligible bindings without an outcome; a trigger may not admit this  *)
(* message's facts.                                                        *)
candidate_bindings(w) ==
    /\ work[w].pc = "candidates"
    /\ \E todo \in SUBSET Undecided(work[w].on) :
          work' = [work EXCEPT ![w].pc = "bindings", ![w].todo = todo]
    /\ UNCHANGED <<intent, outcome, pastGrace, waiting>>

(* One binding's admission.  Its transaction holds the claim, creates the  *)
(* run (or replays it) and writes the outcome row; a lost answer or any    *)
(* transient error is retried later.  A refusal is written by the record   *)
(* that follows; a binding reconfigured meanwhile may want it no more.     *)
admit_binding(w, b) ==
    LET i == work[w].on
        drop == [work[w] EXCEPT !.todo = @ \ {b}]
        after(result) == [drop EXCEPT !.pc = "record", !.binding = b, !.result = result]
    IN
    /\ work[w].pc = "bindings" /\ b \in work[w].todo
    /\ \/ /\ Held(w)
          /\ outcome' = [outcome EXCEPT ![i][b] = IF @ = "none" THEN "admitted" ELSE @]
          /\ \/ work' = [work EXCEPT ![w] = after("admitted")]
             \/ work' = [work EXCEPT ![w] = [drop EXCEPT !.transient = TRUE]]
       \/ /\ outcome' = outcome
          /\ \/ work' = [work EXCEPT ![w] = after("refused")]
             \/ work' = [work EXCEPT ![w] = drop]
             \/ work' = [work EXCEPT ![w] = [drop EXCEPT !.transient = TRUE]]
    /\ UNCHANGED <<intent, pastGrace, waiting>>

record_binding_outcome(w) ==
    LET i == work[w].on
        b == work[w].binding
    IN
    /\ work[w].pc = "record"
    /\ \/ ~Held(w) /\ outcome' = outcome /\ Stop(w)
       \/ /\ Held(w)
          /\ outcome' = [outcome EXCEPT ![i][b] = IF @ = "none" THEN work[w].result ELSE @]
          /\ work' = [work EXCEPT ![w].pc = "bindings", ![w].binding = None,
                                     ![w].result = "none"]
    /\ UNCHANGED <<intent, pastGrace, waiting>>

(* After the last binding: a transient failure defers, or on the last      *)
(* attempt fails every binding still without an outcome.                   *)
processed(w) ==
    LET i == work[w].on IN
    /\ work[w].pc = "bindings" /\ work[w].todo = {}
    /\ Step(w, IF ~work[w].transient THEN "finish"
               ELSE IF intent[i].attempts < MaxAttempts THEN "transient" ELSE "exhaust")
    /\ UNCHANGED <<intent, outcome, pastGrace, waiting>>

exhaust(w) ==
    LET i == work[w].on IN
    /\ work[w].pc = "exhaust"
    /\ \/ ~Held(w) /\ outcome' = outcome /\ Stop(w)
       \/ Held(w) /\ \E b \in Undecided(i) :
             outcome' = [outcome EXCEPT ![i][b] = "failed"] /\ work' = work
       \/ outcome' = outcome /\ Step(w, "finish")
    /\ UNCHANGED <<intent, pastGrace, waiting>>

finish_intent(w) ==
    LET i == work[w].on IN
    /\ work[w].pc = "finish"
    /\ intent' = IF Held(w) THEN [intent EXCEPT ![i] =
                     Release(i, "done", IF Admitted(i) THEN "admitted" ELSE "none")]
                 ELSE intent
    /\ Stop(w)
    /\ UNCHANGED <<outcome, pastGrace, waiting>>

(* An error between two statements, a crash or a shutdown: the worker      *)
(* leaves the claim to its lease.                                          *)
abandon(w) ==
    /\ work[w] # Idle
    /\ Stop(w)
    /\ UNCHANGED <<intent, outcome, pastGrace, waiting>>

----------------------------------------------------------------------------
(* Time.                                                                   *)

lapse(i) ==
    /\ intent[i].lease
    /\ intent' = [intent EXCEPT ![i].lease = FALSE]
    /\ UNCHANGED <<outcome, work, pastGrace, waiting>>

pass_grace(i) ==
    /\ i \notin pastGrace /\ intent[i].state \in {"pending", "claimed"}
    /\ pastGrace' = pastGrace \cup {i}
    /\ UNCHANGED <<intent, outcome, work, waiting>>

pass_wait_deadline ==
    /\ wait = "waiting" /\ ~due
    /\ due' = TRUE
    /\ UNCHANGED <<run, wait, runDue, inbox, late, consumed, producing, stale, queue>>

(* The wait's deadline is never later than the run's. *)
pass_run_deadline ==
    /\ run \in Live /\ ~runDue
    /\ wait = "waiting" => due
    /\ runDue' = TRUE
    /\ UNCHANGED <<run, wait, due, inbox, late, consumed, producing, stale, queue>>

Process(w) ==
    \/ offer_reply(w) \/ finish_matched(w) \/ settle_reply(w)
    \/ defer_transient(w) \/ defer_not_yet(w) \/ candidate_bindings(w)
    \/ \E b \in Bindings : admit_binding(w, b)
    \/ record_binding_outcome(w) \/ processed(w) \/ exhaust(w) \/ finish_intent(w)

Next ==
    \/ park_on \/ finish_run \/ expire_on \/ cancel_run_on \/ resume_on
    \/ \E e \in Signals : record_event_on(e)
    \/ record_event
    \/ \E w \in Workers, i \in Intents : claim_intents(w, i)
    \/ \E i \in Intents : fail_expired_intents(i)
    \/ \E w \in Workers : Process(w) \/ abandon(w)
    \/ \E i \in Intents : lapse(i) \/ pass_grace(i)
    \/ pass_wait_deadline \/ pass_run_deadline

Spec == Init /\ [][Next]_vars

(* The workers' loops poll and process without end, and time passes.  No   *)
(* run, signal, cancellation or error is ever obliged to happen.           *)
Fairness ==
    /\ WF_vars(resume_on) /\ WF_vars(expire_on) /\ WF_vars(record_event)
    /\ WF_vars(pass_wait_deadline) /\ WF_vars(pass_run_deadline)
    /\ \A i \in Intents : /\ WF_vars(\E w \in Workers : claim_intents(w, i))
                          /\ WF_vars(fail_expired_intents(i))
                          /\ WF_vars(lapse(i)) /\ WF_vars(pass_grace(i))
    /\ \A w \in Workers : WF_vars(Process(w)) /\ WF_vars(abandon(w))

FairSpec == Spec /\ Fairness

----------------------------------------------------------------------------
(* Properties.                                                             *)

Steps == {"idle", "offer", "match", "not_yet", "settle", "transient", "candidates",
          "bindings", "record", "exhaust", "finish"}

(* The columns hold the values their CHECKs allow: a pending intent still  *)
(* has an attempt, only a claimed one has an owner, a failed one has used  *)
(* every attempt, and a settled reply is never matched.                    *)
TypeOK ==
    /\ \A i \in Intents : LET r == intent[i] IN
         /\ r.attempts \in 0..MaxAttempts
         /\ r.owner \in Workers \cup {None}
         /\ r.lease \in BOOLEAN /\ r.settled \in BOOLEAN
         /\ \/ r.state = "pending" /\ r.owner = None /\ r.outcome = "null"
               /\ r.attempts < MaxAttempts
            \/ r.state = "claimed" /\ r.owner # None /\ r.outcome = "null"
               /\ r.attempts >= 1
            \/ r.state = "done" /\ r.owner = None
               /\ r.outcome \in {"matched", "admitted", "none"}
            \/ r.state = "failed" /\ r.owner = None /\ r.outcome = "null"
               /\ r.attempts = MaxAttempts
         /\ r.settled => r.outcome # "matched"
    /\ outcome \in [Intents -> [Bindings -> {"none", "admitted", "refused", "failed"}]]
    /\ \A w \in Workers : /\ work[w].pc \in Steps
                          /\ work[w].on \in Intents \cup {None}
                          /\ work[w].todo \subseteq Bindings
                          /\ work[w].binding \in Bindings \cup {None}
                          /\ work[w].result \in {"none", "admitted", "refused"}
                          /\ work[w].transient \in BOOLEAN
    /\ pastGrace \subseteq Intents
    /\ run \in Live \cup {"ended"}
    /\ wait \in {"none", "waiting", "completed", "expired", "failed", "cancelled"}
    /\ due \in BOOLEAN /\ runDue \in BOOLEAN
    /\ inbox \in Seq(Events) /\ late \subseteq Events
    /\ consumed \in Events \cup {None} /\ producing \in Signals \cup {None}
    /\ stale \subseteq Intents

(* A reply recorded by the worker that held its claim admits no run, then  *)
(* or later, though claims lapse, answers are lost and workers die between *)
(* the record and the intent's end.                                        *)
ReplyUsedOnce == \A i \in Intents : ~(InLease(i) /\ Admitted(i))

(* message_admission.rs: one message cannot both admit runs and answer a   *)
(* wait, whoever records the reply.                                        *)
AnswersOrAdmits == \A i \in Intents : ~(Recorded(i) /\ Admitted(i))

(* A finished intent says what its message did: matched means the event    *)
(* was recorded, admitted that a binding admitted it, none that none did,  *)
(* and an intent that failed admitted nothing.                             *)
OutcomeIsTrue ==
    \A i \in Intents :
        /\ intent[i].outcome = "matched" => Recorded(i)
        /\ intent[i].state \in {"done", "failed"} =>
              (Admitted(i) <=> intent[i].outcome = "admitted")

(* A recorded reply completes the wait it was recorded for, also when the  *)
(* resume comes after the deadline; only the run's own end prevents it.    *)
RecordedReplyAnswers ==
    \A i \in Intents : Recorded(i) ~> (wait \in {"completed", "failed", "cancelled"} \/ runDue)

(* A wait never expires over a reply that was recorded: what ends it then  *)
(* is the run's deadline.                                                  *)
NeverExpiredOver ==
    [][wait = "waiting" /\ wait' = "expired" /\ ~runDue =>
           \A i \in Intents : ~Recorded(i)]_vars

(* Every accepted message comes to an end: a reply that waits for its park *)
(* does so only for the grace, and lost claims run out of attempts.        *)
IntentsSettle == \A i \in Intents : <>(intent[i].state \in {"done", "failed"})
=============================================================================
