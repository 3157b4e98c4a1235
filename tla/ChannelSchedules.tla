-------------------------- MODULE ChannelSchedules --------------------------
(***************************************************************************)
(* One channel schedule, the occurrences captured from it and the runs     *)
(* they are admitted as.                                                   *)
(*                                                                         *)
(* A schedule is due at next_run_at.  A materializer worker captures the   *)
(* due slot as an occurrence and steps next_run_at, claims an occurrence   *)
(* with a lease and an attempt, and admits one run for it; a run-now       *)
(* request captures an occurrence under its command key and materializes   *)
(* it the same way.  Members edit, pause and delete the schedule meanwhile.*)
(*                                                                         *)
(* The clock, the intervals and the zone's shift are whole numbers of one  *)
(* unit, the code's seconds, so an interval may be shorter than the shift; *)
(* leases and backoffs end at any time.                                    *)
(* An occurrence is named by its slot or its command key, which the unique *)
(* indexes make its identity, and the number of the attempt stands for the *)
(* claim's generation: both change with every claim.                       *)
(***************************************************************************)
EXTENDS Integers, FiniteSets

CONSTANTS
    Workers,      \* materializer workers
    Callers,      \* run-now requests
    KeyOf,        \* the command key of each request
    None,
    Intervals,    \* interval_seconds a member may choose
    Instants,     \* the times of a one-off
    Day,          \* the length of a day
    ShiftAt,      \* when the zone's offset changes
    ShiftBy,      \* by how much: forward in spring, back (below 0) in autumn
    MaxTime,      \* the clock's bound
    MaxCaptures,  \* the slots of a cadence that are followed
    MaxEdits,     \* edits, pauses and resumes
    MaxAttempts,  \* materialization_attempts
    MaxStale      \* MAX_STALE_RETRIES

ASSUME ScheduleConstants ==
    /\ Workers \cap Callers = {}
    /\ None \notin Workers \cup Callers \cup Nat
    /\ Intervals \subseteq Nat \ {0}
    /\ Instants \subseteq 0..MaxTime
    /\ Day \in Nat \ {0}
    /\ ShiftAt \in Nat /\ ShiftBy \in Int
    /\ MaxTime \in Nat /\ MaxCaptures \in Nat /\ MaxEdits \in Nat
    /\ MaxAttempts \in Nat \ {0} /\ MaxStale \in Nat \ {0}

Agents == Workers \cup Callers
Keys == {KeyOf[c] : c \in Callers}
Slots == 0..MaxTime
Occurrences == Slots \cup Keys

VARIABLES
    now,
    sched,     \* the row of channel_schedules
    occ,       \* the rows of schedule_runs
    admitted,  \* the occurrences some run was admitted for
    work,      \* what each worker or request is doing
    edits

vars == <<now, sched, occ, admitted, work, edits>>

----------------------------------------------------------------------------
(* Slots in the schedule's own zone.                                       *)

local(t) == t + (IF t >= ShiftAt THEN ShiftBy ELSE 0)

(* A local time back to an instant: of two readings the later one, and a   *)
(* local time the shift skips is read with the offset before it.           *)
instant(l) == IF l - ShiftBy >= ShiftAt THEN l - ShiftBy ELSE l

(* Mutant: steps in absolute time, not in the schedule's zone.             *)
next_slot_Absolute(next, interval) ==
    next + interval * ((now - next) \div interval + 1)

next_slot(next, interval) ==
    instant(local(next) + interval * ((now - next) \div interval + 1))

----------------------------------------------------------------------------
NoRow == [status |-> "none", attempts |-> 0, owner |-> None, leased |-> FALSE,
          ready |-> FALSE, refused |-> FALSE, error |-> FALSE, by |-> 0]
NewRow == [NoRow EXCEPT !.status = "pending", !.ready = TRUE]

Idle == [pc |-> "poll", on |-> None, attempt |-> 0, tries |-> 0, result |-> "none"]
Done == [Idle EXCEPT !.pc = "done"]
Rest(a) == IF a \in Workers THEN Idle ELSE Done

(* The rhythm a write asks for, and its first run.                         *)
Cadences ==
    [kind : {"interval"}, interval : Intervals, at : {None}]
        \cup [kind : {"one_off"}, interval : {None}, at : Instants]

first_run(c) == IF c.kind = "interval" THEN now + c.interval ELSE c.at

cadence_changed(c) ==
    \/ c.kind # sched.kind
    \/ c.kind = "interval" /\ c.interval # sched.interval
    \/ c.kind = "one_off" /\ c.at # sched.next

(* create, by a member, at the beginning.                                  *)
Init ==
    /\ now = 0
    /\ \E c \in Cadences, on \in BOOLEAN :
         sched = [kind |-> c.kind, interval |-> c.interval, next |-> first_run(c),
                  enabled |-> on, error |-> FALSE, deleted |-> FALSE]
    /\ occ = [o \in Occurrences |-> NoRow]
    /\ admitted = {}
    /\ work = [a \in Agents |-> IF a \in Workers THEN Idle
                                ELSE [Idle EXCEPT !.pc = "request"]]
    /\ edits = 0

----------------------------------------------------------------------------
(* Members.                                                                *)

update ==
    /\ ~sched.deleted /\ edits < MaxEdits
    /\ edits' = edits + 1
    /\ \E c \in Cadences :
         sched' = [sched EXCEPT !.kind = c.kind, !.interval = c.interval,
                     !.next = IF cadence_changed(c) THEN first_run(c) ELSE @]
    /\ UNCHANGED <<now, occ, admitted, work>>

set_enabled ==
    /\ ~sched.deleted /\ edits < MaxEdits
    /\ edits' = edits + 1
    /\ sched' = [sched EXCEPT !.enabled = ~@]
    /\ UNCHANGED <<now, occ, admitted, work>>

(* The occurrences go with their schedule; the admitted runs stay.         *)
delete ==
    /\ ~sched.deleted /\ edits < MaxEdits
    /\ edits' = edits + 1
    /\ sched' = [sched EXCEPT !.deleted = TRUE]
    /\ occ' = [o \in Occurrences |-> NoRow]
    /\ UNCHANGED <<now, admitted, work>>

----------------------------------------------------------------------------
(* Capturing and claiming.                                                 *)

Step(a, pc) == work' = [work EXCEPT ![a].pc = pc]
Stop(a) == work' = [work EXCEPT ![a] = Rest(a)]

(* Mutant: one attempt too many.                                          *)
Claimable_OffByOne(row) ==
    /\ row.attempts <= MaxAttempts
    /\ \/ row.status = "pending" /\ row.ready
       \/ row.status = "materializing" /\ ~row.leased

Claimable(row) ==
    /\ row.attempts < MaxAttempts
    /\ \/ row.status = "pending" /\ row.ready
       \/ row.status = "materializing" /\ ~row.leased

Claim(a, row) ==
    [row EXCEPT !.status = "materializing", !.attempts = @ + 1,
                !.owner = a, !.leased = TRUE, !.ready = FALSE]

Hold(a, o, row) ==
    work' = [work EXCEPT ![a] = [Idle EXCEPT !.pc = "bind", !.on = o,
                                             !.attempt = row.attempts + 1]]

(* Mutant: only looks at claims that are still in their lease.             *)
Exhausted_Leased(o) ==
    /\ occ[o].status = "materializing" /\ occ[o].leased
    /\ occ[o].attempts >= MaxAttempts

Exhausted(o) ==
    /\ occ[o].status = "materializing" /\ ~occ[o].leased
    /\ occ[o].attempts >= MaxAttempts

(* The row without its claim, marked with the attempt that decided it.     *)
Settled(row, attempt) ==
    [row EXCEPT !.owner = None, !.leased = FALSE, !.by = attempt]

(* The occurrences whose last attempt lapsed fail in a statement of their  *)
(* own, and their schedule names the failure in a later one, if it can.    *)
fail_expired_occurrences(w) ==
    /\ work[w].pc = "poll"
    /\ \/ (\A o \in Occurrences : ~Exhausted(o)) /\ Step(w, "claim") /\ UNCHANGED occ
       \/ \E o \in Occurrences :
            /\ Exhausted(o)
            /\ occ' = [occ EXCEPT ![o] = [Settled(@, @.attempts) EXCEPT !.status = "failed",
                                                                        !.error = TRUE]]
            /\ Step(w, "naming")
    /\ UNCHANGED <<now, sched, admitted, edits>>

name_failure(w) ==
    /\ work[w].pc = "naming"
    /\ Step(w, "claim")
    /\ sched' \in {sched, [sched EXCEPT !.error = TRUE]}
    /\ UNCHANGED <<now, occ, admitted, edits>>

CapturedSlots == {s \in Slots : occ[s].status # "none"}

(* Only the first MaxCaptures slots are followed.                          *)
Due ==
    /\ ~sched.deleted /\ sched.enabled
    /\ sched.next # None /\ sched.next <= now
    /\ sched.next \in CapturedSlots \/ Cardinality(CapturedSlots) < MaxCaptures

(* The due slot becomes an occurrence unless it already is one, and the    *)
(* schedule steps past now; a one-off has had its only run.                *)
Captured ==
    IF Due /\ occ[sched.next].status = "none"
    THEN [occ EXCEPT ![sched.next] = NewRow] ELSE occ

Stepped ==
    IF ~Due THEN sched
    ELSE IF sched.kind = "interval"
         THEN [sched EXCEPT !.next = next_slot(@, sched.interval)]
         ELSE [sched EXCEPT !.next = None, !.enabled = FALSE]

claim_due(w) ==
    /\ work[w].pc = "claim"
    /\ sched' = Stepped
    /\ \/ /\ \A o \in Occurrences : ~Claimable(Captured[o])
          /\ occ' = Captured
          /\ Stop(w)
       \/ \E o \in Occurrences :
            /\ Claimable(Captured[o])
            /\ occ' = [Captured EXCEPT ![o] = Claim(w, @)]
            /\ Hold(w, o, Captured[o])
    /\ UNCHANGED <<now, admitted, edits>>

(* A run-now request: one occurrence per command key.                      *)
capture_now(c) ==
    /\ work[c].pc = "request"
    /\ \/ sched.deleted /\ Stop(c) /\ UNCHANGED occ
       \/ /\ ~sched.deleted
          /\ Step(c, "claim_now")
          /\ occ' = [occ EXCEPT ![KeyOf[c]] = IF @.status = "none" THEN NewRow ELSE @]
    /\ UNCHANGED <<now, sched, admitted, edits>>

claim_occurrence(c) ==
    /\ work[c].pc = "claim_now"
    /\ LET o == KeyOf[c] IN
       \/ ~Claimable(occ[o]) /\ Stop(c) /\ UNCHANGED occ
       \/ /\ Claimable(occ[o])
          /\ occ' = [occ EXCEPT ![o] = Claim(c, @)]
          /\ Hold(c, o, occ[o])
    /\ UNCHANGED <<now, sched, admitted, edits>>

----------------------------------------------------------------------------
(* Materializing.                                                          *)

(* Mutant: any claim in progress is taken for this one.                    *)
fence_Status(a) == occ[work[a].on].status = "materializing"

(* The claim's worker and generation, not its lease.                       *)
fence(a) ==
    /\ occ[work[a].on].status = "materializing"
    /\ occ[work[a].on].owner = a
    /\ occ[work[a].on].attempts = work[a].attempt

Answer(a, result) == work' = [work EXCEPT ![a].pc = "record", ![a].result = result]

(* The binding is read, again after every stale admission.                 *)
schedule_binding(a) ==
    /\ work[a].pc = "bind"
    /\ \/ work[a].tries = MaxStale /\ Answer(a, "error")
       \/ work[a].tries < MaxStale /\ (Step(a, "admit") \/ Answer(a, "refusal"))
    /\ UNCHANGED <<now, sched, occ, admitted, edits>>

claim_holds(a) == ~sched.deleted /\ fence(a) /\ occ[work[a].on].leased

(* What an outcome leaves of a claimed row.                                *)
Recorded(row, result, attempt) ==
    CASE result = "run" ->
           [Settled(row, attempt) EXCEPT !.status = "materialized", !.error = FALSE]
      [] result = "refusal" ->
           [Settled(row, attempt) EXCEPT !.status = "failed", !.error = TRUE, !.refused = TRUE]
      [] result = "error" ->
           [Settled(row, attempt) EXCEPT !.error = TRUE,
              !.status = IF row.attempts >= MaxAttempts THEN "failed" ELSE "pending"]

settle_claim(a) ==
    /\ occ' = [occ EXCEPT ![work[a].on] = Recorded(@, "run", work[a].attempt)]
    /\ sched' = [sched EXCEPT !.error = FALSE]

(* The admission transaction: the run and its occurrence's outcome commit  *)
(* together, under a live claim; an answer lost after the COMMIT reads as  *)
(* a transient failure.  Without a live claim, or against a binding that   *)
(* changed, it is stale.  A deleted schedule, an unavailable binding or a  *)
(* rejected input refuses.                                                 *)
admit(a) ==
    /\ work[a].pc = "admit"
    /\ \/ /\ claim_holds(a)
          /\ admitted' = admitted \cup {work[a].on}
          /\ settle_claim(a)
          /\ Answer(a, "run") \/ Answer(a, "error")
       \/ /\ UNCHANGED <<admitted, sched, occ>>
          /\ \/ Answer(a, "refusal")
             \/ Answer(a, "error")
             \/ /\ ~sched.deleted
                /\ work' = [work EXCEPT ![a].pc = "bind", ![a].tries = @ + 1]
    /\ UNCHANGED <<now, edits>>

(* record_run, record_refusal and record_error, with the schedule's        *)
(* last_error; a claim that was lost records nothing.                      *)
record(a) ==
    /\ work[a].pc = "record"
    /\ Stop(a)
    /\ IF ~sched.deleted /\ fence(a)
       THEN /\ occ' = [occ EXCEPT ![work[a].on] = Recorded(@, work[a].result, work[a].attempt)]
            /\ sched' = [sched EXCEPT !.error = (work[a].result # "run")]
       ELSE UNCHANGED <<occ, sched>>
    /\ UNCHANGED <<now, admitted, edits>>

(* A process dies, or its call fails, with a claim in hand: only the lease *)
(* remains of it.                                                          *)
Abandon(a) ==
    /\ work[a].pc \in {"bind", "admit", "record"}
    /\ Stop(a)
    /\ UNCHANGED <<now, sched, occ, admitted, edits>>

----------------------------------------------------------------------------
(* Time.                                                                   *)

Tick ==
    /\ now < MaxTime
    /\ now' = now + 1
    /\ UNCHANGED <<sched, occ, admitted, work, edits>>

LeaseLapses(o) ==
    /\ occ[o].leased
    /\ occ' = [occ EXCEPT ![o].leased = FALSE]
    /\ UNCHANGED <<now, sched, admitted, work, edits>>

BackoffElapses(o) ==
    /\ occ[o].status = "pending" /\ ~occ[o].ready
    /\ occ' = [occ EXCEPT ![o].ready = TRUE]
    /\ UNCHANGED <<now, sched, admitted, work, edits>>

materialize(a) == schedule_binding(a) \/ admit(a) \/ record(a)

Poll(w) == fail_expired_occurrences(w) \/ name_failure(w) \/ claim_due(w)

RunNow(c) == capture_now(c) \/ claim_occurrence(c)

Next ==
    \/ \E w \in Workers : Poll(w)
    \/ \E c \in Callers : RunNow(c)
    \/ \E a \in Agents : materialize(a) \/ Abandon(a)
    \/ \E o \in Occurrences : LeaseLapses(o) \/ BackoffElapses(o)
    \/ update \/ set_enabled \/ delete \/ Tick

Spec == Init /\ [][Next]_vars

(* Workers keep polling and finishing what they claimed, leases end and    *)
(* backoffs elapse; no caller has to come back.                            *)
FairSpec ==
    /\ Spec
    /\ \A w \in Workers : WF_vars(Poll(w) \/ materialize(w))
    /\ \A o \in Occurrences : WF_vars(LeaseLapses(o)) /\ WF_vars(BackoffElapses(o))

----------------------------------------------------------------------------
(* Every variable has its type, and every row satisfies the table's        *)
(* schedule_runs_materialization_state_check, whose violation would fail   *)
(* the write that caused it.                                               *)
RowCheck(row) ==
    /\ (row.status = "materializing") <=> (row.owner # None)
    /\ row.leased => row.status = "materializing"
    /\ row.status = "none" => row = NoRow
    /\ row.status = "pending" => row.attempts < MaxAttempts
    /\ row.status \in {"pending", "materializing", "materialized"} => ~row.refused
    /\ row.status = "failed" => row.attempts = MaxAttempts \/ row.refused

Row == [status : {"none", "pending", "materializing", "materialized", "failed"},
        attempts : 0..MaxAttempts, owner : Agents \cup {None}, leased : BOOLEAN,
        ready : BOOLEAN, refused : BOOLEAN, error : BOOLEAN, by : 0..MaxAttempts]

Schedule == [kind : {"interval", "one_off"}, interval : Intervals \cup {None},
             next : Nat \cup {None}, enabled : BOOLEAN, error : BOOLEAN,
             deleted : BOOLEAN]

Work == [pc : {"poll", "naming", "claim", "request", "claim_now", "bind", "admit",
               "record", "done"},
         on : Occurrences \cup {None}, attempt : 0..MaxAttempts,
         tries : 0..MaxStale, result : {"none", "run", "refusal", "error"}]

TypeOK ==
    /\ now \in 0..MaxTime
    /\ sched \in Schedule
    /\ occ \in [Occurrences -> Row]
    /\ \A o \in Occurrences : RowCheck(occ[o])
    /\ admitted \subseteq Occurrences
    /\ work \in [Agents -> Work]
    /\ edits \in 0..MaxEdits

(* An occurrence is materialized exactly when a run was admitted for it,   *)
(* so that a failed one has none and a retry never admits twice; and what  *)
(* a row says of its last claim was recorded by that claim, never by an    *)
(* earlier one whose lease had lapsed.                                     *)
OutcomeIsTheLatestClaims ==
    \A o \in Occurrences :
        ~sched.deleted /\ occ[o].status # "none" =>
            /\ (o \in admitted) <=> (occ[o].status = "materialized")
            /\ occ[o].status # "materializing" => occ[o].by = occ[o].attempts

(* A schedule shows an error only while one of its occurrences failed or   *)
(* is being retried after an error: a run that succeeds clears its own.    *)
ErrorHasCause ==
    sched.error /\ ~sched.deleted => \E o \in Occurrences : occ[o].error

(* The step from slot s to the slot next: forward, past now and at most    *)
(* one interval past it, but for the hours a shift between the two takes   *)
(* away or gives twice, and at the same local time of day for whole days,  *)
(* unless the shift skips that time.                                       *)
Across(s, next) == s < ShiftAt /\ next >= ShiftAt
Skipped == ShiftAt .. (ShiftAt + ShiftBy - 1)

StepsRight(s, next, interval) ==
    /\ next > s
    /\ next + (IF ShiftBy > 0 /\ Across(s, next) THEN ShiftBy ELSE 0) > now
    /\ next + (IF ShiftBy < 0 /\ Across(s, next) THEN ShiftBy ELSE 0) <= now + interval
    /\ interval % Day = 0 /\ (\A l \in Skipped : l % Day # local(s) % Day)
         => local(next) % Day = local(s) % Day

(* Capturing a slot steps to one in the future, skipping whole missed      *)
(* slots without overshooting (across a spring shift the skipped hour may  *)
(* leave one more slot in the past, and in autumn the repeated one delays  *)
(* the next slot), and a cadence of whole days keeps its local time of day *)
(* unless the shift skips that time.                                       *)
CadenceHolds ==
    [][\A s \in Slots :
         (\E w \in Workers : claim_due(w)) /\ sched.next = s /\ Due
            /\ sched.kind = "interval" =>
            StepsRight(s, sched'.next, sched.interval)]_vars

(* The queue drains: every occurrence, captured from a slot or by a        *)
(* request, is admitted or fails, whoever dies on the way, unless its      *)
(* schedule is deleted.                                                    *)
Unsettled == {o \in Occurrences : occ[o].status \in {"pending", "materializing"}}

OccurrencesSettle == Unsettled # {} ~> Unsettled = {}
============================================================================
