------------------------ MODULE MessageIntentsProofs ------------------------
(***************************************************************************)
(* Proofs about MessageIntents, for any workers, intents, bindings and     *)
(* signals and any limits.                                                 *)
(***************************************************************************)
EXTENDS MessageIntents, TLAPS

----------------------------------------------------------------------------
(* The invariant.                                                          *)

IntentRow ==
    [state : {"pending", "claimed", "done", "failed"}, attempts : 0..MaxAttempts,
     owner : Workers \cup {None}, lease : BOOLEAN, settled : BOOLEAN,
     outcome : {"null", "matched", "admitted", "none"}]

WorkRow ==
    [pc : Steps, on : Intents \cup {None}, todo : SUBSET Bindings,
     binding : Bindings \cup {None}, result : {"none", "admitted", "refused"},
     transient : BOOLEAN]

(* The CHECKs of workflow_message_intents, as TypeOK states them, and that *)
(* only a claim has a lease.                                               *)
RowCheck(r) ==
    /\ \/ r.state = "pending" /\ r.owner = None /\ r.outcome = "null"
          /\ r.attempts < MaxAttempts
       \/ r.state = "claimed" /\ r.owner # None /\ r.outcome = "null"
          /\ r.attempts >= 1
       \/ r.state = "done" /\ r.owner = None
          /\ r.outcome \in {"matched", "admitted", "none"}
       \/ r.state = "failed" /\ r.owner = None /\ r.outcome = "null"
          /\ r.attempts = MaxAttempts
    /\ r.settled => r.outcome # "matched"
    /\ r.lease => r.state = "claimed"

RowOK(r) == r \in IntentRow /\ RowCheck(r)

RowsOK == intent \in [Intents -> IntentRow] /\ \A i \in Intents : RowOK(intent[i])

Outcomes == [Intents -> [Bindings -> {"none", "admitted", "refused", "failed"}]]

QueueTypes ==
    /\ RowsOK
    /\ outcome \in Outcomes
    /\ work \in [Workers -> WorkRow]
    /\ pastGrace \subseteq Intents

WaitTypes ==
    /\ run \in Live \cup {"ended"}
    /\ wait \in {"none", "waiting", "completed", "expired", "failed", "cancelled"}
    /\ due \in BOOLEAN /\ runDue \in BOOLEAN
    /\ inbox \in Seq(Events) /\ late \subseteq Signals
    /\ consumed \in Events \cup {None} /\ producing \in Signals \cup {None}
    /\ stale \subseteq Intents

(* The run waits exactly while its wait does.                              *)
WaitMatchesRun == wait = "waiting" <=> run = "waiting"

(* What a worker's place in the code says about its intent, whether or not *)
(* it still holds the claim.                                               *)
Placed(w) ==
    LET i == work[w].on IN
    /\ work[w].pc # "idle" => i \in Intents
    /\ work[w].pc = "record" => work[w].binding \in Bindings /\ work[w].result # "none"
    /\ work[w].pc = "match" => Recorded(i)
    /\ work[w].pc \in {"candidates", "bindings", "record", "exhaust", "finish"} =>
          intent[i].settled

(* And what only the claim it took can guarantee.                          *)
Owned(w) ==
    LET i == work[w].on IN
    work[w].pc # "idle" /\ intent[i].state = "claimed" /\ intent[i].owner = w =>
        /\ work[w].pc \in {"offer", "match", "not_yet", "settle"} => ~intent[i].settled
        /\ work[w].pc = "transient" => ~intent[i].settled \/ intent[i].attempts < MaxAttempts
        /\ work[w].pc = "settle" => ~InLease(i)

WorkersAreSound == \A w \in Workers : Placed(w) /\ Owned(w)

(* A message admits runs only after nothing was found to await it, and the *)
(* holder of its claim records it for a wait only before.                  *)
Used(i) ==
    /\ Admitted(i) => intent[i].settled
    /\ InLease(i) => ~intent[i].settled

Truth(i) ==
    /\ intent[i].outcome = "matched" => Recorded(i)
    /\ intent[i].state \in {"done", "failed"} => (Admitted(i) <=> intent[i].outcome = "admitted")

IntentsAreSound == \A i \in Intents : Used(i) /\ Truth(i)

IntentsInv ==
    /\ QueueTypes
    /\ WaitTypes
    /\ WaitMatchesRun
    /\ WorkersAreSound
    /\ IntentsAreSound

----------------------------------------------------------------------------
(* The operators the steps are made of.                                    *)

(* A worker is not NULL, and there is an attempt to spend.                 *)
LEMMA ConstantFacts ==
    /\ None \notin Workers /\ None \notin Intents /\ None \notin Bindings /\ None \notin Signals
    /\ MaxAttempts \in Nat /\ MaxAttempts >= 1 /\ Intents \cap Signals = {}
    /\ Answers \subseteq Signals
BY IntentConstants

(* Recording adds its event to what is recorded, and nothing else.         *)
LEMMA AppendRecords ==
    ASSUME inbox \in Seq(Events), NEW e \in Events, inbox' = Append(inbox, e)
    PROVE  /\ inbox' \in Seq(Events)
           /\ \A f : Recorded(f)' <=> Recorded(f) \/ f = e
<1>1. /\ inbox' \in Seq(Events) /\ Len(inbox') = Len(inbox) + 1 /\ Len(inbox) \in Nat
      /\ inbox'[Len(inbox) + 1] = e
      /\ \A n \in 1 .. Len(inbox) : inbox'[n] = inbox[n]
      /\ DOMAIN inbox = 1 .. Len(inbox) /\ DOMAIN inbox' = 1 .. (Len(inbox) + 1)
  OBVIOUS
<1>2. \A n \in DOMAIN inbox' : n \in DOMAIN inbox \/ n = Len(inbox) + 1
  BY <1>1
<1>3. DOMAIN inbox \subseteq DOMAIN inbox' /\ Len(inbox) + 1 \in DOMAIN inbox'
  BY <1>1
<1>4. \A f : Recorded(f)' <=> \E n \in DOMAIN inbox' : inbox'[n] = f
  BY DEF Recorded, ToSet
<1>5. \A f : Recorded(f) <=> \E n \in DOMAIN inbox : inbox[n] = f
  BY DEF Recorded, ToSet
<1>6. QED
  BY <1>1, <1>2, <1>3, <1>4, <1>5

(* What depends on rows that do not change does not change.                *)
LEMMA SameInbox ==
    UNCHANGED <<inbox, stale>> =>
        \A e : (Recorded(e)' <=> Recorded(e)) /\ (InLease(e)' <=> InLease(e))
BY DEF Recorded, InLease

(* Nor do the admissions of outcomes that stay.                            *)
LEMMA SameOutcome == outcome' = outcome => \A i : Admitted(i)' <=> Admitted(i)
BY DEF Admitted

(* Steps of the run, its wait and record_event, which leave the queue.     *)
LEMMA WaitStep ==
    ASSUME IntentsInv, UNCHANGED queue, WaitTypes', WaitMatchesRun',
           UNCHANGED stale, \A i \in Intents : Recorded(i)' <=> Recorded(i)
    PROVE  IntentsInv'
<1>1. intent' = intent /\ outcome' = outcome /\ work' = work /\ pastGrace' = pastGrace
  BY DEF queue
<1>2. QueueTypes'
  BY <1>1 DEF IntentsInv, QueueTypes, RowsOK
<1>3. WorkersAreSound'
  BY <1>1 DEF IntentsInv, WorkersAreSound, Placed, Owned, InLease
<1>4. IntentsAreSound'
  BY <1>1, SameOutcome DEF IntentsInv, IntentsAreSound, Used, Truth, InLease
<1>5. QED
  BY <1>2, <1>3, <1>4 DEF IntentsInv

(* The run parks, ends, is cancelled, expires or passes a deadline.        *)
LEMMA RunSteps ==
    ASSUME IntentsInv,
           \/ park_on \/ finish_run \/ expire_on \/ cancel_run_on
           \/ pass_wait_deadline \/ pass_run_deadline
    PROVE  IntentsInv'
<1>1. WaitTypes /\ WaitMatchesRun
  BY DEF IntentsInv
<1>2. UNCHANGED <<inbox, late, consumed, producing, stale, queue>>
  BY DEF park_on, finish_run, expire_on, cancel_run_on, pass_wait_deadline, pass_run_deadline
<1>3. WaitTypes' /\ WaitMatchesRun'
  <2>1. CASE park_on
    BY <1>1, <1>2, <2>1 DEF park_on, WaitTypes, WaitMatchesRun, Live
  <2>2. CASE finish_run
    BY <1>1, <1>2, <2>2 DEF finish_run, WaitTypes, WaitMatchesRun, Live
  <2>3. CASE expire_on
    BY <1>1, <1>2, <2>3 DEF expire_on, WaitTypes, WaitMatchesRun, Live
  <2>4. CASE cancel_run_on
    BY <1>1, <1>2, <2>4 DEF cancel_run_on, WaitTypes, WaitMatchesRun, Live
  <2>5. CASE pass_wait_deadline
    BY <1>1, <1>2, <2>5 DEF pass_wait_deadline, WaitTypes, WaitMatchesRun, Live
  <2>6. CASE pass_run_deadline
    BY <1>1, <1>2, <2>6 DEF pass_run_deadline, WaitTypes, WaitMatchesRun, Live
  <2>7. QED
    BY <2>1, <2>2, <2>3, <2>4, <2>5, <2>6
<1>4. QED
  BY <1>2, <1>3, SameInbox, WaitStep

(* A resume consumes a recorded event, expires or fails.                   *)
LEMMA ResumeStep ==
    ASSUME IntentsInv, resume_on
    PROVE  IntentsInv'
<1>1. WaitTypes /\ WaitMatchesRun /\ wait = "waiting"
  BY DEF IntentsInv, resume_on
<1>2. UNCHANGED <<due, runDue, inbox, late, producing, stale, queue>>
  BY DEF resume_on
<1>3. CASE expire
  <2>1. WaitTypes' /\ WaitMatchesRun'
    BY <1>1, <1>2, <1>3 DEF expire, WaitTypes, WaitMatchesRun, Live
  <2>2. QED
    BY <1>2, <2>1, SameInbox, WaitStep
<1>4. CASE fail
  <2>1. WaitTypes' /\ WaitMatchesRun'
    BY <1>1, <1>2, <1>4 DEF fail, WaitTypes, WaitMatchesRun, Live
  <2>2. QED
    BY <1>2, <2>1, SameInbox, WaitStep
<1>5. CASE commit_wake
  <2>1. PICK n \in Eligible : consumed' = inbox[n]
    BY <1>5 DEF commit_wake
  <2>2. n \in DOMAIN inbox /\ inbox \in Seq(Events)
    BY <1>1, <2>1 DEF Eligible, WaitTypes
  <2>3. consumed' \in Events
    BY <2>1, <2>2
  <2>4. wait' = "completed" /\ run' \in {"running", "ended"}
    BY <1>5 DEF commit_wake
  <2>5. WaitTypes' /\ WaitMatchesRun'
    BY <1>1, <1>2, <2>3, <2>4 DEF WaitTypes, WaitMatchesRun, Live
  <2>6. QED
    BY <1>2, <2>5, SameInbox, WaitStep
<1>6. QED
  BY <1>3, <1>4, <1>5 DEF resume_on

(* record_event records a signal, which no intent is.                      *)
LEMMA RecordEventSteps ==
    ASSUME IntentsInv, record_event \/ \E e \in Signals : record_event_on(e)
    PROVE  IntentsInv'
<1>1. WaitTypes /\ WaitMatchesRun
  BY DEF IntentsInv
<1>2. CASE \E e \in Signals : record_event_on(e)
  <2>1. PICK e \in Signals : record_event_on(e)
    BY <1>2
  <2>2. /\ UNCHANGED <<run, wait, due, runDue, inbox, consumed, stale, queue>> /\ producing' = e
        /\ late' = IF due THEN late \cup {e} ELSE late
    BY <2>1 DEF record_event_on
  <2>3. WaitTypes' /\ WaitMatchesRun'
    BY <1>1, <2>2 DEF WaitTypes, WaitMatchesRun
  <2>4. QED
    BY <2>2, <2>3, SameInbox, WaitStep
<1>3. CASE record_event
  <2>1. /\ UNCHANGED <<run, wait, due, runDue, consumed, stale, queue>> /\ producing' = None
        /\ producing \in Signals /\ late' \subseteq late
    BY <1>1, <1>3 DEF record_event, WaitTypes
  <2>2. CASE inbox' = inbox
    <3>1. WaitTypes' /\ WaitMatchesRun'
      BY <1>1, <2>1, <2>2 DEF WaitTypes, WaitMatchesRun
    <3>2. QED
      BY <2>1, <2>2, <3>1, SameInbox, WaitStep
  <2>3. CASE inbox' = Append(inbox, producing)
    <3>1. PICK e \in Signals : e = producing
      BY <2>1
    <3>2. e \in Events /\ inbox \in Seq(Events) /\ inbox' = Append(inbox, e)
      BY <1>1, <2>3, <3>1 DEF Events, WaitTypes
    <3>3. inbox' \in Seq(Events) /\ \A i \in Intents : Recorded(i)' <=> Recorded(i)
      BY <3>1, <3>2, AppendRecords, ConstantFacts
    <3>4. WaitTypes' /\ WaitMatchesRun'
      BY <1>1, <2>1, <3>3 DEF WaitTypes, WaitMatchesRun
    <3>5. QED
      BY <2>1, <3>3, <3>4, WaitStep
  <2>4. QED
    BY <1>3, <2>2, <2>3 DEF record_event
<1>4. QED
  BY <1>2, <1>3

----------------------------------------------------------------------------
(* Steps of the workers, seen by the others.                               *)

(* A decision stays, and what was recorded stays.                          *)
Grows ==
    \A i \in Intents :
        /\ intent[i].settled => intent'[i].settled
        /\ Recorded(i) => Recorded(i)'

(* A claim that a worker still has is as it left it.                       *)
Kept(v) ==
    \A i \in Intents :
        intent'[i].state = "claimed" /\ intent'[i].owner = v =>
            /\ intent[i].state = "claimed" /\ intent[i].owner = v
            /\ intent'[i].settled = intent[i].settled
            /\ intent'[i].attempts = intent[i].attempts
            /\ InLease(i)' => InLease(i)

(* What a worker that does not move knows stays so.                        *)
LEMMA Bystander ==
    ASSUME IntentsInv, NEW v \in Workers, work'[v] = work[v], Grows, Kept(v)
    PROVE  Placed(v)' /\ Owned(v)'
<1>1. Placed(v) /\ Owned(v)
  BY DEF IntentsInv, WorkersAreSound
<1>2. CASE work[v].pc = "idle"
  BY <1>2 DEF Placed, Owned, Steps
<1>3. CASE work[v].pc # "idle"
  <2>1. PICK i \in Intents : i = work[v].on
    BY <1>1, <1>3 DEF Placed
  <2>2. Placed(v)'
    BY <1>1, <2>1 DEF Placed, Grows
  <2>3. Owned(v)'
    BY <1>1, <2>1 DEF Owned, Kept
  <2>4. QED
    BY <2>2, <2>3
<1>4. QED
  BY <1>2, <1>3

(* One worker's step, from its parts.                                      *)
LEMMA WorkerStep ==
    ASSUME IntentsInv, NEW w \in Workers,
           UNCHANGED <<pastGrace, run, wait, due, runDue, late, consumed, producing>>,
           inbox' \in Seq(Events), stale' \subseteq Intents, RowsOK', outcome' \in Outcomes,
           work' \in [Workers -> WorkRow],
           \A v \in Workers : v # w => work'[v] = work[v] /\ Kept(v),
           Grows, Placed(w)', Owned(w)', IntentsAreSound'
    PROVE  IntentsInv'
<1>1. QueueTypes'
  BY DEF IntentsInv, QueueTypes
<1>2. WaitTypes' /\ WaitMatchesRun'
  BY DEF IntentsInv, WaitTypes, WaitMatchesRun
<1>3. ASSUME NEW v \in Workers, v # w PROVE Placed(v)' /\ Owned(v)'
  BY <1>3, Bystander
<1>4. WorkersAreSound'
  BY <1>3 DEF WorkersAreSound
<1>5. QED
  BY <1>1, <1>2, <1>4 DEF IntentsInv

(* A worker that stops has nothing in hand.                                *)
LEMMA StopFacts ==
    ASSUME IntentsInv, NEW w \in Workers, Stop(w)
    PROVE  /\ work' \in [Workers -> WorkRow] /\ Placed(w)' /\ Owned(w)'
           /\ \A v \in Workers : v # w => work'[v] = work[v]
<1>1. Idle \in WorkRow /\ Idle.pc = "idle"
  BY DEF Idle, WorkRow, Steps
<1>2. work \in [Workers -> WorkRow]
  BY DEF IntentsInv, QueueTypes
<1>3. /\ work'[w] = Idle /\ work' \in [Workers -> WorkRow]
      /\ \A v \in Workers : v # w => work'[v] = work[v]
  BY <1>1, <1>2 DEF Stop
<1>4. QED
  BY <1>1, <1>3 DEF Placed, Owned

(* A worker that moves on with its intent.                                 *)
LEMMA StepFacts ==
    ASSUME IntentsInv, NEW w \in Workers, NEW pc \in Steps, Step(w, pc)
    PROVE  /\ work' \in [Workers -> WorkRow]
           /\ work'[w].pc = pc /\ work'[w].on = work[w].on
           /\ \A v \in Workers : v # w => work'[v] = work[v]
<1>1. work \in [Workers -> WorkRow]
  BY DEF IntentsInv, QueueTypes
<1>2. QED
  BY <1>1 DEF Step, WorkRow

(* A step that only moves a worker.                                        *)
LEMMA QuietStep ==
    ASSUME IntentsInv, NEW w \in Workers, UNCHANGED <<intent, outcome, pastGrace, waiting>>,
           work' \in [Workers -> WorkRow], Placed(w)', Owned(w)',
           \A v \in Workers : v # w => work'[v] = work[v]
    PROVE  IntentsInv'
<1>1. /\ UNCHANGED <<intent, outcome, pastGrace, run, wait, due, runDue, inbox, late, consumed,
                     producing, stale>>
  BY DEF waiting
<1>2. RowsOK' /\ outcome' \in Outcomes /\ inbox' \in Seq(Events) /\ stale' \subseteq Intents
  BY <1>1 DEF IntentsInv, QueueTypes, WaitTypes, RowsOK
<1>3. Grows /\ \A v \in Workers : Kept(v)
  BY <1>1, SameInbox DEF Grows, Kept
<1>4. IntentsAreSound'
  BY <1>1, SameInbox, SameOutcome DEF IntentsInv, IntentsAreSound, Used, Truth
<1>5. QED
  BY <1>1, <1>2, <1>3, <1>4, WorkerStep

(* A row that a claim of this intent leaves.                               *)
LEMMA ReleasedRow ==
    ASSUME NEW i \in Intents, RowOK(intent[i]), NEW state, NEW result,
           \/ state = "pending" /\ result = "null" /\ intent[i].attempts < MaxAttempts
           \/ state = "failed" /\ result = "null" /\ intent[i].attempts >= MaxAttempts
           \/ /\ state = "done" /\ result \in {"matched", "admitted", "none"}
              /\ intent[i].settled => result # "matched"
    PROVE  /\ RowOK(Release(i, state, result))
           /\ Release(i, state, result).settled = intent[i].settled
           /\ Release(i, state, result).state = state
           /\ Release(i, state, result).outcome = result
<1> DEFINE row == Release(i, state, result)
<1>1. intent[i] \in IntentRow /\ intent[i].attempts \in 0 .. MaxAttempts
  BY DEF RowOK, IntentRow
<1>2. /\ row \in IntentRow /\ row.state = state /\ row.owner = None /\ row.lease = FALSE
      /\ row.outcome = result /\ row.attempts = intent[i].attempts
      /\ row.settled = intent[i].settled
  BY <1>1 DEF Release, IntentRow
<1> HIDE DEF row
<1>3. RowCheck(row)
  BY <1>1, <1>2, ConstantFacts DEF RowCheck
<1>4. QED
  BY <1>2, <1>3 DEF RowOK, row

(* A write of one intent's row that says only what is so.                  *)
Writes(i, row) ==
    /\ RowOK(row)
    /\ intent' = [intent EXCEPT ![i] = row] /\ UNCHANGED <<outcome, inbox, stale>>
    /\ intent[i].settled => row.settled
    /\ InLease(i) => ~row.settled
    /\ row.outcome = "matched" => Recorded(i)
    /\ row.state \in {"done", "failed"} => (Admitted(i) <=> row.outcome = "admitted")

(* Writing one intent's row.                                               *)
LEMMA WriteIntent ==
    ASSUME IntentsInv, NEW i \in Intents, NEW row, Writes(i, row)
    PROVE  /\ RowsOK' /\ IntentsAreSound' /\ Grows
           /\ intent'[i] = row
           /\ \A j \in Intents : j # i => intent'[j] = intent[j]
           /\ \A v \in Workers : (row.state = "claimed" => row.owner # v) => Kept(v)
<1>1. intent \in [Intents -> IntentRow] /\ IntentsAreSound /\ RowsOK
  BY DEF IntentsInv, QueueTypes, RowsOK
<1>2. intent'[i] = row /\ \A j \in Intents : j # i => intent'[j] = intent[j]
  BY <1>1 DEF Writes
<1>3. RowsOK'
  BY <1>1, <1>2 DEF RowsOK, RowOK, Writes
<1>4. \A j \in Intents : /\ Recorded(j)' <=> Recorded(j)
                         /\ InLease(j)' <=> InLease(j)
                         /\ Admitted(j)' <=> Admitted(j)
  BY SameInbox, SameOutcome DEF Writes
<1>5. IntentsAreSound'
  BY <1>1, <1>2, <1>4 DEF IntentsAreSound, Used, Truth, Writes
<1>6. Grows
  BY <1>2, <1>4 DEF Grows, Writes
<1>7. ASSUME NEW v \in Workers, row.state = "claimed" => row.owner # v PROVE Kept(v)
  BY <1>2, <1>4, <1>7 DEF Kept
<1>8. QED
  BY <1>2, <1>3, <1>5, <1>6, <1>7

(* A worker's step that writes its intent's row and leaves the outcomes.   *)
LEMMA IntentStep ==
    ASSUME IntentsInv, NEW w \in Workers, NEW i \in Intents, NEW row, RowOK(row),
           intent' = [intent EXCEPT ![i] = row], UNCHANGED <<outcome, pastGrace, waiting>>,
           intent[i].settled => row.settled,
           InLease(i) => ~row.settled,
           row.outcome = "matched" => Recorded(i),
           row.state \in {"done", "failed"} => (Admitted(i) <=> row.outcome = "admitted"),
           row.state = "claimed" => row.owner = w,
           work' \in [Workers -> WorkRow], Placed(w)', Owned(w)',
           \A v \in Workers : v # w => work'[v] = work[v]
    PROVE  IntentsInv'
<1>1. UNCHANGED <<outcome, pastGrace, run, wait, due, runDue, inbox, late, consumed, producing, stale>>
  BY DEF waiting
<1>2. outcome' \in Outcomes /\ inbox' \in Seq(Events) /\ stale' \subseteq Intents
  BY <1>1 DEF IntentsInv, QueueTypes, WaitTypes
<1>3. UNCHANGED <<outcome, inbox, stale>>
  BY <1>1
<1>4. /\ RowsOK' /\ IntentsAreSound' /\ Grows
      /\ \A v \in Workers : (row.state = "claimed" => row.owner # v) => Kept(v)
  <2>1. Writes(i, row)
    BY <1>3 DEF Writes
  <2>2. QED
    BY <2>1, WriteIntent
<1>5. \A v \in Workers : v # w => Kept(v)
  BY <1>4
<1>6. QED
  BY <1>1, <1>2, <1>4, <1>5, WorkerStep

----------------------------------------------------------------------------
(* The steps of the queue.                                                 *)

(* A worker that is not idle has an intent.                                *)
LEMMA OnIntent ==
    ASSUME IntentsInv, NEW w \in Workers, work[w].pc # "idle"
    PROVE  \E i \in Intents :
               /\ i = work[w].on /\ RowOK(intent[i]) /\ Used(i) /\ Truth(i)
               /\ Placed(w) /\ Owned(w)
BY DEF IntentsInv, QueueTypes, RowsOK, IntentsAreSound, WorkersAreSound, Placed

(* The row a held claim is released to, in the three ways a worker ends    *)
(* its claim.                                                              *)
LEMMA ReleaseStep ==
    ASSUME IntentsInv, NEW w \in Workers, NEW i \in Intents, intent[i].state = "claimed",
           NEW state, NEW result,
           \/ state = "pending" /\ result = "null" /\ intent[i].attempts < MaxAttempts
           \/ /\ state = "failed" /\ result = "null" /\ intent[i].attempts >= MaxAttempts
              /\ ~Admitted(i)
           \/ /\ state = "done" /\ result \in {"matched", "admitted", "none"}
              /\ intent[i].settled => result # "matched"
              /\ Admitted(i) <=> result = "admitted"
              /\ result = "matched" => Recorded(i),
           intent' = [intent EXCEPT ![i] = Release(i, state, result)],
           UNCHANGED <<outcome, pastGrace, waiting>>,
           Stop(w) \/ work' = work
    PROVE  IntentsInv'
<1> DEFINE row == Release(i, state, result)
<1>1. RowOK(intent[i]) /\ Used(i) /\ Placed(w) /\ Owned(w)
  BY DEF IntentsInv, QueueTypes, RowsOK, IntentsAreSound, WorkersAreSound
<1>2. RowOK(row) /\ row.settled = intent[i].settled /\ row.state = state /\ row.outcome = result
  BY <1>1, ReleasedRow
<1>3. intent' = [intent EXCEPT ![i] = row]
  OBVIOUS
<1> HIDE DEF row
<1>4. /\ intent[i].settled => row.settled
      /\ InLease(i) => ~row.settled
      /\ row.outcome = "matched" => Recorded(i)
      /\ row.state \in {"done", "failed"} => (Admitted(i) <=> row.outcome = "admitted")
      /\ row.state # "claimed"
  BY <1>1, <1>2 DEF Used
<1>5. CASE Stop(w)
  <2>1. /\ work' \in [Workers -> WorkRow] /\ Placed(w)' /\ Owned(w)'
        /\ \A v \in Workers : v # w => work'[v] = work[v]
    BY <1>5, StopFacts
  <2>2. QED
    BY <1>2, <1>3, <1>4, <2>1, IntentStep
<1>6. CASE work' = work
  <2>1. UNCHANGED <<outcome, inbox, stale>>
    BY DEF waiting
  <2>2. Grows /\ Kept(w)
    <3>1. Writes(i, row)
      BY <1>2, <1>3, <1>4, <2>1 DEF Writes
    <3>2. QED
      BY <1>4, <3>1, WriteIntent
  <2>3. Placed(w)' /\ Owned(w)'
    BY <1>6, <2>2, Bystander
  <2>4. work' \in [Workers -> WorkRow]
    BY <1>6 DEF IntentsInv, QueueTypes
  <2>5. QED
    BY <1>2, <1>3, <1>4, <1>6, <2>3, <2>4, IntentStep
<1>7. QED
  BY <1>5, <1>6

(* A claim spends an attempt.                                              *)
LEMMA ClaimStep ==
    ASSUME IntentsInv, NEW w \in Workers, NEW i \in Intents, claim_intents(w, i)
    PROVE  IntentsInv'
<1> DEFINE row == [intent[i] EXCEPT !.state = "claimed", !.owner = w, !.lease = TRUE,
                                    !.attempts = @ + 1]
           held == [Idle EXCEPT !.pc = FirstStep(i), !.on = i]
<1>1. /\ RowOK(intent[i]) /\ Used(i) /\ work \in [Workers -> WorkRow]
      /\ intent \in [Intents -> IntentRow]
  BY DEF IntentsInv, QueueTypes, RowsOK, IntentsAreSound
<1>2. intent[i] \in IntentRow /\ RowCheck(intent[i]) /\ intent[i].attempts \in 0 .. MaxAttempts
  BY <1>1 DEF RowOK, IntentRow
<1>3. intent[i].attempts < MaxAttempts /\ intent[i].outcome = "null"
  BY <1>2 DEF claim_intents, Claimable, RowCheck
<1>4. /\ row \in IntentRow /\ row.state = "claimed" /\ row.owner = w /\ row.lease = TRUE
      /\ row.attempts = intent[i].attempts + 1 /\ row.settled = intent[i].settled
      /\ row.outcome = "null"
  <2>1. intent[i].attempts + 1 \in 0 .. MaxAttempts
    BY <1>2, <1>3, ConstantFacts
  <2>2. QED
    BY <1>2, <1>3, <2>1 DEF IntentRow
<1>5. intent' = [intent EXCEPT ![i] = row]
  BY <1>1 DEF claim_intents
<1>6. /\ held \in WorkRow /\ held.on = i /\ held.pc = FirstStep(i)
      /\ held.pc \in {"offer", "candidates", "finish"}
      /\ held.pc = "offer" <=> ~intent[i].settled
  <2>1. /\ FirstStep(i) \in {"offer", "candidates", "finish"}
        /\ FirstStep(i) = "offer" <=> ~intent[i].settled
    BY DEF FirstStep
  <2> HIDE DEF FirstStep
  <2>2. QED
    BY <2>1 DEF Idle, WorkRow, Steps
<1>7. work' = [work EXCEPT ![w] = held] /\ UNCHANGED <<outcome, pastGrace, waiting>>
  BY DEF claim_intents
<1> HIDE DEF row, held
<1>8. /\ work' \in [Workers -> WorkRow] /\ work'[w] = held
      /\ \A v \in Workers : v # w => work'[v] = work[v]
  BY <1>1, <1>6, <1>7
<1>9. RowOK(row)
  BY <1>2, <1>4, ConstantFacts DEF RowOK, RowCheck
<1>10. intent'[i] = row
  BY <1>1, <1>5
<1>11. Placed(w)' /\ Owned(w)'
  BY <1>4, <1>6, <1>8, <1>10 DEF Placed, Owned
<1>12. QED
  BY <1>1, <1>4, <1>5, <1>7, <1>8, <1>9, <1>11, IntentStep DEF Used

(* The sweep ends a lapsed last attempt by what its bindings did.          *)
LEMMA SweepStep ==
    ASSUME IntentsInv, NEW w \in Workers, NEW i \in Intents, fail_expired_intents(i)
    PROVE  IntentsInv'
<1>1. /\ intent[i].state = "claimed" /\ intent[i].attempts >= MaxAttempts
      /\ UNCHANGED <<outcome, pastGrace, waiting>> /\ work' = work
  BY DEF fail_expired_intents
<1>2. CASE Admitted(i)
  <2>1. intent' = [intent EXCEPT ![i] = Release(i, "done", "admitted")]
    BY <1>2 DEF fail_expired_intents
  <2>2. QED
    BY <1>1, <1>2, <2>1, ReleaseStep
<1>3. CASE ~Admitted(i)
  <2>1. intent' = [intent EXCEPT ![i] = Release(i, "failed", "null")]
    BY <1>3 DEF fail_expired_intents
  <2>2. QED
    BY <1>1, <1>3, <2>1, ReleaseStep
<1>4. QED
  BY <1>2, <1>3

(* A worker that lost its claim writes nothing.                            *)
LEMMA LostStep ==
    ASSUME IntentsInv, NEW w \in Workers, Stop(w), UNCHANGED <<intent, outcome, pastGrace, waiting>>
    PROVE  IntentsInv'
BY StopFacts, QuietStep

(* A matched reply ends its intent: it was not settled, so it admitted     *)
(* nothing.                                                                *)
LEMMA FinishMatchedStep ==
    ASSUME IntentsInv, NEW w \in Workers, finish_matched(w)
    PROVE  IntentsInv'
<1>1. work[w].pc = "match" /\ Stop(w) /\ UNCHANGED <<outcome, pastGrace, waiting>>
  BY DEF finish_matched
<1>2. PICK i \in Intents : /\ i = work[w].on /\ RowOK(intent[i]) /\ Used(i)
                           /\ Placed(w) /\ Owned(w)
  BY <1>1, OnIntent
<1>3. CASE Held(w)
  <2>1. /\ intent[i].state = "claimed" /\ ~intent[i].settled /\ Recorded(i) /\ ~Admitted(i)
    BY <1>1, <1>2, <1>3 DEF Held, Placed, Owned, Used
  <2>2. intent' = [intent EXCEPT ![i] = Release(i, "done", "matched")]
    BY <1>2, <1>3 DEF finish_matched
  <2>3. QED
    BY <1>1, <2>1, <2>2, ReleaseStep
<1>4. CASE ~Held(w)
  BY <1>1, <1>4, LostStep DEF finish_matched
<1>5. QED
  BY <1>3, <1>4

(* A transient failure spends the attempt; the last one fails an intent    *)
(* that admitted nothing.                                                  *)
LEMMA DeferTransientStep ==
    ASSUME IntentsInv, NEW w \in Workers, defer_transient(w)
    PROVE  IntentsInv'
<1>1. work[w].pc = "transient" /\ Stop(w) /\ UNCHANGED <<outcome, pastGrace, waiting>>
  BY DEF defer_transient
<1>2. PICK i \in Intents : /\ i = work[w].on /\ RowOK(intent[i]) /\ Used(i)
                           /\ Placed(w) /\ Owned(w)
  BY <1>1, OnIntent
<1>3. CASE Held(w)
  <2>1. /\ intent[i].state = "claimed" /\ intent[i].attempts \in 0 .. MaxAttempts
        /\ ~intent[i].settled \/ intent[i].attempts < MaxAttempts
        /\ Admitted(i) => intent[i].settled
    BY <1>1, <1>2, <1>3 DEF Held, Owned, Used, RowOK, IntentRow
  <2>2. intent' = [intent EXCEPT ![i] =
                      Release(i, IF intent[i].attempts >= MaxAttempts THEN "failed"
                                 ELSE "pending", "null")]
    BY <1>2, <1>3 DEF defer_transient, IntentsInv, QueueTypes, RowsOK
  <2>3. CASE intent[i].attempts >= MaxAttempts
    <3>1. intent' = [intent EXCEPT ![i] = Release(i, "failed", "null")]
      BY <2>2, <2>3
    <3>2. ~Admitted(i)
      BY <2>1, <2>3, ConstantFacts
    <3>3. QED
      BY <1>1, <2>1, <2>3, <3>1, <3>2, ReleaseStep
  <2>4. CASE ~(intent[i].attempts >= MaxAttempts)
    <3>1. intent' = [intent EXCEPT ![i] = Release(i, "pending", "null")]
      BY <2>2, <2>4
    <3>2. intent[i].attempts < MaxAttempts
      BY <2>1, <2>4, ConstantFacts
    <3>3. QED
      BY <1>1, <2>1, <3>1, <3>2, ReleaseStep
  <2>5. QED
    BY <2>3, <2>4
<1>4. CASE ~Held(w)
  BY <1>1, <1>4, LostStep DEF defer_transient
<1>5. QED
  BY <1>3, <1>4

(* A reply that came before the park returns its attempt.                  *)
LEMMA DeferNotYetStep ==
    ASSUME IntentsInv, NEW w \in Workers, defer_not_yet(w)
    PROVE  IntentsInv'
<1>1. work[w].pc = "not_yet" /\ Stop(w) /\ UNCHANGED <<outcome, pastGrace, waiting>>
  BY DEF defer_not_yet
<1>2. PICK i \in Intents : /\ i = work[w].on /\ RowOK(intent[i]) /\ Used(i)
                           /\ Placed(w) /\ Owned(w)
  BY <1>1, OnIntent
<1>3. CASE Held(w)
  <2> DEFINE row == [Release(i, "pending", "null") EXCEPT !.attempts = @ - 1]
  <2>1. /\ intent[i] \in IntentRow /\ intent[i].state = "claimed"
        /\ intent[i].attempts \in 1 .. MaxAttempts
    <3>1. /\ intent[i] \in IntentRow /\ intent[i].state = "claimed"
          /\ intent[i].attempts \in 0 .. MaxAttempts /\ RowCheck(intent[i])
      BY <1>2, <1>3 DEF Held, RowOK, IntentRow
    <3>2. intent[i].attempts >= 1
      BY <3>1 DEF RowCheck
    <3>3. QED
      BY <3>1, <3>2, ConstantFacts
  <2>2. intent[i].attempts - 1 \in 0 .. MaxAttempts /\ intent[i].attempts - 1 < MaxAttempts
    BY <2>1, ConstantFacts
  <2>3. /\ row \in IntentRow /\ row.state = "pending" /\ row.owner = None /\ row.lease = FALSE
        /\ row.attempts = intent[i].attempts - 1 /\ row.settled = intent[i].settled
        /\ row.outcome = "null"
    BY <2>1, <2>2 DEF IntentRow, Release
  <2>4. intent' = [intent EXCEPT ![i] = row]
    BY <1>2, <1>3 DEF defer_not_yet
  <2> HIDE DEF row
  <2>5. RowOK(row)
    BY <2>2, <2>3 DEF RowOK, RowCheck
  <2>6. /\ work' \in [Workers -> WorkRow] /\ Placed(w)' /\ Owned(w)'
        /\ \A v \in Workers : v # w => work'[v] = work[v]
    BY <1>1, StopFacts
  <2>7. QED
    BY <1>1, <1>2, <2>3, <2>4, <2>5, <2>6, IntentStep DEF Used
<1>4. CASE ~Held(w)
  BY <1>1, <1>4, LostStep DEF defer_not_yet
<1>5. QED
  BY <1>3, <1>4

(* Nothing awaits the reply, and it stays so for the claim that found out. *)
LEMMA SettleReplyStep ==
    ASSUME IntentsInv, NEW w \in Workers, settle_reply(w)
    PROVE  IntentsInv'
<1>1. work[w].pc = "settle" /\ UNCHANGED <<outcome, pastGrace, waiting>>
  BY DEF settle_reply
<1>2. PICK i \in Intents : /\ i = work[w].on /\ RowOK(intent[i]) /\ Used(i)
                           /\ Placed(w) /\ Owned(w)
  BY <1>1, OnIntent
<1>3. CASE Held(w)
  <2> DEFINE row == [intent[i] EXCEPT !.settled = TRUE]
             pc == IF i \in Quiet THEN "finish" ELSE "candidates"
  <2>1. /\ intent[i] \in IntentRow /\ intent[i].state = "claimed" /\ intent[i].owner = w
        /\ RowCheck(intent[i])
        /\ ~InLease(i)
    BY <1>1, <1>2, <1>3 DEF Held, RowOK, Owned
  <2>2. /\ row \in IntentRow /\ row.state = "claimed" /\ row.owner = w /\ row.settled = TRUE
        /\ row.lease = intent[i].lease /\ row.attempts = intent[i].attempts
        /\ row.outcome = intent[i].outcome
    BY <2>1 DEF IntentRow
  <2>3. intent' = [intent EXCEPT ![i] = row] /\ Step(w, pc)
    <3>1. intent' = [intent EXCEPT ![i].settled = TRUE] /\ Step(w, pc)
      BY <1>2, <1>3 DEF settle_reply
    <3>2. QED
      BY <3>1 DEF IntentsInv, QueueTypes, RowsOK
  <2>4. pc \in {"finish", "candidates"} /\ pc \in Steps
    BY DEF Steps
  <2> HIDE DEF row, pc
  <2>5. RowOK(row) /\ row.outcome = "null"
    BY <2>1, <2>2 DEF RowOK, RowCheck
  <2>6. /\ work' \in [Workers -> WorkRow] /\ work'[w].pc = pc /\ work'[w].on = i
        /\ \A v \in Workers : v # w => work'[v] = work[v]
    BY <1>2, <2>3, <2>4, StepFacts
  <2>7. intent'[i] = row
    BY <2>3 DEF IntentsInv, QueueTypes, RowsOK
  <2>8. Placed(w)' /\ Owned(w)'
    BY <2>2, <2>4, <2>6, <2>7 DEF Placed, Owned
  <2>9. QED
    BY <1>1, <2>1, <2>2, <2>3, <2>5, <2>6, <2>8, IntentStep
<1>4. CASE ~Held(w)
  BY <1>1, <1>4, LostStep DEF settle_reply
<1>5. QED
  BY <1>3, <1>4

(* The end of an intent that went through its bindings.                    *)
LEMMA FinishIntentStep ==
    ASSUME IntentsInv, NEW w \in Workers, finish_intent(w)
    PROVE  IntentsInv'
<1>1. work[w].pc = "finish" /\ Stop(w) /\ UNCHANGED <<outcome, pastGrace, waiting>>
  BY DEF finish_intent
<1>2. PICK i \in Intents : /\ i = work[w].on /\ RowOK(intent[i]) /\ Used(i)
                           /\ Placed(w) /\ Owned(w)
  BY <1>1, OnIntent
<1>3. CASE Held(w) /\ Admitted(i)
  <2>1. intent[i].state = "claimed"
    BY <1>2, <1>3 DEF Held
  <2>2. intent' = [intent EXCEPT ![i] = Release(i, "done", "admitted")]
    BY <1>2, <1>3 DEF finish_intent
  <2>3. QED
    BY <1>1, <1>3, <2>1, <2>2, ReleaseStep
<1>4. CASE Held(w) /\ ~Admitted(i)
  <2>1. intent[i].state = "claimed"
    BY <1>2, <1>4 DEF Held
  <2>2. intent' = [intent EXCEPT ![i] = Release(i, "done", "none")]
    BY <1>2, <1>4 DEF finish_intent
  <2>3. QED
    BY <1>1, <1>4, <2>1, <2>2, ReleaseStep
<1>5. CASE ~Held(w)
  BY <1>1, <1>5, LostStep DEF finish_intent
<1>6. QED
  BY <1>3, <1>4, <1>5

(* Moves through the bindings that write nothing.                          *)
LEMMA CandidatesStep ==
    ASSUME IntentsInv, NEW w \in Workers, candidate_bindings(w)
    PROVE  IntentsInv'
<1>1. work[w].pc = "candidates" /\ UNCHANGED <<intent, outcome, pastGrace, waiting>>
  BY DEF candidate_bindings
<1>2. PICK i \in Intents : i = work[w].on /\ Placed(w) /\ Owned(w)
  BY <1>1, OnIntent
<1>3. PICK todo \in SUBSET Undecided(work[w].on) :
         work' = [work EXCEPT ![w].pc = "bindings", ![w].todo = todo]
  BY DEF candidate_bindings
<1>4. todo \in SUBSET Bindings /\ work \in [Workers -> WorkRow]
  BY DEF Undecided, IntentsInv, QueueTypes
<1>5. /\ work' \in [Workers -> WorkRow] /\ work'[w].pc = "bindings" /\ work'[w].on = work[w].on
      /\ \A v \in Workers : v # w => work'[v] = work[v]
  <2>1. PICK row : row = [work[w] EXCEPT !.pc = "bindings", !.todo = todo]
    OBVIOUS
  <2>2. row \in WorkRow /\ row.pc = "bindings" /\ row.on = work[w].on
    <3>1. work[w] \in WorkRow
      BY <1>4
    <3>2. QED
      BY <1>4, <2>1, <3>1 DEF WorkRow, Steps
  <2>3. work' = [work EXCEPT ![w] = row]
    BY <1>3, <1>4, <2>1
  <2>4. QED
    BY <1>4, <2>2, <2>3
<1>6. Placed(w)' /\ Owned(w)'
  BY <1>1, <1>2, <1>5 DEF Placed, Owned
<1>7. QED
  BY <1>1, <1>5, <1>6, QuietStep

(* After the last binding.                                                 *)
LEMMA ProcessedStep ==
    ASSUME IntentsInv, NEW w \in Workers, processed(w)
    PROVE  IntentsInv'
<1>1. work[w].pc = "bindings" /\ UNCHANGED <<intent, outcome, pastGrace, waiting>>
  BY DEF processed
<1>2. PICK i \in Intents : i = work[w].on /\ Placed(w) /\ Owned(w)
  BY <1>1, OnIntent
<1> DEFINE pc == IF ~work[w].transient THEN "finish"
                 ELSE IF intent[i].attempts < MaxAttempts THEN "transient" ELSE "exhaust"
<1>3. Step(w, pc)
  BY <1>2 DEF processed
<1>4. /\ pc \in {"finish", "transient", "exhaust"} /\ pc \in Steps
      /\ pc = "transient" => intent[i].attempts < MaxAttempts
  BY DEF Steps
<1> HIDE DEF pc
<1>5. PICK step \in Steps : step = pc
  BY <1>4
<1>6. /\ work' \in [Workers -> WorkRow] /\ work'[w].pc = step /\ work'[w].on = i
      /\ \A v \in Workers : v # w => work'[v] = work[v]
  BY <1>2, <1>3, <1>5, StepFacts
<1>7. Placed(w)' /\ Owned(w)'
  BY <1>1, <1>2, <1>4, <1>5, <1>6 DEF Placed, Owned
<1>8. QED
  BY <1>1, <1>6, <1>7, QuietStep

(* A binding's outcome is written under a claim, after the reply settled.  *)
LEMMA OutcomeStep ==
    ASSUME IntentsInv, NEW w \in Workers, NEW i \in Intents, NEW b \in Bindings,
           NEW value \in {"none", "admitted", "refused", "failed"},
           intent[i].state = "claimed", intent[i].settled,
           outcome' = [outcome EXCEPT ![i][b] = value],
           UNCHANGED <<intent, pastGrace, waiting>>,
           work' \in [Workers -> WorkRow], Placed(w)', Owned(w)',
           \A v \in Workers : v # w => work'[v] = work[v]
    PROVE  IntentsInv'
<1>1. UNCHANGED <<intent, pastGrace, run, wait, due, runDue, inbox, late, consumed, producing, stale>>
  BY DEF waiting
<1>2. RowsOK' /\ inbox' \in Seq(Events) /\ stale' \subseteq Intents /\ outcome \in Outcomes
  BY <1>1 DEF IntentsInv, QueueTypes, WaitTypes, RowsOK
<1>3. outcome' \in Outcomes /\ \A j \in Intents : j # i => outcome'[j] = outcome[j]
  BY <1>2 DEF Outcomes
<1>4. Grows /\ \A v \in Workers : Kept(v)
  BY <1>1, SameInbox DEF Grows, Kept
<1>5. ASSUME NEW j \in Intents PROVE Used(j)' /\ Truth(j)'
  <2>1. Used(j) /\ Truth(j) /\ (Recorded(j)' <=> Recorded(j)) /\ (InLease(j)' <=> InLease(j))
    BY <1>1, SameInbox DEF IntentsInv, IntentsAreSound
  <2>2. CASE j = i
    BY <1>1, <2>1, <2>2 DEF Used, Truth
  <2>3. CASE j # i
    <3>1. Admitted(j)' <=> Admitted(j)
      BY <1>3, <2>3 DEF Admitted
    <3>2. QED
      BY <1>1, <2>1, <3>1 DEF Used, Truth
  <2>4. QED
    BY <2>2, <2>3
<1>6. IntentsAreSound'
  BY <1>5 DEF IntentsAreSound
<1>7. QED
  BY <1>1, <1>2, <1>3, <1>4, <1>6, WorkerStep

(* A claim that is held is a claimed row.                                  *)
LEMMA HeldFacts ==
    ASSUME NEW w \in Workers, Held(w)
    PROVE  intent[work[w].on].state = "claimed" /\ intent[work[w].on].owner = w
BY DEF Held

(* A binding's admission.                                                  *)
LEMMA AdmitStep ==
    ASSUME IntentsInv, NEW w \in Workers, NEW b \in Bindings, admit_binding(w, b)
    PROVE  IntentsInv'
<1>1. work[w].pc = "bindings" /\ UNCHANGED <<intent, pastGrace, waiting>>
  BY DEF admit_binding
<1>2. PICK i \in Intents : i = work[w].on /\ Placed(w) /\ Owned(w)
  BY <1>1, OnIntent
<1>3. intent[i].settled /\ outcome \in Outcomes /\ work \in [Workers -> WorkRow]
  BY <1>1, <1>2 DEF Placed, IntentsInv, QueueTypes
<1> DEFINE drop == [work[w] EXCEPT !.todo = @ \ {b}]
           after(result) == [drop EXCEPT !.pc = "record", !.binding = b, !.result = result]
<1>4. ASSUME NEW row,
             \/ row = drop \/ row = [drop EXCEPT !.transient = TRUE]
             \/ row = after("admitted") \/ row = after("refused"),
             work' = [work EXCEPT ![w] = row]
      PROVE  /\ work' \in [Workers -> WorkRow] /\ Placed(w)' /\ Owned(w)'
             /\ \A v \in Workers : v # w => work'[v] = work[v]
  <2>1. drop \in WorkRow /\ drop.pc = "bindings" /\ drop.on = i
    BY <1>1, <1>2, <1>3 DEF WorkRow
  <2> HIDE DEF drop
  <2>2. /\ row \in WorkRow /\ row.on = i /\ row.pc \in {"bindings", "record"}
        /\ row.pc = "record" => row.binding = b /\ row.result # "none"
    BY <1>4, <2>1 DEF WorkRow, Steps
  <2>3. /\ work' \in [Workers -> WorkRow] /\ work'[w] = row
        /\ \A v \in Workers : v # w => work'[v] = work[v]
    BY <1>3, <1>4, <2>2
  <2>4. intent' = intent
    BY <1>1
  <2>5. Placed(w)' /\ Owned(w)'
    BY <1>2, <1>3, <2>2, <2>3, <2>4 DEF Placed, Owned
  <2>6. QED
    BY <2>3, <2>5
<1>5. ASSUME Held(w), outcome' = [outcome EXCEPT ![i][b] = IF @ = "none" THEN "admitted" ELSE @],
             NEW row, row = after("admitted") \/ row = [drop EXCEPT !.transient = TRUE],
             work' = [work EXCEPT ![w] = row]
      PROVE  IntentsInv'
  <2>1. /\ work' \in [Workers -> WorkRow] /\ Placed(w)' /\ Owned(w)'
        /\ \A v \in Workers : v # w => work'[v] = work[v]
    BY <1>4, <1>5
  <2> DEFINE value == IF outcome[i][b] = "none" THEN "admitted" ELSE outcome[i][b]
  <2>2. outcome' = [outcome EXCEPT ![i][b] = value]
    BY <1>3, <1>5 DEF Outcomes
  <2>3. value \in {"none", "admitted", "refused", "failed"}
    BY <1>3 DEF Outcomes
  <2>4. intent[i].state = "claimed"
    BY <1>2, <1>5, HeldFacts
  <2> HIDE DEF value, drop, after
  <2>5. QED
    BY <1>1, <1>3, <2>1, <2>2, <2>3, <2>4, OutcomeStep
<1>6. ASSUME outcome' = outcome, NEW row,
             \/ row = drop \/ row = [drop EXCEPT !.transient = TRUE] \/ row = after("refused"),
             work' = [work EXCEPT ![w] = row]
      PROVE  IntentsInv'
  <2>1. /\ work' \in [Workers -> WorkRow] /\ Placed(w)' /\ Owned(w)'
        /\ \A v \in Workers : v # w => work'[v] = work[v]
    BY <1>4, <1>6
  <2>2. QED
    BY <1>1, <1>6, <2>1, QuietStep
<1>7. QED
  BY <1>2, <1>5, <1>6 DEF admit_binding

(* The outcome that follows an admission or a refusal.                     *)
LEMMA RecordOutcomeStep ==
    ASSUME IntentsInv, NEW w \in Workers, record_binding_outcome(w)
    PROVE  IntentsInv'
<1>1. work[w].pc = "record" /\ UNCHANGED <<intent, pastGrace, waiting>>
  BY DEF record_binding_outcome
<1>2. PICK i \in Intents : i = work[w].on /\ Placed(w) /\ Owned(w)
  BY <1>1, OnIntent
<1>3. /\ intent[i].settled /\ outcome \in Outcomes /\ work \in [Workers -> WorkRow]
      /\ work[w].binding \in Bindings
  BY <1>1, <1>2 DEF Placed, IntentsInv, QueueTypes
<1>4. CASE ~Held(w)
  BY <1>1, <1>4, LostStep DEF record_binding_outcome
<1>5. CASE Held(w)
  <2>1. PICK b \in Bindings : b = work[w].binding
    BY <1>3
  <2> DEFINE value == IF outcome[i][b] = "none" THEN work[w].result ELSE outcome[i][b]
  <2>2. /\ outcome' = [outcome EXCEPT ![i][b] = value]
        /\ work' = [work EXCEPT ![w].pc = "bindings", ![w].binding = None, ![w].result = "none"]
    BY <1>2, <1>3, <1>5, <2>1 DEF record_binding_outcome, Outcomes
  <2>3. value \in {"none", "admitted", "refused", "failed"}
    BY <1>3 DEF Outcomes, WorkRow
  <2>4. intent[i].state = "claimed"
    BY <1>2, <1>5, HeldFacts
  <2> HIDE DEF value
  <2>5. /\ work' \in [Workers -> WorkRow] /\ work'[w].pc = "bindings" /\ work'[w].on = i
        /\ \A v \in Workers : v # w => work'[v] = work[v]
    <3> DEFINE row == [work[w] EXCEPT !.pc = "bindings", !.binding = None, !.result = "none"]
    <3>1. work[w] \in WorkRow
      BY <1>3
    <3>2. row \in WorkRow /\ row.pc = "bindings" /\ row.on = i
      BY <1>2, <3>1 DEF WorkRow, Steps
    <3>3. work' = [work EXCEPT ![w] = row]
      BY <1>3, <2>2
    <3> HIDE DEF row
    <3>4. QED
      BY <1>3, <3>2, <3>3
  <2>6. Placed(w)' /\ Owned(w)'
    BY <1>1, <1>2, <1>3, <2>5 DEF Placed, Owned
  <2>7. QED
    BY <1>1, <1>3, <2>2, <2>3, <2>4, <2>5, <2>6, OutcomeStep
<1>6. QED
  BY <1>4, <1>5

(* On the last attempt the bindings left without an outcome fail.          *)
LEMMA ExhaustStep ==
    ASSUME IntentsInv, NEW w \in Workers, exhaust(w)
    PROVE  IntentsInv'
<1>1. work[w].pc = "exhaust" /\ UNCHANGED <<intent, pastGrace, waiting>>
  BY DEF exhaust
<1>2. PICK i \in Intents : i = work[w].on /\ Placed(w) /\ Owned(w)
  BY <1>1, OnIntent
<1>3. /\ intent[i].settled /\ work \in [Workers -> WorkRow]
  BY <1>1, <1>2 DEF Placed, IntentsInv, QueueTypes
<1>4. CASE Stop(w) /\ outcome' = outcome
  BY <1>1, <1>4, LostStep
<1>5. ASSUME Held(w), NEW b \in Undecided(i), work' = work,
             outcome' = [outcome EXCEPT ![i][b] = "failed"]
      PROVE  IntentsInv'
  <2>1. b \in Bindings /\ intent[i].state = "claimed"
    BY <1>2, <1>5, HeldFacts DEF Undecided
  <2>2. Placed(w)' /\ Owned(w)'
    BY <1>1, <1>2, <1>3, <1>5 DEF Placed, Owned
  <2>3. QED
    BY <1>1, <1>3, <1>5, <2>1, <2>2, OutcomeStep
<1>6. CASE outcome' = outcome /\ Step(w, "finish")
  <2>1. "finish" \in Steps
    BY DEF Steps
  <2>2. /\ work' \in [Workers -> WorkRow] /\ work'[w].pc = "finish" /\ work'[w].on = i
        /\ \A v \in Workers : v # w => work'[v] = work[v]
    BY <1>2, <1>6, <2>1, StepFacts
  <2>3. Placed(w)' /\ Owned(w)'
    BY <1>1, <1>2, <1>3, <2>2 DEF Placed, Owned
  <2>4. QED
    BY <1>1, <1>6, <2>2, <2>3, QuietStep
<1>7. QED
  BY <1>2, <1>4, <1>5, <1>6 DEF exhaust

(* The offer.  Under its claim it records a reply that is not settled;     *)
(* without it, the reply is one of the stale ones.                         *)
LEMMA OfferStep ==
    ASSUME IntentsInv, NEW w \in Workers, offer_reply(w)
    PROVE  IntentsInv'
<1>1. work[w].pc = "offer"
  BY DEF offer_reply
<1>2. UNCHANGED <<intent, outcome, pastGrace, run, wait, due, runDue, late, consumed, producing>>
  BY DEF offer_reply
<1>3. PICK i \in Intents : i = work[w].on /\ Placed(w) /\ Owned(w)
  BY <1>1, OnIntent
<1> DEFINE answer == deliver_on(i)
<1>4. /\ inbox \in Seq(Events) /\ i \in Events /\ RowsOK' /\ outcome' \in Outcomes
      /\ IntentsAreSound
  BY <1>2 DEF IntentsInv, QueueTypes, WaitTypes, RowsOK, Events
<1>5. /\ answer \in {"duplicate", "unmatched", "not_yet", "undeliverable", "recorded"}
      /\ answer = "duplicate" <=> Recorded(i)
      /\ NextOf(answer) \in {"match", "not_yet", "settle"}
      /\ NextOf(answer) = "match" <=> answer \in {"duplicate", "recorded"}
  BY DEF deliver_on, NextOf
<1>6. PICK step \in {"match", "not_yet", "settle", "transient"} :
         /\ Step(w, step)
         /\ \/ /\ inbox' = IF answer = "recorded" THEN Append(inbox, i) ELSE inbox
               /\ step = NextOf(answer) \/ step = "transient"
            \/ inbox' = inbox /\ step = "transient"
  BY <1>3, <1>5 DEF offer_reply
<1> HIDE DEF answer
<1>7. /\ inbox' \in Seq(Events)
      /\ \A j \in Intents : Recorded(j) => Recorded(j)'
      /\ \A j \in Intents : Recorded(j)' => Recorded(j) \/ j = i
      /\ step = "match" => Recorded(i)'
      /\ step = "settle" => ~Recorded(i)'
  <2>1. CASE inbox' = inbox /\ answer # "recorded"
    BY <1>4, <1>5, <1>6, <2>1 DEF Recorded
  <2>2. CASE inbox' = Append(inbox, i) /\ answer = "recorded"
    BY <1>4, <1>5, <1>6, <2>2, AppendRecords
  <2>3. CASE inbox' = inbox /\ step = "transient"
    BY <1>4, <2>3 DEF Recorded
  <2>4. QED
    BY <1>6, <2>1, <2>2, <2>3
<1>8. step \in Steps
  BY DEF Steps
<1>9. /\ work' \in [Workers -> WorkRow] /\ work'[w].pc = step /\ work'[w].on = i
      /\ \A v \in Workers : v # w => work'[v] = work[v]
  BY <1>3, <1>6, <1>8, StepFacts
<1>10. /\ stale \subseteq stale' /\ stale' \subseteq Intents
       /\ \A j \in Intents : InLease(j)' => \/ InLease(j)
                                             \/ /\ j = i /\ ~intent[i].settled
                                                /\ intent[i].state = "claimed"
                                                /\ intent[i].owner = w
  <2>1. stale' = IF inbox' = inbox \/ Held(w) THEN stale ELSE stale \cup {i}
    BY <1>3 DEF offer_reply
  <2>2. Held(w) =>
          intent[i].state = "claimed" /\ intent[i].owner = w /\ ~intent[i].settled
    BY <1>1, <1>3, HeldFacts DEF Owned
  <2>3. inbox' = inbox => \A j : Recorded(j)' <=> Recorded(j)
    BY DEF Recorded
  <2>4. stale \subseteq stale' /\ stale' \subseteq Intents
    BY <2>1 DEF IntentsInv, WaitTypes
  <2>5. QED
    BY <1>7, <2>1, <2>2, <2>3, <2>4 DEF InLease
<1>11. Grows /\ \A v \in Workers : v # w => Kept(v)
  BY <1>2, <1>7, <1>10 DEF Grows, Kept
<1>12. Placed(w)' /\ Owned(w)'
  BY <1>1, <1>2, <1>3, <1>7, <1>9 DEF Placed, Owned, InLease
<1>13. IntentsAreSound'
  <2>1. \A j \in Intents : Admitted(j)' <=> Admitted(j)
    BY <1>2, SameOutcome
  <2>2. QED
    BY <1>2, <1>4, <1>7, <1>10, <2>1 DEF IntentsAreSound, Used, Truth
<1>14. QED
  BY <1>2, <1>4, <1>7, <1>9, <1>10, <1>11, <1>12, <1>13, WorkerStep

(* A lease ends, a park grace passes.                                      *)
LEMMA TimeSteps ==
    ASSUME IntentsInv, NEW i \in Intents, lapse(i) \/ pass_grace(i)
    PROVE  IntentsInv'
<1>1. CASE pass_grace(i)
  <2>1. UNCHANGED <<intent, outcome, work, waiting>> /\ pastGrace' \subseteq Intents
    BY <1>1 DEF pass_grace, IntentsInv, QueueTypes
  <2>2. UNCHANGED <<inbox, stale>> /\ WaitTypes' /\ WaitMatchesRun'
    BY <2>1 DEF waiting, IntentsInv, WaitTypes, WaitMatchesRun
  <2>3. QueueTypes'
    BY <2>1 DEF IntentsInv, QueueTypes, RowsOK
  <2>4. WorkersAreSound'
    BY <2>1, <2>2, SameInbox DEF IntentsInv, WorkersAreSound, Placed, Owned
  <2>5. IntentsAreSound'
    BY <2>1, <2>2, SameInbox, SameOutcome DEF IntentsInv, IntentsAreSound, Used, Truth
  <2>6. QED
    BY <2>2, <2>3, <2>4, <2>5 DEF IntentsInv
<1>2. CASE lapse(i)
  <2> DEFINE row == [intent[i] EXCEPT !.lease = FALSE]
  <2>1. /\ intent[i] \in IntentRow /\ RowCheck(intent[i]) /\ Used(i) /\ Truth(i)
        /\ intent \in [Intents -> IntentRow]
    BY DEF IntentsInv, QueueTypes, RowsOK, RowOK, IntentsAreSound
  <2>2. /\ row \in IntentRow /\ row.state = intent[i].state /\ row.owner = intent[i].owner
        /\ row.lease = FALSE /\ row.attempts = intent[i].attempts
        /\ row.settled = intent[i].settled /\ row.outcome = intent[i].outcome
    BY <2>1 DEF IntentRow
  <2>3. /\ intent' = [intent EXCEPT ![i] = row]
        /\ UNCHANGED <<outcome, work, pastGrace, waiting>> /\ UNCHANGED <<inbox, stale>>
    BY <1>2, <2>1 DEF lapse, waiting
  <2> HIDE DEF row
  <2>4. intent'[i] = row /\ \A j \in Intents : j # i => intent'[j] = intent[j]
    BY <2>1, <2>3
  <2>5. RowOK(row)
    BY <2>1, <2>2 DEF RowOK, RowCheck
  <2>6. RowsOK' /\ IntentsAreSound' /\ Grows
    <3>1. Writes(i, row)
      BY <2>1, <2>2, <2>3, <2>5 DEF Used, Truth, Writes
    <3>2. QED
      BY <3>1, WriteIntent
  <2>7. \A v \in Workers : Kept(v)
    BY <2>2, <2>3, <2>4, SameInbox DEF Kept
  <2>8. WorkersAreSound'
    <3>1. ASSUME NEW v \in Workers PROVE Placed(v)' /\ Owned(v)'
      BY <2>3, <2>6, <2>7, Bystander
    <3>2. QED
      BY <3>1 DEF WorkersAreSound
  <2>9. QueueTypes' /\ WaitTypes' /\ WaitMatchesRun'
    BY <2>3, <2>6 DEF waiting, IntentsInv, QueueTypes, WaitTypes, WaitMatchesRun
  <2>10. QED
    BY <2>6, <2>8, <2>9 DEF IntentsInv
<1>3. QED
  BY <1>1, <1>2

----------------------------------------------------------------------------
(* The theorems.                                                           *)

(* At the beginning nothing is claimed and nothing is recorded.            *)
LEMMA InitIntents == Init => IntentsInv
<1>1. SUFFICES ASSUME Init PROVE IntentsInv
  OBVIOUS
<1>2. RowOK(NewIntent) /\ NewIntent.state = "pending" /\ NewIntent.outcome = "null"
      /\ ~NewIntent.settled
  <2>1. /\ NewIntent \in IntentRow /\ NewIntent.state = "pending" /\ NewIntent.outcome = "null"
        /\ NewIntent.settled = FALSE /\ NewIntent.owner = None /\ NewIntent.lease = FALSE
        /\ NewIntent.attempts = 0
    BY ConstantFacts DEF NewIntent, IntentRow
  <2>2. QED
    BY <2>1, ConstantFacts DEF RowOK, RowCheck
<1>3. RowsOK
  BY <1>1, <1>2 DEF Init, RowsOK, RowOK
<1>4. Idle \in WorkRow /\ Idle.pc = "idle"
  BY DEF Idle, WorkRow, Steps
<1>5. QueueTypes
  BY <1>1, <1>3, <1>4 DEF Init, QueueTypes, Outcomes
<1>6. WaitTypes /\ WaitMatchesRun
  <2>1. inbox \in Seq(Events) /\ late \subseteq Signals
    BY <1>1 DEF Init
  <2>2. QED
    BY <1>1, <2>1 DEF Init, WaitTypes, WaitMatchesRun, Live
<1>7. WorkersAreSound
  BY <1>1, <1>4 DEF Init, WorkersAreSound, Placed, Owned
<1>8. \A i \in Intents : ~Recorded(i) /\ ~Admitted(i)
  BY <1>1 DEF Init, Recorded, ToSet, Admitted
<1>9. IntentsAreSound
  BY <1>1, <1>2, <1>8 DEF Init, IntentsAreSound, Used, Truth, InLease
<1>10. QED
  BY <1>5, <1>6, <1>7, <1>9 DEF IntentsInv

(* Every step keeps the invariant.                                         *)
LEMMA NextKeepsIntents == IntentsInv /\ [Next]_vars => IntentsInv'
<1>1. SUFFICES ASSUME IntentsInv, [Next]_vars PROVE IntentsInv'
  OBVIOUS
<1>2. CASE \/ park_on \/ finish_run \/ expire_on \/ cancel_run_on
           \/ pass_wait_deadline \/ pass_run_deadline
  BY <1>1, <1>2, RunSteps
<1>3. CASE resume_on
  BY <1>1, <1>3, ResumeStep
<1>4. CASE record_event \/ \E e \in Signals : record_event_on(e)
  BY <1>1, <1>4, RecordEventSteps
<1>5. ASSUME NEW w \in Workers, NEW i \in Intents, claim_intents(w, i) PROVE IntentsInv'
  BY <1>1, <1>5, ClaimStep
<1>6. ASSUME NEW i \in Intents, fail_expired_intents(i) PROVE IntentsInv'
  <2>1. intent[i].state = "claimed" /\ RowOK(intent[i])
    BY <1>1, <1>6 DEF fail_expired_intents, IntentsInv, QueueTypes, RowsOK
  <2>2. intent[i].owner \in Workers
    BY <2>1 DEF RowOK, RowCheck, IntentRow
  <2>3. QED
    BY <1>1, <1>6, <2>2, SweepStep
<1>7. ASSUME NEW w \in Workers, Process(w) PROVE IntentsInv'
  BY <1>1, <1>7, OfferStep, FinishMatchedStep, SettleReplyStep, DeferTransientStep,
     DeferNotYetStep, CandidatesStep, AdmitStep, RecordOutcomeStep, ProcessedStep,
     ExhaustStep, FinishIntentStep DEF Process
<1>8. ASSUME NEW w \in Workers, abandon(w) PROVE IntentsInv'
  BY <1>1, <1>8, LostStep DEF abandon
<1>9. ASSUME NEW i \in Intents, lapse(i) \/ pass_grace(i) PROVE IntentsInv'
  BY <1>1, <1>9, TimeSteps
<1>10. CASE UNCHANGED vars
  <2>1. UNCHANGED queue /\ UNCHANGED waiting /\ UNCHANGED <<inbox, stale>>
    BY <1>10 DEF vars, waiting
  <2>2. WaitTypes' /\ WaitMatchesRun'
    BY <1>1, <2>1 DEF waiting, IntentsInv, WaitTypes, WaitMatchesRun
  <2>3. QED
    BY <1>1, <2>1, <2>2, SameInbox, WaitStep
<1>11. QED
  BY <1>1, <1>2, <1>3, <1>4, <1>5, <1>6, <1>7, <1>8, <1>9, <1>10 DEF Next

(* The invariant holds of every state of the intents, their workers and    *)
(* the wait.                                                               *)
THEOREM IntentsInvHolds == Spec => []IntentsInv
BY InitIntents, NextKeepsIntents, PTL DEF Spec

(* Every variable has its type and every intent row passes the CHECKs of   *)
(* its table, whatever claims lapse and whichever worker comes late.       *)
THEOREM IntentTypesHold == Spec => []TypeOK
<1>1. IntentsInv => TypeOK
  <2>1. SUFFICES ASSUME IntentsInv PROVE TypeOK
    OBVIOUS
  <2>2. \A i \in Intents : intent[i] \in IntentRow /\ RowCheck(intent[i])
    BY <2>1 DEF IntentsInv, QueueTypes, RowsOK, RowOK
  <2>3. \A w \in Workers : work[w] \in WorkRow
    BY <2>1 DEF IntentsInv, QueueTypes
  <2>4. late \subseteq Events
    BY <2>1 DEF IntentsInv, WaitTypes, Events
  <2>5. \A i \in Intents : LET r == intent[i] IN
         /\ r.attempts \in 0..MaxAttempts
         /\ r.owner \in Workers \cup {None}
         /\ r.lease \in BOOLEAN /\ r.settled \in BOOLEAN
    BY <2>2 DEF IntentRow
  <2>6. \A w \in Workers : /\ work[w].pc \in Steps
                          /\ work[w].on \in Intents \cup {None}
                          /\ work[w].todo \subseteq Bindings
                          /\ work[w].binding \in Bindings \cup {None}
                          /\ work[w].result \in {"none", "admitted", "refused"}
                          /\ work[w].transient \in BOOLEAN
    BY <2>3 DEF WorkRow
  <2>7. QED
    BY <2>1, <2>2, <2>4, <2>5, <2>6 DEF TypeOK, IntentsInv, QueueTypes, WaitTypes, Outcomes,
                                        RowCheck
<1>2. QED
  BY <1>1, IntentsInvHolds, PTL

(* A finished intent says what its message did, also when a claim lapsed   *)
(* in the middle of its bindings or the sweep ended it.                    *)
THEOREM OutcomesAreTrue == Spec => []OutcomeIsTrue
<1>1. IntentsInv => OutcomeIsTrue
  BY DEF IntentsInv, IntentsAreSound, Truth, OutcomeIsTrue
<1>2. QED
  BY <1>1, IntentsInvHolds, PTL

(* A reply that the holder of its claim recorded for a wait admits no run: *)
(* the settlement that admissions need is a write of the holder, and a     *)
(* later holder that offers again finds the reply recorded.                *)
THEOREM RepliesAreUsedOnce == Spec => []ReplyUsedOnce
<1>1. IntentsInv => ReplyUsedOnce
  BY DEF IntentsInv, IntentsAreSound, Used, ReplyUsedOnce
<1>2. QED
  BY <1>1, IntentsInvHolds, PTL

(* A resume past the deadline never expires the wait over a reply that was *)
(* recorded: a reply is stamped in time, so it is always eligible.         *)
THEOREM RepliesAreNotExpired == Spec => NeverExpiredOver
<1>1. ASSUME IntentsInv, Next, wait = "waiting", wait' = "expired", ~runDue,
             NEW i \in Intents, Recorded(i)
      PROVE  FALSE
  <2>1. resume_on /\ expire
    BY <1>1 DEF Next, park_on, finish_run, expire_on, cancel_run_on, resume_on, fail,
                commit_wake, record_event_on, record_event, claim_intents,
                fail_expired_intents, Process, offer_reply, finish_matched, settle_reply,
                defer_transient, defer_not_yet, candidate_bindings, admit_binding,
                record_binding_outcome, processed, exhaust, finish_intent, abandon, lapse,
                pass_grace, pass_wait_deadline, pass_run_deadline, waiting
  <2>2. PICK n \in DOMAIN inbox : inbox[n] = i
    BY <1>1 DEF Recorded, ToSet
  <2>3. i \in Awaited /\ i \notin late
    BY <1>1, ConstantFacts DEF Awaited, IntentsInv, WaitTypes
  <2>4. n \in Eligible
    BY <2>2, <2>3 DEF Eligible
  <2>5. run = "waiting"
    BY <1>1 DEF IntentsInv, WaitMatchesRun
  <2>6. QED
    BY <1>1, <2>1, <2>4, <2>5 DEF resume_on, commit_wake, fail
<1>2. IntentsInv /\ [Next]_vars =>
        [wait = "waiting" /\ wait' = "expired" /\ ~runDue =>
             \A i \in Intents : ~Recorded(i)]_vars
  BY <1>1
<1>3. QED
  BY <1>2, IntentsInvHolds, PTL DEF Spec, NeverExpiredOver
=============================================================================
