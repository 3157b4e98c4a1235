----------------------- MODULE ChannelSchedulesProofs -----------------------
(***************************************************************************)
(* Proofs about ChannelSchedules, for any workers, run-now requests and    *)
(* command keys, any intervals and instants, any shift of the zone, and    *)
(* any limits.                                                             *)
(***************************************************************************)
EXTENDS ChannelSchedules, TLAPS

----------------------------------------------------------------------------
(* The invariant.                                                          *)

RowOK(row) == row \in Row /\ RowCheck(row)

CadenceIsWhole == sched.kind = "interval" => sched.interval \in Intervals

(* What an agent still has to do is about an occurrence; a run it reports  *)
(* was admitted; a failure it will name has happened.                      *)
Sound(a) ==
    /\ work[a].pc = "admit" => work[a].tries < MaxStale
    /\ work[a].pc \in {"bind", "admit", "record"} => work[a].on \in Occurrences
    /\ work[a].pc = "record" => work[a].result # "none"
    /\ work[a].pc = "record" /\ work[a].result = "run" /\ ~sched.deleted =>
          work[a].on \in admitted
    /\ work[a].pc = "naming" /\ ~sched.deleted =>
          \E o \in Occurrences : occ[o].status = "failed" /\ occ[o].error

AgentsAreSound == \A a \in Agents : Sound(a)

(* OutcomeIsTheLatestClaims, also for an occurrence that has no row.       *)
Outcome(o) ==
    ~sched.deleted =>
        /\ o \in admitted <=> occ[o].status = "materialized"
        /\ occ[o].status \notin {"none", "materializing"} => occ[o].by = occ[o].attempts

OutcomesHold == \A o \in Occurrences : Outcome(o)

ScheduleInv ==
    /\ TypeOK
    /\ CadenceIsWhole
    /\ AgentsAreSound
    /\ OutcomesHold
    /\ ErrorHasCause

----------------------------------------------------------------------------
(* The rows.                                                               *)

(* An agent is not NULL and may claim.                                     *)
LEMMA AgentFacts ==
    /\ None \notin Agents
    /\ Workers \subseteq Agents /\ Callers \subseteq Agents
    /\ MaxAttempts \in Nat /\ MaxAttempts # 0 /\ MaxStale \in Nat
    /\ 0 \in 0 .. MaxAttempts /\ 0 \in 0 .. MaxStale
BY ScheduleConstants DEF Agents

(* The row before its occurrence is captured, and as it is captured.       *)
LEMMA FreshRows ==
    /\ RowOK(NoRow) /\ RowOK(NewRow)
    /\ NoRow.status = "none" /\ ~NoRow.error
    /\ NewRow.status = "pending" /\ ~NewRow.error /\ NewRow.by = NewRow.attempts
<1>1. NoRow \in Row /\ NewRow \in Row
  BY AgentFacts DEF NoRow, NewRow, Row
<1>2. /\ NoRow.status = "none" /\ NoRow.owner = None /\ ~NoRow.error /\ ~NoRow.leased
      /\ ~NoRow.refused /\ NoRow.attempts = 0
      /\ NewRow.status = "pending" /\ NewRow.owner = None /\ ~NewRow.error /\ ~NewRow.leased
      /\ ~NewRow.refused /\ NewRow.attempts = 0 /\ NewRow.by = 0
  BY DEF NoRow, NewRow
<1>3. QED
  BY <1>1, <1>2, AgentFacts DEF RowOK, RowCheck

(* A claim pays an attempt.                                                *)
LEMMA ClaimedRow ==
    ASSUME NEW row, RowOK(row), Claimable(row), NEW a \in Agents
    PROVE  /\ RowOK(Claim(a, row)) /\ Claim(a, row).status = "materializing"
           /\ Claim(a, row).error = row.error /\ row.attempts + 1 \in 0 .. MaxAttempts
<1>1. row \in Row /\ row.attempts + 1 \in 0 .. MaxAttempts /\ row.status # "none"
  BY AgentFacts DEF RowOK, Row, Claimable
<1>2. /\ Claim(a, row) \in Row
      /\ Claim(a, row).status = "materializing" /\ Claim(a, row).owner = a
      /\ Claim(a, row).error = row.error /\ Claim(a, row).refused = row.refused
  BY <1>1 DEF Row, Claim
<1>3. ~row.refused
  BY <1>1 DEF RowOK, RowCheck, Claimable
<1>4. RowCheck(Claim(a, row))
  BY <1>2, <1>3, AgentFacts DEF RowCheck
<1>5. QED
  BY <1>1, <1>2, <1>4 DEF RowOK

(* A claim that is settled leaves a row that its result decided.           *)
LEMMA RecordedRow ==
    ASSUME NEW row, RowOK(row), row.status = "materializing",
           NEW result \in {"run", "refusal", "error"}
    PROVE  /\ RowOK(Recorded(row, result, row.attempts))
           /\ Recorded(row, result, row.attempts).by = Recorded(row, result, row.attempts).attempts
           /\ Recorded(row, result, row.attempts).status \notin {"none", "materializing"}
           /\ Recorded(row, result, row.attempts).status = "materialized" <=> result = "run"
           /\ Recorded(row, result, row.attempts).error = (result # "run")
<1> DEFINE new == Recorded(row, result, row.attempts)
           base == Settled(row, row.attempts)
<1>1. row \in Row /\ ~row.refused /\ row.attempts \in 0 .. MaxAttempts
  BY DEF RowOK, RowCheck, Row
<1>2. /\ base \in Row /\ base.owner = None /\ base.leased = FALSE /\ base.by = row.attempts
      /\ base.attempts = row.attempts /\ base.refused = FALSE
  BY <1>1 DEF Settled, Row
<1> HIDE DEF base
<1>3. CASE result = "run"
  <2>1. new = [base EXCEPT !.status = "materialized", !.error = FALSE]
    BY <1>3 DEF Recorded, base
  <2> HIDE DEF new
  <2>2. /\ new \in Row /\ new.status = "materialized" /\ new.error = FALSE /\ new.owner = None
        /\ new.leased = FALSE /\ new.by = row.attempts /\ new.attempts = row.attempts
        /\ new.refused = FALSE
    BY <1>2, <2>1 DEF Row
  <2>3. RowOK(new)
    BY <2>2 DEF RowOK, RowCheck
  <2>4. QED
    BY <1>3, <2>2, <2>3 DEF new
<1>4. CASE result = "refusal"
  <2>1. new = [base EXCEPT !.status = "failed", !.error = TRUE, !.refused = TRUE]
    BY <1>4 DEF Recorded, base
  <2> HIDE DEF new
  <2>2. /\ new \in Row /\ new.status = "failed" /\ new.error = TRUE /\ new.owner = None
        /\ new.leased = FALSE /\ new.by = row.attempts /\ new.attempts = row.attempts
        /\ new.refused = TRUE
    BY <1>2, <2>1 DEF Row
  <2>3. RowOK(new)
    BY <2>2 DEF RowOK, RowCheck
  <2>4. QED
    BY <1>4, <2>2, <2>3 DEF new
<1>5. CASE result = "error"
  <2>1. new = [base EXCEPT !.error = TRUE,
                 !.status = IF row.attempts >= MaxAttempts THEN "failed" ELSE "pending"]
    BY <1>5 DEF Recorded, base
  <2> HIDE DEF new
  <2>2. /\ new \in Row /\ new.error = TRUE /\ new.owner = None
        /\ new.status = IF row.attempts >= MaxAttempts THEN "failed" ELSE "pending"
        /\ new.leased = FALSE /\ new.by = row.attempts /\ new.attempts = row.attempts
        /\ new.refused = FALSE
    BY <1>2, <2>1 DEF Row
  <2>3. RowOK(new)
    BY <1>1, <2>2, AgentFacts DEF RowOK, RowCheck
  <2>4. QED
    BY <1>5, <2>2, <2>3 DEF new
<1>6. QED
  BY <1>3, <1>4, <1>5

(* The last attempt lapsed: the occurrence fails.                          *)
LEMMA ExpiredRow ==
    ASSUME NEW row, RowOK(row), row.status = "materializing", row.attempts >= MaxAttempts,
           NEW new, new = [Settled(row, row.attempts) EXCEPT !.status = "failed", !.error = TRUE]
    PROVE  /\ RowOK(new) /\ new.status = "failed" /\ new.error /\ new.by = new.attempts
<1>1. row \in Row /\ row.attempts = MaxAttempts
  BY AgentFacts DEF RowOK, Row
<1>2. /\ new \in Row /\ new.status = "failed" /\ new.error = TRUE /\ new.owner = None
      /\ new.leased = FALSE /\ new.by = row.attempts /\ new.attempts = row.attempts
  BY <1>1 DEF Row, Settled
<1>3. QED
  BY <1>1, <1>2 DEF RowOK, RowCheck

----------------------------------------------------------------------------
(* The arithmetic of the slots.                                            *)

(* Division with remainder.                                                *)
LEMMA DivisionFacts ==
    ASSUME NEW x \in Int, NEW d \in Nat, d # 0
    PROVE  /\ x \div d \in Int /\ x % d \in 0 .. (d - 1)
           /\ x = d * (x \div d) + (x % d)
OBVIOUS

(* A remainder does not see whole multiples.                               *)
LEMMA RemainderShift ==
    ASSUME NEW x \in Int, NEW k \in Int, NEW d \in Nat, d # 0
    PROVE  (x + d * k) % d = x % d
<1> DEFINE q == x \div d
           r == x % d
<1>1. q \in Int /\ r \in 0 .. (d - 1) /\ x = d * q + r
  BY DivisionFacts
<1> HIDE DEF q, r
<1>2. x + d * k = d * (q + k) + r /\ q + k \in Int /\ x + d * k \in Int
  BY <1>1
<1>3. \A y \in Int : \A p \in Int : y = d * p + r => y % d = r
  <2>1. SUFFICES ASSUME NEW y \in Int, NEW p \in Int, y = d * p + r PROVE y % d = r
    OBVIOUS
  <2>2. QED
    BY <1>1, <2>1
<1>4. (x + d * k) % d = r
  BY <1>2, <1>3
<1>5. QED
  BY <1>4 DEF r

(* The step of a cadence is a positive multiple of its interval and passes *)
(* now.                                                                    *)
LEMMA StepPassesNow ==
    ASSUME NEW n \in Nat, NEW s \in Nat, s <= n, NEW i \in Nat, i # 0
    PROVE  /\ (n - s) \div i + 1 \in Nat
           /\ i * ((n - s) \div i + 1) \in Nat
           /\ i * ((n - s) \div i + 1) > n - s
           /\ i * ((n - s) \div i + 1) <= n - s + i
<1> DEFINE q == (n - s) \div i
           r == (n - s) % i
<1>1. n - s \in Int /\ n - s \in Nat
  OBVIOUS
<1>2. q \in Int /\ r \in 0 .. (i - 1) /\ n - s = i * q + r
  BY <1>1, DivisionFacts
<1>3. q \in Nat
  BY <1>1
<1> HIDE DEF q, r
<1>4. i * (q + 1) = i * q + i /\ i * q \in Nat
  BY <1>3
<1>5. /\ i * (q + 1) > n - s /\ i * (q + 1) <= n - s + i
      /\ i * (q + 1) \in Nat /\ q + 1 \in Nat
  BY <1>2, <1>3, <1>4
<1>6. QED
  BY <1>5 DEF q

(* The next slot is a time, later than the one captured and, but for the   *)
(* hours a shift takes away or gives twice, later than now by at most one  *)
(* interval.                                                               *)
LEMMA NextSlotFacts ==
    ASSUME NEW s \in Nat, now \in Nat, s <= now, NEW i \in Nat, i # 0
    PROVE  /\ next_slot(s, i) \in Nat
           /\ next_slot(s, i) > s
           /\ next_slot(s, i)
                + (IF ShiftBy > 0 /\ Across(s, next_slot(s, i)) THEN ShiftBy ELSE 0) > now
           /\ next_slot(s, i)
                + (IF ShiftBy < 0 /\ Across(s, next_slot(s, i)) THEN ShiftBy ELSE 0) <= now + i
<1> DEFINE m == i * ((now - s) \div i + 1)
           t == next_slot(s, i)
<1>1. m \in Nat /\ m > now - s /\ m <= now - s + i
  BY StepPassesNow
<1>2. t = instant(local(s) + m)
  BY DEF next_slot
<1> HIDE DEF m, t
<1>3. ShiftAt \in Nat /\ ShiftBy \in Int
  BY ScheduleConstants
<1>4. CASE s >= ShiftAt
  <2>1. t = s + m
    BY <1>1, <1>2, <1>3, <1>4 DEF instant, local
  <2>2. QED
    BY <1>1, <1>3, <1>4, <2>1 DEF Across, t
<1>5. CASE s < ShiftAt
  <2>1. t = IF s + m - ShiftBy >= ShiftAt THEN s + m - ShiftBy ELSE s + m
    BY <1>1, <1>2, <1>3, <1>5 DEF instant, local
  <2>2. CASE s + m - ShiftBy >= ShiftAt
    BY <1>1, <1>3, <1>5, <2>1, <2>2 DEF Across, t
  <2>3. CASE ~(s + m - ShiftBy >= ShiftAt)
    BY <1>1, <1>3, <1>5, <2>1, <2>3 DEF Across, t
  <2>4. QED
    BY <2>2, <2>3
<1>6. QED
  BY <1>3, <1>4, <1>5

(* A cadence of whole days keeps its local time, unless the shift skips    *)
(* that time.                                                              *)
LEMMA LocalTimeKept ==
    ASSUME NEW s \in Nat, now \in Nat, s <= now, NEW i \in Nat, i # 0,
           i % Day = 0, \A l \in Skipped : l % Day # local(s) % Day
    PROVE  local(next_slot(s, i)) % Day = local(s) % Day
<1> DEFINE k == (now - s) \div i + 1
           m == i * k
           j == i \div Day
<1>1. m \in Nat /\ m > now - s /\ k \in Nat
  BY StepPassesNow
<1>2. Day \in Nat /\ Day # 0 /\ ShiftAt \in Nat /\ ShiftBy \in Int
  BY ScheduleConstants
<1>3. j \in Int /\ i = Day * j
  <2>1. i \in Int
    OBVIOUS
  <2>2. j \in Int /\ i = Day * j + (i % Day)
    BY <1>2, <2>1, DivisionFacts
  <2> HIDE DEF j
  <2>3. QED
    BY <1>2, <2>2
<1>4. next_slot(s, i) = instant(local(s) + m)
  BY DEF next_slot
<1>5. m = Day * (j * k) /\ j * k \in Int
  <2> HIDE DEF j, k
  <2>1. QED
    BY <1>1, <1>2, <1>3
<1>6. local(s) \in Int /\ local(s) + m \in Int
  BY <1>1, <1>2 DEF local
<1>7. (local(s) + m) % Day = local(s) % Day
  <2> DEFINE x == local(s)
             c == j * k
  <2>1. x \in Int /\ c \in Int
    BY <1>5, <1>6
  <2> HIDE DEF x, c
  <2>2. (x + Day * c) % Day = x % Day
    BY <1>2, <2>1, RemainderShift
  <2>3. x + Day * c = local(s) + m
    BY <1>5 DEF x, c
  <2>4. QED
    BY <2>2, <2>3 DEF x
<1> HIDE DEF m
<1>8. \/ local(instant(local(s) + m)) = local(s) + m
      \/ local(s) + m \in Skipped
  <2> DEFINE y == local(s) + m
  <2>1. y \in Int
    BY <1>6
  <2> HIDE DEF y
  <2>2. local(instant(y)) = y \/ y \in Skipped
    BY <1>2, <2>1 DEF instant, local, Skipped
  <2>3. QED
    BY <2>2 DEF y
<1>9. QED
  BY <1>4, <1>7, <1>8

----------------------------------------------------------------------------
(* The steps.                                                              *)

(* The rows of the occurrences are whole.                                  *)
RowsOK == occ \in [Occurrences -> Row] /\ \A o \in Occurrences : RowOK(occ[o])

(* A rhythm a member may ask for has a first run.                          *)
LEMMA CadenceFacts ==
    ASSUME now \in Nat, NEW c \in Cadences
    PROVE  /\ c.kind \in {"interval", "one_off"} /\ c.interval \in Intervals \cup {None}
           /\ c.kind = "interval" => c.interval \in Intervals
           /\ first_run(c) \in Nat \cup {None}
<1>1. Intervals \subseteq Nat /\ Instants \subseteq Nat
  BY ScheduleConstants
<1>2. CASE c \in [kind : {"interval"}, interval : Intervals, at : {None}]
  <2>1. c.kind = "interval" /\ c.interval \in Intervals
    BY <1>2
  <2>2. first_run(c) = now + c.interval
    BY <2>1 DEF first_run
  <2>3. \A i \in Nat : now + i \in Nat
    OBVIOUS
  <2>4. first_run(c) \in Nat
    BY <1>1, <2>1, <2>2, <2>3
  <2>5. QED
    BY <2>1, <2>4
<1>3. CASE c \in [kind : {"one_off"}, interval : {None}, at : Instants]
  <2>1. c.kind = "one_off" /\ c.interval = None /\ c.at \in Instants
    BY <1>3
  <2>2. QED
    BY <1>1, <2>1 DEF first_run
<1>4. QED
  BY <1>2, <1>3 DEF Cadences

(* A created schedule.                                                     *)
LEMMA InitSchedule == Init => ScheduleInv
<1>1. SUFFICES ASSUME Init PROVE ScheduleInv
  OBVIOUS
<1>2. PICK c \in Cadences, on \in BOOLEAN :
         sched = [kind |-> c.kind, interval |-> c.interval, next |-> first_run(c),
                  enabled |-> on, error |-> FALSE, deleted |-> FALSE]
  BY <1>1 DEF Init
<1>3. /\ c.kind \in {"interval", "one_off"} /\ c.interval \in Intervals \cup {None}
      /\ c.kind = "interval" => c.interval \in Intervals
      /\ first_run(c) \in Nat \cup {None}
  BY <1>1, CadenceFacts DEF Init
<1>4. sched \in Schedule /\ CadenceIsWhole
  BY <1>2, <1>3 DEF Schedule, CadenceIsWhole
<1>5. \A o \in Occurrences : RowOK(occ[o]) /\ occ[o] = NoRow
  BY <1>1, FreshRows DEF Init
<1>6. occ \in [Occurrences -> Row]
  BY <1>1, FreshRows DEF Init, RowOK
<1>7. work \in [Agents -> Work] /\ \A a \in Agents : work[a].pc \in {"poll", "request"}
  BY <1>1, AgentFacts DEF Init, Idle, Work
<1>8. TypeOK
  BY <1>1, <1>4, <1>5, <1>6, <1>7, ScheduleConstants DEF Init, TypeOK, RowOK
<1>9. AgentsAreSound
  BY <1>7 DEF AgentsAreSound, Sound
<1>10. OutcomesHold
  BY <1>1, <1>5, FreshRows DEF Init, OutcomesHold, Outcome
<1>11. ErrorHasCause
  BY <1>2 DEF ErrorHasCause
<1>12. QED
  BY <1>4, <1>8, <1>9, <1>10, <1>11 DEF ScheduleInv

(* What an agent knows stays so while others act: admitted runs stay,      *)
(* failed occurrences stay failed, until the schedule is deleted.          *)
Monotone ==
    /\ admitted \subseteq admitted'
    /\ sched.deleted => sched'.deleted
    /\ ~sched'.deleted =>
          \A o \in Occurrences : occ[o].status = "failed" /\ occ[o].error =>
              occ'[o].status = "failed" /\ occ'[o].error

(* An agent that does not move stays sound.                                *)
LEMMA SoundKept ==
    ASSUME ScheduleInv, Monotone, NEW a \in Agents, work'[a] = work[a]
    PROVE  Sound(a)'
<1>1. Sound(a)
  BY DEF ScheduleInv, AgentsAreSound
<1>2. QED
  BY <1>1 DEF Sound, Monotone

(* When one agent moves, only that one has to be looked at.                *)
LEMMA OneMoves ==
    ASSUME ScheduleInv, Monotone, NEW a \in Agents,
           \A b \in Agents : b # a => work'[b] = work[b], Sound(a)'
    PROVE  AgentsAreSound'
<1>1. ASSUME NEW b \in Agents, b # a PROVE Sound(b)'
  BY <1>1, SoundKept
<1>2. QED
  BY <1>1 DEF AgentsAreSound

(* An agent that rests has nothing left to do.                             *)
LEMMA StopFacts ==
    ASSUME ScheduleInv, NEW a \in Agents, Stop(a)
    PROVE  /\ work' \in [Agents -> Work] /\ Sound(a)'
           /\ \A b \in Agents : b # a => work'[b] = work[b]
<1>1. Rest(a) \in Work /\ Rest(a).pc \in {"poll", "done"}
  BY AgentFacts DEF Rest, Idle, Done, Work
<1>2. work \in [Agents -> Work]
  BY DEF ScheduleInv, TypeOK
<1>3. work'[a] = Rest(a) /\ work' \in [Agents -> Work]
      /\ \A b \in Agents : b # a => work'[b] = work[b]
  BY <1>1, <1>2 DEF Stop
<1>4. QED
  BY <1>1, <1>3 DEF Sound

(* An agent that moves on with the occurrence it holds.                    *)
LEMMA StepFacts ==
    ASSUME ScheduleInv, NEW a \in Agents,
           NEW pc \in {"poll", "naming", "claim", "request", "claim_now", "bind", "admit",
                       "record", "done"},
           Step(a, pc)
    PROVE  /\ work' \in [Agents -> Work]
           /\ work'[a].pc = pc /\ work'[a].on = work[a].on /\ work'[a].tries = work[a].tries
           /\ work'[a].result = work[a].result
           /\ \A b \in Agents : b # a => work'[b] = work[b]
<1>1. work \in [Agents -> Work]
  BY DEF ScheduleInv, TypeOK
<1>2. QED
  BY <1>1 DEF Step, Work

(* An agent that has its answer.                                           *)
LEMMA AnswerFacts ==
    ASSUME ScheduleInv, NEW a \in Agents, NEW result \in {"run", "refusal", "error"},
           Answer(a, result)
    PROVE  /\ work' \in [Agents -> Work]
           /\ work'[a].pc = "record" /\ work'[a].on = work[a].on /\ work'[a].result = result
           /\ \A b \in Agents : b # a => work'[b] = work[b]
<1>1. work \in [Agents -> Work]
  BY DEF ScheduleInv, TypeOK
<1>2. QED
  BY <1>1 DEF Answer, Work

(* Writing one row.                                                        *)
LEMMA WriteRow ==
    ASSUME RowsOK, NEW o \in Occurrences, NEW row, RowOK(row), occ' = [occ EXCEPT ![o] = row]
    PROVE  /\ RowsOK' /\ occ'[o] = row
           /\ \A p \in Occurrences : p # o => occ'[p] = occ[p]
<1>1. /\ occ'[o] = row /\ occ' \in [Occurrences -> Row]
      /\ \A p \in Occurrences : p # o => occ'[p] = occ[p]
  BY DEF RowsOK, RowOK
<1>2. QED
  BY <1>1 DEF RowsOK

(* The type invariant is that of its variables.                            *)
Types ==
    /\ now \in 0 .. MaxTime /\ sched \in Schedule /\ RowsOK
    /\ admitted \subseteq Occurrences /\ work \in [Agents -> Work]
    /\ edits \in 0 .. MaxEdits

(* The members' writes: an edit, a pause, a deletion.                      *)
LEMMA MemberSteps ==
    ASSUME ScheduleInv, update \/ set_enabled \/ delete
    PROVE  ScheduleInv'
<1>1. Types /\ CadenceIsWhole /\ AgentsAreSound /\ OutcomesHold /\ ErrorHasCause
  BY DEF ScheduleInv, TypeOK, Types, RowsOK, RowOK
<1>2. /\ now' = now /\ admitted' = admitted /\ work' = work
      /\ edits' = edits + 1 /\ edits < MaxEdits
  BY DEF update, set_enabled, delete
<1>3. edits' \in 0 .. MaxEdits
  BY <1>1, <1>2, ScheduleConstants DEF Types
<1>4. /\ sched' \in Schedule /\ CadenceIsWhole'
      /\ \/ sched'.deleted
         \/ sched'.deleted = sched.deleted /\ sched'.error = sched.error /\ occ' = occ
  <2>1. CASE update
    <3>1. PICK c \in Cadences :
            sched' = [sched EXCEPT !.kind = c.kind, !.interval = c.interval,
                       !.next = IF cadence_changed(c) THEN first_run(c) ELSE @]
      BY <2>1 DEF update
    <3>2. /\ c.kind \in {"interval", "one_off"} /\ c.interval \in Intervals \cup {None}
          /\ c.kind = "interval" => c.interval \in Intervals
          /\ first_run(c) \in Nat \cup {None}
      <4>1. now \in Nat
        BY <1>1, ScheduleConstants DEF Types
      <4>2. QED
        BY <4>1, CadenceFacts
    <3>3. sched \in Schedule
      BY <1>1 DEF Types
    <3>4. /\ sched' \in Schedule /\ sched'.kind = c.kind /\ sched'.interval = c.interval
          /\ sched'.deleted = sched.deleted /\ sched'.error = sched.error
      BY <3>1, <3>2, <3>3 DEF Schedule
    <3>5. QED
      BY <2>1, <3>2, <3>4 DEF update, CadenceIsWhole
  <2>2. CASE set_enabled
    BY <1>1, <2>2 DEF Types, Schedule, set_enabled, CadenceIsWhole
  <2>3. CASE delete
    BY <1>1, <2>3 DEF Types, Schedule, delete, CadenceIsWhole
  <2>4. QED
    BY <2>1, <2>2, <2>3
<1>5. RowsOK'
  <2>1. CASE occ' = occ
    BY <1>1, <2>1 DEF Types, RowsOK
  <2>2. CASE occ' = [o \in Occurrences |-> NoRow]
    BY <2>2, FreshRows DEF RowsOK, RowOK
  <2>3. QED
    BY <2>1, <2>2 DEF update, set_enabled, delete
<1>6. Monotone
  BY <1>2, <1>4 DEF Monotone, update, set_enabled, delete
<1>7. AgentsAreSound'
  <2>1. ASSUME NEW a \in Agents PROVE Sound(a)'
    BY <1>2, <1>6, SoundKept
  <2>2. QED
    BY <2>1 DEF AgentsAreSound
<1>8. OutcomesHold' /\ ErrorHasCause'
  BY <1>1, <1>2, <1>4 DEF OutcomesHold, Outcome, ErrorHasCause
<1>9. TypeOK'
  BY <1>1, <1>2, <1>3, <1>4, <1>5 DEF Types, TypeOK, RowsOK, RowOK
<1>10. QED
  BY <1>4, <1>7, <1>8, <1>9 DEF ScheduleInv

(* A step of one agent that leaves the schedule's rhythm and the clock, in *)
(* terms of what it does to the rows.                                      *)
LEMMA AgentStep ==
    ASSUME ScheduleInv, NEW a \in Agents, UNCHANGED <<now, edits>>,
           sched' \in Schedule, CadenceIsWhole', sched'.deleted = sched.deleted,
           RowsOK', work' \in [Agents -> Work],
           \A b \in Agents : b # a => work'[b] = work[b], Sound(a)',
           admitted \subseteq admitted', admitted' \subseteq Occurrences,
           \A o \in Occurrences : occ[o].status = "failed" /\ occ[o].error =>
               occ'[o].status = "failed" /\ occ'[o].error,
           \A o \in Occurrences : ~sched.deleted =>
               \/ /\ o \in admitted' <=> o \in admitted
                  /\ \/ occ'[o] = occ[o]
                     \/ occ[o].status # "materialized" /\ occ'[o].status = "materializing"
               \/ Outcome(o)',
           sched'.error /\ ~sched.deleted =>
               \/ \E o \in Occurrences : occ'[o].error
               \/ sched.error /\ \A o \in Occurrences : occ[o].error => occ'[o].error
    PROVE  ScheduleInv'
<1>1. Types /\ OutcomesHold /\ ErrorHasCause
  BY DEF ScheduleInv, TypeOK, Types, RowsOK, RowOK
<1>2. TypeOK'
  BY <1>1 DEF Types, TypeOK, RowsOK, RowOK
<1>3. Monotone
  BY DEF Monotone
<1>4. AgentsAreSound'
  BY <1>3, OneMoves
<1>5. OutcomesHold'
  <2>1. ASSUME NEW o \in Occurrences, ~sched.deleted PROVE Outcome(o)'
    <3>1. Outcome(o)
      BY <1>1 DEF OutcomesHold
    <3>2. QED
      BY <2>1, <3>1 DEF Outcome
  <2>2. CASE sched.deleted
    BY <2>2 DEF OutcomesHold, Outcome
  <2>3. QED
    BY <2>1, <2>2 DEF OutcomesHold
<1>6. ErrorHasCause'
  BY <1>1 DEF ErrorHasCause
<1>7. QED
  BY <1>2, <1>4, <1>5, <1>6 DEF ScheduleInv

(* The sweep of lapsed last attempts.                                      *)
LEMMA FailExpiredStep ==
    ASSUME ScheduleInv, NEW w \in Workers, fail_expired_occurrences(w)
    PROVE  ScheduleInv'
<1>1. /\ w \in Agents /\ RowsOK /\ sched \in Schedule /\ CadenceIsWhole
      /\ admitted \subseteq Occurrences /\ OutcomesHold
  BY AgentFacts DEF ScheduleInv, TypeOK, RowsOK, RowOK
<1>2. sched' = sched /\ admitted' = admitted /\ UNCHANGED <<now, edits>>
  BY DEF fail_expired_occurrences
<1>3. CASE Step(w, "claim") /\ UNCHANGED occ
  <2>1. Sound(w)' /\ work' \in [Agents -> Work] /\ \A b \in Agents : b # w => work'[b] = work[b]
    BY <1>1, <1>3, StepFacts DEF Sound
  <2>2. RowsOK' /\ CadenceIsWhole'
    BY <1>1, <1>2, <1>3 DEF RowsOK, CadenceIsWhole
  <2>3. QED
    BY <1>1, <1>2, <1>3, <2>1, <2>2, AgentStep
<1>4. ASSUME NEW o \in Occurrences, Exhausted(o), Step(w, "naming"),
             occ' = [occ EXCEPT ![o] = [Settled(@, @.attempts) EXCEPT !.status = "failed",
                                                                     !.error = TRUE]]
      PROVE  ScheduleInv'
  <2> DEFINE row == [Settled(occ[o], occ[o].attempts) EXCEPT !.status = "failed", !.error = TRUE]
  <2>1. RowOK(row) /\ row.status = "failed" /\ row.error /\ row.by = row.attempts
    BY <1>1, <1>4, ExpiredRow DEF Exhausted, RowsOK
  <2>2. occ' = [occ EXCEPT ![o] = row]
    BY <1>1, <1>4 DEF RowsOK
  <2> HIDE DEF row
  <2>3. RowsOK' /\ occ'[o] = row /\ \A p \in Occurrences : p # o => occ'[p] = occ[p]
    BY <1>1, <2>1, <2>2, WriteRow
  <2>4. Sound(w)' /\ work' \in [Agents -> Work] /\ \A b \in Agents : b # w => work'[b] = work[b]
    BY <1>1, <1>4, <2>1, <2>3, StepFacts DEF Sound
  <2>5. CadenceIsWhole'
    BY <1>1, <1>2 DEF CadenceIsWhole
  <2>6. Outcome(o)'
    BY <1>1, <1>2, <1>4, <2>1, <2>3 DEF OutcomesHold, Outcome, Exhausted
  <2>7. QED
    BY <1>1, <1>2, <2>1, <2>3, <2>4, <2>5, <2>6, AgentStep
<1>5. QED
  BY <1>3, <1>4 DEF fail_expired_occurrences

(* The failure is shown by the schedule.                                   *)
LEMMA NameFailureStep ==
    ASSUME ScheduleInv, NEW w \in Workers, name_failure(w)
    PROVE  ScheduleInv'
<1>1. /\ w \in Agents /\ RowsOK /\ sched \in Schedule /\ CadenceIsWhole
      /\ admitted \subseteq Occurrences /\ Sound(w) /\ work[w].pc = "naming"
  BY AgentFacts DEF ScheduleInv, TypeOK, RowsOK, RowOK, AgentsAreSound, name_failure
<1>2. occ' = occ /\ admitted' = admitted /\ UNCHANGED <<now, edits>> /\ Step(w, "claim")
  BY DEF name_failure
<1>3. /\ sched' \in Schedule /\ sched'.deleted = sched.deleted
      /\ sched'.kind = sched.kind /\ sched'.interval = sched.interval
  <2>1. CASE sched' = sched
    BY <1>1, <2>1
  <2>2. CASE sched' = [sched EXCEPT !.error = TRUE]
    BY <1>1, <2>2 DEF Schedule
  <2>3. QED
    BY <2>1, <2>2 DEF name_failure
<1>4. Sound(w)' /\ work' \in [Agents -> Work] /\ \A b \in Agents : b # w => work'[b] = work[b]
  BY <1>1, <1>2, StepFacts DEF Sound
<1>5. RowsOK' /\ CadenceIsWhole'
  BY <1>1, <1>2, <1>3 DEF RowsOK, CadenceIsWhole
<1>6. ~sched.deleted => \E o \in Occurrences : occ'[o].error
  BY <1>1, <1>2 DEF Sound
<1>7. QED
  BY <1>1, <1>2, <1>3, <1>4, <1>5, <1>6, AgentStep

(* A due slot is a time that has come, and one of the slots.               *)
LEMMA DueFacts ==
    ASSUME ScheduleInv, Due
    PROVE  /\ sched.next \in Nat /\ now \in Nat /\ sched.next <= now
           /\ sched.next \in Occurrences /\ ~sched.deleted
<1>1. now \in 0 .. MaxTime /\ sched \in Schedule
  BY DEF ScheduleInv, TypeOK
<1>2. sched.next \in Nat \cup {None}
  BY <1>1 DEF Schedule
<1>3. QED
  BY <1>1, <1>2, ScheduleConstants DEF Due, Occurrences, Slots

(* Capturing adds at most the row of a slot that had none.                 *)
LEMMA CapturedFacts ==
    ASSUME ScheduleInv
    PROVE  /\ Captured \in [Occurrences -> Row]
           /\ \A o \in Occurrences :
                /\ RowOK(Captured[o])
                /\ \/ Captured[o] = occ[o]
                   \/ ~sched.deleted /\ occ[o].status = "none" /\ Captured[o] = NewRow
<1>1. RowsOK
  BY DEF ScheduleInv, TypeOK, RowsOK, RowOK
<1>2. CASE Due /\ occ[sched.next].status = "none"
  <2>1. Captured = [occ EXCEPT ![sched.next] = NewRow]
    BY <1>2 DEF Captured
  <2>2. sched.next \in Occurrences /\ ~sched.deleted
    BY <1>2, DueFacts
  <2>3. QED
    BY <1>1, <1>2, <2>1, <2>2, FreshRows DEF RowsOK, RowOK
<1>3. CASE ~(Due /\ occ[sched.next].status = "none")
  <2>1. Captured = occ
    BY <1>3 DEF Captured
  <2>2. QED
    BY <1>1, <2>1 DEF RowsOK
<1>4. QED
  BY <1>2, <1>3

(* The schedule steps to a time, or has had its only run.                  *)
LEMMA SteppedFacts ==
    ASSUME ScheduleInv
    PROVE  /\ Stepped \in Schedule /\ Stepped.kind = sched.kind
           /\ Stepped.interval = sched.interval
           /\ Stepped.deleted = sched.deleted /\ Stepped.error = sched.error
<1>1. sched \in Schedule /\ CadenceIsWhole
  BY DEF ScheduleInv, TypeOK
<1>2. CASE ~Due
  BY <1>1, <1>2 DEF Stepped
<1>3. CASE Due /\ sched.kind = "interval"
  <2> DEFINE new == next_slot(sched.next, sched.interval)
  <2>1. sched.interval \in Nat /\ sched.interval # 0
    BY <1>1, <1>3, ScheduleConstants DEF CadenceIsWhole
  <2>2. new \in Nat
    BY <1>3, <2>1, DueFacts, NextSlotFacts
  <2>3. Stepped = [sched EXCEPT !.next = new]
    BY <1>1, <1>3 DEF Stepped, Schedule
  <2> HIDE DEF new
  <2>4. QED
    BY <1>1, <2>2, <2>3 DEF Schedule
<1>4. CASE Due /\ sched.kind # "interval"
  <2>1. Stepped = [sched EXCEPT !.next = None, !.enabled = FALSE]
    BY <1>4 DEF Stepped
  <2>2. QED
    BY <1>1, <2>1 DEF Schedule
<1>5. QED
  BY <1>2, <1>3, <1>4

(* An agent that claimed goes on to bind.                                  *)
LEMMA HoldFacts ==
    ASSUME ScheduleInv, NEW a \in Agents, NEW o \in Occurrences, NEW row,
           row.attempts + 1 \in 0 .. MaxAttempts, Hold(a, o, row)
    PROVE  /\ work' \in [Agents -> Work] /\ Sound(a)'
           /\ \A b \in Agents : b # a => work'[b] = work[b]
<1> DEFINE held == [Idle EXCEPT !.pc = "bind", !.on = o, !.attempt = row.attempts + 1]
<1>1. held \in Work /\ held.pc = "bind" /\ held.on = o
  BY AgentFacts DEF Idle, Work
<1>2. work' = [work EXCEPT ![a] = held] /\ work \in [Agents -> Work]
  BY DEF Hold, ScheduleInv, TypeOK
<1> HIDE DEF held
<1>3. work'[a] = held /\ work' \in [Agents -> Work]
      /\ \A b \in Agents : b # a => work'[b] = work[b]
  BY <1>1, <1>2
<1>4. QED
  BY <1>1, <1>3 DEF Sound

(* The claim statement: the due slot is captured, the schedule steps and   *)
(* one claimable occurrence is claimed.                                    *)
LEMMA ClaimDueStep ==
    ASSUME ScheduleInv, NEW w \in Workers, claim_due(w)
    PROVE  ScheduleInv'
<1>1. /\ w \in Agents /\ RowsOK /\ sched \in Schedule /\ CadenceIsWhole
      /\ admitted \subseteq Occurrences /\ OutcomesHold
  BY AgentFacts DEF ScheduleInv, TypeOK, RowsOK, RowOK
<1>2. sched' = Stepped /\ admitted' = admitted /\ UNCHANGED <<now, edits>>
  BY DEF claim_due
<1>3. /\ sched' \in Schedule /\ sched'.deleted = sched.deleted /\ sched'.error = sched.error
      /\ CadenceIsWhole'
  BY <1>1, <1>2, SteppedFacts DEF CadenceIsWhole
<1> DEFINE rows == Captured
<1>4. /\ rows \in [Occurrences -> Row]
      /\ \A o \in Occurrences :
           /\ RowOK(rows[o])
           /\ \/ rows[o] = occ[o]
              \/ ~sched.deleted /\ occ[o].status = "none" /\ rows[o] = NewRow
  BY CapturedFacts
<1>5. ASSUME NEW o \in Occurrences, occ'[o] = rows[o] PROVE occ'[o] = occ[o] \/ Outcome(o)'
  BY <1>1, <1>2, <1>3, <1>4, <1>5, FreshRows DEF OutcomesHold, Outcome
<1>6. CASE occ' = rows /\ Stop(w)
  <2>1. RowsOK'
    BY <1>4, <1>6 DEF RowsOK
  <2>2. Sound(w)' /\ work' \in [Agents -> Work] /\ \A b \in Agents : b # w => work'[b] = work[b]
    BY <1>1, <1>6, StopFacts
  <2>3. \A o \in Occurrences :
          /\ occ[o].status = "failed" /\ occ[o].error => occ'[o].status = "failed" /\ occ'[o].error
          /\ occ[o].error => occ'[o].error
    BY <1>1, <1>4, <1>6, FreshRows DEF RowsOK, RowOK, RowCheck
  <2>4. \A o \in Occurrences : occ'[o] = occ[o] \/ Outcome(o)'
    BY <1>5, <1>6
  <2>5. QED
    BY <1>1, <1>2, <1>3, <2>1, <2>2, <2>3, <2>4, AgentStep
<1>7. ASSUME NEW o \in Occurrences, Claimable(rows[o]),
             occ' = [rows EXCEPT ![o] = Claim(w, @)], Hold(w, o, rows[o])
      PROVE  ScheduleInv'
  <2> DEFINE row == Claim(w, rows[o])
  <2>1. /\ RowOK(row) /\ row.status = "materializing" /\ row.error = rows[o].error
        /\ rows[o].attempts + 1 \in 0 .. MaxAttempts
    BY <1>1, <1>4, <1>7, ClaimedRow
  <2>2. occ' = [rows EXCEPT ![o] = row]
    BY <1>4, <1>7
  <2>3. rows[o].status \in {"pending", "materializing"}
    BY <1>7 DEF Claimable
  <2> HIDE DEF row
  <2>4. Sound(w)' /\ work' \in [Agents -> Work] /\ \A b \in Agents : b # w => work'[b] = work[b]
    BY <1>1, <1>7, <2>1, HoldFacts
  <2> HIDE DEF rows
  <2>5. /\ occ'[o] = row /\ occ' \in [Occurrences -> Row]
        /\ \A p \in Occurrences : p # o => occ'[p] = rows[p]
    BY <1>4, <2>1, <2>2 DEF RowOK
  <2>6. RowsOK'
    BY <1>4, <2>1, <2>5 DEF RowsOK
  <2>7. \A p \in Occurrences :
          /\ occ[p].status = "failed" /\ occ[p].error => occ'[p].status = "failed" /\ occ'[p].error
          /\ occ[p].error => occ'[p].error
    <3>1. \A p \in Occurrences : occ[p].error => occ[p].status # "none"
      BY <1>1, FreshRows DEF RowsOK, RowOK, RowCheck
    <3>2. \A p \in Occurrences : occ[p].error => rows[p] = occ[p]
      BY <1>4, <3>1
    <3>3. QED
      BY <2>1, <2>3, <2>5, <3>2
  <2>8. ASSUME NEW p \in Occurrences, p # o PROVE occ'[p] = occ[p] \/ Outcome(p)'
    BY <1>5, <2>5, <2>8
  <2>9. occ[o].status # "materialized" /\ occ'[o].status = "materializing"
    BY <1>4, <2>1, <2>3, <2>5
  <2>10. QED
    BY <1>1, <1>2, <1>3, <2>4, <2>6, <2>7, <2>8, <2>9, AgentStep
<1>8. QED
  BY <1>6, <1>7 DEF claim_due

(* A request captures its occurrence under its command key.                *)
LEMMA CaptureNowStep ==
    ASSUME ScheduleInv, NEW c \in Callers, capture_now(c)
    PROVE  ScheduleInv'
<1>1. /\ c \in Agents /\ RowsOK /\ sched \in Schedule /\ CadenceIsWhole
      /\ admitted \subseteq Occurrences /\ OutcomesHold /\ KeyOf[c] \in Occurrences
  BY AgentFacts DEF ScheduleInv, TypeOK, RowsOK, RowOK, Occurrences, Keys
<1>2. sched' = sched /\ admitted' = admitted /\ UNCHANGED <<now, edits>>
  BY DEF capture_now
<1>3. CadenceIsWhole'
  BY <1>1, <1>2 DEF CadenceIsWhole
<1>4. CASE Stop(c) /\ UNCHANGED occ
  <2>1. RowsOK'
    BY <1>1, <1>4 DEF RowsOK
  <2>2. QED
    BY <1>1, <1>2, <1>3, <1>4, <2>1, StopFacts, AgentStep
<1>5. CASE /\ ~sched.deleted /\ Step(c, "claim_now")
           /\ occ' = [occ EXCEPT ![KeyOf[c]] = IF @.status = "none" THEN NewRow ELSE @]
  <2> DEFINE o == KeyOf[c]
             row == IF occ[o].status = "none" THEN NewRow ELSE occ[o]
  <2>1. RowOK(row) /\ occ' = [occ EXCEPT ![o] = row]
    BY <1>1, <1>5, FreshRows DEF RowsOK
  <2>2. row = occ[o] \/ (occ[o].status = "none" /\ row = NewRow)
    OBVIOUS
  <2>3. o \in Occurrences
    BY <1>1
  <2> HIDE DEF o, row
  <2>4. RowsOK' /\ occ'[o] = row /\ \A p \in Occurrences : p # o => occ'[p] = occ[p]
    BY <1>1, <2>1, <2>3, WriteRow
  <2>5. Sound(c)' /\ work' \in [Agents -> Work] /\ \A b \in Agents : b # c => work'[b] = work[b]
    BY <1>1, <1>5, StepFacts DEF Sound
  <2>6. \A p \in Occurrences :
          /\ occ[p].status = "failed" /\ occ[p].error => occ'[p].status = "failed" /\ occ'[p].error
          /\ occ[p].error => occ'[p].error
    BY <1>1, <2>2, <2>4, FreshRows DEF RowsOK, RowOK, RowCheck
  <2>7. occ'[o] = occ[o] \/ Outcome(o)'
    BY <1>1, <1>2, <2>2, <2>3, <2>4, FreshRows DEF OutcomesHold, Outcome
  <2>8. QED
    BY <1>1, <1>2, <1>3, <2>4, <2>5, <2>6, <2>7, AgentStep
<1>6. QED
  BY <1>4, <1>5 DEF capture_now

(* A request claims its own occurrence.                                    *)
LEMMA ClaimOccurrenceStep ==
    ASSUME ScheduleInv, NEW c \in Callers, claim_occurrence(c)
    PROVE  ScheduleInv'
<1> DEFINE o == KeyOf[c]
<1>1. /\ c \in Agents /\ RowsOK /\ sched \in Schedule /\ CadenceIsWhole
      /\ admitted \subseteq Occurrences /\ OutcomesHold /\ o \in Occurrences
  BY AgentFacts DEF ScheduleInv, TypeOK, RowsOK, RowOK, Occurrences, Keys
<1>2. sched' = sched /\ admitted' = admitted /\ UNCHANGED <<now, edits>>
  BY DEF claim_occurrence
<1>3. CadenceIsWhole'
  BY <1>1, <1>2 DEF CadenceIsWhole
<1>4. CASE Stop(c) /\ UNCHANGED occ
  <2>1. RowsOK'
    BY <1>1, <1>4 DEF RowsOK
  <2>2. QED
    BY <1>1, <1>2, <1>3, <1>4, <2>1, StopFacts, AgentStep
<1>5. CASE /\ Claimable(occ[o])
           /\ occ' = [occ EXCEPT ![o] = Claim(c, @)]
           /\ Hold(c, o, occ[o])
  <2> DEFINE row == Claim(c, occ[o])
  <2>1. /\ RowOK(row) /\ row.status = "materializing" /\ row.error = occ[o].error
        /\ occ[o].attempts + 1 \in 0 .. MaxAttempts
    BY <1>1, <1>5, ClaimedRow DEF RowsOK
  <2>2. occ' = [occ EXCEPT ![o] = row] /\ occ[o].status \in {"pending", "materializing"}
    BY <1>1, <1>5 DEF RowsOK, Claimable
  <2>3. Sound(c)' /\ work' \in [Agents -> Work] /\ \A b \in Agents : b # c => work'[b] = work[b]
    BY <1>1, <1>5, <2>1, HoldFacts
  <2> HIDE DEF row, o
  <2>4. RowsOK' /\ occ'[o] = row /\ \A p \in Occurrences : p # o => occ'[p] = occ[p]
    BY <1>1, <2>1, <2>2, WriteRow
  <2>5. QED
    BY <1>1, <1>2, <1>3, <2>1, <2>2, <2>3, <2>4, AgentStep
<1>6. QED
  BY <1>4, <1>5 DEF claim_occurrence

(* Steps that only move an agent on.                                       *)
LEMMA QuietStep ==
    ASSUME ScheduleInv, NEW a \in Agents, UNCHANGED <<now, sched, occ, admitted, edits>>,
           work' \in [Agents -> Work], Sound(a)',
           \A b \in Agents : b # a => work'[b] = work[b]
    PROVE  ScheduleInv'
<1>1. RowsOK' /\ CadenceIsWhole' /\ sched' \in Schedule /\ admitted \subseteq Occurrences
  BY DEF ScheduleInv, TypeOK, RowsOK, RowOK, CadenceIsWhole
<1>2. QED
  BY <1>1, AgentStep

(* The binding is read, or the tries are used up.                          *)
LEMMA BindingStep ==
    ASSUME ScheduleInv, NEW a \in Agents, schedule_binding(a)
    PROVE  ScheduleInv'
<1>1. work[a].pc = "bind" /\ work[a].on \in Occurrences
  BY DEF ScheduleInv, AgentsAreSound, Sound, schedule_binding
<1>2. ASSUME NEW result \in {"refusal", "error"}, Answer(a, result) PROVE ScheduleInv'
  <2>1. Sound(a)' /\ work' \in [Agents -> Work] /\ \A b \in Agents : b # a => work'[b] = work[b]
    BY <1>1, <1>2, AnswerFacts DEF Sound
  <2>2. QED
    BY <2>1, QuietStep DEF schedule_binding
<1>3. CASE work[a].tries < MaxStale /\ Step(a, "admit")
  <2>1. Sound(a)' /\ work' \in [Agents -> Work] /\ \A b \in Agents : b # a => work'[b] = work[b]
    BY <1>1, <1>3, StepFacts DEF Sound
  <2>2. QED
    BY <2>1, QuietStep DEF schedule_binding
<1>4. QED
  BY <1>2, <1>3 DEF schedule_binding

(* A claim the fence still holds for is settled by its own result.         *)
LEMMA SettledOwn ==
    ASSUME ScheduleInv, NEW a \in Agents, work[a].on \in Occurrences, fence(a),
           NEW result \in {"run", "refusal", "error"}
    PROVE  LET row == Recorded(occ[work[a].on], result, work[a].attempt)
           IN  /\ RowOK(row) /\ row.by = row.attempts
               /\ row.status \notin {"none", "materializing"}
               /\ row.status = "materialized" <=> result = "run"
               /\ row.error <=> result # "run"
<1> DEFINE old == occ[work[a].on]
<1>1. RowOK(old) /\ old.status = "materializing" /\ old.attempts = work[a].attempt
  BY DEF ScheduleInv, TypeOK, RowOK, fence
<1> HIDE DEF old
<1>2. LET row == Recorded(old, result, old.attempts)
      IN  /\ RowOK(row) /\ row.by = row.attempts
          /\ row.status \notin {"none", "materializing"}
          /\ row.status = "materialized" <=> result = "run"
          /\ row.error <=> result # "run"
  BY <1>1, RecordedRow
<1>3. QED
  BY <1>1, <1>2 DEF old

(* The admission transaction.                                              *)
LEMMA AdmitStep ==
    ASSUME ScheduleInv, NEW a \in Agents, admit(a)
    PROVE  ScheduleInv'
<1>1b. work[a].on \in Occurrences
  BY DEF ScheduleInv, AgentsAreSound, Sound, admit
<1>1a. PICK o \in Occurrences : o = work[a].on
  BY <1>1b
<1>1. /\ work[a].pc = "admit" /\ o = work[a].on /\ work[a].tries < MaxStale
      /\ RowsOK /\ sched \in Schedule /\ CadenceIsWhole /\ admitted \subseteq Occurrences
      /\ OutcomesHold /\ work \in [Agents -> Work]
  BY <1>1a DEF ScheduleInv, TypeOK, RowsOK, RowOK, AgentsAreSound, Sound, admit
<1>2. UNCHANGED <<now, edits>>
  BY DEF admit
<1>3. ASSUME claim_holds(a), admitted' = admitted \cup {o}, settle_claim(a),
             NEW result \in {"run", "error"}, Answer(a, result)
      PROVE  ScheduleInv'
  <2>1. /\ ~sched.deleted /\ fence(a) /\ sched' = [sched EXCEPT !.error = FALSE]
        /\ occ' = [occ EXCEPT ![o] = Recorded(occ[o], "run", work[a].attempt)]
    BY <1>1, <1>3 DEF claim_holds, settle_claim, RowsOK
  <2>2. /\ RowsOK' /\ \A p \in Occurrences : p # o => occ'[p] = occ[p]
        /\ occ[o].status = "materializing" /\ occ'[o].by = occ'[o].attempts
        /\ occ'[o].status = "materialized" /\ ~occ'[o].error
    <3> DEFINE row == Recorded(occ[o], "run", work[a].attempt)
    <3>1. fence(a) /\ o = work[a].on /\ occ[o].status = "materializing"
      BY <1>1, <2>1 DEF fence
    <3>2. /\ RowOK(row) /\ row.by = row.attempts /\ row.status \notin {"none", "materializing"}
          /\ row.status = "materialized" <=> "run" = "run"
          /\ row.error <=> "run" # "run"
      BY <1>1, <3>1, SettledOwn
    <3>3. occ' = [occ EXCEPT ![o] = row]
      BY <2>1
    <3> HIDE DEF row
    <3>4. RowsOK' /\ occ'[o] = row /\ \A p \in Occurrences : p # o => occ'[p] = occ[p]
      BY <1>1, <1>2, <3>2, <3>3, WriteRow
    <3>5. QED
      BY <3>1, <3>2, <3>4
  <2>3. /\ sched' \in Schedule /\ sched'.deleted = sched.deleted /\ sched'.error = FALSE
        /\ sched'.kind = sched.kind /\ sched'.interval = sched.interval
    BY <1>1, <2>1 DEF Schedule
  <2>4. CadenceIsWhole'
    BY <1>1, <2>3 DEF CadenceIsWhole
  <2>5. /\ Sound(a)' /\ work' \in [Agents -> Work]
        /\ \A b \in Agents : b # a => work'[b] = work[b]
    BY <1>1, <1>3, AnswerFacts DEF Sound
  <2>6. Outcome(o)'
    BY <1>3, <2>2 DEF Outcome
  <2>7. admitted \subseteq admitted' /\ admitted' \subseteq Occurrences
        /\ \A p \in Occurrences : p # o => (p \in admitted' <=> p \in admitted)
    BY <1>1, <1>3
  <2>8. /\ \A p \in Occurrences : occ[p].status = "failed" /\ occ[p].error =>
             occ'[p].status = "failed" /\ occ'[p].error
        /\ \A p \in Occurrences : ~sched.deleted =>
             \/ /\ p \in admitted' <=> p \in admitted
                /\ \/ occ'[p] = occ[p]
                   \/ occ[p].status # "materialized" /\ occ'[p].status = "materializing"
             \/ Outcome(p)'
    BY <2>2, <2>6, <2>7
  <2>9. QED
    BY <1>2, <2>1, <2>2, <2>3, <2>4, <2>5, <2>7, <2>8, AgentStep
<1>4. ASSUME UNCHANGED <<admitted, sched, occ>>, NEW result \in {"refusal", "error"},
             Answer(a, result)
      PROVE  ScheduleInv'
  <2>1. Sound(a)' /\ work' \in [Agents -> Work] /\ \A b \in Agents : b # a => work'[b] = work[b]
    BY <1>1, <1>4, AnswerFacts DEF Sound
  <2>2. QED
    BY <1>2, <1>4, <2>1, QuietStep
<1>5. ASSUME UNCHANGED <<admitted, sched, occ>>,
             work' = [work EXCEPT ![a].pc = "bind", ![a].tries = @ + 1]
      PROVE  ScheduleInv'
  <2>1. /\ work' \in [Agents -> Work] /\ work'[a].pc = "bind" /\ work'[a].on = o
        /\ \A b \in Agents : b # a => work'[b] = work[b]
    BY <1>1, <1>5, AgentFacts DEF Work
  <2>2. Sound(a)'
    BY <1>1, <2>1 DEF Sound
  <2>3. QED
    BY <1>2, <1>5, <2>1, <2>2, QuietStep
<1>6. QED
  BY <1>1, <1>3, <1>4, <1>5 DEF admit

(* The outcome is recorded under the fence.  It is never a run: the run    *)
(* that an agent reports was admitted, with its occurrence's outcome.      *)
LEMMA RecordStep ==
    ASSUME ScheduleInv, NEW a \in Agents, record(a)
    PROVE  ScheduleInv'
<1> DEFINE result == work[a].result
<1>1b. work[a].on \in Occurrences
  BY DEF ScheduleInv, AgentsAreSound, Sound, record
<1>1a. PICK o \in Occurrences : o = work[a].on
  BY <1>1b
<1>1. /\ work[a].pc = "record" /\ o = work[a].on /\ result \in {"run", "refusal", "error"}
      /\ result = "run" /\ ~sched.deleted => o \in admitted
  <2>1. work \in [Agents -> Work] /\ work[a].pc = "record" /\ Sound(a)
    BY DEF ScheduleInv, TypeOK, AgentsAreSound, record
  <2>2. QED
    BY <1>1a, <2>1 DEF Work, Sound
<1>2. /\ RowsOK /\ sched \in Schedule /\ CadenceIsWhole /\ admitted \subseteq Occurrences
      /\ OutcomesHold
  BY DEF ScheduleInv, TypeOK, RowsOK, RowOK
<1>3. UNCHANGED <<now, edits>> /\ admitted' = admitted /\ Stop(a)
  BY DEF record
<1>4. Sound(a)' /\ work' \in [Agents -> Work] /\ \A b \in Agents : b # a => work'[b] = work[b]
  BY <1>3, StopFacts
<1>5. CASE ~sched.deleted /\ fence(a)
  <2>1. /\ occ' = [occ EXCEPT ![o] = Recorded(occ[o], result, work[a].attempt)]
        /\ sched' = [sched EXCEPT !.error = (result # "run")]
    BY <1>1, <1>2, <1>5 DEF record, RowsOK
  <2>2. /\ RowsOK' /\ \A p \in Occurrences : p # o => occ'[p] = occ[p]
        /\ occ[o].status = "materializing" /\ occ'[o].by = occ'[o].attempts
        /\ occ'[o].status \notin {"none", "materializing"}
        /\ occ'[o].status = "materialized" <=> result = "run"
        /\ occ'[o].error <=> result # "run"
    <3> DEFINE row == Recorded(occ[o], result, work[a].attempt)
    <3>1. fence(a) /\ o = work[a].on /\ occ[o].status = "materializing"
      BY <1>1, <1>5 DEF fence
    <3>2. /\ RowOK(row) /\ row.by = row.attempts /\ row.status \notin {"none", "materializing"}
          /\ row.status = "materialized" <=> result = "run"
          /\ row.error <=> result # "run"
      BY <1>1, <3>1, SettledOwn
    <3>3. occ' = [occ EXCEPT ![o] = row]
      BY <2>1
    <3> HIDE DEF row
    <3>4. RowsOK' /\ occ'[o] = row /\ \A p \in Occurrences : p # o => occ'[p] = occ[p]
      BY <1>1, <1>2, <3>2, <3>3, WriteRow
    <3>5. QED
      BY <3>1, <3>2, <3>4
  <2>3. Outcome(o)
    BY <1>1, <1>2 DEF OutcomesHold
  <2>4. o \notin admitted /\ result # "run"
    BY <1>1, <1>5, <2>2, <2>3 DEF Outcome
  <2>5. sched' = [sched EXCEPT !.error = TRUE]
    BY <2>1, <2>4
  <2>6. /\ sched' \in Schedule /\ sched'.deleted = sched.deleted
        /\ sched'.kind = sched.kind /\ sched'.interval = sched.interval
    BY <1>2, <2>5 DEF Schedule
  <2>7. CadenceIsWhole'
    BY <1>2, <2>6 DEF CadenceIsWhole
  <2> HIDE DEF result
  <2>8. Outcome(o)' /\ occ'[o].error
    BY <1>3, <2>2, <2>4 DEF Outcome
  <2>9. QED
    BY <1>1, <1>2, <1>3, <1>4, <2>2, <2>6, <2>7, <2>8, AgentStep
<1>6. CASE ~(~sched.deleted /\ fence(a))
  <2>1. UNCHANGED <<occ, sched>>
    BY <1>6 DEF record
  <2>2. QED
    BY <1>3, <1>4, <2>1, QuietStep
<1>7. QED
  BY <1>5, <1>6

(* A process dies.                                                         *)
LEMMA AbandonStep ==
    ASSUME ScheduleInv, NEW a \in Agents, Abandon(a)
    PROVE  ScheduleInv'
BY StopFacts, QuietStep DEF Abandon

(* A lease ends, a backoff elapses, the clock ticks: no outcome changes.   *)
LEMMA TimeSteps ==
    ASSUME ScheduleInv,
           \/ Tick
           \/ \E o \in Occurrences : LeaseLapses(o) \/ BackoffElapses(o)
    PROVE  ScheduleInv'
<1>1. Types /\ CadenceIsWhole /\ AgentsAreSound /\ OutcomesHold /\ ErrorHasCause
  BY DEF ScheduleInv, TypeOK, Types, RowsOK, RowOK
<1>2. sched' = sched /\ admitted' = admitted /\ work' = work /\ edits' = edits
  BY DEF Tick, LeaseLapses, BackoffElapses
<1>3. now' \in 0 .. MaxTime
  BY <1>1, ScheduleConstants DEF Types, Tick, LeaseLapses, BackoffElapses
<1> DEFINE Kept == RowsOK' /\ \A o \in Occurrences :
             /\ occ'[o].status = occ[o].status /\ occ'[o].error = occ[o].error
             /\ occ'[o].by = occ[o].by /\ occ'[o].attempts = occ[o].attempts
<1>4. Kept
  <2>1. CASE Tick
    BY <1>1, <2>1 DEF Tick, Types, RowsOK
  <2>2. ASSUME NEW o \in Occurrences, NEW row, RowOK(row), occ' = [occ EXCEPT ![o] = row],
               row.status = occ[o].status, row.error = occ[o].error, row.by = occ[o].by,
               row.attempts = occ[o].attempts
        PROVE  Kept
    <3>1. RowsOK' /\ occ'[o] = row /\ \A p \in Occurrences : p # o => occ'[p] = occ[p]
      BY <1>1, <2>2, WriteRow DEF Types
    <3>2. QED
      BY <2>2, <3>1
  <2>3. ASSUME NEW o \in Occurrences, LeaseLapses(o) PROVE Kept
    <3> DEFINE row == [occ[o] EXCEPT !.leased = FALSE]
    <3>1. occ[o] \in Row /\ RowCheck(occ[o]) /\ occ[o].leased
      BY <1>1, <2>3 DEF Types, RowsOK, RowOK, LeaseLapses
    <3>2. /\ row \in Row /\ row.status = occ[o].status /\ row.error = occ[o].error
          /\ row.by = occ[o].by /\ row.attempts = occ[o].attempts /\ row.owner = occ[o].owner
          /\ row.refused = occ[o].refused /\ row.leased = FALSE
      BY <3>1 DEF Row
    <3>3. occ' = [occ EXCEPT ![o] = row]
      BY <1>1, <2>3 DEF Types, RowsOK, LeaseLapses
    <3> HIDE DEF row
    <3>4. RowOK(row)
      BY <3>1, <3>2 DEF RowOK, RowCheck
    <3>5. QED
      BY <2>2, <3>2, <3>3, <3>4
  <2>4. ASSUME NEW o \in Occurrences, BackoffElapses(o) PROVE Kept
    <3> DEFINE row == [occ[o] EXCEPT !.ready = TRUE]
    <3>1. occ[o] \in Row /\ RowCheck(occ[o]) /\ occ[o].status = "pending"
      BY <1>1, <2>4 DEF Types, RowsOK, RowOK, BackoffElapses
    <3>2. /\ row \in Row /\ row.status = occ[o].status /\ row.error = occ[o].error
          /\ row.by = occ[o].by /\ row.attempts = occ[o].attempts /\ row.owner = occ[o].owner
          /\ row.refused = occ[o].refused /\ row.leased = occ[o].leased
      BY <3>1 DEF Row
    <3>3. occ' = [occ EXCEPT ![o] = row]
      BY <1>1, <2>4 DEF Types, RowsOK, BackoffElapses
    <3> HIDE DEF row
    <3>4. RowOK(row)
      BY <3>1, <3>2 DEF RowOK, RowCheck
    <3>5. QED
      BY <2>2, <3>2, <3>3, <3>4
  <2>5. QED
    BY <2>1, <2>3, <2>4
<1>5. Monotone
  BY <1>2, <1>4 DEF Monotone
<1>6. AgentsAreSound'
  <2>1. ASSUME NEW a \in Agents PROVE Sound(a)'
    BY <1>2, <1>5, SoundKept
  <2>2. QED
    BY <2>1 DEF AgentsAreSound
<1>7. OutcomesHold' /\ ErrorHasCause'
  BY <1>1, <1>2, <1>4 DEF OutcomesHold, Outcome, ErrorHasCause
<1>8. TypeOK' /\ CadenceIsWhole'
  BY <1>1, <1>2, <1>3, <1>4 DEF Types, TypeOK, RowsOK, RowOK, CadenceIsWhole
<1>9. QED
  BY <1>6, <1>7, <1>8 DEF ScheduleInv

----------------------------------------------------------------------------
(* The theorems.                                                           *)

(* Every step keeps the invariant.                                         *)
LEMMA NextKeepsSchedule == ScheduleInv /\ [Next]_vars => ScheduleInv'
<1>1. SUFFICES ASSUME ScheduleInv, [Next]_vars PROVE ScheduleInv'
  OBVIOUS
<1>2. ASSUME NEW w \in Workers, Poll(w) PROVE ScheduleInv'
  BY <1>1, <1>2, FailExpiredStep, NameFailureStep, ClaimDueStep DEF Poll
<1>3. ASSUME NEW c \in Callers, RunNow(c) PROVE ScheduleInv'
  BY <1>1, <1>3, CaptureNowStep, ClaimOccurrenceStep DEF RunNow
<1>4. ASSUME NEW a \in Agents, materialize(a) \/ Abandon(a) PROVE ScheduleInv'
  BY <1>1, <1>4, BindingStep, AdmitStep, RecordStep, AbandonStep DEF materialize
<1>5. CASE Tick \/ \E o \in Occurrences : LeaseLapses(o) \/ BackoffElapses(o)
  BY <1>1, <1>5, TimeSteps
<1>6. CASE update \/ set_enabled \/ delete
  BY <1>1, <1>6, MemberSteps
<1>7. CASE UNCHANGED vars
  BY <1>1, <1>7 DEF vars, ScheduleInv, TypeOK, CadenceIsWhole, AgentsAreSound, Sound,
                    OutcomesHold, Outcome, ErrorHasCause
<1>8. QED
  BY <1>1, <1>2, <1>3, <1>4, <1>5, <1>6, <1>7 DEF Next

(* The invariant holds of every state of the schedule, its occurrences and *)
(* their workers.                                                          *)
THEOREM ScheduleInvHolds == Spec => []ScheduleInv
BY InitSchedule, NextKeepsSchedule, PTL DEF Spec

(* Every variable has its type and every occurrence row passes the table's *)
(* materialization check: no claim, sweep or settlement writes a row the   *)
(* database would refuse.                                                  *)
THEOREM ScheduleTypesHold == Spec => []TypeOK
<1>1. ScheduleInv => TypeOK
  BY DEF ScheduleInv
<1>2. QED
  BY <1>1, ScheduleInvHolds, PTL

(* An occurrence is materialized exactly when a run was admitted for it,   *)
(* and shows what its latest claim recorded: the fence of record and       *)
(* settle_claim keeps every earlier claim's late answer out.               *)
THEOREM OutcomesAreTheLatestClaims == Spec => []OutcomeIsTheLatestClaims
<1>1. ScheduleInv => OutcomeIsTheLatestClaims
  BY DEF ScheduleInv, OutcomesHold, Outcome, OutcomeIsTheLatestClaims
<1>2. QED
  BY <1>1, ScheduleInvHolds, PTL

(* A schedule shows last_error only while an occurrence of it carries one. *)
THEOREM ErrorsHaveCauses == Spec => []ErrorHasCause
<1>1. ScheduleInv => ErrorHasCause
  BY DEF ScheduleInv
<1>2. QED
  BY <1>1, ScheduleInvHolds, PTL

(* Capturing steps the schedule past now by at most one interval, and a    *)
(* cadence of whole days keeps its local time across a shift of the zone,  *)
(* but for the hours the shift takes away or gives twice: what next_slot   *)
(* does for every interval, also one shorter than the shift, every day and *)
(* every shift.                                                            *)
THEOREM CadenceIsKept == Spec => CadenceHolds
<1>1. ASSUME ScheduleInv, NEW s \in Slots, \E w \in Workers : claim_due(w), sched.next = s,
             Due, sched.kind = "interval"
      PROVE  StepsRight(s, sched'.next, sched.interval)
  <2> DEFINE i == sched.interval
  <2>1. /\ s \in Nat /\ now \in Nat /\ s <= now
    BY <1>1, DueFacts
  <2>2. i \in Nat /\ i # 0
    BY <1>1, ScheduleConstants DEF ScheduleInv, CadenceIsWhole
  <2>3. sched'.next = next_slot(s, i)
    <3>1. sched' = [sched EXCEPT !.next = next_slot(@, sched.interval)]
      BY <1>1 DEF claim_due, Stepped
    <3>2. sched \in Schedule
      BY <1>1 DEF ScheduleInv, TypeOK
    <3>3. QED
      BY <1>1, <3>1, <3>2 DEF Schedule
  <2> HIDE DEF i
  <2>4. i % Day = 0 /\ (\A l \in Skipped : l % Day # local(s) % Day)
          => local(next_slot(s, i)) % Day = local(s) % Day
    BY <2>1, <2>2, LocalTimeKept
  <2>5. StepsRight(s, next_slot(s, i), i)
    BY <2>1, <2>2, <2>4, NextSlotFacts DEF StepsRight
  <2>6. QED
    BY <2>3, <2>5 DEF i
<1>2. ScheduleInv /\ [Next]_vars =>
        [\A s \in Slots :
           (\E w \in Workers : claim_due(w)) /\ sched.next = s /\ Due
              /\ sched.kind = "interval" =>
              StepsRight(s, sched'.next, sched.interval)]_vars
  BY <1>1
<1>3. QED
  BY <1>2, ScheduleInvHolds, PTL DEF CadenceHolds, Spec
=============================================================================
