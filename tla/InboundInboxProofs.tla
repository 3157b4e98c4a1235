------------------------- MODULE InboundInboxProofs -------------------------
(***************************************************************************)
(* Proofs about InboundInbox, for any mails, workers and SMTP sessions,    *)
(* any routing and any limits.                                             *)
(***************************************************************************)
EXTENDS InboundInbox, TLAPS

----------------------------------------------------------------------------
(* The invariant.                                                          *)

Leases == [exec : 0 .. MaxClaims, owner : Workers \cup {NoWorker}, live : BOOLEAN]

(* The attempts an event may still be claimed for.                         *)
Left(st, att) ==
    IF st \in is_claimable THEN MaxAttempts - att
    ELSE IF st = "processing" THEN MaxAttempts - att - 1 ELSE 0

(* StoredChecks of one row, with the budget in the form that is inductive: *)
(* the claims made and the attempts left fit the deliveries.               *)
Ledger(st, att, ls, mint, arr) ==
    /\ st = "processing" <=> ls.exec # 0
    /\ st \in is_claimable \cup {"processing"} => att < MaxAttempts
    /\ mint + Left(st, att) <= MaxAttempts * arr

LedgerOf(m) == Ledger(status[m], attempt[m], lease[m], minted[m], arrivals[m])

RowsOK ==
    /\ status \in [Mails -> InboundEventStatus \cup {"absent"}]
    /\ attempt \in [Mails -> 0 .. MaxAttempts]
    /\ lease \in [Mails -> Leases]
    /\ due \in [Mails -> BOOLEAN]
    /\ minted \in [Mails -> Nat]
    /\ arrivals \in [Mails -> 0 .. MaxArrivals]
    /\ \A m \in Mails : LedgerOf(m)

(* What is stored was admitted once, and was acceptable when it was stored.*)
Stored(m) ==
    /\ admissions[m] = IF message[m] = "none" THEN 0 ELSE 1
    /\ message[m] # "none" => <<m, storedAt[m]>> \in Accepts

StoreOK ==
    /\ message \in [Mails -> Hashes \cup {"none"}]
    /\ storedAt \in [Mails -> 0 .. MaxEdits]
    /\ admissions \in [Mails -> Nat]
    /\ revision \in 0 .. MaxEdits
    /\ bounces \subseteq Mails \X (0 .. MaxEdits)
    /\ \A m \in Mails : Stored(m)

(* A commit request names settings under which routing accepted its mail.  *)
TasksOK ==
    /\ phase \in [Workers -> [Mails -> Phases]]
    /\ exec \in [Workers -> [Mails -> 0 .. MaxClaims]]
    /\ plan \in [Workers -> [Mails -> Plans]]
    /\ \A w \in Workers : \A m \in Mails :
          phase[w][m] = "committing" => <<m, plan[w][m].revision>> \in Accepts

SessionsOK ==
    /\ session \in [Sessions -> [mail : Direct \cup {NoMail}, plan : Plans]]
    /\ \A s \in Sessions :
          session[s].mail # NoMail => <<session[s].mail, session[s].plan.revision>> \in Accepts

(* A 250 stands for a stored message or for a decision not to route.       *)
Kept(m, a) == a.code = "250" => message[m] # "none" \/ <<m, a.revision>> \in Drops

ToldOK ==
    /\ told \in [Mails -> SUBSET Answers]
    /\ \A m \in Mails : \A a \in told[m] : Kept(m, a)

(* MessageMovesWithEvent, and before the first delivery there is nothing.  *)
Moves(m) ==
    /\ arrivals[m] = 0 => status[m] = "absent" /\ message[m] = "none"
    /\ arrivals[m] = 1 /\ status[m] # "absent" =>
          (message[m] # "none" <=> status[m] = "completed")

MovesOK == \A m \in Mails \ Direct : Moves(m)

InboxInv == RowsOK /\ StoreOK /\ TasksOK /\ SessionsOK /\ ToldOK /\ MovesOK

----------------------------------------------------------------------------
(* The ledger of one row, under each write.                                *)

(* The constants' ranges.                                                  *)
LEMMA ConstantFacts ==
    /\ MaxAttempts \in Nat /\ MaxAttempts # 0 /\ MaxArrivals \in Nat /\ MaxEdits \in Nat
    /\ Direct \subseteq Mails /\ NoMail \notin Mails
    /\ Accepts \subseteq Mails \X (0 .. MaxEdits)
BY InboxAssumption

(* The budget grows by one row's attempts with each delivery, and never    *)
(* passes MaxClaims.                                                       *)
LEMMA BudgetFacts ==
    ASSUME NEW arr \in 0 .. MaxArrivals
    PROVE  /\ MaxAttempts * arr \in Nat /\ MaxClaims \in Nat
           /\ MaxAttempts * (arr + 1) = MaxAttempts * arr + MaxAttempts
           /\ MaxAttempts * arr <= MaxClaims
<1>1. /\ MaxAttempts \in Nat /\ arr \in Nat /\ MaxArrivals \in Nat /\ arr <= MaxArrivals
  BY ConstantFacts
<1>2. PICK k \in Nat : MaxArrivals = arr + k
  <2>1. MaxArrivals - arr \in Nat /\ MaxArrivals = arr + (MaxArrivals - arr)
    BY <1>1
  <2>2. QED
    BY <2>1
<1>3. /\ MaxAttempts * arr \in Nat /\ MaxAttempts * k \in Nat
      /\ MaxAttempts * (arr + k) = MaxAttempts * arr + MaxAttempts * k
  BY <1>1
<1>4. MaxClaims = MaxAttempts * arr + MaxAttempts * k
  BY <1>2, <1>3 DEF MaxClaims
<1>5. MaxAttempts * (arr + 1) = MaxAttempts * arr + MaxAttempts
  BY <1>1
<1>6. QED
  BY <1>3, <1>4, <1>5

(* The empty lease is a lease.                                             *)
LEMMA NoLeaseFacts == NoLease \in Leases /\ NoLease.exec = 0
<1>1. MaxClaims \in Nat
  BY ConstantFacts DEF MaxClaims
<1>2. QED
  BY <1>1 DEF NoLease, Leases

(* The statuses apart.                                                     *)
LEMMA StatusFacts ==
    /\ is_claimable = {"pending", "retryable"}
    /\ is_terminal = {"completed", "ignored", "dead_letter"}
    /\ \A n : failed_status(n) \in {"dead_letter", "retryable"}
    /\ \A n : failed_status(n) = "retryable" <=> ~(n + 1 >= MaxAttempts)
BY DEF is_claimable, is_terminal, failed_status

(* A delivery stores a row with all its attempts.                          *)
LEMMA StoredLedger ==
    ASSUME NEW att \in 0 .. MaxAttempts, NEW ls \in Leases, NEW mint \in Nat,
           NEW arr \in 0 .. MaxArrivals, Ledger("absent", att, ls, mint, arr)
    PROVE  Ledger("pending", 0, ls, mint, arr + 1)
<1>1. mint <= MaxAttempts * arr /\ ls.exec = 0
  BY StatusFacts, ConstantFacts DEF Ledger, Left
<1>2. mint + MaxAttempts <= MaxAttempts * (arr + 1)
  BY <1>1, BudgetFacts, ConstantFacts
<1>3. QED
  BY <1>1, <1>2, StatusFacts, ConstantFacts DEF Ledger, Left

(* A delivery over SMTP stores no row.                                     *)
LEMMA ArrivalLedger ==
    ASSUME NEW st, NEW att \in 0 .. MaxAttempts, NEW ls \in Leases, NEW mint \in Nat,
           NEW arr \in 0 .. MaxArrivals, Ledger(st, att, ls, mint, arr)
    PROVE  Ledger(st, att, ls, mint, arr + 1)
<1>1. Left(st, att) \in Int
  BY ConstantFacts DEF Left
<1>2. mint + Left(st, att) <= MaxAttempts * (arr + 1)
  BY <1>1, BudgetFacts, ConstantFacts DEF Ledger
<1>3. QED
  BY <1>2 DEF Ledger

(* A claim mints an execution from the attempts left.                      *)
LEMMA ClaimedLedger ==
    ASSUME NEW st \in is_claimable, NEW att \in 0 .. MaxAttempts, NEW ls \in Leases,
           NEW mint \in Nat, NEW arr \in 0 .. MaxArrivals, Ledger(st, att, ls, mint, arr),
           NEW new, new.exec = mint + 1
    PROVE  /\ Ledger("processing", att, new, mint + 1, arr)
           /\ mint + 1 \in 0 .. MaxClaims
<1>1. att < MaxAttempts /\ mint + (MaxAttempts - att) <= MaxAttempts * arr
  BY StatusFacts DEF Ledger, Left
<1>2. Left("processing", att) = MaxAttempts - att - 1
  BY StatusFacts DEF Left
<1>3. mint + 1 + Left("processing", att) <= MaxAttempts * arr
  BY <1>1, <1>2, BudgetFacts, ConstantFacts
<1>4. mint + 1 \in 0 .. MaxClaims
  BY <1>1, BudgetFacts, ConstantFacts
<1>5. QED
  BY <1>1, <1>3, <1>4 DEF Ledger

(* A failed attempt is charged once.                                       *)
LEMMA FailedLedger ==
    ASSUME NEW att \in 0 .. MaxAttempts, NEW ls \in Leases, NEW mint \in Nat,
           NEW arr \in 0 .. MaxArrivals, Ledger("processing", att, ls, mint, arr)
    PROVE  /\ Ledger(failed_status(att), att + 1, NoLease, mint, arr)
           /\ att + 1 \in 0 .. MaxAttempts
<1>1. att < MaxAttempts /\ mint + (MaxAttempts - att - 1) <= MaxAttempts * arr
  BY StatusFacts DEF Ledger, Left
<1>2. att + 1 \in 0 .. MaxAttempts
  BY <1>1, ConstantFacts
<1>3. CASE failed_status(att) = "retryable"
  <2>1. att + 1 < MaxAttempts
    BY <1>2, <1>3, StatusFacts, ConstantFacts
  <2>2. Left("retryable", att + 1) = MaxAttempts - (att + 1)
    BY StatusFacts DEF Left
  <2>3. mint + Left("retryable", att + 1) <= MaxAttempts * arr
    BY <1>1, <2>2, BudgetFacts, ConstantFacts
  <2>4. QED
    BY <1>2, <1>3, <2>1, <2>3, NoLeaseFacts DEF Ledger
<1>4. CASE failed_status(att) = "dead_letter"
  <2>1. Left("dead_letter", att + 1) = 0
    BY StatusFacts DEF Left
  <2>2. mint + Left("dead_letter", att + 1) <= MaxAttempts * arr
    BY <1>1, <2>1, BudgetFacts, ConstantFacts
  <2>3. QED
    BY <1>2, <1>4, <2>2, NoLeaseFacts, StatusFacts DEF Ledger
<1>5. QED
  BY <1>3, <1>4, StatusFacts

(* A row that ends, or is deleted after it ended, gives up what was left.  *)
LEMMA EndedLedger ==
    ASSUME NEW st \in is_terminal \cup {"processing"}, NEW end \in is_terminal \cup {"absent"},
           NEW att \in 0 .. MaxAttempts, NEW att2 \in 0 .. MaxAttempts, NEW ls \in Leases,
           NEW mint \in Nat, NEW arr \in 0 .. MaxArrivals, Ledger(st, att, ls, mint, arr),
           NEW new, new.exec = 0
    PROVE  Ledger(end, att2, new, mint, arr)
<1>1. mint + Left(st, att) <= MaxAttempts * arr /\ st = "processing" => att < MaxAttempts
  BY StatusFacts DEF Ledger
<1>2. Left(st, att) \in Nat
  BY <1>1, StatusFacts, ConstantFacts DEF Ledger, Left
<1>3. Left(end, att2) = 0
  BY StatusFacts DEF Left
<1>4. mint + Left(end, att2) <= MaxAttempts * arr
  BY <1>1, <1>2, <1>3, BudgetFacts, ConstantFacts DEF Ledger
<1>5. QED
  BY <1>4, StatusFacts DEF Ledger

(* The checks of the table, from the ledger.                               *)
LEMMA LedgerChecks ==
    ASSUME NEW st, NEW att \in 0 .. MaxAttempts, NEW ls \in Leases, NEW mint \in Nat,
           NEW arr \in 0 .. MaxArrivals, Ledger(st, att, ls, mint, arr)
    PROVE  /\ (st = "processing") = (ls.exec # 0)
           /\ st \in is_claimable \cup {"processing"} => att < MaxAttempts
           /\ mint <= MaxAttempts * arr /\ mint \in 0 .. MaxClaims
<1>1. Left(st, att) \in Nat
  BY StatusFacts, ConstantFacts DEF Ledger, Left
<1>2. mint <= MaxAttempts * arr /\ mint \in 0 .. MaxClaims
  BY <1>1, BudgetFacts, ConstantFacts DEF Ledger
<1>3. QED
  BY <1>2 DEF Ledger

----------------------------------------------------------------------------
(* The parts of the state that a step leaves.                              *)

(* A part whose variables do not change stays sound.                       *)
LEMMA Frames ==
    ASSUME InboxInv
    PROVE  /\ UNCHANGED <<rowVars, arrivals>> => RowsOK'
           /\ UNCHANGED <<storeVars, revision, bounces>> => StoreOK'
           /\ UNCHANGED workerVars => TasksOK'
           /\ UNCHANGED session => SessionsOK'
           /\ UNCHANGED <<told, message>> => ToldOK'
           /\ UNCHANGED <<status, arrivals, message>> => MovesOK'
<1>1. UNCHANGED <<rowVars, arrivals>> => RowsOK'
  BY DEF InboxInv, RowsOK, LedgerOf, rowVars
<1>2. UNCHANGED <<storeVars, revision, bounces>> => StoreOK'
  BY DEF InboxInv, StoreOK, Stored, storeVars
<1>3. UNCHANGED workerVars => TasksOK'
  BY DEF InboxInv, TasksOK, workerVars
<1>4. UNCHANGED session => SessionsOK'
  BY DEF InboxInv, SessionsOK
<1>5. UNCHANGED <<told, message>> => ToldOK'
  BY DEF InboxInv, ToldOK, Kept
<1>6. UNCHANGED <<status, arrivals, message>> => MovesOK'
  BY DEF InboxInv, MovesOK, Moves
<1>7. QED
  BY <1>1, <1>2, <1>3, <1>4, <1>5, <1>6

(* A task that ends, or goes on without a commit request.                  *)
LEMMA TaskFacts ==
    ASSUME TasksOK, NEW w \in Workers, NEW m \in Mails, NEW p \in Phases \ {"committing"},
           TaskEnds(w, m) \/ TaskGoesTo(w, m, p)
    PROVE  TasksOK'
<1>1. /\ phase \in [Workers -> [Mails -> Phases]] /\ exec \in [Workers -> [Mails -> 0 .. MaxClaims]]
      /\ plan \in [Workers -> [Mails -> Plans]]
  BY DEF TasksOK
<1>2. NoPlan \in Plans /\ 0 \in 0 .. MaxClaims /\ "none" \in Phases
  <2>1. MaxClaims \in Nat
    BY ConstantFacts DEF MaxClaims
  <2>2. QED
    BY <2>1, ConstantFacts DEF NoPlan, Plans, Hashes, Phases
<1>3. PICK q \in Phases \ {"committing"} : phase' = [phase EXCEPT ![w][m] = q]
  BY <1>2 DEF TaskEnds, TaskGoesTo
<1>4. phase' \in [Workers -> [Mails -> Phases]]
  BY <1>1, <1>3
<1>5. \A v \in Workers : \A n \in Mails :
         phase'[v][n] = "committing" => phase[v][n] = "committing" /\ ~(v = w /\ n = m)
  BY <1>1, <1>3
<1>6. /\ exec' \in [Workers -> [Mails -> 0 .. MaxClaims]]
      /\ plan' \in [Workers -> [Mails -> Plans]]
      /\ \A v \in Workers : \A n \in Mails : ~(v = w /\ n = m) => plan'[v][n] = plan[v][n]
  <2>1. CASE UNCHANGED <<exec, plan>>
    BY <1>1, <2>1
  <2>2. CASE exec' = [exec EXCEPT ![w][m] = 0] /\ plan' = [plan EXCEPT ![w][m] = NoPlan]
    <3>1. exec' \in [Workers -> [Mails -> 0 .. MaxClaims]]
      BY <1>1, <1>2, <2>2
    <3>2. /\ plan' \in [Workers -> [Mails -> Plans]]
          /\ \A v \in Workers : \A n \in Mails : ~(v = w /\ n = m) => plan'[v][n] = plan[v][n]
      BY <1>1, <1>2, <2>2
    <3>3. QED
      BY <3>1, <3>2
  <2>3. QED
    BY <2>1, <2>2 DEF TaskEnds, TaskGoesTo
<1>7. QED
  BY <1>4, <1>5, <1>6 DEF TasksOK

(* A step that only moves a task.                                          *)
LEMMA TaskStepFacts ==
    ASSUME InboxInv, TasksOK',
           UNCHANGED <<rowVars, arrivals, storeVars, revision, bounces, smtpVars>>
    PROVE  InboxInv'
<1>1. /\ UNCHANGED <<rowVars, arrivals>> /\ UNCHANGED <<storeVars, revision, bounces>>
      /\ UNCHANGED session /\ UNCHANGED <<told, message>> /\ UNCHANGED <<status, arrivals, message>>
  BY DEF rowVars, storeVars, smtpVars
<1>2. QED
  BY <1>1, Frames DEF InboxInv

(* Writing one row.                                                        *)
LEMMA RowWrite ==
    ASSUME RowsOK, NEW m \in Mails,
           status' \in [Mails -> InboundEventStatus \cup {"absent"}],
           attempt' \in [Mails -> 0 .. MaxAttempts], lease' \in [Mails -> Leases],
           due' \in [Mails -> BOOLEAN], minted' \in [Mails -> Nat],
           arrivals' \in [Mails -> 0 .. MaxArrivals],
           \A n \in Mails : n # m =>
               /\ status'[n] = status[n] /\ attempt'[n] = attempt[n] /\ lease'[n] = lease[n]
               /\ minted'[n] = minted[n] /\ arrivals'[n] = arrivals[n],
           Ledger(status'[m], attempt'[m], lease'[m], minted'[m], arrivals'[m])
    PROVE  RowsOK'
<1>1. ASSUME NEW n \in Mails PROVE LedgerOf(n)'
  <2>1. LedgerOf(n)
    BY DEF RowsOK
  <2>2. CASE n = m
    BY <2>2 DEF LedgerOf
  <2>3. CASE n # m
    BY <2>1, <2>3 DEF LedgerOf
  <2>4. QED
    BY <2>2, <2>3
<1>2. QED
  BY <1>1 DEF RowsOK

----------------------------------------------------------------------------
(* The steps.                                                              *)

(* A webhook delivery.                                                     *)
LEMMA WebhookStep ==
    ASSUME InboxInv, NEW m \in Mails, resend_api_inbound_webhook(m)
    PROVE  InboxInv'
<1>1. /\ m \notin Direct /\ arrivals[m] < MaxArrivals /\ status[m] = "absent"
      /\ arrivals' = [arrivals EXCEPT ![m] = @ + 1]
      /\ status' = [status EXCEPT ![m] = "pending"]
      /\ attempt' = [attempt EXCEPT ![m] = 0]
      /\ due' = [due EXCEPT ![m] = TRUE]
      /\ UNCHANGED <<lease, minted>>
      /\ UNCHANGED <<storeVars, revision, bounces, workerVars, smtpVars>>
  BY DEF resend_api_inbound_webhook, store_authenticated
<1>2. RowsOK /\ LedgerOf(m) /\ MovesOK /\ Moves(m)
  BY <1>1 DEF InboxInv, RowsOK, MovesOK
<1>3. /\ status'[m] = "pending" /\ attempt'[m] = 0 /\ arrivals'[m] = arrivals[m] + 1
      /\ lease'[m] = lease[m] /\ minted'[m] = minted[m]
      /\ \A n \in Mails : n # m =>
           /\ status'[n] = status[n] /\ attempt'[n] = attempt[n] /\ lease'[n] = lease[n]
           /\ minted'[n] = minted[n] /\ arrivals'[n] = arrivals[n]
  BY <1>1, <1>2 DEF RowsOK
<1>4. /\ status' \in [Mails -> InboundEventStatus \cup {"absent"}]
      /\ attempt' \in [Mails -> 0 .. MaxAttempts] /\ lease' \in [Mails -> Leases]
      /\ due' \in [Mails -> BOOLEAN] /\ minted' \in [Mails -> Nat]
  BY <1>1, <1>2, ConstantFacts DEF RowsOK, InboundEventStatus
<1>5. arrivals' \in [Mails -> 0 .. MaxArrivals]
  <2>1. arrivals[m] + 1 \in 0 .. MaxArrivals
    BY <1>1, <1>2, ConstantFacts DEF RowsOK
  <2>2. QED
    BY <1>1, <1>2, <2>1 DEF RowsOK
<1>6. Ledger("pending", 0, lease[m], minted[m], arrivals[m] + 1)
  BY <1>1, <1>2, StoredLedger DEF RowsOK, LedgerOf
<1>7. RowsOK'
  BY <1>2, <1>3, <1>4, <1>5, <1>6, RowWrite
<1>8. MovesOK'
  <2>1. message' = message /\ arrivals[m] \in Nat
    BY <1>1, <1>2, ConstantFacts DEF storeVars, RowsOK
  <2>2. Moves(m)'
    BY <1>2, <1>3, <2>1 DEF Moves
  <2>3. QED
    BY <1>2, <1>3, <2>1, <2>2 DEF MovesOK, Moves
<1>9. QED
  BY <1>1, <1>7, <1>8, Frames DEF InboxInv, smtpVars, storeVars

(* A claim of a batch.                                                     *)
LEMMA ClaimStep ==
    ASSUME InboxInv, NEW w \in Workers, NEW S \in SUBSET Mails, claim_inbound_events(w, S)
    PROVE  InboxInv'
<1>1. /\ \A m \in S : status[m] \in is_claimable
      /\ status' = [m \in Mails |-> IF m \in S THEN "processing" ELSE status[m]]
      /\ minted' = [m \in Mails |-> IF m \in S THEN minted[m] + 1 ELSE minted[m]]
      /\ lease' = [m \in Mails |->
                      IF m \in S THEN [exec |-> minted[m] + 1, owner |-> w, live |-> TRUE]
                      ELSE lease[m]]
      /\ UNCHANGED <<attempt, due, arrivals, storeVars, revision, bounces, plan, smtpVars>>
  BY DEF claim_inbound_events
<1>2. RowsOK /\ TasksOK /\ MovesOK
  BY DEF InboxInv
<1>3. ASSUME NEW m \in S
      PROVE  /\ Ledger("processing", attempt[m], lease'[m], minted[m] + 1, arrivals[m])
             /\ minted[m] + 1 \in 0 .. MaxClaims
  <2>1. LedgerOf(m) /\ status[m] \in is_claimable
    BY <1>1, <1>2 DEF RowsOK
  <2>2. lease'[m].exec = minted[m] + 1
    BY <1>1
  <2>3. /\ attempt[m] \in 0 .. MaxAttempts /\ lease[m] \in Leases /\ minted[m] \in Nat
        /\ arrivals[m] \in 0 .. MaxArrivals
    BY <1>2 DEF RowsOK
  <2>4. QED
    BY <2>1, <2>2, <2>3, ClaimedLedger DEF LedgerOf
<1>4. RowsOK'
  <2>1. status' \in [Mails -> InboundEventStatus \cup {"absent"}] /\ minted' \in [Mails -> Nat]
    BY <1>1, <1>2 DEF RowsOK, InboundEventStatus
  <2>2. lease' \in [Mails -> Leases]
    BY <1>1, <1>2, <1>3 DEF RowsOK, Leases
  <2>3. ASSUME NEW m \in Mails PROVE LedgerOf(m)'
    <3>1. CASE m \in S
      BY <1>1, <1>3, <3>1 DEF LedgerOf
    <3>2. CASE m \notin S
      BY <1>1, <1>2, <3>2 DEF LedgerOf, RowsOK
    <3>3. QED
      BY <3>1, <3>2
  <2>4. QED
    BY <1>1, <1>2, <2>1, <2>2, <2>3 DEF RowsOK
<1>5. TasksOK'
  <2>1. CASE UNCHANGED <<phase, exec>>
    BY <1>1, <1>2, <2>1 DEF TasksOK
  <2>2. CASE /\ phase' = [phase EXCEPT ![w] =
                             [m \in Mails |-> IF m \in S THEN "waiting" ELSE "none"]]
             /\ exec' = [exec EXCEPT ![w] =
                            [m \in Mails |-> IF m \in S THEN minted[m] + 1 ELSE 0]]
    <3>1. \A m \in Mails : (IF m \in S THEN minted[m] + 1 ELSE 0) \in 0 .. MaxClaims
      BY <1>3, ConstantFacts DEF MaxClaims
    <3>2. exec' \in [Workers -> [Mails -> 0 .. MaxClaims]]
      BY <1>2, <2>2, <3>1 DEF TasksOK
    <3>3. phase' \in [Workers -> [Mails -> Phases]]
      BY <1>2, <2>2 DEF TasksOK, Phases
    <3>4. \A v \in Workers : \A n \in Mails :
             phase'[v][n] = "committing" => phase[v][n] = "committing"
      BY <1>2, <2>2 DEF TasksOK
    <3>5. QED
      BY <1>1, <1>2, <3>2, <3>3, <3>4 DEF TasksOK
  <2>3. QED
    BY <2>1, <2>2 DEF claim_inbound_events
<1>6. MovesOK'
  <2>1. message' = message /\ arrivals' = arrivals
    BY <1>1 DEF storeVars
  <2>2. ASSUME NEW m \in Mails \ Direct PROVE Moves(m)'
    <3>1. Moves(m)
      BY <1>2 DEF MovesOK
    <3>2. CASE m \in S
      BY <1>1, <2>1, <3>1, <3>2, StatusFacts DEF Moves
    <3>3. CASE m \notin S
      BY <1>1, <2>1, <3>1, <3>3 DEF Moves
    <3>4. QED
      BY <3>2, <3>3
  <2>3. QED
    BY <2>2 DEF MovesOK
<1>7. QED
  BY <1>1, <1>4, <1>5, <1>6, Frames DEF InboxInv, smtpVars, storeVars

(* What routing accepts becomes a commit request it accepted.              *)
LEMMA PersistFacts ==
    ASSUME StoreOK, NEW m \in Mails, NEW p \in persist(m)
    PROVE  p \in Plans /\ p.revision = revision
<1>1. PICK h \in Hashes : p = [revision |-> revision, hash |-> h]
  BY DEF persist, Hashes
<1>2. QED
  BY <1>1 DEF Plans, StoreOK

(* Decoding: a bounce may be queued, a commit request built.               *)
LEMMA DecodeStep ==
    ASSUME InboxInv, NEW w \in Workers, NEW m \in Mails, decode(w, m)
    PROVE  InboxInv'
<1>1. UNCHANGED <<rowVars, arrivals, storeVars, revision, smtpVars>>
  BY DEF decode
<1>2. StoreOK /\ TasksOK
  BY DEF InboxInv
<1>3. StoreOK'
  <2>1. bounces' \in {bounces, bounces \cup {<<m, revision>>}}
    BY DEF decode, handle_bounce_dispatch
  <2>2. bounces' \subseteq Mails \X (0 .. MaxEdits)
    BY <1>2, <2>1 DEF StoreOK
  <2>3. QED
    BY <1>1, <1>2, <2>2 DEF StoreOK, Stored, storeVars
<1>4. TasksOK'
  <2>1. CASE \E p \in {"ignore", "retry", "terminal"} : TaskGoesTo(w, m, p)
    <3>1. PICK p \in {"ignore", "retry", "terminal"} : TaskGoesTo(w, m, p)
      BY <2>1
    <3>2. p \in Phases \ {"committing"}
      BY DEF Phases, Running
    <3>3. QED
      BY <1>2, <3>1, <3>2, TaskFacts
  <2>2. ASSUME preflight_inbound(m), NEW p \in persist(m), plan' = [plan EXCEPT ![w][m] = p],
               phase' = [phase EXCEPT ![w][m] = "committing"], exec' = exec
        PROVE  TasksOK'
    <3>1. p \in Plans /\ <<m, p.revision>> \in Accepts
      BY <1>2, <2>2, PersistFacts DEF preflight_inbound
    <3>2. /\ phase \in [Workers -> [Mails -> Phases]] /\ plan \in [Workers -> [Mails -> Plans]]
          /\ "committing" \in Phases
      BY <1>2 DEF TasksOK, Phases, Running
    <3>3. /\ plan' \in [Workers -> [Mails -> Plans]] /\ plan'[w][m] = p
          /\ \A v \in Workers : \A n \in Mails : ~(v = w /\ n = m) => plan'[v][n] = plan[v][n]
      BY <2>2, <3>1, <3>2
    <3>4. /\ phase' \in [Workers -> [Mails -> Phases]]
          /\ \A v \in Workers : \A n \in Mails : ~(v = w /\ n = m) => phase'[v][n] = phase[v][n]
      BY <2>2, <3>2
    <3>5. exec' \in [Workers -> [Mails -> 0 .. MaxClaims]]
      BY <1>2, <2>2 DEF TasksOK
    <3>6. ASSUME NEW v \in Workers, NEW n \in Mails, phase'[v][n] = "committing"
          PROVE  <<n, plan'[v][n].revision>> \in Accepts
      <4>1. CASE v = w /\ n = m
        BY <3>1, <3>3, <4>1
      <4>2. CASE ~(v = w /\ n = m)
        BY <1>2, <3>3, <3>4, <3>6, <4>2 DEF TasksOK
      <4>3. QED
        BY <4>1, <4>2
    <3>7. QED
      BY <3>3, <3>4, <3>5, <3>6 DEF TasksOK
  <2>3. QED
    BY <2>1, <2>2 DEF decode
<1>5. QED
  BY <1>1, <1>3, <1>4, Frames DEF InboxInv, smtpVars, storeVars, rowVars

(* The commit of a request that routing accepted: the message is there     *)
(* afterwards, admitted once, and acceptable when it was stored.           *)
LEMMA CommitFacts ==
    ASSUME StoreOK, NEW m \in Mails, NEW p \in Plans, <<m, p.revision>> \in Accepts,
           commit_on(m, p), UNCHANGED <<revision, bounces>>
    PROVE  /\ StoreOK' /\ message'[m] # "none"
           /\ \A n \in Mails : n # m => message'[n] = message[n]
           /\ \A n \in Mails : message[n] # "none" => message'[n] # "none"
<1>1. p.revision = revision
  BY DEF commit_on, verify_channel_settings
<1>2. CASE existing_message(m)
  <2>1. UNCHANGED storeVars /\ message[m] # "none"
    BY <1>2 DEF commit_on, existing_message
  <2>2. QED
    BY <2>1 DEF StoreOK, Stored, storeVars
<1>3. CASE ~existing_message(m)
  <2>1. /\ message' = [message EXCEPT ![m] = p.hash]
        /\ storedAt' = [storedAt EXCEPT ![m] = revision]
        /\ admissions' = [admissions EXCEPT ![m] = @ + 1]
        /\ message[m] = "none"
    BY <1>3 DEF commit_on, store_canonical, existing_message
  <2>2. p.hash \in Hashes /\ p.hash # "none" /\ revision \in 0 .. MaxEdits
    BY DEF Plans, Hashes, StoreOK
  <2>3. admissions[m] = 0
    BY <2>1 DEF StoreOK, Stored
  <2>4. /\ message' \in [Mails -> Hashes \cup {"none"}] /\ message'[m] = p.hash
        /\ \A n \in Mails : n # m => message'[n] = message[n]
    BY <2>1, <2>2 DEF StoreOK
  <2>5. /\ storedAt' \in [Mails -> 0 .. MaxEdits] /\ storedAt'[m] = revision
        /\ \A n \in Mails : n # m => storedAt'[n] = storedAt[n]
    BY <2>1, <2>2 DEF StoreOK
  <2>6. /\ admissions' \in [Mails -> Nat] /\ admissions'[m] = 1
        /\ \A n \in Mails : n # m => admissions'[n] = admissions[n]
    BY <2>1, <2>3 DEF StoreOK
  <2>7. ASSUME NEW n \in Mails PROVE Stored(n)'
    <3>1. CASE n = m
      BY <1>1, <2>2, <2>4, <2>5, <2>6, <3>1 DEF Stored
    <3>2. CASE n # m
      BY <2>4, <2>5, <2>6, <3>2 DEF Stored, StoreOK
    <3>3. QED
      BY <3>1, <3>2
  <2>8. StoreOK'
    BY <2>4, <2>5, <2>6, <2>7 DEF StoreOK
  <2>9. QED
    BY <2>2, <2>4, <2>8
<1>4. QED
  BY <1>2, <1>3

(* A row its execution owns is settled for good.                           *)
LEMMA OwnedRowEnds ==
    ASSUME InboxInv, NEW m \in Mails, status[m] = "processing", NEW end \in is_terminal,
           status' = [status EXCEPT ![m] = end], lease' = [lease EXCEPT ![m] = NoLease],
           NEW n \in 0 .. MaxAttempts, attempt' = [attempt EXCEPT ![m] = n],
           UNCHANGED <<due, minted, arrivals>>
    PROVE  RowsOK'
<1>1. RowsOK /\ LedgerOf(m) /\ end \in InboundEventStatus
  BY StatusFacts DEF InboxInv, RowsOK, InboundEventStatus
<1>2. /\ status'[m] = end /\ attempt'[m] = n /\ lease'[m] = NoLease
      /\ arrivals'[m] = arrivals[m] /\ minted'[m] = minted[m]
      /\ \A k \in Mails : k # m =>
           /\ status'[k] = status[k] /\ attempt'[k] = attempt[k] /\ lease'[k] = lease[k]
           /\ minted'[k] = minted[k] /\ arrivals'[k] = arrivals[k]
  BY <1>1 DEF RowsOK
<1>3. /\ status' \in [Mails -> InboundEventStatus \cup {"absent"}]
      /\ attempt' \in [Mails -> 0 .. MaxAttempts]
      /\ due' \in [Mails -> BOOLEAN] /\ minted' \in [Mails -> Nat]
      /\ arrivals' \in [Mails -> 0 .. MaxArrivals]
  BY <1>1 DEF RowsOK
<1>4. lease' \in [Mails -> Leases]
  BY <1>1, NoLeaseFacts DEF RowsOK
<1>5. Ledger(end, n, NoLease, minted[m], arrivals[m])
  <2>1. /\ Ledger("processing", attempt[m], lease[m], minted[m], arrivals[m])
        /\ attempt[m] \in 0 .. MaxAttempts /\ lease[m] \in Leases /\ minted[m] \in Nat
        /\ arrivals[m] \in 0 .. MaxArrivals
    BY <1>1 DEF RowsOK, LedgerOf
  <2>2. QED
    BY <2>1, NoLeaseFacts, EndedLedger
<1>6. QED
  BY <1>1, <1>2, <1>3, <1>4, <1>5, RowWrite

(* The commit with the completion of its event.                            *)
LEMMA CommitStep ==
    ASSUME InboxInv, NEW w \in Workers, NEW m \in Mails, commit_inbound(w, m)
    PROVE  InboxInv'
<1>1. UNCHANGED <<arrivals, revision, bounces, smtpVars>> /\ phase[w][m] = "committing"
  BY DEF commit_inbound
<1>2. StoreOK /\ TasksOK /\ RowsOK /\ ToldOK /\ MovesOK
  BY DEF InboxInv
<1>3. "landed" \in Phases \ {"committing"} /\ "retry" \in Phases \ {"committing"}
      /\ "terminal" \in Phases \ {"committing"}
  BY DEF Phases, Running
<1>4. CASE UNCHANGED <<rowVars, storeVars>> /\ (TaskGoesTo(w, m, "retry") \/ TaskGoesTo(w, m, "terminal"))
  <2>1. TasksOK'
    BY <1>2, <1>3, <1>4, TaskFacts
  <2>2. QED
    BY <1>1, <1>4, <2>1, TaskStepFacts
<1>5. CASE /\ complete_claimed_event(w, m) /\ commit_on(m, plan[w][m])
           /\ complete_inbound_event_on(w, m) /\ TaskGoesTo(w, m, "landed")
           /\ UNCHANGED <<attempt, due, minted>>
  <2>1. /\ status[m] = "processing" /\ status' = [status EXCEPT ![m] = "completed"]
        /\ lease' = [lease EXCEPT ![m] = NoLease]
    BY <1>5 DEF complete_claimed_event, complete_inbound_event_on, owns_row
  <2>2. TasksOK'
    BY <1>2, <1>3, <1>5, TaskFacts
  <2>3. RowsOK'
    <3>1. attempt[m] \in 0 .. MaxAttempts /\ attempt' = [attempt EXCEPT ![m] = attempt[m]]
      BY <1>2, <1>5 DEF RowsOK
    <3>2. "completed" \in is_terminal
      BY StatusFacts
    <3>3. QED
      BY <1>1, <1>5, <2>1, <3>1, <3>2, OwnedRowEnds
  <2>4. /\ StoreOK' /\ message'[m] # "none"
        /\ \A n \in Mails : n # m => message'[n] = message[n]
        /\ \A n \in Mails : message[n] # "none" => message'[n] # "none"
    <3>1. plan[w][m] \in Plans /\ <<m, plan[w][m].revision>> \in Accepts
      BY <1>1, <1>2 DEF TasksOK
    <3>2. QED
      BY <1>1, <1>2, <1>5, <3>1, CommitFacts
  <2>5. ToldOK' /\ SessionsOK'
    BY <1>1, <1>2, <2>4, Frames DEF ToldOK, Kept, smtpVars
  <2>6. MovesOK'
    <3>1. status'[m] = "completed" /\ \A n \in Mails : n # m => status'[n] = status[n]
      BY <1>2, <2>1 DEF RowsOK
    <3>2. ASSUME NEW n \in Mails \ Direct PROVE Moves(n)'
      <4>1. Moves(n)
        BY <1>2 DEF MovesOK
      <4>2. CASE n = m
        BY <1>1, <2>1, <2>4, <3>1, <4>1, <4>2 DEF Moves
      <4>3. CASE n # m
        BY <1>1, <2>4, <3>1, <4>1, <4>3 DEF Moves
      <4>4. QED
        BY <4>2, <4>3
    <3>3. QED
      BY <3>2 DEF MovesOK
  <2>7. QED
    BY <2>2, <2>3, <2>4, <2>5, <2>6 DEF InboxInv
<1>6. QED
  BY <1>4, <1>5 DEF commit_inbound

(* An event that had no message keeps none while its row moves on.         *)
LEMMA MovesAside ==
    ASSUME InboxInv, message' = message, arrivals' = arrivals,
           \A m \in Mails : \/ status'[m] = status[m]
                            \/ /\ status[m] = "processing"
                               /\ status'[m] \in {"ignored", "retryable", "dead_letter"}
                            \/ status[m] \in is_terminal /\ status'[m] = "absent"
    PROVE  MovesOK'
<1>1. ASSUME NEW m \in Mails \ Direct PROVE Moves(m)'
  <2>1. Moves(m)
    BY DEF InboxInv, MovesOK
  <2>2. QED
    BY <2>1, StatusFacts DEF Moves
<1>2. QED
  BY <1>1 DEF MovesOK

(* The fenced settlement.                                                  *)
LEMMA SettleStep ==
    ASSUME InboxInv, NEW w \in Workers, NEW m \in Mails, settle(w, m)
    PROVE  InboxInv'
<1>1. TaskEnds(w, m) /\ UNCHANGED <<minted, arrivals, storeVars, revision, bounces, smtpVars>>
  BY DEF settle
<1>2. TasksOK'
  <2>1. "retry" \in Phases \ {"committing"} /\ TasksOK
    BY DEF Phases, Running, InboxInv
  <2>2. QED
    BY <1>1, <2>1, TaskFacts
<1>3. CASE UNCHANGED <<status, attempt, lease, due>>
  BY <1>1, <1>2, <1>3, TaskStepFacts DEF rowVars
<1>4. CASE /\ live_fence(w, m) /\ lease' = [lease EXCEPT ![m] = NoLease]
           /\ \/ /\ status' = [status EXCEPT ![m] = "ignored"]
                 /\ UNCHANGED <<attempt, due>>
              \/ /\ status' = [status EXCEPT ![m] = failed_status(attempt[m])]
                 /\ attempt' = [attempt EXCEPT ![m] = @ + 1]
                 /\ due' = [due EXCEPT ![m] = FALSE]
              \/ /\ status' = [status EXCEPT ![m] = "dead_letter"]
                 /\ attempt' = [attempt EXCEPT ![m] = Least(@ + 1, MaxAttempts)]
                 /\ UNCHANGED due
  <2>1. status[m] = "processing" /\ RowsOK /\ LedgerOf(m)
    BY <1>4 DEF live_fence, owns_row, InboxInv, RowsOK
  <2>2. /\ attempt[m] \in 0 .. MaxAttempts /\ lease[m] \in Leases /\ minted[m] \in Nat
        /\ arrivals[m] \in 0 .. MaxArrivals
        /\ Ledger("processing", attempt[m], lease[m], minted[m], arrivals[m])
    BY <2>1 DEF RowsOK, LedgerOf
  <2>3. /\ status' = [status EXCEPT ![m] = status'[m]]
        /\ status'[m] \in {"ignored", "retryable", "dead_letter"}
        /\ \A n \in Mails : n # m => status'[n] = status[n]
    BY <1>4, <2>1, StatusFacts DEF RowsOK
  <2>4. RowsOK'
    <3>1. CASE /\ status' = [status EXCEPT ![m] = "ignored"]
               /\ UNCHANGED <<attempt, due>>
      <4>1. attempt' = [attempt EXCEPT ![m] = attempt[m]] /\ "ignored" \in is_terminal
        BY <2>1, <3>1, StatusFacts DEF RowsOK
      <4>2. QED
        BY <1>1, <1>4, <2>1, <2>2, <3>1, <4>1, OwnedRowEnds
    <3>2. CASE /\ status' = [status EXCEPT ![m] = "dead_letter"]
               /\ attempt' = [attempt EXCEPT ![m] = Least(@ + 1, MaxAttempts)]
               /\ UNCHANGED due
      <4>1. Least(attempt[m] + 1, MaxAttempts) \in 0 .. MaxAttempts
        BY <2>2, ConstantFacts DEF Least
      <4>2. /\ attempt' = [attempt EXCEPT ![m] = Least(attempt[m] + 1, MaxAttempts)]
            /\ "dead_letter" \in is_terminal
        BY <2>1, <3>2, StatusFacts DEF RowsOK
      <4>3. QED
        BY <1>1, <1>4, <2>1, <3>2, <4>1, <4>2, OwnedRowEnds
    <3>3. CASE /\ status' = [status EXCEPT ![m] = failed_status(attempt[m])]
               /\ attempt' = [attempt EXCEPT ![m] = @ + 1]
               /\ due' = [due EXCEPT ![m] = FALSE]
      <4>1. /\ Ledger(failed_status(attempt[m]), attempt[m] + 1, NoLease, minted[m], arrivals[m])
            /\ attempt[m] + 1 \in 0 .. MaxAttempts
        BY <2>2, FailedLedger
      <4>2. failed_status(attempt[m]) \in InboundEventStatus
        BY StatusFacts DEF InboundEventStatus
      <4>3. /\ status' \in [Mails -> InboundEventStatus \cup {"absent"}]
            /\ status'[m] = failed_status(attempt[m])
        BY <2>1, <3>3, <4>2 DEF RowsOK
      <4>4. /\ attempt' \in [Mails -> 0 .. MaxAttempts] /\ attempt'[m] = attempt[m] + 1
            /\ \A n \in Mails : n # m => attempt'[n] = attempt[n]
        BY <2>1, <3>3, <4>1 DEF RowsOK
      <4>5. /\ lease' \in [Mails -> Leases] /\ lease'[m] = NoLease
            /\ \A n \in Mails : n # m => lease'[n] = lease[n]
        BY <1>4, <2>1, NoLeaseFacts DEF RowsOK
      <4>6. /\ due' \in [Mails -> BOOLEAN] /\ minted' \in [Mails -> Nat]
            /\ arrivals' \in [Mails -> 0 .. MaxArrivals]
            /\ minted' = minted /\ arrivals' = arrivals
        BY <1>1, <2>1, <3>3 DEF RowsOK
      <4>7. QED
        BY <2>1, <2>3, <4>1, <4>3, <4>4, <4>5, <4>6, RowWrite
    <3>4. QED
      BY <1>4, <3>1, <3>2, <3>3
  <2>5. MovesOK'
    BY <1>1, <2>1, <2>3, MovesAside DEF storeVars
  <2>6. QED
    BY <1>1, <1>2, <2>4, <2>5, Frames DEF InboxInv, storeVars, smtpVars
<1>5. QED
  BY <1>3, <1>4 DEF settle

(* The steps that only move a task: it starts, its commit is answered, its *)
(* supervisor drops it, or it panics.                                      *)
LEMMA SimpleTaskStep ==
    ASSUME InboxInv, NEW w \in Workers, NEW m \in Mails,
           \/ process_claimed(w, m) \/ commit_answers(w, m)
           \/ supervise_event_lease(w, m) \/ TaskPanics(w, m)
    PROVE  InboxInv'
<1>1. UNCHANGED <<rowVars, arrivals, storeVars, revision, bounces, smtpVars>>
  BY DEF process_claimed, commit_answers, supervise_event_lease, TaskPanics
<1>2. TasksOK /\ {"decoding", "retry", "panicked"} \subseteq Phases \ {"committing"}
  BY DEF InboxInv, Phases, Running
<1>3. PICK p \in {"decoding", "retry", "panicked"} : TaskEnds(w, m) \/ TaskGoesTo(w, m, p)
  BY DEF process_claimed, commit_answers, supervise_event_lease, TaskPanics
<1>4. TasksOK'
  BY <1>2, <1>3, TaskFacts
<1>5. QED
  BY <1>1, <1>4, TaskStepFacts

(* A batch ends: its worker knows nothing of any event.                    *)
LEMMA BatchStep ==
    ASSUME InboxInv, NEW w \in Workers, BatchEnds(w)
    PROVE  InboxInv'
<1>1. /\ phase' = [phase EXCEPT ![w] = [m \in Mails |-> "none"]]
      /\ exec' = [exec EXCEPT ![w] = [m \in Mails |-> 0]]
      /\ plan' = [plan EXCEPT ![w] = [m \in Mails |-> NoPlan]]
      /\ UNCHANGED <<rowVars, arrivals, storeVars, revision, bounces, smtpVars>>
  BY DEF BatchEnds
<1>2. NoPlan \in Plans /\ 0 \in 0 .. MaxClaims /\ "none" \in Phases
  <2>1. MaxClaims \in Nat
    BY ConstantFacts DEF MaxClaims
  <2>2. QED
    BY <2>1, ConstantFacts DEF NoPlan, Plans, Hashes, Phases
<1>3. TasksOK
  BY DEF InboxInv
<1>4. /\ phase' \in [Workers -> [Mails -> Phases]]
      /\ \A v \in Workers : \A n \in Mails :
           phase'[v][n] = "committing" => v # w /\ phase[v][n] = "committing"
  BY <1>1, <1>2, <1>3 DEF TasksOK
<1>5. exec' \in [Workers -> [Mails -> 0 .. MaxClaims]]
  BY <1>1, <1>2, <1>3 DEF TasksOK
<1>6. /\ plan' \in [Workers -> [Mails -> Plans]]
      /\ \A v \in Workers : v # w => plan'[v] = plan[v]
  BY <1>1, <1>2, <1>3 DEF TasksOK
<1>7. TasksOK'
  BY <1>3, <1>4, <1>5, <1>6 DEF TasksOK
<1>8. QED
  BY <1>1, <1>7, TaskStepFacts

(* A lease lapses.                                                         *)
LEMMA LapseStep ==
    ASSUME InboxInv, NEW m \in Mails, LeaseLapses(m)
    PROVE  InboxInv'
<1>1. /\ lease' = [lease EXCEPT ![m].live = FALSE]
      /\ UNCHANGED <<status, attempt, due, minted, arrivals, storeVars, revision, bounces,
                     workerVars, smtpVars>>
  BY DEF LeaseLapses
<1>2. RowsOK /\ LedgerOf(m) /\ lease[m] \in Leases
  BY DEF InboxInv, RowsOK
<1>3. /\ lease' \in [Mails -> Leases] /\ lease'[m].exec = lease[m].exec
      /\ \A n \in Mails : n # m => lease'[n] = lease[n]
  BY <1>1, <1>2 DEF RowsOK, Leases
<1>4. Ledger(status[m], attempt[m], lease'[m], minted[m], arrivals[m])
  BY <1>2, <1>3 DEF LedgerOf, Ledger
<1>5. RowsOK'
  BY <1>1, <1>2, <1>3, <1>4, RowWrite DEF RowsOK
<1>6. QED
  BY <1>1, <1>5, Frames DEF InboxInv, storeVars, smtpVars

(* A backoff elapses.                                                      *)
LEMMA BackoffStep ==
    ASSUME InboxInv, NEW m \in Mails, BackoffElapses(m)
    PROVE  InboxInv'
<1>1. /\ due' = [due EXCEPT ![m] = TRUE]
      /\ UNCHANGED <<status, attempt, lease, minted, arrivals, storeVars, revision, bounces,
                     workerVars, smtpVars>>
  BY DEF BackoffElapses
<1>2. RowsOK'
  BY <1>1 DEF InboxInv, RowsOK, LedgerOf
<1>3. QED
  BY <1>1, <1>2, Frames DEF InboxInv, storeVars, smtpVars

(* The sweep charges every lapsed lease one attempt.                       *)
LEMMA ReapStep ==
    ASSUME InboxInv, NEW w \in Workers, reap_expired_inbound_events(w)
    PROVE  InboxInv'
<1>1. /\ status' = [m \in Mails |-> IF Expired(m) THEN failed_status(attempt[m]) ELSE status[m]]
      /\ attempt' = [m \in Mails |-> IF Expired(m) THEN attempt[m] + 1 ELSE attempt[m]]
      /\ due' = [m \in Mails |-> due[m] /\ ~Expired(m)]
      /\ lease' = [m \in Mails |-> IF Expired(m) THEN NoLease ELSE lease[m]]
      /\ UNCHANGED <<minted, arrivals, storeVars, revision, bounces, workerVars, smtpVars>>
  BY DEF reap_expired_inbound_events
<1>2. RowsOK
  BY DEF InboxInv
<1>3. ASSUME NEW m \in Mails
      PROVE  /\ status'[m] \in InboundEventStatus \cup {"absent"}
             /\ attempt'[m] \in 0 .. MaxAttempts /\ lease'[m] \in Leases
             /\ LedgerOf(m)'
             /\ \/ status'[m] = status[m]
                \/ status[m] = "processing" /\ status'[m] \in {"ignored", "retryable", "dead_letter"}
  <2>1. /\ attempt[m] \in 0 .. MaxAttempts /\ lease[m] \in Leases /\ minted[m] \in Nat
        /\ arrivals[m] \in 0 .. MaxArrivals /\ status[m] \in InboundEventStatus \cup {"absent"}
        /\ LedgerOf(m) /\ minted' = minted /\ arrivals' = arrivals
    BY <1>1, <1>2 DEF RowsOK
  <2>2. CASE Expired(m)
    <3>1. /\ status[m] = "processing" /\ status'[m] = failed_status(attempt[m])
          /\ attempt'[m] = attempt[m] + 1 /\ lease'[m] = NoLease
      BY <1>1, <2>2 DEF Expired
    <3>2. /\ Ledger(failed_status(attempt[m]), attempt[m] + 1, NoLease, minted[m], arrivals[m])
          /\ attempt[m] + 1 \in 0 .. MaxAttempts
      BY <2>1, <3>1, FailedLedger DEF LedgerOf
    <3>3. LedgerOf(m)'
      BY <2>1, <3>1, <3>2 DEF LedgerOf
    <3>4. QED
      BY <3>1, <3>2, <3>3, StatusFacts, NoLeaseFacts DEF InboundEventStatus
  <2>3. CASE ~Expired(m)
    <3>1. status'[m] = status[m] /\ attempt'[m] = attempt[m] /\ lease'[m] = lease[m]
      BY <1>1, <2>3
    <3>2. QED
      BY <2>1, <3>1 DEF LedgerOf
  <2>4. QED
    BY <2>2, <2>3
<1>4. /\ status' \in [Mails -> InboundEventStatus \cup {"absent"}]
      /\ attempt' \in [Mails -> 0 .. MaxAttempts] /\ lease' \in [Mails -> Leases]
      /\ due' \in [Mails -> BOOLEAN]
  <2>1. status' \in [Mails -> InboundEventStatus \cup {"absent"}]
    <3>1. status' = [m \in Mails |-> status'[m]]
      BY <1>1
    <3>2. QED
      BY <1>3, <3>1
  <2>2. attempt' \in [Mails -> 0 .. MaxAttempts]
    <3>1. attempt' = [m \in Mails |-> attempt'[m]]
      BY <1>1
    <3>2. QED
      BY <1>3, <3>1
  <2>3. lease' \in [Mails -> Leases]
    <3>1. lease' = [m \in Mails |-> lease'[m]]
      BY <1>1
    <3>2. QED
      BY <1>3, <3>1
  <2>4. due' \in [Mails -> BOOLEAN]
    BY <1>1
  <2>5. QED
    BY <2>1, <2>2, <2>3, <2>4
<1>5. RowsOK'
  BY <1>1, <1>2, <1>3, <1>4 DEF RowsOK
<1>6. MovesOK'
  BY <1>1, <1>3, MovesAside DEF storeVars
<1>7. QED
  BY <1>1, <1>5, <1>6, Frames DEF InboxInv, storeVars, smtpVars

(* Retention deletes a settled row.                                        *)
LEMMA PurgeStep ==
    ASSUME InboxInv, NEW w \in Workers, NEW m \in Mails, purge_inbound_events(w, m)
    PROVE  InboxInv'
<1>1. /\ status[m] \in is_terminal
      /\ status' = [status EXCEPT ![m] = "absent"]
      /\ attempt' = [attempt EXCEPT ![m] = 0]
      /\ due' = [due EXCEPT ![m] = TRUE]
      /\ UNCHANGED <<lease, minted, arrivals, storeVars, revision, bounces, workerVars, smtpVars>>
  BY DEF purge_inbound_events
<1>2. /\ RowsOK /\ LedgerOf(m) /\ attempt[m] \in 0 .. MaxAttempts /\ lease[m] \in Leases
      /\ minted[m] \in Nat /\ arrivals[m] \in 0 .. MaxArrivals
  BY DEF InboxInv, RowsOK
<1>3. lease[m].exec = 0 /\ 0 \in 0 .. MaxAttempts
  BY <1>1, <1>2, StatusFacts, ConstantFacts DEF LedgerOf, Ledger
<1>4. Ledger("absent", 0, lease[m], minted[m], arrivals[m])
  BY <1>1, <1>2, <1>3, EndedLedger DEF LedgerOf
<1>5. /\ status' \in [Mails -> InboundEventStatus \cup {"absent"}] /\ status'[m] = "absent"
      /\ attempt' \in [Mails -> 0 .. MaxAttempts] /\ attempt'[m] = 0
      /\ due' \in [Mails -> BOOLEAN]
      /\ \A n \in Mails : n # m => status'[n] = status[n] /\ attempt'[n] = attempt[n]
  BY <1>1, <1>2, <1>3 DEF RowsOK
<1>6. RowsOK'
  BY <1>1, <1>2, <1>4, <1>5, RowWrite DEF RowsOK
<1>7. MovesOK'
  BY <1>1, <1>5, MovesAside DEF storeVars
<1>8. QED
  BY <1>1, <1>6, <1>7, Frames DEF InboxInv, storeVars, smtpVars

(* A settings edit.                                                        *)
LEMMA EditStep ==
    ASSUME InboxInv, update_channel
    PROVE  InboxInv'
<1>1. /\ revision < MaxEdits /\ revision' = revision + 1
      /\ UNCHANGED <<rowVars, arrivals, storeVars, bounces, workerVars, smtpVars>>
  BY DEF update_channel
<1>2. StoreOK'
  BY <1>1, ConstantFacts DEF InboxInv, StoreOK, Stored, storeVars
<1>3. QED
  BY <1>1, <1>2, Frames DEF InboxInv, storeVars, smtpVars, rowVars

(* A sender is told something that is true of its mail.                    *)
LEMMA AnswerFacts ==
    ASSUME ToldOK, NEW m \in Mails, NEW r \in 0 .. MaxEdits,
           NEW ingest \in {"committed", "dropped", "refused", "failed"}, Says(m, ingest, r),
           \A n \in Mails : message[n] # "none" => message'[n] # "none",
           ingest = "committed" => message'[m] # "none",
           ingest = "dropped" => <<m, r>> \in Drops
    PROVE  ToldOK'
<1>1. PICK a : a = [code |-> SmtpAnswer(ingest), revision |-> r]
  OBVIOUS
<1>2. SmtpAnswer(ingest) = IF ingest \in {"committed", "dropped"} THEN "250"
                           ELSE IF ingest = "refused" THEN "550" ELSE "451"
  BY DEF SmtpAnswer
<1>3. a \in Answers /\ Kept(m, a)'
  BY <1>1, <1>2 DEF Answers, Kept
<1>4. told \in [Mails -> SUBSET Answers] /\ told' = [told EXCEPT ![m] = @ \cup {a}]
  BY <1>1 DEF ToldOK, Says
<1>5. told' \in [Mails -> SUBSET Answers]
  BY <1>3, <1>4
<1>6. ASSUME NEW n \in Mails, NEW b \in told'[n] PROVE Kept(n, b)'
  <2>1. b \in told[n] \/ (n = m /\ b = a)
    BY <1>4
  <2>2. CASE b \in told[n]
    BY <2>2 DEF ToldOK, Kept
  <2>3. QED
    BY <1>3, <2>1, <2>2
<1>7. QED
  BY <1>5, <1>6 DEF ToldOK

(* A mail arrives over SMTP and is routed.                                 *)
LEMMA SmtpArrivalStep ==
    ASSUME InboxInv, NEW s \in Sessions, NEW m \in Mails, finish_data_transaction(s, m)
    PROVE  InboxInv'
<1>1. /\ m \in Direct /\ arrivals[m] < MaxArrivals
      /\ arrivals' = [arrivals EXCEPT ![m] = @ + 1]
      /\ UNCHANGED <<rowVars, storeVars, revision, bounces, workerVars>>
  BY DEF finish_data_transaction
<1>2. RowsOK /\ StoreOK /\ SessionsOK /\ ToldOK /\ MovesOK
  BY DEF InboxInv
<1>3. /\ arrivals' \in [Mails -> 0 .. MaxArrivals] /\ arrivals'[m] = arrivals[m] + 1
      /\ \A n \in Mails : n # m => arrivals'[n] = arrivals[n]
  BY <1>1, <1>2, ConstantFacts DEF RowsOK
<1>4. RowsOK'
  <2>1. /\ LedgerOf(m) /\ attempt[m] \in 0 .. MaxAttempts /\ lease[m] \in Leases
        /\ minted[m] \in Nat /\ arrivals[m] \in 0 .. MaxArrivals
    BY <1>2 DEF RowsOK
  <2>2. Ledger(status[m], attempt[m], lease[m], minted[m], arrivals[m] + 1)
    BY <2>1, ArrivalLedger DEF LedgerOf
  <2>3. /\ status' = status /\ attempt' = attempt /\ lease' = lease /\ due' = due
        /\ minted' = minted
    BY <1>1 DEF rowVars
  <2>4. QED
    BY <1>2, <1>3, <2>2, <2>3, RowWrite DEF RowsOK
<1>5. SessionsOK'
  <2>1. CASE UNCHANGED session
    BY <1>2, <2>1 DEF SessionsOK
  <2>2. ASSUME preflight_inbound(m), NEW p \in persist(m),
               session' = [session EXCEPT ![s] = [mail |-> m, plan |-> p]]
        PROVE  SessionsOK'
    <3>1. p \in Plans /\ <<m, p.revision>> \in Accepts
      BY <1>2, <2>2, PersistFacts DEF preflight_inbound
    <3>2. [mail |-> m, plan |-> p] \in [mail : Direct \cup {NoMail}, plan : Plans]
      BY <1>1, <3>1
    <3>3. /\ session' \in [Sessions -> [mail : Direct \cup {NoMail}, plan : Plans]]
          /\ session'[s] = [mail |-> m, plan |-> p]
          /\ \A r \in Sessions : r # s => session'[r] = session[r]
      BY <1>2, <2>2, <3>2 DEF SessionsOK
    <3>4. ASSUME NEW r \in Sessions, session'[r].mail # NoMail
          PROVE  <<session'[r].mail, session'[r].plan.revision>> \in Accepts
      <4>1. CASE r = s
        BY <3>1, <3>3, <4>1
      <4>2. CASE r # s
        BY <1>2, <3>3, <3>4, <4>2 DEF SessionsOK
      <4>3. QED
        BY <4>1, <4>2
    <3>5. QED
      BY <3>3, <3>4 DEF SessionsOK
  <2>3. QED
    BY <2>1, <2>2 DEF finish_data_transaction
<1>6. MovesOK'
  <2>1. status' = status /\ message' = message
    BY <1>1 DEF rowVars, storeVars
  <2>2. ASSUME NEW n \in Mails \ Direct PROVE Moves(n)'
    BY <1>1, <1>2, <1>3, <2>1 DEF MovesOK, Moves
  <2>3. QED
    BY <2>2 DEF MovesOK
<1>7. ToldOK'
  <2>1. message' = message /\ revision \in 0 .. MaxEdits
    BY <1>1, <1>2 DEF storeVars, StoreOK
  <2>2. CASE UNCHANGED told
    BY <2>1, <2>2, Frames
  <2>3. CASE chooses_not_to_route(m) /\ Says(m, "dropped", revision)
    BY <1>2, <2>1, <2>3, AnswerFacts DEF chooses_not_to_route
  <2>4. CASE Says(m, "refused", revision) \/ Says(m, "failed", revision)
    BY <1>2, <2>1, <2>4, AnswerFacts
  <2>5. QED
    BY <2>2, <2>3, <2>4 DEF finish_data_transaction
<1>8. QED
  BY <1>1, <1>4, <1>5, <1>6, <1>7, Frames DEF InboxInv, storeVars

(* An SMTP session commits, or not, and answers, or not.                   *)
LEMMA SmtpCommitStep ==
    ASSUME InboxInv, NEW s \in Sessions, commit_prepared_inbound(s)
    PROVE  InboxInv'
<1>1. PICK m, r : m = session[s].mail /\ r = session[s].plan.revision
  OBVIOUS
<1>2. /\ m # NoMail /\ session' = [session EXCEPT ![s] = IdleSession]
      /\ UNCHANGED <<rowVars, arrivals, revision, bounces, workerVars>>
      /\ \/ /\ commit_on(m, session[s].plan)
            /\ Says(m, "committed", r) \/ Says(m, "failed", r) \/ UNCHANGED told
         \/ /\ Says(m, "failed", r) \/ UNCHANGED told
            /\ UNCHANGED storeVars
  BY <1>1 DEF commit_prepared_inbound
<1>3. RowsOK /\ StoreOK /\ SessionsOK /\ ToldOK /\ MovesOK
  BY DEF InboxInv
<1>4. /\ m \in Direct /\ m \in Mails /\ session[s].plan \in Plans
      /\ <<m, session[s].plan.revision>> \in Accepts /\ r \in 0 .. MaxEdits
  BY <1>1, <1>2, <1>3, ConstantFacts DEF SessionsOK, Plans
<1>5. SessionsOK'
  <2>1. IdleSession \in [mail : Direct \cup {NoMail}, plan : Plans] /\ IdleSession.mail = NoMail
    BY ConstantFacts DEF IdleSession, NoPlan, Plans, Hashes
  <2>2. QED
    BY <1>2, <1>3, <2>1 DEF SessionsOK
<1>6. /\ StoreOK'
      /\ \A n \in Mails : n # m => message'[n] = message[n]
      /\ \A n \in Mails : message[n] # "none" => message'[n] # "none"
      /\ commit_on(m, session[s].plan) => message'[m] # "none"
  <2>1. CASE commit_on(m, session[s].plan)
    BY <1>2, <1>3, <1>4, <2>1, CommitFacts
  <2>2. CASE ~commit_on(m, session[s].plan)
    BY <1>2, <2>2, Frames DEF storeVars
  <2>3. QED
    BY <2>1, <2>2
<1>7. ToldOK'
  <2>1. CASE UNCHANGED told
    BY <1>3, <1>6, <2>1 DEF ToldOK, Kept
  <2>2. CASE commit_on(m, session[s].plan) /\ Says(m, "committed", r)
    BY <1>3, <1>4, <1>6, <2>2, AnswerFacts
  <2>3. CASE Says(m, "failed", r)
    BY <1>3, <1>4, <1>6, <2>3, AnswerFacts
  <2>4. QED
    BY <1>2, <2>1, <2>2, <2>3
<1>8. MovesOK'
  <2>1. status' = status /\ arrivals' = arrivals
    BY <1>2 DEF rowVars
  <2>2. ASSUME NEW n \in Mails \ Direct PROVE Moves(n)'
    BY <1>3, <1>4, <1>6, <2>1 DEF MovesOK, Moves
  <2>3. QED
    BY <2>2 DEF MovesOK
<1>9. QED
  BY <1>2, <1>5, <1>6, <1>7, <1>8, Frames DEF InboxInv

----------------------------------------------------------------------------
(* The theorems.                                                           *)

(* The empty inbox satisfies the invariant.                                *)
LEMMA InitInv == Init => InboxInv
<1>1. SUFFICES ASSUME Init PROVE InboxInv
  OBVIOUS
<1>2. MaxClaims \in Nat /\ \A m \in Mails : MaxAttempts * 0 = 0
  BY ConstantFacts DEF MaxClaims
<1>3. ASSUME NEW m \in Mails PROVE LedgerOf(m)
  BY <1>1, <1>2, NoLeaseFacts, StatusFacts, ConstantFacts DEF Init, LedgerOf, Ledger, Left
<1>4. RowsOK
  BY <1>1, <1>3, NoLeaseFacts, ConstantFacts DEF Init, RowsOK, InboundEventStatus
<1>5. StoreOK
  BY <1>1, ConstantFacts DEF Init, StoreOK, Stored
<1>6. NoPlan \in Plans /\ IdleSession \in [mail : Direct \cup {NoMail}, plan : Plans]
      /\ IdleSession.mail = NoMail
  BY ConstantFacts DEF IdleSession, NoPlan, Plans, Hashes
<1>7. TasksOK
  BY <1>1, <1>2, <1>6 DEF Init, TasksOK, Phases
<1>8. SessionsOK /\ ToldOK
  BY <1>1, <1>6 DEF Init, SessionsOK, ToldOK
<1>9. MovesOK
  BY <1>1, ConstantFacts DEF Init, MovesOK, Moves
<1>10. QED
  BY <1>4, <1>5, <1>7, <1>8, <1>9 DEF InboxInv

(* Every step keeps it.                                                    *)
LEMMA NextInv == InboxInv /\ [Next]_vars => InboxInv'
<1>1. SUFFICES ASSUME InboxInv, [Next]_vars PROVE InboxInv'
  OBVIOUS
<1>2. CASE UNCHANGED vars
  BY <1>1, <1>2, Frames DEF vars, InboxInv, rowVars, storeVars, workerVars, smtpVars
<1>3. ASSUME NEW m \in Mails, resend_api_inbound_webhook(m) \/ LeaseLapses(m) \/ BackoffElapses(m)
      PROVE  InboxInv'
  BY <1>1, <1>3, WebhookStep, LapseStep, BackoffStep
<1>4. ASSUME NEW m \in Mails, NEW w \in Workers, TaskStep(w, m) \/ TaskPanics(w, m)
      PROVE  InboxInv'
  BY <1>1, <1>4, SimpleTaskStep, DecodeStep, CommitStep, SettleStep DEF TaskStep
<1>5. ASSUME NEW m \in Mails, NEW w \in Workers, ClaimsEvent(w, m) PROVE InboxInv'
  BY <1>1, <1>5, ClaimStep DEF ClaimsEvent
<1>6. ASSUME NEW m \in Mails, NEW w \in Workers, purge_inbound_events(w, m) PROVE InboxInv'
  BY <1>1, <1>6, PurgeStep
<1>7. ASSUME NEW m \in Mails, NEW s \in Sessions, finish_data_transaction(s, m) PROVE InboxInv'
  BY <1>1, <1>7, SmtpArrivalStep
<1>8. ASSUME NEW w \in Workers, BatchEnds(w) \/ reap_expired_inbound_events(w) PROVE InboxInv'
  BY <1>1, <1>8, BatchStep, ReapStep
<1>9. ASSUME NEW s \in Sessions, commit_prepared_inbound(s) PROVE InboxInv'
  BY <1>1, <1>9, SmtpCommitStep
<1>10. CASE update_channel
  BY <1>1, <1>10, EditStep
<1>11. QED
  BY <1>1, <1>2, <1>3, <1>4, <1>5, <1>6, <1>7, <1>8, <1>9, <1>10 DEF Next

(* The inbox keeps its invariant: rows, tasks, sessions, answers and the   *)
(* canonical store agree in every reachable state.                         *)
THEOREM InboxInvHolds == Spec => []InboxInv
<1>1. Init => InboxInv
  BY InitInv
<1>2. InboxInv /\ [Next]_vars => InboxInv'
  BY NextInv
<1>3. QED
  BY <1>1, <1>2, PTL DEF Spec

(* Every column stays in its range, and with it the checks of the table    *)
(* inbound_events: leased exactly while processing, an attempt left while  *)
(* it can still run, and never more claims than the deliveries paid for.   *)
THEOREM InboxTypesHold == Spec => []TypeOK
<1>1. InboxInv => TypeOK
  <2>1. SUFFICES ASSUME InboxInv PROVE TypeOK
    OBVIOUS
  <2>2. RowsOK /\ StoreOK /\ TasksOK /\ SessionsOK /\ ToldOK
    BY <2>1 DEF InboxInv
  <2>3. ASSUME NEW m \in Mails
        PROVE  /\ (status[m] = "processing") = (lease[m].exec # 0)
               /\ status[m] \in is_claimable \cup {"processing"} => attempt[m] < MaxAttempts
               /\ minted[m] <= MaxAttempts * arrivals[m] /\ minted[m] \in 0 .. MaxClaims
    BY <2>2, LedgerChecks DEF RowsOK, LedgerOf
  <2>4. StoredChecks
    BY <2>3 DEF StoredChecks
  <2>5. minted \in [Mails -> 0 .. MaxClaims]
    <3>1. minted \in [Mails -> Nat]
      BY <2>2 DEF RowsOK
    <3>2. QED
      BY <2>3, <3>1
  <2>6. session \in [Sessions -> [mail : Mails \cup {NoMail}, plan : Plans]]
    <3>1. [mail : Direct \cup {NoMail}, plan : Plans] \subseteq [mail : Mails \cup {NoMail}, plan : Plans]
      BY ConstantFacts
    <3>2. QED
      BY <2>2, <3>1 DEF SessionsOK
  <2>7. /\ status \in [Mails -> InboundEventStatus \cup {"absent"}]
        /\ attempt \in [Mails -> 0 .. MaxAttempts]
        /\ lease \in [Mails ->
              [exec : 0 .. MaxClaims, owner : Workers \cup {NoWorker}, live : BOOLEAN]]
        /\ due \in [Mails -> BOOLEAN] /\ arrivals \in [Mails -> 0 .. MaxArrivals]
    BY <2>2 DEF RowsOK, Leases
  <2>8. QED
    BY <2>2, <2>4, <2>5, <2>6, <2>7 DEF TypeOK, StoreOK, TasksOK, ToldOK
<1>2. QED
  BY <1>1, InboxInvHolds, PTL

(* However often a mail is delivered, retried after a lost answer or       *)
(* offered again once its event was purged, it admits workflow runs once   *)
(* (recognise_redelivery).                                                 *)
THEOREM MailsAreAdmittedOnce == Spec => []AdmittedOnce
<1>1. InboxInv => AdmittedOnce
  BY DEF InboxInv, StoreOK, Stored, AdmittedOnce
<1>2. QED
  BY <1>1, InboxInvHolds, PTL

(* While the only delivery of a mail is in the inbox, its message exists   *)
(* exactly when its event is completed (complete_claimed_event).           *)
THEOREM MessagesMoveWithEvents == Spec => []MessageMovesWithEvent
<1>1. InboxInv => MessageMovesWithEvent
  BY DEF InboxInv, MovesOK, Moves, MessageMovesWithEvent
<1>2. QED
  BY <1>1, InboxInvHolds, PTL

(* A sender that was told 250 has its mail stored, or dropped by a         *)
(* decision of routing under the settings it read (SmtpAnswer).            *)
THEOREM AcceptedMailsAreStored == Spec => []AcceptedIsStored
<1>1. InboxInv => AcceptedIsStored
  BY DEF InboxInv, ToldOK, Kept, AcceptedIsStored
<1>2. QED
  BY <1>1, InboxInvHolds, PTL

(* A stored message was acceptable under the settings in force when it was *)
(* stored, whatever was edited since routing (verify_channel_settings).    *)
THEOREM StoredUnderSettings == Spec => []StoredUnderSettingsInForce
<1>1. InboxInv => StoredUnderSettingsInForce
  BY DEF InboxInv, StoreOK, Stored, StoredUnderSettingsInForce
<1>2. QED
  BY <1>1, InboxInvHolds, PTL

(* The statuses one step leaves a settled event in.                        *)
SettledStep == \A m \in Mails : status[m] \in is_terminal => status'[m] \in {status[m], "absent"}

(* No late settlement, sweep or claim reopens a settled event: it stays as *)
(* it is until retention deletes it (live_fence, is_claimable).            *)
THEOREM SettledStaysFinal == Spec => SettledIsFinal
<1>1. InboxInv /\ [Next]_vars => [SettledStep]_vars
  <2>1. SUFFICES ASSUME InboxInv, [Next]_vars, NEW n \in Mails, status[n] \in is_terminal
                 PROVE  status'[n] \in {status[n], "absent"}
    BY DEF SettledStep
  <2>2. /\ status \in [Mails -> InboundEventStatus \cup {"absent"}]
        /\ status[n] \notin is_claimable \cup {"processing", "absent"}
    BY <2>1, StatusFacts DEF InboxInv, RowsOK
  <2>3. CASE UNCHANGED status
    BY <2>3
  <2>4. ASSUME NEW m \in Mails, NEW st, status' = [status EXCEPT ![m] = st],
               status[m] \notin is_terminal \/ st = "absent"
        PROVE  status'[n] \in {status[n], "absent"}
    BY <2>1, <2>2, <2>4
  <2>5. ASSUME NEW m \in Mails, resend_api_inbound_webhook(m) \/ LeaseLapses(m) \/ BackoffElapses(m)
        PROVE  status'[n] \in {status[n], "absent"}
    BY <2>3, <2>4, <2>5, StatusFacts
    DEF resend_api_inbound_webhook, store_authenticated, LeaseLapses, BackoffElapses
  <2>6. ASSUME NEW m \in Mails, NEW w \in Workers, TaskStep(w, m) \/ TaskPanics(w, m)
        PROVE  status'[n] \in {status[n], "absent"}
    <3>1. CASE commit_inbound(w, m)
      BY <2>3, <2>4, <3>1, StatusFacts
      DEF commit_inbound, complete_inbound_event_on, owns_row, rowVars
    <3>2. CASE settle(w, m)
      BY <2>3, <2>4, <3>2, StatusFacts DEF settle, live_fence, owns_row
    <3>3. CASE ~commit_inbound(w, m) /\ ~settle(w, m)
      BY <2>3, <2>6, <3>3
      DEF TaskStep, process_claimed, decode, commit_answers, supervise_event_lease,
          TaskPanics, rowVars
    <3>4. QED
      BY <3>1, <3>2, <3>3
  <2>7. ASSUME NEW m \in Mails, NEW w \in Workers, ClaimsEvent(w, m)
        PROVE  status'[n] \in {status[n], "absent"}
    BY <2>2, <2>7 DEF ClaimsEvent, claim_inbound_events
  <2>8. ASSUME NEW m \in Mails, NEW w \in Workers, purge_inbound_events(w, m)
        PROVE  status'[n] \in {status[n], "absent"}
    BY <2>4, <2>8 DEF purge_inbound_events
  <2>9. ASSUME NEW w \in Workers, reap_expired_inbound_events(w)
        PROVE  status'[n] \in {status[n], "absent"}
    BY <2>2, <2>9 DEF reap_expired_inbound_events, Expired
  <2>10. CASE \/ \E m \in Mails, s \in Sessions : finish_data_transaction(s, m)
              \/ \E w \in Workers : BatchEnds(w)
              \/ \E s \in Sessions : commit_prepared_inbound(s)
              \/ update_channel
              \/ UNCHANGED vars
    BY <2>3, <2>10
    DEF finish_data_transaction, BatchEnds, commit_prepared_inbound, update_channel, vars, rowVars
  <2>11. QED
    BY <2>1, <2>5, <2>6, <2>7, <2>8, <2>9, <2>10 DEF Next
<1>2. QED
  BY <1>1, InboxInvHolds, PTL DEF Spec, SettledIsFinal, SettledStep
=============================================================================
