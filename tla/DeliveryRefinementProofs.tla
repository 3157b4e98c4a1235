---------------------- MODULE DeliveryRefinementProofs ----------------------
(***************************************************************************)
(* The delivery queue implements DeliveryContract, for any number of       *)
(* deliveries, parts, workers and attempts.  begin_part is the contract's  *)
(* Start; the provider's acceptance is Take; a refusal, a lost request, a  *)
(* shutdown before the call and a crash before it are Drop, unless another *)
(* request for the part is underway; every other step changes at most what *)
(* is said, and is Settle.                                                 *)
(***************************************************************************)
EXTENDS DeliveryRefinement, DeliveryOrderProofs

----------------------------------------------------------------------------
(* What the contract speaks of, in terms of the rows.                      *)

Taken(d) == {r.part : r \in {s \in accepted : s.row = d}}

(* The statuses behind each fate.                                          *)
LEMMA FateFacts ==
  ASSUME TypeOK, NEW d \in Deliveries
  PROVE  /\ FateOf(d) \in Contract!Fates
         /\ FateOf(d) = "open" <=> status[d] \in is_claimable \cup {"sending"}
         /\ FateOf(d) = "uncertain" <=> status[d] = "outcome_unknown"
         /\ FateOf(d) = "dead" <=> status[d] = "dead_letter"
         /\ FateOf(d) = "absent" <=> status[d] = "absent"
         /\ FateOf(d) = "delivered" <=> status[d] = "delivered"
<1>1. status[d] \in {"pending", "sending", "retryable", "delivered", "outcome_unknown",
                     "dead_letter", "absent"}
  BY DEF TypeOK, DeliveryStatus
<1> QED
  BY <1>1 DEF FateOf, is_claimable, Contract!Fates

(* What is underway is a request on the wire, or one a worker is about to  *)
(* make.                                                                   *)
LEMMA UnderwayMeans ==
  ASSUME NEW d, NEW p
  PROVE  <<d, p>> \in Underway <=>
            \/ \E r \in wire : r.row = d /\ r.part = p
            \/ \E w \in Workers : phase[w] = "calling" /\ cur[w] = d /\ at[w] = p
BY DEF Underway

(* A part is taken exactly when a request of it was accepted.              *)
LEMMA TakenMeans ==
  ASSUME NEW d, NEW p
  PROVE  p \in Taken(d) <=> \E r \in accepted : r.row = d /\ r.part = p
BY DEF Taken

(* What is underway is a part of a delivery.                               *)
LEMMA UnderwayTypes ==
  ASSUME QueueInv, NEW x \in Underway
  PROVE  \E d \in Deliveries, p \in Parts : x = <<d, p>>
<1>1. CASE \E r \in wire : x = <<r.row, r.part>>
  <2>1. PICK r \in wire : x = <<r.row, r.part>>
    BY <1>1
  <2>2. r.row \in Deliveries /\ r.part \in Parts
    BY DEF QueueInv, TypeOK, Requests
  <2> QED
    BY <2>1, <2>2
<1>2. CASE \E w \in Workers : phase[w] = "calling" /\ x = <<cur[w], at[w]>>
  <2>1. PICK w \in Workers : phase[w] = "calling" /\ x = <<cur[w], at[w]>>
    BY <1>2
  <2>2. cur[w] \in Deliveries /\ at[w] \in Parts
    BY <2>1 DEF QueueInv, SendersAreSound, SenderIsSound
  <2> QED
    BY <2>1, <2>2
<1> QED
  BY <1>1, <1>2 DEF Underway

(* A part that is underway, of a transport that never repeats a request,   *)
(* is stored as sending or as ambiguous.                                   *)
LEMMA UnderwayFacts ==
  ASSUME QueueInv, OrderInv, NEW d \in Deliveries \ Replayed, NEW p \in Parts,
         <<d, p>> \in Underway
  PROVE  part[d][p] \in {"sending", "outcome_unknown"}
<1>1. Sent(d, p) \/ Leaving(d, p)
  BY UnderwayMeans DEF Sent, Leaving
<1>2. TrueOf(d, p, part[d][p])
  BY DEF QueueInv, RowsTellTheTruth
<1>3. part[d][p] \notin {"prepared", "retryable", "dead"}
  BY <1>1, <1>2 DEF TrueOf
<1>4. part[d][p] # "delivered"
  <2> SUFFICES ASSUME part[d][p] = "delivered" PROVE FALSE
    OBVIOUS
  <2>1. PICK a \in accepted : a.row = d /\ a.part = p
    BY <1>2 DEF TrueOf
  <2>2. ASSUME NEW r \in wire, r.row = d, r.part = p PROVE FALSE
    <3>1. SamePart(r, a) /\ r.row \notin Replayed
      BY <2>1, <2>2 DEF SamePart
    <3>2. r = a
      BY <3>1 DEF QueueInv, AtMostOnce
    <3> QED
      BY <3>1, <3>2 DEF QueueInv, AtMostOnce
  <2>3. ASSUME NEW w \in Workers, phase[w] = "calling", cur[w] = d, at[w] = p PROVE FALSE
    <3>1. ~Sent(d, p)
      BY <2>3 DEF QueueInv, SendersAreSound, SenderIsSound
    <3> QED
      BY <2>1, <3>1 DEF Sent
  <2> QED
    BY <2>2, <2>3, UnderwayMeans
<1>5. part[d][p] \in PartStatus
  BY DEF QueueInv, TypeOK
<1> QED
  BY <1>3, <1>4, <1>5 DEF PartStatus

(* A delivery of such a transport, none of whose parts is sending or       *)
(* ambiguous, is quiet; one with a part that is not delivered besides was  *)
(* not taken whole.                                                        *)
LEMMA QuietFacts ==
  ASSUME QueueInv, OrderInv, NEW d \in Deliveries \ Replayed,
         \A p \in Parts : part[d][p] \notin {"sending", "outcome_unknown"}
  PROVE  /\ \A p \in Parts : <<d, p>> \notin Underway
         /\ \A p \in Parts : part[d][p] # "delivered" => p \notin Taken(d)
<1>1. \A p \in Parts : <<d, p>> \notin Underway
  BY UnderwayFacts
<1>2. ASSUME NEW p \in Parts, part[d][p] # "delivered" PROVE p \notin Taken(d)
  <2>1. part[d][p] \in {"prepared", "retryable", "dead"}
    BY <1>2 DEF QueueInv, TypeOK, PartStatus
  <2>2. TrueOf(d, p, part[d][p])
    BY DEF QueueInv, RowsTellTheTruth
  <2>3. ~Sent(d, p)
    BY <2>1, <2>2 DEF TrueOf
  <2> QED
    BY <2>3, TakenMeans DEF Sent
<1> QED
  BY <1>1, <1>2

(* So is one of which it is attested that it was not and never will be     *)
(* accepted, whatever its transport.                                       *)
LEMMA AttestedFacts ==
  ASSUME NEW d \in Deliveries, AttestedFinalNotApplied(d)
  PROVE  Taken(d) # Parts /\ \A p \in Parts : <<d, p>> \notin Underway
<1>1. \A p \in Parts : <<d, p>> \notin Underway
  BY UnderwayMeans DEF AttestedFinalNotApplied
<1>2. \A p \in Parts : p \notin Taken(d)
  BY TakenMeans DEF AttestedFinalNotApplied
<1> QED
  BY <1>1, <1>2, SomePart

(* A delivered delivery was taken whole.                                   *)
LEMMA DeliveredFacts ==
  ASSUME QueueInv, NEW d \in Deliveries, status[d] = "delivered"
  PROVE  Taken(d) = Parts
<1>1. \A p \in Parts : p \in Taken(d)
  BY TakenMeans DEF QueueInv, RowsTellTheTruth, TrueOf
<1>2. \A r \in accepted : r.part \in Parts
  BY DEF QueueInv, TypeOK, Requests
<1> QED
  BY <1>1, <1>2 DEF Taken

----------------------------------------------------------------------------
(* What a step may say.                                                    *)

(* How a status moves: a row appears as pending and never disappears, and  *)
(* an ambiguous delivery is not sent without returning to the queue, which *)
(* takes the attestation that it was not and never will be accepted.       *)
StatusMoves(d) ==
    /\ status[d] = "absent" => status'[d] \in {"absent", "pending"}
    /\ status[d] # "absent" => status'[d] # "absent"
    /\ status[d] = "outcome_unknown" => status'[d] # "sending"
    /\ status[d] = "outcome_unknown" /\ status'[d] \in is_claimable =>
          AttestedFinalNotApplied(d) /\ ~cancelled[d]

(* Every step of every actor moves statuses so.                            *)
LEMMA StepMoves ==
  ASSUME QueueInv, [Next]_vars, NEW e \in Deliveries
  PROVE  StatusMoves(e)
<1>t. status \in [Deliveries -> DeliveryStatus \cup {"absent"}]
  BY DEF QueueInv, TypeOK
<1>1. CASE UNCHANGED status
  BY <1>1 DEF StatusMoves, is_claimable
<1>2. ASSUME NEW d \in Deliveries, NEW st \in DeliveryStatus \ {"sending"},
             status' = [status EXCEPT ![d] = st], status[d] # "absent" \/ st = "pending",
             status[d] = "outcome_unknown" /\ st \in is_claimable =>
                AttestedFinalNotApplied(d) /\ ~cancelled[d]
      PROVE  StatusMoves(e)
  BY <1>t, <1>2 DEF StatusMoves, DeliveryStatus, is_claimable
<1>3. ASSUME NEW d \in Deliveries, NEW ps \in [Parts -> PartStatus], status[d] = "sending",
             settle_cancelled(d, ps)
      PROVE  StatusMoves(e)
  <2>1. PICK bs : bs = bury_unsent_parts(ps)
    OBVIOUS
  <2>2. cancelled_parent_status(bs) \in {"outcome_unknown", "delivered", "dead_letter"}
    BY <2>1, BuryFacts, CancelledStatusFacts
  <2>3. status' = [status EXCEPT ![d] = cancelled_parent_status(bs)]
    BY <1>3, <2>1 DEF settle_cancelled
  <2> QED
    BY <1>2, <1>3, <2>2, <2>3 DEF DeliveryStatus
<1>4. ASSUME NEW w \in Workers, WorkerStep(w) PROVE StatusMoves(e)
  <2>1. ASSUME NEW S \in SUBSET Deliveries, claim_deliveries(w, S) PROVE StatusMoves(e)
    BY <2>1 DEF claim_deliveries, Claimable, is_claimable, StatusMoves
  <2>2. CASE begin_part(w)
    <3>1. cur[w] \in Deliveries /\ part[cur[w]] \in [Parts -> PartStatus]
      BY <2>2 DEF begin_part, QueueInv, SendersAreSound, SenderIsSound, TypeOK
    <3>2. \/ UNCHANGED status
          \/ /\ status[cur[w]] = "sending"
             /\ settle_cancelled(cur[w], part[cur[w]])
          \/ /\ status[cur[w]] = "sending"
             /\ status' = [status EXCEPT ![cur[w]] = "outcome_unknown"]
      BY <2>2 DEF begin_part, rowVars, own_row_fence
    <3> QED
      BY <1>1, <1>2, <1>3, <3>1, <3>2 DEF DeliveryStatus
  <2>3. CASE complete_part(w)
    <3>1. PICK d : d = cur[w]
      OBVIOUS
    <3>2. PICK ps : ps = [part[d] EXCEPT ![at[w]] = PartTransitionStatus(outcome[w])]
      OBVIOUS
    <3>3. d \in Deliveries /\ ps \in [Parts -> PartStatus]
      <4>1. /\ d \in Deliveries /\ outcome[w] \in ProviderSendOutcome
            /\ part[d] \in [Parts -> PartStatus]
        BY <2>3, <3>1 DEF complete_part, QueueInv, SendersAreSound, SenderIsSound, TypeOK
      <4>2. PartTransitionStatus(outcome[w]) \in PartStatus
        BY <4>1, TransitionFacts
      <4> QED
        BY <3>2, <4>1, <4>2
    <3>4. \/ UNCHANGED status
          \/ status[d] = "sending" /\ settle_cancelled(d, ps)
          \/ status[d] = "sending" /\ settle_parent(d, ps, outcome[w])
      BY <2>3, <3>1, <3>2 DEF complete_part, rowVars, own_row_fence
    <3>5. CASE status[d] = "sending" /\ settle_parent(d, ps, outcome[w])
      <4>1. \E st \in DeliveryStatus \ {"sending"} : status' = [status EXCEPT ![d] = st]
        BY <3>5
        DEF settle_parent, attempt_failed_status, aggregate_parent_status, DeliveryStatus
      <4> QED
        BY <1>2, <3>3, <3>5, <4>1
    <3> QED
      BY <1>1, <1>3, <3>3, <3>4, <3>5
  <2>4. ASSUME NEW d \in Deliveries, fail_delivery(w, d) \/ release_delivery(w, d)
        PROVE  StatusMoves(e)
    <3>1. part[d] \in [Parts -> PartStatus]
      BY DEF QueueInv, TypeOK
    <3>2. \/ UNCHANGED status
          \/ status[d] = "sending" /\ settle_cancelled(d, part[d])
          \/ status[d] = "sending" /\ status' = [status EXCEPT ![d] = "dead_letter"]
          \/ status[d] = "sending" /\ status' = [status EXCEPT ![d] = "pending"]
      BY <2>4 DEF fail_delivery, release_delivery, rowVars, own_row_fence
    <3> QED
      BY <1>1, <1>2, <1>3, <3>1, <3>2 DEF DeliveryStatus
  <2>5. CASE reap_expired_deliveries(w)
    BY <2>5, ReapFacts DEF StatusMoves, is_claimable
  <2>6. CASE \/ \E d \in Deliveries, p \in Parts : renew_delivery_leases(w, d, p)
             \/ call_provider(w)
             \/ \E o \in ProviderSendOutcome : provider_returns(w, o)
    BY <2>6, <1>1 DEF renew_delivery_leases, call_provider, provider_returns, rowVars
  <2> QED
    BY <1>4, <2>1, <2>2, <2>3, <2>4, <2>5, <2>6 DEF WorkerStep
<1>5. ASSUME NEW d \in Deliveries,
             \/ enqueue(d) \/ cancel_deliveries(d)
             \/ \E o \in {"applied", "final_not_applied"}, live \in BOOLEAN :
                   settle_unknown_delivery(d, o, live)
      PROVE  StatusMoves(e)
  <2>1. \/ UNCHANGED status
        \/ \E st \in DeliveryStatus \ {"sending"} :
              /\ status' = [status EXCEPT ![d] = st]
              /\ status[d] # "absent" \/ st = "pending"
              /\ status[d] = "outcome_unknown" /\ st \in is_claimable =>
                    AttestedFinalNotApplied(d) /\ ~cancelled[d]
    BY <1>5 DEF enqueue, cancel_deliveries, settle_unknown_delivery, is_claimable, DeliveryStatus
  <2> QED
    BY <1>1, <1>2, <2>1
<1>6. CASE \/ \E w \in Workers, d \in Deliveries : WriteFails(w, d)
           \/ \E r \in wire : ProviderAccepts(r) \/ RequestDropped(r)
           \/ \E w \in Workers : ShutdownRequested(w) \/ WorkerEnds(w) \/ WorkerStarts(w)
           \/ \E d \in Deliveries : LeaseLapses(d) \/ BackoffElapses(d) \/ ProofExpires(d)
           \/ UNCHANGED vars
  BY <1>6, <1>1 DEF WriteFails, ProviderAccepts, RequestDropped, ShutdownRequested,
     WorkerEnds, WorkerStarts, LeaseLapses, BackoffElapses, ProofExpires, rowVars, vars
<1> QED
  BY <1>4, <1>5, <1>6 DEF Next, Environment

(* What is said of a delivery, and what is true of it then.                *)
SaidOf(d) ==
    /\ FateOf(d) \in {"absent", "open", "delivered", "uncertain", "dead"}
    /\ FateOf(d) = "open" <=> status[d] \in is_claimable \cup {"sending"}
    /\ FateOf(d) = "uncertain" <=> status[d] = "outcome_unknown"
    /\ FateOf(d) = "dead" <=> status[d] = "dead_letter"
    /\ FateOf(d) = "absent" <=> status[d] = "absent"
    /\ FateOf(d) = "delivered" <=> status[d] = "delivered"
    /\ status[d] = "delivered" => Taken(d) = Parts
    /\ status[d] \in is_claimable \cup {"dead_letter"} /\ d \notin Replayed =>
          Taken(d) # Parts /\ \A p \in Parts : <<d, p>> \notin Underway
    /\ cancelled[d] => status[d] \notin is_claimable

Said == \A d \in Deliveries : SaidOf(d)

(* What is said is true.                                                   *)
LEMMA SaidIsTrue == QueueInv /\ OrderInv => Said
<1> SUFFICES ASSUME QueueInv, OrderInv, NEW d \in Deliveries PROVE SaidOf(d)
  BY DEF Said
<1>1. TypeOK
  BY DEF QueueInv
<1>2. status[d] = "delivered" => Taken(d) = Parts
  BY DeliveredFacts
<1>3. ASSUME status[d] \in is_claimable \cup {"dead_letter"}, d \notin Replayed
      PROVE  Taken(d) # Parts /\ \A p \in Parts : <<d, p>> \notin Underway
  <2>1. Agrees(status[d], part[d])
    BY DEF OrderInv, RowsAgree
  <2>2. \A p \in Parts : part[d][p] \notin {"sending", "outcome_unknown"}
    BY <1>3, <2>1 DEF Agrees, is_claimable
  <2>3. \E p \in Parts : part[d][p] # "delivered"
    BY <1>3, <2>1 DEF Agrees, is_claimable
  <2>4. /\ \A p \in Parts : <<d, p>> \notin Underway
        /\ \A p \in Parts : part[d][p] # "delivered" => p \notin Taken(d)
    BY <1>3, <2>2, QuietFacts
  <2> QED
    BY <2>3, <2>4
<1>4. cancelled[d] => status[d] \notin is_claimable
  BY DEF QueueInv, StoredChecks
<1> QED
  BY <1>1, <1>2, <1>3, <1>4, FateFacts DEF SaidOf, Contract!Fates

(* It stays true.                                                          *)
LEMMA SaidStaysTrue == QueueInv' /\ OrderInv' => Said'
BY SaidIsTrue, PTL

(* A step after which the same requests are underway and taken says only   *)
(* what the contract lets it say.                                          *)
LEMMA SettleSays ==
  ASSUME QueueInv, OrderInv, QueueInv', OrderInv', [Next]_vars,
         Underway' = Underway, accepted' = accepted
  PROVE  Contract!Settle
<1>1. ASSUME NEW d \in Deliveries
      PROVE  /\ \/ FateOf(d)' = FateOf(d)
                \/ FateOf(d) = "absent" /\ FateOf(d)' = "open"
                \/ FateOf(d) = "open" /\ FateOf(d)' = "uncertain"
                \/ /\ FateOf(d) \in {"open", "uncertain"} /\ FateOf(d)' = "delivered"
                   /\ Taken(d) = Parts
                \/ /\ FateOf(d) \in {"open", "uncertain"} /\ FateOf(d)' = "dead"
                   /\ \/ d \in Replayed
                      \/ /\ \A p \in Parts : <<d, p>> \notin Underway
                         /\ Taken(d) # Parts
                \/ /\ FateOf(d) = "uncertain" /\ FateOf(d)' = "open"
                   /\ \A p \in Parts : <<d, p>> \notin Underway
                   /\ Taken(d) # Parts /\ ~cancelled[d]
             /\ cancelled[d] => cancelled'[d]
             /\ FateOf(d)' \in Contract!Fates
  <2>1. SaidOf(d) /\ SaidOf(d)'
    BY SaidIsTrue, SaidStaysTrue DEF Said
  <2>2. Taken(d)' = Taken(d)
    BY DEF Taken
  <2>3. StatusMoves(d) /\ OutcomeStays(d) /\ (cancelled[d] => cancelled'[d])
    BY StepMoves, StepKeepsOutcomes DEF CancelledStays
  <2>4. AttestedFinalNotApplied(d) =>
           Taken(d) # Parts /\ \A p \in Parts : <<d, p>> \notin Underway
    BY AttestedFacts
  <2> QED
    BY <2>1, <2>2, <2>3, <2>4 DEF SaidOf, StatusMoves, OutcomeStays, is_claimable, Contract!Fates
<1>2. cancelled' \in [Deliveries -> BOOLEAN]
  BY DEF QueueInv, TypeOK
<1>3. \A d \in Deliveries : Taken(d)' = Taken(d)
  BY DEF Taken
<1> QED
  BY <1>1, <1>2 DEF Contract!Settle, Contract!Says, Contract!Quiet, Taken

----------------------------------------------------------------------------
(* What is underway after a step.                                          *)

(* Worker v stays before its call, or stays elsewhere.                     *)
CallStays(v) ==
    /\ phase'[v] = "calling" <=> phase[v] = "calling"
    /\ phase[v] = "calling" => cur'[v] = cur[v] /\ at'[v] = at[v]

(* A step that leaves the wire and the calls alone leaves the same         *)
(* requests underway.                                                      *)
LEMMA SameUnderway ==
  ASSUME wire' = wire, \A v \in Workers : CallStays(v)
  PROVE  Underway' = Underway
BY DEF Underway, CallStays

(* So does a worker that finishes a delivery it is not calling for.        *)
LEMMA FinishUnderway ==
  ASSUME QueueInv, NEW w \in Workers, NEW d, phase[w] # "calling", finish(w, d), wire' = wire
  PROVE  Underway' = Underway
<1>1. phase \in [Workers -> {"down", "loop", "ready", "calling", "waiting", "reporting"}]
  BY DEF QueueInv, TypeOK
<1>2. \A v \in Workers : v # w => /\ phase'[v] = phase[v]
                                  /\ cur'[v] = cur[v] /\ at'[v] = at[v]
  BY DEF finish, QueueInv, TypeOK
<1>3. phase'[w] = "loop"
  BY <1>1 DEF finish
<1>4. \A v \in Workers : CallStays(v)
  BY <1>2, <1>3 DEF CallStays
<1> QED
  BY <1>4, SameUnderway

(* Its call ended without a request: that one is gone, unless there is     *)
(* another for the same part.                                              *)
LEMMA CallEnds ==
  ASSUME QueueInv, NEW w \in Workers, phase[w] = "calling", phase'[w] # "calling",
         \A v \in Workers : v # w => CallStays(v), wire' = wire
  PROVE  /\ cur[w] \in Deliveries /\ at[w] \in Parts
         /\ <<cur[w], at[w]>> \in Underway
         /\ Underway' = Underway \/ Underway' = Underway \ {<<cur[w], at[w]>>}
<1>1. cur[w] \in Deliveries /\ at[w] \in Parts
  BY DEF QueueInv, SendersAreSound, SenderIsSound
<1>2. PICK x : x = <<cur[w], at[w]>>
  OBVIOUS
<1>3. Underway' = {<<r.row, r.part>> : r \in wire}
                     \cup {<<cur[v], at[v]>> : v \in {u \in Workers : phase[u] = "calling" /\ u # w}}
  BY DEF Underway, CallStays
<1>4. Underway = Underway' \cup {x}
  BY <1>2, <1>3 DEF Underway
<1> QED
  BY <1>1, <1>2, <1>4

(* A request left the wire: that one is gone, unless its transport repeats *)
(* requests and there is another for the same part.                        *)
LEMMA RequestGone ==
  ASSUME QueueInv, NEW r \in wire, wire' = wire \ {r}, \A v \in Workers : CallStays(v)
  PROVE  /\ r.row \in Deliveries /\ r.part \in Parts
         /\ <<r.row, r.part>> \in Underway
         /\ \/ r.row \in Replayed /\ Underway' = Underway
            \/ Underway' = Underway \ {<<r.row, r.part>>}
<1>1. r.row \in Deliveries /\ r.part \in Parts
  BY DEF QueueInv, TypeOK, Requests
<1>2. PICK x : x = <<r.row, r.part>>
  OBVIOUS
<1>3. Underway' = {<<s.row, s.part>> : s \in wire \ {r}}
                     \cup {<<cur[v], at[v]>> : v \in {u \in Workers : phase[u] = "calling"}}
  BY DEF Underway, CallStays
<1>4. Underway = Underway' \cup {x}
  BY <1>2, <1>3 DEF Underway
<1>5. ASSUME x \in Underway' PROVE r.row \in Replayed
  <2>1. CASE \E s \in wire \ {r} : x = <<s.row, s.part>>
    <3>1. PICK s \in wire \ {r} : s.row = r.row /\ s.part = r.part
      BY <1>2, <2>1
    <3> QED
      BY <3>1 DEF QueueInv, AtMostOnce, SamePart
  <2>2. CASE \E v \in Workers : phase[v] = "calling" /\ x = <<cur[v], at[v]>>
    <3>1. PICK v \in Workers : phase[v] = "calling" /\ cur[v] = r.row /\ at[v] = r.part
      BY <1>2, <2>2
    <3>2. Sent(cur[v], at[v])
      BY <3>1 DEF Sent
    <3> QED
      BY <3>1, <3>2 DEF QueueInv, SendersAreSound, SenderIsSound
  <2> QED
    BY <1>3, <1>5, <2>1, <2>2
<1> QED
  BY <1>1, <1>2, <1>4, <1>5

(* A request that ends with nothing else changed is the contract's Drop.   *)
LEMMA DropStep ==
  ASSUME QueueInv, NEW d \in Deliveries, NEW p \in Parts, <<d, p>> \in Underway,
         Underway' = Underway \ {<<d, p>>}, status' = status, cancelled' = cancelled,
         accepted' = accepted
  PROVE  Contract!Next
<1>1. \A e \in Deliveries : FateOf(e)' = FateOf(e)
  BY DEF FateOf
<1>2. Contract!Drop(d, p)
  BY <1>1 DEF Contract!Drop
<1> QED
  BY <1>2 DEF Contract!Next

----------------------------------------------------------------------------
(* The steps that change what is underway.                                 *)

(* The provider's acceptance is the contract's Take, whoever still listens *)
(* and whatever the sweep or a cancellation has since recorded.            *)
LEMMA AcceptStep ==
  ASSUME QueueInv, OrderInv, NEW r \in wire, ProviderAccepts(r)
  PROVE  Contract!Next
<1>1. /\ wire' = wire \ {r} /\ accepted' = accepted \cup {r}
      /\ status' = status /\ cancelled' = cancelled
      /\ phase' = phase /\ cur' = cur /\ at' = at
  BY DEF ProviderAccepts, rowVars, workerVars
<1>2. \A v \in Workers : CallStays(v)
  BY <1>1 DEF CallStays
<1>3. PICK d \in Deliveries, p \in Parts : d = r.row /\ p = r.part
  BY <1>1, <1>2, RequestGone
<1>4. /\ <<d, p>> \in Underway
      /\ (d \in Replayed /\ Underway' = Underway) \/ Underway' = Underway \ {<<d, p>>}
  BY <1>1, <1>2, <1>3, RequestGone
<1>5. ASSUME d \notin Replayed PROVE FateOf(d) \in {"open", "uncertain"}
  <2>1. part[d][p] \in {"sending", "outcome_unknown"}
    BY <1>4, <1>5, UnderwayFacts
  <2>2. status[d] \in {"sending", "outcome_unknown"}
    BY <2>1 DEF OrderInv, RowsAgree, Agrees
  <2> QED
    BY <2>2, FateFacts DEF QueueInv
<1>6. \A e \in Deliveries : FateOf(e)' = FateOf(e)
  BY <1>1 DEF FateOf
<1>7. [e \in Deliveries |-> {s.part : s \in {t \in accepted : t.row = e}}]'
        = [[e \in Deliveries |-> {s.part : s \in {t \in accepted : t.row = e}}]
             EXCEPT ![d] = @ \cup {p}]
  <2>1. ASSUME NEW e \in Deliveries
        PROVE  {s.part : s \in {t \in accepted' : t.row = e}}
                 = IF e = d THEN {s.part : s \in {t \in accepted : t.row = e}} \cup {p}
                   ELSE {s.part : s \in {t \in accepted : t.row = e}}
    BY <1>1, <1>3
  <2> QED
    BY <2>1
<1>8. Contract!Take(d, p)
  BY <1>1, <1>4, <1>5, <1>6, <1>7 DEF Contract!Take
<1> QED
  BY <1>8 DEF Contract!Next

(* begin_part's committed marker is the contract's Start: the delivery is  *)
(* open and not withdrawn, every earlier part was taken and, unless its    *)
(* transport repeats requests, nothing else of it is underway.             *)
LEMMA StartStep ==
  ASSUME QueueInv, OrderInv, NEW w \in Workers, begin_part(w), phase'[w] = "calling"
  PROVE  Contract!Next
<1>1. PICK d : d = cur[w]
  OBVIOUS
<1>2. PICK p : p = at[w]
  OBVIOUS
<1>t. /\ phase \in [Workers -> {"down", "loop", "ready", "calling", "waiting", "reporting"}]
      /\ part[d] \in [Parts -> PartStatus]
  <2>1. d \in Deliveries
    BY <1>1 DEF begin_part, QueueInv, SendersAreSound, SenderIsSound
  <2> QED
    BY <2>1 DEF QueueInv, TypeOK
<1>3. phase[w] = "ready" /\ d \in Deliveries /\ p \in Parts /\ claim[w][d] # 0
  BY <1>1, <1>2 DEF begin_part, QueueInv, SendersAreSound, SenderIsSound
<1>4. ~finish(w, cur[w])
  BY <1>t DEF finish
<1>5. /\ own_row_fence(w, d) /\ ~cancelled[d]
      /\ part[d][p] \in is_unfinished
      /\ phase' = [phase EXCEPT ![w] = "calling"]
      /\ cur' = cur /\ at' = at
      /\ status' = status /\ cancelled' = cancelled
      /\ wire' = wire /\ accepted' = accepted
  BY <1>1, <1>2, <1>4 DEF begin_part, live_fence, providerVars
<1>6. Agrees("sending", part[d]) /\ status[d] = "sending"
  <2>1. status[d] = "sending"
    BY <1>5 DEF own_row_fence
  <2> QED
    BY <1>3, <2>1 DEF OrderInv, RowsAgree
<1>7. BatchOK(w, d)
  BY <1>3 DEF OrderInv, BatchesOK
<1>8. \A q \in Parts : part[d][q] \notin {"sending", "outcome_unknown"}
  <2>1. \A q \in Parts : part[d][q] # "sending"
    BY <1>3, <1>5, <1>7 DEF BatchOK
  <2> QED
    BY <1>6, <2>1 DEF Agrees
<1>9. d \in Replayed \/ ((\A q \in Parts : <<d, q>> \notin Underway) /\ p \notin Taken(d))
  BY <1>3, <1>5, <1>8, QuietFacts DEF is_unfinished
<1>11. ASSUME NEW q \in Parts, q < p PROVE q \in Taken(d)
  <2>1. BeginsFirst(w)
    BY DEF OrderInv, BeginsInOrder
  <2>2. p \in Nat /\ q \in Nat
    BY <1>3, SomePart
  <2>3. q \notin todo[w][d]
    <3>1. \A s \in todo[w][d] : p <= s
      BY <1>1, <1>2, <1>3, <2>1 DEF BeginsFirst
    <3> QED
      BY <1>11, <2>2, <3>1
  <2>4. part[d][q] \notin is_unfinished
    BY <1>3, <1>5, <1>7, <2>3 DEF BatchOK
  <2>5. part[d][q] \in PartStatus
    BY <1>t
  <2>6. part[d][q] = "delivered"
    BY <1>6, <1>8, <2>4, <2>5 DEF Agrees, PartStatus, is_unfinished
  <2>7. \E r \in accepted : r.row = d /\ r.part = q
    BY <1>3, <2>6 DEF QueueInv, RowsTellTheTruth, TrueOf
  <2> QED
    BY <2>7, TakenMeans
<1>12. Underway' = Underway \cup {<<d, p>>}
  <2>1. \A v \in Workers : phase'[v] = IF v = w THEN "calling" ELSE phase[v]
    BY <1>t, <1>5
  <2> QED
    BY <1>1, <1>2, <1>3, <1>5, <2>1 DEF Underway
<1>13. FateOf(d) = "open"
  BY <1>3, <1>6, FateFacts DEF QueueInv
<1>14. \A e \in Deliveries : FateOf(e)' = FateOf(e)
  BY <1>5 DEF FateOf
<1>15. Contract!Start(d, p)
  BY <1>3, <1>5, <1>9, <1>11, <1>12, <1>13, <1>14
  DEF Contract!Start, Contract!Quiet, Taken
<1> QED
  BY <1>3, <1>15 DEF Contract!Next

----------------------------------------------------------------------------
(* Every step.                                                             *)

(* Nothing is started, taken or dropped: the step is the contract's Settle *)
(* or changes nothing it speaks of.                                        *)
Settles == Underway' = Underway /\ accepted' = accepted

(* A worker's step starts a part, drops one it was about to call for or    *)
(* that was refused, or settles.                                           *)
LEMMA WorkerRefines ==
  ASSUME QueueInv, OrderInv, NEW w \in Workers, WorkerStep(w)
  PROVE  Contract!Next \/ Settles
<1>t. phase \in [Workers -> {"down", "loop", "ready", "calling", "waiting", "reporting"}]
  BY DEF QueueInv, TypeOK
<1>f. ASSUME NEW d, phase[w] # "calling", finish(w, d), UNCHANGED providerVars PROVE Settles
  BY <1>f, FinishUnderway DEF Settles, providerVars
<1>1. CASE (\E S \in SUBSET Deliveries : claim_deliveries(w, S)) \/ reap_expired_deliveries(w)
  <2>1. UNCHANGED <<phase, cur, at, wire, accepted>>
    BY <1>1 DEF claim_deliveries, reap_expired_deliveries, workerVars, providerVars
  <2> QED
    BY <2>1, SameUnderway DEF Settles, CallStays
<1>2. ASSUME NEW d \in Deliveries, NEW p \in Parts, renew_delivery_leases(w, d, p) PROVE Settles
  <2>1. /\ phase[w] = "loop" /\ UNCHANGED <<wire, accepted>>
        /\ \/ phase' = [phase EXCEPT ![w] = "ready"]
           \/ phase' = phase
        /\ \A v \in Workers : v # w => cur'[v] = cur[v] /\ at'[v] = at[v]
    BY <1>2 DEF renew_delivery_leases, Turn, providerVars, QueueInv, TypeOK
  <2>2. \A v \in Workers : CallStays(v)
    BY <1>t, <2>1 DEF CallStays
  <2> QED
    BY <2>1, <2>2, SameUnderway DEF Settles
<1>3. CASE begin_part(w)
  <2>1. CASE phase'[w] = "calling"
    BY <1>3, <2>1, StartStep
  <2>2. CASE phase'[w] # "calling"
    <3>1. phase[w] = "ready" /\ UNCHANGED providerVars
      BY <1>3 DEF begin_part
    <3>2. finish(w, cur[w])
      <4>1. phase' # [phase EXCEPT ![w] = "calling"]
        BY <1>t, <2>2
      <4> QED
        BY <1>3, <4>1 DEF begin_part
    <3> QED
      BY <1>f, <3>1, <3>2
  <2> QED
    BY <2>1, <2>2
<1>4. CASE call_provider(w)
  <2>1. /\ phase[w] = "calling"
        /\ UNCHANGED <<status, cancelled, cur, at, accepted>>
        /\ cur[w] \in Deliveries /\ at[w] \in Parts
    BY <1>4 DEF call_provider, rowVars, QueueInv, SendersAreSound, SenderIsSound
  <2>2. CASE ~stopping[w]
    <3>1. /\ wire' = wire \cup {RequestOf(w)}
          /\ \A v \in Workers : phase'[v] = IF v = w THEN "waiting" ELSE phase[v]
      BY <1>4, <1>t, <2>2 DEF call_provider
    <3>2. PICK r : r = RequestOf(w)
      OBVIOUS
    <3>3. <<r.row, r.part>> = <<cur[w], at[w]>> /\ wire' = wire \cup {r}
      BY <3>1, <3>2 DEF RequestOf
    <3>4. Underway' = Underway
      BY <2>1, <3>1, <3>3 DEF Underway
    <3> QED
      BY <2>1, <3>4 DEF Settles
  <2>3. CASE stopping[w]
    <3>1. wire' = wire /\ phase' = [phase EXCEPT ![w] = "reporting"]
      BY <1>4, <2>3 DEF call_provider
    <3>2. /\ <<cur[w], at[w]>> \in Underway
          /\ Underway' = Underway \/ Underway' = Underway \ {<<cur[w], at[w]>>}
      BY <1>t, <2>1, <3>1, CallEnds DEF CallStays
    <3> QED
      BY <2>1, <3>2, DropStep DEF Settles
  <2> QED
    BY <2>2, <2>3
<1>5. ASSUME NEW o \in ProviderSendOutcome, provider_returns(w, o) PROVE Contract!Next \/ Settles
  <2>1. PICK r : r = RequestOf(w)
    OBVIOUS
  <2>2. /\ phase[w] = "waiting" /\ phase' = [phase EXCEPT ![w] = "reporting"]
        /\ UNCHANGED <<status, cancelled, cur, at, accepted>>
        /\ \/ wire' = wire
           \/ r \in wire /\ wire' = wire \ {r}
    BY <1>5, <2>1 DEF provider_returns, rowVars
  <2>3. \A v \in Workers : CallStays(v)
    BY <1>t, <2>2 DEF CallStays
  <2>4. CASE wire' = wire
    BY <2>2, <2>3, <2>4, SameUnderway DEF Settles
  <2>5. CASE r \in wire /\ wire' = wire \ {r}
    <3>1. /\ r.row \in Deliveries /\ r.part \in Parts
          /\ <<r.row, r.part>> \in Underway
          /\ Underway' = Underway \/ Underway' = Underway \ {<<r.row, r.part>>}
      BY <2>3, <2>5, RequestGone
    <3> QED
      BY <2>2, <3>1, DropStep DEF Settles
  <2> QED
    BY <2>2, <2>4, <2>5
<1>6. CASE complete_part(w)
  <2>1. phase[w] = "reporting" /\ UNCHANGED providerVars
    BY <1>6 DEF complete_part
  <2>2. \/ finish(w, cur[w])
        \/ /\ phase' = [phase EXCEPT ![w] = "loop"] /\ cur' = cur
           /\ at' = [at EXCEPT ![w] = 0]
    BY <1>6 DEF complete_part
  <2>3. CASE /\ phase' = [phase EXCEPT ![w] = "loop"] /\ cur' = cur
             /\ at' = [at EXCEPT ![w] = 0]
    <3>1. at \in [Workers -> 0 .. NParts]
      BY DEF QueueInv, TypeOK
    <3>2. \A v \in Workers : CallStays(v)
      BY <1>t, <2>1, <2>3, <3>1 DEF CallStays
    <3> QED
      BY <2>1, <3>2, SameUnderway DEF Settles, providerVars
  <2> QED
    BY <1>f, <2>1, <2>2, <2>3
<1>7. ASSUME NEW d \in Deliveries, fail_delivery(w, d) \/ release_delivery(w, d) PROVE Settles
  <2>1. phase[w] # "calling" /\ finish(w, d) /\ UNCHANGED providerVars
    BY <1>7 DEF fail_delivery, release_delivery, Turn
  <2> QED
    BY <1>f, <2>1
<1> QED
  BY <1>1, <1>2, <1>3, <1>4, <1>5, <1>6, <1>7 DEF WorkerStep

(* A step around the workers takes or drops a request, or settles.         *)
LEMMA EnvironmentRefines ==
  ASSUME QueueInv, OrderInv, Environment
  PROVE  Contract!Next \/ Settles
<1>t. phase \in [Workers -> {"down", "loop", "ready", "calling", "waiting", "reporting"}]
  BY DEF QueueInv, TypeOK
<1>1. ASSUME NEW w \in Workers, NEW d \in Deliveries, WriteFails(w, d) PROVE Settles
  <2>1. phase[w] # "calling" /\ finish(w, d) /\ UNCHANGED providerVars
    BY <1>1 DEF WriteFails, Turn
  <2> QED
    BY <2>1, FinishUnderway DEF Settles, providerVars
<1>2. ASSUME NEW r \in wire, ProviderAccepts(r) PROVE Contract!Next
  BY <1>2, AcceptStep
<1>3. ASSUME NEW r \in wire, RequestDropped(r) PROVE Contract!Next \/ Settles
  <2>1. wire' = wire \ {r} /\ UNCHANGED <<status, cancelled, accepted, phase, cur, at>>
    BY <1>3 DEF RequestDropped, rowVars, workerVars
  <2>2. \A v \in Workers : CallStays(v)
    BY <2>1 DEF CallStays
  <2> QED
    BY <2>1, <2>2, RequestGone, DropStep DEF Settles
<1>4. ASSUME NEW w \in Workers, WorkerEnds(w) PROVE Contract!Next \/ Settles
  <2>1. /\ UNCHANGED <<status, cancelled, wire, accepted>>
        /\ phase'[w] = "down"
        /\ \A v \in Workers : v # w => CallStays(v)
    BY <1>4, <1>t DEF WorkerEnds, rowVars, providerVars, CallStays, QueueInv, TypeOK
  <2>2. CASE phase[w] # "calling"
    <3>1. CallStays(w)
      BY <2>1, <2>2 DEF CallStays
    <3> QED
      BY <2>1, <3>1, SameUnderway DEF Settles
  <2>3. CASE phase[w] = "calling"
    <3>1. /\ cur[w] \in Deliveries /\ at[w] \in Parts
          /\ <<cur[w], at[w]>> \in Underway
          /\ Underway' = Underway \/ Underway' = Underway \ {<<cur[w], at[w]>>}
      BY <2>1, <2>3, CallEnds
    <3> QED
      BY <2>1, <3>1, DropStep DEF Settles
  <2> QED
    BY <2>2, <2>3
<1>5. ASSUME NEW w \in Workers, ShutdownRequested(w) \/ WorkerStarts(w) PROVE Settles
  <2>1. /\ UNCHANGED <<wire, accepted, cur, at>>
        /\ \/ phase' = phase
           \/ phase[w] = "down" /\ phase' = [phase EXCEPT ![w] = "loop"]
    BY <1>5 DEF ShutdownRequested, WorkerStarts, providerVars
  <2>2. \A v \in Workers : CallStays(v)
    BY <1>t, <2>1 DEF CallStays
  <2> QED
    BY <2>1, <2>2, SameUnderway DEF Settles
<1>6. ASSUME NEW d \in Deliveries,
             \/ enqueue(d) \/ cancel_deliveries(d)
             \/ \E o \in {"applied", "final_not_applied"}, live \in BOOLEAN :
                   settle_unknown_delivery(d, o, live)
             \/ LeaseLapses(d) \/ BackoffElapses(d) \/ ProofExpires(d)
      PROVE  Settles
  <2>1. UNCHANGED <<workerVars, providerVars>>
    BY <1>6 DEF enqueue, cancel_deliveries, settle_unknown_delivery, LeaseLapses,
       BackoffElapses, ProofExpires
  <2> QED
    BY <2>1, SameUnderway DEF Settles, workerVars, providerVars, CallStays
<1> QED
  BY <1>1, <1>2, <1>3, <1>4, <1>5, <1>6 DEF Environment

(* Every step of the queue is a step of the contract.                      *)
LEMMA StepRefines ==
  QueueInv /\ OrderInv /\ QueueInv' /\ OrderInv' /\ [Next]_vars => [Contract!Next]_(Contract!vars)
<1> SUFFICES ASSUME QueueInv, OrderInv, QueueInv', OrderInv', [Next]_vars
             PROVE  Contract!Next
  OBVIOUS
<1>1. ASSUME Next PROVE Contract!Next \/ Settles
  BY <1>1, WorkerRefines, EnvironmentRefines DEF Next
<1>2. ASSUME UNCHANGED vars PROVE Settles
  <2>1. UNCHANGED <<wire, accepted, phase, cur, at>>
    BY <1>2 DEF vars, workerVars, providerVars
  <2> QED
    BY <2>1, SameUnderway DEF Settles, CallStays
<1>3. Contract!Next \/ Settles
  BY <1>1, <1>2
<1>4. Settles => Contract!Next
  BY SettleSays DEF Settles, Contract!Next
<1> QED
  BY <1>3, <1>4

(* The empty queue is the contract's beginning.                            *)
LEMMA InitRefines == Init => Contract!Init
<1> SUFFICES ASSUME Init PROVE Contract!Init
  OBVIOUS
<1>1. \A d \in Deliveries : FateOf(d) = "absent"
  BY DEF Init, FateOf, is_claimable
<1>2. Underway = {}
  BY DEF Init, Underway
<1>3. cancelled = [d \in Deliveries |-> FALSE] /\ accepted = {}
  BY DEF Init
<1> QED
  BY <1>1, <1>2, <1>3 DEF Contract!Init

(* The queue, with its leases, sweeps, cancellations, evidence, crashes    *)
(* and lost acknowledgements, keeps the contract: parts reach the provider *)
(* in order and what is said of a delivery is true; where the transport    *)
(* does not repeat ambiguous requests, one at a time and at most once.     *)
THEOREM QueueImplementsContract == Spec => ImplementsContract
<1>1. Init => Contract!Init
  BY InitRefines
<1>2. QueueInv /\ OrderInv /\ QueueInv' /\ OrderInv' /\ [Next]_vars
        => [Contract!Next]_(Contract!vars)
  BY StepRefines
<1> QED
  BY <1>1, <1>2, OrderInvHolds, PTL DEF Spec, ImplementsContract, Contract!Spec

----------------------------------------------------------------------------
(* What the contract comes to, said of the queue itself.                   *)

(* A part is underway or taken only when every earlier part was taken and, *)
(* unless its transport repeats requests, no other part is underway.       *)
PartsInOrder ==
    \A d \in Deliveries, p, q \in Parts :
        /\ <<d, p>> \in Underway /\ <<d, q>> \in Underway => p = q \/ d \in Replayed
        /\ (<<d, p>> \in Underway \/ p \in Taken(d)) /\ q < p => q \in Taken(d)

(* Every step the contract allows keeps the order.                         *)
LEMMA ContractKeepsOrder ==
  PartsInOrder /\ [Contract!Next]_(Contract!vars) => PartsInOrder'
<1> SUFFICES ASSUME PartsInOrder, [Contract!Next]_(Contract!vars) PROVE PartsInOrder'
  OBVIOUS
<1> DEFINE taken == [d \in Deliveries |-> Taken(d)]
<1>t. taken = [d \in Deliveries |-> {r.part : r \in {s \in accepted : s.row = d}}]
  BY DEF Taken
<1>1. CASE Contract!Settle \/ UNCHANGED Contract!vars
  <2>1. Underway' = Underway /\ taken' = taken
    BY <1>1, <1>t DEF Contract!Settle, Contract!vars, Taken
  <2>2. \A d \in Deliveries : Taken(d)' = Taken(d)
    BY <2>1
  <2> QED
    BY <2>1, <2>2 DEF PartsInOrder
<1>2. ASSUME NEW d \in Deliveries, NEW p \in Parts, Contract!Start(d, p) PROVE PartsInOrder'
  <2>1. /\ d \in Replayed \/ \A q \in Parts : <<d, q>> \notin Underway
        /\ Underway' = Underway \cup {<<d, p>>}
        /\ taken' = taken
        /\ \A q \in Parts : q < p => q \in taken[d]
    BY <1>2, <1>t DEF Contract!Start, Contract!Quiet, Taken
  <2>2. /\ \A e \in Deliveries : Taken(e)' = Taken(e)
        /\ \A q \in Parts : q < p => q \in Taken(d)
    BY <2>1
  <2> QED
    BY <2>1, <2>2 DEF PartsInOrder
<1>3. ASSUME NEW d \in Deliveries, NEW p \in Parts, Contract!Take(d, p) PROVE PartsInOrder'
  <2>1. /\ <<d, p>> \in Underway
        /\ Underway' \in {Underway, Underway \ {<<d, p>>}}
        /\ taken' = [taken EXCEPT ![d] = @ \cup {p}]
    BY <1>3, <1>t DEF Contract!Take, Taken
  <2>2. \A e \in Deliveries : Taken(e)' = IF e = d THEN Taken(e) \cup {p} ELSE Taken(e)
    BY <2>1
  <2>3. ASSUME NEW e \in Deliveries, NEW x \in Parts, NEW y \in Parts
        PROVE  /\ <<e, x>> \in Underway' /\ <<e, y>> \in Underway' => x = y \/ e \in Replayed
               /\ (<<e, x>> \in Underway' \/ x \in Taken(e)') /\ y < x => y \in Taken(e)'
    <3>1. /\ <<e, x>> \in Underway' => <<e, x>> \in Underway
          /\ <<e, y>> \in Underway' => <<e, y>> \in Underway
      BY <2>1
    <3>2. /\ x \in Taken(e)' => x \in Taken(e) \/ <<e, x>> \in Underway
          /\ y \in Taken(e) => y \in Taken(e)'
      BY <2>1, <2>2
    <3> QED
      BY <3>1, <3>2 DEF PartsInOrder
  <2> QED
    BY <2>3 DEF PartsInOrder
<1>4. ASSUME NEW d \in Deliveries, NEW p \in Parts, Contract!Drop(d, p) PROVE PartsInOrder'
  <2>1. Underway' = Underway \ {<<d, p>>} /\ taken' = taken
    BY <1>4, <1>t DEF Contract!Drop, Taken
  <2>2. \A e \in Deliveries : Taken(e)' = Taken(e)
    BY <2>1
  <2> QED
    BY <2>1, <2>2 DEF PartsInOrder
<1> QED
  BY <1>1, <1>2, <1>3, <1>4 DEF Contract!Next

(* The provider sees the parts of a delivery in order and, unless its      *)
(* transport repeats ambiguous requests, one at a time, across workers,    *)
(* crashes, retries and late acceptances.                                  *)
THEOREM PartsGoInOrder == Spec => []PartsInOrder
<1>1. Init => PartsInOrder
  BY DEF Init, PartsInOrder, Underway, Taken
<1>2. PartsInOrder /\ [Contract!Next]_(Contract!vars) => PartsInOrder'
  BY ContractKeepsOrder
<1>3. Spec => [][Contract!Next]_(Contract!vars)
  BY QueueImplementsContract, PTL DEF ImplementsContract, Contract!Spec
<1> QED
  BY <1>1, <1>2, <1>3, PTL DEF Spec
=============================================================================
