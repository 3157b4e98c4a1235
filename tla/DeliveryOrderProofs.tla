------------------------ MODULE DeliveryOrderProofs ------------------------
(***************************************************************************)
(* A second inductive invariant of the delivery queue, on top of QueueInv: *)
(* how a delivery, its parts, the batch that holds it and its predecessor  *)
(* relate.  The argument: while a worker's fence stands, the only part of  *)
(* the delivery that can be sending is the one that worker is at, so at    *)
(* most one part is sending, the answer to it settles the parent exactly,  *)
(* and the snapshot the worker claimed stays what the rows say.            *)
(***************************************************************************)
EXTENDS DeliveryQueueProofs

----------------------------------------------------------------------------
(* The invariant.                                                          *)

(* ParentMatchesParts of one delivery; besides, nothing was sent before it *)
(* is queued, and at most one part is being sent.                          *)
Agrees(st, ps) ==
    /\ st \in is_claimable =>
          /\ \E p \in Parts : ps[p] \in is_unfinished
          /\ \A p \in Parts : ps[p] \notin {"sending", "outcome_unknown", "dead"}
    /\ st = "sending" =>
          /\ \A p \in Parts : ps[p] \notin {"outcome_unknown", "dead"}
          /\ \E p \in Parts : ps[p] \in is_unfinished \cup {"sending"}
    /\ st = "outcome_unknown" => \E p \in Parts : ps[p] = "outcome_unknown"
    /\ \A p \in Parts : ps[p] = "outcome_unknown" => st = "outcome_unknown"
    /\ \A p \in Parts : ps[p] = "sending" => st = "sending"
    /\ st = "delivered" => \A p \in Parts : ps[p] = "delivered"
    /\ (\A p \in Parts : ps[p] = "delivered") => st = "delivered"
    /\ st = "absent" => \A p \in Parts : ps[p] = "prepared"
    /\ \A p, q \in Parts : ps[p] = "sending" /\ ps[q] = "sending" => p = q

RowsAgree == \A d \in Deliveries : Agrees(status[d], part[d])

(* What a worker knows of a delivery it still holds: which parts are left, *)
(* that its lease is renewed, and where the part being sent stands.        *)
BatchOK(w, d) ==
    claim[w][d] # 0 /\ own_row_fence(w, d) =>
        /\ todo[w][d] = {p \in Parts :
                           \/ part[d][p] \in is_unfinished
                           \/ part[d][p] = "sending"}
        /\ lease[d].live => d \in held[w]
        /\ \A p \in Parts : part[d][p] = "sending" =>
              phase[w] \in {"calling", "waiting", "reporting"} /\ cur[w] = d /\ at[w] = p

BatchesOK == \A w \in Workers : \A d \in Deliveries : BatchOK(w, d)

(* A worker about to begin a part begins the first one left.               *)
BeginsFirst(w) ==
    phase[w] = "ready" =>
        at[w] \in todo[w][cur[w]] /\ \A q \in todo[w][cur[w]] : at[w] <= q

BeginsInOrder == \A w \in Workers : BeginsFirst(w)

(* A delivery that was claimed and may have reached the provider.          *)
Active(d) ==
    \/ status[d] = "sending"
    \/ \E r \in wire \cup accepted : r.row = d
    \/ \E w \in Workers : phase[w] = "calling" /\ cur[w] = d

Waits(d) == \A e \in Deliveries : <<d, e>> \in DependsOn => status[e] = "delivered"

PredecessorsFirst == \A d \in Deliveries : Active(d) => Waits(d)

OrderInv == RowsAgree /\ BatchesOK /\ BeginsInOrder /\ PredecessorsFirst

----------------------------------------------------------------------------
(* A delivery and its parts, under each write.                             *)

(* There is a first part.                                                  *)
LEMMA SomePart == 1 \in Parts /\ Parts \subseteq Nat
BY ConstantsAssumption DEF Parts

(* A queued delivery has nothing but prepared parts.                       *)
LEMMA QueuedAgrees ==
  ASSUME NEW ps, Agrees("absent", ps)
  PROVE  Agrees("pending", ps)
BY SomePart DEF Agrees, is_claimable, is_unfinished

(* A claimed delivery has something left to send.                          *)
LEMMA ClaimedAgrees ==
  ASSUME NEW ps, NEW st \in is_claimable, Agrees(st, ps)
  PROVE  Agrees("sending", ps)
BY DEF Agrees, is_claimable, is_unfinished

(* An orphaned or superseded delivery may be buried: nothing was delivered *)
(* whole and nothing is ambiguous.                                         *)
LEMMA BuriedAgrees ==
  ASSUME NEW ps \in [Parts -> PartStatus], NEW st \in is_claimable, Agrees(st, ps)
  PROVE  Agrees("dead_letter", ps) /\ Agrees("dead_letter", bury_unsent_parts(ps))
<1>1. Agrees("dead_letter", ps)
  BY DEF Agrees, is_claimable, is_unfinished
<1>2. \A p \in Parts : bury_unsent_parts(ps)[p] = IF ps[p] \in is_unfinished THEN "dead" ELSE ps[p]
  BY BuryFacts
<1>3. PICK p \in Parts : ps[p] \in is_unfinished
  BY DEF Agrees
<1>4. bury_unsent_parts(ps)[p] = "dead"
  BY <1>2, <1>3
<1>5. \A q \in Parts : bury_unsent_parts(ps)[q] \notin {"sending", "outcome_unknown"}
  BY <1>2 DEF Agrees
<1> QED
  BY <1>1, <1>4, <1>5 DEF Agrees, is_claimable

(* A claim that is given up with nothing being sent.                       *)
LEMMA GivenUpAgrees ==
  ASSUME NEW ps, Agrees("sending", ps), \A p \in Parts : ps[p] # "sending",
         NEW st \in {"pending", "retryable", "dead_letter"}
  PROVE  Agrees(st, ps)
BY DEF Agrees, is_claimable, is_unfinished

(* begin_part starts a part, or finds that its proof expired.              *)
LEMMA BegunAgrees ==
  ASSUME NEW ps \in [Parts -> PartStatus], Agrees("sending", ps),
         \A q \in Parts : ps[q] # "sending", NEW p \in Parts, ps[p] \in is_unfinished
  PROVE  /\ Agrees("sending", [ps EXCEPT ![p] = "sending"])
         /\ Agrees("outcome_unknown", [ps EXCEPT ![p] = "outcome_unknown"])
<1>1. ASSUME NEW s \in {"sending", "outcome_unknown"} PROVE Agrees(s, [ps EXCEPT ![p] = s])
  <2>1. PICK qs : qs = [ps EXCEPT ![p] = s]
    OBVIOUS
  <2>2. qs[p] = s /\ \A q \in Parts : q # p => qs[q] = ps[q]
    BY <2>1
  <2>3. Agrees(s, qs)
    BY <2>2 DEF Agrees, is_claimable, is_unfinished
  <2> QED
    BY <2>1, <2>3
<1> QED
  BY <1>1

(* A part was delivered and others are left.                               *)
LEMMA KeptAgrees ==
  ASSUME NEW ps \in [Parts -> PartStatus], Agrees("sending", ps),
         NEW p \in Parts, ps[p] = "sending",
         NEW qs \in [Parts -> PartStatus], qs[p] = "delivered",
         \A q \in Parts : q # p => qs[q] = ps[q],
         \E q \in Parts : qs[q] \in is_unfinished
  PROVE  Agrees("sending", qs)
BY DEF Agrees, is_claimable, is_unfinished

(* retry_parent_on and settle_parent_on leave the parent where its parts   *)
(* put it.                                                                 *)
LEMMA AnsweredAgrees ==
  ASSUME NEW ps \in [Parts -> PartStatus], NEW p \in Parts, ps[p] # "sending",
         \A q \in Parts : q # p => ps[q] \notin {"sending", "outcome_unknown", "dead"},
         NEW st, \/ st = aggregate_parent_status(ps)
                 \/ aggregate_parent_status(ps) = "retryable" /\ st = "dead_letter"
  PROVE  Agrees(st, ps)
<1>1. CASE \E q \in Parts : ps[q] = "dead"
  BY <1>1 DEF aggregate_parent_status, Agrees, is_claimable
<1>2. CASE ~(\E q \in Parts : ps[q] = "dead") /\ \E q \in Parts : ps[q] = "outcome_unknown"
  BY <1>2 DEF aggregate_parent_status, Agrees, is_claimable
<1>3. CASE /\ \A q \in Parts : ps[q] \notin {"dead", "outcome_unknown"}
           /\ \A q \in Parts : ps[q] = "delivered"
  BY <1>3, SomePart DEF aggregate_parent_status, Agrees, is_claimable
<1>4. CASE /\ \A q \in Parts : ps[q] \notin {"dead", "outcome_unknown"}
           /\ \E q \in Parts : ps[q] # "delivered"
  <2>1. aggregate_parent_status(ps) = "retryable"
    BY <1>4 DEF aggregate_parent_status
  <2>2. \E q \in Parts : ps[q] \in is_unfinished
    BY <1>4 DEF PartStatus, is_unfinished
  <2> QED
    BY <1>4, <2>1, <2>2 DEF Agrees, is_claimable
<1> QED
  BY <1>1, <1>2, <1>3, <1>4

(* settle_cancelled_on leaves the parent where its buried parts put it.    *)
LEMMA SettledAgrees ==
  ASSUME NEW ps \in [Parts -> PartStatus], \A p \in Parts : ps[p] # "sending"
  PROVE  Agrees(cancelled_parent_status(bury_unsent_parts(ps)), bury_unsent_parts(ps))
<1>1. PICK bs : bs = bury_unsent_parts(ps)
  OBVIOUS
<1>2. bs \in [Parts -> PartStatus] /\ \A p \in Parts : bs[p] \notin is_unfinished \cup {"sending"}
  BY <1>1, BuryFacts DEF is_unfinished
<1>3. Agrees(cancelled_parent_status(bs), bs)
  BY <1>2, SomePart DEF Agrees, cancelled_parent_status, is_claimable
<1> QED
  BY <1>1, <1>3

(* The sweep: a part being sent makes its delivery ambiguous.              *)
LEMMA ReapedAgrees ==
  ASSUME QueueInv, NEW w \in Workers, reap_expired_deliveries(w), NEW d \in Deliveries,
         Agrees(status[d], part[d])
  PROVE  Agrees(status'[d], part'[d])
<1> DEFINE swept == [e \in Deliveries |-> IF Expired(e) THEN reaped_status(e) ELSE status[e]]
<1>1. /\ status'[d] = IF Orphaned(d, swept) THEN "dead_letter" ELSE swept[d]
      /\ part'[d] = IF ~Expired(d) THEN part[d]
                    ELSE IF cancelled[d] THEN bury_unsent_parts(reaped_parts(d))
                    ELSE reaped_parts(d)
      /\ Orphaned(d, swept) => swept[d] \in is_claimable
      /\ swept[d] = IF Expired(d) THEN reaped_status(d) ELSE status[d]
  BY DEF reap_expired_deliveries, Orphaned
<1> HIDE DEF swept
<1>2. part[d] \in [Parts -> PartStatus]
  BY DEF QueueInv, TypeOK
<1>3. CASE ~Expired(d)
  BY <1>1, <1>2, <1>3, BuriedAgrees
<1>4. CASE Expired(d)
  <2>1. PICK rs : rs = reaped_parts(d)
    OBVIOUS
  <2>2. /\ rs \in [Parts -> PartStatus]
        /\ \A p \in Parts : rs[p] = IF part[d][p] = "sending" THEN "outcome_unknown" ELSE part[d][p]
    BY <1>2, <2>1 DEF reaped_parts, PartStatus
  <2>3. status[d] = "sending"
    BY <1>4 DEF Expired
  <2>4. /\ \A p \in Parts : rs[p] \notin {"sending", "dead"}
        /\ \E p \in Parts : rs[p] \in is_unfinished \cup {"outcome_unknown"}
    BY <2>2, <2>3 DEF Agrees, is_unfinished
  <2>5. CASE \E p \in Parts : rs[p] = "outcome_unknown"
    <3>1. reaped_status(d) = "outcome_unknown" /\ status'[d] = "outcome_unknown"
      BY <1>1, <1>4, <2>1, <2>5 DEF reaped_status, is_claimable
    <3>2. Agrees("outcome_unknown", rs)
      BY <2>4, <2>5 DEF Agrees, is_claimable
    <3>3. Agrees("outcome_unknown", bury_unsent_parts(rs))
      <4>1. \A p \in Parts : bury_unsent_parts(rs)[p] = IF rs[p] \in is_unfinished THEN "dead" ELSE rs[p]
        BY <2>2, BuryFacts
      <4>2. \A p \in Parts : bury_unsent_parts(rs)[p] # "sending"
        BY <2>4, <4>1
      <4>3. PICK p \in Parts : bury_unsent_parts(rs)[p] = "outcome_unknown"
        BY <2>5, <4>1 DEF is_unfinished
      <4> QED
        BY <4>2, <4>3 DEF Agrees, is_claimable
    <3> QED
      BY <1>1, <1>4, <2>1, <3>1, <3>2, <3>3
  <2>6. CASE \A p \in Parts : rs[p] # "outcome_unknown"
    <3>1. \E p \in Parts : rs[p] \in is_unfinished
      BY <2>4, <2>6
    <3>2. Agrees("retryable", rs) /\ Agrees("dead_letter", rs)
      BY <2>4, <2>6, <3>1 DEF Agrees, is_claimable, is_unfinished
    <3>3. Agrees("dead_letter", bury_unsent_parts(rs))
      BY <2>2, <3>2, BuriedAgrees DEF is_claimable
    <3>4. /\ cancelled[d] => reaped_status(d) = "dead_letter"
          /\ reaped_status(d) \in {"retryable", "dead_letter"}
      BY <2>1, <2>6 DEF reaped_status, attempt_failed_status
    <3> QED
      BY <1>1, <1>4, <2>1, <3>2, <3>3, <3>4 DEF is_claimable
  <2> QED
    BY <2>5, <2>6
<1> QED
  BY <1>3, <1>4

(* Writing one delivery.                                                   *)
LEMMA RowAgrees ==
  ASSUME RowsAgree, NEW d \in Deliveries, Agrees(status'[d], part'[d]),
         \A e \in Deliveries : e # d => status'[e] = status[e] /\ part'[e] = part[e]
  PROVE  RowsAgree'
<1>1. ASSUME NEW e \in Deliveries PROVE Agrees(status'[e], part'[e])
  <2>1. CASE e = d
    BY <2>1
  <2>2. CASE e # d
    BY <2>2 DEF RowsAgree
  <2> QED
    BY <2>1, <2>2
<1> QED
  BY <1>1 DEF RowsAgree

----------------------------------------------------------------------------
(* A batch, under each write.                                              *)

(* The fence of a delivery is one worker's.                                *)
LEMMA OneFence ==
  ASSUME NEW w \in Workers, NEW v \in Workers, NEW d \in Deliveries,
         own_row_fence(w, d), own_row_fence(v, d)
  PROVE  v = w
BY DEF own_row_fence

(* A worker that holds a delivery and is not sending a part of it knows    *)
(* that none is being sent.                                                *)
LEMMA NothingSending ==
  ASSUME OrderInv, NEW w \in Workers, NEW d \in Deliveries,
         claim[w][d] # 0, own_row_fence(w, d), phase[w] \in {"loop", "ready"}
  PROVE  /\ Agrees("sending", part[d])
         /\ \A p \in Parts : part[d][p] # "sending"
BY DEF OrderInv, RowsAgree, BatchesOK, BatchOK, own_row_fence

(* What a worker knows of a delivery a step leaves to it.                  *)
LEMMA BatchFrame ==
  ASSUME NEW v \in Workers, NEW e \in Deliveries, BatchOK(v, e),
         claim'[v][e] \in {0, claim[v][e]}, todo'[v][e] = todo[v][e],
         e \in held[v] => e \in held'[v],
         own_row_fence(v, e)' =>
             /\ status[e] = "sending" /\ lease[e].exec = lease'[e].exec
             /\ lease[e].owner = lease'[e].owner
             /\ part'[e] = part[e] /\ (lease'[e].live => lease[e].live),
         \/ phase'[v] = phase[v] /\ cur'[v] = cur[v] /\ at'[v] = at[v]
         \/ cur[v] # e \/ phase[v] \notin {"calling", "waiting", "reporting"}
         \/ /\ {phase[v], phase'[v]} \subseteq {"calling", "waiting", "reporting"}
            /\ cur'[v] = cur[v] /\ at'[v] = at[v]
  PROVE  BatchOK(v, e)'
<1> SUFFICES ASSUME claim'[v][e] # 0, own_row_fence(v, e)'
             PROVE  /\ todo'[v][e] = {p \in Parts :
                                        \/ part'[e][p] \in is_unfinished
                                        \/ part'[e][p] = "sending"}
                    /\ lease'[e].live => e \in held'[v]
                    /\ \A p \in Parts : part'[e][p] = "sending" =>
                          /\ phase'[v] \in {"calling", "waiting", "reporting"}
                          /\ cur'[v] = e /\ at'[v] = p
  BY DEF BatchOK
<1>1. claim[v][e] # 0 /\ own_row_fence(v, e) /\ part'[e] = part[e]
  BY DEF own_row_fence
<1> QED
  BY <1>1 DEF BatchOK

(* A worker that finishes with a delivery, whatever it wrote to its row,   *)
(* leaves every batch as it was for the rest.                              *)
LEMMA FinishBatches ==
  ASSUME TypeOK, BatchesOK, BeginsInOrder, NEW w \in Workers, NEW d \in Deliveries,
         finish(w, d), cur[w] = d \/ phase[w] = "loop",
         \A e \in Deliveries : e # d =>
            status'[e] = status[e] /\ lease'[e] = lease[e] /\ part'[e] = part[e],
         \/ \A v \in Workers : v # w => ~own_row_fence(v, d)'
         \/ status'[d] = status[d] /\ lease'[d] = lease[d] /\ part'[d] = part[d]
  PROVE  BatchesOK' /\ BeginsInOrder'
<1>1. /\ \A v \in Workers : v # w =>
           /\ phase'[v] = phase[v] /\ cur'[v] = cur[v] /\ at'[v] = at[v]
           /\ claim'[v] = claim[v] /\ todo'[v] = todo[v] /\ held'[v] = held[v]
      /\ claim'[w][d] = 0 /\ phase'[w] = "loop"
      /\ \A e \in Deliveries : e # d =>
           claim'[w][e] = claim[w][e] /\ todo'[w][e] = todo[w][e]
      /\ held'[w] = held[w] \ {d}
  BY DEF finish, TypeOK
<1>2. ASSUME NEW v \in Workers, NEW e \in Deliveries PROVE BatchOK(v, e)'
  <2>1. BatchOK(v, e)
    BY DEF BatchesOK
  <2>2. CASE e # d
    <3>1. own_row_fence(v, e)' =>
             /\ status[e] = "sending" /\ lease[e].exec = lease'[e].exec
             /\ lease[e].owner = lease'[e].owner
             /\ part'[e] = part[e] /\ (lease'[e].live => lease[e].live)
      BY <2>2 DEF own_row_fence
    <3>2. CASE v = w
      BY <1>1, <2>1, <2>2, <3>1, <3>2, BatchFrame
    <3>3. CASE v # w
      BY <1>1, <2>1, <3>1, <3>3, BatchFrame
    <3> QED
      BY <3>2, <3>3
  <2>3. CASE e = d /\ v = w
    BY <1>1, <2>3 DEF BatchOK
  <2>4. CASE e = d /\ v # w /\ ~own_row_fence(v, d)'
    BY <2>4 DEF BatchOK
  <2>5. CASE /\ e = d /\ v # w
             /\ status'[d] = status[d] /\ lease'[d] = lease[d] /\ part'[d] = part[d]
    <3>1. own_row_fence(v, e)' =>
             /\ status[e] = "sending" /\ lease[e].exec = lease'[e].exec
             /\ lease[e].owner = lease'[e].owner
             /\ part'[e] = part[e] /\ (lease'[e].live => lease[e].live)
      BY <2>5 DEF own_row_fence
    <3> QED
      BY <1>1, <2>1, <2>5, <3>1, BatchFrame
  <2> QED
    BY <2>2, <2>3, <2>4, <2>5
<1>3. ASSUME NEW v \in Workers PROVE BeginsFirst(v)'
  BY <1>1 DEF BeginsInOrder, BeginsFirst
<1> QED
  BY <1>2, <1>3 DEF BatchesOK, BeginsInOrder

(* A write by somebody who holds no lease takes deliveries away, or leaves *)
(* the batches as they are.                                                *)
LEMMA RowsOnlyBatches ==
  ASSUME BatchesOK, BeginsInOrder, UNCHANGED workerVars,
         \A e \in Deliveries : status'[e] = "sending" =>
            /\ status[e] = "sending" /\ lease[e].exec = lease'[e].exec
            /\ lease[e].owner = lease'[e].owner
            /\ part'[e] = part[e] /\ (lease'[e].live => lease[e].live)
  PROVE  BatchesOK' /\ BeginsInOrder'
<1>1. /\ phase' = phase /\ cur' = cur /\ at' = at /\ claim' = claim
      /\ todo' = todo /\ held' = held
  BY DEF workerVars
<1>2. ASSUME NEW v \in Workers, NEW e \in Deliveries PROVE BatchOK(v, e)'
  <2>1. BatchOK(v, e)
    BY DEF BatchesOK
  <2>2. own_row_fence(v, e)' => status'[e] = "sending"
    BY DEF own_row_fence
  <2> QED
    BY <1>1, <2>1, <2>2, BatchFrame
<1>3. BeginsInOrder'
  BY <1>1 DEF BeginsInOrder, BeginsFirst
<1> QED
  BY <1>2, <1>3 DEF BatchesOK

----------------------------------------------------------------------------
(* Predecessors.                                                           *)

(* A delivered predecessor stays delivered, so only a delivery that        *)
(* becomes active matters.                                                 *)
LEMMA ActiveFrame ==
  ASSUME QueueInv, [Next]_vars, PredecessorsFirst,
         \A d \in Deliveries : Active(d)' => Active(d) \/ Waits(d)
  PROVE  PredecessorsFirst'
<1>1. \A e \in Deliveries : status[e] = "delivered" => status'[e] = "delivered"
  BY StepKeepsOutcomes DEF OutcomeStays
<1>2. ASSUME NEW d \in Deliveries, Active(d)' PROVE Waits(d)'
  <2>1. Waits(d)
    BY <1>2 DEF PredecessorsFirst
  <2> QED
    BY <1>1, <2>1 DEF Waits
<1> QED
  BY <1>2 DEF PredecessorsFirst

(* Nothing becomes active when no claim, call or request appears.          *)
LEMMA NothingActivated ==
  ASSUME \A d \in Deliveries : status'[d] = "sending" => status[d] = "sending",
         \A r \in wire' \cup accepted' : r \in wire \cup accepted,
         \A v \in Workers : phase'[v] = "calling" => phase[v] = "calling" /\ cur'[v] = cur[v]
  PROVE  \A d \in Deliveries : Active(d)' => Active(d) \/ Waits(d)
BY DEF Active

----------------------------------------------------------------------------
(* The steps.                                                              *)

(* What a step has to show.                                                *)
OrderStep ==
    /\ RowsAgree' /\ BatchesOK' /\ BeginsInOrder'
    /\ \A d \in Deliveries : Active(d)' => Active(d) \/ Waits(d)

(* A worker finishes with a delivery, after a write to its row or none.    *)
LEMMA FinishStep ==
  ASSUME QueueInv, OrderInv, NEW w \in Workers, NEW d \in Deliveries,
         finish(w, d), cur[w] = d \/ phase[w] = "loop", UNCHANGED providerVars,
         \A e \in Deliveries : e # d =>
            status'[e] = status[e] /\ lease'[e] = lease[e] /\ part'[e] = part[e],
         \/ \A v \in Workers : v # w => ~own_row_fence(v, d)'
         \/ status'[d] = status[d] /\ lease'[d] = lease[d] /\ part'[d] = part[d],
         status'[d] = "sending" => status[d] = "sending",
         Agrees(status'[d], part'[d])
  PROVE  OrderStep
<1>1. TypeOK /\ RowsAgree /\ BatchesOK /\ BeginsInOrder
  BY DEF QueueInv, OrderInv
<1>2. RowsAgree'
  BY <1>1, RowAgrees
<1>3. BatchesOK' /\ BeginsInOrder'
  BY <1>1, FinishBatches
<1>4. \A e \in Deliveries : Active(e)' => Active(e) \/ Waits(e)
  <2>1. \A v \in Workers : phase'[v] = "calling" => phase[v] = "calling" /\ cur'[v] = cur[v]
    BY <1>1, FinishFacts
  <2>2. \A e \in Deliveries : status'[e] = "sending" => status[e] = "sending"
    OBVIOUS
  <2> QED
    BY <2>1, <2>2, NothingActivated DEF providerVars
<1> QED
  BY <1>2, <1>3, <1>4 DEF OrderStep

(* A worker walks away and writes nothing.                                 *)
LEMMA WalksAway ==
  ASSUME QueueInv, OrderInv, NEW w \in Workers, NEW d \in Deliveries,
         finish(w, d), cur[w] = d \/ phase[w] = "loop", UNCHANGED <<rowVars, providerVars>>
  PROVE  OrderStep
<1>1. UNCHANGED <<status, lease, part>> /\ UNCHANGED providerVars
  BY DEF rowVars
<1>2. Agrees(status[d], part[d])
  BY DEF OrderInv, RowsAgree
<1> QED
  BY <1>1, <1>2, FinishStep

(* A fenced write that gives the lease back.                               *)
LEMMA ReleaseStep ==
  ASSUME QueueInv, OrderInv, NEW w \in Workers, NEW d \in Deliveries,
         finish(w, d), cur[w] = d \/ phase[w] = "loop", UNCHANGED providerVars,
         NEW st, status' = [status EXCEPT ![d] = st], st # "sending",
         lease' = [lease EXCEPT ![d] = NoLease],
         NEW ps, part' = [part EXCEPT ![d] = ps], Agrees(st, ps)
  PROVE  OrderStep
<1>1. /\ status'[d] = st /\ part'[d] = ps
      /\ \A e \in Deliveries : e # d =>
            status'[e] = status[e] /\ lease'[e] = lease[e] /\ part'[e] = part[e]
  BY DEF QueueInv, TypeOK
<1>2. \A v \in Workers : ~own_row_fence(v, d)'
  BY <1>1 DEF own_row_fence
<1> QED
  BY <1>1, <1>2, FinishStep

(* settle_cancelled_on, with nothing being sent any more.                  *)
LEMMA SettleCancelledStep ==
  ASSUME QueueInv, OrderInv, NEW w \in Workers, NEW d \in Deliveries,
         finish(w, d), cur[w] = d \/ phase[w] = "loop", UNCHANGED providerVars,
         NEW ps \in [Parts -> PartStatus], \A p \in Parts : ps[p] # "sending",
         settle_cancelled(d, ps)
  PROVE  OrderStep
<1>1. PICK bs : bs = bury_unsent_parts(ps)
  OBVIOUS
<1>2. Agrees(cancelled_parent_status(bs), bs) /\ bs \in [Parts -> PartStatus]
  BY <1>1, SettledAgrees, BuryFacts
<1>3. cancelled_parent_status(bs) # "sending"
  BY <1>2, CancelledStatusFacts
<1>4. /\ part' = [part EXCEPT ![d] = bs]
      /\ status' = [status EXCEPT ![d] = cancelled_parent_status(bs)]
      /\ lease' = [lease EXCEPT ![d] = NoLease]
  BY <1>1 DEF settle_cancelled
<1> QED
  BY <1>2, <1>3, <1>4, ReleaseStep

(* begin_part.                                                             *)
LEMMA BeginPartStep ==
  ASSUME QueueInv, OrderInv, NEW w \in Workers, begin_part(w)
  PROVE  OrderStep
<1>1. PICK d : d = cur[w]
  OBVIOUS
<1>2. PICK p : p = at[w]
  OBVIOUS
<1>3. /\ d \in Deliveries /\ p \in Parts /\ claim[w][d] # 0 /\ phase[w] = "ready"
      /\ cur[w] = d /\ UNCHANGED providerVars
      /\ status \in [Deliveries -> DeliveryStatus \cup {"absent"}]
      /\ part \in [Deliveries -> [Parts -> PartStatus]]
      /\ lease \in [Deliveries ->
            [exec : 0 .. MaxClaims, owner : Workers \cup {NoWorker}, live : BOOLEAN]]
  BY <1>1, <1>2 DEF begin_part, QueueInv, SendersAreSound, SenderIsSound, TypeOK
<1>4. CASE finish(w, d) /\ UNCHANGED rowVars
  BY <1>3, <1>4, WalksAway
<1>5. ASSUME own_row_fence(w, d)
      PROVE  /\ Agrees("sending", part[d]) /\ \A q \in Parts : part[d][q] # "sending"
             /\ status[d] = "sending"
  BY <1>3, <1>5, NothingSending DEF own_row_fence
<1>6. CASE own_row_fence(w, d) /\ settle_cancelled(d, part[d]) /\ finish(w, d)
  <2>1. part[d] \in [Parts -> PartStatus]
    BY <1>3
  <2> QED
    BY <1>3, <1>5, <1>6, <2>1, SettleCancelledStep
<1>7. CASE /\ own_row_fence(w, d) /\ part[d][p] = "retryable"
           /\ part' = [part EXCEPT ![d][p] = "outcome_unknown"]
           /\ status' = [status EXCEPT ![d] = "outcome_unknown"]
           /\ lease' = [lease EXCEPT ![d] = NoLease]
           /\ finish(w, d)
  <2>1. part' = [part EXCEPT ![d] = [part[d] EXCEPT ![p] = "outcome_unknown"]]
    BY <1>7
  <2>2. part[d] \in [Parts -> PartStatus] /\ part[d][p] \in is_unfinished
    BY <1>3, <1>7 DEF is_unfinished
  <2>3. Agrees("outcome_unknown", [part[d] EXCEPT ![p] = "outcome_unknown"])
    <3>1. Agrees("sending", part[d]) /\ \A q \in Parts : part[d][q] # "sending"
      BY <1>5, <1>7
    <3> QED
      BY <1>3, <2>2, <3>1, BegunAgrees
  <2>4. PICK ps : ps = [part[d] EXCEPT ![p] = "outcome_unknown"]
    OBVIOUS
  <2>5. part' = [part EXCEPT ![d] = ps] /\ Agrees("outcome_unknown", ps)
    BY <2>1, <2>3, <2>4
  <2>6. /\ finish(w, d) /\ status' = [status EXCEPT ![d] = "outcome_unknown"]
        /\ lease' = [lease EXCEPT ![d] = NoLease]
    BY <1>7
  <2> QED
    BY <1>3, <2>5, <2>6, ReleaseStep
<1>8. CASE /\ live_fence(w, d) /\ part[d][p] \in is_unfinished
           /\ part' = [part EXCEPT ![d][p] = "sending"]
           /\ UNCHANGED <<status, lease>>
           /\ \/ /\ phase' = [phase EXCEPT ![w] = "calling"]
                 /\ UNCHANGED <<claim, held, todo, cur, at, outcome, stopping>>
              \/ finish(w, d)
  <2>1. own_row_fence(w, d)
    BY <1>8 DEF live_fence
  <2>2. PICK ps : ps = [part[d] EXCEPT ![p] = "sending"]
    OBVIOUS
  <2>3. /\ part'[d] = ps /\ ps \in [Parts -> PartStatus] /\ ps[p] = "sending"
        /\ \A q \in Parts : q # p => ps[q] = part[d][q]
        /\ \A e \in Deliveries : e # d =>
            status'[e] = status[e] /\ lease'[e] = lease[e] /\ part'[e] = part[e]
    BY <1>3, <1>8, <2>2 DEF PartStatus
  <2>4. Agrees("sending", ps) /\ status'[d] = "sending"
    BY <1>3, <1>5, <1>8, <2>1, <2>2, BegunAgrees
  <2>5. \A v \in Workers : v # w => ~own_row_fence(v, d)'
    BY <1>8, <2>1 DEF own_row_fence
  <2>6. CASE finish(w, d)
    BY <1>3, <1>5, <2>1, <2>3, <2>4, <2>5, <2>6, FinishStep
  <2>7. CASE /\ phase' = [phase EXCEPT ![w] = "calling"]
             /\ UNCHANGED <<claim, held, todo, cur, at, outcome, stopping>>
    <3>1. phase'[w] = "calling" /\ \A v \in Workers : v # w => phase'[v] = phase[v]
      BY <2>7 DEF QueueInv, TypeOK
    <3>2. RowsAgree'
      BY <1>3, <2>3, <2>4, RowAgrees DEF OrderInv
    <3>3. ASSUME NEW v \in Workers, NEW e \in Deliveries PROVE BatchOK(v, e)'
      <4>1. BatchOK(v, e)
        BY DEF OrderInv, BatchesOK
      <4>2. CASE e # d
        <5>1. own_row_fence(v, e)' =>
                 /\ status[e] = "sending" /\ lease[e].exec = lease'[e].exec
                 /\ lease[e].owner = lease'[e].owner
                 /\ part'[e] = part[e] /\ (lease'[e].live => lease[e].live)
          BY <2>3, <4>2 DEF own_row_fence
        <5> QED
          BY <1>3, <2>7, <3>1, <4>1, <4>2, <5>1, BatchFrame
      <4>3. CASE e = d /\ v # w
        BY <2>5, <4>3 DEF BatchOK
      <4>4. CASE e = d /\ v = w
        <5>1. /\ todo[w][d] = {q \in Parts :
                                 \/ part[d][q] \in is_unfinished
                                 \/ part[d][q] = "sending"}
              /\ lease[d].live => d \in held[w]
          BY <1>3, <2>1, <4>1, <4>4 DEF BatchOK
        <5>2. todo[w][d] = {q \in Parts :
                              \/ part'[d][q] \in is_unfinished
                              \/ part'[d][q] = "sending"}
          BY <1>3, <1>8, <2>3, <5>1
        <5>3. \A q \in Parts : part'[d][q] = "sending" => q = p
          BY <1>5, <2>1, <2>3
        <5>4. todo' = todo /\ held' = held /\ cur' = cur /\ at' = at /\ lease' = lease
          BY <1>8, <2>7
        <5> QED
          BY <1>2, <1>3, <3>1, <4>4, <5>1, <5>2, <5>3, <5>4 DEF BatchOK
      <4> QED
        BY <4>2, <4>3, <4>4
    <3>4. BeginsInOrder'
      BY <2>7, <3>1 DEF OrderInv, BeginsInOrder, BeginsFirst
    <3>5. \A e \in Deliveries : Active(e)' => Active(e) \/ Waits(e)
      BY <1>3, <1>5, <1>8, <2>1, <2>7, <3>1 DEF Active, providerVars
    <3> QED
      BY <3>2, <3>3, <3>4, <3>5 DEF OrderStep, BatchesOK
  <2> QED
    BY <1>8, <2>6, <2>7
<1> QED
  BY <1>1, <1>2, <1>4, <1>6, <1>7, <1>8 DEF begin_part

(* complete_part.                                                          *)
LEMMA CompletePartStep ==
  ASSUME QueueInv, OrderInv, NEW w \in Workers, complete_part(w)
  PROVE  OrderStep
<1>1. PICK d : d = cur[w]
  OBVIOUS
<1>2. PICK p : p = at[w]
  OBVIOUS
<1>3. PICK o : o = outcome[w]
  OBVIOUS
<1>4. PICK ps : ps = [part[d] EXCEPT ![p] = PartTransitionStatus(o)]
  OBVIOUS
<1>5. /\ d \in Deliveries /\ p \in Parts /\ claim[w][d] # 0 /\ phase[w] = "reporting"
      /\ o \in ProviderSendOutcome /\ cur[w] = d /\ UNCHANGED providerVars
      /\ status \in [Deliveries -> DeliveryStatus \cup {"absent"}]
      /\ part \in [Deliveries -> [Parts -> PartStatus]]
      /\ todo \in [Workers -> [Deliveries -> SUBSET Parts]]
  BY <1>1, <1>2, <1>3 DEF complete_part, QueueInv, SendersAreSound, SenderIsSound, TypeOK
<1>6. CASE finish(w, d) /\ UNCHANGED <<rowVars, reported>>
  BY <1>5, <1>6, WalksAway
<1>7. ASSUME own_row_fence(w, d), part[d][p] = "sending"
      PROVE  /\ status[d] = "sending" /\ Agrees("sending", part[d])
             /\ ps \in [Parts -> PartStatus] /\ ps[p] = PartTransitionStatus(o)
             /\ \A q \in Parts : q # p => ps[q] = part[d][q]
             /\ ps[p] # "sending"
             /\ \A q \in Parts : q # p => ps[q] \notin {"sending", "outcome_unknown", "dead"}
  <2>1. status[d] = "sending" /\ Agrees("sending", part[d])
    BY <1>5, <1>7 DEF own_row_fence, OrderInv, RowsAgree
  <2>2. PartTransitionStatus(o) \in PartStatus \ {"prepared", "sending"}
    BY <1>5, TransitionFacts
  <2>3. /\ ps \in [Parts -> PartStatus] /\ ps[p] = PartTransitionStatus(o)
        /\ \A q \in Parts : q # p => ps[q] = part[d][q]
    BY <1>4, <1>5, <2>2
  <2>4. \A q \in Parts : q # p => part[d][q] \notin {"sending", "outcome_unknown", "dead"}
    BY <1>5, <1>7, <2>1 DEF Agrees
  <2> QED
    BY <2>1, <2>2, <2>3, <2>4
<1>8. CASE /\ own_row_fence(w, d) /\ part[d][p] = "sending"
           /\ settle_cancelled(d, ps) /\ finish(w, d)
  <2>1. ps \in [Parts -> PartStatus] /\ \A q \in Parts : ps[q] # "sending"
    BY <1>7, <1>8
  <2> QED
    BY <1>5, <1>8, <2>1, SettleCancelledStep
<1>9. CASE /\ own_row_fence(w, d) /\ part[d][p] = "sending" /\ KeepsLease(ps, o)
           /\ part' = [part EXCEPT ![d] = ps]
           /\ \/ /\ todo' = [todo EXCEPT ![w][d] = @ \ {p}]
                 /\ at' = [at EXCEPT ![w] = 0]
                 /\ outcome' = [outcome EXCEPT ![w] = "none"]
                 /\ phase' = [phase EXCEPT ![w] = "loop"]
                 /\ UNCHANGED <<claim, held, cur, stopping>>
              \/ finish(w, d)
           /\ UNCHANGED <<status, lease>>
  <2>1. /\ part'[d] = ps
        /\ \A e \in Deliveries : e # d =>
            status'[e] = status[e] /\ lease'[e] = lease[e] /\ part'[e] = part[e]
    BY <1>5, <1>9
  <2>2. ps[p] = "delivered" /\ \E q \in Parts : ps[q] \in is_unfinished
    BY <1>5, <1>7, <1>9 DEF KeepsLease
  <2>3. Agrees("sending", ps) /\ status'[d] = "sending" /\ status[d] = "sending"
    <3>1. part[d] \in [Parts -> PartStatus]
      BY <1>5
    <3> QED
      BY <1>5, <1>7, <1>9, <2>2, <3>1, KeptAgrees
  <2>4. \A v \in Workers : v # w => ~own_row_fence(v, d)'
    BY <1>9 DEF own_row_fence
  <2>5. CASE finish(w, d)
    BY <1>5, <2>1, <2>3, <2>4, <2>5, FinishStep
  <2>6. CASE /\ todo' = [todo EXCEPT ![w][d] = @ \ {p}]
             /\ phase' = [phase EXCEPT ![w] = "loop"]
             /\ at' = [at EXCEPT ![w] = 0]
             /\ UNCHANGED <<claim, held, cur, stopping>>
    <3>1. /\ phase'[w] = "loop" /\ todo'[w][d] = todo[w][d] \ {p}
          /\ \A e \in Deliveries : e # d => todo'[w][e] = todo[w][e]
          /\ \A v \in Workers : v # w =>
                phase'[v] = phase[v] /\ todo'[v] = todo[v] /\ at'[v] = at[v]
          /\ claim' = claim /\ held' = held /\ cur' = cur
      BY <1>5, <2>6 DEF QueueInv, TypeOK
    <3>2. RowsAgree'
      BY <1>5, <2>1, <2>3, RowAgrees DEF OrderInv
    <3>3. ASSUME NEW v \in Workers, NEW e \in Deliveries PROVE BatchOK(v, e)'
      <4>1. BatchOK(v, e)
        BY DEF OrderInv, BatchesOK
      <4>2. CASE e # d
        <5>1. own_row_fence(v, e)' =>
                 /\ status[e] = "sending" /\ lease[e].exec = lease'[e].exec
                 /\ lease[e].owner = lease'[e].owner
                 /\ part'[e] = part[e] /\ (lease'[e].live => lease[e].live)
          BY <2>1, <4>2 DEF own_row_fence
        <5>2. CASE v = w
          BY <1>5, <3>1, <4>1, <4>2, <5>1, <5>2, BatchFrame
        <5>3. CASE v # w
          BY <3>1, <4>1, <5>1, <5>3, BatchFrame
        <5> QED
          BY <5>2, <5>3
      <4>3. CASE e = d /\ v # w
        BY <2>4, <4>3 DEF BatchOK
      <4>4. CASE e = d /\ v = w
        <5>1. /\ todo[w][d] = {q \in Parts :
                                 \/ part[d][q] \in is_unfinished
                                 \/ part[d][q] = "sending"}
              /\ lease[d].live => d \in held[w]
          BY <1>5, <1>9, <4>1, <4>4 DEF BatchOK
        <5>2. todo'[w][d] = {q \in Parts :
                               \/ part'[d][q] \in is_unfinished
                               \/ part'[d][q] = "sending"}
          <6>1. ASSUME NEW q \in Parts
                PROVE  q \in todo'[w][d] <=> ps[q] \in is_unfinished \/ ps[q] = "sending"
            BY <1>7, <1>9, <2>2, <3>1, <5>1 DEF is_unfinished
          <6>2. todo'[w][d] \subseteq Parts
            BY <3>1, <5>1
          <6> QED
            BY <2>1, <6>1, <6>2
        <5>3. \A q \in Parts : part'[d][q] # "sending"
          BY <1>7, <1>9, <2>1
        <5>4. held' = held /\ lease' = lease
          BY <1>9, <3>1
        <5> QED
          BY <4>4, <5>1, <5>2, <5>3, <5>4 DEF BatchOK
      <4> QED
        BY <4>2, <4>3, <4>4
    <3>4. BeginsInOrder'
      BY <3>1 DEF OrderInv, BeginsInOrder, BeginsFirst
    <3>5. \A e \in Deliveries : Active(e)' => Active(e) \/ Waits(e)
      BY <1>5, <1>9, <3>1, NothingActivated DEF providerVars
    <3> QED
      BY <3>2, <3>3, <3>4, <3>5 DEF OrderStep, BatchesOK
  <2> QED
    BY <1>9, <2>5, <2>6
<1>10. CASE /\ own_row_fence(w, d) /\ part[d][p] = "sending"
            /\ part' = [part EXCEPT ![d] = ps] /\ settle_parent(d, ps, o) /\ finish(w, d)
  <2>1. /\ lease' = [lease EXCEPT ![d] = NoLease]
        /\ \E st : /\ status' = [status EXCEPT ![d] = st] /\ st # "sending"
                   /\ \/ st = aggregate_parent_status(ps)
                      \/ aggregate_parent_status(ps) = "retryable" /\ st = "dead_letter"
    BY <1>10 DEF settle_parent, attempt_failed_status, aggregate_parent_status
  <2>2. PICK st : /\ status' = [status EXCEPT ![d] = st] /\ st # "sending"
                  /\ \/ st = aggregate_parent_status(ps)
                     \/ aggregate_parent_status(ps) = "retryable" /\ st = "dead_letter"
    BY <2>1
  <2>3. Agrees(st, ps)
    BY <1>5, <1>7, <1>10, <2>2, AnsweredAgrees
  <2> QED
    BY <1>5, <1>10, <2>1, <2>2, <2>3, ReleaseStep
<1> QED
  BY <1>1, <1>2, <1>3, <1>4, <1>6, <1>8, <1>9, <1>10 DEF complete_part

(* fail_delivery and release_delivery.                                     *)
LEMMA GiveUpStep ==
  ASSUME QueueInv, OrderInv, NEW w \in Workers, NEW d \in Deliveries,
         fail_delivery(w, d) \/ release_delivery(w, d)
  PROVE  OrderStep
<1>1. /\ finish(w, d) /\ UNCHANGED providerVars /\ claim[w][d] # 0
      /\ phase[w] \in {"loop", "ready"} /\ (cur[w] = d \/ phase[w] = "loop")
  BY DEF fail_delivery, release_delivery, Turn, QueueInv, SendersAreSound, SenderIsSound
<1>2. CASE UNCHANGED rowVars
  BY <1>1, <1>2, WalksAway
<1>3. ASSUME own_row_fence(w, d)
      PROVE  Agrees("sending", part[d]) /\ \A q \in Parts : part[d][q] # "sending"
  BY <1>1, <1>3, NothingSending
<1>4. part[d] \in [Parts -> PartStatus] /\ part = [part EXCEPT ![d] = part[d]]
  BY DEF QueueInv, TypeOK
<1>5. CASE own_row_fence(w, d) /\ settle_cancelled(d, part[d])
  BY <1>1, <1>3, <1>4, <1>5, SettleCancelledStep
<1>6. ASSUME own_row_fence(w, d), NEW st \in {"dead_letter", "pending"},
             status' = [status EXCEPT ![d] = st], lease' = [lease EXCEPT ![d] = NoLease],
             UNCHANGED part
      PROVE  OrderStep
  <2>1. Agrees(st, part[d]) /\ part' = [part EXCEPT ![d] = part[d]]
    BY <1>3, <1>4, <1>6, GivenUpAgrees
  <2> QED
    BY <1>1, <1>6, <2>1, ReleaseStep
<1> QED
  BY <1>2, <1>5, <1>6 DEF fail_delivery, release_delivery

(* claim_deliveries: what it claims waits for nothing and has nothing      *)
(* being sent.                                                             *)
LEMMA ClaimStep ==
  ASSUME QueueInv, OrderInv, NEW w \in Workers, NEW S \in SUBSET Deliveries,
         claim_deliveries(w, S)
  PROVE  OrderStep
<1>1. /\ phase[w] = "loop" /\ \A d \in Deliveries : claim[w][d] = 0
      /\ UNCHANGED <<part, phase, cur, at, wire, accepted>>
  BY DEF claim_deliveries, Idle, EmptyBatch, providerVars
<1>2. \A d \in S : status[d] \in is_claimable /\ Waits(d)
  BY DEF claim_deliveries, Claimable, Waits
<1>3. \A d \in Deliveries :
         /\ d \in S => /\ status'[d] = "sending"
                       /\ lease'[d] = [exec |-> minted[d] + 1, owner |-> w, live |-> TRUE]
         /\ d \notin S => status'[d] = status[d] /\ lease'[d] = lease[d]
  BY DEF claim_deliveries
<1>4. RowsAgree'
  <2>1. ASSUME NEW d \in Deliveries PROVE Agrees(status'[d], part'[d])
    <3>1. Agrees(status[d], part[d]) /\ part' = part
      BY <1>1 DEF OrderInv, RowsAgree
    <3>2. CASE d \in S
      BY <1>2, <1>3, <3>1, <3>2, ClaimedAgrees
    <3>3. CASE d \notin S
      BY <1>3, <3>1, <3>3
    <3> QED
      BY <3>2, <3>3
  <2> QED
    BY <2>1 DEF RowsAgree
<1>5. \A v \in Workers : v # w => claim'[v] = claim[v] /\ todo'[v] = todo[v] /\ held'[v] = held[v]
  BY DEF claim_deliveries, QueueInv, TypeOK
<1>6. \A d \in Deliveries :
         \/ claim'[w][d] = 0
         \/ /\ d \in S /\ d \in held'[w]
            /\ todo'[w][d] = {p \in Parts : part[d][p] \in is_unfinished}
  <2>1. CASE UNCHANGED <<claim, held, todo>>
    BY <1>1, <2>1
  <2>2. CASE /\ claim' = [claim EXCEPT ![w] =
                            [d \in Deliveries |-> IF d \in S THEN minted[d] + 1 ELSE 0]]
             /\ held' = [held EXCEPT ![w] = S]
             /\ todo' = [todo EXCEPT ![w] =
                            [d \in Deliveries |->
                               IF d \in S THEN {p \in Parts : part[d][p] \in is_unfinished}
                               ELSE {}]]
    BY <2>2 DEF QueueInv, TypeOK
  <2> QED
    BY <2>1, <2>2 DEF claim_deliveries
<1>7. ASSUME NEW v \in Workers, NEW e \in Deliveries PROVE BatchOK(v, e)'
  <2>1. BatchOK(v, e)
    BY DEF OrderInv, BatchesOK
  <2>2. CASE v # w /\ e \in S
    <3>1. lease'[e].owner = w
      <4>1. PICK n : n = minted[e] + 1
        OBVIOUS
      <4>2. lease'[e] = [exec |-> n, owner |-> w, live |-> TRUE]
        BY <1>3, <2>2, <4>1
      <4> QED
        BY <4>2
    <3>2. ~own_row_fence(v, e)'
      BY <2>2, <3>1 DEF own_row_fence
    <3> QED
      BY <3>2 DEF BatchOK
  <2>3. CASE v # w /\ e \notin S
    <3>1. own_row_fence(v, e)' =>
             /\ status[e] = "sending" /\ lease[e].exec = lease'[e].exec
             /\ lease[e].owner = lease'[e].owner
             /\ part'[e] = part[e] /\ (lease'[e].live => lease[e].live)
      BY <1>1, <1>3, <2>3 DEF own_row_fence
    <3> QED
      BY <1>1, <1>5, <2>1, <2>3, <3>1, BatchFrame
  <2>4. CASE v = w /\ claim'[w][e] = 0
    BY <2>4 DEF BatchOK
  <2>5. CASE /\ v = w /\ e \in S /\ e \in held'[w]
             /\ todo'[w][e] = {p \in Parts : part[e][p] \in is_unfinished}
    <3>1. \A p \in Parts : part'[e][p] # "sending"
      BY <1>1, <1>2, <2>5 DEF OrderInv, RowsAgree, Agrees
    <3>2. todo'[w][e] = {p \in Parts : part'[e][p] \in is_unfinished \/ part'[e][p] = "sending"}
      BY <1>1, <2>5, <3>1
    <3> QED
      BY <2>5, <3>1, <3>2 DEF BatchOK
  <2> QED
    BY <1>6, <2>2, <2>3, <2>4, <2>5
<1>8. BeginsInOrder'
  BY <1>1, <1>5 DEF OrderInv, BeginsInOrder, BeginsFirst
<1>9. \A d \in Deliveries : Active(d)' => Active(d) \/ Waits(d)
  BY <1>1, <1>2, <1>3 DEF Active
<1> QED
  BY <1>4, <1>7, <1>8, <1>9 DEF OrderStep, BatchesOK

(* renew_delivery_leases drops only what lapsed, and stops at the first    *)
(* part left.                                                              *)
LEMMA RenewStep ==
  ASSUME QueueInv, OrderInv, NEW w \in Workers, NEW d \in Deliveries, NEW p \in Parts,
         renew_delivery_leases(w, d, p)
  PROVE  OrderStep
<1>1. /\ phase[w] = "loop" /\ UNCHANGED <<status, lease, part, wire, accepted>>
      /\ p \in todo[w][d] /\ \A q \in todo[w][d] : p <= q
  BY DEF renew_delivery_leases, Turn, rowVars, providerVars
<1>2. /\ \A v \in Workers : v # w =>
           /\ phase'[v] = phase[v] /\ cur'[v] = cur[v] /\ at'[v] = at[v]
           /\ claim'[v] = claim[v] /\ todo'[v] = todo[v] /\ held'[v] = held[v]
      /\ phase'[w] \in {"loop", "ready"}
      /\ phase'[w] = "ready" => cur'[w] = d /\ at'[w] = p /\ todo'[w][d] = todo[w][d]
      /\ \A e \in Deliveries :
           \/ claim'[w][e] = 0
           \/ claim'[w][e] = claim[w][e] /\ todo'[w][e] = todo[w][e]
      /\ \A e \in held[w] : live_fence(w, e) => e \in held'[w]
  BY <1>1 DEF renew_delivery_leases, QueueInv, TypeOK
<1>3. ASSUME NEW v \in Workers, NEW e \in Deliveries PROVE BatchOK(v, e)'
  <2>1. BatchOK(v, e)
    BY DEF OrderInv, BatchesOK
  <2>2. own_row_fence(v, e)' <=> claim'[v][e] = lease[e].exec /\ status[e] = "sending" /\ lease[e].owner = v
    BY <1>1 DEF own_row_fence
  <2>3. CASE v # w
    BY <1>1, <1>2, <2>1, <2>2, <2>3, BatchFrame
  <2>4. CASE v = w /\ claim'[w][e] = 0
    BY <2>4 DEF BatchOK
  <2>5. CASE v = w /\ claim'[w][e] = claim[w][e] /\ todo'[w][e] = todo[w][e]
    BY <1>1, <1>2, <2>1, <2>2, <2>5 DEF BatchOK, own_row_fence, live_fence
  <2> QED
    BY <1>2, <2>3, <2>4, <2>5
<1>4. BeginsInOrder'
  <2>1. ASSUME NEW v \in Workers PROVE BeginsFirst(v)'
    <3>1. CASE v = w
      BY <1>1, <1>2, <3>1 DEF BeginsFirst
    <3>2. CASE v # w
      BY <1>2, <3>2 DEF OrderInv, BeginsInOrder, BeginsFirst
    <3> QED
      BY <3>1, <3>2
  <2> QED
    BY <2>1 DEF BeginsInOrder
<1>5. RowsAgree'
  BY <1>1 DEF OrderInv, RowsAgree
<1>6. \A e \in Deliveries : Active(e)' => Active(e) \/ Waits(e)
  BY <1>1, <1>2, NothingActivated
<1> QED
  BY <1>3, <1>4, <1>5, <1>6 DEF OrderStep, BatchesOK

(* The call and its answer.                                                *)
LEMMA CallStep ==
  ASSUME QueueInv, OrderInv, NEW w \in Workers,
         \/ call_provider(w)
         \/ \E o \in ProviderSendOutcome : provider_returns(w, o)
  PROVE  OrderStep
<1>1. /\ UNCHANGED <<status, lease, part, claim, held, todo, cur, at, accepted>>
      /\ phase[w] \in {"calling", "waiting"} /\ cur[w] \in Deliveries
  BY DEF call_provider, provider_returns, rowVars, QueueInv, SendersAreSound, SenderIsSound
<1>2. /\ phase'[w] \in {"waiting", "reporting"}
      /\ \A v \in Workers : v # w => phase'[v] = phase[v]
  BY DEF call_provider, provider_returns, QueueInv, TypeOK
<1>3. \A r \in wire' : r \in wire \/ (phase[w] = "calling" /\ r.row = cur[w])
  BY DEF call_provider, provider_returns, RequestOf
<1>4. ASSUME NEW v \in Workers, NEW e \in Deliveries PROVE BatchOK(v, e)'
  <2>1. BatchOK(v, e)
    BY DEF OrderInv, BatchesOK
  <2>2. own_row_fence(v, e)' =>
           /\ status[e] = "sending" /\ lease[e].exec = lease'[e].exec
           /\ lease[e].owner = lease'[e].owner
           /\ part'[e] = part[e] /\ (lease'[e].live => lease[e].live)
    BY <1>1 DEF own_row_fence
  <2> QED
    BY <1>1, <1>2, <2>1, <2>2, BatchFrame
<1>5. RowsAgree' /\ BeginsInOrder'
  BY <1>1, <1>2 DEF OrderInv, RowsAgree, BeginsInOrder, BeginsFirst
<1>6. \A e \in Deliveries : Active(e)' => Active(e) \/ Waits(e)
  BY <1>1, <1>2, <1>3 DEF Active
<1> QED
  BY <1>4, <1>5, <1>6 DEF OrderStep, BatchesOK

(* Processes stop and start.                                               *)
LEMMA LifecycleStep ==
  ASSUME QueueInv, OrderInv, NEW w \in Workers,
         ShutdownRequested(w) \/ WorkerEnds(w) \/ WorkerStarts(w)
  PROVE  OrderStep
<1>1. UNCHANGED <<status, lease, part, wire, accepted>>
  BY DEF ShutdownRequested, WorkerEnds, WorkerStarts, rowVars, providerVars
<1>2. /\ \A v \in Workers : v # w =>
           /\ phase'[v] = phase[v] /\ cur'[v] = cur[v] /\ at'[v] = at[v]
           /\ claim'[v] = claim[v] /\ todo'[v] = todo[v] /\ held'[v] = held[v]
      /\ \/ UNCHANGED <<phase, cur, at, claim, todo, held>>
         \/ phase'[w] = "down" /\ \A e \in Deliveries : claim'[w][e] = 0
         \/ phase[w] = "down" /\ phase'[w] = "loop" /\ UNCHANGED <<cur, at, claim, todo, held>>
  BY DEF ShutdownRequested, WorkerEnds, WorkerStarts, QueueInv, TypeOK, EmptyBatch
<1>3. ASSUME NEW v \in Workers, NEW e \in Deliveries PROVE BatchOK(v, e)'
  <2>1. BatchOK(v, e)
    BY DEF OrderInv, BatchesOK
  <2>2. CASE claim'[v][e] = 0
    BY <2>2 DEF BatchOK
  <2>3. CASE claim'[v][e] = claim[v][e]
    <3>1. own_row_fence(v, e)' =>
             /\ status[e] = "sending" /\ lease[e].exec = lease'[e].exec
             /\ lease[e].owner = lease'[e].owner
             /\ part'[e] = part[e] /\ (lease'[e].live => lease[e].live)
      BY <1>1 DEF own_row_fence
    <3>2. CASE v # w \/ UNCHANGED <<phase, cur, at, claim, todo, held>>
      BY <1>2, <2>1, <3>1, <3>2, BatchFrame
    <3>3. CASE /\ v = w /\ phase[w] = "down"
               /\ UNCHANGED <<cur, at, claim, todo, held>>
      BY <2>1, <3>1, <3>3, BatchFrame
    <3> QED
      BY <1>2, <2>2, <3>2, <3>3
  <2> QED
    BY <1>2, <2>2, <2>3
<1>4. BeginsInOrder'
  BY <1>2 DEF OrderInv, BeginsInOrder, BeginsFirst
<1>5. RowsAgree'
  BY <1>1 DEF OrderInv, RowsAgree
<1>6. \A e \in Deliveries : Active(e)' => Active(e) \/ Waits(e)
  BY <1>1, <1>2, NothingActivated
<1> QED
  BY <1>3, <1>4, <1>5, <1>6 DEF OrderStep, BatchesOK

(* A write by somebody who holds no lease.                                 *)
LEMMA RowsOnlyStep ==
  ASSUME OrderInv, UNCHANGED workerVars, UNCHANGED providerVars,
         \A e \in Deliveries :
            /\ Agrees(status'[e], part'[e])
            /\ status'[e] = "sending" =>
                 /\ status[e] = "sending" /\ lease[e].exec = lease'[e].exec
                 /\ lease[e].owner = lease'[e].owner
                 /\ part'[e] = part[e] /\ (lease'[e].live => lease[e].live)
  PROVE  OrderStep
<1>1. BatchesOK' /\ BeginsInOrder'
  BY RowsOnlyBatches DEF OrderInv
<1>2. RowsAgree'
  BY DEF RowsAgree
<1>3. \A e \in Deliveries : Active(e)' => Active(e) \/ Waits(e)
  BY NothingActivated DEF workerVars, providerVars
<1> QED
  BY <1>1, <1>2, <1>3 DEF OrderStep

(* A producer queues a delivery; a cancellation; a settlement by evidence. *)
LEMMA ProducerStep ==
  ASSUME QueueInv, OrderInv, NEW d \in Deliveries,
         \/ enqueue(d) \/ cancel_deliveries(d)
         \/ \E o \in {"applied", "final_not_applied"}, live \in BOOLEAN :
               settle_unknown_delivery(d, o, live)
  PROVE  OrderStep
<1>1. UNCHANGED workerVars /\ UNCHANGED providerVars /\ UNCHANGED lease
  BY DEF enqueue, cancel_deliveries, settle_unknown_delivery
<1>2. /\ part \in [Deliveries -> [Parts -> PartStatus]]
      /\ status \in [Deliveries -> DeliveryStatus \cup {"absent"}]
      /\ Agrees(status[d], part[d])
  BY DEF QueueInv, TypeOK, OrderInv, RowsAgree
<1>3. \A e \in Deliveries : e # d => status'[e] = status[e] /\ part'[e] = part[e]
  BY <1>2 DEF enqueue, cancel_deliveries, settle_unknown_delivery
<1>4. /\ Agrees(status'[d], part'[d])
      /\ status'[d] = "sending" => status[d] = "sending" /\ part'[d] = part[d]
  <2>1. CASE enqueue(d)
    <3>1. status[d] = "absent" /\ status'[d] = "pending" /\ part'[d] = part[d]
      BY <1>2, <2>1 DEF enqueue
    <3> QED
      BY <1>2, <3>1, QueuedAgrees
  <2>2. CASE cancel_deliveries(d)
    <3>1. CASE status[d] \in is_claimable
      <4>1. status'[d] = "dead_letter" /\ part' = [part EXCEPT ![d] = bury_unsent_parts(part[d])]
        BY <1>2, <2>2, <3>1 DEF cancel_deliveries
      <4>2. part'[d] = bury_unsent_parts(part[d]) /\ part[d] \in [Parts -> PartStatus]
        BY <1>2, <4>1
      <4> QED
        BY <1>2, <3>1, <4>1, <4>2, BuriedAgrees
    <3>2. CASE UNCHANGED <<status, part>>
      BY <1>2, <3>2
    <3> QED
      BY <2>2, <3>1, <3>2 DEF cancel_deliveries
  <2>3. ASSUME NEW o \in {"applied", "final_not_applied"}, NEW live \in BOOLEAN,
               settle_unknown_delivery(d, o, live)
        PROVE  /\ Agrees(status'[d], part'[d])
               /\ status'[d] # "sending"
    <3>1. Parts = {1}
      BY <2>3 DEF settle_unknown_delivery, Parts
    <3>2. \/ status'[d] = "delivered" /\ part'[d][1] = "delivered"
          \/ status'[d] = "retryable" /\ part'[d][1] = "retryable"
          \/ status'[d] = "dead_letter" /\ part'[d][1] = "dead"
      BY <1>2, <2>3, <3>1 DEF settle_unknown_delivery
    <3> QED
      BY <3>1, <3>2 DEF Agrees, is_claimable, is_unfinished
  <2> QED
    BY <2>1, <2>2, <2>3
<1>5. \A e \in Deliveries :
         /\ Agrees(status'[e], part'[e])
         /\ status'[e] = "sending" => status[e] = "sending" /\ part'[e] = part[e]
  BY <1>3, <1>4 DEF OrderInv, RowsAgree
<1> QED
  BY <1>1, <1>5, RowsOnlyStep

(* The sweep.                                                              *)
LEMMA ReapStep ==
  ASSUME QueueInv, OrderInv, NEW w \in Workers, reap_expired_deliveries(w)
  PROVE  OrderStep
<1>1. UNCHANGED workerVars /\ UNCHANGED providerVars
  BY DEF reap_expired_deliveries
<1>2. ASSUME NEW e \in Deliveries
      PROVE  /\ Agrees(status'[e], part'[e])
             /\ status'[e] = "sending" =>
                  /\ status[e] = "sending" /\ lease[e].exec = lease'[e].exec
                  /\ lease[e].owner = lease'[e].owner
                  /\ part'[e] = part[e] /\ (lease'[e].live => lease[e].live)
  <2>1. Agrees(status'[e], part'[e])
    BY ReapedAgrees DEF OrderInv, RowsAgree
  <2>2. /\ Expired(e) => status'[e] # "sending"
        /\ ~Expired(e) => /\ lease'[e] = lease[e] /\ part'[e] = part[e]
                          /\ status'[e] = "sending" => status[e] = "sending"
    BY ReapFacts
  <2> QED
    BY <2>1, <2>2
<1> QED
  BY <1>1, <1>2, RowsOnlyStep

(* The clocks.                                                             *)
LEMMA ClockStep ==
  ASSUME QueueInv, OrderInv, NEW d \in Deliveries,
         LeaseLapses(d) \/ BackoffElapses(d) \/ ProofExpires(d)
  PROVE  OrderStep
<1>1. UNCHANGED workerVars /\ UNCHANGED providerVars /\ UNCHANGED <<status, part>>
  BY DEF LeaseLapses, BackoffElapses, ProofExpires
<1>2. \A e \in Deliveries :
         /\ lease[e].exec = lease'[e].exec /\ lease[e].owner = lease'[e].owner
         /\ lease'[e].live => lease[e].live
  <2>1. CASE UNCHANGED lease
    BY <2>1
  <2>2. CASE LeaseLapses(d)
    <3>1. PICK row : row = [exec |-> lease[d].exec, owner |-> lease[d].owner, live |-> FALSE]
      OBVIOUS
    <3>2. lease' = [lease EXCEPT ![d] = row] /\ lease[d].live
      BY <2>2, <3>1 DEF LeaseLapses
    <3>3. lease'[d] = row /\ \A e \in Deliveries : e # d => lease'[e] = lease[e]
      BY <3>2 DEF QueueInv, TypeOK
    <3> QED
      BY <3>1, <3>2, <3>3
  <2> QED
    BY <2>1, <2>2 DEF BackoffElapses, ProofExpires
<1> QED
  BY <1>1, <1>2, RowsOnlyStep DEF OrderInv, RowsAgree

(* The provider.                                                           *)
LEMMA ProviderStep ==
  ASSUME QueueInv, OrderInv, NEW r \in wire, ProviderAccepts(r) \/ RequestDropped(r)
  PROVE  OrderStep
<1>1. /\ UNCHANGED workerVars /\ UNCHANGED <<status, lease, part>>
      /\ \A s \in wire' \cup accepted' : s \in wire \cup accepted
  BY DEF ProviderAccepts, RequestDropped, rowVars
<1>2. BatchesOK' /\ BeginsInOrder'
  BY <1>1, RowsOnlyBatches DEF OrderInv
<1>3. RowsAgree'
  BY <1>1 DEF OrderInv, RowsAgree
<1>4. \A e \in Deliveries : Active(e)' => Active(e) \/ Waits(e)
  BY <1>1, NothingActivated DEF workerVars
<1> QED
  BY <1>2, <1>3, <1>4 DEF OrderStep

----------------------------------------------------------------------------
(* The theorems.                                                           *)

(* The invariant holds of the empty queue.                                 *)
LEMMA InitOrder == Init => OrderInv
<1> SUFFICES ASSUME Init PROVE OrderInv
  OBVIOUS
<1>1. RowsAgree
  BY SomePart DEF Init, RowsAgree, Agrees, is_claimable
<1>2. BatchesOK /\ BeginsInOrder
  BY DEF Init, BatchesOK, BatchOK, EmptyBatch, BeginsInOrder, BeginsFirst
<1>3. PredecessorsFirst
  BY DEF Init, PredecessorsFirst, Active
<1> QED
  BY <1>1, <1>2, <1>3 DEF OrderInv

(* Every step of every actor preserves it.                                 *)
LEMMA NextOrder == QueueInv /\ OrderInv /\ [Next]_vars => OrderInv'
<1> SUFFICES ASSUME QueueInv, OrderInv, [Next]_vars PROVE OrderInv'
  OBVIOUS
<1>1. CASE UNCHANGED vars
  BY <1>1 DEF vars, rowVars, workerVars, providerVars, OrderInv, RowsAgree, BatchesOK, BatchOK,
     own_row_fence, BeginsInOrder, BeginsFirst, PredecessorsFirst, Active, Waits
<1>2. CASE Next
  <2>1. ASSUME NEW w \in Workers, WorkerStep(w) PROVE OrderStep
    BY <2>1, ClaimStep, RenewStep, BeginPartStep, CallStep, CompletePartStep, GiveUpStep, ReapStep
    DEF WorkerStep
  <2>2. ASSUME NEW w \in Workers, NEW d \in Deliveries, WriteFails(w, d) PROVE OrderStep
    <3>1. finish(w, d) /\ UNCHANGED <<rowVars, providerVars>> /\ (cur[w] = d \/ phase[w] = "loop")
      BY <2>2 DEF WriteFails, Turn
    <3> QED
      BY <3>1, WalksAway
  <2>3. ASSUME NEW r \in wire, ProviderAccepts(r) \/ RequestDropped(r) PROVE OrderStep
    BY <2>3, ProviderStep
  <2>4. ASSUME NEW w \in Workers, ShutdownRequested(w) \/ WorkerEnds(w) \/ WorkerStarts(w)
        PROVE  OrderStep
    BY <2>4, LifecycleStep
  <2>5. ASSUME NEW d \in Deliveries,
               \/ enqueue(d) \/ cancel_deliveries(d)
               \/ \E o \in {"applied", "final_not_applied"}, live \in BOOLEAN :
                     settle_unknown_delivery(d, o, live)
        PROVE  OrderStep
    BY <2>5, ProducerStep
  <2>6. ASSUME NEW d \in Deliveries, LeaseLapses(d) \/ BackoffElapses(d) \/ ProofExpires(d)
        PROVE  OrderStep
    BY <2>6, ClockStep
  <2>7. OrderStep
    BY <1>2, <2>1, <2>2, <2>3, <2>4, <2>5, <2>6 DEF Next, Environment
  <2>8. PredecessorsFirst'
    BY <2>7, ActiveFrame DEF OrderStep, OrderInv
  <2> QED
    BY <2>7, <2>8 DEF OrderStep, OrderInv
<1> QED
  BY <1>1, <1>2

(* Deliveries, parts, batches and predecessors agree in every reachable    *)
(* state, for any number of each.                                          *)
THEOREM OrderInvHolds == Spec => [](QueueInv /\ OrderInv)
<1>1. Init => OrderInv
  BY InitOrder
<1>2. QueueInv /\ OrderInv /\ [Next]_vars => OrderInv'
  BY NextOrder
<1> QED
  BY <1>1, <1>2, QueueInvHolds, PTL DEF Spec

(* A delivery's status always follows from its parts: no uncertainty is    *)
(* written off or passed over (aggregate_parent_status,                    *)
(* cancelled_parent_status, the sweep).                                    *)
THEOREM ParentsMatchParts == Spec => []ParentMatchesParts
<1>1. OrderInv => ParentMatchesParts
  <2> SUFFICES ASSUME OrderInv, NEW d \in Deliveries
               PROVE  LET has(S) == \E p \in Parts : part[d][p] \in S IN
                      /\ status[d] \in is_claimable =>
                            has(is_unfinished) /\ ~has({"sending", "outcome_unknown", "dead"})
                      /\ status[d] = "sending" =>
                            /\ ~has({"outcome_unknown", "dead"})
                            /\ has(is_unfinished \cup {"sending"})
                      /\ status[d] = "outcome_unknown" => has({"outcome_unknown"})
                      /\ has({"outcome_unknown"}) => status[d] = "outcome_unknown"
                      /\ has({"sending"}) => status[d] = "sending"
                      /\ (\A p \in Parts : part[d][p] = "delivered") <=> status[d] = "delivered"
    BY DEF ParentMatchesParts
  <2>1. Agrees(status[d], part[d])
    BY DEF OrderInv, RowsAgree
  <2> QED
    BY <2>1 DEF Agrees
<1> QED
  BY <1>1, OrderInvHolds, PTL

(* The snapshot a worker claimed is what the rows say for as long as its   *)
(* fence holds (claim_deliveries, complete_part).                          *)
THEOREM SnapshotsStayFresh == Spec => []SnapshotFresh
<1>1. OrderInv => SnapshotFresh
  BY DEF OrderInv, BatchesOK, BatchOK, SnapshotFresh
<1> QED
  BY <1>1, OrderInvHolds, PTL

(* A claimed delivery whose lease is live is renewed with its batch        *)
(* (BatchLeases).                                                          *)
THEOREM WaitingIsRenewed == Spec => []WaitingStaysRenewed
<1>1. OrderInv => WaitingStaysRenewed
  BY DEF OrderInv, BatchesOK, BatchOK, WaitingStaysRenewed, live_fence
<1> QED
  BY <1>1, OrderInvHolds, PTL

(* No request of a dependent reaches the provider before its predecessor   *)
(* is delivered (depends_on_delivery_id).                                  *)
THEOREM PredecessorsAreDelivered == Spec => []DependencyFirst
<1>1. OrderInv => DependencyFirst
  BY DEF OrderInv, PredecessorsFirst, Active, Waits, DependencyFirst
<1> QED
  BY <1>1, OrderInvHolds, PTL
=============================================================================
