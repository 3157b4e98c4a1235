------------------------ MODULE DeliveryQueueProofs ------------------------
(***************************************************************************)
(* QueueInv is an inductive invariant of the delivery queue, and the       *)
(* theorems that follow from it.  The argument: an execution id is minted  *)
(* once and held by one worker (FencesAreUnique), so a fenced write that   *)
(* matches is a write of the one worker that began the request; a part is  *)
(* stored as sending before its request can exist and leaves sending only  *)
(* by that worker's answer or as outcome_unknown (RowsTellTheTruth), so a  *)
(* part that may be sent again has nothing outstanding; hence the request  *)
(* a worker is about to make is the only one (SendersAreSound), and no     *)
(* part is accepted twice (AtMostOnce).  Where the transport calls an      *)
(* ambiguous request retryable the part may have been sent, and the        *)
(* provider's knowledge of its key takes that place (Recognised).  Most writes fall under three      *)
(* patterns, proved once: a write that releases a lease (ReleasingWrite),  *)
(* one that keeps it (KeepingWrite), and one by somebody who holds none    *)
(* (RowsOnlyWrite).                                                        *)
(***************************************************************************)
EXTENDS DeliveryQueue, TLAPS

(* The invariant holds of the empty queue with every worker idle.          *)
LEMMA InitQueueInv == Init => QueueInv
<1> SUFFICES ASSUME Init PROVE QueueInv
  OBVIOUS
<1> USE ConstantsAssumption DEF Init, EmptyBatch, NoParts, NoLease, Parts
<1>1. TypeOK
  BY DEF TypeOK, DeliveryStatus, PartStatus, ProviderSendOutcome, Requests
<1>2. StoredChecks
  BY DEF StoredChecks, is_claimable
<1>3. FencesAreUnique
  BY DEF FencesAreUnique
<1>4. AtMostOnce
  BY DEF AtMostOnce
<1>5. SendersAreSound
  BY DEF SendersAreSound, SenderIsSound
<1>6. RowsTellTheTruth
  BY DEF RowsTellTheTruth, TrueOf, Sent, Leaving
<1>7. DeliveredMeansAllParts
  BY DEF DeliveredMeansAllParts
<1> QED
  BY <1>1, <1>2, <1>3, <1>4, <1>5, <1>6, <1>7 DEF QueueInv

(* BatchLeases::finish touches one worker and one fence of it.             *)
LEMMA FinishFacts ==
  ASSUME TypeOK, NEW w \in Workers, NEW d \in Deliveries, finish(w, d)
  PROVE  /\ \A v \in Workers, e \in Deliveries :
              claim'[v][e] = IF v = w /\ e = d THEN 0 ELSE claim[v][e]
         /\ \A v \in Workers \ {w} :
              /\ phase'[v] = phase[v] /\ cur'[v] = cur[v]
              /\ at'[v] = at[v] /\ outcome'[v] = outcome[v]
         /\ phase'[w] = "loop"
BY DEF finish, TypeOK

(* A worker that a step does not concern stays sound: nothing new is sent  *)
(* or about to be, and its fence still stands for what it stood for.       *)
LEMMA SenderTransfer ==
  ASSUME NEW v \in Workers, SenderIsSound(v),
         phase'[v] = phase[v], cur'[v] = cur[v], at'[v] = at[v], outcome'[v] = outcome[v],
         \A e \in Deliveries : claim'[v][e] = claim[v][e],
         accepted \subseteq accepted', wire' \cup accepted' \subseteq wire \cup accepted,
         \A u \in Workers : phase'[u] = "calling" =>
             phase[u] = "calling" /\ cur'[u] = cur[u] /\ at'[u] = at[u],
         phase[v] = "calling" /\ part'[cur[v]][at[v]] = "sending" => own_row_fence(v, cur[v])',
         \A e \in Deliveries : own_row_fence(v, e)' =>
             own_row_fence(v, e) /\ \A p \in Parts : part'[e][p] = "sending" => part[e][p] = "sending"
  PROVE  SenderIsSound(v)'
<1>1. \A e \in Deliveries, p \in Parts : Sent(e, p)' => Sent(e, p)
  BY DEF Sent
<1> QED
  BY <1>1 DEF SenderIsSound

(* The rows stay true when nothing new is sent or about to be, nothing     *)
(* accepted is forgotten, and what was written is true of the old state.   *)
LEMMA TruthCarries ==
  ASSUME accepted \subseteq accepted', wire' \cup accepted' \subseteq wire \cup accepted,
         \A u \in Workers : phase'[u] = "calling" =>
             phase[u] = "calling" /\ cur'[u] = cur[u] /\ at'[u] = at[u],
         \A e \in Deliveries, p \in Parts :
            /\ TrueOf(e, p, part'[e][p])
            /\ status'[e] = "delivered" => TrueOf(e, p, "delivered")
  PROVE  RowsTellTheTruth'
<1> SUFFICES ASSUME NEW e \in Deliveries, NEW p \in Parts
             PROVE  /\ TrueOf(e, p, part[e][p])'
                    /\ status'[e] = "delivered" => TrueOf(e, p, "delivered")'
  BY DEF RowsTellTheTruth
<1>1. Sent(e, p)' => Sent(e, p)
  BY DEF Sent
<1>2. Leaving(e, p)' => Leaving(e, p)
  BY DEF Leaving
<1>3. (\E r \in accepted : r.row = e /\ r.part = p) => \E r \in accepted' : r.row = e /\ r.part = p
  OBVIOUS
<1>4. TrueOf(e, p, part'[e][p]) /\ (status'[e] = "delivered" => TrueOf(e, p, "delivered"))
  OBVIOUS
<1> QED
  BY <1>1, <1>2, <1>3, <1>4 DEF TrueOf

(* A worker about to make its call owns the row while the part is sending, *)
(* so nobody else who owns the row is another worker's rival for the part. *)
LEMMA CallerOwns ==
  ASSUME SendersAreSound, NEW w \in Workers, NEW v \in Workers, v # w,
         NEW d \in Deliveries, own_row_fence(w, d), phase[v] = "calling", cur[v] = d
  PROVE  part[d][at[v]] # "sending"
BY DEF SendersAreSound, SenderIsSound, own_row_fence

(* Any fenced write that gives up the lease of a sending delivery          *)
(* (complete_part settling the parent, fail_delivery, release_delivery, a  *)
(* settled cancellation) preserves the invariant, provided the part        *)
(* statuses it leaves are true of the provider and a row it returns to the *)
(* queue still has an attempt and no cancellation intent.                  *)
LEMMA ReleasingWrite ==
  ASSUME QueueInv, TypeOK', NEW w \in Workers, NEW d \in Deliveries,
         own_row_fence(w, d),
         finish(w, d),
         UNCHANGED <<wire, accepted, minted>>,
         \A e \in Deliveries \ {d} :
            /\ status'[e] = status[e] /\ attempt'[e] = attempt[e]
            /\ cancelled'[e] = cancelled[e] /\ lease'[e] = lease[e] /\ part'[e] = part[e],
         lease'[d] = NoLease,
         status'[d] \in DeliveryStatus \ {"sending"},
         status'[d] \in is_claimable => attempt'[d] < MaxAttempts /\ ~cancelled'[d],
         \A p \in Parts :
            /\ TrueOf(d, p, part'[d][p])
            /\ part'[d][p] = "sending" => part[d][p] = "sending"
            /\ status'[d] = "delivered" => part'[d][p] = "delivered"
  PROVE  QueueInv'
<1> USE DEF QueueInv
<1>1. StoredChecks'
  <2> SUFFICES ASSUME NEW e \in Deliveries
               PROVE  /\ status'[e] = "sending" <=> lease'[e] # NoLease
                      /\ cancelled'[e] => status'[e] \notin is_claimable \cup {"absent"}
                      /\ status'[e] \in is_claimable \cup {"absent", "sending"} =>
                            attempt'[e] < MaxAttempts
    BY DEF StoredChecks, NoLease
  <2>1. CASE e = d
    BY <2>1 DEF DeliveryStatus
  <2>2. CASE e # d
    BY <2>2 DEF StoredChecks
  <2> QED
    BY <2>1, <2>2
<1>0. /\ \A v \in Workers, e \in Deliveries :
              claim'[v][e] = IF v = w /\ e = d THEN 0 ELSE claim[v][e]
      /\ \A v \in Workers \ {w} :
              /\ phase'[v] = phase[v] /\ cur'[v] = cur[v]
              /\ at'[v] = at[v] /\ outcome'[v] = outcome[v]
      /\ phase'[w] = "loop"
  BY FinishFacts
<1>2. FencesAreUnique'
  <2>1. \A e \in Deliveries : lease'[e].exec = IF e = d THEN 0 ELSE lease[e].exec
    BY DEF NoLease
  <2>2. \A e \in Deliveries : e # d => lease'[e].owner = lease[e].owner
    OBVIOUS
  <2>3. \A e \in Deliveries : minted'[e] = minted[e] /\ minted[e] \in Nat
    BY ConstantsAssumption DEF TypeOK
  <2>4. \A e \in Deliveries : status'[e] = "sending" => e # d /\ status[e] = "sending"
    OBVIOUS
  <2> QED
    BY <1>0, <2>1, <2>2, <2>3, <2>4 DEF FencesAreUnique
<1>3. AtMostOnce'
  BY DEF AtMostOnce
<1>4. \A u \in Workers : phase'[u] = "calling" =>
         phase[u] = "calling" /\ cur'[u] = cur[u] /\ at'[u] = at[u]
  BY <1>0
<1>5. SendersAreSound'
  <2> SUFFICES ASSUME NEW v \in Workers PROVE SenderIsSound(v)'
    BY DEF SendersAreSound
  <2>1. CASE v = w
    BY <2>1, <1>0 DEF SenderIsSound
  <2>2. CASE v # w
    <3>1. SenderIsSound(v)
      BY DEF SendersAreSound
    <3>2. /\ phase'[v] = phase[v] /\ cur'[v] = cur[v] /\ at'[v] = at[v]
          /\ outcome'[v] = outcome[v]
          /\ \A e \in Deliveries : claim'[v][e] = claim[v][e]
          /\ wire' = wire /\ accepted' = accepted
      BY <2>2, <1>0
    <3>3. \A e \in Deliveries : own_row_fence(v, e)' =>
             own_row_fence(v, e) /\ part'[e] = part[e]
      BY <3>2 DEF own_row_fence
    <3>4. phase[v] = "calling" /\ part'[cur[v]][at[v]] = "sending" => own_row_fence(v, cur[v])'
      <4> SUFFICES ASSUME phase[v] = "calling", part'[cur[v]][at[v]] = "sending"
                   PROVE  own_row_fence(v, cur[v])'
        OBVIOUS
      <4>1. cur[v] \in Deliveries /\ at[v] \in Parts
        BY <3>1 DEF SenderIsSound
      <4>2. cur[v] # d
        BY <2>2, <4>1, CallerOwns
      <4>3. part[cur[v]][at[v]] = "sending"
        BY <4>1, <4>2
      <4> QED
        BY <3>1, <3>2, <4>1, <4>2, <4>3 DEF SenderIsSound, own_row_fence
    <3> QED
      BY <1>4, <3>1, <3>2, <3>3, <3>4, SenderTransfer
  <2> QED
    BY <2>1, <2>2
<1>6. RowsTellTheTruth'
  <2>1. \A e \in Deliveries, p \in Parts :
           /\ TrueOf(e, p, part'[e][p])
           /\ status'[e] = "delivered" => TrueOf(e, p, "delivered")
    <3> SUFFICES ASSUME NEW e \in Deliveries, NEW p \in Parts
                 PROVE  /\ TrueOf(e, p, part'[e][p])
                        /\ status'[e] = "delivered" => TrueOf(e, p, "delivered")
      OBVIOUS
    <3>1. CASE e = d
      <4>1. TrueOf(d, p, part'[d][p]) /\ (status'[d] = "delivered" => part'[d][p] = "delivered")
        OBVIOUS
      <4> QED
        BY <3>1, <4>1
    <3>2. CASE e # d
      BY <3>2 DEF RowsTellTheTruth
    <3> QED
      BY <3>1, <3>2
  <2> QED
    BY <1>4, <2>1, TruthCarries
<1>7. DeliveredMeansAllParts'
  BY DEF DeliveredMeansAllParts
<1> QED
  BY <1>1, <1>2, <1>3, <1>5, <1>6, <1>7

(* A worker that walks away without a write, because its fence was lost or *)
(* its transaction failed, preserves the invariant.                        *)
LEMMA FinishOnly ==
  ASSUME QueueInv, NEW w \in Workers, NEW d \in Deliveries, finish(w, d),
         UNCHANGED <<rowVars, providerVars, reported>>
  PROVE  QueueInv'
<1> USE ConstantsAssumption DEF QueueInv, TypeOK, finish, rowVars, providerVars
<1>1. TypeOK'
  OBVIOUS
<1>2. StoredChecks'
  BY DEF StoredChecks
<1>3. FencesAreUnique'
  BY DEF FencesAreUnique
<1>4. AtMostOnce'
  BY DEF AtMostOnce
<1>5. SendersAreSound'
  <2> SUFFICES ASSUME NEW v \in Workers PROVE SenderIsSound(v)'
    BY DEF SendersAreSound
  <2>1. CASE v = w
    BY <2>1 DEF SenderIsSound
  <2>2. CASE v # w
    <3>1. SenderIsSound(v)
      BY DEF SendersAreSound
    <3>2. /\ \A u \in Workers : phase'[u] = "calling" =>
                phase[u] = "calling" /\ cur'[u] = cur[u] /\ at'[u] = at[u]
          /\ \A e \in Deliveries : own_row_fence(v, e)' <=> own_row_fence(v, e)
          /\ phase'[v] = phase[v] /\ cur'[v] = cur[v] /\ at'[v] = at[v]
          /\ outcome'[v] = outcome[v] /\ \A e \in Deliveries : claim'[v][e] = claim[v][e]
      BY <2>2 DEF own_row_fence
    <3>3. phase[v] = "calling" /\ part'[cur[v]][at[v]] = "sending" => own_row_fence(v, cur[v])'
      BY <3>1, <3>2 DEF SenderIsSound
    <3> QED
      BY <3>1, <3>2, <3>3, SenderTransfer
  <2> QED
    BY <2>1, <2>2
<1>6. RowsTellTheTruth'
  <2>1. \A u \in Workers : phase'[u] = "calling" =>
           phase[u] = "calling" /\ cur'[u] = cur[u] /\ at'[u] = at[u]
    OBVIOUS
  <2> QED
    BY <2>1, TruthCarries DEF RowsTellTheTruth
<1>7. DeliveredMeansAllParts'
  BY DEF DeliveredMeansAllParts
<1> QED
  BY <1>1, <1>2, <1>3, <1>4, <1>5, <1>6, <1>7 

(* bury_unsent_parts changes exactly the unfinished parts, to dead.        *)
LEMMA BuryFacts ==
  ASSUME NEW ps \in [Parts -> PartStatus]
  PROVE  /\ bury_unsent_parts(ps) \in [Parts -> PartStatus]
         /\ \A p \in Parts :
              bury_unsent_parts(ps)[p] =
                IF ps[p] \in is_unfinished THEN "dead" ELSE ps[p]
BY DEF bury_unsent_parts, PartStatus

(* cancelled_parent_status never returns a claimable status, and returns   *)
(* delivered only for a delivery whose every part is.                      *)
LEMMA CancelledStatusFacts ==
  ASSUME NEW ps \in [Parts -> PartStatus]
  PROVE  /\ cancelled_parent_status(ps) \in {"outcome_unknown", "delivered", "dead_letter"}
         /\ cancelled_parent_status(ps) = "delivered" =>
              \A p \in Parts : ps[p] = "delivered"
BY DEF cancelled_parent_status

(* settle_cancelled_on, reached from begin_part, complete_part,            *)
(* fail_delivery or release_delivery, preserves the invariant.             *)
LEMMA SettleCancelledInv ==
  ASSUME QueueInv, NEW w \in Workers, NEW d \in Deliveries,
         NEW ps \in [Parts -> PartStatus],
         own_row_fence(w, d),
         settle_cancelled(d, ps), finish(w, d), UNCHANGED providerVars,
         reported' \in [Deliveries -> DeliveryStatus \cup {"none"}],
         cancelled' \in [Deliveries -> BOOLEAN],
         \A e \in Deliveries \ {d} : cancelled'[e] = cancelled[e],
         \A p \in Parts :
            /\ TrueOf(d, p, ps[p])
            /\ ps[p] = "sending" => part[d][p] = "sending"
  PROVE  QueueInv'
<1> DEFINE bs == bury_unsent_parts(ps)
<1>1. bs \in [Parts -> PartStatus] /\ \A p \in Parts : bs[p] = IF ps[p] \in is_unfinished THEN "dead" ELSE ps[p]
  BY BuryFacts
<1>2. /\ cancelled_parent_status(bs) \in {"outcome_unknown", "delivered", "dead_letter"}
      /\ cancelled_parent_status(bs) = "delivered" => \A p \in Parts : bs[p] = "delivered"
  BY <1>1, CancelledStatusFacts
<1> HIDE DEF bs
<1>3. /\ status' = [status EXCEPT ![d] = cancelled_parent_status(bs)]
      /\ part' = [part EXCEPT ![d] = bs]
      /\ lease' = [lease EXCEPT ![d] = NoLease]
      /\ UNCHANGED <<attempt, due, proof, minted, wire, accepted>>
  BY DEF settle_cancelled, bs, providerVars
<1>4. TypeOK'
  BY <1>1, <1>2, <1>3, ConstantsAssumption DEF QueueInv, TypeOK, finish, NoLease, DeliveryStatus
<1>5. \A p \in Parts :
            /\ TrueOf(d, p, bs[p])
            /\ bs[p] = "sending" => part[d][p] = "sending"
  BY <1>1 DEF is_unfinished, TrueOf
<1>6. \A e \in Deliveries \ {d} :
            /\ status'[e] = status[e] /\ attempt'[e] = attempt[e]
            /\ cancelled'[e] = cancelled[e] /\ lease'[e] = lease[e] /\ part'[e] = part[e]
  BY <1>3 DEF QueueInv, TypeOK
<1>7. /\ lease'[d] = NoLease
      /\ status'[d] = cancelled_parent_status(bs)
      /\ part'[d] = bs
  BY <1>3 DEF QueueInv, TypeOK
<1>8. /\ status'[d] \in DeliveryStatus \ {"sending"}
      /\ status'[d] \notin is_claimable
  BY <1>2, <1>7 DEF DeliveryStatus, is_claimable
<1>9. \A p \in Parts :
            /\ TrueOf(d, p, part'[d][p])
            /\ part'[d][p] = "sending" => part[d][p] = "sending"
            /\ status'[d] = "delivered" => part'[d][p] = "delivered"
  BY <1>2, <1>5, <1>7
<1> QED
  BY <1>3, <1>4, <1>6, <1>7, <1>8, <1>9, ReleasingWrite

(* Putting the request on the wire, or not doing so because of a shutdown, *)
(* preserves the invariant: begin_part left nothing else outstanding for   *)
(* the part.                                                               *)
LEMMA CallProviderInv == ASSUME QueueInv, NEW w \in Workers, call_provider(w) PROVE QueueInv'
<1> USE DEF QueueInv
<1>0. cur[w] \in Deliveries /\ at[w] \in Parts /\ claim[w][cur[w]] # 0
  BY DEF call_provider, SendersAreSound, SenderIsSound
<1>r. RequestOf(w) \in Requests
  BY <1>0, ConstantsAssumption DEF TypeOK, RequestOf, Requests
<1>1. TypeOK'
  BY <1>r, ConstantsAssumption DEF TypeOK, call_provider, rowVars, RequestOf, ProviderSendOutcome
<1>2. StoredChecks' /\ FencesAreUnique' /\ DeliveredMeansAllParts'
  BY DEF StoredChecks, FencesAreUnique, DeliveredMeansAllParts, call_provider, rowVars
<1>c. /\ phase[w] = "calling" /\ SenderIsSound(w)
      /\ cur' = cur /\ at' = at /\ claim' = claim /\ part' = part /\ accepted' = accepted
      /\ status' = status /\ lease' = lease
      /\ \A v \in Workers : v # w => phase'[v] = phase[v] /\ outcome'[v] = outcome[v]
      /\ \/ phase'[w] = "waiting" /\ wire' = wire \cup {RequestOf(w)}
         \/ phase'[w] = "reporting" /\ outcome'[w] = "unknown" /\ wire' = wire
  BY DEF call_provider, SendersAreSound, TypeOK, rowVars
<1>q. RequestOf(w).row = cur[w] /\ RequestOf(w).part = at[w]
  BY DEF RequestOf
<1>n. cur[w] \notin Replayed => ~Sent(cur[w], at[w])
  BY <1>c DEF SenderIsSound
<1>3. AtMostOnce'
  <2>1. \A r, s \in wire' \cup accepted' : SamePart(r, s) /\ r.row \notin Replayed => r = s
    BY <1>c, <1>q, <1>n DEF AtMostOnce, SamePart, Sent
  <2>2. \A r \in wire' \cap accepted' : r.row \in Replayed
    BY <1>c, <1>q, <1>n DEF AtMostOnce, Sent
  <2> QED
    BY <1>c, <2>1, <2>2 DEF AtMostOnce
<1>4. /\ \A u \in Workers : phase'[u] = "calling" => u # w /\ phase[u] = "calling"
      /\ \A e \in Deliveries, p \in Parts :
            Sent(e, p)' => Sent(e, p) \/ (e = cur[w] /\ p = at[w])
  BY <1>c, <1>q DEF Sent
<1>5. SendersAreSound'
  <2> SUFFICES ASSUME NEW v \in Workers PROVE SenderIsSound(v)'
    BY DEF SendersAreSound
  <2>s. SenderIsSound(v)
    BY DEF SendersAreSound
  <2>1. CASE v = w
    BY <2>1, <1>0, <1>c DEF SenderIsSound
  <2>2. CASE v # w
    <3>1. /\ phase'[v] = phase[v] /\ outcome'[v] = outcome[v]
          /\ \A e \in Deliveries : own_row_fence(v, e)' <=> own_row_fence(v, e)
      BY <2>2, <1>c DEF own_row_fence
    <3>2. phase[v] = "calling" => ~(cur[v] = cur[w] /\ at[v] = at[w])
      BY <2>2, <1>c DEF SenderIsSound
    <3>3. (own_row_fence(v, cur[v]) /\ part[cur[v]][at[v]] = "sending") =>
             ~(cur[v] = cur[w] /\ at[v] = at[w])
      <4>1. own_row_fence(v, cur[w]) => part[cur[w]][at[w]] # "sending"
        BY <2>2, <1>0, <1>c, CallerOwns
      <4> QED
        BY <4>1
    <3> QED
      BY <2>s, <3>1, <3>2, <3>3, <1>c, <1>4 DEF SenderIsSound
  <2> QED
    BY <2>1, <2>2
<1>6. RowsTellTheTruth'
  <2> SUFFICES ASSUME NEW e \in Deliveries, NEW p \in Parts
               PROVE  /\ TrueOf(e, p, part[e][p])'
                      /\ status'[e] = "delivered" => TrueOf(e, p, "delivered")'
    BY DEF RowsTellTheTruth
  <2>1. TrueOf(e, p, part[e][p]) /\ (status[e] = "delivered" => TrueOf(e, p, "delivered"))
    BY DEF RowsTellTheTruth
  <2>2. Leaving(e, p)' => Leaving(e, p)
    BY <1>4, <1>c DEF Leaving
  <2>3. Leaving(cur[w], at[w])
    BY <1>c DEF Leaving
  <2>4. Sent(e, p)' => Sent(e, p) \/ Leaving(e, p)
    BY <1>4, <2>3
  <2> QED
    BY <2>1, <2>2, <2>4, <1>c DEF TrueOf
<1> QED
  BY <1>1, <1>2, <1>3, <1>5, <1>6

(* The provider's answer preserves the invariant: after a refusal nothing  *)
(* of the part is outstanding.                                             *)
LEMMA ProviderReturnsInv ==
  ASSUME QueueInv, NEW w \in Workers, NEW o \in ProviderSendOutcome, provider_returns(w, o)
  PROVE  QueueInv'
<1> USE DEF QueueInv
<1>0. cur[w] \in Deliveries /\ at[w] \in Parts /\ claim[w][cur[w]] # 0
  BY DEF provider_returns, SendersAreSound, SenderIsSound
<1>1. TypeOK'
  BY DEF TypeOK, provider_returns, rowVars, ProviderSendOutcome
<1>2. StoredChecks' /\ FencesAreUnique' /\ DeliveredMeansAllParts'
  BY DEF StoredChecks, FencesAreUnique, DeliveredMeansAllParts, provider_returns, rowVars
<1>4. /\ accepted' = accepted /\ wire' \subseteq wire
      /\ \A u \in Workers : phase'[u] = "calling" =>
             u # w /\ phase[u] = "calling" /\ cur'[u] = cur[u] /\ at'[u] = at[u]
  BY DEF provider_returns, TypeOK
<1>3. AtMostOnce'
  BY <1>4 DEF AtMostOnce
<1>5. SendersAreSound'
  <2> SUFFICES ASSUME NEW v \in Workers PROVE SenderIsSound(v)'
    BY DEF SendersAreSound
  <2>s. SenderIsSound(v)
    BY DEF SendersAreSound
  <2>1. CASE v = w
    <3>1. /\ phase'[w] = "reporting" /\ outcome'[w] = o
          /\ cur'[w] = cur[w] /\ at'[w] = at[w] /\ claim'[w] = claim[w]
      BY DEF provider_returns, TypeOK
    <3>2. RequestOf(w).row = cur[w] /\ RequestOf(w).part = at[w]
      BY DEF RequestOf
    <3>3. o = "delivered" => \E s \in accepted : s.row = cur[w] /\ s.part = at[w]
      BY <3>2 DEF provider_returns, Recognised, SamePart
    <3>4. o \in {"retry_after", "retryable", "terminal"} /\ cur[w] \notin Replayed =>
             ~Sent(cur[w], at[w])'
      <4> SUFFICES ASSUME o \in {"retry_after", "retryable", "terminal"}, cur[w] \notin Replayed
                   PROVE  ~Sent(cur[w], at[w])'
        OBVIOUS
      <4>1. RequestOf(w) \in wire /\ wire' = wire \ {RequestOf(w)}
        BY DEF provider_returns
      <4>2. \A r \in wire \cup accepted :
               r.row = cur[w] /\ r.part = at[w] => r = RequestOf(w)
        BY <3>2, <4>1 DEF AtMostOnce, SamePart
      <4>3. RequestOf(w) \notin accepted'
        BY <3>2, <4>1, <1>4 DEF AtMostOnce
      <4> QED
        BY <4>1, <4>2, <4>3, <1>4, <3>1 DEF Sent
    <3> QED
      BY <2>1, <1>0, <1>4, <3>1, <3>3, <3>4 DEF SenderIsSound, ProviderSendOutcome
  <2>2. CASE v # w
    <3>1. /\ phase'[v] = phase[v] /\ cur'[v] = cur[v] /\ at'[v] = at[v]
          /\ outcome'[v] = outcome[v] /\ claim'[v] = claim[v]
          /\ \A e \in Deliveries : own_row_fence(v, e)' =>
             own_row_fence(v, e) /\ \A p \in Parts : part'[e][p] = "sending" => part[e][p] = "sending"
      BY <2>2 DEF provider_returns, TypeOK, own_row_fence, rowVars
    <3>2. phase[v] = "calling" /\ part'[cur[v]][at[v]] = "sending" => own_row_fence(v, cur[v])'
      BY <2>2, <2>s, <3>1 DEF provider_returns, own_row_fence, SenderIsSound, rowVars
    <3> QED
      BY <2>s, <3>1, <3>2, <1>4, SenderTransfer
  <2> QED
    BY <2>1, <2>2
<1>6. RowsTellTheTruth'
  <2>1. part' = part /\ status' = status
    BY DEF provider_returns, rowVars
  <2> QED
    BY <1>4, <2>1, TruthCarries DEF RowsTellTheTruth
<1> QED
  BY <1>1, <1>2, <1>3, <1>5, <1>6

(* A write by someone who holds no lease (a producer, the canceller, the   *)
(* sweep, the evidence settlement, a clock) preserves the invariant when   *)
(* it takes leases away rather than gives them, starts nothing, and leaves *)
(* true part statuses.                                                     *)
LEMMA RowsOnlyWrite ==
  ASSUME QueueInv, TypeOK', StoredChecks',
         UNCHANGED <<workerVars, providerVars, minted>>,
         \A e \in Deliveries :
            /\ \/ lease'[e].exec = lease[e].exec /\ lease'[e].owner = lease[e].owner
               \/ lease'[e] = NoLease
            /\ status'[e] = "sending" => status[e] = "sending" /\ lease'[e].exec = lease[e].exec,
         \A e \in Deliveries, p \in Parts :
            /\ part'[e][p] = "sending" =>
                  part[e][p] = "sending" /\ (status[e] = "sending" => status'[e] = "sending")
            /\ TrueOf(e, p, part'[e][p])
            /\ status'[e] = "delivered" => part'[e][p] = "delivered"
  PROVE  QueueInv'
<1> USE DEF QueueInv, workerVars, providerVars
<1>1. FencesAreUnique'
  <2>1. \A e \in Deliveries : lease'[e].exec = lease[e].exec \/ lease'[e].exec = 0
    BY DEF NoLease
  <2>2. \A e \in Deliveries : minted[e] \in Nat
    BY ConstantsAssumption DEF TypeOK
  <2>3. \A e \in Deliveries : lease'[e].exec # 0 => lease'[e].owner = lease[e].owner /\ lease'[e].exec = lease[e].exec
    BY DEF NoLease
  <2> QED
    BY <2>1, <2>2, <2>3 DEF FencesAreUnique
<1>2. AtMostOnce'
  BY DEF AtMostOnce
<1>4. SendersAreSound'
  <2> SUFFICES ASSUME NEW v \in Workers PROVE SenderIsSound(v)'
    BY DEF SendersAreSound
  <2>1. SenderIsSound(v)
    BY DEF SendersAreSound
  <2>2. \A e \in Deliveries : own_row_fence(v, e)' =>
             own_row_fence(v, e) /\ \A p \in Parts : part'[e][p] = "sending" => part[e][p] = "sending"
    <3> SUFFICES ASSUME NEW e \in Deliveries, own_row_fence(v, e)'
                 PROVE  own_row_fence(v, e)
      OBVIOUS
    <3>1. lease'[e].owner = lease[e].owner
      BY ConstantsAssumption DEF own_row_fence, NoLease
    <3> QED
      BY <3>1 DEF own_row_fence
  <2>3. phase[v] = "calling" /\ part'[cur[v]][at[v]] = "sending" => own_row_fence(v, cur[v])'
    <3> SUFFICES ASSUME phase[v] = "calling", part'[cur[v]][at[v]] = "sending"
                 PROVE  own_row_fence(v, cur[v])'
      OBVIOUS
    <3> DEFINE e == cur[v]
    <3>1. e \in Deliveries /\ at[v] \in Parts
      BY <2>1 DEF SenderIsSound
    <3>2. part[e][at[v]] = "sending" /\ (status[e] = "sending" => status'[e] = "sending")
      BY <3>1
    <3>3. own_row_fence(v, e)
      BY <2>1, <3>2 DEF SenderIsSound
    <3>4. status'[e] = "sending" /\ lease'[e].exec = lease[e].exec /\ lease[e].exec # 0
      BY <3>1, <3>2, <3>3 DEF own_row_fence, FencesAreUnique
    <3>5. lease'[e].owner = lease[e].owner
      BY <3>1, <3>4 DEF NoLease
    <3> QED
      BY <3>1, <3>3, <3>4, <3>5 DEF own_row_fence
  <2> QED
    BY <2>1, <2>2, <2>3, SenderTransfer
<1>5. RowsTellTheTruth'
  <2>1. \A e \in Deliveries, p \in Parts :
           /\ TrueOf(e, p, part'[e][p])
           /\ status'[e] = "delivered" => TrueOf(e, p, "delivered")
    <3> SUFFICES ASSUME NEW e \in Deliveries, NEW p \in Parts
                 PROVE  /\ TrueOf(e, p, part'[e][p])
                        /\ status'[e] = "delivered" => TrueOf(e, p, "delivered")
      OBVIOUS
    <3>1. TrueOf(e, p, part'[e][p]) /\ (status'[e] = "delivered" => part'[e][p] = "delivered")
      OBVIOUS
    <3> QED
      BY <3>1
  <2> QED
    BY <2>1, TruthCarries
<1>6. DeliveredMeansAllParts'
  BY DEF DeliveredMeansAllParts
<1> QED
  BY <1>1, <1>2, <1>4, <1>5, <1>6

(* insert_delivery_on preserves the invariant.                             *)
LEMMA EnqueueInv == ASSUME QueueInv, NEW d \in Deliveries, enqueue(d) PROVE QueueInv'
<1> USE DEF QueueInv, enqueue, workerVars, providerVars
<1>1. TypeOK'
  BY DEF TypeOK, DeliveryStatus
<1>2. StoredChecks'
  BY DEF StoredChecks, TypeOK, is_claimable
<1>3. \A e \in Deliveries :
         /\ lease'[e] = lease[e] /\ part'[e] = part[e]
         /\ status'[e] # status[e] => status'[e] = "pending" /\ status[e] = "absent"
  BY DEF TypeOK
<1> QED
  BY <1>1, <1>2, <1>3, RowsOnlyWrite DEF RowsTellTheTruth, DeliveredMeansAllParts

(* cancel_locked_deliveries_on preserves the invariant: it buries only     *)
(* parts of deliveries nobody holds.                                       *)
LEMMA CancelInv == ASSUME QueueInv, NEW d \in Deliveries, cancel_deliveries(d) PROVE QueueInv'
<1> USE DEF QueueInv, workerVars, providerVars
<1>0. part[d] \in [Parts -> PartStatus]
  BY DEF TypeOK
<1>1. /\ bury_unsent_parts(part[d]) \in [Parts -> PartStatus]
      /\ \A p \in Parts : bury_unsent_parts(part[d])[p] =
            IF part[d][p] \in is_unfinished THEN "dead" ELSE part[d][p]
  BY <1>0, BuryFacts
<1>2. TypeOK'
  <2>1. part' \in [Deliveries -> [Parts -> PartStatus]]
    BY <1>1 DEF TypeOK, cancel_deliveries
  <2>2. status' \in [Deliveries -> DeliveryStatus \cup {"absent"}]
    <3>1. status' = [status EXCEPT ![d] = "dead_letter"] \/ status' = status
      BY DEF cancel_deliveries
    <3>2. status \in [Deliveries -> DeliveryStatus \cup {"absent"}]
      BY DEF TypeOK
    <3> QED
      BY <3>1, <3>2 DEF DeliveryStatus
  <2> QED
    BY <2>1, <2>2 DEF TypeOK, cancel_deliveries
<1>3. StoredChecks'
  BY DEF StoredChecks, TypeOK, cancel_deliveries, is_claimable
<1>4. \A e \in Deliveries :
         /\ lease'[e] = lease[e]
         /\ status'[e] # status[e] => status'[e] = "dead_letter" /\ status[e] # "sending"
         /\ \A p \in Parts : part'[e][p] # part[e][p] =>
               part[e][p] \in is_unfinished /\ part'[e][p] = "dead"
         /\ status[e] = "delivered" => part'[e] = part[e]
  BY <1>1 DEF TypeOK, cancel_deliveries, is_claimable
<1>5. UNCHANGED <<workerVars, providerVars, minted>>
  BY DEF cancel_deliveries
<1> QED
  BY <1>2, <1>3, <1>4, <1>5, RowsOnlyWrite
     DEF RowsTellTheTruth, TrueOf, DeliveredMeansAllParts, is_unfinished

(* settle_unknown_delivery_on preserves the invariant, given a truthful    *)
(* attestation.                                                            *)
LEMMA SettleUnknownInv ==
  ASSUME QueueInv, NEW d \in Deliveries, NEW o \in {"applied", "final_not_applied"},
         NEW run_live \in BOOLEAN, settle_unknown_delivery(d, o, run_live)
  PROVE  QueueInv'
<1> USE DEF QueueInv, workerVars, providerVars
<1>0. Parts = {1} /\ UNCHANGED <<attempt, lease, minted, workerVars, providerVars, reported>>
  BY DEF settle_unknown_delivery, Parts
<1>1. PICK st, pst :
         /\ status' = [status EXCEPT ![d] = st]
         /\ part' = [part EXCEPT ![d] = [p \in Parts |-> pst]]
         /\ \/ /\ st = "delivered" /\ pst = "delivered" /\ AttestedApplied(d)
               /\ UNCHANGED <<cancelled, due, proof>>
            \/ /\ st = "retryable" /\ pst = "retryable" /\ AttestedFinalNotApplied(d)
               /\ ~cancelled[d] /\ attempt[d] < MaxAttempts
               /\ due' = [due EXCEPT ![d] = TRUE] /\ proof' = [proof EXCEPT ![d] = "valid"]
               /\ UNCHANGED cancelled
            \/ /\ st = "dead_letter" /\ pst = "dead" /\ AttestedFinalNotApplied(d)
               /\ UNCHANGED <<due, proof>>
               /\ cancelled' = [cancelled EXCEPT ![d] = TRUE] \/ UNCHANGED cancelled
  BY DEF settle_unknown_delivery
<1>2. TypeOK'
  BY <1>0, <1>1 DEF TypeOK, DeliveryStatus, PartStatus
<1>3. StoredChecks'
  BY <1>0, <1>1 DEF StoredChecks, TypeOK, is_claimable, settle_unknown_delivery
<1>4. \A e \in Deliveries :
         /\ lease'[e] = lease[e]
         /\ e # d => status'[e] = status[e] /\ part'[e] = part[e]
  BY <1>0, <1>1 DEF TypeOK
<1>5. /\ status'[d] = st /\ st \in {"delivered", "retryable", "dead_letter"}
      /\ \A p \in Parts : part'[d][p] = pst
      /\ pst \in {"delivered", "retryable", "dead"}
      /\ st = "delivered" => pst = "delivered"
  BY <1>0, <1>1 DEF TypeOK
<1>6. pst # "delivered" => \A p \in Parts : ~Sent(d, p) /\ ~Leaving(d, p)
  BY <1>1 DEF AttestedFinalNotApplied, Sent, Leaving
<1>7. pst = "delivered" => \A p \in Parts : \E r \in accepted : r.row = d /\ r.part = p
  BY <1>0, <1>1 DEF AttestedApplied, TypeOK, Requests
<1> QED
  <2>1. \A p \in Parts : TrueOf(d, p, part'[d][p])
    BY <1>5, <1>6, <1>7 DEF TrueOf
  <2> QED
    BY <1>0, <1>2, <1>3, <1>4, <1>5, <2>1, RowsOnlyWrite
       DEF RowsTellTheTruth, DeliveredMeansAllParts

(* What the sweep does to one row: a lapsed claim ends, a started part     *)
(* becomes outcome_unknown, no attempt count passes its maximum, and other *)
(* rows change only by being orphaned.                                     *)
LEMMA ReapFacts ==
  ASSUME QueueInv, NEW w \in Workers, reap_expired_deliveries(w), NEW d \in Deliveries
  PROVE  /\ Expired(d) => /\ status[d] = "sending"
                          /\ status'[d] \in {"outcome_unknown", "dead_letter", "retryable"}
                          /\ lease'[d] = NoLease
         /\ ~Expired(d) => /\ lease'[d] = lease[d] /\ part'[d] = part[d]
                           /\ status'[d] = status[d] \/
                              (status[d] \in is_claimable /\ status'[d] = "dead_letter")
         /\ attempt'[d] \in 0 .. MaxAttempts
         /\ status'[d] \in is_claimable \cup {"absent", "sending"} =>
               attempt'[d] < MaxAttempts
         /\ status'[d] \in is_claimable /\ Expired(d) => ~cancelled[d]
         /\ part'[d] \in [Parts -> PartStatus]
         /\ \A p \in Parts :
               \/ part'[d][p] = part[d][p] /\ (Expired(d) => part[d][p] # "sending")
               \/ part'[d][p] = "outcome_unknown" /\ part[d][p] = "sending"
               \/ part'[d][p] = "dead" /\ part[d][p] \in is_unfinished
<1> USE DEF QueueInv
<1> DEFINE swept == [e \in Deliveries |-> IF Expired(e) THEN reaped_status(e) ELSE status[e]]
<1>1. /\ status'[d] = IF Orphaned(d, swept) THEN "dead_letter" ELSE swept[d]
      /\ attempt'[d] = IF Orphaned(d, swept) THEN MaxAttempts
                       ELSE IF Retried(d) THEN attempt[d] + 1
                       ELSE IF Expired(d) THEN Least(attempt[d])
                       ELSE attempt[d]
      /\ part'[d] = IF ~Expired(d) THEN part[d]
                    ELSE IF cancelled[d] THEN bury_unsent_parts(reaped_parts(d))
                    ELSE reaped_parts(d)
      /\ lease'[d] = IF Expired(d) THEN NoLease ELSE lease[d]
  BY DEF reap_expired_deliveries
<1>2. Orphaned(d, swept) => swept[d] \in is_claimable
  BY DEF Orphaned
<1>3. swept[d] = IF Expired(d) THEN reaped_status(d) ELSE status[d]
  OBVIOUS
<1> HIDE DEF swept
<1>4. Expired(d) => /\ reaped_status(d) \in {"outcome_unknown", "dead_letter", "retryable"}
                    /\ reaped_status(d) = "retryable" => Retried(d) /\ attempt[d] + 1 < MaxAttempts
  BY ConstantsAssumption DEF reaped_status, attempt_failed_status, Retried, TypeOK
<1>5. Expired(d) => status[d] = "sending" /\ attempt[d] < MaxAttempts
  BY DEF Expired, StoredChecks
<1>6. attempt[d] \in 0 .. MaxAttempts /\ MaxAttempts \in Nat
  BY ConstantsAssumption DEF TypeOK
<1>7. Retried(d) => Expired(d) /\ ~cancelled[d]
  BY DEF Retried
<1>8. /\ reaped_parts(d) \in [Parts -> PartStatus]
      /\ \A p \in Parts : reaped_parts(d)[p] =
            IF part[d][p] = "sending" THEN "outcome_unknown" ELSE part[d][p]
  BY DEF reaped_parts, TypeOK, PartStatus
<1>9. /\ bury_unsent_parts(reaped_parts(d)) \in [Parts -> PartStatus]
      /\ \A p \in Parts : bury_unsent_parts(reaped_parts(d))[p] =
            IF reaped_parts(d)[p] \in is_unfinished THEN "dead" ELSE reaped_parts(d)[p]
  BY <1>8, BuryFacts
<1>10. attempt'[d] \in 0 .. MaxAttempts
  BY <1>1, <1>5, <1>6, <1>7 DEF Least
<1>11. status'[d] \in is_claimable \cup {"absent", "sending"} => attempt'[d] < MaxAttempts
  BY <1>1, <1>3, <1>4, <1>5, <1>6, <1>7 DEF StoredChecks, is_claimable
<1>12. part'[d] \in [Parts -> PartStatus]
  BY <1>1, <1>8, <1>9 DEF TypeOK
<1>13. \A p \in Parts :
               \/ part'[d][p] = part[d][p] /\ (Expired(d) => part[d][p] # "sending")
               \/ part'[d][p] = "outcome_unknown" /\ part[d][p] = "sending"
               \/ part'[d][p] = "dead" /\ part[d][p] \in is_unfinished
  BY <1>1, <1>8, <1>9 DEF is_unfinished
<1> QED
  BY <1>1, <1>2, <1>3, <1>4, <1>5, <1>7, <1>10, <1>11, <1>12, <1>13 DEF is_claimable

(* reap_expired_deliveries preserves the invariant, whatever the worker it *)
(* takes the delivery from is doing.                                       *)
LEMMA ReapInv == ASSUME QueueInv, NEW w \in Workers, reap_expired_deliveries(w) PROVE QueueInv'
<1> USE DEF QueueInv, workerVars, providerVars
<1>0. UNCHANGED <<cancelled, proof, minted, workerVars, providerVars, reported>>
  BY DEF reap_expired_deliveries
<1>1. TypeOK'
  <2>1. /\ status' \in [Deliveries -> DeliveryStatus \cup {"absent"}]
        /\ attempt' \in [Deliveries -> 0 .. MaxAttempts]
        /\ part' \in [Deliveries -> [Parts -> PartStatus]]
    <3>1. \A d \in Deliveries : /\ status'[d] \in DeliveryStatus \cup {"absent"}
                                /\ attempt'[d] \in 0 .. MaxAttempts
                                /\ part'[d] \in [Parts -> PartStatus]
      BY ReapFacts DEF TypeOK, DeliveryStatus
    <3>2. /\ status' = [d \in Deliveries |-> status'[d]]
          /\ attempt' = [d \in Deliveries |-> attempt'[d]]
          /\ part' = [d \in Deliveries |-> part'[d]]
      BY DEF reap_expired_deliveries
    <3> QED
      BY <3>1, <3>2
  <2>2. lease' \in [Deliveries ->
                    [exec : 0 .. MaxClaims, owner : Workers \cup {NoWorker}, live : BOOLEAN]]
    BY ConstantsAssumption DEF reap_expired_deliveries, TypeOK, NoLease
  <2>3. due' \in [Deliveries -> BOOLEAN]
    BY DEF reap_expired_deliveries, TypeOK
  <2> QED
    BY <1>0, <2>1, <2>2, <2>3 DEF TypeOK
<1>2. StoredChecks'
  BY <1>0, ReapFacts DEF StoredChecks, is_claimable
<1>3. \A e \in Deliveries :
            /\ \/ lease'[e].exec = lease[e].exec /\ lease'[e].owner = lease[e].owner
               \/ lease'[e] = NoLease
            /\ status'[e] = "sending" => status[e] = "sending" /\ lease'[e].exec = lease[e].exec
  BY ReapFacts DEF is_claimable
<1>4. \A e \in Deliveries, p \in Parts :
            /\ part'[e][p] = "sending" =>
                  part[e][p] = "sending" /\ (status[e] = "sending" => status'[e] = "sending")
            /\ TrueOf(e, p, part'[e][p])
            /\ status'[e] = "delivered" => part'[e][p] = "delivered"
  <2> SUFFICES ASSUME NEW e \in Deliveries, NEW p \in Parts
               PROVE  /\ part'[e][p] = "sending" =>
                            part[e][p] = "sending" /\ (status[e] = "sending" => status'[e] = "sending")
                      /\ TrueOf(e, p, part'[e][p])
                      /\ status'[e] = "delivered" => part'[e][p] = "delivered"
    OBVIOUS
  <2>1. \/ part'[e][p] = part[e][p]
        \/ part'[e][p] = "outcome_unknown"
        \/ part'[e][p] = "dead" /\ part[e][p] \in is_unfinished
    BY ReapFacts
  <2>2. status'[e] = "delivered" => status[e] = "delivered" /\ part'[e] = part[e]
    BY ReapFacts
  <2>3. part'[e][p] = "sending" =>
           part[e][p] = "sending" /\ (status[e] = "sending" => status'[e] = "sending")
    BY ReapFacts DEF is_claimable
  <2>4. TrueOf(e, p, part[e][p]) /\ (status[e] = "delivered" => part[e][p] = "delivered")
    BY DEF RowsTellTheTruth, DeliveredMeansAllParts
  <2>5. TrueOf(e, p, part'[e][p])
    BY <2>1, <2>4 DEF TrueOf, is_unfinished
  <2> QED
    BY <2>2, <2>3, <2>4, <2>5
<1> QED
  BY <1>0, <1>1, <1>2, <1>3, <1>4, RowsOnlyWrite

(* claim_deliveries preserves the invariant: a fresh execution id has no   *)
(* other holder.                                                           *)
LEMMA ClaimInv ==
  ASSUME QueueInv, NEW w \in Workers, NEW S \in SUBSET Deliveries, claim_deliveries(w, S)
  PROVE  QueueInv'
<1> USE DEF QueueInv
<1>0. /\ UNCHANGED <<attempt, cancelled, due, proof, part, phase, cur, at, outcome, stopping>>
      /\ UNCHANGED <<wire, accepted>>
      /\ claim[w] = EmptyBatch /\ phase[w] = "loop"
  BY DEF claim_deliveries, Idle, providerVars
<1>a. \A d \in S : d \in Deliveries /\ status[d] \in is_claimable /\ ~cancelled[d] /\ minted[d] < MaxClaims
  BY DEF claim_deliveries, Claimable
<1>b. \A d \in Deliveries : /\ status'[d] = IF d \in S THEN "sending" ELSE status[d]
                            /\ minted'[d] = IF d \in S THEN minted[d] + 1 ELSE minted[d]
  BY DEF claim_deliveries
<1>c. \A d \in Deliveries :
         lease'[d] = IF d \in S THEN [exec |-> minted[d] + 1, owner |-> w, live |-> TRUE]
                     ELSE lease[d]
  BY DEF claim_deliveries
<1>d. \A d \in Deliveries :
         /\ d \in S => lease'[d].exec = minted[d] + 1 /\ lease'[d].owner = w
         /\ d \notin S => lease'[d] = lease[d]
  <2> SUFFICES ASSUME NEW d \in Deliveries
               PROVE  /\ d \in S => lease'[d].exec = minted[d] + 1 /\ lease'[d].owner = w
                      /\ d \notin S => lease'[d] = lease[d]
    OBVIOUS
  <2>1. CASE d \in S
    <3> DEFINE n == minted[d] + 1
    <3>1. lease'[d] = [exec |-> n, owner |-> w, live |-> TRUE]
      BY <2>1, <1>c
    <3> HIDE DEF n
    <3>2. lease'[d].exec = n /\ lease'[d].owner = w
      BY <3>1
    <3> QED
      BY <2>1, <3>2 DEF n
  <2>2. CASE d \notin S
    BY <2>2, <1>c
  <2> QED
    BY <2>1, <2>2
<1>e. /\ claim \in [Workers -> [Deliveries -> 0 .. MaxClaims]]
      /\ minted \in [Deliveries -> 0 .. MaxClaims] /\ MaxClaims \in Nat
  BY ConstantsAssumption DEF TypeOK
<1>f. \A d \in S : minted[d] + 1 \in 0 .. MaxClaims
  BY <1>a, <1>e
<1>1. /\ claim' \in [Workers -> [Deliveries -> 0 .. MaxClaims]]
      /\ \A v \in Workers \ {w} : claim'[v] = claim[v]
      /\ \A d \in Deliveries :
            claim'[w][d] = 0 \/ (d \in S /\ claim'[w][d] = minted[d] + 1)
  <2>2. \/ claim' = [claim EXCEPT ![w] =
                       [d \in Deliveries |-> IF d \in S THEN minted[d] + 1 ELSE 0]]
        \/ claim' = claim
    BY DEF claim_deliveries
  <2>3. \A d \in Deliveries : claim[w][d] = 0
    BY <1>0 DEF EmptyBatch
  <2>4. PICK batch : batch = [d \in Deliveries |-> IF d \in S THEN minted[d] + 1 ELSE 0]
    OBVIOUS
  <2>5. /\ batch \in [Deliveries -> 0 .. MaxClaims]
        /\ \A d \in Deliveries : batch[d] = IF d \in S THEN minted[d] + 1 ELSE 0
    BY <1>e, <1>f, <2>4
  <2>6. claim' = [claim EXCEPT ![w] = batch] \/ claim' = claim
    BY <2>2, <2>4
  <2>7. claim \in [Workers -> [Deliveries -> 0 .. MaxClaims]]
    BY <1>e
  <2> QED
    BY <2>3, <2>5, <2>6, <2>7
<1>2. TypeOK'
  <2>1. status' \in [Deliveries -> DeliveryStatus \cup {"absent"}]
    <3>1. status' = [d \in Deliveries |-> status'[d]]
      BY DEF claim_deliveries
    <3> QED
      BY <1>b, <3>1 DEF TypeOK, DeliveryStatus
  <2>2. minted' \in [Deliveries -> 0 .. MaxClaims]
    <3>1. minted' = [d \in Deliveries |-> IF d \in S THEN minted[d] + 1 ELSE minted[d]]
      BY DEF claim_deliveries
    <3> QED
      BY <1>e, <1>f, <3>1
  <2>3. reported' \in [Deliveries -> DeliveryStatus \cup {"none"}]
    <3>1. reported' = [d \in Deliveries |-> IF d \in S THEN "none" ELSE reported[d]]
      BY DEF claim_deliveries
    <3> QED
      BY <3>1 DEF TypeOK
  <2>4. lease' \in [Deliveries ->
                    [exec : 0 .. MaxClaims, owner : Workers \cup {NoWorker}, live : BOOLEAN]]
    <3>1. lease' = [d \in Deliveries |->
                      IF d \in S THEN [exec |-> minted[d] + 1, owner |-> w, live |-> TRUE]
                      ELSE lease[d]]
      BY DEF claim_deliveries
    <3>2. lease \in [Deliveries ->
                    [exec : 0 .. MaxClaims, owner : Workers \cup {NoWorker}, live : BOOLEAN]]
      BY DEF TypeOK
    <3> QED
      BY <1>f, <3>1, <3>2
  <2>5. held' \in [Workers -> SUBSET Deliveries]
    <3>1. held' = [held EXCEPT ![w] = S] \/ held' = held
      BY DEF claim_deliveries
    <3> QED
      BY <3>1 DEF TypeOK
  <2>6. todo' \in [Workers -> [Deliveries -> SUBSET Parts]]
    <3>1. \/ todo' = [todo EXCEPT ![w] =
                       [d \in Deliveries |->
                          IF d \in S THEN {p \in Parts : part[d][p] \in is_unfinished} ELSE {}]]
          \/ todo' = todo
      BY DEF claim_deliveries
    <3>2. [d \in Deliveries |->
             IF d \in S THEN {p \in Parts : part[d][p] \in is_unfinished} ELSE {}]
          \in [Deliveries -> SUBSET Parts]
      OBVIOUS
    <3> QED
      BY <3>1, <3>2 DEF TypeOK
  <2> QED
    BY <1>0, <1>1, <2>1, <2>2, <2>3, <2>4, <2>5, <2>6 DEF TypeOK
<1>3. StoredChecks'
  <2> SUFFICES ASSUME NEW d \in Deliveries
               PROVE  /\ status'[d] = "sending" <=> lease'[d] # NoLease
                      /\ cancelled'[d] => status'[d] \notin is_claimable \cup {"absent"}
                      /\ status'[d] \in is_claimable \cup {"absent", "sending"} =>
                            attempt'[d] < MaxAttempts
    BY DEF StoredChecks, NoLease
  <2>1. CASE d \in S
    <3>1. lease'[d] # NoLease
      BY <2>1, <1>d, ConstantsAssumption DEF NoLease
    <3> QED
      BY <2>1, <3>1, <1>0, <1>a, <1>b DEF StoredChecks, is_claimable
  <2>2. CASE d \notin S
    BY <2>2, <1>0, <1>b, <1>d DEF StoredChecks
  <2> QED
    BY <2>1, <2>2
<1>4. FencesAreUnique'
  <2>1. /\ \A d \in Deliveries : minted[d] \in Nat /\ lease[d].exec \in Nat
        /\ \A v \in Workers, d \in Deliveries : claim[v][d] \in Nat
    BY ConstantsAssumption DEF TypeOK
  <2> SUFFICES ASSUME NEW d \in Deliveries
               PROVE  /\ status'[d] = "sending" => lease'[d].exec # 0
                      /\ lease'[d].exec <= minted'[d]
                      /\ \A u \in Workers :
                           /\ claim'[u][d] <= minted'[d]
                           /\ lease'[d].exec # 0 /\ claim'[u][d] = lease'[d].exec => lease'[d].owner = u
                           /\ \A v \in Workers : claim'[u][d] # 0 /\ claim'[v][d] = claim'[u][d] => v = u
    BY DEF FencesAreUnique
  <2>2. \A u \in Workers : u # w => claim'[u][d] = claim[u][d]
    BY <1>1
  <2>3. CASE d \in S
    BY <2>3, <1>b, <1>d, <1>1, <2>1, <2>2 DEF FencesAreUnique
  <2>4. CASE d \notin S
    <3>1. status'[d] = status[d] /\ minted'[d] = minted[d] /\ lease'[d] = lease[d]
      BY <2>4, <1>b, <1>d
    <3>2. claim'[w][d] = 0
      BY <2>4, <1>1
    <3> QED
      BY <3>1, <3>2, <2>1, <2>2 DEF FencesAreUnique
  <2> QED
    BY <2>3, <2>4
<1>5. AtMostOnce'
  BY <1>0 DEF AtMostOnce
<1>6. SendersAreSound'
  <2> SUFFICES ASSUME NEW v \in Workers PROVE SenderIsSound(v)'
    BY DEF SendersAreSound
  <2>1. CASE v = w
    BY <2>1, <1>0 DEF SenderIsSound
  <2>2. CASE v # w
    <3>1. SenderIsSound(v) /\ claim'[v] = claim[v]
      BY <2>2, <1>1 DEF SendersAreSound
    <3>2. \A e \in Deliveries : own_row_fence(v, e)' =>
             own_row_fence(v, e) /\ \A p \in Parts : part'[e][p] = "sending" => part[e][p] = "sending"
      <4> SUFFICES ASSUME NEW e \in Deliveries, own_row_fence(v, e)' PROVE own_row_fence(v, e)
        BY <1>0
      <4>1. e \notin S
        BY <2>2, <1>d DEF own_row_fence
      <4> QED
        BY <4>1, <1>b, <1>d, <3>1 DEF own_row_fence
    <3>3. phase[v] = "calling" /\ part'[cur[v]][at[v]] = "sending" => own_row_fence(v, cur[v])'
      <4> SUFFICES ASSUME phase[v] = "calling", part[cur[v]][at[v]] = "sending"
                   PROVE  own_row_fence(v, cur[v])'
        BY <1>0
      <4>1. cur[v] \in Deliveries /\ own_row_fence(v, cur[v])
        BY <3>1 DEF SenderIsSound
      <4>2. cur[v] \notin S
        BY <4>1, <1>a DEF own_row_fence, is_claimable
      <4> QED
        BY <4>1, <4>2, <1>0, <1>b, <1>d, <3>1 DEF own_row_fence
    <3> QED
      BY <1>0, <3>1, <3>2, <3>3, SenderTransfer
  <2> QED
    BY <2>1, <2>2
<1>7. \A d \in Deliveries : part'[d] = part[d] /\ (status'[d] = "delivered" => status[d] = "delivered")
  BY <1>0, <1>b
<1>8. RowsTellTheTruth' /\ DeliveredMeansAllParts'
  <2>1. \A e \in Deliveries, p \in Parts :
           /\ TrueOf(e, p, part'[e][p])
           /\ status'[e] = "delivered" => TrueOf(e, p, "delivered")
    BY <1>7 DEF RowsTellTheTruth
  <2>2. RowsTellTheTruth'
    BY <1>0, <2>1, TruthCarries
  <2> QED
    BY <1>7, <2>2 DEF DeliveredMeansAllParts
<1> QED
  BY <1>2, <1>3, <1>4, <1>5, <1>6, <1>8

(* A step in the memory of one worker that brings it no nearer a provider  *)
(* call than begin_part preserves the invariant.                           *)
LEMMA WorkerOnlyStep ==
  ASSUME QueueInv, TypeOK', NEW w \in Workers,
         UNCHANGED <<rowVars, providerVars>>,
         \A v \in Workers \ {w} :
            /\ phase'[v] = phase[v] /\ cur'[v] = cur[v] /\ at'[v] = at[v]
            /\ outcome'[v] = outcome[v] /\ claim'[v] = claim[v],
         \A d \in Deliveries : claim'[w][d] \in {0, claim[w][d]},
         phase'[w] \notin {"calling", "waiting", "reporting"},
         phase'[w] = "ready" =>
            cur'[w] \in Deliveries /\ at'[w] \in Parts /\ claim'[w][cur'[w]] # 0
  PROVE  QueueInv'
<1> USE DEF QueueInv, rowVars, providerVars
<1>1. StoredChecks' /\ AtMostOnce' /\ DeliveredMeansAllParts'
  BY DEF StoredChecks, AtMostOnce, DeliveredMeansAllParts
<1>2. FencesAreUnique'
  <2>1. \A d \in Deliveries : minted[d] \in Nat
    BY ConstantsAssumption DEF TypeOK
  <2>2. \A v \in Workers, d \in Deliveries : claim'[v][d] = 0 \/ claim'[v][d] = claim[v][d]
    <3> SUFFICES ASSUME NEW v \in Workers, NEW d \in Deliveries
                 PROVE  claim'[v][d] = 0 \/ claim'[v][d] = claim[v][d]
      OBVIOUS
    <3> QED
      BY v = w \/ v # w
  <2> QED
    BY <2>1, <2>2 DEF FencesAreUnique
<1>3. \A u \in Workers : phase'[u] = "calling" =>
         phase[u] = "calling" /\ cur'[u] = cur[u] /\ at'[u] = at[u]
  OBVIOUS
<1>4. SendersAreSound'
  <2> SUFFICES ASSUME NEW v \in Workers PROVE SenderIsSound(v)'
    BY DEF SendersAreSound
  <2>1. CASE v = w
    BY <2>1 DEF SenderIsSound
  <2>2. CASE v # w
    <3>1. SenderIsSound(v)
      BY DEF SendersAreSound
    <3>2. \A e \in Deliveries : own_row_fence(v, e)' =>
             own_row_fence(v, e) /\ \A p \in Parts : part'[e][p] = "sending" => part[e][p] = "sending"
      BY <2>2 DEF own_row_fence
    <3>3. phase[v] = "calling" /\ part'[cur[v]][at[v]] = "sending" => own_row_fence(v, cur[v])'
      BY <2>2, <3>1 DEF own_row_fence, SenderIsSound
    <3> QED
      BY <2>2, <1>3, <3>1, <3>2, <3>3, SenderTransfer
  <2> QED
    BY <2>1, <2>2
<1>5. RowsTellTheTruth'
  BY <1>3, TruthCarries DEF RowsTellTheTruth
<1> QED
  BY <1>1, <1>2, <1>4, <1>5

(* renew_delivery_leases preserves the invariant.                          *)
LEMMA RenewInv ==
  ASSUME QueueInv, NEW w \in Workers, NEW d \in Deliveries, NEW p \in Parts,
         renew_delivery_leases(w, d, p)
  PROVE  QueueInv'
<1> USE DEF QueueInv
<1>1. TypeOK'
  <2> DEFINE renewed == {e \in held[w] : live_fence(w, e)}
  <2>1. renewed \subseteq Deliveries
    BY DEF TypeOK
  <2>2. held' = held \/ held' = [held EXCEPT ![w] = renewed]
    BY DEF renew_delivery_leases
  <2> HIDE DEF renewed
  <2>3. held' \in [Workers -> SUBSET Deliveries]
    BY <2>1, <2>2 DEF TypeOK
  <2>4. p \in 0 .. NParts
    BY ConstantsAssumption DEF Parts
  <2>5. claim' = claim \/ claim' = [claim EXCEPT ![w][d] = 0]
    BY DEF renew_delivery_leases
  <2>6. claim' \in [Workers -> [Deliveries -> 0 .. MaxClaims]]
    <3>1. claim \in [Workers -> [Deliveries -> 0 .. MaxClaims]] /\ 0 \in 0 .. MaxClaims
      BY ConstantsAssumption DEF TypeOK
    <3>2. CASE claim' = [claim EXCEPT ![w][d] = 0]
      BY <3>1, <3>2
    <3> QED
      BY <2>5, <3>1, <3>2
  <2>7. todo' = todo \/ todo' = [todo EXCEPT ![w][d] = {}]
    BY DEF renew_delivery_leases
  <2>8. todo' \in [Workers -> [Deliveries -> SUBSET Parts]]
    <3>1. todo \in [Workers -> [Deliveries -> SUBSET Parts]]
      BY DEF TypeOK
    <3>2. CASE todo' = [todo EXCEPT ![w][d] = {}]
      BY <3>1, <3>2
    <3> QED
      BY <2>7, <3>1, <3>2
  <2>9. /\ cur' = [cur EXCEPT ![w] = d] \/ cur' = [cur EXCEPT ![w] = NoDelivery]
        /\ at' = [at EXCEPT ![w] = p] \/ at' = at
        /\ phase' = [phase EXCEPT ![w] = "ready"] \/ phase' = phase
        /\ UNCHANGED <<outcome, stopping, rowVars, providerVars, reported>>
    BY DEF renew_delivery_leases
  <2>10. /\ cur' \in [Workers -> Deliveries \cup {NoDelivery}]
         /\ at' \in [Workers -> 0 .. NParts]
         /\ phase' \in [Workers -> {"down", "loop", "ready", "calling", "waiting", "reporting"}]
    <3>1. cur' \in [Workers -> Deliveries \cup {NoDelivery}]
      BY <2>9 DEF TypeOK
    <3>2. at' \in [Workers -> 0 .. NParts]
      <4>1. at \in [Workers -> 0 .. NParts]
        BY DEF TypeOK
      <4> QED
        BY <2>4, <2>9, <4>1
    <3>3. phase' \in [Workers -> {"down", "loop", "ready", "calling", "waiting", "reporting"}]
      BY <2>9 DEF TypeOK
    <3> QED
      BY <3>1, <3>2, <3>3
  <2> QED
    BY <2>3, <2>6, <2>8, <2>9, <2>10 DEF TypeOK, rowVars, providerVars
<1>2. /\ \A v \in Workers \ {w} :
            /\ phase'[v] = phase[v] /\ cur'[v] = cur[v] /\ at'[v] = at[v]
            /\ outcome'[v] = outcome[v] /\ claim'[v] = claim[v]
      /\ \A e \in Deliveries : claim'[w][e] \in {0, claim[w][e]}
      /\ phase'[w] \notin {"calling", "waiting", "reporting"}
      /\ phase'[w] = "ready" =>
            cur'[w] \in Deliveries /\ at'[w] \in Parts /\ claim'[w][cur'[w]] # 0
  BY DEF TypeOK, renew_delivery_leases, Turn
<1>3. UNCHANGED <<rowVars, providerVars>>
  BY DEF renew_delivery_leases
<1> QED
  BY <1>1, <1>2, <1>3, WorkerOnlyStep

(* Shutdown, death and restart of a worker preserve the invariant: the     *)
(* rows remember what the worker forgets.                                  *)
LEMMA LifecycleInv ==
  ASSUME QueueInv, NEW w \in Workers,
         ShutdownRequested(w) \/ WorkerEnds(w) \/ WorkerStarts(w)
  PROVE  QueueInv'
<1> USE DEF QueueInv
<1>1. CASE ShutdownRequested(w)
  <2>1. TypeOK'
    BY <1>1 DEF TypeOK, ShutdownRequested, rowVars, providerVars
  <2> QED
    BY <1>1, <2>1 DEF ShutdownRequested, rowVars, providerVars, StoredChecks, FencesAreUnique,
       AtMostOnce, SendersAreSound, SenderIsSound, RowsTellTheTruth, DeliveredMeansAllParts,
       TrueOf, Sent, Leaving, own_row_fence
<1>2. CASE WorkerEnds(w)
  <2>1. TypeOK'
    BY <1>2, ConstantsAssumption DEF TypeOK, WorkerEnds, rowVars, providerVars, EmptyBatch, NoParts
  <2>2. /\ \A v \in Workers \ {w} :
            /\ phase'[v] = phase[v] /\ cur'[v] = cur[v] /\ at'[v] = at[v]
            /\ outcome'[v] = outcome[v] /\ claim'[v] = claim[v]
        /\ \A e \in Deliveries : claim'[w][e] \in {0, claim[w][e]}
        /\ phase'[w] = "down"
        /\ UNCHANGED <<rowVars, providerVars>>
    BY <1>2 DEF TypeOK, WorkerEnds, EmptyBatch
  <2> QED
    BY <2>1, <2>2, WorkerOnlyStep
<1>3. CASE WorkerStarts(w)
  <2>1. TypeOK'
    BY <1>3 DEF TypeOK, WorkerStarts, rowVars, providerVars
  <2>2. /\ \A v \in Workers \ {w} :
            /\ phase'[v] = phase[v] /\ cur'[v] = cur[v] /\ at'[v] = at[v]
            /\ outcome'[v] = outcome[v] /\ claim'[v] = claim[v]
        /\ \A e \in Deliveries : claim'[w][e] \in {0, claim[w][e]}
        /\ phase'[w] = "loop"
        /\ UNCHANGED <<rowVars, providerVars>>
    BY <1>3 DEF TypeOK, WorkerStarts
  <2> QED
    BY <2>1, <2>2, WorkerOnlyStep
<1> QED
  BY <1>1, <1>2, <1>3

(* A lapsing lease, an elapsed backoff and an expired proof preserve the   *)
(* invariant.                                                              *)
LEMMA ClockInv ==
  ASSUME QueueInv, NEW d \in Deliveries,
         LeaseLapses(d) \/ BackoffElapses(d) \/ ProofExpires(d)
  PROVE  QueueInv'
<1> USE DEF QueueInv
<1>1. UNCHANGED <<workerVars, providerVars, minted, status, part>>
  BY DEF LeaseLapses, BackoffElapses, ProofExpires
<1>l. lease' = lease \/ lease' = [lease EXCEPT ![d] = [exec |-> lease[d].exec, owner |-> lease[d].owner, live |-> FALSE]]
  BY DEF LeaseLapses, BackoffElapses, ProofExpires
<1>t. lease \in [Deliveries ->
                    [exec : 0 .. MaxClaims, owner : Workers \cup {NoWorker}, live : BOOLEAN]]
  BY DEF TypeOK
<1>2. \A e \in Deliveries : lease'[e].exec = lease[e].exec /\ lease'[e].owner = lease[e].owner
  BY <1>l, <1>t
<1>3. TypeOK'
  <2>1. lease' \in [Deliveries ->
                    [exec : 0 .. MaxClaims, owner : Workers \cup {NoWorker}, live : BOOLEAN]]
    <3>1. lease[d].exec \in 0 .. MaxClaims /\ lease[d].owner \in Workers \cup {NoWorker}
      BY <1>t
    <3>2. [exec |-> lease[d].exec, owner |-> lease[d].owner, live |-> FALSE]
             \in [exec : 0 .. MaxClaims, owner : Workers \cup {NoWorker}, live : BOOLEAN]
      BY <3>1
    <3> QED
      BY <1>l, <1>t, <3>2
  <2>2. due' \in [Deliveries -> BOOLEAN] /\ proof' \in [Deliveries -> {"none", "valid", "expired"}]
    <3>1. due' = due \/ due' = [due EXCEPT ![d] = TRUE]
      BY DEF LeaseLapses, BackoffElapses, ProofExpires
    <3>2. proof' = proof \/ proof' = [proof EXCEPT ![d] = "expired"]
      BY DEF LeaseLapses, BackoffElapses, ProofExpires
    <3>3. due \in [Deliveries -> BOOLEAN] /\ proof \in [Deliveries -> {"none", "valid", "expired"}]
      BY DEF TypeOK
    <3> QED
      BY <3>1, <3>2, <3>3
  <2>3. UNCHANGED <<attempt, cancelled, reported>>
    BY DEF LeaseLapses, BackoffElapses, ProofExpires
  <2> QED
    BY <1>1, <2>1, <2>2, <2>3 DEF TypeOK, workerVars, providerVars
<1>4. StoredChecks'
  <2>1. \A e \in Deliveries : status[e] # "sending" => lease'[e] = lease[e]
    BY DEF LeaseLapses, BackoffElapses, ProofExpires, TypeOK
  <2>2. \A e \in Deliveries : status[e] = "sending" => lease'[e] # NoLease
    BY <1>2 DEF FencesAreUnique, NoLease
  <2>3. UNCHANGED <<attempt, cancelled>>
    BY DEF LeaseLapses, BackoffElapses, ProofExpires
  <2> QED
    BY <1>1, <2>1, <2>2, <2>3 DEF StoredChecks
<1>5. \A e \in Deliveries :
            /\ \/ lease'[e].exec = lease[e].exec /\ lease'[e].owner = lease[e].owner
               \/ lease'[e] = NoLease
            /\ status'[e] = "sending" => status[e] = "sending" /\ lease'[e].exec = lease[e].exec
  BY <1>1, <1>2
<1>6. \A e \in Deliveries, p \in Parts :
            /\ part'[e][p] = "sending" =>
                  part[e][p] = "sending" /\ (status[e] = "sending" => status'[e] = "sending")
            /\ TrueOf(e, p, part'[e][p])
            /\ status'[e] = "delivered" => part'[e][p] = "delivered"
  BY <1>1 DEF RowsTellTheTruth, DeliveredMeansAllParts
<1> QED
  BY <1>1, <1>3, <1>4, <1>5, <1>6, RowsOnlyWrite

(* The provider accepting or losing a request, at any time, preserves the  *)
(* invariant.                                                              *)
LEMMA ProviderInv ==
  ASSUME QueueInv, NEW r \in wire, ProviderAccepts(r) \/ RequestDropped(r)
  PROVE  QueueInv'
<1> USE DEF QueueInv
<1>1. UNCHANGED <<rowVars, workerVars, reported>>
  BY DEF ProviderAccepts, RequestDropped
<1>2. /\ wire' \subseteq wire /\ accepted \subseteq accepted'
      /\ wire' \cup accepted' \subseteq wire \cup accepted
      /\ wire' = wire \ {r} /\ accepted' \in {accepted, accepted \cup {r}}
  BY DEF ProviderAccepts, RequestDropped
<1>3. TypeOK'
  BY <1>1, <1>2 DEF TypeOK, rowVars, workerVars
<1>4. StoredChecks' /\ FencesAreUnique' /\ DeliveredMeansAllParts'
  BY <1>1 DEF StoredChecks, FencesAreUnique, DeliveredMeansAllParts, rowVars, workerVars
<1>5. AtMostOnce'
  <2>1. \A s, t \in wire' \cup accepted' : SamePart(s, t) /\ s.row \notin Replayed => s = t
    BY <1>2 DEF AtMostOnce
  <2>2. \A s \in wire' \cap accepted' : s.row \in Replayed
    BY <1>2 DEF AtMostOnce
  <2>3. \A s, t \in accepted' : SamePart(s, t) /\ s.row \notin Unkeyed => s = t
    <3>1. CASE accepted' = accepted
      BY <3>1 DEF AtMostOnce
    <3>2. CASE ProviderAccepts(r)
      <4>1. \A s \in accepted : SamePart(s, r) => s.row \in Unkeyed \/ s = r
        BY <3>2 DEF ProviderAccepts, Recognised, SamePart, AtMostOnce
      <4>2. \A s \in accepted : SamePart(r, s) => r.row \in Unkeyed \/ s = r
        BY <4>1 DEF SamePart
      <4>3. accepted' = accepted \cup {r}
        BY <3>2 DEF ProviderAccepts
      <4> QED
        BY <4>1, <4>2, <4>3 DEF AtMostOnce
    <3> QED
      BY <3>1, <3>2 DEF RequestDropped
  <2> QED
    BY <2>1, <2>2, <2>3 DEF AtMostOnce
<1>7. SendersAreSound'
  <2> SUFFICES ASSUME NEW v \in Workers PROVE SenderIsSound(v)'
    BY DEF SendersAreSound
  <2>1. SenderIsSound(v)
    BY DEF SendersAreSound
  <2>2. \A e \in Deliveries : own_row_fence(v, e)' =>
             own_row_fence(v, e) /\ \A p \in Parts : part'[e][p] = "sending" => part[e][p] = "sending"
    BY <1>1 DEF own_row_fence, rowVars, workerVars
  <2>3. phase[v] = "calling" /\ part'[cur[v]][at[v]] = "sending" => own_row_fence(v, cur[v])'
    BY <1>1, <2>1 DEF own_row_fence, SenderIsSound, rowVars, workerVars
  <2> QED
    BY <1>1, <1>2, <2>1, <2>2, <2>3, SenderTransfer DEF workerVars
<1>8. RowsTellTheTruth'
  BY <1>1, <1>2, TruthCarries DEF RowsTellTheTruth, rowVars, workerVars
<1> QED
  BY <1>3, <1>4, <1>5, <1>7, <1>8

(* BatchLeases::finish keeps the types of the worker's variables.          *)
LEMMA FinishType ==
  ASSUME TypeOK, NEW w \in Workers, NEW d \in Deliveries, finish(w, d)
  PROVE  /\ phase' \in [Workers -> {"down", "loop", "ready", "calling", "waiting", "reporting"}]
         /\ claim' \in [Workers -> [Deliveries -> 0 .. MaxClaims]]
         /\ held' \in [Workers -> SUBSET Deliveries]
         /\ todo' \in [Workers -> [Deliveries -> SUBSET Parts]]
         /\ cur' \in [Workers -> Deliveries \cup {NoDelivery}]
         /\ at' \in [Workers -> 0 .. NParts]
         /\ outcome' \in [Workers -> ProviderSendOutcome \cup {"none"}]
         /\ stopping' \in [Workers -> BOOLEAN]
BY ConstantsAssumption DEF finish, TypeOK

(* A fenced write that keeps the lease (complete_part with parts left,     *)
(* begin_part whose acknowledgement is lost) preserves the invariant.      *)
LEMMA KeepingWrite ==
  ASSUME QueueInv, TypeOK', NEW w \in Workers, NEW d \in Deliveries,
         own_row_fence(w, d),
         UNCHANGED <<status, attempt, cancelled, lease, minted, wire, accepted>>,
         \A v \in Workers \ {w} :
            /\ phase'[v] = phase[v] /\ cur'[v] = cur[v] /\ at'[v] = at[v]
            /\ outcome'[v] = outcome[v] /\ claim'[v] = claim[v],
         \A e \in Deliveries : claim'[w][e] \in {0, claim[w][e]},
         phase'[w] = "loop",
         \A e \in Deliveries \ {d} : part'[e] = part[e],
         \A p \in Parts :
            /\ TrueOf(d, p, part'[d][p])
            /\ part'[d][p] = "sending" => part[d][p] = "sending" \/ ~Leaving(d, p)
  PROVE  QueueInv'
<1> USE DEF QueueInv
<1>0. status[d] = "sending" /\ lease[d].owner = w
  BY DEF own_row_fence
<1>1. StoredChecks' /\ AtMostOnce'
  BY DEF StoredChecks, AtMostOnce
<1>2. FencesAreUnique'
  <2>1. \A e \in Deliveries : minted[e] \in Nat
    BY ConstantsAssumption DEF TypeOK
  <2>2. \A v \in Workers, e \in Deliveries : claim'[v][e] = 0 \/ claim'[v][e] = claim[v][e]
    <3> SUFFICES ASSUME NEW v \in Workers, NEW e \in Deliveries
                 PROVE  claim'[v][e] = 0 \/ claim'[v][e] = claim[v][e]
      OBVIOUS
    <3> QED
      BY v = w \/ v # w
  <2> QED
    BY <2>1, <2>2 DEF FencesAreUnique
<1>3. \A u \in Workers : phase'[u] = "calling" =>
         phase[u] = "calling" /\ cur'[u] = cur[u] /\ at'[u] = at[u]
  OBVIOUS
<1>5. SendersAreSound'
  <2> SUFFICES ASSUME NEW v \in Workers PROVE SenderIsSound(v)'
    BY DEF SendersAreSound
  <2>1. CASE v = w
    BY <2>1 DEF SenderIsSound
  <2>2. CASE v # w
    <3>1. SenderIsSound(v)
      BY DEF SendersAreSound
    <3>2. \A e \in Deliveries : own_row_fence(v, e)' =>
             own_row_fence(v, e) /\ \A p \in Parts : part'[e][p] = "sending" => part[e][p] = "sending"
      <4> SUFFICES ASSUME NEW e \in Deliveries, own_row_fence(v, e)'
                   PROVE  own_row_fence(v, e) /\ part'[e] = part[e]
        OBVIOUS
      <4>1. own_row_fence(v, e)
        BY <2>2 DEF own_row_fence
      <4>2. e # d
        BY <2>2, <1>0, <4>1 DEF own_row_fence
      <4> QED
        BY <4>1, <4>2
    <3>3. phase[v] = "calling" /\ part'[cur[v]][at[v]] = "sending" => own_row_fence(v, cur[v])'
      <4> SUFFICES ASSUME phase[v] = "calling", part'[cur[v]][at[v]] = "sending"
                   PROVE  own_row_fence(v, cur[v])'
        OBVIOUS
      <4>1. cur[v] \in Deliveries /\ at[v] \in Parts /\ Leaving(cur[v], at[v])
        BY <3>1 DEF SenderIsSound, Leaving
      <4>2. cur[v] # d
        BY <2>2, <4>1, CallerOwns
      <4>3. part[cur[v]][at[v]] = "sending"
        BY <4>1, <4>2
      <4> QED
        BY <2>2, <3>1, <4>1, <4>3 DEF SenderIsSound, own_row_fence
    <3> QED
      BY <2>2, <1>3, <3>1, <3>2, <3>3, SenderTransfer
  <2> QED
    BY <2>1, <2>2
<1>6. RowsTellTheTruth'
  <2>1. \A e \in Deliveries, p \in Parts :
           /\ TrueOf(e, p, part'[e][p])
           /\ status'[e] = "delivered" => TrueOf(e, p, "delivered")
    <3> SUFFICES ASSUME NEW e \in Deliveries, NEW p \in Parts
                 PROVE  /\ TrueOf(e, p, part'[e][p])
                        /\ status'[e] = "delivered" => TrueOf(e, p, "delivered")
      OBVIOUS
    <3>1. CASE e = d
      BY <3>1, <1>0
    <3>2. CASE e # d
      BY <3>2 DEF RowsTellTheTruth
    <3> QED
      BY <3>1, <3>2
  <2> QED
    BY <1>3, <2>1, TruthCarries
<1>7. DeliveredMeansAllParts'
  BY <1>0 DEF DeliveredMeansAllParts
<1> QED
  BY <1>1, <1>2, <1>5, <1>6, <1>7

(* begin_part's committed marker preserves the invariant: the part it      *)
(* starts has nothing outstanding, so the call that follows is the only    *)
(* one.                                                                    *)
LEMMA StartInv ==
  ASSUME QueueInv, NEW w \in Workers, NEW d \in Deliveries, NEW p \in Parts,
         cur[w] = d, at[w] = p, claim[w][d] # 0,
         own_row_fence(w, d), part[d][p] \in is_unfinished,
         part' = [part EXCEPT ![d][p] = "sending"],
         proof' = [proof EXCEPT ![d] = "none"],
         phase' = [phase EXCEPT ![w] = "calling"],
         UNCHANGED <<claim, held, todo, cur, at, outcome, stopping>>,
         UNCHANGED <<status, attempt, cancelled, lease, due, minted, providerVars, reported>>
  PROVE  QueueInv'
<1> USE DEF QueueInv, providerVars
<1>0. /\ ~Leaving(d, p) /\ (d \notin Replayed => ~Sent(d, p))
      /\ status[d] = "sending" /\ lease[d].owner = w
  BY DEF RowsTellTheTruth, TrueOf, is_unfinished, own_row_fence
<1>1. /\ \A e \in Deliveries \ {d} : part'[e] = part[e]
      /\ \A q \in Parts : part'[d][q] = IF q = p THEN "sending" ELSE part[d][q]
      /\ \A v \in Workers : phase'[v] = IF v = w THEN "calling" ELSE phase[v]
  BY DEF TypeOK
<1>2. TypeOK'
  <2>1. part' \in [Deliveries -> [Parts -> PartStatus]]
    <3>1. part \in [Deliveries -> [Parts -> PartStatus]] /\ "sending" \in PartStatus
      BY DEF TypeOK, PartStatus
    <3> QED
      BY <3>1
  <2> QED
    BY <2>1 DEF TypeOK
<1>3. StoredChecks' /\ FencesAreUnique' /\ AtMostOnce'
  BY DEF StoredChecks, FencesAreUnique, AtMostOnce
<1>4. /\ \A e \in Deliveries, q \in Parts : Sent(e, q)' <=> Sent(e, q)
      /\ \A e \in Deliveries, q \in Parts : Leaving(e, q)' => Leaving(e, q) \/ (e = d /\ q = p)
      /\ \A v \in Workers, e \in Deliveries : own_row_fence(v, e)' <=> own_row_fence(v, e)
  BY <1>1 DEF Sent, Leaving, own_row_fence
<1>5. SendersAreSound'
  <2> SUFFICES ASSUME NEW v \in Workers PROVE SenderIsSound(v)'
    BY DEF SendersAreSound
  <2>1. CASE v = w
    <3>1. \A u \in Workers : phase'[u] = "calling" /\ cur[u] = d /\ at[u] = p => u = w
      BY <1>0, <1>1 DEF Leaving
    <3> QED
      BY <2>1, <1>0, <1>1, <1>4, <3>1 DEF SenderIsSound
  <2>2. CASE v # w
    <3>1. SenderIsSound(v) /\ phase'[v] = phase[v]
      BY <2>2, <1>1 DEF SendersAreSound
    <3>2. phase[v] = "calling" => ~(cur[v] = d /\ at[v] = p)
      BY <1>0 DEF Leaving
    <3>3. \A e \in Deliveries : own_row_fence(v, e) => e # d
      BY <2>2, <1>0 DEF own_row_fence
    <3>4. phase[v] = "calling" => \A u \in Workers :
             phase'[u] = "calling" /\ cur'[u] = cur'[v] /\ at'[u] = at'[v] => u = v
      BY <1>1, <3>1, <3>2 DEF SenderIsSound
    <3>5. phase[v] = "calling" /\ part'[cur[v]][at[v]] = "sending" =>
             part[cur[v]][at[v]] = "sending"
      BY <1>1, <3>1, <3>2 DEF SenderIsSound
    <3> QED
      BY <1>1, <1>4, <3>1, <3>3, <3>4, <3>5 DEF SenderIsSound
  <2> QED
    BY <2>1, <2>2
<1>6. RowsTellTheTruth'
  <2> SUFFICES ASSUME NEW e \in Deliveries, NEW q \in Parts
               PROVE  /\ TrueOf(e, q, part[e][q])'
                      /\ status'[e] = "delivered" => TrueOf(e, q, "delivered")'
    BY DEF RowsTellTheTruth
  <2>1. TrueOf(e, q, part[e][q]) /\ (status[e] = "delivered" => TrueOf(e, q, "delivered"))
    BY DEF RowsTellTheTruth
  <2>2. (e = d /\ q = p) \/ part'[e][q] = part[e][q]
    BY <1>1
  <2>3. e = d /\ q = p => part'[e][q] = "sending"
    BY <1>1
  <2> QED
    BY <1>4, <2>1, <2>2, <2>3 DEF TrueOf
<1>7. DeliveredMeansAllParts'
  BY <1>0, <1>1 DEF DeliveredMeansAllParts
<1> QED
  BY <1>2, <1>3, <1>5, <1>6, <1>7

(* The cancellation branches of begin_part, fail_delivery and              *)
(* release_delivery.                                                       *)
LEMMA CancelSettlesInv ==
  ASSUME QueueInv, NEW w \in Workers, NEW d \in Deliveries,
         own_row_fence(w, d), settle_cancelled(d, part[d]), finish(w, d),
         UNCHANGED <<providerVars, reported>>,
         UNCHANGED cancelled \/ cancelled' = [cancelled EXCEPT ![d] = TRUE]
  PROVE  QueueInv'
<1>1. /\ part[d] \in [Parts -> PartStatus]
      /\ reported' \in [Deliveries -> DeliveryStatus \cup {"none"}]
      /\ cancelled' \in [Deliveries -> BOOLEAN]
      /\ \A e \in Deliveries \ {d} : cancelled'[e] = cancelled[e]
  BY DEF QueueInv, TypeOK
<1>2. \A p \in Parts :
            /\ TrueOf(d, p, part[d][p])
  BY DEF QueueInv, RowsTellTheTruth
<1> QED
  BY <1>1, <1>2, SettleCancelledInv

(* The uncancelled branches of fail_delivery and release_delivery.         *)
LEMMA GiveUpInv ==
  ASSUME QueueInv, NEW w \in Workers, NEW d \in Deliveries,
         NEW st \in {"pending", "dead_letter"},
         own_row_fence(w, d), ~cancelled[d], finish(w, d),
         status' = [status EXCEPT ![d] = st],
         attempt' = attempt \/
            (st = "dead_letter" /\ attempt' = [attempt EXCEPT ![d] = Least(attempt[d])]),
         lease' = [lease EXCEPT ![d] = NoLease],
         UNCHANGED <<cancelled, due, proof, minted, part, providerVars, reported>>
  PROVE  QueueInv'
<1> USE DEF QueueInv
<1>1. TypeOK'
  <2>1. attempt' \in [Deliveries -> 0 .. MaxAttempts]
    <3>1. Least(attempt[d]) \in 0 .. MaxAttempts
      BY ConstantsAssumption DEF TypeOK, Least
    <3> QED
      BY <3>1 DEF TypeOK
  <2>2. lease' \in [Deliveries ->
                    [exec : 0 .. MaxClaims, owner : Workers \cup {NoWorker}, live : BOOLEAN]]
    BY ConstantsAssumption DEF TypeOK, NoLease
  <2>3. status' \in [Deliveries -> DeliveryStatus \cup {"absent"}]
    BY DEF TypeOK, DeliveryStatus
  <2> QED
    BY <2>1, <2>2, <2>3, FinishType DEF TypeOK, providerVars
<1>2. \A e \in Deliveries \ {d} :
            /\ status'[e] = status[e] /\ attempt'[e] = attempt[e]
            /\ cancelled'[e] = cancelled[e] /\ lease'[e] = lease[e] /\ part'[e] = part[e]
  BY DEF TypeOK
<1>3. lease'[d] = NoLease /\ status'[d] = st /\ part'[d] = part[d]
  BY DEF TypeOK
<1>4. status'[d] \in DeliveryStatus \ {"sending"}
  BY <1>3 DEF DeliveryStatus
<1>5. status'[d] \in is_claimable => attempt'[d] < MaxAttempts /\ ~cancelled'[d]
  BY <1>3 DEF StoredChecks, is_claimable, own_row_fence
<1>6. \A p \in Parts :
            /\ TrueOf(d, p, part'[d][p])
            /\ part'[d][p] = "sending" => part[d][p] = "sending"
            /\ status'[d] = "delivered" => part'[d][p] = "delivered"
  BY <1>3 DEF RowsTellTheTruth
<1>7. UNCHANGED <<wire, accepted, minted>>
  BY DEF providerVars
<1> QED
  BY <1>1, <1>2, <1>3, <1>4, <1>5, <1>6, <1>7, ReleasingWrite

(* fail_delivery preserves the invariant.                                  *)
LEMMA FailInv ==
  ASSUME QueueInv, NEW w \in Workers, NEW d \in Deliveries, fail_delivery(w, d)
  PROVE  QueueInv'
<1>0. finish(w, d) /\ UNCHANGED <<providerVars, reported>>
  BY DEF fail_delivery
<1>1. CASE UNCHANGED rowVars
  BY <1>0, <1>1, FinishOnly
<1>2. CASE own_row_fence(w, d) /\ settle_cancelled(d, part[d]) /\ UNCHANGED cancelled
  BY <1>0, <1>2, CancelSettlesInv
<1>3. CASE /\ own_row_fence(w, d) /\ ~cancelled[d]
           /\ status' = [status EXCEPT ![d] = "dead_letter"]
           /\ attempt' = [attempt EXCEPT ![d] = Least(@)]
           /\ lease' = [lease EXCEPT ![d] = NoLease]
           /\ UNCHANGED <<cancelled, due, proof, minted, part>>
  BY <1>0, <1>3, GiveUpInv
<1> QED
  BY <1>1, <1>2, <1>3 DEF fail_delivery

(* release_delivery preserves the invariant.                               *)
LEMMA ReleaseInv ==
  ASSUME QueueInv, NEW w \in Workers, NEW d \in Deliveries, release_delivery(w, d)
  PROVE  QueueInv'
<1>0. finish(w, d) /\ UNCHANGED <<providerVars, reported>>
  BY DEF release_delivery
<1>1. CASE UNCHANGED rowVars
  BY <1>0, <1>1, FinishOnly
<1>2. CASE own_row_fence(w, d) /\ settle_cancelled(d, part[d]) /\ UNCHANGED cancelled
  BY <1>0, <1>2, CancelSettlesInv
<1>3. CASE /\ own_row_fence(w, d) /\ ~cancelled[d]
           /\ status' = [status EXCEPT ![d] = "pending"]
           /\ lease' = [lease EXCEPT ![d] = NoLease]
           /\ UNCHANGED <<attempt, cancelled, due, proof, minted, part>>
  BY <1>0, <1>3, GiveUpInv
<1> QED
  BY <1>1, <1>2, <1>3 DEF release_delivery

(* begin_part preserves the invariant in each of its branches.             *)
LEMMA BeginPartInv == ASSUME QueueInv, NEW w \in Workers, begin_part(w) PROVE QueueInv'
<1> DEFINE d == cur[w]
           p == at[w]
           expired == d \in Linked /\ proof[d] = "expired"
<1> USE DEF QueueInv
<1>0. d \in Deliveries /\ p \in Parts /\ claim[w][d] # 0 /\ UNCHANGED <<providerVars, reported>>
  BY DEF begin_part, SendersAreSound, SenderIsSound
<1>1. CASE finish(w, d) /\ UNCHANGED rowVars
  BY <1>0, <1>1, FinishOnly
<1>2. CASE /\ own_row_fence(w, d) /\ settle_cancelled(d, part[d]) /\ finish(w, d)
           /\ UNCHANGED cancelled \/ cancelled' = [cancelled EXCEPT ![d] = TRUE]
  BY <1>0, <1>2, CancelSettlesInv
<1>3. CASE /\ own_row_fence(w, d)
           /\ part' = [part EXCEPT ![d][p] = "outcome_unknown"]
           /\ status' = [status EXCEPT ![d] = "outcome_unknown"]
           /\ lease' = [lease EXCEPT ![d] = NoLease]
           /\ finish(w, d)
           /\ UNCHANGED <<attempt, cancelled, due, proof, minted>>
  <2>1. TypeOK'
    <3>1. part \in [Deliveries -> [Parts -> PartStatus]] /\ "outcome_unknown" \in PartStatus
      BY DEF TypeOK, PartStatus
    <3>2. part' \in [Deliveries -> [Parts -> PartStatus]]
      BY <1>0, <1>3, <3>1
    <3>3. lease' \in [Deliveries ->
                    [exec : 0 .. MaxClaims, owner : Workers \cup {NoWorker}, live : BOOLEAN]]
      BY <1>0, <1>3, ConstantsAssumption DEF TypeOK, NoLease
    <3>4. status' \in [Deliveries -> DeliveryStatus \cup {"absent"}]
      BY <1>0, <1>3 DEF TypeOK, DeliveryStatus
    <3> QED
      BY <1>0, <1>3, <3>2, <3>3, <3>4, FinishType DEF TypeOK, providerVars
  <2>2. \A e \in Deliveries \ {d} :
            /\ status'[e] = status[e] /\ attempt'[e] = attempt[e]
            /\ cancelled'[e] = cancelled[e] /\ lease'[e] = lease[e] /\ part'[e] = part[e]
    BY <1>0, <1>3 DEF TypeOK
  <2>3. /\ status[d] = "sending" /\ lease'[d] = NoLease /\ status'[d] = "outcome_unknown"
        /\ \A q \in Parts : part'[d][q] = IF q = p THEN "outcome_unknown" ELSE part[d][q]
    BY <1>0, <1>3 DEF TypeOK, own_row_fence
  <2>4. /\ status'[d] \in DeliveryStatus \ {"sending"} /\ status'[d] \notin is_claimable
    BY <2>3 DEF DeliveryStatus, is_claimable
  <2>5. \A q \in Parts :
            /\ TrueOf(d, q, part'[d][q])
            /\ part'[d][q] = "sending" => part[d][q] = "sending"
            /\ status'[d] = "delivered" => part'[d][q] = "delivered"
    <3> SUFFICES ASSUME NEW q \in Parts
                 PROVE  /\ TrueOf(d, q, part'[d][q])
                        /\ part'[d][q] = "sending" => part[d][q] = "sending"
      BY <2>3
    <3>1. TrueOf(d, q, part[d][q]) /\ TrueOf(d, q, "outcome_unknown")
      BY <1>0 DEF RowsTellTheTruth, TrueOf
    <3> QED
      BY <2>3, <3>1
  <2>6. finish(w, d) /\ own_row_fence(w, d) /\ UNCHANGED <<wire, accepted, minted>>
    BY <1>0, <1>3 DEF providerVars
  <2> HIDE DEF d, p
  <2> QED
    BY <1>0, <2>1, <2>2, <2>3, <2>4, <2>5, <2>6, ReleasingWrite
<1>4. CASE /\ live_fence(w, d) /\ part[d][p] \in is_unfinished
           /\ part' = [part EXCEPT ![d][p] = "sending"]
           /\ proof' = [proof EXCEPT ![d] = "none"]
           /\ \/ /\ phase' = [phase EXCEPT ![w] = "calling"]
                 /\ UNCHANGED <<claim, held, todo, cur, at, outcome, stopping>>
              \/ finish(w, d)
           /\ UNCHANGED <<status, attempt, cancelled, lease, due, minted>>
  <2>0. own_row_fence(w, d)
    BY <1>4 DEF live_fence
  <2>1. CASE /\ phase' = [phase EXCEPT ![w] = "calling"]
             /\ UNCHANGED <<claim, held, todo, cur, at, outcome, stopping>>
    BY <1>0, <1>4, <2>0, <2>1, StartInv
  <2>2. CASE finish(w, d)
    <3>1. TypeOK'
      <4>1. part \in [Deliveries -> [Parts -> PartStatus]] /\ "sending" \in PartStatus
        BY DEF TypeOK, PartStatus
      <4>2. part' \in [Deliveries -> [Parts -> PartStatus]]
        BY <1>0, <1>4, <4>1
      <4>3. proof' \in [Deliveries -> {"none", "valid", "expired"}]
        BY <1>0, <1>4 DEF TypeOK
      <4> QED
        BY <1>0, <1>4, <2>2, <4>2, <4>3, FinishType DEF TypeOK, providerVars
    <3>2. /\ \A v \in Workers \ {w} :
                /\ phase'[v] = phase[v] /\ cur'[v] = cur[v] /\ at'[v] = at[v]
                /\ outcome'[v] = outcome[v] /\ claim'[v] = claim[v]
          /\ \A e \in Deliveries : claim'[w][e] \in {0, claim[w][e]}
          /\ phase'[w] = "loop"
      BY <1>0, <2>2 DEF finish, TypeOK
    <3>3. /\ \A e \in Deliveries \ {d} : part'[e] = part[e]
          /\ \A q \in Parts : part'[d][q] = IF q = p THEN "sending" ELSE part[d][q]
      BY <1>0, <1>4 DEF TypeOK
    <3>4. \A q \in Parts :
            /\ TrueOf(d, q, part'[d][q])
            /\ part'[d][q] = "sending" => part[d][q] = "sending" \/ ~Leaving(d, q)
      <4> SUFFICES ASSUME NEW q \in Parts
                   PROVE  /\ TrueOf(d, q, part'[d][q])
                          /\ part'[d][q] = "sending" => part[d][q] = "sending" \/ ~Leaving(d, q)
        OBVIOUS
      <4>1. TrueOf(d, q, part[d][q])
        BY <1>0 DEF RowsTellTheTruth
      <4>2. CASE q = p
        BY <1>4, <3>3, <4>1, <4>2 DEF TrueOf, is_unfinished
      <4>3. CASE q # p
        BY <3>3, <4>1, <4>3
      <4> QED
        BY <4>2, <4>3
    <3>5. UNCHANGED <<status, attempt, cancelled, lease, minted, wire, accepted>>
      BY <1>0, <1>4 DEF providerVars
    <3> HIDE DEF d, p
    <3> QED
      BY <1>0, <2>0, <3>1, <3>2, <3>3, <3>4, <3>5, KeepingWrite
  <2> QED
    BY <1>4, <2>1, <2>2
<1> QED
  BY <1>1, <1>2, <1>3, <1>4 DEF begin_part

(* PartTransition::of maps an acceptance, and nothing else, to delivered,  *)
(* and only refusals to a status that allows another request or rules one  *)
(* out.                                                                    *)
LEMMA TransitionFacts ==
  ASSUME NEW o \in ProviderSendOutcome
  PROVE  /\ PartTransitionStatus(o) \in PartStatus \ {"prepared", "sending"}
         /\ PartTransitionStatus(o) = "delivered" <=> o = "delivered"
         /\ PartTransitionStatus(o) \in {"retryable", "dead"} <=>
               o \in {"retry_after", "retryable", "terminal"}
BY DEF ProviderSendOutcome, PartTransitionStatus, PartStatus

(* retry_parent_on and settle_parent_on preserve the invariant.            *)
LEMMA SettleParentInv ==
  ASSUME QueueInv, NEW w \in Workers, NEW d \in Deliveries, NEW o \in ProviderSendOutcome,
         NEW ps \in [Parts -> PartStatus],
         own_row_fence(w, d), ~cancelled[d],
         part' = [part EXCEPT ![d] = ps],
         settle_parent(d, ps, o), finish(w, d), UNCHANGED providerVars,
         reported' \in [Deliveries -> DeliveryStatus \cup {"none"}],
         \A q \in Parts :
            /\ TrueOf(d, q, ps[q])
            /\ ps[q] = "sending" => part[d][q] = "sending"
  PROVE  QueueInv'
<1> DEFINE target == aggregate_parent_status(ps)
<1> USE DEF QueueInv
<1>1. /\ target \in {"dead_letter", "outcome_unknown", "delivered", "retryable"}
      /\ target = "delivered" => \A q \in Parts : ps[q] = "delivered"
  BY DEF aggregate_parent_status
<1>2. attempt[d] \in Nat /\ MaxAttempts \in Nat /\ attempt[d] < MaxAttempts
  BY ConstantsAssumption DEF TypeOK, StoredChecks, own_row_fence
<1> HIDE DEF target
<1>3. PICK st \in DeliveryStatus \ {"sending"}, n \in 0 .. MaxAttempts :
         /\ status' = [status EXCEPT ![d] = st]
         /\ attempt' = [attempt EXCEPT ![d] = n]
         /\ due' = [due EXCEPT ![d] = FALSE] \/ due' = due
         /\ st \in is_claimable => n < MaxAttempts
         /\ st = "delivered" => target = "delivered"
  <2>0. attempt = [attempt EXCEPT ![d] = attempt[d]]
    BY DEF TypeOK
  <2>1. CASE /\ target = "retryable"
             /\ status' = [status EXCEPT ![d] = attempt_failed_status(attempt[d])]
             /\ attempt' = [attempt EXCEPT ![d] = @ + 1]
             /\ due' = [due EXCEPT ![d] = FALSE]
    <3>1. /\ attempt_failed_status(attempt[d]) \in {"dead_letter", "retryable"}
          /\ attempt_failed_status(attempt[d]) = "retryable" => attempt[d] + 1 < MaxAttempts
      BY <1>2 DEF attempt_failed_status
    <3>2. attempt[d] + 1 \in 0 .. MaxAttempts
      BY <1>2
    <3>3. attempt_failed_status(attempt[d]) \in DeliveryStatus \ {"sending"}
      BY <3>1 DEF DeliveryStatus
    <3> WITNESS attempt_failed_status(attempt[d]) \in DeliveryStatus \ {"sending"},
                attempt[d] + 1 \in 0 .. MaxAttempts
    <3> QED
      BY <2>1, <3>1 DEF is_claimable
  <2>2. CASE /\ target = "retryable"
             /\ status' = [status EXCEPT ![d] = "retryable"]
             /\ due' = [due EXCEPT ![d] = FALSE]
             /\ UNCHANGED attempt
    <3>1. "retryable" \in DeliveryStatus \ {"sending"} /\ attempt[d] \in 0 .. MaxAttempts
      BY <1>2 DEF DeliveryStatus
    <3> USE <3>1
    <3> WITNESS "retryable" \in DeliveryStatus \ {"sending"}, attempt[d] \in 0 .. MaxAttempts
    <3> QED
      BY <2>0, <2>2, <1>2
  <2>3. CASE /\ target # "retryable"
             /\ status' = [status EXCEPT ![d] = target]
             /\ attempt' = [attempt EXCEPT ![d] = IF consumes_attempt(o) THEN Least(@) ELSE @]
             /\ UNCHANGED due
    <3> DEFINE n == IF consumes_attempt(o) THEN Least(attempt[d]) ELSE attempt[d]
    <3>1. target \in DeliveryStatus \ {"sending"} /\ target \notin is_claimable
      BY <1>1, <2>3 DEF DeliveryStatus, is_claimable
    <3>2. n \in 0 .. MaxAttempts
      BY <1>2 DEF Least
    <3>3. attempt' = [attempt EXCEPT ![d] = n]
      BY <2>3
    <3> HIDE DEF n
    <3> USE <3>1, <3>2
    <3> WITNESS target \in DeliveryStatus \ {"sending"}, n \in 0 .. MaxAttempts
    <3> QED
      BY <2>3, <3>1, <3>3
  <2> QED
    BY <2>1, <2>2, <2>3 DEF settle_parent, target
<1>4. /\ lease' = [lease EXCEPT ![d] = NoLease]
      /\ UNCHANGED <<cancelled, proof, minted, wire, accepted>>
  BY DEF settle_parent, providerVars
<1>5. TypeOK'
  <2>1. status' \in [Deliveries -> DeliveryStatus \cup {"absent"}]
        /\ attempt' \in [Deliveries -> 0 .. MaxAttempts]
        /\ part' \in [Deliveries -> [Parts -> PartStatus]]
        /\ due' \in [Deliveries -> BOOLEAN]
    BY <1>3 DEF TypeOK
  <2>2. lease' \in [Deliveries ->
                    [exec : 0 .. MaxClaims, owner : Workers \cup {NoWorker}, live : BOOLEAN]]
    BY <1>4, ConstantsAssumption DEF TypeOK, NoLease
  <2> QED
    BY <1>4, <2>1, <2>2, FinishType DEF TypeOK
<1>6. \A e \in Deliveries \ {d} :
            /\ status'[e] = status[e] /\ attempt'[e] = attempt[e]
            /\ cancelled'[e] = cancelled[e] /\ lease'[e] = lease[e] /\ part'[e] = part[e]
  BY <1>3, <1>4 DEF TypeOK
<1>7. /\ lease'[d] = NoLease /\ status'[d] = st /\ attempt'[d] = n /\ part'[d] = ps
      /\ cancelled'[d] = cancelled[d]
  BY <1>3, <1>4 DEF TypeOK
<1>8. status'[d] \in is_claimable => attempt'[d] < MaxAttempts /\ ~cancelled'[d]
  BY <1>3, <1>7
<1>9. \A q \in Parts :
            /\ TrueOf(d, q, part'[d][q])
            /\ part'[d][q] = "sending" => part[d][q] = "sending"
            /\ status'[d] = "delivered" => part'[d][q] = "delivered"
  BY <1>1, <1>3, <1>7
<1> QED
  BY <1>3, <1>4, <1>5, <1>6, <1>7, <1>8, <1>9, ReleasingWrite

(* complete_part preserves the invariant in each of its branches.          *)
LEMMA CompletePartInv == ASSUME QueueInv, NEW w \in Workers, complete_part(w) PROVE QueueInv'
<1> DEFINE d == cur[w]
           p == at[w]
           o == outcome[w]
           ps == [part[d] EXCEPT ![p] = PartTransitionStatus(o)]
           recorded == own_row_fence(w, d) /\ part[d][p] = "sending"
<1> USE DEF QueueInv
<1>0. /\ d \in Deliveries /\ p \in Parts /\ claim[w][d] # 0
      /\ o \in ProviderSendOutcome /\ UNCHANGED providerVars
  BY DEF complete_part, SendersAreSound, SenderIsSound, TypeOK
<1>1. CASE finish(w, d) /\ UNCHANGED <<rowVars, reported>>
  BY <1>0, <1>1, FinishOnly
<1>2. /\ ps \in [Parts -> PartStatus]
      /\ \A q \in Parts : ps[q] = IF q = p THEN PartTransitionStatus(o) ELSE part[d][q]
  <2>1. PartTransitionStatus(o) \in PartStatus /\ part[d] \in [Parts -> PartStatus]
    BY <1>0, TransitionFacts DEF TypeOK
  <2> QED
    BY <1>0, <2>1
<1>3. recorded => \A q \in Parts :
            /\ TrueOf(d, q, ps[q])
            /\ ps[q] = "sending" => part[d][q] = "sending"
  <2> SUFFICES ASSUME recorded, NEW q \in Parts
               PROVE  /\ TrueOf(d, q, ps[q])
                      /\ ps[q] = "sending" => part[d][q] = "sending"
    OBVIOUS
  <2>1. CASE q = p
    <3>1. /\ PartTransitionStatus(o) \in PartStatus \ {"prepared", "sending"}
          /\ PartTransitionStatus(o) = "delivered" <=> o = "delivered"
          /\ PartTransitionStatus(o) \in {"retryable", "dead"} <=>
                o \in {"retry_after", "retryable", "terminal"}
      BY <1>0, TransitionFacts
    <3>2. SenderIsSound(w) /\ phase[w] = "reporting"
      BY DEF SendersAreSound, complete_part
    <3>3. /\ o = "delivered" => \E r \in accepted : r.row = d /\ r.part = p
          /\ o \in {"retry_after", "retryable", "terminal"} /\ d \notin Replayed => ~Sent(d, p)
      BY <3>2 DEF SenderIsSound
    <3>4. ~Leaving(d, p)
      <4> SUFFICES ASSUME NEW u \in Workers, phase[u] = "calling", cur[u] = d, at[u] = p
                   PROVE  FALSE
        BY DEF Leaving
      <4> QED
        BY <1>0, <3>2, CallerOwns
    <3>5. ps[q] = PartTransitionStatus(o)
      BY <2>1, <1>2
    <3> HIDE DEF ps, d, p, o
    <3> QED
      BY <2>1, <3>1, <3>3, <3>4, <3>5 DEF TrueOf
  <2>2. CASE q # p
    BY <2>2, <1>0, <1>2 DEF RowsTellTheTruth
  <2> QED
    BY <2>1, <2>2
<1>4. CASE /\ recorded /\ cancelled[d] /\ settle_cancelled(d, ps) /\ finish(w, d)
           /\ UNCHANGED <<cancelled, reported>>
  <2>1. /\ own_row_fence(w, d)
        /\ reported' \in [Deliveries -> DeliveryStatus \cup {"none"}]
        /\ cancelled' \in [Deliveries -> BOOLEAN]
        /\ \A e \in Deliveries \ {d} : cancelled'[e] = cancelled[e]
    BY <1>4 DEF own_row_fence, TypeOK
  <2>2. settle_cancelled(d, ps) /\ finish(w, d)
    BY <1>4
  <2>3. \A q \in Parts :
            /\ TrueOf(d, q, ps[q])
            /\ ps[q] = "sending" => part[d][q] = "sending"
    BY <1>3, <1>4
  <2> HIDE DEF d, ps
  <2> QED
    BY <1>0, <1>2, <2>1, <2>2, <2>3, SettleCancelledInv
<1>5. CASE /\ recorded
           /\ part' = [part EXCEPT ![d] = ps]
           /\ \/ /\ todo' = [todo EXCEPT ![w][d] = @ \ {p}]
                 /\ at' = [at EXCEPT ![w] = 0]
                 /\ outcome' = [outcome EXCEPT ![w] = "none"]
                 /\ phase' = [phase EXCEPT ![w] = "loop"]
                 /\ UNCHANGED <<claim, held, cur, stopping>>
              \/ finish(w, d)
           /\ UNCHANGED <<status, attempt, cancelled, lease, due, proof, minted, reported>>
  <2>1. /\ phase' \in [Workers -> {"down", "loop", "ready", "calling", "waiting", "reporting"}]
        /\ claim' \in [Workers -> [Deliveries -> 0 .. MaxClaims]]
        /\ held' \in [Workers -> SUBSET Deliveries]
        /\ todo' \in [Workers -> [Deliveries -> SUBSET Parts]]
        /\ cur' \in [Workers -> Deliveries \cup {NoDelivery}]
        /\ at' \in [Workers -> 0 .. NParts]
        /\ outcome' \in [Workers -> ProviderSendOutcome \cup {"none"}]
        /\ stopping' \in [Workers -> BOOLEAN]
    <3>1. CASE finish(w, d)
      BY <1>0, <3>1, FinishType
    <3>2. CASE ~finish(w, d)
      <4>1. todo' \in [Workers -> [Deliveries -> SUBSET Parts]]
        <5>1. todo \in [Workers -> [Deliveries -> SUBSET Parts]]
          BY DEF TypeOK
        <5>2. todo[w][d] \ {p} \in SUBSET Parts
          BY <1>0, <5>1
        <5>3. todo' = [todo EXCEPT ![w][d] = todo[w][d] \ {p}]
          BY <1>5, <3>2
        <5> QED
          BY <1>0, <5>1, <5>2, <5>3
      <4>2. /\ at' = [at EXCEPT ![w] = 0]
            /\ outcome' = [outcome EXCEPT ![w] = "none"]
            /\ phase' = [phase EXCEPT ![w] = "loop"]
            /\ UNCHANGED <<claim, held, cur, stopping>>
        BY <1>5, <3>2
      <4>3. at' \in [Workers -> 0 .. NParts]
        BY <4>2, ConstantsAssumption DEF TypeOK
      <4>4. phase' \in [Workers -> {"down", "loop", "ready", "calling", "waiting", "reporting"}]
        BY <4>2 DEF TypeOK
      <4>5. outcome' \in [Workers -> ProviderSendOutcome \cup {"none"}]
        BY <4>2 DEF TypeOK
      <4> QED
        BY <4>1, <4>2, <4>3, <4>4, <4>5 DEF TypeOK
    <3> QED
      BY <3>1, <3>2
  <2>2. TypeOK'
    <3>1. part' \in [Deliveries -> [Parts -> PartStatus]]
      BY <1>2, <1>5 DEF TypeOK
    <3> QED
      BY <1>0, <1>5, <2>1, <3>1 DEF TypeOK, providerVars
  <2>3. /\ \A v \in Workers \ {w} :
                /\ phase'[v] = phase[v] /\ cur'[v] = cur[v] /\ at'[v] = at[v]
                /\ outcome'[v] = outcome[v] /\ claim'[v] = claim[v]
        /\ \A e \in Deliveries : claim'[w][e] \in {0, claim[w][e]}
        /\ phase'[w] = "loop"
    <3>1. CASE finish(w, d)
      BY <1>0, <3>1 DEF finish, TypeOK
    <3>2. CASE ~finish(w, d)
      BY <1>5, <3>2 DEF TypeOK
    <3> QED
      BY <3>1, <3>2
  <2>4. /\ \A e \in Deliveries \ {d} : part'[e] = part[e]
        /\ part'[d] = ps
    BY <1>0, <1>5 DEF TypeOK
  <2>5. \A q \in Parts :
            /\ TrueOf(d, q, part'[d][q])
            /\ part'[d][q] = "sending" => part[d][q] = "sending" \/ ~Leaving(d, q)
    BY <1>3, <1>5, <2>4
  <2>6. /\ own_row_fence(w, d)
        /\ UNCHANGED <<status, attempt, cancelled, lease, minted, wire, accepted>>
    BY <1>0, <1>5 DEF providerVars
  <2> HIDE DEF d, p, ps
  <2> QED
    BY <1>0, <2>2, <2>3, <2>4, <2>5, <2>6, KeepingWrite
<1>6. CASE /\ recorded /\ ~cancelled[d]
           /\ part' = [part EXCEPT ![d] = ps]
           /\ settle_parent(d, ps, o)
           /\ finish(w, d)
           /\ \/ reported' = [reported EXCEPT ![d] = aggregate_parent_status(ps)]
              \/ UNCHANGED reported
  <2>1. own_row_fence(w, d) /\ ~cancelled[d] /\ finish(w, d) /\ settle_parent(d, ps, o)
    BY <1>6
  <2>2. aggregate_parent_status(ps) \in DeliveryStatus
    BY DEF aggregate_parent_status, DeliveryStatus
  <2>3. reported' \in [Deliveries -> DeliveryStatus \cup {"none"}]
    <3>1. reported \in [Deliveries -> DeliveryStatus \cup {"none"}]
      BY DEF TypeOK
    <3> HIDE DEF d, ps
    <3> QED
      BY <1>0, <1>6, <2>2, <3>1
  <2>4. \A q \in Parts :
            /\ TrueOf(d, q, ps[q])
            /\ ps[q] = "sending" => part[d][q] = "sending"
    BY <1>3, <1>6
  <2>5. part' = [part EXCEPT ![d] = ps] /\ UNCHANGED providerVars
    BY <1>0, <1>6
  <2> HIDE DEF d, ps, o
  <2> QED
    BY <1>0, <1>2, <2>1, <2>3, <2>4, <2>5, SettleParentInv
<1> QED
  BY <1>1, <1>4, <1>5, <1>6 DEF complete_part

(* Every step of every actor preserves the invariant.                      *)
LEMMA NextInv == QueueInv /\ [Next]_vars => QueueInv'
<1> SUFFICES ASSUME QueueInv, [Next]_vars PROVE QueueInv'
  OBVIOUS
<1>1. CASE UNCHANGED vars
  BY <1>1 DEF vars, rowVars, workerVars, providerVars, QueueInv, TypeOK, StoredChecks,
     FencesAreUnique, AtMostOnce, SendersAreSound, SenderIsSound, RowsTellTheTruth,
     DeliveredMeansAllParts, TrueOf, Sent, Leaving, own_row_fence
<1>2. ASSUME NEW w \in Workers, WorkerStep(w) PROVE QueueInv'
  <2>1. CASE \E S \in SUBSET Deliveries : claim_deliveries(w, S)
    BY <2>1, ClaimInv
  <2>2. CASE \E d \in Deliveries, p \in Parts : renew_delivery_leases(w, d, p)
    BY <2>2, RenewInv
  <2>3. CASE begin_part(w)
    BY <2>3, BeginPartInv
  <2>4. CASE call_provider(w)
    BY <2>4, CallProviderInv
  <2>5. CASE \E o \in ProviderSendOutcome : provider_returns(w, o)
    BY <2>5, ProviderReturnsInv
  <2>6. CASE complete_part(w)
    BY <2>6, CompletePartInv
  <2>7. CASE \E d \in Deliveries : fail_delivery(w, d)
    BY <2>7, FailInv
  <2>8. CASE \E d \in Deliveries : release_delivery(w, d)
    BY <2>8, ReleaseInv
  <2>9. CASE reap_expired_deliveries(w)
    BY <2>9, ReapInv
  <2> QED
    BY <1>2, <2>1, <2>2, <2>3, <2>4, <2>5, <2>6, <2>7, <2>8, <2>9 DEF WorkerStep
<1>3. ASSUME NEW w \in Workers, NEW d \in Deliveries, WriteFails(w, d) PROVE QueueInv'
  BY <1>3, FinishOnly DEF WriteFails
<1>4. ASSUME NEW r \in wire, ProviderAccepts(r) \/ RequestDropped(r) PROVE QueueInv'
  BY <1>4, ProviderInv
<1>5. ASSUME NEW w \in Workers, ShutdownRequested(w) \/ WorkerEnds(w) \/ WorkerStarts(w)
      PROVE  QueueInv'
  BY <1>5, LifecycleInv
<1>6. ASSUME NEW d \in Deliveries, enqueue(d) PROVE QueueInv'
  BY <1>6, EnqueueInv
<1>7. ASSUME NEW d \in Deliveries, cancel_deliveries(d) PROVE QueueInv'
  BY <1>7, CancelInv
<1>8. ASSUME NEW d \in Deliveries, NEW o \in {"applied", "final_not_applied"},
             NEW live \in BOOLEAN, settle_unknown_delivery(d, o, live)
      PROVE  QueueInv'
  BY <1>8, SettleUnknownInv
<1>9. ASSUME NEW d \in Deliveries, LeaseLapses(d) \/ BackoffElapses(d) \/ ProofExpires(d)
      PROVE  QueueInv'
  BY <1>9, ClockInv
<1> QED
  BY <1>1, <1>2, <1>3, <1>4, <1>5, <1>6, <1>7, <1>8, <1>9 DEF Next, Environment

(* The inductive invariant holds in every reachable state, for any number  *)
(* of deliveries, parts, workers and attempts.                             *)
THEOREM QueueInvHolds == Spec => []QueueInv
<1>1. Init => QueueInv
  BY InitQueueInv
<1>2. QueueInv /\ [Next]_vars => QueueInv'
  BY NextInv
<1> QED
  BY <1>1, <1>2, PTL DEF Spec

(* Every variable keeps its type; in particular attempt_count never passes *)
(* max_attempts, which attempt_check would refuse.                         *)
THEOREM TypesHold == Spec => []TypeOK
BY QueueInvHolds, PTL DEF QueueInv

(* No part of a delivery is accepted twice by its provider, whatever       *)
(* crashes, lapses, lost acknowledgements and sweeps occur: the queue and  *)
(* its worker never put a second request for a part on the wire while the  *)
(* first was or may be accepted.                                           *)
THEOREM PartsAreAcceptedAtMostOnce == Spec => []AtMostOnce
BY QueueInvHolds, PTL DEF QueueInv

(* What message_delivery_parts and message_deliveries say about the        *)
(* provider is true in every reachable state.                              *)
THEOREM RowsAreTruthful == Spec => []RowsTellTheTruth
BY QueueInvHolds, PTL DEF QueueInv

(* No write of the queue ever violates a CHECK constraint of               *)
(* message_deliveries, so no sweep is aborted by one bad row.              *)
THEOREM StoredChecksHold == Spec => []StoredChecks
BY QueueInvHolds, PTL DEF QueueInv

(* A row a step leaves alone keeps its outcome and its cancellation.       *)
LEMMA UntouchedRow ==
  ASSUME QueueInv, NEW d \in Deliveries,
         status'[d] = status[d], part'[d] = part[d], cancelled'[d] = cancelled[d]
  PROVE  OutcomeStays(d) /\ CancelledStays(d)
BY DEF OutcomeStays, CancelledStays, QueueInv, StoredChecks

(* So does a sending row whose fenced write keeps settled parts as they    *)
(* are and starts nothing for a cancelled delivery.                        *)
LEMMA HeldRow ==
  ASSUME QueueInv, NEW w \in Workers, NEW d \in Deliveries, own_row_fence(w, d),
         cancelled[d] => cancelled'[d] /\ status'[d] \notin is_claimable,
         \A p \in Parts :
            /\ part[d][p] \in {"delivered", "dead"} => part'[d][p] = part[d][p]
            /\ cancelled[d] /\ part'[d][p] = "sending" => part[d][p] = "sending"
  PROVE  OutcomeStays(d) /\ CancelledStays(d)
BY DEF OutcomeStays, CancelledStays, own_row_fence

(* So does a row that settle_cancelled_on settles.                         *)
LEMMA SettledRow ==
  ASSUME QueueInv, NEW w \in Workers, NEW d \in Deliveries, own_row_fence(w, d),
         NEW ps \in [Parts -> PartStatus], settle_cancelled(d, ps),
         cancelled'[d],
         \A p \in Parts :
            /\ part[d][p] \in {"delivered", "dead"} => ps[p] = part[d][p]
            /\ ps[p] = "sending" => part[d][p] = "sending"
  PROVE  OutcomeStays(d) /\ CancelledStays(d)
<1> DEFINE bs == bury_unsent_parts(ps)
<1>1. /\ bs \in [Parts -> PartStatus]
      /\ \A p \in Parts : bs[p] = IF ps[p] \in is_unfinished THEN "dead" ELSE ps[p]
  BY BuryFacts
<1>2. cancelled_parent_status(bs) \in {"outcome_unknown", "delivered", "dead_letter"}
  BY <1>1, CancelledStatusFacts
<1>3. status'[d] = cancelled_parent_status(bs) /\ part'[d] = bs
  BY DEF settle_cancelled, QueueInv, TypeOK
<1> HIDE DEF bs
<1>4. status'[d] \notin is_claimable
  BY <1>2, <1>3 DEF is_claimable
<1>5. \A p \in Parts :
            /\ part[d][p] \in {"delivered", "dead"} => part'[d][p] = part[d][p]
            /\ cancelled[d] /\ part'[d][p] = "sending" => part[d][p] = "sending"
  BY <1>1, <1>3 DEF is_unfinished
<1> QED
  BY <1>4, <1>5, HeldRow

(* begin_part overwrites no outcome and starts nothing for a cancelled     *)
(* delivery.                                                               *)
LEMMA BeginPartRow ==
  ASSUME QueueInv, NEW w \in Workers, begin_part(w), NEW e \in Deliveries
  PROVE  OutcomeStays(e) /\ CancelledStays(e)
<1> DEFINE d == cur[w]
           p == at[w]
<1>0. d \in Deliveries /\ p \in Parts
  BY DEF begin_part, QueueInv, SendersAreSound, SenderIsSound
<1>1. CASE UNCHANGED rowVars
  BY <1>1, UntouchedRow DEF rowVars
<1>2. CASE e # d
  <2>1. status'[e] = status[e] /\ part'[e] = part[e] /\ cancelled'[e] = cancelled[e]
    BY <1>0, <1>2 DEF begin_part, rowVars, settle_cancelled, QueueInv, TypeOK
  <2> QED
    BY <2>1, UntouchedRow
<1>3. CASE /\ e = d /\ own_row_fence(w, d) /\ settle_cancelled(d, part[d])
           /\ (cancelled[d] /\ UNCHANGED cancelled) \/ cancelled' = [cancelled EXCEPT ![d] = TRUE]
  <2>1. part[e] \in [Parts -> PartStatus] /\ cancelled'[e]
    BY <1>3 DEF QueueInv, TypeOK
  <2>2. own_row_fence(w, e) /\ settle_cancelled(e, part[e])
    BY <1>3
  <2> QED
    BY <2>1, <2>2, SettledRow
<1>4. CASE /\ e = d /\ own_row_fence(w, d) /\ ~cancelled[d] /\ part[d][p] \in is_unfinished
           /\ \/ part' = [part EXCEPT ![d][p] = "outcome_unknown"]
              \/ part' = [part EXCEPT ![d][p] = "sending"]
  <2>1. \A q \in Parts : part[e][q] \in {"delivered", "dead"} => part'[e][q] = part[e][q]
    BY <1>0, <1>4 DEF QueueInv, TypeOK, is_unfinished
  <2>2. own_row_fence(w, e) /\ ~cancelled[e]
    BY <1>4
  <2> QED
    BY <2>1, <2>2, HeldRow
<1> QED
  BY <1>1, <1>2, <1>3, <1>4 DEF begin_part, live_fence, is_unfinished

(* complete_part overwrites no outcome and never returns a cancelled       *)
(* delivery to the queue.                                                  *)
LEMMA CompletePartRow ==
  ASSUME QueueInv, NEW w \in Workers, complete_part(w), NEW e \in Deliveries
  PROVE  OutcomeStays(e) /\ CancelledStays(e)
<1> DEFINE d == cur[w]
           p == at[w]
           o == outcome[w]
           ps == [part[d] EXCEPT ![p] = PartTransitionStatus(o)]
           recorded == own_row_fence(w, d) /\ part[d][p] = "sending"
<1>0. d \in Deliveries /\ p \in Parts /\ o \in ProviderSendOutcome
  BY DEF complete_part, QueueInv, SendersAreSound, SenderIsSound, TypeOK
<1>1. CASE UNCHANGED rowVars
  BY <1>1, UntouchedRow DEF rowVars
<1>2. CASE e # d
  <2>1. status'[e] = status[e] /\ part'[e] = part[e] /\ cancelled'[e] = cancelled[e]
    BY <1>0, <1>2 DEF complete_part, rowVars, settle_cancelled, settle_parent, QueueInv, TypeOK
  <2> QED
    BY <2>1, UntouchedRow
<1>3. /\ ps \in [Parts -> PartStatus]
      /\ recorded => \A q \in Parts :
            /\ part[d][q] \in {"delivered", "dead"} => ps[q] = part[d][q]
            /\ ps[q] = "sending" => part[d][q] = "sending"
  <2>1. PartTransitionStatus(o) \in PartStatus /\ part[d] \in [Parts -> PartStatus]
    BY <1>0, TransitionFacts DEF QueueInv, TypeOK
  <2> QED
    BY <1>0, <2>1
<1>4. CASE /\ e = d /\ recorded /\ cancelled[d] /\ settle_cancelled(d, ps) /\ UNCHANGED cancelled
  <2>1. cancelled'[d] /\ own_row_fence(w, d) /\ settle_cancelled(d, ps)
    BY <1>4
  <2>2. \A q \in Parts :
            /\ part[d][q] \in {"delivered", "dead"} => ps[q] = part[d][q]
            /\ ps[q] = "sending" => part[d][q] = "sending"
    BY <1>3, <1>4
  <2> HIDE DEF d, ps
  <2>3. OutcomeStays(d) /\ CancelledStays(d)
    BY <1>0, <1>3, <2>1, <2>2, SettledRow
  <2> QED
    BY <1>4, <2>3
<1>5. CASE e = d /\ recorded /\ ~cancelled[d] /\ part' = [part EXCEPT ![d] = ps]
  <2>1. part'[d] = ps
    BY <1>0, <1>5 DEF QueueInv, TypeOK
  <2>2. \A q \in Parts : part[d][q] \in {"delivered", "dead"} => part'[d][q] = part[d][q]
    BY <1>3, <1>5, <2>1
  <2>3. own_row_fence(w, e) /\ ~cancelled[e]
    BY <1>5
  <2> QED
    BY <1>5, <2>2, <2>3, HeldRow
<1> QED
  BY <1>1, <1>2, <1>4, <1>5 DEF complete_part

(* Nor do fail_delivery and release_delivery.                              *)
LEMMA GiveUpRow ==
  ASSUME QueueInv, NEW w \in Workers, NEW d \in Deliveries,
         fail_delivery(w, d) \/ release_delivery(w, d), NEW e \in Deliveries
  PROVE  OutcomeStays(e) /\ CancelledStays(e)
<1>1. CASE UNCHANGED rowVars
  BY <1>1, UntouchedRow DEF rowVars
<1>2. CASE e # d
  <2>1. status'[e] = status[e] /\ part'[e] = part[e] /\ cancelled'[e] = cancelled[e]
    BY <1>2 DEF fail_delivery, release_delivery, rowVars, settle_cancelled, QueueInv, TypeOK
  <2> QED
    BY <2>1, UntouchedRow
<1>3. CASE e = d /\ own_row_fence(w, d) /\ cancelled[d] /\ settle_cancelled(d, part[d]) /\ UNCHANGED cancelled
  <2>1. part[e] \in [Parts -> PartStatus] /\ cancelled'[e]
    BY <1>3 DEF QueueInv, TypeOK
  <2>2. own_row_fence(w, e) /\ settle_cancelled(e, part[e])
    BY <1>3
  <2> QED
    BY <2>1, <2>2, SettledRow
<1>4. CASE e = d /\ own_row_fence(w, d) /\ ~cancelled[d] /\ UNCHANGED part
  BY <1>4, HeldRow
<1> QED
  BY <1>1, <1>2, <1>3, <1>4 DEF fail_delivery, release_delivery

(* No step of any actor overwrites an outcome or revives a cancelled       *)
(* delivery.                                                               *)
LEMMA StepKeepsOutcomes ==
  ASSUME QueueInv, [Next]_vars, NEW e \in Deliveries
  PROVE  OutcomeStays(e) /\ CancelledStays(e)
<1>1. CASE UNCHANGED rowVars
  BY <1>1, UntouchedRow DEF rowVars
<1>2. ASSUME NEW w \in Workers, WorkerStep(w) PROVE OutcomeStays(e) /\ CancelledStays(e)
  <2>1. ASSUME NEW S \in SUBSET Deliveries, claim_deliveries(w, S)
        PROVE  OutcomeStays(e) /\ CancelledStays(e)
    <3>1. CASE e \in S
      <4>1. status[e] \in is_claimable /\ ~cancelled[e] /\ UNCHANGED part
        BY <2>1, <3>1 DEF claim_deliveries, Claimable
      <4> QED
        BY <4>1 DEF OutcomeStays, CancelledStays, is_claimable
    <3>2. CASE e \notin S
      <4>1. status'[e] = status[e] /\ part'[e] = part[e] /\ cancelled'[e] = cancelled[e]
        BY <2>1, <3>2 DEF claim_deliveries
      <4> QED
        BY <4>1, UntouchedRow
    <3> QED
      BY <3>1, <3>2
  <2>2. CASE begin_part(w)
    BY <2>2, BeginPartRow
  <2>3. CASE complete_part(w)
    BY <2>3, CompletePartRow
  <2>4. ASSUME NEW d \in Deliveries, fail_delivery(w, d) \/ release_delivery(w, d)
        PROVE  OutcomeStays(e) /\ CancelledStays(e)
    BY <2>4, GiveUpRow
  <2>5. CASE reap_expired_deliveries(w)
    <3>1. UNCHANGED cancelled
      BY <2>5 DEF reap_expired_deliveries
    <3>2. CASE Expired(e)
      <4>1. status[e] = "sending" /\ (cancelled[e] => status'[e] \notin is_claimable)
        BY <2>5, <3>2, ReapFacts
      <4>2. \A p \in Parts :
               \/ part'[e][p] = part[e][p]
               \/ part'[e][p] = "outcome_unknown" /\ part[e][p] = "sending"
               \/ part'[e][p] = "dead" /\ part[e][p] \in is_unfinished
        BY <2>5, <3>2, ReapFacts
      <4> QED
        BY <3>1, <4>1, <4>2 DEF OutcomeStays, CancelledStays, is_unfinished
    <3>3. CASE ~Expired(e)
      <4>1. /\ part'[e] = part[e]
            /\ status'[e] = status[e] \/ (status[e] \in is_claimable /\ status'[e] = "dead_letter")
        BY <2>5, <3>3, ReapFacts
      <4>2. cancelled[e] => status[e] \notin is_claimable
        BY DEF QueueInv, StoredChecks
      <4> QED
        BY <3>1, <4>1, <4>2 DEF OutcomeStays, CancelledStays, is_claimable
    <3> QED
      BY <3>2, <3>3
  <2>6. CASE \/ \E d \in Deliveries, p \in Parts : renew_delivery_leases(w, d, p)
             \/ call_provider(w)
             \/ \E o \in ProviderSendOutcome : provider_returns(w, o)
    BY <2>6, <1>1 DEF renew_delivery_leases, call_provider, provider_returns
  <2> QED
    BY <1>2, <2>1, <2>2, <2>3, <2>4, <2>5, <2>6 DEF WorkerStep
<1>3. ASSUME NEW d \in Deliveries, enqueue(d) PROVE OutcomeStays(e) /\ CancelledStays(e)
  <2>1. CASE e # d
    BY <1>3, <2>1, UntouchedRow DEF enqueue, QueueInv, TypeOK
  <2>2. CASE e = d
    <3>1. status[e] = "absent" /\ UNCHANGED <<part, cancelled>> /\ ~cancelled[e]
      BY <1>3, <2>2 DEF enqueue, QueueInv, StoredChecks
    <3> QED
      BY <3>1 DEF OutcomeStays, CancelledStays
  <2> QED
    BY <2>1, <2>2
<1>4. ASSUME NEW d \in Deliveries, cancel_deliveries(d) PROVE OutcomeStays(e) /\ CancelledStays(e)
  <2>1. CASE e # d
    <3>1. status'[e] = status[e] /\ part'[e] = part[e] /\ cancelled'[e] = cancelled[e]
      BY <1>4, <2>1 DEF cancel_deliveries, QueueInv, TypeOK
    <3> QED
      BY <3>1, UntouchedRow
  <2>2. CASE e = d
    <3>1. ~cancelled[e] /\ status[e] \in is_claimable \cup {"sending", "outcome_unknown"}
      BY <1>4, <2>2 DEF cancel_deliveries
    <3>2. CASE status[e] \notin is_claimable
      <4>1. UNCHANGED <<status, part>>
        BY <1>4, <2>2, <3>2 DEF cancel_deliveries
      <4> QED
        BY <3>1, <4>1 DEF OutcomeStays, CancelledStays
    <3>3. CASE status[e] \in is_claimable
      <4>1. part' = [part EXCEPT ![e] = bury_unsent_parts(part[e])]
        BY <1>4, <2>2, <3>3 DEF cancel_deliveries
      <4>2. part'[e] = bury_unsent_parts(part[e]) /\ part[e] \in [Parts -> PartStatus]
        BY <4>1 DEF QueueInv, TypeOK
      <4>3. \A p \in Parts : part'[e][p] = IF part[e][p] \in is_unfinished THEN "dead" ELSE part[e][p]
        BY <4>2, BuryFacts
      <4> QED
        BY <3>1, <3>3, <4>3 DEF OutcomeStays, CancelledStays, is_claimable, is_unfinished
    <3> QED
      BY <3>2, <3>3
  <2> QED
    BY <2>1, <2>2
<1>5. ASSUME NEW d \in Deliveries, NEW o \in {"applied", "final_not_applied"},
             NEW live \in BOOLEAN, settle_unknown_delivery(d, o, live)
      PROVE  OutcomeStays(e) /\ CancelledStays(e)
  <2>1. CASE e # d
    <3>1. status'[e] = status[e] /\ part'[e] = part[e] /\ cancelled'[e] = cancelled[e]
      BY <1>5, <2>1 DEF settle_unknown_delivery, QueueInv, TypeOK
    <3> QED
      BY <3>1, UntouchedRow
  <2>2. CASE e = d
    <3>1. /\ status[e] = "outcome_unknown" /\ e \in Explicit
          /\ Parts = {1} /\ part[e][1] = "outcome_unknown"
      BY <1>5, <2>2 DEF settle_unknown_delivery, Parts
    <3>2. cancelled[e] => cancelled'[e] /\ status'[e] \in {"delivered", "dead_letter"}
      BY <1>5, <2>2 DEF settle_unknown_delivery, QueueInv, TypeOK
    <3>3. part'[e][1] \in {"delivered", "retryable", "dead"}
      BY <1>5, <2>2, <3>1 DEF settle_unknown_delivery, QueueInv, TypeOK
    <3> QED
      BY <3>1, <3>2, <3>3 DEF OutcomeStays, CancelledStays, is_claimable
  <2> QED
    BY <2>1, <2>2
<1>6. ASSUME NEW d \in Deliveries, LeaseLapses(d) \/ BackoffElapses(d) \/ ProofExpires(d)
      PROVE  OutcomeStays(e) /\ CancelledStays(e)
  <2>1. UNCHANGED <<status, part, cancelled>>
    BY <1>6 DEF LeaseLapses, BackoffElapses, ProofExpires
  <2> QED
    BY <2>1, UntouchedRow
<1>7. CASE \/ \E w \in Workers, d \in Deliveries : WriteFails(w, d)
           \/ \E r \in wire : ProviderAccepts(r) \/ RequestDropped(r)
           \/ \E w \in Workers : ShutdownRequested(w) \/ WorkerEnds(w) \/ WorkerStarts(w)
  BY <1>7, <1>1 DEF WriteFails, ProviderAccepts, RequestDropped, ShutdownRequested,
     WorkerEnds, WorkerStarts
<1>8. CASE UNCHANGED vars
  BY <1>8, <1>1 DEF vars
<1> QED
  BY <1>2, <1>3, <1>4, <1>5, <1>6, <1>7, <1>8 DEF Next, Environment

(* A settled delivery or part never changes again, and outcome_unknown is  *)
(* left only by a message-action delivery: the transition guards of the    *)
(* schema never have to refuse a write of the queue.                       *)
THEOREM OutcomesStayFinal == Spec => OutcomesAreFinal
<1>1. QueueInv /\ [Next]_vars => [\A d \in Deliveries : OutcomeStays(d)]_vars
  BY StepKeepsOutcomes
<1> QED
  BY <1>1, QueueInvHolds, PTL DEF Spec, OutcomesAreFinal

(* Once a cancellation intent is recorded it stays, no further part of the *)
(* delivery is started, and the delivery never returns to the queue.       *)
THEOREM CancellationsStick == Spec => CancellationSticks
<1>1. QueueInv /\ [Next]_vars => [\A d \in Deliveries : CancelledStays(d)]_vars
  BY StepKeepsOutcomes
<1> QED
  BY <1>1, QueueInvHolds, PTL DEF Spec, CancellationSticks
============================================================================
