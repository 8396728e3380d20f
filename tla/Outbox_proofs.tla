---------------------------- MODULE Outbox_proofs ----------------------------
(***************************************************************************)
(* Safety of the outbox for every number of rows, replicas, attempts and   *)
(* disruptions.  Three inductive invariants, each resting on the first:    *)
(* what a claim may carry (BudgetInv), what has reached the broker         *)
(* (DeliveryInv), and who holds a row (ClaimInv).                          *)
(***************************************************************************)
EXTENDS Outbox, TLAPS

(* A row that can still be claimed, or is claimed, has tries left: this is *)
(* what keeps the attempts of every claim below the maximum.               *)
TriesLeft ==
    \A r \in Rows : status[r] \in {"absent", "PENDING", "INFLIGHT"} => attempts[r] < MaxAttempts

(* The attempts written in the store, and the copies the replicas carry,   *)
(* never overstate the tries that threw; a replica about to write e back   *)
(* has seen one more of them than its copy says.                           *)
AttemptsAreFailures ==
    /\ \A r \in Rows : attempts[r] <= failures[r]
    /\ \A p \in Publishers : \A e \in batch[p] :
          /\ e.attempts <= failures[e.id]
          /\ pc[p] = "markFailed" /\ IsHead(e, p) => e.attempts + 1 <= failures[e.id]

BudgetInv ==
    /\ TypeOK
    /\ TriesLeft
    /\ AttemptsAreFailures
    /\ NoPrematureDeadLetter

(* A replica marks a row processed only after its publish returned. *)
MarkedArePublished ==
    \A p \in Publishers : \A e \in batch[p] :
        pc[p] = "markProcessed" /\ IsHead(e, p) => e.id \in published

DeliveryInv ==
    /\ MarkedArePublished
    /\ ProcessedWasPublished

(* A replica holds a row by one claim, and while nobody's view of the row  *)
(* is wrong a held row is INFLIGHT and a notified one FAILED_DLQ.          *)
ClaimInv ==
    /\ \A p \in Publishers : \A e, f \in batch[p] : e.id = f.id => e = f
    /\ \A p \in Publishers, r \in Rows \ disturbed :
          Holds(p, r) => status[r] = "INFLIGHT"
    /\ \A r \in Rows \ disturbed : notified[r] > 0 => status[r] = "FAILED_DLQ"
    /\ SingleHolder
    /\ DeadLetterCountedOnce

-----------------------------------------------------------------------------
(* An empty table with idle replicas satisfies all three. *)
LEMMA InitEstablishesInv == Init => BudgetInv /\ DeliveryInv /\ ClaimInv
BY OutboxAssumption
DEF Init, BudgetInv, TypeOK, TriesLeft, AttemptsAreFailures, DeliveryInv,
    MarkedArePublished, ProcessedWasPublished, NoPrematureDeadLetter, ClaimInv,
    SingleHolder, DeadLetterCountedOnce, Holds, Statuses, Claims

(* At most one row of a batch is next. *)
LEMMA HeadsAgree ==
    ASSUME TypeOK, NEW p \in Publishers, NEW e \in batch[p], NEW f \in batch[p],
           IsHead(e, p), IsHead(f, p)
    PROVE  f.id = e.id
<1>1. e.id \in Nat /\ f.id \in Nat
  BY OutboxAssumption DEF TypeOK, Claims, Rows
<1>2. e.id <= f.id /\ f.id <= e.id
  BY DEF IsHead
<1> QED
  BY <1>1, <1>2

(* Every step keeps the types and the tries left. *)
LEMMA StepPreservesTypes ==
    TypeOK /\ TriesLeft /\ [Next]_vars => TypeOK' /\ TriesLeft'
<1> SUFFICES ASSUME TypeOK, TriesLeft, [Next]_vars
             PROVE  (TypeOK /\ TriesLeft)'
  OBVIOUS
<1> USE OutboxAssumption
    DEF TypeOK, TriesLeft, Statuses, Claims
<1>1. ASSUME NEW p \in Publishers, Claim(p)
       PROVE  (TypeOK /\ TriesLeft)'
  BY <1>1 DEF Claim, ClaimedSet, Claimable, Flip
<1>2. ASSUME NEW p \in Publishers, ClaimThrows(p)
       PROVE  (TypeOK /\ TriesLeft)'
  BY <1>2 DEF ClaimThrows, ClaimedSet, Claimable, Flip, Disrupt
<1>3. ASSUME NEW p \in Publishers, CallerCatches(p)
       PROVE  (TypeOK /\ TriesLeft)'
  BY <1>3 DEF CallerCatches
<1>4. ASSUME NEW p \in Publishers, Crash(p)
       PROVE  (TypeOK /\ TriesLeft)'
  BY <1>4 DEF Crash, Disrupt
<1>5. ASSUME NEW p \in Publishers, NEW e \in batch[p], PublishOk(e, p)
       PROVE  (TypeOK /\ TriesLeft)'
  BY <1>5 DEF PublishOk
<1>6. ASSUME NEW p \in Publishers, NEW e \in batch[p], PublishFails(e, p)
       PROVE  (TypeOK /\ TriesLeft)'
  BY <1>6 DEF PublishFails, CountFailure, AfterPublishFailed
<1>7. ASSUME NEW p \in Publishers, NEW e \in batch[p], MarkProcessed(e, p)
       PROVE  (TypeOK /\ TriesLeft)'
  BY <1>7 DEF MarkProcessed, Advance
<1>8. ASSUME NEW p \in Publishers, NEW e \in batch[p], MarkProcessedThrows(e, p)
       PROVE  (TypeOK /\ TriesLeft)'
  BY <1>8 DEF MarkProcessedThrows, CountFailure, Disrupt
<1>9. ASSUME NEW p \in Publishers, NEW e \in batch[p], MarkFailed(e, p)
       PROVE  (TypeOK /\ TriesLeft)'
  BY <1>9 DEF MarkFailed, Refuse, Exhausted, AttemptsAfterFailure, Notify, Advance
<1>10. ASSUME NEW p \in Publishers, NEW e \in batch[p], MarkFailedThrows(e, p)
       PROVE  (TypeOK /\ TriesLeft)'
  BY <1>10 DEF MarkFailedThrows, Refuse, Exhausted, AttemptsAfterFailure, Disrupt
<1>11. ASSUME NEW r \in Rows, Append(r)
       PROVE  (TypeOK /\ TriesLeft)'
  BY <1>11 DEF Append
<1>12. ASSUME NEW r \in Rows, ReapOrphan(r)
       PROVE  (TypeOK /\ TriesLeft)'
  BY <1>12 DEF ReapOrphan, Requeue
<1>13. ASSUME NEW r \in Rows, ReapEarly(r)
       PROVE  (TypeOK /\ TriesLeft)'
  BY <1>13 DEF ReapEarly, Requeue, Disrupt
<1>14. CASE UNCHANGED vars
  BY <1>14 DEF vars
<1> QED
  BY <1>1, <1>2, <1>3, <1>4, <1>5, <1>6, <1>7, <1>8, <1>9, <1>10, <1>11, <1>12, <1>13, <1>14
  DEF Next, PollStep, HandleRow

(* Every step keeps the account of failed tries. *)
LEMMA StepPreservesBudget == BudgetInv /\ [Next]_vars => BudgetInv'
<1> SUFFICES ASSUME BudgetInv, [Next]_vars
             PROVE  (AttemptsAreFailures /\ NoPrematureDeadLetter)'
  BY StepPreservesTypes DEF BudgetInv
<1> USE OutboxAssumption
    DEF BudgetInv, TypeOK, TriesLeft, AttemptsAreFailures,
        NoPrematureDeadLetter, Statuses, Claims, IsHead
<1>1. ASSUME NEW p \in Publishers, Claim(p)
       PROVE  (AttemptsAreFailures /\ NoPrematureDeadLetter)'
  BY <1>1 DEF Claim, ClaimedSet, Claimable, Flip
<1>2. ASSUME NEW p \in Publishers, ClaimThrows(p)
       PROVE  (AttemptsAreFailures /\ NoPrematureDeadLetter)'
  BY <1>2 DEF ClaimThrows, ClaimedSet, Claimable, Flip, Disrupt
<1>3. ASSUME NEW p \in Publishers, CallerCatches(p)
       PROVE  (AttemptsAreFailures /\ NoPrematureDeadLetter)'
  BY <1>3 DEF CallerCatches
<1>4. ASSUME NEW p \in Publishers, Crash(p)
       PROVE  (AttemptsAreFailures /\ NoPrematureDeadLetter)'
  BY <1>4 DEF Crash, Disrupt
<1>5. ASSUME NEW p \in Publishers, NEW e \in batch[p], PublishOk(e, p)
       PROVE  (AttemptsAreFailures /\ NoPrematureDeadLetter)'
  BY <1>5 DEF PublishOk
<1>6. ASSUME NEW p \in Publishers, NEW e \in batch[p], PublishFails(e, p)
       PROVE  (AttemptsAreFailures /\ NoPrematureDeadLetter)'
  <2>1. /\ failures' \in [Rows -> 0..MaxAttempts]
        /\ \A r \in Rows : failures[r] <= failures'[r]
        /\ \A r \in Rows : failures[r] = MaxAttempts => failures'[r] = MaxAttempts
        /\ failures[e.id] < MaxAttempts => failures'[e.id] = failures[e.id] + 1
    BY <1>6 DEF PublishFails, CountFailure
  <2>2. \A f \in batch[p] : f.id = e.id => f.attempts + 1 <= failures'[f.id]
    BY <2>1
  <2>3. \A f \in batch[p] : IsHead(f, p) => f.id = e.id
    BY <1>6, HeadsAgree DEF PublishFails
  <2>4. AttemptsAreFailures'
    <3>1. \A q \in Publishers : \A f \in batch'[q] :
             f \in batch[q] /\ f.attempts <= failures'[f.id]
      BY <1>6, <2>1 DEF PublishFails
    <3>2. ASSUME NEW q \in Publishers, NEW f \in batch'[q],
                 pc'[q] = "markFailed", IsHead(f, q)'
          PROVE  f.attempts + 1 <= failures'[f.id]
      <4>1. CASE q = p
        BY <1>6, <2>2, <2>3, <3>2, <4>1 DEF PublishFails
      <4>2. CASE q # p
        <5>1. pc[q] = "markFailed" /\ IsHead(f, q)
          BY <1>6, <3>2, <4>2 DEF PublishFails
        <5> QED
          BY <1>6, <2>1, <5>1 DEF PublishFails
      <4> QED
        BY <4>1, <4>2
    <3>3. \A r \in Rows : attempts'[r] <= failures'[r]
      BY <1>6, <2>1 DEF PublishFails
    <3> QED
      BY <3>1, <3>2, <3>3
  <2>5. NoPrematureDeadLetter'
    BY <1>6, <2>1 DEF PublishFails
  <2> QED
    BY <2>4, <2>5
<1>7. ASSUME NEW p \in Publishers, NEW e \in batch[p], MarkProcessed(e, p)
       PROVE  (AttemptsAreFailures /\ NoPrematureDeadLetter)'
  BY <1>7 DEF MarkProcessed, Advance
<1>8. ASSUME NEW p \in Publishers, NEW e \in batch[p], MarkProcessedThrows(e, p)
       PROVE  (AttemptsAreFailures /\ NoPrematureDeadLetter)'
  <2>1. /\ failures' \in [Rows -> 0..MaxAttempts]
        /\ \A r \in Rows : failures[r] <= failures'[r]
        /\ \A r \in Rows : failures[r] = MaxAttempts => failures'[r] = MaxAttempts
        /\ failures[e.id] < MaxAttempts => failures'[e.id] = failures[e.id] + 1
    BY <1>8 DEF MarkProcessedThrows, CountFailure
  <2>2. \A f \in batch[p] : f.id = e.id => f.attempts + 1 <= failures'[f.id]
    BY <2>1
  <2>3. \A f \in batch[p] : IsHead(f, p) => f.id = e.id
    BY <1>8, HeadsAgree DEF MarkProcessedThrows
  <2>4. AttemptsAreFailures'
    <3>1. \A q \in Publishers : \A f \in batch'[q] :
             f \in batch[q] /\ f.attempts <= failures'[f.id]
      BY <1>8, <2>1 DEF MarkProcessedThrows
    <3>2. ASSUME NEW q \in Publishers, NEW f \in batch'[q],
                 pc'[q] = "markFailed", IsHead(f, q)'
          PROVE  f.attempts + 1 <= failures'[f.id]
      <4>1. CASE q = p
        BY <1>8, <2>2, <2>3, <3>2, <4>1 DEF MarkProcessedThrows
      <4>2. CASE q # p
        <5>1. pc[q] = "markFailed" /\ IsHead(f, q)
          BY <1>8, <3>2, <4>2 DEF MarkProcessedThrows
        <5> QED
          BY <1>8, <2>1, <5>1 DEF MarkProcessedThrows
      <4> QED
        BY <4>1, <4>2
    <3>3. \A r \in Rows : attempts'[r] <= failures'[r]
      BY <1>8, <2>1 DEF MarkProcessedThrows
    <3> QED
      BY <3>1, <3>2, <3>3
  <2>5. NoPrematureDeadLetter'
    BY <1>8, <2>1 DEF MarkProcessedThrows
  <2> QED
    BY <2>4, <2>5
<1>9. ASSUME NEW p \in Publishers, NEW e \in batch[p], MarkFailed(e, p)
       PROVE  (AttemptsAreFailures /\ NoPrematureDeadLetter)'
  BY <1>9 DEF MarkFailed, Refuse, Exhausted, AttemptsAfterFailure, Notify, Advance
<1>10. ASSUME NEW p \in Publishers, NEW e \in batch[p], MarkFailedThrows(e, p)
       PROVE  (AttemptsAreFailures /\ NoPrematureDeadLetter)'
  BY <1>10 DEF MarkFailedThrows, Refuse, Exhausted, AttemptsAfterFailure, Disrupt
<1>11. ASSUME NEW r \in Rows, Append(r)
       PROVE  (AttemptsAreFailures /\ NoPrematureDeadLetter)'
  BY <1>11 DEF Append
<1>12. ASSUME NEW r \in Rows, ReapOrphan(r)
       PROVE  (AttemptsAreFailures /\ NoPrematureDeadLetter)'
  BY <1>12 DEF ReapOrphan, Requeue
<1>13. ASSUME NEW r \in Rows, ReapEarly(r)
       PROVE  (AttemptsAreFailures /\ NoPrematureDeadLetter)'
  BY <1>13 DEF ReapEarly, Requeue, Disrupt
<1>14. CASE UNCHANGED vars
  BY <1>14 DEF vars
<1> QED
  BY <1>1, <1>2, <1>3, <1>4, <1>5, <1>6, <1>7, <1>8, <1>9, <1>10, <1>11, <1>12, <1>13, <1>14
  DEF Next, PollStep, HandleRow

(* Every step keeps published what is marked. *)
LEMMA StepPreservesDelivery ==
    TypeOK /\ DeliveryInv /\ [Next]_vars => DeliveryInv'
<1> SUFFICES ASSUME TypeOK, DeliveryInv, [Next]_vars
             PROVE  DeliveryInv'
  OBVIOUS
<1> USE DEF TypeOK, DeliveryInv, MarkedArePublished, ProcessedWasPublished,
            Statuses, Claims, IsHead
<1>1. ASSUME NEW p \in Publishers, Claim(p)
       PROVE  DeliveryInv'
  BY <1>1 DEF Claim, ClaimedSet, Claimable, Flip
<1>2. ASSUME NEW p \in Publishers, ClaimThrows(p)
       PROVE  DeliveryInv'
  BY <1>2 DEF ClaimThrows, ClaimedSet, Claimable, Flip, Disrupt
<1>3. ASSUME NEW p \in Publishers, CallerCatches(p)
       PROVE  DeliveryInv'
  BY <1>3 DEF CallerCatches
<1>4. ASSUME NEW p \in Publishers, Crash(p)
       PROVE  DeliveryInv'
  BY <1>4 DEF Crash, Disrupt
<1>5. ASSUME NEW p \in Publishers, NEW e \in batch[p], PublishOk(e, p)
       PROVE  DeliveryInv'
  <2>1. \A f \in batch[p] : IsHead(f, p) => f.id = e.id
    BY <1>5, HeadsAgree DEF PublishOk
  <2> QED
    BY <1>5, <2>1 DEF PublishOk
<1>6. ASSUME NEW p \in Publishers, NEW e \in batch[p], PublishFails(e, p)
       PROVE  DeliveryInv'
  BY <1>6 DEF PublishFails, CountFailure, AfterPublishFailed
<1>7. ASSUME NEW p \in Publishers, NEW e \in batch[p], MarkProcessed(e, p)
       PROVE  DeliveryInv'
  BY <1>7 DEF MarkProcessed, Advance
<1>8. ASSUME NEW p \in Publishers, NEW e \in batch[p], MarkProcessedThrows(e, p)
       PROVE  DeliveryInv'
  BY <1>8 DEF MarkProcessedThrows, CountFailure, Disrupt
<1>9. ASSUME NEW p \in Publishers, NEW e \in batch[p], MarkFailed(e, p)
       PROVE  DeliveryInv'
  BY <1>9 DEF MarkFailed, Refuse, Exhausted, AttemptsAfterFailure, Notify, Advance
<1>10. ASSUME NEW p \in Publishers, NEW e \in batch[p], MarkFailedThrows(e, p)
       PROVE  DeliveryInv'
  BY <1>10 DEF MarkFailedThrows, Refuse, Exhausted, AttemptsAfterFailure, Disrupt
<1>11. ASSUME NEW r \in Rows, Append(r)
       PROVE  DeliveryInv'
  BY <1>11 DEF Append
<1>12. ASSUME NEW r \in Rows, ReapOrphan(r)
       PROVE  DeliveryInv'
  BY <1>12 DEF ReapOrphan, Requeue
<1>13. ASSUME NEW r \in Rows, ReapEarly(r)
       PROVE  DeliveryInv'
  BY <1>13 DEF ReapEarly, Requeue, Disrupt
<1>14. CASE UNCHANGED vars
  BY <1>14 DEF vars
<1> QED
  BY <1>1, <1>2, <1>3, <1>4, <1>5, <1>6, <1>7, <1>8, <1>9, <1>10, <1>11, <1>12, <1>13, <1>14
  DEF Next, PollStep, HandleRow

(* Every step keeps the claims exclusive, and settled rows settled. *)
LEMMA StepPreservesClaims ==
    TypeOK /\ ClaimInv /\ [Next]_vars =>
        /\ ClaimInv'
        /\ \A r \in Rows \ disturbed :
              status[r] \in Settled => status'[r] = status[r]
<1> DEFINE Final == \A r \in Rows \ disturbed :
                       status[r] \in Settled => status'[r] = status[r]
<1> SUFFICES ASSUME TypeOK, ClaimInv, [Next]_vars
             PROVE  ClaimInv' /\ Final
  OBVIOUS
<1> USE DEF TypeOK, ClaimInv, SingleHolder, DeadLetterCountedOnce, Holds,
            Statuses, Settled, Claims
<1>1. ASSUME NEW p \in Publishers, Claim(p)
       PROVE  ClaimInv' /\ Final
  BY <1>1 DEF Claim, ClaimedSet, Claimable, Flip
<1>2. ASSUME NEW p \in Publishers, ClaimThrows(p)
       PROVE  ClaimInv' /\ Final
  BY <1>2 DEF ClaimThrows, ClaimedSet, Claimable, Flip, Disrupt
<1>3. ASSUME NEW p \in Publishers, CallerCatches(p)
       PROVE  ClaimInv' /\ Final
  BY <1>3 DEF CallerCatches
<1>4. ASSUME NEW p \in Publishers, Crash(p)
       PROVE  ClaimInv' /\ Final
  BY <1>4 DEF Crash, Disrupt
<1>5. ASSUME NEW p \in Publishers, NEW e \in batch[p], PublishOk(e, p)
       PROVE  ClaimInv' /\ Final
  BY <1>5 DEF PublishOk
<1>6. ASSUME NEW p \in Publishers, NEW e \in batch[p], PublishFails(e, p)
       PROVE  ClaimInv' /\ Final
  BY <1>6 DEF PublishFails, CountFailure, AfterPublishFailed
<1>7. ASSUME NEW p \in Publishers, NEW e \in batch[p], MarkProcessed(e, p)
       PROVE  ClaimInv' /\ Final
  <2>1. \A q \in Publishers : batch'[q] \subseteq batch[q]
    BY <1>7 DEF MarkProcessed, Advance
  <2>2. \A f \in batch'[p] : f.id # e.id
    BY <1>7 DEF MarkProcessed, Advance
  <2>3. e.id \notin disturbed =>
           /\ status[e.id] = "INFLIGHT"
           /\ \A q \in Publishers : \A f \in batch'[q] : f.id # e.id
    BY <1>7, <2>1, <2>2 DEF MarkProcessed
  <2>4. /\ disturbed' = disturbed /\ unheard' = unheard
        /\ notified' = notified /\ status'[e.id] = "PROCESSED"
        /\ \A r \in Rows \ {e.id} : status'[r] = status[r]
    BY <1>7 DEF MarkProcessed
  <2>5. \A q \in Publishers, r \in Rows \ disturbed :
           Holds(q, r)' => r # e.id /\ Holds(q, r)
    BY <2>1, <2>3
  <2>6. \A q \in Publishers, r \in Rows : Holds(q, r)' => Holds(q, r)
    BY <2>1
  <2>7. SingleHolder' /\ DeadLetterCountedOnce' /\ Final
    BY <2>3, <2>4, <2>6
  <2>8. \A r \in Rows \ disturbed : notified[r] > 0 => status'[r] = "FAILED_DLQ"
    BY <2>3, <2>4
  <2> QED
    BY <2>1, <2>4, <2>5, <2>7, <2>8
<1>8. ASSUME NEW p \in Publishers, NEW e \in batch[p], MarkProcessedThrows(e, p)
       PROVE  ClaimInv' /\ Final
  BY <1>8 DEF MarkProcessedThrows, CountFailure, Disrupt
<1>9. ASSUME NEW p \in Publishers, NEW e \in batch[p], MarkFailed(e, p)
       PROVE  ClaimInv' /\ Final
  <2>1. /\ \A q \in Publishers : batch'[q] \subseteq batch[q]
        /\ \A f \in batch'[p] : f.id # e.id
    BY <1>9 DEF MarkFailed, Advance
  <2>2. /\ disturbed' = disturbed /\ unheard' = unheard
        /\ e.id \in Rows
        /\ \A r \in Rows \ {e.id} : status'[r] = status[r]
        /\ \A r \in Rows \ {e.id} : notified'[r] = notified[r]
    BY <1>9 DEF MarkFailed, Refuse, Notify
  <2>3. e.id \notin disturbed =>
           /\ status[e.id] = "INFLIGHT"
           /\ \A q \in Publishers : \A f \in batch'[q] : f.id # e.id
    BY <2>1, <2>2
  <2>4. /\ notified'[e.id] > 0 /\ notified[e.id] = 0 =>
              status'[e.id] = "FAILED_DLQ"
        /\ notified[e.id] = 0 => notified'[e.id] <= 1
        /\ notified[e.id] = 0 /\ status'[e.id] = "FAILED_DLQ" => notified'[e.id] = 1
    BY <1>9, <2>2 DEF MarkFailed, Refuse, Notify
  <2>5. e.id \notin disturbed => notified[e.id] = 0
    BY <2>2, <2>3
  <2>6. \A q \in Publishers, r \in Rows : Holds(q, r)' => Holds(q, r)
    BY <2>1
  <2>7. \A q \in Publishers, r \in Rows \ disturbed :
           Holds(q, r)' => r # e.id /\ Holds(q, r)
    BY <2>1, <2>3
  <2>8. \A q \in Publishers : \A f, g \in batch'[q] : f.id = g.id => f = g
    BY <2>1
  <2>9. \A q \in Publishers, r \in Rows \ disturbed' :
           Holds(q, r)' => status'[r] = "INFLIGHT"
    <3> HIDE DEF Holds
    <3> QED
      BY <2>2, <2>7
  <2>10. \A r \in Rows \ disturbed' : notified'[r] > 0 => status'[r] = "FAILED_DLQ"
    BY <2>2, <2>4, <2>5
  <2>11. SingleHolder'
    <3> HIDE DEF Holds
    <3> QED
      BY <2>2, <2>6
  <2>12. DeadLetterCountedOnce'
    <3>1. ASSUME NEW r \in Rows \ disturbed
          PROVE  /\ notified'[r] <= 1
                 /\ status'[r] = "FAILED_DLQ" => notified'[r] = 1 \/ r \in unheard
      <4>1. CASE r = e.id
        BY <2>4, <2>5, <3>1, <4>1
      <4>2. CASE r # e.id
        BY <2>2, <3>1, <4>2
      <4> QED
        BY <4>1, <4>2
    <3> QED
      BY <2>2, <3>1
  <2>13. Final
    BY <2>2, <2>3
  <2> QED
    BY <2>8, <2>9, <2>10, <2>11, <2>12, <2>13
<1>10. ASSUME NEW p \in Publishers, NEW e \in batch[p], MarkFailedThrows(e, p)
       PROVE  ClaimInv' /\ Final
  BY <1>10 DEF MarkFailedThrows, Refuse, Exhausted, AttemptsAfterFailure, Disrupt
<1>11. ASSUME NEW r \in Rows, Append(r)
       PROVE  ClaimInv' /\ Final
  BY <1>11 DEF Append
<1>12. ASSUME NEW r \in Rows, ReapOrphan(r)
       PROVE  ClaimInv' /\ Final
  BY <1>12 DEF ReapOrphan, Requeue
<1>13. ASSUME NEW r \in Rows, ReapEarly(r)
       PROVE  ClaimInv' /\ Final
  BY <1>13 DEF ReapEarly, Requeue, Disrupt
<1>14. CASE UNCHANGED vars
  BY <1>14 DEF vars
<1> QED
  BY <1>1, <1>2, <1>3, <1>4, <1>5, <1>6, <1>7, <1>8, <1>9, <1>10, <1>11, <1>12, <1>13, <1>14
  DEF Next, PollStep, HandleRow

-----------------------------------------------------------------------------
(* The account of failed tries is right in every behaviour. *)
THEOREM BudgetHolds == Spec => []BudgetInv
<1>1. Init => BudgetInv
  BY InitEstablishesInv
<1> QED
  BY <1>1, StepPreservesBudget, PTL DEF Spec

(* The columns and the replicas' locals keep their types. *)
THEOREM TypeCorrect == Spec => []TypeOK
<1>1. BudgetInv => TypeOK
  BY DEF BudgetInv
<1> QED
  BY <1>1, BudgetHolds, PTL

(* No row is given up, and none counted as dead, before its budget is      *)
(* spent, however many replicas worked on it with stale copies.            *)
THEOREM DeadLettersAreGenuine == Spec => []NoPrematureDeadLetter
<1>1. BudgetInv => NoPrematureDeadLetter
  BY DEF BudgetInv
<1> QED
  BY <1>1, BudgetHolds, PTL

(* A PROCESSED row has reached the broker, whatever crashed or timed out. *)
THEOREM NoLostEvent == Spec => []ProcessedWasPublished
<1>1. Init => DeliveryInv
  BY InitEstablishesInv
<1>2. DeliveryInv => ProcessedWasPublished
  BY DEF DeliveryInv
<1> QED
  BY <1>1, <1>2, TypeCorrect, StepPreservesDelivery, PTL DEF Spec

(* The claims are exclusive in every behaviour. *)
THEOREM ClaimsHold == Spec => []ClaimInv
<1>1. Init => ClaimInv
  BY InitEstablishesInv
<1> QED
  BY <1>1, TypeCorrect, StepPreservesClaims, PTL DEF Spec

(* Two replicas hold the same row only if its claim was reaped early. *)
THEOREM ExclusiveClaims == Spec => []SingleHolder
<1>1. ClaimInv => SingleHolder
  BY DEF ClaimInv
<1> QED
  BY <1>1, ClaimsHold, PTL

(* The dead-letter metric counts an undisturbed row that is given up once, *)
(* unless the reply to its last markFailed was lost.                       *)
THEOREM DeadLettersCountedOnce == Spec => []DeadLetterCountedOnce
<1>1. ClaimInv => DeadLetterCountedOnce
  BY DEF ClaimInv
<1> QED
  BY <1>1, ClaimsHold, PTL

(* An undisturbed row that is settled stays settled. *)
THEOREM SettledRowsStay == Spec => SettledIsFinal
<1>1. TypeOK /\ ClaimInv /\ [Next]_vars =>
          [\A r \in Rows \ disturbed :
              status[r] \in Settled => status'[r] = status[r]]_vars
  BY StepPreservesClaims
<1> QED
  BY <1>1, TypeCorrect, ClaimsHold, PTL DEF Spec, SettledIsFinal

-----------------------------------------------------------------------------
(* When the events of an aggregate keep their order *)

(* No try has thrown, nothing has crashed, and no claim was reaped early. *)
Calm == disruptions = 0 /\ \A r \in Rows : failures[r] = 0

(* The table is then a settled prefix, a claimed middle and an open end,   *)
(* and what the broker has is the prefix and the row being marked.         *)
StatusesInOrder ==
    \A q, r \in Rows : q < r =>
        /\ status[q] = "absent" => status[r] = "absent"
        /\ status[r] \in {"INFLIGHT", "PROCESSED"} =>
              status[q] \in {"INFLIGHT", "PROCESSED"}
        /\ status[r] = "PROCESSED" => status[q] = "PROCESSED"

BeingMarked(r) ==
    \E p \in Publishers : \E e \in batch[p] :
        e.id = r /\ IsHead(e, p) /\ pc[p] = "markProcessed"

CalmInv ==
    /\ \A p \in Publishers :
          /\ pc[p] \in {"idle", "publish", "markProcessed"}
          /\ pc[p] = "idle" => batch[p] = {}
          /\ \A e, f \in batch[p] : e.id = f.id => e = f
    /\ \A r \in Rows : status[r] = "INFLIGHT" <=> \E p \in Publishers : Holds(p, r)
    /\ \A r \in Rows : status[r] # "FAILED_DLQ"
    /\ StatusesInOrder
    /\ \A r \in published : status[r] = "PROCESSED" \/ BeingMarked(r)

OrderInv == Calm => CalmInv

(* One replica runs. *)
OneReplica == \A p, q \in Publishers : p = q

(* The rows before the head of a lone replica's batch are settled. *)
LEMMA HeadIsNext ==
    ASSUME OneReplica, TypeOK, CalmInv,
           NEW p \in Publishers, NEW e \in batch[p], IsHead(e, p)
    PROVE  /\ e.id \in Rows /\ status[e.id] = "INFLIGHT"
           /\ \A q \in Rows : q < e.id => status[q] = "PROCESSED"
<1>1. e.id \in Rows /\ status[e.id] = "INFLIGHT"
  BY DEF TypeOK, Claims, CalmInv, Holds
<1>2. ASSUME NEW q \in Rows, q < e.id
      PROVE  status[q] = "PROCESSED"
  <2>1. status[q] \in {"INFLIGHT", "PROCESSED"}
    BY <1>1, <1>2 DEF CalmInv, StatusesInOrder
  <2>2. ASSUME status[q] = "INFLIGHT"
        PROVE  FALSE
    <3>1. PICK f \in batch[p] : f.id = q
      BY <2>2 DEF CalmInv, Holds, OneReplica
    <3>2. e.id <= q
      BY <3>1 DEF IsHead
    <3> QED
      BY <1>1, <1>2, <3>2, OutboxAssumption DEF Rows
  <2> QED
    BY <2>1, <2>2
<1> QED
  BY <1>1, <1>2

(* A step after which all is calm was taken in calm, and by no fault. *)
LEMMA CalmStep ==
    ASSUME TypeOK, [Next]_vars, Calm'
    PROVE  /\ Calm
           /\ \/ \E p \in Publishers :
                    \/ Claim(p) \/ CallerCatches(p)
                    \/ \E e \in batch[p] :
                          PublishOk(e, p) \/ MarkProcessed(e, p) \/ MarkFailed(e, p)
              \/ \E r \in Rows : Append(r) \/ ReapOrphan(r)
              \/ UNCHANGED vars
<1>0. disruptions \in Nat /\ failures \in [Rows -> 0..MaxAttempts]
  BY DEF TypeOK
<1>1. ~Disrupt
  BY <1>0 DEF Calm, Disrupt
<1>2. ASSUME NEW p \in Publishers, NEW e \in batch[p], PublishFails(e, p)
      PROVE  FALSE
  <2>1. e.id \in Rows
    BY DEF TypeOK, Claims
  <2>2. failures'[e.id] # 0
    BY <1>0, <1>2, <2>1, OutboxAssumption DEF PublishFails, CountFailure
  <2> QED
    BY <2>1, <2>2 DEF Calm
<1>3. \/ \E p \in Publishers :
            \/ Claim(p) \/ CallerCatches(p)
            \/ \E e \in batch[p] :
                  PublishOk(e, p) \/ MarkProcessed(e, p) \/ MarkFailed(e, p)
      \/ \E r \in Rows : Append(r) \/ ReapOrphan(r)
      \/ UNCHANGED vars
  BY <1>1, <1>2
  DEF Next, PollStep, HandleRow, ClaimThrows, MarkProcessedThrows,
      MarkFailedThrows, Crash, ReapEarly
<1>4. UNCHANGED <<disruptions, failures>>
  BY <1>3
  DEF Claim, CallerCatches, PublishOk, MarkProcessed, MarkFailed, Append,
      ReapOrphan, Requeue, vars
<1> QED
  BY <1>3, <1>4 DEF Calm

LEMMA StepPreservesOrder ==
    ASSUME OneReplica, TypeOK, TypeOK', ClaimInv, OrderInv, [Next]_vars
    PROVE  OrderInv'
<1> SUFFICES ASSUME Calm'
             PROVE  CalmInv'
  BY DEF OrderInv
<1>0. /\ CalmInv /\ StatusesInOrder
      /\ Rows \subseteq Nat
      /\ status \in [Rows -> Statuses]
      /\ pc \in [Publishers -> {"idle", "publish", "markProcessed",
                                "markFailed", "rejected"}]
      /\ batch \in [Publishers -> SUBSET Claims]
  <2>1. Calm
    BY CalmStep
  <2>2. CalmInv /\ StatusesInOrder
    BY <2>1 DEF OrderInv, CalmInv
  <2> QED
    BY <2>2, OutboxAssumption DEF TypeOK, Rows
<1>1. ASSUME NEW p \in Publishers, Claim(p)
      PROVE  CalmInv'
  <2>1. PICK S \in SUBSET Rows :
           /\ ClaimedSet(S) /\ Flip(S)
           /\ batch' = [batch EXCEPT ![p] =
                           {[id |-> r, attempts |-> attempts[r]] : r \in S}]
    BY <1>1 DEF Claim
  <2>2. /\ batch[p] = {} /\ \A q \in Publishers : q = p
        /\ pc'[p] = "publish" /\ published' = published
        /\ batch'[p] = {[id |-> r, attempts |-> attempts[r]] : r \in S}
    <3>1. batch' = [batch EXCEPT ![p] =
                       {[id |-> r, attempts |-> attempts[r]] : r \in S}]
      BY <2>1
    <3> QED
      BY <1>0, <1>1, <3>1 DEF Claim, CalmInv, OneReplica
  <2>3. /\ \A r \in Rows : status[r] # "INFLIGHT"
        /\ \A r \in Rows : status'[r] = IF r \in S THEN "INFLIGHT" ELSE status[r]
        /\ \A r \in S : status[r] = "PENDING"
    <3>1. \A r \in Rows : ~\E q \in Publishers : Holds(q, r)
      BY <2>2 DEF Holds
    <3>2. \A r \in Rows : status[r] # "INFLIGHT"
      BY <1>0, <3>1 DEF CalmInv
    <3> QED
      BY <1>0, <2>1, <3>2 DEF Flip, ClaimedSet, Claimable
  <2>4. \A r \in Rows : status'[r] = "INFLIGHT" <=> \E q \in Publishers : Holds(q, r)'
    <3>1. ASSUME NEW r \in Rows
          PROVE  Holds(p, r)' <=> r \in S
      <4>1. \A e \in batch'[p] : e.id \in S
        BY <2>2
      <4>2. \A t \in S : [id |-> t, attempts |-> attempts[t]] \in batch'[p]
        BY <2>2
      <4>3. r \in S => \E e \in batch'[p] : e.id = r
        BY <4>2
      <4> QED
        BY <4>1, <4>3 DEF Holds
    <3>2. ASSUME NEW r \in Rows
          PROVE  (\E q \in Publishers : Holds(q, r)') <=> Holds(p, r)'
      <4>1. p \in Publishers /\ \A q \in Publishers : q = p
        BY <2>2
      <4> QED
        BY <4>1 DEF Holds
    <3> QED
      BY <2>3, <3>1, <3>2
  <2>5. StatusesInOrder'
    <3> SUFFICES ASSUME NEW q \in Rows, NEW r \in Rows, q < r
                 PROVE  /\ status'[q] = "absent" => status'[r] = "absent"
                        /\ status'[r] \in {"INFLIGHT", "PROCESSED"} =>
                              status'[q] \in {"INFLIGHT", "PROCESSED"}
                        /\ status'[r] = "PROCESSED" => status'[q] = "PROCESSED"
      BY DEF StatusesInOrder
    <3>1. r \in S /\ q \notin S => status[q] # "PENDING"
      <4>1. r \in S /\ q \notin S /\ status[q] = "PENDING" => r < q
        BY <2>1 DEF ClaimedSet, Claimable
      <4> QED
        BY <1>0, <4>1
    <3>2. status[q] \in Statuses /\ status[q] \notin {"INFLIGHT", "FAILED_DLQ"}
      BY <1>0, <2>3 DEF CalmInv
    <3> QED
      BY <1>0, <2>3, <3>1, <3>2 DEF StatusesInOrder, Statuses
  <2>6. \A r \in published : status'[r] = "PROCESSED"
    <3>1. \A r : ~BeingMarked(r)
      BY <2>2 DEF BeingMarked
    <3>2. published \subseteq Rows
      BY DEF TypeOK
    <3> QED
      BY <1>0, <2>3, <3>1, <3>2 DEF CalmInv
  <2>7. \A e, f \in batch'[p] : e.id = f.id => e = f
    BY <2>2
  <2> QED
    BY <1>0, <2>2, <2>3, <2>4, <2>5, <2>6, <2>7 DEF CalmInv
<1>2. ASSUME NEW p \in Publishers, NEW e \in batch[p], PublishOk(e, p)
      PROVE  CalmInv'
  <2>1. /\ pc'[p] = "markProcessed" /\ \A q \in Publishers : q = p
        /\ UNCHANGED <<status, batch>> /\ published' = published \cup {e.id}
        /\ pc[p] = "publish" /\ IsHead(e, p)
    BY <1>0, <1>2 DEF PublishOk, OneReplica
  <2>2. BeingMarked(e.id)'
    BY <2>1 DEF BeingMarked, IsHead
  <2>3. \A r \in published : status[r] = "PROCESSED"
    BY <1>0, <2>1 DEF CalmInv, BeingMarked
  <2>4. StatusesInOrder' /\ \A q \in Publishers, r \in Rows : Holds(q, r)' <=> Holds(q, r)
    BY <1>0, <2>1 DEF StatusesInOrder, Holds
  <2> QED
    BY <1>0, <2>1, <2>2, <2>3, <2>4 DEF CalmInv
<1>3. ASSUME NEW p \in Publishers, NEW e \in batch[p], MarkProcessed(e, p)
      PROVE  CalmInv'
  <2>1. /\ pc[p] = "markProcessed" /\ IsHead(e, p) /\ \A q \in Publishers : q = p
        /\ status' = [status EXCEPT ![e.id] = "PROCESSED"]
        /\ batch'[p] = batch[p] \ {e} /\ published' = published
        /\ pc'[p] = IF batch[p] \ {e} = {} THEN "idle" ELSE "publish"
    BY <1>0, <1>3 DEF MarkProcessed, Advance, OneReplica
  <2>2. /\ e.id \in Rows /\ status[e.id] = "INFLIGHT"
        /\ \A q \in Rows : q < e.id => status[q] = "PROCESSED"
    BY <1>0, <2>1, HeadIsNext
  <2>3. \A r \in Rows : status'[r] = IF r = e.id THEN "PROCESSED" ELSE status[r]
    BY <1>0, <2>1
  <2>4. \A r \in Rows : Holds(p, r)' <=> Holds(p, r) /\ r # e.id
    BY <1>0, <2>1 DEF Holds, CalmInv
  <2>5. \A r \in Rows : status'[r] = "INFLIGHT" <=> \E q \in Publishers : Holds(q, r)'
    BY <1>0, <2>1, <2>3, <2>4 DEF CalmInv
  <2>6. StatusesInOrder'
    BY <1>0, <2>2, <2>3 DEF StatusesInOrder
  <2>7. \A r \in published : status'[r] = "PROCESSED"
    <3>1. \A r \in published : BeingMarked(r) => r = e.id
      BY <2>1, HeadsAgree DEF BeingMarked
    <3>2. published \subseteq Rows
      BY DEF TypeOK
    <3> QED
      BY <1>0, <2>3, <3>1, <3>2 DEF CalmInv
  <2>8. \A f, g \in batch'[p] : f.id = g.id => f = g
    BY <1>0, <2>1 DEF CalmInv
  <2> QED
    BY <1>0, <2>1, <2>3, <2>5, <2>6, <2>7, <2>8 DEF CalmInv
<1>4. ASSUME NEW r \in Rows, Append(r)
      PROVE  CalmInv'
  <2>1. /\ status[r] = "absent" /\ UNCHANGED <<pc, batch, published>>
        /\ \A q \in Rows : q < r => status[q] # "absent"
        /\ \A q \in Rows : status'[q] = IF q = r THEN "PENDING" ELSE status[q]
    BY <1>0, <1>4 DEF Append
  <2>2. /\ \A q \in Publishers, t \in Rows : Holds(q, t)' <=> Holds(q, t)
        /\ \A t : BeingMarked(t)' <=> BeingMarked(t)
    BY <2>1 DEF Holds, BeingMarked, IsHead
  <2>3. StatusesInOrder'
    BY <1>0, <2>1 DEF StatusesInOrder
  <2>4. published \subseteq Rows
    BY DEF TypeOK
  <2> QED
    BY <1>0, <2>1, <2>2, <2>3, <2>4 DEF CalmInv
<1>5. ASSUME NEW r \in Rows, ReapOrphan(r)
      PROVE  FALSE
  BY <1>0, <1>5 DEF ReapOrphan, Requeue, CalmInv
<1>6. ASSUME NEW p \in Publishers,
             \/ CallerCatches(p)
             \/ \E e \in batch[p] : MarkFailed(e, p)
      PROVE  FALSE
  BY <1>0, <1>6 DEF CallerCatches, MarkFailed, CalmInv
<1>7. CASE UNCHANGED vars
  BY <1>0, <1>7 DEF vars, CalmInv, StatusesInOrder, BeingMarked, IsHead, Holds
<1> QED
  BY <1>1, <1>2, <1>3, <1>4, <1>5, <1>6, <1>7, CalmStep

(* With one replica, the events of an aggregate reach the broker in their  *)
(* order as long as no publish and no mark has thrown, nothing has crashed *)
(* and no claim was reaped: a later event overtakes an earlier one only    *)
(* after a failure, or beside another replica.                             *)
THEOREM OrderedUntilAFailure ==
    OneReplica => (Spec => [](Calm => PerAggregateOrder))
<1> SUFFICES ASSUME OneReplica
             PROVE  Spec => [](Calm => PerAggregateOrder)
  OBVIOUS
<1>1. Init => OrderInv
  BY DEF Init, OrderInv, CalmInv, StatusesInOrder, Holds
<1>2. /\ OrderInv /\ BudgetInv /\ BudgetInv' /\ ClaimInv /\ [Next]_vars => OrderInv'
  BY StepPreservesOrder DEF BudgetInv
<1>3. OrderInv /\ BudgetInv /\ ProcessedWasPublished => (Calm => PerAggregateOrder)
  <2> SUFFICES ASSUME CalmInv, TypeOK, ProcessedWasPublished,
                      NEW q \in Rows, NEW r \in Rows, q < r, r \in published
               PROVE  q \in published
    BY DEF OrderInv, BudgetInv, PerAggregateOrder
  <2>1. CASE status[r] = "PROCESSED"
    BY <2>1 DEF CalmInv, StatusesInOrder, ProcessedWasPublished
  <2>2. CASE BeingMarked(r)
    BY <2>2, HeadIsNext DEF BeingMarked, ProcessedWasPublished
  <2> QED
    BY <2>1, <2>2 DEF CalmInv
<1> QED
  BY <1>1, <1>2, <1>3, BudgetHolds, ClaimsHold, NoLostEvent, PTL DEF Spec
=============================================================================
