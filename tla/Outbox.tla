------------------------------- MODULE Outbox -------------------------------
(***************************************************************************)
(* The transactional outbox: command handlers append rows                  *)
(* (IOutboxWriter.append), replicas of OutboxPublisher poll them out to    *)
(* the broker (outbox/outbox-publisher.ts) through the three methods of    *)
(* IOutboxStore (outbox/outbox.ports.ts).  The store behind the port, the  *)
(* broker client, the reaper of stale claims and the job that owns the     *)
(* tick live in the services; they are modelled from the port's contract   *)
(* and may fail, lose a reply, crash or fire early.                        *)
(*                                                                         *)
(* A poll that claims nothing returns at once and changes nothing, so it   *)
(* has no action.  The counters of OutboxPollResult only feed logs.        *)
(***************************************************************************)
EXTENDS Naturals, FiniteSets

CONSTANTS
    NumRows,         (* rows are numbered in the order of their creation *)
    Publishers,      (* replicas, each running one pollOnce() at a time *)
    BatchSize,       (* opts.batchSize *)
    MaxAttempts,     (* opts.maxAttempts *)
    MaxDisruptions,  (* bound: crashes, store faults and early reaps *)
    AggregateOf(_)   (* the aggregateId of a row, its partition key *)

ASSUME OutboxAssumption ==
    /\ NumRows \in Nat
    /\ BatchSize \in Nat \ {0}
    /\ MaxAttempts \in Nat \ {0}
    /\ MaxDisruptions \in Nat

Rows == 1..NumRows

VARIABLES
    status,       (* the row's status column, "absent" before append *)
    attempts,     (* the row's attempts column *)
    pc,           (* where the replica's pollOnce() stands *)
    batch,        (* the claimed rows it has still to handle *)
    published,    (* rows the broker has at least once *)
    failures,     (* history: tries of a row that threw, up to MaxAttempts *)
    notified,     (* history: onDeadLetter calls for a row, up to 2 *)
    disturbed,    (* history: rows of which some replica has a wrong view,
                     because its claim was reaped under it or the reply to
                     its markProcessed was lost *)
    unheard,      (* history: rows whose last markFailed was applied but its
                     reply lost, by a throw or with the process *)
    disruptions

vars == <<status, attempts, pc, batch, published, failures, notified,
          disturbed, unheard, disruptions>>

Statuses == {"absent", "PENDING", "INFLIGHT", "PROCESSED", "FAILED_DLQ"}
Settled == {"PROCESSED", "FAILED_DLQ"}

(* ClaimedOutboxEvent: the attempts are those read at the claim. *)
Claims == [id : Rows, attempts : 0..(MaxAttempts - 1)]

(* The variables hold values of their types. *)
TypeOK ==
    /\ status \in [Rows -> Statuses]
    /\ attempts \in [Rows -> 0..MaxAttempts]
    /\ pc \in [Publishers -> {"idle", "publish", "markProcessed",
                              "markFailed", "rejected"}]
    /\ batch \in [Publishers -> SUBSET Claims]
    /\ published \subseteq Rows
    /\ failures \in [Rows -> 0..MaxAttempts]
    /\ notified \in [Rows -> 0..2]
    /\ disturbed \subseteq Rows
    /\ unheard \subseteq Rows
    /\ disruptions \in 0..MaxDisruptions

Init ==
    /\ status = [r \in Rows |-> "absent"]
    /\ attempts = [r \in Rows |-> 0]
    /\ pc = [p \in Publishers |-> "idle"]
    /\ batch = [p \in Publishers |-> {}]
    /\ published = {}
    /\ failures = [r \in Rows |-> 0]
    /\ notified = [r \in Rows |-> 0]
    /\ disturbed = {}
    /\ unheard = {}
    /\ disruptions = 0

Disrupt ==
    /\ disruptions < MaxDisruptions
    /\ disruptions' = disruptions + 1

-----------------------------------------------------------------------------
(* IOutboxWriter.append, committed with the command's own writes *)

Append(r) ==
    /\ status[r] = "absent"
    /\ \A q \in Rows : q < r => status[q] # "absent"
    /\ status' = [status EXCEPT ![r] = "PENDING"]
    /\ UNCHANGED <<attempts, pc, batch, published, failures, notified,
                   disturbed, unheard, disruptions>>

-----------------------------------------------------------------------------
(* pollOnce(): the claim *)

(* Mutated form: a claim that also takes rows other replicas hold. *)
ClaimableWithInflight == {r \in Rows : status[r] \in {"PENDING", "INFLIGHT"}}

Claimable == {r \in Rows : status[r] = "PENDING"}

(* The oldest rows, as many as the batch holds. *)
ClaimedSet(S) ==
    /\ S # {}
    /\ S \subseteq Claimable
    /\ \A r \in S, q \in Claimable \ S : r < q
    /\ \/ Cardinality(S) = BatchSize
       \/ Cardinality(S) < BatchSize /\ S = Claimable

Flip(S) == status' = [r \in Rows |-> IF r \in S THEN "INFLIGHT" ELSE status[r]]

Claim(p) ==
    /\ pc[p] = "idle"
    /\ \E S \in SUBSET Rows :
          /\ ClaimedSet(S)
          /\ Flip(S)
          /\ batch' = [batch EXCEPT ![p] =
                          {[id |-> r, attempts |-> attempts[r]] : r \in S}]
    /\ pc' = [pc EXCEPT ![p] = "publish"]
    /\ UNCHANGED <<attempts, published, failures, notified, disturbed,
                   unheard, disruptions>>

(* claimPendingBatch throws, its update applied or not: pollOnce rejects. *)
ClaimThrows(p) ==
    /\ pc[p] = "idle"
    /\ Disrupt
    /\ \/ UNCHANGED status
       \/ \E S \in SUBSET Rows : ClaimedSet(S) /\ Flip(S)
    /\ pc' = [pc EXCEPT ![p] = "rejected"]
    /\ UNCHANGED <<attempts, batch, published, failures, notified, disturbed,
                   unheard>>

-----------------------------------------------------------------------------
(* pollOnce(): the loop body, for the oldest row e still in the batch *)

IsHead(e, p) == e \in batch[p] /\ \A f \in batch[p] : e.id <= f.id

(* Where the replica goes when it is done with e. *)
Advance(e, p) ==
    /\ batch' = [batch EXCEPT ![p] = @ \ {e}]
    /\ pc' = [pc EXCEPT ![p] = IF batch[p] \ {e} = {} THEN "idle" ELSE "publish"]

CountFailure(r) ==
    failures' = [failures EXCEPT ![r] = IF @ < MaxAttempts THEN @ + 1 ELSE @]

PublishOk(e, p) ==
    /\ pc[p] = "publish"
    /\ IsHead(e, p)
    /\ published' = published \cup {e.id}
    /\ pc' = [pc EXCEPT ![p] = "markProcessed"]
    /\ UNCHANGED <<status, attempts, batch, failures, notified, disturbed,
                   unheard, disruptions>>

(* Mutated form: a failed publish is logged and the row marked anyway. *)
AfterPublishFailedMarksProcessed == "markProcessed"

AfterPublishFailed == "markFailed"

(* A failed publish may have reached the broker all the same. *)
PublishFails(e, p) ==
    /\ pc[p] = "publish"
    /\ IsHead(e, p)
    /\ published' \in {published, published \cup {e.id}}
    /\ CountFailure(e.id)
    /\ pc' = [pc EXCEPT ![p] = AfterPublishFailed]
    /\ UNCHANGED <<status, attempts, batch, notified, disturbed, unheard,
                   disruptions>>

MarkProcessed(e, p) ==
    /\ pc[p] = "markProcessed"
    /\ IsHead(e, p)
    /\ status' = [status EXCEPT ![e.id] = "PROCESSED"]
    /\ Advance(e, p)
    /\ UNCHANGED <<attempts, published, failures, notified, disturbed,
                   unheard, disruptions>>

(* markProcessed throws, its update applied or not: the same catch block   *)
(* runs, although the row has been published.                              *)
MarkProcessedThrows(e, p) ==
    /\ pc[p] = "markProcessed"
    /\ IsHead(e, p)
    /\ Disrupt
    /\ \/ UNCHANGED <<status, disturbed>>
       \/ /\ status' = [status EXCEPT ![e.id] = "PROCESSED"]
          /\ disturbed' = disturbed \cup {e.id}
    /\ CountFailure(e.id)
    /\ pc' = [pc EXCEPT ![p] = "markFailed"]
    /\ UNCHANGED <<attempts, batch, published, notified, unheard>>

(* Mutated form: the last attempt is given away. *)
ExhaustedOneEarly(e) == e.attempts + 2 >= MaxAttempts

(* Mutated form: > for >=. *)
ExhaustedOneLate(e) == e.attempts + 1 > MaxAttempts

(* Computed twice in the code: by markFailed and by the loop. *)
Exhausted(e) == e.attempts + 1 >= MaxAttempts

(* Mutated form: the attempt is not written back. *)
AttemptsNotBumped(e) == e.attempts

AttemptsAfterFailure(e) == e.attempts + 1

(* markFailed's update.  It is keyed by the id alone. *)
Refuse(e) ==
    /\ attempts' = [attempts EXCEPT ![e.id] = AttemptsAfterFailure(e)]
    /\ status' = [status EXCEPT ![e.id] =
                     IF Exhausted(e) THEN "FAILED_DLQ" ELSE "PENDING"]

(* Mutated form: the metric counts every failure. *)
NotifyEveryFailure(e) ==
    notified' = [notified EXCEPT ![e.id] = IF @ < 2 THEN @ + 1 ELSE @]

(* onDeadLetter, the metrics hook *)
Notify(e) ==
    notified' = [notified EXCEPT ![e.id] =
                    IF Exhausted(e) /\ @ < 2 THEN @ + 1 ELSE @]

MarkFailed(e, p) ==
    /\ pc[p] = "markFailed"
    /\ IsHead(e, p)
    /\ Refuse(e)
    /\ Notify(e)
    /\ Advance(e, p)
    /\ UNCHANGED <<published, failures, disturbed, unheard, disruptions>>

(* markFailed throws inside the catch block, its update applied or not:    *)
(* nothing catches it, onDeadLetter is not called and the rest of the      *)
(* batch is abandoned INFLIGHT.  A crash during the call does the same.    *)
MarkFailedThrows(e, p) ==
    /\ pc[p] = "markFailed"
    /\ IsHead(e, p)
    /\ Disrupt
    /\ \/ UNCHANGED <<status, attempts, unheard>>
       \/ /\ Refuse(e)
          /\ unheard' = IF Exhausted(e) THEN unheard \cup {e.id} ELSE unheard
    /\ batch' = [batch EXCEPT ![p] = {}]
    /\ pc' = [pc EXCEPT ![p] = "rejected"]
    /\ UNCHANGED <<published, failures, notified, disturbed>>

(* The job that owns the tick catches the rejection and goes on ticking. *)
CallerCatches(p) ==
    /\ pc[p] = "rejected"
    /\ pc' = [pc EXCEPT ![p] = "idle"]
    /\ UNCHANGED <<status, attempts, batch, published, failures, notified,
                   disturbed, unheard, disruptions>>

-----------------------------------------------------------------------------
(* The environment *)

(* The replica's process dies and restarts: pollOnce's locals are gone. *)
Crash(p) ==
    /\ pc[p] # "idle"
    /\ Disrupt
    /\ batch' = [batch EXCEPT ![p] = {}]
    /\ pc' = [pc EXCEPT ![p] = "idle"]
    /\ UNCHANGED <<status, attempts, published, failures, notified,
                   disturbed, unheard>>

Holds(p, r) == \E e \in batch[p] : e.id = r

(* The reaper judges a claim by its age only. *)
Requeue(r) ==
    /\ status[r] = "INFLIGHT"
    /\ status' = [status EXCEPT ![r] = "PENDING"]
    /\ UNCHANGED <<attempts, pc, batch, published, failures, notified, unheard>>

ReapOrphan(r) ==
    /\ \A p \in Publishers : ~Holds(p, r)
    /\ Requeue(r)
    /\ UNCHANGED <<disturbed, disruptions>>

(* It fires on a replica that is slow, not dead. *)
ReapEarly(r) ==
    /\ \E p \in Publishers : Holds(p, r)
    /\ Disrupt
    /\ Requeue(r)
    /\ disturbed' = disturbed \cup {r}

-----------------------------------------------------------------------------
HandleRow(e, p) ==
    \/ PublishOk(e, p) \/ PublishFails(e, p)
    \/ MarkProcessed(e, p) \/ MarkProcessedThrows(e, p)
    \/ MarkFailed(e, p) \/ MarkFailedThrows(e, p)

PollStep(p) ==
    \/ Claim(p) \/ ClaimThrows(p) \/ CallerCatches(p)
    \/ \E e \in batch[p] : HandleRow(e, p)

Next ==
    \/ \E p \in Publishers : PollStep(p) \/ Crash(p)
    \/ \E r \in Rows : Append(r) \/ ReapOrphan(r) \/ ReapEarly(r)

Spec == Init /\ [][Next]_vars

(* The replicas and the reaper keep ticking and their calls return. *)
FairSpec ==
    /\ Spec
    /\ \A p \in Publishers : WF_vars(PollStep(p))
    /\ \A r \in Rows : WF_vars(ReapOrphan(r))

-----------------------------------------------------------------------------
(* No event is lost between the two systems: a row is PROCESSED only when  *)
(* the broker has it, whatever failed or was replayed on the way.          *)
ProcessedWasPublished ==
    \A r \in Rows : status[r] = "PROCESSED" => r \in published

(* A row is given up, and the dead-letter metric incremented, only when it *)
(* GENUINELY exhausted its budget: at least MaxAttempts tries threw, even  *)
(* if replicas worked on it with stale copies of its attempts.             *)
NoPrematureDeadLetter ==
    \A r \in Rows :
        status[r] = "FAILED_DLQ" \/ notified[r] > 0 => failures[r] = MaxAttempts

(* Competing replicas never work on the same row, unless its claim was     *)
(* reaped under one of them.                                               *)
SingleHolder ==
    \A p, q \in Publishers, r \in Rows :
        Holds(p, r) /\ Holds(q, r) => p = q \/ r \in disturbed

(* The dead-letter metric counts a row that has exhausted its budget       *)
(* exactly once: never twice unless a replica acted on a wrong view of the *)
(* row, never zero times unless the reply to the last markFailed was lost. *)
DeadLetterCountedOnce ==
    \A r \in Rows \ disturbed :
        /\ notified[r] <= 1
        /\ status[r] = "FAILED_DLQ" => notified[r] = 1 \/ r \in unheard

(* What outbox-publisher.ts:17 says of onDeadLetter, "called once per row  *)
(* that has just exhausted its budget", without the exception: a row given *)
(* up by a markFailed whose reply was lost is in no count.                 *)
DeadLetterAlwaysCounted ==
    \A r \in Rows : status[r] = "FAILED_DLQ" => notified[r] > 0

(* A settled row is never reopened, unless a replica acted on a wrong view *)
(* of it.                                                                  *)
SettledIsFinal ==
    [][\A r \in Rows \ disturbed :
          status[r] \in Settled => status'[r] = status[r]]_vars

(* Every appended event ends up published or dead-lettered, for good.      *)
EverythingSettles ==
    <>[](\A r \in Rows : status[r] \in Settled \cup {"absent"})

(* What cloud-event.ts:14-15 and eventing_patterns.md say of partitionkey: *)
(* the events of one aggregate keep their order.  The loop goes on after a *)
(* failed row, so a later event of the aggregate overtakes it.             *)
PerAggregateOrder ==
    \A q, r \in Rows :
        /\ q < r
        /\ AggregateOf(q) = AggregateOf(r)
        /\ r \in published
        => q \in published \/ status[q] = "FAILED_DLQ"
=============================================================================
