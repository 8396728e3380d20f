------------------------- MODULE ResilientConsumer -------------------------
(***************************************************************************)
(* ResilientEventConsumer (messaging/resilient-consumer.ts) of one group   *)
(* on one partition: eachMessage handles the messages one by one, retries  *)
(* the handler through EventRouter.route, dead-letters what cannot be      *)
(* handled and commits the offset itself.  The Kafka client and the        *)
(* dead-letter producer live in the services: they are modelled from how   *)
(* the loop uses them, and any of their calls may throw.  When eachMessage *)
(* throws, or the process dies, the client rejoins the group and resumes   *)
(* from the group's committed offset.                                      *)
(***************************************************************************)
EXTENDS Naturals, Sequences

CONSTANTS
    Ids,             (* the messages the producers send *)
    KindOf(_),       (* what the consumer makes of a message *)
    MaxRetries,      (* opts.maxRetries *)
    MaxDisruptions   (* bound: crashes and calls that throw *)

(* A "tombstone" has no value, a "poison" pill does not parse as an event, *)
(* an "unrouted" event has no handler in the router.                       *)
Kinds == {"tombstone", "poison", "unrouted", "event"}

ASSUME ConsumerAssumption ==
    /\ \A id \in Ids : KindOf(id) \in Kinds
    /\ MaxRetries \in Nat
    /\ MaxDisruptions \in Nat

VARIABLES
    log,          (* the partition, an append-only sequence of messages *)
    dlq,          (* the partition of <topic>.DLQ *)
    committed,    (* the group's committed offset, NoOffset if none *)
    pc,           (* where the member stands in eachMessage *)
    position,     (* the member's next offset *)
    attempt,      (* routeWithRetry's local *)
    applied,      (* messages whose handler succeeded *)
    since,        (* history: the first message the group committed *)
    disruptions

consumerVars == <<log, dlq, committed, pc, position, attempt, applied, since,
                  disruptions>>

(* Offsets count from 1, the next offset to consume is committed. *)
NoOffset == 0

(* The replays are the header of DlqReplayConsumer (x-dlq-replay-count);   *)
(* this consumer does not read headers.                                    *)
Messages == [id : Ids, replays : Nat]

(* The variables hold values of their types. *)
TypeOK ==
    /\ log \in Seq(Messages)
    /\ dlq \in Seq(Messages)
    /\ committed \in Nat
    /\ pc \in {"down", "ready", "route", "deadLetter", "commit"}
    /\ position \in Nat \ {0}
    /\ attempt \in 0..MaxRetries
    /\ applied \subseteq Ids
    /\ since \in Nat
    /\ disruptions \in 0..MaxDisruptions

(* The group is new, or has committed before. *)
ConsumerInit ==
    /\ log = <<>>
    /\ dlq = <<>>
    /\ committed \in {NoOffset, 1}
    /\ pc = "down"
    /\ position = 1
    /\ attempt = 0
    /\ applied = {}
    /\ since = committed
    /\ disruptions = 0

Disrupt ==
    /\ disruptions < MaxDisruptions
    /\ disruptions' = disruptions + 1

(* A publisher's send: the outbox of the producing service. *)
Produce(id) ==
    /\ \A o \in DOMAIN log : log[o].id # id
    /\ log' = Append(log, [id |-> id, replays |-> 0])
    /\ UNCHANGED <<dlq, committed, pc, position, attempt, applied, since,
                   disruptions>>

-----------------------------------------------------------------------------
(* start(): connect, subscribe with fromBeginning: false, run *)

End == Len(log) + 1

(* Without a committed offset the subscription begins at the end. *)
Start ==
    /\ pc = "down"
    /\ pc' = "ready"
    /\ position' = IF committed = NoOffset THEN End ELSE committed
    /\ attempt' = 0
    /\ UNCHANGED <<log, dlq, committed, applied, since, disruptions>>

-----------------------------------------------------------------------------
(* eachMessage *)

Current == log[position]

FirstStepOf(kind) ==
    CASE kind = "tombstone" -> "commit"
      [] kind = "poison" -> "deadLetter"
      [] OTHER -> "route"

Receive ==
    /\ pc = "ready"
    /\ position \in DOMAIN log
    /\ pc' = FirstStepOf(KindOf(Current.id))
    /\ UNCHANGED <<log, dlq, committed, position, attempt, applied, since,
                   disruptions>>

(* An unrouted event is skipped with a warning. *)
RouteSucceeds ==
    /\ pc = "route"
    /\ applied' = IF KindOf(Current.id) = "event"
                  THEN applied \cup {Current.id} ELSE applied
    /\ pc' = "commit"
    /\ UNCHANGED <<log, dlq, committed, position, attempt, since, disruptions>>

(* Mutated form: the message is dropped once its retries are spent. *)
AfterLastFailureDrop == "commit"

(* Mutated form: the error is thrown on, out of eachMessage. *)
AfterLastFailureRethrow == "down"

AfterLastFailure == "deadLetter"

(* Mutated form: one retry too many. *)
RetriesLeftOrNone == attempt <= MaxRetries

RetriesLeft == attempt < MaxRetries

(* The handler throws: routeWithRetry backs off and tries again, or gives  *)
(* the message up.                                                         *)
RouteFails ==
    /\ pc = "route"
    /\ KindOf(Current.id) = "event"
    /\ IF RetriesLeft
       THEN attempt' = attempt + 1 /\ UNCHANGED pc
       ELSE pc' = AfterLastFailure /\ UNCHANGED attempt
    /\ UNCHANGED <<log, dlq, committed, position, applied, since, disruptions>>

(* DeadLetterInput carries the key and the value but not the headers, so a *)
(* dead letter starts with no replay count.                                *)
DeadLetterOf(m) == [m EXCEPT !.replays = 0]

SendDeadLetter ==
    /\ pc = "deadLetter"
    /\ dlq' = Append(dlq, DeadLetterOf(Current))
    /\ pc' = "commit"
    /\ UNCHANGED <<log, committed, position, attempt, applied, since,
                   disruptions>>

StoreOffset ==
    /\ committed' = position + 1
    /\ since' = IF since = NoOffset THEN position ELSE since

(* commitOffsets, and eachMessage returns. *)
Commit ==
    /\ pc = "commit"
    /\ StoreOffset
    /\ position' = position + 1
    /\ attempt' = 0
    /\ pc' = "ready"
    /\ UNCHANGED <<log, dlq, applied, disruptions>>

(* The process dies, or deadLetter.send or commitOffsets throws out of     *)
(* eachMessage; the call may have taken effect.                            *)
Fall ==
    /\ pc # "down"
    /\ Disrupt
    /\ pc' = "down"
    /\ dlq' \in IF pc = "deadLetter"
                THEN {dlq, Append(dlq, DeadLetterOf(Current))} ELSE {dlq}
    /\ \/ UNCHANGED <<committed, since>>
       \/ pc = "commit" /\ StoreOffset
    /\ UNCHANGED <<log, position, attempt, applied>>

ConsumerStep ==
    \/ Start \/ Receive \/ RouteSucceeds \/ RouteFails
    \/ SendDeadLetter \/ Commit

ConsumerNext == ConsumerStep \/ Fall \/ \E id \in Ids : Produce(id)

-----------------------------------------------------------------------------
DeadLettered(id) == \E o \in DOMAIN dlq : dlq[o].id = id

Handled(id) ==
    \/ KindOf(id) \in {"tombstone", "unrouted"}
    \/ KindOf(id) = "event" /\ id \in applied
    \/ KindOf(id) \in {"poison", "event"} /\ DeadLettered(id)

(* At-least-once: every message from the first one the group committed, up *)
(* to its committed offset, was applied or isolated in the DLQ.  (Before   *)
(* its first commit a new group starts at the end each time.)              *)
NothingSkipped ==
    \A o \in DOMAIN log :
        since # NoOffset /\ since <= o /\ o < committed => Handled(log[o].id)

Arrived(id) == \E o \in DOMAIN log : log[o].id = id
Passed(id) ==
    pc = "ready" /\ \E o \in DOMAIN log : log[o].id = id /\ o < position

(* The partition never stalls behind one bad message: the group gets past  *)
(* every message, whatever its handler does.                               *)
NeverStalls == \A id \in Ids : Arrived(id) ~> Passed(id)

-----------------------------------------------------------------------------
Group == INSTANCE AtLeastOnce WITH
    Messages <- Ids,
    Exempt <- {id \in Ids : KindOf(id) \in {"tombstone", "unrouted"}},
    log <- [o \in DOMAIN log |-> log[o].id],
    handled <- {id \in Ids : Handled(id)},
    frontier <- committed

(* At-least-once, as the group's side of the contract: the committed       *)
(* offset moves one message at a time, past messages that are handled, and *)
(* never back, whatever crashes, throws or is sent again.                  *)
ImplementsAtLeastOnce == Group!Spec
=============================================================================
