--------------------------- MODULE DeadLetterLoop ---------------------------
(***************************************************************************)
(* The loop that ResilientEventConsumer and DlqReplayConsumer              *)
(* (messaging/dlq-replay-consumer.ts) form: the first isolates a message   *)
(* in <topic>.DLQ, the second waits, republishes it to the original topic  *)
(* with a replay count in a header, and gives up once the count reaches    *)
(* maxReplays.  Several services run a replay group on the same DLQ topic. *)
(***************************************************************************)
EXTENDS ResilientConsumer

CONSTANTS
    Replayers,   (* replay groups, one member each *)
    MaxReplays,  (* opts.maxReplays of each group *)
    MaxLog       (* bound: length of the original topic *)

ASSUME ReplayAssumption ==
    /\ MaxReplays \in [Replayers -> Nat]
    /\ MaxLog \in Nat

VARIABLES
    rpc,         (* where each replay member stands in its eachMessage *)
    rposition,   (* its next offset in the DLQ *)
    rcommitted,  (* its group's committed offset in the DLQ, NoOffset if none *)
    rsince,      (* history: the first dead letter the group committed *)
    replayed,    (* history: republications of a message by a group, up to
                    one too many *)
    gaveUp       (* messages a group left in the DLQ for manual triage *)

replayVars == <<rpc, rposition, rcommitted, rsince, replayed, gaveUp>>
vars == <<consumerVars, replayVars>>

(* The variables of the replay groups hold values of their types. *)
ReplayTypeOK ==
    /\ rpc \in [Replayers -> {"down", "ready", "waiting", "commit"}]
    /\ rposition \in [Replayers -> Nat \ {0}]
    /\ rcommitted \in [Replayers -> Nat]
    /\ rsince \in [Replayers -> Nat]
    /\ replayed \in [Replayers -> [Ids -> Nat]]
    /\ \A g \in Replayers, id \in Ids : replayed[g][id] <= MaxReplays[g] + 1
    /\ gaveUp \in [Replayers -> SUBSET Ids]

(* The variables of the consumer and of the replay groups, together. *)
LoopTypeOK == TypeOK /\ ReplayTypeOK

(* Each replay group is new, or has committed before. *)
Init ==
    /\ ConsumerInit
    /\ rpc = [g \in Replayers |-> "down"]
    /\ rposition = [g \in Replayers |-> 1]
    /\ rcommitted \in [Replayers -> {NoOffset, 1}]
    /\ rsince = rcommitted
    /\ replayed = [g \in Replayers |-> [id \in Ids |-> 0]]
    /\ gaveUp = [g \in Replayers |-> {}]

-----------------------------------------------------------------------------
(* DlqReplayConsumer.start: it subscribes with fromBeginning: false too.   *)

(* Without a committed offset the subscription begins at the end. *)
ReplayStart(g) ==
    /\ rpc[g] = "down"
    /\ rpc' = [rpc EXCEPT ![g] = "ready"]
    /\ rposition' = [rposition EXCEPT ![g] =
           IF rcommitted[g] = NoOffset THEN Len(dlq) + 1 ELSE rcommitted[g]]
    /\ UNCHANGED <<consumerVars, rcommitted, rsince, replayed, gaveUp>>

(* eachMessage: the dead letter m at the member's position.  Its           *)
(* x-original-topic is always there, DeadLetterProducer sets it.           *)

Letter(g) == dlq[rposition[g]]

BudgetSpent(g) == Letter(g).replays >= MaxReplays[g]

GiveUp(g) ==
    /\ rpc[g] = "ready"
    /\ rposition[g] \in DOMAIN dlq
    /\ BudgetSpent(g)
    /\ gaveUp' = [gaveUp EXCEPT ![g] = @ \cup {Letter(g).id}]
    /\ rpc' = [rpc EXCEPT ![g] = "commit"]
    /\ UNCHANGED <<consumerVars, rposition, rcommitted, rsince, replayed>>

OffsetAfter(g) == rposition[g] + 1

StoreReplayOffset(g) ==
    /\ rcommitted' = [rcommitted EXCEPT ![g] = OffsetAfter(g)]
    /\ rsince' = [rsince EXCEPT ![g] = IF @ = NoOffset THEN rposition[g] ELSE @]

(* Mutated form: the offset is committed before the wait, so that the      *)
(* session of the group does not time out.                                 *)
CommittedBeforeWait(g) == StoreReplayOffset(g)

CommittedDuringWait(g) == UNCHANGED <<rcommitted, rsince>>

(* sleep(computeDelayMs) *)
Wait(g) ==
    /\ rpc[g] = "ready"
    /\ rposition[g] \in DOMAIN dlq
    /\ ~BudgetSpent(g)
    /\ rpc' = [rpc EXCEPT ![g] = "waiting"]
    /\ CommittedDuringWait(g)
    /\ UNCHANGED <<consumerVars, rposition, replayed, gaveUp>>

Republished(m) == [m EXCEPT !.replays = @ + 1]

Send(g) ==
    /\ log' = Append(log, Republished(Letter(g)))
    /\ replayed' = [replayed EXCEPT ![g][Letter(g).id] =
                       IF @ <= MaxReplays[g] THEN @ + 1 ELSE @]

Republish(g) ==
    /\ rpc[g] = "waiting"
    /\ Len(log) < MaxLog
    /\ Send(g)
    /\ rpc' = [rpc EXCEPT ![g] = "commit"]
    /\ UNCHANGED <<dlq, committed, pc, position, attempt, applied, since,
                   disruptions, rposition, rcommitted, rsince, gaveUp>>

ReplayCommit(g) ==
    /\ rpc[g] = "commit"
    /\ StoreReplayOffset(g)
    /\ rposition' = [rposition EXCEPT ![g] = @ + 1]
    /\ rpc' = [rpc EXCEPT ![g] = "ready"]
    /\ UNCHANGED <<consumerVars, replayed, gaveUp>>

(* The process dies, or a call throws, before or after it took effect. *)
ReplayFall(g) ==
    /\ rpc[g] # "down"
    /\ Disrupt
    /\ rpc' = [rpc EXCEPT ![g] = "down"]
    /\ \/ UNCHANGED <<log, replayed, rcommitted, rsince>>
       \/ /\ rpc[g] = "waiting"
          /\ Len(log) < MaxLog
          /\ Send(g)
          /\ UNCHANGED <<rcommitted, rsince>>
       \/ /\ rpc[g] = "commit"
          /\ StoreReplayOffset(g)
          /\ UNCHANGED <<log, replayed>>
    /\ UNCHANGED <<dlq, committed, pc, position, attempt, applied, since,
                   rposition, gaveUp>>

ReplayStep(g) ==
    \/ ReplayStart(g) \/ GiveUp(g) \/ Wait(g) \/ Republish(g)
    \/ ReplayCommit(g)

Next ==
    \/ ConsumerNext /\ UNCHANGED replayVars
    \/ \E g \in Replayers : ReplayStep(g) \/ ReplayFall(g)

Spec == Init /\ [][Next]_vars

(* The consumer restarts, and its calls return; nothing is asked of the    *)
(* replay groups.                                                          *)
FairSpec == Spec /\ WF_vars(ConsumerStep /\ UNCHANGED replayVars)

-----------------------------------------------------------------------------
AwaitsConsumer(id) == \E o \in DOMAIN log : log[o].id = id /\ o >= committed

AwaitsReplay(id, g) ==
    \E o \in DOMAIN dlq : dlq[o].id = id /\ o >= rcommitted[g]

(* Before its first commit a new group starts at the end each time. *)
Expected(id) ==
    \E o \in DOMAIN log : log[o].id = id /\ since # NoOffset /\ since <= o

ExpectedByReplay(id, g) ==
    \E o \in DOMAIN dlq : dlq[o].id = id /\ rsince[g] # NoOffset /\ rsince[g] <= o

(* A failing message is isolated, not lost: an event sent since the        *)
(* consumer's first commit has been applied, is still to be consumed, or   *)
(* is in the DLQ; and a replay group that has since its own first commit   *)
(* met a letter of it has it ahead or has given it up for manual triage,   *)
(* unless the event is back with the consumer.  No group relies on the     *)
(* others.                                                                 *)
EventNotLost ==
    \A id \in Ids :
        Expected(id) /\ KindOf(id) = "event" =>
            \/ id \in applied
            \/ AwaitsConsumer(id)
            \/ /\ DeadLettered(id)
               /\ \A g \in Replayers : ExpectedByReplay(id, g) =>
                      AwaitsReplay(id, g) \/ id \in gaveUp[g]

(* What the class comment (lines 51-53) and maxReplays (lines 20-22) say:  *)
(* the replays of a message are counted on the message, and end.  The      *)
(* count is lost when the message is dead-lettered again.                  *)
ReplayBudget ==
    \A g \in Replayers, id \in Ids : replayed[g][id] <= MaxReplays[g]
=============================================================================
