----------------------- MODULE DeadLetterLoop_proofs -----------------------
(***************************************************************************)
(* Safety of the consumer and of the loop it forms with the replay groups, *)
(* for every set of messages, every number of replay groups and every      *)
(* budget of retries, replays and disruptions.                             *)
(***************************************************************************)
EXTENDS DeadLetterLoop, SequenceTheorems, TLAPS

(* Where the member stands: at the committed offset, if there is one, on a *)
(* message of a kind that leads there; at the commit, the message has been *)
(* handled.                                                                *)
MemberInv ==
    /\ committed = NoOffset <=> since = NoOffset
    /\ committed <= Len(log) + 1
    /\ pc # "down" =>
          /\ position <= Len(log) + 1
          /\ committed # NoOffset => position = committed
    /\ pc \in {"route", "deadLetter", "commit"} => position <= Len(log)
    /\ pc = "route" => KindOf(Current.id) \in {"unrouted", "event"}
    /\ pc = "deadLetter" => KindOf(Current.id) \in {"poison", "event"}
    /\ pc = "commit" => Handled(Current.id)

ConsumerInv == TypeOK /\ MemberInv /\ NothingSkipped

-----------------------------------------------------------------------------
(* A partition that grows by at most one message keeps what it has. *)
Grows(s, t) == t = s \/ \E m \in Messages : t = Append(s, m)

LEMMA GrownPartition ==
    ASSUME NEW s \in Seq(Messages), NEW t, Grows(s, t)
    PROVE  /\ t \in Seq(Messages)
           /\ Len(s) \in Nat /\ Len(t) \in Nat
           /\ Len(s) <= Len(t) /\ Len(t) <= Len(s) + 1
           /\ DOMAIN s = 1..Len(s) /\ DOMAIN t = 1..Len(t)
           /\ \A o \in DOMAIN s : o \in DOMAIN t /\ t[o] = s[o]
<1>1. CASE t = s
  BY <1>1, LenProperties
<1>2. ASSUME NEW m \in Messages, t = Append(s, m)
      PROVE  /\ t \in Seq(Messages)
             /\ Len(t) = Len(s) + 1
             /\ \A o \in 1..Len(s) : t[o] = s[o]
  BY <1>2, AppendProperties
<1>3. Len(s) \in Nat /\ DOMAIN s = 1..Len(s)
  BY LenProperties
<1>4. CASE \E m \in Messages : t = Append(s, m)
  <2>1. t \in Seq(Messages) /\ Len(t) = Len(s) + 1 /\ \A o \in 1..Len(s) : t[o] = s[o]
    BY <1>2, <1>4
  <2>2. Len(t) \in Nat /\ DOMAIN t = 1..Len(t)
    BY <2>1, LenProperties
  <2> QED
    BY <1>3, <2>1, <2>2
<1> QED
  BY <1>1, <1>4 DEF Grows

(* What was handled stays handled. *)
LEMMA HandledStays ==
    ASSUME dlq \in Seq(Messages), Grows(dlq, dlq'), applied \subseteq applied',
           NEW id, Handled(id)
    PROVE  Handled(id)'
<1>1. DeadLettered(id) => DeadLettered(id)'
  <2>1. \A o \in DOMAIN dlq : o \in DOMAIN dlq' /\ dlq'[o] = dlq[o]
    BY GrownPartition
  <2> QED
    BY <2>1 DEF DeadLettered
<1>2. id \in applied => id \in applied'
  OBVIOUS
<1> QED
  BY <1>1, <1>2 DEF Handled

-----------------------------------------------------------------------------
(* At first there is nothing to skip. *)
LEMMA ConsumerInitInv == ConsumerInit => ConsumerInv
BY ConsumerAssumption, EmptySeq
DEF ConsumerInit, ConsumerInv, TypeOK, MemberInv, NothingSkipped, NoOffset

(* A step that commits nothing: the partitions may grow, more may have     *)
(* been applied.                                                           *)
LEMMA NothingCommitted ==
    ASSUME ConsumerInv,
           Grows(log, log'), Grows(dlq, dlq'), applied \subseteq applied',
           UNCHANGED <<committed, since>>
    PROVE  NothingSkipped'
<1>1. /\ log \in Seq(Messages) /\ dlq \in Seq(Messages)
      /\ committed \in Nat /\ since \in Nat
      /\ committed <= Len(log) + 1 /\ NothingSkipped
  BY DEF ConsumerInv, TypeOK, MemberInv
<1> SUFFICES ASSUME NEW o \in DOMAIN log',
                    since # NoOffset, since <= o, o < committed
             PROVE  Handled(log[o].id)'
  BY DEF NothingSkipped
<1>2. o \in DOMAIN log /\ log'[o] = log[o]
  BY <1>1, GrownPartition
<1>3. Handled(log[o].id)
  BY <1>1, <1>2 DEF NothingSkipped
<1> QED
  BY <1>1, <1>2, <1>3, HandledStays

(* The commit of a handled message. *)
LEMMA CurrentCommitted ==
    ASSUME ConsumerInv, pc = "commit", StoreOffset,
           UNCHANGED <<log, dlq, applied>>
    PROVE  NothingSkipped'
<1>1. /\ position <= Len(log) /\ position \in Nat \ {0}
      /\ committed \in Nat /\ since \in Nat
      /\ committed = NoOffset <=> since = NoOffset
      /\ committed # NoOffset => position = committed
      /\ Handled(Current.id) /\ NothingSkipped
  BY DEF ConsumerInv, TypeOK, MemberInv
<1> SUFFICES ASSUME NEW o \in DOMAIN log,
                    since' # NoOffset, since' <= o, o < committed'
             PROVE  Handled(log[o].id)
  BY DEF NothingSkipped, Handled, DeadLettered
<1>2. o \in Nat
  BY LenProperties DEF ConsumerInv, TypeOK
<1>3. CASE o = position
  BY <1>1, <1>3 DEF Current
<1>4. CASE o # position
  <2>1. since' = since /\ since # NoOffset /\ o < committed
    BY <1>1, <1>2, <1>4 DEF StoreOffset, NoOffset
  <2> QED
    BY <1>1, <2>1 DEF NothingSkipped
<1> QED
  BY <1>3, <1>4

(* The other members of the system only make the partition grow. *)
LEMMA PartitionGrows ==
    ASSUME ConsumerInv, Grows(log, log'),
           UNCHANGED <<dlq, committed, pc, position, attempt, applied, since>>,
           disruptions' \in 0..MaxDisruptions
    PROVE  ConsumerInv'
<1>1. TypeOK /\ MemberInv /\ NothingSkipped
  BY DEF ConsumerInv
<1>2. /\ log' \in Seq(Messages)
      /\ Len(log) \in Nat /\ Len(log') \in Nat /\ Len(log) <= Len(log')
      /\ DOMAIN log = 1..Len(log)
      /\ \A o \in DOMAIN log : o \in DOMAIN log' /\ log'[o] = log[o]
  BY <1>1, GrownPartition DEF TypeOK
<1>3. TypeOK'
  BY <1>1, <1>2 DEF TypeOK
<1>4. pc \in {"route", "deadLetter", "commit"} => Current' = Current
  BY <1>1, <1>2 DEF Current, MemberInv, TypeOK
<1>5. \A id : Handled(id)' <=> Handled(id)
  BY DEF Handled, DeadLettered
<1>6. MemberInv'
  BY <1>1, <1>2, <1>4, <1>5 DEF MemberInv, TypeOK
<1>7. NothingSkipped'
  BY NothingCommitted DEF Grows
<1> QED
  BY <1>3, <1>6, <1>7 DEF ConsumerInv

(* Dead letters and produced messages are messages. *)
LEMMA SentMessages ==
    /\ \A id \in Ids : [id |-> id, replays |-> 0] \in Messages
    /\ \A m \in Messages : /\ DeadLetterOf(m) \in Messages
                           /\ DeadLetterOf(m).id = m.id
                           /\ Republished(m) \in Messages
                           /\ Republished(m).id = m.id
BY DEF Messages, DeadLetterOf, Republished

(* The steps of the member keep the invariant. *)
LEMMA ConsumerStepInv == ConsumerInv /\ [ConsumerNext]_consumerVars => ConsumerInv'
<1> SUFFICES ASSUME ConsumerInv, [ConsumerNext]_consumerVars
             PROVE  ConsumerInv'
  OBVIOUS
<1>0. /\ TypeOK /\ MemberInv /\ NothingSkipped
      /\ log \in Seq(Messages) /\ dlq \in Seq(Messages)
      /\ Len(log) \in Nat /\ DOMAIN log = 1..Len(log)
      /\ MaxRetries \in Nat
  BY LenProperties, ConsumerAssumption DEF ConsumerInv, TypeOK
<1>1. position \in DOMAIN log => /\ Current \in Messages
                                 /\ Current.id \in Ids
                                 /\ KindOf(Current.id) \in Kinds
  <2> SUFFICES ASSUME position \in 1..Len(log)
               PROVE  /\ Current \in Messages
                      /\ Current.id \in Ids
                      /\ KindOf(Current.id) \in Kinds
    BY <1>0
  <2>1. Current \in Messages
    BY <1>0, ElementOfSeq DEF Current
  <2>2. Current.id \in Ids
    BY <2>1 DEF Messages
  <2> QED
    BY <2>1, <2>2, ConsumerAssumption
<1>2. UNCHANGED <<log, dlq, committed, applied, since>> => NothingSkipped'
  BY NothingCommitted DEF Grows
<1>3. CASE Start
  <2>1. TypeOK'
    BY <1>0, <1>3 DEF Start, TypeOK, NoOffset, End
  <2>2. MemberInv'
    BY <1>0, <1>3 DEF Start, MemberInv, TypeOK, NoOffset, End
  <2> QED
    BY <1>2, <1>3, <2>1, <2>2 DEF Start, ConsumerInv
<1>4. CASE Receive
  <2>1. TypeOK' /\ Current' = Current
    BY <1>0, <1>4 DEF Receive, TypeOK, FirstStepOf, Current
  <2>2. MemberInv'
    BY <1>0, <1>1, <1>4, <2>1
    DEF Receive, MemberInv, FirstStepOf, Handled, DeadLettered, Kinds
  <2> QED
    BY <1>2, <1>4, <2>1, <2>2 DEF Receive, ConsumerInv
<1>5. CASE RouteSucceeds
  <2>1. Current.id \in Ids
    BY <1>0, <1>1, <1>5 DEF RouteSucceeds, MemberInv, TypeOK
  <2>2. TypeOK' /\ Current' = Current
    BY <1>0, <1>5, <2>1 DEF RouteSucceeds, TypeOK, Current
  <2>3. Handled(Current.id)'
    BY <1>0, <1>5, <2>2 DEF RouteSucceeds, MemberInv, Handled
  <2>4. MemberInv'
    BY <1>0, <1>5, <2>2, <2>3 DEF RouteSucceeds, MemberInv
  <2>5. NothingSkipped'
    BY <1>5, NothingCommitted DEF RouteSucceeds, Grows
  <2> QED
    BY <2>2, <2>4, <2>5 DEF ConsumerInv
<1>6. CASE RouteFails
  <2>1. TypeOK' /\ Current' = Current
    BY <1>0, <1>6 DEF RouteFails, TypeOK, RetriesLeft, AfterLastFailure, Current
  <2>2. MemberInv'
    BY <1>0, <1>6, <2>1 DEF RouteFails, MemberInv, AfterLastFailure, Handled,
                            DeadLettered
  <2> QED
    BY <1>2, <1>6, <2>1, <2>2 DEF RouteFails, ConsumerInv
<1>7. CASE SendDeadLetter
  <2>1. position \in DOMAIN log
    BY <1>0, <1>7 DEF SendDeadLetter, MemberInv, TypeOK
  <2>2. Grows(dlq, dlq') /\ DeadLetterOf(Current) \in Messages
    BY <1>1, <1>7, <2>1, SentMessages DEF SendDeadLetter, Grows
  <2>3. TypeOK' /\ Current' = Current
    BY <1>0, <1>7, <2>2, AppendProperties DEF SendDeadLetter, TypeOK, Current
  <2>4. DeadLettered(Current.id)'
    <3>1. /\ Len(dlq') = Len(dlq) + 1 /\ dlq'[Len(dlq) + 1] = DeadLetterOf(Current)
          /\ Len(dlq) \in Nat /\ DOMAIN dlq' = 1..Len(dlq')
      BY <1>0, <1>7, <2>2, <2>3, AppendProperties, LenProperties
      DEF SendDeadLetter, TypeOK
    <3>2. dlq'[Len(dlq) + 1].id = Current.id /\ Len(dlq) + 1 \in DOMAIN dlq'
      BY <1>1, <2>1, <3>1, SentMessages
    <3> QED
      BY <2>3, <3>2 DEF DeadLettered
  <2>5. MemberInv'
    BY <1>0, <1>7, <2>3, <2>4 DEF SendDeadLetter, MemberInv, Handled
  <2>6. NothingSkipped'
    BY <1>7, <2>2, NothingCommitted DEF SendDeadLetter, Grows
  <2> QED
    BY <2>3, <2>5, <2>6 DEF ConsumerInv
<1>8. CASE Commit
  <2>1. TypeOK'
    BY <1>0, <1>8 DEF Commit, StoreOffset, TypeOK, NoOffset
  <2>2. MemberInv'
    BY <1>0, <1>8 DEF Commit, StoreOffset, MemberInv, TypeOK, NoOffset
  <2>3. NothingSkipped'
    BY <1>8, CurrentCommitted DEF Commit
  <2> QED
    BY <2>1, <2>2, <2>3 DEF ConsumerInv
<1>9. CASE Fall
  <2>1. /\ Grows(dlq, dlq') /\ dlq' \in Seq(Messages)
        /\ pc = "commit" => dlq' = dlq
    <3>1. pc = "deadLetter" => DeadLetterOf(Current) \in Messages
      BY <1>0, <1>1, SentMessages DEF MemberInv, TypeOK
    <3> QED
      BY <1>0, <1>9, <3>1, AppendProperties DEF Fall, Grows
  <2>2. TypeOK'
    BY <1>0, <1>9, <2>1, ConsumerAssumption
    DEF Fall, Disrupt, StoreOffset, TypeOK, NoOffset
  <2>3. MemberInv'
    BY <1>0, <1>9 DEF Fall, StoreOffset, MemberInv, TypeOK, NoOffset
  <2>4. CASE UNCHANGED <<committed, since>>
    BY <1>9, <2>1, <2>2, <2>3, <2>4, NothingCommitted DEF Fall, ConsumerInv, Grows
  <2>5. CASE pc = "commit" /\ StoreOffset
    BY <1>9, <2>1, <2>2, <2>3, <2>5, CurrentCommitted DEF Fall, ConsumerInv
  <2> QED
    BY <1>9, <2>4, <2>5 DEF Fall
<1>10. ASSUME NEW id \in Ids, Produce(id)
       PROVE  ConsumerInv'
  <2>1. Grows(log, log')
    BY <1>10, SentMessages DEF Produce, Grows
  <2> QED
    BY <1>0, <1>10, <2>1, PartitionGrows DEF Produce, TypeOK
<1>11. CASE UNCHANGED consumerVars
  BY <1>0, <1>11, PartitionGrows DEF consumerVars, Grows, TypeOK
<1> QED
  BY <1>3, <1>4, <1>5, <1>6, <1>7, <1>8, <1>9, <1>10, <1>11
  DEF ConsumerNext, ConsumerStep

-----------------------------------------------------------------------------
(* The replay groups *)

(* The invariant of a replay member: it stands at its committed offset, if *)
(* there is one, and on a dead letter once it works on one.                *)
ReplayMemberInv(g) ==
    /\ rcommitted[g] = NoOffset <=> rsince[g] = NoOffset
    /\ rcommitted[g] <= Len(dlq) + 1
    /\ rpc[g] # "down" =>
          /\ rposition[g] <= Len(dlq) + 1
          /\ rcommitted[g] # NoOffset => rposition[g] = rcommitted[g]
    /\ rpc[g] \in {"waiting", "commit"} => rposition[g] <= Len(dlq)

LoopTypes ==
    ConsumerInv /\ ReplayTypeOK /\ \A g \in Replayers : ReplayMemberInv(g)

LEMMA LoopInitTypes == Init => LoopTypes
<1> SUFFICES ASSUME Init
             PROVE  LoopTypes
  OBVIOUS
<1>1. ConsumerInv /\ Len(dlq) = 0
  BY ConsumerInitInv, EmptySeq DEF Init, ConsumerInit
<1>2. /\ rcommitted \in [Replayers -> {NoOffset, 1}] /\ rsince = rcommitted
      /\ \A g \in Replayers : rcommitted[g] \in {0, 1}
  BY DEF Init, NoOffset
<1>3. ReplayTypeOK
  BY <1>2, ReplayAssumption DEF Init, ReplayTypeOK, NoOffset
<1>4. \A g \in Replayers : ReplayMemberInv(g)
  BY <1>1, <1>2 DEF Init, ReplayMemberInv, NoOffset
<1> QED
  BY <1>1, <1>3, <1>4 DEF LoopTypes

(* The letter a member works on, and its republication. *)
LEMMA LetterSent ==
    ASSUME LoopTypes, NEW g \in Replayers, rposition[g] <= Len(dlq)
    PROVE  /\ Letter(g).id \in Ids
           /\ Send(g) =>
                 /\ Republished(Letter(g)) \in Messages
                 /\ Republished(Letter(g)).id = Letter(g).id
                 /\ Grows(log, log')
                 /\ replayed' \in [Replayers -> [Ids -> Nat]]
                 /\ \A h \in Replayers, id \in Ids :
                       replayed'[h][id] <= MaxReplays[h] + 1
<1>1. /\ dlq \in Seq(Messages) /\ rposition[g] \in 1..Len(dlq)
      /\ replayed \in [Replayers -> [Ids -> Nat]]
      /\ \A h \in Replayers, id \in Ids : replayed[h][id] <= MaxReplays[h] + 1
      /\ \A h \in Replayers : MaxReplays[h] \in Nat
  BY LenProperties, ReplayAssumption
  DEF LoopTypes, ConsumerInv, TypeOK, ReplayTypeOK
<1>2. Letter(g) \in Messages
  BY <1>1, ElementOfSeq DEF Letter
<1>3. Letter(g).id \in Ids
  BY <1>2 DEF Messages
<1>4. ASSUME Send(g)
      PROVE  /\ replayed' \in [Replayers -> [Ids -> Nat]]
             /\ \A h \in Replayers, id \in Ids :
                   replayed'[h][id] <= MaxReplays[h] + 1
  BY <1>1, <1>3, <1>4 DEF Send
<1> QED
  BY <1>2, <1>3, <1>4, SentMessages DEF Send, Grows

(* A step of the consumer leaves the replay members where they stand, with *)
(* as many dead letters or more.                                           *)
LEMMA ConsumerGrows ==
    ConsumerInv /\ [ConsumerNext]_consumerVars =>
        Grows(log, log') /\ Grows(dlq, dlq') /\ applied \subseteq applied'
<1> SUFFICES ASSUME ConsumerInv, [ConsumerNext]_consumerVars
             PROVE  Grows(log, log') /\ Grows(dlq, dlq') /\ applied \subseteq applied'
  OBVIOUS
<1>1. pc = "deadLetter" => DeadLetterOf(Current) \in Messages
  <2> SUFFICES ASSUME pc = "deadLetter"
               PROVE  DeadLetterOf(Current) \in Messages
    OBVIOUS
  <2>1. log \in Seq(Messages) /\ position \in 1..Len(log)
    BY LenProperties DEF ConsumerInv, TypeOK, MemberInv
  <2> QED
    BY <2>1, ElementOfSeq, SentMessages DEF Current
<1> QED
  BY <1>1, SentMessages
  DEF ConsumerNext, ConsumerStep, Start, Receive, RouteSucceeds, RouteFails,
      SendDeadLetter, Commit, Fall, Produce, Grows, consumerVars

(* The steps of the loop keep the types. *)
LEMMA LoopStepTypes == LoopTypes /\ [Next]_vars => LoopTypes'
<1> SUFFICES ASSUME LoopTypes, [Next]_vars
             PROVE  LoopTypes'
  OBVIOUS
<1>0. /\ ConsumerInv /\ ReplayTypeOK
      /\ \A g \in Replayers : ReplayMemberInv(g)
      /\ log \in Seq(Messages) /\ dlq \in Seq(Messages)
      /\ Len(dlq) \in Nat
      /\ disruptions \in 0..MaxDisruptions /\ MaxDisruptions \in Nat
  BY LenProperties, ConsumerAssumption DEF LoopTypes, ConsumerInv, TypeOK
<1>1. CASE [ConsumerNext]_consumerVars /\ UNCHANGED replayVars
  <2>1. ConsumerInv'
    BY <1>0, <1>1, ConsumerStepInv
  <2>2. Len(dlq') \in Nat /\ Len(dlq) <= Len(dlq')
    BY <1>0, <1>1, ConsumerGrows, GrownPartition
  <2>3. ReplayTypeOK'
    BY <1>0, <1>1 DEF ReplayTypeOK, replayVars
  <2>4. \A g \in Replayers : ReplayMemberInv(g)'
    BY <1>0, <1>1, <2>2 DEF ReplayMemberInv, ReplayTypeOK, replayVars
  <2> QED
    BY <2>1, <2>3, <2>4 DEF LoopTypes
<1>2. ASSUME NEW g \in Replayers, ReplayStep(g) \/ ReplayFall(g)
      PROVE  LoopTypes'
  <2>1. /\ Grows(log, log')
        /\ disruptions' \in 0..MaxDisruptions
        /\ UNCHANGED <<dlq, committed, pc, position, attempt, applied, since>>
    BY <1>0, <1>2, LetterSent
    DEF ReplayStep, ReplayStart, GiveUp, Wait, Republish, ReplayCommit,
        ReplayFall, ReplayMemberInv, Disrupt, Grows, consumerVars
  <2>2. ConsumerInv'
    BY <1>0, <2>1, PartitionGrows
  <2>3. rpc[g] \in {"waiting", "commit"} => rposition[g] <= Len(dlq)
    BY <1>0 DEF ReplayMemberInv
  <2>4. /\ replayed' \in [Replayers -> [Ids -> Nat]]
        /\ \A h \in Replayers, id \in Ids : replayed'[h][id] <= MaxReplays[h] + 1
    BY <1>0, <1>2, <2>3, LetterSent
    DEF ReplayStep, ReplayStart, GiveUp, Wait, Republish, ReplayCommit,
        ReplayFall, ReplayTypeOK
  <2>5. gaveUp' \in [Replayers -> SUBSET Ids]
    <3>1. CASE GiveUp(g)
      <4>1. rposition[g] <= Len(dlq)
        BY <1>0, <3>1, LenProperties DEF GiveUp
      <4>2. Letter(g).id \in Ids
        BY <4>1, LetterSent
      <4> QED
        BY <1>0, <3>1, <4>2 DEF GiveUp, ReplayTypeOK
    <3> QED
      BY <1>0, <1>2, <3>1
      DEF ReplayStep, ReplayStart, Wait, Republish, ReplayCommit, ReplayFall,
          ReplayTypeOK
  <2>6. /\ rpc' \in [Replayers -> {"down", "ready", "waiting", "commit"}]
        /\ rposition' \in [Replayers -> Nat \ {0}]
        /\ rcommitted' \in [Replayers -> Nat]
        /\ rsince' \in [Replayers -> Nat]
    <3>1. rpc' \in [Replayers -> {"down", "ready", "waiting", "commit"}]
      BY <1>0, <1>2
      DEF ReplayStep, ReplayStart, GiveUp, Wait, Republish, ReplayCommit,
          ReplayFall, ReplayTypeOK
    <3>2. rposition' \in [Replayers -> Nat \ {0}]
      <4>1. /\ rposition \in [Replayers -> Nat \ {0}]
            /\ rposition[g] \in Nat \ {0} /\ rcommitted[g] \in Nat
        BY <1>0 DEF ReplayTypeOK
      <4>2. \/ rposition' = rposition
            \/ rposition' = [rposition EXCEPT ![g] =
                    IF rcommitted[g] = NoOffset THEN Len(dlq) + 1 ELSE rcommitted[g]]
            \/ rposition' = [rposition EXCEPT ![g] = rposition[g] + 1]
        BY <1>2
        DEF ReplayStep, ReplayStart, GiveUp, Wait, Republish, ReplayCommit,
            ReplayFall
      <4>3. /\ rposition[g] + 1 \in Nat \ {0}
            /\ IF rcommitted[g] = NoOffset
               THEN Len(dlq) + 1 \in Nat \ {0} ELSE rcommitted[g] \in Nat \ {0}
        BY <1>0, <4>1 DEF NoOffset
      <4> QED
        BY <4>1, <4>2, <4>3
    <3>3. rcommitted' \in [Replayers -> Nat] /\ rsince' \in [Replayers -> Nat]
      <4>1. /\ rcommitted \in [Replayers -> Nat] /\ rsince \in [Replayers -> Nat]
            /\ rposition[g] \in Nat /\ rsince[g] \in Nat
        BY <1>0 DEF ReplayTypeOK
      <4>2. UNCHANGED <<rcommitted, rsince>> \/ StoreReplayOffset(g)
        BY <1>2
        DEF ReplayStep, ReplayStart, GiveUp, Wait, CommittedDuringWait,
            Republish, ReplayCommit, ReplayFall
      <4>3. CASE StoreReplayOffset(g)
        BY <4>1, <4>3 DEF StoreReplayOffset, OffsetAfter
      <4> QED
        BY <4>1, <4>2, <4>3
    <3> QED
      BY <3>1, <3>2, <3>3
  <2>7. ASSUME NEW h \in Replayers
        PROVE  ReplayMemberInv(h)'
    <3>1. /\ ReplayMemberInv(g) /\ ReplayMemberInv(h)
          /\ rposition[h] \in Nat \ {0} /\ rcommitted[h] \in Nat /\ rsince[h] \in Nat
          /\ rposition[g] \in Nat \ {0} /\ rcommitted[g] \in Nat /\ rsince[g] \in Nat
          /\ DOMAIN dlq = 1..Len(dlq) /\ dlq' = dlq
      BY <1>0, <2>1, LenProperties DEF ReplayTypeOK
    <3>2. CASE h = g
      <4>1. CASE ReplayStart(g) \/ GiveUp(g) \/ Wait(g) \/ Republish(g)
        BY <1>0, <3>1, <3>2, <4>1
        DEF ReplayStart, GiveUp, Wait, CommittedDuringWait, Republish,
            ReplayTypeOK, ReplayMemberInv, NoOffset
      <4>2. CASE ReplayCommit(g)
        BY <1>0, <3>1, <3>2, <4>2
        DEF ReplayCommit, StoreReplayOffset, OffsetAfter, ReplayTypeOK,
            ReplayMemberInv, NoOffset
      <4>3. CASE ReplayFall(g)
        BY <1>0, <3>1, <3>2, <4>3
        DEF ReplayFall, StoreReplayOffset, OffsetAfter, ReplayTypeOK,
            ReplayMemberInv, NoOffset
      <4> QED
        BY <1>2, <4>1, <4>2, <4>3 DEF ReplayStep
    <3>3. CASE h # g
      <4>1. /\ rpc'[h] = rpc[h] /\ rposition'[h] = rposition[h]
            /\ rcommitted'[h] = rcommitted[h] /\ rsince'[h] = rsince[h]
        BY <1>0, <1>2, <3>3
        DEF ReplayStep, ReplayStart, GiveUp, Wait, CommittedDuringWait,
            Republish, ReplayCommit, ReplayFall, StoreReplayOffset, ReplayTypeOK
      <4> QED
        BY <3>1, <4>1 DEF ReplayMemberInv
    <3> QED
      BY <3>2, <3>3
  <2> QED
    BY <2>2, <2>4, <2>5, <2>6, <2>7 DEF LoopTypes, ReplayTypeOK
<1> QED
  BY <1>1, <1>2 DEF Next, vars, consumerVars, replayVars


-----------------------------------------------------------------------------
(* No event is lost *)

Ahead(s, id, o) == \E k \in DOMAIN s : s[k].id = id /\ k >= o

(* What each member has yet to read: the message it is about to commit is  *)
(* behind it already.                                                      *)
NextRead == IF pc = "commit" THEN position + 1 ELSE committed

NextLetter(g) == IF rpc[g] = "commit" THEN rposition[g] + 1 ELSE rcommitted[g]

(* An event is due once the group has reached it, or will: the one the     *)
(* member is about to commit as its first is due as well.                  *)
Due(id) ==
    /\ KindOf(id) = "event"
    /\ Expected(id) \/ (pc = "commit" /\ id = Current.id)

(* What a replay group answers for: the letters it has met since its first *)
(* commit, and the one it is about to commit.                              *)
Owed(id, g) ==
    ExpectedByReplay(id, g) \/ (rpc[g] = "commit" /\ id = Letter(g).id)

Kept(id, g) == Owed(id, g) => Ahead(dlq, id, NextLetter(g)) \/ id \in gaveUp[g]

Safe(id) ==
    \/ id \in applied
    \/ Ahead(log, id, NextRead)
    \/ DeadLettered(id) /\ \A g \in Replayers : Kept(id, g)

DueIsSafe == \A id \in Ids : Due(id) => Safe(id)

LoopInv == LoopTypes /\ DueIsSafe

(* What is ahead stays ahead, in a partition that grows, of a member that  *)
(* does not move on.                                                       *)
LEMMA AheadStays ==
    ASSUME NEW s \in Seq(Messages), NEW t, Grows(s, t), NEW id,
           NEW o \in Nat, NEW p \in Nat, p <= o, Ahead(s, id, o)
    PROVE  Ahead(t, id, p)
<1>1. PICK k \in DOMAIN s : s[k].id = id /\ k >= o
  BY DEF Ahead
<1>2. k \in DOMAIN t /\ t[k] = s[k] /\ k \in Nat
  BY GrownPartition
<1> QED
  BY <1>1, <1>2 DEF Ahead

(* A message just sent is ahead of every member. *)
LEMMA SentIsAhead ==
    ASSUME NEW s \in Seq(Messages), NEW m \in Messages,
           NEW o \in Nat, o <= Len(s) + 1
    PROVE  Ahead(Append(s, m), m.id, o)
<1>1. /\ Append(s, m) \in Seq(Messages) /\ Len(s) \in Nat
      /\ Len(Append(s, m)) = Len(s) + 1
      /\ Append(s, m)[Len(s) + 1] = m
      /\ DOMAIN Append(s, m) = 1..Len(Append(s, m))
  BY AppendProperties, LenProperties
<1> QED
  BY <1>1 DEF Ahead

(* The offsets the members go on from. *)
LEMMA NextOffsets ==
    LoopTypes =>
        /\ NextRead \in Nat /\ committed \in Nat
        /\ committed <= NextRead /\ NextRead <= Len(log) + 1
        /\ \A g \in Replayers :
              /\ NextLetter(g) \in Nat /\ rcommitted[g] \in Nat
              /\ rcommitted[g] <= NextLetter(g)
              /\ NextLetter(g) <= Len(dlq) + 1
<1> HAVE LoopTypes
<1>1. /\ TypeOK /\ MemberInv /\ ReplayTypeOK
      /\ \A g \in Replayers : ReplayMemberInv(g)
      /\ Len(log) \in Nat /\ Len(dlq) \in Nat
  BY LenProperties DEF LoopTypes, ConsumerInv, TypeOK
<1>2. /\ NextRead \in Nat /\ committed \in Nat
      /\ committed <= NextRead /\ NextRead <= Len(log) + 1
  BY <1>1 DEF TypeOK, MemberInv, NextRead, NoOffset
<1>3. ASSUME NEW g \in Replayers
      PROVE  /\ NextLetter(g) \in Nat /\ rcommitted[g] \in Nat
             /\ rcommitted[g] <= NextLetter(g)
             /\ NextLetter(g) <= Len(dlq) + 1
  <2>1. /\ rposition[g] \in Nat /\ rcommitted[g] \in Nat
        /\ ReplayMemberInv(g)
    BY <1>1 DEF ReplayTypeOK
  <2> QED
    BY <1>1, <2>1 DEF ReplayMemberInv, NextLetter, NoOffset
<1> QED
  BY <1>2, <1>3

OffsetsAreNumbers ==
    NextRead \in Nat /\ \A g \in Replayers : NextLetter(g) \in Nat

LEMMA NumericOffsets == LoopTypes => OffsetsAreNumbers
BY NextOffsets DEF OffsetsAreNumbers

(* A consumer that does not move on keeps what is safe safe, if each       *)
(* replay group keeps what it answers for or sends it again.               *)
LEMMA SafeStays ==
    ASSUME LoopTypes, LoopTypes', Grows(log, log'), Grows(dlq, dlq'),
           applied \subseteq applied', NEW id \in Ids,
           NextRead' <= NextRead,
           \A g \in Replayers :
               Kept(id, g) => Kept(id, g)' \/ Ahead(log', id, NextRead'),
           Safe(id)
    PROVE  Safe(id)'
<1>1. /\ log \in Seq(Messages) /\ dlq \in Seq(Messages)
      /\ NextRead \in Nat /\ NextRead' \in Nat
  <2>1. log \in Seq(Messages) /\ dlq \in Seq(Messages)
    BY DEF LoopTypes, ConsumerInv, TypeOK
  <2>2. NextRead \in Nat
    BY NextOffsets
  <2>3. LoopTypes' => OffsetsAreNumbers'
    BY NumericOffsets, PTL
  <2> QED
    BY <2>1, <2>2, <2>3 DEF OffsetsAreNumbers
<1>2. Ahead(log, id, NextRead) => Ahead(log', id, NextRead')
  BY <1>1, AheadStays
<1>3. DeadLettered(id) => DeadLettered(id)'
  <2>1. \A o \in DOMAIN dlq : o \in DOMAIN dlq' /\ dlq'[o] = dlq[o]
    BY <1>1, GrownPartition
  <2> QED
    BY <2>1 DEF DeadLettered
<1> QED
  BY <1>2, <1>3 DEF Safe

(* New dead letters are ahead of every replay group. *)
LEMMA KeptStays ==
    ASSUME LoopTypes, Grows(dlq, dlq'), UNCHANGED replayVars,
           NEW id \in Ids, NEW g \in Replayers, Kept(id, g)
    PROVE  Kept(id, g)'
<1>1. /\ dlq \in Seq(Messages) /\ Len(dlq) \in Nat
      /\ NextLetter(g) \in Nat /\ NextLetter(g) <= Len(dlq) + 1
      /\ NextLetter(g)' = NextLetter(g)
      /\ rposition[g] \in Nat \ {0}
      /\ rpc[g] = "commit" => rposition[g] <= Len(dlq)
  BY NextOffsets, LenProperties
  DEF LoopTypes, ConsumerInv, TypeOK, ReplayTypeOK, ReplayMemberInv, NextLetter,
      replayVars
<1>2. /\ DOMAIN dlq = 1..Len(dlq) /\ DOMAIN dlq' = 1..Len(dlq')
      /\ Len(dlq') \in Nat
      /\ \A o \in DOMAIN dlq : o \in DOMAIN dlq' /\ dlq'[o] = dlq[o]
  BY <1>1, GrownPartition
<1> SUFFICES ASSUME Owed(id, g)'
             PROVE  Ahead(dlq', id, NextLetter(g)) \/ id \in gaveUp[g]
  BY <1>1 DEF Kept, replayVars
<1>3. CASE Owed(id, g)
  <2>1. Ahead(dlq, id, NextLetter(g)) => Ahead(dlq', id, NextLetter(g))
    BY <1>1, AheadStays
  <2> QED
    BY <1>3, <2>1 DEF Kept
<1>4. CASE ~Owed(id, g)
  <2>1. ~(rpc[g] = "commit" /\ id = Letter(g)'.id)
    BY <1>1, <1>2, <1>4 DEF Owed, Letter, replayVars
  <2>2. PICK o \in DOMAIN dlq' : /\ dlq'[o].id = id
                                 /\ rsince[g] # NoOffset /\ rsince[g] <= o
    BY <2>1 DEF Owed, ExpectedByReplay, replayVars
  <2>3. o \notin DOMAIN dlq
    BY <1>2, <1>4, <2>2 DEF Owed, ExpectedByReplay
  <2> QED
    BY <1>1, <1>2, <2>2, <2>3 DEF Ahead
<1> QED
  BY <1>3, <1>4

(* An event becomes due only by being sent, and is ahead then. *)
LEMMA DueCarries ==
    ASSUME LoopInv, LoopTypes', Grows(log, log'), since' = since,
           NextRead' <= NextRead,
           pc' = "commit" => pc = "commit" /\ position' = position,
           NEW id \in Ids, Safe(id) => Safe(id)', Due(id)'
    PROVE  Safe(id)'
<1>1. /\ log \in Seq(Messages) /\ Len(log) \in Nat /\ since \in Nat
      /\ NextRead \in Nat /\ NextRead <= Len(log) + 1
      /\ pc = "commit" => position \in Nat \ {0} /\ position <= Len(log)
  BY NextOffsets, LenProperties DEF LoopInv, LoopTypes, ConsumerInv, TypeOK, MemberInv
<1>2. NextRead' \in Nat
  <2>1. LoopTypes' => OffsetsAreNumbers'
    BY NumericOffsets, PTL
  <2> QED
    BY <2>1 DEF OffsetsAreNumbers
<1>3. /\ DOMAIN log = 1..Len(log) /\ DOMAIN log' = 1..Len(log')
      /\ Len(log') \in Nat /\ Len(log') <= Len(log) + 1
      /\ \A o \in DOMAIN log : o \in DOMAIN log' /\ log'[o] = log[o]
  BY <1>1, GrownPartition
<1>4. Due(id) => Safe(id)'
  BY DEF LoopInv, DueIsSafe
<1>5. CASE Expected(id)'
  <2>1. PICK o \in DOMAIN log' : /\ log'[o].id = id
                                 /\ since # NoOffset /\ since <= o
    BY <1>5 DEF Expected
  <2>2. CASE o \in DOMAIN log
    BY <1>3, <1>4, <2>1, <2>2 DEF Due, Expected
  <2>3. CASE o \notin DOMAIN log
    <3>1. o >= NextRead'
      BY <1>1, <1>2, <1>3, <2>3
    <3>2. Ahead(log', id, NextRead')
      BY <2>1, <3>1 DEF Ahead
    <3> QED
      BY <3>2 DEF Safe
  <2> QED
    BY <2>2, <2>3
<1>6. CASE pc' = "commit" /\ id = Current.id'
  <2>1. Current' = Current
    BY <1>1, <1>3, <1>6 DEF Current
  <2> QED
    BY <1>4, <1>6, <2>1 DEF Due
<1> QED
  BY <1>5, <1>6 DEF Due

(* The member gets past its message: the other events that are due are     *)
(* further on.                                                             *)
LEMMA DuePassed ==
    ASSUME LoopInv, LoopTypes', Grows(dlq, dlq'), applied \subseteq applied',
           UNCHANGED <<log, since, committed, position, replayVars>>,
           pc \notin {"down", "commit"}, pc' = "commit", position \in DOMAIN log,
           NEW id \in Ids, id # Current.id, Due(id)'
    PROVE  Safe(id)'
<1>1. /\ log \in Seq(Messages) /\ dlq \in Seq(Messages)
      /\ Len(log) \in Nat /\ DOMAIN log = 1..Len(log)
      /\ committed \in Nat /\ position \in Nat
      /\ (committed = NoOffset) <=> (since = NoOffset)
      /\ committed # NoOffset => position = committed
  BY LenProperties
  DEF LoopInv, LoopTypes, ConsumerInv, TypeOK, MemberInv
<1>2. KindOf(id) = "event" /\ Expected(id) /\ committed # NoOffset
  BY <1>1 DEF Due, Expected, Current
<1>3. Safe(id)
  BY <1>2 DEF LoopInv, DueIsSafe, Due
<1>4. Ahead(log, id, NextRead) => Ahead(log', id, NextRead')
  <2>1. SUFFICES ASSUME NEW k \in DOMAIN log, log[k].id = id, k >= committed
                 PROVE  k >= position + 1
    BY DEF Ahead, NextRead
  <2>2. k # position
    BY <2>1 DEF Current
  <2> QED
    BY <1>1, <1>2, <2>1, <2>2
<1>5. \A g \in Replayers : Kept(id, g) => Kept(id, g)'
  BY KeptStays DEF LoopInv
<1>6. DeadLettered(id) => DeadLettered(id)'
  <2>1. \A o \in DOMAIN dlq : o \in DOMAIN dlq' /\ dlq'[o] = dlq[o]
    BY <1>1, GrownPartition
  <2> QED
    BY <2>1 DEF DeadLettered
<1> QED
  BY <1>3, <1>4, <1>5, <1>6 DEF Safe

(* The commit: the message it is for was due already. *)
LEMMA DueCommitted ==
    ASSUME LoopInv, pc = "commit", StoreOffset, pc' # "commit",
           UNCHANGED <<log, dlq, applied, replayVars>>,
           NEW id \in Ids, Due(id)'
    PROVE  Safe(id)'
<1>1. /\ log \in Seq(Messages) /\ Len(log) \in Nat /\ DOMAIN log = 1..Len(log)
      /\ position \in Nat /\ since \in Nat
      /\ NextRead = position + 1 /\ NextRead' = position + 1
  BY LenProperties
  DEF LoopInv, LoopTypes, ConsumerInv, TypeOK, NextRead, StoreOffset
<1>2. PICK o \in DOMAIN log : /\ log[o].id = id /\ since' <= o
                              /\ KindOf(id) = "event"
  BY DEF Due, Expected
<1>3. Due(id) \/ Ahead(log, id, position + 1)
  <2>1. CASE since # NoOffset
    BY <1>2, <2>1 DEF Due, Expected, StoreOffset
  <2>2. CASE since = NoOffset /\ o = position
    BY <1>2, <2>2 DEF Due, Current
  <2>3. CASE since = NoOffset /\ o # position
    BY <1>1, <1>2, <2>3 DEF Ahead, StoreOffset
  <2> QED
    BY <2>1, <2>2, <2>3
<1>4. Due(id) => Safe(id)
  BY DEF LoopInv, DueIsSafe
<1>5. \A g \in Replayers : Kept(id, g) => Kept(id, g)'
  BY KeptStays DEF LoopInv, Grows
<1> QED
  BY <1>1, <1>3, <1>4, <1>5 DEF Safe, DeadLettered

(* The steps of the loop keep what is due safe. *)
LEMMA ConsumerKeepsDue ==
    ASSUME LoopInv, LoopTypes', [ConsumerNext]_consumerVars, UNCHANGED replayVars
    PROVE  DueIsSafe'
<1> SUFFICES ASSUME NEW id \in Ids, Due(id)'
             PROVE  Safe(id)'
  BY DEF DueIsSafe
<1>0. /\ LoopTypes /\ ConsumerInv
      /\ log \in Seq(Messages) /\ dlq \in Seq(Messages)
      /\ Len(log) \in Nat /\ DOMAIN log = 1..Len(log)
      /\ committed \in Nat /\ position \in Nat \ {0}
      /\ MemberInv
  BY LenProperties DEF LoopInv, LoopTypes, ConsumerInv, TypeOK
<1>1. Grows(log, log') /\ Grows(dlq, dlq') /\ applied \subseteq applied'
  BY <1>0, ConsumerGrows
<1>2. \A g \in Replayers : Kept(id, g) => Kept(id, g)'
  BY <1>0, <1>1, KeptStays
<1>3. NextRead' <= NextRead /\ Safe(id) => Safe(id)'
  BY <1>0, <1>1, <1>2, SafeStays
<1>4. ASSUME since' = since, NextRead' <= NextRead,
             pc' = "commit" => pc = "commit" /\ position' = position
      PROVE  Safe(id)'
  BY <1>1, <1>3, <1>4, DueCarries
<1>5. ASSUME UNCHANGED <<log, since, committed, position>>,
             pc \in {"ready", "route", "deadLetter"}, pc' = "commit",
             position \in DOMAIN log, id = Current.id => Safe(id)'
      PROVE  Safe(id)'
  BY <1>1, <1>5, DuePassed
<1>6. KindOf(id) = "event"
  BY DEF Due
<1>7. CASE Start
  BY <1>0, <1>4, <1>7 DEF Start, NextRead
<1>8. CASE Receive
  <2>1. CASE pc' = "commit"
    <3>1. id # Current.id
      BY <1>6, <1>8, <2>1 DEF Receive, FirstStepOf
    <3> QED
      BY <1>5, <1>8, <2>1, <3>1 DEF Receive
  <2>2. CASE pc' # "commit"
    BY <1>0, <1>4, <1>8, <2>2 DEF Receive, NextRead
  <2> QED
    BY <2>1, <2>2
<1>9. CASE RouteSucceeds
  <2>1. id = Current.id => Safe(id)'
    BY <1>6, <1>9 DEF RouteSucceeds, Safe
  <2> QED
    BY <1>0, <1>5, <1>9, <2>1 DEF RouteSucceeds, MemberInv
<1>10. CASE RouteFails
  BY <1>0, <1>4, <1>10 DEF RouteFails, AfterLastFailure, NextRead
<1>11. CASE SendDeadLetter
  <2>1. position \in 1..Len(log)
    BY <1>0, <1>11 DEF SendDeadLetter, MemberInv
  <2>2. DeadLetterOf(Current) \in Messages /\ DeadLetterOf(Current).id = Current.id
    BY <1>0, <2>1, ElementOfSeq, SentMessages DEF Current
  <2>3. \A g \in Replayers : Ahead(dlq', Current.id, NextLetter(g)')
    <3>1. TAKE g \in Replayers
    <3>2. NextLetter(g) \in Nat /\ NextLetter(g) <= Len(dlq) + 1
      BY <1>0, NextOffsets
    <3>3. NextLetter(g)' = NextLetter(g)
      BY DEF NextLetter, replayVars
    <3> QED
      BY <1>0, <1>11, <2>2, <3>2, <3>3, SentIsAhead DEF SendDeadLetter
  <2>4. \E o \in DOMAIN dlq' : dlq'[o].id = Current.id
    <3>1. /\ Len(dlq) \in Nat /\ dlq'[Len(dlq) + 1] = DeadLetterOf(Current)
          /\ DOMAIN dlq' = 1..(Len(dlq) + 1)
      BY <1>0, <1>11, <2>2, AppendProperties, LenProperties DEF SendDeadLetter
    <3> QED
      BY <2>2, <3>1
  <2>5. id = Current.id => Safe(id)'
    BY <2>3, <2>4 DEF Safe, Kept, DeadLettered
  <2> QED
    BY <1>0, <1>5, <1>11, <2>1, <2>5 DEF SendDeadLetter
<1>12. CASE Commit
  BY <1>12, DueCommitted DEF Commit
<1>13. CASE Fall
  <2>1. CASE UNCHANGED <<committed, since>>
    <3>1. NextRead' <= NextRead
      BY <1>0, <1>13, <2>1 DEF Fall, MemberInv, NextRead, NoOffset
    <3> QED
      BY <1>4, <1>13, <2>1, <3>1 DEF Fall
  <2>2. CASE pc = "commit" /\ StoreOffset
    BY <1>13, <2>2, DueCommitted DEF Fall
  <2> QED
    BY <1>13, <2>1, <2>2 DEF Fall
<1>14. CASE \E k \in Ids : Produce(k)
  BY <1>0, <1>4, <1>14, NextOffsets DEF Produce, NextRead
<1>15. CASE UNCHANGED consumerVars
  BY <1>0, <1>4, <1>15, NextOffsets DEF consumerVars, NextRead
<1> QED
  BY <1>7, <1>8, <1>9, <1>10, <1>11, <1>12, <1>13, <1>14, <1>15
  DEF ConsumerNext, ConsumerStep

(* A step of one replay group leaves the others what they answer for.      *)
LEMMA OthersKeep ==
    ASSUME LoopTypes, NEW h \in Replayers, ReplayStep(h) \/ ReplayFall(h),
           NEW g \in Replayers, g # h, NEW id \in Ids, Kept(id, g)
    PROVE  Kept(id, g)'
<1>1. ReplayTypeOK
  BY DEF LoopTypes
<1>2. /\ dlq' = dlq /\ rpc'[g] = rpc[g] /\ rposition'[g] = rposition[g]
      /\ rcommitted'[g] = rcommitted[g] /\ rsince'[g] = rsince[g]
      /\ gaveUp'[g] = gaveUp[g]
  BY <1>1
  DEF ReplayStep, ReplayStart, GiveUp, Wait, CommittedDuringWait, Republish,
      ReplayCommit, ReplayFall, StoreReplayOffset, ReplayTypeOK, consumerVars
<1> QED
  BY <1>2 DEF Kept, Owed, ExpectedByReplay, Letter, NextLetter, Ahead

(* A replay group that commits, or falls: it answers for no letter it did  *)
(* not answer for, except those ahead.                                     *)
LEMMA OwnLettersKept ==
    ASSUME LoopTypes, NEW g \in Replayers,
           ReplayStart(g) \/ Wait(g) \/ ReplayCommit(g) \/ ReplayFall(g),
           NEW id \in Ids, Kept(id, g)
    PROVE  Kept(id, g)'
<1>1. /\ ReplayMemberInv(g) /\ dlq \in Seq(Messages)
      /\ Len(dlq) \in Nat /\ DOMAIN dlq = 1..Len(dlq)
      /\ rpc \in [Replayers -> {"down", "ready", "waiting", "commit"}]
      /\ rposition \in [Replayers -> Nat \ {0}] /\ rposition[g] \in Nat \ {0}
      /\ rcommitted \in [Replayers -> Nat] /\ rcommitted[g] \in Nat
      /\ rsince \in [Replayers -> Nat] /\ rsince[g] \in Nat
  BY LenProperties DEF LoopTypes, ConsumerInv, TypeOK, ReplayTypeOK
<1>2. dlq' = dlq /\ gaveUp' = gaveUp
  BY DEF ReplayStart, Wait, ReplayCommit, ReplayFall, consumerVars
<1>3. CASE UNCHANGED <<rcommitted, rsince>> /\ rpc'[g] # "commit"
  <2>1. NextLetter(g)' <= NextLetter(g)
    BY <1>1, <1>3 DEF NextLetter, ReplayMemberInv, NoOffset
  <2>2. NextLetter(g) \in Nat /\ NextLetter(g)' \in Nat
    BY <1>1, <1>3 DEF NextLetter
  <2>3. Ahead(dlq, id, NextLetter(g)) => Ahead(dlq', id, NextLetter(g)')
    BY <1>1, <1>2, <2>1, <2>2 DEF Ahead
  <2>4. Owed(id, g)' => Owed(id, g)
    BY <1>2, <1>3 DEF Owed, ExpectedByReplay
  <2> QED
    BY <1>2, <2>3, <2>4 DEF Kept
<1>4. CASE rpc[g] = "commit" /\ StoreReplayOffset(g) /\ rpc'[g] # "commit"
  <2>1. /\ NextLetter(g) = rposition[g] + 1 /\ NextLetter(g)' = rposition[g] + 1
        /\ rsince'[g] = IF rsince[g] = NoOffset THEN rposition[g] ELSE rsince[g]
    BY <1>1, <1>4 DEF NextLetter, StoreReplayOffset, OffsetAfter
  <2>2. Owed(id, g)' => Owed(id, g) \/ Ahead(dlq, id, rposition[g] + 1)
    <3> SUFFICES ASSUME NEW o \in DOMAIN dlq, dlq[o].id = id, rsince'[g] <= o
                 PROVE  Owed(id, g) \/ Ahead(dlq, id, rposition[g] + 1)
      BY <1>2, <1>4 DEF Owed, ExpectedByReplay
    <3>1. CASE rsince[g] # NoOffset
      BY <2>1, <3>1 DEF Owed, ExpectedByReplay
    <3>2. CASE rsince[g] = NoOffset /\ o = rposition[g]
      BY <1>4, <3>2 DEF Owed, Letter
    <3>3. CASE rsince[g] = NoOffset /\ o # rposition[g]
      BY <1>1, <2>1, <3>3 DEF Ahead
    <3> QED
      BY <3>1, <3>2, <3>3
  <2> QED
    BY <1>2, <2>1, <2>2 DEF Kept, Ahead
<1> QED
  BY <1>1, <1>3, <1>4
  DEF ReplayStart, Wait, CommittedDuringWait, ReplayCommit, ReplayFall

(* A replay group is done with its letter: the others it answers for are   *)
(* further on.                                                             *)
LEMMA LetterPassed ==
    ASSUME LoopTypes, NEW g \in Replayers, GiveUp(g) \/ Republish(g),
           NEW id \in Ids, id # Letter(g).id, Kept(id, g)
    PROVE  Kept(id, g)'
<1>1. /\ ReplayMemberInv(g) /\ DOMAIN dlq \subseteq Nat
      /\ rpc \in [Replayers -> {"down", "ready", "waiting", "commit"}]
      /\ rposition[g] \in Nat \ {0} /\ rcommitted[g] \in Nat
      /\ gaveUp \in [Replayers -> SUBSET Ids]
  BY LenProperties DEF LoopTypes, ConsumerInv, TypeOK, ReplayTypeOK
<1>2. /\ UNCHANGED <<dlq, rposition, rcommitted, rsince>>
      /\ gaveUp[g] \subseteq gaveUp'[g]
      /\ rpc[g] \in {"ready", "waiting"} /\ rpc'[g] = "commit"
  BY <1>1 DEF GiveUp, Republish, consumerVars
<1> SUFFICES ASSUME Owed(id, g)'
             PROVE  Ahead(dlq, id, rposition[g] + 1) \/ id \in gaveUp'[g]
  BY <1>2 DEF Kept, NextLetter, Ahead
<1>3. Owed(id, g) /\ rsince[g] # NoOffset
  BY <1>2 DEF Owed, ExpectedByReplay, Letter
<1>4. NextLetter(g) = rposition[g]
  BY <1>1, <1>2, <1>3 DEF NextLetter, ReplayMemberInv
<1>5. Ahead(dlq, id, rposition[g]) => Ahead(dlq, id, rposition[g] + 1)
  BY <1>1 DEF Ahead, Letter
<1> QED
  BY <1>2, <1>3, <1>4, <1>5 DEF Kept

LEMMA ReplayKeepsDue ==
    ASSUME LoopInv, LoopTypes', NEW h \in Replayers, ReplayStep(h) \/ ReplayFall(h)
    PROVE  DueIsSafe'
<1> SUFFICES ASSUME NEW id \in Ids, Due(id)'
             PROVE  Safe(id)'
  BY DEF DueIsSafe
<1>0. /\ LoopTypes /\ ReplayMemberInv(h)
      /\ log \in Seq(Messages) /\ DOMAIN dlq = 1..Len(dlq) /\ Len(dlq) \in Nat
      /\ gaveUp \in [Replayers -> SUBSET Ids]
  BY LenProperties DEF LoopInv, LoopTypes, ConsumerInv, TypeOK, ReplayTypeOK
<1>1. UNCHANGED <<dlq, committed, pc, position, applied, since>>
  BY DEF ReplayStep, ReplayStart, GiveUp, Wait, Republish, ReplayCommit,
         ReplayFall, consumerVars
<1>2. Grows(log, log') /\ Grows(dlq, dlq')
  BY <1>0, <1>1, LetterSent
  DEF ReplayStep, ReplayStart, GiveUp, Wait, Republish, ReplayCommit,
      ReplayFall, ReplayMemberInv, Grows, consumerVars
<1>3. /\ NextRead' = NextRead /\ NextRead \in Nat /\ NextRead <= Len(log) + 1
  BY <1>0, <1>1, NextOffsets DEF NextRead
<1>4. SUFFICES \A g \in Replayers :
                  Kept(id, g) => Kept(id, g)' \/ Ahead(log', id, NextRead')
  BY <1>0, <1>1, <1>2, <1>3, SafeStays, DueCarries
<1> TAKE g \in Replayers
<1> HAVE Kept(id, g)
<1>5. CASE g # h
  BY <1>0, <1>5, OthersKeep
<1>6. CASE g = h /\ (ReplayStart(g) \/ Wait(g) \/ ReplayCommit(g) \/ ReplayFall(g))
  BY <1>0, <1>6, OwnLettersKept
<1>7. CASE g = h /\ (GiveUp(g) \/ Republish(g)) /\ id # Letter(g).id
  BY <1>0, <1>7, LetterPassed
<1>8. CASE g = h /\ GiveUp(g) /\ id = Letter(g).id
  BY <1>0, <1>8 DEF GiveUp, Kept
<1>9. CASE g = h /\ Republish(g) /\ id = Letter(g).id
  <2>1. rposition[g] <= Len(dlq) /\ Send(g)
    BY <1>0, <1>9 DEF Republish, ReplayMemberInv
  <2>2. /\ Republished(Letter(g)) \in Messages
        /\ Republished(Letter(g)).id = Letter(g).id
        /\ log' = Append(log, Republished(Letter(g)))
    BY <1>0, <2>1, LetterSent DEF Send
  <2> QED
    BY <1>0, <1>3, <1>9, <2>2, SentIsAhead
<1> QED
  BY <1>5, <1>6, <1>7, <1>8, <1>9 DEF ReplayStep

LEMMA LoopStepInv == LoopInv /\ [Next]_vars => LoopInv'
<1> SUFFICES ASSUME LoopInv, [Next]_vars
             PROVE  LoopInv'
  OBVIOUS
<1>1. LoopTypes'
  BY LoopStepTypes DEF LoopInv
<1>2. DueIsSafe'
  BY <1>1, ConsumerKeepsDue, ReplayKeepsDue
  DEF Next, vars, consumerVars, replayVars
<1> QED
  BY <1>1, <1>2 DEF LoopInv

-----------------------------------------------------------------------------
(* The invariant of the loop *)
LEMMA LoopInvHolds == Spec => []LoopInv
<1>1. Init => LoopInv
  BY LoopInitTypes, EmptySeq
  DEF Init, ConsumerInit, LoopInv, DueIsSafe, Due, Expected
<1> QED
  BY <1>1, LoopStepInv, PTL DEF Spec

(* The types of the consumer and of the replay groups, and with them the   *)
(* bound of the retries.                                                   *)
THEOREM TypeCorrect == Spec => []LoopTypeOK
<1>1. LoopInv => LoopTypeOK
  BY DEF LoopInv, LoopTypes, ConsumerInv, LoopTypeOK
<1> QED
  BY <1>1, LoopInvHolds, PTL

(* At-least-once: what is behind the committed offset was applied or       *)
(* isolated, with any number of replay groups sending messages again.      *)
THEOREM NothingIsSkipped == Spec => []NothingSkipped
<1>1. LoopInv => NothingSkipped
  BY DEF LoopInv, LoopTypes, ConsumerInv
<1> QED
  BY <1>1, LoopInvHolds, PTL

(* An event the consumer isolates stays with the loop: it is back with the *)
(* consumer, or each replay group that met a letter of it since its own    *)
(* first commit has it ahead or left it for manual triage; for any number  *)
(* of groups, new or old, budgets, retries and disruptions.                *)
THEOREM NoEventIsLost == Spec => []EventNotLost
<1>1. LoopInv => EventNotLost
  <2> SUFFICES ASSUME LoopInv, NEW id \in Ids,
                      Expected(id), KindOf(id) = "event"
               PROVE  \/ id \in applied
                      \/ AwaitsConsumer(id)
                      \/ /\ DeadLettered(id)
                         /\ \A g \in Replayers : ExpectedByReplay(id, g) =>
                                AwaitsReplay(id, g) \/ id \in gaveUp[g]
    BY DEF EventNotLost
  <2>1. Safe(id)
    BY DEF LoopInv, DueIsSafe, Due
  <2>2. /\ NextRead \in Nat /\ committed \in Nat /\ committed <= NextRead
        /\ \A g \in Replayers : /\ NextLetter(g) \in Nat /\ rcommitted[g] \in Nat
                                 /\ rcommitted[g] <= NextLetter(g)
        /\ DOMAIN log \subseteq Nat /\ DOMAIN dlq \subseteq Nat
    BY NextOffsets, LenProperties DEF LoopInv, LoopTypes, ConsumerInv, TypeOK
  <2>3. Ahead(log, id, NextRead) => AwaitsConsumer(id)
    BY <2>2 DEF Ahead, AwaitsConsumer
  <2>4. ASSUME NEW g \in Replayers, Ahead(dlq, id, NextLetter(g))
        PROVE  AwaitsReplay(id, g)
    BY <2>2, <2>4 DEF Ahead, AwaitsReplay
  <2> QED
    BY <2>1, <2>3, <2>4 DEF Safe, Kept, Owed
<1> QED
  BY <1>1, LoopInvHolds, PTL


-----------------------------------------------------------------------------
(* The refinement: the group of the consumer is an at-least-once group.    *)

IdsOf(s) == [o \in DOMAIN s |-> s[o].id]

HandledIds == {id \in Ids : Handled(id)}

LEMMA IdAt ==
    ASSUME NEW s \in Seq(Messages), NEW o \in 1..Len(s)
    PROVE  s[o].id \in Ids
<1>1. s[o] \in Messages
  BY ElementOfSeq
<1> QED
  BY <1>1 DEF Messages

LEMMA IdsAreASequence ==
    ASSUME NEW s \in Seq(Messages)
    PROVE  IdsOf(s) \in Seq(Ids) /\ Len(IdsOf(s)) = Len(s)
<1>1. /\ DOMAIN s = 1..Len(s) /\ Len(s) \in Nat
      /\ \A o \in 1..Len(s) : s[o].id \in Ids
  BY LenProperties, IdAt
<1>2. IdsOf(s) \in [1..Len(s) -> Ids]
  BY <1>1 DEF IdsOf
<1>3. IdsOf(s) \in Seq(Ids)
  BY <1>1, <1>2
<1> QED
  BY <1>1, <1>2, <1>3

LEMMA IdsAppend ==
    ASSUME NEW s \in Seq(Messages), NEW m \in Messages
    PROVE  IdsOf(Append(s, m)) = Append(IdsOf(s), m.id)
<1> DEFINE t == Append(s, m)
           u == Append(IdsOf(s), m.id)
<1>1. /\ t \in Seq(Messages) /\ Len(t) = Len(s) + 1 /\ Len(s) \in Nat
      /\ \A i \in 1..Len(s) : t[i] = s[i]
      /\ t[Len(s) + 1] = m
      /\ m.id \in Ids
      /\ DOMAIN t = 1..Len(t) /\ DOMAIN s = 1..Len(s)
  BY AppendProperties, LenProperties DEF Messages
<1>2. IdsOf(s) \in Seq(Ids) /\ Len(IdsOf(s)) = Len(s)
  BY IdsAreASequence
<1>3. /\ u \in Seq(Ids) /\ Len(u) = Len(s) + 1
      /\ \A i \in 1..Len(s) : u[i] = IdsOf(s)[i]
      /\ u[Len(s) + 1] = m.id
  BY <1>1, <1>2, AppendProperties
<1>4. IdsOf(t) \in Seq(Ids) /\ Len(IdsOf(t)) = Len(t)
  BY <1>1, IdsAreASequence
<1> HIDE DEF t, u
<1>5. \A i \in 1..Len(IdsOf(t)) : IdsOf(t)[i] = u[i]
  BY <1>1, <1>3, <1>4 DEF IdsOf
<1>6. IdsOf(t) = u
  BY <1>1, <1>3, <1>4, <1>5, SeqEqual
<1> QED
  BY <1>6 DEF t, u

(* A message arrives in the log of the group. *)
LEMMA ArrivalIsGroup ==
    ASSUME ConsumerInv, NEW m \in Messages, log' = Append(log, m),
           UNCHANGED <<dlq, applied, committed>>
    PROVE  Group!Next
<1>1. IdsOf(log') = Append(IdsOf(log), m.id) /\ m.id \in Ids
  BY IdsAppend DEF ConsumerInv, TypeOK, Messages
<1>2. HandledIds' = HandledIds
  BY DEF HandledIds, Handled, DeadLettered
<1>3. Group!Arrive(m.id)
  BY <1>1, <1>2 DEF Group!Arrive, IdsOf, HandledIds
<1> QED
  BY <1>1, <1>3 DEF Group!Next

(* A message is applied, or set aside. *)
LEMMA HandlingIsGroup ==
    ASSUME ConsumerInv, UNCHANGED <<log, committed>>,
           position \in DOMAIN log,
           HandledIds' \in {HandledIds, HandledIds \cup {Current.id}}
    PROVE  [Group!Next]_(Group!vars)
<1>1. CASE HandledIds' = HandledIds
  BY <1>1 DEF Group!vars, HandledIds
<1>2. CASE HandledIds' = HandledIds \cup {Current.id}
  <2>1. Current.id \in Ids
    BY <1>2 DEF HandledIds
  <2>2. Group!Handle(Current.id)
    BY <1>2 DEF Group!Handle, HandledIds, Current
  <2> QED
    BY <2>1, <2>2 DEF Group!Next
<1> QED
  BY <1>1, <1>2

(* The commit of a message that is handled. *)
LEMMA CommitIsGroup ==
    ASSUME ConsumerInv, pc = "commit", StoreOffset,
           UNCHANGED <<log, dlq, applied>>
    PROVE  Group!Next
<1>1. /\ log \in Seq(Messages) /\ position \in 1..Len(log)
      /\ DOMAIN log = 1..Len(log)
      /\ committed # NoOffset => position = committed
      /\ Handled(Current.id)
  BY LenProperties DEF ConsumerInv, TypeOK, MemberInv
<1>2. Current.id \in Ids
  BY <1>1, IdAt DEF Current
<1>3. HandledIds' = HandledIds
  BY DEF HandledIds, Handled, DeadLettered
<1>4. Group!Advance(position)
  BY <1>1, <1>2, <1>3
  DEF Group!Advance, Group!None, NoOffset, StoreOffset, HandledIds, Current
<1> QED
  BY <1>1, <1>4 DEF Group!Next

LEMMA ConsumerIsGroup ==
    ASSUME ConsumerInv, [ConsumerNext]_consumerVars
    PROVE  [Group!Next]_(Group!vars)
<1>0. /\ log \in Seq(Messages) /\ dlq \in Seq(Messages) /\ MemberInv
      /\ position \in Nat \ {0} /\ DOMAIN log = 1..Len(log)
  BY LenProperties DEF ConsumerInv, TypeOK
<1>1. ASSUME UNCHANGED <<log, dlq, applied, committed>>
      PROVE  UNCHANGED Group!vars
  BY <1>1 DEF Group!vars, Handled, DeadLettered
<1>2. pc \in {"route", "deadLetter", "commit"} => position \in DOMAIN log
  BY <1>0 DEF MemberInv
<1>3. CASE RouteSucceeds
  <2>1. HandledIds' \in {HandledIds, HandledIds \cup {Current.id}}
    <3>1. Current.id \in Ids
      BY <1>0, <1>2, <1>3, IdAt DEF RouteSucceeds, Current
    <3>2. CASE KindOf(Current.id) = "event"
      BY <1>3, <3>1, <3>2 DEF RouteSucceeds, HandledIds, Handled, DeadLettered
    <3>3. CASE KindOf(Current.id) # "event"
      BY <1>3, <3>3 DEF RouteSucceeds, HandledIds, Handled, DeadLettered
    <3> QED
      BY <3>2, <3>3
  <2> QED
    BY <1>2, <1>3, <2>1, HandlingIsGroup DEF RouteSucceeds
<1>4. ASSUME pc = "deadLetter", dlq' = Append(dlq, DeadLetterOf(Current)),
             UNCHANGED <<log, applied, committed>>
      PROVE  [Group!Next]_(Group!vars)
  <2>1. /\ Current.id \in Ids /\ DeadLetterOf(Current) \in Messages
        /\ DeadLetterOf(Current).id = Current.id
    <3>1. Current \in Messages
      BY <1>0, <1>2, <1>4, ElementOfSeq DEF Current
    <3> QED
      BY <3>1, SentMessages DEF Messages
  <2>2. /\ DOMAIN dlq' = 1..(Len(dlq) + 1) /\ DOMAIN dlq = 1..Len(dlq)
        /\ Len(dlq) \in Nat
        /\ \A o \in 1..Len(dlq) : dlq'[o] = dlq[o]
        /\ dlq'[Len(dlq) + 1].id = Current.id
    BY <1>0, <1>4, <2>1, AppendProperties, LenProperties
  <2>3. \A id : DeadLettered(id)' <=> DeadLettered(id) \/ id = Current.id
    BY <2>2 DEF DeadLettered
  <2>4. KindOf(Current.id) \in {"poison", "event"}
    BY <1>0, <1>4 DEF MemberInv
  <2>5. HandledIds' = HandledIds \cup {Current.id}
    BY <1>4, <2>1, <2>3, <2>4 DEF HandledIds, Handled
  <2> QED
    BY <1>2, <1>4, <2>5, HandlingIsGroup
<1>5. CASE SendDeadLetter
  BY <1>4, <1>5 DEF SendDeadLetter
<1>6. CASE Commit
  BY <1>6, CommitIsGroup DEF Commit
<1>7. CASE Fall
  <2>1. CASE dlq' # dlq
    BY <1>4, <1>7, <2>1 DEF Fall
  <2>2. CASE dlq' = dlq /\ UNCHANGED committed
    BY <1>1, <1>7, <2>2 DEF Fall
  <2>3. CASE dlq' = dlq /\ pc = "commit" /\ StoreOffset
    BY <1>7, <2>3, CommitIsGroup DEF Fall
  <2> QED
    BY <1>7, <2>1, <2>2, <2>3 DEF Fall
<1>8. ASSUME NEW id \in Ids, Produce(id)
      PROVE  Group!Next
  BY <1>8, SentMessages, ArrivalIsGroup DEF Produce
<1>9. CASE Start \/ Receive \/ RouteFails \/ UNCHANGED consumerVars
  BY <1>1, <1>9 DEF Start, Receive, RouteFails, consumerVars
<1> QED
  BY <1>3, <1>5, <1>6, <1>7, <1>8, <1>9 DEF ConsumerNext, ConsumerStep

LEMMA LoopIsGroup == LoopTypes /\ [Next]_vars => [Group!Next]_(Group!vars)
<1> SUFFICES ASSUME LoopTypes, [Next]_vars
             PROVE  [Group!Next]_(Group!vars)
  OBVIOUS
<1>1. CASE [ConsumerNext]_consumerVars
  BY <1>1, ConsumerIsGroup DEF LoopTypes
<1>2. ASSUME NEW g \in Replayers, ReplayStep(g) \/ ReplayFall(g)
      PROVE  [Group!Next]_(Group!vars)
  <2>1. UNCHANGED <<dlq, applied, committed>>
    BY <1>2
    DEF ReplayStep, ReplayStart, GiveUp, Wait, Republish, ReplayCommit,
        ReplayFall, consumerVars
  <2>2. CASE log' = log
    BY <2>1, <2>2 DEF Group!vars, Handled, DeadLettered
  <2>3. CASE log' # log
    <3>1. rpc[g] = "waiting" /\ Send(g)
      BY <1>2, <2>3
      DEF ReplayStep, ReplayStart, GiveUp, Wait, Republish, ReplayCommit,
          ReplayFall, consumerVars
    <3>2. Republished(Letter(g)) \in Messages
      BY <3>1, LetterSent DEF LoopTypes, ReplayMemberInv
    <3> QED
      BY <2>1, <3>1, <3>2, ArrivalIsGroup DEF LoopTypes, Send
  <2> QED
    BY <2>2, <2>3
<1> QED
  BY <1>1, <1>2 DEF Next, vars, consumerVars

(* Whatever crashes, throws or is sent again, the consumer's group is one  *)
(* that handles each message at least once before it moves past it.        *)
THEOREM LoopIsAtLeastOnce == Spec => ImplementsAtLeastOnce
<1>1. Init => Group!Init
  <2> SUFFICES ASSUME Init
               PROVE  Group!Init
    OBVIOUS
  <2>1. log = <<>> /\ dlq = <<>> /\ applied = {} /\ committed \in {NoOffset, 1}
    BY DEF Init, ConsumerInit
  <2>2. Len(log) = 0 /\ log \in Seq(Messages) /\ DOMAIN log = {} /\ DOMAIN dlq = {}
    BY <2>1, EmptySeq, LenProperties
  <2>3. IdsOf(log) = <<>>
    <3>1. IdsOf(log) \in Seq(Ids) /\ Len(IdsOf(log)) = 0
      BY <2>2, IdsAreASequence
    <3> QED
      BY <3>1, EmptySeq
  <2>4. HandledIds = {id \in Ids : KindOf(id) \in {"tombstone", "unrouted"}}
    BY <2>1, <2>2 DEF HandledIds, Handled, DeadLettered
  <2> QED
    BY <2>1, <2>3, <2>4 DEF Group!Init, Group!None, NoOffset, IdsOf, HandledIds
<1>2. LoopInv /\ [Next]_vars => [Group!Next]_(Group!vars)
  BY LoopIsGroup DEF LoopInv
<1> QED
  BY <1>1, <1>2, LoopInvHolds, PTL DEF Spec, ImplementsAtLeastOnce, Group!Spec

-----------------------------------------------------------------------------
(* Why the replay budget is not one *)

(* Every dead letter arrives without a replay count, however often its     *)
(* message has been replayed: DeadLetterInput carries no headers.          *)
LettersCountNothing == \A o \in DOMAIN dlq : dlq[o].replays = 0

(* Only the consumer writes to the dead-letter partition. *)
LEMMA StepKeepsLettersFresh ==
    LoopTypes /\ LettersCountNothing /\ [Next]_vars => LettersCountNothing'
<1> SUFFICES ASSUME LoopTypes, LettersCountNothing, [Next]_vars
             PROVE  LettersCountNothing'
  OBVIOUS
<1>1. dlq \in Seq(Messages) /\ log \in Seq(Messages)
  BY DEF LoopTypes, ConsumerInv, TypeOK
<1>2. pc = "deadLetter" => Current \in Messages
  <2>1. pc = "deadLetter" => position \in 1..Len(log)
    BY LenProperties DEF LoopTypes, ConsumerInv, TypeOK, MemberInv
  <2> QED
    BY <1>1, <2>1, ElementOfSeq DEF Current
<1>3. \/ dlq' = dlq
      \/ pc = "deadLetter" /\ dlq' = Append(dlq, DeadLetterOf(Current))
  BY DEF Next, ConsumerNext, ConsumerStep, Start, Receive, RouteSucceeds,
         RouteFails, SendDeadLetter, Commit, Fall, Produce, ReplayStep,
         ReplayStart, GiveUp, Wait, Republish, ReplayCommit, ReplayFall,
         consumerVars, vars
<1>4. CASE dlq' = dlq
  BY <1>4 DEF LettersCountNothing
<1>5. CASE pc = "deadLetter" /\ dlq' = Append(dlq, DeadLetterOf(Current))
  <2>1. DeadLetterOf(Current) \in Messages /\ DeadLetterOf(Current).replays = 0
    BY <1>2, <1>5, SentMessages DEF DeadLetterOf, Messages
  <2>2. /\ Len(dlq') = Len(dlq) + 1 /\ dlq'[Len(dlq) + 1] = DeadLetterOf(Current)
        /\ \A o \in 1..Len(dlq) : dlq'[o] = dlq[o]
        /\ Len(dlq) \in Nat /\ DOMAIN dlq = 1..Len(dlq)
    BY <1>1, <1>5, <2>1, AppendProperties, LenProperties
  <2>3. DOMAIN dlq' = 1..(Len(dlq) + 1)
    BY <1>1, <1>5, <2>1, AppendProperties, LenProperties
  <2> QED
    BY <2>1, <2>2, <2>3 DEF LettersCountNothing
<1> QED
  BY <1>3, <1>4, <1>5

(* A replay group with any budget at all never gives a message up: the     *)
(* count it compares with maxReplays is always 0.  This is the cause of    *)
(* the broken ReplayBudget, for every budget and every number of groups.   *)
OnlyZeroBudgetsEnd == \A g \in Replayers : gaveUp[g] # {} => MaxReplays[g] = 0

THEOREM BudgetsNeverEnd == Spec => []OnlyZeroBudgetsEnd
<1> DEFINE Inv == LettersCountNothing /\ OnlyZeroBudgetsEnd
<1>1. Init => Inv
  BY EmptySeq
  DEF Init, ConsumerInit, LettersCountNothing, OnlyZeroBudgetsEnd
<1>2. LoopInv /\ Inv /\ [Next]_vars => Inv'
  <2> SUFFICES ASSUME LoopInv, Inv, [Next]_vars
               PROVE  OnlyZeroBudgetsEnd'
    BY StepKeepsLettersFresh DEF LoopInv
  <2>1. gaveUp \in [Replayers -> SUBSET Ids]
    BY DEF LoopInv, LoopTypes, ReplayTypeOK
  <2>2. CASE gaveUp' = gaveUp
    BY <2>2 DEF OnlyZeroBudgetsEnd
  <2>3. ASSUME NEW g \in Replayers, GiveUp(g)
        PROVE  OnlyZeroBudgetsEnd'
    <3>1. Letter(g).replays = 0
      BY <2>3 DEF GiveUp, Letter, LettersCountNothing
    <3>2. MaxReplays[g] = 0
      BY <2>3, <3>1, ReplayAssumption DEF GiveUp, BudgetSpent
    <3>3. \A h \in Replayers \ {g} : gaveUp'[h] = gaveUp[h]
      BY <2>1, <2>3 DEF GiveUp
    <3> QED
      BY <3>2, <3>3 DEF OnlyZeroBudgetsEnd
  <2> QED
    BY <2>2, <2>3
    DEF Next, ReplayStep, ReplayStart, Wait, Republish, ReplayCommit,
        ReplayFall, replayVars, vars
<1> QED
  BY <1>1, <1>2, LoopInvHolds, PTL DEF Spec
=============================================================================
