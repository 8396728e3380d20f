-------------------------- MODULE MCDeadLetterLoop --------------------------
(* Model-checking instance of DeadLetterLoop, and of ResilientConsumer in  *)
(* it: one message of each kind, a group that replays once and one that    *)
(* gives up at once.                                                       *)
EXTENDS DeadLetterLoop

CONSTANTS Event1, Poison, Tombstone, Unrouted, Group1, Group2

MCKindOf(id) ==
    CASE id = Poison -> "poison"
      [] id = Tombstone -> "tombstone"
      [] id = Unrouted -> "unrouted"
      [] OTHER -> "event"

MCMaxReplays == [g \in Replayers |-> IF g = Group1 THEN 1 ELSE 0]
=============================================================================
