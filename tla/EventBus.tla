------------------------------ MODULE EventBus ------------------------------
(***************************************************************************)
(* The in-process EventBus (cqrs/event-bus.ts) beside the command bus.     *)
(* publish() starts every registered listener and waits for none.  A       *)
(* listener inherits the asynchronous context of its publisher: published  *)
(* by a handler, the event carries the handler's transaction in the        *)
(* AsyncLocalStorage, even when the transaction is long over; published by *)
(* afterCommit it carries none.  A handler that is retried publishes again. *)
(* What listeners do lives in the services: here they execute a command on *)
(* an aggregate of their own, the use eventing_patterns.md gives the bus.  *)
(***************************************************************************)
EXTENDS CommandBus

CONSTANTS
    Listeners,   (* handlers of the event *)
    Announcing   (* commands whose handler or hook publishes the event *)

ASSUME EventAssumption == Announcing \subseteq Commands

VARIABLES
    registered,  (* the emitter's listeners *)
    announced,   (* commands that published in the present attempt or hook:
                    each does so once (bound) *)
    jobs,        (* listeners at work *)
    effects      (* history: commits of a listener's command for a command's
                    events, up to 2 *)

eventVars == <<vars, registered, announced, jobs, effects>>

(* Runs of one listener on events of one command are alike when they have  *)
(* the same context.                                                       *)
Jobs == [of : Announcing, listener : Listeners, inTx : BOOLEAN]

EventTypes ==
    /\ registered \subseteq Listeners
    /\ announced \subseteq Announcing
    /\ jobs \subseteq Jobs
    /\ effects \in [Commands -> [Listeners -> 0..2]]

(* The variables hold values of their types, the pipeline's too, and only  *)
(* the hook of a committed command starts a listener outside a transaction.*)
EventTypeOK ==
    /\ TypeOK
    /\ EventTypes
    /\ \A j \in jobs : ~j.inTx => pc[j.of] \in {"committed", "replied"}

EventInit ==
    /\ Init
    /\ registered = {}
    /\ announced = {}
    /\ jobs = {}
    /\ effects = [c \in Commands |-> [l \in Listeners |-> 0]]

-----------------------------------------------------------------------------
(* The pipeline of CommandBus goes on beside the listeners. *)
Pipeline(c) ==
    /\ Step(c)
    /\ announced' = IF pc'[c] = pc[c] THEN announced ELSE announced \ {c}
    /\ UNCHANGED <<registered, jobs, effects>>

Register(l) ==
    /\ registered' = registered \cup {l}
    /\ UNCHANGED <<vars, announced, jobs, effects>>

(* publish() by the handler or the hook of command c; nobody listening is  *)
(* only a warning.                                                         *)
Publish(c) ==
    /\ c \in Announcing \ announced
    /\ pc[c] \in {"inTx", "committed"}
    /\ announced' = announced \cup {c}
    /\ jobs' = jobs \cup [of : {c}, listener : registered, inTx : {AmbientTx(c)}]
    /\ UNCHANGED <<vars, registered, effects>>

(* Mutated form: a transaction counts only while it is open. *)
OpenTxOf(j) == j.inTx /\ pc[j.of] = "inTx"

(* getTx() in the async context of a listener. *)
InheritedTx(j) == j.inTx

(* The listener's own command: the runner refuses it inside a transaction, *)
(* and the listener's try/catch takes the NestedTransactionError.          *)
ListenerExecutes(j) ==
    /\ jobs' = jobs \ {j}
    /\ effects' = IF InheritedTx(j) THEN effects
                  ELSE [effects EXCEPT ![j.of][j.listener] = Once(@)]
    /\ UNCHANGED <<vars, registered, announced>>

(* The listener throws, or its command fails: logged, and nothing else.    *)
ListenerThrows(j) ==
    /\ jobs' = jobs \ {j}
    /\ UNCHANGED <<vars, registered, announced, effects>>

EventNext ==
    \/ \E c \in Commands : Pipeline(c) \/ Publish(c)
    \/ \E l \in Listeners : Register(l)
    \/ \E j \in jobs : ListenerExecutes(j) \/ ListenerThrows(j)

EventSpec == EventInit /\ [][EventNext]_eventVars

-----------------------------------------------------------------------------
(* Listeners follow the commit: however often a command is retried and its *)
(* event published, each listener's command takes effect at most once for  *)
(* it, and never for a command that rolled back.                           *)
ListenersFollowCommit ==
    \A c \in Commands, l \in Listeners : effects[c][l] <= applied[c]
=============================================================================
