-------------------------------- MODULE Saga --------------------------------
(***************************************************************************)
(* CommandBus.runSaga (cqrs/command-bus.ts): the handler performs steps    *)
(* that no transaction spans and pushes one compensation per step; when it *)
(* throws, the bus runs the compensations in reverse, has those that fail  *)
(* recorded in the compensation store, and rethrows the handler's error.   *)
(* ISagaCompensationStore asks its implementations not to throw and to     *)
(* swallow what they cannot record; the model's store does the one, the    *)
(* other, and what it should not do.                                       *)
(* The handlers, the store and the reaper that works it off live in the    *)
(* services and are modelled from the interfaces they implement.           *)
(***************************************************************************)
EXTENDS Naturals, Sequences, HandlerRegistry

CONSTANTS
    NumSteps,    (* steps of the handler, in order *)
    SagaName,    (* the command the handler is registered for *)
    Dispatched,  (* the steps that go through ctx.dispatch; the others are
                    RPCs to other services *)
    CommandOf(_) (* the command a dispatched step sends *)

ASSUME SagaAssumption == NumSteps \in Nat /\ SagaName \in Names

Steps == 1..NumSteps

VARIABLES
    hasStore,       (* is a compensationStore wired?  Fixed at construction. *)
    pc,             (* where runSaga stands *)
    next,           (* the handler's next step *)
    effects,        (* steps whose effect is in place *)
    compensations,  (* runSaga's local: what is left of the pushed stack *)
    recorded,       (* the store: compensations to be retried *)
    silent,         (* history: steps that took effect but reported an error *)
    unrecorded,     (* history: steps whose failed compensation the store
                       could not record and only logged *)
    thrown          (* the error the caller sees *)

sagaVars == <<hasStore, pc, next, effects, compensations, recorded, silent,
              unrecorded, thrown>>
vars == <<sagaVars, registryVars>>

(* The variables hold values of their types. *)
TypeOK ==
    /\ RegistryTypeOK
    /\ hasStore \in BOOLEAN
    /\ pc \in {"called", "running", "compensating", "recording", "returned",
               "threw", "dead"}
    /\ next \in 1..(NumSteps + 1)
    /\ effects \subseteq Steps
    /\ compensations \in Seq(Steps)
    /\ recorded \subseteq Steps
    /\ silent \subseteq Steps
    /\ unrecorded \subseteq Steps
    /\ thrown \in {"none", "handler", "compensation", "store"}

Init ==
    /\ RegistryInit
    /\ hasStore \in BOOLEAN
    /\ pc = "called"
    /\ next = 1
    /\ effects = {}
    /\ compensations = <<>>
    /\ recorded = {}
    /\ silent = {}
    /\ unrecorded = {}
    /\ thrown = "none"

-----------------------------------------------------------------------------
(* execute() finds the saga's handler in the registry. *)
Execute ==
    /\ pc = "called"
    /\ phase = "started"
    /\ IsSaga(SagaName)
    /\ pc' = "running"
    /\ UNCHANGED <<hasStore, next, effects, compensations, recorded, silent,
                   unrecorded, thrown>>

-----------------------------------------------------------------------------
(* handler.execute(command, ctx) *)

(* ctx.dispatch refuses a saga, whatever the handler declares, and execute *)
(* throws for a command without a handler.                                 *)
Refused(s) ==
    /\ s \in Dispatched
    /\ CommandOf(s) \notin DOMAIN handlers \/ IsSaga(CommandOf(s))

(* Mutated form: the compensations are kept in the order of the steps. *)
PushedAtEnd(s) == Append(compensations, s)

(* Mutated form: the step's number is advanced before it is pushed. *)
PushedNext(s) == <<s + 1>> \o compensations

(* onCompensate pushes, and the failure path reverses: the most recent     *)
(* step comes first.                                                       *)
Pushed(s) == <<s>> \o compensations

(* A step's call returns and the handler registers how to undo it. *)
StepSucceeds ==
    /\ pc = "running"
    /\ next \in Steps
    /\ ~Refused(next)
    /\ effects' = effects \cup {next}
    /\ compensations' = Pushed(next)
    /\ next' = next + 1
    /\ UNCHANGED <<hasStore, pc, recorded, silent, unrecorded, thrown>>

(* A step's call throws, its effect in place or not, or is refused.  The   *)
(* handler lets the error through.                                         *)
StepThrows ==
    /\ pc = "running"
    /\ next \in Steps
    /\ \/ UNCHANGED <<effects, silent>>
       \/ /\ ~Refused(next)
          /\ effects' = effects \cup {next}
          /\ silent' = silent \cup {next}
    /\ thrown' = "handler"
    /\ pc' = "compensating"
    /\ UNCHANGED <<hasStore, next, compensations, recorded, unrecorded>>

HandlerReturns ==
    /\ pc = "running"
    /\ next = NumSteps + 1
    /\ pc' = "returned"
    /\ UNCHANGED <<hasStore, next, effects, compensations, recorded, silent,
                   unrecorded, thrown>>

-----------------------------------------------------------------------------
(* The catch block *)

Top == Head(compensations)

UndoSucceeds ==
    /\ pc = "compensating"
    /\ compensations # <<>>
    /\ effects' = effects \ {Top}
    /\ compensations' = Tail(compensations)
    /\ UNCHANGED <<hasStore, pc, next, recorded, silent, unrecorded, thrown>>

(* Mutated form: the compensation's error replaces the handler's. *)
ThrownAfterUndoThrowsMasked == "compensation"

ThrownAfterUndoThrows == thrown

(* Mutated form: the first compensation that throws ends the loop. *)
RemainingAfterUndoThrowsNone == <<>>

RemainingAfterUndoThrows == Tail(compensations)

(* Logged, and handed to the store if there is one. *)
UndoThrows ==
    /\ pc = "compensating"
    /\ compensations # <<>>
    /\ thrown' = ThrownAfterUndoThrows
    /\ IF hasStore
       THEN pc' = "recording" /\ UNCHANGED compensations
       ELSE compensations' = RemainingAfterUndoThrows /\ UNCHANGED pc
    /\ UNCHANGED <<hasStore, next, effects, recorded, silent, unrecorded>>

(* recordFailed returns, and the loop goes on: the failure is recorded ... *)
Record ==
    /\ pc = "recording"
    /\ recorded' = recorded \cup {Top}
    /\ compensations' = RemainingAfterUndoThrows
    /\ pc' = "compensating"
    /\ UNCHANGED <<hasStore, next, effects, silent, unrecorded, thrown>>

(* ... or the store could not record it and swallowed its own error. *)
RecordSwallows ==
    /\ pc = "recording"
    /\ unrecorded' = unrecorded \cup {Top}
    /\ compensations' = RemainingAfterUndoThrows
    /\ pc' = "compensating"
    /\ UNCHANGED <<hasStore, next, effects, recorded, silent, thrown>>

(* recordFailed throws, against its contract.  The call stands in a catch  *)
(* block of its own loop: nothing guards it, and the rest of the stack is  *)
(* left.                                                                   *)
RecordThrows ==
    /\ pc = "recording"
    /\ thrown' = "store"
    /\ compensations' = <<>>
    /\ pc' = "threw"
    /\ UNCHANGED <<hasStore, next, effects, recorded, silent, unrecorded>>

Rethrow ==
    /\ pc = "compensating"
    /\ compensations = <<>>
    /\ pc' = "threw"
    /\ UNCHANGED <<hasStore, next, effects, compensations, recorded, silent,
                   unrecorded, thrown>>

-----------------------------------------------------------------------------
(* The environment *)

(* The process dies: the stack of closures dies with it. *)
Crash ==
    /\ pc \in {"running", "compensating", "recording"}
    /\ pc' = "dead"
    /\ compensations' = <<>>
    /\ UNCHANGED <<hasStore, next, effects, recorded, silent, unrecorded, thrown>>

(* The reaper retries a recorded compensation until it succeeds. *)
Reap(s) ==
    /\ s \in recorded
    /\ effects' = effects \ {s}
    /\ recorded' = recorded \ {s}
    /\ UNCHANGED <<hasStore, pc, next, compensations, silent, unrecorded, thrown>>

RunSaga ==
    \/ Execute \/ StepSucceeds \/ StepThrows \/ HandlerReturns
    \/ UndoSucceeds \/ UndoThrows \/ Record \/ RecordSwallows \/ RecordThrows
    \/ Rethrow

SagaNext == RunSaga \/ Crash \/ \E s \in Steps : Reap(s)

Next ==
    \/ SagaNext /\ UNCHANGED registryVars
    \/ RegistryNext /\ UNCHANGED sagaVars

Spec == Init /\ [][Next]_vars

(* Calls return, and the reaper gets each recorded compensation done. *)
FairSpec ==
    /\ Spec
    /\ WF_vars(RunSaga /\ UNCHANGED registryVars)
    /\ \A s \in Steps : WF_vars(Reap(s) /\ UNCHANGED registryVars)

-----------------------------------------------------------------------------
Pending(s) == \E i \in DOMAIN compensations : compensations[i] = s

(* While the saga lives and its store keeps its contract, every effect of  *)
(* a failed saga is still to be undone or durably recorded, but for two    *)
(* kinds: of a step that reported an error it had no chance to register a  *)
(* compensation for, and of a compensation the store could only log.       *)
NothingForgotten ==
    /\ pc \in {"running", "compensating", "recording", "threw"}
    /\ hasStore
    /\ thrown # "store"
    => \A s \in effects : Pending(s) \/ s \in recorded \cup silent \cup unrecorded

(* Steps are undone in reverse: when a step has lost its effect, nothing   *)
(* later waits to be undone, so no step is undone under one that uses it.  *)
UndoneInReverse ==
    \A s, t \in 1..(next - 1) : s < t /\ s \notin effects => ~Pending(t)

(* The caller sees the handler's error, never a compensation's, unless the *)
(* store itself throws, and a successful saga compensates nothing.         *)
ErrorIsTheHandlers ==
    /\ pc = "threw" => thrown \in {"handler", "store"}
    /\ pc = "returned" => effects = Steps /\ recorded = {} /\ thrown = "none"


(* What command-bus.ts:183-186 says is "now a bus guarantee": a failure    *)
(* while compensating is swallowed either way and never masks the          *)
(* handler's error.  A store that throws masks it.                         *)
NeverMasked == pc = "threw" => thrown = "handler"
=============================================================================
