-------------------------- MODULE HandlerRegistry --------------------------
(***************************************************************************)
(* The handler registry of CommandBus (cqrs/command-bus.ts): register, the *)
(* check of the declared dispatches that every registration repeats, and   *)
(* the lookup.  The composition root of a service registers its handlers   *)
(* in whatever order its dependency injection happens to produce, and a    *)
(* registration that throws aborts the start of the service.               *)
(***************************************************************************)
CONSTANTS
    Names,        (* command names *)
    Declarations  (* lists of names a saga handler may declare *)

ASSUME RegistryAssumption == Declarations \subseteq SUBSET Names

VARIABLES
    handlers,  (* the Map: a function on the names registered so far *)
    phase      (* the service: "boot", "started", "aborted" *)

registryVars == <<handlers, phase>>

(* A handler without a kind, or with another one, is refused.  Only a saga *)
(* declares the commands it may dispatch.                                  *)
Handlers ==
    [kind : {"transactional"}, dispatches : {{}}]
        \cup [kind : {"saga"}, dispatches : Declarations]

(* The variables hold values of their types. *)
RegistryTypeOK ==
    /\ DOMAIN handlers \subseteq Names
    /\ \A n \in DOMAIN handlers : handlers[n] \in Handlers
    /\ phase \in {"boot", "started", "aborted"}

RegistryInit ==
    /\ handlers = [n \in {} |-> {}]
    /\ phase = "boot"

-----------------------------------------------------------------------------
IsSaga(n) == n \in DOMAIN handlers /\ handlers[n].kind = "saga"

(* validateSagaDispatches finds a pair to throw NestedSagaDispatchError on. *)
DeclaresSaga(registry) ==
    \E outer, inner \in DOMAIN registry :
        /\ registry[outer].kind = "saga"
        /\ inner \in registry[outer].dispatches
        /\ registry[inner].kind = "saga"

Stored(n, h) ==
    [m \in DOMAIN handlers \cup {n} |-> IF m = n THEN h ELSE handlers[m]]

(* Mutated form: the check runs before the handler is stored. *)
ValidatedBefore(n, h) == handlers

(* What the check looks at: the Map with the handler just stored. *)
Validated(n, h) == Stored(n, h)

(* The handler stays in the Map when the check throws. *)
Register(n, h) ==
    /\ phase = "boot"
    /\ n \notin DOMAIN handlers
    /\ handlers' = Stored(n, h)
    /\ phase' = IF DeclaresSaga(Validated(n, h)) THEN "aborted" ELSE "boot"

(* DuplicateCommandHandlerError, or UnknownHandlerKindError for a handler   *)
(* without a valid kind: nothing is stored.                                 *)
RegisterRefused ==
    /\ phase = "boot"
    /\ phase' = "aborted"
    /\ UNCHANGED handlers

StartService ==
    /\ phase = "boot"
    /\ phase' = "started"
    /\ UNCHANGED handlers

RegistryNext ==
    \/ \E n \in Names, h \in Handlers : Register(n, h)
    \/ RegisterRefused
    \/ StartService

-----------------------------------------------------------------------------
(* A saga that declares a dispatch to another saga never goes live: the    *)
(* start of the service fails, whichever of the two registers first.       *)
NestingCaughtAtBoot == phase = "started" => ~DeclaresSaga(handlers)
=============================================================================
