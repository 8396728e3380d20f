---------------------------- MODULE CircuitBreaker ----------------------------
(***************************************************************************)
(* One CircuitBreaker object (resilience/circuit-breaker.ts) shared by the *)
(* concurrent calls of one service.  JavaScript runs the code between two  *)
(* awaits atomically, so execute() is two steps: the synchronous prologue, *)
(* which admits or rejects the call, and the settlement of fn(), which     *)
(* runs onSuccess or onFailure.  Any number of calls may be between the    *)
(* two, whatever the breaker's state has become meanwhile.                 *)
(***************************************************************************)
EXTENDS Naturals

CONSTANTS
    Callers,     (* concurrent users of the breaker *)
    Threshold,   (* consecutive failures that trip it *)
    TimeoutMs,   (* length of the open window, in clock ticks *)
    FailureCap   (* bound: failureCount saturates here.  The code only
                    compares the counter with Threshold, so every value
                    from Threshold on behaves alike. *)

(* The constructor accepts any threshold, zero included. *)
ASSUME BreakerAssumption ==
    /\ Threshold \in Nat
    /\ TimeoutMs \in Nat
    /\ FailureCap \in Nat
    /\ FailureCap >= Threshold

VARIABLES
    state,         (* this.state *)
    failureCount,  (* this.failureCount *)
    sinceFailure,  (* Date.now() - this.lastFailureTime, saturated once it
                      exceeds TimeoutMs *)
    call           (* where each caller's execute() stands *)

vars == <<state, failureCount, sinceFailure, call>>

States == {"closed", "open", "half-open"}

(* "running" was admitted by a closed breaker, "probing" claimed the       *)
(* half-open slot, "rejected" got the 'Circuit open' error.                *)
CallStates == {"idle", "running", "probing", "rejected"}

(* The variables hold values of their types. *)
TypeOK ==
    /\ state \in States
    /\ failureCount \in 0..FailureCap
    /\ sinceFailure \in 0..(TimeoutMs + 1)
    /\ call \in [Callers -> CallStates]

(* lastFailureTime = 0 is the epoch, longer ago than any window. *)
Init ==
    /\ state = "closed"
    /\ failureCount = 0
    /\ sinceFailure = TimeoutMs + 1
    /\ call = [c \in Callers |-> "idle"]

WindowElapsed == sinceFailure > TimeoutMs

(* Mutated form: the decrement of a counter meant as a score. *)
FailuresAfterSuccessDecremented == failureCount - 1

FailuresAfterSuccess == 0

FailuresAfterFailure ==
    IF failureCount < FailureCap THEN failureCount + 1 ELSE failureCount

(* Mutated form: only a closed breaker trips, so a failed probe leaves the
   breaker half-open, with nobody left to settle it. *)
TripsOnlyWhenClosed ==
    /\ FailuresAfterFailure >= Threshold
    /\ state = "closed"

(* Mutated form: one failure too many before it trips. *)
TripsOneLate ==
    /\ FailuresAfterFailure > Threshold
    /\ state # "open"

Trips ==
    /\ FailuresAfterFailure >= Threshold
    /\ state # "open"

-----------------------------------------------------------------------------
(* execute(): the synchronous prologue *)

Admit(c) ==
    /\ call[c] = "idle"
    /\ state = "closed"
    /\ call' = [call EXCEPT ![c] = "running"]
    /\ UNCHANGED <<state, failureCount, sinceFailure>>

ClaimProbe(c) ==
    /\ call[c] = "idle"
    /\ state = "open"
    /\ WindowElapsed
    /\ state' = "half-open"
    /\ call' = [call EXCEPT ![c] = "probing"]
    /\ UNCHANGED <<failureCount, sinceFailure>>

(* Mutated form: a rejected call counts as a failure seen just now. *)
FailFastRestartsWindow(c) ==
    /\ call[c] = "idle"
    /\ state = "half-open" \/ (state = "open" /\ ~WindowElapsed)
    /\ call' = [call EXCEPT ![c] = "rejected"]
    /\ sinceFailure' = 0
    /\ UNCHANGED <<state, failureCount>>

FailFast(c) ==
    /\ call[c] = "idle"
    /\ state = "half-open" \/ (state = "open" /\ ~WindowElapsed)
    /\ call' = [call EXCEPT ![c] = "rejected"]
    /\ UNCHANGED <<state, failureCount, sinceFailure>>

Arrive(c) == Admit(c) \/ ClaimProbe(c) \/ FailFast(c)

(* The caller has handled 'Circuit open' and may call again. *)
HandleRejection(c) ==
    /\ call[c] = "rejected"
    /\ call' = [call EXCEPT ![c] = "idle"]
    /\ UNCHANGED <<state, failureCount, sinceFailure>>

-----------------------------------------------------------------------------
(* execute(): fn() settles.  Nothing remembers whether the call was the    *)
(* probe: a call admitted long before the breaker opened settles the same. *)

InFlight(c) == call[c] \in {"running", "probing"}

Succeed(c) ==
    /\ InFlight(c)
    /\ state' = "closed"
    /\ failureCount' = FailuresAfterSuccess
    /\ call' = [call EXCEPT ![c] = "idle"]
    /\ UNCHANGED sinceFailure

Fail(c) ==
    /\ InFlight(c)
    /\ state' = IF Trips THEN "open" ELSE state
    /\ failureCount' = FailuresAfterFailure
    /\ sinceFailure' = 0
    /\ call' = [call EXCEPT ![c] = "idle"]

(* Date.now() advances. *)
Tick ==
    /\ sinceFailure <= TimeoutMs
    /\ sinceFailure' = sinceFailure + 1
    /\ UNCHANGED <<state, failureCount, call>>

Next ==
    \/ Tick
    \/ \E c \in Callers :
          Arrive(c) \/ HandleRejection(c) \/ Succeed(c) \/ Fail(c)

Spec == Init /\ [][Next]_vars

(* Time passes, calls settle, and the service keeps being used. *)
FairSpec ==
    /\ Spec
    /\ WF_vars(Tick)
    /\ \A c \in Callers :
          /\ WF_vars(Arrive(c))
          /\ WF_vars(HandleRejection(c))
          /\ WF_vars(Succeed(c) \/ Fail(c))

-----------------------------------------------------------------------------
(* The breaker is away from closed exactly when the consecutive failures   *)
(* have reached the threshold, whichever mix of admitted, stale and probe  *)
(* calls produced them: it neither misses a trip nor trips early.          *)
TripsExactlyAtThreshold ==
    /\ state # "closed" => failureCount >= Threshold
    /\ state = "closed" /\ Threshold > 0 => failureCount < Threshold

(* A half-open breaker rejects everyone, so it must always have a probe in *)
(* flight whose settlement will move it on: it is never wedged.            *)
HalfOpenHasProbe ==
    state = "half-open" => \E c \in Callers : call[c] = "probing"

(* Once the dependency stops failing, the breaker ends up closed for good. *)
Recovery ==
    <>[][~ \E c \in Callers : Fail(c)]_vars => <>[](state = "closed")

(* What the comment in execute() (lines 45-55) claims of half-open: it is  *)
(* the mutex of the probe, so two probes are never in flight together.     *)
(* A call admitted before the trip that settles during the probe releases  *)
(* the mutex under it.                                                     *)
AtMostOneProbe ==
    \A c, d \in Callers : call[c] = "probing" /\ call[d] = "probing" => c = d
=============================================================================
