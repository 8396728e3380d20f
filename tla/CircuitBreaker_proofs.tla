------------------------ MODULE CircuitBreaker_proofs ------------------------
(* Safety of the breaker for every number of callers, threshold and window. *)
EXTENDS CircuitBreaker, TLAPS

(* The facts the induction needs: HalfOpenHasProbe is preserved because a  *)
(* failing probe finds the count at the threshold (TripsExactlyAtThreshold) *)
(* and therefore always leaves half-open.                                  *)
BreakerInv ==
    /\ TypeOK
    /\ TripsExactlyAtThreshold
    /\ HalfOpenHasProbe

(* A new breaker is closed, with no failure and no call. *)
LEMMA InitEstablishesInv == Init => BreakerInv
BY BreakerAssumption
DEF Init, BreakerInv, TypeOK, TripsExactlyAtThreshold, HalfOpenHasProbe,
    States, CallStates

(* Every step of every caller, and the passage of time, preserves it. *)
LEMMA StepPreservesInv == BreakerInv /\ [Next]_vars => BreakerInv'
<1> SUFFICES ASSUME BreakerInv, [Next]_vars
             PROVE  BreakerInv'
  OBVIOUS
<1> USE BreakerAssumption
    DEF BreakerInv, TypeOK, TripsExactlyAtThreshold, HalfOpenHasProbe,
        States, CallStates
<1>1. CASE Tick
  BY <1>1 DEF Tick
<1>2. ASSUME NEW c \in Callers, Admit(c)
      PROVE  BreakerInv'
  BY <1>2 DEF Admit
<1>3. ASSUME NEW c \in Callers, ClaimProbe(c)
      PROVE  BreakerInv'
  <2>1. call'[c] = "probing"
    BY <1>3 DEF ClaimProbe
  <2> QED
    BY <1>3, <2>1 DEF ClaimProbe
<1>4. ASSUME NEW c \in Callers, FailFast(c)
      PROVE  BreakerInv'
  <2>1. \A d \in Callers : call[d] = "probing" => call'[d] = "probing"
    BY <1>4 DEF FailFast
  <2> QED
    BY <1>4, <2>1 DEF FailFast
<1>5. ASSUME NEW c \in Callers, HandleRejection(c)
      PROVE  BreakerInv'
  <2>1. \A d \in Callers : call[d] = "probing" => call'[d] = "probing"
    BY <1>5 DEF HandleRejection
  <2> QED
    BY <1>5, <2>1 DEF HandleRejection
<1>6. ASSUME NEW c \in Callers, Succeed(c)
      PROVE  BreakerInv'
  BY <1>6 DEF Succeed, FailuresAfterSuccess
<1>7. ASSUME NEW c \in Callers, Fail(c)
      PROVE  BreakerInv'
  <2>1. FailuresAfterFailure \in 0..FailureCap
    BY DEF FailuresAfterFailure
  <2>2. failureCount >= Threshold => FailuresAfterFailure >= Threshold
    BY DEF FailuresAfterFailure
  <2>3. CASE Trips
    BY <1>7, <2>1, <2>3 DEF Fail, Trips
  <2>4. CASE ~Trips
    <3>1. state # "half-open"
      BY <2>2, <2>4 DEF Trips
    <3> QED
      BY <1>7, <2>1, <2>2, <2>4, <3>1 DEF Fail, Trips
  <2> QED
    BY <2>3, <2>4
<1>8. CASE UNCHANGED vars
  BY <1>8 DEF vars
<1> QED
  BY <1>1, <1>2, <1>3, <1>4, <1>5, <1>6, <1>7, <1>8 DEF Next, Arrive

(* The inductive invariant holds in every behaviour of the breaker. *)
THEOREM InvHolds == Spec => []BreakerInv
<1>1. Init => BreakerInv
  BY InitEstablishesInv
<1>2. BreakerInv /\ [Next]_vars => BreakerInv'
  BY StepPreservesInv
<1> QED
  BY <1>1, <1>2, PTL DEF Spec

(* The variables keep their types, the failure count its bound. *)
THEOREM TypeCorrect == Spec => []TypeOK
<1>1. BreakerInv => TypeOK
  BY DEF BreakerInv
<1> QED
  BY <1>1, InvHolds, PTL

(* The breaker leaves closed at the threshold, neither before nor after. *)
THEOREM TripsAtThreshold == Spec => []TripsExactlyAtThreshold
<1>1. BreakerInv => TripsExactlyAtThreshold
  BY DEF BreakerInv
<1> QED
  BY <1>1, InvHolds, PTL

(* A half-open breaker always has a probe in flight: it is never wedged. *)
THEOREM NeverWedged == Spec => []HalfOpenHasProbe
<1>1. BreakerInv => HalfOpenHasProbe
  BY DEF BreakerInv
<1> QED
  BY <1>1, InvHolds, PTL

-----------------------------------------------------------------------------
(* What the mutex of the probe would need *)

(* No call that a closed breaker admitted settles while another probes. *)
StragglersWait ==
    state = "half-open" =>
        \A c \in Callers : call[c] = "running" => call'[c] = "running"

(* The probe is alone, and there is none outside half-open. *)
MutexInv ==
    /\ AtMostOneProbe
    /\ state # "half-open" => \A c \in Callers : call[c] # "probing"

LEMMA StepPreservesMutex ==
    BreakerInv /\ MutexInv /\ [Next /\ StragglersWait]_vars => MutexInv'
<1> SUFFICES ASSUME BreakerInv, MutexInv, [Next /\ StragglersWait]_vars
             PROVE  MutexInv'
  OBVIOUS
<1> USE DEF BreakerInv, TypeOK, MutexInv, AtMostOneProbe
<1>1. CASE Tick
  BY <1>1 DEF Tick
<1>2. ASSUME NEW c \in Callers, Admit(c) \/ FailFast(c) \/ HandleRejection(c)
      PROVE  MutexInv'
  BY <1>2 DEF Admit, FailFast, HandleRejection
<1>3. ASSUME NEW c \in Callers, ClaimProbe(c)
      PROVE  MutexInv'
  BY <1>3 DEF ClaimProbe
<1>4. ASSUME NEW c \in Callers, Succeed(c) \/ Fail(c), StragglersWait
      PROVE  MutexInv'
  <2>1. /\ call' = [call EXCEPT ![c] = "idle"]
        /\ call[c] \in {"running", "probing"}
    BY <1>4 DEF Succeed, Fail, InFlight
  <2>2. CASE state = "half-open"
    <3>1. call[c] = "probing"
      BY <1>4, <2>1, <2>2 DEF StragglersWait
    <3>2. \A d \in Callers : call'[d] # "probing"
      BY <2>1, <3>1
    <3> QED
      BY <3>2
  <2>3. CASE state # "half-open"
    BY <2>1, <2>3
  <2> QED
    BY <2>2, <2>3
<1>5. CASE UNCHANGED vars
  BY <1>5 DEF vars
<1> QED
  BY <1>1, <1>2, <1>3, <1>4, <1>5 DEF Next, Arrive

(* The comment in execute() that calls half-open the mutex of the probe is *)
(* right but for one case: a call admitted before the trip that settles    *)
(* during the probe.  Without it two probes are never in flight together,  *)
(* for any number of callers.                                              *)
THEOREM HalfOpenIsAMutexButForStragglers ==
    Spec /\ [][StragglersWait]_vars => []AtMostOneProbe
<1>1. Init => MutexInv
  BY DEF Init, MutexInv, AtMostOneProbe
<1>2. BreakerInv /\ MutexInv /\ [Next /\ StragglersWait]_vars => MutexInv'
  BY StepPreservesMutex
<1>3. MutexInv => AtMostOneProbe
  BY DEF MutexInv
<1>4. [Next]_vars /\ [StragglersWait]_vars => [Next /\ StragglersWait]_vars
  OBVIOUS
<1> QED
  BY <1>1, <1>2, <1>3, <1>4, InvHolds, PTL DEF Spec
=============================================================================
