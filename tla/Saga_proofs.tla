---------------------------- MODULE Saga_proofs ----------------------------
(***************************************************************************)
(* Safety of a saga, and of the handler registry it is looked up in, for   *)
(* every number of steps and every set of handlers.  RegistryInv is about  *)
(* the registry alone; StackInv says how the stack, the recorded and the   *)
(* undone steps lie in the order of the steps; SagaInv adds what the       *)
(* caller sees and that nothing is forgotten.                              *)
(***************************************************************************)
EXTENDS Saga, TLAPS

(* As long as the service boots, no pair has been found. *)
RegistryInv ==
    /\ RegistryTypeOK
    /\ phase \in {"boot", "started"} => ~DeclaresSaga(handlers)

(* The latest step is on top, and what has been undone or recorded is not  *)
(* earlier than anything still on the stack.                               *)
StackInv ==
    /\ pc = "recording" => compensations # <<>>
    /\ \A i \in 1..Len(compensations) : compensations[i] < next
    /\ \A i, j \in 1..Len(compensations) :
          i < j => compensations[j] < compensations[i]
    /\ \A s \in recorded, i \in 1..Len(compensations) : compensations[i] < s
    /\ \A s \in (1..(next - 1)) \ effects :
          \A i \in 1..Len(compensations) : compensations[i] <= s

(* Before anything has failed every step so far is in place, and afterwards *)
(* the handler's error stays the one to throw, unless the store throws one. *)
OutcomeInv ==
    /\ pc \in {"called", "running"} =>
          recorded = {} /\ effects = 1..(next - 1) /\ thrown = "none"
    /\ pc = "returned" => recorded = {} /\ effects = Steps /\ thrown = "none"
    /\ pc \in {"compensating", "recording"} => thrown = "handler"
    /\ pc = "threw" => thrown \in {"handler", "store"}

(* NothingForgotten, from the call on. *)
KeptInv ==
    pc \notin {"returned", "dead"} /\ hasStore /\ thrown # "store" =>
        \A s \in effects : Pending(s) \/ s \in recorded \cup silent \cup unrecorded

SagaInv == TypeOK /\ StackInv /\ OutcomeInv /\ KeptInv

-----------------------------------------------------------------------------
(* The stack *)

(* What lies on the stack are steps. *)
LEMMA EntriesAreSteps ==
    ASSUME NEW q \in Seq(Steps)
    PROVE  /\ Len(q) \in Nat
           /\ \A i \in 1..Len(q) : q[i] \in Steps /\ q[i] \in Nat
<1>1. Len(q) \in Nat /\ \A i \in 1..Len(q) : q[i] \in Steps
  OBVIOUS
<1>2. \A s \in Steps : s \in Nat
  BY SagaAssumption DEF Steps
<1> QED
  BY <1>1, <1>2

(* A push puts s on top and moves the rest down by one. *)
LEMMA PushProperties ==
    ASSUME NEW s \in Steps, NEW q \in Seq(Steps)
    PROVE  /\ <<s>> \o q \in Seq(Steps)
           /\ Len(<<s>> \o q) = Len(q) + 1
           /\ (<<s>> \o q)[1] = s
           /\ \A i \in 1..Len(q) : (<<s>> \o q)[i + 1] = q[i]
           /\ \A i \in 2..(Len(q) + 1) : (<<s>> \o q)[i] = q[i - 1]
OBVIOUS

(* A pop takes the top off and moves the rest up by one. *)
LEMMA PopProperties ==
    ASSUME NEW q \in Seq(Steps), q # <<>>
    PROVE  /\ Tail(q) \in Seq(Steps)
           /\ Head(q) \in Steps
           /\ Head(q) = q[1]
           /\ 1 \in 1..Len(q)
           /\ Len(Tail(q)) = Len(q) - 1
           /\ \A i \in 1..Len(Tail(q)) : /\ Tail(q)[i] = q[i + 1]
                                         /\ i + 1 \in 1..Len(q)
           /\ \A i \in 2..Len(q) : /\ Tail(q)[i - 1] = q[i]
                                   /\ i - 1 \in 1..Len(Tail(q))
OBVIOUS
-----------------------------------------------------------------------------
(* The registry *)

(* Registering keeps the types of the Map. *)
LEMMA StoredType ==
    ASSUME RegistryTypeOK, NEW n \in Names, NEW h \in Handlers
    PROVE  /\ DOMAIN Stored(n, h) \subseteq Names
           /\ \A m \in DOMAIN Stored(n, h) : Stored(n, h)[m] \in Handlers
BY DEF RegistryTypeOK, Stored

(* The registry's invariant is inductive. *)
LEMMA RegistryStep ==
    ASSUME RegistryInv, [Next]_vars
    PROVE  RegistryInv'
<1>1. ASSUME NEW n \in Names, NEW h \in Handlers, Register(n, h)
      PROVE  RegistryInv'
  <2>1. RegistryTypeOK'
    BY <1>1, StoredType DEF Register, RegistryInv, RegistryTypeOK
  <2>2. phase' = "boot" => ~DeclaresSaga(handlers')
    BY <1>1 DEF Register, Validated
  <2> QED
    BY <1>1, <2>1, <2>2 DEF Register, RegistryInv
<1>2. CASE RegisterRefused \/ StartService
  BY <1>2
  DEF RegisterRefused, StartService, RegistryInv,
      RegistryTypeOK, DeclaresSaga
<1>3. CASE UNCHANGED registryVars
  BY <1>3 DEF registryVars, RegistryInv, RegistryTypeOK, DeclaresSaga
<1> QED
  BY <1>1, <1>2, <1>3 DEF Next, RegistryNext, vars

-----------------------------------------------------------------------------
(* The saga *)

(* Initially nothing has happened. *)
LEMMA InitEstablishesInv == Init => RegistryInv /\ SagaInv
<1> SUFFICES ASSUME Init PROVE RegistryInv /\ SagaInv
  OBVIOUS
<1>1. RegistryInv
  BY DEF Init, RegistryInit, RegistryInv, RegistryTypeOK, DeclaresSaga
<1>2. TypeOK
  BY <1>1, SagaAssumption DEF Init, TypeOK, RegistryInv
<1>3. StackInv /\ OutcomeInv /\ KeptInv
  BY SagaAssumption DEF Init, StackInv, OutcomeInv, KeptInv, Steps
<1> QED
  BY <1>1, <1>2, <1>3 DEF SagaInv

(* The types, one action of the saga at a time. *)
LEMMA TypeStep ==
    ASSUME SagaInv, RegistryInv', SagaNext
    PROVE  TypeOK'
<1> USE SagaAssumption DEF TypeOK, Steps
<1>0. TypeOK /\ RegistryTypeOK' /\ compensations \in Seq(Steps)
  BY DEF SagaInv, RegistryInv
<1>1. CASE Execute
  BY <1>0, <1>1 DEF Execute
<1>2. CASE StepSucceeds
  <2>1. compensations' \in Seq(Steps)
    BY <1>0, <1>2, PushProperties DEF StepSucceeds, Pushed
  <2> QED
    BY <1>0, <1>2, <2>1 DEF StepSucceeds
<1>3. CASE StepThrows
  BY <1>0, <1>3 DEF StepThrows
<1>4. CASE HandlerReturns \/ Rethrow
  BY <1>0, <1>4 DEF HandlerReturns, Rethrow
<1>5. CASE UndoSucceeds \/ UndoThrows \/ Record \/ RecordSwallows
  <2>1. compensations # <<>>
    BY <1>5 DEF UndoSucceeds, UndoThrows, Record, RecordSwallows, SagaInv, StackInv
  <2>2. Tail(compensations) \in Seq(Steps) /\ Head(compensations) \in Steps
    BY <1>0, <2>1, PopProperties
  <2>3. CASE UndoSucceeds
    BY <1>0, <2>2, <2>3 DEF UndoSucceeds
  <2>4. CASE UndoThrows
    BY <1>0, <2>2, <2>4
    DEF UndoThrows, RemainingAfterUndoThrows, ThrownAfterUndoThrows
  <2>5. CASE Record
    BY <1>0, <2>2, <2>5 DEF Record, RemainingAfterUndoThrows, Top
  <2>6. CASE RecordSwallows
    BY <1>0, <2>2, <2>6 DEF RecordSwallows, RemainingAfterUndoThrows, Top
  <2> QED
    BY <1>5, <2>3, <2>4, <2>5, <2>6
<1>6. CASE Crash
  BY <1>0, <1>6 DEF Crash
<1>7. CASE RecordThrows
  BY <1>0, <1>7 DEF RecordThrows
<1>8. ASSUME NEW s \in Steps, Reap(s)
      PROVE  TypeOK'
  BY <1>0, <1>8 DEF Reap
<1> QED
  BY <1>1, <1>2, <1>3, <1>4, <1>5, <1>6, <1>7, <1>8 DEF SagaNext, RunSaga

(* The order of the stack, one action of the saga at a time. *)
LEMMA StackStep ==
    ASSUME SagaInv, SagaNext
    PROVE  StackInv'
<1> DEFINE depth == Len(compensations)
<1>0. /\ TypeOK /\ StackInv /\ OutcomeInv
      /\ compensations \in Seq(Steps) /\ Steps \subseteq Nat
      /\ next \in Nat /\ effects \subseteq Steps /\ recorded \subseteq Steps
  BY SagaAssumption DEF SagaInv, TypeOK, Steps
<1>a. /\ depth \in Nat
      /\ \A i \in 1..depth : compensations[i] \in Steps /\ compensations[i] \in Nat
  BY <1>0, EntriesAreSteps
<1>1. CASE Execute \/ HandlerReturns \/ Rethrow
  BY <1>0, <1>1 DEF Execute, HandlerReturns, Rethrow, StackInv
<1>2. CASE StepSucceeds
  <2>1. /\ recorded = {} /\ recorded' = {} /\ pc' = "running"
        /\ effects = 1..(next - 1) /\ effects' = effects \cup {next}
        /\ next' = next + 1 /\ next \in Steps
    BY <1>0, <1>2 DEF StepSucceeds, OutcomeInv
  <2>2. /\ Len(compensations') = depth + 1
        /\ compensations'[1] = next
        /\ \A i \in 2..(depth + 1) : compensations'[i] = compensations[i - 1]
    BY <1>0, <1>2, PushProperties DEF StepSucceeds, Pushed
  <2>3. depth \in Nat /\ \A i \in 1..depth : compensations[i] \in Nat
    BY <1>a
  <2>4. \A i \in 1..(depth + 1) :
           i = 1 \/ (i \in 2..(depth + 1) /\ i - 1 \in 1..depth)
    BY <2>3
  <2>5. \A i \in 1..(depth + 1) : compensations'[i] < next + 1
    BY <1>0, <1>a, <2>2, <2>3, <2>4 DEF StackInv
  <2>6. \A i, j \in 1..(depth + 1) :
           i < j => compensations'[j] < compensations'[i]
    <3> SUFFICES ASSUME NEW i \in 1..(depth + 1), NEW j \in 1..(depth + 1),
                        i < j
                 PROVE  compensations'[j] < compensations'[i]
      OBVIOUS
    <3>1. j \in 2..(depth + 1) /\ j - 1 \in 1..depth
      BY <2>3, <2>4
    <3>2. CASE i = 1
      BY <1>0, <2>2, <3>1, <3>2 DEF StackInv
    <3>3. CASE i \in 2..(depth + 1) /\ i - 1 \in 1..depth
      BY <1>0, <2>2, <2>3, <3>1, <3>3 DEF StackInv
    <3> QED
      BY <2>4, <3>2, <3>3
  <2>7. (1..(next' - 1)) \ effects' = {}
    BY <1>0, <2>1
  <2> QED
    BY <2>1, <2>2, <2>5, <2>6, <2>7 DEF StackInv
<1>3. CASE StepThrows
  BY <1>0, <1>3 DEF StepThrows, StackInv
<1>4. CASE UndoSucceeds \/ UndoThrows \/ Record \/ RecordSwallows
  <2>0. compensations # <<>>
    BY <1>0, <1>4 DEF UndoSucceeds, UndoThrows, Record, RecordSwallows, StackInv
  <2>1. /\ Head(compensations) = compensations[1]
        /\ 1 \in 1..depth
        /\ depth \in Nat
        /\ Len(Tail(compensations)) = depth - 1
        /\ \A i \in 1..(depth - 1) :
              /\ Tail(compensations)[i] = compensations[i + 1]
              /\ i + 1 \in 1..depth
    BY <1>0, <2>0, PopProperties
  <2>2. \A i \in 1..(depth - 1) : Tail(compensations)[i] < Head(compensations)
    BY <1>0, <2>1 DEF StackInv
  <2>3. /\ \A i \in 1..(depth - 1) : Tail(compensations)[i] < next
        /\ \A i, j \in 1..(depth - 1) :
              i < j => Tail(compensations)[j] < Tail(compensations)[i]
        /\ \A s \in recorded, i \in 1..(depth - 1) : Tail(compensations)[i] < s
        /\ \A s \in (1..(next - 1)) \ effects, i \in 1..(depth - 1) :
              Tail(compensations)[i] <= s
    BY <1>0, <2>1 DEF StackInv
  <2>4. CASE UndoSucceeds
    <3>1. /\ compensations' = Tail(compensations) /\ recorded' = recorded
          /\ effects' = effects \ {Head(compensations)} /\ next' = next
          /\ pc' = "compensating"
      BY <2>4 DEF UndoSucceeds, Top
    <3>2. \A s \in (1..(next - 1)) \ effects' :
             s = Head(compensations) \/ s \in (1..(next - 1)) \ effects
      BY <3>1
    <3>3. \A i \in 1..(depth - 1) : Tail(compensations)[i] \in Nat
      BY <1>a, <2>1
    <3>4. Head(compensations) \in Nat
      BY <1>a, <2>1
    <3>5. \A s \in (1..(next' - 1)) \ effects', i \in 1..(depth - 1) :
             Tail(compensations)[i] <= s
      BY <1>0, <2>2, <2>3, <3>1, <3>2, <3>3, <3>4
    <3> QED
      BY <2>1, <2>3, <3>1, <3>5 DEF StackInv
  <2>5. CASE UndoThrows
    <3>1. CASE hasStore
      BY <1>0, <2>0, <2>5, <3>1 DEF UndoThrows, StackInv
    <3>2. CASE ~hasStore
      <4>1. /\ compensations' = Tail(compensations) /\ recorded' = recorded
            /\ effects' = effects /\ next' = next /\ pc' = "compensating"
        BY <2>5, <3>2 DEF UndoThrows, RemainingAfterUndoThrows
      <4> QED
        BY <2>1, <2>3, <4>1 DEF StackInv
    <3> QED
      BY <3>1, <3>2
  <2>6. CASE Record
    <3>1. /\ compensations' = Tail(compensations) /\ effects' = effects
          /\ recorded' = recorded \cup {Head(compensations)} /\ next' = next
          /\ pc' = "compensating"
      BY <2>6 DEF Record, RemainingAfterUndoThrows, Top
    <3> QED
      BY <2>1, <2>2, <2>3, <3>1 DEF StackInv
  <2>7. CASE RecordSwallows
    <3>1. /\ compensations' = Tail(compensations) /\ effects' = effects
          /\ recorded' = recorded /\ next' = next /\ pc' = "compensating"
      BY <2>7 DEF RecordSwallows, RemainingAfterUndoThrows
    <3> QED
      BY <2>1, <2>3, <3>1 DEF StackInv
  <2> QED
    BY <1>4, <2>4, <2>5, <2>6, <2>7
<1>5. CASE Crash \/ RecordThrows
  BY <1>5 DEF Crash, RecordThrows, StackInv
<1>6. ASSUME NEW s \in Steps, Reap(s)
      PROVE  StackInv'
  <2>1. /\ compensations' = compensations /\ next' = next /\ pc' = pc
        /\ recorded' \subseteq recorded /\ s \in recorded
        /\ effects' = effects \ {s}
    BY <1>6 DEF Reap
  <2>2. \A i \in 1..depth : compensations[i] \in Nat /\ compensations[i] <= s
    BY <1>0, <1>a, <2>1 DEF StackInv
  <2>3. \A t \in (1..(next - 1)) \ effects' :
           t = s \/ t \in (1..(next - 1)) \ effects
    BY <2>1
  <2>4. \A t \in (1..(next' - 1)) \ effects', i \in 1..depth :
           compensations[i] <= t
    BY <1>0, <2>1, <2>2, <2>3 DEF StackInv
  <2> QED
    BY <1>0, <2>1, <2>4 DEF StackInv
<1> QED
  BY <1>1, <1>2, <1>3, <1>4, <1>5, <1>6 DEF SagaNext, RunSaga

(* What the caller sees, one action of the saga at a time. *)
LEMMA OutcomeStep ==
    ASSUME SagaInv, SagaNext
    PROVE  OutcomeInv'
<1> USE DEF OutcomeInv
<1>0. /\ OutcomeInv /\ next \in Nat /\ NumSteps \in Nat /\ next >= 1
      /\ StackInv
  BY SagaAssumption DEF SagaInv, TypeOK
<1>1. CASE Execute \/ Rethrow \/ RecordThrows \/ Crash
  BY <1>0, <1>1 DEF Execute, Rethrow, RecordThrows, Crash
<1>2. CASE StepSucceeds
  <2>1. effects' = 1..(next' - 1)
    BY <1>0, <1>2 DEF StepSucceeds
  <2> QED
    BY <1>0, <1>2, <2>1 DEF StepSucceeds
<1>3. CASE StepThrows
  BY <1>0, <1>3 DEF StepThrows
<1>4. CASE HandlerReturns
  BY <1>0, <1>4 DEF HandlerReturns, Steps
<1>5. CASE UndoSucceeds \/ UndoThrows \/ Record \/ RecordSwallows
  BY <1>0, <1>5
  DEF UndoSucceeds, UndoThrows, Record, RecordSwallows, ThrownAfterUndoThrows
<1>6. ASSUME NEW s \in Steps, Reap(s)
      PROVE  OutcomeInv'
  BY <1>0, <1>6 DEF Reap
<1> QED
  BY <1>1, <1>2, <1>3, <1>4, <1>5, <1>6 DEF SagaNext, RunSaga

(* Nothing is forgotten, one action of the saga at a time. *)
LEMMA KeptStep ==
    ASSUME SagaInv, SagaNext
    PROVE  KeptInv'
<1> DEFINE depth == Len(compensations)
<1>0. /\ KeptInv /\ compensations \in Seq(Steps) /\ depth \in Nat
      /\ DOMAIN compensations = 1..depth
      /\ pc \in {"running", "compensating", "recording"} => thrown # "store"
  BY EntriesAreSteps DEF SagaInv, TypeOK, OutcomeInv
<1>1. CASE Execute \/ HandlerReturns \/ RecordThrows \/ Rethrow \/ Crash
  BY <1>0, <1>1
  DEF Execute, HandlerReturns, RecordThrows, Rethrow, Crash, KeptInv, Pending
<1>2. CASE StepSucceeds
  <2>1. /\ compensations' \in Seq(Steps)
        /\ Len(compensations') = depth + 1
        /\ compensations'[1] = next
        /\ \A i \in 1..depth : compensations'[i + 1] = compensations[i]
    BY <1>0, <1>2, PushProperties DEF StepSucceeds, Pushed
  <2>2. DOMAIN compensations' = 1..(depth + 1)
    BY <2>1
  <2>3. /\ effects' = effects \cup {next} /\ pc = "running"
        /\ recorded' = recorded /\ silent' = silent /\ hasStore' = hasStore
        /\ unrecorded' = unrecorded
    BY <1>2 DEF StepSucceeds
  <2>4. ASSUME NEW s, s = next
        PROVE  Pending(s)'
    <3>1. 1 \in DOMAIN compensations' /\ compensations'[1] = s
      BY <1>0, <2>1, <2>2, <2>4
    <3> QED
      BY <3>1 DEF Pending
  <2>5. ASSUME NEW s, Pending(s)
        PROVE  Pending(s)'
    <3>1. PICK i \in 1..depth : compensations[i] = s
      BY <1>0, <2>5 DEF Pending
    <3>2. i + 1 \in DOMAIN compensations' /\ compensations'[i + 1] = s
      BY <1>0, <2>1, <2>2, <3>1
    <3> QED
      BY <3>2 DEF Pending
  <2>6. hasStore => \A s \in effects :
           Pending(s) \/ s \in recorded \cup silent \cup unrecorded
    BY <1>0, <2>3 DEF KeptInv
  <2>7. hasStore' => \A s \in effects' :
           Pending(s)' \/ s \in (recorded \cup silent \cup unrecorded)'
    BY <2>3, <2>4, <2>5, <2>6
  <2> QED
    BY <2>7 DEF KeptInv
<1>3. CASE StepThrows
  BY <1>0, <1>3 DEF StepThrows, KeptInv, Pending
<1>4. CASE UndoSucceeds \/ UndoThrows \/ Record \/ RecordSwallows
  <2>0. /\ compensations # <<>> /\ pc \in {"compensating", "recording"}
        /\ silent' = silent /\ hasStore' = hasStore
        /\ unrecorded \subseteq unrecorded'
    BY <1>4
    DEF UndoSucceeds, UndoThrows, Record, RecordSwallows, SagaInv, StackInv
  <2>1. /\ Tail(compensations) \in Seq(Steps)
        /\ Head(compensations) = compensations[1]
        /\ \A i \in 2..depth : /\ Tail(compensations)[i - 1] = compensations[i]
                               /\ i - 1 \in 1..Len(Tail(compensations))
    BY <1>0, <2>0, PopProperties
  <2>2. ASSUME NEW s, Pending(s), s # Top,
               compensations' = Tail(compensations)
        PROVE  Pending(s)'
    <3>1. PICK i \in 1..depth : compensations[i] = s
      BY <1>0, <2>2 DEF Pending
    <3>2. i \in 2..depth
      BY <1>0, <2>1, <2>2, <3>1 DEF Top
    <3>3. i - 1 \in DOMAIN compensations' /\ compensations'[i - 1] = s
      BY <2>1, <2>2, <3>1, <3>2
    <3> QED
      BY <3>3 DEF Pending
  <2>3. hasStore => \A s \in effects :
           Pending(s) \/ s \in recorded \cup silent \cup unrecorded
    BY <1>0, <2>0 DEF KeptInv
  <2>4. CASE UndoSucceeds
    <3>1. hasStore' => \A s \in effects' :
             Pending(s)' \/ s \in (recorded \cup silent \cup unrecorded)'
      BY <2>0, <2>2, <2>3, <2>4 DEF UndoSucceeds
    <3> QED
      BY <3>1 DEF KeptInv
  <2>5. CASE UndoThrows
    BY <1>0, <2>0, <2>5 DEF UndoThrows, KeptInv, Pending
  <2>6. CASE Record
    <3>1. hasStore' => \A s \in effects' :
             Pending(s)' \/ s \in (recorded \cup silent \cup unrecorded)'
      BY <2>0, <2>2, <2>3, <2>6 DEF Record, RemainingAfterUndoThrows
    <3> QED
      BY <3>1 DEF KeptInv
  <2>7. CASE RecordSwallows
    <3>1. hasStore' => \A s \in effects' :
             Pending(s)' \/ s \in (recorded \cup silent \cup unrecorded)'
      BY <2>0, <2>2, <2>3, <2>7 DEF RecordSwallows, RemainingAfterUndoThrows
    <3> QED
      BY <3>1 DEF KeptInv
  <2> QED
    BY <1>4, <2>4, <2>5, <2>6, <2>7
<1>5. ASSUME NEW s \in Steps, Reap(s)
      PROVE  KeptInv'
  BY <1>0, <1>5 DEF Reap, KeptInv, Pending
<1> QED
  BY <1>1, <1>2, <1>3, <1>4, <1>5 DEF SagaNext, RunSaga

-----------------------------------------------------------------------------
(* The two invariants together are inductive. *)
LEMMA StepPreservesInv ==
    RegistryInv /\ SagaInv /\ [Next]_vars => RegistryInv' /\ SagaInv'
<1> SUFFICES ASSUME RegistryInv, SagaInv, [Next]_vars
             PROVE  RegistryInv' /\ SagaInv'
  OBVIOUS
<1>1. RegistryInv'
  BY RegistryStep
<1>2. CASE SagaNext
  BY <1>1, <1>2, TypeStep, StackStep, OutcomeStep, KeptStep DEF SagaInv
<1>3. CASE UNCHANGED sagaVars
  <2>1. TypeOK'
    BY <1>1, <1>3 DEF sagaVars, SagaInv, TypeOK, RegistryInv
  <2>2. StackInv' /\ OutcomeInv' /\ KeptInv'
    BY <1>3 DEF sagaVars, SagaInv, StackInv, OutcomeInv, KeptInv, Pending
  <2> QED
    BY <1>1, <2>1, <2>2 DEF SagaInv
<1> QED
  BY <1>1, <1>2, <1>3 DEF Next, vars

(* They hold in every behaviour. *)
THEOREM InvHolds == Spec => [](RegistryInv /\ SagaInv)
<1>1. Init => RegistryInv /\ SagaInv
  BY InitEstablishesInv
<1>2. RegistryInv /\ SagaInv /\ [Next]_vars => RegistryInv' /\ SagaInv'
  BY StepPreservesInv
<1> QED
  BY <1>1, <1>2, PTL DEF Spec

(* The variables of the saga and of the registry keep their types. *)
THEOREM TypeCorrect == Spec => []TypeOK
<1>1. SagaInv => TypeOK
  BY DEF SagaInv
<1> QED
  BY <1>1, InvHolds, PTL

(* A saga that declares a dispatch to another saga never goes live, in     *)
(* whatever order the handlers are registered.                             *)
THEOREM NestingNeverLive == Spec => []NestingCaughtAtBoot
<1>1. RegistryInv => NestingCaughtAtBoot
  BY DEF RegistryInv, NestingCaughtAtBoot
<1> QED
  BY <1>1, InvHolds, PTL

(* With a store that does not throw, every effect of a failed saga is on   *)
(* the stack, recorded, of a step that had no chance to register its       *)
(* compensation, or of a compensation the store could only log.            *)
THEOREM NothingIsForgotten == Spec => []NothingForgotten
<1>1. SagaInv => NothingForgotten
  BY DEF SagaInv, KeptInv, NothingForgotten
<1> QED
  BY <1>1, InvHolds, PTL

(* No step is undone under a later one that is still to be undone. *)
THEOREM CompensationsRunInReverse == Spec => []UndoneInReverse
<1>1. ASSUME SagaInv
      PROVE  UndoneInReverse
  <2>1. /\ StackInv /\ next \in Nat
        /\ DOMAIN compensations = 1..Len(compensations)
    BY <1>1 DEF SagaInv, TypeOK
  <2> QED
    BY <2>1 DEF StackInv, UndoneInReverse, Pending
<1> QED
  BY <1>1, InvHolds, PTL

(* The caller of a saga that failed sees the handler's error or, when the  *)
(* store throws, the store's, but never a compensation's; and success only *)
(* of a saga whose every step is in place.                                 *)
THEOREM CallerSeesTheHandlersError == Spec => []ErrorIsTheHandlers
<1>1. SagaInv => ErrorIsTheHandlers
  BY DEF SagaInv, OutcomeInv, ErrorIsTheHandlers
<1> QED
  BY <1>1, InvHolds, PTL

-----------------------------------------------------------------------------
(* Termination *)

(* The steps runSaga can still take at most: a step of the handler costs   *)
(* one, its undoing two if the error must be recorded, and the outcome one.*)
ToUndo == 2 * Len(compensations)
ToPerform == 3 * (NumSteps + 1 - next)

StepsLeft ==
    CASE pc = "called" -> ToPerform + ToUndo + 3
      [] pc = "running" -> ToPerform + ToUndo + 2
      [] pc = "compensating" -> ToUndo + 1
      [] pc = "recording" -> ToUndo
      [] OTHER -> 0

LEMMA NumbersOfSteps ==
    ASSUME TypeOK
    PROVE  /\ ToUndo \in Nat /\ ToPerform \in Nat /\ StepsLeft \in Nat
           /\ Len(compensations) \in Nat
           /\ next \in Steps => ToPerform >= 3
<1>1. Len(compensations) \in Nat /\ NumSteps \in Nat /\ next \in 1..(NumSteps + 1)
  BY SagaAssumption DEF TypeOK
<1>2. ToUndo \in Nat /\ ToPerform \in Nat /\ (next \in Steps => ToPerform >= 3)
  BY <1>1 DEF ToUndo, ToPerform, Steps
<1>3. StepsLeft \in Nat
  BY <1>2 DEF StepsLeft
<1> QED
  BY <1>1, <1>2, <1>3

(* What is left after a step is a number of steps too. *)
LeftIsANumber == TypeOK => StepsLeft \in Nat

LEMMA NumberNext == TypeOK' => StepsLeft' \in Nat
<1>1. LeftIsANumber
  BY NumbersOfSteps DEF LeftIsANumber
<1>2. LeftIsANumber'
  BY <1>1, PTL
<1> QED
  BY <1>2 DEF LeftIsANumber

(* A step of runSaga uses one up, or more. *)
LEMMA RunRunsDown ==
    ASSUME SagaInv, RunSaga
    PROVE  StepsLeft' < StepsLeft
<1>0. /\ ToUndo \in Nat /\ ToPerform \in Nat /\ Len(compensations) \in Nat
      /\ next \in Steps => ToPerform >= 3
      /\ next \in Nat /\ NumSteps \in Nat /\ compensations \in Seq(Steps)
  BY NumbersOfSteps, SagaAssumption DEF SagaInv, TypeOK
<1>1. UNCHANGED compensations => ToUndo' = ToUndo
  BY DEF ToUndo
<1>2. UNCHANGED next => ToPerform' = ToPerform
  BY DEF ToPerform
<1>3. compensations # <<>> /\ compensations' = Tail(compensations) =>
         ToUndo' = ToUndo - 2 /\ ToUndo >= 2
  <2> SUFFICES ASSUME compensations # <<>>, compensations' = Tail(compensations)
               PROVE  ToUndo' = ToUndo - 2 /\ ToUndo >= 2
    OBVIOUS
  <2>1. Len(compensations') = Len(compensations) - 1 /\ Len(compensations) >= 1
    BY <1>0, PopProperties
  <2> QED
    BY <1>0, <2>1 DEF ToUndo
<1>4. CASE Execute
  BY <1>0, <1>1, <1>2, <1>4 DEF Execute, StepsLeft
<1>5. CASE StepSucceeds
  <2>1. next \in Steps /\ next' = next + 1 /\ pc = "running" /\ pc' = "running"
    BY <1>5 DEF StepSucceeds
  <2>2. Len(compensations') = Len(compensations) + 1
    BY <1>0, <1>5, <2>1, PushProperties DEF StepSucceeds, Pushed
  <2>3. ToUndo' = ToUndo + 2 /\ ToPerform' = ToPerform - 3
    BY <1>0, <2>1, <2>2 DEF ToUndo, ToPerform
  <2> QED
    BY <1>0, <2>1, <2>3 DEF StepsLeft
<1>6. CASE StepThrows
  BY <1>0, <1>1, <1>6 DEF StepThrows, StepsLeft
<1>7. CASE HandlerReturns
  BY <1>0, <1>7 DEF HandlerReturns, StepsLeft
<1>8. CASE UndoSucceeds
  BY <1>0, <1>3, <1>8 DEF UndoSucceeds, StepsLeft
<1>9. CASE UndoThrows
  BY <1>0, <1>1, <1>3, <1>9
  DEF UndoThrows, RemainingAfterUndoThrows, StepsLeft
<1>10. CASE Record \/ RecordSwallows \/ RecordThrows
  <2>1. compensations # <<>>
    BY <1>10 DEF Record, RecordSwallows, RecordThrows, SagaInv, StackInv
  <2>2. ToUndo >= 2
    BY <1>0, <2>1 DEF ToUndo
  <2> QED
    BY <1>0, <1>3, <1>10, <2>1, <2>2
    DEF Record, RecordSwallows, RecordThrows, RemainingAfterUndoThrows, StepsLeft
<1>11. CASE Rethrow
  BY <1>0, <1>11 DEF Rethrow, StepsLeft
<1> QED
  BY <1>4, <1>5, <1>6, <1>7, <1>8, <1>9, <1>10, <1>11 DEF RunSaga

(* Nothing gives any back: not the reaper, a crash or the registry. *)
LEMMA NothingRunsUp ==
    ASSUME SagaInv, TypeOK', [Next]_vars
    PROVE  StepsLeft' <= StepsLeft
<1>0. StepsLeft \in Nat /\ StepsLeft' \in Nat
  BY NumbersOfSteps, NumberNext DEF SagaInv
<1>1. UNCHANGED <<pc, compensations, next>> => StepsLeft' = StepsLeft
  BY DEF StepsLeft, ToUndo, ToPerform
<1>2. CASE Crash
  BY <1>0, <1>2 DEF Crash, StepsLeft
<1>3. ASSUME NEW s \in Steps, Reap(s)
      PROVE  StepsLeft' <= StepsLeft
  BY <1>0, <1>1, <1>3 DEF Reap
<1>4. CASE RunSaga
  BY <1>0, <1>4, RunRunsDown
<1>5. CASE UNCHANGED sagaVars
  BY <1>0, <1>1, <1>5 DEF sagaVars
<1> QED
  BY <1>2, <1>3, <1>4, <1>5 DEF Next, SagaNext, vars

(* A saga takes at most 3 * NumSteps + 3 steps from its call to its        *)
(* outcome, whatever throws on the way.  With the fairness of the steps    *)
(* this is why a saga that fails gets through its compensations.           *)
THEOREM SagaRunsOut ==
    Spec => /\ [](StepsLeft \in 0..(3 * NumSteps + 3))
            /\ [][/\ StepsLeft' <= StepsLeft
                  /\ RunSaga => StepsLeft' < StepsLeft]_vars
<1> DEFINE Bounded == StepsLeft \in 0..(3 * NumSteps + 3)
<1>1. Init => Bounded
  BY SagaAssumption DEF Init, StepsLeft, ToUndo, ToPerform
<1>2. SagaInv /\ TypeOK' /\ [Next]_vars =>
         /\ [/\ StepsLeft' <= StepsLeft
             /\ RunSaga => StepsLeft' < StepsLeft]_vars
         /\ Bounded => Bounded'
  <2> SUFFICES ASSUME SagaInv, TypeOK', [Next]_vars
               PROVE  /\ StepsLeft' <= StepsLeft
                      /\ RunSaga => StepsLeft' < StepsLeft
                      /\ Bounded => Bounded'
    OBVIOUS
  <2>1. StepsLeft' \in Nat /\ StepsLeft \in Nat
    BY NumbersOfSteps, NumberNext DEF SagaInv
  <2>2. StepsLeft' <= StepsLeft /\ (RunSaga => StepsLeft' < StepsLeft)
    BY NothingRunsUp, RunRunsDown
  <2> QED
    BY <2>1, <2>2, SagaAssumption
<1> QED
  BY <1>1, <1>2, InvHolds, TypeCorrect, PTL DEF Spec
=============================================================================
