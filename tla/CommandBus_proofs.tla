------------------------- MODULE CommandBus_proofs -------------------------
(***************************************************************************)
(* Safety of the transactional pipeline, and of the event bus beside it,   *)
(* for every number of commands, retries and listeners and every set of    *)
(* faults.  EffectInv says what a command has done at each place of its    *)
(* pipeline; ContentionInv counts: an attempt lost to a conflict is paid   *)
(* for by another command's commit.  The metric is compared with the       *)
(* retries as sums over all commands and labels.                           *)
(***************************************************************************)
EXTENDS EventBus, FiniteSetTheorems, TLAPS

(* Effects happen once, at the commit; the hook once, after it. *)
EffectInv ==
    \A c \in Commands :
        /\ ~escaped[c]
        /\ pc[c] \in {"ready", "inTx", "backoff"} =>
              applied[c] = 0 /\ hooked[c] = 0
        /\ pc[c] = "committed" => applied[c] = 1 /\ hooked[c] = 0
        /\ pc[c] = "replied" => applied[c] = 1 /\ hooked[c] = 1
        /\ pc[c] = "failed" =>
              /\ hooked[c] = 0
              /\ applied[c] \in {0, 1}
              /\ applied[c] = 1 => c \in unacked /\ c \in faulted

(* The commands whose writes are in. *)
Writers == {c \in Commands : applied[c] = 1}

(* The version counts the writers.  A command that met only conflicts has  *)
(* no more failed attempts than there had been commits when it began the   *)
(* current one, none of them its own.                                      *)
ContentionInv ==
    /\ version = Cardinality(Writers)
    /\ \A c \in Commands \ faulted :
          /\ attempt[c] <= version
          /\ pc[c] = "inTx" => attempt[c] <= snapshot[c] /\ snapshot[c] <= version
          /\ pc[c] = "failed" => attempt[c] < Cardinality(Commands)
    /\ \A c \in Commands : pc[c] = "failed" => attempt[c] >= 1

(* Until a command fails the loop condition holds; it fails with the error *)
(* of an attempt, after a transient one when the retries are used up, and  *)
(* without another fault the last error was transient.                     *)
RetriesInv ==
    \A c \in Commands :
        /\ pc[c] # "failed" => attempt[c] <= MaxRetries
        /\ pc[c] = "failed" =>
              /\ error[c] \in Errors
              /\ IsTransient(error[c]) => attempt[c] = MaxRetries + 1
              /\ c \notin faulted => attempt[c] = MaxRetries + 1

BusInv == TypeOK /\ EffectInv /\ ContentionInv /\ RetriesInv

-----------------------------------------------------------------------------
(* Before the first attempt nothing has happened. *)
LEMMA InitEstablishesInv == Init => BusInv
<1> SUFFICES ASSUME Init PROVE BusInv
  OBVIOUS
<1>1. TypeOK
  BY BusAssumption DEF Init, TypeOK
<1>2. EffectInv /\ RetriesInv
  BY BusAssumption DEF Init, EffectInv, RetriesInv
<1>3. Writers = {}
  BY DEF Init, Writers
<1>4. ContentionInv
  BY <1>3, FS_EmptySet DEF Init, ContentionInv
<1> QED
  BY <1>1, <1>2, <1>4 DEF BusInv

-----------------------------------------------------------------------------
(* The catch block keeps the types of what it changes. *)
LEMMA CatchType ==
    ASSUME TypeOK, NEW c \in Commands, NEW e \in Errors, Catch(c, e),
           attempt[c] <= MaxRetries
    PROVE  /\ attempt' = [attempt EXCEPT ![c] = attempt[c] + 1]
           /\ attempt' \in [Commands -> 0..(MaxRetries + 1)]
           /\ metric' \in [Labels \X BOOLEAN -> Nat]
           /\ error' \in [Commands -> Errors \cup {"none", "unreachable"}]
           /\ \A d \in Commands \ {c} : error'[d] = error[d]
           /\ pc'[c] = "failed" => error'[c] = e
           /\ \/ /\ pc' = [pc EXCEPT ![c] = "backoff"]
                 /\ IsTransient(e)
                 /\ attempt[c] + 1 <= MaxRetries
              \/ /\ pc' = [pc EXCEPT ![c] = "failed"]
                 /\ ~IsTransient(e) \/ attempt[c] + 1 = MaxRetries + 1
<1>1. attempt[c] \in Nat /\ MaxRetries \in Nat
  BY BusAssumption DEF TypeOK
<1>2. WillRetry(c, e) \in BOOLEAN
  BY DEF WillRetry
<1>3. metric' \in [Labels \X BOOLEAN -> Nat]
  <2>1. CASE Observed(e)
    <3>1. LabelOf(e) \in Labels
      BY <2>1 DEF Observed, LabelOf, Labels
    <3>2. <<LabelOf(e), WillRetry(c, e)>> \in Labels \X BOOLEAN
      BY <3>1, <1>2
    <3>3. metric' = [metric EXCEPT ![<<LabelOf(e), WillRetry(c, e)>>] = @ + 1]
      BY <2>1 DEF Catch, RecordObservation
    <3>4. metric[<<LabelOf(e), WillRetry(c, e)>>] + 1 \in Nat
      BY <3>2 DEF TypeOK
    <3> DEFINE key == <<LabelOf(e), WillRetry(c, e)>>
    <3> HIDE DEF key
    <3> QED
      BY <3>2, <3>3, <3>4 DEF TypeOK, key
  <2>2. CASE ~Observed(e)
    BY <2>2 DEF Catch, RecordObservation, TypeOK
  <2> QED
    BY <2>1, <2>2
<1>4. attempt' = [attempt EXCEPT ![c] = attempt[c] + 1]
  BY DEF Catch
<1>5. attempt' \in [Commands -> 0..(MaxRetries + 1)]
  BY <1>1, <1>4 DEF TypeOK
<1>6. \/ /\ pc' = [pc EXCEPT ![c] = "backoff"]
         /\ IsTransient(e)
         /\ attempt[c] + 1 <= MaxRetries
      \/ /\ pc' = [pc EXCEPT ![c] = "failed"]
         /\ ~IsTransient(e) \/ attempt[c] + 1 = MaxRetries + 1
  <2>1. CASE WillRetry(c, e)
    BY <2>1 DEF Catch, WillRetry
  <2>2. CASE ~WillRetry(c, e)
    <3>1. pc' = [pc EXCEPT ![c] = "failed"]
      BY <2>2 DEF Catch
    <3>2. ~IsTransient(e) \/ ~(attempt[c] + 1 <= MaxRetries)
      BY <2>2 DEF WillRetry
    <3>3. ~(attempt[c] + 1 <= MaxRetries) => attempt[c] + 1 = MaxRetries + 1
      BY <1>1
    <3> QED
      BY <3>1, <3>2, <3>3
  <2> QED
    BY <2>1, <2>2
<1>7. /\ error' \in [Commands -> Errors \cup {"none", "unreachable"}]
      /\ \A d \in Commands \ {c} : error'[d] = error[d]
      /\ pc'[c] = "failed" => error'[c] = e
  <2>1. CASE WillRetry(c, e)
    BY <2>1 DEF Catch, TypeOK
  <2>2. CASE ~WillRetry(c, e)
    BY <2>2 DEF Catch, TypeOK
  <2> QED
    BY <2>1, <2>2
<1> QED
  BY <1>3, <1>4, <1>5, <1>6, <1>7

(* The writers are finitely many, and fewer than all while one has yet to  *)
(* write.                                                                  *)
LEMMA WritersAreFew ==
    /\ IsFiniteSet(Writers)
    /\ Cardinality(Writers) \in Nat
    /\ \A c \in Commands \ Writers : Cardinality(Writers) < Cardinality(Commands)
<1>1. Writers \subseteq Commands
  BY DEF Writers
<1>2. IsFiniteSet(Writers) /\ Cardinality(Writers) \in Nat
  BY <1>1, BusAssumption, FS_Subset, FS_CardinalityType
<1>3. ASSUME NEW c \in Commands \ Writers
      PROVE  Cardinality(Writers) < Cardinality(Commands)
  <2>1. Writers \subseteq Commands /\ Writers # Commands
    BY <1>1
  <2> QED
    BY <2>1, BusAssumption, FS_Subset, FS_CardinalityType
<1> QED
  BY <1>2, <1>3

(* One more writer counts once. *)
LEMMA WriterAdded ==
    ASSUME NEW c \in Commands \ Writers,
           Writers' = Writers \cup {c}
    PROVE  Cardinality(Writers') = Cardinality(Writers) + 1
BY WritersAreFew, FS_AddElement

(* An attempt fails without a trace: by a fault, or by the commit of       *)
(* another command since it began.                                         *)
LEMMA FailedAttempt ==
    ASSUME BusInv, NEW c \in Commands, NEW e \in Errors,
           pc[c] = "inTx",
           Catch(c, e),
           UNCHANGED <<version, snapshot, applied, escaped, hooked, unacked>>,
           \/ faulted' = faulted \cup {c}
           \/ /\ faulted' = faulted
              /\ IsTransient(e)
              /\ snapshot[c] # version
    PROVE  BusInv'
<1>0. /\ TypeOK /\ EffectInv /\ ContentionInv /\ RetriesInv
      /\ attempt[c] \in Nat /\ attempt[c] <= MaxRetries /\ MaxRetries \in Nat
  BY BusAssumption DEF BusInv, TypeOK, RetriesInv
<1>1. /\ attempt' = [attempt EXCEPT ![c] = attempt[c] + 1]
      /\ attempt' \in [Commands -> 0..(MaxRetries + 1)]
      /\ metric' \in [Labels \X BOOLEAN -> Nat]
      /\ error' \in [Commands -> Errors \cup {"none", "unreachable"}]
      /\ \A d \in Commands \ {c} : error'[d] = error[d]
      /\ pc'[c] = "failed" => error'[c] = e
      /\ \/ /\ pc' = [pc EXCEPT ![c] = "backoff"]
            /\ attempt[c] + 1 <= MaxRetries
         \/ /\ pc' = [pc EXCEPT ![c] = "failed"]
            /\ ~IsTransient(e) \/ attempt[c] + 1 = MaxRetries + 1
  BY <1>0, CatchType
<1>2. /\ attempt'[c] = attempt[c] + 1
      /\ pc'[c] = "failed" \/ (pc'[c] = "backoff" /\ attempt'[c] <= MaxRetries)
      /\ pc'[c] = "failed" /\ IsTransient(e) => attempt'[c] = MaxRetries + 1
      /\ \A d \in Commands \ {c} : attempt'[d] = attempt[d] /\ pc'[d] = pc[d]
      /\ pc' \in [Commands -> {"ready", "inTx", "committed", "backoff",
                               "replied", "failed"}]
  BY <1>0, <1>1 DEF TypeOK
<1>3. TypeOK'
  BY <1>0, <1>1, <1>2 DEF TypeOK
<1>4. EffectInv'
  BY <1>0, <1>2 DEF EffectInv
<1>5. Writers' = Writers /\ c \notin Writers
  BY <1>0 DEF Writers, EffectInv
<1>6. ASSUME c \notin faulted'
      PROVE  attempt'[c] <= version /\ attempt'[c] < Cardinality(Commands)
  <2>0. c \in Commands \ faulted /\ snapshot[c] # version
    BY <1>6
  <2>1. attempt[c] <= snapshot[c] /\ snapshot[c] < version
    BY <1>0, <2>0 DEF ContentionInv, TypeOK
  <2>2. attempt'[c] <= version
    BY <1>0, <1>2, <2>1 DEF TypeOK
  <2>3. version < Cardinality(Commands)
    BY <1>0, <1>5, WritersAreFew DEF ContentionInv
  <2> QED
    BY <1>0, <1>2, <2>2, <2>3, BusAssumption, FS_CardinalityType DEF TypeOK
<1>7. ContentionInv'
  BY <1>0, <1>2, <1>5, <1>6 DEF ContentionInv
<1>8. RetriesInv'
  BY <1>0, <1>1, <1>2 DEF RetriesInv
<1> QED
  BY <1>3, <1>4, <1>7, <1>8 DEF BusInv

(* A commit takes effect, whatever the command hears of it. *)
LEMMA CommittedAttempt ==
    ASSUME BusInv, NEW c \in Commands,
           pc[c] = "inTx",
           Write(c),
           UNCHANGED <<snapshot, escaped, hooked>>,
           \/ /\ pc' = [pc EXCEPT ![c] = "committed"]
              /\ UNCHANGED <<attempt, error, unacked, faulted, metric>>
           \/ /\ Catch(c, "lost")
              /\ unacked' = unacked \cup {c}
              /\ faulted' = faulted \cup {c}
    PROVE  BusInv'
<1>0. /\ TypeOK /\ EffectInv /\ ContentionInv /\ RetriesInv
      /\ attempt[c] \in Nat /\ attempt[c] <= MaxRetries /\ MaxRetries \in Nat
      /\ version \in Nat
  BY BusAssumption DEF BusInv, TypeOK, RetriesInv
<1>1. /\ applied[c] = 0
      /\ applied' = [applied EXCEPT ![c] = 1]
      /\ version' = version + 1
  <2>1. applied[c] = 0
    BY <1>0 DEF EffectInv
  <2>2. Once(applied[c]) = 1
    BY <2>1 DEF Once
  <2> QED
    BY <2>1, <2>2 DEF Write
<1>2. \/ /\ pc' = [pc EXCEPT ![c] = "committed"]
         /\ attempt' = attempt /\ metric' = metric /\ error' = error
         /\ unacked' = unacked /\ faulted' = faulted
      \/ /\ pc' = [pc EXCEPT ![c] = "failed"]
         /\ attempt' = [attempt EXCEPT ![c] = attempt[c] + 1]
         /\ attempt' \in [Commands -> 0..(MaxRetries + 1)]
         /\ metric' \in [Labels \X BOOLEAN -> Nat]
         /\ error' \in [Commands -> Errors \cup {"none", "unreachable"}]
         /\ pc'[c] = "failed" => error'[c] = "lost"
         /\ unacked' = unacked \cup {c} /\ faulted' = faulted \cup {c}
  <2>1. "lost" \in Errors /\ ~IsTransient("lost")
    BY DEF Errors, IsTransient
  <2> QED
    BY <1>0, <2>1, CatchType
<1>3. /\ applied'[c] = 1
      /\ \A d \in Commands \ {c} : /\ applied'[d] = applied[d]
                                   /\ pc'[d] = pc[d]
                                   /\ attempt'[d] = attempt[d]
                                   /\ error'[d] = error[d]
                                   /\ d \in unacked <=> d \in unacked'
                                   /\ d \in faulted <=> d \in faulted'
  BY <1>0, <1>1, <1>2, CatchType DEF TypeOK, Errors, IsTransient
<1>4. TypeOK'
  BY <1>0, <1>1, <1>2, <1>3 DEF TypeOK
<1>5. EffectInv'
  BY <1>0, <1>2, <1>3 DEF EffectInv, TypeOK
<1>6. /\ c \in Commands \ Writers
      /\ Writers' = Writers \cup {c}
  BY <1>0, <1>1, <1>3 DEF Writers
<1>7. version' = Cardinality(Writers')
  BY <1>0, <1>1, <1>6, WriterAdded DEF ContentionInv
<1>8. \A d \in Commands \ faulted' :
         /\ attempt'[d] <= version'
         /\ pc'[d] = "inTx" => attempt'[d] <= snapshot[d] /\ snapshot[d] <= version'
         /\ pc'[d] = "failed" => attempt'[d] < Cardinality(Commands)
  <2> SUFFICES ASSUME NEW d \in Commands \ faulted'
               PROVE  /\ attempt'[d] <= version'
                      /\ pc'[d] = "inTx" => /\ attempt'[d] <= snapshot[d]
                                            /\ snapshot[d] <= version'
                      /\ pc'[d] = "failed" => attempt'[d] < Cardinality(Commands)
    OBVIOUS
  <2>1. attempt[d] \in Nat /\ snapshot[d] \in Nat
    BY <1>0, BusAssumption DEF TypeOK
  <2>2. CASE d # c
    BY <1>0, <1>1, <1>3, <2>1, <2>2 DEF ContentionInv
  <2>3. CASE d = c
    BY <1>0, <1>1, <1>2, <2>1, <2>3 DEF ContentionInv, TypeOK
  <2> QED
    BY <2>2, <2>3
<1>9. \A d \in Commands : pc'[d] = "failed" => attempt'[d] >= 1
  BY <1>0, <1>2, <1>3 DEF ContentionInv, TypeOK
<1>10. ContentionInv'
  BY <1>7, <1>8, <1>9 DEF ContentionInv
<1>11. RetriesInv'
  BY <1>0, <1>2, <1>3 DEF RetriesInv, TypeOK, Errors, IsTransient
<1> QED
  BY <1>4, <1>5, <1>10, <1>11 DEF BusInv

-----------------------------------------------------------------------------
(* The loop condition holds when the loop goes on. *)
LEMMA BeginOpens ==
    ASSUME BusInv, NEW c \in Commands, Begin(c)
    PROVE  /\ attempt[c] <= MaxRetries
           /\ pc' = [pc EXCEPT ![c] = "inTx"]
           /\ snapshot' = [snapshot EXCEPT ![c] = version]
           /\ UNCHANGED <<attempt, error, version, applied, escaped, hooked,
                          unacked, faulted, metric>>
BY DEF Begin, BusInv, RetriesInv

(* An attempt begins on the version of now. *)
LEMMA BeginPreservesInv ==
    ASSUME BusInv, NEW c \in Commands, Begin(c)
    PROVE  BusInv'
<1>0. TypeOK /\ EffectInv /\ ContentionInv /\ RetriesInv
  BY DEF BusInv
<1>1. TypeOK'
  BY <1>0, BeginOpens DEF TypeOK
<1>2. EffectInv' /\ RetriesInv'
  BY <1>0, BeginOpens DEF Begin, EffectInv, RetriesInv, TypeOK
<1>3. Writers' = Writers
  BY DEF Begin, Writers
<1>4. ContentionInv'
  BY <1>0, <1>3, BeginOpens DEF Begin, ContentionInv, TypeOK
<1> QED
  BY <1>1, <1>2, <1>4 DEF BusInv

(* The hook runs once, and its error goes nowhere. *)
LEMMA AfterCommitPreservesInv ==
    ASSUME BusInv, NEW c \in Commands, AfterCommit(c)
    PROVE  BusInv'
<1>0. TypeOK /\ EffectInv /\ ContentionInv /\ RetriesInv
  BY DEF BusInv
<1>1. pc[c] = "committed" /\ pc' = [pc EXCEPT ![c] = "replied"]
  BY DEF AfterCommit, OutcomesOfHook
<1>2. hooked[c] = 0 /\ hooked' = [hooked EXCEPT ![c] = 1]
  <2>1. hooked[c] = 0
    BY <1>0, <1>1 DEF EffectInv
  <2>2. Once(hooked[c]) = 1
    BY <2>1 DEF Once
  <2> QED
    BY <2>1, <2>2 DEF AfterCommit
<1>3. TypeOK'
  BY <1>0, <1>1, <1>2 DEF AfterCommit, TypeOK
<1>4. EffectInv' /\ RetriesInv'
  BY <1>0, <1>1, <1>2 DEF AfterCommit, EffectInv, RetriesInv, TypeOK
<1>5. Writers' = Writers
  BY DEF AfterCommit, Writers
<1>6. ContentionInv'
  BY <1>0, <1>1, <1>5 DEF AfterCommit, ContentionInv, TypeOK
<1> QED
  BY <1>3, <1>4, <1>6 DEF BusInv

(* The invariant is inductive. *)
LEMMA StepPreservesInv == BusInv /\ [Next]_vars => BusInv'
<1> SUFFICES ASSUME BusInv, [Next]_vars
             PROVE  BusInv'
  OBVIOUS
<1>1. ASSUME NEW c \in Commands, Begin(c)
      PROVE  BusInv'
  BY <1>1, BeginPreservesInv
<1>2. ASSUME NEW c \in Commands, HandlerThrows(c)
      PROVE  BusInv'
  <2>1. PICK e \in Faults \ {"nested"} : Catch(c, e)
    BY <1>2 DEF HandlerThrows
  <2>2. e \in Errors
    BY BusAssumption DEF Errors
  <2> QED
    BY <1>2, <2>1, <2>2, FailedAttempt DEF HandlerThrows
<1>3. ASSUME NEW c \in Commands, NestedRun(c)
      PROVE  BusInv'
  <2>1. "nested" \in Errors /\ AmbientTx(c)
    BY <1>3 DEF Errors, NestedRun, AmbientTx
  <2> QED
    BY <1>3, <2>1, FailedAttempt DEF NestedRun
<1>4. ASSUME NEW c \in Commands, Commit(c)
      PROVE  BusInv'
  BY <1>4, CommittedAttempt DEF Commit
<1>5. ASSUME NEW c \in Commands, CommitConflicts(c)
      PROVE  BusInv'
  <2>1. PICK e \in {"P2034", "marked"} : Catch(c, e)
    BY <1>5 DEF CommitConflicts
  <2>2. e \in Errors /\ IsTransient(e)
    BY DEF Errors, IsTransient
  <2> QED
    BY <1>5, <2>1, <2>2, FailedAttempt DEF CommitConflicts
<1>6. ASSUME NEW c \in Commands, CommitReplyLost(c)
      PROVE  BusInv'
  BY <1>6, CommittedAttempt DEF CommitReplyLost
<1>7. ASSUME NEW c \in Commands, AfterCommit(c)
      PROVE  BusInv'
  BY <1>7, AfterCommitPreservesInv
<1>8. CASE UNCHANGED vars
  BY <1>8 DEF vars, BusInv, TypeOK, EffectInv, ContentionInv, Writers, RetriesInv
<1> QED
  BY <1>1, <1>2, <1>3, <1>4, <1>5, <1>6, <1>7, <1>8 DEF Next, Step

LEMMA StutterPreservesInv == BusInv /\ UNCHANGED vars => BusInv'
BY StepPreservesInv

(* The inductive invariant holds in every behaviour. *)
THEOREM InvHolds == Spec => []BusInv
<1>1. Init => BusInv
  BY InitEstablishesInv
<1>2. BusInv /\ [Next]_vars => BusInv'
  BY StepPreservesInv
<1> QED
  BY <1>1, <1>2, PTL DEF Spec

(* The variables keep their types. *)
THEOREM TypeCorrect == Spec => []TypeOK
<1>1. BusInv => TypeOK
  BY DEF BusInv
<1> QED
  BY <1>1, InvHolds, PTL

(* The loop condition holds whenever the loop goes on, so UnreachableError *)
(* is unreachable, and no retry is given away.                             *)
THEOREM RetriesAreSpent == Spec => []RetryBoundsAgree
<1>1. BusInv => RetryBoundsAgree
  BY DEF BusInv, RetriesInv, RetryBoundsAgree
<1> QED
  BY <1>1, InvHolds, PTL

(* No retry applies a command twice. *)
THEOREM NeverAppliedTwice == Spec => []AppliedAtMostOnce
<1>1. ASSUME BusInv PROVE AppliedAtMostOnce
  <2> SUFFICES ASSUME NEW c \in Commands PROVE applied[c] <= 1
    BY DEF AppliedAtMostOnce
  <2>1. applied[c] \in {0, 1}
    BY <1>1 DEF BusInv, TypeOK, EffectInv
  <2> QED
    BY <2>1
<1> QED
  BY <1>1, InvHolds, PTL

(* What the caller hears is what happened to the data and the hook. *)
THEOREM CallerHearsTheTruth == Spec => []OutcomeIsTruthful
<1>1. ASSUME BusInv PROVE OutcomeIsTruthful
  BY <1>1 DEF BusInv, EffectInv, OutcomeIsTruthful
<1> QED
  BY <1>1, InvHolds, PTL

(* With at least as many attempts as there are commands, a command fails   *)
(* only for another reason than contention.                                *)
THEOREM RetriesAbsorbContention == Spec => []ContentionAbsorbed
<1>1. ASSUME BusInv PROVE ContentionAbsorbed
  <2> SUFFICES ASSUME Cardinality(Commands) <= MaxRetries + 1,
                      NEW c \in Commands, pc[c] = "failed", c \notin faulted
               PROVE  FALSE
    BY DEF ContentionAbsorbed
  <2>1. attempt[c] = MaxRetries + 1
    BY <1>1 DEF BusInv, RetriesInv
  <2>2. attempt[c] < Cardinality(Commands)
    BY <1>1 DEF BusInv, ContentionInv
  <2> QED
    BY <2>1, <2>2, BusAssumption, FS_CardinalityType
<1> QED
  BY <1>1, InvHolds, PTL

-----------------------------------------------------------------------------
(* Sums over a finite set *)

(* Induction over the natural numbers, for a set of them: the least number *)
(* outside would have its predecessor inside.                              *)
LEMMA NumbersByInduction ==
    ASSUME NEW T \in SUBSET Nat, 0 \in T, \A n \in T : n + 1 \in T
    PROVE  T = Nat
<1> DEFINE Rest == Nat \ T
<1> SUFFICES ASSUME Rest # {}
             PROVE  FALSE
  OBVIOUS
<1>1. Rest \subseteq Nat
  OBVIOUS
<1> HIDE DEF Rest
<1>2. PICK n \in Rest : \A m \in Rest : ~ <<m, n>> \in OpToRel(<, Nat)
  BY ONLY NatLessThanWellFounded, WFMin, <1>1, Rest # {}, Zenon
<1> USE DEF Rest
<1>3. n # 0 /\ n - 1 \in Nat
  OBVIOUS
<1>4. <<n - 1, n>> \in OpToRel(<, Nat)
  BY <1>3 DEF OpToRel
<1>5. n - 1 \in T
  BY <1>2, <1>3, <1>4
<1> QED
  BY <1>3, <1>5

(* The element that a fold takes out of a set first. *)
Pick(s) == CHOOSE x \in s : TRUE

(* Induction over the subsets of a finite set, along the picks of a fold. *)
LEMMA SubsetsByInduction ==
    ASSUME NEW S, IsFiniteSet(S), NEW T \in SUBSET SUBSET S, {} \in T,
           \A s \in SUBSET S : s # {} /\ s \ {Pick(s)} \in T => s \in T
    PROVE  T = SUBSET S
<1> DEFINE Rest == (SUBSET S) \ T
           R == StrictSubsetOrdering(S)
<1> SUFFICES ASSUME Rest # {}
             PROVE  FALSE
  OBVIOUS
<1>1. IsWellFoundedOn(R, SUBSET S)
  <2>1. IsWellFoundedOn(R, FiniteSubsetsOf(S))
    BY FS_StrictSubsetOrderingWellFounded
  <2> HIDE DEF R
  <2> QED
    BY <2>1, FS_FiniteSubsetsOfFinite, Zenon
<1>2. Rest \subseteq SUBSET S
  OBVIOUS
<1> HIDE DEF Rest, R
<1>3. PICK s \in Rest : \A t \in Rest : ~ <<t, s>> \in R
  BY ONLY <1>1, <1>2, WFMin, Rest # {}, Zenon
<1> USE DEF Rest, R
<1>4. s # {} /\ Pick(s) \in s
  BY DEF Pick
<1>5. <<s \ {Pick(s)}, s>> \in R
  BY <1>4 DEF StrictSubsetOrdering
<1>6. s \ {Pick(s)} \in T
  BY <1>3, <1>5
<1> QED
  BY <1>4, <1>6

(* The equation of the function that a sum is defined by. *)
Sums(iter, f, S) ==
    iter = [s \in SUBSET S |->
               IF s = {} THEN 0 ELSE f[Pick(s)] + iter[s \ {Pick(s)}]]

(* It has a solution: one for the sets of n elements gives one for those   *)
(* of n + 1.                                                               *)
LEMMA SumsExist ==
    ASSUME NEW S, IsFiniteSet(S), NEW f \in [S -> Nat]
    PROVE  \E iter : Sums(iter, f, S)
<1> DEFINE Upto(n) == {s \in SUBSET S : Cardinality(s) <= n}
           value(iter, s) == IF s = {} THEN 0 ELSE f[Pick(s)] + iter[s \ {Pick(s)}]
           T == {n \in Nat : \E iter : \A s \in Upto(n) : iter[s] = value(iter, s)}
<1>1. ASSUME NEW s \in SUBSET S
      PROVE  /\ Cardinality(s) \in Nat
             /\ s # {} => /\ Pick(s) \in S /\ s \ {Pick(s)} \in SUBSET S
                          /\ Cardinality(s \ {Pick(s)}) = Cardinality(s) - 1
             /\ Cardinality(s) = 0 => s = {}
  <2>1. IsFiniteSet(s) /\ (s # {} => Pick(s) \in s)
    BY FS_Subset DEF Pick
  <2> QED
    BY <2>1, FS_CardinalityType, FS_RemoveElement, FS_EmptySet
<1>2. 0 \in T
  <2> DEFINE iter == [s \in SUBSET S |-> 0]
  <2>1. ASSUME NEW s \in Upto(0) PROVE s = {}
    <3>1. s \in SUBSET S /\ Cardinality(s) \in Nat /\ Cardinality(s) <= 0
      BY <1>1
    <3>2. Cardinality(s) = 0
      BY <3>1
    <3> HIDE DEF Upto
    <3> QED
      BY <1>1, <3>1, <3>2
  <2>2. {} \in SUBSET S /\ iter[{}] = 0
    OBVIOUS
  <2>3. \A s \in Upto(0) : iter[s] = value(iter, s)
    BY <2>1, <2>2
  <2> HIDE DEF iter
  <2> QED
    BY <2>3
<1>3. ASSUME NEW n \in T
      PROVE  n + 1 \in T
  <2>1. PICK g : \A s \in Upto(n) : g[s] = value(g, s)
    OBVIOUS
  <2> DEFINE iter == [s \in SUBSET S |-> IF s \in Upto(n) THEN g[s] ELSE value(g, s)]
  <2>2. ASSUME NEW s \in Upto(n + 1)
        PROVE  iter[s] = value(iter, s)
    <3>1. iter[s] = value(g, s)
      BY <2>1
    <3>2. s # {} => s \ {Pick(s)} \in Upto(n)
      BY <1>1
    <3>3. s # {} => iter[s \ {Pick(s)}] = g[s \ {Pick(s)}]
      BY <3>2
    <3> QED
      BY <3>1, <3>3
  <2>3. \A s \in Upto(n + 1) : iter[s] = value(iter, s)
    BY <2>2
  <2>4. n + 1 \in Nat
    OBVIOUS
  <2> HIDE DEF iter, Upto, value
  <2> QED
    BY <2>3, <2>4
<1>4. T = Nat
  <2>1. T \in SUBSET Nat
    OBVIOUS
  <2> HIDE DEF T
  <2> QED
    BY <1>2, <1>3, <2>1, NumbersByInduction
<1>5. Cardinality(S) \in T
  BY <1>4, FS_CardinalityType
<1>6. PICK g : \A s \in Upto(Cardinality(S)) : g[s] = value(g, s)
  BY <1>5
<1>7. \A s \in SUBSET S : s \in Upto(Cardinality(S))
  BY FS_Subset
<1> DEFINE iter == [s \in SUBSET S |-> g[s]]
<1>8. ASSUME NEW s \in SUBSET S
      PROVE  iter[s] = IF s = {} THEN 0 ELSE f[Pick(s)] + iter[s \ {Pick(s)}]
  <2>1. g[s] = value(g, s)
    BY <1>6, <1>7
  <2> QED
    BY <2>1
<1>9. Sums(iter, f, S)
  BY <1>8 DEF Sums
<1> QED
  BY <1>9

(* What FoldFunction computes is the solution's value for the whole set. *)
LEMMA FoldIsASum ==
    ASSUME NEW S, IsFiniteSet(S), NEW f \in [S -> Nat]
    PROVE  \E iter : Sums(iter, f, S) /\ FoldFunction(+, 0, f) = iter[S]
<1> DEFINE chosen == CHOOSE iter : Sums(iter, f, S)
<1>1. Sums(chosen, f, S)
  BY SumsExist
<1>2. FoldFunction(+, 0, f) = chosen[S]
  BY DEF FoldFunction, FoldFunctionOnSet, MapThenFoldSet, Sums, Pick
<1> QED
  BY <1>1, <1>2

(* One more in one place is one more in the sum. *)
LEMMA SumGrows ==
    ASSUME NEW S, IsFiniteSet(S), NEW f \in [S -> Nat], NEW c \in S
    PROVE  /\ FoldFunction(+, 0, f) \in Nat
           /\ FoldFunction(+, 0, [f EXCEPT ![c] = f[c] + 1])
                = FoldFunction(+, 0, f) + 1
<1> DEFINE g == [f EXCEPT ![c] = f[c] + 1]
<1>1. /\ g \in [S -> Nat] /\ g[c] = f[c] + 1
      /\ \A x \in S : f[x] \in Nat /\ (x # c => g[x] = f[x])
  OBVIOUS
<1> HIDE DEF g
<1>2. PICK F : Sums(F, f, S) /\ FoldFunction(+, 0, f) = F[S]
  BY FoldIsASum
<1>3. PICK G : Sums(G, g, S) /\ FoldFunction(+, 0, g) = G[S]
  BY <1>1, FoldIsASum
<1> DEFINE T == {s \in SUBSET S : F[s] \in Nat /\ G[s] = F[s] + (IF c \in s THEN 1 ELSE 0)}
<1>4. {} \in T
  <2>1. F[{}] = 0 /\ G[{}] = 0
    BY <1>2, <1>3 DEF Sums
  <2> QED
    BY <2>1
<1>5. ASSUME NEW s \in SUBSET S, s # {}, s \ {Pick(s)} \in T
      PROVE  s \in T
  <2>1. Pick(s) \in s
    BY <1>5 DEF Pick
  <2>2. /\ F[s] = f[Pick(s)] + F[s \ {Pick(s)}]
        /\ G[s] = g[Pick(s)] + G[s \ {Pick(s)}]
    BY <1>2, <1>3, <1>5 DEF Sums
  <2>3. /\ F[s \ {Pick(s)}] \in Nat
        /\ G[s \ {Pick(s)}] = F[s \ {Pick(s)}] + (IF c \in s \ {Pick(s)} THEN 1 ELSE 0)
    BY <1>5
  <2> QED
    BY <1>1, <2>1, <2>2, <2>3
<1>6. T = SUBSET S
  <2>1. T \in SUBSET SUBSET S
    OBVIOUS
  <2> HIDE DEF T
  <2> QED
    BY <1>4, <1>5, <2>1, SubsetsByInduction
<1>7. S \in T
  BY <1>6
<1> QED
  BY <1>2, <1>3, <1>7 DEF g

(* A sum of zeros is zero. *)
LEMMA SumOfZeros ==
    ASSUME NEW S, IsFiniteSet(S)
    PROVE  FoldFunction(+, 0, [x \in S |-> 0]) = 0
<1> DEFINE f == [x \in S |-> 0]
<1>1. f \in [S -> Nat] /\ \A x \in S : f[x] = 0
  OBVIOUS
<1> HIDE DEF f
<1>2. PICK F : Sums(F, f, S) /\ FoldFunction(+, 0, f) = F[S]
  BY <1>1, FoldIsASum
<1> DEFINE T == {s \in SUBSET S : F[s] = 0}
<1>3. {} \in T
  BY <1>2 DEF Sums
<1>4. ASSUME NEW s \in SUBSET S, s # {}, s \ {Pick(s)} \in T
      PROVE  s \in T
  <2>1. Pick(s) \in S
    BY <1>4 DEF Pick
  <2>2. F[s] = f[Pick(s)] + F[s \ {Pick(s)}]
    BY <1>2, <1>4 DEF Sums
  <2> QED
    BY <1>1, <1>4, <2>1, <2>2
<1>5. T = SUBSET S
  <2>1. T \in SUBSET SUBSET S
    OBVIOUS
  <2> HIDE DEF T
  <2> QED
    BY <1>3, <1>4, <2>1, SubsetsByInduction
<1>6. S \in T
  BY <1>5
<1> QED
  BY <1>2, <1>6 DEF f

-----------------------------------------------------------------------------
(* The metric and the retries *)

(* What a command adds to the two sums that the metric and the pipeline    *)
(* must agree on.                                                          *)
RetriesOf == [c \in Commands |-> Retries(c)]
CountedRetries == [l \in Labels |-> metric[<<l, TRUE>>]]

Total(f) == FoldFunction(+, 0, f)

CountInv == Total(RetriesOf) = Total(CountedRetries)

LEMMA RetryTypes ==
    ASSUME BusInv
    PROVE  /\ RetriesOf \in [Commands -> Nat]
           /\ CountedRetries \in [Labels -> Nat]
           /\ IsFiniteSet(Commands) /\ IsFiniteSet(Labels)
<1>1. ASSUME NEW c \in Commands PROVE Retries(c) \in Nat
  <2>1. attempt[c] \in Nat /\ (pc[c] = "failed" => attempt[c] >= 1)
    BY BusAssumption DEF BusInv, TypeOK, ContentionInv
  <2> QED
    BY <2>1 DEF Retries
<1>2. \A l \in Labels : metric[<<l, TRUE>>] \in Nat
  BY DEF BusInv, TypeOK
<1>3. IsFiniteSet(Labels)
  <2>1. Labels = (({} \cup {"P2034"}) \cup {"P2028"}) \cup {"A2001"}
    BY DEF Labels
  <2> QED
    BY <2>1, FS_AddElement, FS_EmptySet
<1> QED
  BY <1>1, <1>2, <1>3, BusAssumption DEF RetriesOf, CountedRetries

(* The catch block retries and counts, or does neither: the last failed    *)
(* attempt is no retry, and an error that is counted without a retry is    *)
(* counted under another key.                                              *)
LEMMA CatchCounts ==
    ASSUME BusInv, NEW c \in Commands, NEW e \in Errors,
           pc[c] = "inTx", Catch(c, e)
    PROVE  \/ RetriesOf' = RetriesOf /\ CountedRetries' = CountedRetries
           \/ /\ RetriesOf' = [RetriesOf EXCEPT ![c] = RetriesOf[c] + 1]
              /\ \E l \in Labels : CountedRetries' =
                    [CountedRetries EXCEPT ![l] = CountedRetries[l] + 1]
<1>0. TypeOK /\ attempt[c] \in Nat /\ MaxRetries \in Nat
  BY BusAssumption DEF BusInv, TypeOK
<1>1. \A d \in Commands \ {c} : attempt'[d] = attempt[d] /\ pc'[d] = pc[d]
  BY <1>0 DEF Catch, TypeOK
<1>2. attempt'[c] = attempt[c] + 1
  BY <1>0 DEF Catch, TypeOK
<1>3. \A d \in Commands \ {c} : Retries(d)' = Retries(d)
  BY <1>1 DEF Retries
<1>4. Retries(c) = attempt[c]
  BY DEF Retries
<1>5. CASE WillRetry(c, e)
  <2>1. pc'[c] = "backoff"
    BY <1>0, <1>5 DEF Catch, TypeOK
  <2>2. Retries(c)' = Retries(c) + 1
    BY <1>2, <1>4, <2>1 DEF Retries
  <2>3. RetriesOf' = [RetriesOf EXCEPT ![c] = RetriesOf[c] + 1]
    BY <1>3, <2>2 DEF RetriesOf
  <2>4. Observed(e) /\ LabelOf(e) \in Labels
    BY <1>5 DEF WillRetry, IsTransient, Observed, LabelOf, Labels
  <2>5. metric' = [metric EXCEPT ![<<LabelOf(e), TRUE>>] = @ + 1]
    BY <1>5, <2>4 DEF Catch, RecordObservation
  <2> DEFINE l == LabelOf(e)
  <2> HIDE DEF l
  <2>6. CountedRetries' = [CountedRetries EXCEPT ![l] = CountedRetries[l] + 1]
    BY <1>0, <2>4, <2>5 DEF CountedRetries, TypeOK, l
  <2> QED
    BY <2>3, <2>4, <2>6 DEF l
<1>6. CASE ~WillRetry(c, e)
  <2>1. pc'[c] = "failed"
    BY <1>0, <1>6 DEF Catch, TypeOK
  <2>2. Retries(c)' = Retries(c)
    BY <1>0, <1>2, <1>4, <2>1 DEF Retries
  <2>3. RetriesOf' = RetriesOf
    BY <1>3, <2>2 DEF RetriesOf
  <2>4. \A l \in Labels : metric'[<<l, TRUE>>] = metric[<<l, TRUE>>]
    BY <1>0, <1>6 DEF Catch, RecordObservation, TypeOK
  <2> QED
    BY <2>3, <2>4 DEF CountedRetries
<1> QED
  BY <1>5, <1>6

LEMMA CatchKeepsTheCount ==
    ASSUME BusInv, CountInv, NEW c \in Commands, NEW e \in Errors,
           pc[c] = "inTx", Catch(c, e)
    PROVE  CountInv'
<1>1. CASE RetriesOf' = RetriesOf /\ CountedRetries' = CountedRetries
  BY <1>1 DEF CountInv
<1>2. ASSUME RetriesOf' = [RetriesOf EXCEPT ![c] = RetriesOf[c] + 1],
             NEW l \in Labels,
             CountedRetries' = [CountedRetries EXCEPT ![l] = CountedRetries[l] + 1]
      PROVE  CountInv'
  <2>1. Total(RetriesOf') = Total(RetriesOf) + 1
    BY <1>2, RetryTypes, SumGrows DEF Total
  <2>2. Total(CountedRetries') = Total(CountedRetries) + 1
    BY <1>2, RetryTypes, SumGrows DEF Total
  <2> QED
    BY <2>1, <2>2 DEF CountInv
<1> QED
  BY <1>1, <1>2, CatchCounts

(* No other step retries or counts. *)
LEMMA StepKeepsTheCount ==
    BusInv /\ CountInv /\ [Next]_vars => CountInv'
<1> SUFFICES ASSUME BusInv, CountInv, [Next]_vars
             PROVE  CountInv'
  OBVIOUS
<1>1. ASSUME RetriesOf' = RetriesOf, metric' = metric
      PROVE  CountInv'
  BY <1>1 DEF CountInv, CountedRetries
<1>2. ASSUME NEW c \in Commands, Begin(c) \/ Commit(c) \/ AfterCommit(c)
      PROVE  CountInv'
  <2>1. \A d \in Commands : /\ attempt'[d] = attempt[d]
                            /\ pc'[d] = "failed" <=> pc[d] = "failed"
    BY <1>2, BeginOpens DEF Begin, Commit, AfterCommit, OutcomesOfHook, BusInv, TypeOK
  <2>2. RetriesOf' = RetriesOf
    BY <2>1 DEF RetriesOf, Retries
  <2> QED
    BY <1>1, <1>2, <2>2 DEF Begin, Commit, AfterCommit
<1>3. ASSUME NEW c \in Commands,
             \/ HandlerThrows(c) \/ NestedRun(c) \/ CommitConflicts(c)
             \/ CommitReplyLost(c)
      PROVE  CountInv'
  <2>1. pc[c] = "inTx" /\ \E e \in Errors : Catch(c, e)
    BY <1>3, BusAssumption DEF HandlerThrows, NestedRun, AmbientTx,
       CommitConflicts, CommitReplyLost, Errors
  <2> QED
    BY <2>1, CatchKeepsTheCount
<1>4. CASE UNCHANGED vars
  BY <1>1, <1>4 DEF vars, RetriesOf, Retries
<1> QED
  BY <1>2, <1>3, <1>4 DEF Next, Step

(* Every retry shows in the metric under its label, and nothing else does, *)
(* for every number of commands: the two totals are equal at all times.    *)
THEOREM RetriesShowInTheMetric == Spec => []RetriesAreCounted
<1>1. Init => CountInv
  <2> SUFFICES ASSUME Init PROVE CountInv
    OBVIOUS
  <2>1. /\ RetriesOf = [c \in Commands |-> 0]
        /\ CountedRetries = [l \in Labels |-> 0]
    BY DEF Init, RetriesOf, Retries, CountedRetries
  <2>2. IsFiniteSet(Commands) /\ IsFiniteSet(Labels)
    BY RetryTypes, InitEstablishesInv
  <2>3. Total(RetriesOf) = 0 /\ Total(CountedRetries) = 0
    BY <2>1, <2>2, SumOfZeros DEF Total
  <2> QED
    BY <2>3 DEF CountInv
<1>2. BusInv /\ CountInv /\ [Next]_vars => CountInv'
  BY StepKeepsTheCount
<1>3. CountInv => RetriesAreCounted
  BY DEF CountInv, Total, RetriesOf, CountedRetries, RetriesAreCounted
<1> QED
  BY <1>1, <1>2, <1>3, InvHolds, PTL DEF Spec

-----------------------------------------------------------------------------
(* Before the first attempt every command is pending. *)
LEMMA InitIsAtomic == Init => Atomic!Init
BY DEF Init, Atomic!Init, OutcomeOf

(* A step that moves no command's outcome, effect or hook is invisible.    *)
LEMMA InvisibleStep ==
    ASSUME TypeOK, NEW c \in Commands,
           pc' = [pc EXCEPT ![c] = pc'[c]],
           OutcomeOf(c)' = OutcomeOf(c),
           UNCHANGED <<applied, hooked, version>>
    PROVE  UNCHANGED Atomic!vars
<1>1. \A d \in Commands : OutcomeOf(d)' = OutcomeOf(d)
  <2>1. \A d \in Commands \ {c} : pc'[d] = pc[d]
    BY DEF TypeOK
  <2> QED
    BY <2>1 DEF OutcomeOf
<1>2. [d \in Commands |-> OutcomeOf(d)]' = [d \in Commands |-> OutcomeOf(d)]
  BY <1>1
<1> QED
  BY <1>2 DEF Atomic!vars

(* An attempt that fails is the failure of its command, or invisible.      *)
LEMMA FailedAttemptIsAtomic ==
    ASSUME TypeOK, NEW c \in Commands, NEW e \in Errors,
           pc[c] = "inTx",
           Catch(c, e),
           UNCHANGED <<applied, hooked, version>>
    PROVE  Atomic!Next \/ UNCHANGED Atomic!vars
<1>1. \/ pc' = [pc EXCEPT ![c] = "backoff"]
      \/ pc' = [pc EXCEPT ![c] = "failed"]
  BY DEF Catch
<1>2. CASE pc' = [pc EXCEPT ![c] = "backoff"]
  <2>1. pc'[c] = "backoff"
    BY <1>2 DEF TypeOK
  <2>2. OutcomeOf(c)' = OutcomeOf(c)
    BY <2>1 DEF OutcomeOf
  <2> QED
    BY <1>2, <2>1, <2>2, InvisibleStep
<1>3. CASE pc' = [pc EXCEPT ![c] = "failed"]
  <2>1. [d \in Commands |-> OutcomeOf(d)]'
            = [[d \in Commands |-> OutcomeOf(d)] EXCEPT ![c] = "failed"]
    BY <1>3 DEF OutcomeOf, TypeOK
  <2>2. [d \in Commands |-> OutcomeOf(d)][c] = "pending"
    BY DEF OutcomeOf
  <2> QED
    BY <2>1, <2>2 DEF Atomic!Next, Atomic!Fail
<1> QED
  BY <1>1, <1>2, <1>3

(* A commit takes effect in one step, heard of or not. *)
LEMMA CommittedAttemptIsAtomic ==
    ASSUME BusInv, NEW c \in Commands,
           pc[c] = "inTx",
           Write(c),
           UNCHANGED hooked,
           \/ pc' = [pc EXCEPT ![c] = "committed"]
           \/ Catch(c, "lost")
    PROVE  Atomic!Next
<1>1. TypeOK /\ applied[c] = 0
  BY DEF BusInv, EffectInv
<1>2. /\ applied' = [applied EXCEPT ![c] = applied[c] + 1]
      /\ version' = version + 1
  BY <1>1 DEF Write, Once
<1>3. [d \in Commands |-> OutcomeOf(d)][c] = "pending"
  BY DEF OutcomeOf
<1>4. CASE pc' = [pc EXCEPT ![c] = "committed"]
  <2>1. [d \in Commands |-> OutcomeOf(d)]'
            = [[d \in Commands |-> OutcomeOf(d)] EXCEPT ![c] = "applied"]
    BY <1>1, <1>4 DEF OutcomeOf, TypeOK
  <2> QED
    BY <1>2, <1>3, <2>1 DEF Atomic!Next, Atomic!Apply, Atomic!TakeEffect
<1>5. CASE Catch(c, "lost")
  <2>1. pc' = [pc EXCEPT ![c] = "failed"]
    BY <1>5 DEF Catch, WillRetry, IsTransient
  <2>2. [d \in Commands |-> OutcomeOf(d)]'
            = [[d \in Commands |-> OutcomeOf(d)] EXCEPT ![c] = "failed"]
    BY <1>1, <2>1 DEF OutcomeOf, TypeOK
  <2> QED
    BY <1>2, <1>3, <2>2 DEF Atomic!Next, Atomic!ApplyUnheard, Atomic!TakeEffect
<1> QED
  BY <1>4, <1>5

(* Every step of the pipeline is a step of the atomic command, or none.    *)
LEMMA StepIsAtomic ==
    BusInv /\ [Next]_vars => [Atomic!Next]_(Atomic!vars)
<1> SUFFICES ASSUME BusInv, [Next]_vars
             PROVE  Atomic!Next \/ UNCHANGED Atomic!vars
  OBVIOUS
<1>0. TypeOK /\ EffectInv
  BY DEF BusInv
<1>1. ASSUME NEW c \in Commands, Begin(c)
      PROVE  UNCHANGED Atomic!vars
  <2>1. pc' = [pc EXCEPT ![c] = pc'[c]] /\ pc'[c] = "inTx"
    BY <1>0, <1>1, BeginOpens DEF TypeOK
  <2>2. OutcomeOf(c)' = OutcomeOf(c)
    BY <1>1, <2>1 DEF Begin, OutcomeOf
  <2> QED
    BY <1>0, <1>1, <2>1, <2>2, InvisibleStep DEF Begin
<1>2. ASSUME NEW c \in Commands,
             HandlerThrows(c) \/ NestedRun(c) \/ CommitConflicts(c)
      PROVE  Atomic!Next \/ UNCHANGED Atomic!vars
  <2>1. \E e \in Errors : Catch(c, e)
    BY <1>2, BusAssumption
    DEF HandlerThrows, NestedRun, AmbientTx, CommitConflicts, Errors
  <2> QED
    BY <1>0, <1>2, <2>1, FailedAttemptIsAtomic
    DEF HandlerThrows, NestedRun, CommitConflicts
<1>3. ASSUME NEW c \in Commands, Commit(c) \/ CommitReplyLost(c)
      PROVE  Atomic!Next
  BY <1>3, CommittedAttemptIsAtomic DEF Commit, CommitReplyLost
<1>4. ASSUME NEW c \in Commands, AfterCommit(c)
      PROVE  Atomic!Next
  <2>1. pc[c] = "committed" /\ pc' = [pc EXCEPT ![c] = "replied"]
    BY <1>4 DEF AfterCommit, OutcomesOfHook
  <2>2. hooked' = [hooked EXCEPT ![c] = hooked[c] + 1]
    <3>1. hooked[c] = 0
      BY <1>0, <2>1 DEF EffectInv
    <3>2. Once(hooked[c]) = hooked[c] + 1
      BY <3>1 DEF Once
    <3> QED
      BY <1>4, <3>2 DEF AfterCommit
  <2>3. [d \in Commands |-> OutcomeOf(d)]'
            = [[d \in Commands |-> OutcomeOf(d)] EXCEPT ![c] = "replied"]
    BY <1>0, <2>1 DEF OutcomeOf, TypeOK
  <2>4. [d \in Commands |-> OutcomeOf(d)][c] = "applied"
    BY <2>1 DEF OutcomeOf
  <2> QED
    BY <1>4, <2>2, <2>3, <2>4 DEF AfterCommit, Atomic!Next, Atomic!Reply
<1>5. CASE UNCHANGED vars
  BY <1>5 DEF vars, Atomic!vars, OutcomeOf
<1> QED
  BY <1>1, <1>2, <1>3, <1>4, <1>5 DEF Next, Step

(* To whoever calls execute(), a command takes effect in one step, once or *)
(* not at all, and is followed by its hook: retries, conflicts and         *)
(* rollbacks are invisible, for every number of commands and retries.      *)
THEOREM AtomicToTheCaller == Spec => ImplementsAtomicCommand
<1>1. Init => Atomic!Init
  BY InitIsAtomic
<1>2. BusInv /\ [Next]_vars => [Atomic!Next]_(Atomic!vars)
  BY StepIsAtomic
<1> QED
  BY <1>1, <1>2, InvHolds, PTL DEF Spec, ImplementsAtomicCommand, Atomic!Spec

-----------------------------------------------------------------------------
(* Termination *)

(* The steps a command can still take: an attempt begins and ends, and the *)
(* last one may be followed by the hook.                                   *)
StepsLeft(c) ==
    CASE pc[c] \in {"ready", "backoff"} -> 2 * (MaxRetries - attempt[c]) + 3
      [] pc[c] = "inTx" -> 2 * (MaxRetries - attempt[c]) + 2
      [] pc[c] = "committed" -> 1
      [] OTHER -> 0

LEMMA StepsLeftType == BusInv => \A c \in Commands : StepsLeft(c) \in Nat
<1> SUFFICES ASSUME BusInv, NEW c \in Commands
             PROVE  StepsLeft(c) \in Nat
  OBVIOUS
<1>1. CASE pc[c] # "failed"
  <2>1. attempt[c] \in Nat /\ MaxRetries \in Nat /\ attempt[c] <= MaxRetries
    BY <1>1, BusAssumption DEF BusInv, TypeOK, RetriesInv
  <2>2. MaxRetries - attempt[c] \in Nat
    BY <2>1
  <2> QED
    BY <2>2 DEF StepsLeft
<1>2. CASE pc[c] = "failed"
  BY <1>2 DEF StepsLeft
<1> QED
  BY <1>1, <1>2

(* An attempt that fails is followed by one fewer. *)
LEMMA CatchRunsDown ==
    ASSUME BusInv, NEW c \in Commands, NEW e, pc[c] = "inTx", Catch(c, e)
    PROVE  StepsLeft(c)' < StepsLeft(c)
<1>1. /\ attempt[c] \in Nat /\ MaxRetries \in Nat /\ attempt[c] <= MaxRetries
      /\ attempt'[c] = attempt[c] + 1
      /\ pc'[c] = IF WillRetry(c, e) THEN "backoff" ELSE "failed"
  BY BusAssumption DEF BusInv, TypeOK, RetriesInv, Catch
<1>2. StepsLeft(c) = 2 * (MaxRetries - attempt[c]) + 2
  BY DEF StepsLeft
<1>3. CASE WillRetry(c, e)
  <2>1. StepsLeft(c)' = 2 * (MaxRetries - (attempt[c] + 1)) + 3
    BY <1>1, <1>3 DEF StepsLeft
  <2> QED
    BY <1>1, <1>2, <2>1
<1>4. CASE ~WillRetry(c, e)
  <2>1. StepsLeft(c)' = 0
    BY <1>1, <1>4 DEF StepsLeft
  <2> QED
    BY <1>1, <1>2, <2>1
<1> QED
  BY <1>3, <1>4

LEMMA StepRunsDown ==
    ASSUME BusInv, NEW c \in Commands, Step(c)
    PROVE  StepsLeft(c)' < StepsLeft(c)
<1>0. TypeOK /\ attempt[c] \in Nat /\ MaxRetries \in Nat
  BY BusAssumption DEF BusInv, TypeOK
<1>1. CASE Begin(c)
  <2>1. /\ pc[c] \in {"ready", "backoff"} /\ pc'[c] = "inTx"
        /\ attempt'[c] = attempt[c]
    BY <1>0, <1>1, BeginOpens DEF Begin, TypeOK
  <2>2. /\ StepsLeft(c) = 2 * (MaxRetries - attempt[c]) + 3
        /\ StepsLeft(c)' = 2 * (MaxRetries - attempt[c]) + 2
    BY <2>1 DEF StepsLeft
  <2> QED
    BY <1>0, <2>2
<1>2. CASE HandlerThrows(c) \/ NestedRun(c) \/ CommitConflicts(c)
           \/ CommitReplyLost(c)
  <2>1. pc[c] = "inTx" /\ \E e : Catch(c, e)
    BY <1>2 DEF HandlerThrows, NestedRun, AmbientTx, CommitConflicts,
                CommitReplyLost
  <2> QED
    BY <2>1, CatchRunsDown
<1>3. CASE Commit(c)
  <2>1. pc[c] = "inTx" /\ pc'[c] = "committed" /\ attempt[c] <= MaxRetries
    BY <1>0, <1>3 DEF Commit, TypeOK, BusInv, RetriesInv
  <2>2. /\ StepsLeft(c) = 2 * (MaxRetries - attempt[c]) + 2
        /\ StepsLeft(c)' = 1
    BY <2>1 DEF StepsLeft
  <2> QED
    BY <1>0, <2>1, <2>2
<1>4. CASE AfterCommit(c)
  <2>1. pc[c] = "committed" /\ pc'[c] = "replied"
    BY <1>0, <1>4 DEF AfterCommit, OutcomesOfHook, TypeOK
  <2>2. StepsLeft(c) = 1 /\ StepsLeft(c)' = 0
    BY <2>1 DEF StepsLeft
  <2> QED
    BY <2>2
<1> QED
  BY <1>1, <1>2, <1>3, <1>4 DEF Step

(* A step of one command leaves what the others have left. *)
LEMMA StepTouchesOne ==
    ASSUME BusInv, NEW c \in Commands, Step(c), NEW d \in Commands \ {c}
    PROVE  StepsLeft(d)' = StepsLeft(d)
<1>1. pc'[d] = pc[d] /\ attempt'[d] = attempt[d]
  BY DEF BusInv, TypeOK, Step, Begin, HandlerThrows, NestedRun, AmbientTx, Commit,
         CommitConflicts, CommitReplyLost, AfterCommit, Catch
<1> QED
  BY <1>1 DEF StepsLeft

(* Each step of a command takes one of the at most 2 * MaxRetries + 3 it   *)
(* has, and nothing the others do gives it any back: no contention makes   *)
(* execute() go on for ever, and it ends if its calls do.                  *)
THEOREM AttemptsRunOut ==
    Spec => /\ [](\A c \in Commands : StepsLeft(c) \in 0..(2 * MaxRetries + 3))
            /\ [][\A c \in Commands :
                     \/ Step(c) /\ StepsLeft(c)' < StepsLeft(c)
                     \/ StepsLeft(c)' = StepsLeft(c)]_vars
<1>1. BusInv => \A c \in Commands : StepsLeft(c) \in 0..(2 * MaxRetries + 3)
  <2> SUFFICES ASSUME BusInv, NEW c \in Commands
               PROVE  StepsLeft(c) \in 0..(2 * MaxRetries + 3)
    OBVIOUS
  <2>1. attempt[c] \in Nat /\ MaxRetries \in Nat
    BY BusAssumption DEF BusInv, TypeOK
  <2>2. \/ StepsLeft(c) = 2 * (MaxRetries - attempt[c]) + 3
        \/ StepsLeft(c) = 2 * (MaxRetries - attempt[c]) + 2
        \/ StepsLeft(c) \in {0, 1}
    BY DEF StepsLeft
  <2>3. StepsLeft(c) \in Nat
    BY StepsLeftType
  <2>4. StepsLeft(c) <= 2 * MaxRetries + 3
    BY <2>1, <2>2
  <2> QED
    BY <2>1, <2>3, <2>4
<1>2. BusInv /\ [Next]_vars =>
          [\A c \in Commands :
              \/ Step(c) /\ StepsLeft(c)' < StepsLeft(c)
              \/ StepsLeft(c)' = StepsLeft(c)]_vars
  BY StepRunsDown, StepTouchesOne DEF Next
<1> QED
  BY <1>1, <1>2, InvHolds, PTL DEF Spec

-----------------------------------------------------------------------------
(* The event bus: listeners act at most once for a command, and only for   *)
(* one that took effect, because only the hook of a committed command      *)
(* publishes outside a transaction, and it does so once.                   *)

(* The run of a listener that may execute a command. *)
FreeJob(c, l) == [of |-> c, listener |-> l, inTx |-> FALSE]

(* No such run, and no effect, before the hook has published; then the run *)
(* or its effect, not both.                                                *)
ListenerInv ==
    \A c \in Commands, l \in Listeners :
        /\ effects[c][l] \in {0, 1}
        /\ FreeJob(c, l) \in jobs => effects[c][l] = 0
        /\ \/ pc[c] \notin {"committed", "replied"}
           \/ pc[c] = "committed" /\ c \notin announced
           => FreeJob(c, l) \notin jobs /\ effects[c][l] = 0

EventInv == BusInv /\ EventTypes /\ ListenerInv

-----------------------------------------------------------------------------
(* At first nobody listens and nothing is published. *)
LEMMA EventInitInv == EventInit => EventInv
<1> SUFFICES ASSUME EventInit PROVE EventInv
  OBVIOUS
<1>1. BusInv
  BY InitEstablishesInv DEF EventInit
<1>2. EventTypes
  BY DEF EventInit, EventTypes
<1>3. ListenerInv
  BY DEF EventInit, Init, ListenerInv
<1> QED
  BY <1>1, <1>2, <1>3 DEF EventInv

(* How a step of the pipeline moves its command: a commit comes from an    *)
(* open transaction, and a committed command only goes on to reply.        *)
LEMMA PipelineMoves ==
    ASSUME TypeOK, NEW c \in Commands, Step(c)
    PROVE  /\ \A d \in Commands \ {c} : pc'[d] = pc[d]
           /\ pc'[c] # pc[c]
           /\ pc[c] \notin {"replied", "failed"}
           /\ pc'[c] = "committed" => pc[c] = "inTx"
           /\ pc'[c] = "replied" <=> pc[c] = "committed"
<1>1. CASE Begin(c)
  BY <1>1 DEF Begin, TypeOK
<1>2. ASSUME NEW e, Catch(c, e), pc[c] = "inTx"
      PROVE  /\ \A d \in Commands \ {c} : pc'[d] = pc[d]
             /\ pc'[c] \in {"backoff", "failed"}
  BY <1>2 DEF Catch, TypeOK
<1>3. CASE HandlerThrows(c) \/ NestedRun(c) \/ CommitConflicts(c)
           \/ CommitReplyLost(c)
  <2>1. pc[c] = "inTx" /\ \E e : Catch(c, e)
    BY <1>3 DEF HandlerThrows, NestedRun, AmbientTx, CommitConflicts,
                CommitReplyLost
  <2> QED
    BY <1>2, <2>1
<1>4. CASE Commit(c)
  BY <1>4 DEF Commit, TypeOK
<1>5. CASE AfterCommit(c)
  BY <1>5 DEF AfterCommit, OutcomesOfHook, TypeOK
<1> QED
  BY <1>1, <1>3, <1>4, <1>5 DEF Step

(* The pipeline leaves the listeners alone. *)
LEMMA PipelinePreserves ==
    ASSUME EventInv, NEW c \in Commands, Pipeline(c)
    PROVE  EventInv'
<1>1. TypeOK /\ EventTypes /\ ListenerInv /\ Step(c)
  BY DEF EventInv, BusInv, Pipeline
<1>2. BusInv'
  BY <1>1, StepPreservesInv DEF EventInv, Next
<1>3. /\ announced' = announced \ {c}
      /\ jobs' = jobs /\ effects' = effects /\ registered' = registered
  BY <1>1, PipelineMoves DEF Pipeline
<1>4. EventTypes'
  BY <1>1, <1>3 DEF EventTypes
<1>5. ListenerInv'
  <2> SUFFICES ASSUME NEW d \in Commands, NEW l \in Listeners,
                      \/ pc'[d] \notin {"committed", "replied"}
                      \/ pc'[d] = "committed" /\ d \notin announced'
               PROVE  FreeJob(d, l) \notin jobs /\ effects[d][l] = 0
    BY <1>1, <1>3 DEF ListenerInv, FreeJob
  <2>1. CASE d # c
    BY <1>1, <1>3, <2>1, PipelineMoves DEF ListenerInv
  <2>2. CASE d = c
    BY <1>1, <2>2, PipelineMoves DEF ListenerInv
  <2> QED
    BY <2>1, <2>2
<1> QED
  BY <1>2, <1>4, <1>5 DEF EventInv

(* A publication starts runs; outside a transaction only those of a hook.  *)
LEMMA PublishPreserves ==
    ASSUME EventInv, NEW c \in Commands, Publish(c)
    PROVE  EventInv'
<1>1. TypeOK /\ EventTypes /\ ListenerInv /\ BusInv
  BY DEF EventInv, BusInv
<1>2. UNCHANGED vars /\ BusInv'
  BY <1>1, StutterPreservesInv DEF Publish
<1>3. pc' = pc /\ effects' = effects /\ announced' = announced \cup {c}
  BY <1>2 DEF Publish, vars
<1>4. EventTypes'
  BY <1>1 DEF Publish, EventTypes, Jobs, AmbientTx
<1>5. ASSUME NEW d \in Commands, NEW l \in Listeners, FreeJob(d, l) \in jobs'
      PROVE  \/ FreeJob(d, l) \in jobs
             \/ d = c /\ pc[c] = "committed" /\ c \notin announced
  BY <1>5 DEF Publish, FreeJob, AmbientTx
<1>6. ListenerInv'
  BY <1>1, <1>3, <1>5 DEF ListenerInv, FreeJob
<1> QED
  BY <1>2, <1>4, <1>6 DEF EventInv

(* A listener's command takes effect, or is refused. *)
LEMMA ListenerPreserves ==
    ASSUME EventInv, NEW j \in jobs,
           ListenerExecutes(j) \/ ListenerThrows(j)
    PROVE  EventInv'
<1>1. TypeOK /\ EventTypes /\ ListenerInv /\ BusInv
  BY DEF EventInv, BusInv
<1>2. UNCHANGED vars /\ BusInv'
  BY <1>1, StutterPreservesInv DEF ListenerExecutes, ListenerThrows
<1>3. /\ pc' = pc /\ announced' = announced /\ registered' = registered
      /\ jobs' = jobs \ {j}
  BY <1>2 DEF ListenerExecutes, ListenerThrows, vars
<1>4. CASE effects' = effects
  <2>1. EventTypes'
    BY <1>1, <1>3, <1>4 DEF EventTypes
  <2>2. ListenerInv'
    BY <1>1, <1>3, <1>4 DEF ListenerInv, FreeJob
  <2> QED
    BY <1>2, <2>1, <2>2 DEF EventInv
<1>5. CASE effects' # effects
  <2>1. /\ j.of \in Commands /\ j.listener \in Listeners
        /\ j = FreeJob(j.of, j.listener)
        /\ effects' = [effects EXCEPT ![j.of][j.listener] =
                          Once(effects[j.of][j.listener])]
    BY <1>1, <1>5, EventAssumption
    DEF ListenerExecutes, ListenerThrows, InheritedTx, EventTypes, Jobs, FreeJob
  <2>2. /\ effects[j.of][j.listener] = 0
        /\ pc[j.of] \in {"committed", "replied"}
        /\ pc[j.of] = "committed" => j.of \in announced
    BY <1>1, <2>1 DEF ListenerInv
  <2>3. effects' = [effects EXCEPT ![j.of][j.listener] = 1]
    BY <2>1, <2>2 DEF Once
  <2>4. EventTypes'
    BY <1>1, <1>3, <2>1, <2>3 DEF EventTypes
  <2>5. \A d \in Commands, l \in Listeners :
           effects'[d][l] = IF d = j.of /\ l = j.listener THEN 1
                            ELSE effects[d][l]
    BY <1>1, <2>1, <2>3 DEF EventTypes
  <2>6. \A d \in Commands, l \in Listeners :
           FreeJob(d, l) \in jobs' =>
               FreeJob(d, l) \in jobs /\ ~(d = j.of /\ l = j.listener)
    <3> SUFFICES ASSUME NEW d \in Commands, NEW l \in Listeners,
                        FreeJob(d, l) \in jobs'
                 PROVE  FreeJob(d, l) \in jobs /\ ~(d = j.of /\ l = j.listener)
      OBVIOUS
    <3>1. FreeJob(d, l) \in jobs /\ FreeJob(d, l) # j
      BY <1>3
    <3>2. d = j.of /\ l = j.listener => FreeJob(d, l) = j
      BY <2>1
    <3> QED
      BY <3>1, <3>2
  <2>7. ListenerInv'
    <3> SUFFICES ASSUME NEW d \in Commands, NEW l \in Listeners
                 PROVE  /\ effects'[d][l] \in {0, 1}
                        /\ FreeJob(d, l) \in jobs' => effects'[d][l] = 0
                        /\ \/ pc[d] \notin {"committed", "replied"}
                           \/ pc[d] = "committed" /\ d \notin announced
                           => FreeJob(d, l) \notin jobs' /\ effects'[d][l] = 0
      BY <1>3 DEF ListenerInv, FreeJob
    <3>1. CASE d = j.of /\ l = j.listener
      BY <2>2, <2>5, <2>6, <3>1
    <3>2. CASE ~(d = j.of /\ l = j.listener)
      BY <1>1, <2>5, <2>6, <3>2 DEF ListenerInv
    <3> QED
      BY <3>1, <3>2
  <2> QED
    BY <1>2, <2>4, <2>7 DEF EventInv
<1> QED
  BY <1>4, <1>5

(* The invariant is inductive. *)
LEMMA EventStepInv == EventInv /\ [EventNext]_eventVars => EventInv'
<1> SUFFICES ASSUME EventInv, [EventNext]_eventVars
             PROVE  EventInv'
  OBVIOUS
<1>1. ASSUME NEW l \in Listeners, Register(l)
      PROVE  EventInv'
  BY <1>1, StutterPreservesInv
  DEF Register, vars, EventInv, EventTypes, ListenerInv, FreeJob
<1>2. CASE UNCHANGED eventVars
  BY <1>2, StutterPreservesInv
  DEF eventVars, vars, EventInv, EventTypes, ListenerInv, FreeJob
<1> QED
  BY <1>1, <1>2, PipelinePreserves, PublishPreserves, ListenerPreserves
  DEF EventNext

(* The inductive invariant holds in every behaviour. *)
THEOREM EventInvHolds == EventSpec => []EventInv
<1>1. EventInit => EventInv
  BY EventInitInv
<1>2. EventInv /\ [EventNext]_eventVars => EventInv'
  BY EventStepInv
<1> QED
  BY <1>1, <1>2, PTL DEF EventSpec

(* The variables keep their types, and a listener outside a transaction    *)
(* was started by the hook of a committed command.                         *)
THEOREM EventTypeCorrect == EventSpec => []EventTypeOK
<1>1. ASSUME EventInv PROVE EventTypeOK
  <2> SUFFICES ASSUME NEW j \in jobs, ~j.inTx
               PROVE  pc[j.of] \in {"committed", "replied"}
    BY <1>1 DEF EventTypeOK, EventInv, BusInv
  <2>1. /\ j.of \in Commands /\ j.listener \in Listeners
        /\ j = FreeJob(j.of, j.listener)
    BY <1>1, EventAssumption DEF EventInv, EventTypes, Jobs, FreeJob
  <2>2. FreeJob(j.of, j.listener) \in jobs
    BY <2>1
  <2> QED
    BY <1>1, <2>1, <2>2 DEF EventInv, ListenerInv
<1> QED
  BY <1>1, EventInvHolds, PTL

(* A listener's command takes effect at most once for a command, however   *)
(* often that was retried, and never for one that rolled back.             *)
THEOREM ListenersActOnceCommitted == EventSpec => []ListenersFollowCommit
<1>1. ASSUME EventInv PROVE ListenersFollowCommit
  <2> SUFFICES ASSUME NEW c \in Commands, NEW l \in Listeners
               PROVE  effects[c][l] <= applied[c]
    BY DEF ListenersFollowCommit
  <2>1. effects[c][l] \in {0, 1} /\ applied[c] \in 0..2
    BY <1>1 DEF EventInv, ListenerInv, BusInv, TypeOK
  <2>2. effects[c][l] = 1 => pc[c] \in {"committed", "replied"}
    BY <1>1 DEF EventInv, ListenerInv
  <2>3. pc[c] \in {"committed", "replied"} => applied[c] = 1
    BY <1>1 DEF EventInv, BusInv, EffectInv
  <2> QED
    BY <2>1, <2>2, <2>3
<1> QED
  BY <1>1, EventInvHolds, PTL

(* Whatever is published, the pipeline behaves as it does without an event *)
(* bus, so that every theorem about it holds beside the listeners too.     *)
THEOREM EventsLeaveThePipelineAlone == EventSpec => Spec
<1>1. EventInit => Init
  BY DEF EventInit
<1>2. [EventNext]_eventVars => [Next]_vars
  <2> SUFFICES ASSUME [EventNext]_eventVars PROVE [Next]_vars
    OBVIOUS
  <2>1. ASSUME NEW c \in Commands, Pipeline(c)
        PROVE  Next
    BY <2>1 DEF Pipeline, Next
  <2>2. ASSUME \/ \E c \in Commands : Publish(c)
               \/ \E l \in Listeners : Register(l)
               \/ \E j \in jobs : ListenerExecutes(j) \/ ListenerThrows(j)
        PROVE  UNCHANGED vars
    BY <2>2 DEF Publish, Register, ListenerExecutes, ListenerThrows
  <2>3. CASE UNCHANGED eventVars
    BY <2>3 DEF eventVars
  <2> QED
    BY <2>1, <2>2, <2>3 DEF EventNext
<1> QED
  BY <1>1, <1>2, PTL DEF EventSpec, Spec
=============================================================================
