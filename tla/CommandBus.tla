----------------------------- MODULE CommandBus -----------------------------
(***************************************************************************)
(* The transactional pipeline of CommandBus (cqrs/command-bus.ts):         *)
(* retry -> transaction -> handler -> afterCommit, with the unit-of-work   *)
(* runner (database/abstract-tx-runner.ts) and the classification of       *)
(* database errors (resilience/prisma-transient-error.ts).                 *)
(*                                                                         *)
(* Concurrent commands write one contended aggregate, the worst case for   *)
(* retries: a transaction commits only if nobody committed since it began  *)
(* (Postgres' serialization check, modelled from how the code uses it).    *)
(* Backoff delays are an arbitrary wait; logging is left out.              *)
(***************************************************************************)
EXTENDS Naturals, FiniteSets, Functions

CONSTANTS
    Commands,    (* concurrent command executions *)
    MaxRetries,  (* retryPolicy.maxRetries *)
    Faults,      (* errors a handler, or the opening of its transaction, throws;
                    "nested" when handlers call the runner again *)
    AckLossPossible  (* may the connection die between COMMIT and its reply? *)

(* The constructor refuses a maxRetries that is not a natural number. *)
ASSUME BusAssumption ==
    /\ IsFiniteSet(Commands)
    /\ MaxRetries \in Nat
    /\ Faults \subseteq {"P2034", "P2028", "marked", "business", "nested"}
    /\ AckLossPossible \in BOOLEAN

(* The classes of errors the code tells apart.  "P2034" is a serialization *)
(* conflict, "P2028" a pool timeout, "marked" a domain error that carries  *)
(* transient: true, "nested" NestedTransactionError, "lost" the connection *)
(* error of a commit whose reply never came, "business" any other error.   *)
Errors == {"P2034", "P2028", "marked", "business", "nested", "lost"}

(* Labels of the <prefix>_db_transient_error_total counter. *)
Labels == {"P2034", "P2028", "A2001"}

VARIABLES
    pc,        (* where the command's execute() stands *)
    attempt,   (* withRetry's local *)
    error,     (* what execute() rejected with *)
    version,   (* commits the aggregate has seen *)
    snapshot,  (* version the open transaction read *)
    applied,   (* history: commits of the command's own writes, up to 2 *)
    escaped,   (* history: writes a nested run committed on its own *)
    hooked,    (* history: afterCommit calls, up to 2 *)
    unacked,   (* history: commands whose commit reply was lost *)
    faulted,   (* history: commands that met an error other than a conflict *)
    metric     (* the counter, by label and by its "retried" label *)

vars == <<pc, attempt, error, version, snapshot, applied, escaped, hooked,
          unacked, faulted, metric>>

(* The variables hold values of their types. *)
TypeOK ==
    /\ pc \in [Commands -> {"ready", "inTx", "committed", "backoff",
                            "replied", "failed"}]
    /\ attempt \in [Commands -> 0..(MaxRetries + 1)]
    /\ error \in [Commands -> Errors \cup {"none", "unreachable"}]
    /\ version \in Nat
    /\ snapshot \in [Commands -> Nat]
    /\ applied \in [Commands -> 0..2]
    /\ escaped \in [Commands -> BOOLEAN]
    /\ hooked \in [Commands -> 0..2]
    /\ unacked \subseteq Commands
    /\ faulted \subseteq Commands
    /\ metric \in [Labels \X BOOLEAN -> Nat]

Init ==
    /\ pc = [c \in Commands |-> "ready"]
    /\ attempt = [c \in Commands |-> 0]
    /\ error = [c \in Commands |-> "none"]
    /\ version = 0
    /\ snapshot = [c \in Commands |-> 0]
    /\ applied = [c \in Commands |-> 0]
    /\ escaped = [c \in Commands |-> FALSE]
    /\ hooked = [c \in Commands |-> 0]
    /\ unacked = {}
    /\ faulted = {}
    /\ metric = [k \in Labels \X BOOLEAN |-> 0]

Once(n) == IF n < 2 THEN n + 1 ELSE n

-----------------------------------------------------------------------------
(* Error classification *)

(* Mutated form: a lost connection is retried like a conflict. *)
IsTransientOrLost(e) == e \in {"P2034", "marked", "lost"}

IsTransient(e) == e \in {"P2034", "marked"}

(* Mutated form: only Prisma's own errors are counted. *)
ObservedPrismaOnly(e) == e \in {"P2034", "P2028"}

(* recordObservation counts these, under these labels. *)
Observed(e) == e \in {"P2034", "P2028", "marked"}
LabelOf(e) == IF e = "marked" THEN "A2001" ELSE e

RecordObservation(e, retried) ==
    metric' = IF Observed(e)
              THEN [metric EXCEPT ![<<LabelOf(e), retried>>] = @ + 1]
              ELSE metric

-----------------------------------------------------------------------------
(* withRetry: the catch block, for an error e of this attempt *)

(* Mutated form: the error of the last attempt is retried too. *)
WillRetryOnceTooOften(c, e) == IsTransient(e) /\ attempt[c] <= MaxRetries

(* Mutated form: one retry fewer than configured. *)
WillRetryTooSeldom(c, e) == IsTransient(e) /\ attempt[c] + 2 <= MaxRetries

WillRetry(c, e) == IsTransient(e) /\ attempt[c] + 1 <= MaxRetries

Catch(c, e) ==
    /\ attempt' = [attempt EXCEPT ![c] = @ + 1]
    /\ RecordObservation(e, WillRetry(c, e))
    /\ IF WillRetry(c, e)
       THEN pc' = [pc EXCEPT ![c] = "backoff"] /\ UNCHANGED error
       ELSE /\ pc' = [pc EXCEPT ![c] = "failed"]
            /\ error' = [error EXCEPT ![c] = e]

-----------------------------------------------------------------------------
(* txRunner.run: an attempt *)

(* The loop condition, on the first attempt and after a backoff: either    *)
(* the transaction opens, or the loop ends and UnreachableError is thrown. *)
Begin(c) ==
    /\ pc[c] \in {"ready", "backoff"}
    /\ IF attempt[c] <= MaxRetries
       THEN /\ pc' = [pc EXCEPT ![c] = "inTx"]
            /\ snapshot' = [snapshot EXCEPT ![c] = version]
            /\ UNCHANGED error
       ELSE /\ pc' = [pc EXCEPT ![c] = "failed"]
            /\ error' = [error EXCEPT ![c] = "unreachable"]
            /\ UNCHANGED snapshot
    /\ UNCHANGED <<attempt, version, applied, escaped, hooked, unacked,
                   faulted, metric>>

(* The handler throws, or beginTransaction does: everything rolls back. *)
HandlerThrows(c) ==
    /\ pc[c] = "inTx"
    /\ \E e \in Faults \ {"nested"} : Catch(c, e)
    /\ faulted' = faulted \cup {c}
    /\ UNCHANGED <<version, snapshot, applied, escaped, hooked, unacked>>

(* Mutated form: the runner does not look for an open transaction. *)
NoAmbientTx(c) == FALSE

(* getTx() in the async context of the handler. *)
AmbientTx(c) == pc[c] = "inTx"

(* The handler calls run() again.  The nested call throws, and the handler *)
(* lets the error through.  Were it not refused, it would commit on a      *)
(* connection of its own.                                                  *)
NestedRun(c) ==
    /\ "nested" \in Faults
    /\ pc[c] = "inTx"
    /\ ~escaped[c]
    /\ IF AmbientTx(c)
       THEN /\ Catch(c, "nested")
            /\ faulted' = faulted \cup {c}
            /\ UNCHANGED escaped
       ELSE /\ escaped' = [escaped EXCEPT ![c] = TRUE]
            /\ UNCHANGED <<pc, attempt, error, faulted, metric>>
    /\ UNCHANGED <<version, snapshot, applied, hooked, unacked>>

Write(c) ==
    /\ snapshot[c] = version
    /\ version' = version + 1
    /\ applied' = [applied EXCEPT ![c] = Once(@)]

Commit(c) ==
    /\ pc[c] = "inTx"
    /\ Write(c)
    /\ pc' = [pc EXCEPT ![c] = "committed"]
    /\ UNCHANGED <<attempt, error, snapshot, escaped, hooked, unacked,
                   faulted, metric>>

(* Somebody committed since the snapshot: P2034 from the database, or the  *)
(* marked error of a handler that found the version taken.                 *)
CommitConflicts(c) ==
    /\ pc[c] = "inTx"
    /\ snapshot[c] # version
    /\ \E e \in {"P2034", "marked"} : Catch(c, e)
    /\ UNCHANGED <<version, snapshot, applied, escaped, hooked, unacked,
                   faulted>>

(* The commit took effect but its reply was lost. *)
CommitReplyLost(c) ==
    /\ AckLossPossible
    /\ pc[c] = "inTx"
    /\ Write(c)
    /\ unacked' = unacked \cup {c}
    /\ faulted' = faulted \cup {c}
    /\ Catch(c, "lost")
    /\ UNCHANGED <<snapshot, escaped, hooked>>

(* Mutated form: what afterCommit throws reaches the caller. *)
OutcomesOfHookUnguarded == {"replied", "failed"}

(* What execute() does when afterCommit returns or throws. *)
OutcomesOfHook == {"replied"}

(* runTransactional after run(): the hook, then the reply. *)
AfterCommit(c) ==
    /\ pc[c] = "committed"
    /\ hooked' = [hooked EXCEPT ![c] = Once(@)]
    /\ \E outcome \in OutcomesOfHook : pc' = [pc EXCEPT ![c] = outcome]
    /\ UNCHANGED <<attempt, error, version, snapshot, applied, escaped,
                   unacked, faulted, metric>>

-----------------------------------------------------------------------------
Step(c) ==
    \/ Begin(c) \/ HandlerThrows(c) \/ NestedRun(c) \/ Commit(c)
    \/ CommitConflicts(c) \/ CommitReplyLost(c) \/ AfterCommit(c)

Next == \E c \in Commands : Step(c)

Spec == Init /\ [][Next]_vars

-----------------------------------------------------------------------------
(* A retry never applies a command twice, although a commit may take       *)
(* effect and still report an error.                                       *)
AppliedAtMostOnce == \A c \in Commands : applied[c] <= 1

(* The caller is told the truth: a reply means the writes are in and the   *)
(* hook ran once; an error means that nothing of the command survives, not *)
(* even through a nested run, and no hook ran, unless the commit's reply   *)
(* was lost.                                                               *)
OutcomeIsTruthful ==
    \A c \in Commands :
        /\ pc[c] = "replied" => applied[c] = 1 /\ hooked[c] = 1
        /\ pc[c] = "failed" =>
              /\ hooked[c] = 0
              /\ ~escaped[c]
              /\ applied[c] > 0 => c \in unacked

Retries(c) == IF pc[c] = "failed" THEN attempt[c] - 1 ELSE attempt[c]

(* Every retry shows in the metric, and no more than that: the decision    *)
(* and the counter have one scope (comment on recordObservation).          *)
RetriesAreCounted ==
    FoldFunction(+, 0, [c \in Commands |-> Retries(c)])
        = FoldFunction(+, 0, [l \in Labels |-> metric[<<l, TRUE>>]])

(* Contention alone never fails a command while the commands are no more   *)
(* than the attempts, whatever goes wrong for the others: each conflict is *)
(* another command's commit.                                               *)
ContentionAbsorbed ==
    Cardinality(Commands) <= MaxRetries + 1 =>
        \A c \in Commands : pc[c] = "failed" => c \in faulted

(* The two bounds of the retry loop agree: the decision to retry is made   *)
(* only while the loop condition lets another attempt start, so the        *)
(* UnreachableError behind the loop never reaches a caller, and a caller   *)
(* sees a transient error only when every retry has been used.             *)
RetryBoundsAgree ==
    \A c \in Commands :
        /\ pc[c] = "backoff" => attempt[c] <= MaxRetries
        /\ pc[c] = "failed" =>
              /\ error[c] \in Errors
              /\ IsTransient(error[c]) => attempt[c] = MaxRetries + 1

-----------------------------------------------------------------------------
(* Where a command stands, for somebody who sees only its outcome. *)
OutcomeOf(c) ==
    CASE pc[c] = "committed" -> "applied"
      [] pc[c] \in {"replied", "failed"} -> pc[c]
      [] OTHER -> "pending"

Atomic == INSTANCE AtomicCommand WITH
    outcome <- [c \in Commands |-> OutcomeOf(c)],
    effects <- applied,
    hooks <- hooked,
    commits <- version

(* Retries, conflicts and rollbacks are invisible: the pipeline implements *)
(* commands that take effect in one step, once or not at all, with the     *)
(* hook after the effect.                                                  *)
ImplementsAtomicCommand == Atomic!Spec
=============================================================================
