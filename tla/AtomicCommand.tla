--------------------------- MODULE AtomicCommand ---------------------------
(***************************************************************************)
(* What the command bus promises whoever calls execute(): a command takes  *)
(* effect in one step or not at all, its hook runs once and only after the *)
(* effect, and the caller hears which it was.  No transactions, attempts   *)
(* or retries.  The one exception is a commit whose reply was lost: the    *)
(* command has taken effect and its caller hears of a failure.             *)
(***************************************************************************)
EXTENDS Naturals

CONSTANT Commands

VARIABLES
    outcome,   (* "pending", "applied", "replied" or "failed" *)
    effects,   (* times the command's writes took effect *)
    hooks,     (* times its hook ran *)
    commits    (* writes the shared aggregate has seen *)

vars == <<outcome, effects, hooks, commits>>

Init ==
    /\ outcome = [c \in Commands |-> "pending"]
    /\ effects = [c \in Commands |-> 0]
    /\ hooks = [c \in Commands |-> 0]
    /\ commits = 0

TakeEffect(c) ==
    /\ outcome[c] = "pending"
    /\ effects' = [effects EXCEPT ![c] = @ + 1]
    /\ commits' = commits + 1
    /\ UNCHANGED hooks

Apply(c) ==
    /\ TakeEffect(c)
    /\ outcome' = [outcome EXCEPT ![c] = "applied"]

ApplyUnheard(c) ==
    /\ TakeEffect(c)
    /\ outcome' = [outcome EXCEPT ![c] = "failed"]

Reply(c) ==
    /\ outcome[c] = "applied"
    /\ outcome' = [outcome EXCEPT ![c] = "replied"]
    /\ hooks' = [hooks EXCEPT ![c] = @ + 1]
    /\ UNCHANGED <<effects, commits>>

Fail(c) ==
    /\ outcome[c] = "pending"
    /\ outcome' = [outcome EXCEPT ![c] = "failed"]
    /\ UNCHANGED <<effects, hooks, commits>>

Next ==
    \E c \in Commands : Apply(c) \/ ApplyUnheard(c) \/ Reply(c) \/ Fail(c)

Spec == Init /\ [][Next]_vars
=============================================================================
