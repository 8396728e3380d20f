---------------------------- MODULE AtLeastOnce ----------------------------
(***************************************************************************)
(* What a consumer group promises: its frontier in the log, the committed  *)
(* offset, moves past one message after the other, each only once it has   *)
(* been handled, and never back.  No members, retries or restarts; a       *)
(* message may be handled again any number of times.                       *)
(***************************************************************************)
EXTENDS Naturals, Sequences

CONSTANTS
    Messages,
    Exempt  (* the messages that ask for nothing *)

None == 0

VARIABLES
    log,       (* the messages so far, from offset 1 on *)
    handled,   (* messages applied, or set aside for a person to look at *)
    frontier   (* the next offset to be handled, None before the first *)

vars == <<log, handled, frontier>>

Init ==
    /\ log = <<>>
    /\ handled = Exempt
    /\ frontier \in {None, 1}

Arrive(m) ==
    /\ log' = Append(log, m)
    /\ UNCHANGED <<handled, frontier>>

Handle(m) ==
    /\ \E o \in DOMAIN log : log[o] = m
    /\ handled' = handled \cup {m}
    /\ UNCHANGED <<log, frontier>>

(* A new group begins wherever it finds itself. *)
Advance(o) ==
    /\ frontier \in {None, o}
    /\ log[o] \in handled
    /\ frontier' = o + 1
    /\ UNCHANGED <<log, handled>>

Next ==
    \/ \E m \in Messages : Arrive(m) \/ Handle(m)
    \/ \E o \in DOMAIN log : Advance(o)

Spec == Init /\ [][Next]_vars
=============================================================================
