------------------------------ MODULE MCOutbox ------------------------------
(* Model-checking instance of Outbox: odd and even rows are two aggregates. *)
EXTENDS Outbox, TLC

MCAggregateOf(r) == r % 2

(* The replicas are interchangeable: no property tells them apart. *)
Symmetry == Permutations(Publishers)
=============================================================================
