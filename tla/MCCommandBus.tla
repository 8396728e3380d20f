---------------------------- MODULE MCCommandBus ----------------------------
(* Model-checking instance of EventBus, and of CommandBus in it.  The      *)
(* refinement, a temporal property, rules out the symmetry of the commands.*)
EXTENDS EventBus
=============================================================================
