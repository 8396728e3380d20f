--------------------------- MODULE MCTraceContext ---------------------------
(* Model-checking instance of TraceContext; its constants are numbers. *)
EXTENDS TraceContext
=============================================================================
