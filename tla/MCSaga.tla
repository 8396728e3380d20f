------------------------------- MODULE MCSaga -------------------------------
(* Model-checking instance of Saga and HandlerRegistry: a saga that calls   *)
(* another service, dispatches two commands and calls a service again.      *)
EXTENDS Saga

CONSTANTS Provision, Inner1, Inner2

MCDeclarations == {{}, {Inner1}, {Inner1, Inner2}}

MCCommandOf(s) == IF s = 2 THEN Inner1 ELSE Inner2
=============================================================================
