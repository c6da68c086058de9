-------------------------- MODULE MCReflexService --------------------------
(* TLC instances of ReflexService.                                          *)
EXTENDS ReflexService

CONSTANTS r1, e1, t1, t2, q1, h1
=============================================================================
