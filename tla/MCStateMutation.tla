-------------------------- MODULE MCStateMutation --------------------------
(* TLC instances of StateMutation.                                          *)
EXTENDS StateMutation

CONSTANTS a, b, h1, h2, open, foreign
=============================================================================
