-------------------------- MODULE MCMcpConnections --------------------------
(* TLC instances of McpConnections.                                         *)
EXTENDS McpConnections, TLC

CONSTANTS near, nearEdited, far, off, t1, w1, w2, n1, n2, n3, sigNear, sigFar, sigOff

\* nearEdited differs from near in metadata only; far is another address.
Signatures == (near :> sigNear) @@ (nearEdited :> sigNear) @@ (far :> sigFar) @@ (off :> sigOff)
=============================================================================
