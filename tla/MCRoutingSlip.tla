--------------------------- MODULE MCRoutingSlip ---------------------------
(* TLC instances of RoutingSlip: slips made of the services that exist.     *)
EXTENDS RoutingSlip, TLC

CONSTANTS c1, c2, c3

\* story-engine, auth, query-analyzer: every way to treat a failure
AllStyles == <<"fallback", "retry", "finish">>
\* story-engine, llm-bot
StoryFirst == <<"fallback", "forward">>
\* three plain services
Plain == <<"forward", "forward", "forward">>
\* a service written after agent-flow-patterns.md, llm-bot
Canonical == <<"silent", "forward">>
=============================================================================
