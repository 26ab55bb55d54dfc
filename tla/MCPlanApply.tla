----------------------------- MODULE MCPlanApply -----------------------------
(* The table of the provider's functions, in the two groups that differ in  *)
(* how they go through their options.                                       *)
EXTENDS PlanApply

\* Every function whose loop reads all the options.
MCFunctions == SearchingFunctions \cup PlainFunctions
\* Those written to be called with arguments known in part.
MCExposed == SearchingFunctions

ASSUME TableIsHonest == Honest(MCFunctions, MCExposed)

\* The functions whose loop returns in its first iteration.
MCFirst == FirstOptionFunctions
MCNone == {}
=============================================================================
