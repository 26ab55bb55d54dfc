-------------------------- MODULE MCPureFunctions --------------------------
(* The instances of the parts, side by side.                                *)
EXTENDS PureFunctions, MCValues, MCLanguages, MCJose, MCRfc1751, MCAsn1,
        MCNumerics, MCPlanApply
=============================================================================
