---------------------------- MODULE MCPromptQueue ----------------------------
(* A few prompts, one turn of others and at most two compactions.           *)
EXTENDS PromptQueue

CONSTANTS p1, p2, p3
=============================================================================
