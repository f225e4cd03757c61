----------------------------- MODULE MCAgentLoop -----------------------------
(* The kinds of step requests the agent makes.  A configuration picks those *)
(* it wants:                                                                *)
(*   prompt,                                                                *)
(*   nextPrompt    user prompts (newTurn)                                   *)
(*   notice        a background notification that joins or creates a turn   *)
(*   steer         the user's message for the running turn only             *)
(*   handoff       the summary step after repeated calls, which the step    *)
(*                 limit spares; enqueue() takes it at any time             *)
(*   continuation  made by the hook that continues after tool calls         *)
EXTENDS AgentLoop

CONSTANTS prompt, nextPrompt, notice, steer, handoff, continuation

MCAdmission == [r \in Requests |->
    CASE r \in {prompt, nextPrompt} -> "newTurn"
      [] r = notice -> "activeOrNewTurn"
      [] r = steer -> "activeTurnOnly"
      [] OTHER -> "activeOrNextTurn"]
MCMergeable == {notice, steer} \cap Requests
MCTurnScoped == Requests \ {notice, steer}
MCSeeded == {prompt, nextPrompt, notice, steer} \cap Requests
MCContinuation == {continuation} \cap Requests
MCHandoff == {handoff} \cap Requests
=============================================================================
