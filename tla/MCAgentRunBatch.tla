---------------------------- MODULE MCAgentRunBatch ----------------------------
(* A small swarm: three members, the last of which resumes an agent.        *)
EXTENDS AgentRunBatch
=============================================================================
