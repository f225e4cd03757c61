-------------------------- MODULE MCContextMemory --------------------------
(* The failures of the runs over ContextMemory.                            *)
EXTENDS ContextMemory

MCEveryFailure == {"listener", "crash", "rehydrated"}
MCCrash == {"crash"}
MCListener == {"listener"}
MCNoFailure == {}
=============================================================================
