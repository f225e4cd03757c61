---------------------------- MODULE ToolExecutor ----------------------------
(***************************************************************************)
(* One execute() of AgentToolExecutorService (toolExecutor/                *)
(* toolExecutorService.ts): the calls of one model response are prepared   *)
(* one after the other, the prepared batch runs under a ToolScheduler, and *)
(* every settled call is finalized and yielded.  The turn may be aborted   *)
(* at any time; a tool that ignores the abort loses its slot when the      *)
(* grace timer fires, while its body goes on running.                      *)
(*                                                                         *)
(* The scheduler's variables and the scan of its queue are ToolScheduler's;*)
(* its actions are not: here a task declares what it accesses when it is   *)
(* made (nothing before that, and nothing when it only replays a result),  *)
(* the whole batch is added in one step, and a slot may be lost by abort.  *)
(***************************************************************************)
EXTENDS ToolScheduler

VARIABLES
    stage,      \* "preparing", "running", "done" or "failed" (execute() threw)
    step,       \* of the call being prepared: "resolve" or "decide"
    prepared,   \* calls 1..prepared have a task
    kind,       \* "none", "runnable" or "resolved" (makeResolvedTask)
    stopper,    \* the call that stopped the batch, 0 if none did
    aborted,    \* the turn's signal
    body,       \* the tool's own execution: "idle", "running" or "ended"
    finalized,  \* calls whose ToolResultEvent is dispatched
    yielded     \* calls whose result the loop has received

prepVars == <<step, prepared, kind, stopper>>
schedVars == <<added, active, queued, settled>>
outVars == <<finalized, yielded>>
executorVars == <<stage, prepVars, accesses, aborted, schedVars, body, outVars>>

Calls == 1..N

ExecutorInit ==
    /\ stage = "preparing" /\ step = "resolve" /\ prepared = 0
    /\ accesses = [i \in Calls |-> {}]
    /\ kind = [i \in Calls |-> "none"]
    /\ stopper = 0
    /\ aborted = FALSE
    /\ added = 0 /\ active = {} /\ queued = {} /\ settled = {}
    /\ body = [i \in Calls |-> "idle"]
    /\ finalized = {} /\ yielded = {}

-----------------------------------------------------------------------------
(* prepareToolCall and its loop.                                            *)

Current == prepared + 1

(* The current call gets its task, which either replays a result that is    *)
(* already known or runs the tool.                                          *)
Settle(theKind, declared, stops) ==
    /\ kind' = [kind EXCEPT ![Current] = theKind]
    /\ accesses' = [accesses EXCEPT ![Current] = declared]
    /\ stopper' = IF stops THEN Current ELSE stopper
    /\ prepared' = Current
    /\ step' = "resolve"
    /\ UNCHANGED <<stage, aborted, schedVars, body, outVars>>

Preparing(theStep) == stage = "preparing" /\ prepared < N /\ step = theStep

(* Once a call has stopped the batch the rest is skipped.                   *)
Skip == Preparing("resolve") /\ stopper # 0 /\ Settle("resolved", {}, FALSE)

(* A rejected call, a failed resolution or an aborted turn settles with an  *)
(* error; an execution that is an error result may also stop the batch.     *)
ResolveFails ==
    /\ Preparing("resolve") /\ stopper = 0
    /\ \E stops \in {FALSE, ~ aborted} : Settle("resolved", {}, stops)

(* Seeded fault: a stopped batch goes on resolving calls.                   *)
ResolveUnstopped ==
    /\ Preparing("resolve") /\ ~ aborted
    /\ step' = "decide"
    /\ UNCHANGED <<stage, prepared, kind, stopper, accesses, aborted, schedVars,
                   body, outVars>>

Resolve ==
    /\ Preparing("resolve") /\ stopper = 0 /\ ~ aborted
    /\ step' = "decide"
    /\ UNCHANGED <<stage, prepared, kind, stopper, accesses, aborted, schedVars,
                   body, outVars>>

(* The listeners of onBeforeExecuteTool, among them permission prompts: they *)
(* let the call through, veto it, or throw out of execute().  The signal is *)
(* not looked at again before the call gets its task.                       *)
Decide ==
    /\ Preparing("decide")
    /\ \/ \E declared \in DeclaredAccesses, stops \in BOOLEAN :
             Settle("runnable", declared, stops)
       \/ \E stops \in BOOLEAN : Settle("resolved", {}, stops)
       \/ /\ stage' = "failed"
          /\ UNCHANGED <<prepVars, accesses, aborted, schedVars, body, outVars>>

-----------------------------------------------------------------------------
(* executeBatch and runSingleExecution.                                     *)

(* Seeded fault: a tool is entered although the turn is aborted.            *)
StartBodiesRegardless(S) ==
    body' = [i \in Calls |->
        IF i \notin S THEN body[i]
        ELSE IF kind[i] = "runnable" THEN "running"
        ELSE "ended"]

(* The tasks of S are started: runSingleExecution enters the tool only when *)
(* the signal is not aborted yet; a resolved task has no body.              *)
StartBodies(S) ==
    body' = [i \in Calls |->
        IF i \notin S THEN body[i]
        ELSE IF kind[i] = "runnable" /\ ~ aborted THEN "running"
        ELSE "ended"]

(* The add() loop runs to its end before anything else does: no task can    *)
(* finish in it, so a task starts when no earlier one conflicts with it.    *)
RunBatch ==
    /\ stage = "preparing" /\ prepared = N
    /\ stage' = "running"
    /\ LET starting == Unblocked({}, Calls)
       IN  /\ active' = starting
           /\ added' = N
           /\ queued' = Calls \ starting
           /\ StartBodies(starting)
    /\ UNCHANGED <<prepVars, accesses, aborted, settled, outVars>>

(* Seeded fault: no grace timer; a slot is only given up by its tool.       *)
FinishTaskUngraced(t) ==
    /\ t \in active
    /\ body[t] = "ended"
    /\ settled' = settled \cup {t}
    /\ LET running == active \ {t}
           starting == Unblocked(running, queued)
       IN  /\ active' = running \cup starting
           /\ queued' = queued \ starting
           /\ StartBodies(starting)
    /\ UNCHANGED <<stage, prepVars, accesses, aborted, added, outVars>>

(* raceWithAbortGrace: the task settles with the tool, or without it when   *)
(* the timer armed by the abort fires first.                                *)
FinishTask(t) ==
    /\ t \in active
    /\ body[t] = "ended" \/ aborted
    /\ settled' = settled \cup {t}
    /\ LET running == active \ {t}
           starting == Unblocked(running, queued)
       IN  /\ active' = running \cup starting
           /\ queued' = queued \ starting
           /\ StartBodies(starting)
    /\ UNCHANGED <<stage, prepVars, accesses, aborted, added, outVars>>

(* The tool's promise settles, in its slot or after having lost it.         *)
BodyEnds(t) ==
    /\ body[t] = "running"
    /\ body' = [body EXCEPT ![t] = "ended"]
    /\ UNCHANGED <<stage, prepVars, accesses, aborted, schedVars, outVars>>

(* finalizeTimedResult: the onDidExecuteTool hooks, then the event.         *)
Finalize(t) ==
    /\ t \in settled \ finalized
    /\ finalized' = finalized \cup {t}
    /\ UNCHANGED <<stage, prepVars, accesses, aborted, schedVars, body, yielded>>

Yield(t) ==
    /\ t \in finalized \ yielded
    /\ yielded' = yielded \cup {t}
    /\ UNCHANGED <<stage, prepVars, accesses, aborted, schedVars, body, finalized>>

(* Seeded fault: the generator ends with the tasks, not with their results. *)
ReturnOnSettled ==
    /\ stage = "running" /\ settled = Calls
    /\ stage' = "done"
    /\ UNCHANGED <<prepVars, accesses, aborted, schedVars, body, outVars>>

Return ==
    /\ stage = "running" /\ yielded = Calls
    /\ stage' = "done"
    /\ UNCHANGED <<prepVars, accesses, aborted, schedVars, body, outVars>>

(* The user, a timeout or a disposal aborts the turn.                       *)
Abort ==
    /\ stage \in {"preparing", "running"} /\ ~ aborted
    /\ aborted' = TRUE
    /\ UNCHANGED <<stage, prepVars, accesses, schedVars, body, outVars>>

Over == stage \in {"done", "failed"}

Terminated == Over /\ UNCHANGED executorVars

ExecutorNext ==
    \/ Skip \/ ResolveFails \/ Resolve \/ Decide \/ RunBatch \/ Return \/ Abort
    \/ \E t \in Calls : FinishTask(t) \/ BodyEnds(t) \/ Finalize(t) \/ Yield(t)
    \/ Terminated

(* The executor's own steps and its hooks progress; a listener waiting for  *)
(* an answer is only known to give up once the turn is aborted, and nothing *)
(* makes a tool's body end.                                                 *)
ExecutorFairness ==
    /\ WF_executorVars(Skip \/ ResolveFails \/ Resolve)
    /\ WF_executorVars(aborted /\ Decide)
    /\ WF_executorVars(RunBatch) /\ WF_executorVars(Return)
    /\ \A t \in Calls : WF_executorVars(FinishTask(t)) /\ WF_executorVars(Finalize(t) \/ Yield(t))

ExecutorSpec == ExecutorInit /\ [][ExecutorNext]_executorVars /\ ExecutorFairness

-----------------------------------------------------------------------------
ExecutorTypeOK ==
    /\ stage \in {"preparing", "running", "done", "failed"}
    /\ step \in {"resolve", "decide"}
    /\ prepared \in 0..N
    /\ accesses \in [Calls -> DeclaredAccesses \cup {{}}]
    /\ kind \in [Calls -> {"none", "runnable", "resolved"}]
    /\ stopper \in 0..N
    /\ aborted \in BOOLEAN
    /\ active \subseteq Calls /\ queued \subseteq Calls /\ settled \subseteq Calls
    /\ body \in [Calls -> {"idle", "running", "ended"}]
    /\ finalized \subseteq Calls /\ yielded \subseteq Calls

(* The tools themselves never race for a file, not even after an abort,     *)
(* when slots are handed on while the tools that held them still run.       *)
BodiesNeverRace ==
    \A t, u \in Calls :
        (t # u /\ body[t] = "running" /\ body[u] = "running")
            => ~ Race(accesses[t], accesses[u])

(* A call the model wrote after the one that stopped the batch is never run. *)
SkippedNeverRuns ==
    \A t \in Calls : (stopper # 0 /\ t > stopper) => body[t] # "running"

(* When execute() is over no tool of the batch is still running, unless the *)
(* turn was aborted and the tool overstayed its grace period; a batch that  *)
(* completed has given the loop a result for every call.                    *)
NothingLeftBehind ==
    /\ Over /\ ~ aborted => \A t \in Calls : body[t] # "running"
    /\ stage = "done" => settled = Calls /\ finalized = Calls

(* An aborted turn gets its tool phase back whatever the tools do: execute() *)
(* ends even if no body ever does.                                          *)
AbortTerminates == aborted ~> Over
=============================================================================
