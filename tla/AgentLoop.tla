----------------------------- MODULE AgentLoop -----------------------------
(***************************************************************************)
(* AgentLoopService with its StepRequestQueue (agent/loop): step requests  *)
(* are admitted to the active turn, to a turn of their own or to the next  *)
(* turn; turns run one at a time, in the order of their ids; a lease of    *)
(* quiescence keeps every turn away while the context is rewritten.        *)
(*                                                                         *)
(* JavaScript runs to completion.  A step of the specification is a piece  *)
(* of code without await, cut further where the code dispatches an event:  *)
(* a listener may call back into the service there.  Sync says when such a *)
(* piece is unfinished, so that no continuation of an await can run.       *)
(***************************************************************************)
EXTENDS Naturals, Sequences, FiniteSets, SequencesExt, Queue

CONSTANTS
    Requests,       \* the StepRequest objects ever enqueued
    Admission,      \* their admission
    Mergeable, TurnScoped, Handoff,
    Seeded,         \* those whose turnSeed is defined
    Continuation,   \* those created by a hook at the end of a step
    MaxSteps,       \* maxStepsPerTurn, 0 for no limit
    MaxRetries,     \* bound: retries the error handlers grant in a turn
    Waiters,        \* callers of settled()
    None

ASSUME RequestsAssumption == IsFiniteSet(Requests) /\ None \notin Requests
ASSUME AdmissionAssumption ==
    Admission \in [Requests ->
        {"newTurn", "activeOrNewTurn", "activeOrNextTurn", "activeTurnOnly"}]
ASSUME KindsAssumption ==
    Mergeable \cup TurnScoped \cup Handoff \cup Seeded \cup Continuation \subseteq Requests
ASSUME BoundsAssumption == MaxSteps \in Nat /\ MaxRetries \in Nat
ASSUME NoneAssumption == None \notin Nat

VARIABLES
    req,            \* StepRequest.state, "new" before enqueue()
    assigned,       \* the receipt's promise: "none", "pending", "resolved", "rejected"
    step,           \* the MutableStep of a request in its turn's job
    standalone,     \* standaloneStepQueue
    held,           \* heldAdmissions
    releasing,      \* held admissions releaseQuiescence still has to admit
    draining,       \* releaseQuiescence is in its loop
    quiet,          \* quiescenceDepth > 0
    disposing,
    turn,           \* turns by id: state, driving request, aborted signal
    queue,          \* turns by id: the job's StepRequestQueue
    pendingTurns,   \* ids, in order
    active,         \* activeTurnJob
    reserved,       \* nextReservedTurnId
    nextTurnId, cancelledTurnIds,  \* the replayable turn clock
    run,            \* the LoopRuntime of the active turn
    ending,         \* runTurn is between releaseActiveTurn and pumpTurns
    waiting         \* settleWaiters

clockVars == <<nextTurnId, cancelledTurnIds>>
admissionVars == <<standalone, held, releasing, draining, quiet>>
turnVars == <<turn, queue, pendingTurns, active, reserved>>
vars == <<req, assigned, step, admissionVars, disposing, turnVars, clockVars,
          run, ending, waiting>>

TurnIds == 0..(Cardinality(Requests) - 1)   \* at most one turn per request

NoTurn == [state |-> "none", request |-> None, aborted |-> FALSE]
NoStep == [turn |-> None, state |-> "none", result |-> "none"]
NoRun == [pc |-> "none", current |-> None, steps |-> 0, retries |-> 0, outcome |-> "none"]

Init ==
    /\ req = [r \in Requests |-> "new"]
    /\ assigned = [r \in Requests |-> "none"]
    /\ step = [r \in Requests |-> NoStep]
    /\ standalone = <<>> /\ held = <<>> /\ releasing = <<>>
    /\ draining = FALSE /\ quiet = FALSE /\ disposing = FALSE
    /\ turn = [t \in TurnIds |-> NoTurn]
    /\ queue = [t \in TurnIds |-> <<>>]
    /\ pendingTurns = <<>> /\ active = None /\ reserved = 0
    /\ nextTurnId = 0 /\ cancelledTurnIds = {}
    /\ run = NoRun /\ ending = FALSE /\ waiting = {}

-----------------------------------------------------------------------------
(* Who may run now.                                                         *)

(* A caller, or a listener of TurnPrompt, TurnStarted or TurnEnded: during  *)
(* releaseQuiescence only a turn that is being started calls listeners.     *)
Callable == draining => run.pc = "begin"

(* The continuation of an await in the loop runs when nothing synchronous   *)
(* is unfinished.                                                           *)
Sync == draining \/ ending

At(pc) == run.pc = pc /\ ~ Sync

-----------------------------------------------------------------------------
(* Building blocks.                                                         *)

Live(r) == req[r] # "aborted"

LiveRequests == {r \in Requests : Live(r)}

HasPending(q) == \E i \in DOMAIN q : Live(q[i])

(* Seeded fault: turns that wait for the active one to end are overlooked.  *)
HasPendingRequestsButTurns ==
    \/ active # None /\ HasPending(queue[active])
    \/ HasPending(standalone)
    \/ HasPending(held)

HasPendingRequests ==
    \/ active # None /\ HasPending(queue[active])
    \/ HasPending(standalone)
    \/ pendingTurns # <<>>
    \/ HasPending(held)

Idle(act, pend, hold) == act = None /\ pend = <<>> /\ hold = <<>>

(* Seeded faults: idleness is judged before the change that brings it       *)
(* about; only a disposal wakes the waiters.                                *)
MaybeSettleStale(act, pend, hold) ==
    waiting' = IF Idle(active, pendingTurns, held) THEN {} ELSE waiting

MaybeSettleOnDispose(act, pend, hold) ==
    waiting' = IF disposing /\ Idle(act, pend, hold) THEN {} ELSE waiting

MaybeSettle(act, pend, hold) ==
    waiting' = IF Idle(act, pend, hold) THEN {} ELSE waiting

(* cancelStep: a step that is over stays as it is, and a promise that is    *)
(* settled keeps its value.                                                 *)
Unfinished(s) == s.state \in {"queued", "running"}

SettleResult(s, value) ==
    [s EXCEPT !.result = IF @ = "none" THEN value ELSE @]

CancelledStep(s) == SettleResult([s EXCEPT !.state = "cancelled"], "cancelled")

CancelSteps(S) ==
    LET hit == {r \in S : Unfinished(step[r])}
    IN  /\ step' = [r \in Requests |-> IF r \in hit THEN CancelledStep(step[r]) ELSE step[r]]
        /\ req' = [r \in Requests |->
                     IF r \in hit /\ req[r] = "pending" THEN "aborted" ELSE req[r]]

(* Seeded fault: the steps of requests meant to survive are left alone.     *)
StepsOfTurnScoped(t) == {r \in TurnScoped : step[r].turn = t}

StepsOf(t) == {r \in Requests : step[r].turn = t}

(* advanceTurnClock: the first id from n on that is not cancelled.          *)
AdvanceTurnClock(n, cancelled) ==
    \E next \in n..Cardinality(Requests) :
        /\ next \notin cancelled
        /\ \A k \in n..(next - 1) : k \in cancelled
        /\ nextTurnId' = next
        /\ cancelledTurnIds' = {c \in cancelled : c > next}

(* Seeded fault: a running turn is no reason to wait.                       *)
MayNotPumpQuiet == disposing \/ quiet'

MayNotPump == disposing \/ quiet' \/ active # None

(* pumpTurns and startTurn, with the pending turns, the turns and the held  *)
(* admissions they find.  The turn's run begins in the same piece of code.  *)
PumpTurns(pend, turns, hold) ==
    IF MayNotPump
    THEN /\ pendingTurns' = pend
         /\ turn' = turns
         /\ UNCHANGED <<active, run, clockVars, waiting>>
    ELSE IF pend = <<>>
    THEN /\ pendingTurns' = pend
         /\ turn' = turns
         /\ MaybeSettle(active, pend, hold)
         /\ UNCHANGED <<active, run, clockVars>>
    ELSE LET t == Head(pend) IN
         /\ pendingTurns' = Tail(pend)
         /\ active' = t
         /\ turn' = [turns EXCEPT ![t].state = "running"]
         /\ run' = [NoRun EXCEPT !.pc = "begin"]
         /\ AdvanceTurnClock(nextTurnId + 1, cancelledTurnIds)
         /\ UNCHANGED waiting

-----------------------------------------------------------------------------
(* enqueue, admit.                                                          *)

QueuedStep(t) == [turn |-> t, state |-> "queued", result |-> "none"]

Resolve(S) == assigned' = [r \in Requests |-> IF r \in S THEN "resolved" ELSE assigned[r]]

(* assignStep to the active turn.                                           *)
JoinActive(r) ==
    /\ queue' = [queue EXCEPT ![active] = Append(@, r)]
    /\ step' = [step EXCEPT ![r] = QueuedStep(active)]
    /\ Resolve({r})
    /\ UNCHANGED <<standalone, turn, pendingTurns, active, reserved, clockVars,
                   run, waiting>>

(* reserveTurnId.                                                           *)
NewTurnId == IF reserved > nextTurnId THEN reserved ELSE nextTurnId

(* createAndQueueTurn: the new turn takes the standalone requests along.    *)
CreateTurn(r) ==
    LET t == NewTurnId
        moved == Kept(standalone, LiveRequests)
        mine == {r} \cup ToSet(moved)
    IN  /\ reserved' = t + 1
        /\ standalone' = <<>>
        /\ queue' = [queue EXCEPT ![t] = <<r>> \o moved]
        /\ step' = [q \in Requests |-> IF q \in mine THEN QueuedStep(t) ELSE step[q]]
        /\ Resolve(mine)
        /\ PumpTurns(Append(pendingTurns, t),
                     [turn EXCEPT ![t] = [state |-> "queued", request |-> r, aborted |-> FALSE]],
                     held)

WaitForNextTurn(r) ==
    /\ standalone' = Append(standalone, r)
    /\ assigned' = [assigned EXCEPT ![r] = "pending"]
    /\ UNCHANGED <<step, turnVars, clockVars, run, waiting>>

WantsNewTurn(r) ==
    \/ Admission[r] = "newTurn"
    \/ Admission[r] = "activeOrNewTurn" /\ active = None

Admissible(r) ==
    /\ WantsNewTurn(r) => r \in Seeded
    /\ Admission[r] = "activeTurnOnly" => active # None

Admit(r) ==
    /\ Admissible(r)
    /\ \/ WantsNewTurn(r) /\ CreateTurn(r)
       \/ ~ WantsNewTurn(r) /\ active # None /\ JoinActive(r)
       \/ ~ WantsNewTurn(r) /\ active = None /\ WaitForNextTurn(r)

(* admit() throws, and the receipt's promise is rejected.                   *)
Refuse(r) ==
    /\ ~ Admissible(r)
    /\ assigned' = [assigned EXCEPT ![r] = "rejected"]
    /\ UNCHANGED <<step, standalone, turnVars, clockVars, run, waiting>>

Hold(r) ==
    /\ held' = Append(held, r)
    /\ assigned' = [assigned EXCEPT ![r] = "pending"]
    /\ UNCHANGED <<step, standalone, turnVars, clockVars, run, waiting>>

(* Continuation requests are enqueued by a hook, see FinishStep.            *)
Enqueue(r) ==
    /\ Callable /\ ~ disposing
    /\ req[r] = "new" /\ r \notin Continuation
    /\ req' = [req EXCEPT ![r] = "pending"]
    /\ UNCHANGED <<disposing, ending, releasing, draining, quiet>>
    /\ \/ quiet /\ Hold(r)
       \/ ~ quiet /\ UNCHANGED held /\ (Admit(r) \/ Refuse(r))

-----------------------------------------------------------------------------
(* Quiescence.                                                              *)

TryAcquireQuiescence ==
    /\ Callable /\ ~ disposing
    /\ ~ quiet /\ active = None /\ ~ HasPendingRequests
    /\ quiet' = TRUE
    /\ UNCHANGED <<req, assigned, step, standalone, held, releasing, draining,
                   disposing, turnVars, clockVars, run, ending, waiting>>

(* The lease is disposed of: turns may run again, then what was held is     *)
(* admitted, from a list only this call sees.                               *)
ReleaseQuiescence ==
    /\ Callable /\ quiet
    /\ quiet' = FALSE
    /\ draining' = ~ disposing
    /\ releasing' = IF disposing THEN <<>> ELSE held
    /\ held' = IF disposing THEN held ELSE <<>>
    /\ PumpTurns(pendingTurns, turn, held)
    /\ UNCHANGED <<req, assigned, step, standalone, disposing, queue, reserved, ending>>

AdmitHeld ==
    /\ draining /\ run.pc # "begin" /\ releasing # <<>>
    /\ releasing' = Tail(releasing)
    /\ UNCHANGED <<held, draining, quiet, disposing, ending>>
    /\ LET r == Head(releasing) IN
       \/ /\ ~ Live(r)
          /\ UNCHANGED <<req, assigned, step, standalone, turnVars, clockVars, run, waiting>>
       \/ Live(r) /\ Admit(r) /\ UNCHANGED req
       \/ Live(r) /\ Refuse(r) /\ req' = [req EXCEPT ![r] = "aborted"]

ReleaseDone ==
    /\ draining /\ run.pc # "begin" /\ releasing = <<>>
    /\ draining' = FALSE
    /\ UNCHANGED <<req, assigned, step, standalone, held, releasing, quiet,
                   disposing, queue, reserved, ending>>
    /\ PumpTurns(pendingTurns, turn, held)

-----------------------------------------------------------------------------
(* Cancellation.                                                            *)

(* cancelActiveTurn: the running step's signal follows the turn's.          *)
CancelActiveTurn(t) ==
    /\ Callable
    /\ t = active /\ ~ turn[t].aborted
    /\ turn' = [turn EXCEPT ![t].aborted = TRUE]
    /\ UNCHANGED <<req, assigned, step, admissionVars, disposing, queue,
                   pendingTurns, active, reserved, clockVars, run, ending, waiting>>

CancelQueuedTurn(t) ==
    \E i \in DOMAIN pendingTurns : LET rest == RemoveAt(pendingTurns, i) IN
    /\ Callable
    /\ t = pendingTurns[i]
    /\ pendingTurns' = rest
    /\ turn' = [turn EXCEPT ![t].state = "cancelled", ![t].aborted = TRUE]
    /\ CancelSteps(StepsOf(t))
    /\ IF t < nextTurnId
       THEN UNCHANGED clockVars
       ELSE AdvanceTurnClock(nextTurnId, cancelledTurnIds \cup {t})
    /\ MaybeSettle(active, rest, held)
    /\ UNCHANGED <<assigned, admissionVars, disposing, queue, active, reserved,
                   run, ending>>

(* Step.cancel() of a step its caller was assigned.                         *)
CancelStep(r) ==
    /\ Callable
    /\ Unfinished(step[r])
    /\ CancelSteps({r})
    /\ UNCHANGED <<assigned, admissionVars, disposing, turnVars, clockVars, run,
                   ending, waiting>>

(* abort() of a receipt while the request is held, or is in no turn.  In a  *)
(* turn it is CancelStep, and CancelQueuedTurn for the request that a       *)
(* queued turn was created for.                                             *)
AbortRequest(r) ==
    /\ Callable
    /\ req[r] = "pending" /\ assigned[r] = "pending"
    /\ req' = [req EXCEPT ![r] = "aborted"]
    /\ assigned' = [assigned EXCEPT ![r] = "rejected"]
    /\ \/ \E i \in DOMAIN held : LET rest == RemoveAt(held, i) IN
             /\ held[i] = r
             /\ held' = rest
             /\ MaybeSettle(active, pendingTurns, rest)
       \/ r \notin ToSet(held) /\ UNCHANGED <<held, waiting>>
    /\ UNCHANGED <<step, standalone, releasing, draining, quiet, disposing,
                   turnVars, clockVars, run, ending>>

(* dispose(), from the teardown of the agent's scope.                       *)
Dispose ==
    /\ ~ Sync /\ run.pc # "begin" /\ ~ disposing
    /\ disposing' = TRUE
    /\ LET doomed == ToSet(pendingTurns)
           cut == UNION {StepsOf(t) : t \in doomed}
           loose == {r \in ToSet(standalone \o held) : Live(r)}
           hit == {r \in cut : Unfinished(step[r])}
       IN  /\ step' = [r \in Requests |->
                         IF r \in hit THEN CancelledStep(step[r]) ELSE step[r]]
           /\ req' = [r \in Requests |->
                         IF r \in hit \cup loose /\ req[r] = "pending"
                         THEN "aborted" ELSE req[r]]
           /\ assigned' = [r \in Requests |->
                         IF r \in loose THEN "rejected" ELSE assigned[r]]
           /\ turn' = [t \in TurnIds |->
                         IF t \in doomed
                         THEN [turn[t] EXCEPT !.state = "cancelled", !.aborted = TRUE]
                         ELSE IF t = active THEN [turn[t] EXCEPT !.aborted = TRUE]
                         ELSE turn[t]]
           /\ AdvanceTurnClock(nextTurnId, cancelledTurnIds \cup doomed)
    /\ pendingTurns' = <<>> /\ standalone' = <<>> /\ held' = <<>>
    /\ MaybeSettle(active, <<>>, <<>>)
    /\ UNCHANGED <<releasing, draining, quiet, queue, active, reserved, run, ending>>

(* settled(): the caller waits unless there is nothing to wait for.         *)
Settled(w) ==
    /\ Callable /\ w \notin waiting
    /\ ~ Idle(active, pendingTurns, held)
    /\ waiting' = waiting \cup {w}
    /\ UNCHANGED <<req, assigned, step, admissionVars, disposing, turnVars,
                   clockVars, run, ending>>

-----------------------------------------------------------------------------
(* The loop of the active turn: run(), beginLoopStep, executeLoopStep.      *)

keptByRun == <<standalone, held, releasing, draining, quiet, disposing, turn,
               pendingTurns, active, reserved, clockVars, ending, waiting>>

TurnAborted == turn[active].aborted
(* Seeded fault: aborted requests are not discarded.                        *)
ItemsUndiscarded == queue[active]

Items == Kept(queue[active], LiveRequests)

(* Seeded fault: the whole queue is drained, its requests left pending.     *)
LeaveRunDrained(outcome) ==
    /\ queue' = [queue EXCEPT ![active] = <<>>]
    /\ run' = [run EXCEPT !.pc = "returning", !.current = None, !.outcome = outcome]
    /\ UNCHANGED <<req, assigned, keptByRun>>

(* run() is left: its finally clause aborts what was meant for this turn    *)
(* only, and discards it.  The caller says what becomes of the steps.       *)
LeaveRun(outcome) ==
    LET cut == {r \in ToSet(Items) : r \in TurnScoped /\ req[r] = "pending"} IN
    /\ req' = [r \in Requests |-> IF r \in cut THEN "aborted" ELSE req[r]]
    /\ queue' = [queue EXCEPT ![active] = Kept(Items, Requests \ cut)]
    /\ run' = [run EXCEPT !.pc = "returning", !.current = None, !.outcome = outcome]
    /\ UNCHANGED <<assigned, keptByRun>>

BeginAborted ==
    /\ run.pc = "begin" /\ TurnAborted
    /\ LeaveRun("cancelled") /\ UNCHANGED step

BeginIdle ==
    /\ run.pc = "begin" /\ ~ TurnAborted /\ Items = <<>>
    /\ LeaveRun("completed") /\ UNCHANGED step

(* takeNextBatch: the first request that stands alone drives the step, else *)
(* the first one; every other mergeable request rides along.                *)
Alone == {i \in DOMAIN Items : Items[i] \notin Mergeable}
DriverIndex == IF Alone = {} THEN 1 ELSE CHOOSE i \in Alone : \A j \in Alone : i <= j
Driver == Items[DriverIndex]

(* Seeded fault: one step too many.                                         *)
TooManyStepsByOne ==
    /\ MaxSteps > 0
    /\ run.steps > MaxSteps
    /\ Driver \notin Handoff

TooManySteps ==
    /\ MaxSteps > 0
    /\ run.steps >= MaxSteps
    /\ Driver \notin Handoff

BeginTooMany ==
    /\ run.pc = "begin" /\ ~ TurnAborted /\ Items # <<>> /\ TooManySteps
    /\ run' = [run EXCEPT !.pc = "recovering", !.current = None]
    /\ UNCHANGED <<req, assigned, step, queue, keptByRun>>

(* The batch leaves the queue and its messages enter the context; only the  *)
(* driver's step is told that it runs.                                      *)
BeginStep ==
    /\ run.pc = "begin" /\ ~ TurnAborted /\ Items # <<>> /\ ~ TooManySteps
    /\ LET batch == {Driver} \cup (ToSet(Items) \cap Mergeable) IN
       /\ queue' = [queue EXCEPT ![active] = Kept(Items, Requests \ batch)]
       /\ req' = [r \in Requests |-> IF r \in batch THEN "materialized" ELSE req[r]]
    /\ step' = [step EXCEPT ![Driver].state = "running"]
    /\ run' = [run EXCEPT !.pc = "executing", !.current = Driver, !.steps = @ + 1]
    /\ UNCHANGED <<assigned, keptByRun>>

StepCancelled == run.current # None /\ step[run.current].state = "cancelled"

(* The response and its tools are recorded; then the hooks run, and one may *)
(* ask for another step: to go on after tool calls, or to hand over.        *)
FinishStep ==
    /\ At("executing") /\ ~ TurnAborted /\ ~ StepCancelled
    /\ run' = [run EXCEPT !.pc = "finishing"]
    /\ \/ UNCHANGED <<req, assigned, step, queue>>
       \/ \E r \in Continuation :
             /\ req[r] = "new"
             /\ req' = [req EXCEPT ![r] = "pending"]
             /\ queue' = [queue EXCEPT ![active] = Append(@, r)]
             /\ step' = [step EXCEPT ![r] = QueuedStep(active)]
             /\ Resolve({r})
    /\ UNCHANGED keptByRun

(* completeLoopStep: the step counts as completed even if it was cancelled  *)
(* while the hooks ran.  The turn goes on, is stopped by a hook, or fails   *)
(* on a filtered response.                                                  *)
CompletedStep(s) == SettleResult([s EXCEPT !.state = "completed"], "completed")

CompleteStep ==
    /\ At("finishing")
    /\ step' = [step EXCEPT ![run.current] = CompletedStep(@)]
    /\ \E next \in {"begin", "recovering"} :
          run' = [run EXCEPT !.pc = next, !.current = None]
    /\ UNCHANGED <<req, assigned, queue, keptByRun>>

StopTurn ==
    /\ At("finishing")
    /\ step' = [step EXCEPT ![run.current] = CompletedStep(@)]
    /\ LeaveRun("completed")

(* An error that is no cancellation goes to the error handlers.             *)
FailStep ==
    /\ At("executing") /\ ~ TurnAborted /\ ~ StepCancelled
    /\ run' = [run EXCEPT !.pc = "recovering"]
    /\ UNCHANGED <<req, assigned, step, queue, keptByRun>>

(* handleLoopCancellation, reached through an aborted signal or through an  *)
(* abort error the provider throws by itself: a cancelled step does not end *)
(* its turn.                                                                *)
SkipStep ==
    /\ At("executing") \/ At("finishing") \/ At("recovering")
    /\ StepCancelled /\ ~ TurnAborted
    /\ run' = [run EXCEPT !.pc = "begin", !.current = None]
    /\ UNCHANGED <<req, assigned, step, queue, keptByRun>>

(* Otherwise the turn ends as cancelled.                                    *)
AbortTurn ==
    /\ At("executing") \/ At("finishing") \/ At("recovering")
    /\ StepCancelled => TurnAborted
    /\ LeaveRun("cancelled") /\ UNCHANGED step

(* Seeded fault: the retry limit is not consulted.                          *)
RetryUnlimited ==
    /\ At("recovering") /\ run.current # None
    /\ queue' = [queue EXCEPT ![active] = <<run.current>> \o @]
    /\ step' = [step EXCEPT ![run.current].state = "queued"]
    /\ run' = [run EXCEPT !.pc = "begin", !.current = None, !.retries = @ + 1]
    /\ UNCHANGED <<req, assigned, keptByRun>>

(* A handler waited or compacted, and puts the failed driver back in front. *)
Retry ==
    /\ At("recovering") /\ run.current # None /\ run.retries < MaxRetries
    /\ queue' = [queue EXCEPT ![active] = <<run.current>> \o @]
    /\ step' = [step EXCEPT ![run.current] =
                  IF @.state = "cancelled" THEN QueuedStep(active)
                  ELSE [@ EXCEPT !.state = "queued"]]
    /\ run' = [run EXCEPT !.pc = "begin", !.current = None, !.retries = @ + 1]
    /\ UNCHANGED <<req, assigned, keptByRun>>

GiveUp == At("recovering") /\ LeaveRun("failed") /\ UNCHANGED step

(* settleTurnReady, releaseActiveTurn: what the turn still has unfinished   *)
(* is cancelled, turn-scoped or not.                                        *)
ReleaseActiveTurn ==
    /\ At("returning")
    /\ turn' = [turn EXCEPT ![active].state = run.outcome]
    /\ CancelSteps(StepsOf(active))
    /\ active' = None
    /\ run' = NoRun
    /\ ending' = TRUE
    /\ MaybeSettle(None, pendingTurns, held)
    /\ UNCHANGED <<assigned, admissionVars, disposing, queue, pendingTurns,
                   reserved, clockVars>>

(* Seeded fault: the next turn is not started when a turn is over.          *)
PumpNextForgotten ==
    /\ ending /\ run.pc # "begin"
    /\ ending' = FALSE
    /\ UNCHANGED <<req, assigned, step, admissionVars, disposing, turnVars, clockVars,
                   run, waiting>>

(* The listeners of TurnEnded have returned.                                *)
PumpNext ==
    /\ ending /\ run.pc # "begin"
    /\ ending' = FALSE
    /\ UNCHANGED <<req, assigned, step, admissionVars, disposing, queue, reserved>>
    /\ PumpTurns(pendingTurns, turn, held)

-----------------------------------------------------------------------------
Callers ==
    \/ \E r \in Requests : Enqueue(r) \/ CancelStep(r) \/ AbortRequest(r)
    \/ \E t \in TurnIds : CancelActiveTurn(t) \/ CancelQueuedTurn(t)
    \/ \E w \in Waiters : Settled(w)
    \/ TryAcquireQuiescence \/ Dispose

Begin == BeginAborted \/ BeginIdle \/ BeginTooMany \/ BeginStep
Execute == FinishStep \/ FailStep \/ SkipStep \/ AbortTurn
Recover == Retry \/ GiveUp
Complete == CompleteStep \/ StopTurn

(* A disposed loop has nothing left to do.                                  *)
Stopped == disposing /\ active = None /\ ~ quiet /\ UNCHANGED vars

Next ==
    \/ Callers \/ ReleaseQuiescence \/ AdmitHeld \/ ReleaseDone
    \/ Begin \/ Execute \/ Complete \/ Recover
    \/ ReleaseActiveTurn \/ PumpNext \/ Stopped

(* Requests to the model end, with an answer or an error, and aborted ones  *)
(* with an abort error; hooks and handlers return; whoever holds quiescence *)
(* releases it in a finally clause.  Nothing obliges the callers.           *)
Fairness ==
    /\ WF_vars(ReleaseQuiescence) /\ WF_vars(AdmitHeld) /\ WF_vars(ReleaseDone)
    /\ WF_vars(Begin) /\ WF_vars(Execute \/ Complete \/ Recover)
    /\ WF_vars(ReleaseActiveTurn) /\ WF_vars(PumpNext)

Spec == Init /\ [][Next]_vars /\ Fairness

-----------------------------------------------------------------------------
Over(t) == turn[t].state \in {"completed", "cancelled", "failed"}

TypeOK ==
    /\ req \in [Requests -> {"new", "pending", "materialized", "aborted"}]
    /\ assigned \in [Requests -> {"none", "pending", "resolved", "rejected"}]
    /\ step \in [Requests ->
          [turn : TurnIds \cup {None},
           state : {"none", "queued", "running", "completed", "cancelled"},
           result : {"none", "completed", "cancelled"}]]
    /\ {standalone, held, releasing} \subseteq Seq(Requests)
    /\ {draining, quiet, disposing, ending} \subseteq BOOLEAN
    /\ turn \in [TurnIds ->
          [state : {"none", "queued", "running", "completed", "cancelled", "failed"},
           request : Requests \cup {None}, aborted : BOOLEAN]]
    /\ queue \in [TurnIds -> Seq(Requests)]
    /\ pendingTurns \in Seq(TurnIds)
    /\ active \in TurnIds \cup {None}
    /\ reserved \in 0..Cardinality(Requests)
    /\ nextTurnId \in 0..Cardinality(Requests)
    /\ cancelledTurnIds \subseteq TurnIds
    /\ run.pc \in {"none", "begin", "executing", "finishing", "recovering", "returning"}
    /\ run.current \in Requests \cup {None}
    /\ run.outcome \in {"none", "completed", "cancelled", "failed"}
    /\ run.steps \in Nat /\ run.retries \in 0..MaxRetries
    /\ waiting \subseteq Waiters

(* Turns never overlap: at most one turn is running, it is the active one,  *)
(* and pendingTurns lists exactly the queued turns, oldest first.           *)
TurnsConsistent ==
    /\ \A t \in TurnIds : turn[t].state = "running" <=> t = active
    /\ ToSet(pendingTurns) = {t \in TurnIds : turn[t].state = "queued"}
    /\ \A i, j \in DOMAIN pendingTurns : i < j => pendingTurns[i] < pendingTurns[j]

(* While undo, compaction or an injection holds quiescence no turn is       *)
(* active or queued and no request waits to join one, however enqueue,      *)
(* cancel, dispose and the listeners interleave.                            *)
QuiescenceExcludesTurns ==
    quiet => active = None /\ pendingTurns = <<>> /\ ~ HasPending(standalone)

(* A request that is still pending is in exactly the place its receipt      *)
(* says: held or waiting for a turn while it is unassigned, in the queue of *)
(* a turn that is not over once it is assigned.  None is ever forgotten.    *)
PendingIsQueued ==
    \A r \in Requests : req[r] = "pending" =>
        \/ /\ assigned[r] = "pending"
           /\ r \in ToSet(held) \cup ToSet(releasing) \cup ToSet(standalone)
        \/ /\ assigned[r] = "resolved"
           /\ step[r].turn # None /\ step[r].state = "queued"
           /\ ~ Over(step[r].turn)
           /\ r \in ToSet(queue[step[r].turn])
        \/ assigned[r] = "rejected"

(* When a turn is over every step it was given is over too, its promise is  *)
(* settled, and none of its requests can still reach the context.           *)
NothingOutlivesItsTurn ==
    \A r \in Requests : step[r].turn # None /\ Over(step[r].turn) =>
        /\ ~ Unfinished(step[r])
        /\ step[r].result # "none"
        /\ req[r] # "pending"

(* A caller of settled() is left waiting only while there is something to   *)
(* wait for: no path that empties the loop forgets the waiters.  Only while *)
(* the held requests are being admitted does the loop look idle too early.  *)
NoLostWakeup ==
    (waiting # {} /\ ~ draining) => ~ Idle(active, pendingTurns, held)

(* However steps are merged, retried, cancelled or handed over, a turn asks *)
(* the model at most maxStepsPerTurn times, and once more for each handoff  *)
(* and each retry of one: the limit spares the steps of a handoff alone.    *)
StepLimit ==
    MaxSteps > 0 => run.steps <= MaxSteps + Cardinality(Handoff) + run.retries

(* Turns start in the order of their ids, after every earlier turn is over, *)
(* and the durable clock, which only counts prompts and skips cancelled     *)
(* ids, agrees with the id reserved long before.                            *)
StartsInOrder ==
    [][\A t \in TurnIds : (turn[t].state # "running" /\ turn'[t].state = "running") =>
          /\ t = nextTurnId
          /\ \A u \in 0..(t - 1) : Over(u)
          /\ ~ disposing]_vars

(* Once its cancellation has been reported a request never enters the       *)
(* context, nor does one of a turn that was aborted before the step began.  *)
CancelledNeverMaterializes ==
    [][\A r \in Requests : (req[r] # "materialized" /\ req'[r] = "materialized") =>
          /\ req[r] = "pending" /\ step[r].result = "none"
          /\ assigned[r] = "resolved" /\ step[r].turn = active
          /\ ~ turn[active].aborted]_vars

(* Every turn that was created ends, with a result for its caller.          *)
TurnsEnd == \A t \in TurnIds : turn[t].state \in {"queued", "running"} ~> Over(t)

(* Every caller of settled() resumes.                                       *)
WaitersResume == \A w \in Waiters : w \in waiting ~> w \notin waiting

(* After dispose() everything that was handed out settles.                  *)
DisposeSettles ==
    disposing ~> /\ active = None /\ waiting = {}
                 /\ \A r \in Requests : req[r] = "pending" => assigned[r] = "rejected"
=============================================================================
