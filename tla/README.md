# A TLA+ verification of the agent core

Specifications of the agent core of this repository (`packages/agent-core-v2`)
and of the database beneath it (`packages/minidb`), checked with TLC on small
instances and, in large part, proved with TLAPS for every instance. Paths below
are relative to the root of the repository; `agent/...` stands for `packages/agent-core-v2/src/agent/...`, and likewise
`features/...`, `session/...` and `state/...`.

Contents: the [inventory](#1-the-system), the [modules](#2-modules) and how
they correspond to the code, the [runs](#3-runs), the
[proofs](#4-proofs), what was [found](#5-findings), what is
[not modelled](#6-not-modelled), and the [plan](#7-plan).

## 1. The system

The repository is a VS Code extension around a coding agent. `apps/vscode` is
the user interface. `packages/agent-core-v2` is the agent: it runs turns, calls
models and tools, keeps the conversation and persists it. `packages/agent-core`
is its first generation; `node-sdk`, `klient` and `protocol` connect front ends
to it; `kosong` and `kaos` wrap model providers and the execution environment;
`minidb`, `oauth`, `migration-legacy` and `tree-sitter-bash` are supporting
libraries. The concurrency and the state that are hard to get right are in
`agent-core-v2`, and the durability that is hard to get right is in `minidb`;
that is what is modelled.

JavaScript runs to completion, so a race is never between two instructions. It
is between what happens before and after an `await`, or inside an event that is
dispatched in the middle of a function and whose listeners call back.

| Component | State | Operations | Talks to |
|---|---|---|---|
| Tool accesses (`tool/toolContract.ts`) | none | normalise paths, test two access lists for conflict | scheduler |
| Tool scheduler (`agent/toolExecutor/toolScheduler.ts`) | active and queued tasks of one batch | `add`, `start`, `finish` | executor |
| Tool executor (`agent/toolExecutor/toolExecutorService.ts`) | prepared calls, stop flag, results to yield | `execute`: prepare in order, schedule, abort grace, finalise, yield | loop, permission and hook listeners, tools |
| Agent loop (`agent/loop/*.ts`) | step requests, three kinds of queue, turns, quiescence, turn clock, waiters | `enqueue`, cancel at four levels, `tryAcquireQuiescence`, `settled`, `dispose`, the step loop | prompts, undo, compaction, executor, model |
| Context memory (`agent/contextMemory/*.ts`) | history, open calls, parked messages | append, loop events, clear, undo, compaction, replay | loop, projector, journal |
| Context projector (`agent/contextProjector/projection.ts`) | none | turn a history into a request | requester |
| Full compaction (`agent/fullCompaction/fullCompactionService.ts`) | the compaction under way | begin, block a turn, apply or cancel | loop, context |
| Undo (`agent/undo/undoService.ts`) | serialised runs | take turns back under quiescence | loop, context, state |
| Event dispatch (`state/*.ts`) | folded states, checkpoints, journal | dispatch, undo, restore | all of the above |
| Prompt service (`agent/prompt/promptService.ts`) | pending, launching, active, steered prompts | submit, steer, abort, drain, clear | loop, compaction, context |
| Swarm batch (`features/swarm/session/agentRunBatch.ts`) | queued and running members, capacity | launch, requeue, abort | agent lifecycle |
| minidb (`packages/minidb/src/{wal,write-path,compaction,mini-db}.ts`) | store, write-ahead log with groups, snapshot, recovery, compaction | `set`, `del`, flush, rollback, in-place recovery, `compact`, rotation, open | session index, files |
| Background tasks (`agent/task/taskService.ts`) | tasks, their files, notification keys, tasks of earlier processes | register, detach, stop, settle, suppress, notify; reconcile after an undo; restore | processes, loop, journal, undo, lifecycle |
| Interactions (`session/interaction/interactionService.ts`) | pending questions and approvals | request, respond, cancel | clients |

The remaining components (providers, goals, plans, cron, permissions,
lifecycle, MCP, the front ends) are listed in `PROJECT.json` with the
reason why they are left out.

What is hard, and what makes each component correct:

- **Scheduler.** Conflicting calls never run together, a call does not overtake
  an earlier one it conflicts with, and each queued call is started at last,
  although only the end of a call looks at the queue.
- **Executor.** The bodies of tools never race, also when one ignores an abort
  and its slot is freed by the grace timer while calls wait for it; after a
  call that stops the batch nothing is run; a finished `execute` leaves nothing.
- **Loop.** Turns are serial and start in the order of ids that were reserved
  earlier, while a durable clock counts them independently; nothing runs while
  quiescence is held; whatever is enqueued is run, cancelled or refused, never
  forgotten; whoever waits for the loop to settle resumes.
- **Context.** Whatever broke off earlier steps (abort, error, crash), a
  request is well formed, shows all the user has said and every result there
  is; compaction drops nothing that came in while its summary was written, for the
  conversation goes on under it; undo takes all states back to the same moment.
- **Prompts.** Every prompt is answered once. Between leaving the queue and
  being active a prompt is in no list, while hooks and admission are awaited;
  `steer()` takes prompts off the queue and uses what it saw before its `await`;
  a prompt that a compaction parks is started by the end of that compaction only.
- **Swarm.** Every member ends with one result and every agent the caller was
  told of with one terminal event, whatever rate limits, retries, late handlers
  and aborts do; a suspended member is launched again by the clock alone.
- **Background tasks.** A task ends by itself, by whoever stops it, by its
  deadline or with its agent, over a grace period, a forced stop and a write;
  the model is told of the end once, and what it is told is so, although undos
  take messages back and a crash leaves file and journal at different moments.
- **minidb.** An acknowledged write survives whatever happens next: a failed
  flush that rolls back and truncates, a compaction that swaps the files under
  the writers, a crash between any two of these; and every write is answered.

`PROJECT.json` lists the hazards one by one at the lines where they bite, with
the properties that watch them, and those that no property watches yet.

## 2. Modules

| Module | Models | State and actions |
|---|---|---|
| `ToolAccess` | `tool/toolContract.ts`, lines 100-224 | operators only; `Race` says what a declaration *means*, independently of `Conflict`, which is the code |
| `OrderedExclusion` | the promise of the scheduler | tasks wait, run and are done; a task starts when it conflicts with no running and no earlier waiting one |
| `ToolScheduler` | `toolScheduler.ts` | `Add` is `add()`, `Finish` is the `finally` part of `start()`, with the scan of the queue that both make |
| `ToolExecutor` | one call of `execute()` | preparation (`Skip`, `Resolve`, `ResolveFails`, `Decide`), `RunBatch`, the scheduler of `ToolScheduler`'s operators inside, `StartBodies`, `FinishTask`, `BodyEnds`, `Finalize`, `Yield`, `Return`, `Abort` |
| `AgentLoop` | `loopService.ts`, `stepRequestQueue.ts`, `stepRequest.ts`, `turnOps.ts` | the callers' operations, and the turn's run loop cut at its awaits |
| `ContextFold` | `loopEventFold.ts`, reducers of `contextOps.ts` | operators from fold to fold |
| `ContextProjection` | `projection.ts` | `Project`, and `WireValid`, what a provider demands |
| `ContextMemory` | the conversation of one agent over its life | composes the two with turns, steps, tools, reminders, steering, compaction, undo, clear and restarts |
| `PromptQueue` | `promptService.ts` | `Enqueue`, the launch through hooks and quiescence, `Settle`, `Steer`, `Abort`, `Drain`, `Inject`, `RetryLast`, the wait for compactions |
| `AgentRunBatch` | `agentRunBatch.ts`, `mirrorAgentRun.ts` | `Run`, the life of an attempt (`Progress`, `Ready`), the two timers, `Abort`, `Tick` |
| `BackgroundTasks` | `taskService.ts`, parts of `agentLifecycleService.ts` and `undoService.ts` | `Register`, `Detach`, `BodyEnds`, `Stopping` (one call of `terminateWithGrace`), `SettleReturns`, the way of a notification, `Undo`, `Close`, `Crash`, `Restart` and what follows it |
| `MiniDb` | `wal.ts`, `write-path.ts`, `compaction.ts`, parts of `mini-db.ts` | writes, the flush and its failure, the recovery in place, the phases of a compaction, `Crash` |
| `Queue` | the filtering of a queue of step requests | sets and distinctness of sequences, and what is kept of them, shared by four modules |
| `MC...` | values of constants for TLC | |
| `..._proofs` | theorems | |

`ToolExecutor` extends `ToolScheduler`: its `RunBatch` and `FinishTask` use
that module's variables and its scan of the queue (`Unblocked`), so the two
cannot disagree about what a free slot starts. `ContextMemory`
keeps of the loop only what touches the context. A turn is in one of four
phases: `idle`, `between` two steps, `requesting` a response, `calling` tools.

How the code is cut into actions:

- *`ToolExecutor`*. The body of a tool has a life of its own, apart from its
  slot in the scheduler: `raceWithAbortGrace` gives up waiting, which frees the
  slot (`FinishTask`), and the body ends later or never (`BodyEnds`). The signal is
  looked at where the code does: before the listeners, not after them, and
  again when a body is about to start.
- *`AgentLoop`*. An action is a piece of code without `await`, cut further
  where an event is dispatched whose listeners may call back: in
  `releaseQuiescence` between two held admissions, and in `runTurn` between
  the end of one turn and the start of the next. `Sync` says that such a piece
  is unfinished; then no continuation of the loop runs, but a listener may.
  `run.pc` is the place of the run loop: `begin` (`beginLoopStep`), `executing`
  (`executeLoopStep`), `finishing` (the hooks after a step), `recovering`
  (error handlers and back-off), `returning` (the gap between the `finally` of `run()` and
  `releaseActiveTurn()`). A turn id is reserved when the turn is created and
  the durable clock moves when it starts or is cancelled, as in the code.
- *`ContextMemory`*. One action per recorded event, so a crash, a reminder or
  an abort can fall between any two. A message keeps its role, its id, its
  calls, whether it has text, and whether its step is open. `prompts` and
  `answered` are history variables: what the user has said and not taken back,
  and the calls that got a real answer. `checkpoints` are the prompts at which
  the dispatcher marked the todo, plan and task states.
  Journal and memory are in step: replaying is the identity on the fold, unless
  media are loaded back, when a new array loses the state bound to the old one.
  `ClearContext` is enabled in every phase, since `clear()` does not wait for the
  turn it aborts: the step that is open goes on folding into the empty history.
  `cleared` says that this has happened to the step under way, and `stray` which
  calls were announced after it; both are history, and the properties name with
  them the one exception they make. What a summary says is not modelled, and so
  neither is how much of a long history the summarising model is shown
  (see [findings](#5-findings)): `FinishCompaction` is what becomes of the context.
  A crash that also loses the end of the journal is a crash at an earlier state.
- *`PromptQueue`*. An action is the code of the service between two awaits. Of
  the loop it keeps turns alone (`turn`, `turnQueue`, `held`), with the promise
  `AgentLoop` is shown to keep: a turn once admitted ends, completed, cancelled
  or failed. Turns of others (notifications, goals) come in between, at most
  `MaxOtherTurns`, and compactions begin by hand or by a turn and may outlive
  it. Calls may come between any two steps. `answers`, `lost` and `exhausted`
  are history: the times a prompt was answered, prompts that a throwing
  `steer()` dropped, a stack overflow (see [findings](#5-findings)).
- *`AgentRunBatch`*. Each handler of an attempt's promise is an action, and each
  timer. Dates are kept as the time that is left, so `Tick` only counts down. An
  attempt is `launching` (the agent is acquired), `starting` (its turn is not
  ready), `running`; the handlers of an attempt that the batch has given up on
  still run, as in the code.
- *`BackgroundTasks`*. An action is a piece of code between two awaits. A caller
  of `terminateWithGrace` is at `grace`, `force`, `settling` or `answer`; four
  callers stand for the user or a foreground signal, the `TaskStop` tool, the
  deadline and the closing agent. A task's file is written through its queue:
  `writes`, and the number of writes `ahead` of whoever awaits one. The journal is
  kept as what its events have folded to: `live`, and in `durable` every state
  that a crash may leave of it. A notification is `building` (its output is
  read), in `requests` (it waits in the loop), and in the context. Of the loop
  only that such a request is delivered or dropped with its turn is kept.
  `early`, `dropped`, `unreminded` and `reported` are history: they name the ends
  that the properties leave out, each of which was seen to be necessary.
- *`MiniDb`*. The completions of I/O operations are actions, and between two of
  them all microtasks run first (`Microtasks`): a write that a sealed log
  refuses is undone and retried before any flush returns. Offsets are counted in
  frames. A log's group remembers what each key had before it, for the rollback.
  `disk` is what a reopen finds after the process died, `PowerLost` what it may
  find after the machine did; `log`, `opened` and `tangled` are history. The new
  log is opened in the step that makes it current.

Bounds: `N` calls of a batch, `Requests` of a loop (each request is enqueued
once, and makes at most one turn), `MaxRetries` in a turn, and the `Max...`
constants of `ContextMemory`; `MaxOtherTurns` and the compactions of
`PromptQueue`; `MaxRateLimits`, the answers of the provider that suspend an
agent, of `AgentRunBatch`; prompts, undos and losses (crashes and closings) of
`BackgroundTasks`; compactions, I/O errors and crashes of `MiniDb`.
`MaxSteps` of `AgentLoop` is a setting of the
program, not a bound.

Definitions whose comment says *seeded fault* are plausible bugs. None is used
by a specification: each is put in the place of a definition to see that a
property notices (`mutants` in `PROJECT.json`).

## 3. Runs

To run one: `tlc -workers 2 -config X.cfg M` in this directory.

| Run | Bounds | States | Shows |
|---|---|---|---|
| `tool_scheduler` | 4 calls, each with any of seven access lists | 46 000 | `NoRace`, `QueueHasCause`, `AllSettle`, `ImplementsOrderedExclusion` |
| `tool_executor` | 3 calls, the same lists, abort, vetoes and failures anywhere | 35 000 | `BodiesNeverRace`, `SkippedNeverRuns`, `NothingLeftBehind`, `AbortTerminates` |
| `agent_loop` | two prompts, a steered message, a continuation; quiescence; disposal | 1.5 million | `TypeOK`, `TurnsConsistent`, `PendingIsQueued`, `NothingOutlivesItsTurn`, `CancelledNeverMaterializes`, `StartsInOrder` |
| `agent_loop_liveness` | a prompt, a notice, a handoff; `maxStepsPerTurn` = 1, a retry, a waiter | 440 000 | `StepLimit`, `NoLostWakeup`, `QuiescenceExcludesTurns`, `TurnsEnd`, `WaitersResume`, `DisposeSettles` |
| `context_memory` | 2 prompts, 2 steps, 2 calls, a reminder, a compaction; every failure, clear at any time | 3.0 million | `RequestsAreFaithful`, `ParkedBehindOpenCalls` |
| `context_orderly` | 3 prompts, 2 steps, a call, a reminder, a compaction; clear at any time, no restart and no throwing listener | 2.6 million | `RequestsShowPrompts`, `OnlyOldIsCompacted`, `UndoRestoresPreTurn` |
| `context_lost_prompt` | with restarts | | a counterexample to `RequestsShowPrompts` |
| `context_undo` | with a throwing listener | | a counterexample to `UndoRestoresPreTurn` |
| `swarm` | 3 members, one resumed; 2 at a time, 2 rate limits | 360 000 | `OnePlace`, `EndsExactlyOnce`, `SuspendedIsRetried`, `BatchEnds` |
| `prompt` | 3 prompts, a turn of others, 2 compactions | 126 000 | `InOnePlace`, `ParkedHasWakeup`, `PromptsAreAnswered` |
| `background_tasks` | a task; `TaskStop`, deadline, closing; a prompt, its undo, 2 losses | 238 000 | `ToldOnce`, `EndIsTold`, `ReportedSurvives`, `StopsAreAnswered` |
| `minidb` | 2 values and a deletion of one key, a compaction, 2 I/O errors, a crash | 400 000 | `AckedSurvives`, `LiveIsAcked`, `WritesAreAnswered` |

Why the bounds are enough. Four calls give a running call, one that waits for
it, one behind that (which must not overtake) and a bystander; the lists have
two spellings of one path, a directory and a file in it, recursive and plain,
and a call with two accesses. Three calls in the executor are one that stops
the batch or dies slowly, one waiting for it, one after. The loop's requests
are of every admission between the two runs: a turn is queued behind another
while a third and a fourth request move between queues. With two turns the skip
of cancelled ids is taken but no turn starts after it: `StartsInOrder` is proved
for any number of them. In the context, a step broken off, a second one after it, two calls that are
answered in either order or not at all, and a prompt on each side of a
compaction are the shapes in which folds go wrong. Three prompts are one that
is active or being launched, one steered and one behind; two compactions, one
of which is cancelled and still ends while the other runs. Three members are
one more than run at a time, and two rate limits put two of them in the queue
at once, or one of them twice, which shrinks the capacity to its minimum. Tasks
meet only when the agent is closed or comes back, so one is enough for what is
said of each; the second loss finds what the first one left half done. In the
database a group with two writes of one key, a failure in it, a compaction that
overlaps, and a second failure in the recovery or in the rotation are what can
meet; a second key changes nothing, since keys only meet in a group.

Fairness. *Scheduler*: `add` is called in a loop without `await`, and a task
that was started ends (a body is raced with the abort grace timer). *Executor*:
its own continuations go on, the grace timer fires once the turn is aborted,
listeners answer once it is aborted (before, one may wait for the user for
ever), and nothing makes a body end. *Loop*: awaited promises settle and their
continuations run, the holder of quiescence disposes of it in a `finally`
clause; nothing is assumed of callers, cancellations and enqueues. Liveness is
relative to that: it says the loop's own logic strands nobody. *Prompts*:
hooks and requests return, turns and compactions end, promises wake their
callers; nothing of callers. *Swarm*: time passes and timers fire; nothing is
assumed of the children, and `BatchEnds` states in its own premise that their
runs end. *minidb*: promises wake and I/O operations return, with success or an
error; nothing makes a client write or compact. *Background tasks*: timers fire,
`forceStop()` and writes return, the agent that is being closed goes on;
nothing makes a body end, nor a client stop it. `ContextMemory`
claims no liveness and has no fairness.

Deadlock is checked in all runs but the context ones: where the system may rest,
a stuttering action says so (`Done`, `Terminated`, `Stopped`, `Over`, `Idle`,
`AtRest`); in the context
runs the bounds stop the behaviour and it is off.

## 4. Proofs

`tlapm M.tla` for each of the eight proof modules. Nothing but the named
assumptions on constants is assumed: `N` is a natural number, paths are
sequences of segments, case folding is a function on segments, calls declare
access lists, requests are a finite set without `None`, an admission is one of
four and the kind of a request one of those of the code, prompts and tasks are
finite sets without `None`, which is no number either, bounds are natural
numbers, the numbers of a swarm are positive, a closing agent is among those
that stop tasks, writes are a finite set without `None` and each has a key. The
theorems about `MiniDb` have a hypothesis besides, `~ ManualCompaction`, and those
about `ContextMemory` that rest on `OrderlyInv` the hypothesis `Failures = {}`.

- `Tools_proofs`: first `RaceIsConflict` and `ConflictIsRace`, about
  `ToolAccess`. The test of the
  code for conflict is exactly the possibility of a race, for any paths,
  spellings and recursion. The core is a lemma that two prefixes of one
  sequence are prefixes of one another. Then, for batches of any size and any declarations,
  `TypeOK`, `NoRace`, `QueueHasCause` and the refinement of `OrderedExclusion`.
  The invariant adds to these that the three sets partition what was added, the
  queue is in the order of submission, and every queued task conflicts with an
  active or an earlier queued one. Without the last part the scan in `finish()`
  could start a task that another still blocks.
  The same module proves of the executor its types, `BodiesNeverRace`,
  `SkippedNeverRuns` and `NothingLeftBehind`. The invariant says that before an abort the running
  bodies are among the active tasks, and that after it, when bodies outlive
  their slots, no body is started any more: those that run are what is left
  of a set that was free of conflicts. That is the argument why the early
  release of a slot is harmless.
- `AgentLoop_proofs`: all that the runs of the loop check under no fairness,
  for any set of requests, admissions and waiters. For `QuiescenceExcludesTurns`
  and `NoLostWakeup` the invariant (`ControlInv`) ties
  the active turn to the place of the run loop, and says that while held
  admissions are drained quiescence is over and the loop is not disposing. No
  property of single requests is needed, which keeps the proof independent of
  what a step does.
  For `TurnsConsistent` and `StartsInOrder` the argument is longer. Turn ids are reserved when a turn is
  created, the durable clock moves when a turn starts or is cancelled, and the
  two agree whenever one starts. `TurnInvariant` says why: the ids of the queued
  turns are increasing, every id from the clock on belongs to a queued turn or
  to one that was cancelled, the first queued turn's id is the clock's once the
  cancelled ones are skipped; and each turn is driven by a request of its own,
  so that reserved ids never run out.
  `TypeOK`, `PendingIsQueued`, `NothingOutlivesItsTurn` and
  `CancelledNeverMaterializes` follow from `RequestInvariant` (`ReqInv`): a
  request is assigned to one turn for good and is in that turn's queue or in no
  turn's; a pending one is where its receipt says, a list or that queue; and
  when its turn is over it has a result. A step takes from the queue only what is
  left once the dead requests are filtered out, hence nothing cancelled.
  `StepLimit` counts on its own (`StepBound`): each handoff in the context, and
  each retry, allows one step more, and one that is queued again allows it only
  once.
- `Queue_proofs`: what appending, taking the head, filtering a prefix and
  putting back do to the set and the distinctness of a queue; and
  `KeptProperties` and `KeptPlaces`, what a filter (`Kept`, a recursive function)
  returns for sequences of every length, and from which places. The induction is done by hand, by the least
  length at which it would fail.
- `PromptQueue_proofs`: `TypeOK`, `InOnePlace`, `ParkedHasWakeup`. The invariant
  says that eight places (new, pending, launching, active, being steered,
  steered, answered, lost) divide the prompts, that nothing is launched beside
  an active prompt, and which turns belong to whom.
- `AgentRunBatch_proofs`: `TypeOK`, `OnePlace`, `EndsExactlyOnce`. The invariant
  has three parts: who was told of (`Told`), whose run still goes on (`Going`),
  and what is left when the batch ends (`Ending`).
- `BackgroundTasks_proofs`: `ReportedSurvives`, `ToldOnce` and `EndIsTold`, for
  any number of tasks, callers, undos and crashes. For the first the invariant says that the last write about an ended task
  is its end (in the file when none is left), that a stop which is to answer
  counts exactly the writes before it, and that a reported status is in the file,
  in every write still to land, in the entry and, after a restart, in the restored
  task. The first part is why waiting for the queue is enough; the last is why
  nothing that happens later, not even the marker a restart writes, undoes it.
  The other two rest on `NoticeInvariant`. Its first part is that the end of a
  task is the same wherever it is kept: in the entry, the file, the writes on
  their way, the journal and the task a restart found. The second is about
  messages: in the journal, and in every state that a crash may leave of it,
  there is at most one message about a task and it tells the end the task has,
  while no notification that waits in the loop is in the context already. The
  last is that of an end not yet told something is going to tell: a caller that
  settles, a notification that is built or waits for the loop, or the
  reconciliation after a restart or an undo.
- `ContextMemory_proofs`: everything the passing context runs check. `TypeOK`,
  `RequestsAreFaithful` and `ParkedBehindOpenCalls` hold whatever fails and
  whenever the context is cleared, with the exception the last two name: once a
  clear has taken the message of an open step, the calls announced afterwards
  (`stray`) have no message, and their results are sent without one until an
  assistant message follows. The
  invariant (`IInv`) is about the history first (`HistInv`): one message at most is
  open; a result stands behind the message that declares its call, or is that of a
  stray one; a call that
  was answered has its result as long as the message that declares it is there,
  and never a made-up one. `FoldInv` adds that the open calls are stray or among those of
  the open message and have no result, and that something is parked only behind
  them. The rest ties the phase of the loop to the open message unless it was
  cleared, and says that
  what a compaction under way started from has no message of the open step, so
  that it cannot be applied while the step is open (`NotWhileStepping`). Each
  edit of a history is one lemma: extending it, selecting from it (dropping,
  undo, compaction and the projection are all selections), editing its open
  message. That a request is one a provider accepts is shown of its blocks,
  since sequences of messages with their results are closed under concatenation
  (`Wires`), and so under `FlattenSeq`; results without a message are kept only
  in a slice without any assistant message, which is the exception.
  `RequestsShowPrompts`, `OnlyOldIsCompacted` and `UndoRestoresPreTurn` have
  the hypothesis `Failures = {}`, which is that of their run: with failures the
  first and the last are false, as [section 5](#5-findings) tells, and so is the
  second, since the compaction found there forgets a parked prompt. `OrderlyInv` says that calls are
  open only while their tools run; that what the user said stands in the history
  and then in what is parked, in the order it was said; and that the
  checkpoints are exactly the prompts undo can reach, in order. The last is
  why the n-th checkpoint from the end and the n-th prompt from the end are the same one.
  `NoveltyInv` is there for the clear of a context that is being compacted: the check before
  a summary is applied compares the messages, so that a history which was cleared
  must not grow to begin again like the one the compaction started from. The
  invariant dates the first message of the latter by the counters of prompts,
  reminders and calls, and says that what an open step leaves after a clear begins
  with another message.
- `MiniDb_proofs`: `AckedSurvives` and `LiveIsAcked`, for any number of writes
  and keys, any number of compactions, I/O errors and crashes, and both
  policies of syncing that are modelled. The hypothesis `~ ManualCompaction`
  says that compactions are started by the commits themselves, which is what the
  agent does and what the run checks; with `compact()` called by a client the
  first is false (see the list at the end of [section 5](#5-findings)). The
  invariant has three parts.
  - `StructInv`: who holds which lock; that the history ends with the batch under
    way and the queue, in that order, and everything before them is answered;
    that the size the log believes in is the size of its file but for a torn
    write that is to be truncated.
  - `StoreInv`, for each key: the live store, the record a refused write would
    restore, the record of the queue and that of the batch are each the
    value of the last write that is left when what stands before them is undone.
    So undoing queue and batch in this order, with new writes between them, ends
    with what is acknowledged. Where two refused writes overlapped (`tangled`) it
    allows their values as well.
  - `FilesInv`: every cut of the log that is not below the floor, the frames that
    no truncation in progress may remove, shows for each key the last
    acknowledged write or a later one, whether it is read behind the old
    snapshot, behind the new one or from the copied log; so does, under the
    policy `always` and unless the sync of a directory failed, every cut a loss
    of power leaves. Between the renames the
    new snapshot may stand beside the old log, whose frames are in it already:
    applying them again changes nothing, as the last frame of a key decides.

Model-checked only:

- everything under fairness (`AllSettle`, `AbortTerminates`, `TurnsEnd`,
  `WaitersResume`, `DisposeSettles`, `SuspendedIsRetried`, `BatchEnds`,
  `PromptsAreAnswered`, `StopsAreAnswered`, `WritesAreAnswered`), which this prover does not reach;
- the two counterexamples of [section 5](#5-findings), which only a run can show.

## 5. Findings

Both are about messages that are *parked*: while calls of a step are
unanswered, an appended message waits beside the history
(`agent/contextMemory/loopEventFold.ts:95`). Calls normally get their answers
within the step. They do not when a listener of `onBeforeExecuteTool` throws
while a later call of the batch is prepared, nor when the process dies; then
they stay open until the next step begins, and the next prompt is parked first.

1. `context_lost_prompt`. An automatic compaction runs in the hook *before* the
   step (`onWillBeginStep`), hence between the prompt and the step that would
   have put it into the history. `resetFold` (`contextOps.ts:106`) forgets what
   is parked: the request goes out without what the user has just said,
   though the prefix of the summary promises that user messages "are preserved
   verbatim from the compacted conversation"
   (`compaction-summary-prefix.md:1`).
2. `context_undo`. Checkpoints are marked when a prompt is appended
   (`state/state.ts:198`), parked or not, while the cut of an undo is sought in
   the history (`contextOps.ts:249`). If the parked prompt's turn ends before
   its first step, undo of one turn removes the previous turn from the
   context, but takes todo list, plan mode and tasks back only to the parked
   prompt. The test says undo "restores todos to their pre-turn value"
   (`test/agent/undo/undo.test.ts:276`).

`context_orderly` shows that without these two failures both properties hold.

Seen while modelling, and not part of a run:

- `clear()` aborts the active turn but does not wait for it
  (`promptService.ts:421`), nor does it stop a turn that is not a prompt's. A call
  that the executor announces afterwards is
  pending with no assistant message to show it, and its result enters the
  empty history as an orphan. As long as there is no assistant message, a
  slice counts as one to be measured, the projection keeps its results ("keeps a
  bare result slice with no preceding assistant (used for sizing)",
  `test/agent/contextProjector/projector-tool-exchanges.test.ts`), and the next
  request carries results without calls, which providers refuse. The model
  goes there, and `RequestsAreFaithful` and
  `ParkedBehindOpenCalls` name these calls (`stray`) as their exception. A clear
  of an empty history returns at once and leaves what is parked
  (`contextMemoryService.ts:97`).
- A compaction may drop what no summary has seen. A history that does not fit is
  cut before it is summarised (`fullCompactionService.ts:642-648`), after an overflow
  (689-696) and after an empty or truncated answer (708-712), the oldest messages
  first, and after an overflow it may be emptied altogether; the summary
  then replaces the whole history all the same (741-748), and only
  `droppedCount` tells. `OnlyOldIsCompacted` therefore does not speak of what the summary
  covers. For the same reason the request for a summary may carry results
  without their calls.
- A step that is cancelled while the hooks after it run is marked completed
  although its promise said cancelled; steps of merged requests stay `queued`
  and resolve as cancelled at the end of the turn.
- A request enqueued in the gap between the return of the run loop and the
  release of its turn is assigned to that turn and cancelled with it.
- `turnScoped: false` has no effect when a turn ends: a notification of a
  background task (`taskService.ts:206`) that waits in the queue of a turn which
  is cancelled is aborted with it.
- Prompts: when `startNext()` finds a compaction under way it puts the prompt
  back (`promptService.ts:432`), and its `finally` clause (457) calls
  `startNext()` again at once. If no prompt is active this recurses until the
  stack overflows (`exhausted` in the model). Three ways lead there: a prompt is
  in its submit hook, a compaction begins by hand, a second prompt is queued and
  the hook blocks the first; an automatic compaction outlives its turn; the
  worker of a cancelled compaction ends while another compaction runs. The test
  at `test/agent/fullCompaction/fullCompaction.test.ts:3394` expects such a
  prompt to wait.
- Prompts: if `steer()` throws, what it took off the queue is in no list (`lost`).
  A steered prompt whose step request joined a turn that was finishing is
  reported completed although no step ever showed it.
- Swarm: in rate-limit mode launches are bounded by the estimated capacity
  alone, and `maxConcurrency` is not consulted. An agent that was announced and
  whose launch throws before a run exists gets no terminal event (`broken`).
- Background tasks: the status is final before its write is awaited
  (`taskService.ts:1150`). An undo in that moment may tell the model "completed"
  and a crash forget it; the restart then finds the task running and reminds the
  model that it was lost (`early`).
- Background tasks: a reminder of lost tasks that is undone is not given again,
  since restoring skips `lost` (`taskService.ts:1238`), nor is one that a crash
  cut from the journal after the marker in the file was written (`unreminded`).
- Background tasks: a task that ends by itself while the closing agent has
  suppressed it keeps its status and is never told of.
- Background tasks: a task registered while the closing agent gives its tasks
  their grace period (`agentLifecycleService.ts:280-292`) is not stopped with them.
  With `Register` allowed there `ToldOnce` fails, as with a crash in that moment
  (`early`): an undo tells of the end before it is written, the agent is gone, and
  a restart tells that the task was lost. The model lets no task begin
  there.
- minidb: a write that is applied, but whose flush has not returned, is in the
  store when a compaction collects it. If the flush then fails, the write is
  rejected, rolled back and truncated from the log, while the snapshot keeps it,
  and a reopen shows a value whose writer was told that it failed. The comments
  at `write-path.ts:250` and `mini-db.ts:1052` rule that out. `AckedSurvives`
  does not: it says that nothing acknowledged is lost, and lets a write that was
  rejected later than the last acknowledged one be seen.
- minidb: after a rotation that failed on a poisoned log, a fresh log is opened
  on a file that is not truncated yet. If a client calls `compact()` before the
  recovery in place is over, its offset is beyond the truncation, and writes
  acknowledged later are not copied. `ManualCompaction = TRUE` with two
  compactions and one failure shows it; the agent never calls `compact()`
  itself, so the run leaves it out.
- minidb: if two refused writes of one key overlap, undoing them in order leaves
  the value of the first (`tangled`). After a directory sync that failed behind
  the rename of the log, later acknowledgements rest on a rename that a loss of
  power may undo (`dirUnsynced`).

## 6. Not modelled

- In the executor: argument validation, duplicate detection, normalisation of
  results, telemetry; a second `execute` while a body of the first still runs.
- In the loop: listeners that call back in the middle of `cancelQueuedTurn`,
  registration of error handlers, back-off times, the clock's advance by
  recorded loop events of older journals, a crash (see the plan).
- In the context: captions that belong to a prompt, the elision of long user
  input in a compaction (user input is kept whole), the cutting of a history that
  is too long to be summarised (see above), the transcript kept beside
  the history, media, what triggers a compaction, and the `await` between the rewrite and the end of a
  compaction, during which only the system prompt is refreshed.
- In the projection: call ids declared twice (`toolCallIdNormalizer.ts` renames
  them before they are recorded), merging of neighbouring user messages, and
  the strict repair after a provider's rejection.
- In prompts: reserved ids, skills, results of tools that are delivered as
  prompts, records of admission that are replayed, media.
- In the swarm: what a child does inside its turn, two batches of one caller,
  the wording of results.
- In background tasks: contents and limits of output, handles followed by
  `track()`, `keepAliveOnExit`, writes that fail, the reminder after a
  compaction, `maxRunningTasks`, the waiters for a foreground release, and writes
  of a closed agent that land after the same process has opened it again.
- In minidb: batches, transactions, expiry, eviction, indexes and their
  generations, values on disk, backup, replicas, locks; the policy that syncs
  never; writers that append to the new log before it is open.
- Smaller differences. `ToolExecutor`: finalising a result never fails; a rejected
  finalisation makes `execute()` throw (`toolExecutorService.ts:274`).
  `PromptQueue`: an enqueue that is rejected, and the way back to the queue when no
  turn was assigned (`promptService.ts:447`). `AgentLoop`: `prepareTurnConfig`
  failing before the run begins (`loopService.ts:478`, 493-498), and requests
  enqueued at the head. `BackgroundTasks`: closing waits for an
  undo as long as it takes, while `remove()` waits at most 3 s
  (`agentLifecycleService.ts:296-308`). `MiniDb`: the new log is opened in the step
  that makes it current (`compaction.ts:366`). `ContextMemory`: after a clear the turn may go on as
  any turn does, although that of the active prompt has been aborted and can only
  end; the model allows more than the code there.
- The components with status `not_modelled` in `PROJECT.json`.

## 7. Plan

Done: tools (accesses, scheduler, executor), the loop, the context, prompts, the
swarm, background tasks, the database. Next, in this order:

1. `TurnClock`, from `turnOps.ts`, with a journal and a restart: ids are never
   used twice by turns that ran.
2. `Interactions` (duplicate ids, the end of a turn against a late answer).
3. Abstract specifications: the loop as a serial server of turns, which
   `AgentLoop` implements and on which `PromptQueue` rests; the context as the
   list of what was said; the database as a map with a log of answers.
4. `ContextMemory` together with `PromptQueue`: the turn of an active prompt
   ends after a clear, so that what a clear strands is gone with the next
   assistant message.

Worth proving next: the refinements of item 3 once they are stated, above all
that `PromptQueue` may rest on `AgentLoop`; and, about `ContextMemory`, what a
crash alone leaves of `RequestsShowPrompts` (a prompt that no compaction and no undo
met while it was parked).
