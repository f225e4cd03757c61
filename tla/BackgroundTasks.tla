--------------------------- MODULE BackgroundTasks ---------------------------
(***************************************************************************)
(* The background tasks of one agent (agent/task/taskService.ts): a task   *)
(* ends by itself, by callers that stop it, by its deadline or because the *)
(* agent is closed, whichever comes first; its end is written to its file, *)
(* recorded in the journal and told to the model by a message that waits   *)
(* in the loop.  An undo takes such messages back, and a restart finds     *)
(* tasks again from file and journal, which a crash left at different      *)
(* moments.                                                                *)
(*                                                                         *)
(* Of the conversation only prompts, notifications and reminders are kept, *)
(* of a file the status and what decides whether the end is told.          *)
(* "completed" stands for failed as well, and a caller "user" for a        *)
(* foreground task's aborted signal and an exceeded output limit as well.  *)
(***************************************************************************)
EXTENDS Naturals, Sequences, FiniteSets, SequencesExt

CONSTANTS
    Tasks,
    Callers,       \* of terminateWithGrace: "user", "tool", "deadline", "exit"
    MaxPrompts,    \* bound: prompts of the user
    MaxUndos,      \* bound: undone prompts
    MaxLosses,     \* bound: crashes and closings
    None

ASSUME TasksAssumption ==
    /\ IsFiniteSet(Tasks) /\ None \notin Tasks \cup Nat
    /\ Callers \subseteq {"user", "tool", "deadline", "exit"} /\ "exit" \in Callers
    /\ {MaxPrompts, MaxUndos, MaxLosses} \subseteq Nat

VARIABLES
    mode,        \* of the agent: "up", closing, down or coming up
    born,        \* the tasks ever registered
    task,        \* the entries of this process
    stops,       \* the calls of terminateWithGrace
    settling,    \* tasks whose settleTask awaits its write: the writes ahead
    writes,      \* persistWriteQueue
    disk,        \* the task files
    live,        \* what the journal's events have folded to
    durable,     \* what a crash may leave of it
    ghosts,      \* tasks of earlier processes
    building,    \* notifications whose output is being read
    scheduled, delivered,  \* notification keys
    requests,    \* notifications queued with the loop
    lost,        \* those this restart found running
    restoring,   \* ends that a restore has still to look at
    undoing,     \* "idle", "flush" or "restore"
    dropped,     \* history: notifications that were cancelled with their turn
    unreminded,  \* history: reminders undone or lost after they were marked
    early,       \* history: ends told, by an undo, before they were recorded
    reported,    \* history: the status a stop answered for a persisted task
    prompts, undos, losses

taskVars == <<born, task>>
stopVars == <<stops, settling, reported>>
journalVars == <<live, durable>>
noticeVars == <<building, scheduled, delivered, requests, dropped>>
restoreVars == <<ghosts, lost, restoring, undoing, unreminded, early>>
counters == <<prompts, undos, losses>>
vars == <<mode, taskVars, stopVars, writes, disk, journalVars, noticeVars,
          restoreVars, counters>>

-----------------------------------------------------------------------------
(* Entries, files and the journal.                                          *)

Ends == {"completed", "killed", "timed_out", "lost"}

NoEntry == [status |-> "none", attached |-> FALSE, spilled |-> FALSE,
            suppressed |-> FALSE, closed |-> FALSE, timedOut |-> FALSE,
            aborted |-> FALSE, armed |-> FALSE]

Exists(t) == task[t].status # "none"
Running(t) == task[t].status = "running"

(* toInfo()                                                                 *)
Info(e) == [status |-> e.status, attached |-> e.attached,
            suppressed |-> e.suppressed, closed |-> e.closed, reminded |-> FALSE]
NoInfo == Info(NoEntry)

Prompted == [kind |-> "prompt", task |-> None, status |-> "none"]
Notice(k) == [kind |-> "notice", task |-> k.task, status |-> k.status]
Reminder(t) == [kind |-> "reminder", task |-> t, status |-> "lost"]

Items(c) == {c[i] : i \in DOMAIN c}
Shown(c) == {[task |-> x.task, status |-> x.status] : x \in {y \in Items(c) : y.kind = "notice"}}
Reminded(c, t) == Reminder(t) \in Items(c)

(* An event is folded at once; a crash may forget the last ones.            *)
Record(state) == live' = state /\ durable' = durable \cup {state}
Flush == durable' = {live} /\ UNCHANGED live

Key(t, status) == [task |-> t, status |-> status]

NoStop == [pc |-> "idle", ahead |-> 0]

Init ==
    /\ mode = "up" /\ born = {} /\ task = [t \in Tasks |-> NoEntry]
    /\ stops = [t \in Tasks |-> [c \in Callers |-> NoStop]]
    /\ settling = [t \in Tasks |-> None]
    /\ writes = [t \in Tasks |-> <<>>] /\ disk = [t \in Tasks |-> NoInfo]
    /\ live = [infos |-> [t \in Tasks |-> NoInfo], context |-> <<>>]
    /\ durable = {live}
    /\ ghosts = [t \in Tasks |-> NoInfo]
    /\ building = {} /\ scheduled = {} /\ delivered = {} /\ requests = {}
    /\ lost = {} /\ restoring = {} /\ undoing = "idle"
    /\ dropped = {} /\ unreminded = {} /\ early = {}
    /\ reported = [t \in Tasks |-> "none"]
    /\ prompts = 0 /\ undos = 0 /\ losses = 0

(* The agent is in memory and its callbacks run.                            *)
Alive == mode \in {"up", "suppressing", "stopping", "closing"}

(* persistLive() of the entry e; its place in the queue.                    *)
Persist(t, e) == writes' = [writes EXCEPT ![t] = Append(@, Info(e))]
Behind(t) == Len(writes[t])

-----------------------------------------------------------------------------
(* Registration in the background or attached, detaching.                   *)

Register(t) ==
    /\ mode \in {"up", "suppressing"} /\ t \notin born
    /\ born' = born \cup {t}
    /\ \E armed, attached \in BOOLEAN :
          LET e == [NoEntry EXCEPT !.status = "running", !.armed = armed,
                                   !.attached = attached, !.spilled = ~ attached] IN
          /\ task' = [task EXCEPT ![t] = e]
          /\ \/ attached /\ UNCHANGED <<writes, journalVars>>
             \/ /\ ~ attached /\ Persist(t, e)
                /\ Record([live EXCEPT !.infos[t] = Info(e)])
    /\ UNCHANGED <<mode, stopVars, disk, noticeVars, restoreVars, counters>>

(* persistOutput(), or more output than the buffer holds.                   *)
Spill(t) ==
    /\ Alive /\ Running(t) /\ ~ task[t].spilled
    /\ task' = [task EXCEPT ![t].spilled = TRUE]
    /\ UNCHANGED <<mode, born, stopVars, writes, disk, journalVars, noticeVars,
                   restoreVars, counters>>

(* detachEntry(), by a client or by the deadline; a new deadline is set.    *)
Detach(t) ==
    /\ Alive /\ Running(t) /\ task[t].attached
    /\ \E armed \in BOOLEAN :
          LET e == [task[t] EXCEPT !.attached = FALSE, !.spilled = TRUE, !.armed = armed] IN
          /\ task' = [task EXCEPT ![t] = e]
          /\ Persist(t, e)
          /\ Record([live EXCEPT !.infos[t] = Info(e)])
    /\ UNCHANGED <<mode, born, stopVars, disk, noticeVars, restoreVars, counters>>

-----------------------------------------------------------------------------
(* Notifications.                                                           *)

(* buildAgentTaskNotificationContext() refuses a key that is under way or   *)
(* known.                                                                   *)
Known(k) == k \in scheduled \cup delivered \cup Shown(live.context)
Wanted(t, info) ==
    /\ ~ info.attached /\ ~ info.suppressed
    /\ ~ \E b \in building : b.key = Key(t, info.status)
    /\ ~ Known(Key(t, info.status))

Build(t, info, by) == [key |-> Key(t, info.status), by |-> by]

(* The message enters the context: ContextAppendMessage, ContextSpliced.    *)
Tell(k) ==
    /\ Record([live EXCEPT !.context = Append(@, Notice(k))])
    /\ delivered' = delivered \cup {k}

(* The output was read; the conditions are tested again.                    *)
BuildEnds ==
    /\ \E b \in building :
       LET k == b.key
           suppressed == task[k.task].suppressed \/ ghosts[k.task].suppressed IN
          /\ building' = building \ {b}
          /\ \/ (suppressed \/ Known(k))
                /\ UNCHANGED <<scheduled, requests, journalVars, delivered>>
             \/ ~ suppressed /\ ~ Known(k) /\ b.by = "restore"
                /\ Tell(k) /\ UNCHANGED <<scheduled, requests>>
             \/ ~ suppressed /\ ~ Known(k) /\ b.by = "end"
                /\ scheduled' = scheduled \cup {k} /\ requests' = requests \cup {k}
                /\ UNCHANGED <<journalVars, delivered>>
    /\ UNCHANGED <<mode, taskVars, stopVars, writes, disk, dropped, restoreVars, counters>>

(* The loop materialises it, unless an undo holds the loop.                 *)
Deliver(k) ==
    /\ Alive /\ k \in requests /\ undoing = "idle"
    /\ Tell(k)
    /\ requests' = requests \ {k} /\ scheduled' = scheduled \ {k}
    /\ UNCHANGED <<mode, taskVars, stopVars, writes, disk, building, dropped,
                   restoreVars, counters>>

(* The turn it waited in is cancelled: clearPendingNotification().          *)
Drop(k) ==
    /\ Alive /\ k \in requests /\ undoing = "idle"
    /\ requests' = requests \ {k}
    /\ scheduled' = scheduled \ {k}
    /\ dropped' = dropped \cup {k}
    /\ UNCHANGED <<mode, taskVars, stopVars, writes, disk, journalVars, building,
                   delivered, restoreVars, counters>>

-----------------------------------------------------------------------------
(* The end of a task.                                                       *)

(* Timed out and then killed is timed out.                                  *)
Coerced(t, status) == IF task[t].timedOut /\ status = "killed" THEN "timed_out" ELSE status

Ended(t, status, closed) ==
    [task[t] EXCEPT !.status = status, !.armed = FALSE,
                    !.closed = (status = "killed" /\ closed)]

(* settleTask() up to its await.  A task of which nothing was written ends  *)
(* here: it is attached, and nobody is told.                                *)
Settle(t, status, closed) ==
    LET e == Ended(t, status, closed) IN
    /\ task' = [task EXCEPT ![t] = e]
    /\ \/ e.spilled /\ Persist(t, e)
          /\ settling' = [settling EXCEPT ![t] = Behind(t) + 1]
       \/ ~ e.spilled /\ UNCHANGED <<writes, settling>>

(* The body ends by itself, or because it was told to.                      *)
BodyEnds(t) ==
    /\ Alive /\ Running(t)
    /\ \E status \in {"completed"} \cup (IF task[t].aborted THEN {"killed"} ELSE {}) :
          Settle(t, Coerced(t, status), task[t].closed)
    /\ UNCHANGED <<mode, born, stops, reported, disk, journalVars, noticeVars,
                   restoreVars, counters>>

(* The write has landed: fireTerminalEffects(), and the caller goes on.     *)
SettleReturns(t) ==
    /\ Alive /\ settling[t] = 0
    /\ settling' = [settling EXCEPT ![t] = None]
    /\ LET info == Info(task[t]) IN
       \/ info.attached /\ UNCHANGED <<building, journalVars>>
       \/ /\ ~ info.attached
          /\ building' = building \cup
                {b \in {Build(t, info, "end")} : Wanted(t, info)}
          /\ Record([live EXCEPT !.infos[t] = info])
    /\ stops' = [stops EXCEPT ![t] = [c \in Callers |->
          IF @[c].pc = "settling" THEN [pc |-> "answer", ahead |-> Behind(t)] ELSE @[c]]]
    /\ UNCHANGED <<mode, taskVars, reported, writes, disk, scheduled, delivered,
                   requests, dropped, restoreVars, counters>>

-----------------------------------------------------------------------------
(* Stopping.                                                                *)

At(t, c, pc, ahead) == stops' = [stops EXCEPT ![t][c] = [pc |-> pc, ahead |-> ahead]]

(* suppressTerminalNotification(), which the TaskStop tool and a closing    *)
(* agent call first.                                                        *)
Suppress(t) ==
    /\ mode \in {"up", "suppressing", "stopping"} /\ "tool" \in Callers /\ Running(t)
    /\ stops[t]["tool"].pc = "idle"
    /\ \/ task[t].suppressed /\ At(t, "tool", "suppressing", 0)
          /\ UNCHANGED <<task, writes>>
       \/ ~ task[t].suppressed
          /\ LET e == [task[t] EXCEPT !.suppressed = TRUE] IN
             task' = [task EXCEPT ![t] = e] /\ Persist(t, e)
          /\ At(t, "tool", "suppressing", Behind(t) + 1)
    /\ UNCHANGED <<mode, born, settling, reported, disk, journalVars, noticeVars,
                   restoreVars, counters>>

(* The entry and the call after terminateWithGrace() up to its first await. *)
Stopped(t, c) ==
    IF ~ Running(t) THEN task[t]
    ELSE [task[t] EXCEPT !.armed = FALSE, !.aborted = TRUE, !.closed = (c = "exit"),
                         !.timedOut = @ \/ c = "deadline"]
StopBegun(t) ==
    IF Running(t) THEN [pc |-> "grace", ahead |-> 0] ELSE [pc |-> "answer", ahead |-> Behind(t)]

Stop(t, c) ==
    /\ Alive /\ Exists(t) /\ c # "exit"
    /\ stops[t][c] = IF c = "tool" THEN [pc |-> "suppressing", ahead |-> 0] ELSE NoStop
    /\ c = "deadline" => task[t].armed
    /\ task' = [task EXCEPT ![t] = Stopped(t, c)]
    /\ stops' = [stops EXCEPT ![t][c] = StopBegun(t)]
    /\ UNCHANGED <<mode, born, settling, reported, writes, disk, journalVars,
                   noticeVars, restoreVars, counters>>

(* Seeded fault: there is no grace period.                                  *)
GraceAwaitsBody(t, c) ==
    /\ Alive /\ stops[t][c].pc = "grace" /\ ~ Running(t)
    /\ At(t, c, "answer", Behind(t))
    /\ UNCHANGED <<mode, taskVars, settling, reported, writes, disk, journalVars,
                   noticeVars, restoreVars, counters>>

(* The body has ended, or the grace period has: look again.                 *)
GraceEnds(t, c) ==
    /\ Alive /\ stops[t][c].pc = "grace"
    /\ IF Running(t) THEN At(t, c, "force", 0) ELSE At(t, c, "answer", Behind(t))
    /\ UNCHANGED <<mode, taskVars, settling, reported, writes, disk, journalVars,
                   noticeVars, restoreVars, counters>>

(* forceStop() returned.                                                    *)
ForceReturns(t, c) ==
    /\ Alive /\ stops[t][c].pc = "force"
    /\ \/ ~ Running(t) /\ At(t, c, "answer", Behind(t))
          /\ UNCHANGED <<task, writes, settling>>
       \/ Running(t)
          /\ Settle(t, IF c = "deadline" THEN "timed_out" ELSE "killed", c = "exit")
          /\ IF task[t].spilled THEN At(t, c, "settling", 0) ELSE At(t, c, "answer", Behind(t))
    /\ UNCHANGED <<mode, born, reported, disk, journalVars, noticeVars, restoreVars,
                   counters>>

(* Seeded fault: the answer does not wait for the writes.                   *)
AnswerAtOnce(t, c) ==
    /\ Alive /\ stops[t][c].pc = "answer"
    /\ At(t, c, "done", 0)
    /\ reported' = IF task[t].spilled THEN [reported EXCEPT ![t] = task[t].status]
                   ELSE reported
    /\ UNCHANGED <<mode, taskVars, settling, writes, disk, journalVars, noticeVars,
                   restoreVars, counters>>

(* The writes it waited for have landed: the status is reported.            *)
Answer(t, c) ==
    /\ Alive /\ stops[t][c] = [pc |-> "answer", ahead |-> 0]
    /\ At(t, c, "done", 0)
    /\ reported' = IF task[t].spilled THEN [reported EXCEPT ![t] = task[t].status]
                   ELSE reported
    /\ UNCHANGED <<mode, taskVars, settling, writes, disk, journalVars, noticeVars,
                   restoreVars, counters>>

OneLess(s) == [s EXCEPT !.ahead = IF @ = 0 THEN 0 ELSE @ - 1]

(* A task file is written, in this process or after the agent was closed.   *)
WriteLands(t) ==
    /\ writes[t] # <<>>
    /\ disk' = [disk EXCEPT ![t] = Head(writes[t])]
    /\ writes' = [writes EXCEPT ![t] = Tail(@)]
    /\ settling' = [settling EXCEPT ![t] = IF @ \in {None, 0} THEN @ ELSE @ - 1]
    /\ stops' = [stops EXCEPT ![t] = [c \in Callers |-> OneLess(@[c])]]
    /\ UNCHANGED <<mode, taskVars, reported, journalVars, noticeVars, restoreVars, counters>>

-----------------------------------------------------------------------------
(* Prompts and undo.                                                        *)

Prompt ==
    /\ mode = "up" /\ undoing = "idle" /\ prompts < MaxPrompts
    /\ prompts' = prompts + 1
    /\ Record([live EXCEPT !.context = Append(@, Prompted)])
    /\ UNCHANGED <<mode, taskVars, stopVars, writes, disk, noticeVars, restoreVars,
                   undos, losses>>

(* The context up to the last prompt.                                       *)
Anchors(c) == {i \in DOMAIN c : c[i] = Prompted}
Cut(c) ==
    LET last == CHOOSE i \in Anchors(c) : \A j \in Anchors(c) : j <= i IN
    SubSeq(c, 1, last - 1)

(* undoNow(): no turn is active or queued, which a request would be.        *)
Undo ==
    /\ mode = "up" /\ undoing = "idle" /\ requests = {} /\ undos < MaxUndos
    /\ Anchors(live.context) # {}
    /\ undoing' = "flush" /\ undos' = undos + 1
    /\ Record([live EXCEPT !.context = Cut(@)])
    /\ unreminded' = unreminded \cup
          {t \in Tasks : Reminded(live.context, t) /\ ~ Reminded(Cut(live.context), t)}
    /\ UNCHANGED <<mode, taskVars, stopVars, writes, disk, noticeVars, ghosts,
                   lost, restoring, early, prompts, losses>>

(* What list(false) shows of a task, and whether its end can be restored.   *)
Seen(t) == IF Exists(t) THEN Info(task[t]) ELSE ghosts[t]
Restorable == {t \in Tasks : Seen(t).status \in Ends \ {"lost"} /\ ~ Seen(t).attached}

(* Seeded fault: what the undo took back still counts as told.              *)
ReconcileKeepingDelivered ==
    /\ Alive /\ undoing = "flush"
    /\ Flush
    /\ scheduled' = (scheduled \cap requests) \ Shown(live.context)
    /\ restoring' = {[task |-> t, info |-> Seen(t)] : t \in Restorable}
    /\ undoing' = "restore" /\ dropped' = {}
    /\ UNCHANGED <<mode, taskVars, stopVars, writes, disk, building, delivered,
                   requests, ghosts, lost, unreminded, early, counters>>

(* reconcileNotificationDeliveryAfterUndo() once the cut is durable.        *)
Reconcile ==
    /\ Alive /\ undoing = "flush"
    /\ Flush
    /\ delivered' = Shown(live.context)
    /\ scheduled' = (scheduled \cap requests) \ Shown(live.context)
    /\ restoring' = {[task |-> t, info |-> Seen(t)] : t \in Restorable}
    /\ undoing' = "restore" /\ dropped' = {}
    /\ UNCHANGED <<mode, taskVars, stopVars, writes, disk, building, requests,
                   ghosts, lost, unreminded, early, counters>>

(* One end after the other: its notification is built, if it is wanted.     *)
RestoreBusy == \E b \in building : b.by = "restore"

RestoreNext ==
    /\ Alive \/ mode = "restoring"
    /\ ~ RestoreBusy
    /\ \E r \in restoring :
          /\ restoring' = restoring \ {r}
          /\ building' = building \cup
                {b \in {Build(r.task, r.info, "restore")} : Wanted(r.task, r.info)}
    /\ UNCHANGED <<mode, taskVars, stopVars, writes, disk, journalVars, scheduled,
                   delivered, requests, dropped, ghosts, lost, undoing, unreminded,
                   early, counters>>

(* The second flush; the loop is released.                                  *)
UndoEnds ==
    /\ Alive /\ undoing = "restore" /\ restoring = {} /\ ~ RestoreBusy
    /\ undoing' = "idle" /\ Flush
    /\ UNCHANGED <<mode, taskVars, stopVars, writes, disk, noticeVars, ghosts,
                   lost, restoring, unreminded, early, counters>>

-----------------------------------------------------------------------------
(* The agent is closed, or dies, and comes back.                            *)

(* stopAllOnExit(): first nobody shall be told.                             *)
Close ==
    /\ mode = "up" /\ losses < MaxLosses /\ losses' = losses + 1
    /\ mode' = "suppressing"
    /\ LET quiet == {t \in Tasks : Running(t) /\ ~ task[t].attached /\ ~ task[t].suppressed}
           e(t) == [task[t] EXCEPT !.suppressed = TRUE] IN
       /\ task' = [t \in Tasks |-> IF t \in quiet THEN e(t) ELSE task[t]]
       /\ writes' = [t \in Tasks |-> IF t \in quiet THEN Append(writes[t], Info(e(t)))
                                      ELSE writes[t]]
       /\ stops' = [t \in Tasks |-> IF t \in quiet
              THEN [stops[t] EXCEPT !["exit"] = [pc |-> "suppressing", ahead |-> Behind(t) + 1]]
              ELSE stops[t]]
    /\ UNCHANGED <<born, settling, reported, disk, journalVars, noticeVars,
                   restoreVars, prompts, undos>>

(* Then every task is stopped.                                              *)
StopAll ==
    /\ mode = "suppressing" /\ \A t \in Tasks : stops[t]["exit"].ahead = 0
    /\ mode' = "stopping"
    /\ task' = [t \in Tasks |-> IF Exists(t) THEN Stopped(t, "exit") ELSE task[t]]
    /\ stops' = [t \in Tasks |-> IF Exists(t) THEN [stops[t] EXCEPT !["exit"] = StopBegun(t)]
                                 ELSE stops[t]]
    /\ UNCHANGED <<born, settling, reported, writes, disk, journalVars, noticeVars,
                   restoreVars, counters>>

(* The loop's turns are cancelled.                                          *)
CancelTurns ==
    /\ mode = "stopping"
    /\ \A t \in Tasks : stops[t]["exit"].pc \in {"idle", "done"}
    /\ mode' = "closing"
    /\ requests' = {} /\ scheduled' = scheduled \ requests
    /\ dropped' = dropped \cup requests
    /\ UNCHANGED <<taskVars, stopVars, writes, disk, journalVars, building,
                   delivered, restoreVars, counters>>

(* Nothing of the service is left in memory.                                *)
Gone ==
    /\ mode' = "down"
    /\ task' = [t \in Tasks |-> NoEntry]
    /\ stops' = [t \in Tasks |-> [c \in Callers |-> NoStop]]
    /\ settling' = [t \in Tasks |-> None]
    /\ ghosts' = [t \in Tasks |-> NoInfo]
    /\ building' = {} /\ scheduled' = {} /\ delivered' = {} /\ requests' = {}
    /\ dropped' = {} /\ lost' = {} /\ restoring' = {} /\ undoing' = "idle"

(* The journal is flushed and the agent disposed of.                        *)
Dispose ==
    /\ mode = "closing" /\ undoing = "idle"
    /\ Gone /\ Flush
    /\ UNCHANGED <<born, reported, writes, disk, unreminded, early, counters>>

(* newerRestoredTask(): of an entry of the journal and a file.              *)
Newer(existing, loaded) ==
    IF loaded.status = "none" \/ (existing.status \in Ends /\ loaded.status \notin Ends)
    THEN existing ELSE loaded

Restored(state, t) == Newer(state.infos[t], disk[t])

(* The process dies: the end of the journal may be missing.                 *)
Crash ==
    /\ mode # "down" /\ losses < MaxLosses /\ losses' = losses + 1
    /\ \E state \in durable :
          /\ live' = state /\ durable' = {state}
          /\ early' = early \cup {k.task : k \in {x \in Shown(state.context) :
                                     Restored(state, x.task).status \notin Ends}}
          /\ unreminded' = {t \in Tasks : ~ Reminded(state.context, t)
                              /\ (t \in unreminded \/ disk[t].reminded)}
    /\ Gone /\ writes' = [t \in Tasks |-> <<>>]
    /\ UNCHANGED <<born, reported, disk, prompts, undos>>

(* Replay, restoreGhostsFromWire(), loadFromDisk().                         *)
Restart ==
    /\ mode = "down"
    /\ mode' = "loading"
    /\ writes' = [t \in Tasks |-> <<>>]
    /\ ghosts' = [t \in Tasks |-> Restored(live, t)]
    /\ delivered' = Shown(live.context)
    /\ UNCHANGED <<taskVars, stopVars, disk, journalVars, building, scheduled,
                   requests, dropped, lost, restoring, undoing, unreminded, early,
                   counters>>

Lost(t) == [ghosts[t] EXCEPT !.status = "lost"]

(* markLoadedTasksLost() writes one file after the other.                   *)
MarkLost(t) ==
    /\ mode = "loading" /\ ghosts[t].status = "running"
    /\ ghosts' = [ghosts EXCEPT ![t] = Lost(t)]
    /\ disk' = [disk EXCEPT ![t] = Lost(t)]
    /\ lost' = lost \cup {t}
    /\ UNCHANGED <<mode, taskVars, stopVars, writes, journalVars, noticeVars,
                   restoring, undoing, unreminded, early, counters>>

(* The previous session ended this task.                                    *)
PreviousSession(info) ==
    info.status = "lost" \/ (info.status = "killed" /\ info.suppressed /\ info.closed)

(* Seeded fault: only the marker in the file is looked at.                  *)
UntoldUnmarked(due) == due

(* The marker may not have reached the file: the context is searched too.   *)
Untold(due) == {t \in due : ~ Reminded(live.context, t)}

(* The ends of lost tasks are recorded, the model is reminded of all that   *)
(* the last session ended, and each is marked so.                           *)
Remind ==
    LET due == {t \in Tasks : PreviousSession(ghosts[t]) /\ ~ ghosts[t].reminded}
        marked(t) == [ghosts[t] EXCEPT !.reminded = TRUE] IN
    /\ mode = "loading" /\ \A t \in Tasks : ghosts[t].status # "running"
    /\ mode' = "restoring"
    /\ Record([infos |-> [t \in Tasks |-> IF t \in lost THEN ghosts[t] ELSE live.infos[t]],
               context |-> live.context \o SetToSeq({Reminder(t) : t \in Untold(due)})])
    /\ lost' = {}
    /\ ghosts' = [t \in Tasks |-> IF t \in due THEN marked(t) ELSE ghosts[t]]
    /\ writes' = [t \in Tasks |-> IF t \in due THEN <<marked(t)>> ELSE writes[t]]
    /\ restoring' = {[task |-> t, info |-> Seen(t)] : t \in Restorable}
    /\ UNCHANGED <<taskVars, stopVars, disk, noticeVars, undoing, unreminded, early,
                   counters>>

RestoreEnds ==
    /\ mode = "restoring" /\ restoring = {} /\ ~ RestoreBusy
    /\ mode' = "up"
    /\ UNCHANGED <<taskVars, stopVars, writes, disk, journalVars, noticeVars,
                   restoreVars, counters>>

-----------------------------------------------------------------------------
Stopping(t, c) ==
    Stop(t, c) \/ GraceEnds(t, c) \/ ForceReturns(t, c) \/ Answer(t, c)

Closing == StopAll \/ CancelTurns \/ Dispose

Undoing == Reconcile \/ UndoEnds

(* Everything has ended, or nothing more may.                               *)
AtRest == born = Tasks /\ mode = "up"

Next ==
    \/ \E t \in Tasks :
          \/ Register(t) \/ Spill(t) \/ Detach(t) \/ BodyEnds(t) \/ SettleReturns(t)
          \/ Suppress(t) \/ WriteLands(t) \/ MarkLost(t)
          \/ \E c \in Callers : Stopping(t, c)
    \/ \E k \in requests : Deliver(k) \/ Drop(k)
    \/ BuildEnds \/ RestoreNext
    \/ Prompt \/ Undo \/ Undoing
    \/ Close \/ Closing \/ Crash \/ Restart \/ Remind \/ RestoreEnds
    \/ AtRest /\ UNCHANGED vars

(* Timers fire, forceStop() and writes return, promises wake their callers, *)
(* the loop materialises or drops what waits; no body need ever end.        *)
Fairness ==
    /\ \A t \in Tasks :
          /\ WF_vars(WriteLands(t)) /\ WF_vars(SettleReturns(t))
          /\ \A c \in Callers :
                /\ WF_vars(GraceEnds(t, c)) /\ WF_vars(ForceReturns(t, c))
                /\ WF_vars(Answer(t, c))
          /\ WF_vars("tool" \in Callers /\ stops[t]["tool"].pc = "suppressing" /\ Stop(t, "tool"))
    /\ WF_vars(BuildEnds) /\ WF_vars(RestoreNext) /\ WF_vars(Undoing) /\ WF_vars(Closing)

Spec == Init /\ [][Next]_vars /\ Fairness

-----------------------------------------------------------------------------
About(t) == {i \in DOMAIN live.context : live.context[i].task = t}

(* The model is told of an end once, and what it is told is so: whatever    *)
(* ends, reads of output, undos, closings and restarts do in between, there *)
(* is one message about a task, it names the status the task has, and a     *)
(* reminder is only about tasks that the last session ended.  Left out are  *)
(* ends that an undo told before they were written and a crash then forgot. *)
ToldOnce ==
    \A t \in Tasks \ early :
        /\ Cardinality(About(t)) <= 1
        /\ mode = "up" => \A i \in About(t) :
              IF live.context[i].kind = "notice" THEN live.context[i].status = Seen(t).status
              ELSE PreviousSession(Seen(t))

(* What is under way when no undo and no restore is.                        *)
Settled(t) ==
    /\ mode = "up" /\ undoing = "idle" /\ settling[t] = None
    /\ \A b \in building : b.key.task # t

(* No end is forgotten: once its settling is over the model has been told,  *)
(* or will be by a request that waits, unless the turn that request waited  *)
(* in was cancelled; after a restart it has been told or reminded, unless   *)
(* the reminder was undone, or lost after it had been marked as given.      *)
(* Ends that are not to be told are those of attached and suppressed tasks. *)
EndIsTold ==
    \A t \in Tasks :
        LET k == Key(t, Seen(t).status) IN
        Settled(t) /\ Seen(t).status \in Ends =>
            IF PreviousSession(Seen(t)) THEN Reminded(live.context, t) \/ t \in unreminded
            ELSE \/ Seen(t).attached \/ Seen(t).suppressed
                 \/ k \in Shown(live.context) \cup requests \cup dropped

(* A status that a stop reported for a task with a file is the status a     *)
(* restart finds, wherever a crash cuts the journal.                        *)
ReportedSurvives ==
    \A t \in Tasks : reported[t] # "none" =>
        \A state \in durable : Restored(state, t).status = reported[t]

(* Whoever stops a task is answered, though its body never ends, several    *)
(* callers stop it at once, or it ends on the way; unless the process dies. *)
StopsAreAnswered ==
    \A t \in Tasks, c \in Callers :
        stops[t][c].pc \notin {"idle", "done"} ~> stops[t][c].pc \in {"idle", "done"}

=============================================================================
