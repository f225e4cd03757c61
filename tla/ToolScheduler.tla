--------------------------- MODULE ToolScheduler ---------------------------
(***************************************************************************)
(* The scheduler of one batch of tool calls (toolExecutor/                 *)
(* toolScheduler.ts).  Task i is the i-th one given to add(), so that the  *)
(* order of queuedTasks is the order of the task numbers and the queue is  *)
(* kept as a set.  A task starts at once unless it conflicts with a task   *)
(* that is active or that was queued before it; whenever a task finishes   *)
(* the queue is scanned once, in order.                                    *)
(***************************************************************************)
EXTENDS ToolAccess

CONSTANTS
    N,              \* tasks given to the scheduler
    DeclaredAccesses \* the access lists tools declare

ASSUME NAssumption == N \in Nat
ASSUME DeclaredAssumption == DeclaredAccesses \subseteq Accesses

VARIABLES
    accesses,   \* accesses[i]: what task i declared
    added,      \* tasks 1..added have been given to add()
    active,     \* activeTasks
    queued,     \* queuedTasks
    settled     \* tasks whose result promise is settled

vars == <<accesses, added, active, queued, settled>>

Tasks == 1..N

ConflictsWithAny(t, candidates) ==
    \E u \in candidates : Conflict(accesses[t], accesses[u])

(* Seeded fault: a call may overtake the ones queued before it.             *)
IsBlockedOvertaking(t, running, queuedBefore) == ConflictsWithAny(t, running)

IsBlocked(t, running, queuedBefore) ==
    ConflictsWithAny(t, running) \/ ConflictsWithAny(t, queuedBefore)

(* Seeded fault: a call waits for itself.                                   *)
UnblockedInclusive(running, waiting) ==
    {t \in waiting : ~ IsBlocked(t, running, {u \in waiting : u <= t})}

(* One scan of the queue.  The loop meets a task with activeTasks holding   *)
(* the earlier tasks it has just started and stillQueued the earlier ones   *)
(* it has kept: together, every task queued before it.                      *)
Unblocked(running, waiting) ==
    {t \in waiting : ~ IsBlocked(t, running, {u \in waiting : u < t})}

Init ==
    /\ accesses \in [Tasks -> DeclaredAccesses]
    /\ added = 0
    /\ active = {}
    /\ queued = {}
    /\ settled = {}

(* add(): the task is either started or queued, before add() returns.       *)
Add ==
    LET t == added + 1 IN
    /\ added < N
    /\ added' = t
    /\ IF IsBlocked(t, active, queued)
       THEN queued' = queued \cup {t} /\ UNCHANGED active
       ELSE active' = active \cup {t} /\ UNCHANGED queued
    /\ UNCHANGED <<accesses, settled>>

(* Seeded fault: the queue is not scanned when a slot is freed.             *)
FinishUnscanned(t) ==
    /\ t \in active
    /\ settled' = settled \cup {t}
    /\ active' = active \ {t}
    /\ UNCHANGED <<accesses, added, queued>>

(* A started task resolves or rejects; finish() then frees its slot and     *)
(* starts what no longer has to wait.                                       *)
Finish(t) ==
    /\ t \in active
    /\ settled' = settled \cup {t}
    /\ LET running == active \ {t}
           starting == Unblocked(running, queued)
       IN  /\ active' = running \cup starting
           /\ queued' = queued \ starting
    /\ UNCHANGED <<accesses, added>>

Done == settled = Tasks /\ UNCHANGED vars

Next == Add \/ (\E t \in Tasks : Finish(t)) \/ Done

(* A started task ends: its body is a tool that returns, fails or is cut    *)
(* off by the abort grace timer, and the batch is added in one loop.        *)
Fairness == WF_vars(Add) /\ \A t \in Tasks : WF_vars(Finish(t))

Spec == Init /\ [][Next]_vars /\ Fairness

-----------------------------------------------------------------------------
TypeOK ==
    /\ accesses \in [Tasks -> DeclaredAccesses]
    /\ added \in 0..N
    /\ active \subseteq 1..added
    /\ queued \subseteq 1..added
    /\ settled \subseteq 1..added

(* A task is in exactly one place: running, waiting or settled, from the    *)
(* moment add() returns.                                                    *)
Partition ==
    /\ active \cup queued \cup settled = 1..added
    /\ active \cap queued = {}
    /\ active \cap settled = {}
    /\ queued \cap settled = {}

(* No two tool calls that run at the same time race for a file, whatever    *)
(* spelling, nesting or recursion they declared it with.                    *)
NoRace ==
    \A t, u \in active : t # u => ~ Race(accesses[t], accesses[u])

(* The same promise on the scheduler's own terms.                           *)
NoConflict ==
    \A t, u \in active : t # u => ~ Conflict(accesses[t], accesses[u])

(* Nothing waits without a reason that will go away: each queued task       *)
(* conflicts with a running task or with one queued before it.  An empty    *)
(* activeTasks therefore means an empty queue, and finish() is called again *)
(* as long as anything waits.                                               *)
QueueHasCause ==
    \A t \in queued : IsBlocked(t, active, {u \in queued : u < t})

(* Calls that conflict take effect in the order the model wrote them: a     *)
(* task never starts, let alone settles, while an earlier task it conflicts *)
(* with is unsettled.                                                       *)
SubmissionOrder ==
    \A t \in active \cup settled : \A u \in 1..(t - 1) :
        Conflict(accesses[t], accesses[u]) => u \in settled

(* Every task of the batch is run to its end, for any pattern of conflicts. *)
AllSettle == <>(settled = Tasks)

Ordered == INSTANCE OrderedExclusion WITH
    conflicts <- {p \in Tasks \X Tasks : Conflict(accesses[p[1]], accesses[p[2]])},
    offered <- added,
    started <- active \cup settled,
    finished <- settled

(* The scheduler implements the promise of OrderedExclusion.                *)
ImplementsOrderedExclusion == Ordered!Spec
=============================================================================
