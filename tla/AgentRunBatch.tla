---------------------------- MODULE AgentRunBatch ----------------------------
(***************************************************************************)
(* One AgentRunBatch (features/swarm/session/agentRunBatch.ts) with the    *)
(* launcher SessionSwarmService gives it (sessionSwarmService.ts) and the  *)
(* mirror of a child's run (session/subagent/mirrorAgentRun.ts): members   *)
(* of a swarm are launched a few at a time, a member the provider rate     *)
(* limits is suspended and launched again later, and the batch ends when   *)
(* every member has a result or its signal aborts.                         *)
(*                                                                         *)
(* Dates are kept as the time that is left until them, 0 once they have    *)
(* passed; a timer that is due may fire late, for Tick does not wait.      *)
(***************************************************************************)
EXTENDS Integers, Sequences, FiniteSets, Queue

CONSTANTS
    N,                 \* members, in the order of the tasks
    Resumed,           \* members that resume an agent instead of spawning one
    MaxConcurrency,    \* KIMI_CODE_AGENT_SWARM_MAX_CONCURRENCY
    LaunchLimit,       \* INITIAL_LAUNCH_LIMIT
    LaunchInterval,    \* INITIAL_LAUNCH_INTERVAL_MS
    RetryBase,         \* RATE_LIMIT_RETRY_BASE_MS
    ShrinkInterval,    \* RATE_LIMIT_CAPACITY_SHRINK_INTERVAL_MS
    RecoveryInterval,  \* RATE_LIMIT_CAPACITY_RECOVERY_INTERVAL_MS
    MaxRateLimits      \* bound: rate limits the provider answers with

ASSUME MembersAssumption == N \in Nat \ {0} /\ Resumed \subseteq 1..N
ASSUME LimitsAssumption ==
    /\ MaxConcurrency \in Nat \ {0} /\ LaunchLimit \in Nat \ {0}
    /\ LaunchInterval \in Nat \ {0} /\ ShrinkInterval \in Nat
    /\ RetryBase \in Nat \ {0} /\ RecoveryInterval \in Nat \ {0}

VARIABLES
    outcome,     \* of run(): "idle", "running", "resolved" or "rejected"
    pending,     \* members waiting for a launch
    active,      \* members with an attempt the batch holds
    results,     \* "none" until a member has one
    phase,       \* of the attempt: "none", "launching", "starting", "running"
    ready,       \* members whose active attempt is ready
    started,     \* members that were ready once
    agents,      \* members whose agentId is known
    retries,     \* retryCount
    readyWait,   \* until retryReadyAt
    throttle,    \* the rate limit's bookkeeping
    rampTimer,   \* normalLaunchTimer
    wakeTimer,   \* rateLimitLaunchTimer
    announced,   \* members whose agent "subagent.spawned" named
    terminals,   \* terminal events of each member's agent
    broken       \* history: members lost before the child's run existed

queueVars == <<pending, active, results, outcome>>
stateVars == <<ready, started, agents, retries, readyWait>>
clockVars == <<throttle, rampTimer, wakeTimer>>
eventVars == <<announced, terminals, broken>>
vars == <<queueVars, stateVars, phase, clockVars, eventVars>>

Members == 1..N
Off == -1     \* of a timer: not armed

Least(a, b) == IF a <= b THEN a ELSE b
Greatest(a, b) == IF a >= b THEN a ELSE b
NoThrottle ==
    [limited   |-> FALSE,      \* rateLimitMode
     launches  |-> 0,          \* normalLaunchCount
     successes |-> 0,          \* startedSuccessCount
     capacity  |-> 1,          \* rateLimitCapacity
     interval  |-> RetryBase,  \* globalRetryIntervalMs
     launch    |-> 0,          \* until nextRateLimitLaunchAt
     shrink    |-> 0,          \* until the capacity may shrink again
     recovery  |-> 0]          \* until the capacity recovers

Init ==
    /\ outcome = "idle"
    /\ pending = [i \in Members |-> i]
    /\ active = {} /\ results = [m \in Members |-> "none"]
    /\ phase = [m \in Members |-> "none"]
    /\ ready = {} /\ started = {} /\ agents = {}
    /\ retries = [m \in Members |-> 0]
    /\ readyWait = [m \in Members |-> 0]
    /\ throttle = NoThrottle /\ rampTimer = Off /\ wakeTimer = Off
    /\ announced = {} /\ terminals = [m \in Members |-> 0] /\ broken = {}

-----------------------------------------------------------------------------
(* Scheduling.  The operators take the queue, the attempts, the results and *)
(* the bookkeeping as the handler that calls schedule() leaves them.        *)

AtConcurrencyLimit(attempts) == Cardinality(attempts) >= MaxConcurrency

(* startAttempt of a set of members; ph are the phases before it.           *)
Launched(ph, ms) == [m \in Members |-> IF m \in ms THEN "launching" ELSE ph[m]]

(* finish(): the timers are cleared and the attempts let go.  Nothing reads *)
(* the bookkeeping of a finished batch, so it is forgotten.                 *)
Finish(theOutcome, theResults, q) ==
    /\ outcome' = theOutcome /\ results' = theResults /\ pending' = q
    /\ active' = {} /\ throttle' = NoThrottle
    /\ rampTimer' = Off /\ wakeTimer' = Off

(* The launches the normal phase makes at once.                             *)
Burst(q, attempts, th) ==
    LET room == Least(LaunchLimit - th.launches,
                      MaxConcurrency - Cardinality(attempts))
    IN  Greatest(0, Least(room, Len(q)))

ScheduleNormalLaunch(q, attempts, ph, th, ramp) ==
    LET n == Burst(q, attempts, th)
        launched == {q[i] : i \in 1..n}
        rest == SubSeq(q, n + 1, Len(q))
        busy == attempts \cup launched
    IN  /\ pending' = rest /\ active' = busy
        /\ phase' = Launched(ph, launched)
        /\ throttle' = [th EXCEPT !.launches = @ + n]
        /\ rampTimer' = IF rest # <<>> /\ ramp = Off /\ ~AtConcurrencyLimit(busy)
                        THEN LaunchInterval ELSE ramp
        /\ UNCHANGED wakeTimer

(* Seeded fault: the wakeup for the capacity's recovery is not armed.       *)
NoRecoveryWakeup(q, attempts, th, waits) ==
    LET readyIn == CHOOSE t \in {waits[m] : m \in Queued(q)} :
                       \A m \in Queued(q) : t <= waits[m]
    IN  IF q = <<>> \/ Cardinality(attempts) >= th.capacity THEN Off
        ELSE Least(Greatest(th.launch, readyIn), th.recovery)

(* Seeded fault: no wakeup is armed while the capacity has room.            *)
NoLaunchWakeup(q, attempts, th, waits) ==
    IF q = <<>> \/ Cardinality(attempts) < th.capacity THEN Off ELSE th.recovery

(* When the batch has to look again: at the recovery of a full capacity, or *)
(* when the next launch is allowed and its member is ready.                 *)
NextWakeup(q, attempts, th, waits) ==
    LET readyIn == CHOOSE t \in {waits[m] : m \in Queued(q)} :
                       \A m \in Queued(q) : t <= waits[m]
    IN  IF q = <<>> THEN Off
        ELSE IF Cardinality(attempts) >= th.capacity THEN th.recovery
        ELSE Least(Greatest(th.launch, readyIn), th.recovery)

(* A quiet recovery interval with members waiting adds one to the capacity. *)
Recovered(q, th) ==
    IF q # <<>> /\ th.recovery = 0
    THEN [th EXCEPT !.capacity = @ + 1, !.recovery = RecoveryInterval, !.launch = 0]
    ELSE th

(* At most one launch, of the first member in the queue that is ready.      *)
ScheduleRateLimitLaunch(q, attempts, ph, th, waits) ==
    LET base == Recovered(q, th)
        ripe == {i \in DOMAIN q : waits[q[i]] = 0}
        may == Cardinality(attempts) < base.capacity /\ base.launch = 0 /\ ripe # {}
        first == CHOOSE i \in ripe : \A j \in ripe : i <= j
        m == q[first]
        rest == Taken(q, first)
        after == [base EXCEPT !.launch = base.interval]
    IN  /\ IF may
           THEN /\ pending' = rest /\ active' = attempts \cup {m}
                /\ phase' = Launched(ph, {m})
                /\ throttle' = after
                /\ wakeTimer' = NextWakeup(rest, attempts \cup {m}, after, waits)
           ELSE /\ pending' = q /\ active' = attempts /\ phase' = ph
                /\ throttle' = base
                /\ wakeTimer' = NextWakeup(q, attempts, base, waits)

(* schedule(): the batch is complete, or launches what it may.              *)
Schedule(q, attempts, res, ph, th, waits, ramp) ==
    IF \A m \in Members : res[m] # "none"
    THEN Finish("resolved", res, q) /\ phase' = ph
    ELSE /\ results' = res /\ outcome' = "running"
         /\ IF th.limited
            THEN /\ ScheduleRateLimitLaunch(q, attempts, ph, th, waits)
                 /\ rampTimer' = Off
            ELSE ScheduleNormalLaunch(q, attempts, ph, th, ramp)

-----------------------------------------------------------------------------
(* Terminal events of the members' agents, one per agent and run().         *)

Terminalize(ts, ms) ==
    [m \in Members |-> IF m \in ms THEN Greatest(1, ts[m]) ELSE ts[m]]

(* Seeded fault: attempts that were launched again are left out.            *)
AbandonPendingOnly(q) == Queued(q) \cap agents

(* abandonSuspended: the suspended, and the launched that are not ready.    *)
Suspended(q) == (Queued(q) \cap agents) \cup ((active \ ready) \cap agents)

-----------------------------------------------------------------------------
(* run() and its signal.                                                    *)

Run ==
    /\ outcome = "idle"
    /\ Schedule(pending, active, results, phase, throttle, readyWait, rampTimer)
    /\ UNCHANGED <<stateVars, eventVars>>

(* The signal aborts, before or while the batch runs.  After a user's       *)
(* cancellation run() answers for every member, otherwise it rejects.       *)
Interrupted(m) ==
    IF results[m] # "none" THEN results[m]
    ELSE IF m \in started \cup agents THEN "aborted" ELSE "notStarted"

Abort(byUser) ==
    /\ outcome \in {"idle", "running"}
    /\ IF byUser
       THEN Finish("resolved", [m \in Members |-> Interrupted(m)], pending)
       ELSE Finish("rejected", results, pending)
    /\ terminals' = Terminalize(terminals, Suspended(pending))
    /\ UNCHANGED <<stateVars, phase, announced, broken>>

-----------------------------------------------------------------------------
(* The child's run.  An attempt the batch let go goes on, and its handlers  *)
(* find the batch finished: releaseAttempt returns false.                   *)

Retrying(m) == retries[m] > 0

Moves(m, from, to) == phase[m] = from /\ phase' = [phase EXCEPT ![m] = to]

(* handleAttemptOutcome with a result.                                      *)
Settles(m, result) ==
    IF m \in active
    THEN /\ Schedule(pending, active \ {m}, [results EXCEPT ![m] = result],
                     [phase EXCEPT ![m] = "none"], throttle, readyWait, rampTimer)
         /\ ready' = ready \ {m}
    ELSE /\ phase' = [phase EXCEPT ![m] = "none"]
         /\ UNCHANGED <<queueVars, ready, clockVars>>

(* What a failed launch says of a member whose agent the batch never met.   *)
LaunchFailure(m) == IF m \in agents THEN "failed" ELSE "notStarted"

(* The launcher throws before the agent is announced: an unknown profile, a *)
(* child that cannot be created, or for resume and retry an agent that is   *)
(* busy, not owned or cannot be rebuilt.                                    *)
LaunchFails(m) ==
    /\ phase[m] = "launching"
    /\ Settles(m, LaunchFailure(m))
    /\ broken' = IF m \in active /\ m \in announced THEN broken \cup {m} ELSE broken
    /\ UNCHANGED <<started, agents, retries, readyWait, announced, terminals>>

(* The child exists; "subagent.spawned" is sent unless this is a retry.     *)
Announce(m) ==
    /\ Moves(m, "launching", "starting")
    /\ announced' = announced \cup {m}
    /\ UNCHANGED <<queueVars, stateVars, clockVars, terminals, broken>>

(* The caller's runtime is gone: spawnAttempt throws with no other event.   *)
RuntimeLost(m) ==
    /\ phase[m] = "starting" /\ m \notin Resumed /\ ~Retrying(m)
    /\ Settles(m, LaunchFailure(m))
    /\ broken' = broken \cup {m}
    /\ UNCHANGED <<started, agents, retries, readyWait, announced, terminals>>

(* observe(): the turn cannot be started, or the attempt was aborted.       *)
StartFails(m) ==
    /\ phase[m] = "starting"
    /\ Settles(m, LaunchFailure(m))
    /\ terminals' = Terminalize(terminals, {m})
    /\ UNCHANGED <<started, agents, retries, readyWait, announced, broken>>

Starts(m) ==
    /\ Moves(m, "starting", "running")
    /\ agents' = agents \cup {m}
    /\ UNCHANGED <<queueVars, ready, started, retries, readyWait, clockVars, eventVars>>

(* markAttemptReady: the turn's first response came.                        *)
Ready(m) ==
    /\ phase[m] = "running" /\ m \in active \ ready
    /\ ready' = ready \cup {m} /\ started' = started \cup {m}
    /\ IF throttle.limited
       THEN Schedule(pending, active, results, phase,
                     [throttle EXCEPT !.interval = RetryBase, !.launch = RetryBase],
                     readyWait, rampTimer)
       ELSE /\ throttle' = [throttle EXCEPT !.successes = @ + 1]
            /\ UNCHANGED <<queueVars, phase, rampTimer, wakeTimer>>
    /\ UNCHANGED <<agents, retries, readyWait, eventVars>>

(* The mirror sends "subagent.completed" itself; only a held attempt can    *)
(* complete, for the others' signal is aborted.                             *)
Completes(m) ==
    /\ phase[m] = "running" /\ m \in active
    /\ Settles(m, "completed")
    /\ terminals' = [terminals EXCEPT ![m] = @ + 1]
    /\ UNCHANGED <<started, agents, retries, readyWait, announced, broken>>

(* An error, a timeout, or the abort of an attempt the batch let go.        *)
Fails(m) ==
    /\ phase[m] = "running"
    /\ Settles(m, "failed")
    /\ terminals' = Terminalize(terminals, {m})
    /\ UNCHANGED <<started, agents, retries, readyWait, announced, broken>>

-----------------------------------------------------------------------------
(* Rate limits.  The mirror suppresses the failure event of such a run.     *)

ShrinkCapacity(th, force) ==
    IF ~force /\ th.shrink > 0 THEN th
    ELSE [th EXCEPT !.capacity = Greatest(1, @ - 1), !.shrink = ShrinkInterval]

EnterRateLimitMode(th) ==
    IF th.limited THEN ShrinkCapacity(th, FALSE)
    ELSE ShrinkCapacity([th EXCEPT !.limited = TRUE,
                                   !.capacity = Greatest(1, th.successes),
                                   !.launch = Greatest(@, RetryBase)], TRUE)

Penalized(th, isReady, delay) ==
    LET interval == IF isReady THEN th.interval ELSE Greatest(2 * th.interval, delay)
        wait == IF isReady THEN RetryBase ELSE interval
    IN  [th EXCEPT !.interval = interval, !.launch = Greatest(@, wait)]

OnlyUnfinished(m) == \A other \in Members \ {m} : results[other] # "none"

RateLimits == LET sum[m \in 0..N] == IF m = 0 THEN 0 ELSE sum[m - 1] + retries[m]
              IN  sum[N]

Requeues(m) == m \in active /\ ~OnlyUnfinished(m) /\ RateLimits < MaxRateLimits

(* requeueRateLimited: the member is suspended at the head of the queue.    *)
RateLimited(m) ==
    /\ phase[m] = "running" /\ Requeues(m)
    /\ LET delay == RetryBase * 2 ^ retries[m]
           waits == [readyWait EXCEPT ![m] = delay]
           entered == [EnterRateLimitMode(throttle) EXCEPT !.recovery = RecoveryInterval]
       IN  /\ readyWait' = waits
           /\ Schedule(<<m>> \o pending, active \ {m}, results,
                       [phase EXCEPT ![m] = "none"],
                       Penalized(entered, m \in ready, delay), waits, Off)
    /\ retries' = [retries EXCEPT ![m] = @ + 1]
    /\ ready' = ready \ {m}
    /\ UNCHANGED <<started, agents, eventVars>>

(* The last unfinished member has nobody to wait for.                       *)
RateLimitedLast(m) ==
    /\ phase[m] = "running" /\ m \in active /\ OnlyUnfinished(m)
    /\ Settles(m, "failed")
    /\ terminals' = Terminalize(terminals, {m})
    /\ UNCHANGED <<started, agents, retries, readyWait, announced, broken>>

-----------------------------------------------------------------------------
(* Timers.                                                                  *)

RampFires ==
    /\ outcome = "running" /\ rampTimer = 0
    /\ IF pending = <<>> \/ AtConcurrencyLimit(active)
       THEN rampTimer' = Off /\ UNCHANGED <<queueVars, phase, throttle, wakeTimer>>
       ELSE Schedule(Tail(pending), active \cup {Head(pending)}, results,
                     Launched(phase, {Head(pending)}),
                     [throttle EXCEPT !.launches = @ + 1], readyWait, Off)
    /\ UNCHANGED <<stateVars, eventVars>>

WakeFires ==
    /\ outcome = "running" /\ wakeTimer = 0
    /\ Schedule(pending, active, results, phase, throttle, readyWait, rampTimer)
    /\ UNCHANGED <<stateVars, eventVars>>

Sooner(t) == IF t > 0 THEN t - 1 ELSE t

Tick ==
    /\ outcome = "running"
    /\ rampTimer' = Sooner(rampTimer) /\ wakeTimer' = Sooner(wakeTimer)
    /\ throttle' = [throttle EXCEPT !.launch = Sooner(@), !.shrink = Sooner(@),
                                    !.recovery = Sooner(@)]
    /\ readyWait' = [m \in Members |-> Sooner(readyWait[m])]
    /\ UNCHANGED <<queueVars, ready, started, agents, retries, phase, eventVars>>

Progress(m) ==
    \/ LaunchFails(m) \/ Announce(m) \/ RuntimeLost(m) \/ StartFails(m) \/ Starts(m)
    \/ Completes(m) \/ Fails(m) \/ RateLimited(m) \/ RateLimitedLast(m)

(* All members are answered for and no child runs any more.                 *)
Over == outcome \in {"resolved", "rejected"} /\ \A m \in Members : phase[m] = "none"

Next ==
    \/ Run
    \/ \E byUser \in BOOLEAN : Abort(byUser)
    \/ \E m \in Members : Progress(m) \/ Ready(m)
    \/ RampFires \/ WakeFires \/ Tick
    \/ Over /\ UNCHANGED vars

(* Time passes and timers fire; nothing is assumed of the children.         *)
Fairness == WF_vars(Tick) /\ WF_vars(RampFires) /\ WF_vars(WakeFires)

Spec == Init /\ [][Next]_vars /\ Fairness

-----------------------------------------------------------------------------
(* The variables hold what their comments say.                              *)
TypeOK ==
    /\ outcome \in {"idle", "running", "resolved", "rejected"}
    /\ pending \in Seq(Members) /\ active \subseteq Members
    /\ results \in [Members -> {"none", "completed", "failed", "aborted", "notStarted"}]
    /\ phase \in [Members -> {"none", "launching", "starting", "running"}]
    /\ ready \subseteq Members /\ started \subseteq Members /\ agents \subseteq Members
    /\ retries \in [Members -> Nat] /\ readyWait \in [Members -> Nat]
    /\ throttle \in [limited : BOOLEAN, launches : Nat, successes : Nat,
                     capacity : Nat \ {0}, interval : Nat \ {0}, launch : Nat,
                     shrink : Nat, recovery : Nat]
    /\ rampTimer \in Nat \cup {Off} /\ wakeTimer \in Nat \cup {Off}
    /\ announced \subseteq Members /\ terminals \in [Members -> Nat]
    /\ broken \subseteq Members

(* Queue, attempts and results divide the members among them.               *)
Answered(res) == {m \in Members : res[m] # "none"}

Partitioned(q, attempts, res) ==
    /\ Distinct(q)
    /\ Queued(q) \cup attempts \cup Answered(res) = Members
    /\ Queued(q) \cap attempts = {}
    /\ (Queued(q) \cup attempts) \cap Answered(res) = {}

(* While the batch runs every member waits in the queue once, has an        *)
(* attempt, or has its result, and never two of these: neither a suspension *)
(* nor a late handler loses or doubles one (requeueRateLimited,             *)
(* handleAttemptOutcome, startAttempt).                                     *)
OnePlace == outcome = "running" => Partitioned(pending, active, results)

(* Every agent the caller was told of gets one terminal event and no        *)
(* second one, whatever the suspensions, retries, late launches and the     *)
(* abort did, and it has it when its last run is over; except an agent      *)
(* whose launch threw before there was a run to observe (terminalize,       *)
(* abandonSuspended, mirrorAgentRun).                                       *)
EndsExactlyOnce ==
    \A m \in Members :
        /\ terminals[m] <= 1
        /\ terminals[m] = 1 => m \in announced
        /\ outcome \in {"resolved", "rejected"} /\ phase[m] = "none"
             /\ m \in announced \ broken => terminals[m] = 1

(* A suspended member is launched again by the clock alone, even when the   *)
(* attempts that fill the capacity never end: the recovery interval makes   *)
(* room (recoverRateLimitCapacity, scheduleRateLimitWakeup).                *)
SuspendedIsRetried ==
    \A m \in Members :
        (m \in Queued(pending) /\ Retrying(m))
            ~> (m \in active \/ outcome # "running")

(* If the children's runs end, the batch ends: no wakeup is forgotten when  *)
(* an attempt ends, a timer finds the concurrency limit reached, or the     *)
(* mode changes (schedule).                                                 *)
BatchEnds ==
    (\A m \in Members : WF_vars(Progress(m)))
        => (outcome = "running" ~> outcome # "running")

=============================================================================
