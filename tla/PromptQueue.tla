----------------------------- MODULE PromptQueue -----------------------------
(***************************************************************************)
(* AgentPromptService (agent/prompt/promptService.ts): the prompts wait in *)
(* a queue of their own above the loop, one of them at a time is launched  *)
(* through its hooks and becomes the active one, others are steered into   *)
(* its turn, and a compaction that runs on an idle loop holds them back.   *)
(*                                                                         *)
(* Of the loop only the turns are kept, as AgentLoop has them: one runs,   *)
(* others queue, and under quiescence a request is held until the lease is *)
(* returned.  A call may arrive as the continuation of a promise, so it    *)
(* may come between any two steps of the service.                          *)
(***************************************************************************)
EXTENDS Naturals, Sequences, FiniteSets, Queue

CONSTANTS
    Prompts,        \* the prompts ever submitted
    MaxOtherTurns,  \* bound: turns that are not started for a prompt
    MaxCompactions, \* bound: compactions
    Other,          \* stands for a turn that is not a prompt's
    None

ASSUME PromptsAssumption ==
    /\ IsFiniteSet(Prompts) /\ Other # None
    /\ Other \notin Prompts /\ None \notin Prompts
ASSUME BoundsAssumption == MaxOtherTurns \in Nat /\ MaxCompactions \in Nat

VARIABLES
    state,       \* of each record; "new" before enqueue()
    pending,     \* the queue
    active,      \* the active prompt
    launching,   \* the prompt startNext() is busy with
    launch,      \* where it is: "idle", "hooks" or "assigning"
    steers,      \* calls of steer() that await: the prompts they took
    heldSteers,  \* those among them whose request the loop holds
    steered,     \* the prompts steered into an active one
    answers,     \* how often completion was resolved, with its event
    exhausted,   \* startNext() called itself until the stack overflowed
    lost,        \* history: prompts of calls of steer() that threw
    turn,        \* the loop: the prompt whose turn runs, Other or None
    turnQueue,   \* prompts whose turn is queued behind it
    held,        \* the prompt whose request is held, or None
    result,      \* outcome of each prompt's turn, "none" before its end
    others,      \* turns of others so far
    compacting,  \* "none", "manual" or "auto"
    finishing,   \* cancelled compactions whose worker has not returned
    compactions  \* compactions so far

queueVars == <<pending, launching, launch, exhausted>>
steerVars == <<steers, heldSteers, steered, lost>>
loopVars == <<turn, turnQueue, held, result, others>>
compactionVars == <<compacting, finishing, compactions>>
vars == <<state, active, answers, queueVars, steerVars, loopVars, compactionVars>>

(* The manual compaction keeps the loop's quiescence until its worker ends. *)
Quiet == compacting = "manual" \/ "manual" \in finishing

Init ==
    /\ state = [p \in Prompts |-> "new"]
    /\ pending = <<>> /\ active = None
    /\ launching = None /\ launch = "idle"
    /\ steers = {} /\ heldSteers = {} /\ steered = [p \in Prompts |-> {}]
    /\ answers = [p \in Prompts |-> 0]
    /\ exhausted = FALSE /\ lost = {}
    /\ turn = None /\ turnQueue = <<>> /\ held = None
    /\ result = [p \in Prompts |-> "none"] /\ others = 0
    /\ compacting = "none" /\ finishing = {} /\ compactions = 0

-----------------------------------------------------------------------------
(* Launching.                                                               *)

(* Prompts wait while a compaction is in flight that no turn goes with.     *)
HeldBack(compaction, running) == compaction # "none" /\ running = None

KeepLaunch == UNCHANGED <<launching, launch, exhausted>>

(* startNext() with nothing active or launching and q waiting.  A prompt    *)
(* that is held back is put in front again, and the finally clause calls    *)
(* startNext() at once: nothing in between is awaited.                      *)
StartNext(q, compaction) ==
    \/ /\ q = <<>>
       /\ pending' = q /\ launching' = None /\ launch' = "idle"
       /\ UNCHANGED exhausted
    \/ /\ q # <<>> /\ HeldBack(compaction, turn)
       /\ pending' = q /\ launching' = None /\ launch' = "idle"
       /\ exhausted' = TRUE
    \/ /\ q # <<>> /\ ~ HeldBack(compaction, turn)
       /\ pending' = Tail(q) /\ launching' = Head(q) /\ launch' = "hooks"
       /\ UNCHANGED exhausted

(* The same where a prompt may be active or launching already.              *)
MaybeStartNext(q, compaction) ==
    IF active = None /\ launching = None THEN StartNext(q, compaction)
    ELSE pending' = q /\ KeepLaunch

Enqueue(p) ==
    /\ state[p] = "new"
    /\ state' = [state EXCEPT ![p] = "pending"]
    /\ LET q == Append(pending, p) IN
       IF HeldBack(compacting, turn)
       THEN pending' = q /\ KeepLaunch
       ELSE MaybeStartNext(q, compacting)
    /\ UNCHANGED <<active, answers, steerVars, loopVars, compactionVars>>

Answer(ps, as) ==
    /\ state' = [p \in Prompts |-> IF p \in ps THEN as ELSE state[p]]
    /\ answers' = [p \in Prompts |-> IF p \in ps THEN answers[p] + 1 ELSE answers[p]]

(* Seeded fault: the next prompt is not started.                            *)
NotLaunchedAlone(as) ==
    /\ launch = "hooks"
    /\ Answer({launching}, as)
    /\ launching' = None /\ launch' = "idle"
    /\ UNCHANGED <<active, pending, exhausted, steerVars, loopVars, compactionVars>>

(* The hook blocks the prompt, or it or the media throw.                    *)
NotLaunched(as) ==
    /\ launch = "hooks"
    /\ Answer({launching}, as)
    /\ StartNext(pending, compacting)
    /\ UNCHANGED <<active, steerVars, loopVars, compactionVars>>

(* The loop is given the prompt's request, which makes a turn.              *)
HooksPass ==
    /\ launch = "hooks"
    /\ launch' = "assigning"
    /\ \/ Quiet /\ held' = launching /\ UNCHANGED <<turn, turnQueue>>
       \/ /\ ~ Quiet /\ UNCHANGED held
          /\ \/ turn = None /\ turn' = launching /\ UNCHANGED turnQueue
             \/ turn # None /\ turnQueue' = Append(turnQueue, launching) /\ UNCHANGED turn
    /\ UNCHANGED <<state, active, answers, pending, launching, exhausted, steerVars,
                   result, others, compactionVars>>

(* The turn is assigned: the prompt becomes the active one.                 *)
Launched ==
    /\ launch = "assigning" /\ held = None
    /\ active' = launching
    /\ state' = [state EXCEPT ![launching] = "running"]
    /\ launching' = None /\ launch' = "idle"
    /\ UNCHANGED <<answers, pending, exhausted, steerVars, loopVars, compactionVars>>

(* Seeded fault: the steered prompts are answered but not let go.           *)
SettleKeepingSteered ==
    /\ active # None
    /\ result[active] # "none"
    /\ active' = None
    /\ Answer({active} \cup steered[active], result[active])
    /\ StartNext(pending, compacting)
    /\ UNCHANGED <<steerVars, loopVars, compactionVars>>

(* The turn's result is there: the prompt and those steered into it are     *)
(* answered and the next one is started.                                    *)
Settle ==
    /\ active # None
    /\ result[active] # "none"
    /\ active' = None
    /\ Answer({active} \cup steered[active], result[active])
    /\ steered' = [steered EXCEPT ![active] = {}]
    /\ StartNext(pending, compacting)
    /\ UNCHANGED <<steers, heldSteers, lost, loopVars, compactionVars>>

-----------------------------------------------------------------------------
(* Steering and aborting.                                                   *)

(* Prompts leave the queue and their request asks for the active turn,      *)
(* whoever's it is.  Without one the loop refuses it and the call throws.   *)
Steer(ps) ==
    /\ active # None
    /\ ps # {} /\ ps \subseteq Queued(pending)
    /\ LET rest == Queued(pending) \ ps IN
       \E r \in [1..Cardinality(rest) -> rest] : IsRest(r, pending, ps) /\ pending' = r
    /\ \/ Quiet /\ heldSteers' = heldSteers \cup {ps} /\ steers' = steers \cup {ps}
          /\ UNCHANGED lost
       \/ ~ Quiet /\ turn # None /\ steers' = steers \cup {ps}
          /\ UNCHANGED <<heldSteers, lost>>
       \/ ~ Quiet /\ turn = None /\ lost' = lost \cup ps
          /\ UNCHANGED <<steers, heldSteers>>
    /\ KeepLaunch
    /\ UNCHANGED <<state, active, answers, steered, loopVars, compactionVars>>

(* The request was assigned: the prompts go with the prompt that is active  *)
(* now.  If there is none reading its id throws.                            *)
Steered(ps) ==
    /\ ps \in steers \ heldSteers
    /\ steers' = steers \ {ps}
    /\ state' = [p \in Prompts |-> IF p \in ps THEN "steered" ELSE state[p]]
    /\ \/ active # None /\ steered' = [steered EXCEPT ![active] = @ \cup ps]
          /\ UNCHANGED lost
       \/ active = None /\ lost' = lost \cup ps /\ UNCHANGED steered
    /\ UNCHANGED <<active, answers, queueVars, heldSteers, loopVars, compactionVars>>

(* cancelQueuedTurn; a turn that runs is told to stop and ends by itself.   *)
CancelTurn(p) ==
    IF p \in Queued(turnQueue)
    THEN /\ \E i \in DOMAIN turnQueue :
               turnQueue[i] = p /\ turnQueue' = Taken(turnQueue, i)
         /\ result' = [result EXCEPT ![p] = "cancelled"]
    ELSE UNCHANGED <<turnQueue, result>>

(* A client of the loop cancels a queued turn by its id.                    *)
CancelQueuedTurn(p) ==
    /\ p \in Queued(turnQueue)
    /\ CancelTurn(p)
    /\ UNCHANGED <<state, active, answers, queueVars, steerVars, turn, held, others,
                   compactionVars>>

Abort(p) ==
    \/ /\ \E i \in DOMAIN pending : pending[i] = p /\ pending' = Taken(pending, i)
       /\ Answer({p}, "cancelled")
       /\ KeepLaunch
       /\ UNCHANGED <<active, steerVars, loopVars, compactionVars>>
    \/ /\ p = active
       /\ CancelTurn(p)
       /\ UNCHANGED <<state, active, answers, queueVars, steerVars, turn, held, others,
                      compactionVars>>

(* drain() and clear(): every prompt that waits, then the active one.       *)
Drain ==
    /\ pending # <<>>
    /\ pending' = <<>>
    /\ Answer(Queued(pending), "cancelled")
    /\ CancelTurn(active)
    /\ KeepLaunch
    /\ UNCHANGED <<active, steerVars, turn, held, others, compactionVars>>

-----------------------------------------------------------------------------
(* The loop.                                                                *)

(* inject(), retry() and notifications start a turn on an idle loop.        *)
OtherTurn ==
    /\ ~ Quiet /\ turn = None /\ others < MaxOtherTurns
    /\ turn' = Other /\ others' = others + 1
    /\ UNCHANGED <<state, active, answers, queueVars, steerVars, turnQueue, held, result,
                   compactionVars>>

TurnEnds(as) ==
    /\ turn # None
    /\ result' = IF turn = Other THEN result ELSE [result EXCEPT ![turn] = as]
    /\ \/ turnQueue = <<>> /\ turn' = None /\ UNCHANGED turnQueue
       \/ turnQueue # <<>> /\ turn' = Head(turnQueue) /\ turnQueue' = Tail(turnQueue)
    /\ UNCHANGED <<state, active, answers, queueVars, steerVars, held, others,
                   compactionVars>>

(* releaseQuiescence: no turn is active, so the steers that were held are   *)
(* refused; they came before the prompt that was held, if there is one.     *)
Release ==
    /\ turn' = held /\ held' = None
    /\ steers' = steers \ heldSteers /\ heldSteers' = {}
    /\ lost' = lost \cup UNION heldSteers
    /\ UNCHANGED <<steered, turnQueue, result, others>>

-----------------------------------------------------------------------------
(* Full compaction (agent/fullCompaction/fullCompactionService.ts).         *)

(* A manual one needs an idle loop, an automatic one is begun by a turn     *)
(* and need not end with it.                                                *)
BeginCompaction(source) ==
    /\ compacting = "none" /\ source \notin finishing
    /\ compactions < MaxCompactions
    /\ \/ source = "manual" /\ ~ Quiet /\ turn = None
       \/ source = "auto" /\ turn # None
    /\ compacting' = source /\ compactions' = compactions + 1
    /\ UNCHANGED <<state, active, answers, queueVars, steerVars, loopVars, finishing>>

(* Seeded fault: the prompts are not told.                                  *)
WorkerEndsSilently(source, compaction) ==
    /\ UNCHANGED queueVars
    /\ \/ source = "manual" /\ Release
       \/ source = "auto" /\ UNCHANGED <<steerVars, loopVars>>

(* The worker's finally clause: the prompts are told, the lease returned.   *)
WorkerEnds(source, compaction) ==
    /\ MaybeStartNext(pending, compaction)
    /\ \/ source = "manual" /\ Release
       \/ source = "auto" /\ UNCHANGED <<steerVars, loopVars>>

CompactionCompletes ==
    /\ compacting # "none"
    /\ compacting' = "none"
    /\ WorkerEnds(compacting, "none")
    /\ UNCHANGED <<state, active, answers, finishing, compactions>>

(* Cancelled, it is over for everybody else before its worker returns.      *)
CompactionCancelled ==
    /\ compacting # "none"
    /\ compacting' = "none" /\ finishing' = finishing \cup {compacting}
    /\ UNCHANGED <<state, active, answers, queueVars, steerVars, loopVars, compactions>>

CancelledWorkerEnds(source) ==
    /\ source \in finishing
    /\ finishing' = finishing \ {source}
    /\ WorkerEnds(source, compacting)
    /\ UNCHANGED <<state, active, answers, compacting, compactions>>

-----------------------------------------------------------------------------
Outcomes == {"completed", "failed", "cancelled"}
Sources == {"manual", "auto"}

Calls ==
    \/ \E p \in Prompts : Enqueue(p) \/ Abort(p) \/ CancelQueuedTurn(p)
    \/ \E ps \in SUBSET Prompts : Steer(ps)
    \/ Drain

Launching == HooksPass \/ Launched \/ \E as \in {"blocked", "failed"} : NotLaunched(as)

Compaction ==
    \/ CompactionCompletes \/ CompactionCancelled
    \/ \E source \in Sources : CancelledWorkerEnds(source)

Idle ==
    /\ active = None /\ launching = None /\ pending = <<>> /\ steers = {}
    /\ turn = None /\ compacting = "none" /\ finishing = {}
    /\ \A p \in Prompts : state[p] # "new"

(* After the overflow nothing is said.                                      *)
Next ==
    \/ /\ ~ exhausted
       /\ \/ Calls \/ Launching \/ Settle
          \/ \E ps \in SUBSET Prompts : Steered(ps)
          \/ OtherTurn
          \/ \E as \in Outcomes : TurnEnds(as)
          \/ \E source \in Sources : BeginCompaction(source)
          \/ Compaction
    \/ (exhausted \/ Idle) /\ UNCHANGED vars

(* Hooks and requests return, turns and compactions end (AgentLoop shows    *)
(* the turns to), promises wake their callers.                              *)
Fairness ==
    /\ WF_vars(~ exhausted /\ Launching)
    /\ WF_vars(~ exhausted /\ Settle)
    /\ \A ps \in SUBSET Prompts : WF_vars(~ exhausted /\ Steered(ps))
    /\ WF_vars(~ exhausted /\ \E as \in Outcomes : TurnEnds(as))
    /\ WF_vars(~ exhausted /\ (CompactionCompletes \/ CompactionCancelled))
    /\ \A source \in Sources : WF_vars(~ exhausted /\ CancelledWorkerEnds(source))

Spec == Init /\ [][Next]_vars /\ Fairness

-----------------------------------------------------------------------------
(* The variables hold what their comments say.                              *)
TypeOK ==
    /\ state \in [Prompts -> {"new", "pending", "running", "steered", "blocked",
                             "failed", "cancelled", "completed"}]
    /\ pending \in Seq(Prompts)
    /\ active \in Prompts \cup {None} /\ launching \in Prompts \cup {None}
    /\ launch \in {"idle", "hooks", "assigning"}
    /\ launch = "idle" <=> launching = None
    /\ steers \subseteq SUBSET Prompts /\ heldSteers \subseteq steers
    /\ steered \in [Prompts -> SUBSET Prompts]
    /\ answers \in [Prompts -> Nat]
    /\ exhausted \in BOOLEAN /\ lost \subseteq Prompts
    /\ turn \in Prompts \cup {Other, None} /\ turnQueue \in Seq(Prompts)
    /\ held \in Prompts \cup {None}
    /\ result \in [Prompts -> {"none"} \cup Outcomes]
    /\ compacting \in {"none"} \cup Sources /\ finishing \subseteq Sources
    /\ others \in 0..MaxOtherTurns /\ compactions \in 0..MaxCompactions

(* Where a prompt can be.                                                   *)
Places ==
    <<{p \in Prompts : state[p] = "new"}, Queued(pending), {launching} \ {None},
      {active} \ {None}, UNION steers, UNION {steered[q] : q \in Prompts},
      {p \in Prompts : answers[p] = 1}, lost>>

(* A prompt that was submitted is in one place until it is answered, once,  *)
(* and in none afterwards, whatever shift, put-back, steering, abort and    *)
(* drain do around the awaits; only a call of steer() that throws loses     *)
(* some.  What is steered goes with the active prompt, not with one before. *)
InOnePlace ==
    /\ Distinct(pending)
    /\ \A ps, qs \in steers : ps = qs \/ ps \cap qs = {}
    /\ \A p \in Prompts : \E i \in DOMAIN Places : p \in Places[i]
    /\ \A i, j \in DOMAIN Places : i # j => Places[i] \cap Places[j] = {}
    /\ \A p \in Prompts : answers[p] <= 1
    /\ \A q \in Prompts : steered[q] # {} => q = active

(* When prompts wait and none is active or being launched, a compaction is  *)
(* there whose end starts them: no path forgets to call startNext().        *)
ParkedHasWakeup ==
    (pending # <<>> /\ active = None /\ launching = None /\ ~ exhausted)
        => compacting # "none" \/ finishing # {}

(* Every prompt is answered, those that a compaction holds back, that wait  *)
(* for quiescence and that are steered included, unless its steer() throws  *)
(* or startNext() overflows the stack.                                      *)
PromptsAreAnswered ==
    \A p \in Prompts :
        state[p] # "new" ~> (answers[p] = 1 \/ p \in lost \/ exhausted)

=============================================================================
