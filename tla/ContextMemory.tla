---------------------------- MODULE ContextMemory ----------------------------
(* The conversation of one agent and everything that rewrites it: the turns  *)
(* of the loop, reminders, steering, compaction, undo, clear, and a process  *)
(* that is restarted.                                                        *)
(*                                                                           *)
(* The fold is replayed from the journal after a restart; beside it the      *)
(* dispatcher keeps a checkpoint of the other undoable states (the todo      *)
(* list, plan mode, the tasks) for every prompt that starts a turn.          *)
EXTENDS ContextProjection

CONSTANTS
    MaxPrompts, MaxNotes, MaxSteps, MaxCalls, MaxCompactions,
                  \* bounds on what one behaviour can bring
    Failures,     \* what may go wrong, of "listener" (a tool listener
                  \* throws), "crash", "rehydrated" (a restart that loads
                  \* media back into the history)
    None

ASSUME ContextAssumption ==
    /\ {MaxPrompts, MaxNotes, MaxSteps, MaxCalls, MaxCompactions} \subseteq Nat
    /\ Failures \subseteq {"listener", "crash", "rehydrated"}

VARIABLES
    fold,         \* the context: history, open calls, parked messages
    checkpoints,  \* the turn prompts at which the other states were marked
    phase,        \* where the loop is in its turn and step
    prompted,     \* the last turn begun is that of a queued prompt
    todo,         \* calls of the response that are not announced yet
    unanswered,   \* announced calls whose tool has not reported yet
    compaction,   \* the compaction under way
    made,         \* how many of each kind there have been
    prompts,      \* user input accepted and neither undone nor cleared
    answered,     \* calls whose result was recorded and not undone
    cleared,      \* a clear has taken the message of the open step away
    stray         \* calls announced after that

stepVars == <<phase, prompted, todo, unanswered>>
ghostVars == <<prompts, answered, cleared, stray>>
vars == <<fold, checkpoints, stepVars, compaction, made, ghostVars>>

Init ==
    /\ fold = EmptyFold /\ checkpoints = <<>>
    /\ phase = "idle" /\ prompted = FALSE /\ todo = 0 /\ unanswered = {}
    /\ compaction = None
    /\ made = [prompt |-> 0, note |-> 0, step |-> 0, call |-> 0, compaction |-> 0]
    /\ prompts = {} /\ answered = {} /\ cleared = FALSE /\ stray = {}

(* The ids of the messages of a kind.                                       *)
Ids(s, Test(_)) == {m.id : m \in {x \in ToSet(s) : Test(x)}}

Count(kind) == made' = [made EXCEPT ![kind] = @ + 1]

(* What the dispatcher does for each undoable state beside the context.      *)
Checkpoint(prompt) == checkpoints' = Append(checkpoints, prompt)
ClearCheckpoints == checkpoints' = <<>>
UndoToCheckpoint(n) ==
    /\ Len(checkpoints) >= n
    /\ checkpoints' = SubSeq(checkpoints, 1, Len(checkpoints) - n)

(* A manual compaction holds quiescence, so that no turn begins under it.    *)
Quiescent == phase = "idle" /\ (compaction # None => ~ compaction.manual)

(* The turn waits in the hook before its step for the compaction it began.   *)
Blocked == compaction # None /\ compaction.blocking

-----------------------------------------------------------------------------
(* A turn begins: its prompt enters the context and marks a checkpoint, also *)
(* when it is parked.                                                        *)
StartTurn ==
    /\ Quiescent /\ made.prompt < MaxPrompts
    /\ Count("prompt")
    /\ fold' = AppendMessage(fold, Message("user", made'.prompt))
    /\ Checkpoint(made'.prompt)
    /\ prompts' = prompts \cup {made'.prompt}
    /\ phase' = "between" /\ prompted' = TRUE
    /\ UNCHANGED <<todo, unanswered, compaction, answered, cleared, stray>>

(* A hook blocks a prompt: it enters the context, and no turn follows.  The  *)
(* prompt service lets no other prompt get that far during a prompt's turn.  *)
BlockPrompt ==
    /\ phase = "idle" \/ ~ prompted
    /\ made.prompt < MaxPrompts
    /\ Count("prompt")
    /\ fold' = AppendMessage(fold, Message("user", made'.prompt))
    /\ Checkpoint(made'.prompt)
    /\ prompts' = prompts \cup {made'.prompt}
    /\ UNCHANGED <<stepVars, compaction, answered, cleared, stray>>

(* A turn without a prompt of its own: a retry, or one for a notification.   *)
Resume ==
    /\ Quiescent /\ fold.history # <<>>
    /\ phase' = "between" /\ prompted' = FALSE
    /\ UNCHANGED <<fold, checkpoints, todo, unanswered, compaction, made, ghostVars>>

(* The user steers the running turn; the message enters with the next step.  *)
Steer ==
    /\ phase = "between" /\ ~ Blocked /\ made.prompt < MaxPrompts
    /\ Count("prompt")
    /\ fold' = AppendMessage(fold, Message("steer", made'.prompt))
    /\ prompts' = prompts \cup {made'.prompt}
    /\ UNCHANGED <<checkpoints, stepVars, compaction, answered, cleared, stray>>

(* Any service may inject a reminder at any time.                            *)
Remind ==
    /\ made.note < MaxNotes
    /\ Count("note")
    /\ fold' = AppendMessage(fold, Message("note", made'.note))
    /\ UNCHANGED <<checkpoints, stepVars, compaction, ghostVars>>

BeginStep ==
    /\ phase = "between" /\ ~ Blocked /\ made.step < MaxSteps
    /\ Count("step")
    /\ fold' = StepBegin(fold, made'.step)
    /\ phase' = "requesting" /\ cleared' = FALSE
    /\ UNCHANGED <<checkpoints, prompted, todo, unanswered, compaction, prompts, answered, stray>>

(* The request fails.  An aborted turn keeps what was streamed; a retry      *)
(* opens a new step; otherwise the turn fails.                               *)
RequestFails ==
    /\ phase = "requesting"
    /\ \/ phase' \in {"between", "idle"} /\ UNCHANGED fold
       \/ phase' = "idle" /\ fold' = ContentPart(fold)
    /\ UNCHANGED <<checkpoints, prompted, todo, unanswered, compaction, made, ghostVars>>

Respond ==
    /\ phase = "requesting"
    /\ \E calls \in 0..(MaxCalls - made.call) : todo' = calls
    /\ \/ fold' = ContentPart(fold)
       \/ UNCHANGED fold
    /\ phase' = "calling"
    /\ UNCHANGED <<checkpoints, prompted, unanswered, compaction, made, ghostVars>>

(* onToolCall: the executor announces the calls one by one as it prepares    *)
(* them.                                                                     *)
Announce ==
    /\ phase = "calling" /\ todo > 0
    /\ Count("call")
    /\ todo' = todo - 1
    /\ fold' = ToolCall(fold, made'.call)
    /\ unanswered' = unanswered \cup {made'.call}
    /\ stray' = IF cleared THEN stray \cup {made'.call} ELSE stray
    /\ UNCHANGED <<checkpoints, prompted, phase, compaction, prompts, answered, cleared>>

(* A listener throws while a call is prepared: nothing is run, no result     *)
(* comes for what was announced, and the turn fails, or goes on if the step  *)
(* was cancelled meanwhile.                                                  *)
PrepareFails ==
    /\ "listener" \in Failures
    /\ phase = "calling" /\ unanswered # {}
    /\ phase' \in {"idle", "between"} /\ todo' = 0 /\ unanswered' = {}
    /\ UNCHANGED <<fold, checkpoints, prompted, compaction, made, ghostVars>>

Result(call) ==
    /\ phase = "calling" /\ todo = 0
    /\ unanswered' = unanswered \ {call}
    /\ fold' = ToolResult(fold, call)
    /\ answered' = answered \cup {call}
    /\ UNCHANGED <<checkpoints, prompted, phase, todo, compaction, made, prompts, cleared, stray>>

StepDone == phase = "calling" /\ todo = 0 /\ unanswered = {}

EndStep ==
    /\ StepDone
    /\ fold' = StepEnd(fold)
    /\ phase' = "between"
    /\ UNCHANGED <<checkpoints, prompted, todo, unanswered, compaction, made, ghostVars>>

(* The turn or the step was aborted while the tools ran: they still report,  *)
(* but the step has no end.                                                  *)
AbandonStep ==
    /\ StepDone
    /\ phase' \in {"idle", "between"}
    /\ UNCHANGED <<fold, checkpoints, prompted, todo, unanswered, compaction, made, ghostVars>>

(* There is no more to do, or a hook between the steps failed.               *)
EndTurn ==
    /\ phase = "between" /\ ~ Blocked
    /\ phase' = "idle"
    /\ UNCHANGED <<fold, checkpoints, prompted, todo, unanswered, compaction, made, ghostVars>>

-----------------------------------------------------------------------------
(* The user asks for a compaction between turns, or the loop begins one      *)
(* between steps, or after a request that overflowed, and may wait for it.   *)
BeginCompaction ==
    /\ compaction = None /\ fold.history # <<>>
    /\ made.compaction < MaxCompactions
    /\ Count("compaction")
    /\ \/ /\ phase = "idle"
          /\ compaction' = [manual |-> TRUE, blocking |-> FALSE, original |-> fold.history]
          /\ UNCHANGED phase
       \/ /\ phase = "between"
          /\ \E wait \in BOOLEAN :
                compaction' = [manual |-> FALSE, blocking |-> wait, original |-> fold.history]
          /\ UNCHANGED phase
       \/ /\ phase = "requesting"
          /\ compaction' = [manual |-> FALSE, blocking |-> TRUE, original |-> fold.history]
          /\ phase' = "between"
    /\ UNCHANGED <<fold, checkpoints, prompted, todo, unanswered, ghostVars>>

(* A turn comes to wait for the compaction that is under way.                *)
Wait ==
    /\ phase \in {"between", "requesting"}
    /\ compaction # None /\ ~ compaction.blocking
    /\ compaction' = [compaction EXCEPT !.blocking = TRUE]
    /\ phase' = "between"
    /\ UNCHANGED <<fold, checkpoints, prompted, todo, unanswered, made, ghostVars>>

(* The summary has arrived: it is applied if it still fits, dropped if not.  *)
(* The whole history is replaced, though the model that wrote the summary    *)
(* was shown no more of it than fits: what was dropped for that is local to  *)
(* the round, and no state.                                                  *)
FinishCompaction ==
    /\ compaction # None
    /\ HistorySafeToCompact(fold.history, compaction.original)
    /\ fold' = ApplyCompaction(fold, made.compaction)
    /\ ClearCheckpoints
    /\ compaction' = None
    /\ UNCHANGED <<stepVars, made, ghostVars>>

(* Cancelled, failed, or out of date.  A turn that waited ends, or goes on   *)
(* with another step if only its step was cancelled or the error is one that *)
(* is retried.                                                               *)
CancelCompaction ==
    /\ compaction # None
    /\ compaction' = None
    /\ phase' \in IF compaction.blocking THEN {"idle", "between"} ELSE {phase}
    /\ UNCHANGED <<fold, checkpoints, prompted, todo, unanswered, made, ghostVars>>

(* The user takes the last n turns back.                                     *)
UndoTurns(n) ==
    /\ phase = "idle" /\ compaction = None
    /\ UndoCut(fold.history, n) # 0
    /\ LET first == fold.history[UndoCut(fold.history, n)].id
       IN  prompts' = {p \in prompts : p < first}
    /\ fold' = Undo(fold, n)
    /\ UndoToCheckpoint(n)
    /\ answered' = answered \cap Ids(fold'.history, IsToolResult)
    /\ UNCHANGED <<stepVars, compaction, made, cleared, stray>>

(* At any time: clear() aborts the turn of the active prompt, but does not   *)
(* wait for it, nor for a turn that is not a prompt's.  What is left of an   *)
(* open step folds into the empty history.                                   *)
ClearContext ==
    /\ fold.history # <<>>
    /\ fold' = Clear(fold)
    /\ ClearCheckpoints
    /\ prompts' = {}
    /\ cleared' = (cleared \/ phase \in {"requesting", "calling"})
    /\ UNCHANGED <<stepVars, compaction, made, answered, stray>>

(* The process dies and the journal is replayed.  Replaying binds the fold's *)
(* state to the array it builds; when media are loaded back afterwards a new *)
(* array takes its place and that state is lost.                             *)
Restart ==
    /\ phase' = "idle" /\ todo' = 0 /\ unanswered' = {} /\ compaction' = None
    /\ \/ "crash" \in Failures /\ UNCHANGED fold
       \/ "rehydrated" \in Failures /\ fold' = Fold(fold.history)
    /\ UNCHANGED <<checkpoints, prompted, made, ghostVars>>

Next ==
    \/ StartTurn \/ BlockPrompt \/ Resume \/ Steer \/ Remind
    \/ BeginStep \/ RequestFails \/ Respond \/ Announce \/ PrepareFails
    \/ \E call \in unanswered : Result(call)
    \/ EndStep \/ AbandonStep \/ EndTurn
    \/ BeginCompaction \/ Wait \/ FinishCompaction \/ CancelCompaction
    \/ \E n \in 1..MaxPrompts : UndoTurns(n)
    \/ ClearContext \/ Restart

Spec == Init /\ [][Next]_vars

-----------------------------------------------------------------------------
Roles == {"user", "steer", "note", "assistant", "tool", "interrupted", "summary"}
Messages == [role : Roles, id : Nat, calls : Seq(1..MaxCalls), text : BOOLEAN, partial : BOOLEAN]

TypeOK ==
    /\ fold.history \in Seq(Messages) /\ fold.deferred \in Seq(Messages)
    /\ fold.pending \in Seq(1..MaxCalls)
    /\ checkpoints \in Seq(1..MaxPrompts)
    /\ phase \in {"idle", "between", "requesting", "calling"}
    /\ prompted \in BOOLEAN /\ todo \in 0..MaxCalls /\ unanswered \subseteq 1..MaxCalls
    /\ compaction = None \/ compaction.original \in Seq(Messages)
    /\ prompts \subseteq 1..MaxPrompts /\ answered \subseteq 1..MaxCalls
    /\ cleared \in BOOLEAN /\ stray \subseteq 1..MaxCalls
    /\ Cardinality({i \in DOMAIN fold.history : fold.history[i].partial}) <= 1

(* A request that shows no assistant message, and no result but of calls     *)
(* announced after a clear took the message that was to declare them.        *)
Stranded(request) ==
    \A i \in DOMAIN request :
        /\ request[i].role # "assistant"
        /\ IsToolResult(request[i]) => request[i].id \in stray

(* Whatever interrupted earlier steps, the request of a step is one a        *)
(* provider accepts, and no recorded result is replaced by a made-up one.    *)
(* A clear is the one exception: if it hits an open step, results of that    *)
(* step are sent without their calls, until an assistant message follows.    *)
RequestsAreFaithful ==
    phase = "requesting" =>
        LET request == Project(fold.history)
        IN  /\ WireValid(request) \/ Stranded(request)
            /\ \A i \in DOMAIN request :
                  request[i].role = "interrupted" => request[i].id \notin answered

(* A message is parked only behind a call that is still open.  A call that   *)
(* is open has no result in the history, and is declared by the open         *)
(* assistant message, unless a clear took that message before the call was   *)
(* announced.                                                                *)
ParkedBehindOpenCalls ==
    /\ fold.deferred # <<>> => fold.pending # <<>>
    /\ \A k \in DOMAIN fold.pending :
          LET call == fold.pending[k] IN
          /\ call \notin Ids(fold.history, IsToolResult)
          /\ \/ call \in stray
             \/ /\ OpenAssistant(fold.history) # 0
                /\ call \in ToSet(fold.history[OpenAssistant(fold.history)].calls)

(* A request shows all the user has said and not taken back: a compaction,   *)
(* an interruption or a reminder never costs the user's words.               *)
RequestsShowPrompts ==
    phase = "requesting" =>
        prompts \subseteq Ids(Project(fold.history),
                             LAMBDA m : m.role \in {"user", "steer"})

(* What a compaction removes, parked messages included, was there when it    *)
(* began and is not the user's: nothing that came in while the summary was   *)
(* being written is lost.  That the summary covers it is not said: what does *)
(* not fit is not shown to the model that writes it.                         *)
OnlyOldIsCompacted ==
    [][FinishCompaction =>
          ToSet(fold.history \o fold.deferred) \ ToSet(fold'.history)
              \subseteq {m \in ToSet(compaction.original) : ~ IsRealUserInput(m)}]_vars

(* Undo takes the context and the other undoable states back to the same     *)
(* moment, the one before the first prompt it removes.                       *)
UndoRestoresPreTurn ==
    [][\A n \in 1..MaxPrompts : UndoTurns(n) =>
          checkpoints[Len(checkpoints) - n + 1]
              = fold.history[UndoCut(fold.history, n)].id]_vars
=============================================================================
