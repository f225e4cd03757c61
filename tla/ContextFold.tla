---------------------------- MODULE ContextFold ----------------------------
(* The fold that turns the events of a conversation into the messages the  *)
(* model is shown: loopEventFold.ts and the reducers of contextOps.ts.     *)
(*                                                                         *)
(* A message keeps what the fold and the projector tell apart: who wrote   *)
(* it, the calls an assistant message declares, whether it has any text    *)
(* and whether its step is still open.  A fold is the history together     *)
(* with the state kept beside it: the calls without result, and the        *)
(* messages parked until those calls are answered.                         *)
EXTENDS Naturals, Sequences, FiniteSets, SequencesExt, Queue

(* role: user (starts a turn), steer (user input inside a turn), note (an  *)
(* injected reminder), assistant, tool (a result), interrupted (the result *)
(* made up for a call that got none), summary (of a compaction).           *)
Message(role, id) ==
    [role |-> role, id |-> id, calls |-> <<>>, text |-> TRUE, partial |-> FALSE]

IsToolResult(m) == m.role \in {"tool", "interrupted"}
IsUndoAnchor(m) == m.role = "user"

(* Seeded fault: only the prompts that begin a turn are the user's words.  *)
IsRealUserInputOfTurn(m) == m.role = "user"

IsRealUserInput(m) == m.role \in {"user", "steer"}

(* An assistant message that was never given text or a call.               *)
Vacuous(m) == m.role = "assistant" /\ ~ m.text /\ m.calls = <<>>

Fold(history) == [history |-> history, pending |-> <<>>, deferred |-> <<>>]

EmptyFold == Fold(<<>>)

OpenAssistant(history) == SelectLastInSeq(history, LAMBDA m : m.partial)

FlushDeferred(f) ==
    IF f.pending # <<>> THEN f
    ELSE [f EXCEPT !.history = @ \o f.deferred, !.deferred = <<>>]

(* Every open call is answered by an interrupted result.                   *)
ClosePending(f) ==
    IF f.pending = <<>> THEN f
    ELSE FlushDeferred([f EXCEPT
            !.history = @ \o [i \in DOMAIN f.pending |-> Message("interrupted", f.pending[i])],
            !.pending = <<>>])

(* The open assistant message is closed, or dropped when it is empty.      *)
SettleOpenStep(f) ==
    LET g == ClosePending(f)
        i == OpenAssistant(g.history)
    IN  IF i = 0 THEN g
        ELSE IF Vacuous(g.history[i])
        THEN [g EXCEPT !.history = RemoveAt(@, i)]
        ELSE [g EXCEPT !.history[i].partial = FALSE]

AppendMessage(f, m) ==
    IF f.pending # <<>>
    THEN [f EXCEPT !.deferred = Append(@, m)]
    ELSE [f EXCEPT !.history = Append(@, m)]

(* Seeded fault: a step begins without settling the one left open.         *)
StepBeginUnsettled(f, step) ==
    [ClosePending(f) EXCEPT !.history =
        Append(@, [Message("assistant", step) EXCEPT !.text = FALSE, !.partial = TRUE])]

StepBegin(f, step) ==
    [SettleOpenStep(f) EXCEPT !.history =
        Append(@, [Message("assistant", step) EXCEPT !.text = FALSE, !.partial = TRUE])]

StepEnd(f) == FlushDeferred(SettleOpenStep(f))

ContentPart(f) ==
    LET i == OpenAssistant(f.history)
    IN  IF i = 0 THEN f ELSE [f EXCEPT !.history[i].text = TRUE]

(* The call is pending even if no assistant message is open to show it.    *)
ToolCall(f, call) ==
    LET i == OpenAssistant(f.history)
        g == [f EXCEPT !.pending = Append(@, call)]
    IN  IF i = 0 THEN g ELSE [g EXCEPT !.history[i].calls = Append(@, call)]

(* A result whose call is not open is ignored.                             *)
ToolResult(f, call) ==
    IF call \notin ToSet(f.pending) THEN f
    ELSE FlushDeferred([f EXCEPT !.history = Append(@, Message("tool", call)),
                                 !.pending = Kept(@, ToSet(@) \ {call})])

-----------------------------------------------------------------------------
(* The rewrites.  Each starts a fresh fold: what was pending or parked is  *)
(* forgotten.                                                              *)

(* The user's words are kept, and the summary stands for everything else.  *)
ApplyCompaction(f, summary) ==
    LET words == {m \in ToSet(f.history) : IsRealUserInput(m)}
    IN  Fold(Append(Kept(f.history, words), Message("summary", summary)))

(* Seeded fault: the history is cleared and what belongs to it is kept.    *)
ClearHistoryOnly(f) == [f EXCEPT !.history = <<>>]

Clear(f) == IF f.history = <<>> THEN f ELSE EmptyFold

(* Seeded fault: input inside a turn counts as a turn of its own.          *)
UndoAnchorsOfInput(history) ==
    {i \in DOMAIN history :
        /\ IsRealUserInput(history[i])
        /\ \A j \in i..Len(history) : history[j].role # "summary"}

(* The turns undo can reach: those after the last summary.                 *)
UndoAnchors(history) ==
    {i \in DOMAIN history :
        /\ IsUndoAnchor(history[i])
        /\ \A j \in i..Len(history) : history[j].role # "summary"}

(* computeUndoCut and isFullyUndoable: the place of the n-th anchor from   *)
(* the end, 0 when there are fewer.                                        *)
UndoCut(history, n) ==
    LET anchors == UndoAnchors(history)
    IN  IF Cardinality(anchors) < n THEN 0
        ELSE CHOOSE i \in anchors : Cardinality({j \in anchors : j >= i}) = n

Undo(f, n) ==
    LET cut == UndoCut(f.history, n)
    IN  IF cut = 0 THEN f ELSE Fold(SubSeq(f.history, 1, cut - 1))

(* Seeded fault: messages that came in while the summary was being written *)
(* do not matter.                                                          *)
HistorySafeToCompactPrefix(current, original) == IsPrefix(original, current)

(* A summary of original may replace current only if user input is all     *)
(* that came in meanwhile.                                                 *)
HistorySafeToCompact(current, original) ==
    /\ IsPrefix(original, current)
    /\ \A i \in (Len(original) + 1)..Len(current) : IsRealUserInput(current[i])
=============================================================================
