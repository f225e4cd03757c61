------------------------- MODULE ContextProjection -------------------------
(* What a request to the model shows of a history: projection.ts.          *)
(*                                                                         *)
(* Calls have ids of their own (toolCallIdNormalizer.ts renames repeated   *)
(* ones before they are recorded), so the code's handling of a call id     *)
(* that is declared twice does not show here.  Merging neighbouring user   *)
(* messages into one changes no question asked of a request, and is left   *)
(* out.                                                                    *)
EXTENDS ContextFold

(* Messages of a step that is still open are not shown.                    *)
Visible(history) == Kept(history, {m \in ToSet(history) : ~ m.partial})

(* sliceLayout: a slice without assistant message is taken to be measured, *)
(* not sent, and keeps its results.                                        *)
Sizing(history) ==
    \A i \in DOMAIN Visible(history) : Visible(history)[i].role # "assistant"

(* Seeded fault: only results that directly follow the message are found.  *)
ResultOfAdjacent(visible, owner, call) ==
    LET found == {i \in DOMAIN visible :
                    /\ \A j \in (owner + 1)..i : IsToolResult(visible[j])
                    /\ i > owner /\ visible[i].id = call}
    IN  IF found = {} THEN Message("interrupted", call)
        ELSE visible[CHOOSE i \in found : \A j \in found : i <= j]

(* The first recorded result of a call after the message that declares it. *)
ResultOf(visible, owner, call) ==
    LET found == {i \in DOMAIN visible :
                    i > owner /\ IsToolResult(visible[i]) /\ visible[i].id = call}
    IN  IF found = {} THEN Message("interrupted", call)
        ELSE visible[CHOOSE i \in found : \A j \in found : i <= j]

(* pairBlocks and flattenBlocks: each assistant message is followed by the *)
(* results of its calls in the order of the calls, made up where none was  *)
(* recorded; results that belong to no shown call are dropped.             *)
Project(history) ==
    LET visible == Visible(history)
        block(i) ==
            LET m == visible[i] IN
            IF IsToolResult(m) THEN IF Sizing(history) THEN <<m>> ELSE <<>>
            ELSE IF Vacuous(m) THEN <<>>
            ELSE <<m>> \o [k \in DOMAIN m.calls |-> ResultOf(visible, i, m.calls[k])]
    IN  FlattenSeq([i \in DOMAIN visible |-> block(i)])

(* What a provider demands of a request: a result directly follows the     *)
(* message that declares its call, and every call has its result.          *)
WireValid(request) ==
    /\ \A i \in DOMAIN request : IsToolResult(request[i]) =>
          \E j \in 1..(i - 1) :
              /\ i - j \in DOMAIN request[j].calls
              /\ request[j].calls[i - j] = request[i].id
    /\ \A j \in DOMAIN request : \A k \in DOMAIN request[j].calls :
          /\ j + k \in DOMAIN request
          /\ IsToolResult(request[j + k])
          /\ request[j + k].id = request[j].calls[k]
=============================================================================
