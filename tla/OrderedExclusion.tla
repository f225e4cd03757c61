-------------------------- MODULE OrderedExclusion --------------------------
(***************************************************************************)
(* What running a batch of tool calls promises, with no queue in sight: a  *)
(* call starts once, and only after every earlier call it conflicts with   *)
(* has finished; every call that is handed in is eventually run.           *)
(***************************************************************************)
EXTENDS Naturals

CONSTANT N

VARIABLES
    conflicts,  \* pairs of calls that must not overlap, chosen once
    offered,    \* calls handed in so far: 1..offered
    started,
    finished

vars == <<conflicts, offered, started, finished>>

Calls == 1..N

(* Calls that must be over before t may start. *)
Before(t) == {u \in 1..(t - 1) : <<t, u>> \in conflicts}

Init ==
    /\ conflicts \in SUBSET (Calls \X Calls)
    /\ \A t, u \in Calls : <<t, u>> \in conflicts => <<u, t>> \in conflicts
    /\ offered = 0
    /\ started = {}
    /\ finished = {}

(* One call may be handed in, one started call may finish, and any calls    *)
(* whose turn that makes it start in the same step.                         *)
Next ==
    /\ UNCHANGED conflicts
    /\ offered' \in {offered, offered + 1} /\ offered' <= N
    /\ \E F \in SUBSET (started \ finished) : finished' = finished \cup F
    /\ \E S \in SUBSET ((1..offered') \ started) :
          /\ started' = started \cup S
          /\ \A t \in S : Before(t) \subseteq finished'

Spec == Init /\ [][Next]_vars
=============================================================================
