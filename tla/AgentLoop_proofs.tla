-------------------------- MODULE AgentLoop_proofs --------------------------
(* The promises of AgentLoop for any set of requests: a lease of quiescence *)
(* keeps turns away, no caller of settled() is forgotten, turns never       *)
(* overlap and start in the order of their ids, a request is where its      *)
(* receipt says until its turn is over, none enters the context once it is  *)
(* cancelled, and a turn keeps to its step limit.                           *)
EXTENDS AgentLoop, Queue_proofs, FiniteSetTheorems, SequenceTheorems, TLAPS

(* The part of the state the two promises rest on.  The active turn and its *)
(* run begin and end together; the held requests are admitted only after    *)
(* quiescence is over, and never by a disposed loop.                        *)
ControlInv ==
    /\ run = [pc |-> run.pc, current |-> run.current, steps |-> run.steps,
              retries |-> run.retries, outcome |-> run.outcome]
    /\ active \in Nat \cup {None}
    /\ pendingTurns \in Seq(Nat)
    /\ standalone \in Seq(Requests) /\ held \in Seq(Requests) /\ releasing \in Seq(Requests)
    /\ reserved \in Nat /\ nextTurnId \in Nat
    /\ active = None <=> run.pc = "none"
    /\ draining => ~ quiet /\ ~ disposing

IInv == ControlInv /\ QuiescenceExcludesTurns /\ NoLostWakeup

LEMMA InitInv == Init => IInv
BY DEF Init, IInv, ControlInv, QuiescenceExcludesTurns, NoLostWakeup, NoRun

-----------------------------------------------------------------------------
(* Taking one element out of a sequence leaves a sequence.                  *)
LEMMA RemoveAtLemma ==
    ASSUME NEW S, NEW s \in Seq(S), NEW i \in DOMAIN s
    PROVE  RemoveAt(s, i) \in Seq(S)
<1>1. SubSeq(s, 1, i - 1) \in Seq(S) /\ SubSeq(s, i + 1, Len(s)) \in Seq(S)
  OBVIOUS
<1> QED
  BY <1>1 DEF RemoveAt

LEMMA AppendLemma ==
    ASSUME NEW S, NEW s \in Seq(S), NEW x \in S
    PROVE  Append(s, x) \in Seq(S) /\ Append(s, x) # <<>>
<1>1. Len(Append(s, x)) = Len(s) + 1 /\ Len(s) \in Nat
  OBVIOUS
<1> QED
  BY <1>1

(* What pumpTurns does to the control state.                                *)
LEMMA PumpLemma ==
    ASSUME ControlInv, NEW pend \in Seq(Nat), NEW turns, NEW hold,
           PumpTurns(pend, turns, hold)
    PROVE  /\ run' = [pc |-> run.pc, current |-> run.current, steps |-> run.steps,
                      retries |-> run.retries, outcome |-> run.outcome]'
           /\ active' \in Nat \cup {None}
           /\ pendingTurns' \in Seq(Nat)
           /\ nextTurnId' \in Nat
           /\ active' = None <=> run'.pc = "none"
           /\ quiet' \/ disposing =>
                 active' = active /\ pendingTurns' = pend /\ waiting' = waiting
           /\ waiting' # {} /\ ~ quiet' /\ ~ disposing =>
                 ~ Idle(active', pendingTurns', hold)
<1>1. CASE disposing \/ quiet' \/ active # None
  BY <1>1 DEF PumpTurns, MayNotPump, ControlInv, Idle, clockVars
<1>2. CASE ~ (disposing \/ quiet' \/ active # None) /\ pend = <<>>
  BY <1>2 DEF PumpTurns, MayNotPump, ControlInv, Idle, clockVars, MaybeSettle
<1>3. CASE ~ (disposing \/ quiet' \/ active # None) /\ pend # <<>>
  <2>1. /\ Head(pend) \in Nat /\ Tail(pend) \in Seq(Nat)
        /\ active' = Head(pend) /\ pendingTurns' = Tail(pend)
        /\ run' = [NoRun EXCEPT !.pc = "begin"]
        /\ AdvanceTurnClock(nextTurnId + 1, cancelledTurnIds)
    BY <1>3 DEF PumpTurns, MayNotPump
  <2>2. Cardinality(Requests) \in Nat
    BY RequestsAssumption, FS_CardinalityType
  <2>3. nextTurnId' \in Nat
    BY <2>1, <2>2 DEF AdvanceTurnClock, ControlInv
  <2> QED
    BY <1>3, <2>1, <2>3, NoneAssumption DEF NoRun, Idle
<1> QED
  BY <1>1, <1>2, <1>3

(* admit() and its refusal, outside quiescence.                             *)
LEMMA AdmitLemma ==
    ASSUME IInv, NEW r \in Requests, ~ quiet, quiet' = quiet,
           disposing' = disposing, draining' = draining,
           Admit(r) \/ Refuse(r),
           held' = held, releasing' \in Seq(Requests)
    PROVE  IInv'
<1>1. QuiescenceExcludesTurns'
  BY DEF QuiescenceExcludesTurns
<1>2. CASE JoinActive(r) \/ WaitForNextTurn(r) \/ Refuse(r)
  <2>1. UNCHANGED <<run, active, pendingTurns, reserved, nextTurnId, waiting>>
    BY <1>2 DEF JoinActive, WaitForNextTurn, Refuse, turnVars, clockVars
  <2>2. standalone' \in Seq(Requests)
    <3>1. standalone' \in {standalone, Append(standalone, r)}
      BY <1>2 DEF JoinActive, WaitForNextTurn, Refuse
    <3> QED
      BY <3>1, AppendLemma DEF IInv, ControlInv
  <2> QED
    BY <1>1, <2>1, <2>2 DEF IInv, ControlInv, NoLostWakeup, Idle
<1>3. CASE CreateTurn(r)
  <2> DEFINE t == NewTurnId
             pend == Append(pendingTurns, t)
             turns == [turn EXCEPT ![t] = [state |-> "queued", request |-> r, aborted |-> FALSE]]
  <2>1. t \in Nat /\ pend \in Seq(Nat)
    BY DEF IInv, ControlInv, NewTurnId
  <2>2. reserved' = t + 1 /\ PumpTurns(pend, turns, held) /\ standalone' = <<>>
    BY <1>3 DEF CreateTurn
  <2>3. pend # <<>>
    BY <2>1, AppendLemma DEF IInv, ControlInv
  <2> HIDE DEF t, pend, turns
  <2>4. ControlInv'
    BY <2>1, <2>2, PumpLemma DEF IInv, ControlInv
  <2>5. NoLostWakeup'
    <3>1. CASE disposing
      BY <2>1, <2>2, <2>3, <3>1, PumpLemma DEF IInv, NoLostWakeup, Idle
    <3>2. CASE ~ disposing
      BY <2>1, <2>2, <3>2, PumpLemma DEF IInv, NoLostWakeup, Idle
    <3> QED
      BY <3>1, <3>2
  <2> QED
    BY <1>1, <2>4, <2>5 DEF IInv
<1> QED
  BY <1>2, <1>3 DEF Admit

LEMMA EnqueuePreserves == ASSUME NEW r \in Requests PROVE IInv /\ Enqueue(r) => IInv'
<1> SUFFICES ASSUME IInv, Enqueue(r) PROVE IInv'
  OBVIOUS
<1>1. CASE quiet
  <2>1. /\ Hold(r) /\ req[r] = "new" /\ req' = [req EXCEPT ![r] = "pending"]
        /\ UNCHANGED <<disposing, draining, quiet>>
    BY <1>1 DEF Enqueue
  <2>2. /\ held' = Append(held, r)
        /\ UNCHANGED <<standalone, run, active, pendingTurns, reserved, nextTurnId, waiting>>
    BY <2>1 DEF Hold, turnVars, clockVars
  <2>3. held' \in Seq(Requests) /\ held' # <<>>
    BY <2>2, AppendLemma DEF IInv, ControlInv
  <2>4. ~ HasPending(standalone)'
    BY <1>1, <2>1, <2>2 DEF IInv, QuiescenceExcludesTurns, HasPending, Live
  <2>5. ControlInv'
    BY <2>1, <2>2, <2>3 DEF Enqueue, IInv, ControlInv
  <2>6. QuiescenceExcludesTurns'
    BY <1>1, <2>1, <2>2, <2>4 DEF IInv, QuiescenceExcludesTurns
  <2>7. NoLostWakeup'
    BY <2>3 DEF NoLostWakeup, Idle
  <2> QED
    BY <2>5, <2>6, <2>7 DEF IInv
<1>2. CASE ~ quiet
  <2>1. releasing' = releasing /\ releasing \in Seq(Requests)
    BY DEF Enqueue, IInv, ControlInv
  <2> QED
    BY <1>2, <2>1, AdmitLemma DEF Enqueue
<1> QED
  BY <1>1, <1>2

-----------------------------------------------------------------------------
LEMMA AcquirePreserves == IInv /\ TryAcquireQuiescence => IInv'
BY DEF IInv, ControlInv, QuiescenceExcludesTurns, NoLostWakeup, TryAcquireQuiescence,
   Callable, HasPendingRequests, turnVars, clockVars, HasPending, Live, Idle

LEMMA ReleasePreserves == IInv /\ ReleaseQuiescence => IInv'
<1> SUFFICES ASSUME IInv, ReleaseQuiescence PROVE IInv'
  OBVIOUS
<1>1. /\ quiet /\ ~ quiet' /\ draining' = ~ disposing /\ disposing' = disposing
      /\ held' = IF disposing THEN held ELSE <<>>
      /\ PumpTurns(pendingTurns, turn, held) /\ UNCHANGED reserved
      /\ releasing' = IF disposing THEN <<>> ELSE held
      /\ UNCHANGED standalone
  BY DEF ReleaseQuiescence
<1>2. ControlInv'
  <2>1. held' \in Seq(Requests) /\ releasing' \in Seq(Requests)
    BY <1>1 DEF IInv, ControlInv
  <2>2. draining' => ~ quiet' /\ ~ disposing'
    BY <1>1
  <2>3. ControlInv /\ pendingTurns \in Seq(Nat) /\ reserved' \in Nat /\ standalone' \in Seq(Requests)
    BY <1>1 DEF IInv, ControlInv
  <2> QED
    BY <1>1, <2>1, <2>2, <2>3, PumpLemma DEF ControlInv
<1>3. NoLostWakeup'
  <2>1. CASE ~ disposing
    BY <1>1, <2>1 DEF NoLostWakeup
  <2>2. CASE disposing
    BY <1>1, <2>2, PumpLemma DEF IInv, ControlInv, NoLostWakeup
  <2> QED
    BY <2>1, <2>2
<1> QED
  BY <1>1, <1>2, <1>3 DEF IInv, QuiescenceExcludesTurns

LEMMA AdmitHeldPreserves == IInv /\ AdmitHeld => IInv'
<1> SUFFICES ASSUME IInv, AdmitHeld PROVE IInv'
  OBVIOUS
<1> DEFINE r == Head(releasing)
<1>1. /\ draining /\ ~ quiet /\ UNCHANGED <<held, draining, quiet, disposing>>
      /\ releasing \in Seq(Requests) /\ releasing # <<>> /\ releasing' = Tail(releasing)
  BY DEF AdmitHeld, IInv, ControlInv
<1>4. r \in Requests /\ releasing' \in Seq(Requests)
  BY <1>1
<1> HIDE DEF r
<1>2. CASE UNCHANGED <<req, assigned, step, standalone, turnVars, clockVars, run, waiting>>
  BY <1>1, <1>2, <1>4 DEF IInv, ControlInv, QuiescenceExcludesTurns, NoLostWakeup, turnVars,
     clockVars
<1>3. CASE Admit(r) \/ Refuse(r)
  BY <1>1, <1>3, <1>4, AdmitLemma
<1> QED
  BY <1>2, <1>3 DEF AdmitHeld, r

LEMMA PumpingPreserves == IInv /\ (ReleaseDone \/ PumpNext) => IInv'
<1> SUFFICES ASSUME IInv, ReleaseDone \/ PumpNext PROVE IInv'
  OBVIOUS
<1>1. /\ PumpTurns(pendingTurns, turn, held) 
      /\ UNCHANGED <<held, releasing, quiet, disposing, reserved, req, standalone>>
      /\ draining' => draining
      /\ draining /\ ~ draining' => ~ quiet /\ ~ disposing
  BY DEF ReleaseDone, PumpNext, admissionVars, IInv, ControlInv
<1>2. ControlInv'
  BY <1>1, PumpLemma DEF IInv, ControlInv
<1>3. QuiescenceExcludesTurns'
  BY <1>1, PumpLemma DEF IInv, ControlInv, QuiescenceExcludesTurns, HasPending, Live
<1>4. NoLostWakeup'
  <2>1. CASE quiet \/ disposing
    BY <1>1, <2>1, PumpLemma DEF IInv, ControlInv, NoLostWakeup
  <2>2. CASE ~ quiet /\ ~ disposing
    BY <1>1, <2>2, PumpLemma DEF IInv, ControlInv, NoLostWakeup
  <2> QED
    BY <2>1, <2>2
<1> QED
  BY <1>2, <1>3, <1>4 DEF IInv

-----------------------------------------------------------------------------
(* Cancellation.  It only aborts requests and takes things out of places.   *)
LEMMA CancelActiveTurnPreserves ==
    ASSUME NEW t \in TurnIds PROVE IInv /\ CancelActiveTurn(t) => IInv'
BY DEF IInv, ControlInv, QuiescenceExcludesTurns, NoLostWakeup, CancelActiveTurn,
   admissionVars, clockVars, HasPending, Live

LEMMA CancelQueuedTurnPreserves ==
    ASSUME NEW t \in TurnIds PROVE IInv /\ CancelQueuedTurn(t) => IInv'
<1> SUFFICES ASSUME IInv, CancelQueuedTurn(t) PROVE IInv'
  OBVIOUS
<1>1. PICK i \in DOMAIN pendingTurns :
          /\ pendingTurns' = RemoveAt(pendingTurns, i)
          /\ t < nextTurnId => UNCHANGED clockVars
          /\ ~ (t < nextTurnId) => AdvanceTurnClock(nextTurnId, cancelledTurnIds \cup {t})
          /\ MaybeSettle(active, pendingTurns', held)
          /\ UNCHANGED <<admissionVars, disposing, active, reserved, run>>
  BY DEF CancelQueuedTurn
<1>2. pendingTurns' \in Seq(Nat)
  BY <1>1, RemoveAtLemma DEF IInv, ControlInv
<1>3. nextTurnId' \in Nat
  <2>1. Cardinality(Requests) \in Nat
    BY RequestsAssumption, FS_CardinalityType
  <2> QED
    BY <1>1, <2>1 DEF AdvanceTurnClock, IInv, ControlInv, clockVars
<1>4. ~ quiet
  <2>1. pendingTurns # <<>>
    BY <1>1
  <2> QED
    BY <2>1 DEF IInv, QuiescenceExcludesTurns
<1>5. ControlInv'
  BY <1>1, <1>2, <1>3 DEF IInv, ControlInv, admissionVars
<1>6. QuiescenceExcludesTurns'
  BY <1>1, <1>4 DEF QuiescenceExcludesTurns, admissionVars
<1>7. NoLostWakeup'
  BY <1>1 DEF NoLostWakeup, MaybeSettle, Idle, admissionVars
<1> QED
  BY <1>5, <1>6, <1>7 DEF IInv

LEMMA CancelStepPreserves ==
    ASSUME NEW r \in Requests PROVE IInv /\ CancelStep(r) => IInv'
<1> SUFFICES ASSUME IInv, CancelStep(r) PROVE IInv'
  OBVIOUS
<1>1. /\ CancelSteps({r})
      /\ UNCHANGED <<admissionVars, disposing, turnVars, clockVars, run, waiting>>
  BY DEF CancelStep
<1>2. \A q \in Requests : req'[q] # req[q] => req'[q] = "aborted"
  BY <1>1 DEF CancelSteps
<1>3. ControlInv' /\ NoLostWakeup'
  BY <1>1 DEF IInv, ControlInv, NoLostWakeup, admissionVars, turnVars, clockVars
<1>4. HasPending(standalone)' => HasPending(standalone)
  <2>1. standalone' = standalone
    BY <1>1 DEF admissionVars
  <2>2. \A i \in DOMAIN standalone : standalone[i] \in Requests
    BY DEF IInv, ControlInv
  <2>3. \A i \in DOMAIN standalone : req'[standalone[i]] # "aborted" => req[standalone[i]] # "aborted"
    BY <1>2, <2>2
  <2> QED
    BY <2>1, <2>3 DEF HasPending, Live
<1> QED
  BY <1>1, <1>3, <1>4 DEF IInv, QuiescenceExcludesTurns, admissionVars, turnVars

LEMMA AbortRequestPreserves ==
    ASSUME NEW r \in Requests PROVE IInv /\ AbortRequest(r) => IInv'
<1> SUFFICES ASSUME IInv, AbortRequest(r) PROVE IInv'
  OBVIOUS
<1>1. /\ req' = [req EXCEPT ![r] = "aborted"]
      /\ UNCHANGED <<standalone, releasing, draining, quiet, disposing, active,
                     pendingTurns, reserved, nextTurnId, run>>
  BY DEF AbortRequest, turnVars, clockVars
<1>2. \/ \E i \in DOMAIN held : held' = RemoveAt(held, i) /\ MaybeSettle(active, pendingTurns, held')
      \/ UNCHANGED <<held, waiting>>
  BY DEF AbortRequest
<1>3. held' \in Seq(Requests)
  BY <1>2, RemoveAtLemma DEF IInv, ControlInv
<1>4. ControlInv'
  BY <1>1, <1>3 DEF IInv, ControlInv
<1>5. HasPending(standalone)' => HasPending(standalone)
  BY <1>1 DEF HasPending, Live, IInv, ControlInv
<1>6. QuiescenceExcludesTurns'
  BY <1>1, <1>5 DEF IInv, QuiescenceExcludesTurns
<1>7. NoLostWakeup'
  BY <1>1, <1>2 DEF IInv, NoLostWakeup, MaybeSettle, Idle
<1> QED
  BY <1>4, <1>6, <1>7 DEF IInv

LEMMA DisposePreserves == IInv /\ Dispose => IInv'
<1> SUFFICES ASSUME IInv, Dispose PROVE IInv'
  OBVIOUS
<1>1. /\ ~ draining /\ disposing'
      /\ standalone' = <<>> /\ held' = <<>> /\ pendingTurns' = <<>>
      /\ MaybeSettle(active, <<>>, <<>>)
      /\ UNCHANGED <<releasing, draining, quiet, active, reserved, run>>
      /\ \E S : AdvanceTurnClock(nextTurnId, S)
  BY DEF Dispose, Sync
<1>2. nextTurnId' \in Nat
  <2>1. Cardinality(Requests) \in Nat
    BY RequestsAssumption, FS_CardinalityType
  <2> QED
    BY <1>1, <2>1 DEF AdvanceTurnClock, IInv, ControlInv
<1>3. ControlInv'
  BY <1>1, <1>2 DEF IInv, ControlInv
<1>4. QuiescenceExcludesTurns'
  BY <1>1 DEF IInv, QuiescenceExcludesTurns, HasPending
<1>5. NoLostWakeup'
  BY <1>1 DEF NoLostWakeup, MaybeSettle, Idle
<1> QED
  BY <1>3, <1>4, <1>5 DEF IInv

LEMMA SettledPreserves ==
    ASSUME NEW w \in Waiters PROVE IInv /\ Settled(w) => IInv'
BY DEF IInv, ControlInv, QuiescenceExcludesTurns, NoLostWakeup, Settled, Idle,
   admissionVars, turnVars, clockVars, HasPending, Live

-----------------------------------------------------------------------------
(* The loop.  A turn is active, hence nobody holds quiescence, and a step   *)
(* of it leaves every place outside the turn alone.                         *)
RunShape(r) ==
    r = [pc |-> r.pc, current |-> r.current, steps |-> r.steps,
         retries |-> r.retries, outcome |-> r.outcome]

LEMMA RunStepLemma ==
    ASSUME IInv, run.pc # "none", RunShape(run'), run'.pc # "none",
           UNCHANGED keptByRun
    PROVE  IInv'
<1>1. UNCHANGED <<standalone, held, releasing, draining, quiet, disposing,
                  pendingTurns, active, reserved, nextTurnId, waiting>>
  BY DEF keptByRun, clockVars
<1>2. ~ quiet
  BY DEF IInv, ControlInv, QuiescenceExcludesTurns
<1> QED
  BY <1>1, <1>2 DEF IInv, ControlInv, QuiescenceExcludesTurns, NoLostWakeup, Idle, RunShape

LEMMA LoopPreserves == IInv /\ (Begin \/ Execute \/ Complete \/ Recover) => IInv'
<1> SUFFICES ASSUME IInv, Begin \/ Execute \/ Complete \/ Recover PROVE IInv'
  OBVIOUS
<1> USE DEF IInv, ControlInv, RunShape, At
<1>1. ASSUME NEW o, LeaveRun(o), run.pc # "none" PROVE IInv'
  <2>1. run' = [run EXCEPT !.pc = "returning", !.current = None, !.outcome = o] /\ UNCHANGED keptByRun
    BY <1>1 DEF LeaveRun
  <2>2. run'.pc = "returning" /\ RunShape(run')
    BY <2>1
  <2> QED
    BY <1>1, <2>1, <2>2, RunStepLemma
<1>2. CASE Begin
  BY <1>1, <1>2, RunStepLemma
     DEF Begin, BeginAborted, BeginIdle, BeginTooMany, BeginStep
<1>3. CASE Execute
  BY <1>1, <1>3, RunStepLemma
     DEF Execute, FinishStep, FailStep, SkipStep, AbortTurn
<1>4. CASE Complete
  BY <1>1, <1>4, RunStepLemma DEF Complete, CompleteStep, StopTurn
<1>5. CASE Recover
  BY <1>1, <1>5, RunStepLemma DEF Recover, Retry, GiveUp
<1> QED
  BY <1>2, <1>3, <1>4, <1>5

LEMMA ReleaseActivePreserves == IInv /\ ReleaseActiveTurn => IInv'
<1> SUFFICES ASSUME IInv, ReleaseActiveTurn PROVE IInv'
  OBVIOUS
<1>1. /\ run.pc = "returning" /\ active' = None /\ run' = NoRun
      /\ MaybeSettle(None, pendingTurns, held)
      /\ UNCHANGED <<standalone, held, releasing, draining, quiet, disposing,
                     pendingTurns, reserved, nextTurnId>>
  BY DEF ReleaseActiveTurn, At, admissionVars, clockVars
<1>2. ~ quiet
  BY <1>1 DEF IInv, ControlInv, QuiescenceExcludesTurns
<1>3. ControlInv'
  BY <1>1 DEF IInv, ControlInv, NoRun
<1>4. NoLostWakeup'
  BY <1>1 DEF NoLostWakeup, MaybeSettle, Idle
<1> QED
  BY <1>1, <1>2, <1>3, <1>4 DEF IInv, QuiescenceExcludesTurns

-----------------------------------------------------------------------------
LEMMA CallersPreserve == IInv /\ Callers => IInv'
<1> SUFFICES ASSUME IInv, Callers PROVE IInv'
  OBVIOUS
<1>1. CASE \E r \in Requests : Enqueue(r) \/ CancelStep(r) \/ AbortRequest(r)
  BY <1>1, EnqueuePreserves, CancelStepPreserves, AbortRequestPreserves
<1>2. CASE \E t \in TurnIds : CancelActiveTurn(t) \/ CancelQueuedTurn(t)
  BY <1>2, CancelActiveTurnPreserves, CancelQueuedTurnPreserves
<1>3. CASE \E w \in Waiters : Settled(w)
  BY <1>3, SettledPreserves
<1>4. CASE TryAcquireQuiescence \/ Dispose
  BY <1>4, AcquirePreserves, DisposePreserves
<1> QED
  BY <1>1, <1>2, <1>3, <1>4 DEF Callers

LEMMA NextInv == IInv /\ [Next]_vars => IInv'
<1> SUFFICES ASSUME IInv, [Next]_vars PROVE IInv'
  OBVIOUS
<1>1. CASE Callers
  BY <1>1, CallersPreserve
<1>2. CASE ReleaseQuiescence \/ AdmitHeld
  BY <1>2, ReleasePreserves, AdmitHeldPreserves
<1>3. CASE ReleaseDone \/ PumpNext
  BY <1>3, PumpingPreserves
<1>4. CASE Begin \/ Execute \/ Complete \/ Recover
  BY <1>4, LoopPreserves
<1>5. CASE ReleaseActiveTurn
  BY <1>5, ReleaseActivePreserves
<1>6. CASE UNCHANGED vars
  BY <1>6 DEF vars, IInv, ControlInv, QuiescenceExcludesTurns, NoLostWakeup, Idle,
     admissionVars, turnVars, clockVars, HasPending, Live
<1> QED
  BY <1>1, <1>2, <1>3, <1>4, <1>5, <1>6 DEF Next, Stopped

THEOREM InductiveInvariant == Spec => []IInv
BY InitInv, NextInv, PTL DEF Spec

(* While the context is rewritten under a lease of quiescence no turn is    *)
(* active or queued and no live request waits to join one, for any set of   *)
(* requests, admissions and cancellations.                                  *)
THEOREM QuiescenceHolds == Spec => []QuiescenceExcludesTurns
<1>1. IInv => QuiescenceExcludesTurns
  BY DEF IInv
<1> QED
  BY <1>1, InductiveInvariant, PTL

(* No path that empties the loop forgets the callers of settled().          *)
THEOREM NoLostWakeupHolds == Spec => []NoLostWakeup
<1>1. IInv => NoLostWakeup
  BY DEF IInv
<1> QED
  BY <1>1, InductiveInvariant, PTL

-----------------------------------------------------------------------------
(* The turns: they never overlap, and they start in the order of the ids    *)
(* that were reserved for them.                                             *)

States == {"none", "queued", "running", "completed", "cancelled", "failed"}
Ends == {"completed", "cancelled", "failed"}
ReqStates == {"new", "pending", "materialized", "aborted"}
Turns == [state : States, request : Requests \cup {None}, aborted : BOOLEAN]
Sorted(s) == \A i, j \in DOMAIN s : i < j => s[i] < s[j]

(* The turns from 0 to R - 1 exist, one of them at most runs, and the       *)
(* queued ones wait in the order of their ids.                              *)
TurnsOrdered(turns, pend, act, R) ==
    /\ turns \in [TurnIds -> Turns] /\ pend \in Seq(TurnIds)
    /\ act \in TurnIds \cup {None} /\ R \in 0..Cardinality(Requests)
    /\ \A t \in TurnIds : turns[t].state = "none" <=> t >= R
    /\ \A t \in TurnIds : turns[t].state = "running" <=> t = act
    /\ Queued(pend) = {t \in TurnIds : turns[t].state = "queued"}
    /\ Sorted(pend)

(* From next on every id that is reserved is queued or noted as cancelled,  *)
(* and no queued turn is before it.                                         *)
ClockAgrees(turns, R, next, cancelled) ==
    /\ next \in 0..R /\ cancelled \subseteq (next + 1)..(R - 1)
    /\ \A t \in TurnIds : turns[t].state = "queued" => t >= next /\ t \notin cancelled
    /\ \A t \in next..(R - 1) : turns[t].state = "queued" \/ t \in cancelled

(* Each turn has a request of its own, which is not waiting to be admitted. *)
Drivers(turns, R, rq, hold, rel) ==
    /\ rq \in [Requests -> ReqStates]
    /\ Distinct(hold) /\ Distinct(rel) /\ Queued(hold) \cap Queued(rel) = {}
    /\ Queued(hold) \cup Queued(rel) \subseteq Requests
    /\ \A r \in Queued(hold) \cup Queued(rel) : rq[r] # "new"
    /\ \A t \in 0..(R - 1) :
          LET r == turns[t].request IN
          r \in Requests /\ rq[r] # "new" /\ r \notin Queued(hold) \cup Queued(rel)
    /\ \A t, u \in 0..(R - 1) : turns[t].request = turns[u].request => t = u

TurnInv ==
    /\ TurnsOrdered(turn, pendingTurns, active, reserved)
    /\ ClockAgrees(turn, reserved, nextTurnId, cancelledTurnIds)
    /\ Drivers(turn, reserved, req, held, releasing)
    /\ run.pc = "returning" => run.outcome \in Ends

(* What StartsInOrder says of one step.                                     *)
Starts ==
    \A t \in TurnIds : (turn[t].state # "running" /\ turn'[t].state = "running") =>
        t = nextTurnId /\ (\A u \in 0..(t - 1) : Over(u)) /\ ~ disposing

LEMMA CardinalityNat == Cardinality(Requests) \in Nat
BY RequestsAssumption, FS_CardinalityType

LEMMA TurnInitInv == Init => TurnInv
<1> SUFFICES ASSUME Init PROVE TurnInv
  OBVIOUS
<1> USE CardinalityNat DEF Init
<1>1. TurnsOrdered(turn, pendingTurns, active, reserved)
  <2>1. turn \in [TurnIds -> Turns] /\ \A t \in TurnIds : turn[t].state = "none"
    BY DEF NoTurn, Turns, States
  <2>2. \A t \in TurnIds : t >= 0 /\ t # None
    BY NoneAssumption DEF TurnIds
  <2> QED
    BY <2>1, <2>2 DEF TurnsOrdered, Queued, Sorted
<1>2. ClockAgrees(turn, reserved, nextTurnId, cancelledTurnIds)
  BY DEF ClockAgrees, NoTurn
<1>3. Drivers(turn, reserved, req, held, releasing)
  BY DEF Drivers, ReqStates, Distinct, Queued
<1> QED
  BY <1>1, <1>2, <1>3 DEF TurnInv, NoRun

-----------------------------------------------------------------------------
(* Lemmas on the sequences and on the bound of the ids.                     *)

LEMMA RemoveAtIsTaken ==
    ASSUME NEW S, NEW s \in Seq(S), NEW i \in DOMAIN s PROVE RemoveAt(s, i) = Taken(s, i)
BY SplicedIsTaken DEF RemoveAt

(* A list in strict order has no duplicates.                                *)
LEMMA SortedIsDistinct ==
    ASSUME NEW q \in Seq(Nat), Sorted(q) PROVE Distinct(q)
<1> SUFFICES ASSUME NEW i \in DOMAIN q, NEW j \in DOMAIN q, q[i] = q[j] PROVE i = j
  BY DEF Distinct
<1>1. i \in Nat /\ j \in Nat /\ q[i] \in Nat /\ q[j] \in Nat
  OBVIOUS
<1> QED
  BY <1>1 DEF Sorted

LEMMA EmptyQueue ==
    ASSUME NEW S
    PROVE  /\ <<>> \in Seq(S) /\ Sorted(<<>>) /\ Distinct(<<>>) /\ Queued(<<>>) = {}
<1>1. <<>> \in Seq(S) /\ Len(<<>>) = 0 /\ DOMAIN <<>> = 1..0
  OBVIOUS
<1>2. \A i \in DOMAIN <<>> : FALSE
  BY <1>1
<1> QED
  BY <1>1, <1>2 DEF Sorted, Distinct, Queued

LEMMA SortedTail ==
    ASSUME NEW q \in Seq(Nat), q # <<>>, Sorted(q)
    PROVE  /\ Sorted(Tail(q)) /\ \A t \in Queued(q) : Head(q) <= t
<1>1. /\ Len(q) \in Nat \ {0} /\ DOMAIN q = 1..Len(q) /\ Head(q) = q[1]
      /\ DOMAIN Tail(q) = 1..(Len(q) - 1)
      /\ \A j \in 1..(Len(q) - 1) : Tail(q)[j] = q[j + 1]
      /\ \A j \in 1..Len(q) : q[j] \in Nat
  OBVIOUS
<1>2. \A i, j \in 1..Len(q) : i < j => q[i] < q[j]
  BY <1>1 DEF Sorted
<1>3. Sorted(Tail(q))
  <2> SUFFICES ASSUME NEW i \in 1..(Len(q) - 1), NEW j \in 1..(Len(q) - 1), i < j
               PROVE  Tail(q)[i] < Tail(q)[j]
    BY <1>1 DEF Sorted
  <2>1. /\ i + 1 \in 1..Len(q) /\ j + 1 \in 1..Len(q) /\ i + 1 < j + 1
        /\ Tail(q)[i] = q[i + 1] /\ Tail(q)[j] = q[j + 1]
    BY <1>1
  <2> QED
    BY <1>2, <2>1
<1>4. ASSUME NEW t \in Queued(q) PROVE Head(q) <= t
  <2>1. PICK i \in 1..Len(q) : t = q[i]
    BY <1>1 DEF Queued
  <2>2. 1 \in 1..Len(q) /\ (i = 1 \/ 1 < i)
    BY <1>1, <2>1
  <2> QED
    BY <1>1, <1>2, <2>1, <2>2
<1> QED
  BY <1>3, <1>4

LEMMA SortedTaken ==
    ASSUME NEW q \in Seq(Nat), NEW i \in DOMAIN q, Sorted(q) PROVE Sorted(Taken(q, i))
<1>1. /\ Len(q) \in Nat /\ DOMAIN q = 1..Len(q) /\ i \in 1..Len(q)
      /\ \A j \in 1..Len(q) : q[j] \in Nat
  OBVIOUS
<1>2. /\ DOMAIN Taken(q, i) = 1..(Len(q) - 1)
      /\ \A j \in 1..(Len(q) - 1) : Taken(q, i)[j] = IF j < i THEN q[j] ELSE q[j + 1]
  BY <1>1 DEF Taken
<1>3. \A j, k \in 1..Len(q) : j < k => q[j] < q[k]
  BY <1>1 DEF Sorted
<1> SUFFICES ASSUME NEW j \in 1..(Len(q) - 1), NEW k \in 1..(Len(q) - 1), j < k
             PROVE  Taken(q, i)[j] < Taken(q, i)[k]
  BY <1>2 DEF Sorted
<1>4. /\ j \in 1..Len(q) /\ k \in 1..Len(q) /\ j + 1 \in 1..Len(q) /\ k + 1 \in 1..Len(q)
      /\ j < k + 1 /\ j + 1 < k + 1
  BY <1>1
<1>5. Taken(q, i)[j] = (IF j < i THEN q[j] ELSE q[j + 1])
      /\ Taken(q, i)[k] = (IF k < i THEN q[k] ELSE q[k + 1])
  BY <1>2
<1>6. k < i => j < i
  BY <1>1, <1>4
<1> QED
  BY <1>3, <1>4, <1>5, <1>6

LEMMA SortedAppend ==
    ASSUME NEW q \in Seq(Nat), NEW x \in Nat, Sorted(q), \A t \in Queued(q) : t < x
    PROVE  Sorted(Append(q, x))
<1> DEFINE p == Append(q, x)
<1>1. /\ Len(q) \in Nat /\ DOMAIN q = 1..Len(q) /\ DOMAIN p = 1..(Len(q) + 1)
      /\ p[Len(q) + 1] = x /\ \A j \in 1..Len(q) : p[j] = q[j]
      /\ \A j \in 1..Len(q) : q[j] \in Nat
  OBVIOUS
<1> HIDE DEF p
<1>2. \A i, j \in DOMAIN p : i < j => p[i] < p[j]
  BY <1>1 DEF Sorted, Queued
<1> QED
  BY <1>2 DEF Sorted, p

(* A request that drives no turn leaves an id for its own.                  *)
LEMMA RoomForTurn ==
    ASSUME NEW turns, NEW R \in Nat, NEW rq, NEW hold, NEW rel,
           Drivers(turns, R, rq, hold, rel), NEW r \in Requests,
           \A t \in 0..(R - 1) : turns[t].request # r
    PROVE  R < Cardinality(Requests)
<1> DEFINE f == [t \in 0..(R - 1) |-> turns[t].request]
           T == Requests \ {r}
<1>1. f \in Injection(0..(R - 1), T)
  <2>1. f \in [0..(R - 1) -> T]
    BY DEF Drivers
  <2>2. \A t, u \in 0..(R - 1) : f[t] = f[u] => t = u
    BY DEF Drivers
  <2> QED
    BY <2>1, <2>2 DEF Injection, IsInjective
<1>2. IsFiniteSet(T) /\ Cardinality(T) = Cardinality(Requests) - 1
  BY RequestsAssumption, FS_RemoveElement
<1>3. Cardinality(0..(R - 1)) = R
  BY FS_Interval
<1> HIDE DEF f, T
<1>4. Cardinality(0..(R - 1)) <= Cardinality(T)
  BY <1>1, <1>2, FS_Injection
<1> QED
  BY <1>2, <1>3, <1>4, CardinalityNat

-----------------------------------------------------------------------------
(* The clock.                                                               *)

(* It goes on from n past the cancelled ids, to an id that is queued or not *)
(* reserved yet.                                                            *)
LEMMA ClockAdvances ==
    ASSUME NEW turns, NEW R \in 0..Cardinality(Requests), NEW n \in 0..R,
           NEW C \in SUBSET (n..(R - 1)), AdvanceTurnClock(n, C),
           \A t \in TurnIds : turns[t].state = "queued" => t >= n /\ t \notin C,
           \A t \in n..(R - 1) : turns[t].state = "queued" \/ t \in C
    PROVE  ClockAgrees(turns, R, nextTurnId', cancelledTurnIds')
<1> USE CardinalityNat
<1>1. PICK next \in n..Cardinality(Requests) :
          /\ next \notin C /\ \A k \in n..(next - 1) : k \in C
          /\ nextTurnId' = next /\ cancelledTurnIds' = {c \in C : c > next}
  BY DEF AdvanceTurnClock
<1>2. next \in 0..R
  <2>1. CASE next = n
    BY <2>1
  <2>2. CASE next # n
    <3>1. next - 1 \in n..(next - 1)
      BY <2>2
    <3>2. next - 1 \in n..(R - 1)
      BY <1>1, <3>1
    <3> QED
      BY <3>2
  <2> QED
    BY <2>1, <2>2
<1>3. \A t \in TurnIds : turns[t].state = "queued" => t >= next /\ t \notin cancelledTurnIds'
  <2> SUFFICES ASSUME NEW t \in TurnIds, turns[t].state = "queued"
               PROVE  t >= next /\ t \notin cancelledTurnIds'
    OBVIOUS
  <2>1. t \in Nat /\ t >= n /\ t \notin C
    BY DEF TurnIds
  <2>2. ~ (t < next)
    <3>1. t < next => t \in n..(next - 1)
      BY <2>1, <1>2
    <3> QED
      BY <1>1, <2>1, <3>1
  <2> QED
    BY <1>1, <1>2, <2>1, <2>2
<1>4. \A t \in next..(R - 1) : turns[t].state = "queued" \/ t \in cancelledTurnIds'
  BY <1>1, <1>2
<1>5. cancelledTurnIds' \subseteq (next + 1)..(R - 1)
  <2> SUFFICES ASSUME NEW c \in cancelledTurnIds' PROVE c \in (next + 1)..(R - 1)
    OBVIOUS
  <2>1. c \in n..(R - 1) /\ c > next
    BY <1>1
  <2> QED
    BY <1>2, <2>1
<1> QED
  BY <1>1, <1>2, <1>3, <1>4, <1>5 DEF ClockAgrees

(* When a turn is to start, the oldest that waits is the one the clock has  *)
(* come to, and the earlier ones are over.                                  *)
LEMMA HeadIsNext ==
    ASSUME NEW turns, NEW pend, NEW R, NEW next, NEW C,
           TurnsOrdered(turns, pend, None, R), ClockAgrees(turns, R, next, C), pend # <<>>
    PROVE  /\ Head(pend) = next /\ next < R /\ next \in TurnIds
           /\ turns[next].state = "queued"
           /\ \A u \in 0..(next - 1) : u \in TurnIds /\ turns[u].state \in Ends
<1> USE CardinalityNat
<1>1. /\ pend \in Seq(TurnIds) /\ R \in 0..Cardinality(Requests) /\ next \in 0..R
      /\ C \subseteq (next + 1)..(R - 1) /\ turns \in [TurnIds -> Turns]
      /\ \A t \in TurnIds : turns[t].state = "none" <=> t >= R
      /\ \A t \in TurnIds : turns[t].state = "running" <=> t = None
      /\ Queued(pend) = {t \in TurnIds : turns[t].state = "queued"}
      /\ Sorted(pend)
      /\ \A t \in TurnIds : turns[t].state = "queued" => t >= next /\ t \notin C
      /\ \A t \in next..(R - 1) : turns[t].state = "queued" \/ t \in C
  BY DEF TurnsOrdered, ClockAgrees
<1>2. pend \in Seq(Nat) /\ Head(pend) \in Queued(pend) /\ Head(pend) \in TurnIds
  <2>1. TurnIds \subseteq Nat
    BY DEF TurnIds
  <2>2. pend \in Seq(Nat)
    BY <1>1, <2>1, SeqMonotonic
  <2>3. Head(pend) = pend[1] /\ 1 \in DOMAIN pend /\ pend[1] \in TurnIds
    BY <1>1
  <2> QED
    BY <2>2, <2>3 DEF Queued
<1>3. Head(pend) \in Nat /\ Head(pend) >= next /\ Head(pend) < R
  BY <1>1, <1>2 DEF TurnIds
<1>4. next < R /\ next \in TurnIds /\ turns[next].state = "queued"
  <2>1. next \in next..(R - 1) /\ next \in TurnIds
    BY <1>1, <1>3 DEF TurnIds
  <2>2. next \notin C
    BY <1>1
  <2> QED
    BY <1>1, <1>3, <2>1, <2>2
<1>5. Head(pend) <= next
  BY <1>1, <1>2, <1>4, SortedTail
<1>6. ASSUME NEW u \in 0..(next - 1) PROVE u \in TurnIds /\ turns[u].state \in Ends
  <2>1. u \in TurnIds /\ u < next /\ u < R /\ u # None
    BY <1>1, <1>4, NoneAssumption DEF TurnIds
  <2>2. turns[u].state \in States /\ turns[u].state \notin {"none", "running", "queued"}
    BY <1>1, <2>1 DEF Turns
  <2> QED
    BY <2>1, <2>2 DEF States, Ends
<1> QED
  BY <1>1, <1>3, <1>4, <1>5, <1>6

-----------------------------------------------------------------------------
(* The turns.                                                               *)

(* What pumpTurns does: nothing, or it starts the oldest turn that waits.   *)
LEMMA PumpOrder ==
    ASSUME NEW pend, NEW turns, NEW hold, NEW R,
           TurnsOrdered(turns, pend, active, R),
           ClockAgrees(turns, R, nextTurnId, cancelledTurnIds),
           run.pc = "returning" => run.outcome \in Ends,
           PumpTurns(pend, turns, hold)
    PROVE  /\ TurnsOrdered(turn', pendingTurns', active', R)
           /\ ClockAgrees(turn', R, nextTurnId', cancelledTurnIds')
           /\ run'.pc = "returning" => run'.outcome \in Ends
           /\ \A t \in TurnIds : turn'[t].request = turns[t].request
           /\ \A t \in TurnIds :
                 (turns[t].state # "running" /\ turn'[t].state = "running") =>
                    /\ t = nextTurnId /\ ~ disposing
                    /\ \A u \in 0..(t - 1) : turns[u].state \in Ends
<1>1. CASE disposing \/ quiet' \/ active # None
  <2>1. pendingTurns' = pend /\ turn' = turns
        /\ UNCHANGED <<active, run, nextTurnId, cancelledTurnIds>>
    BY <1>1 DEF PumpTurns, MayNotPump, clockVars
  <2> QED
    BY <2>1
<1>2. CASE ~ (disposing \/ quiet' \/ active # None) /\ pend = <<>>
  <2>1. pendingTurns' = pend /\ turn' = turns
        /\ UNCHANGED <<active, run, nextTurnId, cancelledTurnIds>>
    BY <1>2 DEF PumpTurns, MayNotPump, clockVars
  <2> QED
    BY <2>1
<1>3. CASE ~ (disposing \/ quiet' \/ active # None) /\ pend # <<>>
  <2> DEFINE n == nextTurnId
  <2>1. /\ Head(pend) = n /\ n < R /\ n \in TurnIds /\ turns[n].state = "queued"
        /\ \A u \in 0..(n - 1) : u \in TurnIds /\ turns[u].state \in Ends
    BY <1>3, HeadIsNext
  <2>2. /\ active' = n /\ pendingTurns' = Tail(pend)
        /\ turn' = [turns EXCEPT ![n].state = "running"]
        /\ run' = [NoRun EXCEPT !.pc = "begin"]
        /\ AdvanceTurnClock(n + 1, cancelledTurnIds)
    BY <1>3, <2>1 DEF PumpTurns, MayNotPump
  <2>3. /\ turns \in [TurnIds -> Turns] /\ pend \in Seq(TurnIds) /\ Sorted(pend)
        /\ R \in 0..Cardinality(Requests) /\ n \in 0..R
        /\ \A t \in TurnIds : turns[t].state = "none" <=> t >= R
        /\ \A t \in TurnIds : turns[t].state # "running"
        /\ Queued(pend) = {t \in TurnIds : turns[t].state = "queued"}
        /\ cancelledTurnIds \subseteq (n + 1)..(R - 1)
        /\ \A t \in TurnIds : turns[t].state = "queued" => t >= n /\ t \notin cancelledTurnIds
        /\ \A t \in n..(R - 1) : turns[t].state = "queued" \/ t \in cancelledTurnIds
    BY <1>3, NoneAssumption DEF TurnsOrdered, ClockAgrees, TurnIds
  <2>4. /\ turn' \in [TurnIds -> Turns] /\ turn'[n].state = "running"
        /\ \A t \in TurnIds \ {n} : turn'[t] = turns[t]
        /\ \A t \in TurnIds : turn'[t].request = turns[t].request
    BY <2>1, <2>2, <2>3 DEF Turns, States
  <2>5. TurnsOrdered(turn', pendingTurns', active', R)
    <3>1. pend \in Seq(Nat)
      <4>1. TurnIds \subseteq Nat
        BY DEF TurnIds
      <4> QED
        BY <2>3, <4>1, SeqMonotonic
    <3>2. /\ pendingTurns' \in Seq(TurnIds) /\ Sorted(pendingTurns')
          /\ Queued(pendingTurns') = Queued(pend) \ {n}
      BY <1>3, <2>1, <2>2, <2>3, <3>1, SortedIsDistinct, SortedTail, TailProperties
    <3>3. \A t \in TurnIds : turn'[t].state = "none" <=> t >= R
      BY <2>1, <2>3, <2>4
    <3>4. Queued(pendingTurns') = {t \in TurnIds : turn'[t].state = "queued"}
      BY <2>3, <2>4, <3>2
    <3> QED
      BY <2>1, <2>2, <2>3, <2>4, <3>2, <3>3, <3>4 DEF TurnsOrdered
  <2>6. ClockAgrees(turn', R, nextTurnId', cancelledTurnIds')
    <3>1. n \in Nat /\ R \in Nat /\ n + 1 \in 0..R
      BY <2>1, <2>3, CardinalityNat
    <3>2. \A t \in TurnIds : turn'[t].state = "queued" => t >= n + 1 /\ t \notin cancelledTurnIds
      BY <2>3, <2>4, <3>1 DEF TurnIds
    <3>3. ASSUME NEW t \in (n + 1)..(R - 1)
          PROVE  turn'[t].state = "queued" \/ t \in cancelledTurnIds
      <4>1. t \in n..(R - 1) /\ t \in TurnIds \ {n}
        BY <2>3, <3>1, CardinalityNat DEF TurnIds
      <4> QED
        BY <2>3, <2>4, <4>1
    <3> QED
      BY <2>2, <2>3, <3>1, <3>2, <3>3, ClockAdvances
  <2>7. run'.pc = "begin"
    BY <2>2 DEF NoRun
  <2> QED
    BY <1>3, <2>1, <2>4, <2>5, <2>6, <2>7
<1> QED
  BY <1>1, <1>2, <1>3

(* Requests are cancelled, materialized or taken out of the lists.          *)
LEMMA DriversKept ==
    ASSUME NEW turns, NEW R, NEW rq, NEW hold, NEW rel,
           NEW turns2, NEW rq2, NEW hold2, NEW rel2,
           Drivers(turns, R, rq, hold, rel),
           \A t \in 0..(R - 1) : turns2[t].request = turns[t].request,
           rq2 \in [Requests -> ReqStates],
           \A q \in Requests : rq2[q] = "new" => rq[q] = "new",
           Queued(hold2) \cup Queued(rel2) \subseteq Queued(hold) \cup Queued(rel),
           Distinct(hold2), Distinct(rel2), Queued(hold2) \cap Queued(rel2) = {}
    PROVE  Drivers(turns2, R, rq2, hold2, rel2)
<1>1. \A r \in Queued(hold2) \cup Queued(rel2) : r \in Requests /\ rq2[r] # "new"
  BY DEF Drivers
<1>2. \A t \in 0..(R - 1) :
          LET r == turns2[t].request IN
          r \in Requests /\ rq2[r] # "new" /\ r \notin Queued(hold2) \cup Queued(rel2)
  BY DEF Drivers
<1>3. \A t, u \in 0..(R - 1) : turns2[t].request = turns2[u].request => t = u
  BY DEF Drivers
<1> QED
  BY <1>1, <1>2, <1>3 DEF Drivers

(* Steps that leave the turns alone.                                        *)
LEMMA FrameTurns ==
    ASSUME TurnInv, UNCHANGED <<turn, pendingTurns, active, reserved, nextTurnId,
                                cancelledTurnIds>>,
           run'.pc = "returning" => run'.outcome \in Ends,
           req' \in [Requests -> ReqStates],
           \A q \in Requests : req'[q] = "new" => req[q] = "new",
           Queued(held') \cup Queued(releasing') \subseteq Queued(held) \cup Queued(releasing),
           Distinct(held'), Distinct(releasing'), Queued(held') \cap Queued(releasing') = {}
    PROVE  TurnInv' /\ Starts
<1>1. Drivers(turn', reserved', req', held', releasing')
  BY DriversKept DEF TurnInv
<1>2. /\ TurnsOrdered(turn', pendingTurns', active', reserved')
      /\ ClockAgrees(turn', reserved', nextTurnId', cancelledTurnIds')
  BY DEF TurnInv
<1>3. TurnInv'
  BY <1>1, <1>2 DEF TurnInv
<1> QED
  BY <1>3 DEF Starts

(* The lists of requests as they are.                                       *)
LEMMA ListsKept ==
    ASSUME TurnInv, UNCHANGED <<held, releasing>>
    PROVE  /\ Queued(held') \cup Queued(releasing') \subseteq Queued(held) \cup Queued(releasing)
           /\ Distinct(held') /\ Distinct(releasing')
           /\ Queued(held') \cap Queued(releasing') = {}
BY DEF TurnInv, Drivers

(* admit() gives a new turn the next id, and a request of its own.          *)
LEMMA AdmitTurns ==
    ASSUME TurnInv, NEW r \in Requests, Admit(r) \/ Refuse(r),
           \A t \in 0..(reserved - 1) : turn[t].request # r,
           r \notin Queued(held') \cup Queued(releasing'),
           req' \in [Requests -> ReqStates], req'[r] # "new",
           \A q \in Requests : req'[q] = "new" => req[q] = "new",
           Queued(held') \cup Queued(releasing') \subseteq Queued(held) \cup Queued(releasing),
           Distinct(held'), Distinct(releasing'), Queued(held') \cap Queued(releasing') = {}
    PROVE  TurnInv' /\ Starts
<1>1. CASE JoinActive(r) \/ WaitForNextTurn(r) \/ Refuse(r)
  <2>1. UNCHANGED <<turn, pendingTurns, active, reserved, nextTurnId, cancelledTurnIds, run>>
    BY <1>1 DEF JoinActive, WaitForNextTurn, Refuse, turnVars, clockVars
  <2> QED
    BY <2>1, FrameTurns DEF TurnInv
<1>2. CASE CreateTurn(r)
  <2> DEFINE R == reserved
             pend == Append(pendingTurns, R)
             new == [state |-> "queued", request |-> r, aborted |-> FALSE]
             turns == [turn EXCEPT ![R] = new]
  <2>1. /\ TurnsOrdered(turn, pendingTurns, active, R)
        /\ ClockAgrees(turn, R, nextTurnId, cancelledTurnIds)
        /\ Drivers(turn, R, req, held, releasing)
        /\ run.pc = "returning" => run.outcome \in Ends
    BY DEF TurnInv
  <2>2. R \in Nat /\ nextTurnId \in 0..R
    BY <2>1, CardinalityNat DEF TurnsOrdered, ClockAgrees
  <2>3. NewTurnId = R
    BY <2>2 DEF NewTurnId
  <2>4. R < Cardinality(Requests)
    BY <2>1, <2>2, RoomForTurn
  <2>5. R \in TurnIds /\ R # None /\ R + 1 \in 0..Cardinality(Requests)
    BY <2>2, <2>4, CardinalityNat, NoneAssumption DEF TurnIds
  <2>6. reserved' = R + 1 /\ PumpTurns(pend, turns, held)
    BY <1>2, <2>3 DEF CreateTurn
  <2>7. /\ turns \in [TurnIds -> Turns] /\ turns[R] = new
        /\ \A t \in TurnIds \ {R} : turns[t] = turn[t]
    <3>1. turn \in [TurnIds -> Turns] /\ new \in Turns
      BY <2>1 DEF TurnsOrdered, Turns, States
    <3> HIDE DEF new
    <3> QED
      BY <2>5, <3>1
  <2>8. turn[R].state = "none" /\ active # R
    BY <2>1, <2>2, <2>5 DEF TurnsOrdered
  <2>9. TurnsOrdered(turns, pend, active, R + 1)
    <3>1. pendingTurns \in Seq(TurnIds) /\ pendingTurns \in Seq(Nat) /\ Sorted(pendingTurns)
          /\ Queued(pendingTurns) = {t \in TurnIds : turn[t].state = "queued"}
      <4>1. TurnIds \subseteq Nat
        BY DEF TurnIds
      <4> QED
        BY <2>1, <4>1, SeqMonotonic DEF TurnsOrdered
    <3>2. \A t \in Queued(pendingTurns) : t < R
      BY <2>1, <2>2, <3>1 DEF TurnsOrdered, TurnIds
    <3>3. pend \in Seq(TurnIds) /\ Sorted(pend) /\ Queued(pend) = Queued(pendingTurns) \cup {R}
      <4>1. Sorted(pend)
        BY <2>2, <3>1, <3>2, SortedAppend
      <4>2. R \notin Queued(pendingTurns)
        BY <2>2, <3>2
      <4> QED
        BY <2>5, <3>1, <4>1, <4>2, SortedIsDistinct, AppendKeeps
    <3>4. Queued(pend) = {t \in TurnIds : turns[t].state = "queued"}
      BY <2>5, <2>7, <3>1, <3>3
    <3>5. \A t \in TurnIds : turns[t].state = "none" <=> t >= R + 1
      BY <2>1, <2>2, <2>5, <2>7 DEF TurnsOrdered, TurnIds
    <3>6. \A t \in TurnIds : turns[t].state = "running" <=> t = active
      BY <2>1, <2>7, <2>8 DEF TurnsOrdered
    <3>7. active \in TurnIds \cup {None}
      BY <2>1 DEF TurnsOrdered
    <3> HIDE DEF turns, pend, new
    <3> QED
      BY <2>5, <2>7, <3>3, <3>4, <3>5, <3>6, <3>7 DEF TurnsOrdered
  <2>10. ClockAgrees(turns, R + 1, nextTurnId, cancelledTurnIds)
    <3>1. cancelledTurnIds \subseteq (nextTurnId + 1)..(R - 1)
      BY <2>1 DEF ClockAgrees
    <3>2. R \notin cancelledTurnIds /\ cancelledTurnIds \subseteq (nextTurnId + 1)..((R + 1) - 1)
      BY <2>2, <3>1
    <3>3. \A t \in TurnIds : turns[t].state = "queued" => t >= nextTurnId /\ t \notin cancelledTurnIds
      BY <2>1, <2>2, <2>7, <3>2 DEF ClockAgrees
    <3>4. ASSUME NEW t \in nextTurnId..((R + 1) - 1)
          PROVE  turns[t].state = "queued" \/ t \in cancelledTurnIds
      <4>1. CASE t = R
        BY <2>7, <4>1
      <4>2. CASE t # R
        <5>1. t \in nextTurnId..(R - 1) /\ t \in TurnIds \ {R}
          BY <2>2, <2>4, <4>2, CardinalityNat DEF TurnIds
        <5> QED
          BY <2>1, <2>7, <5>1 DEF ClockAgrees
      <4> QED
        BY <4>1, <4>2
    <3> HIDE DEF turns
    <3> QED
      BY <2>2, <3>2, <3>3, <3>4 DEF ClockAgrees
  <2> HIDE DEF turns, pend
  <2>11. /\ TurnsOrdered(turn', pendingTurns', active', R + 1)
         /\ ClockAgrees(turn', R + 1, nextTurnId', cancelledTurnIds')
         /\ run'.pc = "returning" => run'.outcome \in Ends
         /\ \A t \in TurnIds : turn'[t].request = turns[t].request
         /\ \A t \in TurnIds :
               (turns[t].state # "running" /\ turn'[t].state = "running") =>
                  /\ t = nextTurnId /\ ~ disposing
                  /\ \A u \in 0..(t - 1) : turns[u].state \in Ends
    BY <2>1, <2>6, <2>9, <2>10, PumpOrder
  <2>12. Drivers(turn', R + 1, req', held', releasing')
    <3>1. /\ turn'[R].request = r
          /\ \A t \in 0..(R - 1) : t \in TurnIds /\ turn'[t].request = turn[t].request
      <4>1. \A t \in 0..(R - 1) : t \in TurnIds \ {R}
        BY <2>2, <2>4, CardinalityNat DEF TurnIds
      <4> QED
        BY <2>5, <2>7, <2>11, <4>1
    <3>2. Drivers(turn', R, req', held', releasing')
      BY <2>1, <3>1, DriversKept
    <3>3. \A t \in 0..((R + 1) - 1) : t = R \/ t \in 0..(R - 1)
      BY <2>2
    <3>4. \A t \in 0..(R - 1) : turn'[t].request # r
      BY <3>1
    <3> QED
      BY <3>1, <3>2, <3>3, <3>4 DEF Drivers
  <2>13. Starts
    <3> SUFFICES ASSUME NEW t \in TurnIds, turn[t].state # "running", turn'[t].state = "running"
                 PROVE  t = nextTurnId /\ (\A u \in 0..(t - 1) : Over(u)) /\ ~ disposing
      BY DEF Starts
    <3>1. turns[t].state # "running"
      BY <2>7
    <3>2. t = nextTurnId /\ ~ disposing /\ \A u \in 0..(t - 1) : turns[u].state \in Ends
      BY <2>11, <3>1
    <3>3. \A u \in 0..(t - 1) : u \in TurnIds \ {R}
      BY <2>2, <2>4, <3>2, CardinalityNat DEF TurnIds
    <3> QED
      BY <2>7, <3>2, <3>3 DEF Over, Ends
  <2> QED
    BY <2>6, <2>11, <2>12, <2>13 DEF TurnInv
<1> QED
  BY <1>1, <1>2 DEF Admit

LEMMA EnqueueTurns ==
    ASSUME IInv, TurnInv, NEW r \in Requests, Enqueue(r) PROVE TurnInv' /\ Starts
<1>1. /\ req[r] = "new" /\ req' = [req EXCEPT ![r] = "pending"] /\ releasing' = releasing
      /\ Drivers(turn, reserved, req, held, releasing)
  BY DEF Enqueue, TurnInv
<1>2. /\ req' \in [Requests -> ReqStates] /\ req'[r] # "new"
      /\ \A q \in Requests : req'[q] = "new" => req[q] = "new"
      /\ \A t \in 0..(reserved - 1) : turn[t].request # r
      /\ r \notin Queued(held) \cup Queued(releasing)
  BY <1>1 DEF Drivers, ReqStates
<1>3. CASE Hold(r)
  <2>1. /\ held' = Append(held, r)
        /\ UNCHANGED <<turn, pendingTurns, active, reserved, nextTurnId, cancelledTurnIds, run>>
    BY <1>3 DEF Hold, turnVars, clockVars
  <2>2. held \in Seq(Requests)
    BY DEF IInv, ControlInv
  <2>3. Distinct(held') /\ Queued(held') = Queued(held) \cup {r}
    BY <1>1, <1>2, <2>1, <2>2, AppendKeeps DEF Drivers
  <2>4. Drivers(turn', reserved', req', held', releasing')
    BY <1>1, <1>2, <2>1, <2>3 DEF Drivers
  <2>5. /\ TurnsOrdered(turn', pendingTurns', active', reserved')
        /\ ClockAgrees(turn', reserved', nextTurnId', cancelledTurnIds')
    BY <2>1 DEF TurnInv
  <2> QED
    BY <2>1, <2>4, <2>5 DEF TurnInv, Starts
<1>4. CASE held' = held /\ (Admit(r) \/ Refuse(r))
  BY <1>1, <1>2, <1>4, ListsKept, AdmitTurns
<1> QED
  BY <1>3, <1>4 DEF Enqueue

LEMMA AdmitHeldTurns == ASSUME IInv, TurnInv, AdmitHeld PROVE TurnInv' /\ Starts
<1> DEFINE r == Head(releasing)
<1>1. /\ releasing # <<>> /\ releasing' = Tail(releasing) /\ held' = held
      /\ Drivers(turn, reserved, req, held, releasing)
  BY DEF AdmitHeld, TurnInv
<1>2. /\ r \in Queued(releasing) /\ r \in Requests /\ Distinct(releasing')
      /\ Queued(releasing') = Queued(releasing) \ {r}
  <2>1. releasing \in Seq(Requests) /\ Distinct(releasing)
    BY <1>1 DEF IInv, ControlInv, Drivers
  <2> QED
    BY <1>1, <2>1, TailProperties
<1>3. /\ Queued(held') \cup Queued(releasing') \subseteq Queued(held) \cup Queued(releasing)
      /\ Distinct(held') /\ Queued(held') \cap Queued(releasing') = {}
      /\ r \notin Queued(held') \cup Queued(releasing')
      /\ \A t \in 0..(reserved - 1) : turn[t].request # r
      /\ req[r] # "new" /\ req \in [Requests -> ReqStates]
  BY <1>1, <1>2 DEF Drivers
<1>4. CASE UNCHANGED <<req, assigned, step, standalone, turnVars, clockVars, run, waiting>>
  BY <1>2, <1>3, <1>4, FrameTurns DEF TurnInv, turnVars, clockVars
<1>5. CASE Admit(r) /\ UNCHANGED req
  <2> HIDE DEF r
  <2> QED
    BY <1>2, <1>3, <1>5, AdmitTurns
<1>6. CASE Refuse(r) /\ req' = [req EXCEPT ![r] = "aborted"]
  <2> HIDE DEF r
  <2>1. /\ req' \in [Requests -> ReqStates] /\ req'[r] # "new"
        /\ \A q \in Requests : req'[q] = "new" => req[q] = "new"
    BY <1>2, <1>3, <1>6 DEF ReqStates
  <2> QED
    BY <1>2, <1>3, <1>6, <2>1, AdmitTurns
<1> QED
  BY <1>4, <1>5, <1>6 DEF AdmitHeld

(* releaseQuiescence and the end of a turn start the next one.              *)
LEMMA PumpingTurns ==
    ASSUME TurnInv, ReleaseQuiescence \/ ReleaseDone \/ PumpNext PROVE TurnInv' /\ Starts
<1>1. /\ PumpTurns(pendingTurns, turn, held) /\ UNCHANGED <<req, reserved>>
      /\ \/ UNCHANGED <<held, releasing>>
         \/ held' \in {held, <<>>} /\ releasing' \in {held, <<>>}
            /\ (held' = <<>> \/ releasing' = <<>>)
  BY DEF ReleaseQuiescence, ReleaseDone, PumpNext, admissionVars
<1>2. /\ TurnsOrdered(turn, pendingTurns, active, reserved)
      /\ ClockAgrees(turn, reserved, nextTurnId, cancelledTurnIds)
      /\ Drivers(turn, reserved, req, held, releasing)
      /\ run.pc = "returning" => run.outcome \in Ends
  BY DEF TurnInv
<1>3. /\ TurnsOrdered(turn', pendingTurns', active', reserved)
      /\ ClockAgrees(turn', reserved, nextTurnId', cancelledTurnIds')
      /\ run'.pc = "returning" => run'.outcome \in Ends
      /\ \A t \in TurnIds : turn'[t].request = turn[t].request
      /\ \A t \in TurnIds :
            (turn[t].state # "running" /\ turn'[t].state = "running") =>
               /\ t = nextTurnId /\ ~ disposing
               /\ \A u \in 0..(t - 1) : turn[u].state \in Ends
  BY <1>1, <1>2, PumpOrder
<1>4. /\ Queued(held') \cup Queued(releasing') \subseteq Queued(held) \cup Queued(releasing)
      /\ Distinct(held') /\ Distinct(releasing')
      /\ Queued(held') \cap Queued(releasing') = {}
  <2>1. CASE UNCHANGED <<held, releasing>>
    BY <2>1, ListsKept
  <2>2. CASE held' \in {held, <<>>} /\ releasing' \in {held, <<>>}
             /\ (held' = <<>> \/ releasing' = <<>>)
    <3>1. Queued(<<>>) = {} /\ Distinct(<<>>) /\ Distinct(held)
      BY <1>2 DEF Queued, Distinct, Drivers
    <3> QED
      BY <2>2, <3>1
  <2> QED
    BY <1>1, <2>1, <2>2
<1>5. Drivers(turn', reserved, req', held', releasing')
  <2>1. \A t \in 0..(reserved - 1) : t \in TurnIds
    BY <1>2, CardinalityNat DEF TurnsOrdered, TurnIds
  <2>2. \A t \in 0..(reserved - 1) : turn'[t].request = turn[t].request
    BY <1>3, <2>1
  <2>3. req' \in [Requests -> ReqStates] /\ req' = req
    BY <1>1, <1>2 DEF Drivers
  <2> QED
    BY <1>2, <1>4, <2>2, <2>3, DriversKept
<1>6. TurnInv'
  BY <1>1, <1>3, <1>5 DEF TurnInv
<1>7. Starts
  BY <1>3 DEF Starts, Over, Ends
<1> QED
  BY <1>6, <1>7

-----------------------------------------------------------------------------
(* Cancellation.                                                            *)

LEMMA CancelActiveTurnTurns ==
    ASSUME TurnInv, NEW t \in TurnIds, CancelActiveTurn(t) PROVE TurnInv' /\ Starts
<1>1. /\ turn' = [turn EXCEPT ![t].aborted = TRUE]
      /\ UNCHANGED <<req, held, releasing, pendingTurns, active, reserved, nextTurnId,
                     cancelledTurnIds, run>>
  BY DEF CancelActiveTurn, admissionVars, clockVars
<1>2. /\ TurnsOrdered(turn, pendingTurns, active, reserved)
      /\ ClockAgrees(turn, reserved, nextTurnId, cancelledTurnIds)
      /\ Drivers(turn, reserved, req, held, releasing)
  BY DEF TurnInv
<1>3. /\ turn' \in [TurnIds -> Turns]
      /\ \A u \in TurnIds : turn'[u].state = turn[u].state /\ turn'[u].request = turn[u].request
  BY <1>1, <1>2 DEF TurnsOrdered, Turns
<1>4. \A u \in 0..(reserved - 1) : u \in TurnIds
  BY <1>2, CardinalityNat DEF TurnsOrdered, TurnIds
<1>5. TurnsOrdered(turn', pendingTurns', active', reserved')
  BY <1>1, <1>2, <1>3 DEF TurnsOrdered
<1>6. ClockAgrees(turn', reserved', nextTurnId', cancelledTurnIds')
  <2>1. \A u \in nextTurnId..(reserved - 1) : turn'[u].state = turn[u].state
    BY <1>2, <1>3, <1>4 DEF ClockAgrees, TurnsOrdered
  <2> QED
    BY <1>1, <1>2, <1>3, <2>1 DEF ClockAgrees
<1>7. Drivers(turn', reserved', req', held', releasing')
  <2>1. \A u \in 0..(reserved - 1) : turn'[u].request = turn[u].request
    BY <1>3, <1>4
  <2>2. /\ reserved' = reserved /\ req' = req /\ held' = held /\ releasing' = releasing
    BY <1>1
  <2>3. Drivers(turn, reserved, req, held, releasing)
    BY <1>2
  <2> DEFINE turns == turn'
  <2>4. \A u \in 0..(reserved - 1) : turns[u].request = turn[u].request
    BY <2>1
  <2> HIDE DEF turns
  <2>5. Drivers(turns, reserved, req, held, releasing)
    BY <2>3, <2>4 DEF Drivers
  <2> QED
    BY <2>2, <2>5 DEF turns
<1> QED
  BY <1>1, <1>3, <1>5, <1>6, <1>7 DEF TurnInv, Starts

(* Requests of steps that are cancelled are aborted at most.                *)
LEMMA CancelStepsRequests ==
    ASSUME TurnInv, NEW S, CancelSteps(S)
    PROVE  /\ req' \in [Requests -> ReqStates]
           /\ \A q \in Requests : req'[q] = "new" => req[q] = "new"
<1>1. PICK hit : req' = [r \in Requests |->
                           IF r \in hit /\ req[r] = "pending" THEN "aborted" ELSE req[r]]
  BY DEF CancelSteps
<1>2. req \in [Requests -> ReqStates]
  BY DEF TurnInv, Drivers
<1> QED
  BY <1>1, <1>2 DEF ReqStates

LEMMA CancelQueuedTurnTurns ==
    ASSUME TurnInv, NEW t \in TurnIds, CancelQueuedTurn(t) PROVE TurnInv' /\ Starts
<1>1. PICK i \in DOMAIN pendingTurns :
          /\ t = pendingTurns[i] /\ pendingTurns' = RemoveAt(pendingTurns, i)
          /\ turn' = [turn EXCEPT ![t].state = "cancelled", ![t].aborted = TRUE]
          /\ CancelSteps(StepsOf(t))
          /\ ~ (t < nextTurnId) => AdvanceTurnClock(nextTurnId, cancelledTurnIds \cup {t})
          /\ UNCHANGED <<held, releasing, active, reserved, run>>
  BY DEF CancelQueuedTurn, admissionVars
<1>2. /\ TurnsOrdered(turn, pendingTurns, active, reserved)
      /\ ClockAgrees(turn, reserved, nextTurnId, cancelledTurnIds)
      /\ Drivers(turn, reserved, req, held, releasing)
  BY DEF TurnInv
<1>3. reserved \in Nat /\ nextTurnId \in 0..reserved /\ t \in Nat
      /\ \A u \in 0..(reserved - 1) : u \in TurnIds
  BY <1>2, CardinalityNat DEF TurnsOrdered, ClockAgrees, TurnIds
<1>4. turn[t].state = "queued" /\ t >= nextTurnId /\ t < reserved /\ t # active
  <2>1. t \in Queued(pendingTurns)
    BY <1>1 DEF Queued
  <2> QED
    BY <1>2, <1>3, <2>1 DEF TurnsOrdered, ClockAgrees
<1>5. /\ turn' \in [TurnIds -> Turns] /\ turn'[t].state = "cancelled"
      /\ \A u \in TurnIds \ {t} : turn'[u] = turn[u]
      /\ \A u \in TurnIds : turn'[u].request = turn[u].request
  <2>1. turn \in [TurnIds -> Turns]
    BY <1>2 DEF TurnsOrdered
  <2>2. /\ \A u \in TurnIds \ {t} : turn'[u] = turn[u]
        /\ turn'[t] = [turn[t] EXCEPT !.state = "cancelled", !.aborted = TRUE]
    BY <1>1, <2>1
  <2>3. turn[t] \in Turns
    BY <2>1
  <2>4. /\ turn'[t] \in Turns /\ turn'[t].state = "cancelled"
        /\ turn'[t].request = turn[t].request
    BY <2>2, <2>3 DEF Turns, States
  <2>5. turn' = [u \in TurnIds |-> turn'[u]]
    BY <1>1, <2>1
  <2>6. \A u \in TurnIds : turn'[u] \in Turns
    BY <2>1, <2>2, <2>4
  <2> QED
    BY <2>2, <2>4, <2>5, <2>6
<1>6. TurnsOrdered(turn', pendingTurns', active', reserved')
  <2>1. pendingTurns \in Seq(TurnIds) /\ pendingTurns \in Seq(Nat) /\ Sorted(pendingTurns)
    <3>1. TurnIds \subseteq Nat
      BY DEF TurnIds
    <3> QED
      BY <1>2, <3>1, SeqMonotonic DEF TurnsOrdered
  <2>2. /\ pendingTurns' \in Seq(TurnIds) /\ Sorted(pendingTurns')
        /\ Queued(pendingTurns') = Queued(pendingTurns) \ {t}
    <3>1. pendingTurns' = Taken(pendingTurns, i)
      BY <1>1, <2>1, RemoveAtIsTaken
    <3> QED
      BY <1>1, <2>1, <3>1, SortedIsDistinct, SortedTaken, TakenProperties
  <2>3. Queued(pendingTurns') = {u \in TurnIds : turn'[u].state = "queued"}
    BY <1>2, <1>5, <2>2 DEF TurnsOrdered
  <2>4. /\ \A u \in TurnIds : turn'[u].state = "none" <=> u >= reserved
        /\ \A u \in TurnIds : turn'[u].state = "running" <=> u = active
    BY <1>2, <1>3, <1>4, <1>5 DEF TurnsOrdered
  <2> QED
    BY <1>1, <1>2, <1>5, <2>2, <2>3, <2>4 DEF TurnsOrdered
<1>7. ClockAgrees(turn', reserved', nextTurnId', cancelledTurnIds')
  <2> DEFINE C == cancelledTurnIds \cup {t}
  <2>1. C \in SUBSET (nextTurnId..(reserved - 1))
    <3>1. cancelledTurnIds \subseteq (nextTurnId + 1)..(reserved - 1)
      BY <1>2 DEF ClockAgrees
    <3>2. cancelledTurnIds \subseteq nextTurnId..(reserved - 1)
      BY <1>3, <3>1
    <3> QED
      BY <1>3, <1>4, <3>2
  <2>2. \A u \in TurnIds : turn'[u].state = "queued" => u >= nextTurnId /\ u \notin C
    BY <1>2, <1>5 DEF ClockAgrees
  <2>3. \A u \in nextTurnId..(reserved - 1) : turn'[u].state = "queued" \/ u \in C
    BY <1>2, <1>3, <1>5 DEF ClockAgrees
  <2>4. AdvanceTurnClock(nextTurnId, C)
    BY <1>1, <1>3, <1>4
  <2>5. reserved \in 0..Cardinality(Requests)
    BY <1>2 DEF TurnsOrdered
  <2> HIDE DEF C
  <2> QED
    BY <1>1, <1>3, <2>1, <2>2, <2>3, <2>4, <2>5, ClockAdvances
<1>8. Drivers(turn', reserved', req', held', releasing')
  <2>1. \A u \in 0..(reserved - 1) : turn'[u].request = turn[u].request
    BY <1>3, <1>5
  <2>2. /\ req' \in [Requests -> ReqStates]
        /\ \A q \in Requests : req'[q] = "new" => req[q] = "new"
    BY <1>1, CancelStepsRequests
  <2>3. /\ Queued(held') \cup Queued(releasing') \subseteq Queued(held) \cup Queued(releasing)
        /\ Distinct(held') /\ Distinct(releasing')
        /\ Queued(held') \cap Queued(releasing') = {}
    BY <1>1, ListsKept
  <2>4. Drivers(turn', reserved, req', held', releasing')
    BY <1>2, <2>1, <2>2, <2>3, DriversKept
  <2> QED
    BY <1>1, <2>4
<1>9. Starts
  BY <1>5 DEF Starts
<1> QED
  BY <1>1, <1>6, <1>7, <1>8, <1>9 DEF TurnInv

LEMMA CancelStepTurns ==
    ASSUME TurnInv, NEW r \in Requests, CancelStep(r) PROVE TurnInv' /\ Starts
<1>1. /\ CancelSteps({r})
      /\ UNCHANGED <<held, releasing, turn, pendingTurns, active, reserved, nextTurnId,
                     cancelledTurnIds, run>>
  BY DEF CancelStep, admissionVars, turnVars, clockVars
<1> QED
  BY <1>1, CancelStepsRequests, ListsKept, FrameTurns DEF TurnInv

LEMMA AbortRequestTurns ==
    ASSUME IInv, TurnInv, NEW r \in Requests, AbortRequest(r) PROVE TurnInv' /\ Starts
<1>1. /\ req' = [req EXCEPT ![r] = "aborted"] /\ releasing' = releasing
      /\ (\E i \in DOMAIN held : held' = RemoveAt(held, i)) \/ held' = held
      /\ UNCHANGED <<turn, pendingTurns, active, reserved, nextTurnId, cancelledTurnIds, run>>
  BY DEF AbortRequest, turnVars, clockVars
<1>2. Drivers(turn, reserved, req, held, releasing) /\ held \in Seq(Requests)
  BY DEF TurnInv, IInv, ControlInv
<1>3. /\ req' \in [Requests -> ReqStates]
      /\ \A q \in Requests : req'[q] = "new" => req[q] = "new"
  BY <1>1, <1>2 DEF Drivers, ReqStates
<1>4. Distinct(held') /\ Queued(held') \subseteq Queued(held)
  <2>1. ASSUME NEW i \in DOMAIN held, held' = RemoveAt(held, i)
        PROVE  Distinct(held') /\ Queued(held') \subseteq Queued(held)
    BY <1>2, <2>1, RemoveAtIsTaken, TakenProperties DEF Drivers
  <2> QED
    BY <1>1, <1>2, <2>1 DEF Drivers
<1>5. /\ Queued(held') \cup Queued(releasing') \subseteq Queued(held) \cup Queued(releasing)
      /\ Distinct(releasing') /\ Queued(held') \cap Queued(releasing') = {}
  BY <1>1, <1>2, <1>4 DEF Drivers
<1> QED
  BY <1>1, <1>3, <1>4, <1>5, FrameTurns DEF TurnInv

LEMMA DisposeTurns == ASSUME TurnInv, Dispose PROVE TurnInv' /\ Starts
<1> DEFINE doomed == Queued(pendingTurns)
<1>1. /\ turn' = [t \in TurnIds |->
                    IF t \in doomed
                    THEN [turn[t] EXCEPT !.state = "cancelled", !.aborted = TRUE]
                    ELSE IF t = active THEN [turn[t] EXCEPT !.aborted = TRUE]
                    ELSE turn[t]]
      /\ \E hit : req' = [r \in Requests |->
                            IF r \in hit /\ req[r] = "pending" THEN "aborted" ELSE req[r]]
      /\ AdvanceTurnClock(nextTurnId, cancelledTurnIds \cup doomed)
      /\ pendingTurns' = <<>> /\ held' = <<>>
      /\ UNCHANGED <<releasing, active, reserved, run>>
  BY DEF Dispose, ToSet, Queued
<1>2. /\ TurnsOrdered(turn, pendingTurns, active, reserved)
      /\ ClockAgrees(turn, reserved, nextTurnId, cancelledTurnIds)
      /\ Drivers(turn, reserved, req, held, releasing)
  BY DEF TurnInv
<1>3. reserved \in Nat /\ nextTurnId \in 0..reserved
      /\ \A u \in 0..(reserved - 1) : u \in TurnIds
  BY <1>2, CardinalityNat DEF TurnsOrdered, ClockAgrees, TurnIds
<1>4. /\ doomed = {t \in TurnIds : turn[t].state = "queued"}
      /\ \A t \in doomed : t \in nextTurnId..(reserved - 1) /\ t # active
  <2>1. doomed = {t \in TurnIds : turn[t].state = "queued"}
    BY <1>2 DEF TurnsOrdered
  <2>2. ASSUME NEW t \in doomed PROVE t \in nextTurnId..(reserved - 1) /\ t # active
    <3>1. t \in TurnIds /\ t \in Nat /\ turn[t].state = "queued"
      BY <2>1 DEF TurnIds
    <3>2. t >= nextTurnId /\ ~ (t >= reserved) /\ t # active
      BY <1>2, <3>1 DEF TurnsOrdered, ClockAgrees
    <3> QED
      BY <1>3, <3>1, <3>2
  <2> HIDE DEF doomed
  <2> QED
    BY <2>1, <2>2
<1> HIDE DEF doomed
<1>5. /\ turn' \in [TurnIds -> Turns]
      /\ \A t \in TurnIds : turn'[t].request = turn[t].request
      /\ \A t \in doomed : turn'[t].state = "cancelled"
      /\ \A t \in TurnIds \ doomed : turn'[t].state = turn[t].state
  <2>1. turn \in [TurnIds -> Turns]
    BY <1>2 DEF TurnsOrdered
  <2>2. \A t \in TurnIds : turn[t] \in Turns
    BY <2>1
  <2> QED
    BY <1>1, <1>4, <2>2 DEF Turns, States
<1>6. TurnsOrdered(turn', pendingTurns', active', reserved')
  <2>1. /\ pendingTurns' \in Seq(TurnIds) /\ Sorted(pendingTurns') /\ Queued(pendingTurns') = {}
    BY <1>1, EmptyQueue
  <2>2. /\ \A t \in TurnIds : turn'[t].state # "queued"
        /\ \A t \in TurnIds : turn'[t].state = "none" <=> turn[t].state = "none"
        /\ \A t \in TurnIds : turn'[t].state = "running" <=> turn[t].state = "running"
    BY <1>4, <1>5
  <2> QED
    BY <1>1, <1>2, <1>5, <2>1, <2>2 DEF TurnsOrdered
<1>7. ClockAgrees(turn', reserved', nextTurnId', cancelledTurnIds')
  <2> DEFINE C == cancelledTurnIds \cup doomed
  <2>1. C \in SUBSET (nextTurnId..(reserved - 1))
    <3>1. cancelledTurnIds \subseteq (nextTurnId + 1)..(reserved - 1)
      BY <1>2 DEF ClockAgrees
    <3>2. cancelledTurnIds \subseteq nextTurnId..(reserved - 1)
      BY <1>3, <3>1
    <3> QED
      BY <1>3, <1>4, <3>2
  <2>2. \A u \in TurnIds : turn'[u].state = "queued" => u >= nextTurnId /\ u \notin C
    BY <1>4, <1>5
  <2>3. \A u \in nextTurnId..(reserved - 1) : turn'[u].state = "queued" \/ u \in C
    BY <1>2, <1>3, <1>4 DEF ClockAgrees
  <2>4. AdvanceTurnClock(nextTurnId, C) /\ reserved \in 0..Cardinality(Requests)
    BY <1>1, <1>2 DEF TurnsOrdered
  <2> HIDE DEF C
  <2> QED
    BY <1>1, <1>3, <2>1, <2>2, <2>3, <2>4, ClockAdvances
<1>8. Drivers(turn', reserved', req', held', releasing')
  <2>1. \A u \in 0..(reserved - 1) : turn'[u].request = turn[u].request
    BY <1>3, <1>5
  <2>2. /\ req' \in [Requests -> ReqStates]
        /\ \A q \in Requests : req'[q] = "new" => req[q] = "new"
    <3>1. PICK hit : req' = [r \in Requests |->
                               IF r \in hit /\ req[r] = "pending" THEN "aborted" ELSE req[r]]
      BY <1>1
    <3>2. req \in [Requests -> ReqStates]
      BY <1>2 DEF Drivers
    <3> QED
      BY <3>1, <3>2 DEF ReqStates
  <2>3. Queued(held') = {} /\ Distinct(held') /\ Distinct(releasing')
    <3>1. Distinct(releasing)
      BY <1>2 DEF Drivers
    <3> QED
      BY <1>1, <3>1, EmptyQueue
  <2>4. Queued(held') \cup Queued(releasing') \subseteq Queued(held) \cup Queued(releasing)
    BY <1>1, <2>3
  <2>5. Drivers(turn', reserved, req', held', releasing')
    BY <1>2, <2>1, <2>2, <2>3, <2>4, DriversKept
  <2> QED
    BY <1>1, <2>5
<1>9. Starts
  BY <1>5 DEF Starts
<1> QED
  BY <1>1, <1>6, <1>7, <1>8, <1>9 DEF TurnInv

-----------------------------------------------------------------------------
(* The loop of the active turn.                                             *)

(* run() is left with one of the ends of a turn.                            *)
LEMMA LeaveRunTurns ==
    ASSUME IInv, TurnInv, NEW o \in Ends, LeaveRun(o) PROVE TurnInv' /\ Starts
<1>1. PICK cut \in {{r \in ToSet(Items) : r \in TurnScoped /\ req[r] = "pending"}} :
          req' = [r \in Requests |-> IF r \in cut THEN "aborted" ELSE req[r]]
  BY DEF LeaveRun
<1>2. /\ run' = [run EXCEPT !.pc = "returning", !.current = None, !.outcome = o]
      /\ UNCHANGED <<held, releasing, turn, pendingTurns, active, reserved, nextTurnId,
                     cancelledTurnIds>>
  BY DEF LeaveRun, keptByRun, clockVars
<1>3. run'.outcome = o
  BY <1>2 DEF IInv, ControlInv
<1>4. /\ req' \in [Requests -> ReqStates]
      /\ \A q \in Requests : req'[q] = "new" => req[q] = "new"
  BY <1>1 DEF TurnInv, Drivers, ReqStates
<1>5. /\ Queued(held') \cup Queued(releasing') \subseteq Queued(held) \cup Queued(releasing)
      /\ Distinct(held') /\ Distinct(releasing')
      /\ Queued(held') \cap Queued(releasing') = {}
  BY <1>2, ListsKept
<1> QED
  BY <1>2, <1>3, <1>4, <1>5, FrameTurns

LEMMA LoopTurns ==
    ASSUME IInv, TurnInv, Begin \/ Execute \/ Complete \/ Recover PROVE TurnInv' /\ Starts
<1>1. CASE \E o \in Ends : LeaveRun(o)
  BY <1>1, LeaveRunTurns
<1>2. CASE BeginTooMany \/ BeginStep \/ FinishStep \/ FailStep \/ SkipStep \/ CompleteStep
           \/ Retry
  <2>1. /\ UNCHANGED <<held, releasing, turn, pendingTurns, active, reserved, nextTurnId,
                       cancelledTurnIds>>
        /\ run'.pc # "returning"
    <3>1. CASE BeginTooMany
      BY <3>1 DEF BeginTooMany, keptByRun, clockVars, IInv, ControlInv
    <3>2. CASE BeginStep
      BY <3>2 DEF BeginStep, keptByRun, clockVars, IInv, ControlInv
    <3>3. CASE FinishStep
      BY <3>3 DEF FinishStep, keptByRun, clockVars, IInv, ControlInv
    <3>4. CASE FailStep \/ SkipStep
      BY <3>4 DEF FailStep, SkipStep, keptByRun, clockVars, IInv, ControlInv
    <3>5. CASE CompleteStep
      <4>1. PICK next \in {"begin", "recovering"} :
                run' = [run EXCEPT !.pc = next, !.current = None]
        BY <3>5 DEF CompleteStep
      <4>2. run'.pc = next
        BY <4>1 DEF IInv, ControlInv
      <4> QED
        BY <3>5, <4>2 DEF CompleteStep, keptByRun, clockVars
    <3>6. CASE Retry
      BY <3>6 DEF Retry, keptByRun, clockVars, IInv, ControlInv
    <3> QED
      BY <1>2, <3>1, <3>2, <3>3, <3>4, <3>5, <3>6
  <2>2. /\ req' \in [Requests -> ReqStates]
        /\ \A q \in Requests : req'[q] = "new" => req[q] = "new"
    <3>1. req \in [Requests -> ReqStates]
      BY DEF TurnInv, Drivers
    <3>2. CASE req' = req
      BY <3>1, <3>2
    <3>3. CASE BeginStep
      <4>1. PICK batch \in {{Driver} \cup (ToSet(Items) \cap Mergeable)} :
                req' = [r \in Requests |-> IF r \in batch THEN "materialized" ELSE req[r]]
        BY <3>3 DEF BeginStep
      <4> QED
        BY <3>1, <4>1 DEF ReqStates
    <3>4. CASE FinishStep /\ req' # req
      <4>1. PICK r \in Continuation : req' = [req EXCEPT ![r] = "pending"]
        BY <3>4 DEF FinishStep
      <4> QED
        BY <3>1, <4>1 DEF ReqStates
    <3> QED
      BY <1>2, <3>2, <3>3, <3>4
         DEF BeginTooMany, FailStep, SkipStep, CompleteStep, Retry
  <2>3. /\ Queued(held') \cup Queued(releasing') \subseteq Queued(held) \cup Queued(releasing)
        /\ Distinct(held') /\ Distinct(releasing')
        /\ Queued(held') \cap Queued(releasing') = {}
    BY <2>1, ListsKept
  <2> QED
    BY <2>1, <2>2, <2>3, FrameTurns
<1> QED
  BY <1>1, <1>2 DEF Begin, Execute, Complete, Recover, BeginAborted, BeginIdle, StopTurn,
     AbortTurn, GiveUp, Ends

(* The turn is over, and no turn is active until the next one is started.   *)
LEMMA ReleaseActiveTurns == ASSUME IInv, TurnInv, ReleaseActiveTurn PROVE TurnInv' /\ Starts
<1>1. /\ turn' = [turn EXCEPT ![active].state = run.outcome]
      /\ CancelSteps(StepsOf(active))
      /\ active' = None /\ run' = NoRun
      /\ UNCHANGED <<held, releasing, pendingTurns, reserved, nextTurnId, cancelledTurnIds>>
  BY DEF ReleaseActiveTurn, admissionVars, clockVars
<1>2. /\ TurnsOrdered(turn, pendingTurns, active, reserved)
      /\ ClockAgrees(turn, reserved, nextTurnId, cancelledTurnIds)
      /\ Drivers(turn, reserved, req, held, releasing)
  BY DEF TurnInv
<1>3. run.outcome \in Ends /\ active \in TurnIds
  <2>1. run.pc = "returning"
    BY DEF ReleaseActiveTurn, At
  <2>2. active # None
    BY <2>1 DEF IInv, ControlInv
  <2> QED
    BY <1>2, <2>1, <2>2 DEF TurnInv, TurnsOrdered
<1>4. /\ turn' \in [TurnIds -> Turns] /\ turn'[active].state \in Ends
      /\ \A u \in TurnIds \ {active} : turn'[u] = turn[u]
      /\ \A u \in TurnIds : turn'[u].request = turn[u].request
  <2>1. turn \in [TurnIds -> Turns] /\ turn[active] \in Turns
    BY <1>2, <1>3 DEF TurnsOrdered
  <2>2. /\ \A u \in TurnIds \ {active} : turn'[u] = turn[u]
        /\ turn'[active] = [turn[active] EXCEPT !.state = run.outcome]
    BY <1>1, <1>3, <2>1
  <2>3. /\ turn'[active] \in Turns /\ turn'[active].state = run.outcome
        /\ turn'[active].request = turn[active].request
    BY <1>3, <2>1, <2>2 DEF Turns, States, Ends
  <2>4. \A u \in TurnIds : turn'[u] \in Turns
    BY <2>1, <2>2, <2>3
  <2>5. turn' = [u \in TurnIds |-> turn'[u]]
    BY <1>1, <2>1
  <2> QED
    BY <1>3, <2>2, <2>3, <2>4, <2>5
<1>5. TurnsOrdered(turn', pendingTurns, None, reserved)
  <2>1. turn[active].state = "running"
    BY <1>2, <1>3 DEF TurnsOrdered
  <2>2. /\ \A u \in TurnIds : turn'[u].state = "none" <=> u >= reserved
        /\ \A u \in TurnIds : turn'[u].state = "queued" <=> turn[u].state = "queued"
    BY <1>2, <1>3, <1>4, <2>1 DEF TurnsOrdered, Ends
  <2>3. \A u \in TurnIds : u # None /\ turn'[u].state # "running"
    BY <1>2, <1>3, <1>4, NoneAssumption DEF TurnsOrdered, Ends, TurnIds
  <2> QED
    BY <1>2, <1>4, <2>2, <2>3 DEF TurnsOrdered
<1>6. ClockAgrees(turn', reserved, nextTurnId, cancelledTurnIds)
  <2>1. \A u \in TurnIds : turn'[u].state = "queued" <=> turn[u].state = "queued"
    BY <1>2, <1>3, <1>4 DEF TurnsOrdered, Ends
  <2>2. \A u \in nextTurnId..(reserved - 1) : u \in TurnIds
    BY <1>2, CardinalityNat DEF TurnsOrdered, ClockAgrees, TurnIds
  <2> QED
    BY <1>2, <2>1, <2>2 DEF ClockAgrees
<1>7. Drivers(turn', reserved, req', held', releasing')
  <2>1. \A u \in 0..(reserved - 1) : u \in TurnIds
    BY <1>2, CardinalityNat DEF TurnsOrdered, TurnIds
  <2>2. \A u \in 0..(reserved - 1) : turn'[u].request = turn[u].request
    BY <1>4, <2>1
  <2>3. /\ req' \in [Requests -> ReqStates]
        /\ \A q \in Requests : req'[q] = "new" => req[q] = "new"
    BY <1>1, CancelStepsRequests
  <2>4. /\ Queued(held') \cup Queued(releasing') \subseteq Queued(held) \cup Queued(releasing)
        /\ Distinct(held') /\ Distinct(releasing')
        /\ Queued(held') \cap Queued(releasing') = {}
    BY <1>1, ListsKept
  <2> QED
    BY <1>2, <2>2, <2>3, <2>4, DriversKept
<1>8. Starts
  BY <1>3, <1>4 DEF Starts, Ends
<1> QED
  BY <1>1, <1>5, <1>6, <1>7, <1>8 DEF TurnInv, NoRun

-----------------------------------------------------------------------------
LEMMA FrameCalls ==
    ASSUME TurnInv, TryAcquireQuiescence \/ (\E w \in Waiters : Settled(w)) \/ UNCHANGED vars
    PROVE  TurnInv' /\ Starts
<1>1. UNCHANGED <<req, held, releasing, turn, pendingTurns, active, reserved, nextTurnId,
                  cancelledTurnIds, run>>
  BY DEF TryAcquireQuiescence, Settled, vars, admissionVars, turnVars, clockVars
<1>2. /\ Queued(held') \cup Queued(releasing') \subseteq Queued(held) \cup Queued(releasing)
      /\ Distinct(held') /\ Distinct(releasing')
      /\ Queued(held') \cap Queued(releasing') = {}
  BY <1>1, ListsKept
<1>3. /\ req' \in [Requests -> ReqStates]
      /\ \A q \in Requests : req'[q] = "new" => req[q] = "new"
  BY <1>1 DEF TurnInv, Drivers
<1> QED
  BY <1>1, <1>2, <1>3, FrameTurns DEF TurnInv

LEMMA NextTurns == ASSUME IInv, TurnInv, [Next]_vars PROVE TurnInv' /\ Starts
<1>1. CASE Callers
  <2>1. CASE \E r \in Requests : Enqueue(r) \/ CancelStep(r) \/ AbortRequest(r)
    BY <2>1, EnqueueTurns, CancelStepTurns, AbortRequestTurns
  <2>2. CASE \E t \in TurnIds : CancelActiveTurn(t) \/ CancelQueuedTurn(t)
    BY <2>2, CancelActiveTurnTurns, CancelQueuedTurnTurns
  <2>3. CASE (\E w \in Waiters : Settled(w)) \/ TryAcquireQuiescence
    BY <2>3, FrameCalls
  <2>4. CASE Dispose
    BY <2>4, DisposeTurns
  <2> QED
    BY <1>1, <2>1, <2>2, <2>3, <2>4 DEF Callers
<1>2. CASE ReleaseQuiescence \/ ReleaseDone \/ PumpNext
  BY <1>2, PumpingTurns
<1>3. CASE AdmitHeld
  BY <1>3, AdmitHeldTurns
<1>4. CASE Begin \/ Execute \/ Complete \/ Recover
  BY <1>4, LoopTurns
<1>5. CASE ReleaseActiveTurn
  BY <1>5, ReleaseActiveTurns
<1>6. CASE UNCHANGED vars
  BY <1>6, FrameCalls
<1> QED
  BY <1>1, <1>2, <1>3, <1>4, <1>5, <1>6 DEF Next, Stopped

(* Ids are reserved in order, each for a turn with a request of its own,    *)
(* and the replayable clock of turnOps agrees with what the loop reserved:  *)
(* it stands at the first id that is neither over nor running.              *)
THEOREM TurnInvariant == Spec => []TurnInv
<1>1. Init => TurnInv
  BY TurnInitInv
<1>2. IInv /\ TurnInv /\ [Next]_vars => TurnInv'
  BY NextTurns
<1> QED
  BY <1>1, <1>2, InductiveInvariant, PTL DEF Spec

(* Turns never overlap and wait in the order of their ids, whatever is      *)
(* enqueued, held, cancelled or disposed of, and in whatever order.         *)
THEOREM TurnsConsistentHolds == Spec => []TurnsConsistent
<1>1. TurnInv => TurnsConsistent
  <2> SUFFICES ASSUME TurnInv PROVE TurnsConsistent
    OBVIOUS
  <2>1. ToSet(pendingTurns) = Queued(pendingTurns)
    BY DEF ToSet, Queued
  <2> QED
    BY <2>1 DEF TurnInv, TurnsOrdered, TurnsConsistent, Sorted
<1> QED
  BY <1>1, TurnInvariant, PTL

(* A turn starts at the id the durable clock names, after every earlier     *)
(* turn is over, and never in a loop that is disposed of.                   *)
THEOREM StartsInOrderHolds == Spec => StartsInOrder
<1>1. IInv /\ TurnInv /\ [Next]_vars =>
         [\A t \in TurnIds : (turn[t].state # "running" /\ turn'[t].state = "running") =>
            /\ t = nextTurnId
            /\ \A u \in 0..(t - 1) : Over(u)
            /\ ~ disposing]_vars
  BY NextTurns DEF Starts
<1> QED
  BY <1>1, TurnInvariant, InductiveInvariant, PTL DEF Spec, StartsInOrder

-----------------------------------------------------------------------------
(* The requests: where each of them is, from enqueue() to its end.          *)

StepRecords == [turn : TurnIds \cup {None},
                state : {"none", "queued", "running", "completed", "cancelled"},
                result : {"none", "completed", "cancelled"}]

ReqTypes ==
    /\ assigned \in [Requests -> {"none", "pending", "resolved", "rejected"}]
    /\ step \in [Requests -> StepRecords]
    /\ queue \in [TurnIds -> Seq(Requests)]

(* The lists of requests in no turn have nothing in common, and admitting   *)
(* the held ones is the business of releaseQuiescence alone.                *)
ListsApart ==
    /\ releasing # <<>> => draining
    /\ Distinct(standalone)
    /\ Queued(standalone) \cap (Queued(held) \cup Queued(releasing)) = {}

Listed(r) == r \in Queued(standalone) \cup Queued(held) \cup Queued(releasing)

(* A request is in a turn from its assignment on, which is final, and in    *)
(* that turn's queue or in none.  Pending, it is where its receipt says.    *)
Placed(r) ==
    /\ req[r] = "new" => step[r].turn = None
    /\ Listed(r) => req[r] \in {"pending", "aborted"} /\ assigned[r] # "resolved"
    /\ assigned[r] = "resolved" <=> step[r].turn # None
    /\ step[r].turn # None => step[r].turn < reserved /\ step[r].state # "none"
    /\ step[r].state \in {"completed", "cancelled"} => step[r].result # "none"
    /\ \A t \in TurnIds : r \in Queued(queue[t]) => step[r].turn = t
    /\ req[r] = "pending" =>
          \/ assigned[r] = "pending" /\ Listed(r)
          \/ /\ assigned[r] = "resolved"
             /\ step[r].state = "queued" /\ step[r].result = "none"
             /\ r \in Queued(queue[step[r].turn])
          \/ assigned[r] = "rejected"
    /\ step[r].turn # None /\ Over(step[r].turn) =>
          ~ Unfinished(step[r]) /\ req[r] # "pending"

(* The step that runs belongs to the active turn and is in the context.     *)
RunHolds ==
    /\ run.pc \in {"executing", "finishing"} => run.current # None
    /\ run.current # None =>
          /\ run.current \in Requests /\ active # None
          /\ step[run.current].turn = active
          /\ req[run.current] = "materialized"

ReqInv == ReqTypes /\ ListsApart /\ RunHolds /\ \A r \in Requests : Placed(r)

(* What every step but two leaves alone: no request enters the context, and *)
(* none that is there comes back to a queue.                                *)
NoneEnters ==
    \A h \in Requests :
        /\ req'[h] = "materialized" <=> req[h] = "materialized"
        /\ req[h] = "materialized" =>
              \A t \in TurnIds : h \in Queued(queue'[t]) => h \in Queued(queue[t])

LEMMA ReqInitInv == Init => ReqInv
<1> SUFFICES ASSUME Init PROVE ReqInv
  OBVIOUS
<1>1. Queued(<<>>) = {} /\ Distinct(<<>>)
  BY EmptyQueue DEF Distinct
<1>2. ReqTypes
  BY DEF Init, ReqTypes, StepRecords, NoStep
<1>3. ListsApart /\ RunHolds
  BY <1>1 DEF Init, ListsApart, RunHolds, NoRun
<1>4. \A r \in Requests : Placed(r)
  BY <1>1 DEF Init, Placed, Listed, NoStep
<1> QED
  BY <1>2, <1>3, <1>4 DEF ReqInv

LEMMA NoneIsNoTurn == None \notin TurnIds
BY NoneAssumption DEF TurnIds

(* pumpTurns ends no turn, and the turn it may start has no step yet.       *)
LEMMA PumpRequests ==
    ASSUME NEW pend, NEW turns \in [TurnIds -> Turns], NEW hold,
           PumpTurns(pend, turns, hold)
    PROVE  /\ \A t \in TurnIds : turn'[t].state \in Ends => turns[t].state \in Ends
           /\ \/ UNCHANGED <<run, active>>
              \/ active = None /\ run' = [NoRun EXCEPT !.pc = "begin"]
<1>1. CASE turn' = turns /\ UNCHANGED <<run, active>>
  BY <1>1
<1>2. CASE turn' = [turns EXCEPT ![Head(pend)].state = "running"]
           /\ active = None /\ run' = [NoRun EXCEPT !.pc = "begin"]
  <2>1. ASSUME NEW t \in TurnIds, turn'[t].state \in Ends PROVE turns[t].state \in Ends
    <3>1. CASE t = Head(pend)
      <4>1. turn'[t].state = "running"
        BY <1>2, <3>1 DEF Turns
      <4> QED
        BY <2>1, <4>1 DEF Ends
    <3>2. CASE t # Head(pend)
      BY <1>2, <2>1, <3>2
    <3> QED
      BY <3>1, <3>2
  <2> QED
    BY <1>2, <2>1
<1> QED
  BY <1>1, <1>2 DEF PumpTurns, MayNotPump

(* Steps that leave the requests and their queues alone.                    *)
LEMMA FrameRequests ==
    ASSUME ReqInv, UNCHANGED <<req, assigned, step, queue, reserved>>,
           \A t \in TurnIds : turn'[t].state \in Ends => turn[t].state \in Ends,
           \A r \in Requests : Listed(r)' <=> Listed(r)
    PROVE  ReqTypes' /\ (\A r \in Requests : Placed(r)') /\ NoneEnters
<1>1. ReqTypes'
  BY DEF ReqInv, ReqTypes
<1>2. ASSUME NEW r \in Requests PROVE Placed(r)'
  <2>1. Placed(r) /\ (Listed(r)' <=> Listed(r)) /\ step[r].turn \in TurnIds \cup {None}
    BY DEF ReqInv, ReqTypes, StepRecords
  <2>2. step[r].turn # None /\ Over(step[r].turn)' => Over(step[r].turn)
    BY <2>1 DEF Over, Ends
  <2> QED
    BY <2>1, <2>2 DEF Placed
<1>3. NoneEnters
  BY DEF NoneEnters
<1> QED
  BY <1>1, <1>2, <1>3

LEMMA FrameCallsRequests ==
    ASSUME TurnInv, ReqInv,
           \/ TryAcquireQuiescence \/ (\E w \in Waiters : Settled(w))
           \/ (\E t \in TurnIds : CancelActiveTurn(t)) \/ UNCHANGED vars
    PROVE  ReqInv' /\ NoneEnters
<1>1. /\ UNCHANGED <<req, assigned, step, queue, reserved, standalone, held, releasing,
                     draining, active, run>>
      /\ turn' = turn \/ \E t \in TurnIds : turn' = [turn EXCEPT ![t].aborted = TRUE]
  BY DEF TryAcquireQuiescence, Settled, CancelActiveTurn, vars, admissionVars, turnVars,
         clockVars
<1>2. \A t \in TurnIds : turn'[t].state = turn[t].state
  <2>1. turn \in [TurnIds -> Turns]
    BY DEF TurnInv, TurnsOrdered
  <2>2. ASSUME NEW u \in TurnIds, turn' = [turn EXCEPT ![u].aborted = TRUE],
               NEW t \in TurnIds
        PROVE  turn'[t].state = turn[t].state
    <3>1. turn[t] \in Turns
      BY <2>1
    <3> QED
      BY <2>1, <2>2, <3>1 DEF Turns
  <2> QED
    BY <1>1, <2>2
<1>3. \A r \in Requests : Listed(r)' <=> Listed(r)
  BY <1>1 DEF Listed
<1>4. ReqTypes' /\ (\A r \in Requests : Placed(r)') /\ NoneEnters
  BY <1>1, <1>2, <1>3, FrameRequests
<1>5. ListsApart' /\ RunHolds'
  BY <1>1 DEF ReqInv, ListsApart, RunHolds
<1> QED
  BY <1>4, <1>5 DEF ReqInv

LEMMA PumpingRequests ==
    ASSUME IInv, TurnInv, ReqInv, ReleaseQuiescence \/ ReleaseDone \/ PumpNext
    PROVE  ReqInv' /\ NoneEnters
<1>1. /\ PumpTurns(pendingTurns, turn, held)
      /\ UNCHANGED <<req, assigned, step, queue, reserved, standalone>>
  BY DEF ReleaseQuiescence, ReleaseDone, PumpNext, admissionVars
<1>2. turn \in [TurnIds -> Turns]
  BY DEF TurnInv, TurnsOrdered
<1>3. Queued(<<>>) = {}
  BY EmptyQueue
<1>4. /\ Queued(held') \cup Queued(releasing') = Queued(held) \cup Queued(releasing)
      /\ releasing' # <<>> => draining'
  <2>1. CASE ReleaseQuiescence
    <3>1. releasing = <<>>
      BY <2>1 DEF ReleaseQuiescence, IInv, ControlInv, ReqInv, ListsApart
    <3> QED
      BY <1>3, <2>1, <3>1 DEF ReleaseQuiescence
  <2>2. CASE ReleaseDone \/ PumpNext
    BY <2>2 DEF ReleaseDone, PumpNext, admissionVars, ReqInv, ListsApart
  <2> QED
    BY <2>1, <2>2
<1>5. \A r \in Requests : Listed(r)' <=> Listed(r)
  BY <1>1, <1>4 DEF Listed
<1>6. /\ \A t \in TurnIds : turn'[t].state \in Ends => turn[t].state \in Ends
      /\ \/ UNCHANGED <<run, active>>
         \/ active = None /\ run' = [NoRun EXCEPT !.pc = "begin"]
  BY <1>1, <1>2, PumpRequests
<1>7. ReqTypes' /\ (\A r \in Requests : Placed(r)') /\ NoneEnters
  BY <1>1, <1>5, <1>6, FrameRequests
<1>8. ListsApart'
  BY <1>1, <1>4 DEF ReqInv, ListsApart
<1>9. RunHolds'
  BY <1>1, <1>6 DEF ReqInv, RunHolds, NoRun
<1> QED
  BY <1>7, <1>8, <1>9 DEF ReqInv

(* Steps are cancelled, and with them every step of a turn that is over.    *)
LEMMA CancelRequests ==
    ASSUME ReqInv, NEW S, CancelSteps(S), TurnInv,
           UNCHANGED <<assigned, queue, reserved, standalone, held, releasing, draining>>,
           \A t \in TurnIds : turn'[t].state \in Ends =>
               turn[t].state \in Ends \/ StepsOf(t) \subseteq S,
           UNCHANGED <<run, active>> \/ run' = NoRun
    PROVE  ReqInv' /\ NoneEnters
<1> DEFINE hit == {r \in S : Unfinished(step[r])}
<1>1. /\ step' = [r \in Requests |-> IF r \in hit THEN CancelledStep(step[r]) ELSE step[r]]
      /\ req' = [r \in Requests |->
                   IF r \in hit /\ req[r] = "pending" THEN "aborted" ELSE req[r]]
  BY DEF CancelSteps
<1> HIDE DEF hit
<1>2. /\ step \in [Requests -> StepRecords] /\ queue \in [TurnIds -> Seq(Requests)]
      /\ \A r \in Requests : Placed(r)
  BY DEF ReqInv, ReqTypes
<1>3. ASSUME NEW r \in Requests
      PROVE  /\ step[r] \in StepRecords /\ step'[r] \in StepRecords
             /\ step'[r].turn = step[r].turn
             /\ r \notin hit => step'[r] = step[r] /\ req'[r] = req[r]
             /\ r \in hit => /\ step'[r].state = "cancelled" /\ step'[r].result # "none"
                             /\ req'[r] # "pending"
                             /\ req'[r] = req[r] \/ (req[r] = "pending" /\ req'[r] = "aborted")
  BY <1>1, <1>2 DEF StepRecords, CancelledStep, SettleResult
<1>4. ReqTypes'
  <2>1. step' \in [Requests -> StepRecords]
    BY <1>1, <1>3
  <2> QED
    BY <2>1 DEF ReqInv, ReqTypes
<1>5. ASSUME NEW r \in Requests PROVE Placed(r)'
  <2>1. Placed(r) /\ (Listed(r)' <=> Listed(r)) /\ step[r].turn \in TurnIds \cup {None}
    BY <1>2, <1>3 DEF Listed, StepRecords
  <2>2. CASE r \in hit
    <3>2. ~ Unfinished(step'[r]) /\ step'[r].state # "none"
      BY <1>3, <2>2 DEF Unfinished
    <3>3. UNCHANGED <<assigned[r], queue, reserved, step[r].turn>>
      BY <1>3
    <3>4. /\ req'[r] = "new" => step[r].turn = None
          /\ Listed(r) => req'[r] \in {"pending", "aborted"} /\ assigned[r] # "resolved"
      BY <1>3, <2>1, <2>2 DEF Placed
    <3> QED
      BY <1>3, <2>1, <2>2, <3>2, <3>3, <3>4 DEF Placed, Unfinished
  <2>3. CASE r \notin hit
    <3>1. step[r].turn # None /\ Over(step[r].turn)' =>
              Over(step[r].turn) \/ ~ Unfinished(step[r])
      <4>1. step[r].turn # None => r \in StepsOf(step[r].turn)
        BY DEF StepsOf
      <4> QED
        BY <1>3, <2>1, <2>3, <4>1 DEF Over, Ends, hit
    <3>2. ~ Unfinished(step[r]) /\ step[r].turn # None => req[r] # "pending"
      BY <2>1, NoneAssumption DEF Placed, Unfinished
    <3> QED
      BY <1>3, <2>1, <2>3, <3>1, <3>2 DEF Placed
  <2> QED
    BY <2>2, <2>3
<1>6. ListsApart'
  BY DEF ReqInv, ListsApart
<1>7. RunHolds'
  <2>1. CASE run' = NoRun
    BY <2>1 DEF RunHolds, NoRun
  <2>2. CASE UNCHANGED <<run, active>>
    <3>1. RunHolds
      BY DEF ReqInv
    <3>2. ASSUME run.current # None
          PROVE  /\ step'[run.current].turn = active
                 /\ req'[run.current] = "materialized"
      BY <1>3, <3>1, <3>2 DEF RunHolds
    <3> QED
      BY <2>2, <3>1, <3>2 DEF RunHolds
  <2> QED
    BY <2>1, <2>2
<1>8. NoneEnters
  BY <1>3 DEF NoneEnters
<1> QED
  BY <1>4, <1>5, <1>6, <1>7, <1>8 DEF ReqInv

LEMMA CancelledRequests ==
    ASSUME TurnInv, ReqInv,
           \/ \E r \in Requests : CancelStep(r)
           \/ \E t \in TurnIds : CancelQueuedTurn(t)
           \/ ReleaseActiveTurn
    PROVE  ReqInv' /\ NoneEnters
<1>1. turn \in [TurnIds -> Turns]
  BY DEF TurnInv, TurnsOrdered
<1>2. CASE \E r \in Requests : CancelStep(r)
  BY <1>2, CancelRequests DEF CancelStep, admissionVars, turnVars
<1>3. CASE \E t \in TurnIds : CancelQueuedTurn(t)
  <2>1. PICK t \in TurnIds : CancelQueuedTurn(t)
    BY <1>3
  <2>2. /\ turn' = [turn EXCEPT ![t].state = "cancelled", ![t].aborted = TRUE]
        /\ CancelSteps(StepsOf(t))
        /\ UNCHANGED <<assigned, queue, reserved, standalone, held, releasing, draining,
                       run, active>>
    BY <2>1 DEF CancelQueuedTurn, admissionVars
  <2>3. \A u \in TurnIds : u # t => turn'[u] = turn[u]
    BY <1>1, <2>2
  <2> QED
    BY <2>2, <2>3, CancelRequests
<1>4. CASE ReleaseActiveTurn
  <2>1. /\ turn' = [turn EXCEPT ![active].state = run.outcome]
        /\ CancelSteps(StepsOf(active))
        /\ UNCHANGED <<assigned, queue, reserved, standalone, held, releasing, draining>>
        /\ run' = NoRun
    BY <1>4 DEF ReleaseActiveTurn, admissionVars
  <2>2. \A u \in TurnIds : u # active => turn'[u] = turn[u]
    BY <1>1, <2>1
  <2> QED
    BY <2>1, <2>2, CancelRequests
<1> QED
  BY <1>2, <1>3, <1>4

LEMMA AbortRequestRequests ==
    ASSUME IInv, TurnInv, ReqInv, NEW r \in Requests, AbortRequest(r)
    PROVE  ReqInv' /\ NoneEnters
<1>1. /\ req[r] = "pending" /\ assigned[r] = "pending"
      /\ req' = [req EXCEPT ![r] = "aborted"]
      /\ assigned' = [assigned EXCEPT ![r] = "rejected"]
      /\ UNCHANGED <<step, standalone, releasing, draining, turn, queue, active, reserved, run>>
  BY DEF AbortRequest, turnVars
<1>2. Queued(held') \in {Queued(held), Queued(held) \ {r}}
  <2>1. held \in Seq(Requests) /\ Distinct(held)
    BY DEF IInv, ControlInv, TurnInv, Drivers
  <2>2. ASSUME NEW i \in DOMAIN held, held[i] = r, held' = RemoveAt(held, i)
        PROVE  Queued(held') = Queued(held) \ {r}
    BY <2>1, <2>2, RemoveAtIsTaken, TakenProperties
  <2> QED
    BY <2>2 DEF AbortRequest
<1>3. /\ req \in [Requests -> ReqStates]
      /\ assigned \in [Requests -> {"none", "pending", "resolved", "rejected"}]
      /\ \A q \in Requests : Placed(q)
  BY DEF ReqInv, ReqTypes, TurnInv, Drivers
<1>4. /\ req'[r] = "aborted" /\ assigned'[r] = "rejected"
      /\ \A q \in Requests \ {r} : req'[q] = req[q] /\ assigned'[q] = assigned[q]
  BY <1>1, <1>3
<1>5. ReqTypes'
  BY <1>1 DEF ReqInv, ReqTypes
<1>6. ASSUME NEW q \in Requests PROVE Placed(q)'
  <2>1. (q # r => (Listed(q)' <=> Listed(q))) /\ (Listed(q)' => Listed(q))
    BY <1>1, <1>2 DEF Listed
  <2>2. Placed(q)
    BY <1>3
  <2>3. CASE q = r
    BY <1>1, <1>4, <2>1, <2>2, <2>3 DEF Placed, Over
  <2>4. CASE q # r
    BY <1>1, <1>4, <2>1, <2>2, <2>4 DEF Placed, Over
  <2> QED
    BY <2>3, <2>4
<1>7. ListsApart'
  BY <1>1, <1>2 DEF ReqInv, ListsApart
<1>8. RunHolds'
  BY <1>1, <1>4 DEF ReqInv, RunHolds
<1>9. NoneEnters
  BY <1>1, <1>4 DEF NoneEnters
<1> QED
  BY <1>5, <1>6, <1>7, <1>8, <1>9 DEF ReqInv

LEMMA DisposeRequests ==
    ASSUME IInv, TurnInv, ReqInv, Dispose PROVE ReqInv' /\ NoneEnters
<1> DEFINE doomed == ToSet(pendingTurns)
           cut == UNION {StepsOf(t) : t \in doomed}
           loose == {r \in ToSet(standalone \o held) : Live(r)}
           hit == {r \in cut : Unfinished(step[r])}
<1>0. doomed \subseteq TurnIds
  BY DEF TurnInv, TurnsOrdered, ToSet
<1>1. /\ step' = [r \in Requests |-> IF r \in hit THEN CancelledStep(step[r]) ELSE step[r]]
      /\ req' = [r \in Requests |->
                   IF r \in hit \cup loose /\ req[r] = "pending" THEN "aborted" ELSE req[r]]
      /\ assigned' = [r \in Requests |-> IF r \in loose THEN "rejected" ELSE assigned[r]]
      /\ turn' = [t \in TurnIds |->
                    IF t \in doomed
                    THEN [turn[t] EXCEPT !.state = "cancelled", !.aborted = TRUE]
                    ELSE IF t = active THEN [turn[t] EXCEPT !.aborted = TRUE]
                    ELSE turn[t]]
      /\ standalone' = <<>> /\ held' = <<>>
      /\ UNCHANGED <<releasing, draining, queue, active, reserved, run>>
  BY DEF Dispose
<1>2. \A r \in Requests : r \in loose <=> r \in Queued(standalone) \cup Queued(held) /\ Live(r)
  <2>1. standalone \in Seq(Requests) /\ held \in Seq(Requests)
    BY DEF IInv, ControlInv
  <2>2. ToSet(standalone \o held) = Queued(standalone) \cup Queued(held)
    <3>1. ToSet(standalone \o held) = Queued(standalone \o held)
      BY DEF ToSet, Queued
    <3> QED
      BY <2>1, <3>1, QueuedConcat
  <2> QED
    BY <2>2
<1>3. \A r \in Requests : r \in hit <=> step[r].turn \in doomed /\ Unfinished(step[r])
  BY DEF StepsOf
<1> HIDE DEF hit, loose, cut, doomed
<1>4. /\ step \in [Requests -> StepRecords] /\ queue \in [TurnIds -> Seq(Requests)]
      /\ assigned \in [Requests -> {"none", "pending", "resolved", "rejected"}]
      /\ req \in [Requests -> ReqStates] /\ turn \in [TurnIds -> Turns]
      /\ \A r \in Requests : Placed(r)
  BY DEF ReqInv, ReqTypes, TurnInv, Drivers, TurnsOrdered
<1>5. ASSUME NEW r \in Requests
      PROVE  /\ step[r] \in StepRecords /\ step'[r] \in StepRecords
             /\ step'[r].turn = step[r].turn
             /\ r \notin hit => step'[r] = step[r]
             /\ r \in hit => step'[r].state = "cancelled" /\ step'[r].result # "none"
  BY <1>1, <1>4 DEF StepRecords, CancelledStep, SettleResult
<1>6. ASSUME NEW r \in Requests
      PROVE  /\ req'[r] = req[r] \/ (req[r] = "pending" /\ req'[r] = "aborted")
             /\ r \in hit \cup loose => req'[r] # "pending"
             /\ assigned'[r] = IF r \in loose THEN "rejected" ELSE assigned[r]
  BY <1>1
<1>7. ReqTypes'
  <2>1. step' \in [Requests -> StepRecords]
    BY <1>1, <1>5
  <2>2. assigned' \in [Requests -> {"none", "pending", "resolved", "rejected"}]
    BY <1>1, <1>4
  <2> QED
    BY <1>1, <1>4, <2>1, <2>2 DEF ReqTypes
<1>8. Queued(<<>>) = {} /\ Distinct(<<>>)
  BY EmptyQueue DEF Distinct
<1>9. ASSUME NEW r \in Requests PROVE Placed(r)'
  <2>1. Placed(r) /\ step[r].turn \in TurnIds \cup {None}
    BY <1>4, <1>5 DEF StepRecords
  <2>2. /\ Listed(r)' <=> r \in Queued(releasing)
        /\ Listed(r)' => Listed(r)
        /\ Listed(r) /\ r \notin loose /\ req[r] = "pending" => Listed(r)'
        /\ r \in loose => Listed(r)
    BY <1>1, <1>2, <1>8 DEF Listed, Live
  <2>3. step[r].turn # None /\ Over(step[r].turn)' =>
            Over(step[r].turn) \/ step[r].turn \in doomed
    <3>1. ASSUME NEW t \in TurnIds, t \notin doomed PROVE turn'[t].state = turn[t].state
      <4>1. turn[t] \in Turns
        BY <1>4
      <4> QED
        BY <1>1, <3>1, <4>1 DEF Turns
    <3> QED
      BY <1>5, <2>1, <3>1 DEF Over
  <2>4. ~ Unfinished(step[r]) /\ step[r].turn # None => req[r] # "pending"
    BY <2>1, NoneAssumption DEF Placed, Unfinished
  <2>5. CASE r \in hit
    <3>1. ~ Unfinished(step'[r]) /\ step'[r].state # "none" /\ req'[r] # "pending"
      BY <1>5, <1>6, <2>5 DEF Unfinished
    <3>2. r \notin loose
      <4>1. step[r].turn # None
      BY <1>0, <1>3, <2>5, NoneIsNoTurn
    <4> QED
      BY <2>1, <2>2, <4>1 DEF Placed
    <3>3. /\ req'[r] = "new" => step[r].turn = None
          /\ Listed(r)' => req'[r] \in {"pending", "aborted"} /\ assigned'[r] # "resolved"
          /\ assigned'[r] = assigned[r]
      BY <1>6, <2>1, <2>2, <3>2 DEF Placed
    <3> QED
      BY <1>1, <1>5, <2>1, <2>5, <3>1, <3>3 DEF Placed
  <2>6. CASE r \in loose /\ r \notin hit
    <3>1. step[r].turn = None /\ step'[r] = step[r] /\ assigned'[r] = "rejected"
      BY <1>5, <1>6, <2>1, <2>2, <2>6 DEF Placed
    <3> QED
      BY <1>1, <1>6, <2>1, <2>2, <2>6, <3>1 DEF Placed
  <2>7. CASE r \notin hit \cup loose
    <3>1. step'[r] = step[r] /\ assigned'[r] = assigned[r] /\ req'[r] = req[r]
      BY <1>1, <1>5, <1>6, <2>7
    <3>2. step[r].turn # None /\ Over(step[r].turn)' =>
              ~ Unfinished(step[r]) /\ req[r] # "pending"
      BY <1>3, <2>1, <2>3, <2>4, <2>7 DEF Placed
    <3> QED
      BY <1>1, <2>1, <2>2, <2>7, <3>1, <3>2 DEF Placed
  <2> QED
    BY <2>5, <2>6, <2>7
<1>10. ListsApart'
  BY <1>1, <1>8 DEF ReqInv, ListsApart
<1>11. RunHolds'
  <2>1. RunHolds
    BY DEF ReqInv
  <2>2. ASSUME run.current # None
        PROVE  step'[run.current].turn = active /\ req'[run.current] = "materialized"
    BY <1>5, <1>6, <2>1, <2>2 DEF RunHolds
  <2> QED
    BY <1>1, <2>1, <2>2 DEF RunHolds
<1>12. NoneEnters
  BY <1>1, <1>6 DEF NoneEnters
<1> QED
  BY <1>7, <1>9, <1>10, <1>11, <1>12 DEF ReqInv

(* A request that is in no turn leaves the held ones and is admitted or     *)
(* refused.                                                                 *)
Admitting(r) ==
    /\ Admit(r) \/ Refuse(r)
    /\ r \notin Queued(standalone) /\ step[r].turn = None
    /\ req[r] # "materialized"
    /\ Queued(held') \cup Queued(releasing') = (Queued(held) \cup Queued(releasing)) \ {r}
    /\ releasing' # <<>> => draining'
    /\ \A q \in Requests : q # r => req'[q] = req[q]
    /\ req'[r] \in {"pending", "aborted"} /\ (Admit(r) => req'[r] = "pending")

(* What both cases below share: nothing but r, and the standalone requests  *)
(* that go with it, is touched.                                             *)
LEMMA AdmittedAlone ==
    ASSUME IInv, TurnInv, ReqInv, NEW r \in Requests, Admitting(r),
           (Admit(r) /\ WaitForNextTurn(r)) \/ Refuse(r)
    PROVE  ReqInv' /\ NoneEnters
<1>1. /\ UNCHANGED <<step, turn, queue, active, reserved, run>>
      /\ \/ standalone' = Append(standalone, r) /\ req'[r] = "pending"
            /\ assigned' = [assigned EXCEPT ![r] = "pending"]
         \/ standalone' = standalone /\ assigned' = [assigned EXCEPT ![r] = "rejected"]
  <2>1. CASE Admit(r) /\ WaitForNextTurn(r)
    BY <2>1 DEF Admitting, WaitForNextTurn, turnVars
  <2>2. CASE Refuse(r)
    BY <2>2 DEF Refuse, turnVars
  <2> QED
    BY <2>1, <2>2
<1>2. /\ standalone \in Seq(Requests) /\ Distinct(standalone) /\ RunHolds
      /\ assigned \in [Requests -> {"none", "pending", "resolved", "rejected"}]
      /\ \A q \in Requests : Placed(q) /\ step[q].turn \in TurnIds \cup {None}
      /\ Queued(standalone) \cap (Queued(held) \cup Queued(releasing)) = {}
  BY DEF IInv, ControlInv, ReqInv, ReqTypes, ListsApart, StepRecords
<1>3. /\ Distinct(standalone')
      /\ \/ Queued(standalone') = Queued(standalone) \cup {r}
            /\ req'[r] = "pending" /\ assigned'[r] = "pending"
         \/ Queued(standalone') = Queued(standalone) /\ assigned'[r] = "rejected"
      /\ \A q \in Requests : q # r => assigned'[q] = assigned[q]
  <2>1. /\ assigned'[r] \in {"pending", "rejected"}
        /\ \A q \in Requests : q # r => assigned'[q] = assigned[q]
    BY <1>1, <1>2
  <2>2. CASE standalone' = standalone /\ assigned' = [assigned EXCEPT ![r] = "rejected"]
    BY <1>2, <2>1, <2>2
  <2>3. CASE /\ standalone' = Append(standalone, r) /\ req'[r] = "pending"
             /\ assigned' = [assigned EXCEPT ![r] = "pending"]
    <3>1. /\ Distinct(standalone')
          /\ Queued(standalone') = Queued(standalone) \cup {r}
      BY <1>2, <2>3, AppendKeeps DEF Admitting
    <3> QED
      BY <1>2, <2>1, <2>3, <3>1
  <2> QED
    BY <1>1, <2>2, <2>3
<1>4. ReqTypes'
  BY <1>1 DEF ReqInv, ReqTypes
<1>5. ASSUME NEW q \in Requests PROVE Placed(q)'
  <2>1. Placed(q)
    BY <1>2
  <2>2. CASE q = r
    <3>1. Listed(r)' => assigned'[r] = "pending"
      BY <1>3 DEF Listed, Admitting
    <3>2. assigned'[r] = "pending" => Listed(r)'
      BY <1>3 DEF Listed, Admitting
    <3>3. assigned'[r] \in {"pending", "rejected"} /\ req'[r] \in {"pending", "aborted"}
      BY <1>3 DEF Admitting
    <3> QED
      BY <1>1, <2>1, <2>2, <3>1, <3>2, <3>3 DEF Placed, Admitting
  <2>3. CASE q # r
    <3>1. (Listed(q)' <=> Listed(q)) /\ req'[q] = req[q] /\ assigned'[q] = assigned[q]
      BY <1>3, <2>3 DEF Listed, Admitting
    <3> QED
      BY <1>1, <2>1, <3>1 DEF Placed, Over
  <2> QED
    BY <2>2, <2>3
<1>6. ListsApart'
  BY <1>2, <1>3 DEF ListsApart, Admitting
<1>7. RunHolds'
  BY <1>1, <1>2 DEF RunHolds, Admitting
<1>8. NoneEnters
  BY <1>1 DEF NoneEnters, Admitting
<1> QED
  BY <1>4, <1>5, <1>6, <1>7, <1>8 DEF ReqInv

LEMMA JoinActiveRequests ==
    ASSUME IInv, TurnInv, ReqInv, NEW r \in Requests, Admitting(r), Admit(r),
           JoinActive(r), active # None
    PROVE  ReqInv' /\ NoneEnters
<1>1. /\ queue' = [queue EXCEPT ![active] = Append(@, r)]
      /\ step' = [step EXCEPT ![r] = QueuedStep(active)]
      /\ assigned' = [q \in Requests |-> IF q \in {r} THEN "resolved" ELSE assigned[q]]
      /\ UNCHANGED <<standalone, turn, active, reserved, run>>
  BY DEF JoinActive, Resolve
<1>2. /\ active \in TurnIds /\ active < reserved /\ ~ Over(active)
      /\ turn[active].state = "running"
  <2>1. active \in TurnIds /\ reserved \in Nat /\ turn[active].state = "running"
    BY CardinalityNat DEF TurnInv, TurnsOrdered
  <2> QED
    BY <2>1 DEF TurnInv, TurnsOrdered, Over, TurnIds
<1>3. /\ queue \in [TurnIds -> Seq(Requests)] /\ step \in [Requests -> StepRecords]
      /\ assigned \in [Requests -> {"none", "pending", "resolved", "rejected"}]
      /\ \A q \in Requests : Placed(q) /\ step[q].turn \in TurnIds \cup {None}
      /\ ListsApart /\ RunHolds
  BY DEF ReqInv, ReqTypes, StepRecords
<1>4. /\ queue' \in [TurnIds -> Seq(Requests)]
      /\ Queued(queue'[active]) = Queued(queue[active]) \cup {r}
      /\ \A t \in TurnIds : t # active => queue'[t] = queue[t]
  BY <1>1, <1>2, <1>3, QueuedAppend
<1>5. /\ step'[r] = QueuedStep(active) /\ assigned'[r] = "resolved"
      /\ \A q \in Requests : q # r => step'[q] = step[q] /\ assigned'[q] = assigned[q]
  BY <1>1, <1>3
<1>6. QueuedStep(active) \in StepRecords
  BY <1>2 DEF QueuedStep, StepRecords
<1>7. ReqTypes'
  BY <1>1, <1>3, <1>4, <1>6 DEF ReqTypes
<1>8. ASSUME NEW q \in Requests PROVE Placed(q)'
  <2>1. Placed(q)
    BY <1>3
  <2>2. CASE q = r
    <3>1. ~ Listed(r)' /\ req'[r] = "pending" /\ step[r].turn = None
      BY <1>1 DEF Listed, Admitting
    <3>2. \A t \in TurnIds : r \notin Queued(queue[t])
      BY <1>3, <3>1, NoneIsNoTurn DEF Placed
    <3>3. /\ step'[r].turn = active /\ step'[r].state = "queued" /\ step'[r].result = "none"
          /\ ~ Over(active)' /\ active # None
      BY <1>1, <1>2, <1>5 DEF QueuedStep, Over
    <3> QED
      BY <1>1, <1>2, <1>4, <1>5, <2>2, <3>1, <3>2, <3>3 DEF Placed
  <2>3. CASE q # r
    <3>1. (Listed(q)' <=> Listed(q)) /\ req'[q] = req[q]
      BY <1>1, <2>3 DEF Listed, Admitting
    <3>2. \A t \in TurnIds : q \in Queued(queue'[t]) <=> q \in Queued(queue[t])
      BY <1>4, <2>3
    <3>3. assigned[q] = "resolved" => step[q].turn \in TurnIds
      BY <1>3, <2>1 DEF Placed
    <3> QED
      BY <1>1, <1>5, <2>1, <2>3, <3>1, <3>2, <3>3 DEF Placed, Over
  <2> QED
    BY <2>2, <2>3
<1>9. ListsApart'
  BY <1>1, <1>3 DEF ListsApart, Admitting
<1>10. RunHolds'
  BY <1>1, <1>3, <1>5 DEF RunHolds, Admitting
<1>11. NoneEnters
  <2>1. ASSUME NEW h \in Requests
        PROVE  req'[h] = "materialized" <=> req[h] = "materialized"
    BY DEF Admitting
  <2>2. ASSUME NEW h \in Requests, req[h] = "materialized", NEW t \in TurnIds,
               h \in Queued(queue'[t])
        PROVE  h \in Queued(queue[t])
    BY <1>4, <2>2 DEF Admitting
  <2> QED
    BY <2>1, <2>2 DEF NoneEnters
<1> QED
  BY <1>7, <1>8, <1>9, <1>10, <1>11 DEF ReqInv

(* The new turn takes the live standalone requests along, all of which were *)
(* waiting for it.                                                          *)
LEMMA CreateTurnRequests ==
    ASSUME IInv, TurnInv, TurnInv', ReqInv, NEW r \in Requests, Admitting(r), Admit(r),
           CreateTurn(r)
    PROVE  ReqInv' /\ NoneEnters
<1> DEFINE t == reserved
           moved == Kept(standalone, LiveRequests)
           mine == {r} \cup ToSet(moved)
           turns == [turn EXCEPT ![t] = [state |-> "queued", request |-> r, aborted |-> FALSE]]
<1>1. t \in Nat /\ NewTurnId = t
  BY CardinalityNat DEF TurnInv, TurnsOrdered, ClockAgrees, NewTurnId
<1>2. /\ reserved' = t + 1 /\ standalone' = <<>>
      /\ queue' = [queue EXCEPT ![t] = <<r>> \o moved]
      /\ step' = [q \in Requests |-> IF q \in mine THEN QueuedStep(t) ELSE step[q]]
      /\ assigned' = [q \in Requests |-> IF q \in mine THEN "resolved" ELSE assigned[q]]
      /\ PumpTurns(Append(pendingTurns, t), turns, held)
  BY <1>1, Zenon DEF CreateTurn, Resolve
<1>3. t \in TurnIds /\ t # None
  <2>1. t + 1 <= Cardinality(Requests)
    BY <1>2, CardinalityNat DEF TurnInv, TurnsOrdered
  <2> QED
    BY <1>1, <2>1, CardinalityNat, NoneAssumption DEF TurnIds
<1>4. /\ queue \in [TurnIds -> Seq(Requests)] /\ step \in [Requests -> StepRecords]
      /\ assigned \in [Requests -> {"none", "pending", "resolved", "rejected"}]
      /\ \A q \in Requests : Placed(q) /\ step[q].turn \in TurnIds \cup {None}
      /\ ListsApart /\ RunHolds
      /\ standalone \in Seq(Requests) /\ turn \in [TurnIds -> Turns]
  BY DEF ReqInv, ReqTypes, StepRecords, IInv, ControlInv, TurnInv, TurnsOrdered
<1>5. /\ moved \in Seq(Requests)
      /\ mine = {r} \cup (Queued(standalone) \cap LiveRequests)
  <2>1. ToSet(moved) = Queued(moved)
    BY DEF ToSet, Queued
  <2>2. moved \in Seq(Requests) /\ Queued(moved) = Queued(standalone) \cap LiveRequests
    BY <1>4, KeptProperties
  <2> QED
    BY <2>1, <2>2
<1>6. /\ queue' \in [TurnIds -> Seq(Requests)] /\ Queued(queue'[t]) = mine
      /\ \A u \in TurnIds : u # t => queue'[u] = queue[u]
  <2>1. <<r>> \o moved \in Seq(Requests) /\ Queued(<<r>> \o moved) = Queued(moved) \cup {r}
    BY <1>5, QueuedPush
  <2>2. Queued(moved) = ToSet(moved)
    BY DEF ToSet, Queued
  <2> HIDE DEF moved
  <2> QED
    BY <1>2, <1>3, <1>4, <2>1, <2>2
<1>7. /\ turns \in [TurnIds -> Turns] /\ turns[t].state = "queued"
      /\ \A u \in TurnIds : u # t => turns[u] = turn[u]
  <2>1. [state |-> "queued", request |-> r, aborted |-> FALSE] \in Turns
    BY DEF Turns, States
  <2> QED
    BY <1>3, <1>4, <2>1
<1> HIDE DEF moved, mine, turns
<1>8. /\ \A u \in TurnIds : turn'[u].state \in Ends => turns[u].state \in Ends
      /\ \/ UNCHANGED <<run, active>>
         \/ active = None /\ run' = [NoRun EXCEPT !.pc = "begin"]
  BY <1>2, <1>7, PumpRequests
<1>9. \A u \in TurnIds : turn'[u].state \in Ends => turn[u].state \in Ends /\ u # t
  <2>1. "queued" \notin Ends
    BY DEF Ends
  <2> QED
    BY <1>7, <1>8, <2>1
<1>10. ASSUME NEW q \in mine
       PROVE  /\ q \in Requests /\ req'[q] = "pending" /\ step[q].turn = None
              /\ req[q] # "materialized"
  <2>1. CASE q = r
    BY <2>1 DEF Admitting
  <2>2. CASE q # r
    <3>1. q \in Requests /\ Listed(q) /\ Live(q) /\ req'[q] = req[q]
      BY <1>5, <2>2 DEF Listed, LiveRequests, Admitting
    <3>2. req[q] = "pending" /\ assigned[q] # "resolved"
      BY <1>4, <3>1 DEF Placed, Live
    <3> QED
      BY <1>4, <3>1, <3>2 DEF Placed
  <2> QED
    BY <2>1, <2>2
<1>11. ReqTypes'
  <2>1. QueuedStep(t) \in StepRecords
    BY <1>3 DEF QueuedStep, StepRecords
  <2>2. step' \in [Requests -> StepRecords]
    BY <1>2, <1>4, <2>1
  <2>3. assigned' \in [Requests -> {"none", "pending", "resolved", "rejected"}]
    BY <1>2, <1>4
  <2> QED
    BY <1>6, <2>2, <2>3 DEF ReqTypes
<1>12. ASSUME NEW q \in Requests PROVE Placed(q)'
  <2>1. Placed(q)
    BY <1>4
  <2>2. Listed(q)' <=> q \in Queued(held) \cup Queued(releasing) /\ q # r
    BY <1>2, EmptyQueue DEF Listed, Admitting
  <2>3. CASE q \in mine
    <3>1. /\ step'[q] = QueuedStep(t) /\ assigned'[q] = "resolved" /\ req'[q] = "pending"
          /\ step[q].turn = None
      BY <1>2, <1>10, <2>3
    <3>2. ~ Listed(q)'
      BY <1>4, <1>5, <2>2, <2>3 DEF ListsApart
    <3>3. \A u \in TurnIds : q \in Queued(queue'[u]) => u = t
      BY <1>4, <1>6, <3>1, NoneIsNoTurn DEF Placed
    <3>4. /\ step'[q].turn = t /\ step'[q].state = "queued" /\ step'[q].result = "none"
          /\ turn'[t].state \notin Ends /\ t < reserved'
      BY <1>1, <1>2, <1>3, <1>9, <3>1 DEF QueuedStep
    <3> QED
      BY <1>3, <1>6, <2>3, <3>1, <3>2, <3>3, <3>4 DEF Placed, Over, Ends
  <2>4. CASE q \notin mine
    <3>1. /\ step'[q] = step[q] /\ assigned'[q] = assigned[q] /\ q # r /\ req'[q] = req[q]
      BY <1>2, <1>5, <2>4 DEF Admitting
    <3>2. /\ Listed(q)' => Listed(q)
          /\ Listed(q) /\ req[q] = "pending" => Listed(q)'
      BY <1>5, <2>2, <2>4, <3>1 DEF Listed, LiveRequests, Live
    <3>3. step[q].turn # t
      BY <1>1, <1>3, <2>1 DEF Placed
    <3>4. \A u \in TurnIds : q \in Queued(queue'[u]) => u # t /\ q \in Queued(queue[u])
      BY <1>6, <2>4
    <3>5. step[q].turn # None =>
             /\ queue'[step[q].turn] = queue[step[q].turn]
             /\ step[q].turn < reserved' \/ ~ (step[q].turn < reserved)
             /\ Over(step[q].turn)' => Over(step[q].turn)
      BY <1>1, <1>2, <1>4, <1>6, <1>9, <3>1, <3>3 DEF Over, Ends, TurnIds
    <3>6. assigned[q] = "resolved" => step[q].turn # None
      BY <2>1 DEF Placed
    <3> QED
      BY <2>1, <3>1, <3>2, <3>4, <3>5, <3>6 DEF Placed
  <2> QED
    BY <2>3, <2>4
<1>13. ListsApart'
  BY <1>2, EmptyQueue DEF ListsApart, Admitting, Distinct
<1>14. RunHolds'
  <2>1. CASE active = None /\ run' = [NoRun EXCEPT !.pc = "begin"]
    BY <2>1 DEF RunHolds, NoRun
  <2>2. CASE UNCHANGED <<run, active>>
    <3>1. ASSUME run.current # None
          PROVE  step'[run.current] = step[run.current] /\ req'[run.current] = "materialized"
      <4>1. run.current \in Requests /\ req[run.current] = "materialized"
        BY <1>4, <3>1 DEF RunHolds
      <4>2. run.current \notin mine /\ run.current # r
        BY <1>10, <4>1 DEF Admitting
      <4> QED
        BY <1>2, <4>1, <4>2 DEF Admitting
    <3> QED
      BY <1>4, <2>2, <3>1 DEF RunHolds
  <2> QED
    BY <1>8, <2>1, <2>2
<1>15. NoneEnters
  <2>1. ASSUME NEW h \in Requests
        PROVE  req'[h] = "materialized" <=> req[h] = "materialized"
    BY DEF Admitting
  <2>2. ASSUME NEW h \in Requests, req[h] = "materialized", NEW u \in TurnIds,
               h \in Queued(queue'[u])
        PROVE  h \in Queued(queue[u])
    BY <1>6, <1>10, <2>2
  <2> QED
    BY <2>1, <2>2 DEF NoneEnters
<1> QED
  BY <1>11, <1>12, <1>13, <1>14, <1>15 DEF ReqInv

LEMMA AdmitRequests ==
    ASSUME IInv, TurnInv, TurnInv', ReqInv, NEW r \in Requests, Admitting(r)
    PROVE  ReqInv' /\ NoneEnters
<1>1. CASE Refuse(r)
  BY <1>1, AdmittedAlone
<1>2. CASE Admit(r)
  BY <1>2, AdmittedAlone, JoinActiveRequests, CreateTurnRequests DEF Admit
<1> QED
  BY <1>1, <1>2 DEF Admitting

LEMMA EnqueueRequests ==
    ASSUME IInv, TurnInv, TurnInv', ReqInv, NEW r \in Requests, Enqueue(r)
    PROVE  ReqInv' /\ NoneEnters
<1>1. /\ req[r] = "new" /\ req' = [req EXCEPT ![r] = "pending"]
      /\ UNCHANGED <<releasing, draining>>
  BY DEF Enqueue
<1>2. /\ Placed(r) /\ req \in [Requests -> ReqStates]
      /\ r \notin Queued(held) \cup Queued(releasing)
  BY <1>1 DEF ReqInv, TurnInv, Drivers
<1>3. /\ req'[r] = "pending" /\ \A q \in Requests : q # r => req'[q] = req[q]
      /\ step[r].turn = None /\ assigned[r] # "resolved" /\ ~ Listed(r)
  BY <1>1, <1>2 DEF Placed
<1>4. releasing' # <<>> => draining'
  BY <1>1 DEF ReqInv, ListsApart
<1>5. CASE held' = held /\ (Admit(r) \/ Refuse(r))
  <2>1. Admitting(r)
    BY <1>1, <1>2, <1>3, <1>4, <1>5 DEF Admitting, Listed
  <2> QED
    BY <2>1, AdmitRequests
<1>6. CASE Hold(r)
  <2>1. /\ held' = Append(held, r) /\ assigned' = [assigned EXCEPT ![r] = "pending"]
        /\ UNCHANGED <<step, standalone, turn, queue, active, reserved, run>>
    BY <1>6 DEF Hold, turnVars
  <2>2. Queued(held') = Queued(held) \cup {r}
    BY <2>1, QueuedAppend DEF IInv, ControlInv
  <2>3. /\ assigned \in [Requests -> {"none", "pending", "resolved", "rejected"}]
        /\ RunHolds /\ ListsApart /\ \A q \in Requests : Placed(q)
    BY DEF ReqInv, ReqTypes
  <2>4. /\ assigned'[r] = "pending"
        /\ \A q \in Requests : q # r => assigned'[q] = assigned[q]
    BY <2>1, <2>3
  <2>5. ReqTypes'
    BY <2>1 DEF ReqInv, ReqTypes
  <2>6. ASSUME NEW q \in Requests PROVE Placed(q)'
    <3>1. Placed(q)
      BY <2>3
    <3>2. CASE q = r
      <4>1. Listed(r)'
        BY <2>2 DEF Listed
      <4> QED
        BY <1>3, <2>1, <2>4, <3>1, <3>2, <4>1 DEF Placed, Over
    <3>3. CASE q # r
      <4>1. Listed(q)' <=> Listed(q)
        BY <1>1, <2>1, <2>2, <3>3 DEF Listed
      <4> QED
        BY <1>3, <2>1, <2>4, <3>1, <3>3, <4>1 DEF Placed, Over
    <3> QED
      BY <3>2, <3>3
  <2>7. ListsApart'
    BY <1>1, <1>3, <2>1, <2>2, <2>3 DEF ListsApart, Listed
  <2>8. RunHolds'
    BY <1>1, <1>3, <2>1, <2>3 DEF RunHolds
  <2>9. NoneEnters
    BY <1>1, <1>3, <2>1 DEF NoneEnters
  <2> QED
    BY <2>5, <2>6, <2>7, <2>8, <2>9 DEF ReqInv
<1> QED
  BY <1>5, <1>6 DEF Enqueue

LEMMA AdmitHeldRequests ==
    ASSUME IInv, TurnInv, TurnInv', ReqInv, AdmitHeld PROVE ReqInv' /\ NoneEnters
<1> DEFINE r == Head(releasing)
<1>1. /\ draining /\ releasing # <<>> /\ releasing' = Tail(releasing)
      /\ UNCHANGED <<held, draining>>
  BY DEF AdmitHeld
<1>2. /\ r \in Queued(releasing) /\ r \in Requests
      /\ Queued(releasing') = Queued(releasing) \ {r}
  <2>1. releasing \in Seq(Requests) /\ Distinct(releasing)
    BY DEF IInv, ControlInv, TurnInv, Drivers
  <2> QED
    BY <1>1, <2>1, TailProperties
<1>3. /\ \/ ~ Live(r) /\ UNCHANGED <<req, assigned, step, standalone, turnVars, clockVars, run>>
         \/ Live(r) /\ Admit(r) /\ UNCHANGED req
         \/ Live(r) /\ Refuse(r) /\ req' = [req EXCEPT ![r] = "aborted"]
  BY DEF AdmitHeld
<1> HIDE DEF r
<1>4. /\ Placed(r) /\ req \in [Requests -> ReqStates] /\ ListsApart /\ Listed(r)
      /\ r \notin Queued(held) /\ r \notin Queued(standalone)
      /\ RunHolds /\ \A q \in Requests : Placed(q)
  BY <1>2 DEF ReqInv, TurnInv, Drivers, ListsApart, Listed
<1>5. step[r].turn = None /\ req[r] \in {"pending", "aborted"}
  BY <1>4 DEF Placed
<1>6. CASE ~ Live(r) /\ UNCHANGED <<req, assigned, step, standalone, turnVars, clockVars, run>>
  <2>1. UNCHANGED <<turn, queue, active, reserved>>
    BY <1>6 DEF turnVars
  <2>2. ReqTypes' /\ RunHolds'
    BY <1>4, <1>6, <2>1 DEF ReqInv, ReqTypes, RunHolds
  <2>3. ListsApart'
    BY <1>1, <1>2, <1>4, <1>6 DEF ListsApart
  <2>4. ASSUME NEW q \in Requests PROVE Placed(q)'
    <3>1. Placed(q) /\ (q # r => (Listed(q)' <=> Listed(q))) /\ (Listed(q)' => Listed(q))
      BY <1>1, <1>2, <1>4, <1>6 DEF Listed
    <3>2. CASE q = r
      BY <1>6, <2>1, <3>1, <3>2 DEF Placed, Live, Over
    <3>3. CASE q # r
      BY <1>6, <2>1, <3>1, <3>3 DEF Placed, Over
    <3> QED
      BY <3>2, <3>3
  <2>5. NoneEnters
    BY <1>6, <2>1 DEF NoneEnters
  <2> QED
    BY <2>2, <2>3, <2>4, <2>5 DEF ReqInv
<1>7. CASE Live(r) /\ Admit(r) /\ UNCHANGED req
  <2>1. Admitting(r)
    <3>1. ~ Refuse(r) \/ req'[r] = "pending"
      BY <1>5, <1>7 DEF Live
    <3> QED
      BY <1>1, <1>2, <1>4, <1>5, <1>7, <3>1 DEF Admitting, Live
  <2> QED
    BY <1>2, <2>1, AdmitRequests
<1>8. CASE Live(r) /\ Refuse(r) /\ req' = [req EXCEPT ![r] = "aborted"]
  <2>1. Admitting(r)
    <3>1. ~ Admit(r)
      BY <1>8 DEF Refuse, Admit
    <3>2. req'[r] = "aborted" /\ \A q \in Requests : q # r => req'[q] = req[q]
      BY <1>2, <1>4, <1>8
    <3> QED
      BY <1>1, <1>2, <1>4, <1>5, <1>8, <3>1, <3>2 DEF Admitting
  <2> QED
    BY <1>2, <2>1, AdmitRequests
<1> QED
  BY <1>3, <1>6, <1>7, <1>8

-----------------------------------------------------------------------------
(* The loop.                                                                *)

(* The live requests of the active turn, of which the driver is one.        *)
LEMMA ItemsLemma ==
    ASSUME TurnInv, ReqInv, active # None
    PROVE  /\ active \in TurnIds /\ turn[active].state = "running" /\ active < reserved
           /\ Items \in Seq(Requests) /\ ToSet(Items) = Queued(Items)
           /\ Queued(Items) = Queued(queue[active]) \cap LiveRequests
           /\ \A S : /\ Kept(Items, S) \in Seq(Requests)
                     /\ Queued(Kept(Items, S)) = Queued(Items) \cap S
           /\ Items # <<>> => Driver \in Queued(Items)
<1>1. /\ active \in TurnIds /\ turn[active].state = "running" /\ active < reserved
  <2>1. active \in TurnIds /\ reserved \in Nat /\ turn[active].state = "running"
    BY CardinalityNat DEF TurnInv, TurnsOrdered
  <2> QED
    BY <2>1 DEF TurnInv, TurnsOrdered, TurnIds
<1>2. queue[active] \in Seq(Requests)
  BY <1>1 DEF ReqInv, ReqTypes
<1>3. Items \in Seq(Requests) /\ Queued(Items) = Queued(queue[active]) \cap LiveRequests
  BY <1>2, KeptProperties DEF Items
<1>4. ToSet(Items) = Queued(Items)
  BY DEF ToSet, Queued
<1>5. \A S : /\ Kept(Items, S) \in Seq(Requests)
             /\ Queued(Kept(Items, S)) = Queued(Items) \cap S
  BY <1>3, KeptProperties
<1>6. ASSUME Items # <<>> PROVE Driver \in Queued(Items)
  <2>1. 1 \in DOMAIN Items /\ DOMAIN Items \subseteq Nat
    BY <1>3, <1>6
  <2>2. CASE Alone = {}
    BY <2>1, <2>2 DEF Driver, DriverIndex, Queued
  <2>3. CASE Alone # {}
    <3>1. Alone \in SUBSET Nat /\ Alone \subseteq DOMAIN Items
      BY <2>1 DEF Alone
    <3>2. \E i \in Alone : \A j \in Alone : i <= j
      BY <2>3, <3>1, LeastNatural
    <3>3. DriverIndex \in Alone
      BY <2>3, <3>2 DEF DriverIndex
    <3> QED
      BY <3>1, <3>3 DEF Driver, Queued
  <2> QED
    BY <2>2, <2>3
<1> QED
  BY <1>1, <1>3, <1>4, <1>5, <1>6

(* run() is left, with the steps as they are or the running one completed.  *)
LEMMA LeaveRunRequests ==
    ASSUME IInv, TurnInv, ReqInv, NEW o, LeaveRun(o), active # None,
           \/ step' = step
           \/ step' = [step EXCEPT ![run.current] = CompletedStep(@)] /\ run.current # None
    PROVE  ReqInv' /\ NoneEnters
<1> DEFINE cut == {r \in ToSet(Items) : r \in TurnScoped /\ req[r] = "pending"}
<1>1. /\ req' = [r \in Requests |-> IF r \in cut THEN "aborted" ELSE req[r]]
      /\ queue' = [queue EXCEPT ![active] = Kept(Items, Requests \ cut)]
      /\ run' = [run EXCEPT !.pc = "returning", !.current = None, !.outcome = o]
      /\ UNCHANGED <<assigned, standalone, held, releasing, draining, turn, active, reserved>>
  BY DEF LeaveRun, keptByRun
<1>2. /\ queue \in [TurnIds -> Seq(Requests)] /\ step \in [Requests -> StepRecords]
      /\ \A r \in Requests : Placed(r) /\ step[r].turn \in TurnIds \cup {None}
      /\ ListsApart /\ RunHolds
  BY DEF ReqInv, ReqTypes, StepRecords
<1>3. \A r \in cut : req[r] = "pending"
  OBVIOUS
<1> HIDE DEF cut
<1>4. active \in TurnIds /\ turn[active].state = "running"
  BY ItemsLemma
<1>5. /\ queue' \in [TurnIds -> Seq(Requests)]
      /\ Queued(queue'[active]) = (Queued(queue[active]) \cap LiveRequests) \ cut
      /\ \A t \in TurnIds : t # active => queue'[t] = queue[t]
  <2>1. /\ Kept(Items, Requests \ cut) \in Seq(Requests)
        /\ Queued(Kept(Items, Requests \ cut)) = Queued(Items) \cap (Requests \ cut)
        /\ Queued(Items) = Queued(queue[active]) \cap LiveRequests
    BY ItemsLemma
  <2>2. Queued(queue'[active]) = Queued(Items) \cap (Requests \ cut)
    BY <1>1, <1>2, <1>4, <2>1
  <2>3. LiveRequests \subseteq Requests
    BY DEF LiveRequests
  <2> QED
    BY <1>1, <1>2, <1>4, <2>1, <2>2, <2>3
<1>6. ASSUME NEW r \in Requests
      PROVE  /\ step'[r] \in StepRecords
             /\ \/ step'[r] = step[r]
                \/ /\ step'[r].turn = step[r].turn /\ step'[r].state = "completed"
                   /\ step'[r].result # "none" /\ r = run.current /\ run.current # None
  <2>1. step[r] \in StepRecords
    BY <1>2
  <2>2. CompletedStep(step[r]) \in StepRecords
        /\ CompletedStep(step[r]).turn = step[r].turn
        /\ CompletedStep(step[r]).state = "completed" /\ CompletedStep(step[r]).result # "none"
    BY <2>1 DEF StepRecords, CompletedStep, SettleResult
  <2> QED
    BY <1>2, <2>1, <2>2
<1>7. step' \in [Requests -> StepRecords]
  BY <1>2, <1>6
<1>8. ASSUME NEW r \in Requests PROVE Placed(r)'
  <2>1. Placed(r) /\ (Listed(r)' <=> Listed(r))
    BY <1>1, <1>2 DEF Listed
  <2>2. /\ req'[r] = req[r] \/ (req[r] = "pending" /\ req'[r] = "aborted")
        /\ req'[r] = "pending" => r \notin cut /\ req[r] = "pending"
    BY <1>1, <1>3
  <2>3. \A t \in TurnIds : r \in Queued(queue'[t]) => r \in Queued(queue[t])
    BY <1>5
  <2>4. req'[r] = "pending" =>
           \A t \in TurnIds : r \in Queued(queue[t]) => r \in Queued(queue'[t])
    BY <1>5, <2>2 DEF LiveRequests, Live
  <2>5. assigned[r] = "resolved" => step[r].turn \in TurnIds
    BY <1>2, <2>1 DEF Placed
  <2>6. CASE step'[r] = step[r]
    <3>1. step'[r].turn # None /\ Over(step[r].turn)' =>
              step[r].turn # None /\ Over(step[r].turn)
      BY <1>1, <2>6 DEF Over
    <3> QED
      BY <1>1, <2>1, <2>2, <2>3, <2>4, <2>5, <2>6, <3>1 DEF Placed
  <2>7. CASE /\ step'[r].turn = step[r].turn /\ step'[r].state = "completed"
             /\ step'[r].result # "none" /\ r = run.current /\ run.current # None
    <3>1. req[r] = "materialized" /\ step[r].turn = active
      BY <1>2, <2>7 DEF RunHolds
    <3>2. req'[r] = "materialized" /\ ~ Unfinished(step'[r])
      BY <2>2, <2>7, <3>1 DEF Unfinished
    <3> QED
      BY <1>1, <2>1, <2>3, <2>7, <3>1, <3>2 DEF Placed
  <2> QED
    BY <1>6, <2>6, <2>7
<1>9. ListsApart'
  BY <1>1, <1>2 DEF ListsApart
<1>10. RunHolds'
  BY <1>1 DEF RunHolds, IInv, ControlInv
<1>11. NoneEnters
  <2>1. ASSUME NEW h \in Requests
        PROVE  req'[h] = "materialized" <=> req[h] = "materialized"
    BY <1>1, <1>3
  <2>2. ASSUME NEW h \in Requests, NEW t \in TurnIds, h \in Queued(queue'[t])
        PROVE  h \in Queued(queue[t])
    BY <1>5, <2>2
  <2> QED
    BY <2>1, <2>2 DEF NoneEnters
<1> QED
  BY <1>1, <1>5, <1>7, <1>8, <1>9, <1>10, <1>11 DEF ReqInv, ReqTypes

(* Steps of the loop that change the step of the current request alone, and *)
(* may put that request back into the queue of its turn.                    *)
LEMMA CurrentRequests ==
    ASSUME IInv, TurnInv, ReqInv, active # None, UNCHANGED <<req, assigned, keptByRun>>,
           queue' \in [TurnIds -> Seq(Requests)], step' \in [Requests -> StepRecords],
           \A r \in Requests : r # run.current => step'[r] = step[r],
           run.current # None =>
               /\ step'[run.current].turn = active /\ step'[run.current].state # "none"
               /\ step'[run.current].state \in {"completed", "cancelled"} =>
                     step'[run.current].result # "none",
           \A t \in TurnIds, r \in Requests :
               \/ r \in Queued(queue'[t]) <=> r \in Queued(queue[t])
               \/ t = active /\ r = run.current,
           run'.current \in {run.current, None},
           run'.pc \in {"executing", "finishing"} => run'.current # None
    PROVE  ReqInv'
<1>1. /\ UNCHANGED <<standalone, held, releasing, draining, turn, active, reserved>>
      /\ active \in TurnIds /\ turn[active].state = "running"
  BY ItemsLemma DEF keptByRun
<1>2. /\ \A r \in Requests : Placed(r) /\ step[r].turn \in TurnIds \cup {None}
      /\ ListsApart /\ RunHolds
  BY DEF ReqInv, ReqTypes, StepRecords
<1>3. ASSUME NEW r \in Requests PROVE Placed(r)'
  <2>1. Placed(r) /\ (Listed(r)' <=> Listed(r))
    BY <1>1, <1>2 DEF Listed
  <2>2. CASE r = run.current
    <3>1. /\ r # None /\ req'[r] = "materialized" /\ assigned'[r] = "resolved"
          /\ step[r].turn = active /\ step'[r].turn = active
      BY <1>2, <2>1, <2>2, RequestsAssumption DEF RunHolds, Placed
    <3>2. ~ Over(active)' /\ active < reserved
      BY <1>1, ItemsLemma DEF Over
    <3>3. \A t \in TurnIds : r \in Queued(queue'[t]) => t = active
      BY <2>1, <3>1 DEF Placed
    <3> QED
      BY <1>1, <2>1, <2>2, <3>1, <3>2, <3>3 DEF Placed
  <2>3. CASE r # run.current
    <3>1. step'[r] = step[r] /\ \A t \in TurnIds : r \in Queued(queue'[t]) <=> r \in Queued(queue[t])
      BY <2>3
    <3>2. assigned[r] = "resolved" => step[r].turn \in TurnIds
      BY <1>2, <2>1 DEF Placed
    <3> QED
      BY <1>1, <2>1, <3>1, <3>2 DEF Placed, Over
  <2> QED
    BY <2>2, <2>3
<1>4. ReqTypes' /\ ListsApart'
  BY <1>1, <1>2 DEF ListsApart, ReqInv, ReqTypes
<1>5. RunHolds'
  BY <1>1, <1>2 DEF RunHolds
<1> QED
  BY <1>3, <1>4, <1>5 DEF ReqInv

(* The loop steps that leave every queue as it is.                          *)
LEMMA RunOnlyRequests ==
    ASSUME IInv, TurnInv, ReqInv, BeginTooMany \/ FailStep \/ SkipStep \/ CompleteStep
    PROVE  ReqInv' /\ NoneEnters /\ active # None
<1>1. /\ UNCHANGED <<req, assigned, queue, keptByRun>>
      /\ active # None
  BY DEF BeginTooMany, FailStep, SkipStep, CompleteStep, At, IInv, ControlInv
<1>2. /\ queue \in [TurnIds -> Seq(Requests)] /\ step \in [Requests -> StepRecords]
      /\ \A r \in Requests : Placed(r)
      /\ RunHolds
  BY DEF ReqInv, ReqTypes
<1>3. run.current # None => step[run.current].state # "none"
  BY <1>1, <1>2 DEF RunHolds, Placed
<1>4. /\ run'.current \in {run.current, None}
      /\ run'.pc \in {"executing", "finishing"} => run'.current # None
  <2>1. CASE BeginTooMany \/ FailStep \/ SkipStep
    BY <2>1 DEF BeginTooMany, FailStep, SkipStep, At, IInv, ControlInv
  <2>2. CASE CompleteStep
    <3>1. PICK next \in {"begin", "recovering"} :
              run' = [run EXCEPT !.pc = next, !.current = None]
      BY <2>2 DEF CompleteStep
    <3> QED
      BY <3>1 DEF IInv, ControlInv
  <2> QED
    BY <2>1, <2>2
<1>5. NoneEnters
  BY <1>1 DEF NoneEnters
<1>6. CASE step' = step
  <2>1. run.current # None => /\ step[run.current].turn = active
                              /\ step[run.current].state \in {"completed", "cancelled"} =>
                                    step[run.current].result # "none"
    BY <1>2 DEF RunHolds, Placed
  <2>2. ReqInv'
    BY <1>1, <1>2, <1>3, <1>4, <1>6, <2>1, CurrentRequests
  <2> QED
    BY <1>1, <1>5, <2>2
<1>7. CASE CompleteStep
  <2>1. /\ step' = [step EXCEPT ![run.current] = CompletedStep(@)]
        /\ run.current # None /\ run.current \in Requests /\ step[run.current].turn = active
    BY <1>2, <1>7 DEF CompleteStep, At, RunHolds
  <2>2. step[run.current] \in StepRecords
    BY <1>2, <2>1
  <2>3. LET s == CompletedStep(step[run.current])
        IN  /\ s \in StepRecords /\ s.turn = active
            /\ s.state = "completed" /\ s.result # "none"
    BY <2>1, <2>2 DEF StepRecords, CompletedStep, SettleResult
  <2>4. /\ step'[run.current] = CompletedStep(step[run.current])
        /\ \A r \in Requests : r # run.current => step'[r] = step[r]
        /\ step' \in [Requests -> StepRecords]
    BY <1>2, <2>1, <2>3
  <2>5. ReqInv'
    BY <1>1, <1>2, <1>4, <2>3, <2>4, CurrentRequests
  <2> QED
    BY <1>1, <1>5, <2>5
<1> QED
  BY <1>6, <1>7 DEF BeginTooMany, FailStep, SkipStep

(* The driver goes back to the front of the queue of its turn.              *)
LEMMA RetryRequests ==
    ASSUME IInv, TurnInv, ReqInv, Retry
    PROVE  /\ ReqInv' /\ req' = req /\ active # None /\ UNCHANGED active
           /\ Queued(queue'[active]) = Queued(queue[active]) \cup {run.current}
<1>1. /\ UNCHANGED <<req, assigned, keptByRun>>
      /\ queue' = [queue EXCEPT ![active] = <<run.current>> \o @]
      /\ step' = [step EXCEPT ![run.current] =
                    IF @.state = "cancelled" THEN QueuedStep(active)
                    ELSE [@ EXCEPT !.state = "queued"]]
      /\ run' = [run EXCEPT !.pc = "begin", !.current = None, !.retries = @ + 1]
      /\ active # None /\ run.current # None
  BY DEF Retry, At, IInv, ControlInv
<1>2. /\ queue \in [TurnIds -> Seq(Requests)] /\ step \in [Requests -> StepRecords]
      /\ run.current \in Requests /\ step[run.current].turn = active
  BY <1>1 DEF ReqInv, ReqTypes, RunHolds
<1>3. active \in TurnIds /\ queue[active] \in Seq(Requests)
  BY <1>1, <1>2, ItemsLemma
<1>4. /\ queue' \in [TurnIds -> Seq(Requests)]
      /\ Queued(queue'[active]) = Queued(queue[active]) \cup {run.current}
      /\ \A t \in TurnIds : t # active => queue'[t] = queue[t]
  BY <1>1, <1>2, <1>3, QueuedPush
<1>5. step[run.current] \in StepRecords
  BY <1>2
<1>6. /\ step' \in [Requests -> StepRecords]
      /\ step'[run.current].turn = active /\ step'[run.current].state = "queued"
      /\ \A r \in Requests : r # run.current => step'[r] = step[r]
  <2>1. CASE step[run.current].state = "cancelled"
    <3>1. QueuedStep(active) \in StepRecords
      BY <1>3 DEF QueuedStep, StepRecords
    <3> QED
      BY <1>1, <1>2, <2>1, <3>1 DEF QueuedStep
  <2>2. CASE step[run.current].state # "cancelled"
    <3>1. [step[run.current] EXCEPT !.state = "queued"] \in StepRecords
          /\ [step[run.current] EXCEPT !.state = "queued"].turn = active
          /\ [step[run.current] EXCEPT !.state = "queued"].state = "queued"
      BY <1>2, <1>5 DEF StepRecords
    <3> QED
      BY <1>1, <1>2, <2>2, <3>1
  <2> QED
    BY <2>1, <2>2
<1>7. run'.current = None /\ run'.pc = "begin"
  BY <1>1 DEF IInv, ControlInv
<1>8. ReqInv'
  BY <1>1, <1>4, <1>6, <1>7, CurrentRequests
<1> QED
  BY <1>1, <1>4, <1>8 DEF keptByRun

(* The request of a hook joins the queue of the turn that goes on.          *)
LEMMA FinishRequests ==
    ASSUME IInv, TurnInv, ReqInv, FinishStep
    PROVE  ReqInv' /\ NoneEnters /\ active # None
<1>1. /\ UNCHANGED keptByRun /\ run' = [run EXCEPT !.pc = "finishing"]
      /\ run.pc = "executing" /\ active # None
  BY DEF FinishStep, At, IInv, ControlInv
<1>2. /\ queue \in [TurnIds -> Seq(Requests)] /\ step \in [Requests -> StepRecords]
      /\ assigned \in [Requests -> {"none", "pending", "resolved", "rejected"}]
      /\ \A r \in Requests : Placed(r) /\ step[r].turn \in TurnIds \cup {None}
      /\ ListsApart /\ RunHolds /\ run.current # None
  BY <1>1 DEF ReqInv, ReqTypes, RunHolds, StepRecords
<1>3. run'.pc = "finishing" /\ run'.current = run.current
  BY <1>1 DEF IInv, ControlInv
<1>4. CASE UNCHANGED <<req, assigned, step, queue>>
  <2>1. /\ step[run.current].turn = active /\ step[run.current].state # "none"
        /\ step[run.current].state \in {"completed", "cancelled"} =>
              step[run.current].result # "none"
    BY <1>1, <1>2 DEF RunHolds, Placed
  <2>2. ReqInv'
    BY <1>1, <1>2, <1>3, <1>4, <2>1, CurrentRequests
  <2>3. NoneEnters
    BY <1>4 DEF NoneEnters
  <2> QED
    BY <1>1, <2>2, <2>3
<1>5. CASE \E r \in Continuation :
              /\ req[r] = "new"
              /\ req' = [req EXCEPT ![r] = "pending"]
              /\ queue' = [queue EXCEPT ![active] = Append(@, r)]
              /\ step' = [step EXCEPT ![r] = QueuedStep(active)]
              /\ Resolve({r})
  <2>1. PICK r \in Continuation :
              /\ req[r] = "new"
              /\ req' = [req EXCEPT ![r] = "pending"]
              /\ queue' = [queue EXCEPT ![active] = Append(@, r)]
              /\ step' = [step EXCEPT ![r] = QueuedStep(active)]
              /\ Resolve({r})
    BY <1>5
  <2>2. /\ r \in Requests /\ active \in TurnIds /\ turn[active].state = "running"
        /\ active < reserved
        /\ UNCHANGED <<standalone, held, releasing, draining, turn, active, reserved>>
    BY <1>1, KindsAssumption, ItemsLemma DEF keptByRun
  <2>3. /\ step[r].turn = None /\ ~ Listed(r)
        /\ \A t \in TurnIds : r \notin Queued(queue[t])
    BY <1>2, <2>1, <2>2, NoneIsNoTurn DEF Placed
  <2>4. /\ queue' \in [TurnIds -> Seq(Requests)]
        /\ Queued(queue'[active]) = Queued(queue[active]) \cup {r}
        /\ \A t \in TurnIds : t # active => queue'[t] = queue[t]
    BY <1>2, <2>1, <2>2, QueuedAppend
  <2>5. req \in [Requests -> ReqStates]
    BY DEF TurnInv, Drivers
  <2>6. /\ step'[r] = QueuedStep(active) /\ assigned'[r] = "resolved" /\ req'[r] = "pending"
        /\ \A q \in Requests : q # r =>
              step'[q] = step[q] /\ assigned'[q] = assigned[q] /\ req'[q] = req[q]
    BY <1>2, <2>1, <2>2, <2>5 DEF Resolve
  <2>7. QueuedStep(active) \in StepRecords
    BY <2>2 DEF QueuedStep, StepRecords
  <2>8. ReqTypes'
    BY <1>2, <2>1, <2>2, <2>4, <2>6, <2>7 DEF ReqTypes, Resolve
  <2>9. ASSUME NEW q \in Requests PROVE Placed(q)'
    <3>1. Placed(q) /\ (Listed(q)' <=> Listed(q))
      BY <1>2, <2>2 DEF Listed
    <3>2. CASE q = r
      <4>1. ~ Over(active)'
        BY <2>2 DEF Over
      <4>2. step'[r].turn = active /\ step'[r].state = "queued" /\ step'[r].result = "none"
        BY <2>6 DEF QueuedStep
      <4> QED
        BY <1>1, <2>2, <2>3, <2>4, <2>6, <3>1, <3>2, <4>1, <4>2 DEF Placed
    <3>3. CASE q # r
      <4>1. \A t \in TurnIds : q \in Queued(queue'[t]) <=> q \in Queued(queue[t])
        BY <2>4, <3>3
      <4>2. assigned[q] = "resolved" => step[q].turn \in TurnIds
        BY <1>2, <3>1 DEF Placed
      <4> QED
        BY <2>2, <2>6, <3>1, <3>3, <4>1, <4>2 DEF Placed, Over
    <3> QED
      BY <3>2, <3>3
  <2>10. ListsApart' /\ RunHolds'
    <3>1. run.current # r /\ run.current \in Requests
      BY <1>2, <2>1 DEF RunHolds
    <3> QED
      BY <1>2, <1>3, <2>2, <2>6, <3>1 DEF ListsApart, RunHolds
  <2>11. NoneEnters
    BY <2>1, <2>4, <2>6 DEF NoneEnters
  <2> QED
    BY <1>1, <2>8, <2>9, <2>10, <2>11 DEF ReqInv
<1> QED
  BY <1>4, <1>5 DEF FinishStep

(* What enters the context: requests of the active turn that are pending or *)
(* come back for another try, of a turn that was not aborted.               *)
Enters(batch) ==
    /\ batch = {Driver} \cup (ToSet(Items) \cap Mergeable)
    /\ Items # <<>> /\ Driver \in batch
    /\ batch \subseteq Requests /\ batch \subseteq Queued(queue[active])
    /\ Queued(queue'[active]) = (Queued(queue[active]) \cap LiveRequests) \ batch
    /\ \A r \in Requests : req'[r] = IF r \in batch THEN "materialized" ELSE req[r]
    /\ \A r \in batch :
          \/ req[r] = "materialized"
          \/ req[r] = "pending" /\ assigned[r] = "resolved" /\ step[r].result = "none"
    /\ \A r \in batch : step[r].turn = active /\ ~ Listed(r)

LEMMA BatchLemma ==
    ASSUME IInv, TurnInv, ReqInv, BeginStep
    PROVE  active # None /\ active' = active /\ \E batch : Enters(batch)
<1> DEFINE batch == {Driver} \cup (ToSet(Items) \cap Mergeable)
<1>1. /\ active # None /\ active' = active /\ Items # <<>>
      /\ queue' = [queue EXCEPT ![active] = Kept(Items, Requests \ batch)]
      /\ req' = [r \in Requests |-> IF r \in batch THEN "materialized" ELSE req[r]]
  BY DEF BeginStep, keptByRun, IInv, ControlInv
<1>2. Driver \in batch
  OBVIOUS
<1>3. batch \subseteq Queued(Items)
  BY <1>1, ItemsLemma
<1>4. batch = {Driver} \cup (ToSet(Items) \cap Mergeable)
  OBVIOUS
<1> HIDE DEF batch
<1>5. /\ queue \in [TurnIds -> Seq(Requests)]
      /\ \A r \in Requests : Placed(r)
  BY DEF ReqInv, ReqTypes
<1>6. /\ active \in TurnIds
      /\ Queued(Items) = Queued(queue[active]) \cap LiveRequests
      /\ Queued(Kept(Items, Requests \ batch)) = Queued(Items) \cap (Requests \ batch)
  BY <1>1, ItemsLemma
<1>7. queue'[active] = Kept(Items, Requests \ batch)
  BY <1>1, <1>5, <1>6
<1>8. Queued(queue'[active]) = (Queued(queue[active]) \cap LiveRequests) \ batch
  BY <1>6, <1>7 DEF LiveRequests
<1>9. ASSUME NEW r \in batch
      PROVE  /\ r \in Requests /\ r \in Queued(queue[active])
             /\ step[r].turn = active /\ ~ Listed(r)
             /\ \/ req[r] = "materialized"
                \/ req[r] = "pending" /\ assigned[r] = "resolved" /\ step[r].result = "none"
  <2>1. r \in Requests /\ r \in Queued(queue[active]) /\ req[r] # "aborted"
    BY <1>3, <1>6 DEF LiveRequests, Live
  <2>2. Placed(r) /\ step[r].turn = active /\ req[r] \in ReqStates
    BY <1>5, <1>6, <2>1 DEF Placed, TurnInv, Drivers
  <2> QED
    BY <1>1, <2>1, <2>2 DEF Placed, ReqStates
<1> QED
  BY <1>1, <1>2, <1>4, <1>8, <1>9 DEF Enters

LEMMA BeginStepRequests ==
    ASSUME IInv, TurnInv, ReqInv, BeginStep PROVE ReqInv'
<1>1. /\ UNCHANGED <<assigned, standalone, held, releasing, draining, turn, active, reserved>>
      /\ step' = [step EXCEPT ![Driver].state = "running"]
      /\ run' = [run EXCEPT !.pc = "executing", !.current = Driver, !.steps = @ + 1]
      /\ active # None
  BY BatchLemma DEF BeginStep, keptByRun
<1>2. PICK batch : Enters(batch)
  BY BatchLemma
<1>3. Driver \in batch /\ Driver \in Requests /\ step[Driver].turn = active
  BY <1>2 DEF Enters
<1>4. /\ active \in TurnIds /\ turn[active].state = "running" /\ active < reserved
      /\ \A S : Kept(Items, S) \in Seq(Requests)
  BY <1>1, ItemsLemma
<1>5. /\ queue \in [TurnIds -> Seq(Requests)] /\ step \in [Requests -> StepRecords]
      /\ \A r \in Requests : Placed(r) /\ step[r].turn \in TurnIds \cup {None}
      /\ ListsApart /\ RunHolds
  BY DEF ReqInv, ReqTypes, StepRecords
<1>6. /\ queue' \in [TurnIds -> Seq(Requests)]
      /\ \A t \in TurnIds : t # active => queue'[t] = queue[t]
  <2>1. \E S : queue' = [queue EXCEPT ![active] = Kept(Items, S)]
    BY DEF BeginStep
  <2> QED
    BY <1>4, <1>5, <2>1
<1>7. /\ step'[Driver] = [step[Driver] EXCEPT !.state = "running"]
      /\ \A r \in Requests : r # Driver => step'[r] = step[r]
  BY <1>1, <1>3, <1>5
<1>8. [step[Driver] EXCEPT !.state = "running"] \in StepRecords
      /\ step'[Driver].turn = active /\ step'[Driver].state = "running"
  <2>1. step[Driver] \in StepRecords
    BY <1>3, <1>5
  <2> QED
    BY <1>3, <1>7, <2>1 DEF StepRecords
<1>9. ReqTypes'
  BY <1>1, <1>5, <1>6, <1>7, <1>8 DEF ReqInv, ReqTypes
<1>10. ASSUME NEW r \in Requests PROVE Placed(r)'
  <2>1. Placed(r) /\ (Listed(r)' <=> Listed(r)) /\ ~ Over(active)'
    BY <1>1, <1>4, <1>5 DEF Listed, Over
  <2>2. CASE r \in batch
    <3>1. /\ req'[r] = "materialized" /\ step[r].turn = active /\ ~ Listed(r)
          /\ r \notin Queued(queue'[active]) /\ r \in Queued(queue[active])
      BY <1>2, <2>2 DEF Enters
    <3>2. /\ step'[r].turn = active /\ step'[r].state # "none"
          /\ step'[r].state \in {"completed", "cancelled"} => step'[r].result # "none"
      <4>1. CASE r = Driver
        BY <1>8, <4>1
      <4>2. CASE r # Driver
        BY <1>1, <1>7, <2>1, <3>1, <4>2 DEF Placed
      <4> QED
        BY <4>1, <4>2
    <3>3. \A t \in TurnIds : r \notin Queued(queue'[t])
      BY <1>6, <2>1, <3>1 DEF Placed
    <3> QED
      BY <1>1, <1>4, <2>1, <3>1, <3>2, <3>3 DEF Placed
  <2>3. CASE r \notin batch
    <3>1. /\ req'[r] = req[r] /\ step'[r] = step[r]
          /\ Queued(queue'[active]) = (Queued(queue[active]) \cap LiveRequests) \ batch
      BY <1>2, <1>3, <1>7, <2>3 DEF Enters
    <3>2. \A t \in TurnIds : r \in Queued(queue'[t]) => r \in Queued(queue[t])
      BY <1>6, <3>1
    <3>3. req[r] = "pending" =>
             \A t \in TurnIds : r \in Queued(queue[t]) => r \in Queued(queue'[t])
      BY <1>6, <2>3, <3>1 DEF LiveRequests, Live
    <3>4. assigned[r] = "resolved" => step[r].turn \in TurnIds
      BY <1>5, <2>1 DEF Placed
    <3> QED
      BY <1>1, <2>1, <3>1, <3>2, <3>3, <3>4 DEF Placed, Over
  <2> QED
    BY <2>2, <2>3
<1>11. ListsApart'
  BY <1>1, <1>5 DEF ListsApart
<1>12. RunHolds'
  <2>1. run'.current = Driver /\ req'[Driver] = "materialized"
    BY <1>1, <1>2, <1>3 DEF Enters, IInv, ControlInv
  <2> QED
    BY <1>1, <1>3, <1>8, <2>1, RequestsAssumption DEF RunHolds
<1> QED
  BY <1>9, <1>10, <1>11, <1>12 DEF ReqInv

(* The ways out of run().                                                   *)
LEMMA LeavingRequests ==
    ASSUME IInv, TurnInv, ReqInv,
           BeginAborted \/ BeginIdle \/ StopTurn \/ AbortTurn \/ GiveUp
    PROVE  ReqInv' /\ NoneEnters /\ active # None /\ \E o : LeaveRun(o)
<1>1. active # None
  BY DEF BeginAborted, BeginIdle, StopTurn, AbortTurn, GiveUp, At, IInv, ControlInv
<1>2. CASE BeginAborted \/ BeginIdle \/ AbortTurn \/ GiveUp
  <2>1. step' = step /\ \E o : LeaveRun(o)
    BY <1>2 DEF BeginAborted, BeginIdle, AbortTurn, GiveUp
  <2> QED
    BY <1>1, <2>1, LeaveRunRequests
<1>3. CASE StopTurn
  <2>1. /\ step' = [step EXCEPT ![run.current] = CompletedStep(@)]
        /\ run.current # None /\ LeaveRun("completed")
    BY <1>3 DEF StopTurn, At, ReqInv, RunHolds
  <2> QED
    BY <1>1, <2>1, LeaveRunRequests
<1> QED
  BY <1>2, <1>3

LEMMA NextRequests ==
    ASSUME IInv, TurnInv, TurnInv', ReqInv, [Next]_vars
    PROVE  ReqInv' /\ (NoneEnters \/ BeginStep \/ Retry)
<1>1. CASE Callers
  <2>1. CASE \E r \in Requests : Enqueue(r) \/ CancelStep(r) \/ AbortRequest(r)
    BY <2>1, EnqueueRequests, CancelledRequests, AbortRequestRequests
  <2>2. CASE \E t \in TurnIds : CancelActiveTurn(t) \/ CancelQueuedTurn(t)
    BY <2>2, FrameCallsRequests, CancelledRequests
  <2>3. CASE (\E w \in Waiters : Settled(w)) \/ TryAcquireQuiescence
    BY <2>3, FrameCallsRequests
  <2>4. CASE Dispose
    BY <2>4, DisposeRequests
  <2> QED
    BY <1>1, <2>1, <2>2, <2>3, <2>4 DEF Callers
<1>2. CASE ReleaseQuiescence \/ ReleaseDone \/ PumpNext
  BY <1>2, PumpingRequests
<1>3. CASE AdmitHeld
  BY <1>3, AdmitHeldRequests
<1>4. CASE BeginTooMany \/ FailStep \/ SkipStep \/ CompleteStep
  BY <1>4, RunOnlyRequests
<1>5. CASE BeginAborted \/ BeginIdle \/ StopTurn \/ AbortTurn \/ GiveUp
  BY <1>5, LeavingRequests
<1>6. CASE BeginStep
  BY <1>6, BeginStepRequests
<1>7. CASE FinishStep
  BY <1>7, FinishRequests
<1>8. CASE Retry
  BY <1>8, RetryRequests
<1>9. CASE ReleaseActiveTurn
  BY <1>9, CancelledRequests
<1>10. CASE UNCHANGED vars
  BY <1>10, FrameCallsRequests
<1> QED
  BY <1>1, <1>2, <1>3, <1>4, <1>5, <1>6, <1>7, <1>8, <1>9, <1>10
     DEF Next, Begin, Execute, Complete, Recover, Stopped

-----------------------------------------------------------------------------
(* The step limit.  A handoff counts once it is in the context; as long as  *)
(* it is back in the queue, for another try, a step of it is still due.     *)

Counted == {h \in Handoff : req[h] = "materialized"}
Due == {h \in Counted : h \in Queued(queue[active])}

StepBound ==
    MaxSteps > 0 /\ active # None =>
        run.steps + Cardinality(Due) <= MaxSteps + Cardinality(Counted) + run.retries

RunTypes ==
    /\ run.pc \in {"none", "begin", "executing", "finishing", "recovering", "returning"}
    /\ run.outcome \in {"none", "completed", "cancelled", "failed"}
    /\ run.steps \in Nat /\ run.retries \in 0..MaxRetries

RunInv == RunTypes /\ (active = None => run.steps = 0) /\ StepBound

(* Where a run begins and ends, and what the others do to its counters.     *)
SameRun ==
    /\ UNCHANGED active
    /\ run'.steps = run.steps /\ run'.retries = run.retries

LEMMA RunMoves ==
    ASSUME IInv, TurnInv, ReqInv, RunTypes, [Next]_vars
    PROVE  /\ RunTypes'
           /\ \/ SameRun
              \/ active' # None /\ run'.steps = 0
              \/ active' = None /\ run'.steps = 0
              \/ BeginStep /\ run'.steps = run.steps + 1 /\ run'.retries = run.retries
              \/ Retry /\ run'.steps = run.steps /\ run'.retries = run.retries + 1
<1>1. run = [pc |-> run.pc, current |-> run.current, steps |-> run.steps,
             retries |-> run.retries, outcome |-> run.outcome]
  BY DEF IInv, ControlInv
<1>2. CASE UNCHANGED <<run, active>>
  BY <1>2 DEF RunTypes, SameRun
<1>3. ASSUME run' = [NoRun EXCEPT !.pc = "begin"]
      PROVE  RunTypes' /\ run'.steps = 0
  BY <1>3, BoundsAssumption DEF RunTypes, NoRun
<1>4. CASE run' = [NoRun EXCEPT !.pc = "begin"]
  BY <1>3, <1>4
<1>5. ASSUME NEW pend, NEW turns, NEW hold, PumpTurns(pend, turns, hold)
      PROVE  UNCHANGED <<run, active>> \/ run' = [NoRun EXCEPT !.pc = "begin"]
  BY <1>5 DEF PumpTurns
<1>6. ASSUME NEW r, Admit(r) \/ Refuse(r)
      PROVE  UNCHANGED <<run, active>> \/ run' = [NoRun EXCEPT !.pc = "begin"]
  BY <1>5, <1>6 DEF Admit, Refuse, CreateTurn, JoinActive, WaitForNextTurn, turnVars
<1>7. CASE Callers
  <2>1. CASE \E r \in Requests : Enqueue(r)
    BY <1>2, <1>4, <1>6, <2>1 DEF Enqueue, Hold, turnVars
  <2>2. CASE \E r \in Requests : CancelStep(r) \/ AbortRequest(r)
    BY <1>2, <2>2 DEF CancelStep, AbortRequest, turnVars
  <2>3. CASE \E t \in TurnIds : CancelActiveTurn(t) \/ CancelQueuedTurn(t)
    BY <1>2, <2>3 DEF CancelActiveTurn, CancelQueuedTurn
  <2>4. CASE (\E w \in Waiters : Settled(w)) \/ TryAcquireQuiescence \/ Dispose
    BY <1>2, <2>4 DEF Settled, TryAcquireQuiescence, Dispose, turnVars
  <2> QED
    BY <1>7, <2>1, <2>2, <2>3, <2>4 DEF Callers
<1>8. CASE ReleaseQuiescence \/ ReleaseDone \/ PumpNext
  BY <1>2, <1>4, <1>5, <1>8 DEF ReleaseQuiescence, ReleaseDone, PumpNext
<1>9. CASE AdmitHeld
  BY <1>2, <1>4, <1>6, <1>9 DEF AdmitHeld, turnVars
<1>10. CASE BeginTooMany \/ FailStep \/ SkipStep \/ FinishStep
  <2>1. /\ UNCHANGED active
        /\ \/ run' = [run EXCEPT !.pc = "recovering", !.current = None]
           \/ run' = [run EXCEPT !.pc = "recovering"]
           \/ run' = [run EXCEPT !.pc = "begin", !.current = None]
           \/ run' = [run EXCEPT !.pc = "finishing"]
    BY <1>10 DEF BeginTooMany, FailStep, SkipStep, FinishStep, keptByRun
  <2> QED
    BY <1>1, <2>1 DEF RunTypes, SameRun
<1>11. CASE CompleteStep
  <2>1. PICK next \in {"begin", "recovering"} :
            run' = [run EXCEPT !.pc = next, !.current = None]
    BY <1>11 DEF CompleteStep
  <2>2. UNCHANGED active
    BY <1>11 DEF CompleteStep, keptByRun
  <2> QED
    BY <1>1, <2>1, <2>2 DEF RunTypes, SameRun
<1>12. CASE BeginAborted \/ BeginIdle \/ StopTurn \/ AbortTurn \/ GiveUp
  <2>1. PICK o \in Ends : LeaveRun(o)
    BY <1>12 DEF BeginAborted, BeginIdle, StopTurn, AbortTurn, GiveUp, Ends
  <2>2. /\ run' = [run EXCEPT !.pc = "returning", !.current = None, !.outcome = o]
        /\ UNCHANGED active
    BY <2>1 DEF LeaveRun, keptByRun
  <2> QED
    BY <1>1, <2>2 DEF RunTypes, SameRun, Ends
<1>13. CASE BeginStep
  <2>1. run' = [run EXCEPT !.pc = "executing", !.current = Driver, !.steps = @ + 1]
    BY <1>13 DEF BeginStep
  <2> QED
    BY <1>1, <1>13, <2>1 DEF RunTypes
<1>14. CASE Retry
  <2>1. /\ run' = [run EXCEPT !.pc = "begin", !.current = None, !.retries = @ + 1]
        /\ run.retries < MaxRetries
    BY <1>14 DEF Retry
  <2> QED
    BY <1>1, <1>14, <2>1, BoundsAssumption DEF RunTypes
<1>15. CASE ReleaseActiveTurn
  BY <1>15, BoundsAssumption DEF ReleaseActiveTurn, RunTypes, NoRun
<1>16. CASE UNCHANGED vars
  BY <1>2, <1>16 DEF vars, turnVars
<1> QED
  BY <1>7, <1>8, <1>9, <1>10, <1>11, <1>12, <1>13, <1>14, <1>15, <1>16
     DEF Next, Begin, Execute, Complete, Recover, Stopped

(* Counting sets of requests.                                               *)
LEMMA Cards ==
    ASSUME NEW S \in SUBSET Requests, NEW T \in SUBSET S
    PROVE  /\ Cardinality(S) \in Nat /\ Cardinality(T) \in Nat
           /\ Cardinality(T) <= Cardinality(S)
           /\ \A x \in S \ T : Cardinality(T) + 1 <= Cardinality(S)
           /\ \A x : Cardinality(T \cup {x}) <= Cardinality(T) + 1
<1>1. IsFiniteSet(S) /\ IsFiniteSet(T) /\ Cardinality(T) <= Cardinality(S)
  BY RequestsAssumption, FS_Subset
<1>2. Cardinality(S) \in Nat /\ Cardinality(T) \in Nat
  BY <1>1, FS_CardinalityType
<1>3. ASSUME NEW x PROVE Cardinality(T \cup {x}) <= Cardinality(T) + 1
  BY <1>1, <1>2, FS_AddElement
<1>4. ASSUME NEW x \in S \ T PROVE Cardinality(T) + 1 <= Cardinality(S)
  <2>1. Cardinality(T \cup {x}) = Cardinality(T) + 1
    BY <1>1, FS_AddElement
  <2>2. T \cup {x} \in SUBSET S
    OBVIOUS
  <2> QED
    BY <1>1, <2>1, <2>2, FS_Subset
<1> QED
  BY <1>1, <1>2, <1>3, <1>4

LEMMA NextRun ==
    ASSUME IInv, TurnInv, TurnInv', ReqInv, ReqInv', RunInv, [Next]_vars
    PROVE  RunInv'
<1>1. /\ RunTypes' /\ run.steps \in Nat /\ run.retries \in Nat
      /\ run'.steps \in Nat /\ run'.retries \in Nat
  BY RunMoves, BoundsAssumption DEF RunInv, RunTypes
<1>2. /\ Counted \in SUBSET Requests /\ Counted' \in SUBSET Requests
      /\ Due \in SUBSET Counted /\ Due' \in SUBSET Counted'
  BY KindsAssumption DEF Counted, Due
<1>3. /\ Cardinality(Counted) \in Nat /\ Cardinality(Due) \in Nat
      /\ Cardinality(Counted') \in Nat /\ Cardinality(Due') \in Nat
      /\ Cardinality(Due') <= Cardinality(Counted')
      /\ Cardinality(Due) <= Cardinality(Counted) /\ MaxSteps \in Nat
  BY <1>2, Cards, BoundsAssumption
<1>4. CASE run'.steps = 0
  <2>1. StepBound'
    BY <1>1, <1>3, <1>4 DEF StepBound
  <2> QED
    BY <1>1, <1>4, <2>1 DEF RunInv
<1>5. CASE SameRun /\ NoneEnters
  <2>1. Counted' = Counted
    BY <1>2, <1>5, KindsAssumption DEF Counted, NoneEnters
  <2>2. ASSUME active # None PROVE Cardinality(Due') <= Cardinality(Due)
    <3>1. active \in TurnIds /\ active' = active
      BY <1>5, <2>2 DEF SameRun, TurnInv, TurnsOrdered
    <3>2. Due' \in SUBSET Due
      BY <1>2, <1>5, <2>1, <3>1, KindsAssumption DEF Due, Counted, NoneEnters
    <3>3. Due \in SUBSET Requests
      BY <1>2
    <3> QED
      BY <3>2, <3>3, Cards
  <2>3. StepBound'
    <3> SUFFICES ASSUME MaxSteps > 0, active' # None
                 PROVE  run'.steps + Cardinality(Due') <=
                            MaxSteps + Cardinality(Counted') + run'.retries
      BY DEF StepBound
    <3>1. run.steps + Cardinality(Due) <= MaxSteps + Cardinality(Counted) + run.retries
      BY <1>5 DEF SameRun, RunInv, StepBound
    <3> QED
      BY <1>1, <1>3, <1>5, <2>1, <2>2, <3>1 DEF SameRun
  <2> QED
    BY <1>1, <1>5, <2>3 DEF RunInv, SameRun
<1>6. CASE Retry /\ run'.steps = run.steps /\ run'.retries = run.retries + 1
  <2>1. /\ req' = req /\ active # None /\ active' = active
        /\ Queued(queue'[active]) = Queued(queue[active]) \cup {run.current}
    BY <1>6, RetryRequests
  <2>2. Counted' = Counted
    BY <2>1 DEF Counted
  <2>3. Cardinality(Due') <= Cardinality(Due) + 1
    <3>1. Due \cup {run.current} \in SUBSET Requests /\ Due' \in SUBSET (Due \cup {run.current})
      BY <1>2, <1>6, <2>1, <2>2 DEF Due, ReqInv, RunHolds, Retry
    <3>2. Cardinality(Due') <= Cardinality(Due \cup {run.current})
          /\ Cardinality(Due \cup {run.current}) \in Nat
      BY <3>1, Cards
    <3>3. Cardinality(Due \cup {run.current}) <= Cardinality(Due) + 1
      BY <1>2, Cards
    <3> QED
      BY <1>3, <3>2, <3>3
  <2>4. StepBound'
    BY <1>1, <1>3, <1>6, <2>1, <2>2, <2>3 DEF RunInv, StepBound
  <2> QED
    BY <1>1, <2>1, <2>4 DEF RunInv
<1>7. CASE BeginStep /\ run'.steps = run.steps + 1 /\ run'.retries = run.retries
  <2>1. active # None /\ active' = active /\ ~ TooManySteps
    BY <1>7, BatchLemma DEF BeginStep
  <2>2. PICK batch : Enters(batch)
    BY <1>7, BatchLemma
  <2>3. /\ batch \subseteq Requests /\ Driver \in batch /\ Driver \in Queued(queue[active])
        /\ \A h \in Requests : req'[h] = IF h \in batch THEN "materialized" ELSE req[h]
        /\ Queued(queue'[active]) = (Queued(queue[active]) \cap LiveRequests) \ batch
    BY <2>2 DEF Enters
  <2>4. Counted \in SUBSET Counted' /\ Due' \in SUBSET (Due \ batch)
    BY <1>2, <2>1, <2>3, KindsAssumption DEF Counted, Due
  <2>5. Cardinality(Counted) <= Cardinality(Counted') /\ Cardinality(Due') <= Cardinality(Due)
    <3>1. Due' \in SUBSET Due /\ Due \in SUBSET Requests
      BY <1>2, <2>4
    <3> QED
      BY <1>2, <2>4, <3>1, Cards
  <2>6. StepBound'
    <3> SUFFICES ASSUME MaxSteps > 0
                 PROVE  run'.steps + Cardinality(Due') <=
                            MaxSteps + Cardinality(Counted') + run'.retries
      BY DEF StepBound
    <3>1. run.steps + Cardinality(Due) <= MaxSteps + Cardinality(Counted) + run.retries
      BY <2>1 DEF RunInv, StepBound
    <3>2. CASE Driver \notin Handoff
      <4>1. run.steps < MaxSteps
        BY <1>1, <1>3, <2>1, <3>2 DEF TooManySteps
      <4> QED
        BY <1>1, <1>3, <1>7, <4>1
    <3>3. CASE Driver \in Handoff /\ req[Driver] = "materialized"
      <4>1. Driver \in Due \ Due' /\ Due' \in SUBSET Due /\ Due \in SUBSET Requests
        BY <1>2, <2>3, <2>4, <3>3 DEF Due, Counted
      <4>2. Cardinality(Due') + 1 <= Cardinality(Due)
        BY <4>1, Cards
      <4> QED
        BY <1>1, <1>3, <1>7, <2>5, <3>1, <4>2
    <3>4. CASE Driver \in Handoff /\ req[Driver] # "materialized"
      <4>1. Driver \in Counted' \ Counted
        BY <2>3, <3>4 DEF Counted
      <4>2. Cardinality(Counted) + 1 <= Cardinality(Counted')
        BY <1>2, <2>4, <4>1, Cards
      <4> QED
        BY <1>1, <1>3, <1>7, <2>5, <3>1, <4>2
    <3> QED
      BY <3>2, <3>3, <3>4
  <2> QED
    BY <1>1, <2>1, <2>6 DEF RunInv
<1>8. NoneEnters \/ BeginStep \/ Retry
  BY NextRequests
<1>9. CASE SameRun /\ (BeginStep \/ Retry)
  <2>1. run'.steps # run.steps \/ run'.retries # run.retries
    <3>1. run = [pc |-> run.pc, current |-> run.current, steps |-> run.steps,
                 retries |-> run.retries, outcome |-> run.outcome]
      BY DEF IInv, ControlInv
    <3>2. CASE BeginStep
      <4>1. run' = [run EXCEPT !.pc = "executing", !.current = Driver, !.steps = @ + 1]
        BY <3>2 DEF BeginStep
      <4>2. run'.steps = run.steps + 1
        BY <3>1, <4>1
      <4> QED
        BY <1>1, <4>2
    <3>3. CASE Retry
      <4>1. run' = [run EXCEPT !.pc = "begin", !.current = None, !.retries = @ + 1]
        BY <3>3 DEF Retry
      <4>2. run'.retries = run.retries + 1
        BY <3>1, <4>1
      <4> QED
        BY <1>1, <4>2
    <3> QED
      BY <1>9, <3>2, <3>3
  <2> QED
    BY <1>9, <2>1 DEF SameRun
<1> QED
  BY <1>4, <1>5, <1>6, <1>7, <1>8, <1>9, RunMoves DEF RunInv

-----------------------------------------------------------------------------
(* The switches of the service, and who waits for it.                       *)
Switches ==
    /\ draining \in BOOLEAN /\ quiet \in BOOLEAN
    /\ disposing \in BOOLEAN /\ ending \in BOOLEAN
    /\ waiting \subseteq Waiters

LEMMA NextSwitches == ASSUME Switches, [Next]_vars PROVE Switches'
<1>1. ASSUME NEW pend, NEW turns, NEW hold, PumpTurns(pend, turns, hold)
      PROVE  waiting' \subseteq Waiters
  BY <1>1 DEF PumpTurns, MaybeSettle, Switches
<1>2. ASSUME NEW act, NEW pend, NEW hold, MaybeSettle(act, pend, hold)
      PROVE  waiting' \subseteq Waiters
  BY <1>2 DEF MaybeSettle, Switches
<1>3. ASSUME NEW r, Admit(r) \/ Refuse(r) PROVE waiting' \subseteq Waiters
  BY <1>1, <1>3 DEF Admit, Refuse, CreateTurn, JoinActive, WaitForNextTurn, Switches
<1>4. waiting' \subseteq Waiters
  <2>1. CASE Callers
    <3>1. CASE \E r \in Requests : Enqueue(r) \/ CancelStep(r) \/ AbortRequest(r)
      BY <1>2, <1>3, <3>1 DEF Enqueue, Hold, CancelStep, AbortRequest, Switches
    <3>2. CASE \E t \in TurnIds : CancelActiveTurn(t) \/ CancelQueuedTurn(t)
      BY <1>2, <3>2 DEF CancelActiveTurn, CancelQueuedTurn, Switches
    <3>3. CASE (\E w \in Waiters : Settled(w)) \/ TryAcquireQuiescence \/ Dispose
      BY <1>2, <3>3 DEF Settled, TryAcquireQuiescence, Dispose, Switches
    <3> QED
      BY <2>1, <3>1, <3>2, <3>3 DEF Callers
  <2>2. CASE ReleaseQuiescence \/ ReleaseDone \/ PumpNext \/ AdmitHeld
    BY <1>1, <1>3, <2>2 DEF ReleaseQuiescence, ReleaseDone, PumpNext, AdmitHeld, Switches
  <2>3. CASE Begin \/ Execute \/ Complete \/ Recover
    BY <2>3 DEF Begin, Execute, Complete, Recover, BeginAborted, BeginIdle, BeginTooMany,
       BeginStep, FinishStep, FailStep, SkipStep, AbortTurn, CompleteStep, StopTurn, Retry,
       GiveUp, LeaveRun, keptByRun, Switches
  <2>4. CASE ReleaseActiveTurn
    BY <1>2, <2>4 DEF ReleaseActiveTurn
  <2>5. CASE UNCHANGED vars
    BY <2>5 DEF vars, Switches
  <2> QED
    BY <2>1, <2>2, <2>3, <2>4, <2>5 DEF Next, Stopped
<1>5. draining' \in BOOLEAN /\ quiet' \in BOOLEAN /\ disposing' \in BOOLEAN /\ ending' \in BOOLEAN
  <2>1. CASE Callers
    <3>1. CASE \E r \in Requests : Enqueue(r) \/ CancelStep(r) \/ AbortRequest(r)
      BY <3>1 DEF Enqueue, CancelStep, AbortRequest, admissionVars, Switches
    <3>2. CASE \E t \in TurnIds : CancelActiveTurn(t) \/ CancelQueuedTurn(t)
      BY <3>2 DEF CancelActiveTurn, CancelQueuedTurn, admissionVars, Switches
    <3>3. CASE (\E w \in Waiters : Settled(w)) \/ TryAcquireQuiescence \/ Dispose
      BY <3>3 DEF Settled, TryAcquireQuiescence, Dispose, admissionVars, Switches
    <3> QED
      BY <2>1, <3>1, <3>2, <3>3 DEF Callers
  <2>2. CASE ReleaseQuiescence \/ ReleaseDone \/ PumpNext \/ AdmitHeld
    BY <2>2 DEF ReleaseQuiescence, ReleaseDone, PumpNext, AdmitHeld, admissionVars, Switches
  <2>3. CASE Begin \/ Execute \/ Complete \/ Recover
    BY <2>3 DEF Begin, Execute, Complete, Recover, BeginAborted, BeginIdle, BeginTooMany,
       BeginStep, FinishStep, FailStep, SkipStep, AbortTurn, CompleteStep, StopTurn, Retry,
       GiveUp, LeaveRun, keptByRun, Switches
  <2>4. CASE ReleaseActiveTurn
    BY <2>4 DEF ReleaseActiveTurn, admissionVars, Switches
  <2>5. CASE UNCHANGED vars
    BY <2>5 DEF vars, admissionVars, Switches
  <2> QED
    BY <2>1, <2>2, <2>3, <2>4, <2>5 DEF Next, Stopped
<1> QED
  BY <1>4, <1>5 DEF Switches

-----------------------------------------------------------------------------
(* Every request is where its receipt says, and the steps of the active     *)
(* turn are within the limit: the invariant the next theorems rest on.      *)
THEOREM RequestInvariant == Spec => [](ReqInv /\ RunInv /\ Switches)
<1>1. Init => ReqInv /\ RunInv /\ Switches
  <2> SUFFICES ASSUME Init PROVE ReqInv /\ RunInv /\ Switches
    OBVIOUS
  <2>1. run = NoRun /\ active = None
    BY DEF Init
  <2>2. RunInv
    BY <2>1, BoundsAssumption DEF RunInv, RunTypes, StepBound, NoRun
  <2>3. Switches
    BY DEF Init, Switches
  <2> QED
    BY <2>2, <2>3, ReqInitInv
<1>2. IInv /\ TurnInv /\ TurnInv' /\ (ReqInv /\ RunInv /\ Switches) /\ [Next]_vars =>
          (ReqInv /\ RunInv /\ Switches)'
  BY NextRequests, NextRun, NextSwitches
<1> QED
  BY <1>1, <1>2, InductiveInvariant, TurnInvariant, PTL DEF Spec

(* The variables keep their types.                                          *)
THEOREM TypeCorrect == Spec => []TypeOK
<1>1. IInv /\ TurnInv /\ ReqInv /\ RunInv /\ Switches => TypeOK
  <2> SUFFICES ASSUME IInv, TurnInv, ReqInv, RunInv, Switches PROVE TypeOK
    OBVIOUS
  <2>1. /\ req \in [Requests -> {"new", "pending", "materialized", "aborted"}]
        /\ assigned \in [Requests -> {"none", "pending", "resolved", "rejected"}]
        /\ step \in [Requests ->
              [turn : TurnIds \cup {None},
               state : {"none", "queued", "running", "completed", "cancelled"},
               result : {"none", "completed", "cancelled"}]]
        /\ queue \in [TurnIds -> Seq(Requests)]
    BY DEF TurnInv, Drivers, ReqStates, ReqInv, ReqTypes, StepRecords
  <2>2. /\ {standalone, held, releasing} \subseteq Seq(Requests)
        /\ run.current \in Requests \cup {None}
    BY DEF IInv, ControlInv, ReqInv, RunHolds
  <2>3. /\ turn \in [TurnIds ->
              [state : {"none", "queued", "running", "completed", "cancelled", "failed"},
               request : Requests \cup {None}, aborted : BOOLEAN]]
        /\ pendingTurns \in Seq(TurnIds)
        /\ active \in TurnIds \cup {None}
        /\ reserved \in 0..Cardinality(Requests)
    BY DEF TurnInv, TurnsOrdered, Turns, States
  <2>4. nextTurnId \in 0..Cardinality(Requests) /\ cancelledTurnIds \subseteq TurnIds
    <3>1. nextTurnId \in 0..reserved /\ cancelledTurnIds \subseteq (nextTurnId + 1)..(reserved - 1)
      BY DEF TurnInv, ClockAgrees
    <3> QED
      BY <2>3, <3>1, CardinalityNat DEF TurnIds
  <2>5. {draining, quiet, disposing, ending} \subseteq BOOLEAN /\ waiting \subseteq Waiters
    BY DEF Switches
  <2> QED
    BY <2>1, <2>2, <2>3, <2>4, <2>5 DEF TypeOK, RunInv, RunTypes
<1> QED
  BY <1>1, InductiveInvariant, TurnInvariant, RequestInvariant, PTL

(* However enqueue, hold, admit, cancel, abort, retry and dispose follow    *)
(* each other, a request that is still pending is where its receipt says.   *)
THEOREM PendingIsQueuedHolds == Spec => []PendingIsQueued
<1>1. ReqInv => PendingIsQueued
  <2> SUFFICES ASSUME ReqInv, NEW r \in Requests, req[r] = "pending"
               PROVE  \/ /\ assigned[r] = "pending"
                         /\ r \in ToSet(held) \cup ToSet(releasing) \cup ToSet(standalone)
                      \/ /\ assigned[r] = "resolved"
                         /\ step[r].turn # None /\ step[r].state = "queued"
                         /\ ~ Over(step[r].turn)
                         /\ r \in ToSet(queue[step[r].turn])
                      \/ assigned[r] = "rejected"
    BY DEF PendingIsQueued
  <2>1. \A q : ToSet(q) = Queued(q)
    BY DEF ToSet, Queued
  <2> QED
    BY <2>1 DEF ReqInv, Placed, Listed
<1> QED
  BY <1>1, RequestInvariant, PTL

(* A turn that is over leaves no step unfinished, no promise open and no    *)
(* request that could still reach the context.                              *)
THEOREM NothingOutlivesItsTurnHolds == Spec => []NothingOutlivesItsTurn
<1>1. ReqInv => NothingOutlivesItsTurn
  <2> SUFFICES ASSUME ReqInv, NEW r \in Requests, step[r].turn # None, Over(step[r].turn)
               PROVE  /\ ~ Unfinished(step[r])
                      /\ step[r].result # "none"
                      /\ req[r] # "pending"
    BY DEF NothingOutlivesItsTurn
  <2>1. Placed(r) /\ step[r] \in StepRecords
    BY DEF ReqInv, ReqTypes
  <2> QED
    BY <2>1 DEF Placed, StepRecords, Unfinished
<1> QED
  BY <1>1, RequestInvariant, PTL

(* A turn asks the model at most maxStepsPerTurn times, and once more for   *)
(* each handoff and each retry.                                             *)
THEOREM StepLimitHolds == Spec => []StepLimit
<1>1. RunInv => StepLimit
  <2> SUFFICES ASSUME RunInv, MaxSteps > 0
               PROVE  run.steps <= MaxSteps + Cardinality(Handoff) + run.retries
    BY DEF StepLimit
  <2>1. Counted \in SUBSET Handoff /\ Due \in SUBSET Counted /\ Handoff \in SUBSET Requests
    BY KindsAssumption DEF Counted, Due
  <2>2. /\ Cardinality(Counted) <= Cardinality(Handoff)
        /\ Cardinality(Counted) \in Nat /\ Cardinality(Handoff) \in Nat
    BY <2>1, Cards
  <2>3. Cardinality(Due) \in Nat
    <3>1. Counted \in SUBSET Requests
      BY <2>1
    <3> QED
      BY <2>1, <3>1, Cards
  <2> QED
    BY <2>2, <2>3, BoundsAssumption DEF RunInv, RunTypes, StepBound
<1> QED
  BY <1>1, RequestInvariant, PTL

(* A cancelled request never enters the context, nor does one of a turn     *)
(* that was aborted before the step began, whatever raced the cancellation. *)
THEOREM CancelledNeverMaterializesHolds == Spec => CancelledNeverMaterializes
<1>1. IInv /\ TurnInv /\ TurnInv' /\ ReqInv /\ [Next]_vars =>
         [\A r \in Requests : (req[r] # "materialized" /\ req'[r] = "materialized") =>
            /\ req[r] = "pending" /\ step[r].result = "none"
            /\ assigned[r] = "resolved" /\ step[r].turn = active
            /\ ~ turn[active].aborted]_vars
  <2> SUFFICES ASSUME IInv, TurnInv, TurnInv', ReqInv, [Next]_vars,
                      NEW r \in Requests, req[r] # "materialized", req'[r] = "materialized"
               PROVE  /\ req[r] = "pending" /\ step[r].result = "none"
                      /\ assigned[r] = "resolved" /\ step[r].turn = active
                      /\ ~ turn[active].aborted
    OBVIOUS
  <2>1. BeginStep
    BY NextRequests, RetryRequests DEF NoneEnters
  <2>2. PICK batch : Enters(batch)
    BY <2>1, BatchLemma
  <2>3. r \in batch
    BY <2>2 DEF Enters
  <2> QED
    BY <2>1, <2>2, <2>3 DEF Enters, BeginStep, TurnAborted
<1> QED
  BY <1>1, InductiveInvariant, TurnInvariant, RequestInvariant, PTL
     DEF Spec, CancelledNeverMaterializes
=============================================================================
