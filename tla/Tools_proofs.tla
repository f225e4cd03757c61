----------------------------- MODULE Tools_proofs -----------------------------
(* The safety of ToolScheduler and of ToolExecutor, which runs a response    *)
(* under it, for any number of calls and any accesses, and that the          *)
(* scheduler implements OrderedExclusion.                                    *)
EXTENDS ToolExecutor, TLAPS

-----------------------------------------------------------------------------
(* What the conflict test of ToolAccess is worth: it is exactly the test    *)
(* for a race, for all paths, spellings and access lists.                   *)

(* Lower-casing a path keeps its length and works segment by segment.       *)
LEMMA NormalizeLemma ==
    ASSUME NEW p \in Path
    PROVE  /\ NormalizePath(p) \in Seq(Segment)
           /\ Len(NormalizePath(p)) = Len(p)
<1>1. p \in Seq(Segment)
  BY PathAssumption
<1>2. DOMAIN p = 1..Len(p) /\ \A i \in DOMAIN p : p[i] \in Segment
  BY <1>1
<1>3. \A i \in 1..Len(p) : CaseFold[p[i]] \in Segment
  BY <1>2, CaseFoldAssumption
<1>4. NormalizePath(p) = [i \in 1..Len(p) |-> CaseFold[p[i]]]
  BY <1>2 DEF NormalizePath
<1>5. Len(p) \in Nat
  BY <1>1
<1> QED
  BY <1>3, <1>4, <1>5

(* Of two paths that contain the same path one contains the other.          *)
LEMMA PrefixesNest ==
    ASSUME NEW S, NEW p \in Seq(S), NEW a \in Seq(S), NEW b \in Seq(S),
           StartsWith(p, a), StartsWith(p, b)
    PROVE  a = b \/ StartsWith(a, b) \/ StartsWith(b, a)
<1>1. Len(a) \in Nat /\ Len(b) \in Nat /\ Len(p) \in Nat
  OBVIOUS
<1>2. /\ \A i \in 1..Len(a) : p[i] = a[i]
      /\ \A i \in 1..Len(b) : p[i] = b[i]
  BY DEF StartsWith
<1>3. CASE Len(a) = Len(b)
  BY <1>2, <1>3
<1>4. CASE Len(a) < Len(b)
  BY <1>1, <1>2, <1>4 DEF StartsWith
<1>5. CASE Len(b) < Len(a)
  BY <1>1, <1>2, <1>5 DEF StartsWith
<1> QED
  BY <1>1, <1>3, <1>4, <1>5

(* The test does not care which of the two calls comes first.               *)
LEMMA ConflictSymmetric ==
    ASSUME NEW left, NEW right
    PROVE  Conflict(left, right) <=> Conflict(right, left)
<1>1. \A l, r : ResourceAccessesConflict(l, r) => ResourceAccessesConflict(r, l)
  BY DEF ResourceAccessesConflict, FileOperationsConflict, FileAccessesOverlap
<1> QED
  BY <1>1 DEF Conflict

(* The conflict test of the scheduler misses no race: if some file is       *)
(* touched by both calls and modified by one, Conflict says so.             *)
THEOREM RaceIsConflict ==
    ASSUME NEW left \in Accesses, NEW right \in Accesses, Race(left, right)
    PROVE  Conflict(left, right)
<1>1. PICK l \in left, r \in right, p \in Path :
          /\ Touches(l, p) /\ Touches(r, p)
          /\ Modifies(l, p) \/ Modifies(r, p)
  BY DEF Race
<1>2. l \in ResourceAccess /\ r \in ResourceAccess
  BY DEF Accesses
<1> SUFFICES ResourceAccessesConflict(l, r)
  BY DEF Conflict
<1>3. CASE l = All \/ r = All
  BY <1>3 DEF ResourceAccessesConflict
<1>4. CASE l # All /\ r # All
  <2> DEFINE np == NormalizePath(p)
             nl == NormalizePath(l.path)
             nr == NormalizePath(r.path)
  <2>1. l.path \in Path /\ r.path \in Path
    BY <1>2, <1>4 DEF ResourceAccess, FileAccess
  <2>2. np \in Seq(Segment) /\ nl \in Seq(Segment) /\ nr \in Seq(Segment)
    BY <2>1, NormalizeLemma
  <2>3. FileOperationsConflict(l.operation, r.operation)
    BY <1>1, <1>4 DEF Modifies, FileOperationsConflict
  <2>4. /\ np = nl \/ (l.recursive /\ StartsWith(np, nl))
        /\ np = nr \/ (r.recursive /\ StartsWith(np, nr))
    BY <1>1, <1>4 DEF Touches
  <2> HIDE DEF np, nl, nr
  <2>5. \/ nl = nr
        \/ l.recursive /\ StartsWith(nr, nl)
        \/ r.recursive /\ StartsWith(nl, nr)
    BY <2>2, <2>4, PrefixesNest
  <2>6. FileAccessesOverlap(l, r)
    BY <2>5 DEF FileAccessesOverlap, nl, nr
  <2> QED
    BY <1>4, <2>3, <2>6 DEF ResourceAccessesConflict
<1> QED
  BY <1>3, <1>4

(* Nor does it keep calls apart that could not race: each conflict is a     *)
(* possible race for some file, so no call waits in vain.                   *)
THEOREM ConflictIsRace ==
    ASSUME NEW left \in Accesses, NEW right \in Accesses, Path # {},
           Conflict(left, right)
    PROVE  Race(left, right)
<1>1. PICK l \in left, r \in right : ResourceAccessesConflict(l, r)
  BY DEF Conflict
<1>2. l \in ResourceAccess /\ r \in ResourceAccess
  BY DEF Accesses
<1>3. l # All => l.path \in Path
  BY <1>2 DEF ResourceAccess, FileAccess
<1>4. r # All => r.path \in Path
  BY <1>2 DEF ResourceAccess, FileAccess
<1> SUFFICES \E p \in Path :
        /\ Touches(l, p) /\ Touches(r, p)
        /\ Modifies(l, p) \/ Modifies(r, p)
  BY DEF Race
<1>5. CASE l = All /\ r = All
  BY <1>5 DEF Touches, Modifies
<1>6. CASE l = All /\ r # All
  BY <1>4, <1>6 DEF Touches, Modifies
<1>7. CASE l # All /\ r = All
  BY <1>3, <1>7 DEF Touches, Modifies
<1>8. CASE l # All /\ r # All
  <2>1. FileOperationWrites(l.operation) \/ FileOperationWrites(r.operation)
    BY <1>1, <1>8 DEF ResourceAccessesConflict, FileOperationsConflict
  <2>2. FileAccessesOverlap(l, r)
    BY <1>1, <1>8 DEF ResourceAccessesConflict
  <2>3. \E p \in Path : Touches(l, p) /\ Touches(r, p)
    BY <1>3, <1>4, <1>8, <2>2 DEF FileAccessesOverlap, Touches
  <2> QED
    BY <2>1, <2>3 DEF Modifies
<1> QED
  BY <1>5, <1>6, <1>7, <1>8

-----------------------------------------------------------------------------

(* NoConflict and SubmissionOrder need each other's help: a task may start  *)
(* although an earlier one is missing from active and queued only because   *)
(* Partition says that it is settled.                                       *)
SchedulerInv == TypeOK /\ Partition /\ NoConflict /\ QueueHasCause /\ SubmissionOrder

LEMMA SchedulerInitInv == Init => SchedulerInv
BY NAssumption DEF Init, SchedulerInv, TypeOK, Partition, NoConflict, QueueHasCause,
   SubmissionOrder, Tasks

-----------------------------------------------------------------------------
LEMMA AddPreserves == SchedulerInv /\ Add => SchedulerInv'
<1> SUFFICES ASSUME SchedulerInv, Add PROVE SchedulerInv'
  OBVIOUS
<1> DEFINE new == added + 1
<1> USE NAssumption
<1>1. /\ added \in 0..N /\ added' = new /\ new \in Tasks
      /\ accesses' = accesses /\ settled' = settled
  BY DEF SchedulerInv, TypeOK, Add, Tasks
<1>2. active \cup queued \cup settled = 1..added
  BY DEF SchedulerInv, Partition
<1>3. \/ /\ active' = active \cup {new} /\ queued' = queued
         /\ ~ IsBlocked(new, active, queued)
      \/ /\ active' = active /\ queued' = queued \cup {new}
         /\ IsBlocked(new, active, queued)
  BY DEF Add
<1>4. TypeOK'
  BY <1>1, <1>2, <1>3 DEF SchedulerInv, TypeOK, Tasks
<1>5. Partition'
  BY <1>1, <1>2, <1>3 DEF SchedulerInv, Partition
<1>6. NoConflict'
  <2>1. NoConflict
    BY DEF SchedulerInv
  <2>2. \A u \in active : active' # active =>
          ~ Conflict(accesses[new], accesses[u]) /\ ~ Conflict(accesses[u], accesses[new])
    BY <1>3, ConflictSymmetric DEF IsBlocked, ConflictsWithAny
  <2> QED
    BY <1>1, <1>3, <2>1, <2>2 DEF NoConflict
<1>7. QueueHasCause'
  <2> SUFFICES ASSUME NEW t \in queued'
               PROVE  \/ \E u \in active' : Conflict(accesses'[t], accesses'[u])
                      \/ \E u \in queued' : u < t /\ Conflict(accesses'[t], accesses'[u])
    BY DEF QueueHasCause, IsBlocked, ConflictsWithAny
  <2>1. CASE t \in queued
    <3>1. IsBlocked(t, active, {u \in queued : u < t})
      BY <2>1 DEF SchedulerInv, QueueHasCause
    <3> QED
      BY <1>1, <1>3, <3>1 DEF IsBlocked, ConflictsWithAny
  <2>2. CASE t \notin queued
    <3>1. t = new /\ IsBlocked(new, active, queued) /\ active' = active
      BY <1>3, <2>2
    <3>2. \A u \in queued : u \in queued' /\ u < t
      BY <1>1, <1>2, <1>3, <3>1
    <3> QED
      BY <1>1, <3>1, <3>2 DEF IsBlocked, ConflictsWithAny
  <2> QED
    BY <2>1, <2>2
<1>8. SubmissionOrder'
  <2> SUFFICES ASSUME NEW t \in active' \cup settled', NEW u \in 1..(t - 1),
                      Conflict(accesses[t], accesses[u])
               PROVE  u \in settled
    BY <1>1 DEF SubmissionOrder
  <2>1. CASE t \in active \cup settled
    BY <2>1 DEF SchedulerInv, SubmissionOrder
  <2>2. CASE t \notin active \cup settled
    <3>1. t = new /\ ~ IsBlocked(new, active, queued)
      BY <1>1, <1>3, <2>2
    <3>2. u \in 1..added
      BY <1>1, <3>1
    <3> QED
      BY <1>2, <3>1, <3>2 DEF IsBlocked, ConflictsWithAny
  <2> QED
    BY <2>1, <2>2
<1> QED
  BY <1>4, <1>5, <1>6, <1>7, <1>8 DEF SchedulerInv

-----------------------------------------------------------------------------
LEMMA FinishPreserves == ASSUME NEW f \in Tasks PROVE SchedulerInv /\ Finish(f) => SchedulerInv'
<1> SUFFICES ASSUME SchedulerInv, Finish(f) PROVE SchedulerInv'
  OBVIOUS
<1> DEFINE running == active \ {f}
           starting == Unblocked(running, queued)
<1> USE NAssumption
<1>1. /\ f \in active /\ settled' = settled \cup {f}
      /\ active' = running \cup starting /\ queued' = queued \ starting
      /\ accesses' = accesses /\ added' = added
  BY DEF Finish
<1>2. /\ active \cup queued \cup settled = 1..added
      /\ active \cap queued = {} /\ active \cap settled = {} /\ queued \cap settled = {}
  BY DEF SchedulerInv, Partition
<1>3. added \in 0..N
  BY DEF SchedulerInv, TypeOK
<1>4. /\ starting \subseteq queued
      /\ \A t \in starting : \A u \in running :
            ~ Conflict(accesses[t], accesses[u])
      /\ \A t \in starting : \A u \in queued :
            u < t => ~ Conflict(accesses[t], accesses[u])
  BY DEF Unblocked, IsBlocked, ConflictsWithAny
<1>5. \A t \in queued \ starting :
          \/ \E u \in running : Conflict(accesses[t], accesses[u])
          \/ \E u \in queued : u < t /\ Conflict(accesses[t], accesses[u])
  BY DEF Unblocked, IsBlocked, ConflictsWithAny
<1> HIDE DEF starting
<1>6. TypeOK'
  BY <1>1, <1>2, <1>3, <1>4 DEF SchedulerInv, TypeOK
<1>7. Partition'
  BY <1>1, <1>2, <1>4 DEF Partition
<1>8. NoConflict'
  <2> SUFFICES ASSUME NEW t \in active', NEW u \in active', t # u
               PROVE  ~ Conflict(accesses[t], accesses[u])
    BY <1>1 DEF NoConflict
  <2>1. CASE t \in running /\ u \in running
    BY <2>1 DEF SchedulerInv, NoConflict
  <2>2. CASE t \in starting /\ u \in running
    BY <1>4, <2>2
  <2>3. CASE t \in running /\ u \in starting
    BY <1>4, <2>3, ConflictSymmetric
  <2>4. CASE t \in starting /\ u \in starting
    <3>1. t \in 1..added /\ u \in 1..added
      BY <1>2, <1>4, <2>4
    <3>2. t < u \/ u < t
      BY <1>3, <3>1
    <3> QED
      BY <1>4, <2>4, <3>2, ConflictSymmetric
  <2> QED
    BY <1>1, <2>1, <2>2, <2>3, <2>4
<1>9. QueueHasCause'
  <2> SUFFICES ASSUME NEW t \in queued'
               PROVE  \/ \E u \in active' : Conflict(accesses'[t], accesses'[u])
                      \/ \E u \in queued' : u < t /\ Conflict(accesses'[t], accesses'[u])
    BY DEF QueueHasCause, IsBlocked, ConflictsWithAny
  <2>1. t \in queued \ starting
    BY <1>1
  <2>2. \/ \E u \in active' : Conflict(accesses[t], accesses[u])
        \/ \E u \in queued' : u < t /\ Conflict(accesses[t], accesses[u])
    BY <1>1, <1>5, <2>1
  <2> QED
    BY <1>1, <2>2 DEF IsBlocked, ConflictsWithAny
<1>10. SubmissionOrder'
  <2> SUFFICES ASSUME NEW t \in active' \cup settled', NEW u \in 1..(t - 1),
                      Conflict(accesses[t], accesses[u])
               PROVE  u \in settled'
    BY <1>1 DEF SubmissionOrder
  <2>1. CASE t \in active \cup settled
    BY <1>1, <2>1 DEF SchedulerInv, SubmissionOrder
  <2>2. CASE t \notin active \cup settled
    <3>1. t \in starting
      BY <1>1, <2>2
    <3>2. t \in 1..added
      BY <1>2, <1>4, <3>1
    <3>3. u \in 1..added /\ u < t
      BY <1>3, <3>2
    <3>4. u \notin running /\ u \notin queued
      BY <1>4, <3>1, <3>3
    <3> QED
      BY <1>1, <1>2, <3>3, <3>4
  <2> QED
    BY <2>1, <2>2
<1> QED
  BY <1>6, <1>7, <1>8, <1>9, <1>10 DEF SchedulerInv

LEMMA SchedulerNextInv == SchedulerInv /\ [Next]_vars => SchedulerInv'
<1> SUFFICES ASSUME SchedulerInv, [Next]_vars PROVE SchedulerInv'
  OBVIOUS
<1>1. CASE Add
  BY <1>1, AddPreserves
<1>2. CASE \E t \in Tasks : Finish(t)
  BY <1>2, FinishPreserves
<1>3. CASE UNCHANGED vars
  BY <1>3 DEF vars, SchedulerInv, TypeOK, Partition, NoConflict, QueueHasCause,
     SubmissionOrder, IsBlocked, ConflictsWithAny
<1> QED
  BY <1>1, <1>2, <1>3 DEF Next, Done

THEOREM SchedulerInductiveInvariant == Spec => []SchedulerInv
BY SchedulerInitInv, SchedulerNextInv, PTL DEF Spec

-----------------------------------------------------------------------------
(* The state of the scheduler stays well formed.                            *)
THEOREM SchedulerTypeCorrect == Spec => []TypeOK
<1>1. SchedulerInv => TypeOK
  BY DEF SchedulerInv
<1> QED
  BY <1>1, SchedulerInductiveInvariant, PTL

(* Two tool calls that run at the same time never race for a file, for any  *)
(* batch: NoConflict holds, and the conflict test misses no race.           *)
THEOREM NoRaceHolds == Spec => []NoRace
<1>1. SchedulerInv => NoRace
  <2> SUFFICES ASSUME SchedulerInv, NEW t \in active, NEW u \in active, t # u,
                      Race(accesses[t], accesses[u])
               PROVE  FALSE
    BY DEF NoRace
  <2>1. accesses[t] \in Accesses /\ accesses[u] \in Accesses
    BY DeclaredAssumption, NAssumption DEF SchedulerInv, TypeOK, Tasks
  <2>2. Conflict(accesses[t], accesses[u])
    BY <2>1, RaceIsConflict
  <2> QED
    BY <2>2 DEF SchedulerInv, NoConflict
<1> QED
  BY <1>1, SchedulerInductiveInvariant, PTL

(* Every queued task waits for a running one or for one queued before it.   *)
THEOREM QueueHasCauseHolds == Spec => []QueueHasCause
<1>1. SchedulerInv => QueueHasCause
  BY DEF SchedulerInv
<1> QED
  BY <1>1, SchedulerInductiveInvariant, PTL

-----------------------------------------------------------------------------
(* The refinement: the abstract calls are the tasks, started when they      *)
(* enter activeTasks and finished when their promise is settled.            *)

LEMMA InitRefines == Init => Ordered!Init
<1> SUFFICES ASSUME Init PROVE Ordered!Init
  OBVIOUS
<1>1. \A t, u \in Tasks : Conflict(accesses[t], accesses[u]) =>
                           Conflict(accesses[u], accesses[t])
  BY ConflictSymmetric
<1> QED
  BY <1>1 DEF Init, Ordered!Init, Ordered!Calls, Tasks

LEMMA AddRefines == SchedulerInv /\ Add => Ordered!Next
<1> SUFFICES ASSUME SchedulerInv, Add PROVE Ordered!Next
  OBVIOUS
<1> DEFINE new == added + 1
           starting == active' \ active
<1> USE NAssumption
<1>1. /\ added \in 0..N /\ added' = new /\ new \in 1..N
      /\ accesses' = accesses /\ settled' = settled
  BY DEF SchedulerInv, TypeOK, Add
<1>2. /\ active \cup queued \cup settled = 1..added
      /\ active \subseteq active' /\ starting \subseteq {new}
  BY DEF SchedulerInv, Partition, Add
<1>3. ASSUME NEW t \in starting, NEW u \in Ordered!Before(t)
      PROVE  u \in settled
  <2>1. t = new /\ u \in 1..added /\ Conflict(accesses[t], accesses[u])
    BY <1>1, <1>2 DEF Ordered!Before
  <2>2. ~ IsBlocked(new, active, queued)
    BY <1>3 DEF Add
  <2> QED
    BY <1>2, <2>1, <2>2 DEF IsBlocked, ConflictsWithAny
<1>4. starting \subseteq (1..added') \ (active \cup settled)
  BY <1>1, <1>2 DEF SchedulerInv, Partition
<1>5. active' \cup settled' = (active \cup settled) \cup starting
  BY <1>1, <1>2
<1>6. UNCHANGED {p \in Tasks \X Tasks : Conflict(accesses[p[1]], accesses[p[2]])}
  BY <1>1 DEF Tasks
<1>7. added' \in {added, added + 1} /\ added' <= N
  BY <1>1
<1>8. \E F \in SUBSET ((active \cup settled) \ settled) : settled' = settled \cup F
  <2>1. settled' = settled \cup {}
    BY <1>1
  <2> QED
    BY <2>1
<1>9. \A t \in starting : Ordered!Before(t) \subseteq settled'
  BY <1>1, <1>3
<1> HIDE DEF starting
<1> QED
  BY <1>4, <1>5, <1>6, <1>7, <1>8, <1>9 DEF Ordered!Next

LEMMA FinishRefines == ASSUME NEW f \in Tasks PROVE SchedulerInv /\ Finish(f) => Ordered!Next
<1> SUFFICES ASSUME SchedulerInv, Finish(f) PROVE Ordered!Next
  OBVIOUS
<1> DEFINE running == active \ {f}
           starting == Unblocked(running, queued)
<1> USE NAssumption
<1>1. /\ f \in active /\ settled' = settled \cup {f}
      /\ active' = running \cup starting
      /\ accesses' = accesses /\ added' = added
  BY DEF Finish
<1>2. /\ active \cup queued \cup settled = 1..added
      /\ active \cap queued = {} /\ active \cap settled = {} /\ queued \cap settled = {}
      /\ added \in 0..N
  BY DEF SchedulerInv, Partition, TypeOK
<1>3. /\ starting \subseteq queued
      /\ \A t \in starting : ~ IsBlocked(t, running, {u \in queued : u < t})
  BY DEF Unblocked
<1> HIDE DEF starting
<1>4. ASSUME NEW t \in starting, NEW u \in Ordered!Before(t)
      PROVE  u \in settled'
  <2>1. t \in 1..added
    BY <1>2, <1>3
  <2>2. u \in 1..added /\ u < t /\ Conflict(accesses[t], accesses[u])
    BY <1>2, <2>1 DEF Ordered!Before
  <2>3. u \notin running /\ u \notin queued
    BY <1>3, <2>2 DEF IsBlocked, ConflictsWithAny
  <2> QED
    BY <1>1, <1>2, <2>2, <2>3
<1>5. starting \subseteq (1..added') \ (active \cup settled)
  BY <1>1, <1>2, <1>3
<1>6. active' \cup settled' = (active \cup settled) \cup starting
  BY <1>1
<1>7. {f} \subseteq (active \cup settled) \ settled
  BY <1>1, <1>2
<1>8. UNCHANGED {p \in Tasks \X Tasks : Conflict(accesses[p[1]], accesses[p[2]])}
  BY <1>1 DEF Tasks
<1>9. added' \in {added, added + 1} /\ added' <= N
  BY <1>1, <1>2
<1> QED
  BY <1>1, <1>4, <1>5, <1>6, <1>7, <1>8, <1>9 DEF Ordered!Next

(* For any number of tasks and any accesses: a tool call starts once, after *)
(* every earlier call it conflicts with is over, although the queue is      *)
(* scanned by position and tasks finish in any order.                       *)
THEOREM Refinement == Spec => ImplementsOrderedExclusion
<1>1. SchedulerInv /\ [Next]_vars => [Ordered!Next]_(Ordered!vars)
  <2> SUFFICES ASSUME SchedulerInv, [Next]_vars PROVE [Ordered!Next]_(Ordered!vars)
    OBVIOUS
  <2>1. CASE Add
    BY <2>1, AddRefines
  <2>2. CASE \E t \in Tasks : Finish(t)
    BY <2>2, FinishRefines
  <2>3. CASE UNCHANGED vars
    BY <2>3 DEF vars, Ordered!vars
  <2> QED
    BY <2>1, <2>2, <2>3 DEF Next, Done
<1> QED
  BY <1>1, InitRefines, SchedulerInductiveInvariant, PTL
     DEF Spec, ImplementsOrderedExclusion, Ordered!Spec

-----------------------------------------------------------------------------
(* The executor.  Its batch runs under the scheduler, but it is not one of   *)
(* the scheduler's behaviours: its tasks are all added in one step, and a    *)
(* call may lose its slot while its body still runs.                         *)

Running == {t \in Calls : body[t] = "running"}

(* Before the batch runs nothing is scheduled, and only prepared calls have *)
(* a task.                                                                  *)
PrepInv ==
    /\ stage \in {"preparing", "failed"} =>
          /\ active = {} /\ queued = {} /\ settled = {}
          /\ finalized = {} /\ yielded = {} /\ Running = {}
    /\ \A t \in Calls : t > prepared => kind[t] = "none"
    /\ step = "decide" => stopper = 0
    /\ stopper <= prepared
    /\ stopper # 0 => \A t \in Calls : t > stopper => kind[t] # "runnable"

(* From then on every call is in one place of the scheduler, and results    *)
(* are finalized after they settle and yielded after they are finalized.    *)
BatchInv ==
    /\ stage \in {"running", "done"} => active \cup queued \cup settled = Calls
    /\ active \cap settled = {}
    /\ active \cap queued = {}
    /\ queued \cap settled = {}
    /\ yielded \subseteq finalized /\ finalized \subseteq settled
    /\ stage = "done" => yielded = Calls

(* A body runs in its slot until the turn is aborted.  From then on bodies  *)
(* may outlive their slots, and no new one starts: those that run are what  *)
(* is left of a set that was free of conflicts at the time of the abort.    *)
BodyInv ==
    /\ ~ aborted => Running \subseteq active
    /\ \A t \in Running : kind[t] = "runnable"
    /\ \A t, u \in active : t # u => ~ Conflict(accesses[t], accesses[u])
    /\ \A t, u \in Running : t # u => ~ Conflict(accesses[t], accesses[u])

ExecutorInv == ExecutorTypeOK /\ PrepInv /\ BatchInv /\ BodyInv

LEMMA ExecutorInitInv == ExecutorInit => ExecutorInv
<1> SUFFICES ASSUME ExecutorInit PROVE ExecutorInv
  OBVIOUS
<1> USE NAssumption DEF ExecutorInit
<1>1. ExecutorTypeOK
  <2>1. accesses \in [Calls -> DeclaredAccesses \cup {{}}]
    OBVIOUS
  <2>2. kind \in [Calls -> {"none", "runnable", "resolved"}]
    OBVIOUS
  <2>3. body \in [Calls -> {"idle", "running", "ended"}]
    OBVIOUS
  <2>4. prepared \in 0..N /\ stopper \in 0..N
    OBVIOUS
  <2>5. /\ active \subseteq Calls /\ queued \subseteq Calls /\ settled \subseteq Calls
        /\ finalized \subseteq Calls /\ yielded \subseteq Calls
    OBVIOUS
  <2>6. stage = "preparing" /\ step = "resolve" /\ aborted = FALSE
    OBVIOUS
  <2> HIDE DEF ExecutorInit
  <2> QED
    BY <2>1, <2>2, <2>3, <2>4, <2>5, <2>6 DEF ExecutorTypeOK
<1>2. PrepInv
  BY DEF PrepInv, Running
<1>3. BatchInv
  BY DEF BatchInv
<1>4. BodyInv
  BY DEF BodyInv, Running
<1> QED
  BY <1>1, <1>2, <1>3, <1>4 DEF ExecutorInv

-----------------------------------------------------------------------------
(* Preparing a call touches nothing that runs.                              *)
LEMMA SettlePreserves ==
    ASSUME NEW k \in {"runnable", "resolved"}, NEW d \in DeclaredAccesses \cup {{}},
           NEW s \in BOOLEAN, ExecutorInv, stage = "preparing", prepared < N,
           k = "runnable" => stopper = 0,
           Settle(k, d, s)
    PROVE  ExecutorInv'
<1> USE NAssumption
<1>1. /\ prepared \in 0..N /\ Current \in Calls /\ Current = prepared + 1
      /\ prepared' = Current /\ step' = "resolve"
      /\ kind' = [kind EXCEPT ![Current] = k]
      /\ accesses' = [accesses EXCEPT ![Current] = d]
      /\ stopper' \in {Current, stopper}
      /\ UNCHANGED <<stage, aborted, schedVars, body, outVars>>
  BY DEF ExecutorInv, ExecutorTypeOK, Current, Calls, Settle
<1>2. ExecutorTypeOK'
  BY <1>1 DEF ExecutorInv, ExecutorTypeOK, Calls, schedVars, outVars
<1>3. PrepInv'
  <2>1. stopper \in Nat /\ stopper <= prepared /\ Running' = Running
    BY <1>1 DEF ExecutorInv, ExecutorTypeOK, PrepInv, Running
  <2>2. \A t \in Calls : t > prepared' => kind'[t] = "none"
    BY <1>1 DEF ExecutorInv, PrepInv, ExecutorTypeOK, Calls
  <2>3. ASSUME stopper' # 0, NEW t \in Calls, t > stopper' PROVE kind'[t] # "runnable"
    BY <1>1, <2>1, <2>2, <2>3 DEF ExecutorInv, PrepInv, ExecutorTypeOK, Calls
  <2> QED
    BY <1>1, <2>1, <2>2, <2>3 DEF ExecutorInv, PrepInv, ExecutorTypeOK, schedVars, outVars
<1>4. BatchInv'
  BY <1>1 DEF ExecutorInv, BatchInv, schedVars, outVars
<1>5. BodyInv'
  <2>1. Running' = {} /\ active' = {}
    BY <1>1 DEF ExecutorInv, PrepInv, Running, schedVars
  <2> QED
    BY <2>1 DEF BodyInv
<1> QED
  BY <1>2, <1>3, <1>4, <1>5 DEF ExecutorInv

LEMMA PreparePreserves == ExecutorInv /\ (Skip \/ ResolveFails \/ Resolve \/ Decide) => ExecutorInv'
<1> SUFFICES ASSUME ExecutorInv, Skip \/ ResolveFails \/ Resolve \/ Decide PROVE ExecutorInv'
  OBVIOUS
<1>1. CASE Skip
  BY <1>1, SettlePreserves DEF Skip, Preparing
<1>2. CASE ResolveFails
  <2>1. PICK s \in {FALSE, ~ aborted} : Settle("resolved", {}, s)
    BY <1>2 DEF ResolveFails
  <2>2. s \in BOOLEAN /\ stage = "preparing" /\ prepared < N
    BY <1>2 DEF ResolveFails, Preparing, ExecutorInv, ExecutorTypeOK
  <2> QED
    BY <2>1, <2>2, SettlePreserves
<1>3. CASE Resolve
  BY <1>3 DEF Resolve, ExecutorInv, ExecutorTypeOK, PrepInv, BatchInv, BodyInv, Running,
     schedVars, outVars
<1>4. CASE Decide
  <2>1. stage = "preparing" /\ prepared < N
    BY <1>4 DEF Decide, Preparing
  <2>2. CASE \E d \in DeclaredAccesses, s \in BOOLEAN : Settle("runnable", d, s)
    <3>1. stopper = 0
      BY <1>4 DEF Decide, Preparing, ExecutorInv, PrepInv
    <3> QED
      BY <2>1, <2>2, <3>1, SettlePreserves
  <2>3. CASE \E s \in BOOLEAN : Settle("resolved", {}, s)
    BY <2>1, <2>3, SettlePreserves
  <2>4. CASE /\ stage' = "failed"
             /\ UNCHANGED <<prepVars, accesses, aborted, schedVars, body, outVars>>
    BY <2>1, <2>4 DEF ExecutorInv, ExecutorTypeOK, PrepInv, BatchInv, BodyInv, Running,
       prepVars, schedVars, outVars
  <2> QED
    BY <1>4, <2>2, <2>3, <2>4 DEF Decide
<1> QED
  BY <1>1, <1>2, <1>3, <1>4

-----------------------------------------------------------------------------
(* What the scan of the queue may start.                                    *)
LEMMA UnblockedLemma ==
    ASSUME NEW R, NEW W \in SUBSET Calls, NEW S, S = Unblocked(R, W)
    PROVE  /\ S \subseteq W
           /\ \A t \in S, u \in R : /\ ~ Conflict(accesses[t], accesses[u])
                                  /\ ~ Conflict(accesses[u], accesses[t])
           /\ \A t, u \in S : t # u => ~ Conflict(accesses[t], accesses[u])
<1>1. /\ S \subseteq W
      /\ \A t \in S, u \in R : ~ Conflict(accesses[t], accesses[u])
      /\ \A t \in S, u \in W : u < t => ~ Conflict(accesses[t], accesses[u])
  BY DEF Unblocked, IsBlocked, ConflictsWithAny
<1>2. \A t, u \in S : t # u => t < u \/ u < t
  BY <1>1, NAssumption DEF Calls
<1> QED
  BY <1>1, <1>2, ConflictSymmetric

(* Starting a conflict-free set of calls next to the slots that are kept.   *)
LEMMA StartPreserves ==
    ASSUME ExecutorInv, NEW kept \in SUBSET active, NEW S \in SUBSET Calls,
           \A t \in S, u \in kept : /\ ~ Conflict(accesses[t], accesses[u])
                                  /\ ~ Conflict(accesses[u], accesses[t]),
           \A t, u \in S : t # u => ~ Conflict(accesses[t], accesses[u]),
           ~ aborted => Running \subseteq kept,
           active' = kept \cup S, StartBodies(S),
           UNCHANGED <<accesses, aborted, kind>>
    PROVE  BodyInv' /\ body' \in [Calls -> {"idle", "running", "ended"}]
<1>1. body \in [Calls -> {"idle", "running", "ended"}]
  BY DEF ExecutorInv, ExecutorTypeOK
<1>2. body' \in [Calls -> {"idle", "running", "ended"}]
  BY <1>1 DEF StartBodies
<1>3. \A t \in Running' :
          \/ t \in Running
          \/ t \in S /\ kind[t] = "runnable" /\ ~ aborted
  <2> SUFFICES ASSUME NEW t \in Calls, body'[t] = "running", body[t] # "running"
               PROVE  t \in S /\ kind[t] = "runnable" /\ ~ aborted
    BY DEF Running
  <2>1. body'[t] = IF t \notin S THEN body[t]
                   ELSE IF kind[t] = "runnable" /\ ~ aborted THEN "running"
                   ELSE "ended"
    BY DEF StartBodies
  <2> QED
    BY <2>1
<1>4. \A t \in Running' : kind'[t] = "runnable"
  BY <1>3 DEF ExecutorInv, BodyInv
<1>5. ~ aborted' => Running' \subseteq active'
  BY <1>3
<1>6. \A t, u \in active' : t # u => ~ Conflict(accesses'[t], accesses'[u])
  BY DEF ExecutorInv, BodyInv
<1>7. \A t, u \in Running' : t # u => ~ Conflict(accesses'[t], accesses'[u])
  <2>1. CASE aborted
    BY <1>3, <2>1 DEF ExecutorInv, BodyInv
  <2>2. CASE ~ aborted
    BY <1>5, <1>6, <2>2
  <2> QED
    BY <2>1, <2>2
<1> QED
  BY <1>2, <1>4, <1>5, <1>6, <1>7 DEF BodyInv

LEMMA RunBatchPreserves == ExecutorInv /\ RunBatch => ExecutorInv'
<1> SUFFICES ASSUME ExecutorInv, RunBatch PROVE ExecutorInv'
  OBVIOUS
<1> DEFINE starting == Unblocked({}, Calls)
<1>1. /\ stage = "preparing" /\ prepared = N /\ stage' = "running"
      /\ active' = starting /\ queued' = Calls \ starting /\ StartBodies(starting)
      /\ UNCHANGED <<step, prepared, kind, stopper, accesses, aborted, settled, finalized, yielded>>
  BY DEF RunBatch, prepVars, outVars
<1>2. /\ active = {} /\ settled = {} /\ Running = {} /\ yielded = {} /\ finalized = {}
  BY <1>1 DEF ExecutorInv, PrepInv
<1>3. /\ starting \subseteq Calls
      /\ \A t, u \in starting : t # u => ~ Conflict(accesses[t], accesses[u])
  BY UnblockedLemma
<1> HIDE DEF starting
<1>4. BodyInv' /\ body' \in [Calls -> {"idle", "running", "ended"}]
  <2>1. active' = {} \cup starting
    BY <1>1
  <2>2. /\ {} \in SUBSET active /\ Running \subseteq {} /\ starting \in SUBSET Calls
        /\ UNCHANGED <<accesses, aborted, kind>>
    BY <1>1, <1>2, <1>3
  <2> QED
    BY <1>1, <1>3, <2>1, <2>2, StartPreserves
<1>5. ExecutorTypeOK'
  BY <1>1, <1>3, <1>4 DEF ExecutorInv, ExecutorTypeOK
<1>6. PrepInv'
  BY <1>1 DEF ExecutorInv, PrepInv
<1>7. BatchInv'
  BY <1>1, <1>2, <1>3 DEF BatchInv
<1> QED
  BY <1>4, <1>5, <1>6, <1>7 DEF ExecutorInv

LEMMA FinishTaskPreserves == ASSUME NEW f \in Calls PROVE ExecutorInv /\ FinishTask(f) => ExecutorInv'
<1> SUFFICES ASSUME ExecutorInv, FinishTask(f) PROVE ExecutorInv'
  OBVIOUS
<1> DEFINE kept == active \ {f}
           starting == Unblocked(kept, queued)
<1>1. /\ f \in active /\ (body[f] = "ended" \/ aborted)
      /\ settled' = settled \cup {f}
      /\ active' = kept \cup starting /\ queued' = queued \ starting
      /\ StartBodies(starting)
      /\ UNCHANGED <<stage, step, prepared, kind, stopper, accesses, aborted, added, finalized, yielded>>
  BY DEF FinishTask, prepVars, outVars
<1>2. queued \subseteq Calls /\ active \subseteq Calls
  BY DEF ExecutorInv, ExecutorTypeOK
<1>3. /\ starting \subseteq queued
      /\ \A t \in starting, u \in kept : /\ ~ Conflict(accesses[t], accesses[u])
                                       /\ ~ Conflict(accesses[u], accesses[t])
      /\ \A t, u \in starting : t # u => ~ Conflict(accesses[t], accesses[u])
  <2>1. starting = Unblocked(kept, queued) /\ queued \in SUBSET Calls
    BY <1>2
  <2> HIDE DEF starting, kept
  <2> QED
    BY <2>1, UnblockedLemma
<1> HIDE DEF starting
<1>4. stage \notin {"preparing", "failed"}
  BY <1>1 DEF ExecutorInv, PrepInv
<1>5. ~ aborted => Running \subseteq kept
  BY <1>1 DEF ExecutorInv, BodyInv, Running
<1>6. BodyInv' /\ body' \in [Calls -> {"idle", "running", "ended"}]
  BY <1>1, <1>2, <1>3, <1>5, StartPreserves
<1>7. ExecutorTypeOK'
  BY <1>1, <1>2, <1>3, <1>6 DEF ExecutorInv, ExecutorTypeOK
<1>8. PrepInv'
  BY <1>1, <1>4 DEF ExecutorInv, PrepInv
<1>9. BatchInv'
  <2>1. stage \in {"running", "done"}
    BY <1>4 DEF ExecutorInv, ExecutorTypeOK
  <2>2. /\ active \cup queued \cup settled = Calls
        /\ active \cap settled = {} /\ active \cap queued = {} /\ queued \cap settled = {}
        /\ yielded \subseteq finalized /\ finalized \subseteq settled
        /\ stage = "done" => yielded = Calls
    BY <2>1 DEF ExecutorInv, BatchInv
  <2>3. active' \cup queued' \cup settled' = Calls
    BY <1>1, <1>3, <2>2
  <2>4. active' \cap settled' = {}
    BY <1>1, <1>3, <2>2
  <2>5. active' \cap queued' = {} /\ queued' \cap settled' = {}
    BY <1>1, <1>3, <2>2
  <2> QED
    BY <1>1, <2>2, <2>3, <2>4, <2>5 DEF BatchInv
<1> QED
  BY <1>6, <1>7, <1>8, <1>9 DEF ExecutorInv

LEMMA BodyEndsPreserves == ASSUME NEW t \in Calls PROVE ExecutorInv /\ BodyEnds(t) => ExecutorInv'
<1> SUFFICES ASSUME ExecutorInv, BodyEnds(t) PROVE ExecutorInv'
  OBVIOUS
<1>1. /\ body[t] = "running" /\ body' = [body EXCEPT ![t] = "ended"]
      /\ UNCHANGED <<stage, step, prepared, kind, stopper, accesses, aborted,
                     added, active, queued, settled, finalized, yielded>>
  BY DEF BodyEnds, prepVars, schedVars, outVars
<1>2. Running' \subseteq Running
  BY <1>1 DEF ExecutorInv, ExecutorTypeOK, Running
<1>3. ExecutorTypeOK'
  BY <1>1 DEF ExecutorInv, ExecutorTypeOK
<1>4. PrepInv'
  BY <1>1, <1>2 DEF ExecutorInv, PrepInv
<1>5. BatchInv'
  BY <1>1 DEF ExecutorInv, BatchInv
<1>6. BodyInv'
  BY <1>1, <1>2 DEF ExecutorInv, BodyInv
<1> QED
  BY <1>3, <1>4, <1>5, <1>6 DEF ExecutorInv

LEMMA OutputPreserves ==
    ExecutorInv /\ (Return \/ Abort \/ \E t \in Calls : Finalize(t) \/ Yield(t)) => ExecutorInv'
<1> SUFFICES ASSUME ExecutorInv, Return \/ Abort \/ \E t \in Calls : Finalize(t) \/ Yield(t)
             PROVE  ExecutorInv'
  OBVIOUS
<1> USE DEF ExecutorInv, ExecutorTypeOK, PrepInv, BatchInv, BodyInv, Running, prepVars, schedVars, outVars
<1>1. CASE Return
  BY <1>1 DEF Return
<1>2. CASE Abort
  BY <1>2 DEF Abort
<1>3. ASSUME NEW t \in Calls, Finalize(t) PROVE ExecutorInv'
  BY <1>3 DEF Finalize
<1>4. ASSUME NEW t \in Calls, Yield(t) PROVE ExecutorInv'
  BY <1>4 DEF Yield
<1> QED
  BY <1>1, <1>2, <1>3, <1>4

LEMMA ExecutorNextInv == ExecutorInv /\ [ExecutorNext]_executorVars => ExecutorInv'
<1> SUFFICES ASSUME ExecutorInv, [ExecutorNext]_executorVars PROVE ExecutorInv'
  OBVIOUS
<1>1. CASE Skip \/ ResolveFails \/ Resolve \/ Decide
  BY <1>1, PreparePreserves
<1>2. CASE RunBatch
  BY <1>2, RunBatchPreserves
<1>3. CASE Return \/ Abort \/ \E t \in Calls : Finalize(t) \/ Yield(t)
  BY <1>3, OutputPreserves
<1>4. CASE \E t \in Calls : FinishTask(t)
  BY <1>4, FinishTaskPreserves
<1>5. CASE \E t \in Calls : BodyEnds(t)
  BY <1>5, BodyEndsPreserves
<1>6. CASE UNCHANGED executorVars
  BY <1>6 DEF executorVars, ExecutorInv, ExecutorTypeOK, PrepInv, BatchInv, BodyInv, Running,
     prepVars, schedVars, outVars
<1> QED
  BY <1>1, <1>2, <1>3, <1>4, <1>5, <1>6 DEF ExecutorNext, Terminated

THEOREM ExecutorInductiveInvariant == ExecutorSpec => []ExecutorInv
BY ExecutorInitInv, ExecutorNextInv, PTL DEF ExecutorSpec

-----------------------------------------------------------------------------
(* The state of the executor stays well formed.                             *)
THEOREM ExecutorTypeCorrect == ExecutorSpec => []ExecutorTypeOK
<1>1. ExecutorInv => ExecutorTypeOK
  BY DEF ExecutorInv
<1> QED
  BY <1>1, ExecutorInductiveInvariant, PTL

(* Tool bodies that run at the same time never race for a file, for any     *)
(* response and any accesses, before and after an abort.                    *)
THEOREM BodiesNeverRaceHolds == ExecutorSpec => []BodiesNeverRace
<1>1. ExecutorInv => BodiesNeverRace
  <2> SUFFICES ASSUME ExecutorInv, NEW t \in Running, NEW u \in Running, t # u,
                      Race(accesses[t], accesses[u])
               PROVE  FALSE
    BY DEF BodiesNeverRace, Running
  <2>1. accesses[t] \in DeclaredAccesses \cup {{}} /\ accesses[u] \in DeclaredAccesses \cup {{}}
    BY DEF ExecutorInv, ExecutorTypeOK, Running
  <2>2. accesses[t] \in Accesses /\ accesses[u] \in Accesses
    BY <2>1, DeclaredAssumption DEF Accesses
  <2>3. Conflict(accesses[t], accesses[u])
    BY <2>2, RaceIsConflict
  <2> QED
    BY <2>3 DEF ExecutorInv, BodyInv
<1> QED
  BY <1>1, ExecutorInductiveInvariant, PTL

(* No call written after the one that stopped the batch ever runs.          *)
THEOREM SkippedNeverRunsHolds == ExecutorSpec => []SkippedNeverRuns
<1>1. ExecutorInv => SkippedNeverRuns
  BY DEF ExecutorInv, PrepInv, BodyInv, SkippedNeverRuns, Running
<1> QED
  BY <1>1, ExecutorInductiveInvariant, PTL

(* A batch that ended without an abort has left no tool running, and one    *)
(* that completed has handed out every result.                              *)
THEOREM NothingLeftBehindHolds == ExecutorSpec => []NothingLeftBehind
<1>1. ExecutorInv => NothingLeftBehind
  <2> SUFFICES ASSUME ExecutorInv PROVE NothingLeftBehind
    OBVIOUS
  <2>1. stage = "done" => settled = Calls /\ finalized = Calls
    BY DEF ExecutorInv, ExecutorTypeOK, BatchInv
  <2>2. (stage = "done" \/ stage = "failed") /\ ~ aborted => Running = {}
    BY <2>1 DEF ExecutorInv, ExecutorTypeOK, PrepInv, BatchInv, BodyInv
  <2> QED
    BY <2>1, <2>2 DEF NothingLeftBehind, Over, Running
<1> QED
  BY <1>1, ExecutorInductiveInvariant, PTL
=============================================================================
