------------------------- MODULE AgentRunBatch_proofs -------------------------
(* The safety of AgentRunBatch for any number of members, any limits and    *)
(* intervals: its types, the place of every member, the terminal events.    *)
EXTENDS AgentRunBatch, Queue_proofs, FiniteSetTheorems, WellFoundedInduction

Results == {"none", "completed", "failed", "aborted", "notStarted"}
Phases == {"none", "launching", "starting", "running"}
Throttles == [limited : BOOLEAN, launches : Nat, successes : Nat,
              capacity : Nat \ {0}, interval : Nat \ {0}, launch : Nat,
              shrink : Nat, recovery : Nat]
Timers == Nat \cup {Off}

-----------------------------------------------------------------------------
(* Numbers.                                                                 *)

LEMMA PowerOfTwo == ASSUME NEW n \in Nat PROVE 2 ^ n \in Nat
<1>1. IsFiniteSet(1..n) /\ Cardinality(1..n) = n
  BY FS_Interval
<1>2. IsFiniteSet(SUBSET (1..n)) /\ Cardinality(SUBSET (1..n)) = 2 ^ n
  BY <1>1, FS_SUBSET
<1> QED
  BY <1>2, FS_CardinalityType

LEMMA LeastOf ==
    ASSUME NEW T \in SUBSET Nat, T # {}
    PROVE  (CHOOSE t \in T : \A u \in T : t <= u) \in T
<1>1. IsWellFoundedOn({s \in Nat \X Nat : s[1] < s[2]}, Nat)
  BY NatLessThanWellFounded DEF OpToRel
<1>2. PICK t \in T : \A u \in T : <<u, t>> \notin {s \in Nat \X Nat : s[1] < s[2]}
  BY <1>1, WFMin
<1>3. ASSUME NEW u \in T PROVE t <= u
  <2>1. t \in Nat /\ u \in Nat
    OBVIOUS
  <2> DEFINE p == <<u, t>>
  <2>3. p \in Nat \X Nat /\ p[1] = u /\ p[2] = t
    BY <2>1
  <2> HIDE DEF p
  <2>4. ~ (p[1] < p[2])
    BY <1>2, <2>3 DEF p
  <2> QED
    BY <2>1, <2>3, <2>4
<1> QED
  BY <1>3

LEMMA GreatestType ==
    ASSUME NEW a \in Int, NEW b \in Int
    PROVE  /\ Greatest(a, b) \in Int /\ Greatest(a, b) >= a /\ Greatest(a, b) >= b
           /\ Greatest(a, b) \in {a, b}
  BY DEF Greatest

LEMMA LeastType ==
    ASSUME NEW a \in Int, NEW b \in Int
    PROVE  /\ Least(a, b) \in Int /\ Least(a, b) <= a /\ Least(a, b) <= b
           /\ Least(a, b) \in {a, b}
  BY DEF Least

-----------------------------------------------------------------------------
(* The bookkeeping keeps its type, one field at a time.                     *)

LEMMA UpdateThrottle ==
    ASSUME NEW th \in Throttles, NEW n \in Nat
    PROVE  /\ [th EXCEPT !.limited = TRUE] \in Throttles
           /\ [th EXCEPT !.launches = n] \in Throttles
           /\ [th EXCEPT !.successes = n] \in Throttles
           /\ n # 0 => [th EXCEPT !.capacity = n] \in Throttles
           /\ n # 0 => [th EXCEPT !.interval = n] \in Throttles
           /\ [th EXCEPT !.launch = n] \in Throttles
           /\ [th EXCEPT !.shrink = n] \in Throttles
           /\ [th EXCEPT !.recovery = n] \in Throttles
  BY DEF Throttles

LEMMA ThrottleFields ==
    ASSUME NEW th \in Throttles
    PROVE  /\ th.limited \in BOOLEAN /\ th.launches \in Nat /\ th.successes \in Nat
           /\ th.capacity \in Nat \ {0} /\ th.interval \in Nat \ {0}
           /\ th.launch \in Nat /\ th.shrink \in Nat /\ th.recovery \in Nat
  BY DEF Throttles

-----------------------------------------------------------------------------
(* Scheduling, from whatever a handler leaves: the members it launches come *)
(* from the queue, and every member stays in one place.                     *)

Handed(q, attempts, res, ph, th, waits, ramp) ==
    /\ q \in Seq(Members) /\ attempts \subseteq Members
    /\ res \in [Members -> Results] /\ ph \in [Members -> Phases]
    /\ th \in Throttles /\ waits \in [Members -> Nat] /\ ramp \in Timers
    /\ wakeTimer \in Timers
    /\ Partitioned(q, attempts, res)

(* What schedule() leaves when the batch goes on.                           *)
GoesOn(q, attempts, res, ph) ==
    /\ pending' \in Seq(Members) /\ active' \subseteq Members
    /\ throttle' \in Throttles /\ wakeTimer' \in Timers
    /\ attempts \subseteq active' /\ active' \ attempts \subseteq Queued(q)
    /\ Queued(pending') = Queued(q) \ active' /\ Distinct(pending')
    /\ phase' = Launched(ph, active' \ attempts)

LEMMA AttemptsCount ==
    ASSUME NEW attempts \in SUBSET Members
    PROVE  IsFiniteSet(attempts) /\ Cardinality(attempts) \in Nat
<1>1. IsFiniteSet(Members)
  BY MembersAssumption, FS_Interval DEF Members
<1> QED
  BY <1>1, FS_Subset, FS_CardinalityType

LEMMA NormalLaunch ==
    ASSUME NEW q, NEW attempts, NEW res, NEW ph, NEW th, NEW waits, NEW ramp,
           Handed(q, attempts, res, ph, th, waits, ramp),
           ScheduleNormalLaunch(q, attempts, ph, th, ramp)
    PROVE  GoesOn(q, attempts, res, ph) /\ rampTimer' \in Timers
<1> DEFINE n == Burst(q, attempts, th)
           launched == {q[i] : i \in 1..n}
           rest == SubSeq(q, n + 1, Len(q))
<1>1. /\ q \in Seq(Members) /\ Len(q) \in Nat /\ Distinct(q) /\ attempts \subseteq Members
      /\ th \in Throttles /\ th.launches \in Nat /\ Queued(q) \cap attempts = {}
      /\ ramp \in Timers /\ wakeTimer \in Timers
  BY DEF Handed, Partitioned, Throttles
<1>2. n \in 0..Len(q)
  <2> DEFINE a == LaunchLimit - th.launches
             b == MaxConcurrency - Cardinality(attempts)
  <2>1. a \in Int /\ b \in Int
    BY <1>1, AttemptsCount, LimitsAssumption
  <2> HIDE DEF a, b
  <2>2. Least(a, b) \in Int
    BY <2>1, LeastType
  <2>3. Least(Least(a, b), Len(q)) \in Int /\ Least(Least(a, b), Len(q)) <= Len(q)
    BY <1>1, <2>2, LeastType
  <2> QED
    BY <1>1, <2>3 DEF Burst, Greatest, a, b
<1>3. /\ pending' = rest /\ active' = attempts \cup launched
      /\ phase' = Launched(ph, launched)
      /\ throttle' = [th EXCEPT !.launches = @ + n]
      /\ rampTimer' \in {LaunchInterval, ramp} /\ wakeTimer' = wakeTimer
  BY DEF ScheduleNormalLaunch
<1> HIDE DEF n
<1>4. /\ rest \in Seq(Members) /\ Distinct(rest) /\ launched \subseteq Queued(q)
      /\ Queued(rest) = Queued(q) \ launched
  BY <1>1, <1>2, RestProperties
<1>5. throttle' \in Throttles
  <2>1. th.launches + n \in Nat
    BY <1>1, <1>2
  <2> HIDE DEF launched, rest
  <2> QED
    BY <1>1, <1>3, <2>1, UpdateThrottle
<1> HIDE DEF rest, launched
<1>6. Queued(q) \subseteq Members
  BY <1>1 DEF Queued
<1>7. active' \ attempts = launched
  BY <1>1, <1>3, <1>4
<1>8. Queued(pending') = Queued(q) \ active'
  BY <1>1, <1>3, <1>4
<1> QED
  BY <1>1, <1>3, <1>4, <1>5, <1>6, <1>7, <1>8, LimitsAssumption DEF GoesOn, Timers

LEMMA WakeupType ==
    ASSUME NEW q \in Seq(Members), NEW attempts \in SUBSET Members,
           NEW th \in Throttles, NEW waits \in [Members -> Nat]
    PROVE  NextWakeup(q, attempts, th, waits) \in Timers
<1> DEFINE T == {waits[m] : m \in Queued(q)}
           readyIn == CHOOSE t \in T : \A m \in Queued(q) : t <= waits[m]
<1>1. CASE q = <<>>
  BY <1>1 DEF NextWakeup, Timers
<1>2. CASE q # <<>>
  <2>1. Queued(q) \subseteq Members /\ q[1] \in Queued(q)
    BY <1>2 DEF Queued
  <2>2. T \in SUBSET Nat /\ T # {}
    BY <2>1
  <2>3. readyIn = CHOOSE t \in T : \A u \in T : t <= u
    <3>1. \A t \in T : (\A m \in Queued(q) : t <= waits[m]) <=> (\A u \in T : t <= u)
      OBVIOUS
    <3> QED
      BY <3>1
  <2> HIDE DEF T
  <2>4. readyIn \in Nat
    BY <2>2, <2>3, LeastOf
  <2>5. th.launch \in Nat /\ th.recovery \in Nat
    BY DEF Throttles
  <2> HIDE DEF readyIn
  <2>6. Greatest(th.launch, readyIn) \in Nat
    BY <2>4, <2>5 DEF Greatest
  <2>7. Least(Greatest(th.launch, readyIn), th.recovery) \in Nat
    BY <2>5, <2>6 DEF Least
  <2>8. NextWakeup(q, attempts, th, waits)
          \in {th.recovery, Least(Greatest(th.launch, readyIn), th.recovery)}
    BY <1>2 DEF NextWakeup, readyIn, T
  <2> QED
    BY <2>5, <2>7, <2>8 DEF Timers
<1> QED
  BY <1>1, <1>2

LEMMA LimitedLaunch ==
    ASSUME NEW q, NEW attempts, NEW res, NEW ph, NEW th, NEW waits, NEW ramp,
           Handed(q, attempts, res, ph, th, waits, ramp),
           ScheduleRateLimitLaunch(q, attempts, ph, th, waits)
    PROVE  GoesOn(q, attempts, res, ph)
<1> DEFINE base == Recovered(q, th)
           ripe == {i \in DOMAIN q : waits[q[i]] = 0}
           first == CHOOSE i \in ripe : \A j \in ripe : i <= j
           after == [base EXCEPT !.launch = base.interval]
           may == Cardinality(attempts) < base.capacity /\ base.launch = 0 /\ ripe # {}
<1>1. /\ q \in Seq(Members) /\ Distinct(q) /\ attempts \in SUBSET Members
      /\ th \in Throttles /\ Queued(q) \cap attempts = {} /\ waits \in [Members -> Nat]
      /\ ph \in [Members -> Phases] /\ Queued(q) \subseteq Members
  BY DEF Handed, Partitioned, Queued
<1>2. base \in Throttles
  <2>1. th.capacity + 1 \in Nat \ {0} /\ RecoveryInterval \in Nat
    BY <1>1, ThrottleFields, LimitsAssumption
  <2> DEFINE a == [th EXCEPT !.capacity = th.capacity + 1]
             b == [a EXCEPT !.recovery = RecoveryInterval]
             c == [b EXCEPT !.launch = 0]
  <2>2. a \in Throttles
    BY <1>1, <2>1, UpdateThrottle
  <2>3. b \in Throttles
    <3> HIDE DEF a
    <3> QED
      BY <2>1, <2>2, UpdateThrottle
  <2>4. c \in Throttles
    <3> HIDE DEF b
    <3>1. 0 \in Nat
      OBVIOUS
    <3> QED
      BY <2>3, <3>1, UpdateThrottle
  <2>5. base \in {c, th}
    BY DEF Recovered
  <2> QED
    BY <1>1, <2>4, <2>5
<1> HIDE DEF base
<1>3. after \in Throttles
  BY <1>2 DEF Throttles
<1> HIDE DEF after
<1>4. CASE may
  <2> DEFINE rest == Taken(q, first)
  <2>1. first \in ripe
    <3>1. ripe \in SUBSET Nat /\ ripe # {}
      BY <1>1, <1>4
    <3> HIDE DEF ripe
    <3> QED
      BY <3>1, LeastOf
  <2>2. first \in DOMAIN q
    BY <2>1
  <2>3. /\ pending' = rest /\ active' = attempts \cup {q[first]}
        /\ phase' = Launched(ph, {q[first]}) /\ throttle' = after
        /\ wakeTimer' = NextWakeup(rest, attempts \cup {q[first]}, after, waits)
    BY <1>4 DEF ScheduleRateLimitLaunch, base, after
  <2> HIDE DEF ripe, first
  <2>4. /\ rest \in Seq(Members) /\ Distinct(rest)
        /\ Queued(rest) = Queued(q) \ {q[first]}
    BY <1>1, <2>2, TakenProperties
  <2>5. q[first] \in Queued(q)
    BY <2>2 DEF Queued
  <2> HIDE DEF rest
  <2>6. wakeTimer' \in Timers
    BY <1>1, <1>3, <2>3, <2>4, <2>5, WakeupType
  <2>7. active' \ attempts = {q[first]}
    BY <1>1, <2>3, <2>5
  <2> QED
    BY <1>1, <1>3, <2>3, <2>4, <2>5, <2>6, <2>7 DEF GoesOn
<1>5. CASE ~ may
  <2>1. /\ pending' = q /\ active' = attempts /\ phase' = ph /\ throttle' = base
        /\ wakeTimer' = NextWakeup(q, attempts, base, waits)
    BY <1>5 DEF ScheduleRateLimitLaunch, base
  <2>2. wakeTimer' \in Timers
    BY <1>1, <1>2, <2>1, WakeupType
  <2>3. phase' = Launched(ph, active' \ attempts)
    BY <1>1, <2>1 DEF Launched
  <2> QED
    BY <1>1, <1>2, <2>1, <2>2, <2>3 DEF GoesOn
<1> QED
  BY <1>4, <1>5

LEMMA ScheduleShape ==
    ASSUME NEW q, NEW attempts, NEW res, NEW ph, NEW th, NEW waits, NEW ramp,
           Handed(q, attempts, res, ph, th, waits, ramp),
           Schedule(q, attempts, res, ph, th, waits, ramp)
    PROVE  /\ results' = res /\ rampTimer' \in Timers
           /\ \/ /\ outcome' = "resolved" /\ Answered(res) = Members
                 /\ pending' = q /\ active' = {} /\ phase' = ph
                 /\ throttle' = NoThrottle /\ wakeTimer' = Off
              \/ outcome' = "running" /\ GoesOn(q, attempts, res, ph)
<1>1. CASE \A m \in Members : res[m] # "none"
  BY <1>1 DEF Schedule, Finish, Answered, Timers
<1>2. CASE ~ \A m \in Members : res[m] # "none"
  <2>1. CASE th.limited
    BY <1>2, <2>1, LimitedLaunch DEF Schedule, Timers
  <2>2. CASE ~ th.limited
    BY <1>2, <2>2, NormalLaunch DEF Schedule
  <2> QED
    BY <2>1, <2>2
<1> QED
  BY <1>1, <1>2

-----------------------------------------------------------------------------
(* The invariant.                                                           *)

(* What the caller and the batch have been told fits how far an attempt is. *)
Told(ph, ag, an, ts) ==
    /\ ag \subseteq an
    /\ \A m \in Members :
          /\ ts[m] \in {0, 1} /\ (ts[m] = 1 => m \in an)
          /\ ph[m] = "running" => m \in ag
          /\ ph[m] = "starting" => m \in an
          /\ ph[m] = "launching" /\ m \in an => m \in ag

(* While the batch goes on: its members have one place each, an attempt     *)
(* runs exactly where the batch holds one, whoever waits again is known by  *)
(* its agent, and an agent has its terminal event exactly when its member   *)
(* has a result, or was lost before its run.                                *)
Going(q, attempts, res, ph, rd, ag, an, ts, br) ==
    /\ Partitioned(q, attempts, res)
    /\ \A m \in Members : ph[m] # "none" <=> m \in attempts
    /\ \A m \in rd : m \in attempts /\ ph[m] = "running"
    /\ \A m \in Queued(q) : m \in an => m \in ag
    /\ \A m \in Members : ts[m] = 1 => res[m] # "none"
    /\ \A m \in an \ br : res[m] # "none" => ts[m] = 1

(* Once it is over: what still runs will end its agent, or has been ended.  *)
Ending(attempts, ph, an, ts, br) ==
    /\ attempts = {}
    /\ \A m \in an \ br : ph[m] = "none" => ts[m] = 1
    /\ \A m \in an : ph[m] = "launching" => ts[m] = 1

ToldInv == Told(phase, agents, announced, terminals)
GoingInv ==
    outcome \in {"idle", "running"} =>
        Going(pending, active, results, phase, ready, agents, announced, terminals, broken)
EndingInv ==
    outcome \in {"resolved", "rejected"} =>
        Ending(active, phase, announced, terminals, broken)

IInv == TypeOK /\ ToldInv /\ GoingInv /\ EndingInv

(* The variables that no scheduling touches.                                *)
RestType ==
    /\ ready \subseteq Members /\ started \subseteq Members /\ agents \subseteq Members
    /\ retries \in [Members -> Nat] /\ readyWait \in [Members -> Nat]
    /\ announced \subseteq Members /\ terminals \in [Members -> Nat]
    /\ broken \subseteq Members

LEMMA InitInv == Init => IInv
<1> SUFFICES ASSUME Init PROVE IInv
  OBVIOUS
<1> USE MembersAssumption, LimitsAssumption
<1>1. /\ pending = [i \in Members |-> i] /\ pending \in Seq(Members)
      /\ DOMAIN pending = Members /\ Queued(pending) = Members
  <2>1. pending = [i \in Members |-> i] /\ DOMAIN pending = 1..N /\ N \in Nat
    BY DEF Init, Members
  <2>2. pending \in Seq(Members)
    BY <2>1 DEF Members
  <2> QED
    BY <2>1, <2>2 DEF Queued, Members
<1>2. NoThrottle \in Throttles
  BY DEF NoThrottle, Throttles
<1>3. TypeOK
  BY <1>1, <1>2 DEF Init, TypeOK, Throttles
<1>4. Answered(results) = {}
  BY DEF Answered, Init
<1>5. Going(pending, active, results, phase, ready, agents, announced, terminals, broken)
  BY <1>1, <1>4 DEF Init, Going, Partitioned, Distinct
<1>6. ToldInv
  BY DEF ToldInv, Told, Init
<1> QED
  BY <1>3, <1>5, <1>6 DEF IInv, GoingInv, EndingInv, Init

(* schedule() keeps the invariant, from whatever a handler leaves.          *)
LEMMA SchedulePreserves ==
    ASSUME NEW q, NEW attempts, NEW res, NEW ph, NEW th, NEW waits, NEW ramp,
           Handed(q, attempts, res, ph, th, waits, ramp), RestType',
           Told(ph, agents', announced', terminals'),
           Going(q, attempts, res, ph, ready', agents', announced', terminals', broken'),
           Schedule(q, attempts, res, ph, th, waits, ramp)
    PROVE  IInv'
<1> USE DEF Results, Phases
<1>1. /\ q \in Seq(Members) /\ attempts \subseteq Members
      /\ res \in [Members -> Results] /\ ph \in [Members -> Phases]
      /\ Queued(q) \subseteq Members /\ Queued(q) \cap attempts = {}
  BY DEF Handed, Partitioned, Queued
<1>2. results' = res /\ rampTimer' \in Timers
  BY ScheduleShape
<1>3. CASE /\ outcome' = "resolved" /\ Answered(res) = Members
           /\ pending' = q /\ active' = {} /\ phase' = ph
           /\ throttle' = NoThrottle /\ wakeTimer' = Off
  <2>1. NoThrottle \in Throttles
    BY LimitsAssumption DEF NoThrottle, Throttles
  <2>2. TypeOK'
    BY <1>1, <1>2, <1>3, <2>1 DEF TypeOK, RestType, Throttles, Timers
  <2>3. ToldInv'
    BY <1>3 DEF ToldInv
  <2>4. \A m \in Members : ph[m] = "none" /\ res[m] # "none"
    BY <1>3 DEF Going, Partitioned, Answered
  <2>5. EndingInv'
    BY <1>3, <2>4 DEF EndingInv, Ending, Going, RestType
  <2>6. GoingInv'
    BY <1>3 DEF GoingInv
  <2> QED
    BY <2>2, <2>3, <2>5, <2>6 DEF IInv
<1>4. CASE outcome' = "running" /\ GoesOn(q, attempts, res, ph)
  <2> DEFINE launched == active' \ attempts
  <2>1. /\ launched \subseteq Queued(q) /\ phase' = Launched(ph, launched)
        /\ attempts \subseteq active' /\ active' \subseteq Members
        /\ pending' \in Seq(Members)
        /\ Queued(pending') = Queued(q) \ active' /\ Distinct(pending')
        /\ active' = attempts \cup launched
    BY <1>4 DEF GoesOn
  <2> HIDE DEF launched
  <2>2. /\ phase' \in [Members -> Phases]
        /\ \A m \in launched : phase'[m] = "launching"
        /\ \A m \in Members \ launched : phase'[m] = ph[m]
    BY <1>1, <2>1 DEF Launched
  <2>3. TypeOK'
    BY <1>1, <1>2, <1>4, <2>1, <2>2 DEF TypeOK, RestType, GoesOn, Throttles, Timers
  <2>4. \A m \in launched : m \in announced' => m \in agents'
    BY <2>1 DEF Going
  <2>5. ToldInv'
    BY <2>2, <2>4 DEF ToldInv, Told
  <2>6. Partitioned(pending', active', results')
    BY <1>2, <2>1 DEF Going, Partitioned
  <2>7. \A m \in Members : phase'[m] # "none" <=> m \in active'
    BY <2>1, <2>2 DEF Going
  <2>8. \A m \in ready' : m \in active' /\ phase'[m] = "running"
    BY <1>1, <2>1, <2>2 DEF Going, RestType
  <2>9. GoingInv'
    BY <1>2, <2>1, <2>6, <2>7, <2>8 DEF GoingInv, Going
  <2>10. EndingInv'
    BY <1>4 DEF EndingInv
  <2> QED
    BY <2>3, <2>5, <2>9, <2>10 DEF IInv
<1> QED
  BY <1>2, <1>3, <1>4, ScheduleShape

-----------------------------------------------------------------------------
(* The ends of attempts.                                                    *)

LEMMA TypeParts ==
    ASSUME TypeOK
    PROVE  /\ RestType /\ throttle \in Throttles /\ rampTimer \in Timers
           /\ wakeTimer \in Timers /\ pending \in Seq(Members) /\ active \subseteq Members
           /\ results \in [Members -> Results] /\ phase \in [Members -> Phases]
           /\ outcome \in {"idle", "running", "resolved", "rejected"}
  BY DEF TypeOK, RestType, Throttles, Timers, Results, Phases

(* The attempt of a member ends, with the events the handler has sent: its  *)
(* agent has its terminal event, or the member is among the broken.         *)
LEMMA SettlesPreserves ==
    ASSUME NEW m \in Members, NEW result \in Results \ {"none"}, IInv,
           phase[m] # "none", Settles(m, result),
           UNCHANGED <<started, agents, retries, readyWait, announced>>,
           broken \subseteq broken', broken' \subseteq Members,
           terminals' \in [Members -> Nat],
           \A o \in Members \ {m} : terminals'[o] = terminals[o],
           terminals'[m] \in {0, 1}, terminals'[m] = 1 => m \in announced,
           m \in announced \ broken' => terminals'[m] = 1,
           m \notin active => terminals'[m] >= terminals[m]
    PROVE  IInv'
<1> USE DEF Results, Phases
<1>1. TypeOK /\ ToldInv /\ GoingInv /\ EndingInv
  BY DEF IInv
<1>2. RestType /\ phase \in [Members -> Phases] /\ results \in [Members -> Results]
  BY <1>1, TypeParts
<1>3. CASE m \in active
  <2> DEFINE attempts == active \ {m}
             res == [results EXCEPT ![m] = result]
             ph == [phase EXCEPT ![m] = "none"]
  <2>1. outcome \in {"idle", "running"}
    BY <1>1, <1>3, TypeParts DEF EndingInv, Ending
  <2>2. Going(pending, active, results, phase, ready, agents, announced, terminals, broken)
    BY <1>1, <2>1 DEF GoingInv
  <2>3. /\ Schedule(pending, attempts, res, ph, throttle, readyWait, rampTimer)
        /\ ready' = ready \ {m}
    BY <1>3 DEF Settles
  <2>4. /\ res[m] = result /\ res \in [Members -> Results]
        /\ \A o \in Members \ {m} : res[o] = results[o]
    BY <1>2
  <2>5. /\ ph[m] = "none" /\ ph \in [Members -> Phases]
        /\ \A o \in Members \ {m} : ph[o] = phase[o]
    BY <1>2
  <2> HIDE DEF res, ph
  <2>6. Answered(res) = Answered(results) \cup {m}
    BY <2>4 DEF Answered
  <2>7. Partitioned(pending, attempts, res)
    BY <1>3, <2>2, <2>6 DEF Going, Partitioned
  <2>8. Handed(pending, attempts, res, ph, throttle, readyWait, rampTimer)
    BY <1>1, <2>4, <2>5, <2>7, TypeParts DEF Handed, RestType
  <2>9. RestType'
    BY <1>2, <2>3 DEF RestType
  <2>10. Told(ph, agents', announced', terminals')
    BY <1>1, <2>5 DEF ToldInv, Told
  <2>11. Going(pending, attempts, res, ph, ready', agents', announced', terminals', broken')
    <3>1. \A o \in Members : ph[o] # "none" <=> o \in attempts
      BY <2>2, <2>5 DEF Going
    <3>2. \A o \in ready' : o \in attempts /\ ph[o] = "running"
      BY <1>2, <2>2, <2>3, <2>5 DEF Going, RestType
    <3>3. \A o \in Members : terminals'[o] = 1 => res[o] # "none"
      BY <2>2, <2>4 DEF Going
    <3>4. \A o \in announced' \ broken' : res[o] # "none" => terminals'[o] = 1
      BY <1>2, <2>2, <2>4 DEF Going, RestType
    <3> QED
      BY <2>2, <2>7, <3>1, <3>2, <3>3, <3>4 DEF Going
  <2> QED
    BY <2>3, <2>8, <2>9, <2>10, <2>11, SchedulePreserves
<1>4. CASE m \notin active
  <2>1. outcome \in {"resolved", "rejected"}
    BY <1>1, <1>4, TypeParts DEF GoingInv, Going
  <2>2. Ending(active, phase, announced, terminals, broken)
    BY <1>1, <2>1 DEF EndingInv
  <2>3. /\ phase' = [phase EXCEPT ![m] = "none"] /\ phase' \in [Members -> Phases]
        /\ phase'[m] = "none" /\ \A o \in Members \ {m} : phase'[o] = phase[o]
        /\ UNCHANGED <<queueVars, ready, clockVars>>
    BY <1>2, <1>4 DEF Settles
  <2>4. TypeOK'
    BY <1>1, <2>3 DEF TypeOK, queueVars, clockVars
  <2>5. ToldInv'
    BY <1>1, <2>3 DEF ToldInv, Told
  <2>6. EndingInv'
    BY <1>2, <2>2, <2>3 DEF EndingInv, Ending, queueVars, RestType
  <2>7. GoingInv'
    BY <2>1, <2>3 DEF GoingInv, queueVars
  <2> QED
    BY <2>4, <2>5, <2>6, <2>7 DEF IInv
<1> QED
  BY <1>3, <1>4

LEMMA TerminalizeOne ==
    ASSUME IInv, NEW m \in Members, terminals' = Terminalize(terminals, {m})
    PROVE  /\ terminals' \in [Members -> Nat] /\ terminals'[m] = 1
           /\ \A o \in Members \ {m} : terminals'[o] = terminals[o]
           /\ terminals'[m] >= terminals[m]
<1>1. terminals \in [Members -> Nat] /\ terminals[m] \in {0, 1}
  BY DEF IInv, TypeOK, ToldInv, Told
<1> QED
  BY <1>1 DEF Terminalize, Greatest

LEMMA LaunchFailsPreserves ==
    ASSUME IInv, NEW m \in Members, LaunchFails(m) PROVE IInv'
<1>1. /\ phase[m] = "launching" /\ Settles(m, LaunchFailure(m))
      /\ UNCHANGED <<started, agents, retries, readyWait, announced, terminals>>
      /\ broken' = IF m \in active /\ m \in announced THEN broken \cup {m} ELSE broken
  BY DEF LaunchFails
<1>2. TypeOK /\ ToldInv /\ EndingInv /\ GoingInv /\ RestType
  BY TypeParts DEF IInv
<1>3. LaunchFailure(m) \in Results \ {"none"}
  BY DEF LaunchFailure, Results
<1>4. m \in announced \ broken' => terminals[m] = 1
  <2> SUFFICES ASSUME m \in announced \ broken' PROVE terminals[m] = 1
    OBVIOUS
  <2>1. m \notin active
    BY <1>1
  <2>2. outcome \in {"resolved", "rejected"}
    BY <1>1, <1>2, <2>1, TypeParts DEF GoingInv, Going
  <2> QED
    BY <1>1, <1>2, <2>2 DEF EndingInv, Ending
<1> QED
  BY <1>1, <1>2, <1>3, <1>4, SettlesPreserves DEF RestType, ToldInv, Told

LEMMA RuntimeLostPreserves ==
    ASSUME IInv, NEW m \in Members, RuntimeLost(m) PROVE IInv'
<1>1. /\ phase[m] = "starting" /\ Settles(m, LaunchFailure(m))
      /\ UNCHANGED <<started, agents, retries, readyWait, announced, terminals>>
      /\ broken' = broken \cup {m}
  BY DEF RuntimeLost
<1>2. TypeOK /\ ToldInv /\ RestType
  BY TypeParts DEF IInv
<1>3. LaunchFailure(m) \in Results \ {"none"}
  BY DEF LaunchFailure, Results
<1> QED
  BY <1>1, <1>2, <1>3, SettlesPreserves DEF RestType, ToldInv, Told

(* StartFails, Fails and RateLimitedLast.                                   *)
LEMMA FailurePreserves ==
    ASSUME IInv, NEW m \in Members, NEW result \in Results \ {"none"},
           phase[m] \in {"starting", "running"}, Settles(m, result),
           terminals' = Terminalize(terminals, {m}),
           UNCHANGED <<started, agents, retries, readyWait, announced, broken>>
    PROVE  IInv'
<1>1. TypeOK /\ ToldInv /\ RestType
  BY TypeParts DEF IInv
<1>2. m \in announced
  BY <1>1 DEF ToldInv, Told
<1> QED
  BY <1>1, <1>2, TerminalizeOne, SettlesPreserves DEF RestType

LEMMA CompletesPreserves ==
    ASSUME IInv, NEW m \in Members, Completes(m) PROVE IInv'
<1>1. /\ phase[m] = "running" /\ m \in active /\ Settles(m, "completed")
      /\ terminals' = [terminals EXCEPT ![m] = @ + 1]
      /\ UNCHANGED <<started, agents, retries, readyWait, announced, broken>>
  BY DEF Completes
<1>2. TypeOK /\ ToldInv /\ GoingInv /\ EndingInv /\ RestType
  BY TypeParts DEF IInv
<1>3. outcome \in {"idle", "running"}
  BY <1>1, <1>2, TypeParts DEF EndingInv, Ending
<1>4. terminals[m] = 0 /\ m \in announced
  <2>1. results[m] = "none"
    BY <1>1, <1>2, <1>3 DEF GoingInv, Going, Partitioned, Answered
  <2> QED
    BY <1>1, <1>2, <1>3, <2>1 DEF GoingInv, Going, ToldInv, Told
<1>5. /\ terminals' \in [Members -> Nat] /\ terminals'[m] = 1
      /\ \A o \in Members \ {m} : terminals'[o] = terminals[o]
  BY <1>1, <1>2, <1>4 DEF RestType
<1> QED
  BY <1>1, <1>2, <1>4, <1>5, SettlesPreserves DEF RestType, Results

-----------------------------------------------------------------------------
(* Rate limits.                                                             *)

LEMMA ShrinkType ==
    ASSUME NEW th \in Throttles, NEW force \in BOOLEAN
    PROVE  ShrinkCapacity(th, force) \in Throttles
<1> DEFINE c == Greatest(1, th.capacity - 1)
           a == [th EXCEPT !.capacity = c]
<1>1. c \in Nat /\ c # 0
  BY ThrottleFields DEF Greatest
<1> HIDE DEF c
<1>2. a \in Throttles
  BY <1>1, UpdateThrottle
<1>3. ShrinkCapacity(th, force) \in {th, [a EXCEPT !.shrink = ShrinkInterval]}
  BY DEF ShrinkCapacity, c
<1> HIDE DEF a
<1>4. [a EXCEPT !.shrink = ShrinkInterval] \in Throttles
  BY <1>2, UpdateThrottle, LimitsAssumption
<1> QED
  BY <1>3, <1>4

LEMMA EnterType ==
    ASSUME NEW th \in Throttles PROVE EnterRateLimitMode(th) \in Throttles
<1> DEFINE c == Greatest(1, th.successes)
           l == Greatest(th.launch, RetryBase)
           a == [th EXCEPT !.limited = TRUE]
           b == [a EXCEPT !.capacity = c]
           d == [b EXCEPT !.launch = l]
<1>1. c \in Nat /\ c # 0 /\ l \in Nat
  BY ThrottleFields, LimitsAssumption DEF Greatest
<1> HIDE DEF c, l
<1>2. a \in Throttles
  BY <1>1, UpdateThrottle
<1>3. b \in Throttles
  <2> HIDE DEF a
  <2> QED
    BY <1>1, <1>2, UpdateThrottle
<1>4. d \in Throttles
  <2> HIDE DEF b
  <2> QED
    BY <1>1, <1>3, UpdateThrottle
<1>5. EnterRateLimitMode(th) \in {ShrinkCapacity(th, FALSE), ShrinkCapacity(d, TRUE)}
  BY DEF EnterRateLimitMode, c, l
<1> HIDE DEF d
<1> QED
  BY <1>4, <1>5, ShrinkType

LEMMA PenalizedType ==
    ASSUME NEW th \in Throttles, NEW isReady \in BOOLEAN, NEW delay \in Nat
    PROVE  Penalized(th, isReady, delay) \in Throttles
<1> DEFINE interval == IF isReady THEN th.interval ELSE Greatest(2 * th.interval, delay)
           wait == IF isReady THEN RetryBase ELSE interval
           l == Greatest(th.launch, wait)
           a == [th EXCEPT !.interval = interval]
<1>1. interval \in Nat /\ interval # 0
  BY ThrottleFields DEF Greatest
<1> HIDE DEF interval
<1>2. l \in Nat
  BY <1>1, ThrottleFields, LimitsAssumption DEF Greatest
<1> HIDE DEF wait, l
<1>3. a \in Throttles
  BY <1>1, UpdateThrottle
<1>4. Penalized(th, isReady, delay) = [a EXCEPT !.launch = l]
  BY DEF Penalized, interval, wait, l
<1> HIDE DEF a
<1> QED
  BY <1>2, <1>3, <1>4, UpdateThrottle

LEMMA RateLimitedPreserves ==
    ASSUME IInv, NEW m \in Members, RateLimited(m) PROVE IInv'
<1> USE DEF Phases
<1> DEFINE delay == RetryBase * 2 ^ retries[m]
           waits == [readyWait EXCEPT ![m] = delay]
           entered == [EnterRateLimitMode(throttle) EXCEPT !.recovery = RecoveryInterval]
           th == Penalized(entered, m \in ready, delay)
           q == <<m>> \o pending
           attempts == active \ {m}
           ph == [phase EXCEPT ![m] = "none"]
<1>1. /\ phase[m] = "running" /\ m \in active
      /\ readyWait' = waits /\ Schedule(q, attempts, results, ph, th, waits, Off)
      /\ retries' = [retries EXCEPT ![m] = @ + 1] /\ ready' = ready \ {m}
      /\ UNCHANGED <<started, agents, announced, terminals, broken>>
  BY DEF RateLimited, Requeues, eventVars
<1>2. TypeOK /\ ToldInv /\ GoingInv /\ EndingInv /\ RestType
  BY TypeParts DEF IInv
<1>3. /\ phase \in [Members -> Phases] /\ results \in [Members -> Results]
      /\ throttle \in Throttles /\ pending \in Seq(Members) /\ active \subseteq Members
      /\ wakeTimer \in Timers /\ retries \in [Members -> Nat]
      /\ readyWait \in [Members -> Nat]
  BY <1>2, TypeParts DEF RestType
<1>4. outcome \in {"idle", "running"}
  BY <1>1, <1>2, TypeParts DEF EndingInv, Ending
<1>5. Going(pending, active, results, phase, ready, agents, announced, terminals, broken)
  BY <1>2, <1>4 DEF GoingInv
<1>6. delay \in Nat
  <2>1. 2 ^ retries[m] \in Nat /\ RetryBase \in Nat
    BY <1>3, PowerOfTwo, LimitsAssumption
  <2> QED
    BY <2>1
<1> HIDE DEF delay
<1>7. waits \in [Members -> Nat]
  BY <1>3, <1>6
<1>8. th \in Throttles
  <2>1. EnterRateLimitMode(throttle) \in Throttles
    BY <1>3, EnterType
  <2>2. entered \in Throttles
    BY <2>1, UpdateThrottle, LimitsAssumption
  <2> HIDE DEF entered
  <2>3. (m \in ready) \in BOOLEAN
    OBVIOUS
  <2> QED
    BY <1>6, <2>2, <2>3, PenalizedType
<1>9. m \notin Queued(pending) /\ Distinct(pending) /\ results[m] = "none"
  BY <1>1, <1>5 DEF Going, Partitioned, Answered
<1>10. q \in Seq(Members) /\ Distinct(q) /\ Queued(q) = Queued(pending) \cup {m}
  BY <1>3, <1>9, PushProperties
<1>11. /\ ph[m] = "none" /\ ph \in [Members -> Phases]
       /\ \A o \in Members \ {m} : ph[o] = phase[o]
  BY <1>3
<1> HIDE DEF q, ph, th, waits
<1>12. Partitioned(q, attempts, results)
  BY <1>1, <1>5, <1>9, <1>10 DEF Going, Partitioned, Answered
<1>13. Handed(q, attempts, results, ph, th, waits, Off)
  BY <1>3, <1>7, <1>8, <1>10, <1>11, <1>12 DEF Handed, Timers
<1>14. RestType'
  BY <1>1, <1>2, <1>7 DEF RestType
<1>15. Told(ph, agents', announced', terminals')
  BY <1>1, <1>2, <1>11 DEF ToldInv, Told
<1>16. Going(q, attempts, results, ph, ready', agents', announced', terminals', broken')
  <2>1. \A o \in Members : ph[o] # "none" <=> o \in attempts
    BY <1>5, <1>11 DEF Going
  <2>2. \A o \in ready' : o \in attempts /\ ph[o] = "running"
    BY <1>1, <1>2, <1>5, <1>11 DEF Going, RestType
  <2>3. m \in agents
    BY <1>1, <1>2 DEF ToldInv, Told
  <2> QED
    BY <1>1, <1>5, <1>10, <1>12, <2>1, <2>2, <2>3 DEF Going
<1> QED
  BY <1>1, <1>13, <1>14, <1>15, <1>16, SchedulePreserves

-----------------------------------------------------------------------------
(* The other steps.                                                         *)

LEMMA AnnouncePreserves ==
    ASSUME IInv, NEW m \in Members, Announce(m) PROVE IInv'
<1>1. /\ phase[m] = "launching" /\ phase' = [phase EXCEPT ![m] = "starting"]
      /\ announced' = announced \cup {m}
      /\ UNCHANGED <<pending, active, results, outcome, ready, started, agents, retries,
                     readyWait, throttle, rampTimer, wakeTimer, terminals, broken>>
  BY DEF Announce, Moves, queueVars, stateVars, clockVars
<1>2. TypeOK /\ ToldInv /\ GoingInv /\ EndingInv
  BY DEF IInv
<1>3. /\ phase' \in [Members -> Phases] /\ phase'[m] = "starting"
      /\ \A o \in Members \ {m} : phase'[o] = phase[o]
  BY <1>1, <1>2, TypeParts DEF Phases
<1>4. TypeOK'
  BY <1>1, <1>2, <1>3 DEF TypeOK, Phases
<1>5. ToldInv'
  BY <1>1, <1>2, <1>3 DEF ToldInv, Told
<1>6. GoingInv'
  <2> SUFFICES ASSUME outcome \in {"idle", "running"}
               PROVE  Going(pending, active, results, phase', ready, agents, announced',
                            terminals, broken)
    BY <1>1 DEF GoingInv
  <2>1. Going(pending, active, results, phase, ready, agents, announced, terminals, broken)
    BY <1>2 DEF GoingInv
  <2>2. /\ \A o \in Members : phase'[o] # "none" <=> o \in active
        /\ m \in active /\ m \notin ready /\ m \notin Queued(pending)
        /\ results[m] = "none"
    BY <1>1, <1>3, <2>1 DEF Going, Partitioned, Answered
  <2>3. \A o \in ready : o \in active /\ phase'[o] = "running"
    BY <1>2, <1>3, <2>1, <2>2 DEF Going, TypeOK
  <2> QED
    BY <1>1, <2>1, <2>2, <2>3 DEF Going
<1>7. EndingInv'
  BY <1>1, <1>2, <1>3 DEF EndingInv, Ending, TypeOK
<1> QED
  BY <1>4, <1>5, <1>6, <1>7 DEF IInv

LEMMA StartsPreserves ==
    ASSUME IInv, NEW m \in Members, Starts(m) PROVE IInv'
<1>1. /\ phase[m] = "starting" /\ phase' = [phase EXCEPT ![m] = "running"]
      /\ agents' = agents \cup {m}
      /\ UNCHANGED <<pending, active, results, outcome, ready, started, retries,
                     readyWait, throttle, rampTimer, wakeTimer, announced, terminals, broken>>
  BY DEF Starts, Moves, queueVars, clockVars, eventVars
<1>2. TypeOK /\ ToldInv /\ GoingInv /\ EndingInv
  BY DEF IInv
<1>3. /\ phase' \in [Members -> Phases] /\ phase'[m] = "running"
      /\ \A o \in Members \ {m} : phase'[o] = phase[o]
  BY <1>1, <1>2, TypeParts DEF Phases
<1>4. TypeOK'
  BY <1>1, <1>2, <1>3 DEF TypeOK, Phases
<1>5. ToldInv'
  BY <1>1, <1>2, <1>3 DEF ToldInv, Told
<1>6. GoingInv'
  <2> SUFFICES ASSUME outcome \in {"idle", "running"}
               PROVE  Going(pending, active, results, phase', ready, agents', announced,
                            terminals, broken)
    BY <1>1 DEF GoingInv
  <2>1. Going(pending, active, results, phase, ready, agents, announced, terminals, broken)
    BY <1>2 DEF GoingInv
  <2>2. \A o \in Members : phase'[o] # "none" <=> o \in active
    BY <1>1, <1>3, <2>1 DEF Going
  <2>3. \A o \in ready : o \in active /\ phase'[o] = "running"
    BY <1>2, <1>3, <2>1 DEF Going, TypeOK
  <2> QED
    BY <1>1, <2>1, <2>2, <2>3 DEF Going
<1>7. EndingInv'
  BY <1>1, <1>2, <1>3 DEF EndingInv, Ending, TypeOK
<1> QED
  BY <1>4, <1>5, <1>6, <1>7 DEF IInv

LEMMA ReadyPreserves ==
    ASSUME IInv, NEW m \in Members, Ready(m) PROVE IInv'
<1> DEFINE th == [throttle EXCEPT !.interval = RetryBase, !.launch = RetryBase]
<1>1. /\ phase[m] = "running" /\ m \in active
      /\ ready' = ready \cup {m} /\ started' = started \cup {m}
      /\ UNCHANGED <<agents, retries, readyWait, announced, terminals, broken>>
  BY DEF Ready, eventVars
<1>2. TypeOK /\ ToldInv /\ GoingInv /\ EndingInv /\ RestType
  BY TypeParts DEF IInv
<1>3. outcome \in {"idle", "running"}
  BY <1>1, <1>2, TypeParts DEF EndingInv, Ending
<1>4. Going(pending, active, results, phase, ready, agents, announced, terminals, broken)
  BY <1>2, <1>3 DEF GoingInv
<1>5. Going(pending, active, results, phase, ready', agents', announced', terminals', broken')
  BY <1>1, <1>4 DEF Going
<1>6. RestType' /\ Told(phase, agents', announced', terminals')
  BY <1>1, <1>2 DEF RestType, ToldInv
<1>7. CASE throttle.limited
  <2>1. Schedule(pending, active, results, phase, th, readyWait, rampTimer)
    BY <1>7 DEF Ready
  <2>2. th \in Throttles
    <3> DEFINE a == [throttle EXCEPT !.interval = RetryBase]
    <3>1. a \in Throttles
      BY <1>2, TypeParts, UpdateThrottle, LimitsAssumption
    <3>2. th = [a EXCEPT !.launch = RetryBase]
      OBVIOUS
    <3> HIDE DEF a
    <3> QED
      BY <3>1, <3>2, UpdateThrottle, LimitsAssumption
  <2> HIDE DEF th
  <2>3. Handed(pending, active, results, phase, th, readyWait, rampTimer)
    BY <1>2, <1>4, <2>2, TypeParts DEF Handed, Going, RestType
  <2> QED
    BY <1>5, <1>6, <2>1, <2>3, SchedulePreserves
<1>8. CASE ~ throttle.limited
  <2>1. /\ throttle' = [throttle EXCEPT !.successes = @ + 1]
        /\ UNCHANGED <<pending, active, results, outcome, phase, rampTimer, wakeTimer>>
    BY <1>8 DEF Ready, queueVars
  <2>2. throttle' \in Throttles
    <3>1. throttle \in Throttles /\ throttle.successes + 1 \in Nat
      BY <1>2, TypeParts, ThrottleFields
    <3> QED
      BY <2>1, <3>1, UpdateThrottle
  <2>3. TypeOK'
    BY <1>2, <1>6, <2>1, <2>2 DEF TypeOK, RestType, Throttles
  <2> QED
    BY <1>3, <1>5, <1>6, <2>1, <2>3 DEF IInv, ToldInv, GoingInv, EndingInv
<1> QED
  BY <1>7, <1>8

(* Run and WakeFires: schedule() on what there is.                          *)
LEMMA LookAgainPreserves ==
    ASSUME IInv, outcome \in {"idle", "running"},
           Schedule(pending, active, results, phase, throttle, readyWait, rampTimer),
           UNCHANGED <<stateVars, eventVars>>
    PROVE  IInv'
<1>1. TypeOK /\ ToldInv /\ GoingInv /\ RestType
  BY TypeParts DEF IInv
<1>2. Going(pending, active, results, phase, ready, agents, announced, terminals, broken)
  BY <1>1 DEF GoingInv
<1>3. Handed(pending, active, results, phase, throttle, readyWait, rampTimer)
  BY <1>1, <1>2, TypeParts DEF Handed, Going, RestType
<1>4. RestType' /\ Told(phase, agents', announced', terminals')
  BY <1>1 DEF RestType, ToldInv, stateVars, eventVars
<1>5. Going(pending, active, results, phase, ready', agents', announced', terminals', broken')
  BY <1>2 DEF stateVars, eventVars
<1> QED
  BY <1>3, <1>4, <1>5, SchedulePreserves

LEMMA AbortPreserves ==
    ASSUME IInv, NEW byUser \in BOOLEAN, Abort(byUser) PROVE IInv'
<1>1. /\ outcome \in {"idle", "running"} /\ outcome' \in {"resolved", "rejected"}
      /\ results' \in {results, [m \in Members |-> Interrupted(m)]}
      /\ pending' = pending /\ active' = {} /\ throttle' = NoThrottle
      /\ rampTimer' = Off /\ wakeTimer' = Off
      /\ terminals' = Terminalize(terminals, Suspended(pending))
      /\ UNCHANGED <<ready, started, agents, retries, readyWait, phase, announced, broken>>
  BY DEF Abort, Finish, stateVars
<1>2. TypeOK /\ ToldInv /\ GoingInv
  BY DEF IInv
<1>3. Going(pending, active, results, phase, ready, agents, announced, terminals, broken)
  BY <1>1, <1>2 DEF GoingInv
<1>4. [m \in Members |-> Interrupted(m)] \in [Members -> Results]
  BY <1>2 DEF Interrupted, Results, TypeOK
<1>5. Suspended(pending) \subseteq agents
  BY DEF Suspended
<1>6. /\ terminals' \in [Members -> Nat]
      /\ \A m \in Members : terminals'[m] \in {0, 1}
      /\ \A m \in Members : terminals'[m] = 1 <=> terminals[m] = 1 \/ m \in Suspended(pending)
  BY <1>1, <1>2 DEF Terminalize, Greatest, TypeOK, ToldInv, Told
<1>7. NoThrottle \in Throttles
  BY LimitsAssumption DEF NoThrottle, Throttles
<1>8. TypeOK'
  BY <1>1, <1>2, <1>4, <1>6, <1>7 DEF TypeOK, Results, Throttles
<1>9. ToldInv'
  BY <1>1, <1>2, <1>5, <1>6 DEF ToldInv, Told
<1>10. EndingInv'
  <2>1. ASSUME NEW m \in announced \ broken, phase[m] = "none" PROVE terminals'[m] = 1
    <3>1. m \in Members /\ m \notin active
      BY <1>2, <1>3, <2>1 DEF Going, TypeOK
    <3>2. CASE m \in Queued(pending)
      BY <1>3, <1>6, <3>1, <3>2 DEF Going, Suspended
    <3>3. CASE results[m] # "none"
      BY <1>3, <1>6, <3>1, <3>3 DEF Going
    <3> QED
      BY <1>3, <3>1, <3>2, <3>3 DEF Going, Partitioned, Answered
  <2>2. ASSUME NEW m \in announced, phase[m] = "launching" PROVE terminals'[m] = 1
    <3>1. m \in Members /\ m \in active /\ m \notin ready /\ m \in agents
      BY <1>2, <1>3, <2>2 DEF Going, TypeOK, ToldInv, Told
    <3> QED
      BY <1>6, <3>1 DEF Suspended
  <2> QED
    BY <1>1, <2>1, <2>2 DEF EndingInv, Ending
<1>11. GoingInv'
  BY <1>1 DEF GoingInv
<1> QED
  BY <1>8, <1>9, <1>10, <1>11 DEF IInv

LEMMA RampFiresPreserves == ASSUME IInv, RampFires PROVE IInv'
<1> USE DEF Phases
<1>1. TypeOK /\ ToldInv /\ GoingInv /\ EndingInv /\ RestType
  BY TypeParts DEF IInv
<1>2. outcome = "running" /\ UNCHANGED <<stateVars, eventVars>>
  BY DEF RampFires
<1>3. Going(pending, active, results, phase, ready, agents, announced, terminals, broken)
  BY <1>1, <1>2 DEF GoingInv
<1>4. CASE pending = <<>> \/ AtConcurrencyLimit(active)
  <2>1. rampTimer' = Off /\ UNCHANGED <<queueVars, phase, throttle, wakeTimer>>
    BY <1>4 DEF RampFires
  <2>2. TypeOK'
    BY <1>1, <1>2, <2>1 DEF TypeOK, queueVars, stateVars, eventVars
  <2> QED
    BY <1>1, <1>2, <2>1, <2>2
    DEF IInv, ToldInv, GoingInv, EndingInv, queueVars, stateVars, eventVars
<1>5. CASE ~ (pending = <<>> \/ AtConcurrencyLimit(active))
  <2> DEFINE m == Head(pending)
             q == Tail(pending)
             attempts == active \cup {m}
             ph == Launched(phase, {m})
             th == [throttle EXCEPT !.launches = @ + 1]
  <2>1. Schedule(q, attempts, results, ph, th, readyWait, Off)
    BY <1>5 DEF RampFires
  <2>2. pending \in Seq(Members) /\ pending # <<>> /\ Distinct(pending)
    BY <1>1, <1>3, <1>5, TypeParts DEF Going, Partitioned
  <2>3. /\ q \in Seq(Members) /\ Distinct(q) /\ m \in Queued(pending) /\ m \in Members
        /\ Queued(q) = Queued(pending) \ {m}
    BY <2>2, TailProperties
  <2>4. th \in Throttles
    <3>1. throttle \in Throttles /\ throttle.launches + 1 \in Nat
      BY <1>1, TypeParts, ThrottleFields
    <3> QED
      BY <3>1, UpdateThrottle
  <2> HIDE DEF m, q, th
  <2>5. /\ ph[m] = "launching" /\ ph \in [Members -> Phases]
        /\ \A o \in Members \ {m} : ph[o] = phase[o]
    BY <1>1, <2>3, TypeParts DEF Launched
  <2> HIDE DEF ph
  <2>6. Partitioned(q, attempts, results)
    BY <1>3, <2>3 DEF Going, Partitioned
  <2>7. Handed(q, attempts, results, ph, th, readyWait, Off)
    BY <1>1, <2>3, <2>4, <2>5, <2>6, TypeParts DEF Handed, RestType, Timers
  <2>8. m \notin active /\ phase[m] = "none" /\ (m \in announced => m \in agents)
    BY <1>3, <2>3 DEF Going, Partitioned
  <2>9. RestType' /\ Told(ph, agents', announced', terminals')
    BY <1>1, <1>2, <2>5, <2>8 DEF RestType, ToldInv, Told, stateVars, eventVars
  <2>10. Going(q, attempts, results, ph, ready', agents', announced', terminals', broken')
    <3>1. \A o \in Members : ph[o] # "none" <=> o \in attempts
      BY <1>3, <2>5 DEF Going
    <3>2. \A o \in ready : o \in attempts /\ ph[o] = "running"
      BY <1>1, <1>3, <2>5, <2>8 DEF Going, RestType
    <3> QED
      BY <1>2, <1>3, <2>3, <2>6, <3>1, <3>2 DEF Going, stateVars, eventVars
  <2> QED
    BY <2>1, <2>7, <2>9, <2>10, SchedulePreserves
<1> QED
  BY <1>4, <1>5

LEMMA TickPreserves == ASSUME IInv, Tick PROVE IInv'
<1>1. TypeOK /\ ToldInv /\ GoingInv /\ EndingInv
  BY DEF IInv
<1>2. /\ UNCHANGED <<pending, active, results, outcome, ready, started, agents, retries,
                     phase, announced, terminals, broken>>
      /\ rampTimer' = Sooner(rampTimer) /\ wakeTimer' = Sooner(wakeTimer)
      /\ throttle' = [throttle EXCEPT !.launch = Sooner(@), !.shrink = Sooner(@),
                                      !.recovery = Sooner(@)]
      /\ readyWait' = [m \in Members |-> Sooner(readyWait[m])]
  BY DEF Tick, queueVars, eventVars
<1>3. /\ \A t \in Nat : Sooner(t) \in Nat
      /\ \A t \in Timers : Sooner(t) \in Timers
  BY DEF Sooner, Timers, Off
<1>4. throttle' \in Throttles
  <2> DEFINE a == [throttle EXCEPT !.launch = Sooner(throttle.launch)]
             b == [a EXCEPT !.shrink = Sooner(throttle.shrink)]
             c == [b EXCEPT !.recovery = Sooner(throttle.recovery)]
  <2>1. /\ throttle \in Throttles /\ Sooner(throttle.launch) \in Nat
        /\ Sooner(throttle.shrink) \in Nat /\ Sooner(throttle.recovery) \in Nat
    BY <1>1, <1>3, TypeParts, ThrottleFields
  <2>2. throttle' = c
    BY <1>2
  <2>3. a \in Throttles
    BY <2>1, UpdateThrottle
  <2>4. b \in Throttles
    <3> HIDE DEF a
    <3> QED
      BY <2>1, <2>3, UpdateThrottle
  <2> HIDE DEF b
  <2> QED
    BY <2>1, <2>2, <2>4, UpdateThrottle
<1>5. /\ readyWait' \in [Members -> Nat]
      /\ rampTimer' \in Timers /\ wakeTimer' \in Timers
  BY <1>1, <1>2, <1>3, TypeParts DEF RestType
<1>6. TypeOK'
  BY <1>1, <1>2, <1>4, <1>5 DEF TypeOK, Throttles, Timers
<1> QED
  BY <1>1, <1>2, <1>6 DEF IInv, ToldInv, GoingInv, EndingInv

-----------------------------------------------------------------------------
LEMMA StepPreserves == IInv /\ [Next]_vars => IInv'
<1> SUFFICES ASSUME IInv, [Next]_vars PROVE IInv'
  OBVIOUS
<1>1. CASE Run
  BY <1>1, LookAgainPreserves DEF Run
<1>2. CASE WakeFires
  BY <1>2, LookAgainPreserves DEF WakeFires
<1>3. CASE \E byUser \in BOOLEAN : Abort(byUser)
  BY <1>3, AbortPreserves
<1>4. CASE RampFires
  BY <1>4, RampFiresPreserves
<1>5. CASE Tick
  BY <1>5, TickPreserves
<1>6. ASSUME NEW m \in Members, Progress(m) \/ Ready(m) PROVE IInv'
  <2>1. CASE LaunchFails(m)
    BY <2>1, LaunchFailsPreserves
  <2>2. CASE Announce(m)
    BY <2>2, AnnouncePreserves
  <2>3. CASE RuntimeLost(m)
    BY <2>3, RuntimeLostPreserves
  <2>4. CASE StartFails(m)
    <3>1. LaunchFailure(m) \in Results \ {"none"}
      BY DEF LaunchFailure, Results
    <3> QED
      BY <2>4, <3>1, FailurePreserves DEF StartFails
  <2>5. CASE Starts(m)
    BY <2>5, StartsPreserves
  <2>6. CASE Completes(m)
    BY <2>6, CompletesPreserves
  <2>7. CASE Fails(m)
    BY <2>7, FailurePreserves DEF Fails, Results
  <2>8. CASE RateLimited(m)
    BY <2>8, RateLimitedPreserves
  <2>9. CASE RateLimitedLast(m)
    BY <2>9, FailurePreserves DEF RateLimitedLast, Results
  <2>10. CASE Ready(m)
    BY <2>10, ReadyPreserves
  <2> QED
    BY <1>6, <2>1, <2>2, <2>3, <2>4, <2>5, <2>6, <2>7, <2>8, <2>9, <2>10 DEF Progress
<1>7. CASE UNCHANGED vars
  BY <1>7 DEF IInv, TypeOK, ToldInv, GoingInv, EndingInv,
     vars, queueVars, stateVars, clockVars, eventVars
<1> QED
  BY <1>1, <1>2, <1>3, <1>4, <1>5, <1>6, <1>7 DEF Next

THEOREM InductiveInvariant == Spec => []IInv
<1>1. Init => IInv
  BY InitInv
<1>2. IInv /\ [Next]_vars => IInv'
  BY StepPreserves
<1> QED
  BY <1>1, <1>2, PTL DEF Spec

(* Every variable has its type for any number of members and any limits; in *)
(* particular the capacity under rate limits never falls below one.         *)
THEOREM TypeCorrect == Spec => []TypeOK
<1>1. IInv => TypeOK
  BY DEF IInv
<1> QED
  BY <1>1, InductiveInvariant, PTL

(* While a batch of any size runs, its queue, its attempts and its results  *)
(* divide the members among them.                                           *)
THEOREM MembersHaveOnePlace == Spec => []OnePlace
<1>1. IInv => OnePlace
  BY DEF IInv, GoingInv, Going, OnePlace
<1> QED
  BY <1>1, InductiveInvariant, PTL

(* An agent that was announced has one terminal event at last and never two *)
(* of them, however often it was suspended and whenever the batch aborted.  *)
THEOREM AgentsEndOnce == Spec => []EndsExactlyOnce
<1>1. IInv => EndsExactlyOnce
  <2> SUFFICES ASSUME IInv PROVE EndsExactlyOnce
    OBVIOUS
  <2>1. ToldInv /\ EndingInv
    BY DEF IInv
  <2> QED
    BY <2>1 DEF ToldInv, Told, EndingInv, Ending, EndsExactlyOnce
<1> QED
  BY <1>1, InductiveInvariant, PTL
=============================================================================
