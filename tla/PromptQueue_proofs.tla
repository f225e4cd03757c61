-------------------------- MODULE PromptQueue_proofs --------------------------
(* The safety of PromptQueue for any set of prompts and any bounds: its     *)
(* types, the place of every prompt, and the wakeup of those that wait.     *)
EXTENDS PromptQueue, Queue_proofs, FiniteSetTheorems

States == {"new", "pending", "running", "steered", "blocked", "failed", "cancelled", "completed"}
Holders == Prompts \cup {None}

New == {p \in Prompts : state[p] = "new"}
One(x) == {x} \ {None}
Taking == UNION steers
Steering == UNION {steered[q] : q \in Prompts}
Answered(as) == {p \in Prompts : as[p] = 1}

(* The eight places divide the prompts among them.                          *)
Divided(N, Q, L, A, T, D, W, X) ==
    /\ N \cup Q \cup L \cup A \cup T \cup D \cup W \cup X = Prompts
    /\ N \cap (Q \cup L \cup A \cup T \cup D \cup W \cup X) = {}
    /\ Q \cap (L \cup A \cup T \cup D \cup W \cup X) = {}
    /\ L \cap (A \cup T \cup D \cup W \cup X) = {}
    /\ A \cap (T \cup D \cup W \cup X) = {}
    /\ T \cap (D \cup W \cup X) = {}
    /\ D \cap (W \cup X) = {}
    /\ W \cap X = {}

Apart == \A ps, qs \in steers : ps = qs \/ ps \cap qs = {}

PlaceInv ==
    /\ Distinct(pending) /\ Apart
    /\ Divided(New, Queued(pending), One(launching), One(active), Taking, Steering,
               Answered(answers), lost)
    /\ \A p \in Prompts : answers[p] \in {0, 1}
    /\ \A q \in Prompts : steered[q] # {} => q = active
    /\ launching # None => active = None

IInv == TypeOK /\ PlaceInv /\ ParkedHasWakeup

(* PlaceInv says what InOnePlace says.                                      *)
LEMMA PlaceInvIsInOnePlace == TypeOK /\ PlaceInv => InOnePlace
<1> SUFFICES ASSUME TypeOK, PlaceInv PROVE InOnePlace
  OBVIOUS
<1>1. /\ DOMAIN Places = 1..8
      /\ Places[1] = New /\ Places[2] = Queued(pending) /\ Places[3] = One(launching)
      /\ Places[4] = One(active) /\ Places[5] = Taking /\ Places[6] = Steering
      /\ Places[7] = Answered(answers) /\ Places[8] = lost
  BY DEF Places, New, One, Taking, Steering, Answered
<1> HIDE DEF Places
<1>2. \A p \in Prompts : \E i \in DOMAIN Places : p \in Places[i]
  BY <1>1 DEF PlaceInv, Divided
<1>3. \A i, j \in 1..8 : i < j => Places[i] \cap Places[j] = {}
  BY <1>1 DEF PlaceInv, Divided
<1>4. \A i, j \in DOMAIN Places : i # j => Places[i] \cap Places[j] = {}
  BY <1>1, <1>3
<1> QED
  BY <1>2, <1>4 DEF InOnePlace, PlaceInv, Apart

LEMMA InitInv == Init => IInv
<1> SUFFICES ASSUME Init PROVE IInv
  OBVIOUS
<1> USE PromptsAssumption, BoundsAssumption DEF Init
<1>1. TypeOK
  <2>1. /\ state \in [Prompts -> States] /\ answers \in [Prompts -> Nat]
        /\ steered \in [Prompts -> SUBSET Prompts]
        /\ result \in [Prompts -> {"none"} \cup Outcomes]
    BY DEF States
  <2>2. pending \in Seq(Prompts) /\ turnQueue \in Seq(Prompts)
    OBVIOUS
  <2>3. others \in 0..MaxOtherTurns /\ compactions \in 0..MaxCompactions
    OBVIOUS
  <2> QED
    BY <2>1, <2>2, <2>3 DEF TypeOK, States
<1>2. /\ New = Prompts /\ Queued(pending) = {} /\ One(launching) = {} /\ One(active) = {}
      /\ Taking = {} /\ Steering = {} /\ Answered(answers) = {} /\ lost = {}
  BY DEF New, Queued, One, Taking, Steering, Answered
<1>3. PlaceInv
  BY <1>2 DEF PlaceInv, Divided, Apart, Distinct
<1>4. ParkedHasWakeup
  BY DEF ParkedHasWakeup
<1> QED
  BY <1>1, <1>3, <1>4 DEF IInv

-----------------------------------------------------------------------------
(* Launching.                                                               *)

(* What is known of the queue and of the prompt that is being launched.     *)
QueueType ==
    /\ pending \in Seq(Prompts) /\ Distinct(pending)
    /\ launching \in Holders /\ launch \in {"idle", "hooks", "assigning"}
    /\ launch = "idle" <=> launching = None
    /\ exhausted \in BOOLEAN

(* startNext() takes the head of the queue or leaves it as it is, and then  *)
(* the queue is empty or the stack has overflowed.                          *)
LEMMA StartNextShape ==
    ASSUME NEW q \in Seq(Prompts), Distinct(q), exhausted \in BOOLEAN,
           NEW compaction, StartNext(q, compaction)
    PROVE  /\ QueueType'
           /\ Queued(pending') \cup One(launching') = Queued(q)
           /\ Queued(pending') \cap One(launching') = {}
           /\ pending' # <<>> /\ launching' = None => exhausted'
<1> USE PromptsAssumption
<1>1. CASE /\ q = <<>> /\ pending' = q /\ launching' = None /\ launch' = "idle"
           /\ exhausted' = exhausted
  BY <1>1 DEF QueueType, Holders, One
<1>2. CASE /\ pending' = q /\ launching' = None /\ launch' = "idle" /\ exhausted' = TRUE
  BY <1>2 DEF QueueType, Holders, One
<1>3. CASE /\ q # <<>> /\ pending' = Tail(q) /\ launching' = Head(q) /\ launch' = "hooks"
           /\ exhausted' = exhausted
  <2>1. /\ pending' \in Seq(Prompts) /\ Distinct(pending') /\ Head(q) \in Queued(q)
        /\ Head(q) \in Prompts /\ Queued(pending') = Queued(q) \ {Head(q)}
    BY <1>3, TailProperties
  <2>2. launching' # None /\ One(launching') = {Head(q)}
    BY <1>3, <2>1 DEF One
  <2> QED
    BY <1>3, <2>1, <2>2 DEF QueueType, Holders
<1> QED
  BY <1>1, <1>2, <1>3 DEF StartNext

LEMMA MaybeStartNextShape ==
    ASSUME NEW q \in Seq(Prompts), Distinct(q), QueueType,
           Queued(q) \cap One(launching) = {}, launching # None => active = None,
           NEW compaction, MaybeStartNext(q, compaction)
    PROVE  /\ QueueType'
           /\ Queued(pending') \cup One(launching') = Queued(q) \cup One(launching)
           /\ Queued(pending') \cap One(launching') = {}
           /\ pending' # <<>> /\ launching' = None /\ active = None => exhausted'
           /\ launching' # None => active = None
<1>1. CASE active = None /\ launching = None
  BY <1>1, StartNextShape DEF MaybeStartNext, QueueType, One
<1>2. CASE ~ (active = None /\ launching = None)
  <2>1. pending' = q /\ UNCHANGED <<launching, launch, exhausted>>
    BY <1>2 DEF MaybeStartNext, KeepLaunch
  <2> QED
    BY <1>2, <2>1 DEF QueueType
<1> QED
  BY <1>1, <1>2

LEMMA TypeParts ==
    ASSUME TypeOK, PlaceInv
    PROVE  /\ QueueType /\ active \in Holders /\ state \in [Prompts -> States]
           /\ answers \in [Prompts -> Nat] /\ steered \in [Prompts -> SUBSET Prompts]
           /\ Queued(pending) \subseteq Prompts
  BY DEF TypeOK, PlaceInv, QueueType, Holders, States, Queued

(* The types of the variables that are not in QueueType.                    *)
OtherTypes ==
    /\ state \in [Prompts -> States] /\ active \in Holders
    /\ steers \subseteq SUBSET Prompts /\ heldSteers \subseteq steers
    /\ steered \in [Prompts -> SUBSET Prompts]
    /\ answers \in [Prompts -> Nat] /\ lost \subseteq Prompts
    /\ turn \in Prompts \cup {Other, None} /\ turnQueue \in Seq(Prompts)
    /\ held \in Holders
    /\ result \in [Prompts -> {"none"} \cup Outcomes]
    /\ compacting \in {"none"} \cup Sources /\ finishing \subseteq Sources
    /\ others \in 0..MaxOtherTurns /\ compactions \in 0..MaxCompactions

LEMMA TypeJoin == ASSUME QueueType', OtherTypes' PROVE TypeOK'
  BY DEF TypeOK, QueueType, OtherTypes, States, Holders

LEMMA PlaceJoin ==
    ASSUME Distinct(pending'), Apart',
           Divided(New', Queued(pending'), One(launching'), One(active'), Taking', Steering',
                   Answered(answers'), lost'),
           \A p \in Prompts : answers'[p] \in {0, 1},
           \A q \in Prompts : steered'[q] # {} => q = active',
           launching' # None => active' = None
    PROVE  PlaceInv'
  BY DEF PlaceInv, Divided, New, Queued, One, Taking, Steering, Answered, Distinct

LEMMA TypeSplit == TypeOK /\ Distinct(pending) <=> QueueType /\ OtherTypes
  BY DEF TypeOK, QueueType, OtherTypes, States, Holders

(* Prompts without an answer are given one.                                 *)
LEMMA AnswerFacts ==
    ASSUME IInv, NEW ps \in SUBSET Prompts, ps \cap Answered(answers) = {},
           NEW as \in States \ {"new"}, Answer(ps, as)
    PROVE  /\ state' \in [Prompts -> States] /\ answers' \in [Prompts -> Nat]
           /\ \A p \in Prompts : answers'[p] \in {0, 1}
           /\ Answered(answers') = Answered(answers) \cup ps
           /\ New' = New \ ps
<1>1. /\ state \in [Prompts -> States] /\ answers \in [Prompts -> Nat]
      /\ \A p \in Prompts : answers[p] \in {0, 1}
  BY TypeParts DEF IInv, PlaceInv
<1>2. \A p \in ps : answers[p] = 0
  BY <1>1 DEF Answered
<1>3. state' \in [Prompts -> States] /\ New' = New \ ps
  <2>1. state' = [p \in Prompts |-> IF p \in ps THEN as ELSE state[p]]
    BY DEF Answer
  <2> QED
    BY <1>1, <2>1 DEF New
<1>4. /\ answers' \in [Prompts -> Nat]
      /\ \A p \in Prompts : answers'[p] \in {0, 1}
      /\ Answered(answers') = Answered(answers) \cup ps
  <2>1. answers' = [p \in Prompts |-> IF p \in ps THEN answers[p] + 1 ELSE answers[p]]
    BY DEF Answer
  <2> QED
    BY <1>1, <1>2, <2>1 DEF Answered
<1> QED
  BY <1>3, <1>4

LEMMA EnqueuePreserves == ASSUME IInv, NEW p \in Prompts, Enqueue(p) PROVE IInv'
<1> DEFINE q == Append(pending, p)
<1>1. TypeOK /\ PlaceInv /\ QueueType /\ OtherTypes
  BY TypeSplit DEF IInv, PlaceInv
<1>2. /\ state[p] = "new" /\ state' = [state EXCEPT ![p] = "pending"]
      /\ UNCHANGED <<active, answers, steers, heldSteers, steered, lost, turn, turnQueue,
                     held, result, others, compacting, finishing, compactions>>
  BY DEF Enqueue, steerVars, loopVars, compactionVars
<1>3. p \in New /\ p \notin Queued(pending) /\ p \notin One(launching)
  BY <1>1, <1>2 DEF New, PlaceInv, Divided
<1>4. q \in Seq(Prompts) /\ Distinct(q) /\ Queued(q) = Queued(pending) \cup {p}
  BY <1>1, <1>3, AppendKeeps DEF QueueType
<1>5. /\ QueueType'
      /\ Queued(pending') \cup One(launching') = Queued(q) \cup One(launching)
      /\ Queued(pending') \cap One(launching') = {}
      /\ pending' # <<>> /\ launching' = None /\ active = None
            => exhausted' \/ compacting # "none"
      /\ launching' # None => active = None
  <2>1. Queued(q) \cap One(launching) = {} /\ (launching # None => active = None)
    BY <1>1, <1>3, <1>4 DEF PlaceInv, Divided
  <2>2. CASE HeldBack(compacting, turn)
    <3>1. pending' = q /\ UNCHANGED <<launching, launch, exhausted>> /\ compacting # "none"
      BY <2>2 DEF Enqueue, KeepLaunch, HeldBack
    <3> QED
      BY <1>1, <1>4, <2>1, <3>1 DEF QueueType
  <2>3. CASE ~ HeldBack(compacting, turn)
    <3>1. MaybeStartNext(q, compacting)
      BY <2>3 DEF Enqueue
    <3> HIDE DEF q
    <3> QED
      BY <1>1, <1>4, <2>1, <3>1, MaybeStartNextShape
  <2> QED
    BY <2>2, <2>3
<1>6. New' = New \ {p} /\ state' \in [Prompts -> States]
  BY <1>1, <1>2 DEF New, OtherTypes, States
<1>7. TypeOK'
  BY <1>1, <1>2, <1>5, <1>6, TypeJoin DEF OtherTypes
<1>8. Divided(New', Queued(pending'), One(launching'), One(active'), Taking', Steering',
              Answered(answers'), lost')
  BY <1>1, <1>2, <1>3, <1>4, <1>5, <1>6
  DEF PlaceInv, Divided, Taking, Steering
<1>9. PlaceInv'
  BY <1>1, <1>2, <1>5, <1>8, PlaceJoin DEF PlaceInv, Apart, QueueType
<1>10. ParkedHasWakeup'
  BY <1>2, <1>5 DEF ParkedHasWakeup
<1> QED
  BY <1>7, <1>9, <1>10 DEF IInv

LEMMA NotLaunchedPreserves ==
    ASSUME IInv, NEW as \in {"blocked", "failed"}, NotLaunched(as) PROVE IInv'
<1>1. TypeOK /\ PlaceInv /\ QueueType /\ OtherTypes
  BY TypeSplit DEF IInv, PlaceInv
<1>2. /\ launch = "hooks" /\ Answer({launching}, as) /\ StartNext(pending, compacting)
      /\ UNCHANGED <<active, steers, heldSteers, steered, lost, turn, turnQueue,
                     held, result, others, compacting, finishing, compactions>>
  BY DEF NotLaunched, steerVars, loopVars, compactionVars
<1>3. launching \in Prompts /\ One(launching) = {launching} /\ active = None
  BY <1>1, <1>2 DEF QueueType, Holders, One, PlaceInv
<1>4. /\ state' \in [Prompts -> States] /\ answers' \in [Prompts -> Nat]
      /\ \A p \in Prompts : answers'[p] \in {0, 1}
      /\ Answered(answers') = Answered(answers) \cup {launching}
      /\ New' = New \ {launching}
  <2>1. {launching} \cap Answered(answers) = {} /\ {launching} \in SUBSET Prompts
    BY <1>1, <1>3 DEF PlaceInv, Divided
  <2>2. as \in States \ {"new"}
    BY DEF States
  <2> QED
    BY <1>2, <2>1, <2>2, AnswerFacts
<1>5. /\ QueueType'
      /\ Queued(pending') \cup One(launching') = Queued(pending)
      /\ Queued(pending') \cap One(launching') = {}
      /\ pending' # <<>> /\ launching' = None => exhausted'
  BY <1>1, <1>2, StartNextShape DEF QueueType
<1>6. TypeOK'
  BY <1>1, <1>2, <1>4, <1>5, TypeJoin DEF OtherTypes
<1>7. Divided(New', Queued(pending'), One(launching'), One(active'), Taking', Steering',
              Answered(answers'), lost')
  <2>1. UNCHANGED <<Taking, Steering>> /\ One(active') = One(active) /\ lost' = lost
    BY <1>2 DEF Taking, Steering
  <2>2. Divided(New, Queued(pending), {launching}, One(active), Taking, Steering,
                Answered(answers), lost)
    BY <1>1, <1>3 DEF PlaceInv
  <2> QED
    BY <1>4, <1>5, <2>1, <2>2 DEF Divided
<1>8. PlaceInv'
  BY <1>1, <1>2, <1>3, <1>4, <1>5, <1>7, PlaceJoin DEF PlaceInv, Apart, QueueType
<1>9. ParkedHasWakeup'
  BY <1>5 DEF ParkedHasWakeup
<1> QED
  BY <1>6, <1>8, <1>9 DEF IInv

LEMMA HooksPassPreserves == ASSUME IInv, HooksPass PROVE IInv'
<1>1. TypeOK /\ PlaceInv /\ QueueType /\ OtherTypes /\ ParkedHasWakeup
  BY TypeSplit DEF IInv, PlaceInv
<1>2. /\ launch = "hooks" /\ launch' = "assigning"
      /\ turn' \in {turn, launching} /\ turnQueue' \in {turnQueue, Append(turnQueue, launching)}
      /\ held' \in {held, launching}
      /\ UNCHANGED <<state, active, answers, pending, launching, exhausted, steers,
                     heldSteers, steered, lost, result, others, compacting, finishing,
                     compactions>>
  BY DEF HooksPass, steerVars, compactionVars
<1>3. launching \in Prompts
  BY <1>1, <1>2 DEF QueueType, Holders
<1>4. turnQueue' \in Seq(Prompts)
  <2>1. turnQueue \in Seq(Prompts) /\ Append(turnQueue, launching) \in Seq(Prompts)
    BY <1>1, <1>3 DEF OtherTypes
  <2> QED
    BY <1>2, <2>1
<1>5. QueueType' /\ OtherTypes'
  BY <1>1, <1>2, <1>3, <1>4 DEF QueueType, OtherTypes, Holders
<1>6. PlaceInv'
  BY <1>1, <1>2 DEF PlaceInv, Apart, New, Taking, Steering, Answered, One, Queued, Distinct
<1>7. ParkedHasWakeup'
  BY <1>1, <1>2 DEF ParkedHasWakeup
<1> QED
  BY <1>5, <1>6, <1>7, TypeJoin DEF IInv

LEMMA LaunchedPreserves == ASSUME IInv, Launched PROVE IInv'
<1>1. TypeOK /\ PlaceInv /\ QueueType /\ OtherTypes
  BY TypeSplit DEF IInv, PlaceInv
<1>2. /\ launch = "assigning" /\ active' = launching
      /\ state' = [state EXCEPT ![launching] = "running"]
      /\ launching' = None /\ launch' = "idle"
      /\ UNCHANGED <<answers, pending, exhausted, steers, heldSteers, steered, lost, turn,
                     turnQueue, held, result, others, compacting, finishing, compactions>>
  BY DEF Launched, steerVars, loopVars, compactionVars
<1>3. /\ launching \in Prompts /\ launching # None /\ active = None
      /\ One(launching) = {launching} /\ One(active) = {}
      /\ One(launching') = {} /\ One(active') = {launching}
  BY <1>1, <1>2, PromptsAssumption DEF QueueType, Holders, One, PlaceInv
<1>4. launching \notin New
  BY <1>1, <1>3 DEF PlaceInv, Divided
<1>5. New' = New /\ state' \in [Prompts -> States]
  BY <1>1, <1>2, <1>3, <1>4 DEF New, OtherTypes, States
<1>6. QueueType' /\ OtherTypes'
  BY <1>1, <1>2, <1>3, <1>5 DEF QueueType, OtherTypes, Holders
<1>7. UNCHANGED <<Taking, Steering>> /\ Queued(pending') = Queued(pending)
  BY <1>2 DEF Taking, Steering
<1>8. Divided(New', Queued(pending'), One(launching'), One(active'), Taking', Steering',
              Answered(answers'), lost')
  <2>1. Divided(New, Queued(pending), {launching}, {}, Taking, Steering,
                Answered(answers), lost)
    BY <1>1, <1>3 DEF PlaceInv
  <2> QED
    BY <1>2, <1>3, <1>5, <1>7, <2>1 DEF Divided
<1>9. \A q \in Prompts : steered'[q] # {} => q = active'
  BY <1>1, <1>2, <1>3, PromptsAssumption DEF PlaceInv
<1>10. PlaceInv'
  BY <1>1, <1>2, <1>8, <1>9, PlaceJoin DEF PlaceInv, Apart
<1>11. ParkedHasWakeup'
  BY <1>2, <1>3 DEF ParkedHasWakeup
<1> QED
  BY <1>6, <1>10, <1>11, TypeJoin DEF IInv

LEMMA SettlePreserves == ASSUME IInv, Settle PROVE IInv'
<1> DEFINE ps == {active} \cup steered[active]
<1>1. TypeOK /\ PlaceInv /\ QueueType /\ OtherTypes
  BY TypeSplit DEF IInv, PlaceInv
<1>2. /\ active # None /\ result[active] # "none" /\ active' = None
      /\ Answer(ps, result[active])
      /\ steered' = [steered EXCEPT ![active] = {}] /\ StartNext(pending, compacting)
      /\ UNCHANGED <<steers, heldSteers, lost, turn, turnQueue, held, result, others,
                     compacting, finishing, compactions>>
  BY DEF Settle, loopVars, compactionVars
<1>3. /\ active \in Prompts /\ launching = None /\ One(active) = {active}
      /\ One(launching) = {} /\ One(active') = {}
  BY <1>1, <1>2 DEF OtherTypes, Holders, One, PlaceInv
<1>4. Steering = steered[active] /\ Steering \subseteq Prompts
  <2>1. /\ \A q \in Prompts \ {active} : steered[q] = {}
        /\ steered[active] \subseteq Prompts
    BY <1>1, <1>3 DEF PlaceInv, OtherTypes
  <2> QED
    BY <1>3, <2>1 DEF Steering
<1>5. Steering' = {} /\ steered' \in [Prompts -> SUBSET Prompts]
      /\ \A q \in Prompts : steered'[q] = {}
  BY <1>1, <1>2, <1>3 DEF Steering, PlaceInv, OtherTypes
<1>6. Divided(New, Queued(pending), {}, {active}, Taking, Steering, Answered(answers), lost)
  BY <1>1, <1>3 DEF PlaceInv
<1>7. /\ state' \in [Prompts -> States] /\ answers' \in [Prompts -> Nat]
      /\ \A p \in Prompts : answers'[p] \in {0, 1}
      /\ Answered(answers') = Answered(answers) \cup ps
      /\ New' = New \ ps
  <2>1. ps \cap Answered(answers) = {} /\ ps \in SUBSET Prompts
    BY <1>3, <1>4, <1>6 DEF Divided
  <2>2. result[active] \in States \ {"new"}
    BY <1>1, <1>2, <1>3 DEF States, OtherTypes, Outcomes
  <2> HIDE DEF ps
  <2> QED
    BY <1>2, <2>1, <2>2, AnswerFacts
<1>8. /\ QueueType'
      /\ Queued(pending') \cup One(launching') = Queued(pending)
      /\ Queued(pending') \cap One(launching') = {}
      /\ pending' # <<>> /\ launching' = None => exhausted'
  BY <1>1, <1>2, StartNextShape DEF QueueType
<1>9. TypeOK'
  BY <1>1, <1>2, <1>5, <1>7, <1>8, TypeJoin DEF OtherTypes, Holders
<1>10. Divided(New', Queued(pending'), One(launching'), One(active'), Taking', Steering',
               Answered(answers'), lost')
  <2>1. Taking' = Taking /\ lost' = lost
    BY <1>2 DEF Taking
  <2> QED
    BY <1>3, <1>4, <1>5, <1>6, <1>7, <1>8, <2>1 DEF Divided
<1>11. PlaceInv'
  BY <1>1, <1>2, <1>5, <1>7, <1>8, <1>10, PlaceJoin DEF PlaceInv, Apart, QueueType
<1>12. ParkedHasWakeup'
  BY <1>8 DEF ParkedHasWakeup
<1> QED
  BY <1>9, <1>11, <1>12 DEF IInv

-----------------------------------------------------------------------------
(* Steering and aborting.                                                   *)

(* The request of a call of steer() takes its prompts out of the queue.     *)
LEMMA RestShape ==
    ASSUME IInv, NEW ps \in SUBSET Prompts,
           NEW r \in [1..Cardinality(Queued(pending) \ ps) -> Queued(pending) \ ps],
           IsRest(r, pending, ps)
    PROVE  r \in Seq(Prompts) /\ Distinct(r) /\ Queued(r) = Queued(pending) \ ps
<1>1. QueueType /\ Queued(pending) \subseteq Prompts
  BY TypeParts DEF IInv
<1>2. Cardinality(Queued(pending) \ ps) \in Nat
  <2>1. IsFiniteSet(Queued(pending) \ ps)
    BY <1>1, PromptsAssumption, FS_Subset
  <2> QED
    BY <2>1, FS_CardinalityType
<1>3. r \in Seq(Prompts)
  <2> DEFINE n == Cardinality(Queued(pending) \ ps)
  <2>1. n \in Nat /\ r \in [1..n -> Prompts]
    BY <1>1, <1>2
  <2> HIDE DEF n
  <2> QED
    BY <2>1
<1> QED
  BY <1>1, <1>3, IsRestDistinct DEF QueueType

LEMMA SteerPreserves == ASSUME IInv, NEW ps \in SUBSET Prompts, Steer(ps) PROVE IInv'
<1>1. TypeOK /\ PlaceInv /\ QueueType /\ OtherTypes
  BY TypeSplit DEF IInv, PlaceInv
<1>2. /\ active # None /\ ps \subseteq Queued(pending)
      /\ \/ steers' = steers \cup {ps} /\ heldSteers' \in {heldSteers, heldSteers \cup {ps}}
            /\ lost' = lost
         \/ lost' = lost \cup ps /\ steers' = steers /\ heldSteers' = heldSteers
      /\ UNCHANGED <<launching, launch, exhausted, state, active, answers, steered, turn,
                     turnQueue, held, result, others, compacting, finishing, compactions>>
  BY DEF Steer, KeepLaunch, loopVars, compactionVars
<1>3. /\ pending' \in Seq(Prompts) /\ Distinct(pending')
      /\ Queued(pending') = Queued(pending) \ ps
  <2>1. PICK r \in [1..Cardinality(Queued(pending) \ ps) -> Queued(pending) \ ps] :
               IsRest(r, pending, ps) /\ pending' = r
    BY DEF Steer
  <2> QED
    BY <2>1, RestShape
<1>4. QueueType' /\ OtherTypes'
  BY <1>1, <1>2, <1>3 DEF QueueType, OtherTypes
<1>5. Divided(New, Queued(pending), One(launching), One(active), Taking, Steering,
              Answered(answers), lost)
  BY <1>1 DEF PlaceInv
<1>6. Taking' \cup lost' = Taking \cup lost \cup ps /\ Taking' \cap lost' = {}
      /\ Taking \subseteq Taking' /\ lost \subseteq lost'
  BY <1>2, <1>5 DEF Taking, Divided
<1>7. Apart'
  <2>1. \A qs \in steers : qs \cap ps = {}
    BY <1>2, <1>5 DEF Taking, Divided
  <2> QED
    BY <1>1, <1>2, <2>1 DEF PlaceInv, Apart
<1>8. Divided(New', Queued(pending'), One(launching'), One(active'), Taking', Steering',
              Answered(answers'), lost')
  <2>1. New' = New /\ Steering' = Steering /\ One(launching') = One(launching)
        /\ One(active') = One(active) /\ Answered(answers') = Answered(answers)
    BY <1>2 DEF New, Steering
  <2> QED
    BY <1>2, <1>3, <1>5, <1>6, <2>1 DEF Divided
<1>9. PlaceInv'
  BY <1>1, <1>2, <1>3, <1>7, <1>8, PlaceJoin DEF PlaceInv
<1>10. ParkedHasWakeup'
  BY <1>2 DEF ParkedHasWakeup
<1> QED
  BY <1>4, <1>9, <1>10, TypeJoin DEF IInv

LEMMA SteeredPreserves == ASSUME IInv, NEW ps \in SUBSET Prompts, Steered(ps) PROVE IInv'
<1>1. TypeOK /\ PlaceInv /\ QueueType /\ OtherTypes /\ ParkedHasWakeup
  BY TypeSplit DEF IInv, PlaceInv
<1>2. /\ ps \in steers /\ ps \notin heldSteers /\ steers' = steers \ {ps}
      /\ state' = [p \in Prompts |-> IF p \in ps THEN "steered" ELSE state[p]]
      /\ \/ active # None /\ steered' = [steered EXCEPT ![active] = @ \cup ps] /\ lost' = lost
         \/ active = None /\ lost' = lost \cup ps /\ steered' = steered
      /\ UNCHANGED <<active, answers, pending, launching, launch, exhausted, heldSteers,
                     turn, turnQueue, held, result, others, compacting, finishing,
                     compactions>>
  BY DEF Steered, queueVars, loopVars, compactionVars
<1>3. Divided(New, Queued(pending), One(launching), One(active), Taking, Steering,
              Answered(answers), lost)
  BY <1>1 DEF PlaceInv
<1>4. Taking' = Taking \ ps /\ ps \subseteq Taking /\ Apart'
  BY <1>1, <1>2 DEF Taking, PlaceInv, Apart
<1>5. New' = New /\ state' \in [Prompts -> States]
  <2>1. ps \cap New = {}
    BY <1>3, <1>4 DEF Divided
  <2> QED
    BY <1>1, <1>2, <2>1 DEF New, OtherTypes, States
<1>6. /\ steered' \in [Prompts -> SUBSET Prompts]
      /\ \A q \in Prompts : steered'[q] # {} => q = active
      /\ Steering' \cup lost' = Steering \cup lost \cup ps
      /\ Steering' \in {Steering, Steering \cup ps} /\ lost' \in {lost, lost \cup ps}
      /\ Steering' = Steering \/ lost' = lost
  <2>1. CASE active # None
    <3>1. active \in Prompts /\ steered' = [steered EXCEPT ![active] = @ \cup ps]
          /\ lost' = lost
      BY <1>1, <1>2, <2>1 DEF OtherTypes, Holders
    <3>2. /\ \A q \in Prompts \ {active} : steered'[q] = {} /\ steered[q] = {}
          /\ steered'[active] = steered[active] \cup ps
          /\ steered' \in [Prompts -> SUBSET Prompts]
      BY <1>1, <1>2, <3>1 DEF OtherTypes, PlaceInv
    <3>3. Steering' = steered'[active] /\ Steering = steered[active]
      BY <3>1, <3>2 DEF Steering
    <3> QED
      BY <3>1, <3>2, <3>3
  <2>2. CASE active = None
    <3>1. lost' = lost \cup ps /\ steered' = steered
      BY <1>2, <2>2
    <3> QED
      BY <1>1, <3>1 DEF OtherTypes, PlaceInv, Steering
  <2> QED
    BY <2>1, <2>2
<1>7. QueueType' /\ OtherTypes'
  BY <1>1, <1>2, <1>5, <1>6 DEF QueueType, OtherTypes
<1>8. Divided(New', Queued(pending'), One(launching'), One(active'), Taking', Steering',
              Answered(answers'), lost')
  <2>1. Queued(pending') = Queued(pending) /\ One(launching') = One(launching)
        /\ One(active') = One(active) /\ Answered(answers') = Answered(answers)
    BY <1>2
  <2> QED
    BY <1>3, <1>4, <1>5, <1>6, <2>1 DEF Divided
<1>9. PlaceInv'
  BY <1>1, <1>2, <1>4, <1>6, <1>8, PlaceJoin DEF PlaceInv
<1>10. ParkedHasWakeup'
  BY <1>1, <1>2 DEF ParkedHasWakeup
<1> QED
  BY <1>7, <1>9, <1>10, TypeJoin DEF IInv

(* cancelQueuedTurn touches no place.                                       *)
LEMMA CancelTurnType ==
    ASSUME OtherTypes, NEW p \in Holders, CancelTurn(p)
    PROVE  /\ turnQueue' \in Seq(Prompts)
           /\ result' \in [Prompts -> {"none"} \cup Outcomes]
<1>1. turnQueue \in Seq(Prompts) /\ result \in [Prompts -> {"none"} \cup Outcomes]
  BY DEF OtherTypes
<1>2. CASE p \in Queued(turnQueue)
  <2>1. PICK i \in DOMAIN turnQueue : turnQueue' = Taken(turnQueue, i)
    BY <1>2 DEF CancelTurn
  <2>2. result' = [result EXCEPT ![p] = "cancelled"] /\ "cancelled" \in Outcomes
    BY <1>2 DEF CancelTurn, Outcomes
  <2>3. turnQueue' \in Seq(Prompts)
    BY <1>1, <2>1, TakenType
  <2> QED
    BY <1>1, <2>2, <2>3
<1>3. CASE p \notin Queued(turnQueue)
  BY <1>1, <1>3 DEF CancelTurn
<1> QED
  BY <1>2, <1>3

(* Steps that leave the prompts where they are, and do not end a compaction.*)
LEMMA FramePreserves ==
    ASSUME IInv, OtherTypes', compacting # "none" => compacting' # "none",
           finishing \subseteq finishing',
           UNCHANGED <<state, active, answers, pending, launching, launch, exhausted, steers,
                       steered, lost>>
    PROVE  IInv'
<1>1. TypeOK /\ PlaceInv /\ QueueType /\ ParkedHasWakeup
  BY TypeSplit DEF IInv, PlaceInv
<1>2. QueueType'
  BY <1>1 DEF QueueType
<1>3. PlaceInv'
  BY <1>1 DEF PlaceInv, Apart, New, Taking, Steering, Answered, One, Queued, Distinct
<1>4. ParkedHasWakeup'
  BY <1>1 DEF ParkedHasWakeup
<1> QED
  BY <1>2, <1>3, <1>4, TypeJoin DEF IInv

(* Prompts that wait are cancelled.                                         *)
LEMMA CancelsPreserves ==
    ASSUME IInv, NEW ps \in SUBSET Queued(pending), Answer(ps, "cancelled"),
           pending' \in Seq(Prompts), Distinct(pending'),
           Queued(pending') = Queued(pending) \ ps, pending' # <<>> => pending # <<>>,
           turnQueue' \in Seq(Prompts), result' \in [Prompts -> {"none"} \cup Outcomes],
           UNCHANGED <<active, launching, launch, exhausted, steers, heldSteers, steered,
                       lost, turn, held, others, compacting, finishing, compactions>>
    PROVE  IInv'
<1>1. TypeOK /\ PlaceInv /\ QueueType /\ OtherTypes /\ ParkedHasWakeup
  BY TypeSplit DEF IInv, PlaceInv
<1>2. Divided(New, Queued(pending), One(launching), One(active), Taking, Steering,
              Answered(answers), lost)
  BY <1>1 DEF PlaceInv
<1>3. /\ state' \in [Prompts -> States] /\ answers' \in [Prompts -> Nat]
      /\ \A p \in Prompts : answers'[p] \in {0, 1}
      /\ Answered(answers') = Answered(answers) \cup ps
      /\ New' = New \ ps
  <2>1. ps \cap Answered(answers) = {} /\ ps \in SUBSET Prompts
    BY <1>2 DEF Divided
  <2>2. "cancelled" \in States \ {"new"}
    BY DEF States
  <2> QED
    BY <2>1, <2>2, AnswerFacts
<1>4. QueueType' /\ OtherTypes'
  BY <1>1, <1>3 DEF QueueType, OtherTypes
<1>5. Divided(New', Queued(pending'), One(launching'), One(active'), Taking', Steering',
              Answered(answers'), lost')
  <2>1. UNCHANGED <<Taking, Steering>> /\ One(launching') = One(launching)
        /\ One(active') = One(active)
    BY DEF Taking, Steering
  <2> QED
    BY <1>2, <1>3, <2>1 DEF Divided
<1>6. PlaceInv'
  BY <1>1, <1>3, <1>5, PlaceJoin DEF PlaceInv, Apart
<1>7. ParkedHasWakeup'
  BY <1>1 DEF ParkedHasWakeup
<1> QED
  BY <1>4, <1>6, <1>7, TypeJoin DEF IInv

LEMMA AbortPreserves == ASSUME IInv, NEW p \in Prompts, Abort(p) PROVE IInv'
<1>1. TypeOK /\ PlaceInv /\ QueueType /\ OtherTypes
  BY TypeSplit DEF IInv, PlaceInv
<1>2. CASE /\ \E i \in DOMAIN pending : pending[i] = p /\ pending' = Taken(pending, i)
           /\ Answer({p}, "cancelled") /\ KeepLaunch
           /\ UNCHANGED <<active, steerVars, loopVars, compactionVars>>
  <2>1. PICK i \in DOMAIN pending : pending[i] = p /\ pending' = Taken(pending, i)
    BY <1>2
  <2>2. /\ pending' \in Seq(Prompts) /\ Distinct(pending')
        /\ Queued(pending') = Queued(pending) \ {p}
    BY <1>1, <2>1, TakenProperties DEF QueueType
  <2>3. p \in Queued(pending) /\ pending # <<>>
    BY <2>1 DEF Queued
  <2>4. UNCHANGED <<active, launching, launch, exhausted, steers, heldSteers, steered,
                    lost, turn, turnQueue, held, result, others, compacting, finishing,
                    compactions>>
    BY <1>2 DEF KeepLaunch, steerVars, loopVars, compactionVars
  <2> QED
    BY <1>1, <1>2, <2>2, <2>3, <2>4, CancelsPreserves DEF OtherTypes
<1>3. CASE /\ p = active /\ CancelTurn(p)
           /\ UNCHANGED <<state, active, answers, queueVars, steerVars, turn, held, others,
                          compactionVars>>
  <2>1. /\ turnQueue' \in Seq(Prompts) /\ result' \in [Prompts -> {"none"} \cup Outcomes]
    BY <1>1, <1>3, CancelTurnType DEF Holders
  <2>2. OtherTypes'
    BY <1>1, <1>3, <2>1 DEF OtherTypes, steerVars, compactionVars
  <2> QED
    BY <1>3, <2>2, FramePreserves DEF queueVars, steerVars, compactionVars
<1> QED
  BY <1>2, <1>3 DEF Abort

LEMMA DrainPreserves == ASSUME IInv, Drain PROVE IInv'
<1>1. TypeOK /\ PlaceInv /\ QueueType /\ OtherTypes
  BY TypeSplit DEF IInv, PlaceInv
<1>2. /\ pending' = <<>> /\ Answer(Queued(pending), "cancelled") /\ CancelTurn(active)
      /\ UNCHANGED <<active, launching, launch, exhausted, steers, heldSteers, steered,
                     lost, turn, held, others, compacting, finishing, compactions>>
  BY DEF Drain, KeepLaunch, steerVars, compactionVars
<1>3. turnQueue' \in Seq(Prompts) /\ result' \in [Prompts -> {"none"} \cup Outcomes]
  BY <1>1, <1>2, CancelTurnType DEF OtherTypes
<1>4. pending' \in Seq(Prompts) /\ Distinct(pending') /\ Queued(pending') = {}
  BY <1>2 DEF Distinct, Queued
<1> QED
  BY <1>2, <1>3, <1>4, CancelsPreserves

LEMMA CancelQueuedTurnPreserves ==
    ASSUME IInv, NEW p \in Prompts, CancelQueuedTurn(p) PROVE IInv'
<1>1. OtherTypes
  BY TypeSplit DEF IInv, PlaceInv
<1>2. turnQueue' \in Seq(Prompts) /\ result' \in [Prompts -> {"none"} \cup Outcomes]
  BY <1>1, CancelTurnType DEF CancelQueuedTurn, Holders
<1>3. OtherTypes'
  BY <1>1, <1>2 DEF OtherTypes, CancelQueuedTurn, steerVars, compactionVars
<1> QED
  BY <1>3, FramePreserves DEF CancelQueuedTurn, queueVars, steerVars, compactionVars

-----------------------------------------------------------------------------
(* The loop and the compactions.                                            *)

LEMMA OtherTurnPreserves == ASSUME IInv, OtherTurn PROVE IInv'
<1>1. OtherTypes
  BY TypeSplit DEF IInv, PlaceInv
<1>2. others' \in 0..MaxOtherTurns
  BY <1>1, BoundsAssumption DEF OtherTypes, OtherTurn
<1>3. OtherTypes'
  BY <1>1, <1>2 DEF OtherTypes, OtherTurn, steerVars, compactionVars
<1> QED
  BY <1>3, FramePreserves DEF OtherTurn, queueVars, steerVars, compactionVars

LEMMA TurnEndsPreserves == ASSUME IInv, NEW as \in Outcomes, TurnEnds(as) PROVE IInv'
<1>1. OtherTypes
  BY TypeSplit DEF IInv, PlaceInv
<1>2. result' \in [Prompts -> {"none"} \cup Outcomes]
  BY <1>1 DEF OtherTypes, TurnEnds
<1>3. turnQueue' \in Seq(Prompts) /\ turn' \in Prompts \cup {Other, None}
  <2>1. turnQueue \in Seq(Prompts)
    BY <1>1 DEF OtherTypes
  <2>2. CASE turn' = None /\ turnQueue' = turnQueue
    BY <2>1, <2>2
  <2>3. CASE turnQueue # <<>> /\ turn' = Head(turnQueue) /\ turnQueue' = Tail(turnQueue)
    <3>1. Head(turnQueue) \in Prompts /\ Tail(turnQueue) \in Seq(Prompts)
      BY <2>1, <2>3
    <3> QED
      BY <2>3, <3>1
  <2> QED
    BY <2>2, <2>3 DEF TurnEnds
<1>4. OtherTypes'
  BY <1>1, <1>2, <1>3 DEF OtherTypes, TurnEnds, steerVars, compactionVars
<1> QED
  BY <1>4, FramePreserves DEF TurnEnds, queueVars, steerVars, compactionVars

LEMMA BeginCompactionPreserves ==
    ASSUME IInv, NEW source \in Sources, BeginCompaction(source) PROVE IInv'
<1>1. OtherTypes
  BY TypeSplit DEF IInv, PlaceInv
<1>2. compactions' \in 0..MaxCompactions
  BY <1>1, BoundsAssumption DEF OtherTypes, BeginCompaction
<1>3. OtherTypes'
  BY <1>1, <1>2 DEF OtherTypes, BeginCompaction, steerVars, loopVars
<1>4. compacting' # "none"
  BY DEF BeginCompaction, Sources
<1> QED
  BY <1>3, <1>4, FramePreserves DEF BeginCompaction, queueVars, steerVars

LEMMA CompactionCancelledPreserves == ASSUME IInv, CompactionCancelled PROVE IInv'
<1>1. TypeOK /\ PlaceInv /\ QueueType /\ OtherTypes
  BY TypeSplit DEF IInv, PlaceInv
<1>2. /\ compacting # "none" /\ compacting' = "none"
      /\ finishing' = finishing \cup {compacting}
      /\ UNCHANGED <<state, active, answers, pending, launching, launch, exhausted, steers,
                     heldSteers, steered, lost, turn, turnQueue, held, result, others,
                     compactions>>
  BY DEF CompactionCancelled, queueVars, steerVars, loopVars
<1>3. QueueType' /\ OtherTypes'
  BY <1>1, <1>2 DEF QueueType, OtherTypes
<1>4. PlaceInv'
  BY <1>1, <1>2 DEF PlaceInv, Apart, New, Taking, Steering, Answered, One, Queued, Distinct
<1>5. ParkedHasWakeup'
  BY <1>2 DEF ParkedHasWakeup
<1> QED
  BY <1>3, <1>4, <1>5, TypeJoin DEF IInv

(* The union of disjoint sets splits as they do.                            *)
LEMMA UnionSplit ==
    ASSUME NEW S, NEW H, H \subseteq S, \A ps, qs \in S : ps = qs \/ ps \cap qs = {}
    PROVE  /\ UNION S = (UNION (S \ H)) \cup UNION H
           /\ (UNION (S \ H)) \cap UNION H = {}
<1>1. \A p : p \in UNION S <=> p \in UNION (S \ H) \/ p \in UNION H
  OBVIOUS
<1>2. ASSUME NEW p, p \in UNION (S \ H), p \in UNION H PROVE FALSE
  <2>1. PICK ps \in S \ H : p \in ps
    BY <1>2
  <2>2. PICK qs \in H : p \in qs
    BY <1>2
  <2>3. ps # qs /\ ps \in S /\ qs \in S
    BY <2>1, <2>2
  <2>4. ps \cap qs = {}
    BY <2>3
  <2> QED
    BY <2>1, <2>2, <2>4
<1> DEFINE U == UNION S  V == UNION (S \ H)  W == UNION H
<1>3. \A p : p \in U <=> p \in V \/ p \in W
  BY <1>1
<1>4. \A p : ~ (p \in V /\ p \in W)
  BY <1>2
<1> HIDE DEF U, V, W
<1>5. U = V \cup W
  BY <1>3
<1>6. V \cap W = {}
  BY <1>4, Zenon
<1> QED
  BY <1>5, <1>6 DEF U, V, W

(* What the calls of steer() that throw at a release lose leaves the rest.  *)
LEMMA ReleaseShape ==
    ASSUME TypeOK, PlaceInv, Release
    PROVE  /\ Apart' /\ Taking' \cup lost' = Taking \cup lost
           /\ Taking' \cap lost' = {} /\ UNCHANGED <<steered, turnQueue, result, others>>
           /\ steers' \subseteq SUBSET Prompts /\ heldSteers' \subseteq steers'
           /\ lost' \subseteq Prompts
           /\ turn' \in Prompts \cup {Other, None} /\ held' \in Holders
<1>1. /\ turn' = held /\ held' = None /\ steers' = steers \ heldSteers /\ heldSteers' = {}
      /\ lost' = lost \cup UNION heldSteers /\ UNCHANGED <<steered, turnQueue, result, others>>
  BY DEF Release
<1>2. /\ steers \subseteq SUBSET Prompts /\ heldSteers \subseteq steers /\ lost \subseteq Prompts
      /\ held \in Holders
  BY DEF TypeOK, Holders
<1>3. Apart /\ Taking \cap lost = {}
  BY DEF PlaceInv, Divided
<1>4. /\ Taking' = UNION (steers \ heldSteers)
      /\ Taking = (UNION (steers \ heldSteers)) \cup UNION heldSteers
  BY <1>1, <1>2, <1>3, UnionSplit DEF Taking, Apart
<1>5. (UNION (steers \ heldSteers)) \cap UNION heldSteers = {}
  BY <1>2, <1>3, UnionSplit DEF Apart
<1>6. Apart'
  <2>1. \A ps, qs \in steers' : ps = qs \/ ps \cap qs = {}
    BY <1>1, <1>3 DEF Apart
  <2> QED
    BY <2>1 DEF Apart
<1>7. lost' \subseteq Prompts
  BY <1>1, <1>2
<1>8. Taking' \cup lost' = Taking \cup lost /\ Taking' \cap lost' = {}
  <2> DEFINE V == UNION (steers \ heldSteers)  W == UNION heldSteers
  <2>1. /\ lost' = lost \cup W /\ Taking' = V /\ Taking = V \cup W
        /\ V \cap W = {} /\ Taking \cap lost = {}
    BY <1>1, <1>3, <1>4, <1>5
  <2> HIDE DEF V, W
  <2>2. Taking' \cup lost' = Taking \cup lost
    BY <2>1
  <2>3. V \cap (lost \cup W) = {}
    BY <2>1
  <2> QED
    BY <2>1, <2>2, <2>3
<1>9. /\ steers' \subseteq SUBSET Prompts /\ heldSteers' \subseteq steers'
      /\ turn' \in Prompts \cup {Other, None} /\ held' \in Holders
  BY <1>1, <1>2 DEF Holders
<1> QED
  BY <1>1, <1>6, <1>7, <1>8, <1>9

(* A worker's end: the next prompt is started and the lease may be returned.*)
LEMMA WorkerEndsPreserves ==
    ASSUME IInv, NEW source, NEW compaction, WorkerEnds(source, compaction),
           compacting' \in {"none"} \cup Sources, finishing' \subseteq Sources,
           UNCHANGED <<state, active, answers, compactions>>
    PROVE  IInv'
<1>1. TypeOK /\ PlaceInv /\ QueueType /\ OtherTypes
  BY TypeSplit DEF IInv, PlaceInv
<1>2. Divided(New, Queued(pending), One(launching), One(active), Taking, Steering,
              Answered(answers), lost)
  BY <1>1 DEF PlaceInv
<1>3. /\ QueueType'
      /\ Queued(pending') \cup One(launching') = Queued(pending) \cup One(launching)
      /\ Queued(pending') \cap One(launching') = {}
      /\ pending' # <<>> /\ launching' = None /\ active = None => exhausted'
      /\ launching' # None => active = None
  <2>1. /\ Queued(pending) \cap One(launching) = {} /\ (launching # None => active = None)
        /\ pending \in Seq(Prompts) /\ Distinct(pending)
    BY <1>1, <1>2 DEF Divided, PlaceInv, QueueType
  <2>2. MaybeStartNext(pending, compaction)
    BY DEF WorkerEnds
  <2> QED
    BY <1>1, <2>1, <2>2, MaybeStartNextShape
<1>4. /\ Apart' /\ Taking' \cup lost' = Taking \cup lost
      /\ Taking' \cap lost' = {} /\ UNCHANGED <<steered, turnQueue, result, others>>
      /\ steers' \subseteq SUBSET Prompts /\ heldSteers' \subseteq steers'
      /\ lost' \subseteq Prompts
      /\ turn' \in Prompts \cup {Other, None} /\ held' \in Holders
  <2>1. CASE Release
    BY <1>1, <2>1, ReleaseShape
  <2>2. CASE UNCHANGED <<steerVars, loopVars>>
    <3>1. UNCHANGED <<steers, heldSteers, steered, lost, turn, turnQueue, held, result,
                      others>>
      BY <2>2 DEF steerVars, loopVars
    <3>2. Apart /\ Taking \cap lost = {}
      BY <1>1, <1>2 DEF PlaceInv, Divided
    <3> QED
      BY <1>1, <3>1, <3>2 DEF OtherTypes, Apart, Taking
  <2> QED
    BY <2>1, <2>2 DEF WorkerEnds
<1>5. OtherTypes'
  BY <1>1, <1>4 DEF OtherTypes
<1>6. Divided(New', Queued(pending'), One(launching'), One(active'), Taking', Steering',
              Answered(answers'), lost')
  <2>1. New' = New /\ Steering' = Steering /\ One(active') = One(active)
        /\ Answered(answers') = Answered(answers)
    BY <1>4 DEF New, Steering
  <2> QED
    BY <1>2, <1>3, <1>4, <2>1 DEF Divided
<1>7. PlaceInv'
  BY <1>1, <1>3, <1>4, <1>6, PlaceJoin DEF PlaceInv, QueueType
<1>8. ParkedHasWakeup'
  BY <1>3 DEF ParkedHasWakeup
<1> QED
  BY <1>3, <1>5, <1>7, <1>8, TypeJoin DEF IInv

LEMMA CompactionPreserves == ASSUME IInv, Compaction PROVE IInv'
<1>1. compacting \in {"none"} \cup Sources /\ finishing \subseteq Sources
  BY DEF IInv, TypeOK
<1>2. CASE CompactionCompletes
  BY <1>1, <1>2, WorkerEndsPreserves DEF CompactionCompletes
<1>3. CASE CompactionCancelled
  BY <1>3, CompactionCancelledPreserves
<1>4. ASSUME NEW source \in Sources, CancelledWorkerEnds(source) PROVE IInv'
  <2>1. /\ WorkerEnds(source, compacting) /\ compacting' = compacting
        /\ finishing' = finishing \ {source} /\ UNCHANGED <<state, active, answers, compactions>>
    BY <1>4 DEF CancelledWorkerEnds
  <2> QED
    BY <1>1, <2>1, WorkerEndsPreserves
<1> QED
  BY <1>2, <1>3, <1>4 DEF Compaction

-----------------------------------------------------------------------------
LEMMA StutterPreserves == IInv /\ UNCHANGED vars => IInv'
<1> SUFFICES ASSUME IInv, UNCHANGED vars PROVE IInv'
  OBVIOUS
<1>1. UNCHANGED <<state, active, answers, pending, launching, launch, exhausted, steers,
                  heldSteers, steered, lost, turn, turnQueue, held, result, others,
                  compacting, finishing, compactions>>
  BY DEF vars, queueVars, steerVars, loopVars, compactionVars
<1>2. OtherTypes'
  <2>1. OtherTypes
    BY TypeSplit DEF IInv, PlaceInv
  <2> QED
    BY <1>1, <2>1 DEF OtherTypes
<1> QED
  BY <1>1, <1>2, FramePreserves

(* No step of the service, the loop or a compaction breaks the invariant.   *)
LEMMA StepPreserves == IInv /\ [Next]_vars => IInv'
<1> SUFFICES ASSUME IInv, [Next]_vars PROVE IInv'
  OBVIOUS
<1>1. ASSUME NEW p \in Prompts, Enqueue(p) PROVE IInv'
  BY <1>1, EnqueuePreserves
<1>2. ASSUME NEW p \in Prompts, Abort(p) PROVE IInv'
  BY <1>2, AbortPreserves
<1>3. ASSUME NEW p \in Prompts, CancelQueuedTurn(p) PROVE IInv'
  BY <1>3, CancelQueuedTurnPreserves
<1>4. ASSUME NEW ps \in SUBSET Prompts, Steer(ps) PROVE IInv'
  BY <1>4, SteerPreserves
<1>5. CASE Drain
  BY <1>5, DrainPreserves
<1>6. CASE HooksPass
  BY <1>6, HooksPassPreserves
<1>7. CASE Launched
  BY <1>7, LaunchedPreserves
<1>8. ASSUME NEW as \in {"blocked", "failed"}, NotLaunched(as) PROVE IInv'
  BY <1>8, NotLaunchedPreserves
<1>9. CASE Settle
  BY <1>9, SettlePreserves
<1>10. ASSUME NEW ps \in SUBSET Prompts, Steered(ps) PROVE IInv'
  BY <1>10, SteeredPreserves
<1>11. CASE OtherTurn
  BY <1>11, OtherTurnPreserves
<1>12. ASSUME NEW as \in Outcomes, TurnEnds(as) PROVE IInv'
  BY <1>12, TurnEndsPreserves
<1>13. ASSUME NEW source \in Sources, BeginCompaction(source) PROVE IInv'
  BY <1>13, BeginCompactionPreserves
<1>14. CASE Compaction
  BY <1>14, CompactionPreserves
<1>15. CASE UNCHANGED vars
  BY <1>15, StutterPreserves
<1> QED
  BY <1>1, <1>2, <1>3, <1>4, <1>5, <1>6, <1>7, <1>8, <1>9, <1>10, <1>11, <1>12, <1>13,
     <1>14, <1>15 DEF Next, Calls, Launching

(* The inductive invariant: the eight places of a prompt divide the prompts *)
(* and nothing is launched beside an active one, which is what startNext()  *)
(* relies on when it takes the head of the queue.                           *)
THEOREM InductiveInvariant == Spec => []IInv
<1>1. Init => IInv
  BY InitInv
<1>2. IInv /\ [Next]_vars => IInv'
  BY StepPreserves
<1> QED
  BY <1>1, <1>2, PTL DEF Spec

(* The variables of the prompt service always hold values of their types.   *)
THEOREM TypeCorrect == Spec => []TypeOK
<1>1. IInv => TypeOK
  BY DEF IInv
<1> QED
  BY <1>1, InductiveInvariant, PTL

(* A prompt is never in two places and never in none: shift, steering,      *)
(* abort, drain and the awaits between them neither copy nor drop one, and  *)
(* no prompt is answered twice (promptService.ts).                          *)
THEOREM PromptsHaveOnePlace == Spec => []InOnePlace
<1>1. IInv => InOnePlace
  BY PlaceInvIsInOnePlace DEF IInv
<1> QED
  BY <1>1, InductiveInvariant, PTL

(* Prompts wait with nothing to start them only while a compaction is there *)
(* whose end does: every path that frees the service calls startNext().     *)
THEOREM ParkedPromptsHaveWakeup == Spec => []ParkedHasWakeup
<1>1. IInv => ParkedHasWakeup
  BY DEF IInv
<1> QED
  BY <1>1, InductiveInvariant, PTL
=============================================================================
