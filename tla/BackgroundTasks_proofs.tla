------------------------ MODULE BackgroundTasks_proofs ------------------------
(* A status that a stop reported survives, and the model is told of every    *)
(* end once and truly, for any number of tasks, callers and bounds.          *)
(* First the types and the reports (IInv), then the ends themselves, which   *)
(* are the same wherever they are kept (EndsInv), then the notifications     *)
(* (NoticesInv); each has one lemma per step.                                *)
EXTENDS BackgroundTasks, Queue_proofs, FiniteSetTheorems, SequenceTheorems, TLAPS

Statuses == {"none", "running"} \cup Ends
Infos == [status : Statuses, attached : BOOLEAN, suppressed : BOOLEAN,
          closed : BOOLEAN, reminded : BOOLEAN]
Entries == [status : Statuses, attached : BOOLEAN, spilled : BOOLEAN,
            suppressed : BOOLEAN, closed : BOOLEAN, timedOut : BOOLEAN,
            aborted : BOOLEAN, armed : BOOLEAN]
Places == {"idle", "suppressing", "grace", "force", "settling", "answer", "done"}
Calls == [pc : Places, ahead : Nat]
Modes == {"up", "suppressing", "stopping", "closing", "down", "loading", "restoring"}

IsState(s) ==
    /\ s = [infos |-> s.infos, context |-> s.context]
    /\ s.infos \in [Tasks -> Infos]

JournalInv == IsState(live) /\ \A s \in durable : IsState(s)

TypeInv ==
    /\ mode \in Modes /\ born \subseteq Tasks
    /\ task \in [Tasks -> Entries]
    /\ stops \in [Tasks -> [Callers -> Calls]]
    /\ writes \in [Tasks -> Seq(Infos)]
    /\ disk \in [Tasks -> Infos] /\ ghosts \in [Tasks -> Infos]
    /\ reported \in [Tasks -> Statuses]

EndedEntry(t) == Exists(t) /\ ~ Running(t)

(* What was written last about an entry that has ended is its end, and a    *)
(* call that is to answer waits for just the writes that are left.          *)
EntryInv(t) ==
    /\ Exists(t) => t \in born /\ Alive
    /\ EndedEntry(t) /\ task[t].spilled =>
          IF writes[t] = <<>> THEN disk[t].status = task[t].status
          ELSE writes[t][Len(writes[t])].status = task[t].status
    /\ \A c \in Callers :
          /\ stops[t][c].pc # "idle" => Exists(t)
          /\ stops[t][c].pc \in {"settling", "answer"} => EndedEntry(t)
          /\ stops[t][c].pc = "answer" => stops[t][c].ahead = Len(writes[t])

(* What is in the file, on its way there, or in memory about a task of      *)
(* which a status was reported has that status.                             *)
ReportInv(t) ==
    reported[t] # "none" =>
        /\ reported[t] \in Ends /\ t \in born
        /\ disk[t].status = reported[t]
        /\ \A i \in 1..Len(writes[t]) : writes[t][i].status = reported[t]
        /\ Exists(t) => task[t].status = reported[t]
        /\ mode \in {"loading", "restoring"} => ghosts[t].status = reported[t]

TaskInv(t) == EntryInv(t) /\ ReportInv(t)

IInv == TypeInv /\ JournalInv /\ \A t \in Tasks : TaskInv(t)

LEMMA InitInv == Init => IInv
<1> SUFFICES ASSUME Init PROVE IInv
  OBVIOUS
<1>1. NoInfo \in Infos /\ NoEntry \in Entries /\ NoStop \in Calls
  BY DEF NoInfo, Info, NoEntry, NoStop, Infos, Entries, Calls, Places, Statuses
<1>2. TypeInv
  BY <1>1 DEF Init, TypeInv, Modes, Statuses
<1>3. JournalInv
  BY <1>1 DEF Init, JournalInv, IsState
<1>4. ASSUME NEW t \in Tasks PROVE TaskInv(t)
  BY <1>4 DEF Init, TaskInv, EntryInv, ReportInv, EndedEntry, Exists, NoEntry, NoStop
<1> QED
  BY <1>2, <1>3, <1>4 DEF IInv

-----------------------------------------------------------------------------
(* The journal.                                                             *)

LEMMA InfoLemma == ASSUME NEW e \in Entries PROVE Info(e) \in Infos /\ Info(e).status = e.status
BY DEF Info, Infos, Entries

LEMMA RecordLemma ==
    ASSUME JournalInv, NEW s, IsState(s), Record(s)
    PROVE  JournalInv'
BY DEF JournalInv, Record, IsState

LEMMA FlushLemma == JournalInv /\ Flush => JournalInv'
BY DEF JournalInv, Flush, IsState

LEMMA InfosRecorded ==
    ASSUME JournalInv, NEW t \in Tasks, NEW info \in Infos
    PROVE  IsState([live EXCEPT !.infos[t] = info])
BY DEF JournalInv, IsState

LEMMA ContextRecorded ==
    ASSUME JournalInv, NEW c
    PROVE  IsState([live EXCEPT !.context = c])
BY DEF JournalInv, IsState

LEMMA JournalKept == JournalInv /\ UNCHANGED journalVars => JournalInv'
BY DEF JournalInv, journalVars, IsState

-----------------------------------------------------------------------------
(* Steps.                                                                   *)

Same(t) ==
    /\ task'[t] = task[t] /\ stops'[t] = stops[t] /\ writes'[t] = writes[t]
    /\ disk'[t] = disk[t] /\ ghosts'[t] = ghosts[t] /\ reported'[t] = reported[t]

Coming == mode \in {"loading", "restoring"}

(* No entry is left behind and no restored task comes up unseen.            *)
ModeStep == mode' \in Modes /\ (Alive => Alive') /\ (Coming' => Coming)

LEMMA Untouched ==
    ASSUME NEW t \in Tasks, TaskInv(t), Same(t), ModeStep, born \subseteq born'
    PROVE  TaskInv(t)'
BY DEF TaskInv, EntryInv, ReportInv, EndedEntry, Exists, Running, Same, ModeStep, Coming

(* Only the journal, or what the model knows, changes.                      *)
LEMMA QuietStep ==
    ASSUME IInv, ModeStep, JournalInv', UNCHANGED <<taskVars, stops, writes, disk, ghosts, reported>>
    PROVE  IInv'
<1>1. TypeInv'
  BY DEF IInv, TypeInv, ModeStep, taskVars
<1>2. ASSUME NEW t \in Tasks PROVE TaskInv(t)'
  <2>1. Same(t) /\ born \subseteq born'
    BY DEF Same, taskVars
  <2> QED
    BY <2>1, Untouched DEF IInv
<1> QED
  BY <1>1, <1>2 DEF IInv

(* Only one task changes.                                                   *)
LEMMA TaskStep ==
    ASSUME IInv, NEW t \in Tasks, ModeStep, TypeInv', JournalInv', TaskInv(t)',
           born \subseteq born', \A u \in Tasks \ {t} : Same(u)
    PROVE  IInv'
<1>1. ASSUME NEW u \in Tasks, u # t PROVE TaskInv(u)'
  BY <1>1, Untouched DEF IInv
<1> QED
  BY <1>1 DEF IInv

(* The queue of writes and its order.                                       *)
LEMMA AppendWrites ==
    ASSUME NEW w \in Seq(Infos), NEW i \in Infos
    PROVE  /\ Append(w, i) \in Seq(Infos) /\ Append(w, i) # <<>>
           /\ Len(Append(w, i)) = Len(w) + 1
           /\ Append(w, i)[Len(w) + 1] = i
           /\ \A j \in 1..Len(w) : Append(w, i)[j] = w[j]
OBVIOUS

LEMMA TailWrites ==
    ASSUME NEW w \in Seq(Infos), w # <<>>
    PROVE  /\ Head(w) \in Infos /\ Head(w) = w[1] /\ Tail(w) \in Seq(Infos)
           /\ Len(w) \in Nat \ {0} /\ Len(Tail(w)) = Len(w) - 1
           /\ \A j \in 1..Len(Tail(w)) : Tail(w)[j] = w[j + 1]
           /\ Tail(w) = <<>> <=> Len(w) = 1
<1>1. /\ Head(w) \in Infos /\ Tail(w) \in Seq(Infos) /\ Len(Tail(w)) = Len(w) - 1
      /\ \A j \in 1..Len(Tail(w)) : Tail(w)[j] = w[j + 1]
  BY HeadTailProperties
<1>2. Head(w) = w[1] /\ Len(w) \in Nat \ {0}
  BY EmptySeq
<1>3. Tail(w) = <<>> <=> Len(Tail(w)) = 0
  <2>1. Len(<<>>) = 0 /\ (Tail(w) # <<>> => Len(Tail(w)) \in Nat \ {0})
    BY <1>1, EmptySeq
  <2> QED
    BY <2>1
<1> QED
  BY <1>1, <1>2, <1>3

(* persistLive() puts the entry's status last and leaves the others.        *)
LEMMA PersistLemma ==
    ASSUME TypeInv, NEW t \in Tasks, NEW e \in Entries, Persist(t, e)
    PROVE  /\ writes' \in [Tasks -> Seq(Infos)]
           /\ \A u \in Tasks \ {t} : writes'[u] = writes[u]
           /\ writes'[t] # <<>> /\ Len(writes'[t]) = Len(writes[t]) + 1
           /\ writes'[t][Len(writes'[t])].status = e.status
           /\ \A j \in 1..Len(writes[t]) : writes'[t][j] = writes[t][j]
<1> DEFINE i == Info(e)
<1>1. i \in Infos /\ i.status = e.status
  BY InfoLemma
<1>2. writes' = [writes EXCEPT ![t] = Append(writes[t], i)]
  BY DEF Persist
<1> HIDE DEF i
<1>3. writes \in [Tasks -> Seq(Infos)]
  BY DEF TypeInv
<1>4. writes[t] \in Seq(Infos)
  BY <1>3
<1>5. /\ Append(writes[t], i) \in Seq(Infos) /\ Append(writes[t], i) # <<>>
      /\ Len(Append(writes[t], i)) = Len(writes[t]) + 1
      /\ Append(writes[t], i)[Len(writes[t]) + 1] = i
      /\ \A j \in 1..Len(writes[t]) : Append(writes[t], i)[j] = writes[t][j]
  BY <1>1, <1>4, AppendWrites
<1>6. writes'[t] = Append(writes[t], i)
  BY <1>2, <1>3
<1>7. writes' \in [Tasks -> Seq(Infos)] /\ \A u \in Tasks \ {t} : writes'[u] = writes[u]
  BY <1>2, <1>3, <1>5
<1> QED
  BY <1>1, <1>5, <1>6, <1>7

LEMMA AtLemma ==
    ASSUME TypeInv, NEW t \in Tasks, NEW c \in Callers, NEW pc \in Places, NEW n \in Nat,
           At(t, c, pc, n)
    PROVE  /\ stops' \in [Tasks -> [Callers -> Calls]]
           /\ \A u \in Tasks \ {t} : stops'[u] = stops[u]
           /\ \A d \in Callers \ {c} : stops'[t][d] = stops[t][d]
           /\ stops'[t][c].pc = pc /\ stops'[t][c].ahead = n
<1> DEFINE new == [pc |-> pc, ahead |-> n]
<1>1. new \in Calls /\ new.pc = pc /\ new.ahead = n
  BY DEF Calls
<1>2. stops' = [stops EXCEPT ![t] = [stops[t] EXCEPT ![c] = new]]
  BY DEF At
<1> HIDE DEF new
<1> QED
  BY <1>1, <1>2 DEF TypeInv

-----------------------------------------------------------------------------
(* The steps of a task.                                                     *)

LEMMA RegisterInv == ASSUME IInv, NEW t \in Tasks, Register(t) PROVE IInv'
<1> PICK armed \in BOOLEAN, attached \in BOOLEAN :
      LET e == [NoEntry EXCEPT !.status = "running", !.armed = armed,
                               !.attached = attached, !.spilled = ~ attached] IN
      /\ task' = [task EXCEPT ![t] = e]
      /\ \/ attached /\ UNCHANGED <<writes, journalVars>>
         \/ /\ ~ attached /\ Persist(t, e)
            /\ Record([live EXCEPT !.infos[t] = Info(e)])
  BY DEF Register
<1> DEFINE e == [NoEntry EXCEPT !.status = "running", !.armed = armed,
                                !.attached = attached, !.spilled = ~ attached]
<1>1. e \in Entries /\ e.status = "running" /\ e.spilled = ~ attached
  BY DEF NoEntry, Entries, Statuses
<1>2. /\ task' = [task EXCEPT ![t] = e]
      /\ \/ attached /\ UNCHANGED <<writes, journalVars>>
         \/ /\ ~ attached /\ Persist(t, e)
            /\ Record([live EXCEPT !.infos[t] = Info(e)])
  OBVIOUS
<1> HIDE DEF e
<1>3. Info(e) \in Infos
  BY <1>1, InfoLemma
<1>4. /\ mode \in {"up", "suppressing"} /\ t \notin born /\ born' = born \cup {t}
      /\ UNCHANGED <<mode, stops, reported, disk, ghosts>>
  BY DEF Register, stopVars, restoreVars
<1>5. ModeStep /\ (\A u \in Tasks \ {t} : Same(u)) /\ born \subseteq born'
  BY <1>2, <1>4 DEF IInv, TypeInv, ModeStep, Coming, Alive, Same, Persist
<1>6. JournalInv'
  BY <1>2, <1>3, InfosRecorded, RecordLemma, JournalKept DEF IInv
<1>7. writes' \in [Tasks -> Seq(Infos)]
  BY <1>1, <1>2, PersistLemma DEF IInv, TypeInv
<1>8. TypeInv'
  BY <1>1, <1>2, <1>4, <1>5, <1>7 DEF IInv, TypeInv, ModeStep
<1>9. TaskInv(t)'
  BY <1>1, <1>2, <1>4 DEF IInv, TypeInv, TaskInv, EntryInv, ReportInv, EndedEntry, Exists, Running, Alive
<1> QED
  BY <1>5, <1>6, <1>8, <1>9, TaskStep

LEMMA SpillInv == ASSUME IInv, NEW t \in Tasks, Spill(t) PROVE IInv'
<1> USE DEF Spill, stopVars, journalVars, noticeVars, restoreVars, counters
<1>1. ModeStep /\ (\A u \in Tasks \ {t} : Same(u)) /\ born \subseteq born'
  BY DEF IInv, TypeInv, ModeStep, Coming, Alive, Same
<1>2. JournalInv'
  BY JournalKept DEF IInv
<1>3. TypeInv'
  BY <1>1 DEF IInv, TypeInv, ModeStep, Entries
<1>4. task'[t].status = task[t].status /\ task[t].status = "running"
  BY DEF IInv, TypeInv, Entries, Running
<1>5. TaskInv(t)'
  BY <1>4 DEF IInv, TypeInv, TaskInv, EntryInv, ReportInv, EndedEntry, Exists, Running, Alive, Ends
<1> QED
  BY <1>1, <1>2, <1>3, <1>5, TaskStep

LEMMA DetachInv == ASSUME IInv, NEW t \in Tasks, Detach(t) PROVE IInv'
<1> DEFINE Detached(armed) == [task[t] EXCEPT !.attached = FALSE, !.spilled = TRUE, !.armed = armed]
<1>1. \E armed \in BOOLEAN :
         /\ task' = [task EXCEPT ![t] = Detached(armed)] /\ Persist(t, Detached(armed))
         /\ Record([live EXCEPT !.infos[t] = Info(Detached(armed))])
  BY Zenon DEF Detach
<1>2. \A armed \in BOOLEAN : Detached(armed) \in Entries /\ Detached(armed).status = task[t].status
  <2>1. task[t] \in Entries
    BY DEF IInv, TypeInv
  <2> QED
    BY <2>1 DEF Entries
<1> HIDE DEF Detached
<1>3. PICK e \in Entries :
         /\ e.status = task[t].status /\ task' = [task EXCEPT ![t] = e] /\ Persist(t, e)
         /\ Record([live EXCEPT !.infos[t] = Info(e)])
  BY <1>1, <1>2, Zenon
<1>4. Info(e) \in Infos
  BY <1>3, InfoLemma
<1>5. Alive /\ task[t].status = "running" /\ UNCHANGED <<mode, born, stops, reported, disk, ghosts>>
  BY DEF Detach, Running, stopVars, restoreVars
<1>6. /\ writes' \in [Tasks -> Seq(Infos)]
      /\ \A u \in Tasks \ {t} : writes'[u] = writes[u]
  BY <1>3, PersistLemma DEF IInv
<1>7. ModeStep /\ (\A u \in Tasks \ {t} : Same(u)) /\ born \subseteq born'
  BY <1>3, <1>5, <1>6 DEF IInv, TypeInv, ModeStep, Coming, Alive, Same
<1>8. JournalInv'
  BY <1>3, <1>4, InfosRecorded, RecordLemma DEF IInv
<1>9. TypeInv'
  BY <1>3, <1>5, <1>6 DEF IInv, TypeInv
<1>10. TaskInv(t)'
  <2>1. task'[t].status = "running"
    BY <1>3, <1>5 DEF IInv, TypeInv
  <2> QED
    BY <1>5, <2>1 DEF IInv, TaskInv, EntryInv, ReportInv, EndedEntry, Exists, Running, Alive, Ends
<1> QED
  BY <1>7, <1>8, <1>9, <1>10, TaskStep

LEMMA SuppressInv == ASSUME IInv, NEW t \in Tasks, Suppress(t) PROVE IInv'
<1> DEFINE e == [task[t] EXCEPT !.suppressed = TRUE]
<1>1. e \in Entries /\ e.status = task[t].status
  BY DEF IInv, TypeInv, Entries
<1>2. \/ UNCHANGED <<task, writes>> /\ At(t, "tool", "suppressing", 0)
      \/ /\ task' = [task EXCEPT ![t] = e] /\ Persist(t, e)
         /\ At(t, "tool", "suppressing", Behind(t) + 1)
  BY DEF Suppress
<1> HIDE DEF e
<1>3. /\ Alive /\ "tool" \in Callers /\ task[t].status = "running"
      /\ UNCHANGED <<mode, born, reported, disk, journalVars, ghosts>>
  BY DEF Suppress, Running, Alive, restoreVars
<1>4. /\ writes' \in [Tasks -> Seq(Infos)]
      /\ \A u \in Tasks \ {t} : writes'[u] = writes[u]
  BY <1>1, <1>2, PersistLemma DEF IInv, TypeInv
<1>5. /\ stops' \in [Tasks -> [Callers -> Calls]]
      /\ \A u \in Tasks \ {t} : stops'[u] = stops[u]
      /\ \A c \in Callers : stops'[t][c].pc \in {stops[t][c].pc, "suppressing"}
  <2>1. Behind(t) + 1 \in Nat
    BY LenProperties DEF IInv, TypeInv, Behind
  <2>2. PICK n \in Nat : At(t, "tool", "suppressing", n)
    BY <1>2, <2>1
  <2>3. "suppressing" \in Places
    BY DEF Places
  <2> QED
    BY <1>3, <2>2, <2>3, AtLemma DEF IInv
<1>6. ModeStep /\ (\A u \in Tasks \ {t} : Same(u)) /\ born \subseteq born'
  BY <1>2, <1>3, <1>4, <1>5 DEF IInv, TypeInv, ModeStep, Coming, Alive, Same
<1>7. JournalInv'
  BY <1>3, JournalKept DEF IInv
<1>8. TypeInv'
  BY <1>1, <1>2, <1>3, <1>4, <1>5 DEF IInv, TypeInv
<1>9. TaskInv(t)'
  <2>1. task'[t].status = "running"
    BY <1>1, <1>2, <1>3 DEF IInv, TypeInv
  <2> QED
    BY <1>3, <1>5, <2>1 DEF IInv, TaskInv, EntryInv, ReportInv, EndedEntry, Exists, Running, Alive, Ends
<1> QED
  BY <1>6, <1>7, <1>8, <1>9, TaskStep

(* settleTask(): the entry ends, and its end is the last write.             *)
LEMMA SettleLemma ==
    ASSUME TypeInv, NEW t \in Tasks, NEW status \in Ends, NEW closed \in BOOLEAN,
           Settle(t, status, closed)
    PROVE  /\ task' \in [Tasks -> Entries] /\ writes' \in [Tasks -> Seq(Infos)]
           /\ \A u \in Tasks \ {t} : task'[u] = task[u] /\ writes'[u] = writes[u]
           /\ task'[t].status = status /\ task'[t].spilled = task[t].spilled
           /\ task[t].spilled => writes'[t] # <<>> /\ writes'[t][Len(writes'[t])].status = status
           /\ ~ task[t].spilled => writes' = writes
<1> DEFINE e == Ended(t, status, closed)
<1>1. e \in Entries /\ e.status = status /\ e.spilled = task[t].spilled
  BY DEF TypeInv, Ended, Entries, Statuses
<1>2. /\ task' = [task EXCEPT ![t] = e]
      /\ \/ e.spilled /\ Persist(t, e)
         \/ ~ e.spilled /\ UNCHANGED writes
  BY DEF Settle
<1> HIDE DEF e
<1>3. e.spilled => /\ writes' \in [Tasks -> Seq(Infos)]
                   /\ \A u \in Tasks \ {t} : writes'[u] = writes[u]
                   /\ writes'[t] # <<>> /\ writes'[t][Len(writes'[t])].status = status
  BY <1>1, <1>2, PersistLemma
<1> QED
  BY <1>1, <1>2, <1>3 DEF TypeInv

LEMMA BodyEndsInv == ASSUME IInv, NEW t \in Tasks, BodyEnds(t) PROVE IInv'
<1>1. PICK status \in {"completed", "killed"} : Settle(t, Coerced(t, status), task[t].closed)
  BY DEF BodyEnds
<1>2. Coerced(t, status) \in Ends /\ task[t].closed \in BOOLEAN
  BY DEF Coerced, Ends, IInv, TypeInv, Entries
<1>3. /\ Alive /\ task[t].status = "running"
      /\ UNCHANGED <<mode, born, stops, reported, disk, journalVars, ghosts>>
  BY DEF BodyEnds, Running, restoreVars
<1>4. /\ task' \in [Tasks -> Entries] /\ writes' \in [Tasks -> Seq(Infos)]
      /\ \A u \in Tasks \ {t} : task'[u] = task[u] /\ writes'[u] = writes[u]
      /\ task'[t].status \in Ends
      /\ task'[t].spilled => /\ writes'[t] # <<>>
                             /\ writes'[t][Len(writes'[t])].status = task'[t].status
  BY <1>1, <1>2, SettleLemma DEF IInv
<1>5. ModeStep /\ (\A u \in Tasks \ {t} : Same(u)) /\ born \subseteq born'
  BY <1>3, <1>4 DEF IInv, TypeInv, ModeStep, Coming, Alive, Same
<1>6. TypeInv' /\ JournalInv'
  BY <1>3, <1>4, JournalKept DEF IInv, TypeInv
<1>7. TaskInv(t)'
  BY <1>3, <1>4 DEF IInv, TaskInv, EntryInv, ReportInv, EndedEntry, Exists, Running, Alive, Ends
<1> QED
  BY <1>5, <1>6, <1>7, TaskStep

LEMMA SettleReturnsInv == ASSUME IInv, NEW t \in Tasks, SettleReturns(t) PROVE IInv'
<1>1. UNCHANGED <<mode, taskVars, reported, writes, disk, ghosts>>
  BY DEF SettleReturns, restoreVars
<1>2. JournalInv'
  <2>1. \/ UNCHANGED journalVars
        \/ Record([live EXCEPT !.infos[t] = Info(task[t])])
    BY DEF SettleReturns
  <2>2. Info(task[t]) \in Infos
    BY InfoLemma DEF IInv, TypeInv
  <2> QED
    BY <2>1, <2>2, InfosRecorded, RecordLemma, JournalKept DEF IInv
<1>3. Behind(t) \in Nat
  BY LenProperties DEF IInv, TypeInv, Behind
<1> DEFINE next == [c \in Callers |-> IF stops[t][c].pc = "settling"
                                      THEN [pc |-> "answer", ahead |-> Behind(t)]
                                      ELSE stops[t][c]]
<1>4. next \in [Callers -> Calls]
  BY <1>3 DEF IInv, TypeInv, Calls, Places
<1>5. stops' = [stops EXCEPT ![t] = next]
  BY DEF SettleReturns
<1>6. stops' \in [Tasks -> [Callers -> Calls]] /\ stops'[t] = next
  BY <1>4, <1>5 DEF IInv, TypeInv
<1>7. ModeStep /\ (\A u \in Tasks \ {t} : Same(u)) /\ born \subseteq born'
  BY <1>1, <1>5 DEF IInv, TypeInv, ModeStep, Coming, Alive, Same, taskVars
<1>8. TypeInv'
  BY <1>1, <1>6 DEF IInv, TypeInv, taskVars
<1>9. TaskInv(t)'
  BY <1>1, <1>6 DEF IInv, TaskInv, EntryInv, ReportInv, EndedEntry, Exists, Running, Alive, taskVars, Behind
<1> QED
  BY <1>2, <1>7, <1>8, <1>9, TaskStep

LEMMA GraceEndsInv == ASSUME IInv, NEW t \in Tasks, NEW c \in Callers, GraceEnds(t, c) PROVE IInv'
<1>1. /\ stops[t][c].pc = "grace"
      /\ UNCHANGED <<mode, taskVars, reported, writes, disk, journalVars, ghosts>>
  BY DEF GraceEnds, restoreVars
<1>2. Exists(t)
  BY <1>1 DEF IInv, TaskInv, EntryInv
<1>3. PICK pc \in {"force", "answer"}, n \in Nat :
        /\ At(t, c, pc, n)
        /\ pc = "answer" => EndedEntry(t) /\ n = Len(writes[t])
  <2>1. Len(writes[t]) \in Nat
    BY LenProperties DEF IInv, TypeInv
  <2> QED
    BY <1>2, <2>1 DEF GraceEnds, Behind, EndedEntry
<1>4. /\ stops' \in [Tasks -> [Callers -> Calls]]
      /\ \A u \in Tasks \ {t} : stops'[u] = stops[u]
      /\ \A d \in Callers \ {c} : stops'[t][d] = stops[t][d]
      /\ stops'[t][c].pc = pc /\ stops'[t][c].ahead = n
  BY <1>3, AtLemma DEF IInv, Places
<1>5. ModeStep /\ (\A u \in Tasks \ {t} : Same(u)) /\ born \subseteq born'
  BY <1>1, <1>4 DEF IInv, TypeInv, ModeStep, Coming, Alive, Same, taskVars
<1>6. TypeInv' /\ JournalInv'
  BY <1>1, <1>4, JournalKept DEF IInv, TypeInv, taskVars
<1>7. TaskInv(t)'
  BY <1>1, <1>2, <1>3, <1>4 DEF IInv, TaskInv, EntryInv, ReportInv, EndedEntry, Exists, Running, Alive, taskVars
<1> QED
  BY <1>5, <1>6, <1>7, TaskStep

LEMMA ForceReturnsInv ==
    ASSUME IInv, NEW t \in Tasks, NEW c \in Callers, ForceReturns(t, c) PROVE IInv'
<1>1. /\ Alive /\ stops[t][c].pc = "force"
      /\ UNCHANGED <<mode, born, reported, disk, journalVars, ghosts>>
  BY DEF ForceReturns, restoreVars
<1>2. Exists(t)
  BY <1>1 DEF IInv, TaskInv, EntryInv
<1>3. Len(writes[t]) \in Nat
  BY LenProperties DEF IInv, TypeInv
<1>4. CASE ~ Running(t)
  <2>1. At(t, c, "answer", Len(writes[t])) /\ UNCHANGED <<task, writes>>
    BY <1>4 DEF ForceReturns, Behind
  <2>2. /\ stops' \in [Tasks -> [Callers -> Calls]]
        /\ \A u \in Tasks \ {t} : stops'[u] = stops[u]
        /\ \A d \in Callers \ {c} : stops'[t][d] = stops[t][d]
        /\ stops'[t][c].pc = "answer" /\ stops'[t][c].ahead = Len(writes[t])
    BY <1>3, <2>1, AtLemma DEF IInv, Places
  <2>3. ModeStep /\ (\A u \in Tasks \ {t} : Same(u)) /\ born \subseteq born'
    BY <1>1, <2>1, <2>2 DEF IInv, TypeInv, ModeStep, Coming, Alive, Same
  <2>4. TypeInv' /\ JournalInv'
    BY <1>1, <2>1, <2>2, JournalKept DEF IInv, TypeInv
  <2>5. TaskInv(t)'
    BY <1>1, <1>2, <1>4, <2>1, <2>2 DEF IInv, TaskInv, EntryInv, ReportInv, EndedEntry, Exists, Running, Alive
  <2> QED
    BY <2>3, <2>4, <2>5, TaskStep
<1>5. CASE Running(t)
  <2> DEFINE status == IF c = "deadline" THEN "timed_out" ELSE "killed"
  <2>1. status \in Ends /\ (c = "exit") \in BOOLEAN
    BY DEF Ends
  <2>2. /\ Settle(t, status, c = "exit")
        /\ IF task[t].spilled THEN At(t, c, "settling", 0) ELSE At(t, c, "answer", Len(writes[t]))
    BY <1>5 DEF ForceReturns, Behind
  <2> HIDE DEF status
  <2>3. /\ task' \in [Tasks -> Entries] /\ writes' \in [Tasks -> Seq(Infos)]
        /\ \A u \in Tasks \ {t} : task'[u] = task[u] /\ writes'[u] = writes[u]
        /\ task'[t].status \in Ends /\ task'[t].spilled = task[t].spilled
        /\ task'[t].spilled => /\ writes'[t] # <<>>
                               /\ writes'[t][Len(writes'[t])].status = task'[t].status
        /\ ~ task'[t].spilled => writes' = writes
    BY <2>1, <2>2, SettleLemma DEF IInv
  <2>4. PICK pc \in {"settling", "answer"}, n \in Nat :
          /\ At(t, c, pc, n)
          /\ pc = "answer" => n = Len(writes'[t])
    BY <1>3, <2>2, <2>3
  <2>5. /\ stops' \in [Tasks -> [Callers -> Calls]]
        /\ \A u \in Tasks \ {t} : stops'[u] = stops[u]
        /\ \A d \in Callers \ {c} : stops'[t][d] = stops[t][d]
        /\ stops'[t][c].pc = pc /\ stops'[t][c].ahead = n
    BY <2>4, AtLemma DEF IInv, Places
  <2>6. ModeStep /\ (\A u \in Tasks \ {t} : Same(u)) /\ born \subseteq born'
    BY <1>1, <2>3, <2>5 DEF IInv, TypeInv, ModeStep, Coming, Alive, Same
  <2>7. TypeInv' /\ JournalInv'
    BY <1>1, <2>3, <2>5, JournalKept DEF IInv, TypeInv
  <2>8. TaskInv(t)'
    <3>1. reported[t] = "none"
      BY <1>2, <1>5 DEF IInv, TaskInv, ReportInv, Running, Ends
    <3>2. \A d \in Callers \ {c} : stops'[t][d].pc \notin {"settling", "answer"}
      BY <1>5, <2>5 DEF IInv, TaskInv, EntryInv, EndedEntry
    <3>3. Exists(t)' /\ EndedEntry(t)'
      BY <2>3 DEF Exists, EndedEntry, Running, Ends
    <3> QED
      BY <1>1, <1>2, <2>3, <2>4, <2>5, <3>1, <3>2, <3>3
      DEF IInv, TaskInv, EntryInv, ReportInv, Alive
  <2> QED
    BY <2>6, <2>7, <2>8, TaskStep
<1> QED
  BY <1>4, <1>5

(* The first status reported: nothing waits to be written any more.         *)
LEMMA AnswerInv == ASSUME IInv, NEW t \in Tasks, NEW c \in Callers, Answer(t, c) PROVE IInv'
<1>1. /\ Alive /\ stops[t][c].pc = "answer" /\ stops[t][c].ahead = 0 /\ At(t, c, "done", 0)
      /\ UNCHANGED <<mode, taskVars, writes, disk, journalVars, ghosts>>
  BY DEF Answer, restoreVars
<1>2. reported' = IF task[t].spilled THEN [reported EXCEPT ![t] = task[t].status] ELSE reported
  BY DEF Answer
<1>3. Exists(t) /\ EndedEntry(t) /\ Len(writes[t]) = 0
  BY <1>1 DEF IInv, TaskInv, EntryInv
<1>4. writes[t] = <<>>
  BY <1>3, EmptySeq DEF IInv, TypeInv
<1>5. task[t].status \in Ends
  BY <1>3 DEF IInv, TypeInv, Entries, Statuses, EndedEntry, Exists, Running
<1>6. /\ stops' \in [Tasks -> [Callers -> Calls]]
      /\ \A u \in Tasks \ {t} : stops'[u] = stops[u]
      /\ \A d \in Callers \ {c} : stops'[t][d] = stops[t][d]
      /\ stops'[t][c].pc = "done"
  BY <1>1, AtLemma DEF IInv, Places
<1>7. ModeStep /\ (\A u \in Tasks \ {t} : Same(u)) /\ born \subseteq born'
  BY <1>1, <1>2, <1>6 DEF IInv, TypeInv, ModeStep, Coming, Alive, Same, taskVars
<1>8. TypeInv' /\ JournalInv'
  BY <1>1, <1>2, <1>5, <1>6, JournalKept DEF IInv, TypeInv, taskVars, Statuses
<1>9. TaskInv(t)'
  <2>1. EntryInv(t)'
    BY <1>1, <1>6 DEF IInv, TaskInv, EntryInv, EndedEntry, Exists, Running, Alive, taskVars
  <2>2. task[t].spilled => disk[t].status = task[t].status /\ reported'[t] = task[t].status
    BY <1>2, <1>3, <1>4 DEF IInv, TypeInv, TaskInv, EntryInv
  <2>3. ~ task[t].spilled => reported'[t] = reported[t]
    BY <1>2
  <2>4. t \in born
    BY <1>3 DEF IInv, TaskInv, EntryInv
  <2>5. ReportInv(t)'
    <3>1. CASE task[t].spilled
      BY <1>1, <1>3, <1>5, <2>2, <2>4, <3>1 DEF ReportInv, Exists, Alive, taskVars
    <3>2. CASE ~ task[t].spilled
      BY <1>1, <2>3, <3>2 DEF IInv, TaskInv, ReportInv, Exists, taskVars
    <3> QED
      BY <3>1, <3>2
  <2> QED
    BY <2>1, <2>5 DEF TaskInv
<1> QED
  BY <1>7, <1>8, <1>9, TaskStep

(* terminateWithGrace() touches a running entry only, and never its status. *)
LEMMA StoppedLemma ==
    ASSUME TypeInv, NEW t \in Tasks, NEW c \in Callers
    PROVE  /\ Stopped(t, c) \in Entries
           /\ Stopped(t, c).status = task[t].status
           /\ Stopped(t, c).spilled = task[t].spilled
           /\ Stopped(t, c).attached = task[t].attached
           /\ Running(t) => Stopped(t, c).closed = (c = "exit")
           /\ StopBegun(t) \in Calls /\ StopBegun(t).pc \in {"grace", "answer"}
           /\ StopBegun(t).pc = "answer" => ~ Running(t) /\ StopBegun(t).ahead = Len(writes[t])
<1> DEFINE n == Len(writes[t])
           e == task[t]
<1>1. n \in Nat
  BY LenProperties DEF TypeInv
<1>2. e \in Entries
  BY DEF TypeInv
<1>3. StopBegun(t) = IF Running(t) THEN [pc |-> "grace", ahead |-> 0] ELSE [pc |-> "answer", ahead |-> n]
  BY DEF StopBegun, Behind
<1>4. Stopped(t, c) = IF ~ Running(t) THEN e
                      ELSE [e EXCEPT !.armed = FALSE, !.aborted = TRUE, !.closed = (c = "exit"),
                                     !.timedOut = e.timedOut \/ c = "deadline"]
  BY DEF Stopped
<1> HIDE DEF n, e
<1>5. StopBegun(t) \in Calls
  BY <1>1, <1>3 DEF Calls, Places
<1>6. /\ StopBegun(t).pc \in {"grace", "answer"}
      /\ StopBegun(t).pc = "answer" => ~ Running(t) /\ StopBegun(t).ahead = n
  BY <1>3
<1>7. ASSUME NEW closed \in BOOLEAN, NEW timedOut \in BOOLEAN, NEW d,
             d = [e EXCEPT !.armed = FALSE, !.aborted = TRUE, !.closed = closed, !.timedOut = timedOut]
      PROVE  /\ d \in Entries /\ d.status = e.status /\ d.spilled = e.spilled
             /\ d.attached = e.attached /\ d.closed = closed
  BY <1>2, <1>7 DEF Entries
<1>8. /\ (c = "exit") \in BOOLEAN /\ (e.timedOut \/ c = "deadline") \in BOOLEAN
  OBVIOUS
<1>9. /\ Stopped(t, c) \in Entries /\ Stopped(t, c).status = e.status
      /\ Stopped(t, c).spilled = e.spilled /\ Stopped(t, c).attached = e.attached
      /\ Running(t) => Stopped(t, c).closed = (c = "exit")
  <2>1. CASE Running(t)
    <3>1. Stopped(t, c) = [e EXCEPT !.armed = FALSE, !.aborted = TRUE, !.closed = (c = "exit"),
                                    !.timedOut = e.timedOut \/ c = "deadline"]
      BY <1>4, <2>1
    <3> DEFINE closed == (c = "exit")
               timedOut == e.timedOut \/ c = "deadline"
               d == Stopped(t, c)
    <3>2. closed \in BOOLEAN /\ timedOut \in BOOLEAN
      BY <1>8
    <3>3. d = [e EXCEPT !.armed = FALSE, !.aborted = TRUE, !.closed = closed, !.timedOut = timedOut]
      BY <3>1
    <3> HIDE DEF closed, timedOut, d
    <3>4. /\ d \in Entries /\ d.status = e.status /\ d.spilled = e.spilled
          /\ d.attached = e.attached /\ d.closed = closed
      BY <1>7, <3>2, <3>3
    <3> QED
      BY <3>4 DEF d, closed
  <2>2. CASE ~ Running(t)
    BY <1>2, <1>4, <2>2
  <2> QED
    BY <2>1, <2>2
<1> QED
  BY <1>5, <1>6, <1>9 DEF n, e

LEMMA StopInv == ASSUME IInv, NEW t \in Tasks, NEW c \in Callers, Stop(t, c) PROVE IInv'
<1>1. /\ Alive /\ Exists(t)
      /\ task' = [task EXCEPT ![t] = Stopped(t, c)]
      /\ stops' = [stops EXCEPT ![t] = [stops[t] EXCEPT ![c] = StopBegun(t)]]
      /\ UNCHANGED <<mode, born, reported, writes, disk, journalVars, ghosts>>
  BY DEF Stop, restoreVars
<1>2. /\ Stopped(t, c) \in Entries
      /\ Stopped(t, c).status = task[t].status
      /\ Stopped(t, c).spilled = task[t].spilled
      /\ StopBegun(t) \in Calls /\ StopBegun(t).pc \in {"grace", "answer"}
      /\ StopBegun(t).pc = "answer" => ~ Running(t) /\ StopBegun(t).ahead = Len(writes[t])
  BY StoppedLemma DEF IInv
<1>3. /\ task' \in [Tasks -> Entries] /\ stops' \in [Tasks -> [Callers -> Calls]]
      /\ \A u \in Tasks \ {t} : task'[u] = task[u] /\ stops'[u] = stops[u]
      /\ \A d \in Callers \ {c} : stops'[t][d] = stops[t][d]
      /\ stops'[t][c] = StopBegun(t) /\ task'[t] = Stopped(t, c)
  BY <1>1, <1>2 DEF IInv, TypeInv
<1>4. ModeStep /\ (\A u \in Tasks \ {t} : Same(u)) /\ born \subseteq born'
  BY <1>1, <1>3 DEF IInv, TypeInv, ModeStep, Coming, Alive, Same
<1>5. TypeInv' /\ JournalInv'
  BY <1>1, <1>3, JournalKept DEF IInv, TypeInv
<1>6. TaskInv(t)'
  BY <1>1, <1>2, <1>3 DEF IInv, TaskInv, EntryInv, ReportInv, EndedEntry, Exists, Running, Alive
<1> QED
  BY <1>4, <1>5, <1>6, TaskStep

LEMMA WriteLandsInv == ASSUME IInv, NEW t \in Tasks, WriteLands(t) PROVE IInv'
<1>1. /\ writes[t] # <<>>
      /\ disk' = [disk EXCEPT ![t] = Head(writes[t])]
      /\ writes' = [writes EXCEPT ![t] = Tail(writes[t])]
      /\ UNCHANGED <<mode, taskVars, reported, journalVars, ghosts>>
  BY DEF WriteLands, restoreVars
<1>2. writes[t] \in Seq(Infos)
  BY DEF IInv, TypeInv
<1>3. /\ Head(writes[t]) \in Infos /\ Head(writes[t]) = writes[t][1]
      /\ Tail(writes[t]) \in Seq(Infos)
      /\ Len(writes[t]) \in Nat \ {0} /\ Len(Tail(writes[t])) = Len(writes[t]) - 1
      /\ \A j \in 1..Len(Tail(writes[t])) : Tail(writes[t])[j] = writes[t][j + 1]
      /\ Tail(writes[t]) = <<>> <=> Len(writes[t]) = 1
  BY <1>1, <1>2, TailWrites
<1> DEFINE next == [c \in Callers |-> OneLess(stops[t][c])]
<1>4. next \in [Callers -> Calls]
  <2>1. ASSUME NEW s \in Calls PROVE OneLess(s) \in Calls
    BY DEF OneLess, Calls
  <2>2. \A c \in Callers : stops[t][c] \in Calls
    BY DEF IInv, TypeInv
  <2> QED
    BY <2>1, <2>2
<1>5. stops' = [stops EXCEPT ![t] = next]
  BY DEF WriteLands
<1>6. /\ stops' \in [Tasks -> [Callers -> Calls]]
      /\ \A u \in Tasks \ {t} : stops'[u] = stops[u]
      /\ \A c \in Callers : /\ stops'[t][c].pc = stops[t][c].pc
                            /\ stops'[t][c].ahead = IF stops[t][c].ahead = 0 THEN 0
                                                       ELSE stops[t][c].ahead - 1
  BY <1>4, <1>5 DEF IInv, TypeInv, Calls, OneLess
<1> HIDE DEF next
<1>7. /\ disk' \in [Tasks -> Infos] /\ writes' \in [Tasks -> Seq(Infos)]
      /\ \A u \in Tasks \ {t} : disk'[u] = disk[u] /\ writes'[u] = writes[u]
      /\ disk'[t] = writes[t][1] /\ writes'[t] = Tail(writes[t])
  BY <1>1, <1>3 DEF IInv, TypeInv
<1>8. ModeStep /\ (\A u \in Tasks \ {t} : Same(u)) /\ born \subseteq born'
  BY <1>1, <1>6, <1>7 DEF IInv, TypeInv, ModeStep, Coming, Alive, Same, taskVars
<1>9. TypeInv' /\ JournalInv'
  BY <1>1, <1>6, <1>7, JournalKept DEF IInv, TypeInv, taskVars
<1>10. EntryInv(t)'
  <2>1. EndedEntry(t) /\ task[t].spilled =>
          IF writes'[t] = <<>> THEN disk'[t].status = task[t].status
          ELSE writes'[t][Len(writes'[t])].status = task[t].status
    <3> SUFFICES ASSUME EndedEntry(t), task[t].spilled
                 PROVE  IF writes'[t] = <<>> THEN disk'[t].status = task[t].status
                        ELSE writes'[t][Len(writes'[t])].status = task[t].status
      OBVIOUS
    <3>1. writes[t][Len(writes[t])].status = task[t].status
      BY <1>1 DEF IInv, TaskInv, EntryInv
    <3>2. CASE Len(writes[t]) = 1
      BY <1>3, <1>7, <3>1, <3>2
    <3>3. CASE Len(writes[t]) # 1
      <4>1. Len(Tail(writes[t])) \in 1..Len(Tail(writes[t]))
        BY <1>3, <3>3
      <4>2. Tail(writes[t])[Len(Tail(writes[t]))] = writes[t][Len(writes[t])]
        BY <1>3, <4>1
      <4>3. writes'[t] = Tail(writes[t]) /\ Tail(writes[t]) # <<>>
        BY <1>3, <1>7, <3>3
      <4> QED
        BY <3>1, <4>2, <4>3
    <3> QED
      BY <3>2, <3>3
  <2>2. ASSUME NEW c \in Callers, stops'[t][c].pc = "answer"
        PROVE  stops'[t][c].ahead = Len(writes'[t])
    <3>1. stops[t][c].ahead = Len(writes[t])
      BY <1>6, <2>2 DEF IInv, TaskInv, EntryInv
    <3>2. Len(writes'[t]) = Len(writes[t]) - 1 /\ Len(writes[t]) \in Nat \ {0}
      BY <1>3, <1>7
    <3> QED
      BY <1>6, <3>1, <3>2
  <2> QED
    BY <1>1, <1>6, <2>1, <2>2 DEF IInv, TaskInv, EntryInv, EndedEntry, Exists, Running, Alive, taskVars
<1>11. ReportInv(t)'
  <2> SUFFICES ASSUME reported[t] # "none"
               PROVE  ReportInv(t)'
    BY <1>1 DEF ReportInv
  <2>1. disk'[t].status = reported[t]
    BY <1>3, <1>7 DEF IInv, TaskInv, ReportInv
  <2>2. \A i \in 1..Len(writes'[t]) : writes'[t][i].status = reported[t]
    BY <1>3, <1>7 DEF IInv, TaskInv, ReportInv
  <2> QED
    BY <1>1, <2>1, <2>2 DEF IInv, TaskInv, ReportInv, Exists, taskVars
<1> QED
  BY <1>8, <1>9, <1>10, <1>11, TaskStep DEF TaskInv

LEMMA MarkLostInv == ASSUME IInv, NEW t \in Tasks, MarkLost(t) PROVE IInv'
<1>1. /\ mode = "loading" /\ ghosts[t].status = "running"
      /\ ghosts' = [ghosts EXCEPT ![t] = Lost(t)]
      /\ disk' = [disk EXCEPT ![t] = Lost(t)]
      /\ UNCHANGED <<mode, taskVars, stops, reported, writes, journalVars>>
  BY DEF MarkLost, stopVars
<1>2. Lost(t) \in Infos
  BY DEF IInv, TypeInv, Lost, Infos, Statuses, Ends
<1>3. reported[t] = "none" /\ ~ Exists(t)
  BY <1>1 DEF IInv, TaskInv, EntryInv, ReportInv, Ends, Alive
<1>4. ModeStep /\ (\A u \in Tasks \ {t} : Same(u)) /\ born \subseteq born'
  BY <1>1 DEF IInv, TypeInv, ModeStep, Coming, Alive, Same, taskVars
<1>5. TypeInv' /\ JournalInv'
  BY <1>1, <1>2, JournalKept DEF IInv, TypeInv, taskVars
<1>6. TaskInv(t)'
  BY <1>1, <1>3 DEF IInv, TaskInv, EntryInv, ReportInv, EndedEntry, Exists, Running, Alive, taskVars
<1> QED
  BY <1>4, <1>5, <1>6, TaskStep

-----------------------------------------------------------------------------
(* The steps of the conversation.                                           *)

ContextSteps ==
    \/ Prompt \/ Undo \/ Reconcile \/ UndoEnds \/ BuildEnds \/ RestoreNext
    \/ (\E k \in requests : Deliver(k) \/ Drop(k)) \/ CancelTurns \/ RestoreEnds

LEMMA ContextInv == IInv /\ ContextSteps => IInv'
<1> SUFFICES ASSUME IInv, ContextSteps PROVE IInv'
  OBVIOUS
<1> USE DEF stopVars, restoreVars
<1>1. UNCHANGED <<taskVars, stops, writes, disk, ghosts, reported>>
  BY DEF ContextSteps, Prompt, Undo, Reconcile, UndoEnds, BuildEnds, RestoreNext, Deliver, Drop,
         CancelTurns, RestoreEnds
<1>2. ModeStep
  BY DEF IInv, TypeInv, Modes, ModeStep, Coming, Alive, ContextSteps, Prompt, Undo, Reconcile,
         UndoEnds, BuildEnds, RestoreNext, Deliver, Drop, CancelTurns, RestoreEnds
<1>3. \/ UNCHANGED journalVars \/ Flush
      \/ \E c : Record([live EXCEPT !.context = c])
  BY DEF ContextSteps, Prompt, Undo, Reconcile, UndoEnds, BuildEnds, RestoreNext, Deliver, Drop,
         CancelTurns, RestoreEnds, Tell
<1>4. JournalInv'
  BY <1>3, JournalKept, FlushLemma, ContextRecorded, RecordLemma DEF IInv
<1> QED
  BY <1>1, <1>2, <1>4, QuietStep

-----------------------------------------------------------------------------
(* The steps of the agent.                                                  *)

LEMMA CloseInv == IInv /\ Close => IInv'
<1> SUFFICES ASSUME IInv, Close PROVE IInv'
  OBVIOUS
<1> DEFINE quiet == {t \in Tasks : Running(t) /\ ~ task[t].attached /\ ~ task[t].suppressed}
           e(t) == [task[t] EXCEPT !.suppressed = TRUE]
           i(t) == Info(e(t))
           call(t) == [stops[t] EXCEPT !["exit"] = [pc |-> "suppressing", ahead |-> Behind(t) + 1]]
<1>1. /\ mode = "up" /\ mode' = "suppressing"
      /\ task' = [t \in Tasks |-> IF t \in quiet THEN e(t) ELSE task[t]]
      /\ writes' = [t \in Tasks |-> IF t \in quiet THEN Append(writes[t], i(t)) ELSE writes[t]]
      /\ stops' = [t \in Tasks |-> IF t \in quiet THEN call(t) ELSE stops[t]]
      /\ UNCHANGED <<born, reported, disk, journalVars, ghosts>>
  BY DEF Close, restoreVars
<1>2. ModeStep
  BY <1>1 DEF ModeStep, Modes, Coming, Alive
<1>3. ASSUME NEW t \in Tasks
      PROVE  /\ e(t) \in Entries /\ e(t).status = task[t].status
             /\ i(t) \in Infos
             /\ call(t) \in [Callers -> Calls]
             /\ \A c \in Callers : call(t)[c].pc \in {stops[t][c].pc, "suppressing"}
  <2>1. e(t) \in Entries /\ e(t).status = task[t].status
    BY DEF IInv, TypeInv, Entries
  <2>2. i(t) \in Infos
    BY <2>1, InfoLemma
  <2>3. Behind(t) + 1 \in Nat
    BY LenProperties DEF IInv, TypeInv, Behind
  <2>4. [pc |-> "suppressing", ahead |-> Behind(t) + 1] \in Calls
    BY <2>3 DEF Calls, Places
  <2> QED
    BY <2>1, <2>2, <2>4 DEF IInv, TypeInv
<1> HIDE DEF e, i, call
<1>4. \A t \in Tasks : Append(writes[t], i(t)) \in Seq(Infos)
  BY <1>3, AppendWrites DEF IInv, TypeInv
<1>5. TypeInv' /\ JournalInv'
  BY <1>1, <1>2, <1>3, <1>4, JournalKept DEF IInv, TypeInv, ModeStep
<1>6. ASSUME NEW t \in Tasks PROVE TaskInv(t)'
  <2>1. CASE t \notin quiet
    <3>1. Same(t)
      BY <1>1, <2>1 DEF Same, IInv, TypeInv
    <3> QED
      BY <1>1, <1>2, <3>1, Untouched DEF IInv
  <2>2. CASE t \in quiet
    <3>1. Running(t) /\ task'[t] = e(t) /\ stops'[t] = call(t)
      BY <1>1, <2>2
    <3>2. task'[t].status = "running" /\ reported[t] = "none"
      BY <1>3, <3>1 DEF IInv, TaskInv, ReportInv, Running, Exists, Ends
    <3> QED
      BY <1>1, <1>3, <3>1, <3>2
      DEF IInv, TaskInv, EntryInv, ReportInv, EndedEntry, Exists, Running, Alive
  <2> QED
    BY <2>1, <2>2
<1> QED
  BY <1>5, <1>6 DEF IInv

LEMMA StopAllInv == IInv /\ StopAll => IInv'
<1> SUFFICES ASSUME IInv, StopAll PROVE IInv'
  OBVIOUS
<1> DEFINE call(t) == [stops[t] EXCEPT !["exit"] = StopBegun(t)]
<1>1. /\ mode = "suppressing" /\ mode' = "stopping"
      /\ task' = [t \in Tasks |-> IF Exists(t) THEN Stopped(t, "exit") ELSE task[t]]
      /\ stops' = [t \in Tasks |-> IF Exists(t) THEN call(t) ELSE stops[t]]
      /\ UNCHANGED <<born, reported, writes, disk, journalVars, ghosts>>
  BY DEF StopAll, restoreVars
<1>2. ModeStep
  BY <1>1 DEF ModeStep, Modes, Coming, Alive
<1>3. ASSUME NEW t \in Tasks
      PROVE  /\ Stopped(t, "exit") \in Entries
             /\ Stopped(t, "exit").status = task[t].status
             /\ Stopped(t, "exit").spilled = task[t].spilled
             /\ StopBegun(t) \in Calls /\ StopBegun(t).pc \in {"grace", "answer"}
             /\ StopBegun(t).pc = "answer" => ~ Running(t) /\ StopBegun(t).ahead = Len(writes[t])
  BY TasksAssumption, StoppedLemma DEF IInv
<1>4. ASSUME NEW t \in Tasks
      PROVE  /\ call(t) \in [Callers -> Calls] /\ call(t)["exit"] = StopBegun(t)
             /\ \A c \in Callers \ {"exit"} : call(t)[c] = stops[t][c]
  BY <1>3, TasksAssumption DEF IInv, TypeInv
<1> HIDE DEF call
<1>5. TypeInv' /\ JournalInv'
  BY <1>1, <1>2, <1>3, <1>4, JournalKept DEF IInv, TypeInv, ModeStep
<1>6. ASSUME NEW t \in Tasks PROVE TaskInv(t)'
  <2>1. CASE ~ Exists(t)
    <3>1. Same(t)
      BY <1>1, <2>1 DEF Same, IInv, TypeInv
    <3> QED
      BY <1>1, <1>2, <3>1, Untouched DEF IInv
  <2>2. CASE Exists(t)
    <3>1. task'[t] = Stopped(t, "exit") /\ stops'[t] = call(t)
      BY <1>1, <2>2
    <3> DEFINE s == call(t)
               e == Stopped(t, "exit")
    <3>2. /\ task'[t] = e /\ e.status = task[t].status /\ e.spilled = task[t].spilled
          /\ stops'[t] = s
          /\ s["exit"].pc \in {"grace", "answer"}
          /\ s["exit"].pc = "answer" => ~ Running(t) /\ s["exit"].ahead = Len(writes[t])
          /\ \A c \in Callers \ {"exit"} : s[c] = stops[t][c]
      BY <1>3, <1>4, <3>1
    <3> HIDE DEF s, e
    <3>3. /\ writes' = writes /\ disk' = disk /\ reported' = reported /\ born' = born
          /\ ghosts' = ghosts /\ mode' = "stopping" /\ Alive /\ Alive'
      BY <1>1 DEF Alive
    <3>4. /\ Exists(t) /\ (Exists(t)' <=> Exists(t)) /\ (EndedEntry(t)' <=> EndedEntry(t))
      BY <2>2, <3>2 DEF Exists, EndedEntry, Running
    <3>5. EntryInv(t)'
      <4>1. EntryInv(t)
        BY DEF IInv, TaskInv
      <4>2. Exists(t)' => t \in born' /\ Alive'
        BY <3>3, <3>4, <4>1 DEF EntryInv
      <4>3. EndedEntry(t)' /\ task'[t].spilled =>
               IF writes'[t] = <<>> THEN disk'[t].status = task'[t].status
               ELSE writes'[t][Len(writes'[t])].status = task'[t].status
        BY <3>2, <3>3, <3>4, <4>1 DEF EntryInv
      <4>4. ASSUME NEW c \in Callers
            PROVE  /\ stops'[t][c].pc # "idle" => Exists(t)'
                   /\ stops'[t][c].pc \in {"settling", "answer"} => EndedEntry(t)'
                   /\ stops'[t][c].pc = "answer" => stops'[t][c].ahead = Len(writes'[t])
        <5>1. CASE c = "exit"
          BY <3>2, <3>3, <3>4, <5>1 DEF EndedEntry
        <5>2. CASE c # "exit"
          BY <3>2, <3>3, <3>4, <4>1, <5>2 DEF EntryInv
        <5> QED
          BY <5>1, <5>2
      <4> QED
        BY <4>2, <4>3, <4>4 DEF EntryInv
    <3>6. ReportInv(t)'
      <4>1. ReportInv(t)
        BY DEF IInv, TaskInv
      <4> QED
        BY <3>2, <3>3, <3>4, <4>1 DEF ReportInv
    <3> QED
      BY <3>5, <3>6 DEF TaskInv
  <2> QED
    BY <2>1, <2>2
<1> QED
  BY <1>5, <1>6 DEF IInv

(* Nothing is left in memory, and the files are as they were.               *)
LEMMA GoneLemma ==
    ASSUME IInv, Gone, JournalInv', UNCHANGED <<born, reported, disk>>,
           \A t \in Tasks : writes'[t] \in {writes[t], <<>>}, writes' \in [Tasks -> Seq(Infos)]
    PROVE  IInv'
<1>1. NoInfo \in Infos /\ NoEntry \in Entries /\ NoStop \in Calls
  BY DEF NoInfo, Info, NoEntry, NoStop, Infos, Entries, Calls, Places, Statuses
<1>2. TypeInv'
  BY <1>1 DEF Gone, IInv, TypeInv, Modes
<1>3. ASSUME NEW t \in Tasks PROVE TaskInv(t)'
  <2>1. ~ Exists(t)' /\ \A c \in Callers : stops'[t][c].pc = "idle"
    BY DEF Gone, Exists, NoEntry, NoStop
  <2>2. EntryInv(t)'
    BY <2>1 DEF EntryInv, EndedEntry
  <2>3. Len(<<>>) = 0
    BY EmptySeq
  <2>4. ReportInv(t)'
    BY <2>1, <2>3 DEF Gone, IInv, TaskInv, ReportInv
  <2> QED
    BY <2>2, <2>4 DEF TaskInv
<1> QED
  BY <1>2, <1>3 DEF IInv

LEMMA DisposeInv == IInv /\ Dispose => IInv'
BY GoneLemma, FlushLemma DEF Dispose, IInv, TypeInv

LEMMA CrashInv == IInv /\ Crash => IInv'
<1> SUFFICES ASSUME IInv, Crash PROVE IInv'
  OBVIOUS
<1>1. JournalInv'
  BY DEF Crash, IInv, JournalInv, IsState
<1>2. writes' = [t \in Tasks |-> <<>>] /\ <<>> \in Seq(Infos)
  BY EmptySeq DEF Crash
<1> QED
  BY <1>1, <1>2, GoneLemma DEF Crash

(* newerRestoredTask(): an end in the file prevails over any journal.       *)
LEMMA RestoredLemma ==
    ASSUME TypeInv, NEW s, IsState(s), NEW t \in Tasks
    PROVE  /\ Restored(s, t) \in Infos
           /\ disk[t].status \in Ends => Restored(s, t) = disk[t]
BY DEF TypeInv, IsState, Restored, Newer, Ends

LEMMA RestartInv == IInv /\ Restart => IInv'
<1> SUFFICES ASSUME IInv, Restart PROVE IInv'
  OBVIOUS
<1>1. /\ mode = "down" /\ mode' = "loading"
      /\ writes' = [t \in Tasks |-> <<>>]
      /\ ghosts' = [t \in Tasks |-> Restored(live, t)]
      /\ UNCHANGED <<taskVars, stops, reported, disk, journalVars>>
  BY DEF Restart, stopVars
<1>2. \A t \in Tasks : /\ Restored(live, t) \in Infos
                       /\ disk[t].status \in Ends => Restored(live, t) = disk[t]
  BY RestoredLemma DEF IInv, JournalInv
<1>3. <<>> \in Seq(Infos) /\ Len(<<>>) = 0
  BY EmptySeq
<1>4. TypeInv' /\ JournalInv'
  BY <1>1, <1>2, <1>3, JournalKept DEF IInv, TypeInv, Modes, taskVars
<1>5. ASSUME NEW t \in Tasks PROVE TaskInv(t)'
  <2>1. ~ Exists(t) /\ ~ Exists(t)'
    BY <1>1 DEF IInv, TaskInv, EntryInv, Exists, Alive, taskVars
  <2>2. EntryInv(t)'
    BY <1>1, <2>1 DEF IInv, TaskInv, EntryInv, EndedEntry
  <2>3. ReportInv(t)'
    BY <1>1, <1>2, <1>3, <2>1 DEF IInv, TaskInv, ReportInv, taskVars
  <2> QED
    BY <2>2, <2>3 DEF TaskInv
<1> QED
  BY <1>4, <1>5 DEF IInv

LEMMA RemindInv == IInv /\ Remind => IInv'
<1> SUFFICES ASSUME IInv, Remind PROVE IInv'
  OBVIOUS
<1> DEFINE marked(t) == [ghosts[t] EXCEPT !.reminded = TRUE]
           infos == [t \in Tasks |-> IF t \in lost THEN ghosts[t] ELSE live.infos[t]]
<1>1. PICK due \in SUBSET Tasks :
        /\ \E c : Record([infos |-> infos, context |-> c])
        /\ ghosts' = [t \in Tasks |-> IF t \in due THEN marked(t) ELSE ghosts[t]]
        /\ writes' = [t \in Tasks |-> IF t \in due THEN <<marked(t)>> ELSE writes[t]]
  BY DEF Remind
<1>2. /\ mode = "loading" /\ mode' = "restoring"
      /\ UNCHANGED <<taskVars, stops, reported, disk>>
  BY DEF Remind, stopVars
<1>3. \A t \in Tasks : marked(t) \in Infos /\ marked(t).status = ghosts[t].status
  BY DEF IInv, TypeInv, Infos
<1>4. infos \in [Tasks -> Infos]
  BY DEF IInv, TypeInv, JournalInv, IsState
<1> HIDE DEF marked, infos
<1>5. JournalInv'
  <2>1. PICK c : Record([infos |-> infos, context |-> c])
    BY <1>1
  <2>2. IsState([infos |-> infos, context |-> c])
    BY <1>4 DEF IsState
  <2> QED
    BY <2>1, <2>2, RecordLemma DEF IInv
<1>6. ASSUME NEW t \in Tasks
      PROVE  /\ <<marked(t)>> \in Seq(Infos) /\ Len(<<marked(t)>>) = 1
             /\ <<marked(t)>>[1] = marked(t)
  BY <1>3
<1>7. TypeInv'
  BY <1>1, <1>2, <1>3, <1>6 DEF IInv, TypeInv, Modes, taskVars
<1>8. ASSUME NEW t \in Tasks PROVE TaskInv(t)'
  <2>1. ~ Exists(t) /\ ~ Exists(t)'
    BY <1>2 DEF IInv, TaskInv, EntryInv, Exists, Alive, taskVars
  <2>2. EntryInv(t)'
    BY <1>2, <2>1 DEF IInv, TaskInv, EntryInv, EndedEntry
  <2>3. ReportInv(t)'
    <3>1. CASE t \in due
      BY <1>1, <1>2, <1>3, <1>6, <2>1, <3>1 DEF IInv, TaskInv, ReportInv, taskVars
    <3>2. CASE t \notin due
      BY <1>1, <1>2, <2>1, <3>2 DEF IInv, TaskInv, ReportInv, taskVars
    <3> QED
      BY <3>1, <3>2
  <2> QED
    BY <2>2, <2>3 DEF TaskInv
<1> QED
  BY <1>5, <1>7, <1>8 DEF IInv

-----------------------------------------------------------------------------
(* The specification.                                                       *)

LEMMA NextInv == IInv /\ [Next]_vars => IInv'
<1> SUFFICES ASSUME IInv, [Next]_vars PROVE IInv'
  OBVIOUS
<1>1. ASSUME NEW t \in Tasks,
             \/ Register(t) \/ Spill(t) \/ Detach(t) \/ BodyEnds(t) \/ SettleReturns(t)
             \/ Suppress(t) \/ WriteLands(t) \/ MarkLost(t)
      PROVE  IInv'
  BY <1>1, RegisterInv, SpillInv, DetachInv, BodyEndsInv, SettleReturnsInv, SuppressInv,
     WriteLandsInv, MarkLostInv
<1>2. ASSUME NEW t \in Tasks, NEW c \in Callers, Stopping(t, c) PROVE IInv'
  BY <1>2, StopInv, GraceEndsInv, ForceReturnsInv, AnswerInv DEF Stopping
<1>3. CASE ContextSteps
  BY <1>3, ContextInv
<1>4. CASE Close \/ StopAll \/ Dispose \/ Crash \/ Restart \/ Remind
  BY <1>4, CloseInv, StopAllInv, DisposeInv, CrashInv, RestartInv, RemindInv
<1>5. CASE UNCHANGED vars
  <2>1. ModeStep
    BY <1>5 DEF vars, IInv, TypeInv, ModeStep, Coming, Alive
  <2> QED
    BY <1>5, <2>1, QuietStep, JournalKept DEF vars, IInv, stopVars, restoreVars
<1> QED
  BY <1>1, <1>2, <1>3, <1>4, <1>5 DEF Next, ContextSteps, Closing, Undoing

(* The inductive invariant: what is written about an entry that has ended   *)
(* is its end, and everything about a reported task agrees with the report. *)
THEOREM InductiveInvariant == Spec => []IInv
<1>1. Init => IInv
  BY InitInv
<1>2. IInv /\ [Next]_vars => IInv'
  BY NextInv
<1> QED
  BY <1>1, <1>2, PTL DEF Spec

(* A status that a stop reported for a task with a file is the status a     *)
(* restart finds, wherever a crash cuts the journal: terminateWithGrace()   *)
(* answers after persistWriteQueue, and newerRestoredTask() prefers an end  *)
(* in the file.                                                             *)
THEOREM ReportedSurvivesHolds == Spec => []ReportedSurvives
<1>1. IInv => ReportedSurvives
  BY RestoredLemma DEF IInv, JournalInv, TaskInv, ReportInv, ReportedSurvives
<1> QED
  BY <1>1, InductiveInvariant, PTL


-----------------------------------------------------------------------------
(* What the model is told.  The end of a task is the same wherever it is    *)
(* found: in its entry, its file, on the way there, or in the journal.      *)

Finished(info) == info.status \in Ends
Plain(info) == [info EXCEPT !.reminded = FALSE]

(* What the file of a task is going to say, or says.                        *)
Final(t) == IF Exists(t) THEN Info(task[t]) ELSE Plain(disk[t])

Written(t) == {writes[t][i] : i \in DOMAIN writes[t]}
Journaled(t) == {s.infos[t] : s \in durable}

Unborn(t) ==
    t \notin born =>
        /\ disk[t] = NoInfo /\ ghosts[t] = NoInfo /\ writes[t] = <<>>
        /\ \A i \in Journaled(t) : i = NoInfo

(* An entry is not a ghost, its file is written unless it is attached, and  *)
(* only a closing agent stops it for good.                                  *)
LivingInv(t) ==
    /\ ~ Exists(t) => task[t] = NoEntry
    /\ Exists(t) =>
          /\ ghosts[t] = NoInfo /\ task[t].status # "lost"
          /\ ~ task[t].attached => task[t].spilled
          /\ task[t].closed => mode \in {"stopping", "closing"}
          /\ stops[t]["exit"].pc \notin {"idle", "suppressing"} => mode \in {"stopping", "closing"}
          /\ mode \in {"stopping", "closing"} => stops[t]["exit"].pc # "idle"
          /\ mode = "closing" => stops[t]["exit"].pc = "done"
          /\ stops[t]["exit"].pc = "done" => EndedEntry(t) /\ writes[t] = <<>>

(* settleTask() waits for the last write, which is the end.                 *)
SettlingInv(t) ==
    /\ settling[t] \in Nat \cup {None}
    /\ settling[t] # None =>
          EndedEntry(t) /\ task[t].spilled /\ settling[t] = Len(writes[t])
    /\ EndedEntry(t) /\ task[t].spilled =>
          IF writes[t] = <<>> THEN disk[t] = Info(task[t])
          ELSE writes[t][Len(writes[t])] = Info(task[t])

FilesInv(t) ==
    /\ Exists(t) =>
          /\ \A i \in {disk[t]} \cup Written(t) :
                ~ i.reminded /\ (Finished(i) => i = Final(t))
          /\ Finished(disk[t]) => writes[t] = <<>>
          /\ \A n \in 1..Len(writes[t]) :
                Finished(writes[t][n]) => n = Len(writes[t])
    /\ ~ Exists(t) => \A i \in Written(t) : Finished(i) /\ Plain(i) = Final(t)
    /\ \A i \in Journaled(t) :
          ~ i.reminded /\ (Finished(i) => Finished(disk[t]) /\ i = Final(t))
    /\ disk[t].reminded => Finished(disk[t])

GhostInv(t) ==
    /\ mode = "down" => ghosts[t] = NoInfo
    /\ mode # "down" /\ ~ Exists(t) =>
          /\ Finished(ghosts[t]) <=> Finished(disk[t])
          /\ Finished(ghosts[t]) => Plain(ghosts[t]) = Final(t)
    /\ ghosts[t].reminded => Finished(ghosts[t])
    /\ t \in lost => /\ mode = "loading" /\ ghosts[t] = disk[t]
                     /\ disk[t].status = "lost" /\ ~ disk[t].reminded
    /\ mode = "loading" => writes[t] = <<>>

EndInv(t) == Unborn(t) /\ LivingInv(t) /\ SettlingInv(t) /\ FilesInv(t) /\ GhostInv(t)

(* Ends the model is to be told of by a notification of their own.          *)
Open(t) ==
    /\ Final(t).status \in Ends \ {"lost"}
    /\ ~ Final(t).attached /\ ~ Final(t).suppressed
Fit(k) == Open(k.task) /\ k.status = Final(k.task).status

Keys == [task : Tasks, status : Ends]
ContextItems ==
    {Prompted} \cup [kind : {"notice"}, task : Tasks, status : Ends]
               \cup {Reminder(t) : t \in Tasks}

NoticeTypes ==
    /\ \A s \in durable : s.context \in Seq(ContextItems)
    /\ building \subseteq [key : Keys, by : {"end", "restore"}]
    /\ delivered \subseteq Keys /\ requests \subseteq Keys /\ dropped \subseteq Keys
    /\ restoring \subseteq [task : Tasks, info : Infos]
    /\ lost \subseteq Tasks /\ undoing \in {"idle", "flush", "restore"}

(* Notifications that are under way are about ends as they are, and none of *)
(* those that wait in the loop is in the context yet.                       *)
NoticeInv ==
    /\ scheduled = requests /\ requests \cap Shown(live.context) = {}
    /\ \A b \in building : Fit(b.key)
    /\ \A k \in requests : Fit(k)
    /\ \A r \in restoring :
          Finished(r.info) /\ r.info.status # "lost" /\ Plain(r.info) = Final(r.task)
    /\ undoing # "flush" => delivered \subseteq Shown(live.context)
    /\ mode \in {"down", "loading"} => building = {} /\ requests = {} /\ restoring = {}

(* In any state a crash may leave there is one message about a task: of the *)
(* end it has, or a reminder of a task of an earlier process.               *)
StoryInv(t, s) ==
    /\ \A i, j \in DOMAIN s.context :
          s.context[i].task = t /\ s.context[j].task = t => i = j
    /\ \A i \in DOMAIN s.context : s.context[i].task = t =>
          IF s.context[i].kind = "notice" THEN Fit(Key(t, s.context[i].status))
          ELSE ~ Exists(t) /\ PreviousSession(Final(t))

(* A task that is marked as reminded of is, and after a restart everything  *)
(* the last session ended is marked.                                        *)
Marked(t) == disk[t].reminded \/ ghosts[t].reminded \/ \E i \in Written(t) : i.reminded
MarkInv(t) ==
    /\ Marked(t) => Reminded(live.context, t) \/ t \in unreminded
    /\ mode \notin {"down", "loading"} /\ PreviousSession(ghosts[t]) => ghosts[t].reminded

(* What is still to be told, something is going to tell.                    *)
ToldInv(t) ==
    mode \notin {"down", "loading"} /\ Open(t) =>
        \/ settling[t] # None \/ undoing = "flush"
        \/ \E b \in building : b.key = Key(t, Final(t).status)
        \/ Key(t, Final(t).status) \in Shown(live.context) \cup requests \cup dropped
        \/ (undoing = "restore" \/ mode = "restoring") /\ \E r \in restoring : r.task = t

-----------------------------------------------------------------------------
(* The mark of a reminder apart, an end in the file is the end.             *)
LEMMA PlainLemma ==
    ASSUME NEW i \in Infos
    PROVE  /\ Plain(i) \in Infos /\ ~ Plain(i).reminded
           /\ Plain(i).status = i.status /\ Plain(i).attached = i.attached
           /\ Plain(i).suppressed = i.suppressed /\ Plain(i).closed = i.closed
           /\ Finished(Plain(i)) <=> Finished(i)
           /\ ~ i.reminded => Plain(i) = i
BY DEF Plain, Infos, Finished

(* The writes of one task.                                                  *)
LEMMA WrittenAppend ==
    ASSUME NEW t, writes[t] \in Seq(Infos), NEW i \in Infos,
           writes'[t] = Append(writes[t], i)
    PROVE  /\ Written(t)' = Written(t) \cup {i}
           /\ writes'[t] # <<>> /\ Len(writes'[t]) = Len(writes[t]) + 1
           /\ Len(writes[t]) \in Nat /\ writes'[t][Len(writes'[t])] = i
<1> DEFINE w == writes[t]
           v == Append(writes[t], i)
<1>1. /\ DOMAIN w = 1..Len(w) /\ Len(w) \in Nat /\ DOMAIN v = 1..(Len(w) + 1)
      /\ v # <<>> /\ Len(v) = Len(w) + 1
      /\ v[Len(w) + 1] = i /\ \A j \in 1..Len(w) : v[j] = w[j]
  BY AppendWrites
<1> HIDE DEF v, w
<1>2. {v[j] : j \in DOMAIN v} = {w[j] : j \in DOMAIN w} \cup {i}
  <2>1. {v[j] : j \in DOMAIN v} \subseteq {w[j] : j \in DOMAIN w} \cup {i}
    BY <1>1
  <2>2. {w[j] : j \in DOMAIN w} \cup {i} \subseteq {v[j] : j \in DOMAIN v}
    BY <1>1
  <2> QED
    BY <2>1, <2>2
<1> QED
  BY <1>1, <1>2 DEF Written, v, w

LEMMA WrittenTail ==
    ASSUME NEW t, writes[t] \in Seq(Infos), writes[t] # <<>>, writes'[t] = Tail(writes[t])
    PROVE  /\ Head(writes[t]) \in Written(t) /\ Written(t)' \subseteq Written(t)
           /\ Len(writes[t]) \in Nat \ {0} /\ Len(writes'[t]) = Len(writes[t]) - 1
           /\ IF writes'[t] = <<>> THEN Head(writes[t]) = writes[t][Len(writes[t])]
              ELSE writes'[t][Len(writes'[t])] = writes[t][Len(writes[t])]
<1> DEFINE w == writes[t]
           v == Tail(writes[t])
<1>1. /\ Head(w) = w[1] /\ v \in Seq(Infos) /\ Len(w) \in Nat \ {0}
      /\ Len(v) = Len(w) - 1 /\ \A j \in 1..Len(v) : v[j] = w[j + 1]
      /\ v = <<>> <=> Len(w) = 1
  BY TailWrites
<1>2. DOMAIN w = 1..Len(w) /\ DOMAIN v = 1..Len(v)
  BY <1>1
<1> HIDE DEF v, w
<1>3. Head(w) \in {w[j] : j \in DOMAIN w}
  BY <1>1, <1>2
<1>4. {v[j] : j \in DOMAIN v} \subseteq {w[j] : j \in DOMAIN w}
  <2>1. ASSUME NEW j \in DOMAIN v PROVE j + 1 \in DOMAIN w /\ v[j] = w[j + 1]
    BY <1>1, <1>2
  <2> QED
    BY <2>1
<1>5. IF v = <<>> THEN Head(w) = w[Len(w)] ELSE v[Len(v)] = w[Len(w)]
  <2>1. CASE Len(w) = 1
    BY <1>1, <2>1
  <2>2. CASE Len(w) # 1
    <3>1. Len(v) \in 1..Len(v) /\ Len(v) + 1 = Len(w)
      BY <1>1, <2>2
    <3> QED
      BY <1>1, <2>2, <3>1
  <2> QED
    BY <2>1, <2>2
<1>6. /\ Written(t) = {w[j] : j \in DOMAIN w} /\ Written(t)' = {v[j] : j \in DOMAIN v}
      /\ writes[t] = w /\ writes'[t] = v
  BY DEF Written, v, w
<1> QED
  BY <1>1, <1>3, <1>4, <1>5, <1>6

-----------------------------------------------------------------------------
(* How the steps change one task.                                           *)

(* An end that is in the file, or going to be, stays; an end that is new is *)
(* still to be settled.                                                     *)
Standing(t) ==
    /\ Finished(Final(t)) => Final(t)' = Final(t) /\ (Exists(t)' => Exists(t))
    /\ Open(t)' => Open(t) \/ settling'[t] # None

(* The parts of the state a task shares with the others.                    *)
Around(t) ==
    /\ t \in born => t \in born'
    /\ t \in lost' => t \in lost

(* What no step but Gone, Restart and Remind does.                          *)
Onward(t) ==
    \/ mode' = mode
    \/ mode = "up" /\ mode' = "suppressing"
    \/ mode = "suppressing" /\ mode' = "stopping" /\ ~ Exists(t)
    \/ mode = "stopping" /\ mode' = "closing" /\ (Exists(t) => stops[t]["exit"].pc = "done")
    \/ mode = "restoring" /\ mode' = "up"

LEMMA EndUntouched ==
    ASSUME NEW t \in Tasks, EndInv(t), Same(t), Around(t), Onward(t),
           settling'[t] = settling[t], Journaled(t)' \subseteq Journaled(t)
    PROVE  EndInv(t)' /\ Standing(t)
<1>1. /\ Final(t)' = Final(t) /\ Exists(t)' = Exists(t) /\ Written(t)' = Written(t)
      /\ EndedEntry(t)' = EndedEntry(t) /\ Open(t)' = Open(t)
  BY DEF Same, Final, Exists, Written, EndedEntry, Running, Open
<1>2. Unborn(t)'
  BY DEF EndInv, Unborn, Same, Around
<1>3. LivingInv(t)'
  BY <1>1 DEF EndInv, LivingInv, Same, Onward
<1>4. SettlingInv(t)'
  BY <1>1 DEF EndInv, SettlingInv, Same
<1>5. FilesInv(t)'
  BY <1>1 DEF EndInv, FilesInv, Same, Finished
<1>6. GhostInv(t)'
  BY <1>1 DEF EndInv, GhostInv, Same, Around, Onward
<1>7. Standing(t)
  BY <1>1 DEF Standing
<1> QED
  BY <1>2, <1>3, <1>4, <1>5, <1>6, <1>7 DEF EndInv

(* A task that runs, or begins to, and still does.                          *)
LEMMA StillRuns ==
    ASSUME NEW t \in Tasks, EndInv(t), TaskInv(t), writes[t] \in Seq(Infos),
           Running(t) \/ (t \notin born /\ mode' \in {"up", "suppressing"}),
           mode \in {"up", "suppressing", "stopping", "closing"},
           mode' = mode \/ mode' \in {"suppressing", "stopping"},
           task'[t].status = "running", task'[t] \in Entries,
           task'[t].attached \/ task'[t].spilled,
           task'[t].closed => mode' \in {"stopping", "closing"},
           stops'[t]["exit"].pc \notin {"idle", "suppressing"} => mode' \in {"stopping", "closing"},
           mode' \in {"stopping", "closing"} => stops'[t]["exit"].pc # "idle",
           stops'[t]["exit"].pc # "done",
           mode' = "closing" => stops'[t]["exit"].pc = stops[t]["exit"].pc,
           writes'[t] = writes[t] \/ writes'[t] = Append(writes[t], Info(task'[t])),
           Journaled(t)' \subseteq Journaled(t) \cup {Info(task'[t])},
           disk'[t] = disk[t], ghosts'[t] = ghosts[t], settling'[t] = settling[t],
           t \in born', t \in lost' => t \in lost
    PROVE  EndInv(t)' /\ Standing(t)
<1>1. /\ Exists(t)' /\ ~ EndedEntry(t)' /\ ~ EndedEntry(t) /\ Final(t)' = Info(task'[t])
      /\ Info(task'[t]) \in Infos /\ ~ Finished(Info(task'[t])) /\ ~ Info(task'[t]).reminded
      /\ Info(task'[t]).status = "running"
  <2>1. ~ EndedEntry(t)
    BY DEF EndedEntry, Running, Exists, TaskInv, EntryInv
  <2>2. Exists(t)' /\ ~ EndedEntry(t)' /\ Final(t)' = Info(task'[t])
    BY DEF EndedEntry, Running, Exists, Final
  <2>3. /\ Info(task'[t]) \in Infos /\ Info(task'[t]).status = "running"
        /\ ~ Info(task'[t]).reminded
    BY InfoLemma DEF Info
  <2> QED
    BY <2>1, <2>2, <2>3 DEF Finished, Ends
<1>2. /\ ~ Finished(Final(t)) /\ ~ Finished(disk[t]) /\ ~ disk[t].reminded /\ ghosts[t] = NoInfo
      /\ \A i \in Written(t) \cup Journaled(t) : ~ Finished(i) /\ ~ i.reminded
  <2>1. CASE Running(t)
    <3>1. Exists(t) /\ ~ Finished(Final(t))
      BY <2>1 DEF Running, Exists, Final, Finished, Info, Ends
    <3> QED
      BY <3>1 DEF EndInv, FilesInv, LivingInv
  <2>2. CASE t \notin born
    <3>1. /\ ~ Finished(NoInfo) /\ ~ NoInfo.reminded
          /\ ~ Exists(t) /\ disk[t] = NoInfo /\ ghosts[t] = NoInfo /\ writes[t] = <<>>
          /\ \A i \in Journaled(t) : i = NoInfo
      BY <2>2 DEF EndInv, Unborn, TaskInv, EntryInv, NoInfo, Info, NoEntry, Finished, Ends
    <3>2. Plain(NoInfo).status = NoInfo.status
      BY DEF Plain, NoInfo, Info
    <3> QED
      BY <3>1, <3>2 DEF Final, Finished, Written
  <2> QED
    BY <2>1, <2>2
<1>3. Written(t)' \subseteq Written(t) \cup {Info(task'[t])}
  <2>1. CASE writes'[t] = writes[t]
    BY <2>1 DEF Written
  <2>2. CASE writes'[t] = Append(writes[t], Info(task'[t]))
    BY <1>1, <2>2, WrittenAppend
  <2> QED
    BY <2>1, <2>2
<1>4. Unborn(t)'
  BY DEF Unborn
<1>5. LivingInv(t)'
  <2>1. mode' # "closing"
    <3>1. CASE Running(t)
      <4>1. Exists(t) /\ stops[t]["exit"].pc # "done"
        BY <1>1, <3>1 DEF EndInv, LivingInv, Running, Exists
      <4> QED
        BY <4>1 DEF EndInv, LivingInv
    <3> QED
      BY <3>1
  <2>2. task'[t].status # "lost"
    OBVIOUS
  <2> QED
    BY <1>1, <1>2, <2>1, <2>2 DEF LivingInv
<1>6. SettlingInv(t)'
  BY <1>1 DEF EndInv, SettlingInv
<1>7. FilesInv(t)'
  <2>1. ASSUME NEW n \in 1..Len(writes'[t]) PROVE ~ Finished(writes'[t][n])
    <3>1. writes'[t][n] \in Written(t)'
      <4>1. writes'[t] \in Seq(Infos)
        BY <1>1, AppendWrites
      <4>2. n \in DOMAIN writes'[t]
        BY <4>1
      <4> QED
        BY <4>2 DEF Written
    <3> QED
      BY <1>1, <1>2, <1>3, <3>1
  <2> QED
    BY <1>1, <1>2, <1>3, <2>1 DEF FilesInv
<1>8. GhostInv(t)'
  <2>1. t \notin lost /\ mode' \notin {"down", "loading"}
    BY DEF EndInv, GhostInv
  <2>2. ~ NoInfo.reminded
    BY DEF NoInfo, Info
  <2> QED
    BY <1>1, <1>2, <2>1, <2>2 DEF GhostInv
<1>9. Standing(t)
  BY <1>1, <1>2 DEF Standing, Open, Ends
<1> QED
  BY <1>4, <1>5, <1>6, <1>7, <1>8, <1>9 DEF EndInv

(* A task that ran and has ended: its end is the last write, if it has a    *)
(* file, and is to be settled.                                              *)
LEMMA TaskEnds ==
    ASSUME NEW t \in Tasks, EndInv(t), TaskInv(t), writes[t] \in Seq(Infos),
           Running(t), Alive, mode' = mode,
           task'[t] \in Entries, task'[t].status \in Ends \ {"lost"},
           task'[t].spilled = task[t].spilled, task'[t].attached = task[t].attached,
           task'[t].closed => mode \in {"stopping", "closing"},
           stops'[t]["exit"].pc = stops[t]["exit"].pc
             \/ (stops[t]["exit"].pc = "force" /\ stops'[t]["exit"].pc \in {"settling", "answer"}),
           task[t].spilled => writes'[t] = Append(writes[t], Info(task'[t]))
                              /\ settling'[t] = Len(writes[t]) + 1,
           ~ task[t].spilled => writes'[t] = writes[t] /\ settling'[t] = settling[t],
           Journaled(t)' \subseteq Journaled(t),
           disk'[t] = disk[t], ghosts'[t] = ghosts[t], t \in born', t \in lost' => t \in lost
    PROVE  EndInv(t)' /\ Standing(t)
<1> DEFINE info == Info(task'[t])
<1>1. /\ Exists(t)' /\ EndedEntry(t)' /\ Exists(t) /\ ~ EndedEntry(t)
      /\ Final(t)' = info /\ info \in Infos /\ Finished(info) /\ ~ info.reminded
      /\ info.attached = task[t].attached
  <2>1. Exists(t)' /\ EndedEntry(t)' /\ Exists(t) /\ ~ EndedEntry(t) /\ Final(t)' = info
    BY DEF EndedEntry, Running, Exists, Final, Ends
  <2>2. info \in Infos /\ info.status = task'[t].status
    BY InfoLemma
  <2>3. ~ info.reminded /\ info.attached = task'[t].attached
    BY DEF Info
  <2> QED
    BY <2>1, <2>2, <2>3 DEF Finished
<1>2. /\ ~ Finished(Final(t)) /\ ghosts[t] = NoInfo
      /\ \A i \in {disk[t]} \cup Written(t) \cup Journaled(t) : ~ Finished(i) /\ ~ i.reminded
  <2>1. ~ Finished(Final(t))
    BY <1>1 DEF Running, Exists, Final, Finished, Info, Ends
  <2> QED
    BY <1>1, <2>1 DEF EndInv, FilesInv, LivingInv
<1> HIDE DEF info
<1>3. settling[t] = None
  BY <1>1 DEF EndInv, SettlingInv
<1>4. Len(writes[t]) \in Nat
  BY LenProperties
<1>5. ASSUME task[t].spilled
      PROVE  /\ Written(t)' = Written(t) \cup {info} /\ writes'[t] # <<>>
             /\ Len(writes'[t]) = Len(writes[t]) + 1 /\ writes'[t][Len(writes'[t])] = info
             /\ settling'[t] = Len(writes'[t]) /\ settling'[t] \in Nat
             /\ \A n \in 1..Len(writes[t]) : writes'[t][n] = writes[t][n]
  <2>1. writes'[t] = Append(writes[t], info)
    BY <1>5 DEF info
  <2> QED
    BY <1>1, <1>4, <1>5, <2>1, WrittenAppend, AppendWrites
<1>6. ASSUME ~ task[t].spilled
      PROVE  /\ Written(t)' = Written(t) /\ writes'[t] = writes[t] /\ settling'[t] = None
  BY <1>3, <1>6 DEF Written
<1>7. \A n \in 1..Len(writes[t]) : writes[t][n] \in Written(t)
  BY LenProperties DEF Written
<1>8. Unborn(t)'
  BY DEF Unborn
<1>9. LivingInv(t)'
  <2>1. stops[t]["exit"].pc # "done"
    BY <1>1 DEF EndInv, LivingInv
  <2>2. task[t].attached \/ task[t].spilled
    BY <1>1 DEF EndInv, LivingInv
  <2> QED
    BY <1>1, <1>2, <2>1, <2>2 DEF EndInv, LivingInv
<1>10. SettlingInv(t)'
  <2>1. CASE task[t].spilled
    BY <1>1, <1>5, <2>1 DEF SettlingInv, info
  <2>2. CASE ~ task[t].spilled
    BY <1>1, <1>6, <2>2 DEF SettlingInv
  <2> QED
    BY <2>1, <2>2 DEF EndInv
<1>11. FilesInv(t)'
  <2>1. \A i \in {disk'[t]} \cup Written(t)' : ~ i.reminded /\ (Finished(i) => i = Final(t)')
    <3>1. CASE task[t].spilled
      BY <1>1, <1>2, <1>5, <3>1
    <3>2. CASE ~ task[t].spilled
      BY <1>1, <1>2, <1>6, <3>2
    <3> QED
      BY <3>1, <3>2
  <2>2. ASSUME NEW n \in 1..Len(writes'[t]), Finished(writes'[t][n]) PROVE n = Len(writes'[t])
    <3>1. n \notin 1..Len(writes[t])
      BY <1>2, <1>5, <1>6, <1>7, <2>2
    <3> QED
      BY <1>4, <1>5, <1>6, <3>1
  <2> QED
    BY <1>1, <1>2, <2>1, <2>2 DEF FilesInv
<1>12. GhostInv(t)'
  BY <1>1, <1>2 DEF EndInv, GhostInv, Alive, NoInfo, Info
<1>13. Standing(t)
  <2>1. Open(t)' => settling'[t] # None
    <3>1. Open(t)' => ~ task[t].attached
      BY <1>1 DEF Open
    <3>2. None \notin Nat
      BY TasksAssumption
    <3> QED
      BY <1>1, <1>5, <3>1, <3>2 DEF EndInv, LivingInv
  <2> QED
    BY <1>2, <2>1 DEF Standing
<1> QED
  BY <1>8, <1>9, <1>10, <1>11, <1>12, <1>13 DEF EndInv

(* An entry whose callers go on.                                            *)
LEMMA OnlyCalls ==
    ASSUME NEW t \in Tasks, EndInv(t), Exists(t),
           mode' = mode \/ (mode = "suppressing" /\ mode' = "stopping"),
           \/ mode' = mode /\ stops'[t]["exit"].pc = stops[t]["exit"].pc
           \/ /\ mode' = "stopping" /\ stops'[t]["exit"].pc \notin {"idle", "suppressing"}
              /\ stops'[t]["exit"].pc = "done" => EndedEntry(t) /\ writes[t] = <<>>,
           task'[t] = task[t], writes'[t] = writes[t], disk'[t] = disk[t],
           ghosts'[t] = ghosts[t], settling'[t] = settling[t],
           t \in born => t \in born', t \in lost' => t \in lost,
           Journaled(t)' \subseteq Journaled(t)
    PROVE  EndInv(t)' /\ Standing(t)
<1>1. /\ Final(t)' = Final(t) /\ Exists(t)' = Exists(t) /\ Written(t)' = Written(t)
      /\ EndedEntry(t)' = EndedEntry(t) /\ Open(t)' = Open(t)
  BY DEF Final, Exists, Written, EndedEntry, Running, Open
<1>2. Unborn(t)'
  BY DEF EndInv, Unborn
<1>3. LivingInv(t)'
  BY <1>1 DEF EndInv, LivingInv
<1>4. SettlingInv(t)'
  BY <1>1 DEF EndInv, SettlingInv
<1>5. FilesInv(t)'
  BY <1>1 DEF EndInv, FilesInv, Finished
<1>6. GhostInv(t)'
  BY <1>1 DEF EndInv, GhostInv
<1>7. Standing(t)
  BY <1>1 DEF Standing
<1> QED
  BY <1>2, <1>3, <1>4, <1>5, <1>6, <1>7 DEF EndInv

(* An entry that has ended, has an end.                                     *)
LEMMA EndedIsFinished ==
    ASSUME NEW t \in Tasks, task[t] \in Entries, EndedEntry(t)
    PROVE  Exists(t) /\ Finished(Final(t)) /\ Final(t) = Info(task[t])
<1>1. Info(task[t]).status = task[t].status
  BY InfoLemma
<1> QED
  BY <1>1 DEF EndedEntry, Exists, Running, Entries, Statuses, Final, Finished

(* fireTerminalEffects(): the end that is recorded is in the file.          *)
LEMMA EndRecorded ==
    ASSUME NEW t \in Tasks, EndInv(t), settling[t] = 0, settling'[t] = None, mode' = mode,
           task'[t] = task[t], writes'[t] = writes[t], disk'[t] = disk[t],
           writes[t] \in Seq(Infos), task[t] \in Entries, ghosts'[t] = ghosts[t],
           stops'[t]["exit"].pc = stops[t]["exit"].pc
             \/ (stops[t]["exit"].pc = "settling" /\ stops'[t]["exit"].pc = "answer"),
           t \in born => t \in born', t \in lost' => t \in lost, TaskInv(t),
           Journaled(t)' \subseteq Journaled(t) \cup {Info(task[t])}
    PROVE  EndInv(t)' /\ Standing(t) /\ EndedEntry(t) /\ disk[t] = Final(t)
<1>1. /\ Final(t)' = Final(t) /\ Exists(t)' = Exists(t) /\ Written(t)' = Written(t)
      /\ EndedEntry(t)' = EndedEntry(t) /\ Open(t)' = Open(t)
  BY DEF Final, Exists, Written, EndedEntry, Running, Open
<1>2. 0 # None
  BY TasksAssumption
<1>3. EndedEntry(t) /\ task[t].spilled /\ Len(writes[t]) = 0 /\ Exists(t)
  BY <1>2 DEF EndInv, SettlingInv, EndedEntry
<1>4. Finished(Final(t)) /\ Final(t) = Info(task[t])
  BY <1>3, EndedIsFinished
<1>5. writes[t] = <<>> /\ disk[t] = Final(t)
  <2>1. writes[t] = <<>>
    BY <1>3, EmptySeq
  <2> QED
    BY <1>3, <1>4, <2>1 DEF EndInv, SettlingInv
<1>6. Unborn(t)'
  BY <1>3 DEF Unborn, TaskInv, EntryInv
<1>7. LivingInv(t)'
  BY <1>1, <1>3, <1>5 DEF EndInv, LivingInv
<1>8. SettlingInv(t)'
  BY <1>1, <1>3, <1>4, <1>5 DEF SettlingInv
<1>9. FilesInv(t)'
  <2>1. ~ Info(task[t]).reminded
    BY DEF Info
  <2> QED
    BY <1>1, <1>3, <1>4, <1>5, <2>1 DEF EndInv, FilesInv, Finished
<1>10. GhostInv(t)'
  BY <1>1 DEF EndInv, GhostInv
<1>11. Standing(t)
  BY <1>1 DEF Standing
<1> QED
  BY <1>3, <1>5, <1>6, <1>7, <1>8, <1>9, <1>10, <1>11 DEF EndInv

(* A write lands.                                                           *)
LEMMA FileWritten ==
    ASSUME NEW t \in Tasks, EndInv(t), TaskInv(t), writes[t] \in Seq(Infos), writes[t] # <<>>,
           task[t] \in Entries, disk[t] \in Infos, mode' = mode,
           disk'[t] = Head(writes[t]), writes'[t] = Tail(writes[t]),
           settling'[t] = (IF settling[t] \in {None, 0} THEN settling[t] ELSE settling[t] - 1),
           task'[t] = task[t], stops'[t]["exit"].pc = stops[t]["exit"].pc,
           ghosts'[t] = ghosts[t], born' = born, lost' = lost, Journaled(t)' \subseteq Journaled(t)
    PROVE  EndInv(t)' /\ Standing(t)
<1> DEFINE n == Len(writes[t])
<1>1. /\ Head(writes[t]) = writes[t][1] /\ Head(writes[t]) \in Written(t)
      /\ Written(t)' \subseteq Written(t) /\ n \in Nat \ {0} /\ Len(writes'[t]) = n - 1
      /\ writes'[t] = <<>> <=> n = 1
      /\ \A j \in 1..Len(writes'[t]) : writes'[t][j] = writes[t][j + 1]
      /\ IF writes'[t] = <<>> THEN Head(writes[t]) = writes[t][Len(writes[t])]
         ELSE writes'[t][Len(writes'[t])] = writes[t][Len(writes[t])]
  <2> DEFINE w == writes[t]
             v == writes'[t]
  <2>1. w \in Seq(Infos) /\ w # <<>> /\ v = Tail(w)
    OBVIOUS
  <2>2. /\ Head(w) \in Written(t) /\ Written(t)' \subseteq Written(t)
        /\ Len(w) \in Nat \ {0} /\ Len(v) = Len(w) - 1
        /\ IF v = <<>> THEN Head(w) = w[Len(w)] ELSE v[Len(v)] = w[Len(w)]
    BY <2>1, WrittenTail
  <2> HIDE DEF w, v
  <2>3. Head(w) = w[1] /\ (\A j \in 1..Len(Tail(w)) : Tail(w)[j] = w[j + 1]) /\ (Tail(w) = <<>> <=> Len(w) = 1)
    BY <2>1, TailWrites
  <2>4. (\A j \in 1..Len(v) : v[j] = w[j + 1]) /\ (v = <<>> <=> Len(w) = 1)
    BY <2>1, <2>3
  <2> QED
    BY <2>2, <2>3, <2>4 DEF w, v
<1> HIDE DEF n
<1>2. Exists(t)' = Exists(t) /\ EndedEntry(t)' = EndedEntry(t)
  BY DEF Exists, EndedEntry, Running
<1>3. Final(t)' = Final(t)
  <2>1. CASE Exists(t)
    BY <1>2, <2>1 DEF Final
  <2>2. CASE ~ Exists(t)
    BY <1>1, <1>2, <2>2 DEF Final, EndInv, FilesInv
  <2> QED
    BY <2>1, <2>2
<1>4. Open(t)' = Open(t)
  BY <1>3 DEF Open
<1>5. Unborn(t)'
  BY DEF EndInv, Unborn
<1>6. LivingInv(t)'
  BY <1>2 DEF EndInv, LivingInv
<1>7. Exists(t) => /\ Finished(disk'[t]) => writes'[t] = <<>>
                   /\ \A j \in 1..Len(writes'[t]) :
                         Finished(writes'[t][j]) => j = Len(writes'[t])
  <2> SUFFICES ASSUME Exists(t)
               PROVE  /\ Finished(disk'[t]) => writes'[t] = <<>>
                      /\ \A j \in 1..Len(writes'[t]) :
                            Finished(writes'[t][j]) => j = Len(writes'[t])
    OBVIOUS
  <2>1. \A j \in 1..n : Finished(writes[t][j]) => j = n
    BY DEF EndInv, FilesInv, n
  <2>2. Finished(disk'[t]) => n = 1
    BY <1>1, <2>1
  <2>3. ASSUME NEW j \in 1..Len(writes'[t]), Finished(writes'[t][j]) PROVE j = Len(writes'[t])
    <3>1. j + 1 \in 1..n /\ Finished(writes[t][j + 1])
      BY <1>1, <2>3 DEF Finished
    <3> QED
      BY <1>1, <2>1, <3>1
  <2> QED
    BY <1>1, <2>2, <2>3
<1>8. SettlingInv(t)'
  <2>1. settling[t] # None => settling[t] = n /\ settling'[t] = n - 1 /\ n - 1 \in Nat
    BY <1>1, TasksAssumption DEF EndInv, SettlingInv, n
  <2>2. /\ settling'[t] \in Nat \cup {None}
        /\ settling'[t] # None =>
              EndedEntry(t) /\ task[t].spilled /\ settling'[t] = Len(writes'[t])
    BY <1>1, <2>1 DEF EndInv, SettlingInv
  <2>3. EndedEntry(t) /\ task[t].spilled => writes[t][Len(writes[t])] = Info(task[t])
    BY DEF EndInv, SettlingInv
  <2>4. EndedEntry(t) /\ task[t].spilled =>
          IF writes'[t] = <<>> THEN disk'[t] = Info(task[t])
          ELSE writes'[t][Len(writes'[t])] = Info(task[t])
    BY <1>1, <2>3
  <2> QED
    BY <1>2, <2>2, <2>4 DEF SettlingInv
<1>9. FilesInv(t)'
  <2>1. CASE Exists(t)
    <3>1. \A i \in {disk'[t]} \cup Written(t)' : ~ i.reminded /\ (Finished(i) => i = Final(t)')
      BY <1>1, <1>3, <2>1 DEF EndInv, FilesInv
    <3>2. \A i \in Journaled(t) : ~ Finished(i)
      BY <2>1 DEF EndInv, FilesInv
    <3> QED
      BY <1>2, <1>7, <2>1, <3>1, <3>2 DEF EndInv, FilesInv
  <2>2. CASE ~ Exists(t)
    <3>1. Finished(disk'[t]) /\ Plain(disk'[t]) = Final(t)
      BY <1>1, <2>2 DEF EndInv, FilesInv
    <3> QED
      BY <1>1, <1>2, <1>3, <2>2, <3>1 DEF EndInv, FilesInv
  <2> QED
    BY <2>1, <2>2
<1>10. GhostInv(t)'
  <2>1. mode # "loading"
    BY DEF EndInv, GhostInv
  <2>2. ~ Exists(t) => Finished(disk'[t]) /\ Finished(disk[t])
    <3>1. ~ Exists(t) => Finished(disk'[t]) /\ Plain(disk'[t]) = Plain(disk[t])
      BY <1>1 DEF EndInv, FilesInv, Final
    <3>2. Head(writes[t]) \in Infos
      BY TailWrites
    <3> QED
      BY <3>1, <3>2, PlainLemma
  <2> QED
    BY <1>2, <1>3, <2>1, <2>2 DEF EndInv, GhostInv
<1>11. Standing(t)
  BY <1>2, <1>3, <1>4 DEF Standing
<1> QED
  BY <1>5, <1>6, <1>8, <1>9, <1>10, <1>11 DEF EndInv

(* A running task of an earlier process is lost.                            *)
LEMMA LostInFile ==
    ASSUME NEW t \in Tasks, EndInv(t), ~ Exists(t), mode = "loading", mode' = mode,
           ghosts[t].status = "running", ghosts[t] \in Infos, disk[t] \in Infos,
           ghosts'[t] = Lost(t), disk'[t] = Lost(t), task'[t] = task[t],
           writes'[t] = writes[t], stops'[t] = stops[t], settling'[t] = settling[t],
           born' = born, Journaled(t)' \subseteq Journaled(t)
    PROVE  EndInv(t)' /\ Standing(t)
<1>1. /\ ~ Finished(ghosts[t]) /\ ~ Finished(disk[t]) /\ ~ ghosts[t].reminded
      /\ \A i \in Journaled(t) : ~ Finished(i) /\ ~ i.reminded
      /\ writes[t] = <<>> /\ Written(t) = {}
  <2>1. ~ Finished(ghosts[t])
    BY DEF Finished, Ends
  <2>2. ~ Finished(disk[t]) /\ ~ ghosts[t].reminded /\ writes[t] = <<>>
    BY <2>1 DEF EndInv, GhostInv
  <2> QED
    BY <2>1, <2>2 DEF EndInv, FilesInv, Written
<1>2. /\ Lost(t) \in Infos /\ Lost(t).status = "lost" /\ ~ Lost(t).reminded
      /\ Finished(Lost(t))
  BY <1>1 DEF Lost, Infos, Statuses, Ends, Finished
<1>3. /\ ~ Exists(t)' /\ Written(t)' = {} /\ Final(t)' = Lost(t) /\ Plain(Lost(t)) = Lost(t)
      /\ ~ EndedEntry(t) /\ ~ EndedEntry(t)'
  BY <1>1, <1>2, PlainLemma DEF Exists, Final, Written, EndedEntry
<1>4. Unborn(t)'
  BY DEF EndInv, Unborn, NoInfo, Info, NoEntry
<1>5. LivingInv(t)'
  BY <1>3 DEF EndInv, LivingInv
<1>6. SettlingInv(t)'
  BY <1>3 DEF EndInv, SettlingInv
<1>7. FilesInv(t)'
  BY <1>1, <1>2, <1>3 DEF FilesInv
<1>8. GhostInv(t)'
  BY <1>1, <1>2, <1>3 DEF GhostInv
<1>9. Standing(t)
  <2>1. ~ Finished(Final(t))
    BY <1>1, PlainLemma DEF Final
  <2>2. ~ Open(t)'
    BY <1>2, <1>3 DEF Open
  <2> QED
    BY <2>1, <2>2 DEF Standing
<1> QED
  BY <1>4, <1>5, <1>6, <1>7, <1>8, <1>9 DEF EndInv

(* Nothing of the process is left.                                          *)
LEMMA GoneTask ==
    ASSUME NEW t \in Tasks, EndInv(t), Gone, disk'[t] = disk[t], disk[t] \in Infos, born' = born,
           writes'[t] = <<>> \/ (~ Exists(t) /\ writes'[t] = writes[t]),
           Journaled(t)' \subseteq Journaled(t)
    PROVE  /\ EndInv(t)' /\ ~ Exists(t)'
           /\ Finished(disk[t]) => Final(t)' = Final(t)
           /\ ~ Finished(disk[t]) => ~ Finished(Final(t)')
<1>1. ~ Exists(t)' /\ ~ EndedEntry(t)' /\ mode' = "down" /\ ghosts'[t] = NoInfo /\ lost' = {}
      /\ settling'[t] = None
  BY DEF Gone, Exists, EndedEntry, NoEntry
<1>2. Final(t)' = Plain(disk[t])
  BY <1>1 DEF Final
<1>3. Finished(disk[t]) => Final(t)' = Final(t)
  <2>1. CASE Exists(t)
    BY <1>2, <2>1, PlainLemma DEF EndInv, FilesInv
  <2>2. CASE ~ Exists(t)
    BY <1>2, <2>2 DEF Final
  <2> QED
    BY <2>1, <2>2
<1>4. Unborn(t)'
  BY <1>1 DEF EndInv, Unborn
<1>5. LivingInv(t)'
  BY <1>1 DEF LivingInv, Gone
<1>6. SettlingInv(t)'
  BY <1>1 DEF SettlingInv
<1>7. FilesInv(t)'
  <2>1. \A i \in Written(t)' : Finished(i) /\ Plain(i) = Final(t)'
    <3>1. CASE writes'[t] = <<>>
      BY <3>1 DEF Written
    <3>2. CASE ~ Exists(t) /\ writes'[t] = writes[t]
      BY <1>2, <3>2 DEF EndInv, FilesInv, Written, Final
    <3> QED
      BY <3>1, <3>2
  <2> QED
    BY <1>1, <1>3, <2>1 DEF EndInv, FilesInv
<1>8. GhostInv(t)'
  BY <1>1 DEF GhostInv, NoInfo, Info
<1> QED
  BY <1>1, <1>2, <1>3, <1>4, <1>5, <1>6, <1>7, <1>8, PlainLemma DEF EndInv

(* loadFromDisk() finds the end that is in the file, and no other.          *)
LEMMA FoundAgain ==
    ASSUME NEW t \in Tasks, EndInv(t), ~ Exists(t), mode = "down", mode' = "loading",
           disk[t] \in Infos, live \in durable, live.infos[t] \in Infos,
           ghosts'[t] = Restored(live, t), writes'[t] = <<>>, task'[t] = task[t],
           disk'[t] = disk[t], settling'[t] = settling[t], born' = born, lost' = lost,
           Journaled(t)' \subseteq Journaled(t)
    PROVE  EndInv(t)' /\ Standing(t)
<1> DEFINE found == Restored(live, t)
           told == live.infos[t]
<1>1. told \in Journaled(t)
  BY DEF Journaled
<1>2. /\ ~ told.reminded /\ told \in Infos
      /\ Finished(told) => Finished(disk[t])
  BY <1>1 DEF EndInv, FilesInv
<1>3. found = IF disk[t].status = "none" \/ (Finished(told) /\ ~ Finished(disk[t]))
              THEN told ELSE disk[t]
  BY DEF Restored, Newer, Finished
<1>4. /\ Finished(disk[t]) => found = disk[t] 
      /\ ~ Finished(disk[t]) => ~ Finished(found)
  BY <1>2, <1>3 DEF Finished, Ends
<1>5. found.reminded => Finished(found)
  BY <1>2, <1>3, <1>4 DEF EndInv, FilesInv
<1>6. t \notin born => found = NoInfo
  BY <1>1, <1>3 DEF EndInv, Unborn
<1> HIDE DEF found, told
<1>7. /\ ~ Exists(t)' /\ Final(t)' = Final(t) /\ Final(t) = Plain(disk[t])
      /\ ~ EndedEntry(t)' /\ ~ EndedEntry(t) /\ Written(t)' = {} /\ ghosts'[t] = found
  BY DEF Exists, Final, EndedEntry, Written, found
<1>8. Unborn(t)'
  BY <1>6, <1>7 DEF EndInv, Unborn
<1>9. LivingInv(t)'
  BY <1>7 DEF EndInv, LivingInv
<1>10. SettlingInv(t)'
  BY <1>7 DEF EndInv, SettlingInv
<1>11. FilesInv(t)'
  BY <1>7 DEF EndInv, FilesInv
<1>12. GhostInv(t)'
  BY <1>4, <1>5, <1>7 DEF EndInv, GhostInv
<1>13. Standing(t)
  BY <1>7 DEF Standing, Open
<1> QED
  BY <1>8, <1>9, <1>10, <1>11, <1>12, <1>13 DEF EndInv

(* What a reminder marks, and what is recorded with it, is the end.         *)
LEMMA EndMarked ==
    ASSUME NEW t \in Tasks, EndInv(t), ~ Exists(t), mode = "loading", mode' = "restoring",
           ghosts[t] \in Infos, disk[t] \in Infos,
           \/ ghosts'[t] = ghosts[t] /\ writes'[t] = writes[t]
           \/ /\ Finished(ghosts[t]) /\ ghosts'[t] = [ghosts[t] EXCEPT !.reminded = TRUE]
              /\ writes'[t] = <<ghosts'[t]>>,
           task'[t] = task[t], disk'[t] = disk[t], settling'[t] = settling[t],
           born' = born, lost' = {},
           Journaled(t)' \subseteq Journaled(t) \cup {i \in {ghosts[t]} : t \in lost}
    PROVE  EndInv(t)' /\ Standing(t)
<1>1. /\ ~ Exists(t)' /\ Final(t)' = Final(t) /\ Final(t) = Plain(disk[t])
      /\ ~ EndedEntry(t)' /\ ~ EndedEntry(t)
  BY DEF Exists, Final, EndedEntry
<1>2. /\ Finished(ghosts[t]) <=> Finished(disk[t])
      /\ Finished(ghosts[t]) => Plain(ghosts[t]) = Final(t)
      /\ writes[t] = <<>>
  BY DEF EndInv, GhostInv
<1>3. /\ Finished(ghosts'[t]) <=> Finished(ghosts[t])
      /\ Plain(ghosts'[t]) = Plain(ghosts[t])
      /\ ghosts'[t].reminded => Finished(ghosts[t])
  <2>1. CASE ghosts'[t] = ghosts[t]
    BY <2>1 DEF EndInv, GhostInv
  <2>2. CASE Finished(ghosts[t]) /\ ghosts'[t] = [ghosts[t] EXCEPT !.reminded = TRUE]
    BY <2>2 DEF Finished, Plain, Infos
  <2> QED
    BY <2>1, <2>2
<1>4. \A i \in Written(t)' : i = ghosts'[t] /\ Finished(ghosts[t])
  <2>1. CASE writes'[t] = writes[t]
    BY <1>2, <2>1 DEF Written
  <2>2. CASE Finished(ghosts[t]) /\ writes'[t] = <<ghosts'[t]>>
    BY <2>2 DEF Written
  <2> QED
    BY <2>1, <2>2
<1>5. Unborn(t)'
  <2>1. ~ Finished(NoInfo)
    BY DEF Finished, NoInfo, Info, NoEntry, Ends
  <2>2. t \in lost => Finished(disk[t])
    BY DEF EndInv, GhostInv, Finished, Ends
  <2> QED
    BY <2>1, <2>2 DEF EndInv, Unborn
<1>6. LivingInv(t)'
  BY <1>1 DEF EndInv, LivingInv
<1>7. SettlingInv(t)'
  BY <1>1 DEF EndInv, SettlingInv
<1>8. FilesInv(t)'
  <2>1. t \in lost => /\ ~ ghosts[t].reminded /\ Finished(disk[t]) /\ ghosts[t] = disk[t]
    BY DEF EndInv, GhostInv, Finished, Ends
  <2>2. t \in lost => ghosts[t] = Final(t)
    BY <1>1, <2>1, PlainLemma
  <2>3. \A i \in Journaled(t)' : ~ i.reminded /\ (Finished(i) => Finished(disk[t]) /\ i = Final(t))
    BY <2>1, <2>2 DEF EndInv, FilesInv
  <2> QED
    BY <1>1, <1>2, <1>3, <1>4, <2>3 DEF EndInv, FilesInv
<1>9. GhostInv(t)'
  BY <1>1, <1>2, <1>3 DEF GhostInv
<1>10. Standing(t)
  BY <1>1 DEF Standing, Open
<1> QED
  BY <1>5, <1>6, <1>7, <1>8, <1>9, <1>10 DEF EndInv

-----------------------------------------------------------------------------
(* Every step leaves every end as it is, or comes to one.                   *)

EndsInv ==
    /\ live \in durable /\ settling \in [Tasks -> Nat \cup {None}]
    /\ \A t \in Tasks : EndInv(t)

Remembered == live' \in durable' /\ \A t \in Tasks : Journaled(t)' \subseteq Journaled(t)

LEMMA InfosJournaled ==
    ASSUME JournalInv, live \in durable, NEW t \in Tasks, NEW info \in Infos,
           Record([live EXCEPT !.infos[t] = info])
    PROVE  /\ live' \in durable' /\ Journaled(t)' \subseteq Journaled(t) \cup {info}
           /\ \A u \in Tasks \ {t} : Journaled(u)' \subseteq Journaled(u)
<1> DEFINE state == [live EXCEPT !.infos[t] = info]
<1>1. state.infos[t] = info /\ \A u \in Tasks \ {t} : state.infos[u] = live.infos[u]
  BY DEF JournalInv, IsState
<1>2. live' = state /\ durable' = durable \cup {state}
  BY DEF Record
<1> HIDE DEF state
<1> QED
  BY <1>1, <1>2 DEF Journaled

LEMMA ContextJournaled ==
    ASSUME JournalInv, live \in durable, NEW c, Record([live EXCEPT !.context = c])
    PROVE  Remembered
<1> DEFINE state == [live EXCEPT !.context = c]
<1>1. state.infos = live.infos
  BY DEF JournalInv, IsState
<1>2. live' = state /\ durable' = durable \cup {state}
  BY DEF Record
<1> HIDE DEF state
<1> QED
  BY <1>1, <1>2 DEF Journaled, Remembered

LEMMA FlushJournaled == live \in durable /\ Flush => Remembered
BY DEF Flush, Journaled, Remembered

LEMMA JournalSame == live \in durable /\ UNCHANGED journalVars => Remembered
BY DEF journalVars, Journaled, Remembered

LEMMA OneTaskEnds ==
    ASSUME EndsInv, NEW t \in Tasks, EndInv(t)', Standing(t), live' \in durable',
           settling' \in [Tasks -> Nat \cup {None}],
           \A u \in Tasks \ {t} :
              /\ Same(u) /\ Around(u) /\ Onward(u) /\ settling'[u] = settling[u]
              /\ Journaled(u)' \subseteq Journaled(u)
    PROVE  EndsInv' /\ \A u \in Tasks : Standing(u)
<1>1. ASSUME NEW u \in Tasks \ {t} PROVE EndInv(u)' /\ Standing(u)
  BY EndUntouched DEF EndsInv
<1> QED
  BY <1>1 DEF EndsInv

LEMMA QuietEnds ==
    ASSUME EndsInv, Remembered, \A u \in Tasks : Onward(u),
           UNCHANGED <<taskVars, stops, settling, reported, writes, disk, ghosts, lost>>
    PROVE  EndsInv' /\ \A u \in Tasks : Standing(u)
<1>1. ASSUME NEW u \in Tasks PROVE EndInv(u)' /\ Standing(u)
  <2>1. Same(u) /\ Around(u)
    BY DEF Same, Around, taskVars
  <2> QED
    BY <2>1, EndUntouched DEF EndsInv, Remembered
<1> QED
  BY <1>1 DEF EndsInv, Remembered

(* A running entry has not been stopped for good.                           *)
LEMMA RunningLives ==
    ASSUME NEW t \in Tasks, EndInv(t), Running(t)
    PROVE  /\ Exists(t) /\ ~ EndedEntry(t) /\ stops[t]["exit"].pc # "done" /\ mode # "closing"
           /\ settling[t] = None
           /\ task[t].closed => mode = "stopping"
           /\ stops[t]["exit"].pc \notin {"idle", "suppressing"} => mode = "stopping"
           /\ mode = "stopping" => stops[t]["exit"].pc # "idle"
           /\ task[t].attached \/ task[t].spilled
<1>1. Exists(t) /\ ~ EndedEntry(t)
  BY DEF Running, Exists, EndedEntry
<1> QED
  BY <1>1 DEF EndInv, LivingInv, SettlingInv

LEMMA RegisterEnds ==
    ASSUME IInv, EndsInv, NEW t \in Tasks, Register(t)
    PROVE  EndsInv' /\ \A u \in Tasks : Standing(u)
<1> PICK armed \in BOOLEAN, attached \in BOOLEAN :
      LET e == [NoEntry EXCEPT !.status = "running", !.armed = armed,
                               !.attached = attached, !.spilled = ~ attached] IN
      /\ task' = [task EXCEPT ![t] = e]
      /\ \/ attached /\ UNCHANGED <<writes, journalVars>>
         \/ /\ ~ attached /\ Persist(t, e)
            /\ Record([live EXCEPT !.infos[t] = Info(e)])
  BY DEF Register
<1> DEFINE e == [NoEntry EXCEPT !.status = "running", !.armed = armed,
                                !.attached = attached, !.spilled = ~ attached]
<1>1. /\ e \in Entries /\ e.status = "running" /\ (e.attached \/ e.spilled) /\ ~ e.closed
  BY DEF NoEntry, Entries, Statuses
<1>2. /\ task' = [task EXCEPT ![t] = e]
      /\ \/ UNCHANGED <<writes, journalVars>>
         \/ Persist(t, e) /\ Record([live EXCEPT !.infos[t] = Info(e)])
  OBVIOUS
<1> HIDE DEF e
<1>3. Info(e) \in Infos
  BY <1>1, InfoLemma
<1>4. /\ mode \in {"up", "suppressing"} /\ t \notin born /\ born' = born \cup {t}
      /\ UNCHANGED <<mode, stops, settling, reported, disk, ghosts, lost>>
  BY DEF Register, stopVars, restoreVars
<1>5. task'[t] = e /\ \A u \in Tasks \ {t} : task'[u] = task[u] /\ writes'[u] = writes[u]
  BY <1>2 DEF IInv, TypeInv, Persist
<1>6. /\ live' \in durable' /\ Journaled(t)' \subseteq Journaled(t) \cup {Info(e)}
      /\ \A u \in Tasks \ {t} : Journaled(u)' \subseteq Journaled(u)
  BY <1>2, <1>3, InfosJournaled, JournalSame DEF IInv, EndsInv, Remembered
<1>7. writes'[t] = writes[t] \/ writes'[t] = Append(writes[t], Info(e))
  BY <1>2 DEF IInv, TypeInv, Persist
<1>8. stops[t]["exit"].pc = "idle"
  BY <1>4, TasksAssumption DEF IInv, TaskInv, EntryInv
<1>9. EndInv(t)' /\ Standing(t)
  BY <1>1, <1>4, <1>5, <1>6, <1>7, <1>8, StillRuns DEF IInv, TypeInv, EndsInv
<1>10. \A u \in Tasks \ {t} : Same(u) /\ Around(u) /\ Onward(u) /\ settling'[u] = settling[u]
  BY <1>4, <1>5 DEF Same, Around, Onward
<1> QED
  BY <1>4, <1>6, <1>9, <1>10, OneTaskEnds DEF EndsInv

(* A running task whose callers are those it had.                           *)
LEMMA RunsOn ==
    ASSUME IInv, EndsInv, NEW t \in Tasks, Running(t), Alive, mode' = mode, NEW e \in Entries,
           task' = [task EXCEPT ![t] = e], e.status = "running", e.attached \/ e.spilled,
           e.closed => task[t].closed,
           stops'[t]["exit"] = stops[t]["exit"], \A u \in Tasks \ {t} : stops'[u] = stops[u],
           writes' = writes \/ Persist(t, e),
           UNCHANGED journalVars \/ Record([live EXCEPT !.infos[t] = Info(e)]),
           UNCHANGED <<born, settling, reported, disk, ghosts, lost>>
    PROVE  EndsInv' /\ \A u \in Tasks : Standing(u)
<1>1. Info(e) \in Infos
  BY InfoLemma
<1>2. task'[t] = e /\ \A u \in Tasks \ {t} : task'[u] = task[u] /\ writes'[u] = writes[u]
  BY DEF IInv, TypeInv, Persist
<1>3. /\ live' \in durable' /\ Journaled(t)' \subseteq Journaled(t) \cup {Info(e)}
      /\ \A u \in Tasks \ {t} : Journaled(u)' \subseteq Journaled(u)
  BY <1>1, InfosJournaled, JournalSame DEF IInv, EndsInv, Remembered
<1>4. writes'[t] = writes[t] \/ writes'[t] = Append(writes[t], Info(e))
  BY DEF IInv, TypeInv, Persist
<1>5. /\ Exists(t) /\ stops[t]["exit"].pc # "done" /\ mode # "closing"
      /\ task[t].closed => mode = "stopping"
      /\ stops[t]["exit"].pc \notin {"idle", "suppressing"} => mode = "stopping"
      /\ mode = "stopping" => stops[t]["exit"].pc # "idle"
  BY RunningLives DEF EndsInv
<1>6. t \in born
  BY <1>5 DEF IInv, TaskInv, EntryInv
<1>7. EndInv(t)' /\ Standing(t)
  BY <1>2, <1>3, <1>4, <1>5, <1>6, StillRuns DEF IInv, TypeInv, EndsInv, Alive
<1>8. \A u \in Tasks \ {t} : Same(u) /\ Around(u) /\ Onward(u) /\ settling'[u] = settling[u]
  BY <1>2 DEF Same, Around, Onward
<1> QED
  BY <1>3, <1>7, <1>8, OneTaskEnds DEF EndsInv

LEMMA SpillEnds ==
    ASSUME IInv, EndsInv, NEW t \in Tasks, Spill(t)
    PROVE  EndsInv' /\ \A u \in Tasks : Standing(u)
<1> DEFINE e == [task[t] EXCEPT !.spilled = TRUE]
<1>1. e \in Entries /\ e.status = "running" /\ e.spilled /\ e.closed = task[t].closed
  BY DEF Spill, Running, IInv, TypeInv, Entries
<1>2. /\ Alive /\ Running(t) /\ task' = [task EXCEPT ![t] = e]
      /\ UNCHANGED <<mode, born, stops, settling, reported, writes, disk, journalVars, ghosts, lost>>
  BY DEF Spill, stopVars, restoreVars
<1> HIDE DEF e
<1> QED
  BY <1>1, <1>2, RunsOn

LEMMA DetachEnds ==
    ASSUME IInv, EndsInv, NEW t \in Tasks, Detach(t)
    PROVE  EndsInv' /\ \A u \in Tasks : Standing(u)
<1> PICK armed \in BOOLEAN :
      LET e == [task[t] EXCEPT !.attached = FALSE, !.spilled = TRUE, !.armed = armed] IN
      /\ task' = [task EXCEPT ![t] = e]
      /\ Persist(t, e)
      /\ Record([live EXCEPT !.infos[t] = Info(e)])
  BY DEF Detach
<1> DEFINE e == [task[t] EXCEPT !.attached = FALSE, !.spilled = TRUE, !.armed = armed]
<1>1. e \in Entries /\ e.status = "running" /\ e.spilled /\ e.closed = task[t].closed
  <2>1. task[t] \in Entries /\ task[t].status = "running"
    BY DEF Detach, Running, IInv, TypeInv
  <2> DEFINE d == task[t]
  <2> HIDE DEF d
  <2> QED
    BY <2>1 DEF Entries, d
<1>2. /\ task' = [task EXCEPT ![t] = e] /\ Persist(t, e)
      /\ Record([live EXCEPT !.infos[t] = Info(e)])
      /\ Alive /\ Running(t)
      /\ UNCHANGED <<mode, born, stops, settling, reported, disk, ghosts, lost>>
  BY DEF Detach, stopVars, restoreVars
<1> HIDE DEF e
<1> QED
  BY <1>1, <1>2, RunsOn

LEMMA SuppressEnds ==
    ASSUME IInv, EndsInv, NEW t \in Tasks, Suppress(t)
    PROVE  EndsInv' /\ \A u \in Tasks : Standing(u)
<1>1. PICK e \in {task[t], [task[t] EXCEPT !.suppressed = TRUE]}, n \in Nat :
        /\ task' = [task EXCEPT ![t] = e] /\ (writes' = writes \/ Persist(t, e))
        /\ At(t, "tool", "suppressing", n)
  <2>1. Behind(t) + 1 \in Nat /\ task = [task EXCEPT ![t] = task[t]]
    BY LenProperties DEF IInv, TypeInv, Behind
  <2> QED
    BY <2>1 DEF Suppress
<1>2. /\ "tool" \in Callers /\ Running(t) /\ Alive
      /\ UNCHANGED <<mode, born, settling, reported, disk, journalVars, ghosts, lost>>
  BY DEF Suppress, Alive, restoreVars
<1>3. /\ e \in Entries /\ e.status = "running" /\ (e.attached \/ e.spilled)
      /\ e.closed = task[t].closed
  <2>1. task[t] \in Entries /\ task[t].status = "running" /\ (task[t].attached \/ task[t].spilled)
    BY <1>2, RunningLives DEF Running, EndsInv, IInv, TypeInv
  <2>2. e = task[t] \/ e = [task[t] EXCEPT !.suppressed = TRUE]
    BY <1>1
  <2> DEFINE d == task[t]
  <2> HIDE DEF d
  <2>3. CASE e = task[t]
    BY <2>1, <2>3
  <2>4. CASE e = [d EXCEPT !.suppressed = TRUE]
    BY <2>1, <2>4 DEF Entries, d
  <2> QED
    BY <2>2, <2>3, <2>4 DEF d
<1>4. stops'[t]["exit"] = stops[t]["exit"] /\ \A u \in Tasks \ {t} : stops'[u] = stops[u]
  <2>1. "suppressing" \in Places /\ "exit" \in Callers \ {"tool"}
    BY TasksAssumption DEF Places
  <2> QED
    BY <1>1, <1>2, <2>1, AtLemma DEF IInv
<1> QED
  BY <1>1, <1>2, <1>3, <1>4, RunsOn

(* settleTask().                                                            *)
LEMMA SettleEnds ==
    ASSUME IInv, EndsInv, NEW t \in Tasks, Running(t), Alive, NEW status \in Ends \ {"lost"},
           NEW closed \in BOOLEAN, closed => mode = "stopping", Settle(t, status, closed),
           stops'[t]["exit"].pc = stops[t]["exit"].pc
             \/ (stops[t]["exit"].pc = "force" /\ stops'[t]["exit"].pc \in {"settling", "answer"}),
           \A u \in Tasks \ {t} : stops'[u] = stops[u],
           UNCHANGED <<mode, born, reported, disk, journalVars, ghosts, lost>>
    PROVE  EndsInv' /\ \A u \in Tasks : Standing(u)
<1> DEFINE e == Ended(t, status, closed)
<1>1. /\ e \in Entries /\ e.status = status /\ e.spilled = task[t].spilled
      /\ e.attached = task[t].attached /\ (e.closed => closed)
  <2> DEFINE d == task[t]
             b == status = "killed" /\ closed
  <2>1. d \in Entries /\ b \in BOOLEAN /\ status \in Statuses /\ (b => closed)
    BY DEF IInv, TypeInv, Statuses
  <2> DEFINE f == [d EXCEPT !.status = status, !.armed = FALSE, !.closed = b]
  <2> HIDE DEF d, b
  <2>2. /\ f \in Entries /\ f.status = status /\ f.spilled = d.spilled
        /\ f.attached = d.attached /\ f.closed = b
    BY <2>1 DEF Entries
  <2> QED
    BY <2>1, <2>2 DEF d, b, Ended
<1>2. /\ task' = [task EXCEPT ![t] = e]
      /\ \/ e.spilled /\ Persist(t, e) /\ settling' = [settling EXCEPT ![t] = Len(writes[t]) + 1]
         \/ ~ e.spilled /\ UNCHANGED <<writes, settling>>
  BY DEF Settle, Behind
<1> HIDE DEF e
<1>3. Len(writes[t]) \in Nat
  BY LenProperties DEF IInv, TypeInv
<1>4. /\ task'[t] = e /\ settling' \in [Tasks -> Nat \cup {None}]
      /\ e.spilled => writes'[t] = Append(writes[t], Info(e)) /\ settling'[t] = Len(writes[t]) + 1
      /\ ~ e.spilled => writes'[t] = writes[t] /\ settling'[t] = settling[t]
      /\ \A u \in Tasks \ {t} :
            task'[u] = task[u] /\ writes'[u] = writes[u] /\ settling'[u] = settling[u]
  <2> DEFINE w == Append(writes[t], Info(e))
             n == Len(writes[t]) + 1
  <2>1. n \in Nat
    BY <1>3
  <2>2. \/ e.spilled /\ writes' = [writes EXCEPT ![t] = w] /\ settling' = [settling EXCEPT ![t] = n]
        \/ ~ e.spilled /\ UNCHANGED <<writes, settling>>
    BY <1>2 DEF Persist
  <2> HIDE DEF w, n
  <2>3. /\ writes = [u \in Tasks |-> writes[u]] /\ task = [u \in Tasks |-> task[u]]
        /\ settling \in [Tasks -> Nat \cup {None}]
    BY DEF IInv, TypeInv, EndsInv
  <2>4. task'[t] = e /\ \A u \in Tasks \ {t} : task'[u] = task[u]
    BY <1>2, <2>3
  <2>5. CASE e.spilled /\ writes' = [writes EXCEPT ![t] = w] /\ settling' = [settling EXCEPT ![t] = n]
    <3>1. writes'[t] = w /\ \A u \in Tasks \ {t} : writes'[u] = writes[u]
      BY <2>3, <2>5
    <3>2. /\ settling'[t] = n /\ \A u \in Tasks \ {t} : settling'[u] = settling[u]
          /\ settling' \in [Tasks -> Nat \cup {None}]
      BY <2>1, <2>3, <2>5
    <3> QED
      BY <2>4, <2>5, <3>1, <3>2 DEF w, n
  <2>6. CASE ~ e.spilled /\ UNCHANGED <<writes, settling>>
    BY <2>3, <2>4, <2>6
  <2> QED
    BY <2>2, <2>5, <2>6
<1>5. t \in born
  BY RunningLives DEF IInv, TaskInv, EntryInv, EndsInv
<1>6. live' \in durable' /\ \A u \in Tasks : Journaled(u)' \subseteq Journaled(u)
  BY JournalSame DEF EndsInv, Remembered
<1>7. EndInv(t)' /\ Standing(t)
  BY <1>1, <1>4, <1>5, <1>6, TaskEnds DEF IInv, TypeInv, EndsInv
<1>8. \A u \in Tasks \ {t} : Same(u) /\ Around(u) /\ Onward(u)
  BY <1>4 DEF Same, Around, Onward
<1> QED
  BY <1>4, <1>6, <1>7, <1>8, OneTaskEnds

LEMMA BodyEndsEnds ==
    ASSUME IInv, EndsInv, NEW t \in Tasks, BodyEnds(t)
    PROVE  EndsInv' /\ \A u \in Tasks : Standing(u)
<1>1. PICK status \in {"completed", "killed"} : Settle(t, Coerced(t, status), task[t].closed)
  BY DEF BodyEnds
<1>2. /\ Alive /\ Running(t)
      /\ UNCHANGED <<mode, born, stops, reported, disk, journalVars, ghosts, lost>>
  BY DEF BodyEnds, restoreVars
<1>3. /\ Coerced(t, status) \in Ends \ {"lost"} /\ task[t].closed \in BOOLEAN
  BY DEF Coerced, Ends, IInv, TypeInv, Entries
<1>4. task[t].closed => mode = "stopping"
  BY <1>2, RunningLives DEF EndsInv
<1> QED
  BY <1>1, <1>2, <1>3, <1>4, SettleEnds

LEMMA SettleReturnsEnds ==
    ASSUME IInv, EndsInv, NEW t \in Tasks, SettleReturns(t)
    PROVE  /\ EndsInv' /\ \A u \in Tasks : Standing(u)
           /\ EndedEntry(t) /\ disk[t] = Final(t)
<1>1. /\ settling[t] = 0 /\ settling' = [settling EXCEPT ![t] = None]
      /\ UNCHANGED <<mode, taskVars, reported, writes, disk, ghosts, lost>>
  BY DEF SettleReturns, restoreVars
<1>2. Info(task[t]) \in Infos
  BY InfoLemma DEF IInv, TypeInv
<1>3. /\ live' \in durable' /\ Journaled(t)' \subseteq Journaled(t) \cup {Info(task[t])}
      /\ \A u \in Tasks \ {t} : Journaled(u)' \subseteq Journaled(u)
  <2>1. UNCHANGED journalVars \/ Record([live EXCEPT !.infos[t] = Info(task[t])])
    BY DEF SettleReturns
  <2> QED
    BY <1>2, <2>1, InfosJournaled, JournalSame DEF IInv, EndsInv, Remembered
<1> DEFINE next == [c \in Callers |-> IF stops[t][c].pc = "settling"
                                      THEN [pc |-> "answer", ahead |-> Behind(t)]
                                      ELSE stops[t][c]]
<1>4. stops' = [stops EXCEPT ![t] = next]
  BY DEF SettleReturns
<1>5. /\ stops'[t] = next /\ \A u \in Tasks \ {t} : stops'[u] = stops[u]
  BY <1>4 DEF IInv, TypeInv
<1>6. \/ stops'[t]["exit"].pc = stops[t]["exit"].pc
      \/ stops[t]["exit"].pc = "settling" /\ stops'[t]["exit"].pc = "answer"
  BY <1>5, TasksAssumption
<1> HIDE DEF next
<1>7. settling' \in [Tasks -> Nat \cup {None}] /\ settling'[t] = None
      /\ \A u \in Tasks \ {t} : settling'[u] = settling[u]
  BY <1>1 DEF EndsInv
<1>8. EndInv(t)' /\ Standing(t) /\ EndedEntry(t) /\ disk[t] = Final(t)
  BY <1>1, <1>3, <1>6, <1>7, EndRecorded DEF IInv, TypeInv, EndsInv, taskVars
<1>9. \A u \in Tasks \ {t} : Same(u) /\ Around(u) /\ Onward(u)
  BY <1>1, <1>5 DEF Same, Around, Onward, taskVars
<1> QED
  BY <1>3, <1>7, <1>8, <1>9, OneTaskEnds

(* Only the callers of one task go on.                                      *)
LEMMA CallsEnd ==
    ASSUME IInv, EndsInv, NEW t \in Tasks, Exists(t), mode' = mode,
           \/ stops'[t]["exit"].pc = stops[t]["exit"].pc
           \/ /\ mode = "stopping" /\ stops'[t]["exit"].pc \notin {"idle", "suppressing"}
              /\ stops'[t]["exit"].pc = "done" => EndedEntry(t) /\ writes[t] = <<>>,
           \A u \in Tasks \ {t} : stops'[u] = stops[u] /\ reported'[u] = reported[u],
           UNCHANGED <<taskVars, settling, writes, disk, journalVars, ghosts, lost>>
    PROVE  EndsInv' /\ \A u \in Tasks : Standing(u)
<1>1. live' \in durable' /\ \A u \in Tasks : Journaled(u)' \subseteq Journaled(u)
  BY JournalSame DEF EndsInv, Remembered
<1>2. EndInv(t)' /\ Standing(t)
  BY <1>1, OnlyCalls DEF EndsInv, taskVars
<1>3. \A u \in Tasks \ {t} : Same(u) /\ Around(u) /\ Onward(u)
  BY DEF Same, Around, Onward, taskVars
<1> QED
  BY <1>1, <1>2, <1>3, OneTaskEnds DEF EndsInv

(* A call of the closing agent that is under way.                           *)
LEMMA ExitUnderWay ==
    ASSUME NEW t \in Tasks, EndInv(t), Exists(t),
           stops[t]["exit"].pc \notin {"idle", "suppressing", "done"}
    PROVE  mode = "stopping"
BY DEF EndInv, LivingInv

LEMMA StopEnds ==
    ASSUME IInv, EndsInv, NEW t \in Tasks, NEW c \in Callers, Stop(t, c)
    PROVE  EndsInv' /\ \A u \in Tasks : Standing(u)
<1>1. /\ Alive /\ Exists(t) /\ c # "exit"
      /\ task' = [task EXCEPT ![t] = Stopped(t, c)]
      /\ stops' = [stops EXCEPT ![t] = [stops[t] EXCEPT ![c] = StopBegun(t)]]
      /\ UNCHANGED <<mode, born, settling, reported, writes, disk, journalVars, ghosts, lost>>
  BY DEF Stop, restoreVars
<1>2. stops'[t]["exit"] = stops[t]["exit"] /\ \A u \in Tasks \ {t} : stops'[u] = stops[u]
  <2> DEFINE call == [stops[t] EXCEPT ![c] = StopBegun(t)]
  <2>1. call["exit"] = stops[t]["exit"]
    BY <1>1, TasksAssumption DEF IInv, TypeInv
  <2> HIDE DEF call
  <2>2. stops' = [stops EXCEPT ![t] = call]
    BY <1>1 DEF call
  <2> QED
    BY <2>1, <2>2 DEF IInv, TypeInv
<1>3. CASE Running(t)
  <2> DEFINE e == Stopped(t, c)
  <2>1. /\ e \in Entries /\ e.status = "running" /\ e.spilled = task[t].spilled
        /\ e.attached = task[t].attached /\ ~ e.closed
    <3>1. TypeInv /\ task[t].status = "running"
      BY <1>3 DEF IInv, Running
    <3> QED
      BY <1>1, <1>3, <3>1, StoppedLemma
  <2>2. task[t].attached \/ task[t].spilled
    BY <1>3, RunningLives DEF EndsInv
  <2>3. task' = [task EXCEPT ![t] = e]
    BY <1>1
  <2> HIDE DEF e
  <2> QED
    BY <1>1, <1>2, <1>3, <2>1, <2>2, <2>3, RunsOn
<1>4. CASE ~ Running(t)
  <2>1. task' = task
    BY <1>1, <1>4 DEF Stopped, IInv, TypeInv
  <2> QED
    BY <1>1, <1>2, <2>1, CallsEnd DEF taskVars
<1> QED
  BY <1>3, <1>4

LEMMA GraceEndsEnds ==
    ASSUME IInv, EndsInv, NEW t \in Tasks, NEW c \in Callers, GraceEnds(t, c)
    PROVE  EndsInv' /\ \A u \in Tasks : Standing(u)
<1>1. /\ stops[t][c].pc = "grace"
      /\ UNCHANGED <<mode, taskVars, settling, reported, writes, disk, journalVars, ghosts, lost>>
  BY DEF GraceEnds, restoreVars
<1>2. Exists(t)
  BY <1>1 DEF IInv, TaskInv, EntryInv
<1>3. PICK pc \in {"force", "answer"}, n \in Nat : At(t, c, pc, n)
  <2>1. Len(writes[t]) \in Nat
    BY LenProperties DEF IInv, TypeInv
  <2> QED
    BY <2>1 DEF GraceEnds, Behind
<1>4. /\ \A u \in Tasks \ {t} : stops'[u] = stops[u]
      /\ \A d \in Callers \ {c} : stops'[t][d] = stops[t][d]
      /\ stops'[t][c].pc = pc
  BY <1>3, AtLemma DEF IInv, Places
<1>5. c = "exit" => mode = "stopping"
  BY <1>1, <1>2, ExitUnderWay DEF EndsInv
<1> QED
  BY <1>1, <1>2, <1>4, <1>5, CallsEnd, TasksAssumption

LEMMA ForceReturnsEnds ==
    ASSUME IInv, EndsInv, NEW t \in Tasks, NEW c \in Callers, ForceReturns(t, c)
    PROVE  EndsInv' /\ \A u \in Tasks : Standing(u)
<1>1. /\ Alive /\ stops[t][c].pc = "force"
      /\ UNCHANGED <<mode, born, reported, disk, journalVars, ghosts, lost>>
  BY DEF ForceReturns, restoreVars
<1>2. Exists(t)
  BY <1>1 DEF IInv, TaskInv, EntryInv
<1>3. c = "exit" => mode = "stopping"
  BY <1>1, <1>2, ExitUnderWay DEF EndsInv
<1>4. PICK pc \in {"settling", "answer"}, n \in Nat : At(t, c, pc, n)
  <2>1. Len(writes[t]) \in Nat
    BY LenProperties DEF IInv, TypeInv
  <2> QED
    BY <2>1 DEF ForceReturns, Behind
<1>5. /\ \A u \in Tasks \ {t} : stops'[u] = stops[u]
      /\ \A d \in Callers \ {c} : stops'[t][d] = stops[t][d]
      /\ stops'[t][c].pc = pc
  BY <1>4, AtLemma DEF IInv, Places
<1>6. CASE ~ Running(t)
  <2>1. UNCHANGED <<task, writes, settling>>
    BY <1>6 DEF ForceReturns
  <2> QED
    BY <1>1, <1>2, <1>3, <1>5, <2>1, CallsEnd, TasksAssumption DEF taskVars
<1>7. CASE Running(t)
  <2> DEFINE status == IF c = "deadline" THEN "timed_out" ELSE "killed"
  <2>1. status \in Ends \ {"lost"} /\ (c = "exit") \in BOOLEAN
    BY DEF Ends
  <2>2. Settle(t, status, c = "exit")
    BY <1>7 DEF ForceReturns
  <2>3. \/ stops'[t]["exit"].pc = stops[t]["exit"].pc
        \/ (stops[t]["exit"].pc = "force" /\ stops'[t]["exit"].pc \in {"settling", "answer"})
    BY <1>1, <1>5, TasksAssumption
  <2> HIDE DEF status
  <2> QED
    BY <1>1, <1>3, <1>5, <1>7, <2>1, <2>2, <2>3, SettleEnds
<1> QED
  BY <1>6, <1>7

LEMMA AnswerEnds ==
    ASSUME IInv, EndsInv, NEW t \in Tasks, NEW c \in Callers, Answer(t, c)
    PROVE  EndsInv' /\ \A u \in Tasks : Standing(u)
<1>1. /\ stops[t][c].pc = "answer" /\ stops[t][c].ahead = 0 /\ At(t, c, "done", 0)
      /\ UNCHANGED <<mode, taskVars, settling, writes, disk, journalVars, ghosts, lost>>
  BY DEF Answer, restoreVars
<1>2. Exists(t) /\ EndedEntry(t) /\ Len(writes[t]) = 0
  BY <1>1 DEF IInv, TaskInv, EntryInv
<1>3. writes[t] = <<>>
  BY <1>2, EmptySeq DEF IInv, TypeInv
<1>4. /\ \A u \in Tasks \ {t} : stops'[u] = stops[u]
      /\ \A d \in Callers \ {c} : stops'[t][d] = stops[t][d]
      /\ stops'[t][c].pc = "done"
  BY <1>1, AtLemma DEF IInv, Places
<1>5. \A u \in Tasks \ {t} : reported'[u] = reported[u]
  BY DEF Answer, IInv, TypeInv
<1>6. c = "exit" => mode = "stopping"
  BY <1>1, <1>2, ExitUnderWay DEF EndsInv
<1> QED
  BY <1>1, <1>2, <1>3, <1>4, <1>5, <1>6, CallsEnd, TasksAssumption

LEMMA WriteLandsEnds ==
    ASSUME IInv, EndsInv, NEW t \in Tasks, WriteLands(t)
    PROVE  EndsInv' /\ \A u \in Tasks : Standing(u)
<1> DEFINE ahead == IF settling[t] \in {None, 0} THEN settling[t] ELSE settling[t] - 1
           next == [c \in Callers |-> OneLess(stops[t][c])]
<1>1. /\ writes[t] # <<>>
      /\ disk' = [disk EXCEPT ![t] = Head(writes[t])]
      /\ writes' = [writes EXCEPT ![t] = Tail(writes[t])]
      /\ settling' = [settling EXCEPT ![t] = ahead]
      /\ stops' = [stops EXCEPT ![t] = next]
      /\ UNCHANGED <<mode, taskVars, reported, journalVars, ghosts, lost>>
  BY DEF WriteLands, restoreVars
<1>2. ahead \in Nat \cup {None}
  BY DEF EndsInv
<1>3. stops'[t] = next /\ \A u \in Tasks \ {t} : stops'[u] = stops[u]
  BY <1>1 DEF IInv, TypeInv
<1>4. stops'[t]["exit"].pc = stops[t]["exit"].pc
  <2>1. stops'[t]["exit"] = OneLess(stops[t]["exit"])
    BY <1>3, TasksAssumption
  <2>2. stops[t]["exit"] \in Calls
    BY TasksAssumption DEF IInv, TypeInv
  <2> QED
    BY <2>1, <2>2 DEF OneLess, Calls
<1> HIDE DEF next
<1>5. /\ disk'[t] = Head(writes[t]) /\ writes'[t] = Tail(writes[t])
      /\ \A u \in Tasks \ {t} : disk'[u] = disk[u] /\ writes'[u] = writes[u]
  BY <1>1 DEF IInv, TypeInv
<1>6. /\ settling' \in [Tasks -> Nat \cup {None}] /\ settling'[t] = ahead
      /\ \A u \in Tasks \ {t} : settling'[u] = settling[u]
  <2> HIDE DEF ahead
  <2> QED
    BY <1>1, <1>2 DEF EndsInv
<1>7. live' \in durable' /\ \A u \in Tasks : Journaled(u)' \subseteq Journaled(u)
  BY <1>1, JournalSame DEF EndsInv, Remembered
<1>8. EndInv(t)' /\ Standing(t)
  BY <1>1, <1>4, <1>5, <1>6, <1>7, FileWritten DEF IInv, TypeInv, EndsInv, taskVars
<1>9. \A u \in Tasks \ {t} : Same(u) /\ Around(u) /\ Onward(u)
  BY <1>1, <1>3, <1>5 DEF Same, Around, Onward, taskVars
<1> HIDE DEF ahead
<1> QED
  BY <1>6, <1>7, <1>8, <1>9, OneTaskEnds

LEMMA MarkLostEnds ==
    ASSUME IInv, EndsInv, NEW t \in Tasks, MarkLost(t)
    PROVE  EndsInv' /\ \A u \in Tasks : Standing(u)
<1>1. /\ mode = "loading" /\ ghosts[t].status = "running"
      /\ ghosts' = [ghosts EXCEPT ![t] = Lost(t)] /\ disk' = [disk EXCEPT ![t] = Lost(t)]
      /\ lost' = lost \cup {t}
      /\ UNCHANGED <<mode, taskVars, stops, settling, reported, writes, journalVars>>
  BY DEF MarkLost, stopVars
<1>2. /\ ghosts'[t] = Lost(t) /\ disk'[t] = Lost(t)
      /\ \A u \in Tasks \ {t} : ghosts'[u] = ghosts[u] /\ disk'[u] = disk[u]
  BY <1>1 DEF IInv, TypeInv
<1>3. ~ Exists(t)
  BY <1>1 DEF IInv, TaskInv, EntryInv, Alive
<1>4. live' \in durable' /\ \A u \in Tasks : Journaled(u)' \subseteq Journaled(u)
  BY <1>1, JournalSame DEF EndsInv, Remembered
<1>5. EndInv(t)' /\ Standing(t)
  BY <1>1, <1>2, <1>3, <1>4, LostInFile DEF IInv, TypeInv, EndsInv, taskVars
<1>6. \A u \in Tasks \ {t} : Same(u) /\ Around(u) /\ Onward(u) /\ settling'[u] = settling[u]
  BY <1>1, <1>2 DEF Same, Around, Onward, taskVars
<1> QED
  BY <1>1, <1>4, <1>5, <1>6, OneTaskEnds DEF EndsInv

LEMMA ContextStepsEnds ==
    ASSUME IInv, EndsInv, ContextSteps
    PROVE  EndsInv' /\ \A t \in Tasks : Standing(t)
<1> USE DEF stopVars, restoreVars
<1>1. UNCHANGED <<taskVars, stops, settling, reported, writes, disk, ghosts, lost>>
  BY DEF ContextSteps, Prompt, Undo, Reconcile, UndoEnds, BuildEnds, RestoreNext, Deliver, Drop,
         CancelTurns, RestoreEnds
<1>2. \A t \in Tasks : Onward(t)
  <2>1. CASE CancelTurns
    <3> SUFFICES ASSUME NEW t \in Tasks, Exists(t) PROVE stops[t]["exit"].pc = "done"
      BY <2>1 DEF CancelTurns, Onward
    <3>1. mode = "stopping" /\ stops[t]["exit"].pc \in {"idle", "done"}
      BY <2>1 DEF CancelTurns
    <3> QED
      BY <3>1 DEF EndsInv, EndInv, LivingInv
  <2>2. CASE RestoreEnds
    BY <2>2 DEF RestoreEnds, Onward
  <2>3. CASE mode' = mode
    BY <2>3 DEF Onward
  <2>4. CancelTurns \/ RestoreEnds \/ mode' = mode
    BY DEF ContextSteps, Prompt, Undo, Reconcile, UndoEnds, BuildEnds, RestoreNext, Deliver, Drop
  <2> QED
    BY <2>1, <2>2, <2>3, <2>4
<1>3. \/ UNCHANGED journalVars \/ Flush
      \/ \E c : Record([live EXCEPT !.context = c])
  BY DEF ContextSteps, Prompt, Undo, Reconcile, UndoEnds, BuildEnds, RestoreNext, Deliver, Drop,
         CancelTurns, RestoreEnds, Tell
<1>4. Remembered
  BY <1>3, JournalSame, FlushJournaled, ContextJournaled DEF IInv, EndsInv
<1> QED
  BY <1>1, <1>2, <1>4, QuietEnds

LEMMA CloseEnds ==
    ASSUME IInv, EndsInv, Close
    PROVE  EndsInv' /\ \A t \in Tasks : Standing(t)
<1> DEFINE quiet == {t \in Tasks : Running(t) /\ ~ task[t].attached /\ ~ task[t].suppressed}
           e(t) == [task[t] EXCEPT !.suppressed = TRUE]
           call(t) == [stops[t] EXCEPT !["exit"] = [pc |-> "suppressing", ahead |-> Behind(t) + 1]]
<1>1. /\ mode = "up" /\ mode' = "suppressing"
      /\ task' = [t \in Tasks |-> IF t \in quiet THEN e(t) ELSE task[t]]
      /\ writes' = [t \in Tasks |-> IF t \in quiet THEN Append(writes[t], Info(e(t)))
                                     ELSE writes[t]]
      /\ stops' = [t \in Tasks |-> IF t \in quiet THEN call(t) ELSE stops[t]]
      /\ UNCHANGED <<born, settling, reported, disk, journalVars, ghosts, lost>>
  BY DEF Close, restoreVars
<1>2. live' \in durable' /\ \A t \in Tasks : Journaled(t)' \subseteq Journaled(t)
  BY <1>1, JournalSame DEF EndsInv, Remembered
<1>3. ASSUME NEW t \in Tasks PROVE EndInv(t)' /\ Standing(t)
  <2>1. CASE t \notin quiet
    <3>1. Same(t) /\ Around(t) /\ Onward(t) /\ settling'[t] = settling[t]
      BY <1>1, <2>1 DEF Same, Around, Onward
    <3> QED
      BY <1>2, <3>1, EndUntouched DEF EndsInv
  <2>2. CASE t \in quiet
    <3>1. /\ Running(t) /\ task'[t] = e(t) /\ stops'[t] = call(t)
          /\ writes'[t] = Append(writes[t], Info(e(t)))
      BY <1>1, <2>2
    <3>2. /\ e(t) \in Entries /\ e(t).status = "running" /\ e(t).closed = task[t].closed
          /\ e(t).spilled = task[t].spilled
      <4>1. task[t] \in Entries /\ task[t].status = "running"
        BY <2>2 DEF IInv, TypeInv, Running
      <4> QED
        BY <4>1 DEF Entries
    <3>3. stops'[t]["exit"].pc = "suppressing"
      BY <3>1, TasksAssumption DEF IInv, TypeInv
    <3>4. task[t].spilled /\ ~ task[t].closed /\ t \in born
      BY <1>1, <2>2, <3>1, RunningLives DEF IInv, TaskInv, EntryInv, EndsInv
    <3> HIDE DEF e, call
    <3> QED
      BY <1>1, <1>2, <3>1, <3>2, <3>3, <3>4, StillRuns DEF IInv, TypeInv, EndsInv
  <2> QED
    BY <2>1, <2>2
<1> QED
  BY <1>1, <1>2, <1>3 DEF EndsInv

LEMMA StopAllEnds ==
    ASSUME IInv, EndsInv, StopAll
    PROVE  EndsInv' /\ \A t \in Tasks : Standing(t)
<1> DEFINE call(t) == [stops[t] EXCEPT !["exit"] = StopBegun(t)]
<1>1. /\ mode = "suppressing" /\ mode' = "stopping"
      /\ task' = [t \in Tasks |-> IF Exists(t) THEN Stopped(t, "exit") ELSE task[t]]
      /\ stops' = [t \in Tasks |-> IF Exists(t) THEN call(t) ELSE stops[t]]
      /\ UNCHANGED <<born, settling, reported, writes, disk, journalVars, ghosts, lost>>
  BY DEF StopAll, restoreVars
<1>2. live' \in durable' /\ \A t \in Tasks : Journaled(t)' \subseteq Journaled(t)
  BY <1>1, JournalSame DEF EndsInv, Remembered
<1>3. ASSUME NEW t \in Tasks PROVE EndInv(t)' /\ Standing(t)
  <2>1. CASE ~ Exists(t)
    <3>1. Same(t) /\ Around(t) /\ Onward(t) /\ settling'[t] = settling[t]
      BY <1>1, <2>1 DEF Same, Around, Onward
    <3> QED
      BY <1>2, <3>1, EndUntouched DEF EndsInv
  <2>2. CASE Exists(t)
    <3>1. task'[t] = Stopped(t, "exit") /\ stops'[t] = call(t)
      BY <1>1, <2>2
    <3>2. stops'[t]["exit"] = StopBegun(t)
      BY <3>1, TasksAssumption DEF IInv, TypeInv
    <3> HIDE DEF call
    <3>3. CASE Running(t)
      <4>1. /\ task'[t] \in Entries /\ task'[t].status = "running"
            /\ task'[t].spilled = task[t].spilled /\ task'[t].attached = task[t].attached
        BY <3>1, <3>3, StoppedLemma, TasksAssumption DEF IInv, Running
      <4>2. stops'[t]["exit"].pc = "grace"
        BY <3>2, <3>3 DEF StopBegun
      <4>3. (task[t].attached \/ task[t].spilled) /\ t \in born
        BY <3>3, RunningLives DEF IInv, TaskInv, EntryInv, EndsInv
      <4> QED
        BY <1>1, <1>2, <3>3, <4>1, <4>2, <4>3, StillRuns DEF IInv, TypeInv, EndsInv
    <3>4. CASE ~ Running(t)
      <4>1. task'[t] = task[t]
        BY <3>1, <3>4 DEF Stopped
      <4>2. stops'[t]["exit"].pc = "answer"
        BY <3>2, <3>4 DEF StopBegun
      <4> QED
        BY <1>1, <1>2, <2>2, <4>1, <4>2, OnlyCalls DEF EndsInv
    <3> QED
      BY <3>3, <3>4
  <2> QED
    BY <2>1, <2>2
<1> QED
  BY <1>1, <1>2, <1>3 DEF EndsInv

(* What is left of a task when the process is gone.                         *)
Left(t) ==
    /\ ~ Exists(t)'
    /\ Finished(disk[t]) => Final(t)' = Final(t)
    /\ ~ Finished(disk[t]) => ~ Finished(Final(t)')

LEMMA DisposeEnds ==
    ASSUME IInv, EndsInv, Dispose
    PROVE  /\ EndsInv' /\ \A t \in Tasks : Left(t)
           /\ \A t \in Tasks : Exists(t) => EndedEntry(t) /\ writes[t] = <<>>
<1>1. /\ Gone /\ Flush /\ mode = "closing" /\ UNCHANGED <<born, writes, disk>>
  BY DEF Dispose
<1>2. live' \in durable' /\ \A t \in Tasks : Journaled(t)' \subseteq Journaled(t)
  BY <1>1, FlushJournaled DEF EndsInv, Remembered
<1>3. \A t \in Tasks : Exists(t) => EndedEntry(t) /\ writes[t] = <<>>
  BY <1>1 DEF EndsInv, EndInv, LivingInv
<1>4. ASSUME NEW t \in Tasks PROVE EndInv(t)' /\ Left(t)
  BY <1>1, <1>2, <1>3, GoneTask DEF IInv, TypeInv, EndsInv, Left
<1>5. settling' \in [Tasks -> Nat \cup {None}]
  BY <1>1 DEF Gone
<1> QED
  BY <1>2, <1>3, <1>4, <1>5 DEF EndsInv

LEMMA CrashEnds ==
    ASSUME IInv, EndsInv, Crash
    PROVE  EndsInv' /\ \A t \in Tasks : Left(t)
<1>1. /\ Gone /\ writes' = [t \in Tasks |-> <<>>] /\ UNCHANGED <<born, disk>>
      /\ durable' = {live'} /\ durable' \subseteq durable
  BY DEF Crash
<1>2. live' \in durable' /\ \A t \in Tasks : Journaled(t)' \subseteq Journaled(t)
  BY <1>1 DEF Journaled
<1>3. ASSUME NEW t \in Tasks PROVE EndInv(t)' /\ Left(t)
  BY <1>1, <1>2, GoneTask DEF IInv, TypeInv, EndsInv, Left
<1>4. settling' \in [Tasks -> Nat \cup {None}]
  BY <1>1 DEF Gone
<1> QED
  BY <1>2, <1>3, <1>4 DEF EndsInv

LEMMA RestartEnds ==
    ASSUME IInv, EndsInv, Restart
    PROVE  EndsInv' /\ \A t \in Tasks : Standing(t)
<1>1. /\ mode = "down" /\ mode' = "loading"
      /\ writes' = [t \in Tasks |-> <<>>]
      /\ ghosts' = [t \in Tasks |-> Restored(live, t)]
      /\ UNCHANGED <<taskVars, settling, disk, journalVars, lost>>
  BY DEF Restart, stopVars
<1>2. live' \in durable' /\ \A t \in Tasks : Journaled(t)' \subseteq Journaled(t)
  BY <1>1, JournalSame DEF EndsInv, Remembered
<1>3. ASSUME NEW t \in Tasks PROVE EndInv(t)' /\ Standing(t)
  <2>1. ~ Exists(t)
    BY <1>1 DEF IInv, TaskInv, EntryInv, Alive
  <2>2. live.infos[t] \in Infos
    BY DEF IInv, JournalInv, IsState
  <2> QED
    BY <1>1, <1>2, <2>1, <2>2, FoundAgain DEF IInv, TypeInv, EndsInv, taskVars
<1> QED
  BY <1>1, <1>2, <1>3 DEF EndsInv

LEMMA RemindEnds ==
    ASSUME IInv, EndsInv, Remind
    PROVE  EndsInv' /\ \A t \in Tasks : Standing(t)
<1> DEFINE due == {t \in Tasks : PreviousSession(ghosts[t]) /\ ~ ghosts[t].reminded}
           marked(t) == [ghosts[t] EXCEPT !.reminded = TRUE]
           infos == [t \in Tasks |-> IF t \in lost THEN ghosts[t] ELSE live.infos[t]]
           context == live.context \o SetToSeq({Reminder(t) : t \in Untold(due)})
<1>1. /\ mode = "loading" /\ mode' = "restoring" /\ lost' = {}
      /\ Record([infos |-> infos, context |-> context])
      /\ ghosts' = [t \in Tasks |-> IF t \in due THEN marked(t) ELSE ghosts[t]]
      /\ writes' = [t \in Tasks |-> IF t \in due THEN <<marked(t)>> ELSE writes[t]]
      /\ UNCHANGED <<taskVars, settling, disk>>
  BY DEF Remind, stopVars
<1> HIDE DEF context
<1>2. live' \in durable' /\ \A t \in Tasks :
         Journaled(t)' \subseteq Journaled(t) \cup {i \in {ghosts[t]} : t \in lost}
  <2> DEFINE state == [infos |-> infos, context |-> context]
  <2>1. live' = state /\ durable' = durable \cup {state}
    BY <1>1 DEF Record
  <2>2. \A t \in Tasks : state.infos[t] = IF t \in lost THEN ghosts[t] ELSE live.infos[t]
    OBVIOUS
  <2> HIDE DEF state, infos
  <2> QED
    BY <2>1, <2>2 DEF Journaled, EndsInv
<1> HIDE DEF infos
<1>3. ASSUME NEW t \in Tasks PROVE EndInv(t)' /\ Standing(t)
  <2>1. ~ Exists(t)
    BY <1>1 DEF IInv, TaskInv, EntryInv, Alive
  <2>2. \/ ghosts'[t] = ghosts[t] /\ writes'[t] = writes[t]
        \/ /\ Finished(ghosts[t]) /\ ghosts'[t] = [ghosts[t] EXCEPT !.reminded = TRUE]
           /\ writes'[t] = <<ghosts'[t]>>
    BY <1>1 DEF PreviousSession, Finished, Ends
  <2> HIDE DEF due, marked
  <2> QED
    BY <1>1, <1>2, <2>1, <2>2, EndMarked DEF IInv, TypeInv, EndsInv, taskVars
<1> QED
  BY <1>1, <1>2, <1>3 DEF EndsInv

-----------------------------------------------------------------------------
(* What the model is told, step by step.                                    *)

NoticesInv ==
    /\ NoticeTypes /\ NoticeInv
    /\ \A t \in Tasks \ early, s \in durable : StoryInv(t, s)
    /\ \A t \in Tasks : MarkInv(t) /\ ToldInv(t)

Stable == EndsInv' /\ \A t \in Tasks : Standing(t)

LEMMA EndKinds ==
    ASSUME NEW t
    PROVE  /\ Open(t) => Finished(Final(t)) /\ ~ PreviousSession(Final(t))
           /\ PreviousSession(Final(t)) => Finished(Final(t))
BY DEF Open, Finished, PreviousSession, Ends

LEMMA FitStands == ASSUME NEW k, Fit(k), Standing(k.task) PROVE Fit(k)'
BY EndKinds DEF Fit, Standing, Open

LEMMA StoryStands ==
    ASSUME NEW t, NEW s, StoryInv(t, s), Standing(t)
    PROVE  StoryInv(t, s)'
<1>1. ASSUME NEW i \in DOMAIN s.context, s.context[i].task = t
      PROVE  IF s.context[i].kind = "notice" THEN Fit(Key(t, s.context[i].status))'
             ELSE (~ Exists(t) /\ PreviousSession(Final(t)))'
  <2>1. CASE s.context[i].kind = "notice"
    <3>1. Fit(Key(t, s.context[i].status))
      BY <1>1, <2>1 DEF StoryInv
    <3>2. Key(t, s.context[i].status).task = t
      BY DEF Key
    <3> QED
      BY <2>1, <3>1, <3>2, FitStands
  <2>2. CASE s.context[i].kind # "notice"
    <3>1. ~ Exists(t) /\ PreviousSession(Final(t))
      BY <1>1, <2>2 DEF StoryInv
    <3> QED
      BY <2>2, <3>1, EndKinds DEF Standing, PreviousSession
  <2> QED
    BY <2>1, <2>2
<1> QED
  BY <1>1 DEF StoryInv

LEMMA StorySame ==
    ASSUME NEW t, NEW s, NEW r, StoryInv(t, r), s.context = r.context
    PROVE  StoryInv(t, s)
BY DEF StoryInv

LEMMA StoryKept ==
    ASSUME NoticesInv, \A t \in Tasks : Standing(t), early' = early,
           \A s \in durable' : s \in durable \/ \A t \in Tasks \ early : StoryInv(t, s)
    PROVE  \A t \in Tasks \ early', s \in durable' : StoryInv(t, s)'
<1>1. ASSUME NEW t \in Tasks \ early, NEW s \in durable' PROVE StoryInv(t, s)'
  <2>1. StoryInv(t, s)
    BY DEF NoticesInv
  <2> QED
    BY <2>1, StoryStands
<1> QED
  BY <1>1

LEMMA MarkKept ==
    ASSUME NEW t \in Tasks, MarkInv(t), Marked(t)' => Marked(t),
           Reminded(live.context, t) => Reminded(live.context, t)' \/ t \in unreminded',
           t \in unreminded => t \in unreminded',
           mode' \in {"down", "loading"} \/ (mode \notin {"down", "loading"} /\ ghosts' = ghosts)
    PROVE  MarkInv(t)'
BY DEF MarkInv

LEMMA ToldKept ==
    ASSUME NEW t \in Tasks, ToldInv(t), Standing(t),
           mode' \in {"down", "loading"} \/ mode \notin {"down", "loading"},
           settling[t] # None => settling'[t] # None,
           undoing = "flush" => undoing' = "flush",
           building \subseteq building',
           Shown(live.context) \cup requests \cup dropped
             \subseteq Shown(live.context)' \cup requests' \cup dropped',
           undoing = "restore" \/ mode = "restoring" =>
              restoring = {} \/ (restoring' = restoring /\ (undoing' = "restore" \/ mode' = "restoring"))
    PROVE  ToldInv(t)'
<1> SUFFICES ASSUME mode' \notin {"down", "loading"}, Open(t)', ~ Open(t)' \/ settling'[t] = None
             PROVE  ToldInv(t)'
  BY DEF ToldInv
<1>1. Open(t) /\ mode \notin {"down", "loading"}
  BY DEF Standing
<1>2. Final(t)' = Final(t)
  BY <1>1, EndKinds DEF Standing
<1> QED
  BY <1>1, <1>2 DEF ToldInv

(* What is in memory about a task, if it has ended, is its end.             *)
LEMMA SeenFinal ==
    ASSUME IInv, NEW t \in Tasks, EndInv(t), mode # "down"
    PROVE  /\ Seen(t) \in Infos
           /\ Finished(Seen(t)) <=> Finished(Final(t))
           /\ Finished(Final(t)) => Plain(Seen(t)) = Final(t)
<1>1. /\ Info(task[t]) \in Infos /\ ~ Info(task[t]).reminded
      /\ ghosts[t] \in Infos /\ disk[t] \in Infos
  BY InfoLemma DEF IInv, TypeInv, Info
<1>2. CASE Exists(t)
  BY <1>1, <1>2, PlainLemma DEF Seen, Final
<1>3. CASE ~ Exists(t)
  BY <1>1, <1>3, PlainLemma DEF Seen, Final, EndInv, GhostInv
<1> QED
  BY <1>2, <1>3

(* The same, of the fields that say whether an end is told.                 *)
LEMMA SeenOpen ==
    ASSUME IInv, NEW t \in Tasks, EndInv(t), mode # "down", Finished(Final(t))
    PROVE  /\ Seen(t).status = Final(t).status /\ Seen(t).attached = Final(t).attached
           /\ Seen(t).suppressed = Final(t).suppressed
           /\ PreviousSession(Seen(t)) <=> PreviousSession(Final(t))
<1>1. Seen(t) \in Infos /\ Plain(Seen(t)) = Final(t)
  BY SeenFinal
<1> QED
  BY <1>1, PlainLemma DEF PreviousSession

-----------------------------------------------------------------------------
(* The conversation.                                                        *)

LEMMA ShownLemma ==
    ASSUME NEW c, NEW k
    PROVE  k \in Shown(c) <=>
             \E i \in DOMAIN c : c[i].kind = "notice" /\ k = Key(c[i].task, c[i].status)
BY DEF Shown, Items, Key

LEMMA RemindedLemma ==
    ASSUME NEW c, NEW t
    PROVE  Reminded(c, t) <=> \E i \in DOMAIN c : c[i] = Reminder(t)
BY DEF Reminded, Items

LEMMA ItemKinds ==
    /\ \A k \in Keys : /\ Notice(k) \in ContextItems /\ Notice(k).kind = "notice"
                       /\ Notice(k).task = k.task /\ Notice(k).status = k.status
                       /\ Key(k.task, k.status) = k
    /\ Prompted \in ContextItems /\ Prompted.kind # "notice" /\ Prompted.task \notin Tasks
    /\ \A t \in Tasks : Prompted # Reminder(t)
    /\ \A t \in Tasks : /\ Reminder(t) \in ContextItems /\ Reminder(t).kind # "notice"
                        /\ Reminder(t).task = t
    /\ \A x \in ContextItems, t \in Tasks : x.task = t /\ x.kind # "notice" => x = Reminder(t)
    /\ \A x \in ContextItems : x.kind = "notice" => Key(x.task, x.status) \in Keys
<1>1. \A k \in Keys : /\ Notice(k) \in ContextItems /\ Notice(k).kind = "notice"
                       /\ Notice(k).task = k.task /\ Notice(k).status = k.status
                       /\ Key(k.task, k.status) = k
  BY DEF Keys, Notice, ContextItems, Key
<1>2. Prompted \in ContextItems /\ Prompted.kind # "notice" /\ Prompted.task \notin Tasks
  BY TasksAssumption DEF Prompted, ContextItems
<1>3. \A t \in Tasks : /\ Reminder(t) \in ContextItems /\ Reminder(t).kind # "notice"
                        /\ Reminder(t).task = t
  BY DEF Reminder, ContextItems
<1>4. \A x \in ContextItems, t \in Tasks : x.task = t /\ x.kind # "notice" => x = Reminder(t)
  BY <1>2, <1>3 DEF ContextItems
<1>5. \A x \in ContextItems : x.kind = "notice" => Key(x.task, x.status) \in Keys
  BY <1>2, <1>3 DEF ContextItems, Key, Keys
<1> QED
  BY <1>1, <1>2, <1>3, <1>4, <1>5

LEMMA AppendContext ==
    ASSUME NEW c \in Seq(ContextItems), NEW x \in ContextItems
    PROVE  /\ Append(c, x) \in Seq(ContextItems)
           /\ DOMAIN c = 1..Len(c) /\ Len(c) \in Nat
           /\ DOMAIN Append(c, x) = 1..(Len(c) + 1) /\ Append(c, x)[Len(c) + 1] = x
           /\ \A i \in 1..Len(c) : Append(c, x)[i] = c[i]
           /\ \A k : k \in Shown(Append(c, x)) <=>
                  k \in Shown(c) \/ (x.kind = "notice" /\ k = Key(x.task, x.status))
           /\ \A t : Reminded(Append(c, x), t) <=> Reminded(c, t) \/ x = Reminder(t)
<1> DEFINE d == Append(c, x)
<1>1. /\ d \in Seq(ContextItems) /\ DOMAIN c = 1..Len(c) /\ Len(c) \in Nat
      /\ DOMAIN d = 1..(Len(c) + 1) /\ d[Len(c) + 1] = x
      /\ \A i \in 1..Len(c) : d[i] = c[i]
  OBVIOUS
<1> HIDE DEF d
<1>2. DOMAIN d = DOMAIN c \cup {Len(c) + 1}
  BY <1>1
<1>3. \A k : k \in Shown(d) <=>
                  k \in Shown(c) \/ (x.kind = "notice" /\ k = Key(x.task, x.status))
  BY <1>1, <1>2, ShownLemma
<1>4. \A t : Reminded(d, t) <=> Reminded(c, t) \/ x = Reminder(t)
  BY <1>1, <1>2, RemindedLemma
<1> QED
  BY <1>1, <1>3, <1>4 DEF d

(* Up to the last prompt.                                                   *)
LEMMA CutContext ==
    ASSUME NEW c \in Seq(ContextItems), Anchors(c) # {}
    PROVE  /\ Cut(c) \in Seq(ContextItems)
           /\ DOMAIN Cut(c) \subseteq DOMAIN c /\ \A i \in DOMAIN Cut(c) : Cut(c)[i] = c[i]
<1>1. DOMAIN c = 1..Len(c) /\ Len(c) \in Nat
  OBVIOUS
<1>2. \E i \in Anchors(c) : \A j \in Anchors(c) : j <= i
  <2> DEFINE T == {n \in Nat : \E i \in Anchors(c) : n = Len(c) - i}
  <2>1. \A i \in Anchors(c) : i \in 1..Len(c) /\ Len(c) - i \in T
    BY <1>1 DEF Anchors
  <2>2. PICK m \in T : \A k \in T : m <= k
    BY <2>1, LeastNatural
  <2>3. PICK i \in Anchors(c) : m = Len(c) - i
    OBVIOUS
  <2> HIDE DEF T
  <2>4. \A j \in Anchors(c) : j <= i
    BY <1>1, <2>1, <2>2, <2>3
  <2> QED
    BY <2>4
<1> DEFINE last == CHOOSE i \in Anchors(c) : \A j \in Anchors(c) : j <= i
<1>3. last \in 1..Len(c)
  BY <1>1, <1>2 DEF Anchors
<1>4. Cut(c) = SubSeq(c, 1, last - 1)
  BY DEF Cut
<1> HIDE DEF last
<1>5. /\ Cut(c) \in Seq(ContextItems) /\ Len(Cut(c)) = last - 1
      /\ \A i \in 1..(last - 1) : Cut(c)[i] = c[i]
  BY <1>1, <1>3, <1>4
<1>6. DOMAIN Cut(c) = 1..(last - 1)
  BY <1>5
<1> QED
  BY <1>1, <1>3, <1>5, <1>6

LEMMA CutShows ==
    ASSUME NEW c, NEW d, DOMAIN d \subseteq DOMAIN c, \A i \in DOMAIN d : d[i] = c[i]
    PROVE  Shown(d) \subseteq Shown(c)
<1> SUFFICES ASSUME NEW k \in Shown(d) PROVE k \in Shown(c)
  OBVIOUS
<1>1. PICK i \in DOMAIN d : d[i].kind = "notice" /\ k = Key(d[i].task, d[i].status)
  BY ShownLemma
<1> QED
  BY <1>1, ShownLemma

(* A set as a sequence has each of its elements, and has it once.           *)
LEMMA SetToSeqLemma ==
    ASSUME NEW S, IsFiniteSet(S)
    PROVE  /\ SetToSeq(S) \in Seq(S)
           /\ \A x \in S : \E i \in DOMAIN SetToSeq(S) : SetToSeq(S)[i] = x
           /\ \A i, j \in DOMAIN SetToSeq(S) : SetToSeq(S)[i] = SetToSeq(S)[j] => i = j
<1> DEFINE n == Cardinality(S)
           q == SetToSeq(S)
<1>1. n \in Nat /\ \E f : f \in Bijection(1..n, S)
  BY FS_CardinalityType DEF ExistsBijection
<1>2. PICK f : f \in Bijection(1..n, S)
  BY <1>1
<1>3. f \in [1..n -> S] /\ IsInjective(f)
  BY <1>2 DEF Bijection, Injection, IsInjective
<1>4. q \in [1..n -> S] /\ IsInjective(q)
  BY <1>3 DEF SetToSeq
<1>5. DOMAIN q = 1..n /\ \A i, j \in 1..n : q[i] = q[j] => i = j
  BY <1>4 DEF IsInjective
<1>6. IsFiniteSet(1..n) /\ Cardinality(1..n) = n
  BY <1>1, FS_Interval
<1> HIDE DEF q
<1>7. q \in Surjection(1..n, S)
  <2>1. q \in Injection(1..n, S)
    BY <1>4, <1>5 DEF Injection, IsInjective
  <2> QED
    BY <1>6, <2>1, FS_Injection
<1>8. \A x \in S : \E i \in 1..n : q[i] = x
  BY <1>7 DEF Surjection
<1>9. q \in Seq(S)
  BY <1>1, <1>4
<1> QED
  BY <1>5, <1>8, <1>9 DEF q

LEMMA ConcatContext ==
    ASSUME NEW c \in Seq(ContextItems), NEW r \in Seq(ContextItems)
    PROVE  /\ c \o r \in Seq(ContextItems)
           /\ DOMAIN c = 1..Len(c) /\ Len(c) \in Nat /\ DOMAIN r = 1..Len(r) /\ Len(r) \in Nat
           /\ DOMAIN (c \o r) = 1..(Len(c) + Len(r))
           /\ \A i \in 1..Len(c) : (c \o r)[i] = c[i]
           /\ \A i \in 1..Len(r) : (c \o r)[Len(c) + i] = r[i]
           /\ \A i \in 1..(Len(c) + Len(r)) : i \notin 1..Len(c) =>
                 i - Len(c) \in 1..Len(r) /\ (c \o r)[i] = r[i - Len(c)]
OBVIOUS

(* One more item, about a task that none is about yet.                      *)
LEMMA StoryAppend ==
    ASSUME NEW t, NEW s, NEW r, s.context \in Seq(ContextItems), NEW x \in ContextItems,
           r.context = Append(s.context, x), StoryInv(t, s),
           x.task = t => /\ \A i \in DOMAIN s.context : s.context[i].task # t
                         /\ IF x.kind = "notice" THEN Fit(Key(t, x.status))
                            ELSE ~ Exists(t) /\ PreviousSession(Final(t))
    PROVE  StoryInv(t, r)
<1> DEFINE c == s.context
           d == r.context
           n == Len(s.context)
<1>1. /\ DOMAIN c = 1..n /\ n \in Nat /\ DOMAIN d = 1..(n + 1) /\ d[n + 1] = x
      /\ \A i \in 1..n : d[i] = c[i]
  BY AppendContext
<1> HIDE DEF c, d, n
<1>2. DOMAIN d = DOMAIN c \cup {n + 1}
  BY <1>1
<1>3. /\ \A i, j \in DOMAIN c : c[i].task = t /\ c[j].task = t => i = j
      /\ \A i \in DOMAIN c : c[i].task = t =>
            IF c[i].kind = "notice" THEN Fit(Key(t, c[i].status))
            ELSE ~ Exists(t) /\ PreviousSession(Final(t))
      /\ x.task = t => \A i \in DOMAIN c : c[i].task # t
  BY DEF StoryInv, c
<1>4. \A i, j \in DOMAIN d : d[i].task = t /\ d[j].task = t => i = j
  BY <1>1, <1>2, <1>3
<1>5. \A i \in DOMAIN d : d[i].task = t =>
         IF d[i].kind = "notice" THEN Fit(Key(t, d[i].status))
         ELSE ~ Exists(t) /\ PreviousSession(Final(t))
  BY <1>1, <1>2, <1>3
<1> QED
  BY <1>4, <1>5 DEF StoryInv, d

LEMMA StoryCut ==
    ASSUME NEW t, NEW s, NEW r, StoryInv(t, s), DOMAIN r.context \subseteq DOMAIN s.context,
           \A i \in DOMAIN r.context : r.context[i] = s.context[i]
    PROVE  StoryInv(t, r)
BY DEF StoryInv

(* There is no message yet about an end that is to be told, if the one      *)
(* there would be is not.                                                   *)
LEMMA NotYetTold ==
    ASSUME NEW k \in Keys, Fit(k), NEW s, StoryInv(k.task, s), k \notin Shown(s.context)
    PROVE  \A i \in DOMAIN s.context : s.context[i].task # k.task
<1> SUFFICES ASSUME NEW i \in DOMAIN s.context, s.context[i].task = k.task PROVE FALSE
  OBVIOUS
<1>1. Open(k.task) /\ k.status = Final(k.task).status
  BY DEF Fit
<1>2. CASE s.context[i].kind = "notice"
  <2>1. Fit(Key(k.task, s.context[i].status))
    BY <1>2 DEF StoryInv
  <2>2. s.context[i].status = k.status
    BY <1>1, <2>1 DEF Fit, Key
  <2>3. Key(s.context[i].task, s.context[i].status) = k
    BY <2>2 DEF Key, Keys
  <2> QED
    BY <1>2, <2>3, ShownLemma
<1>3. CASE s.context[i].kind # "notice"
  BY <1>1, <1>3, EndKinds DEF StoryInv
<1> QED
  BY <1>2, <1>3

LEMMA RecordedContext ==
    ASSUME JournalInv, NEW c, Record([live EXCEPT !.context = c])
    PROVE  live'.context = c /\ durable' = durable \cup {live'} /\ live' \in durable'
BY DEF JournalInv, IsState, Record

(* The model is told of an end: it had not been, in any state that a crash  *)
(* may leave.                                                               *)
LEMMA Telling ==
    ASSUME JournalInv, live \in durable, NoticeTypes,
           \A t \in Tasks \ early : StoryInv(t, live),
           NEW k \in Keys, Fit(k), k \notin Shown(live.context), Tell(k)
    PROVE  /\ \A s \in durable' : s \in durable \/ \A t \in Tasks \ early : StoryInv(t, s)
           /\ \A s \in durable' : s.context \in Seq(ContextItems)
           /\ Shown(live.context)' = Shown(live.context) \cup {k}
           /\ \A t \in Tasks : Reminded(live.context, t)' <=> Reminded(live.context, t)
<1> DEFINE x == Notice(k)
           c == live.context
<1>1. /\ x \in ContextItems /\ x.kind = "notice" /\ x.task = k.task /\ x.status = k.status
      /\ Key(x.task, x.status) = k
  BY ItemKinds
<1>2. /\ live'.context = Append(c, x) /\ durable' = durable \cup {live'}
  BY RecordedContext DEF Tell
<1>3. c \in Seq(ContextItems)
  BY DEF NoticeTypes
<1>4. /\ Append(c, x) \in Seq(ContextItems)
      /\ \A l : l \in Shown(Append(c, x)) <=> l \in Shown(c) \/ l = k
      /\ \A t : Reminded(Append(c, x), t) <=> Reminded(c, t) \/ x = Reminder(t)
  BY <1>1, <1>3, AppendContext
<1>5. \A t \in Tasks : x # Reminder(t)
  BY <1>1, ItemKinds
<1> HIDE DEF x
<1>6. ASSUME NEW t \in Tasks \ early PROVE StoryInv(t, live')
  <2>1. StoryInv(t, live)
    OBVIOUS
  <2>2. x.task = t => /\ \A i \in DOMAIN live.context : live.context[i].task # t
                      /\ Fit(Key(t, x.status))
    BY <1>1, <2>1, NotYetTold DEF c
  <2> QED
    BY <1>1, <1>2, <1>3, <2>1, <2>2, StoryAppend
<1>7. \A s \in durable' : s \in durable \/ \A t \in Tasks \ early : StoryInv(t, s)
  BY <1>2, <1>6
<1>8. \A s \in durable' : s.context \in Seq(ContextItems)
  BY <1>2, <1>4 DEF NoticeTypes
<1>9. Shown(live.context)' = Shown(live.context) \cup {k}
  BY <1>2, <1>4
<1>10. \A t \in Tasks : Reminded(live.context, t)' <=> Reminded(live.context, t)
  BY <1>2, <1>4, <1>5
<1> QED
  BY <1>7, <1>8, <1>9, <1>10

-----------------------------------------------------------------------------
(* The steps of the tasks.                                                  *)

LEMMA FitAll ==
    ASSUME NoticeTypes, NoticeInv, \A t \in Tasks : Standing(t)
    PROVE  /\ \A b \in building : Fit(b.key)'
           /\ \A k \in requests : Fit(k)'
           /\ \A r \in restoring : Finished(r.info) /\ r.info.status # "lost"
                                   /\ Plain(r.info) = Final(r.task)'
<1>1. ASSUME NEW b \in building PROVE Fit(b.key)'
  <2>1. b.key.task \in Tasks /\ Fit(b.key)
    BY DEF NoticeTypes, NoticeInv, Keys
  <2> QED
    BY <2>1, FitStands
<1>2. ASSUME NEW k \in requests PROVE Fit(k)'
  <2>1. k.task \in Tasks /\ Fit(k)
    BY DEF NoticeTypes, NoticeInv, Keys
  <2> QED
    BY <2>1, FitStands
<1>3. ASSUME NEW r \in restoring
      PROVE  Finished(r.info) /\ r.info.status # "lost" /\ Plain(r.info) = Final(r.task)'
  <2>1. /\ r.task \in Tasks /\ r.info \in Infos
        /\ Finished(r.info) /\ r.info.status # "lost" /\ Plain(r.info) = Final(r.task)
    BY DEF NoticeTypes, NoticeInv
  <2>2. Finished(Final(r.task))
    BY <2>1, PlainLemma
  <2> QED
    BY <2>1, <2>2 DEF Standing
<1> QED
  BY <1>1, <1>2, <1>3

LEMMA NoticesStand ==
    ASSUME NoticesInv, EndsInv, \A t \in Tasks : Standing(t),
           live'.context = live.context,
           \A s \in durable' : s \in durable \/ s.context = live.context,
           UNCHANGED <<noticeVars, restoring, undoing, unreminded, early>>, lost' \subseteq Tasks,
           \A t \in Tasks : settling[t] # None => settling'[t] # None,
           \A t \in Tasks : Marked(t)' => Marked(t),
           \/ mode' \in {"down", "loading"} /\ mode \in {"down", "loading"}
           \/ mode' \notin {"down", "loading"} /\ mode \notin {"down", "loading"} /\ ghosts' = ghosts,
           mode = "restoring" => mode' = "restoring" \/ restoring = {}
    PROVE  NoticesInv'
<1>1. NoticeTypes'
  <2>1. \A s \in durable' : s.context \in Seq(ContextItems)
    BY DEF NoticesInv, NoticeTypes, EndsInv
  <2> QED
    BY <2>1 DEF NoticesInv, NoticeTypes, noticeVars
<1>2. NoticeInv'
  <2>1. /\ \A b \in building : Fit(b.key)'
        /\ \A k \in requests : Fit(k)'
        /\ \A r \in restoring : Finished(r.info) /\ r.info.status # "lost"
                                /\ Plain(r.info) = Final(r.task)'
    BY FitAll DEF NoticesInv
  <2>2. Shown(live.context)' = Shown(live.context)
    OBVIOUS
  <2> QED
    BY <2>1, <2>2 DEF NoticesInv, NoticeInv, noticeVars
<1>3. \A t \in Tasks \ early', s \in durable' : StoryInv(t, s)'
  <2>1. \A s \in durable' : s \in durable \/ \A t \in Tasks \ early : StoryInv(t, s)
    BY StorySame DEF NoticesInv, EndsInv
  <2> QED
    BY <2>1, StoryKept
<1>4. ASSUME NEW t \in Tasks PROVE MarkInv(t)'
  <2>1. MarkInv(t)
    BY DEF NoticesInv
  <2>2. Reminded(live.context, t)' <=> Reminded(live.context, t)
    OBVIOUS
  <2> QED
    BY <2>1, <2>2, MarkKept
<1>5. ASSUME NEW t \in Tasks PROVE ToldInv(t)'
  <2>1. ToldInv(t)
    BY DEF NoticesInv
  <2>2. Shown(live.context)' = Shown(live.context)
    OBVIOUS
  <2> QED
    BY <2>1, <2>2, ToldKept DEF noticeVars
<1> QED
  BY <1>1, <1>2, <1>3, <1>4, <1>5 DEF NoticesInv

LEMMA InfosOnly ==
    ASSUME JournalInv, NEW t \in Tasks,
           UNCHANGED journalVars \/ \E info : Record([live EXCEPT !.infos[t] = info])
    PROVE  /\ live'.context = live.context
           /\ \A s \in durable' : s \in durable \/ s.context = live.context
<1>1. CASE UNCHANGED journalVars
  BY <1>1 DEF journalVars
<1>2. CASE \E info : Record([live EXCEPT !.infos[t] = info])
  <2>1. PICK info : Record([live EXCEPT !.infos[t] = info])
    BY <1>2
  <2> DEFINE state == [live EXCEPT !.infos[t] = info]
  <2>2. state.context = live.context
    BY DEF JournalInv, IsState
  <2> HIDE DEF state
  <2>3. live' = state /\ durable' = durable \cup {state}
    BY <2>1 DEF Record, state
  <2> QED
    BY <2>2, <2>3
<1> QED
  BY <1>1, <1>2

(* The file of an entry is not marked.                                      *)
LEMMA NotMarked ==
    ASSUME NEW t \in Tasks, EndInv(t)'
    PROVE  Exists(t)' => ~ Marked(t)'
BY DEF EndInv, LivingInv, FilesInv, Marked, NoInfo, Info

LEMMA SameMarks ==
    ASSUME NEW t \in Tasks, disk'[t] = disk[t], writes'[t] = writes[t] \/ writes'[t] = <<>>,
           ghosts'[t] = ghosts[t] \/ ~ ghosts'[t].reminded
    PROVE  Marked(t)' => Marked(t)
BY DEF Marked, Written

(* One entry changes, or its file is to be written.                         *)
LEMMA EntryNotices ==
    ASSUME IInv, EndsInv, NoticesInv, Stable, NEW t \in Tasks,
           UNCHANGED <<mode, noticeVars, restoreVars, disk>>,
           UNCHANGED journalVars \/ \E info : Record([live EXCEPT !.infos[t] = info]),
           Exists(t)', \A u \in Tasks \ {t} : writes'[u] = writes[u],
           \A u \in Tasks : settling[u] # None => settling'[u] # None
    PROVE  NoticesInv'
<1>1. /\ live'.context = live.context
      /\ \A s \in durable' : s \in durable \/ s.context = live.context
  BY InfosOnly DEF IInv
<1>2. ASSUME NEW u \in Tasks PROVE Marked(u)' => Marked(u)
  <2>1. CASE u = t
    BY <2>1, NotMarked DEF Stable, EndsInv
  <2>2. CASE u # t
    BY <2>2, SameMarks DEF restoreVars
  <2> QED
    BY <2>1, <2>2
<1>3. lost' \subseteq Tasks
  BY DEF NoticesInv, NoticeTypes, restoreVars
<1> QED
  BY <1>1, <1>2, <1>3, NoticesStand DEF restoreVars, Stable

LEMMA RegisterNotices ==
    ASSUME IInv, EndsInv, NoticesInv, Stable, NEW t \in Tasks,
           Register(t) \/ Spill(t) \/ Detach(t) \/ Suppress(t)
    PROVE  NoticesInv'
<1>1. UNCHANGED <<mode, noticeVars, restoreVars, disk, settling>>
  BY DEF Register, Spill, Detach, Suppress, stopVars
<1>2. UNCHANGED journalVars \/ \E info : Record([live EXCEPT !.infos[t] = info])
  BY DEF Register, Spill, Detach, Suppress
<1>3. \A u \in Tasks \ {t} : writes'[u] = writes[u]
  BY DEF Register, Spill, Detach, Suppress, Persist, IInv, TypeInv
<1>4. Exists(t)'
  <2>1. CASE Register(t)
    <3>1. PICK armed \in BOOLEAN, attached \in BOOLEAN :
            task' = [task EXCEPT ![t] = [NoEntry EXCEPT !.status = "running", !.armed = armed,
                                           !.attached = attached, !.spilled = ~ attached]]
      BY <2>1 DEF Register
    <3> DEFINE e == [NoEntry EXCEPT !.status = "running", !.armed = armed,
                                    !.attached = attached, !.spilled = ~ attached]
    <3>2. e.status = "running"
      BY DEF NoEntry
    <3>3. task' = [task EXCEPT ![t] = e]
      BY <3>1
    <3> HIDE DEF e
    <3>4. task'[t] = e
      BY <3>3 DEF IInv, TypeInv
    <3> QED
      BY <3>2, <3>4 DEF Exists
  <2>2. CASE Spill(t) \/ Detach(t) \/ Suppress(t)
    <3>1. Running(t) /\ task[t] \in Entries
      BY <2>2 DEF Spill, Detach, Suppress, IInv, TypeInv
    <3> DEFINE d == task[t]
    <3>2. PICK e :
            /\ task' = [task EXCEPT ![t] = e]
            /\ \/ e = [d EXCEPT !.spilled = TRUE]
               \/ \E armed \in BOOLEAN :
                     e = [d EXCEPT !.attached = FALSE, !.spilled = TRUE, !.armed = armed]
               \/ e = d
               \/ e = [d EXCEPT !.suppressed = TRUE]
      <4>1. task = [task EXCEPT ![t] = d]
        BY DEF IInv, TypeInv
      <4>2. CASE Spill(t)
        <5>1. task' = [task EXCEPT ![t] = [d EXCEPT !.spilled = TRUE]]
          BY <4>2 DEF Spill
        <5> QED
          BY <5>1
      <4>3. CASE Detach(t)
        BY <4>3 DEF Detach
      <4>4. CASE Suppress(t)
        BY <4>1, <4>4 DEF Suppress
      <4> QED
        BY <2>2, <4>2, <4>3, <4>4
    <3>3. task'[t] = e
      BY <3>2 DEF IInv, TypeInv
    <3>4. d \in Entries
      BY <3>1
    <3> HIDE DEF d
    <3>5. e.status = d.status
      <4>1. CASE e = [d EXCEPT !.spilled = TRUE]
        BY <3>4, <4>1 DEF Entries
      <4>2. CASE \E armed \in BOOLEAN :
                   e = [d EXCEPT !.attached = FALSE, !.spilled = TRUE, !.armed = armed]
        <5>1. PICK armed \in BOOLEAN :
                e = [d EXCEPT !.attached = FALSE, !.spilled = TRUE, !.armed = armed]
          BY <4>2
        <5> QED
          BY <3>4, <5>1 DEF Entries
      <4>3. CASE e = [d EXCEPT !.suppressed = TRUE]
        BY <3>4, <4>3 DEF Entries
      <4> QED
        BY <3>2, <4>1, <4>2, <4>3
    <3>6. task'[t].status = task[t].status
      BY <3>3, <3>5 DEF d
    <3> QED
      BY <3>1, <3>6 DEF Running, Exists
  <2> QED
    BY <2>1, <2>2
<1> QED
  BY <1>1, <1>2, <1>3, <1>4, EntryNotices

LEMMA SettleNotices ==
    ASSUME IInv, EndsInv, NoticesInv, Stable, NEW t \in Tasks, NEW status \in Ends,
           NEW closed \in BOOLEAN, Settle(t, status, closed),
           UNCHANGED <<mode, noticeVars, restoreVars, disk, journalVars>>
    PROVE  NoticesInv'
<1>1. /\ task'[t].status = status
      /\ \A u \in Tasks \ {t} : writes'[u] = writes[u]
  BY SettleLemma DEF IInv
<1>2. Exists(t)'
  BY <1>1 DEF Exists, Ends
<1>3. \A u \in Tasks : settling[u] # None => settling'[u] # None
  <2> DEFINE n == Len(writes[t]) + 1
  <2>1. n \in Nat
    BY LenProperties DEF IInv, TypeInv
  <2>2. settling' = settling \/ settling' = [settling EXCEPT ![t] = n]
    BY DEF Settle, Behind
  <2> HIDE DEF n
  <2> QED
    BY <2>1, <2>2, TasksAssumption DEF EndsInv
<1> QED
  BY <1>1, <1>2, <1>3, EntryNotices

LEMMA BodyEndsNotices ==
    ASSUME IInv, EndsInv, NoticesInv, Stable, NEW t \in Tasks, BodyEnds(t)
    PROVE  NoticesInv'
<1>1. PICK status \in {"completed", "killed"} : Settle(t, Coerced(t, status), task[t].closed)
  BY DEF BodyEnds
<1>2. Coerced(t, status) \in Ends /\ task[t].closed \in BOOLEAN
  BY DEF Coerced, Ends, IInv, TypeInv, Entries
<1>3. UNCHANGED <<mode, noticeVars, restoreVars, disk, journalVars>>
  BY DEF BodyEnds
<1> QED
  BY <1>1, <1>2, <1>3, SettleNotices

LEMMA StoppingNotices ==
    ASSUME IInv, EndsInv, NoticesInv, Stable, NEW t \in Tasks, NEW c \in Callers, Stopping(t, c)
    PROVE  NoticesInv'
<1>1. UNCHANGED <<mode, noticeVars, restoreVars, disk, journalVars>>
  BY DEF Stopping, Stop, GraceEnds, ForceReturns, Answer
<1>2. CASE ForceReturns(t, c) /\ Running(t)
  <2> DEFINE status == IF c = "deadline" THEN "timed_out" ELSE "killed"
  <2>1. status \in Ends /\ (c = "exit") \in BOOLEAN
    BY DEF Ends
  <2>2. Settle(t, status, c = "exit")
    BY <1>2 DEF ForceReturns
  <2> HIDE DEF status
  <2> QED
    BY <1>1, <2>1, <2>2, SettleNotices
<1>3. CASE ~ (ForceReturns(t, c) /\ Running(t))
  <2>1. UNCHANGED <<settling, writes>>
    BY <1>3 DEF Stopping, Stop, GraceEnds, ForceReturns, Answer
  <2>2. Exists(t)
    BY DEF Stopping, Stop, GraceEnds, ForceReturns, Answer, IInv, TaskInv, EntryInv
  <2>3. task'[t].status = task[t].status
    <3>1. CASE Stop(t, c)
      BY <3>1, StoppedLemma DEF Stop, IInv, TypeInv
    <3>2. CASE ~ Stop(t, c)
      BY <1>3, <3>2 DEF Stopping, GraceEnds, ForceReturns, Answer, taskVars
    <3> QED
      BY <3>1, <3>2
  <2>4. Exists(t)'
    BY <2>2, <2>3 DEF Exists
  <2> QED
    BY <1>1, <2>1, <2>4, EntryNotices
<1> QED
  BY <1>2, <1>3

LEMMA WriteLandsNotices ==
    ASSUME IInv, EndsInv, NoticesInv, Stable, NEW t \in Tasks, WriteLands(t)
    PROVE  NoticesInv'
<1> DEFINE ahead == IF settling[t] \in {None, 0} THEN settling[t] ELSE settling[t] - 1
<1>1. /\ writes[t] # <<>>
      /\ disk' = [disk EXCEPT ![t] = Head(writes[t])]
      /\ writes' = [writes EXCEPT ![t] = Tail(writes[t])]
      /\ settling' = [settling EXCEPT ![t] = ahead]
      /\ UNCHANGED <<mode, journalVars, noticeVars, restoreVars>>
  BY DEF WriteLands
<1>2. settling[t] # None => ahead # None
  BY TasksAssumption DEF EndsInv
<1> HIDE DEF ahead
<1>3. \A u \in Tasks : settling[u] # None => settling'[u] # None
  BY <1>1, <1>2 DEF EndsInv
<1>4. ASSUME NEW u \in Tasks PROVE Marked(u)' => Marked(u)
  <2>1. CASE u = t
    <3>1. disk'[t] = Head(writes[t]) /\ writes'[t] = Tail(writes[t]) /\ ghosts'[t] = ghosts[t]
      BY <1>1 DEF IInv, TypeInv, restoreVars
    <3>2. Head(writes[t]) \in Written(t) /\ Written(t)' \subseteq Written(t)
      BY <1>1, <3>1, WrittenTail DEF IInv, TypeInv
    <3> QED
      BY <2>1, <3>1, <3>2 DEF Marked
  <2>2. CASE u # t
    BY <1>1, <2>2, SameMarks DEF IInv, TypeInv, restoreVars
  <2> QED
    BY <2>1, <2>2
<1>5. lost' \subseteq Tasks
  BY <1>1 DEF NoticesInv, NoticeTypes, restoreVars
<1> QED
  BY <1>1, <1>3, <1>4, <1>5, NoticesStand DEF restoreVars, journalVars, Stable

LEMMA MarkLostNotices ==
    ASSUME IInv, EndsInv, NoticesInv, Stable, NEW t \in Tasks, MarkLost(t)
    PROVE  NoticesInv'
<1>1. /\ mode = "loading" /\ ghosts[t].status = "running"
      /\ ghosts' = [ghosts EXCEPT ![t] = Lost(t)] /\ disk' = [disk EXCEPT ![t] = Lost(t)]
      /\ lost' = lost \cup {t}
      /\ UNCHANGED <<mode, settling, writes, journalVars, noticeVars, restoring, undoing,
                     unreminded, early>>
  BY DEF MarkLost, stopVars
<1>2. ASSUME NEW u \in Tasks PROVE Marked(u)' => Marked(u)
  <2>1. CASE u = t
    <3>1. ~ ghosts[t].reminded
      BY <1>1 DEF EndsInv, EndInv, GhostInv, Finished, Ends
    <3>2. ghosts[t] \in Infos
      BY DEF IInv, TypeInv
    <3>3. ~ Lost(t).reminded
      BY <3>1, <3>2 DEF Lost, Infos
    <3>4. ghosts'[t] = Lost(t) /\ disk'[t] = Lost(t) /\ Written(t)' = Written(t)
      BY <1>1 DEF IInv, TypeInv, Written
    <3> QED
      BY <2>1, <3>3, <3>4 DEF Marked
  <2>2. CASE u # t
    BY <1>1, <2>2, SameMarks DEF IInv, TypeInv
  <2> QED
    BY <2>1, <2>2
<1>3. lost' \subseteq Tasks
  BY <1>1 DEF NoticesInv, NoticeTypes
<1> QED
  BY <1>1, <1>2, <1>3, NoticesStand DEF journalVars, Stable

LEMMA CloseNotices ==
    ASSUME IInv, EndsInv, NoticesInv, Stable, Close \/ StopAll \/ RestoreEnds \/ UNCHANGED vars
    PROVE  NoticesInv'
<1>1. UNCHANGED <<noticeVars, restoreVars, journalVars, settling, disk>>
  BY DEF Close, StopAll, RestoreEnds, stopVars, vars
<1>2. /\ \/ mode' \in {"down", "loading"} /\ mode \in {"down", "loading"}
         \/ mode' \notin {"down", "loading"} /\ mode \notin {"down", "loading"}
      /\ mode = "restoring" => mode' = "restoring" \/ restoring = {}
  BY DEF Close, StopAll, RestoreEnds, vars
<1>3. ASSUME NEW t \in Tasks PROVE Marked(t)' => Marked(t)
  <2>1. CASE Exists(t)'
    BY <2>1, NotMarked DEF Stable, EndsInv
  <2>2. CASE ~ Exists(t)'
    <3>1. ASSUME Close PROVE ~ Running(t)
      <4>1. SUFFICES ASSUME Running(t) PROVE FALSE
        OBVIOUS
      <4>2. task[t] \in Entries
        BY DEF IInv, TypeInv
      <4>3. task'[t] \in {task[t], [task[t] EXCEPT !.suppressed = TRUE]}
        BY <3>1 DEF Close
      <4>4. task'[t].status = "running"
        BY <4>1, <4>2, <4>3 DEF Entries, Running
      <4> QED
        BY <2>2, <4>4 DEF Exists
    <3>2. writes'[t] = writes[t]
      <4>1. CASE Close
        BY <3>1, <4>1 DEF Close
      <4>2. CASE ~ Close
        BY <4>2 DEF StopAll, RestoreEnds, vars
      <4> QED
        BY <4>1, <4>2
    <3> QED
      BY <1>1, <3>2, SameMarks DEF restoreVars
  <2> QED
    BY <2>1, <2>2
<1>4. lost' \subseteq Tasks
  BY <1>1 DEF NoticesInv, NoticeTypes, restoreVars
<1> QED
  BY <1>1, <1>2, <1>3, <1>4, NoticesStand DEF restoreVars, journalVars, Stable

-----------------------------------------------------------------------------
(* The steps of the notifications.                                          *)

(* A notification that is known is on its way, or an undo is going to look. *)
LEMMA KnownLemma ==
    ASSUME NoticesInv, NEW k, Known(k)
    PROVE  undoing = "flush" \/ k \in Shown(live.context) \cup requests
BY DEF Known, NoticesInv, NoticeInv

LEMMA SettleReturnsNotices ==
    ASSUME IInv, EndsInv, NoticesInv, Stable, NEW t \in Tasks, SettleReturns(t)
    PROVE  NoticesInv'
<1> DEFINE info == Info(task[t])
           new == {b \in {Build(t, info, "end")} : Wanted(t, info)}
<1>1. /\ Alive /\ settling[t] = 0 /\ settling' = [settling EXCEPT ![t] = None]
      /\ UNCHANGED <<mode, taskVars, writes, disk, scheduled, delivered, requests,
                     dropped, restoreVars>>
  BY DEF SettleReturns
<1>2. /\ info.attached => building' = building
      /\ ~ info.attached => building' = building \cup new
  BY DEF SettleReturns
<1>3. UNCHANGED journalVars \/ \E i : Record([live EXCEPT !.infos[t] = i])
  BY DEF SettleReturns
<1>4. EndedEntry(t) /\ Exists(t)
  <2>1. settling[t] # None
    BY <1>1, TasksAssumption
  <2> QED
    BY <2>1 DEF EndsInv, EndInv, SettlingInv, EndedEntry
<1>5. /\ info = Final(t) /\ info \in Infos /\ info.status = task[t].status
      /\ info.status \in Ends \ {"lost"}
  <2>1. task[t] \in Entries
    BY DEF IInv, TypeInv
  <2>2. task[t].status \in Ends \ {"lost"}
    BY <1>4, <2>1 DEF EndedEntry, Exists, Running, Entries, Statuses, EndsInv, EndInv, LivingInv
  <2> QED
    BY <1>4, <2>1, <2>2, InfoLemma DEF Final
<1>6. mode \notin {"down", "loading"} /\ mode' = mode
  BY <1>1 DEF Alive
<1>7. /\ live'.context = live.context
      /\ \A s \in durable' : s \in durable \/ s.context = live.context
  BY <1>3, InfosOnly DEF IInv
<1> HIDE DEF info
<1>8. ASSUME NEW b \in new
      PROVE  /\ b.key = Key(t, info.status) /\ Open(t) /\ Fit(b.key)
             /\ b \in [key : Keys, by : {"end", "restore"}]
  <2>1. b = Build(t, info, "end") /\ ~ info.attached /\ ~ info.suppressed
    BY DEF Wanted
  <2>2. Key(t, info.status) \in Keys
    BY <1>5 DEF Key, Keys
  <2>3. b.key = Key(t, info.status) /\ b.by = "end" /\ b = [key |-> b.key, by |-> b.by]
    BY <2>1 DEF Build
  <2> QED
    BY <1>5, <2>1, <2>2, <2>3 DEF Open, Fit, Key
<1>9. NoticeTypes'
  <2>1. \A s \in durable' : s.context \in Seq(ContextItems)
    BY <1>7 DEF NoticesInv, NoticeTypes, EndsInv
  <2>2. building' \subseteq [key : Keys, by : {"end", "restore"}]
    BY <1>2, <1>8 DEF NoticesInv, NoticeTypes
  <2> HIDE DEF new
  <2> QED
    BY <1>1, <2>1, <2>2 DEF NoticesInv, NoticeTypes, restoreVars
<1>10. NoticeInv'
  <2>1. /\ \A b \in building : Fit(b.key)'
        /\ \A k \in requests : Fit(k)'
        /\ \A r \in restoring : Finished(r.info) /\ r.info.status # "lost"
                                /\ Plain(r.info) = Final(r.task)'
    BY FitAll DEF NoticesInv, Stable
  <2>2. \A b \in building' : Fit(b.key)'
    <3>1. ASSUME NEW b \in new PROVE Fit(b.key)'
      <4>1. Fit(b.key) /\ b.key.task = t
        BY <1>8 DEF Key
      <4> QED
        BY <4>1, FitStands DEF Stable
    <3> QED
      BY <1>2, <2>1, <3>1
  <2>3. Shown(live.context)' = Shown(live.context)
    BY <1>7
  <2> HIDE DEF new
  <2> QED
    BY <1>1, <1>6, <2>1, <2>2, <2>3 DEF NoticesInv, NoticeInv, restoreVars
<1>11. \A u \in Tasks \ early', s \in durable' : StoryInv(u, s)'
  <2>1. \A s \in durable' : s \in durable \/ \A u \in Tasks \ early : StoryInv(u, s)
    BY <1>7, StorySame DEF NoticesInv, EndsInv
  <2> QED
    BY <1>1, <2>1, StoryKept DEF Stable, restoreVars
<1>12. ASSUME NEW u \in Tasks PROVE MarkInv(u)'
  <2>1. MarkInv(u)
    BY DEF NoticesInv
  <2>2. Marked(u)' => Marked(u)
    BY <1>1, SameMarks DEF restoreVars
  <2>3. Reminded(live.context, u)' <=> Reminded(live.context, u)
    BY <1>7
  <2> QED
    BY <1>1, <1>6, <2>1, <2>2, <2>3, MarkKept DEF restoreVars
<1>13. ASSUME NEW u \in Tasks PROVE ToldInv(u)'
  <2>1. ToldInv(u) /\ Standing(u)
    BY DEF NoticesInv, Stable
  <2>2. Shown(live.context)' = Shown(live.context) /\ building \subseteq building'
    BY <1>2, <1>7
  <2>3. CASE u # t
    <3>1. settling'[u] = settling[u]
      BY <1>1, <2>3
    <3> HIDE DEF new
    <3> QED
      BY <1>1, <1>6, <2>1, <2>2, <3>1, ToldKept DEF restoreVars
  <2>4. CASE u = t
    <3>1. SUFFICES ASSUME Open(t)' PROVE ToldInv(t)'
      BY <2>4 DEF ToldInv
    <3>2. settling'[t] = None
      BY <1>1 DEF EndsInv
    <3>3. Open(t) /\ Final(t)' = Final(t)
      BY <2>1, <2>4, <3>1, <3>2, EndKinds DEF Standing
    <3> DEFINE k == Key(t, Final(t).status)
    <3>4. ~ info.attached /\ ~ info.suppressed
      BY <1>5, <3>3 DEF Open
    <3>5. \/ Known(k) \/ \E b \in building' : b.key = k
      <4>1. CASE Wanted(t, info)
        <5>1. Build(t, info, "end") \in building'
          BY <1>2, <3>4, <4>1
        <5>2. Build(t, info, "end").key = k
          BY <1>5 DEF Build
        <5> QED
          BY <5>1, <5>2
      <4>2. CASE ~ Wanted(t, info)
        BY <1>2, <1>5, <3>4, <4>2 DEF Wanted
      <4> QED
        BY <4>1, <4>2
    <3>6. \/ undoing' = "flush" \/ k \in Shown(live.context)' \cup requests'
          \/ \E b \in building' : b.key = k
      BY <1>1, <2>2, <3>5, KnownLemma DEF restoreVars
    <3> QED
      BY <3>3, <3>6 DEF ToldInv
  <2> QED
    BY <2>3, <2>4
<1> QED
  BY <1>9, <1>10, <1>11, <1>12, <1>13 DEF NoticesInv

(* Steps that leave tasks and files alone.                                  *)
LEMMA NoticesMove ==
    ASSUME NoticesInv, Stable, UNCHANGED <<writes, disk, ghosts, early, lost>>,
           \/ mode' \in {"down", "loading"}
           \/ mode \notin {"down", "loading"},
           \A s \in durable' : s \in durable \/ \A t \in Tasks \ early : StoryInv(t, s),
           \A s \in durable' : s.context \in Seq(ContextItems),
           \A t \in Tasks : Reminded(live.context, t) =>
              Reminded(live.context, t)' \/ t \in unreminded',
           unreminded \subseteq unreminded',
           building' \subseteq [key : Keys, by : {"end", "restore"}],
           delivered' \subseteq Keys, requests' \subseteq Keys, dropped' \subseteq Keys,
           restoring' \subseteq [task : Tasks, info : Infos],
           undoing' \in {"idle", "flush", "restore"},
           NoticeInv', \A t \in Tasks : ToldInv(t)'
    PROVE  NoticesInv'
<1>1. NoticeTypes'
  BY DEF NoticesInv, NoticeTypes
<1>2. \A t \in Tasks \ early', s \in durable' : StoryInv(t, s)'
  BY StoryKept DEF Stable
<1>3. ASSUME NEW t \in Tasks PROVE MarkInv(t)'
  <2>1. MarkInv(t)
    BY DEF NoticesInv
  <2>2. Marked(t)' => Marked(t)
    BY SameMarks
  <2> QED
    BY <2>1, <2>2, MarkKept
<1> QED
  BY <1>1, <1>2, <1>3 DEF NoticesInv

LEMMA SameStories ==
    ASSUME NoticesInv, UNCHANGED journalVars
    PROVE  /\ live' = live
           /\ \A s \in durable' : s \in durable \/ \A t \in Tasks \ early : StoryInv(t, s)
           /\ \A s \in durable' : s.context \in Seq(ContextItems)
BY DEF journalVars, NoticesInv, NoticeTypes

(* What is being built is wanted still, unless it is known by now.          *)
LEMMA NotSuppressed ==
    ASSUME IInv, EndsInv, NEW t \in Tasks, Open(t), mode # "down"
    PROVE  ~ (task[t].suppressed \/ ghosts[t].suppressed)
<1>1. ~ Final(t).suppressed /\ Finished(Final(t))
  BY EndKinds DEF Open
<1>2. CASE Exists(t)
  BY <1>1, <1>2 DEF Final, Info, EndsInv, EndInv, LivingInv, NoInfo, NoEntry
<1>3. CASE ~ Exists(t)
  <2>1. ghosts[t].suppressed = Final(t).suppressed
    BY <1>1, <1>3, SeenOpen DEF Seen, EndsInv
  <2> QED
    BY <1>1, <1>3, <2>1 DEF EndsInv, EndInv, LivingInv, NoEntry
<1> QED
  BY <1>2, <1>3

LEMMA BuildEndsNotices ==
    ASSUME IInv, EndsInv, NoticesInv, Stable, BuildEnds
    PROVE  NoticesInv'
<1>1. PICK b \in building :
          /\ building' = building \ {b}
          /\ LET k == b.key
                 suppressed == task[k.task].suppressed \/ ghosts[k.task].suppressed IN
             \/ (suppressed \/ Known(k))
                /\ UNCHANGED <<scheduled, requests, journalVars, delivered>>
             \/ ~ suppressed /\ ~ Known(k) /\ b.by = "restore"
                /\ Tell(k) /\ UNCHANGED <<scheduled, requests>>
             \/ ~ suppressed /\ ~ Known(k) /\ b.by = "end"
                /\ scheduled' = scheduled \cup {k} /\ requests' = requests \cup {k}
                /\ UNCHANGED <<journalVars, delivered>>
  BY DEF BuildEnds
<1> DEFINE k == b.key
<1>2. /\ k \in Keys /\ k.task \in Tasks /\ Fit(k) /\ Open(k.task) /\ k = Key(k.task, k.status)
      /\ k.status = Final(k.task).status
  BY DEF NoticesInv, NoticeTypes, NoticeInv, Fit, Keys, Key
<1>3. /\ UNCHANGED <<mode, settling, writes, disk, dropped, ghosts, lost, restoring, undoing,
                     unreminded, early>>
      /\ mode \notin {"down", "loading"}
  BY DEF BuildEnds, stopVars, restoreVars, NoticesInv, NoticeInv
<1>4. ~ (task[k.task].suppressed \/ ghosts[k.task].suppressed)
  BY <1>2, <1>3, NotSuppressed
<1>5. \/ Known(k) /\ UNCHANGED <<scheduled, requests, journalVars, delivered>>
      \/ ~ Known(k) /\ Tell(k) /\ UNCHANGED <<scheduled, requests>>
      \/ ~ Known(k) /\ scheduled' = scheduled \cup {k} /\ requests' = requests \cup {k}
         /\ UNCHANGED <<journalVars, delivered>>
  BY <1>1, <1>4
<1> HIDE DEF k
<1>6. /\ \A s \in durable' : s \in durable \/ \A t \in Tasks \ early : StoryInv(t, s)
      /\ \A s \in durable' : s.context \in Seq(ContextItems)
      /\ \A t \in Tasks : Reminded(live.context, t)' <=> Reminded(live.context, t)
      /\ \/ Shown(live.context)' = Shown(live.context) /\ delivered' = delivered
         \/ /\ Shown(live.context)' = Shown(live.context) \cup {k}
            /\ delivered' = delivered \cup {k} /\ requests' = requests /\ k \notin requests
  <2>1. CASE UNCHANGED journalVars /\ UNCHANGED delivered
    BY <2>1, SameStories
  <2>2. CASE ~ Known(k) /\ Tell(k) /\ UNCHANGED <<scheduled, requests>>
    <3>1. k \notin Shown(live.context) /\ k \notin requests
      BY <2>2 DEF Known, NoticesInv, NoticeInv
    <3>2. \A t \in Tasks \ early : StoryInv(t, live)
      BY DEF NoticesInv, EndsInv
    <3>3. delivered' = delivered \cup {k}
      BY <2>2 DEF Tell
    <3> QED
      BY <1>2, <2>2, <3>1, <3>2, <3>3, Telling DEF IInv, EndsInv, NoticesInv
  <2> QED
    BY <1>5, <2>1, <2>2
<1>7. /\ \/ undoing = "flush" \/ k \in Shown(live.context)' \cup requests'
      /\ Shown(live.context) \cup requests \subseteq Shown(live.context)' \cup requests'
      /\ requests' = requests \/ requests' = requests \cup {k}
      /\ scheduled' = requests'
      /\ k \notin requests' \/ Shown(live.context)' = Shown(live.context)
      /\ requests' # requests => k \notin Shown(live.context)
  <2>1. scheduled = requests
    BY DEF NoticesInv, NoticeInv
  <2>2. CASE Known(k) /\ UNCHANGED <<scheduled, requests, journalVars, delivered>>
    BY <2>1, <2>2, KnownLemma DEF journalVars
  <2>3. CASE ~ Known(k) /\ Tell(k) /\ UNCHANGED <<scheduled, requests>>
    <3>1. \A t \in Tasks \ early : StoryInv(t, live)
      BY DEF NoticesInv, EndsInv
    <3>2. k \notin Shown(live.context) /\ k \notin requests
      BY <2>1, <2>3 DEF Known
    <3>3. Shown(live.context)' = Shown(live.context) \cup {k}
      BY <1>2, <2>3, <3>1, <3>2, Telling DEF IInv, EndsInv, NoticesInv
    <3> QED
      BY <2>1, <2>3, <3>2, <3>3
  <2>4. CASE ~ Known(k) /\ scheduled' = scheduled \cup {k} /\ requests' = requests \cup {k}
             /\ UNCHANGED <<journalVars, delivered>>
    BY <2>1, <2>4 DEF Known, journalVars
  <2> QED
    BY <1>5, <2>2, <2>3, <2>4
<1>8. NoticeInv'
  <2>1. /\ \A c \in building : Fit(c.key)'
        /\ \A l \in requests : Fit(l)'
        /\ \A r \in restoring : Finished(r.info) /\ r.info.status # "lost"
                                /\ Plain(r.info) = Final(r.task)'
    BY FitAll DEF NoticesInv, Stable
  <2>2. Fit(k)'
    BY <1>2, FitStands DEF Stable
  <2>3. requests' \cap Shown(live.context)' = {}
    BY <1>6, <1>7 DEF NoticesInv, NoticeInv
  <2>4. undoing # "flush" => delivered' \subseteq Shown(live.context)'
    BY <1>6 DEF NoticesInv, NoticeInv
  <2> QED
    BY <1>1, <1>3, <1>7, <2>1, <2>2, <2>3, <2>4 DEF NoticesInv, NoticeInv
<1>9. ASSUME NEW t \in Tasks PROVE ToldInv(t)'
  <2> SUFFICES ASSUME Open(t)', settling'[t] = None PROVE ToldInv(t)'
    BY DEF ToldInv
  <2>1. Open(t) /\ Final(t)' = Final(t) /\ ToldInv(t)
    BY EndKinds DEF Stable, Standing, NoticesInv
  <2>2. ASSUME NEW c \in building, c.key = Key(t, Final(t).status) PROVE ToldInv(t)'
    <3>1. CASE c \in building'
      BY <2>1, <2>2, <3>1 DEF ToldInv
    <3>2. CASE c = b
      BY <1>3, <1>7, <2>1, <2>2, <3>2 DEF ToldInv, k
    <3> QED
      BY <1>1, <3>1, <3>2
  <2>3. CASE ~ \E c \in building : c.key = Key(t, Final(t).status)
    BY <1>3, <1>7, <2>1, <2>3 DEF ToldInv
  <2> QED
    BY <2>2, <2>3
<1>10. requests' \subseteq Keys /\ delivered' \subseteq Keys
  BY <1>2, <1>6, <1>7 DEF NoticesInv, NoticeTypes
<1>11. /\ building' \subseteq [key : Keys, by : {"end", "restore"}]
       /\ dropped' \subseteq Keys /\ restoring' \subseteq [task : Tasks, info : Infos]
       /\ undoing' \in {"idle", "flush", "restore"}
  BY <1>1, <1>3 DEF NoticesInv, NoticeTypes
<1> QED
  BY <1>3, <1>6, <1>8, <1>9, <1>10, <1>11, NoticesMove

(* The loop delivers a notification, or drops some.                         *)
LEMMA DeliverNotices ==
    ASSUME IInv, EndsInv, NoticesInv, Stable, NEW k \in requests, Deliver(k)
    PROVE  NoticesInv'
<1>1. /\ Tell(k) /\ requests' = requests \ {k} /\ scheduled' = scheduled \ {k}
      /\ UNCHANGED <<mode, settling, writes, disk, building, dropped, restoreVars>>
      /\ mode \notin {"down", "loading"}
  BY DEF Deliver, stopVars, Alive
<1>2. k \in Keys /\ Fit(k) /\ k \notin Shown(live.context) /\ scheduled = requests
  BY DEF NoticesInv, NoticeTypes, NoticeInv
<1>3. /\ \A s \in durable' : s \in durable \/ \A t \in Tasks \ early : StoryInv(t, s)
      /\ \A s \in durable' : s.context \in Seq(ContextItems)
      /\ \A t \in Tasks : Reminded(live.context, t)' <=> Reminded(live.context, t)
      /\ Shown(live.context)' = Shown(live.context) \cup {k}
  <2>1. \A t \in Tasks \ early : StoryInv(t, live)
    BY DEF NoticesInv, EndsInv
  <2> QED
    BY <1>1, <1>2, <2>1, Telling DEF IInv, EndsInv, NoticesInv
<1>4. delivered' = delivered \cup {k}
  BY <1>1 DEF Tell
<1>5. NoticeInv'
  <2>1. /\ \A c \in building : Fit(c.key)'
        /\ \A l \in requests : Fit(l)'
        /\ \A r \in restoring : Finished(r.info) /\ r.info.status # "lost"
                                /\ Plain(r.info) = Final(r.task)'
    BY FitAll DEF NoticesInv, Stable
  <2> QED
    BY <1>1, <1>2, <1>3, <1>4, <2>1 DEF NoticesInv, NoticeInv, restoreVars
<1>6. ASSUME NEW t \in Tasks PROVE ToldInv(t)'
  <2>1. ToldInv(t) /\ Standing(t)
    BY DEF NoticesInv, Stable
  <2>2. Shown(live.context) \cup requests \cup dropped
          \subseteq Shown(live.context)' \cup requests' \cup dropped'
    BY <1>1, <1>3
  <2> QED
    BY <1>1, <2>1, <2>2, ToldKept DEF restoreVars
<1>7. delivered' \subseteq Keys /\ requests' \subseteq Keys
  BY <1>1, <1>2, <1>4 DEF NoticesInv, NoticeTypes
<1> QED
  BY <1>1, <1>3, <1>5, <1>6, <1>7, NoticesMove DEF restoreVars, NoticesInv, NoticeTypes

LEMMA DropNotices ==
    ASSUME IInv, EndsInv, NoticesInv, Stable, CancelTurns \/ \E k \in requests : Drop(k)
    PROVE  NoticesInv'
<1>1. /\ UNCHANGED <<settling, writes, disk, building, delivered, restoreVars, journalVars>>
      /\ mode \notin {"down", "loading", "restoring"}
      /\ mode' \notin {"down", "loading", "restoring"}
  BY DEF CancelTurns, Drop, stopVars, Alive
<1>2. scheduled = requests
  BY DEF NoticesInv, NoticeInv
<1>3. PICK S \in SUBSET requests :
         /\ requests' = requests \ S /\ scheduled' = scheduled \ S /\ dropped' = dropped \cup S
  <2>1. CASE CancelTurns
    <3>1. /\ requests' = requests \ requests /\ scheduled' = scheduled \ requests
          /\ dropped' = dropped \cup requests
      BY <2>1 DEF CancelTurns
    <3> QED
      BY <3>1
  <2>2. ASSUME NEW k \in requests, Drop(k)
        PROVE  /\ {k} \in SUBSET requests
               /\ requests' = requests \ {k} /\ scheduled' = scheduled \ {k}
               /\ dropped' = dropped \cup {k}
    BY <2>2 DEF Drop
  <2> QED
    BY <2>1, <2>2
<1>4. /\ live' = live
      /\ \A s \in durable' : s \in durable \/ \A t \in Tasks \ early : StoryInv(t, s)
      /\ \A s \in durable' : s.context \in Seq(ContextItems)
  BY <1>1, SameStories
<1>5. NoticeInv'
  <2>1. /\ \A c \in building : Fit(c.key)'
        /\ \A l \in requests : Fit(l)'
        /\ \A r \in restoring : Finished(r.info) /\ r.info.status # "lost"
                                /\ Plain(r.info) = Final(r.task)'
    BY FitAll DEF NoticesInv, Stable
  <2>2. /\ scheduled' = requests' /\ requests' \subseteq requests
        /\ Shown(live.context)' = Shown(live.context)
    BY <1>2, <1>3, <1>4
  <2> QED
    BY <1>1, <2>1, <2>2 DEF NoticesInv, NoticeInv, restoreVars
<1>6. ASSUME NEW t \in Tasks PROVE ToldInv(t)'
  <2>1. ToldInv(t) /\ Standing(t)
    BY DEF NoticesInv, Stable
  <2>2. Shown(live.context) \cup requests \cup dropped
          \subseteq Shown(live.context)' \cup requests' \cup dropped'
    BY <1>3, <1>4
  <2> QED
    BY <1>1, <2>1, <2>2, ToldKept DEF restoreVars
<1>7. requests' \subseteq Keys /\ dropped' \subseteq Keys
  BY <1>3 DEF NoticesInv, NoticeTypes
<1> QED
  BY <1>1, <1>4, <1>5, <1>6, <1>7, NoticesMove DEF restoreVars, NoticesInv, NoticeTypes

LEMMA PromptNotices ==
    ASSUME IInv, EndsInv, NoticesInv, Stable, Prompt
    PROVE  NoticesInv'
<1>1. /\ Record([live EXCEPT !.context = Append(@, Prompted)])
      /\ UNCHANGED <<mode, settling, writes, disk, noticeVars, restoreVars>>
      /\ mode = "up"
  BY DEF Prompt, stopVars
<1>2. /\ live'.context = Append(live.context, Prompted) /\ durable' = durable \cup {live'}
  BY <1>1, RecordedContext DEF IInv
<1>3. live.context \in Seq(ContextItems)
  BY DEF NoticesInv, NoticeTypes, EndsInv
<1>4. /\ live'.context \in Seq(ContextItems)
      /\ \A k : k \in Shown(live'.context) <=> k \in Shown(live.context)
      /\ \A t \in Tasks : Reminded(live'.context, t) <=> Reminded(live.context, t)
  BY <1>2, <1>3, AppendContext, ItemKinds
<1>5. Shown(live'.context) = Shown(live.context)
  BY <1>4
<1>6. ASSUME NEW t \in Tasks \ early PROVE StoryInv(t, live')
  <2>1. StoryInv(t, live)
    BY DEF NoticesInv, EndsInv
  <2> QED
    BY <1>2, <1>3, <2>1, ItemKinds, StoryAppend
<1>7. NoticeInv'
  <2>1. /\ \A c \in building : Fit(c.key)'
        /\ \A l \in requests : Fit(l)'
        /\ \A r \in restoring : Finished(r.info) /\ r.info.status # "lost"
                                /\ Plain(r.info) = Final(r.task)'
    BY FitAll DEF NoticesInv, Stable
  <2> QED
    BY <1>1, <1>5, <2>1 DEF NoticesInv, NoticeInv, restoreVars, noticeVars
<1>8. ASSUME NEW t \in Tasks PROVE ToldInv(t)'
  <2>1. ToldInv(t) /\ Standing(t)
    BY DEF NoticesInv, Stable
  <2> QED
    BY <1>1, <1>5, <2>1, ToldKept DEF restoreVars, noticeVars
<1>9. /\ \A s \in durable' : s \in durable \/ \A t \in Tasks \ early : StoryInv(t, s)
      /\ \A s \in durable' : s.context \in Seq(ContextItems)
  BY <1>2, <1>4, <1>6 DEF NoticesInv, NoticeTypes
<1> QED
  BY <1>1, <1>4, <1>7, <1>8, <1>9, NoticesMove
     DEF restoreVars, noticeVars, NoticesInv, NoticeTypes

LEMMA UndoNotices ==
    ASSUME IInv, EndsInv, NoticesInv, Stable, Undo
    PROVE  NoticesInv'
<1>1. /\ Record([live EXCEPT !.context = Cut(@)])
      /\ UNCHANGED <<mode, settling, writes, disk, noticeVars, ghosts, lost, restoring, early>>
      /\ mode = "up" /\ requests = {} /\ undoing' = "flush"
      /\ Anchors(live.context) # {}
      /\ unreminded' = unreminded \cup
            {t \in Tasks : Reminded(live.context, t) /\ ~ Reminded(Cut(live.context), t)}
  BY DEF Undo, stopVars
<1>2. live'.context = Cut(live.context) /\ durable' = durable \cup {live'}
  BY <1>1, RecordedContext DEF IInv
<1>3. live.context \in Seq(ContextItems)
  BY DEF NoticesInv, NoticeTypes, EndsInv
<1>4. /\ live'.context \in Seq(ContextItems) /\ DOMAIN live'.context \subseteq DOMAIN live.context
      /\ \A i \in DOMAIN live'.context : live'.context[i] = live.context[i]
  BY <1>1, <1>2, <1>3, CutContext
<1>5. ASSUME NEW t \in Tasks \ early PROVE StoryInv(t, live')
  <2>1. StoryInv(t, live)
    BY DEF NoticesInv, EndsInv
  <2> QED
    BY <1>4, <2>1, StoryCut
<1>6. NoticeInv'
  <2>1. /\ \A c \in building : Fit(c.key)'
        /\ \A l \in requests : Fit(l)'
        /\ \A r \in restoring : Finished(r.info) /\ r.info.status # "lost"
                                /\ Plain(r.info) = Final(r.task)'
    BY FitAll DEF NoticesInv, Stable
  <2> QED
    BY <1>1, <2>1 DEF NoticesInv, NoticeInv, noticeVars
<1>7. \A t \in Tasks : ToldInv(t)'
  BY <1>1 DEF ToldInv
<1>8. /\ \A s \in durable' : s \in durable \/ \A t \in Tasks \ early : StoryInv(t, s)
      /\ \A s \in durable' : s.context \in Seq(ContextItems)
  BY <1>2, <1>4, <1>5 DEF NoticesInv, NoticeTypes
<1>9. \A t \in Tasks : Reminded(live.context, t) =>
         Reminded(live.context, t)' \/ t \in unreminded'
  BY <1>1, <1>2
<1> QED
  BY <1>1, <1>6, <1>7, <1>8, <1>9, NoticesMove DEF noticeVars, NoticesInv, NoticeTypes

(* An undo and a restart look at every end that may have to be told again.  *)
LEMMA RestorableLemma ==
    ASSUME IInv, EndsInv, mode # "down"
    PROVE  /\ \A t \in Restorable : /\ Seen(t) \in Infos /\ Finished(Seen(t))
                                    /\ Seen(t).status # "lost" /\ Plain(Seen(t)) = Final(t)
           /\ \A t \in Tasks : Open(t) => t \in Restorable
<1>1. ASSUME NEW t \in Restorable
      PROVE  /\ Seen(t) \in Infos /\ Finished(Seen(t))
             /\ Seen(t).status # "lost" /\ Plain(Seen(t)) = Final(t)
  BY SeenFinal DEF Restorable, Finished, EndsInv
<1>2. ASSUME NEW t \in Tasks, Open(t) PROVE t \in Restorable
  BY <1>2, SeenOpen, EndKinds DEF Restorable, Open, EndsInv
<1> QED
  BY <1>1, <1>2

LEMMA FlushedStories ==
    ASSUME NoticesInv, EndsInv, Flush
    PROVE  /\ live' = live
           /\ \A s \in durable' : s \in durable \/ \A t \in Tasks \ early : StoryInv(t, s)
           /\ \A s \in durable' : s.context \in Seq(ContextItems)
BY DEF Flush, NoticesInv, NoticeTypes, EndsInv

LEMMA ReconcileNotices ==
    ASSUME IInv, EndsInv, NoticesInv, Stable, Reconcile
    PROVE  NoticesInv'
<1>1. /\ Flush /\ mode \notin {"down", "loading"} /\ undoing' = "restore" /\ dropped' = {}
      /\ delivered' = Shown(live.context)
      /\ scheduled' = (scheduled \cap requests) \ Shown(live.context)
      /\ restoring' = {[task |-> t, info |-> Seen(t)] : t \in Restorable}
      /\ UNCHANGED <<mode, settling, writes, disk, building, requests,
                     ghosts, lost, unreminded, early>>
  BY DEF Reconcile, stopVars, Alive
<1>2. /\ live' = live
      /\ \A s \in durable' : s \in durable \/ \A t \in Tasks \ early : StoryInv(t, s)
      /\ \A s \in durable' : s.context \in Seq(ContextItems)
  BY <1>1, FlushedStories
<1>3. delivered' \subseteq Keys
  <2>1. live.context \in Seq(ContextItems)
    BY DEF NoticesInv, NoticeTypes, EndsInv
  <2>2. \A i \in DOMAIN live.context : live.context[i] \in ContextItems
    BY <2>1
  <2> QED
    BY <1>1, <2>2, ShownLemma, ItemKinds
<1>4. \A t \in Restorable : /\ t \in Tasks /\ Seen(t) \in Infos /\ Finished(Seen(t))
                            /\ Seen(t).status # "lost" /\ Plain(Seen(t)) = Final(t)
  BY <1>1, RestorableLemma DEF Restorable
<1>5. \A r \in restoring' : /\ r \in [task : Tasks, info : Infos]
                            /\ Finished(r.info) /\ r.info.status # "lost"
                            /\ Plain(r.info) = Final(r.task)'
  <2> SUFFICES ASSUME NEW t \in Restorable, NEW r, r = [task |-> t, info |-> Seen(t)]
               PROVE  /\ r \in [task : Tasks, info : Infos]
                      /\ Finished(r.info) /\ r.info.status # "lost"
                      /\ Plain(r.info) = Final(r.task)'
    BY <1>1
  <2>1. Finished(Final(t)) /\ t \in Tasks
    BY <1>4, PlainLemma
  <2>2. Final(t)' = Final(t)
    BY <2>1 DEF Stable, Standing
  <2> QED
    BY <1>4, <2>1, <2>2
<1>6. NoticeInv'
  <2>1. /\ \A c \in building : Fit(c.key)'
        /\ \A l \in requests : Fit(l)'
    BY FitAll DEF NoticesInv, Stable
  <2>2. scheduled' = requests'
    BY <1>1 DEF NoticesInv, NoticeInv
  <2>3. Shown(live.context)' = Shown(live.context)
    BY <1>2
  <2> QED
    BY <1>1, <1>5, <2>1, <2>2, <2>3 DEF NoticesInv, NoticeInv
<1>7. ASSUME NEW t \in Tasks PROVE ToldInv(t)'
  <2> SUFFICES ASSUME Open(t)', settling'[t] = None PROVE ToldInv(t)'
    BY DEF ToldInv
  <2>1. Open(t)
    BY DEF Stable, Standing
  <2>2. [task |-> t, info |-> Seen(t)] \in restoring'
    BY <1>1, <2>1, RestorableLemma
  <2> QED
    BY <1>1, <2>2 DEF ToldInv
<1>8. restoring' \subseteq [task : Tasks, info : Infos]
  BY <1>5
<1> QED
  BY <1>1, <1>2, <1>3, <1>6, <1>7, <1>8, NoticesMove DEF NoticesInv, NoticeTypes

LEMMA UndoEndsNotices ==
    ASSUME IInv, EndsInv, NoticesInv, Stable, UndoEnds
    PROVE  NoticesInv'
<1>1. /\ Flush /\ mode \notin {"down", "loading"} /\ undoing = "restore" /\ undoing' = "idle"
      /\ restoring = {}
      /\ UNCHANGED <<mode, settling, writes, disk, noticeVars, ghosts, lost, restoring,
                     unreminded, early>>
  BY DEF UndoEnds, stopVars, Alive
<1>2. /\ live' = live
      /\ \A s \in durable' : s \in durable \/ \A t \in Tasks \ early : StoryInv(t, s)
      /\ \A s \in durable' : s.context \in Seq(ContextItems)
  BY <1>1, FlushedStories
<1>3. NoticeInv'
  <2>1. /\ \A c \in building : Fit(c.key)'
        /\ \A l \in requests : Fit(l)'
    BY FitAll DEF NoticesInv, Stable
  <2>2. Shown(live.context)' = Shown(live.context)
    BY <1>2
  <2> QED
    BY <1>1, <2>1, <2>2 DEF NoticesInv, NoticeInv, noticeVars
<1>4. ASSUME NEW t \in Tasks PROVE ToldInv(t)'
  <2>1. ToldInv(t) /\ Standing(t)
    BY DEF NoticesInv, Stable
  <2> QED
    BY <1>1, <1>2, <2>1, ToldKept DEF noticeVars
<1> QED
  BY <1>1, <1>2, <1>3, <1>4, NoticesMove DEF noticeVars, NoticesInv, NoticeTypes

LEMMA RestoreNextNotices ==
    ASSUME IInv, EndsInv, NoticesInv, Stable, RestoreNext
    PROVE  NoticesInv'
<1>1. PICK r \in restoring :
          /\ restoring' = restoring \ {r}
          /\ building' = building \cup
                {b \in {Build(r.task, r.info, "restore")} : Wanted(r.task, r.info)}
  BY DEF RestoreNext
<1>2. /\ UNCHANGED <<mode, settling, writes, disk, journalVars, scheduled, delivered,
                     requests, dropped, ghosts, lost, undoing, unreminded, early>>
      /\ mode \notin {"down", "loading"}
  BY DEF RestoreNext, stopVars, Alive
<1> DEFINE t == r.task
           k == Key(t, r.info.status)
           b == Build(t, r.info, "restore")
<1>3. /\ t \in Tasks /\ r.info \in Infos /\ r.info.status \in Ends \ {"lost"}
      /\ r.info.status = Final(t).status /\ r.info.attached = Final(t).attached
      /\ r.info.suppressed = Final(t).suppressed
  <2>1. /\ t \in Tasks /\ r.info \in Infos /\ Finished(r.info) /\ r.info.status # "lost"
        /\ Plain(r.info) = Final(t)
    BY DEF NoticesInv, NoticeTypes, NoticeInv
  <2> QED
    BY <2>1, PlainLemma DEF Finished
<1>4. k \in Keys /\ k.task = t /\ k.status = r.info.status
  BY <1>3 DEF Keys, Key
<1>5. b.key = k /\ b \in [key : Keys, by : {"end", "restore"}]
  BY <1>4 DEF Build
<1>6. Wanted(t, r.info) => Open(t) /\ Fit(k)
  BY <1>3, <1>4 DEF Wanted, Open, Fit
<1>7. Open(t) => Known(k) \/ \E c \in building' : c.key = k
  <2> SUFFICES ASSUME Open(t), ~ Known(k) PROVE \E c \in building' : c.key = k
    OBVIOUS
  <2>1. ~ r.info.attached /\ ~ r.info.suppressed
    BY <1>3 DEF Open
  <2>2. CASE Wanted(t, r.info)
    BY <1>1, <1>5, <2>2
  <2>3. CASE ~ Wanted(t, r.info)
    BY <1>1, <2>1, <2>3 DEF Wanted
  <2> QED
    BY <2>2, <2>3
<1>8. /\ building \subseteq building'
      /\ \A c \in building' : c \in building \/ (c = b /\ Wanted(t, r.info))
  BY <1>1
<1> HIDE DEF k, b, t
<1>9. /\ live' = live
      /\ \A s \in durable' : s \in durable \/ \A u \in Tasks \ early : StoryInv(u, s)
      /\ \A s \in durable' : s.context \in Seq(ContextItems)
  BY <1>2, SameStories
<1>10. NoticeInv'
  <2>1. /\ \A c \in building : Fit(c.key)'
        /\ \A l \in requests : Fit(l)'
        /\ \A q \in restoring : Finished(q.info) /\ q.info.status # "lost"
                                /\ Plain(q.info) = Final(q.task)'
    BY FitAll DEF NoticesInv, Stable
  <2>2. Wanted(t, r.info) => Fit(b.key)'
    BY <1>3, <1>4, <1>5, <1>6, FitStands DEF Stable
  <2> QED
    BY <1>1, <1>2, <1>8, <1>9, <2>1, <2>2 DEF NoticesInv, NoticeInv
<1>11. ASSUME NEW u \in Tasks PROVE ToldInv(u)'
  <2> SUFFICES ASSUME Open(u)', settling'[u] = None PROVE ToldInv(u)'
    BY DEF ToldInv
  <2>1. Open(u) /\ Final(u)' = Final(u) /\ ToldInv(u)
    BY EndKinds DEF Stable, Standing, NoticesInv
  <2>2. CASE u = t
    <3>1. k = Key(u, Final(u).status)
      BY <1>3, <2>2 DEF k
    <3>2. undoing = "flush" \/ k \in Shown(live.context) \cup requests
          \/ \E c \in building' : c.key = k
      BY <1>7, <2>1, <2>2, KnownLemma
    <3> QED
      BY <1>2, <1>9, <2>1, <3>1, <3>2 DEF ToldInv
  <2>3. CASE u # t
    <3>1. \A q \in restoring : q.task = u => q \in restoring'
      BY <1>1, <2>3 DEF t
    <3> QED
      BY <1>2, <1>8, <1>9, <2>1, <3>1 DEF ToldInv
  <2> QED
    BY <2>2, <2>3
<1>12. building' \subseteq [key : Keys, by : {"end", "restore"}]
  BY <1>5, <1>8 DEF NoticesInv, NoticeTypes
<1>13. restoring' \subseteq restoring
  BY <1>1
<1> QED
  BY <1>2, <1>9, <1>10, <1>11, <1>12, <1>13, NoticesMove DEF NoticesInv, NoticeTypes

-----------------------------------------------------------------------------
(* The steps of the process.                                                *)

(* What the model was told is still so when the process is gone, if the end *)
(* it was told of is in its file.                                           *)
LEMMA StoryLeft ==
    ASSUME NEW t, NEW s, StoryInv(t, s), Left(t),
           \A i \in DOMAIN s.context : s.context[i].task = t => Finished(disk[t])
    PROVE  StoryInv(t, s)'
<1>1. ASSUME NEW i \in DOMAIN s.context, s.context[i].task = t
      PROVE  IF s.context[i].kind = "notice" THEN Fit(Key(t, s.context[i].status))'
             ELSE (~ Exists(t) /\ PreviousSession(Final(t)))'
  <2>1. Final(t)' = Final(t) /\ ~ Exists(t)'
    BY <1>1 DEF Left
  <2>2. CASE s.context[i].kind = "notice"
    <3>1. Fit(Key(t, s.context[i].status))
      BY <1>1, <2>2 DEF StoryInv
    <3> QED
      BY <2>1, <2>2, <3>1 DEF Fit, Open, Key
  <2>3. CASE s.context[i].kind # "notice"
    <3>1. PreviousSession(Final(t))
      BY <1>1, <2>3 DEF StoryInv
    <3> QED
      BY <2>1, <2>3, <3>1 DEF PreviousSession
  <2> QED
    BY <2>2, <2>3
<1> QED
  BY <1>1 DEF StoryInv

LEMMA GoneNotices ==
    ASSUME NoticesInv, EndsInv', Gone, UNCHANGED disk, live' \in durable,
           durable' = {live'}, early \subseteq early',
           \A t \in Tasks : writes'[t] = writes[t] \/ writes'[t] = <<>>,
           \A t \in Tasks : Left(t),
           \A t \in Tasks \ early' : \A i \in DOMAIN live'.context :
              live'.context[i].task = t => Finished(disk[t]),
           \A t \in Tasks : Marked(t)' => Reminded(live.context, t)' \/ t \in unreminded'
    PROVE  NoticesInv'
<1>1. /\ mode' = "down" /\ building' = {} /\ scheduled' = {} /\ delivered' = {}
      /\ requests' = {} /\ dropped' = {} /\ lost' = {} /\ restoring' = {} /\ undoing' = "idle"
  BY DEF Gone
<1>2. NoticeTypes' /\ NoticeInv'
  BY <1>1 DEF NoticesInv, NoticeTypes, NoticeInv
<1>3. ASSUME NEW t \in Tasks \ early', NEW s \in durable' PROVE StoryInv(t, s)'
  <2>1. StoryInv(t, s) /\ s = live'
    BY DEF NoticesInv
  <2> QED
    BY <2>1, StoryLeft
<1>4. \A t \in Tasks : MarkInv(t)' /\ ToldInv(t)'
  BY <1>1 DEF MarkInv, ToldInv
<1> QED
  BY <1>2, <1>3, <1>4 DEF NoticesInv

(* The end the model was told of is in its file once nothing is left to be  *)
(* written.                                                                 *)
LEMMA ToldIsFiled ==
    ASSUME IInv, EndsInv, NEW t \in Tasks, NEW s, StoryInv(t, s),
           Exists(t) => EndedEntry(t) /\ writes[t] = <<>>,
           NEW i \in DOMAIN s.context, s.context[i].task = t
    PROVE  Finished(disk[t])
<1>1. Finished(Final(t)) /\ (Exists(t) => Open(t))
  <2>1. CASE s.context[i].kind = "notice"
    BY <2>1, EndKinds DEF StoryInv, Fit, Key
  <2>2. CASE s.context[i].kind # "notice"
    BY <2>2, EndKinds DEF StoryInv
  <2> QED
    BY <2>1, <2>2
<1>2. disk[t] \in Infos
  BY DEF IInv, TypeInv
<1>3. CASE ~ Exists(t)
  BY <1>1, <1>2, <1>3, PlainLemma DEF Final
<1>4. CASE Exists(t)
  <2>1. ~ task[t].attached /\ Final(t) = Info(task[t])
    BY <1>1, <1>4 DEF Open, Final, Info
  <2>2. task[t].spilled
    BY <1>4, <2>1 DEF EndsInv, EndInv, LivingInv
  <2>3. disk[t] = Info(task[t])
    BY <1>4, <2>2 DEF EndsInv, EndInv, SettlingInv
  <2> QED
    BY <1>1, <2>1, <2>3
<1> QED
  BY <1>3, <1>4

LEMMA DisposeNotices ==
    ASSUME IInv, EndsInv, NoticesInv, EndsInv', Dispose
    PROVE  NoticesInv'
<1>1. /\ Gone /\ live' = live /\ durable' = {live}
      /\ UNCHANGED <<writes, disk, unreminded, early>>
  BY DEF Dispose, Flush
<1>2. ASSUME NEW t \in Tasks PROVE Left(t) /\ (Exists(t) => EndedEntry(t) /\ writes[t] = <<>>)
  BY DisposeEnds
<1>3. ASSUME NEW t \in Tasks \ early', NEW i \in DOMAIN live.context,
             live.context[i].task = t
      PROVE  Finished(disk[t])
  <2>1. StoryInv(t, live)
    BY <1>1 DEF NoticesInv, EndsInv
  <2> QED
    BY <1>2, <1>3, <2>1, ToldIsFiled
<1>4. ASSUME NEW t \in Tasks, Marked(t)'
      PROVE  Reminded(live.context, t)' \/ t \in unreminded'
  <2>1. ghosts'[t] = NoInfo
    BY <1>1 DEF Gone
  <2>2. Marked(t)
    BY <1>1, <1>4, <2>1, SameMarks DEF NoInfo, Info
  <2>3. Reminded(live.context, t)' <=> Reminded(live.context, t)
    BY <1>1
  <2> QED
    BY <1>1, <2>2, <2>3 DEF NoticesInv, MarkInv
<1> QED
  BY <1>1, <1>2, <1>3, <1>4, GoneNotices DEF EndsInv

LEMMA CrashNotices ==
    ASSUME IInv, EndsInv, NoticesInv, EndsInv', Crash
    PROVE  NoticesInv'
<1>1. /\ Gone /\ writes' = [t \in Tasks |-> <<>>] /\ disk' = disk
      /\ live' \in durable /\ durable' = {live'}
      /\ early' = early \cup {k.task : k \in {x \in Shown(live'.context) :
                                  Restored(live', x.task).status \notin Ends}}
      /\ unreminded' = {t \in Tasks : ~ Reminded(live'.context, t)
                            /\ (t \in unreminded \/ disk[t].reminded)}
  BY DEF Crash
<1>2. ASSUME NEW t \in Tasks PROVE Left(t)
  BY CrashEnds
<1>3. ASSUME NEW t \in Tasks \ early', NEW i \in DOMAIN live'.context,
             live'.context[i].task = t
      PROVE  Finished(disk[t])
  <2>1. StoryInv(t, live')
    BY <1>1 DEF NoticesInv
  <2>2. disk[t] \in Infos
    BY DEF IInv, TypeInv
  <2>3. CASE live'.context[i].kind = "notice"
    <3> DEFINE k == Key(t, live'.context[i].status)
    <3>1. k \in Shown(live'.context) /\ k.task = t
      BY <1>3, <2>3, ShownLemma DEF Key
    <3>2. Restored(live', t).status \in Ends
      BY <1>1, <3>1
    <3>3. live'.infos[t] \in Journaled(t)
      BY <1>1 DEF Journaled
    <3>4. Finished(live'.infos[t]) => Finished(disk[t])
      BY <3>3 DEF EndsInv, EndInv, FilesInv
    <3> QED
      BY <3>2, <3>4 DEF Restored, Newer, Finished
  <2>4. CASE live'.context[i].kind # "notice"
    <3>1. ~ Exists(t) /\ Finished(Final(t))
      BY <1>3, <2>1, <2>4, EndKinds DEF StoryInv
    <3> QED
      BY <2>2, <3>1, PlainLemma DEF Final
  <2> QED
    BY <2>3, <2>4
<1>4. ASSUME NEW t \in Tasks, Marked(t)'
      PROVE  Reminded(live.context, t)' \/ t \in unreminded'
  <2>1. ghosts'[t] = NoInfo /\ writes'[t] = <<>> /\ disk'[t] = disk[t]
    BY <1>1 DEF Gone
  <2>2. disk[t].reminded
    BY <1>4, <2>1 DEF Marked, Written, NoInfo, Info
  <2> QED
    BY <1>1, <2>2
<1>5. \A t \in Tasks : writes'[t] = writes[t] \/ writes'[t] = <<>>
  BY <1>1
<1> QED
  BY <1>1, <1>2, <1>3, <1>4, <1>5, GoneNotices

LEMMA RestartNotices ==
    ASSUME IInv, EndsInv, NoticesInv, Stable, Restart
    PROVE  NoticesInv'
<1>1. /\ mode = "down" /\ mode' = "loading"
      /\ writes' = [t \in Tasks |-> <<>>]
      /\ ghosts' = [t \in Tasks |-> Restored(live, t)]
      /\ delivered' = Shown(live.context)
      /\ UNCHANGED <<disk, journalVars, building, scheduled, requests, dropped, lost,
                     restoring, undoing, unreminded, early>>
  BY DEF Restart
<1>2. /\ live' = live
      /\ \A s \in durable' : s \in durable \/ \A t \in Tasks \ early : StoryInv(t, s)
      /\ \A s \in durable' : s.context \in Seq(ContextItems)
  BY <1>1, SameStories
<1>3. delivered' \subseteq Keys
  <2>1. live.context \in Seq(ContextItems)
    BY DEF NoticesInv, NoticeTypes, EndsInv
  <2>2. \A i \in DOMAIN live.context : live.context[i] \in ContextItems
    BY <2>1
  <2> QED
    BY <1>1, <2>2, ShownLemma, ItemKinds
<1>4. NoticeTypes'
  BY <1>1, <1>2, <1>3 DEF NoticesInv, NoticeTypes
<1>5. NoticeInv'
  <2>1. Shown(live.context)' = Shown(live.context)
    BY <1>2
  <2>2. building = {} /\ requests = {} /\ restoring = {} /\ scheduled = requests
    BY <1>1 DEF NoticesInv, NoticeInv
  <2> QED
    BY <1>1, <2>1, <2>2 DEF NoticeInv
<1>6. \A t \in Tasks \ early', s \in durable' : StoryInv(t, s)'
  BY <1>1, <1>2, StoryKept DEF Stable
<1>7. ASSUME NEW t \in Tasks PROVE MarkInv(t)' /\ ToldInv(t)'
  <2>1. MarkInv(t)
    BY DEF NoticesInv
  <2>2. Marked(t)' => Marked(t)
    <3>1. writes'[t] = <<>> /\ disk'[t] = disk[t] /\ ghosts'[t] = Restored(live, t)
      BY <1>1
    <3>2. ~ live.infos[t].reminded
      BY DEF EndsInv, EndInv, FilesInv, Journaled
    <3> QED
      BY <3>1, <3>2 DEF Marked, Written, Restored, Newer
  <2>3. Reminded(live.context, t)' <=> Reminded(live.context, t)
    BY <1>2
  <2> QED
    BY <1>1, <2>1, <2>2, <2>3 DEF MarkInv, ToldInv
<1> QED
  BY <1>4, <1>5, <1>6, <1>7 DEF NoticesInv

(* The reminders a restart adds are about tasks that nothing was said of.   *)
LEMMA StoryReminded ==
    ASSUME NEW t \in Tasks, NEW s, NEW c \in Seq(ContextItems), NEW q \in Seq(ContextItems),
           NEW S \in SUBSET Tasks, s.context = c \o q,
           \A i, j \in DOMAIN c : c[i].task = t /\ c[j].task = t => i = j,
           \A i \in DOMAIN c : c[i].task = t =>
              IF c[i].kind = "notice" THEN Fit(Key(t, c[i].status))
              ELSE ~ Exists(t) /\ PreviousSession(Final(t)),
           \A i \in DOMAIN q : \E u \in S : q[i] = Reminder(u),
           \A i, j \in DOMAIN q : q[i] = q[j] => i = j,
           t \in S => /\ ~ Exists(t) /\ PreviousSession(Final(t))
                      /\ \A i \in DOMAIN c : c[i].task # t
    PROVE  StoryInv(t, s)
<1> DEFINE d == c \o q
           n == Len(c)
           m == Len(q)
<1>1. /\ DOMAIN c = 1..n /\ n \in Nat /\ DOMAIN q = 1..m /\ m \in Nat
      /\ DOMAIN d = 1..(n + m)
      /\ \A i \in 1..n : d[i] = c[i]
      /\ \A i \in 1..(n + m) : i \notin 1..n => i - n \in 1..m /\ d[i] = q[i - n]
  BY ConcatContext
<1> HIDE DEF d, n, m
<1>2. \A i \in DOMAIN q : q[i].task \in S /\ q[i].kind # "notice" /\ q[i] = Reminder(q[i].task)
  BY ItemKinds
<1>3. ASSUME NEW i \in DOMAIN d
      PROVE  \/ i \in DOMAIN c /\ d[i] = c[i]
             \/ /\ i \notin DOMAIN c /\ i - n \in DOMAIN q /\ d[i] = q[i - n]
                /\ d[i].task \in S /\ d[i].kind # "notice"
  <2>1. CASE i \in 1..n
    BY <1>1, <2>1
  <2>2. CASE i \notin 1..n
    <3>1. i - n \in DOMAIN q /\ d[i] = q[i - n]
      BY <1>1, <2>2
    <3> QED
      BY <1>1, <1>2, <2>2, <3>1
  <2> QED
    BY <2>1, <2>2
<1>4. ASSUME NEW i \in DOMAIN d, NEW j \in DOMAIN d, d[i].task = t, d[j].task = t
      PROVE  i = j
  <2>1. CASE i \in DOMAIN c /\ j \in DOMAIN c
    BY <1>3, <1>4, <2>1
  <2>2. CASE i \notin DOMAIN c /\ j \notin DOMAIN c
    <3>1. /\ i - n \in DOMAIN q /\ j - n \in DOMAIN q
          /\ d[i] = q[i - n] /\ d[j] = q[j - n]
      BY <1>3, <2>2
    <3>2. q[i - n] = q[j - n]
      BY <1>2, <1>4, <3>1
    <3>3. i - n = j - n
      BY <3>1, <3>2
    <3> QED
      BY <1>1, <3>3
  <2>3. ASSUME NEW a \in DOMAIN d, NEW b \in DOMAIN d, a \in DOMAIN c, b \notin DOMAIN c,
               d[a].task = t, d[b].task = t
        PROVE  FALSE
    <3>1. t \in S /\ c[a].task = t
      BY <1>3, <2>3
    <3> QED
      BY <2>3, <3>1
  <2> QED
    BY <1>4, <2>1, <2>2, <2>3
<1>5. ASSUME NEW i \in DOMAIN d, d[i].task = t
      PROVE  IF d[i].kind = "notice" THEN Fit(Key(t, d[i].status))
             ELSE ~ Exists(t) /\ PreviousSession(Final(t))
  <2>1. CASE i \in DOMAIN c
    <3>1. d[i] = c[i]
      BY <1>3, <2>1
    <3> QED
      BY <1>5, <2>1, <3>1
  <2>2. CASE i \notin DOMAIN c
    <3>1. t \in S /\ d[i].kind # "notice"
      BY <1>3, <1>5, <2>2
    <3> QED
      BY <3>1
  <2> QED
    BY <2>1, <2>2
<1> QED
  BY <1>4, <1>5 DEF StoryInv, d

LEMMA RemindNotices ==
    ASSUME IInv, EndsInv, NoticesInv, Stable, Remind
    PROVE  NoticesInv'
<1> DEFINE due == {t \in Tasks : PreviousSession(ghosts[t]) /\ ~ ghosts[t].reminded}
           marked(t) == [ghosts[t] EXCEPT !.reminded = TRUE]
           reminders == {Reminder(t) : t \in Untold(due)}
           c == live.context
           q == SetToSeq(reminders)
           infos == [t \in Tasks |-> IF t \in lost THEN ghosts[t] ELSE live.infos[t]]
<1>1. /\ mode = "loading" /\ mode' = "restoring" /\ lost' = {}
      /\ Record([infos |-> infos, context |-> c \o q])
      /\ ghosts' = [t \in Tasks |-> IF t \in due THEN marked(t) ELSE ghosts[t]]
      /\ writes' = [t \in Tasks |-> IF t \in due THEN <<marked(t)>> ELSE writes[t]]
      /\ restoring' = {[task |-> t, info |-> Seen(t)] : t \in Restorable}
      /\ UNCHANGED <<taskVars, settling, disk, noticeVars, undoing, unreminded, early>>
  BY DEF Remind, stopVars
<1>2. live'.context = c \o q /\ durable' = durable \cup {live'}
  BY <1>1 DEF Record
<1> HIDE DEF infos
<1>3. /\ c \in Seq(ContextItems) /\ q \in Seq(ContextItems)
      /\ \A i \in DOMAIN q : \E u \in Untold(due) : q[i] = Reminder(u)
      /\ \A t \in Untold(due) : \E i \in DOMAIN q : q[i] = Reminder(t)
      /\ \A i, j \in DOMAIN q : q[i] = q[j] => i = j
  <2>1. IsFiniteSet(reminders)
    <3>1. IsFiniteSet(Untold(due))
      <4>1. Untold(due) \in SUBSET Tasks
        BY DEF Untold
      <4> QED
        BY <4>1, TasksAssumption, FS_Subset
    <3> DEFINE f == [t \in Untold(due) |-> Reminder(t)]
    <3>2. f \in Surjection(Untold(due), reminders)
      BY DEF Surjection
    <3> HIDE DEF f, reminders
    <3> QED
      BY <3>1, <3>2, FS_Surjection
  <2>2. /\ q \in Seq(reminders)
        /\ \A x \in reminders : \E i \in DOMAIN q : q[i] = x
        /\ \A i, j \in DOMAIN q : q[i] = q[j] => i = j
    BY <2>1, SetToSeqLemma
  <2>3. \A x \in reminders : x \in ContextItems /\ \E u \in Untold(due) : x = Reminder(u)
    BY ItemKinds DEF Untold
  <2>4. \A t \in Untold(due) : Reminder(t) \in reminders
    OBVIOUS
  <2> HIDE DEF q, reminders, due
  <2>5. Len(q) \in Nat /\ DOMAIN q = 1..Len(q) /\ \A i \in 1..Len(q) : q[i] \in reminders
    BY <2>2
  <2>6. q \in Seq(ContextItems)
    BY <2>2, <2>3, <2>5
  <2>7. c \in Seq(ContextItems)
    BY DEF NoticesInv, NoticeTypes, EndsInv
  <2> QED
    BY <2>2, <2>3, <2>4, <2>5, <2>6, <2>7
<1>4. \A t \in Tasks : ~ Exists(t)
  BY <1>1 DEF IInv, TaskInv, EntryInv, Alive
<1>5. ASSUME NEW t \in due PROVE t \in Tasks /\ PreviousSession(Final(t))
  <2>1. Finished(ghosts[t]) /\ PreviousSession(Seen(t)) /\ Seen(t) = ghosts[t]
    BY <1>4 DEF PreviousSession, Finished, Ends, Seen
  <2>2. Finished(Final(t))
    BY <1>1, <1>4, <2>1, SeenFinal DEF EndsInv
  <2> QED
    BY <1>1, <2>1, <2>2, SeenOpen DEF EndsInv
<1> HIDE DEF q, c, reminders
<1>6. ASSUME NEW t \in Tasks \ early PROVE StoryInv(t, live')
  <2>1. StoryInv(t, live)
    BY DEF NoticesInv, EndsInv
  <2>2. ASSUME t \in Untold(due), NEW i \in DOMAIN c PROVE c[i].task # t
    <3>1. SUFFICES ASSUME c[i].task = t PROVE FALSE
      OBVIOUS
    <3>2. t \in due /\ ~ Reminded(c, t)
      BY <2>2 DEF Untold, c
    <3>3. CASE c[i].kind = "notice"
      <4>1. Open(t)
        BY <2>1, <3>1, <3>3 DEF StoryInv, Fit, Key, c
      <4> QED
        BY <1>5, <3>2, <4>1, EndKinds
    <3>4. CASE c[i].kind # "notice"
      <4>1. c[i] \in ContextItems
        BY <1>3
      <4>2. c[i] = Reminder(t)
        BY <3>1, <3>4, <4>1, ItemKinds
      <4> QED
        BY <3>2, <4>2, RemindedLemma
    <3> QED
      BY <3>3, <3>4
  <2>3. t \in Untold(due) => PreviousSession(Final(t)) /\ ~ Exists(t)
    BY <1>4, <1>5 DEF Untold
  <2>4. Untold(due) \in SUBSET Tasks
    BY DEF Untold
  <2>5. /\ \A i, j \in DOMAIN c : c[i].task = t /\ c[j].task = t => i = j
        /\ \A i \in DOMAIN c : c[i].task = t =>
              IF c[i].kind = "notice" THEN Fit(Key(t, c[i].status))
              ELSE ~ Exists(t) /\ PreviousSession(Final(t))
    BY <2>1 DEF StoryInv, c
  <2> HIDE DEF due
  <2> QED
    BY <1>2, <1>3, <2>2, <2>3, <2>4, <2>5, StoryReminded
<1>7. /\ live'.context \in Seq(ContextItems) /\ Shown(c) \subseteq Shown(live'.context)
      /\ \A t \in Tasks : Reminded(c, t) \/ t \in Untold(due) => Reminded(live'.context, t)
  <2> DEFINE d == c \o q
  <2>1. /\ d \in Seq(ContextItems)
        /\ DOMAIN c = 1..Len(c) /\ Len(c) \in Nat /\ DOMAIN q = 1..Len(q) /\ Len(q) \in Nat
        /\ DOMAIN d = 1..(Len(c) + Len(q))
        /\ \A i \in 1..Len(c) : d[i] = c[i]
        /\ \A i \in 1..Len(q) : d[Len(c) + i] = q[i]
    BY <1>3, ConcatContext
  <2> HIDE DEF d, due
  <2>2. /\ \A i \in DOMAIN c : i \in DOMAIN d /\ d[i] = c[i]
        /\ \A i \in DOMAIN q : Len(c) + i \in DOMAIN d /\ d[Len(c) + i] = q[i]
    BY <2>1
  <2>3. Shown(c) \subseteq Shown(d)
    BY <2>2, CutShows
  <2>4. \A t \in Tasks : Reminded(c, t) \/ t \in Untold(due) => Reminded(d, t)
    BY <1>3, <2>2, RemindedLemma
  <2> QED
    BY <1>2, <2>1, <2>3, <2>4 DEF d
<1>8. \A t \in Restorable : /\ t \in Tasks /\ Seen(t) \in Infos /\ Finished(Seen(t))
                            /\ Seen(t).status # "lost" /\ Plain(Seen(t)) = Final(t)
  BY <1>1, RestorableLemma DEF Restorable
<1>9. \A r \in restoring' : /\ r \in [task : Tasks, info : Infos]
                            /\ Finished(r.info) /\ r.info.status # "lost"
                            /\ Plain(r.info) = Final(r.task)'
  <2> SUFFICES ASSUME NEW t \in Restorable, NEW r, r = [task |-> t, info |-> Seen(t)]
               PROVE  /\ r \in [task : Tasks, info : Infos]
                      /\ Finished(r.info) /\ r.info.status # "lost"
                      /\ Plain(r.info) = Final(r.task)'
    BY <1>1
  <2>1. Finished(Final(t)) /\ t \in Tasks
    BY <1>8, PlainLemma
  <2>2. Final(t)' = Final(t)
    BY <2>1 DEF Stable, Standing
  <2> QED
    BY <1>8, <2>1, <2>2
<1>10. NoticeTypes'
  <2>1. restoring' \subseteq [task : Tasks, info : Infos]
    BY <1>9
  <2>2. \A s \in durable' : s.context \in Seq(ContextItems)
    BY <1>2, <1>7 DEF NoticesInv, NoticeTypes
  <2> QED
    BY <1>1, <2>1, <2>2 DEF NoticesInv, NoticeTypes, noticeVars
<1>11. NoticeInv'
  <2>1. building = {} /\ requests = {} /\ scheduled = requests
    BY <1>1 DEF NoticesInv, NoticeInv
  <2>2. undoing # "flush" => delivered \subseteq Shown(c)
    BY DEF NoticesInv, NoticeInv, c
  <2> QED
    BY <1>1, <1>7, <1>9, <2>1, <2>2 DEF NoticeInv, noticeVars
<1>12. \A t \in Tasks \ early', s \in durable' : StoryInv(t, s)'
  <2>1. \A s \in durable' : s \in durable \/ \A t \in Tasks \ early : StoryInv(t, s)
    BY <1>2, <1>6
  <2> QED
    BY <1>1, <2>1, StoryKept DEF Stable
<1>13. ASSUME NEW t \in Tasks PROVE MarkInv(t)'
  <2>1. MarkInv(t) /\ (Reminded(c, t) => Reminded(live.context, t)') /\ unreminded' = unreminded
    BY <1>1, <1>7 DEF NoticesInv
  <2>2. CASE t \in due
    <3>1. Reminded(live.context, t)'
      BY <1>7, <2>2 DEF Untold, c
    <3>2. ghosts'[t] = marked(t) /\ ghosts[t] \in Infos
      BY <1>1, <2>2 DEF IInv, TypeInv
    <3>3. ghosts'[t].reminded
      BY <3>2 DEF Infos
    <3> QED
      BY <3>1, <3>3 DEF MarkInv
  <2>3. CASE t \notin due
    <3>1. ghosts'[t] = ghosts[t] /\ writes'[t] = writes[t] /\ disk'[t] = disk[t]
      BY <1>1, <2>3
    <3>2. Marked(t)' => Marked(t)
      BY <3>1, SameMarks
    <3>3. PreviousSession(ghosts'[t]) => ghosts'[t].reminded
      BY <2>3, <3>1
    <3> QED
      BY <2>1, <3>2, <3>3 DEF MarkInv, c
  <2> QED
    BY <2>2, <2>3
<1>14. ASSUME NEW t \in Tasks PROVE ToldInv(t)'
  <2> SUFFICES ASSUME Open(t)', settling'[t] = None PROVE ToldInv(t)'
    BY DEF ToldInv
  <2>1. Open(t)
    BY DEF Stable, Standing
  <2>2. [task |-> t, info |-> Seen(t)] \in restoring'
    BY <1>1, <2>1, RestorableLemma
  <2> QED
    BY <1>1, <2>2 DEF ToldInv
<1> QED
  BY <1>10, <1>11, <1>12, <1>13, <1>14 DEF NoticesInv

-----------------------------------------------------------------------------
(* The specification.                                                       *)

LEMMA InitEnds == Init => EndsInv
<1> SUFFICES ASSUME Init PROVE EndsInv
  OBVIOUS
<1> USE DEF Init
<1>1. live \in durable /\ settling \in [Tasks -> Nat \cup {None}]
  OBVIOUS
<1>2. ASSUME NEW t \in Tasks PROVE EndInv(t)
  <2>1. /\ ~ Exists(t) /\ task[t] = NoEntry /\ ~ EndedEntry(t) /\ settling[t] = None
        /\ disk[t] = NoInfo /\ ghosts[t] = NoInfo /\ writes[t] = <<>> /\ mode = "up"
        /\ lost = {} /\ Written(t) = {} /\ \A i \in Journaled(t) : i = NoInfo
    BY DEF Exists, EndedEntry, NoEntry, Written, Journaled
  <2>2. ~ Finished(NoInfo) /\ ~ NoInfo.reminded
    BY DEF NoInfo, Info, NoEntry, Finished, Ends
  <2> QED
    BY <2>1, <2>2 DEF EndInv, Unborn, LivingInv, SettlingInv, FilesInv, GhostInv
<1> QED
  BY <1>1, <1>2 DEF EndsInv

LEMMA InitNotices == Init => NoticesInv
<1> SUFFICES ASSUME Init PROVE NoticesInv
  OBVIOUS
<1>1. /\ building = {} /\ scheduled = {} /\ delivered = {} /\ requests = {}
      /\ dropped = {} /\ lost = {} /\ restoring = {} /\ undoing = "idle" /\ mode = "up"
      /\ live.context = <<>> /\ durable = {live}
  BY DEF Init
<1>2. ASSUME NEW t \in Tasks
      PROVE  /\ ~ Finished(Final(t)) /\ ~ Open(t) /\ ~ Marked(t)
             /\ ~ PreviousSession(ghosts[t])
  <2>1. /\ ~ Exists(t) /\ disk[t] = NoInfo /\ ghosts[t] = NoInfo /\ Written(t) = {}
    BY DEF Init, Exists, NoEntry, Written
  <2>2. NoInfo.status = "none" /\ ~ NoInfo.reminded /\ Plain(NoInfo).status = "none"
    BY DEF NoInfo, Info, NoEntry, Plain
  <2> QED
    BY <2>1, <2>2 DEF Final, Finished, Open, Marked, PreviousSession, Ends
<1>3. NoticeTypes
  <2>1. <<>> \in Seq(ContextItems)
    BY EmptySeq
  <2>2. \A s \in durable : s.context \in Seq(ContextItems)
    BY <1>1, <2>1
  <2> QED
    BY <1>1, <2>2 DEF NoticeTypes
<1>4. NoticeInv
  BY <1>1 DEF NoticeInv
<1>5. \A t \in Tasks \ early, s \in durable : StoryInv(t, s)
  BY <1>1 DEF StoryInv
<1> QED
  BY <1>2, <1>3, <1>4, <1>5 DEF NoticesInv, MarkInv, ToldInv

LEMMA NextNotices == IInv /\ EndsInv /\ NoticesInv /\ [Next]_vars => EndsInv' /\ NoticesInv'
<1> SUFFICES ASSUME IInv, EndsInv, NoticesInv, [Next]_vars PROVE EndsInv' /\ NoticesInv'
  OBVIOUS
<1>1. ASSUME NEW t \in Tasks, Register(t) \/ Spill(t) \/ Detach(t) \/ Suppress(t)
      PROVE  EndsInv' /\ NoticesInv'
  <2>1. Stable
    BY <1>1, RegisterEnds, SpillEnds, DetachEnds, SuppressEnds DEF Stable
  <2> QED
    BY <1>1, <2>1, RegisterNotices DEF Stable
<1>2. ASSUME NEW t \in Tasks, BodyEnds(t) \/ SettleReturns(t) \/ WriteLands(t) \/ MarkLost(t)
      PROVE  EndsInv' /\ NoticesInv'
  <2>1. Stable
    BY <1>2, BodyEndsEnds, SettleReturnsEnds, WriteLandsEnds, MarkLostEnds DEF Stable
  <2> QED
    BY <1>2, <2>1, BodyEndsNotices, SettleReturnsNotices, WriteLandsNotices, MarkLostNotices
       DEF Stable
<1>3. ASSUME NEW t \in Tasks, NEW c \in Callers, Stopping(t, c)
      PROVE  EndsInv' /\ NoticesInv'
  <2>1. Stable
    BY <1>3, StopEnds, GraceEndsEnds, ForceReturnsEnds, AnswerEnds DEF Stable, Stopping
  <2> QED
    BY <1>3, <2>1, StoppingNotices DEF Stable
<1>4. CASE ContextSteps
  <2>1. Stable
    BY <1>4, ContextStepsEnds DEF Stable
  <2>2. NoticesInv'
    BY <1>4, <2>1, PromptNotices, UndoNotices, ReconcileNotices, UndoEndsNotices,
       BuildEndsNotices, RestoreNextNotices, DeliverNotices, DropNotices, CloseNotices
       DEF ContextSteps
  <2> QED
    BY <2>1, <2>2 DEF Stable
<1>5. CASE Close \/ StopAll \/ Restart \/ Remind
  <2>1. Stable
    BY <1>5, CloseEnds, StopAllEnds, RestartEnds, RemindEnds DEF Stable
  <2> QED
    BY <1>5, <2>1, CloseNotices, RestartNotices, RemindNotices DEF Stable
<1>6. CASE Dispose \/ Crash
  BY <1>6, DisposeEnds, DisposeNotices, CrashEnds, CrashNotices
<1>7. CASE UNCHANGED vars
  <2>1. Remembered /\ \A t \in Tasks : Onward(t)
    BY <1>7, JournalSame DEF vars, EndsInv, Onward
  <2>2. Stable
    BY <1>7, <2>1, QuietEnds DEF vars, taskVars, stopVars, restoreVars, Stable
  <2> QED
    BY <1>7, <2>2, CloseNotices DEF Stable
<1> QED
  BY <1>1, <1>2, <1>3, <1>4, <1>5, <1>6, <1>7 DEF Next, ContextSteps, Closing, Undoing

(* The inductive invariant of what the model is told: an end is the same in *)
(* its entry, its file, the journal and what a restart finds, and a message *)
(* about it is in the context once or on its way.                           *)
THEOREM NoticeInvariant == Spec => [](IInv /\ EndsInv /\ NoticesInv)
<1> DEFINE I == IInv /\ EndsInv /\ NoticesInv
<1>1. Init => I
  BY InitInv, InitEnds, InitNotices
<1>2. I /\ [Next]_vars => I'
  BY NextInv, NextNotices
<1> HIDE DEF I
<1>3. Spec => []I
  BY <1>1, <1>2, PTL DEF Spec
<1> QED
  BY <1>3 DEF I

(* The model is told of an end once, and what it is told is so, though the  *)
(* end, the read of its output, an undo, closing and restarts come in any   *)
(* order: buildAgentTaskNotificationContext() refuses a key that is known,  *)
(* and what a crash may leave of the journal agrees with the task files.    *)
THEOREM ToldOnceHolds == Spec => []ToldOnce
<1>1. IInv /\ EndsInv /\ NoticesInv => ToldOnce
  <2> SUFFICES ASSUME IInv, EndsInv, NoticesInv, NEW t \in Tasks \ early
               PROVE  /\ Cardinality(About(t)) <= 1
                      /\ mode = "up" => \A i \in About(t) :
                            IF live.context[i].kind = "notice"
                            THEN live.context[i].status = Seen(t).status
                            ELSE PreviousSession(Seen(t))
    BY DEF ToldOnce
  <2>1. StoryInv(t, live) /\ EndInv(t)
    BY DEF NoticesInv, EndsInv
  <2>2. \A i, j \in About(t) : i = j
    BY <2>1 DEF About, StoryInv
  <2>3. Cardinality(About(t)) <= 1
    <3>1. CASE About(t) = {}
      BY <3>1, FS_EmptySet
    <3>2. ASSUME NEW i \in About(t) PROVE Cardinality(About(t)) = 1
      <4>1. About(t) = {i}
        BY <2>2
      <4> QED
        BY <4>1, FS_Singleton
    <3> QED
      BY <3>1, <3>2
  <2>4. ASSUME mode = "up", NEW i \in About(t)
        PROVE  IF live.context[i].kind = "notice" THEN live.context[i].status = Seen(t).status
               ELSE PreviousSession(Seen(t))
    <3>1. i \in DOMAIN live.context /\ live.context[i].task = t
      BY DEF About
    <3>2. CASE live.context[i].kind = "notice"
      <4>1. Open(t) /\ live.context[i].status = Final(t).status
        BY <2>1, <3>1, <3>2 DEF StoryInv, Fit, Key
      <4> QED
        BY <2>1, <2>4, <3>2, <4>1, EndKinds, SeenOpen
    <3>3. CASE live.context[i].kind # "notice"
      <4>1. PreviousSession(Final(t))
        BY <2>1, <3>1, <3>3 DEF StoryInv
      <4> QED
        BY <2>1, <2>4, <3>3, <4>1, EndKinds, SeenOpen
    <3> QED
      BY <3>2, <3>3
  <2> QED
    BY <2>3, <2>4
<1> QED
  BY <1>1, NoticeInvariant, PTL

(* No end is forgotten: once settleTask() is over and no undo is under way, *)
(* an end that is to be told has been, or waits in the loop, or waited in a *)
(* turn that was cancelled; one of an earlier process has been told or      *)
(* reminded of, or its reminder was undone.                                 *)
THEOREM EndIsToldHolds == Spec => []EndIsTold
<1>1. IInv /\ EndsInv /\ NoticesInv => EndIsTold
  <2> DEFINE k(t) == Key(t, Seen(t).status)
  <2> SUFFICES ASSUME IInv, EndsInv, NoticesInv, NEW t \in Tasks, Settled(t),
                      Seen(t).status \in Ends
               PROVE  IF PreviousSession(Seen(t))
                      THEN Reminded(live.context, t) \/ t \in unreminded
                      ELSE \/ Seen(t).attached \/ Seen(t).suppressed
                           \/ k(t) \in Shown(live.context) \cup requests \cup dropped
    BY DEF EndIsTold
  <2>1. EndInv(t) /\ mode = "up" /\ MarkInv(t) /\ ToldInv(t)
    BY DEF NoticesInv, EndsInv, Settled
  <2>2. /\ Finished(Final(t)) /\ Seen(t).status = Final(t).status
        /\ Seen(t).attached = Final(t).attached /\ Seen(t).suppressed = Final(t).suppressed
    BY <2>1, SeenFinal, SeenOpen DEF Finished
  <2>3. CASE PreviousSession(Seen(t))
    <3>1. ~ Exists(t)
      <4>1. SUFFICES ASSUME Exists(t) PROVE FALSE
        OBVIOUS
      <4>2. Seen(t) = Info(task[t])
        BY <4>1 DEF Seen
      <4>3. task[t].status # "lost" /\ ~ task[t].closed
        BY <2>1, <4>1 DEF EndInv, LivingInv
      <4> QED
        BY <2>3, <4>2, <4>3 DEF PreviousSession, Info
    <3>2. ghosts[t].reminded
      BY <2>1, <2>3, <3>1 DEF Seen, MarkInv
    <3> QED
      BY <2>1, <2>3, <3>2 DEF MarkInv, Marked
  <2>4. CASE ~ PreviousSession(Seen(t))
    <3>1. SUFFICES ASSUME ~ Seen(t).attached, ~ Seen(t).suppressed
                   PROVE  k(t) \in Shown(live.context) \cup requests \cup dropped
      BY <2>4
    <3>2. Open(t)
      BY <2>2, <2>4, <3>1 DEF Open, PreviousSession
    <3>3. /\ settling[t] = None /\ undoing = "idle"
          /\ ~ \E b \in building : b.key = Key(t, Final(t).status)
      BY DEF Settled, Key
    <3> QED
      BY <2>1, <2>2, <3>2, <3>3 DEF ToldInv
  <2> QED
    BY <2>3, <2>4
<1> QED
  BY <1>1, NoticeInvariant, PTL
=============================================================================
