------------------------------- MODULE MiniDb -------------------------------
(***************************************************************************)
(* The writes of MiniDb (packages/minidb): every write is appended to the  *)
(* write-ahead log and applied to the store in one piece of code, flushed  *)
(* in groups, and answered when its group has landed.  A flush that fails  *)
(* poisons the log, its writes are rolled back and the file is truncated   *)
(* in place.  A compaction writes the store to a snapshot while writes go  *)
(* on, copies the log's tail and swaps both files.  The process may die,   *)
(* or the machine lose power, between any two steps.                       *)
(*                                                                         *)
(* Values live in memory (valueMode 'memory') and a reopen takes the full  *)
(* scan of snapshot and log; offsets are counted in frames.                *)
(***************************************************************************)
EXTENDS Naturals, Sequences, FiniteSets, SequencesExt

CONSTANTS
    Writes,           \* the calls of set() and del() ever made
    Deletes,          \* those that are del()
    Keys,
    Key,              \* the key of each write
    ManualCompaction, \* whether compact() is called by the client
    MaxCompactions,   \* bound: compactions
    MaxFailures,      \* bound: I/O errors
    MaxCrashes,       \* bound: crashes and losses of power
    None

ASSUME WritesAssumption ==
    /\ IsFiniteSet(Writes) /\ Deletes \subseteq Writes
    /\ Key \in [Writes -> Keys] /\ None \notin Writes
    /\ ManualCompaction \in BOOLEAN
    /\ {MaxCompactions, MaxFailures, MaxCrashes} \subseteq Nat

VARIABLES
    policy,        \* fsyncPolicy: "always", or "everysec"
    status,        \* of each write
    retried,       \* writes on their second attempt
    store,         \* the live store: the write whose value a key has, or None
    bounced,       \* writes the log refused, applied and not yet undone
    wal,           \* the current WAL object
    disk,          \* the snapshot and the log, as a reopen finds them
    synced,        \* what a loss of power leaves of them at least
    recovery,      \* the in-place recovery of a poisoned log
    writeDisabled, \* it failed
    compaction,    \* where the compaction is
    tmp,           \* db.snapshot.tmp and db.wal.tmp
    locked,        \* _rotateLock
    log,           \* history: the writes appended since open(), in order
    opened,        \* history: per key, what open() may have found
    tangled,       \* history: keys of which two refused writes overlapped
    dirUnsynced,   \* history: a rename of the log was not made durable
    failures, crashes, compactions

fileVars == <<disk, synced, dirUnsynced>>
writeVars == <<status, retried, store, bounced>>
compactionVars == <<compaction, tmp, locked, compactions>>
recoveryVars == <<recovery, writeDisabled>>
historyVars == <<log, opened, tangled>>
vars == <<policy, writeVars, wal, fileVars, recoveryVars, compactionVars,
          historyVars, failures, crashes>>

-----------------------------------------------------------------------------
(* Files.                                                                   *)

Effect(w) == IF w \in Deletes THEN None ELSE w

(* recover(): the snapshot, then the log, the last writer wins.             *)
Reopened(files) == [k \in Keys |->
    LET mine == {i \in DOMAIN files.wal : Key[files.wal[i]] = k} IN
    IF mine = {} THEN files.snapshot[k]
    ELSE Effect(files.wal[CHOOSE i \in mine : \A j \in mine : j <= i])]

(* What a loss of power may leave: a rename counts once the directory was   *)
(* synced, frames once the log was.                                         *)
PowerLost ==
    [snapshot : {synced.snapshot, disk.snapshot},
     wal : IF compaction.pc = "syncLogName" THEN {synced.wal, disk.wal}
           ELSE {p \in Prefixes(disk.wal) : Len(p) >= Len(synced.wal)}]

NoValues == [k \in Keys |-> None]
NoFiles == [snapshot |-> NoValues, wal |-> <<>>]

(* A group's rollback state: the record each key had before it, if touched. *)
NoGroup == [k \in {} |-> None]

(* A WAL opened on a file of that size.                                     *)
OpenWal(size) ==
    [size |-> size, queue |-> <<>>, group |-> NoGroup,
     batch |-> <<>>, batchGroup |-> NoGroup, landed |-> FALSE,
     sealed |-> FALSE, closed |-> FALSE, poisoned |-> FALSE]

NoRecovery == [pc |-> "idle", at |-> 0]
NoCompaction == [pc |-> "idle", base |-> 0, copied |-> 0]

Init ==
    /\ policy \in {"always", "everysec"}
    /\ status = [w \in Writes |-> "new"] /\ retried = {}
    /\ store = NoValues /\ bounced = <<>>
    /\ wal = OpenWal(0) /\ disk = NoFiles /\ synced = NoFiles
    /\ recovery = NoRecovery /\ writeDisabled = FALSE
    /\ compaction = NoCompaction /\ tmp = NoFiles /\ locked = FALSE
    /\ log = <<>> /\ opened = [k \in Keys |-> {None}] /\ tangled = {}
    /\ dirUnsynced = FALSE
    /\ failures = 0 /\ crashes = 0 /\ compactions = 0

Becomes(ws, as) == status' = [w \in Writes |-> IF w \in ws THEN as ELSE status[w]]

-----------------------------------------------------------------------------
(* Writes.                                                                  *)

(* Refused and retried writes go on as microtasks, before any I/O returns.  *)
Microtasks ==
    \/ bounced # <<>>
    \/ ~ locked /\ recovery.pc = "idle" /\ \E w \in Writes : status[w] = "retry"

Call(w) ==
    /\ status[w] = "new" /\ ~ Microtasks /\ ~ writeDisabled
    /\ Becomes({w}, "called")
    /\ UNCHANGED <<policy, retried, store, bounced, wal, fileVars, recoveryVars,
                   compactionVars, historyVars, failures, crashes>>

(* awaitRotation() is passed; del() of a key that is absent does nothing.   *)
Enter(w) ==
    /\ status[w] = "called" /\ ~ Microtasks /\ ~ locked
    /\ Becomes({w}, IF w \in Deletes /\ store[Key[w]] = None THEN "acked" ELSE "entered")
    /\ UNCHANGED <<policy, retried, store, bounced, wal, fileVars, recoveryVars,
                   compactionVars, historyVars, failures, crashes>>

Apply(w) == store' = [store EXCEPT ![Key[w]] = Effect(w)]

(* Seeded fault: the last capture wins.                                     *)
NotedLast(group, k) ==
    [x \in DOMAIN group \cup {k} |-> IF x = k THEN store[k] ELSE group[x]]

(* groupNoteKey: the first capture of a key wins.                           *)
Noted(group, k) == IF k \in DOMAIN group THEN group
                   ELSE [x \in DOMAIN group \cup {k} |-> IF x = k THEN store[k] ELSE group[x]]

(* commitSetOp up to its await, once no recovery is in flight.              *)
Commit(w) ==
    /\ \/ status[w] = "entered" /\ UNCHANGED retried
       \/ status[w] = "retry" /\ ~ locked /\ retried' = retried \cup {w}
    /\ recovery.pc = "idle"
    /\ \/ /\ writeDisabled
          /\ Becomes({w}, "rejected") /\ UNCHANGED <<store, bounced, wal, log, tangled>>
       \/ /\ ~ writeDisabled /\ (wal.sealed \/ wal.closed)
          /\ Becomes({w}, "bounced") /\ Apply(w)
          /\ bounced' = Append(bounced, [write |-> w, prev |-> store[Key[w]]])
          /\ tangled' = tangled \cup
                ({Key[w]} \cap {Key[bounced[i].write] : i \in DOMAIN bounced})
          /\ UNCHANGED <<wal, log>>
       \/ /\ ~ writeDisabled /\ ~ wal.sealed /\ ~ wal.closed
          /\ Becomes({w}, "applied") /\ Apply(w)
          /\ wal' = [wal EXCEPT !.queue = Append(@, w), !.group = Noted(@, Key[w])]
          /\ log' = Append(log, w)
          /\ UNCHANGED <<bounced, tangled>>
    /\ UNCHANGED <<policy, fileVars, recoveryVars, compactionVars, opened, failures, crashes>>

(* restoreKey: undone unless something else was applied since.              *)
Restored(b) ==
    LET k == Key[b.write] IN
    IF store[k] = Effect(b.write) THEN [store EXCEPT ![k] = b.prev] ELSE store

(* The refused append's promise rejects; retryOnWalSeal tries once more.    *)
UndoRefused ==
    /\ bounced # <<>>
    /\ store' = Restored(Head(bounced))
    /\ bounced' = Tail(bounced)
    /\ LET w == Head(bounced).write IN
       \/ wal.closed /\ ~ locked /\ Becomes({w}, "rejected")
       \/ (wal.closed => locked) /\ w \notin retried /\ Becomes({w}, "retry")
       \/ (wal.closed => locked) /\ w \in retried /\ Becomes({w}, "refused")
    /\ UNCHANGED <<policy, retried, wal, fileVars, recoveryVars, compactionVars,
                   historyVars, failures, crashes>>

-----------------------------------------------------------------------------
(* The log's flush and its failure.                                         *)

FlushBatch ==
    /\ ~ Microtasks /\ wal.queue # <<>> /\ wal.batch = <<>> /\ ~ wal.poisoned
    /\ wal' = [wal EXCEPT !.batch = wal.queue, !.queue = <<>>,
                          !.batchGroup = wal.group, !.group = NoGroup]
    /\ UNCHANGED <<policy, writeVars, fileVars, recoveryVars, compactionVars,
                   historyVars, failures, crashes>>

GroupLands == Becomes(ToSet(wal.batch), "acked")

(* The writev returned: with 'always' the sync is still to come.            *)
WriteLands ==
    /\ ~ Microtasks /\ wal.batch # <<>> /\ ~ wal.landed
    /\ disk' = [disk EXCEPT !.wal = @ \o wal.batch]
    /\ \/ policy = "always" /\ UNCHANGED status
          /\ wal' = [wal EXCEPT !.size = @ + Len(wal.batch), !.landed = TRUE]
       \/ policy # "always" /\ GroupLands
          /\ wal' = [wal EXCEPT !.size = @ + Len(wal.batch), !.batch = <<>>,
                                !.batchGroup = NoGroup]
    /\ UNCHANGED <<policy, retried, store, bounced, synced, dirUnsynced, recoveryVars,
                   compactionVars, historyVars, failures, crashes>>

SyncLands ==
    /\ ~ Microtasks /\ wal.landed
    /\ synced' = [synced EXCEPT !.wal = disk.wal]
    /\ GroupLands
    /\ wal' = [wal EXCEPT !.batch = <<>>, !.batchGroup = NoGroup, !.landed = FALSE]
    /\ UNCHANGED <<policy, retried, store, bounced, disk, dirUnsynced, recoveryVars,
                   compactionVars, historyVars, failures, crashes>>

(* rollbackGroup, the newest group first: the batch's records win.          *)
RolledBack == [k \in Keys |->
    CASE k \in DOMAIN wal.batchGroup -> wal.batchGroup[k]
      [] k \in DOMAIN wal.group /\ k \notin DOMAIN wal.batchGroup -> wal.group[k]
      [] OTHER -> store[k]]

(* The writev fails with part of the batch written, or the sync does: what  *)
(* is not acknowledged is rejected and rolled back, the recovery kicked.    *)
FlushFails ==
    /\ ~ Microtasks /\ wal.batch # <<>> /\ failures < MaxFailures
    /\ failures' = failures + 1
    /\ Becomes(ToSet(wal.batch \o wal.queue), "rejected")
    /\ store' = RolledBack
    /\ \E written \in IF wal.landed THEN {0} ELSE 0..Len(wal.batch) :
          /\ disk' = [disk EXCEPT !.wal = @ \o SubSeq(wal.batch, 1, written)]
          /\ recovery' = [pc |-> "truncate",
                          at |-> IF wal.landed THEN wal.size - Len(wal.batch) ELSE wal.size]
          /\ wal' = [wal EXCEPT !.poisoned = TRUE, !.size = @ + written, !.landed = FALSE,
                                !.batch = <<>>, !.batchGroup = NoGroup,
                                !.queue = <<>>, !.group = NoGroup]
    /\ UNCHANGED <<policy, retried, bounced, synced, dirUnsynced, writeDisabled,
                   compactionVars, historyVars, crashes>>

(* recoverWalInPlace: the file that the path names now.                     *)
Truncate ==
    /\ ~ Microtasks /\ recovery.pc = "truncate"
    /\ \/ /\ disk' = IF recovery.at <= Len(disk.wal)
                     THEN [disk EXCEPT !.wal = SubSeq(@, 1, recovery.at)] ELSE disk
          /\ recovery' = [recovery EXCEPT !.pc = "refresh"]
          /\ UNCHANGED <<writeDisabled, failures>>
       \/ /\ failures < MaxFailures /\ failures' = failures + 1
          /\ writeDisabled' = TRUE /\ recovery' = NoRecovery
          /\ UNCHANGED disk
    /\ UNCHANGED <<policy, writeVars, wal, synced, dirUnsynced, compactionVars,
                   historyVars, crashes>>

(* refreshSize of the WAL that is current now, clearPoison.                 *)
RefreshSize ==
    /\ ~ Microtasks /\ recovery.pc = "refresh"
    /\ wal' = [wal EXCEPT !.size = IF wal.closed THEN @ ELSE Len(disk.wal),
                          !.poisoned = FALSE]
    /\ recovery' = NoRecovery
    /\ UNCHANGED <<policy, writeVars, fileVars, writeDisabled, compactionVars,
                   historyVars, failures, crashes>>

-----------------------------------------------------------------------------
(* Compaction.                                                              *)

(* wal.flush() returns; on a poisoned log it throws.                        *)
Flushed == wal.queue = <<>> /\ wal.batch = <<>> /\ ~ wal.poisoned

keptByCompaction == <<policy, writeVars, recoveryVars, historyVars, crashes>>

(* A commit that landed submits it when the log is long, or the client does, *)
(* and it begins later: the log may be poisoned by then.  One is submitted   *)
(* when the one before is over, and no commit lands while a fresh log waits  *)
(* for the recovery of the old one, nor on a log closed for good.            *)
Compact ==
    /\ ~ Microtasks /\ compaction.pc = "idle" /\ compactions < MaxCompactions
    /\ ManualCompaction \/ wal.poisoned \/ (recovery.pc = "idle" /\ ~ writeDisabled)
    /\ ManualCompaction \/ ~ wal.closed
    /\ compaction' = [compaction EXCEPT !.pc = "fence"]
    /\ compactions' = compactions + 1
    /\ UNCHANGED <<keptByCompaction, wal, fileVars, tmp, locked, failures>>

Fence ==
    /\ ~ Microtasks /\ compaction.pc = "fence" /\ Flushed
    /\ compaction' = [pc |-> "snapshot", base |-> wal.size, copied |-> wal.size]
    /\ UNCHANGED <<keptByCompaction, wal, fileVars, tmp, locked, compactions, failures>>

(* writeSnapshot collects the store in one piece of code.                   *)
WriteSnapshot ==
    /\ ~ Microtasks /\ compaction.pc = "snapshot"
    /\ tmp' = [snapshot |-> store, wal |-> <<>>]
    /\ compaction' = [compaction EXCEPT !.pc = "copy"]
    /\ UNCHANGED <<keptByCompaction, wal, fileVars, locked, compactions, failures>>

(* copyFileRange up to the log's size.                                      *)
CopyTail(next) ==
    /\ tmp' = [tmp EXCEPT !.wal = @ \o SubSeq(disk.wal, compaction.copied + 1, wal.size)]
    /\ compaction' = [compaction EXCEPT !.copied = wal.size, !.pc = next]

PreCopy ==
    /\ ~ Microtasks /\ compaction.pc = "copy" /\ Flushed
    /\ compaction.copied < wal.size
    /\ CopyTail("copy")
    /\ UNCHANGED <<keptByCompaction, wal, fileVars, locked, compactions, failures>>

(* The copy is near enough, or does not converge.                           *)
Seal ==
    /\ ~ Microtasks /\ compaction.pc = "copy"
    /\ locked' = TRUE
    /\ wal' = [wal EXCEPT !.sealed = TRUE]
    /\ compaction' = [compaction EXCEPT !.pc = "drain"]
    /\ UNCHANGED <<keptByCompaction, fileVars, tmp, compactions, failures>>

(* Seeded fault: what came after the last copy is not copied.               *)
DrainNothing ==
    /\ ~ Microtasks /\ compaction.pc = "drain" /\ Flushed
    /\ compaction' = [compaction EXCEPT !.pc = "renameSnapshot"]
    /\ wal' = [wal EXCEPT !.closed = TRUE]
    /\ synced' = [synced EXCEPT !.wal = disk.wal]
    /\ UNCHANGED <<keptByCompaction, tmp, disk, dirUnsynced, locked, compactions, failures>>

DrainAndClose ==
    /\ ~ Microtasks /\ compaction.pc = "drain" /\ Flushed
    /\ CopyTail("renameSnapshot")
    /\ wal' = [wal EXCEPT !.closed = TRUE]
    /\ synced' = [synced EXCEPT !.wal = disk.wal]
    /\ UNCHANGED <<keptByCompaction, disk, dirUnsynced, locked, compactions, failures>>

RenameSnapshot ==
    /\ ~ Microtasks /\ compaction.pc = "renameSnapshot"
    /\ disk' = [disk EXCEPT !.snapshot = tmp.snapshot]
    /\ compaction' = [compaction EXCEPT !.pc = "syncSnapshotName"]
    /\ UNCHANGED <<keptByCompaction, wal, synced, dirUnsynced, tmp, locked,
                   compactions, failures>>

SyncSnapshotName ==
    /\ ~ Microtasks /\ compaction.pc = "syncSnapshotName"
    /\ synced' = [synced EXCEPT !.snapshot = disk.snapshot]
    /\ compaction' = [compaction EXCEPT !.pc = "renameLog"]
    /\ UNCHANGED <<keptByCompaction, wal, disk, dirUnsynced, tmp, locked,
                   compactions, failures>>

RenameLog ==
    /\ ~ Microtasks /\ compaction.pc = "renameLog"
    /\ disk' = [disk EXCEPT !.wal = tmp.wal]
    /\ compaction' = [compaction EXCEPT !.pc = "syncLogName"]
    /\ UNCHANGED <<keptByCompaction, wal, synced, dirUnsynced, tmp, locked,
                   compactions, failures>>

CompactionOver == compaction' = NoCompaction /\ tmp' = NoFiles

(* The directory is synced and the new log opened; the writers go on.       *)
SyncLogName ==
    /\ ~ Microtasks /\ compaction.pc = "syncLogName"
    /\ synced' = [synced EXCEPT !.wal = disk.wal]
    /\ wal' = OpenWal(Len(disk.wal))
    /\ locked' = FALSE /\ CompactionOver
    /\ UNCHANGED <<keptByCompaction, disk, dirUnsynced, compactions, failures>>

(* An I/O error, or flush() on a poisoned log, before the rotation.         *)
CompactionFails ==
    /\ ~ Microtasks /\ compaction.pc \in {"fence", "snapshot", "copy"}
    /\ \/ wal.poisoned /\ compaction.pc # "snapshot" /\ UNCHANGED failures
       \/ failures < MaxFailures /\ failures' = failures + 1
    /\ CompactionOver
    /\ UNCHANGED <<keptByCompaction, wal, fileVars, locked, compactions>>

(* The same inside it: the catch clause closes the log.                     *)
RotationFails ==
    /\ ~ Microtasks
    /\ compaction.pc \in {"drain", "renameSnapshot", "syncSnapshotName", "renameLog",
                          "syncLogName"}
    /\ \/ wal.poisoned /\ compaction.pc = "drain" /\ UNCHANGED failures
       \/ failures < MaxFailures /\ failures' = failures + 1
    /\ compaction' = [compaction EXCEPT !.pc = "swap"]
    /\ wal' = [wal EXCEPT !.closed = TRUE]
    /\ dirUnsynced' = (dirUnsynced \/ compaction.pc = "syncLogName")
    /\ UNCHANGED <<keptByCompaction, disk, synced, tmp, locked, compactions>>

(* Seeded fault: the writers stay parked.                                   *)
SwapLogLocked ==
    /\ ~ Microtasks /\ compaction.pc = "swap"
    /\ wal.poisoned \/ (wal.queue = <<>> /\ wal.batch = <<>>)
    /\ \/ wal' = OpenWal(Len(disk.wal)) /\ UNCHANGED failures
       \/ failures < MaxFailures /\ failures' = failures + 1 /\ UNCHANGED wal
    /\ UNCHANGED locked /\ CompactionOver
    /\ UNCHANGED <<keptByCompaction, fileVars, compactions>>

(* The last flush is over; a fresh log is opened on what the path names, or *)
(* that fails too and nothing can be written any more.                      *)
SwapLog ==
    /\ ~ Microtasks /\ compaction.pc = "swap"
    /\ wal.poisoned \/ (wal.queue = <<>> /\ wal.batch = <<>>)
    /\ \/ wal' = OpenWal(Len(disk.wal)) /\ UNCHANGED failures
       \/ failures < MaxFailures /\ failures' = failures + 1 /\ UNCHANGED wal
    /\ locked' = FALSE /\ CompactionOver
    /\ UNCHANGED <<keptByCompaction, fileVars, compactions>>

-----------------------------------------------------------------------------
(* What a reopen may show: the last acknowledged write of a key, or one     *)
(* that was made after it.                                                  *)
LastAcked(k) ==
    LET acked == {i \in DOMAIN log : Key[log[i]] = k /\ status[log[i]] = "acked"} IN
    IF acked = {} THEN 0 ELSE CHOOSE i \in acked : \A j \in acked : j <= i

Allowed(k) ==
    {Effect(log[i]) : i \in {j \in DOMAIN log : Key[log[j]] = k /\ j >= LastAcked(k)}}
      \cup (IF LastAcked(k) = 0 THEN opened[k] ELSE {})

MayLosePower == policy = "always" /\ ~ dirUnsynced

(* The process dies, or the machine does, and the database is opened again. *)
Crash ==
    /\ crashes < MaxCrashes /\ crashes' = crashes + 1
    /\ \/ UNCHANGED <<disk, synced>>
          /\ dirUnsynced' = (dirUnsynced \/ compaction.pc = "syncLogName")
       \/ /\ MayLosePower
          /\ disk' \in PowerLost
          /\ synced' = disk'
          /\ UNCHANGED dirUnsynced
    /\ store' = Reopened(disk')
    /\ opened' = [k \in Keys |-> Allowed(k)] /\ log' = <<>> /\ tangled' = {}
    /\ Becomes({w \in Writes : status[w] \notin {"new", "acked", "rejected", "refused"}},
               "unknown")
    /\ retried' = {} /\ bounced' = <<>>
    /\ wal' = OpenWal(Len(disk'.wal))
    /\ recovery' = NoRecovery /\ writeDisabled' = FALSE
    /\ CompactionOver /\ locked' = FALSE
    /\ UNCHANGED <<policy, compactions, failures>>

-----------------------------------------------------------------------------
Writing == \E w \in Writes : Call(w) \/ Enter(w) \/ Commit(w)
Flushing == FlushBatch \/ WriteLands \/ SyncLands \/ FlushFails
Compacting ==
    \/ Fence \/ WriteSnapshot \/ PreCopy \/ Seal \/ DrainAndClose
    \/ RenameSnapshot \/ SyncSnapshotName \/ RenameLog \/ SyncLogName
    \/ CompactionFails \/ RotationFails \/ SwapLog

AtRest ==
    /\ wal.queue = <<>> /\ wal.batch = <<>> /\ bounced = <<>>
    /\ recovery.pc = "idle" /\ compaction.pc = "idle"
    /\ \A w \in Writes : status[w] \notin {"called", "entered", "retry"}

Next ==
    \/ Writing \/ UndoRefused \/ Flushing \/ Truncate \/ RefreshSize
    \/ Compact \/ Compacting \/ Crash
    \/ AtRest /\ UNCHANGED vars

(* Promises wake their callers and every I/O operation returns.             *)
Fairness ==
    /\ \A w \in Writes : WF_vars(Enter(w)) /\ WF_vars(Commit(w))
    /\ WF_vars(UndoRefused)
    /\ WF_vars(FlushBatch) /\ WF_vars(WriteLands \/ SyncLands \/ FlushFails)
    /\ WF_vars(Truncate) /\ WF_vars(RefreshSize) /\ WF_vars(Compacting)

Spec == Init /\ [][Next]_vars /\ Fairness

-----------------------------------------------------------------------------
(* Whenever the process dies, and with 'always' when power is lost, a       *)
(* reopen shows for every key the last acknowledged write or one made after *)
(* it: in the middle of a flush, of a truncation, of a snapshot, between    *)
(* the two renames and after a rotation that failed.                        *)
AckedSurvives ==
    /\ \A k \in Keys : Reopened(disk)[k] \in Allowed(k)
    /\ MayLosePower =>
          \A files \in PowerLost, k \in Keys : Reopened(files)[k] \in Allowed(k)

InFlight(k) ==
    \E w \in Writes : Key[w] = k /\ status[w] \in {"applied", "bounced", "retry"}

(* When no write of a key is in flight its live value is the last one that  *)
(* was acknowledged: rolling back a failed group, with what is queued       *)
(* behind it, and undoing refused writes neither removes an acknowledged    *)
(* write nor leaves a rejected one.  Two refused writes of a key that       *)
(* overlap are left out: there one's value stays.                           *)
LiveIsAcked ==
    \A k \in Keys \ tangled : ~ InFlight(k) =>
        IF LastAcked(k) = 0 THEN store[k] \in opened[k]
        ELSE store[k] = Effect(log[LastAcked(k)])

(* Every write is answered, by success or by the I/O error it met, and      *)
(* never by the error of a log that a rotation sealed or closed.            *)
WritesAreAnswered ==
    \A w \in Writes :
        status[w] = "called" ~> status[w] \in {"acked", "rejected", "unknown"}

=============================================================================
