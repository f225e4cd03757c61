---------------------------- MODULE MiniDb_proofs ----------------------------
(* What is acknowledged survives, and the live store agrees with it, for     *)
(* any number of writes, keys, compactions, I/O errors and crashes.          *)
EXTENDS MiniDb, Queue_proofs, FiniteSetTheorems, SequenceTheorems, TLAPS

-----------------------------------------------------------------------------
(* The last of a set of places in a sequence, 0 if there is none.           *)
Newest(I) == IF I = {} THEN 0 ELSE CHOOSE i \in I : \A j \in I : j <= i

LEMMA NewestProperties ==
    ASSUME NEW n \in Nat, NEW I \in SUBSET (1..n), I # {}
    PROVE  Newest(I) \in I /\ \A j \in I : j <= Newest(I)
<1> DEFINE T == {n - i : i \in I}
<1>1. T \in SUBSET Nat /\ T # {}
  <2>1. PICK e \in I : TRUE
    OBVIOUS
  <2>2. n - e \in T
    BY <2>1
  <2>3. \A i \in I : n - i \in Nat
    OBVIOUS
  <2> QED
    BY <2>2, <2>3
<1>2. PICK m \in T : \A x \in T : m <= x
  BY <1>1, LeastNatural
<1>3. PICK i \in I : m = n - i
  BY <1>2
<1>4. ASSUME NEW j \in I PROVE j <= i
  <2>1. n - j \in T
    OBVIOUS
  <2>2. n - i <= n - j
    BY <1>2, <1>3, <2>1
  <2> QED
    BY <2>2
<1>5. \E x \in I : \A j \in I : j <= x
  BY <1>3, <1>4
<1> QED
  BY <1>5 DEF Newest

LEMMA NewestIs ==
    ASSUME NEW n \in Nat, NEW I \in SUBSET (1..n), NEW i \in I, \A j \in I : j <= i
    PROVE  Newest(I) = i
<1>1. Newest(I) \in I /\ \A j \in I : j <= Newest(I)
  BY NewestProperties
<1>2. Newest(I) <= i /\ i <= Newest(I)
  BY <1>1
<1>3. Newest(I) \in 1..n /\ i \in 1..n
  BY <1>1
<1> HIDE DEF Newest
<1> QED
  BY <1>2, <1>3

-----------------------------------------------------------------------------
(* What a reopen makes of a snapshot and a log.                             *)
At(l, k) == {i \in DOMAIN l : Key[l[i]] = k}
Value(s, l, k) == Reopened([snapshot |-> s, wal |-> l])[k]

LEMMA ValueIs ==
    ASSUME NEW s, NEW l, NEW k \in Keys
    PROVE  Value(s, l, k) = IF At(l, k) = {} THEN s[k] ELSE Effect(l[Newest(At(l, k))])
<1> DEFINE f == [snapshot |-> s, wal |-> l]
<1>1. f.snapshot = s /\ f.wal = l
  OBVIOUS
<1> HIDE DEF f
<1>2. Reopened(f)[k] = IF At(f.wal, k) = {} THEN f.snapshot[k]
                       ELSE Effect(f.wal[CHOOSE i \in At(f.wal, k) : \A j \in At(f.wal, k) : j <= i])
  BY DEF Reopened, At
<1>3. Reopened(f)[k] = IF At(f.wal, k) = {} THEN f.snapshot[k]
                       ELSE Effect(f.wal[Newest(At(f.wal, k))])
  BY <1>2 DEF Newest
<1>4. Value(s, l, k) = Reopened(f)[k]
  BY DEF Value, f
<1> QED
  BY <1>1, <1>3, <1>4

LEMMA ValueOfNone ==
    ASSUME NEW s, NEW l, NEW k \in Keys, At(l, k) = {} PROVE Value(s, l, k) = s[k]
BY ValueIs

(* The last frame of a key decides.                                         *)
LEMMA ValueOfLast ==
    ASSUME NEW s, NEW l \in Seq(Writes), NEW k \in Keys,
           NEW i \in At(l, k), \A j \in At(l, k) : j <= i
    PROVE  Value(s, l, k) = Effect(l[i])
<1>1. Len(l) \in Nat /\ At(l, k) \in SUBSET (1..Len(l))
  BY DEF At
<1>2. Newest(At(l, k)) = i
  BY <1>1, NewestIs
<1> QED
  BY <1>2, ValueIs

LEMMA LastFrame ==
    ASSUME NEW l \in Seq(Writes), NEW k \in Keys, At(l, k) # {}
    PROVE  \E i \in At(l, k) :
              (\A j \in At(l, k) : j <= i) /\ \A s : Value(s, l, k) = Effect(l[i])
<1>1. Len(l) \in Nat /\ At(l, k) \in SUBSET (1..Len(l))
  BY DEF At
<1>2. /\ Newest(At(l, k)) \in At(l, k)
      /\ \A j \in At(l, k) : j <= Newest(At(l, k))
  BY <1>1, NewestProperties
<1>3. \A s : Value(s, l, k) = Effect(l[Newest(At(l, k))])
  BY ValueIs
<1> QED
  BY <1>2, <1>3

(* Behind l, the frames of m win.                                           *)
LEMMA ValueOfConcat ==
    ASSUME NEW s, NEW l \in Seq(Writes), NEW m \in Seq(Writes), NEW k \in Keys
    PROVE  Value(s, l \o m, k) = IF At(m, k) = {} THEN Value(s, l, k) ELSE Value(s, m, k)
<1> DEFINE c == l \o m
<1>1. /\ c \in Seq(Writes) /\ Len(c) = Len(l) + Len(m) /\ DOMAIN c = 1..(Len(l) + Len(m))
      /\ Len(l) \in Nat /\ Len(m) \in Nat
      /\ \A i \in 1..Len(l) : c[i] = l[i]
      /\ \A i \in 1..Len(m) : c[Len(l) + i] = m[i]
      /\ DOMAIN l = 1..Len(l) /\ DOMAIN m = 1..Len(m)
  OBVIOUS
<1> HIDE DEF c
<1>2. \A i \in 1..Len(c) : i \in 1..Len(l) \/ (i - Len(l) \in 1..Len(m) /\ c[i] = m[i - Len(l)])
  <2> SUFFICES ASSUME NEW i \in 1..Len(c), i \notin 1..Len(l)
               PROVE  i - Len(l) \in 1..Len(m) /\ c[i] = m[i - Len(l)]
    OBVIOUS
  <2>1. i - Len(l) \in 1..Len(m) /\ Len(l) + (i - Len(l)) = i
    BY <1>1
  <2> QED
    BY <1>1, <2>1
<1>3. CASE At(m, k) # {}
  <2>1. PICK i \in At(m, k) : (\A j \in At(m, k) : j <= i) /\ \A t : Value(t, m, k) = Effect(m[i])
    BY <1>3, LastFrame
  <2>2. i \in 1..Len(m) /\ Len(l) + i \in At(c, k) /\ c[Len(l) + i] = m[i]
    BY <1>1 DEF At
  <2>3. ASSUME NEW j \in At(c, k) PROVE j <= Len(l) + i
    <3>1. CASE j \in 1..Len(l)
      BY <1>1, <2>2, <3>1
    <3>2. CASE j \notin 1..Len(l)
      <4>1. j - Len(l) \in At(m, k)
        BY <1>1, <1>2, <3>2 DEF At
      <4> QED
        BY <1>1, <2>1, <2>2, <4>1 DEF At
    <3> QED
      BY <3>1, <3>2
  <2>4. Value(s, c, k) = Effect(c[Len(l) + i])
    BY <1>1, <2>2, <2>3, ValueOfLast
  <2> QED
    BY <1>3, <2>1, <2>2, <2>4 DEF c
<1>4. CASE At(m, k) = {}
  <2>1. At(c, k) = At(l, k)
    <3>1. ASSUME NEW i \in At(c, k) PROVE i \in At(l, k)
      BY <1>1, <1>2, <1>4 DEF At
    <3>2. ASSUME NEW i \in At(l, k) PROVE i \in At(c, k)
      BY <1>1 DEF At
    <3> QED
      BY <3>1, <3>2
  <2>2. CASE At(l, k) = {}
    BY <1>4, <2>1, <2>2, ValueOfNone DEF c
  <2>3. CASE At(l, k) # {}
    <3>1. PICK i \in At(l, k) : (\A j \in At(l, k) : j <= i) /\ \A t : Value(t, l, k) = Effect(l[i])
      BY <2>3, LastFrame
    <3>2. c[i] = l[i]
      BY <1>1 DEF At
    <3>3. Value(s, c, k) = Effect(c[i])
      BY <1>1, <2>1, <3>1, ValueOfLast
    <3> QED
      BY <1>4, <3>1, <3>2, <3>3 DEF c
  <2> QED
    BY <2>2, <2>3
<1> QED
  BY <1>3, <1>4

(* Where the log has a frame of a key the snapshot does not matter.         *)
LEMMA SnapshotHidden ==
    ASSUME NEW s, NEW t, NEW l \in Seq(Writes), NEW k \in Keys, At(l, k) # {}
    PROVE  Value(s, l, k) = Value(t, l, k)
BY LastFrame

-----------------------------------------------------------------------------
(* Cuts of a log.                                                           *)
LEMMA CutProperties ==
    ASSUME NEW S, NEW l \in Seq(S), NEW c \in Nat, NEW n \in Nat, c <= n, n <= Len(l)
    PROVE  /\ SubSeq(l, c + 1, n) \in Seq(S) /\ Len(SubSeq(l, c + 1, n)) = n - c
           /\ \A i \in 1..(n - c) : SubSeq(l, c + 1, n)[i] = l[c + i]
<1>1. Len(l) \in Nat /\ \A i \in 1..Len(l) : l[i] \in S
  OBVIOUS
<1>2. c + 1 \in Int /\ n \in Int /\ \A i \in (c + 1)..n : l[i] \in S
  BY <1>1
<1>3. /\ SubSeq(l, c + 1, n) \in Seq(S)
      /\ Len(SubSeq(l, c + 1, n)) = IF c + 1 <= n THEN n - (c + 1) + 1 ELSE 0
      /\ \A i \in 1..(n - (c + 1) + 1) : SubSeq(l, c + 1, n)[i] = l[(c + 1) + i - 1]
  BY <1>2, SubSeqProperties
<1>4. n - (c + 1) + 1 = n - c /\ \A i \in 1..(n - c) : (c + 1) + i - 1 = c + i
  OBVIOUS
<1> QED
  BY <1>3, <1>4

LEMMA CutOfConcat ==
    ASSUME NEW l \in Seq(Writes), NEW m \in Seq(Writes), NEW n \in Nat, NEW c \in Nat,
           c <= n, n <= Len(l) + Len(m), c <= Len(l)
    PROVE  /\ n <= Len(l) => SubSeq(l \o m, c + 1, n) = SubSeq(l, c + 1, n)
           /\ n >= Len(l) => /\ n - Len(l) \in 0..Len(m)
                             /\ SubSeq(l \o m, c + 1, n) =
                                  SubSeq(l, c + 1, Len(l)) \o SubSeq(m, 1, n - Len(l))
<1>1. /\ Len(l) \in Nat /\ Len(m) \in Nat /\ l \o m \in Seq(Writes)
      /\ Len(l \o m) = Len(l) + Len(m)
      /\ \A i \in 1..(Len(l) + Len(m)) : (l \o m)[i] = IF i <= Len(l) THEN l[i] ELSE m[i - Len(l)]
  BY ConcatProperties
<1> DEFINE a == SubSeq(l \o m, c + 1, n)
<1>2. /\ a \in Seq(Writes) /\ Len(a) = n - c
      /\ \A i \in 1..(n - c) : a[i] = (l \o m)[c + i]
  BY <1>1, CutProperties
<1>3. ASSUME n <= Len(l) PROVE a = SubSeq(l, c + 1, n)
  <2> DEFINE b == SubSeq(l, c + 1, n)
  <2>1. b \in Seq(Writes) /\ Len(b) = n - c /\ \A i \in 1..(n - c) : b[i] = l[c + i]
    BY <1>1, <1>3, CutProperties
  <2> HIDE DEF a, b
  <2>2. \A i \in 1..(n - c) : a[i] = b[i]
    BY <1>1, <1>2, <1>3, <2>1
  <2> QED
    BY <1>2, <2>1, <2>2, SeqEqual
<1>4. ASSUME n >= Len(l)
      PROVE  /\ n - Len(l) \in 0..Len(m)
             /\ a = SubSeq(l, c + 1, Len(l)) \o SubSeq(m, 1, n - Len(l))
  <2> DEFINE b1 == SubSeq(l, c + 1, Len(l))
             b2 == SubSeq(m, 0 + 1, n - Len(l))
             b == b1 \o b2
  <2>1. n - Len(l) \in 0..Len(m) /\ n - Len(l) \in Nat
    BY <1>1, <1>4
  <2>2. /\ b1 \in Seq(Writes) /\ Len(b1) = Len(l) - c
        /\ \A i \in 1..(Len(l) - c) : b1[i] = l[c + i]
    BY <1>1, CutProperties
  <2>3. /\ b2 \in Seq(Writes) /\ Len(b2) = (n - Len(l)) - 0
        /\ \A i \in 1..((n - Len(l)) - 0) : b2[i] = m[0 + i]
    BY <1>1, <2>1, CutProperties
  <2>4. /\ Len(b2) = n - Len(l) /\ \A i \in 1..(n - Len(l)) : b2[i] = m[i]
    BY <1>1, <2>3
  <2> HIDE DEF a, b1, b2
  <2>5. /\ b \in Seq(Writes) /\ Len(b) = Len(b1) + Len(b2)
        /\ \A i \in 1..(Len(b1) + Len(b2)) : b[i] = IF i <= Len(b1) THEN b1[i] ELSE b2[i - Len(b1)]
    BY <2>2, <2>3, ConcatProperties
  <2> HIDE DEF b
  <2>6. Len(b) = n - c /\ Len(b1) + Len(b2) = n - c
    BY <1>1, <2>2, <2>4, <2>5
  <2>7. ASSUME NEW i \in 1..(n - c) PROVE a[i] = b[i]
    <3>1. CASE i <= Len(l) - c
      <4>1. i \in 1..(Len(l) - c) /\ c + i <= Len(l) /\ c + i \in 1..(Len(l) + Len(m))
        BY <1>1, <3>1
      <4>2. a[i] = l[c + i]
        <5>1. a[i] = (l \o m)[c + i]
          BY <1>2
        <5> QED
          BY <1>1, <4>1, <5>1
      <4>3. b[i] = b1[i]
        <5>1. i \in 1..(Len(b1) + Len(b2)) /\ i <= Len(b1)
          BY <1>1, <2>2, <2>6, <3>1
        <5> QED
          BY <2>5, <5>1
      <4> QED
        BY <2>2, <4>1, <4>2, <4>3
    <3>2. CASE i > Len(l) - c
      <4>1. /\ i - (Len(l) - c) \in 1..(n - Len(l)) /\ c + i > Len(l)
            /\ c + i \in 1..(Len(l) + Len(m)) /\ (c + i) - Len(l) = i - (Len(l) - c)
        BY <1>1, <1>4, <3>2
      <4>2. a[i] = m[i - (Len(l) - c)]
        <5>1. a[i] = (l \o m)[c + i]
          BY <1>2
        <5>2. (l \o m)[c + i] = m[(c + i) - Len(l)]
          BY <1>1, <4>1
        <5> QED
          BY <4>1, <5>1, <5>2
      <4>3. b[i] = b2[i - (Len(l) - c)]
        <5>1. i \in 1..(Len(b1) + Len(b2)) /\ ~ (i <= Len(b1))
          BY <1>1, <2>2, <2>6, <3>2
        <5> QED
          BY <2>2, <2>5, <5>1
      <4> QED
        BY <2>4, <4>1, <4>2, <4>3
    <3> QED
      BY <1>1, <3>1, <3>2
  <2>8. a = b
    BY <1>2, <2>5, <2>6, <2>7, SeqEqual
  <2>9. 0 + 1 = 1
    OBVIOUS
  <2> QED
    BY <2>1, <2>8, <2>9 DEF b, b1, b2
<1> QED
  BY <1>3, <1>4

LEMMA CutInTwo ==
    ASSUME NEW l \in Seq(Writes), NEW n \in 0..Len(l), NEW c \in 0..n
    PROVE  /\ SubSeq(l, 1, n) = SubSeq(l, 1, c) \o SubSeq(l, c + 1, n)
           /\ SubSeq(l, 1, n) \in Seq(Writes) /\ SubSeq(l, c + 1, n) \in Seq(Writes)
           /\ Len(SubSeq(l, 1, n)) = n
OBVIOUS

-----------------------------------------------------------------------------
(* The control: types, locks, and the log against what is on its way to it. *)
Entries == Writes \cup {None}
Values == [Keys -> Entries]
Files == [snapshot : Values, wal : Seq(Writes)]
Statuses == {"new", "called", "entered", "applied", "bounced", "retry", "acked",
             "rejected", "refused", "unknown"}
Bounces == [write : Writes, prev : Entries]
KeysOf(q) == {Key[q[i]] : i \in DOMAIN q}

Copying == {"fence", "snapshot", "copy"}
Renaming == {"renameSnapshot", "syncSnapshotName", "renameLog", "syncLogName"}

WalType ==
    /\ wal = [size |-> wal.size, queue |-> wal.queue, group |-> wal.group,
              batch |-> wal.batch, batchGroup |-> wal.batchGroup, landed |-> wal.landed,
              sealed |-> wal.sealed, closed |-> wal.closed, poisoned |-> wal.poisoned]
    /\ wal.size \in Nat /\ wal.queue \in Seq(Writes) /\ wal.batch \in Seq(Writes)
    /\ wal.landed \in BOOLEAN /\ wal.sealed \in BOOLEAN
    /\ wal.closed \in BOOLEAN /\ wal.poisoned \in BOOLEAN
    /\ wal.group \in [KeysOf(wal.queue) -> Entries]
    /\ wal.batchGroup \in [KeysOf(wal.batch) -> Entries]

WriteTypes ==
    /\ policy \in {"always", "everysec"}
    /\ status \in [Writes -> Statuses]
    /\ store \in Values /\ bounced \in Seq(Bounces)
    /\ log \in Seq(Writes) /\ opened \in [Keys -> SUBSET Entries]
    /\ retried \subseteq Writes /\ \A w \in retried : status[w] \notin {"new", "called", "entered"}

FileTypes ==
    /\ disk \in Files /\ synced \in Files /\ tmp \in Files
    /\ recovery \in [pc : {"idle", "truncate", "refresh"}, at : Nat]
    /\ compaction \in [pc : {"idle", "drain", "swap"} \cup Copying \cup Renaming,
                       base : Nat, copied : Nat]
    /\ writeDisabled \in BOOLEAN /\ locked \in BOOLEAN /\ dirUnsynced \in BOOLEAN

Quiet == wal.queue = <<>> /\ wal.batch = <<>>

LockInv ==
    /\ locked <=> compaction.pc \in {"drain", "swap"} \cup Renaming
    /\ wal.sealed => locked \/ wal.closed
    /\ compaction.pc = "drain" => ~ wal.closed
    /\ compaction.pc \in {"swap"} \cup Renaming => wal.closed
    /\ compaction.pc \in Copying => ~ wal.closed

(* No write is undone while a snapshot is made.  Before that, one may wait   *)
(* for a recovery.                                                          *)
CalmInv ==
    compaction.pc \in {"snapshot", "copy"} => \A w \in Writes : status[w] \notin {"bounced", "retry"}

RecoveryInv ==
    /\ wal.poisoned => recovery.pc # "idle" \/ writeDisabled
    /\ recovery.pc # "idle" \/ writeDisabled => Quiet
    /\ writeDisabled => recovery.pc = "idle"
    /\ compaction.pc \in {"drain"} \cup Copying /\ (recovery.pc # "idle" \/ writeDisabled) =>
          wal.poisoned
    /\ compaction.pc \in Renaming => Quiet /\ recovery.pc = "idle"
    /\ recovery.pc = "truncate" => recovery.at <= Len(disk.wal)

(* The log ends with the batch and the queue, and what comes before them    *)
(* has been answered.                                                       *)
Before == Len(log) - Len(wal.batch) - Len(wal.queue)
LogInv ==
    /\ Before \in Nat /\ Distinct(log)
    /\ \A i \in 1..Len(wal.batch) : log[Before + i] = wal.batch[i]
    /\ \A i \in 1..Len(wal.queue) : log[Before + Len(wal.batch) + i] = wal.queue[i]
    /\ \A i \in DOMAIN log : status[log[i]] \in
         IF i > Before THEN {"applied"} ELSE {"acked", "rejected"}

BouncedInv ==
    /\ \A i \in DOMAIN bounced : status[bounced[i].write] = "bounced"
    /\ \A i, j \in DOMAIN bounced : bounced[i].write = bounced[j].write => i = j
    /\ \A w \in Writes : status[w] = "bounced" => \E i \in DOMAIN bounced : bounced[i].write = w
    /\ bounced # <<>> => wal.sealed \/ wal.closed
    /\ \A i \in DOMAIN bounced : bounced[i].write \in retried => wal.closed /\ ~ locked
    /\ \A i, j \in DOMAIN bounced :
         Key[bounced[i].write] = Key[bounced[j].write] => i = j \/ Key[bounced[i].write] \in tangled

SizeInv ==
    /\ recovery.pc # "refresh" /\ (~ wal.closed \/ ~ Quiet) => wal.size = Len(disk.wal)
    /\ wal.landed => /\ wal.batch # <<>> /\ policy = "always"
                     /\ Len(wal.batch) <= wal.size
                     /\ \A i \in 1..Len(wal.batch) :
                          disk.wal[wal.size - Len(wal.batch) + i] = wal.batch[i]

StructInv ==
    /\ WalType /\ WriteTypes /\ FileTypes
    /\ LockInv /\ CalmInv /\ RecoveryInv /\ LogInv /\ BouncedInv /\ SizeInv

LEMMA WalKept == ASSUME WalType, wal' = wal PROVE WalType'
BY DEF WalType

LEMMA SomeBecome ==
    ASSUME StructInv, NEW ws, NEW as \in Statuses, Becomes(ws, as)
    PROVE  /\ status' \in [Writes -> Statuses]
           /\ \A w \in Writes : status'[w] = IF w \in ws THEN as ELSE status[w]
BY DEF Becomes, StructInv, WriteTypes

LEMMA OneBecomes ==
    ASSUME StructInv, NEW w \in Writes, NEW as \in Statuses, Becomes({w}, as)
    PROVE  /\ status' \in [Writes -> Statuses]
           /\ \A x \in Writes : status'[x] = IF x = w THEN as ELSE status[x]
BY SomeBecome

LEMMA LogKept ==
    ASSUME LogInv, log' = log, wal'.batch = wal.batch, wal'.queue = wal.queue,
           \A i \in DOMAIN log : status'[log[i]] = status[log[i]]
    PROVE  LogInv'
<1>1. Before' = Before
  BY DEF Before
<1> QED
  BY <1>1 DEF LogInv

(* A write that has not reached the log.                                    *)
LEMMA NotInLog ==
    ASSUME StructInv, NEW w \in Writes, status[w] \notin {"applied", "acked", "rejected"}
    PROVE  \A i \in DOMAIN log : log[i] # w
BY DEF StructInv, LogInv

(* Steps of such a write leave the log alone.                               *)
LEMMA LogOfOthers ==
    ASSUME StructInv, NEW w \in Writes, status[w] \notin {"applied", "acked", "rejected"},
           NEW as \in Statuses, Becomes({w}, as),
           log' = log, wal'.batch = wal.batch, wal'.queue = wal.queue
    PROVE  LogInv'
<1>1. \A i \in DOMAIN log : log[i] \in Writes /\ log[i] # w
  BY NotInLog DEF StructInv, WriteTypes
<1>2. \A i \in DOMAIN log : status'[log[i]] = status[log[i]]
  BY <1>1, OneBecomes
<1> QED
  BY <1>2, LogKept DEF StructInv

LEMMA CallStruct ==
    ASSUME NEW w \in Writes, StructInv, Call(w)
    PROVE  StructInv'
<1>1. /\ status[w] = "new" /\ Becomes({w}, "called") /\ bounced = <<>>
      /\ UNCHANGED <<policy, retried, store, bounced, wal, disk, synced, dirUnsynced,
                     recovery, writeDisabled, compaction, tmp, locked, compactions,
                     log, opened, tangled, failures, crashes>>
  BY DEF Call, Microtasks, fileVars, recoveryVars, compactionVars, historyVars
<1>2. /\ status' \in [Writes -> Statuses]
      /\ \A x \in Writes : status'[x] = IF x = w THEN "called" ELSE status[x]
  BY <1>1, OneBecomes DEF Statuses
<1>3. w \notin retried
  BY <1>1 DEF StructInv, WriteTypes
<1>4. WalType'
  BY <1>1, WalKept DEF StructInv
<1>5. WriteTypes'
  BY <1>1, <1>2, <1>3 DEF StructInv, WriteTypes
<1>6. FileTypes' /\ LockInv' /\ RecoveryInv' /\ SizeInv'
  BY <1>1 DEF StructInv, FileTypes, LockInv, RecoveryInv, SizeInv, Quiet
<1>7. LogInv'
  BY <1>1, LogOfOthers DEF Statuses
<1>8. CalmInv' /\ BouncedInv'
  BY <1>1, <1>2 DEF StructInv, CalmInv, BouncedInv
<1> QED
  BY <1>4, <1>5, <1>6, <1>7, <1>8 DEF StructInv

LEMMA EnterStruct ==
    ASSUME NEW w \in Writes, StructInv, Enter(w)
    PROVE  StructInv'
<1>1. PICK as \in {"acked", "entered"} :
      /\ status[w] = "called" /\ Becomes({w}, as) /\ bounced = <<>>
      /\ UNCHANGED <<policy, retried, store, bounced, wal, disk, synced, dirUnsynced,
                     recovery, writeDisabled, compaction, tmp, locked, compactions,
                     log, opened, tangled, failures, crashes>>
  BY DEF Enter, Microtasks, fileVars, recoveryVars, compactionVars, historyVars
<1>2. /\ status' \in [Writes -> Statuses]
      /\ \A x \in Writes : status'[x] = IF x = w THEN as ELSE status[x]
  <2>1. as \in Statuses
    BY <1>1 DEF Statuses
  <2> QED
    BY <1>1, <2>1, OneBecomes
<1>3. w \notin retried
  BY <1>1 DEF StructInv, WriteTypes
<1>4. WalType'
  BY <1>1, WalKept DEF StructInv
<1>5. WriteTypes'
  BY <1>1, <1>2, <1>3 DEF StructInv, WriteTypes
<1>6. FileTypes' /\ LockInv' /\ RecoveryInv' /\ SizeInv'
  BY <1>1 DEF StructInv, FileTypes, LockInv, RecoveryInv, SizeInv, Quiet
<1>7. LogInv'
  <2>1. as \in Statuses
    BY <1>1 DEF Statuses
  <2> QED
    BY <1>1, <2>1, LogOfOthers
<1>8. CalmInv' /\ BouncedInv'
  <2>1. \A x \in Writes : status'[x] \in {"bounced", "retry"} <=> status[x] \in {"bounced", "retry"}
    BY <1>1, <1>2
  <2>2. \A x \in Writes : status'[x] # "bounced" \/ status[x] = "bounced"
    BY <1>1, <1>2
  <2>3. DOMAIN bounced = {}
    BY <1>1
  <2> QED
    BY <1>1, <2>1, <2>2, <2>3 DEF StructInv, CalmInv, BouncedInv
<1> QED
  BY <1>4, <1>5, <1>6, <1>7, <1>8 DEF StructInv

LEMMA UndoRefusedStruct ==
    ASSUME StructInv, UndoRefused
    PROVE  StructInv'
<1> DEFINE b == Head(bounced)
<1>1. /\ bounced # <<>> /\ bounced' = Tail(bounced) /\ store' = Restored(b)
      /\ UNCHANGED <<policy, retried, wal, disk, synced, dirUnsynced,
                     recovery, writeDisabled, compaction, tmp, locked, compactions,
                     log, opened, tangled, failures, crashes>>
  BY DEF UndoRefused, fileVars, recoveryVars, compactionVars, historyVars
<1>2. /\ b \in Bounces /\ bounced' \in Seq(Bounces) /\ DOMAIN bounced = 1..Len(bounced)
      /\ 1 \in DOMAIN bounced /\ b = bounced[1] /\ Len(bounced) \in Nat
      /\ DOMAIN bounced' = 1..(Len(bounced) - 1)
      /\ \A i \in DOMAIN bounced' : bounced'[i] = bounced[i + 1] /\ i + 1 \in DOMAIN bounced
  BY <1>1 DEF StructInv, WriteTypes
<1> DEFINE w == b.write
<1>3. w \in Writes /\ status[w] = "bounced" /\ b.prev \in Entries
  BY <1>2 DEF StructInv, BouncedInv, Bounces
<1>4. PICK as \in {"rejected", "retry", "refused"} : Becomes({w}, as) /\ (as = "retry" => w \notin retried)
  BY DEF UndoRefused
<1> HIDE DEF b, w
<1>5. /\ status' \in [Writes -> Statuses]
      /\ \A x \in Writes : status'[x] = IF x = w THEN as ELSE status[x]
  <2>1. as \in Statuses
    BY <1>4 DEF Statuses
  <2> QED
    BY <1>3, <1>4, <2>1, OneBecomes
<1>6. store' \in Values
  <2>1. store' = store \/ store' = [store EXCEPT ![Key[w]] = b.prev]
    BY <1>1 DEF Restored, w
  <2> QED
    BY <1>3, <2>1, WritesAssumption DEF StructInv, WriteTypes, Values
<1>7. WalType'
  BY <1>1, WalKept DEF StructInv
<1>8. WriteTypes'
  BY <1>1, <1>2, <1>4, <1>5, <1>6 DEF StructInv, WriteTypes
<1>9. FileTypes' /\ LockInv' /\ RecoveryInv' /\ SizeInv'
  BY <1>1 DEF StructInv, FileTypes, LockInv, RecoveryInv, SizeInv, Quiet
<1>10. LogInv'
  <2>1. as \in Statuses
    BY <1>4 DEF Statuses
  <2> QED
    BY <1>1, <1>3, <1>4, <2>1, LogOfOthers
<1>11. BouncedInv'
  <2>1. \A i \in DOMAIN bounced' : bounced[i + 1].write # w /\ bounced[i + 1].write \in Writes
    <3> SUFFICES ASSUME NEW i \in DOMAIN bounced'
                 PROVE  bounced[i + 1].write # w /\ bounced[i + 1].write \in Writes
      OBVIOUS
    <3>1. i + 1 \in DOMAIN bounced /\ i + 1 # 1
      BY <1>2
    <3>2. bounced[i + 1] \in Bounces
      BY <1>2, <3>1 DEF StructInv, WriteTypes
    <3> QED
      BY <1>2, <3>1, <3>2 DEF StructInv, BouncedInv, Bounces, w
  <2>2. \A i \in DOMAIN bounced' : status'[bounced'[i].write] = "bounced"
    <3> SUFFICES ASSUME NEW i \in DOMAIN bounced' PROVE status'[bounced'[i].write] = "bounced"
      OBVIOUS
    <3>1. status[bounced[i + 1].write] = "bounced"
      BY <1>2 DEF StructInv, BouncedInv
    <3> QED
      BY <1>2, <1>5, <2>1, <3>1
  <2>3. \A i, j \in DOMAIN bounced' : bounced'[i].write = bounced'[j].write => i = j
    <3> SUFFICES ASSUME NEW i \in DOMAIN bounced', NEW j \in DOMAIN bounced',
                        bounced'[i].write = bounced'[j].write PROVE i = j
      OBVIOUS
    <3>1. i + 1 = j + 1
      BY <1>2 DEF StructInv, BouncedInv
    <3> QED
      BY <1>2, <3>1
  <2>4. \A x \in Writes : status'[x] = "bounced" => \E i \in DOMAIN bounced' : bounced'[i].write = x
    <3> SUFFICES ASSUME NEW x \in Writes, status'[x] = "bounced"
                 PROVE  \E i \in DOMAIN bounced' : bounced'[i].write = x
      OBVIOUS
    <3>1. x # w /\ status[x] = "bounced"
      BY <1>4, <1>5
    <3>2. PICK j \in DOMAIN bounced : bounced[j].write = x
      BY <3>1 DEF StructInv, BouncedInv
    <3>3. j # 1
      BY <1>2, <3>1, <3>2 DEF w
    <3>4. j - 1 \in DOMAIN bounced' /\ (j - 1) + 1 = j
      BY <1>2, <3>3
    <3> QED
      BY <1>2, <3>2, <3>4
  <2>5. \A i, j \in DOMAIN bounced' :
         Key[bounced'[i].write] = Key[bounced'[j].write] =>
           i = j \/ Key[bounced'[i].write] \in tangled'
    <3> SUFFICES ASSUME NEW i \in DOMAIN bounced', NEW j \in DOMAIN bounced',
                        Key[bounced'[i].write] = Key[bounced'[j].write],
                        Key[bounced'[i].write] \notin tangled' PROVE i = j
      OBVIOUS
    <3>1. i + 1 = j + 1
      BY <1>1, <1>2 DEF StructInv, BouncedInv
    <3> QED
      BY <1>2, <3>1
  <2>6. bounced' # <<>> => wal'.sealed \/ wal'.closed
    BY <1>1 DEF StructInv, BouncedInv
  <2>7. \A i \in DOMAIN bounced' : bounced'[i].write \in retried' => wal'.closed /\ ~ locked'
    BY <1>1, <1>2 DEF StructInv, BouncedInv
  <2> QED
    BY <2>2, <2>3, <2>4, <2>5, <2>6, <2>7 DEF BouncedInv
<1>12. CalmInv'
  <2>1. compaction.pc \notin Copying
    BY <1>2, <1>3 DEF StructInv, BouncedInv, LockInv, Copying, Renaming
  <2> QED
    BY <1>1, <2>1 DEF CalmInv, Copying
<1> QED
  BY <1>7, <1>8, <1>9, <1>10, <1>11, <1>12 DEF StructInv

LEMMA BouncedTypes ==
    ASSUME StructInv
    PROVE  \A i \in DOMAIN bounced :
              bounced[i] \in Bounces /\ bounced[i].write \in Writes /\ bounced[i].prev \in Entries
<1>1. bounced \in Seq(Bounces)
  BY DEF StructInv, WriteTypes
<1>2. \A i \in DOMAIN bounced : bounced[i] \in Bounces
  BY <1>1
<1> QED
  BY <1>2 DEF Bounces

LEMMA NoneBounced ==
    ASSUME StructInv, bounced = <<>>, bounced' = bounced,
           \A w \in Writes : status'[w] = "bounced" => status[w] = "bounced"
    PROVE  BouncedInv'
<1>1. DOMAIN bounced = {}
  OBVIOUS
<1>2. \A w \in Writes : status[w] # "bounced"
  BY <1>1 DEF StructInv, BouncedInv
<1> QED
  BY <1>1, <1>2 DEF BouncedInv

LEMMA NoneTouched ==
    ASSUME StructInv, compaction'.pc = compaction.pc \/ compaction'.pc \notin Copying,
           \A w \in Writes :
              status'[w] \in {"bounced", "retry"} => status[w] \in {"bounced", "retry"}
    PROVE  CalmInv'
BY DEF StructInv, CalmInv, Copying

LEMMA KeysOfAppend ==
    ASSUME NEW q \in Seq(Writes), NEW w \in Writes
    PROVE  /\ KeysOf(Append(q, w)) = KeysOf(q) \cup {Key[w]}
           /\ KeysOf(<<>>) = {}
<1> DEFINE p == Append(q, w)
<1>1. /\ DOMAIN q = 1..Len(q) /\ Len(q) \in Nat /\ DOMAIN p = 1..(Len(q) + 1)
      /\ p[Len(q) + 1] = w /\ \A j \in 1..Len(q) : p[j] = q[j]
  OBVIOUS
<1> HIDE DEF p
<1>2. \A i \in 1..(Len(q) + 1) : i \in 1..Len(q) \/ i = Len(q) + 1
  BY <1>1
<1>3. KeysOf(p) \subseteq KeysOf(q) \cup {Key[w]}
  BY <1>1, <1>2 DEF KeysOf
<1>4. KeysOf(q) \subseteq KeysOf(p)
  BY <1>1 DEF KeysOf
<1>5. Key[w] \in KeysOf(p)
  <2>1. Len(q) + 1 \in DOMAIN p
    BY <1>1
  <2> QED
    BY <1>1, <2>1 DEF KeysOf
<1>6. KeysOf(<<>>) = {}
  BY DEF KeysOf
<1> QED
  BY <1>3, <1>4, <1>5, <1>6 DEF p

LEMMA CommitStruct ==
    ASSUME NEW w \in Writes, StructInv, Commit(w)
    PROVE  StructInv'
<1>1. /\ \/ status[w] = "entered" /\ retried' = retried
         \/ status[w] = "retry" /\ ~ locked /\ retried' = retried \cup {w}
      /\ recovery.pc = "idle"
      /\ UNCHANGED <<policy, disk, synced, dirUnsynced, recovery, writeDisabled, compaction,
                     tmp, locked, compactions, opened, failures, crashes>>
  BY DEF Commit, fileVars, recoveryVars, compactionVars
<1>2. status[w] \notin {"applied", "acked", "rejected", "new", "called", "bounced"}
  BY <1>1
<1>3. /\ retried' \subseteq Writes /\ (w \in retried => status[w] # "entered")
      /\ \A x \in retried' : x = w \/ x \in retried
  BY <1>1 DEF StructInv, WriteTypes
<1>4. FileTypes' /\ LockInv'
  <2>1. wal'.sealed = wal.sealed /\ wal'.closed = wal.closed
    BY DEF Commit, StructInv, WalType
  <2> QED
    BY <1>1, <2>1 DEF StructInv, FileTypes, LockInv
<1>5. CASE /\ writeDisabled /\ Becomes({w}, "rejected")
           /\ UNCHANGED <<store, bounced, wal, log, tangled>>
  <2>1. /\ status' \in [Writes -> Statuses]
        /\ \A x \in Writes : status'[x] = IF x = w THEN "rejected" ELSE status[x]
    BY <1>5, OneBecomes DEF Statuses
  <2>2. WalType'
    BY <1>5, WalKept DEF StructInv
  <2>3. WriteTypes'
    BY <1>1, <1>3, <1>5, <2>1 DEF StructInv, WriteTypes
  <2>4. RecoveryInv' /\ SizeInv'
    BY <1>1, <1>5 DEF StructInv, RecoveryInv, SizeInv, Quiet
  <2>5. LogInv'
    BY <1>2, <1>5, LogOfOthers DEF Statuses
  <2>6. BouncedInv'
    <3>1. \A i \in DOMAIN bounced : bounced[i].write # w /\ bounced[i].write \in Writes
      BY <1>2, BouncedTypes DEF StructInv, BouncedInv
    <3>2. \A x \in Writes : status'[x] = "bounced" <=> status[x] = "bounced"
      BY <1>2, <2>1
    <3> QED
      BY <1>1, <1>3, <1>5, <3>1, <3>2 DEF StructInv, BouncedInv
  <2>7. CalmInv'
    BY <1>1, <2>1, NoneTouched
  <2> QED
    BY <1>4, <2>2, <2>3, <2>4, <2>5, <2>6, <2>7 DEF StructInv
<1>6. CASE /\ ~ writeDisabled /\ (wal.sealed \/ wal.closed)
           /\ Becomes({w}, "bounced") /\ Apply(w)
           /\ bounced' = Append(bounced, [write |-> w, prev |-> store[Key[w]]])
           /\ tangled' = tangled \cup
                ({Key[w]} \cap {Key[bounced[i].write] : i \in DOMAIN bounced})
           /\ UNCHANGED <<wal, log>>
  <2>1. /\ status' \in [Writes -> Statuses]
        /\ \A x \in Writes : status'[x] = IF x = w THEN "bounced" ELSE status[x]
    BY <1>6, OneBecomes DEF Statuses
  <2> DEFINE b == [write |-> w, prev |-> store[Key[w]]]
             n == Len(bounced)
  <2>2. b \in Bounces /\ b.write = w
    BY WritesAssumption DEF StructInv, WriteTypes, Values, Bounces
  <2>3. store' \in Values
    BY <1>6, WritesAssumption DEF StructInv, WriteTypes, Values, Apply, Effect, Entries
  <2> HIDE DEF b
  <2>4. /\ bounced' \in Seq(Bounces) /\ n \in Nat /\ DOMAIN bounced = 1..n
        /\ DOMAIN bounced' = 1..(n + 1) /\ bounced'[n + 1] = b
        /\ \A i \in 1..n : bounced'[i] = bounced[i]
    BY <1>6, <2>2 DEF StructInv, WriteTypes, b
  <2>5. \A i \in 1..n : bounced[i].write # w /\ bounced[i].write \in Writes
    BY <1>2, <2>4, BouncedTypes DEF StructInv, BouncedInv
  <2> HIDE DEF n
  <2>6. \A i \in 1..(n + 1) : i \in 1..n \/ i = n + 1
    BY <2>4
  <2>7. WalType'
    BY <1>6, WalKept DEF StructInv
  <2>8. WriteTypes'
    BY <1>1, <1>3, <1>6, <2>1, <2>3, <2>4 DEF StructInv, WriteTypes
  <2>9. RecoveryInv' /\ SizeInv'
    BY <1>1, <1>6 DEF StructInv, RecoveryInv, SizeInv, Quiet
  <2>10. LogInv'
    BY <1>2, <1>6, LogOfOthers DEF Statuses
  <2>11. CalmInv'
    <3>1. compaction.pc \notin Copying
      BY <1>1, <1>6 DEF StructInv, LockInv, Copying, Renaming
    <3> QED
      BY <1>1, <3>1 DEF CalmInv, Copying
  <2>12. BouncedInv'
    <3>1. \A i \in 1..(n + 1) : status'[bounced'[i].write] = "bounced"
      BY <2>1, <2>2, <2>4, <2>5, <2>6 DEF StructInv, BouncedInv
    <3>2. \A i, j \in 1..(n + 1) : bounced'[i].write = bounced'[j].write => i = j
      BY <2>2, <2>4, <2>5, <2>6 DEF StructInv, BouncedInv
    <3>3. \A x \in Writes : status'[x] = "bounced" => \E i \in 1..(n + 1) : bounced'[i].write = x
      <4> SUFFICES ASSUME NEW x \in Writes, status'[x] = "bounced"
                   PROVE  \E i \in 1..(n + 1) : bounced'[i].write = x
        OBVIOUS
      <4>1. CASE x = w
        BY <2>2, <2>4, <4>1
      <4>2. CASE x # w
        <5>1. PICK i \in 1..n : bounced[i].write = x
          BY <2>1, <2>4, <4>2 DEF StructInv, BouncedInv
        <5> QED
          BY <2>4, <5>1
      <4> QED
        BY <4>1, <4>2
    <3>4. \A i \in 1..(n + 1) : bounced'[i].write \in retried' => wal'.closed /\ ~ locked'
      <4> SUFFICES ASSUME NEW i \in 1..(n + 1), bounced'[i].write \in retried'
                   PROVE  wal.closed /\ ~ locked
        BY <1>1, <1>6
      <4>1. CASE i \in 1..n
        BY <1>3, <2>4, <2>5, <4>1 DEF StructInv, BouncedInv
      <4>2. CASE i = n + 1
        <5>1. w \in retried'
          BY <2>2, <2>4, <4>2
        <5>2. ~ locked
          BY <1>1, <1>3, <5>1
        <5> QED
          BY <1>6, <5>2 DEF StructInv, LockInv
      <4> QED
        BY <2>6, <4>1, <4>2
    <3>5. \A i, j \in 1..(n + 1) :
            Key[bounced'[i].write] = Key[bounced'[j].write] =>
              i = j \/ Key[bounced'[i].write] \in tangled'
      <4>1. \A i \in 1..n : Key[bounced[i].write] = Key[w] => Key[w] \in tangled'
        BY <1>6, <2>4
      <4>2. \A i, j \in 1..n : Key[bounced[i].write] = Key[bounced[j].write] =>
               i = j \/ Key[bounced[i].write] \in tangled'
        BY <1>6, <2>4 DEF StructInv, BouncedInv
      <4> QED
        BY <2>2, <2>4, <2>6, <4>1, <4>2
    <3> QED
      BY <1>6, <2>4, <3>1, <3>2, <3>3, <3>4, <3>5 DEF BouncedInv
  <2> QED
    BY <1>4, <2>7, <2>8, <2>9, <2>10, <2>11, <2>12 DEF StructInv
<1>7. CASE /\ ~ writeDisabled /\ ~ wal.sealed /\ ~ wal.closed
           /\ Becomes({w}, "applied") /\ Apply(w)
           /\ wal' = [wal EXCEPT !.queue = Append(@, w), !.group = Noted(@, Key[w])]
           /\ log' = Append(log, w)
           /\ UNCHANGED <<bounced, tangled>>
  <2>1. /\ status' \in [Writes -> Statuses]
        /\ \A x \in Writes : status'[x] = IF x = w THEN "applied" ELSE status[x]
    BY <1>7, OneBecomes DEF Statuses
  <2>2. store' \in Values
    BY <1>7, WritesAssumption DEF StructInv, WriteTypes, Values, Apply, Effect, Entries
  <2>3. /\ wal'.queue = Append(wal.queue, w) /\ wal'.group = Noted(wal.group, Key[w])
        /\ wal' = [size |-> wal.size, queue |-> wal'.queue, group |-> wal'.group,
                   batch |-> wal.batch, batchGroup |-> wal.batchGroup, landed |-> wal.landed,
                   sealed |-> wal.sealed, closed |-> wal.closed, poisoned |-> wal.poisoned]
    BY <1>7 DEF StructInv, WalType
  <2>4. /\ wal'.size = wal.size /\ wal'.batch = wal.batch /\ wal'.batchGroup = wal.batchGroup
        /\ wal'.landed = wal.landed /\ wal'.sealed = wal.sealed
        /\ wal'.closed = wal.closed /\ wal'.poisoned = wal.poisoned
    BY <2>3
  <2> DEFINE q == wal.queue
             p == wal'.queue
  <2>5. /\ q \in Seq(Writes) /\ p \in Seq(Writes) /\ Len(q) \in Nat /\ Len(p) = Len(q) + 1
        /\ p[Len(q) + 1] = w /\ \A i \in 1..Len(q) : p[i] = q[i]
    BY <2>3 DEF StructInv, WalType
  <2>6. KeysOf(p) = KeysOf(q) \cup {Key[w]}
    BY <2>3, KeysOfAppend DEF StructInv, WalType
  <2>7. wal'.group \in [KeysOf(p) -> Entries]
    <3>1. wal.group \in [KeysOf(q) -> Entries] /\ store[Key[w]] \in Entries
      BY WritesAssumption DEF StructInv, WalType, WriteTypes, Values
    <3> QED
      BY <2>3, <2>6, <3>1 DEF Noted
  <2>8. WalType'
    BY <2>3, <2>4, <2>5, <2>7 DEF StructInv, WalType
  <2> HIDE DEF p, q
  <2>9. /\ log' \in Seq(Writes) /\ Len(log) \in Nat /\ Len(log') = Len(log) + 1
        /\ log'[Len(log) + 1] = w /\ \A i \in 1..Len(log) : log'[i] = log[i] /\ log[i] # w
        /\ DOMAIN log = 1..Len(log) /\ DOMAIN log' = 1..(Len(log) + 1)
        /\ \A i \in 1..Len(log) : log[i] \in Writes
    BY <1>2, <1>7, NotInLog DEF StructInv, WriteTypes
  <2>10. WriteTypes'
    BY <1>1, <1>3, <1>7, <2>1, <2>2, <2>9 DEF StructInv, WriteTypes
  <2>11. RecoveryInv' /\ SizeInv'
    BY <1>1, <1>7, <2>4 DEF StructInv, RecoveryInv, SizeInv, Quiet, LockInv, Copying, Renaming
  <2>12. Before' = Before /\ Before \in Nat /\ Len(wal.batch) \in Nat
         /\ Len(log) = Before + Len(wal.batch) + Len(q)
    BY <2>4, <2>5, <2>9 DEF StructInv, LogInv, Before, WalType, p, q
  <2>13. LogInv'
    <3>1. \A i, j \in 1..(Len(log) + 1) : log'[i] = log'[j] => i = j
      <4>1. \A i, j \in 1..Len(log) : log[i] = log[j] => i = j
        BY <2>9 DEF StructInv, LogInv, Distinct
      <4>2. \A i \in 1..(Len(log) + 1) : i \in 1..Len(log) \/ i = Len(log) + 1
        BY <2>9
      <4> QED
        BY <2>9, <4>1, <4>2
    <3>2. \A i \in 1..Len(wal.batch) : log'[Before + i] = wal.batch[i]
      <4>1. \A i \in 1..Len(wal.batch) : Before + i \in 1..Len(log)
        BY <2>5, <2>12
      <4> QED
        BY <2>9, <4>1 DEF StructInv, LogInv
    <3>3. \A i \in 1..Len(p) : log'[Before + Len(wal.batch) + i] = p[i]
      <4> SUFFICES ASSUME NEW i \in 1..Len(p) PROVE log'[Before + Len(wal.batch) + i] = p[i]
        OBVIOUS
      <4>1. CASE i = Len(q) + 1
        <5>1. Before + Len(wal.batch) + i = Len(log) + 1
          <6>1. /\ Before \in Nat /\ Len(wal.batch) \in Nat /\ Len(q) \in Nat
                /\ Len(log) = Before + Len(wal.batch) + Len(q)
            BY <2>5, <2>12
          <6>2. \A x, y, z \in Nat : x + y + (z + 1) = x + y + z + 1
            OBVIOUS
          <6>3. Before + Len(wal.batch) + (Len(q) + 1) = Before + Len(wal.batch) + Len(q) + 1
            BY <6>1, <6>2
          <6> QED
            BY <4>1, <6>1, <6>3
        <5>2. log'[Len(log) + 1] = w /\ p[i] = w
          BY <2>5, <2>9, <4>1
        <5> QED
          BY <5>1, <5>2
      <4>2. CASE i # Len(q) + 1
        <5>1. i \in 1..Len(q) /\ Before + Len(wal.batch) + i \in 1..Len(log)
          BY <2>5, <2>12, <4>2
        <5>2. log[Before + Len(wal.batch) + i] = q[i]
          BY <5>1 DEF StructInv, LogInv, q
        <5> QED
          BY <2>5, <2>9, <5>1, <5>2
      <4> QED
        BY <4>1, <4>2
    <3>4. \A i \in 1..(Len(log) + 1) : status'[log'[i]] \in
             IF i > Before THEN {"applied"} ELSE {"acked", "rejected"}
      <4> SUFFICES ASSUME NEW i \in 1..(Len(log) + 1)
                   PROVE  status'[log'[i]] \in
                            IF i > Before THEN {"applied"} ELSE {"acked", "rejected"}
        OBVIOUS
      <4>1. CASE i = Len(log) + 1
        <5>1. i > Before
          BY <2>5, <2>12, <4>1
        <5> QED
          BY <2>1, <2>9, <4>1, <5>1
      <4>2. CASE i # Len(log) + 1
        <5>1. i \in 1..Len(log)
          BY <2>9, <4>2
        <5> QED
          BY <2>1, <2>9, <5>1 DEF StructInv, LogInv
      <4> QED
        BY <4>1, <4>2
    <3> QED
      BY <2>4, <2>9, <2>12, <3>1, <3>2, <3>3, <3>4 DEF LogInv, Distinct, p
  <2>14. CalmInv'
    BY <1>1, <2>1, NoneTouched
  <2>15. BouncedInv'
    <3>1. bounced = <<>>
      BY <1>7 DEF StructInv, BouncedInv
    <3> QED
      BY <1>7, <2>1, <3>1, NoneBounced
  <2> QED
    BY <1>4, <2>8, <2>10, <2>11, <2>13, <2>14, <2>15 DEF StructInv
<1> QED
  BY <1>5, <1>6, <1>7 DEF Commit

LEMMA NoGroupType == NoGroup \in [KeysOf(<<>>) -> Entries] /\ KeysOf(<<>>) = {}
BY DEF NoGroup, KeysOf

LEMMA FlushBatchStruct ==
    ASSUME StructInv, FlushBatch
    PROVE  StructInv'
<1>1. /\ wal.queue # <<>> /\ wal.batch = <<>> /\ ~ wal.poisoned /\ bounced = <<>>
      /\ UNCHANGED <<policy, status, retried, store, bounced, disk, synced, dirUnsynced,
                     recovery, writeDisabled, compaction, tmp, locked, compactions,
                     log, opened, tangled, failures, crashes>>
  BY DEF FlushBatch, Microtasks, writeVars, fileVars, recoveryVars, compactionVars, historyVars
<1>2. wal' = [size |-> wal.size, queue |-> <<>>, group |-> NoGroup,
              batch |-> wal.queue, batchGroup |-> wal.group, landed |-> wal.landed,
              sealed |-> wal.sealed, closed |-> wal.closed, poisoned |-> wal.poisoned]
  BY DEF FlushBatch, StructInv, WalType
<1>3. /\ wal'.size = wal.size /\ wal'.queue = <<>> /\ wal'.group = NoGroup
      /\ wal'.batch = wal.queue /\ wal'.batchGroup = wal.group /\ wal'.landed = wal.landed
      /\ wal'.sealed = wal.sealed /\ wal'.closed = wal.closed /\ wal'.poisoned = wal.poisoned
  BY <1>2
<1>4. ~ wal.landed
  BY <1>1 DEF StructInv, SizeInv
<1>5. WalType'
  BY <1>2, <1>3, NoGroupType DEF StructInv, WalType
<1>6. WriteTypes' /\ FileTypes' /\ LockInv'
  BY <1>1, <1>3 DEF StructInv, WriteTypes, FileTypes, LockInv
<1>7. RecoveryInv' /\ SizeInv'
  BY <1>1, <1>3, <1>4 DEF StructInv, RecoveryInv, SizeInv, Quiet
<1>8. LogInv'
  <2>1. /\ Len(wal.queue) \in Nat /\ Len(wal.batch) = 0 /\ Len(wal'.queue) = 0
        /\ Len(wal'.batch) = Len(wal.queue) /\ Len(log) \in Nat
    BY <1>1, <1>3 DEF StructInv, WalType, WriteTypes
  <2>2. Before' = Before /\ Before \in Nat
    BY <1>1, <2>1 DEF Before, StructInv, LogInv
  <2>3. \A i \in 1..Len(wal.queue) : Before + 0 + i = Before + i
    BY <2>2
  <2>4. \A i \in 1..Len(wal.queue) : log[Before + i] = wal.queue[i]
    <3>1. \A i \in 1..Len(wal.queue) : log[Before + Len(wal.batch) + i] = wal.queue[i]
      BY DEF StructInv, LogInv
    <3> QED
      BY <2>1, <2>3, <3>1
  <2>5. \A i \in 1..Len(wal'.batch) : log'[Before' + i] = wal'.batch[i]
    BY <1>1, <1>3, <2>2, <2>4
  <2>6. \A i \in 1..Len(wal'.queue) : FALSE
    BY <2>1
  <2>7. \A i \in DOMAIN log' : status'[log'[i]] \in
           IF i > Before' THEN {"applied"} ELSE {"acked", "rejected"}
    BY <1>1, <2>2 DEF StructInv, LogInv
  <2>8. Distinct(log)'
    BY <1>1 DEF StructInv, LogInv, Distinct
  <2> QED
    BY <2>2, <2>5, <2>6, <2>7, <2>8 DEF LogInv
<1>9. CalmInv' /\ BouncedInv'
  BY <1>1, NoneBounced, NoneTouched
<1> QED
  BY <1>5, <1>6, <1>7, <1>8, <1>9 DEF StructInv

(* The writes of the batch are answered: what is in the log before the      *)
(* queue is acknowledged or rejected then.                                  *)
LEMMA InBatch ==
    ASSUME StructInv
    PROVE  /\ \A i \in DOMAIN log : i > Before /\ i <= Before + Len(wal.batch) =>
                 i - Before \in 1..Len(wal.batch) /\ log[i] = wal.batch[i - Before]
           /\ \A i \in DOMAIN log : log[i] \in ToSet(wal.batch) =>
                 i > Before /\ i <= Before + Len(wal.batch)
           /\ \A w \in ToSet(wal.batch) : w \in Writes /\ status[w] = "applied"
           /\ Before \in Nat /\ Len(wal.batch) \in Nat /\ Len(wal.queue) \in Nat
           /\ Len(log) = Before + Len(wal.batch) + Len(wal.queue)
           /\ DOMAIN log = 1..Len(log)
<1>1. /\ Before \in Nat /\ Len(wal.batch) \in Nat /\ Len(wal.queue) \in Nat
      /\ DOMAIN wal.batch = 1..Len(wal.batch) /\ Len(log) \in Nat /\ DOMAIN log = 1..Len(log)
  BY DEF StructInv, LogInv, WalType, WriteTypes
<1>2. Len(log) = Before + Len(wal.batch) + Len(wal.queue)
  BY <1>1 DEF Before
<1>3. \A i \in 1..Len(wal.batch) :
        Before + i \in DOMAIN log /\ log[Before + i] = wal.batch[i] /\ Before + i > Before
  <2>1. \A x, y, z \in Nat : \A i \in 1..y : x + i \in 1..(x + y + z) /\ x + i > x
    OBVIOUS
  <2>2. \A i \in 1..Len(wal.batch) : Before + i \in 1..Len(log) /\ Before + i > Before
    BY <1>1, <1>2, <2>1
  <2> QED
    BY <1>1, <2>2 DEF StructInv, LogInv
<1>4. ASSUME NEW i \in DOMAIN log, i > Before, i <= Before + Len(wal.batch)
      PROVE  i - Before \in 1..Len(wal.batch) /\ log[i] = wal.batch[i - Before]
  <2>1. i - Before \in 1..Len(wal.batch) /\ Before + (i - Before) = i
    BY <1>1, <1>4
  <2> QED
    BY <1>3, <2>1
<1>5. ASSUME NEW i \in DOMAIN log, log[i] \in ToSet(wal.batch)
      PROVE  i > Before /\ i <= Before + Len(wal.batch)
  <2>1. PICK j \in 1..Len(wal.batch) : log[i] = wal.batch[j]
    BY <1>1, <1>5 DEF ToSet
  <2>2. i = Before + j
    BY <1>3, <2>1 DEF StructInv, LogInv, Distinct
  <2> QED
    BY <1>1, <2>1, <2>2
<1>6. ASSUME NEW w \in ToSet(wal.batch) PROVE w \in Writes /\ status[w] = "applied"
  <2>1. PICK j \in 1..Len(wal.batch) : w = wal.batch[j]
    BY <1>1 DEF ToSet
  <2>2. log[Before + j] = w /\ Before + j \in DOMAIN log /\ Before + j > Before
    BY <1>3, <2>1
  <2> QED
    BY <2>2 DEF StructInv, LogInv, WriteTypes
<1> QED
  BY <1>1, <1>2, <1>4, <1>5, <1>6

LEMMA GroupLandsLog ==
    ASSUME StructInv, GroupLands, log' = log, wal'.batch = <<>>, wal'.queue = wal.queue
    PROVE  /\ LogInv' /\ Before' = Before + Len(wal.batch)
           /\ status' \in [Writes -> Statuses]
           /\ \A w \in Writes : status'[w] = IF w \in ToSet(wal.batch) THEN "acked" ELSE status[w]
<1>1. /\ status' \in [Writes -> Statuses]
      /\ \A w \in Writes : status'[w] = IF w \in ToSet(wal.batch) THEN "acked" ELSE status[w]
  BY SomeBecome DEF GroupLands, Statuses
<1> DEFINE m == Len(wal.batch)
           n == Len(wal.queue)
<1>2. Before \in Nat /\ m \in Nat /\ n \in Nat /\ Len(log) = Before + m + n /\ DOMAIN log = 1..Len(log)
  BY InBatch
<1>3. Len(wal'.batch) = 0 /\ wal'.queue = wal.queue
  OBVIOUS
<1>4. Before' = Before + m
  BY <1>2, <1>3 DEF Before
<1>5. \A i \in 1..n : log[Before + m + i] = wal.queue[i]
  BY DEF StructInv, LogInv
<1>6. ASSUME NEW i \in DOMAIN log
      PROVE  status'[log[i]] \in IF i > Before + m THEN {"applied"} ELSE {"acked", "rejected"}
  <2>1. log[i] \in Writes
    BY DEF StructInv, WriteTypes
  <2>2. status[log[i]] \in IF i > Before THEN {"applied"} ELSE {"acked", "rejected"}
    BY DEF StructInv, LogInv
  <2>3. CASE i > Before /\ i <= Before + m
    <3>1. log[i] \in ToSet(wal.batch)
      <4>1. i - Before \in 1..m /\ log[i] = wal.batch[i - Before]
        BY <2>3, InBatch
      <4> QED
        BY <4>1 DEF ToSet, StructInv, WalType
    <3> QED
      BY <1>1, <1>2, <2>1, <2>3, <3>1
  <2>4. CASE ~ (i > Before /\ i <= Before + m)
    <3>1. log[i] \notin ToSet(wal.batch)
      BY <2>4, InBatch
    <3> QED
      BY <1>1, <1>2, <2>1, <2>2, <2>4, <3>1
  <2> QED
    BY <2>3, <2>4
<1> HIDE DEF m, n
<1>7. LogInv'
  <2>1. \A i \in 1..0 : FALSE
    OBVIOUS
  <2> QED
    BY <1>2, <1>3, <1>4, <1>5, <1>6, <2>1 DEF StructInv, LogInv, n
<1> QED
  BY <1>1, <1>4, <1>7 DEF m

(* The places of the second part of a sequence.                             *)
LEMMA Behind ==
    ASSUME NEW S, NEW l \in Seq(S), NEW m \in Seq(S)
    PROVE  /\ Len(l) \in Nat /\ Len(m) \in Nat /\ l \o m \in Seq(S)
           /\ Len(l \o m) = Len(l) + Len(m)
           /\ \A i \in 1..Len(l) : (l \o m)[i] = l[i]
           /\ \A i \in 1..Len(m) : (l \o m)[Len(l) + i] = m[i]
<1>1. /\ Len(l) \in Nat /\ Len(m) \in Nat /\ l \o m \in Seq(S)
      /\ Len(l \o m) = Len(l) + Len(m)
      /\ \A i \in 1..(Len(l) + Len(m)) : (l \o m)[i] = IF i <= Len(l) THEN l[i] ELSE m[i - Len(l)]
  BY ConcatProperties
<1>2. \A x, y \in Nat : /\ \A i \in 1..y : x + i \in 1..(x + y) /\ ~ (x + i <= x) /\ (x + i) - x = i
                       /\ \A i \in 1..x : i \in 1..(x + y) /\ i <= x
  OBVIOUS
<1>3. /\ \A i \in 1..Len(m) : Len(l) + i \in 1..(Len(l) + Len(m)) /\ ~ (Len(l) + i <= Len(l))
                             /\ (Len(l) + i) - Len(l) = i
      /\ \A i \in 1..Len(l) : i \in 1..(Len(l) + Len(m)) /\ i <= Len(l)
  BY <1>1, <1>2
<1> QED
  BY <1>1, <1>3

LEMMA WriteLandsStruct ==
    ASSUME StructInv, WriteLands
    PROVE  StructInv'
<1>1. /\ wal.batch # <<>> /\ ~ wal.landed /\ bounced = <<>>
      /\ disk' = [disk EXCEPT !.wal = @ \o wal.batch]
      /\ UNCHANGED <<policy, retried, store, bounced, synced, dirUnsynced,
                     recovery, writeDisabled, compaction, tmp, locked, compactions,
                     log, opened, tangled, failures, crashes>>
  BY DEF WriteLands, Microtasks, fileVars, recoveryVars, compactionVars, historyVars
<1>2. wal.batch \in Seq(Writes) /\ Len(wal.batch) \in Nat /\ Len(wal.batch) # 0 /\ wal.size \in Nat
      /\ disk \in Files /\ disk.wal \in Seq(Writes) /\ disk.snapshot \in Values
  BY <1>1 DEF StructInv, WalType, FileTypes, Files
<1>3. /\ disk' \in Files /\ disk'.wal = disk.wal \o wal.batch
      /\ Len(disk.wal) \in Nat /\ Len(disk'.wal) = Len(disk.wal) + Len(wal.batch)
      /\ \A i \in 1..Len(wal.batch) : disk'.wal[Len(disk.wal) + i] = wal.batch[i]
  <2>1. disk' = [snapshot |-> disk.snapshot, wal |-> disk.wal \o wal.batch]
    BY <1>1, <1>2 DEF Files
  <2>2. disk.wal \o wal.batch \in Seq(Writes)
    BY <1>2
  <2>3. /\ Len(disk.wal \o wal.batch) = Len(disk.wal) + Len(wal.batch)
        /\ \A i \in 1..Len(wal.batch) : (disk.wal \o wal.batch)[Len(disk.wal) + i] = wal.batch[i]
    <3> DEFINE l == disk.wal
               m == wal.batch
    <3>1. l \in Seq(Writes) /\ m \in Seq(Writes)
      BY <1>2
    <3> HIDE DEF l, m
    <3>2. Len(l \o m) = Len(l) + Len(m) /\ \A i \in 1..Len(m) : (l \o m)[Len(l) + i] = m[i]
      BY <3>1, Behind
    <3> QED
      BY <3>2 DEF l, m
  <2> QED
    BY <1>2, <2>1, <2>2, <2>3 DEF Files
<1>4. wal.size = Len(disk.wal) /\ recovery.pc = "idle" /\ ~ writeDisabled
  BY <1>1 DEF StructInv, SizeInv, RecoveryInv, Quiet
<1>5. FileTypes'
  BY <1>1, <1>3 DEF StructInv, FileTypes
<1>6. /\ wal'.size = wal.size + Len(wal.batch) /\ wal'.queue = wal.queue /\ wal'.group = wal.group
      /\ wal'.sealed = wal.sealed /\ wal'.closed = wal.closed /\ wal'.poisoned = wal.poisoned
  BY DEF WriteLands, StructInv, WalType
<1>7. LockInv' /\ RecoveryInv'
  <2>1. wal.queue = <<>> /\ wal'.batch = <<>> => Quiet'
    BY <1>6 DEF Quiet
  <2>2. compaction.pc \notin Renaming
    BY <1>1 DEF StructInv, RecoveryInv, Quiet
  <2> QED
    BY <1>1, <1>3, <1>4, <1>6, <2>1, <2>2 DEF StructInv, LockInv, RecoveryInv
<1>8. CASE /\ policy = "always" /\ UNCHANGED status
           /\ wal' = [wal EXCEPT !.size = @ + Len(wal.batch), !.landed = TRUE]
  <2>1. /\ wal' = [size |-> wal.size + Len(wal.batch), queue |-> wal.queue, group |-> wal.group,
                   batch |-> wal.batch, batchGroup |-> wal.batchGroup, landed |-> TRUE,
                   sealed |-> wal.sealed, closed |-> wal.closed, poisoned |-> wal.poisoned]
    BY <1>8 DEF StructInv, WalType
  <2>2. wal'.batch = wal.batch /\ wal'.batchGroup = wal.batchGroup /\ wal'.landed = TRUE
    BY <2>1
  <2>3. WalType'
    BY <1>2, <1>6, <2>1, <2>2 DEF StructInv, WalType
  <2>4. WriteTypes'
    BY <1>1, <1>8 DEF StructInv, WriteTypes
  <2>5. LogInv'
    BY <1>1, <1>6, <1>8, <2>2, LogKept DEF StructInv
  <2>6. SizeInv'
    <3>1. /\ wal'.size = Len(disk'.wal) /\ wal'.size - Len(wal'.batch) = Len(disk.wal)
          /\ Len(wal'.batch) <= wal'.size
      <4>1. \A x, y \in Nat : (x + y) - y = x /\ y <= x + y
        OBVIOUS
      <4>2. /\ wal'.size = Len(disk.wal) + Len(wal.batch) /\ Len(wal'.batch) = Len(wal.batch)
            /\ Len(disk'.wal) = Len(disk.wal) + Len(wal.batch)
        BY <1>3, <1>4, <1>6, <2>2
      <4> QED
        BY <1>2, <1>3, <4>1, <4>2
    <3> QED
      BY <1>1, <1>3, <1>8, <2>2, <3>1 DEF SizeInv
  <2>7. CalmInv' /\ BouncedInv'
    BY <1>1, <1>8, NoneBounced, NoneTouched
  <2> QED
    BY <1>5, <1>7, <2>3, <2>4, <2>5, <2>6, <2>7 DEF StructInv
<1>9. CASE /\ policy # "always" /\ GroupLands
           /\ wal' = [wal EXCEPT !.size = @ + Len(wal.batch), !.batch = <<>>,
                                 !.batchGroup = NoGroup]
  <2>1. /\ wal' = [size |-> wal.size + Len(wal.batch), queue |-> wal.queue, group |-> wal.group,
                   batch |-> <<>>, batchGroup |-> NoGroup, landed |-> wal.landed,
                   sealed |-> wal.sealed, closed |-> wal.closed, poisoned |-> wal.poisoned]
    BY <1>9 DEF StructInv, WalType
  <2>2. wal'.batch = <<>> /\ wal'.batchGroup = NoGroup /\ wal'.landed = wal.landed
    BY <2>1
  <2>3. WalType'
    BY <1>2, <1>6, <2>1, <2>2, NoGroupType DEF StructInv, WalType
  <2>4. /\ LogInv' /\ status' \in [Writes -> Statuses]
        /\ \A w \in Writes : status'[w] = IF w \in ToSet(wal.batch) THEN "acked" ELSE status[w]
    BY <1>1, <1>6, <1>9, <2>2, GroupLandsLog
  <2>5. WriteTypes'
    BY <1>1, <2>4 DEF StructInv, WriteTypes
  <2>6. SizeInv'
    BY <1>1, <1>2, <1>3, <1>4, <1>6, <2>2 DEF SizeInv
  <2>7. CalmInv' /\ BouncedInv'
    BY <1>1, <2>4, NoneBounced, NoneTouched
  <2> QED
    BY <1>5, <1>7, <2>3, <2>4, <2>5, <2>6, <2>7 DEF StructInv
<1> QED
  BY <1>8, <1>9 DEF WriteLands

LEMMA SyncLandsStruct ==
    ASSUME StructInv, SyncLands
    PROVE  StructInv'
<1>1. /\ wal.landed /\ bounced = <<>> /\ GroupLands
      /\ synced' = [synced EXCEPT !.wal = disk.wal]
      /\ UNCHANGED <<policy, retried, store, bounced, disk, dirUnsynced,
                     recovery, writeDisabled, compaction, tmp, locked, compactions,
                     log, opened, tangled, failures, crashes>>
  BY DEF SyncLands, Microtasks, fileVars, recoveryVars, compactionVars, historyVars
<1>2. /\ wal' = [size |-> wal.size, queue |-> wal.queue, group |-> wal.group,
                 batch |-> <<>>, batchGroup |-> NoGroup, landed |-> FALSE,
                 sealed |-> wal.sealed, closed |-> wal.closed, poisoned |-> wal.poisoned]
  BY DEF SyncLands, StructInv, WalType
<1>3. /\ wal'.batch = <<>> /\ wal'.batchGroup = NoGroup /\ wal'.landed = FALSE
      /\ wal'.size = wal.size /\ wal'.queue = wal.queue /\ wal'.group = wal.group
      /\ wal'.sealed = wal.sealed /\ wal'.closed = wal.closed /\ wal'.poisoned = wal.poisoned
  BY <1>2
<1>4. WalType'
  BY <1>2, <1>3, NoGroupType DEF StructInv, WalType
<1>5. /\ LogInv' /\ status' \in [Writes -> Statuses]
      /\ \A w \in Writes : status'[w] = IF w \in ToSet(wal.batch) THEN "acked" ELSE status[w]
  BY <1>1, <1>3, GroupLandsLog
<1>6. WriteTypes'
  BY <1>1, <1>5 DEF StructInv, WriteTypes
<1>7. FileTypes' /\ LockInv'
  BY <1>1, <1>3 DEF StructInv, FileTypes, LockInv, Files
<1>8. RecoveryInv' /\ SizeInv'
  <2>1. ~ Quiet
    BY <1>1 DEF StructInv, SizeInv, Quiet
  <2>2. Quiet' <=> wal.queue = <<>>
    BY <1>3 DEF Quiet
  <2> QED
    BY <1>1, <1>3, <2>1, <2>2 DEF StructInv, RecoveryInv, SizeInv
<1>9. CalmInv' /\ BouncedInv'
  BY <1>1, <1>5, NoneBounced, NoneTouched
<1> QED
  BY <1>4, <1>5, <1>6, <1>7, <1>8, <1>9 DEF StructInv

(* What is on its way to the log has not been answered.                     *)
LEMMA OnTheWay ==
    ASSUME StructInv
    PROVE  /\ \A i \in DOMAIN log : i > Before => log[i] \in ToSet(wal.batch \o wal.queue)
           /\ \A i \in DOMAIN log : log[i] \in ToSet(wal.batch \o wal.queue) => i > Before
           /\ \A w \in ToSet(wal.batch \o wal.queue) : w \in Writes /\ status[w] = "applied"
<1> DEFINE b == wal.batch
           q == wal.queue
<1>1. /\ b \in Seq(Writes) /\ q \in Seq(Writes) /\ Len(b) \in Nat /\ Len(q) \in Nat
      /\ Before \in Nat /\ Len(log) = Before + Len(b) + Len(q) /\ DOMAIN log = 1..Len(log)
  BY InBatch DEF StructInv, WalType
<1>2. /\ \A i \in 1..Len(b) : log[Before + i] = b[i]
      /\ \A i \in 1..Len(q) : log[Before + Len(b) + i] = q[i]
  BY DEF StructInv, LogInv
<1>3. \A i, j \in DOMAIN log : log[i] = log[j] => i = j
  BY DEF StructInv, LogInv, Distinct
<1>4. \A i \in DOMAIN log : i > Before => status[log[i]] = "applied" /\ log[i] \in Writes
  BY DEF StructInv, LogInv, WriteTypes
<1> HIDE DEF b, q
<1>5. /\ b \o q \in Seq(Writes) /\ Len(b \o q) = Len(b) + Len(q)
      /\ DOMAIN (b \o q) = 1..(Len(b) + Len(q))
      /\ \A i \in 1..Len(b) : (b \o q)[i] = b[i]
      /\ \A i \in 1..Len(q) : (b \o q)[Len(b) + i] = q[i]
  <2>1. /\ b \o q \in Seq(Writes) /\ Len(b \o q) = Len(b) + Len(q)
        /\ \A i \in 1..Len(b) : (b \o q)[i] = b[i]
        /\ \A i \in 1..Len(q) : (b \o q)[Len(b) + i] = q[i]
    BY <1>1, Behind
  <2> QED
    BY <1>1, <2>1
<1>6. ASSUME NEW i \in 1..(Len(b) + Len(q))
      PROVE  Before + i \in DOMAIN log /\ Before + i > Before /\ log[Before + i] = (b \o q)[i]
  <2>1. \A x, y, z \in Nat : \A n \in 1..(y + z) :
           /\ x + n \in 1..(x + y + z) /\ x + n > x
           /\ n \in 1..y \/ (n - y \in 1..z /\ y + (n - y) = n /\ x + y + (n - y) = x + n)
    OBVIOUS
  <2>2. /\ Before + i \in DOMAIN log /\ Before + i > Before
        /\ \/ i \in 1..Len(b)
           \/ /\ i - Len(b) \in 1..Len(q) /\ Len(b) + (i - Len(b)) = i
              /\ Before + Len(b) + (i - Len(b)) = Before + i
    BY <1>1, <2>1
  <2>3. CASE i \in 1..Len(b)
    BY <1>2, <1>5, <2>2, <2>3
  <2>4. CASE /\ i - Len(b) \in 1..Len(q) /\ Len(b) + (i - Len(b)) = i
             /\ Before + Len(b) + (i - Len(b)) = Before + i
    <3>1. log[Before + Len(b) + (i - Len(b))] = q[i - Len(b)]
      BY <1>2, <2>4
    <3>2. (b \o q)[Len(b) + (i - Len(b))] = q[i - Len(b)]
      BY <1>5, <2>4
    <3> QED
      BY <2>2, <2>4, <3>1, <3>2
  <2> QED
    BY <2>2, <2>3, <2>4
<1>7. ASSUME NEW i \in DOMAIN log, i > Before PROVE log[i] \in ToSet(b \o q)
  <2>1. i - Before \in 1..(Len(b) + Len(q)) /\ Before + (i - Before) = i
    <3>1. \A x, y, z \in Nat : \A n \in 1..(x + y + z) :
             n > x => n - x \in 1..(y + z) /\ x + (n - x) = n
      OBVIOUS
    <3> QED
      BY <1>1, <1>7, <3>1
  <2>2. log[i] = (b \o q)[i - Before]
    BY <1>6, <2>1
  <2> QED
    BY <1>5, <2>1, <2>2 DEF ToSet
<1>8. ASSUME NEW w \in ToSet(b \o q)
      PROVE  \E i \in DOMAIN log : i > Before /\ log[i] = w
  <2>1. PICK j \in 1..(Len(b) + Len(q)) : w = (b \o q)[j]
    BY <1>5 DEF ToSet
  <2> QED
    BY <1>6, <2>1
<1>9. ASSUME NEW i \in DOMAIN log, log[i] \in ToSet(b \o q) PROVE i > Before
  <2>1. PICK j \in DOMAIN log : j > Before /\ log[j] = log[i]
    BY <1>8, <1>9
  <2>2. i = j
    BY <1>3, <2>1
  <2> QED
    BY <2>1, <2>2
<1>10. \A w \in ToSet(b \o q) : w \in Writes /\ status[w] = "applied"
  BY <1>4, <1>8
<1> QED
  BY <1>7, <1>9, <1>10 DEF b, q

LEMMA FlushFailsStruct ==
    ASSUME StructInv, FlushFails
    PROVE  StructInv'
<1>1. /\ wal.batch # <<>> /\ bounced = <<>>
      /\ Becomes(ToSet(wal.batch \o wal.queue), "rejected") /\ store' = RolledBack
      /\ UNCHANGED <<policy, retried, bounced, synced, dirUnsynced, writeDisabled,
                     compaction, tmp, locked, compactions, log, opened, tangled, crashes>>
  BY DEF FlushFails, Microtasks, compactionVars, historyVars
<1>2. PICK written \in IF wal.landed THEN {0} ELSE 0..Len(wal.batch) :
          /\ disk' = [disk EXCEPT !.wal = @ \o SubSeq(wal.batch, 1, written)]
          /\ recovery' = [pc |-> "truncate",
                          at |-> IF wal.landed THEN wal.size - Len(wal.batch) ELSE wal.size]
          /\ wal' = [wal EXCEPT !.poisoned = TRUE, !.size = @ + written, !.landed = FALSE,
                                !.batch = <<>>, !.batchGroup = NoGroup,
                                !.queue = <<>>, !.group = NoGroup]
  BY DEF FlushFails
<1>3. /\ wal.batch \in Seq(Writes) /\ Len(wal.batch) \in Nat /\ wal.size \in Nat
      /\ disk \in Files /\ disk.wal \in Seq(Writes) /\ Len(disk.wal) \in Nat
      /\ written \in 0..Len(wal.batch) /\ written \in Nat
  <2>1. /\ wal.batch \in Seq(Writes) /\ Len(wal.batch) \in Nat /\ wal.size \in Nat
        /\ disk \in Files /\ disk.wal \in Seq(Writes) /\ Len(disk.wal) \in Nat
    BY DEF StructInv, WalType, FileTypes, Files
  <2> QED
    BY <1>2, <2>1
<1>4. wal.size = Len(disk.wal) /\ recovery.pc = "idle" /\ ~ writeDisabled
  BY <1>1 DEF StructInv, SizeInv, RecoveryInv, Quiet
<1> DEFINE part == SubSeq(wal.batch, 1, written)
<1>5. part \in Seq(Writes) /\ Len(part) = written
  <2>1. /\ SubSeq(wal.batch, 0 + 1, written) \in Seq(Writes)
        /\ Len(SubSeq(wal.batch, 0 + 1, written)) = written - 0
    BY <1>3, CutProperties
  <2> QED
    BY <1>3, <2>1
<1>6. /\ disk' = [snapshot |-> disk.snapshot, wal |-> disk.wal \o part]
      /\ disk' \in Files /\ disk'.wal = disk.wal \o part
      /\ Len(disk'.wal) = Len(disk.wal) + written
  <2>1. disk' = [snapshot |-> disk.snapshot, wal |-> disk.wal \o part]
    BY <1>2, <1>3 DEF Files
  <2> HIDE DEF part
  <2>2. disk.wal \o part \in Seq(Writes) /\ Len(disk.wal \o part) = Len(disk.wal) + written
    BY <1>3, <1>5, ConcatProperties
  <2> QED
    BY <1>3, <2>1, <2>2 DEF Files
<1> HIDE DEF part
<1>7. /\ wal' = [size |-> wal.size + written, queue |-> <<>>, group |-> NoGroup,
                 batch |-> <<>>, batchGroup |-> NoGroup, landed |-> FALSE,
                 sealed |-> wal.sealed, closed |-> wal.closed, poisoned |-> TRUE]
  BY <1>2 DEF StructInv, WalType
<1>8. /\ wal'.batch = <<>> /\ wal'.batchGroup = NoGroup /\ wal'.landed = FALSE
      /\ wal'.queue = <<>> /\ wal'.group = NoGroup /\ wal'.size = wal.size + written
      /\ wal'.sealed = wal.sealed /\ wal'.closed = wal.closed /\ wal'.poisoned = TRUE
  BY <1>7
<1>9. WalType'
  BY <1>3, <1>7, <1>8, NoGroupType DEF StructInv, WalType
<1>10. /\ status' \in [Writes -> Statuses]
       /\ \A w \in Writes : status'[w] =
             IF w \in ToSet(wal.batch \o wal.queue) THEN "rejected" ELSE status[w]
  BY <1>1, SomeBecome DEF Statuses
<1>11. store' \in Values
  <2>1. /\ store \in [Keys -> Entries] /\ wal.group \in [KeysOf(wal.queue) -> Entries]
        /\ wal.batchGroup \in [KeysOf(wal.batch) -> Entries]
    BY DEF StructInv, WriteTypes, WalType, Values
  <2>2. \A k \in Keys : RolledBack[k] \in Entries
    BY <2>1 DEF RolledBack
  <2>3. RolledBack = [k \in Keys |-> RolledBack[k]]
    BY DEF RolledBack
  <2> QED
    BY <1>1, <2>2, <2>3 DEF Values
<1>12. WriteTypes'
  BY <1>1, <1>10, <1>11 DEF StructInv, WriteTypes
<1>13. recovery'.pc = "truncate" /\ recovery'.at \in Nat /\ recovery'.at <= Len(disk.wal)
       /\ recovery' \in [pc : {"idle", "truncate", "refresh"}, at : Nat]
  <2>1. (IF wal.landed THEN wal.size - Len(wal.batch) ELSE wal.size) \in Nat
        /\ (IF wal.landed THEN wal.size - Len(wal.batch) ELSE wal.size) <= Len(disk.wal)
    <3>1. CASE wal.landed
      <4>1. Len(wal.batch) <= wal.size
        BY <3>1 DEF StructInv, SizeInv
      <4>2. \A x, y, z \in Nat : x = z /\ y <= x => x - y \in Nat /\ x - y <= z
        OBVIOUS
      <4>3. wal.size - Len(wal.batch) \in Nat /\ wal.size - Len(wal.batch) <= Len(disk.wal)
        BY <1>3, <1>4, <4>1, <4>2
      <4> QED
        BY <3>1, <4>3
    <3>2. CASE ~ wal.landed
      BY <1>3, <1>4, <3>2
    <3> QED
      BY <3>1, <3>2
  <2> QED
    BY <1>2, <2>1
<1>14. FileTypes' /\ LockInv'
  BY <1>1, <1>6, <1>8, <1>13 DEF StructInv, FileTypes, LockInv
<1>15. RecoveryInv' /\ SizeInv'
  <2>1. compaction.pc \notin Renaming
    BY <1>1 DEF StructInv, RecoveryInv, Quiet
  <2>2. recovery'.at <= Len(disk'.wal)
    BY <1>3, <1>6, <1>13
  <2> QED
    BY <1>1, <1>3, <1>4, <1>6, <1>8, <1>13, <2>1, <2>2
       DEF StructInv, RecoveryInv, SizeInv, Quiet
<1>16. LogInv'
  <2>1. Before' = Len(log) /\ Len(log) \in Nat /\ Len(wal'.batch) = 0 /\ Len(wal'.queue) = 0
    BY <1>1, <1>8, InBatch DEF Before
  <2>2. ASSUME NEW i \in DOMAIN log PROVE status'[log[i]] \in {"acked", "rejected"}
    <3>1. log[i] \in Writes
      BY DEF StructInv, WriteTypes
    <3>2. CASE i > Before
      BY <1>10, <3>1, <3>2, OnTheWay
    <3>3. CASE ~ (i > Before)
      <4>1. status[log[i]] \in {"acked", "rejected"}
        BY <3>3 DEF StructInv, LogInv
      <4> QED
        BY <1>10, <3>1, <4>1
    <3> QED
      BY <3>2, <3>3
  <2>3. \A i \in DOMAIN log : ~ (i > Len(log))
    BY InBatch
  <2> QED
    BY <1>1, <2>1, <2>2, <2>3 DEF LogInv, StructInv
<1>17. CalmInv' /\ BouncedInv'
  BY <1>1, <1>10, NoneBounced, NoneTouched
<1> QED
  BY <1>9, <1>12, <1>14, <1>15, <1>16, <1>17 DEF StructInv

LEMMA TruncateStruct ==
    ASSUME StructInv, Truncate
    PROVE  StructInv'
<1>1. /\ recovery.pc = "truncate" /\ bounced = <<>>
      /\ UNCHANGED <<policy, status, retried, store, bounced, wal, synced, dirUnsynced,
                     compaction, tmp, locked, compactions, log, opened, tangled, crashes>>
  BY DEF Truncate, Microtasks, writeVars, compactionVars, historyVars
<1>2. Quiet /\ Quiet' /\ recovery.at \in Nat /\ recovery.at <= Len(disk.wal) /\ disk \in Files
      /\ disk.wal \in Seq(Writes) /\ Len(disk.wal) \in Nat
  BY <1>1 DEF StructInv, RecoveryInv, FileTypes, Files, Quiet
<1>3. ~ wal.landed
  BY <1>2 DEF StructInv, SizeInv, Quiet
<1>4. WalType'
  BY <1>1, WalKept DEF StructInv
<1>5. WriteTypes' /\ LockInv' /\ CalmInv' /\ BouncedInv'
  BY <1>1 DEF StructInv, WriteTypes, LockInv, CalmInv, BouncedInv
<1>6. LogInv'
  BY <1>1, LogKept DEF StructInv
<1>7. CASE /\ disk' = IF recovery.at <= Len(disk.wal)
                      THEN [disk EXCEPT !.wal = SubSeq(@, 1, recovery.at)] ELSE disk
           /\ recovery' = [recovery EXCEPT !.pc = "refresh"]
           /\ UNCHANGED writeDisabled
  <2>1. disk' = [snapshot |-> disk.snapshot, wal |-> SubSeq(disk.wal, 1, recovery.at)]
    BY <1>2, <1>7 DEF Files
  <2>2. SubSeq(disk.wal, 1, recovery.at) \in Seq(Writes)
    <3>1. SubSeq(disk.wal, 0 + 1, recovery.at) \in Seq(Writes)
      BY <1>2, CutProperties
    <3> QED
      BY <3>1
  <2>3. disk' \in Files
    BY <1>2, <2>1, <2>2 DEF Files
  <2>4. recovery' = [pc |-> "refresh", at |-> recovery.at]
    BY <1>7 DEF StructInv, FileTypes
  <2>5. FileTypes'
    BY <1>1, <1>2, <1>7, <2>3, <2>4 DEF StructInv, FileTypes
  <2>6. RecoveryInv' /\ SizeInv'
    BY <1>1, <1>2, <1>3, <1>7, <2>4 DEF StructInv, RecoveryInv, SizeInv
  <2> QED
    BY <1>4, <1>5, <1>6, <2>5, <2>6 DEF StructInv
<1>8. CASE writeDisabled' = TRUE /\ recovery' = NoRecovery /\ UNCHANGED disk
  <2>1. FileTypes'
    BY <1>1, <1>8 DEF StructInv, FileTypes, NoRecovery
  <2>2. RecoveryInv' /\ SizeInv'
    BY <1>1, <1>2, <1>3, <1>8 DEF StructInv, RecoveryInv, SizeInv, NoRecovery
  <2> QED
    BY <1>4, <1>5, <1>6, <2>1, <2>2 DEF StructInv
<1> QED
  BY <1>7, <1>8 DEF Truncate

LEMMA RefreshSizeStruct ==
    ASSUME StructInv, RefreshSize
    PROVE  StructInv'
<1>1. /\ recovery.pc = "refresh" /\ bounced = <<>> /\ recovery' = NoRecovery
      /\ UNCHANGED <<policy, status, retried, store, bounced, disk, synced, dirUnsynced,
                     writeDisabled, compaction, tmp, locked, compactions, log, opened,
                     tangled, failures, crashes>>
  BY DEF RefreshSize, Microtasks, writeVars, fileVars, compactionVars, historyVars
<1>2. /\ wal' = [size |-> IF wal.closed THEN wal.size ELSE Len(disk.wal),
                 queue |-> wal.queue, group |-> wal.group,
                 batch |-> wal.batch, batchGroup |-> wal.batchGroup, landed |-> wal.landed,
                 sealed |-> wal.sealed, closed |-> wal.closed, poisoned |-> FALSE]
  BY DEF RefreshSize, StructInv, WalType
<1>3. /\ wal'.size = IF wal.closed THEN wal.size ELSE Len(disk.wal)
      /\ wal'.queue = wal.queue /\ wal'.group = wal.group
      /\ wal'.batch = wal.batch /\ wal'.batchGroup = wal.batchGroup /\ wal'.landed = wal.landed
      /\ wal'.sealed = wal.sealed /\ wal'.closed = wal.closed /\ wal'.poisoned = FALSE
  BY <1>2
<1>4. Len(disk.wal) \in Nat
  BY DEF StructInv, FileTypes, Files
<1>5. WalType'
  BY <1>2, <1>3, <1>4 DEF StructInv, WalType
<1>6. Quiet /\ Quiet' /\ ~ wal.landed
  BY <1>1, <1>3 DEF StructInv, RecoveryInv, SizeInv, Quiet
<1>7. WriteTypes' /\ LockInv' /\ CalmInv' /\ BouncedInv'
  BY <1>1, <1>3 DEF StructInv, WriteTypes, LockInv, CalmInv, BouncedInv
<1>8. FileTypes'
  BY <1>1 DEF StructInv, FileTypes, NoRecovery
<1>9. LogInv'
  BY <1>1, <1>3, LogKept DEF StructInv
<1>10. RecoveryInv' /\ SizeInv'
  BY <1>1, <1>3, <1>6 DEF StructInv, RecoveryInv, SizeInv, NoRecovery
<1> QED
  BY <1>5, <1>7, <1>8, <1>9, <1>10 DEF StructInv

(* A step of a compaction leaves the writes and the log's groups alone.     *)
Compactions == [pc : {"idle", "drain", "swap"} \cup Copying \cup Renaming,
                base : Nat, copied : Nat]

LEMMA CompactionKeeps ==
    ASSUME StructInv, bounced = <<>>,
           UNCHANGED <<policy, status, retried, store, bounced, recovery, writeDisabled,
                       log, opened, tangled>>,
           wal'.queue = wal.queue, wal'.batch = wal.batch,
           disk' \in Files, synced' \in Files, tmp' \in Files, compaction' \in Compactions,
           locked' \in BOOLEAN, dirUnsynced' \in BOOLEAN
    PROVE  WriteTypes' /\ FileTypes' /\ LogInv' /\ BouncedInv'
<1>1. WriteTypes'
  BY DEF StructInv, WriteTypes
<1>2. FileTypes'
  BY DEF StructInv, FileTypes, Compactions
<1>3. LogInv'
  BY LogKept DEF StructInv
<1>4. BouncedInv'
  BY NoneBounced
<1> QED
  BY <1>1, <1>2, <1>3, <1>4

LEMMA FilesTyped ==
    ASSUME StructInv
    PROVE  /\ disk \in Files /\ synced \in Files /\ tmp \in Files /\ compaction \in Compactions
           /\ disk.wal \in Seq(Writes) /\ synced.wal \in Seq(Writes) /\ tmp.wal \in Seq(Writes)
           /\ disk.snapshot \in Values /\ synced.snapshot \in Values /\ tmp.snapshot \in Values
           /\ compaction.base \in Nat /\ compaction.copied \in Nat
           /\ locked \in BOOLEAN /\ dirUnsynced \in BOOLEAN
           /\ Len(disk.wal) \in Nat /\ Len(synced.wal) \in Nat /\ Len(tmp.wal) \in Nat
BY DEF StructInv, FileTypes, Files, Compactions

(* A freshly opened log.                                                    *)
LEMMA OpenWalType ==
    ASSUME NEW n \in Nat, wal' = OpenWal(n)
    PROVE  /\ WalType' /\ Quiet' /\ wal'.size = n /\ wal'.queue = <<>> /\ wal'.batch = <<>>
           /\ wal'.group = NoGroup /\ wal'.batchGroup = NoGroup
           /\ wal'.landed = FALSE /\ wal'.sealed = FALSE /\ wal'.closed = FALSE
           /\ wal'.poisoned = FALSE
<1>1. /\ wal'.size = n /\ wal'.queue = <<>> /\ wal'.batch = <<>>
      /\ wal'.group = NoGroup /\ wal'.batchGroup = NoGroup
      /\ wal'.landed = FALSE /\ wal'.sealed = FALSE /\ wal'.closed = FALSE
      /\ wal'.poisoned = FALSE
  BY DEF OpenWal
<1>2. wal' = [size |-> wal'.size, queue |-> wal'.queue, group |-> wal'.group,
              batch |-> wal'.batch, batchGroup |-> wal'.batchGroup, landed |-> wal'.landed,
              sealed |-> wal'.sealed, closed |-> wal'.closed, poisoned |-> wal'.poisoned]
  BY DEF OpenWal
<1>3. WalType'
  <2>1. <<>> \in Seq(Writes)
    OBVIOUS
  <2>2. wal'.group \in [KeysOf(wal'.queue) -> Entries] /\ wal'.batchGroup \in [KeysOf(wal'.batch) -> Entries]
    BY <1>1, NoGroupType
  <2>3. /\ wal'.size \in Nat /\ wal'.queue \in Seq(Writes) /\ wal'.batch \in Seq(Writes)
        /\ wal'.landed \in BOOLEAN /\ wal'.sealed \in BOOLEAN
        /\ wal'.closed \in BOOLEAN /\ wal'.poisoned \in BOOLEAN
    BY <1>1, <2>1
  <2> QED
    BY <1>2, <2>2, <2>3 DEF WalType
<1> QED
  BY <1>1, <1>3 DEF Quiet

LEMMA NoFilesType == NoFiles \in Files /\ NoValues \in Values /\ NoFiles.wal = <<>>
BY DEF NoFiles, Files, NoValues, Values, Entries

LEMMA NoCompactionType == NoCompaction \in Compactions /\ NoCompaction.pc = "idle"
BY DEF NoCompaction, Compactions

LEMMA CompactStruct ==
    ASSUME ~ ManualCompaction, StructInv, Compact
    PROVE  StructInv'
<1>1. /\ compaction.pc = "idle" /\ ~ wal.closed
      /\ wal.poisoned \/ (recovery.pc = "idle" /\ ~ writeDisabled)
      /\ compaction' = [compaction EXCEPT !.pc = "fence"]
      /\ UNCHANGED <<policy, status, retried, store, bounced, wal, disk, synced, dirUnsynced,
                     recovery, writeDisabled, tmp, locked, log, opened, tangled>>
  BY DEF Compact, keptByCompaction, writeVars, fileVars, recoveryVars, historyVars
<1>2. bounced = <<>>
  BY <1>1 DEF Compact, Microtasks
<1>3. ~ locked
  BY <1>1 DEF StructInv, LockInv, Renaming
<1>4. compaction' \in Compactions /\ compaction'.pc = "fence"
  BY <1>1, FilesTyped DEF Compactions, Copying
<1>5. WalType'
  BY <1>1, WalKept DEF StructInv
<1>6. WriteTypes' /\ FileTypes' /\ LogInv' /\ BouncedInv'
  BY <1>1, <1>2, <1>4, FilesTyped, CompactionKeeps
<1>7. LockInv' /\ RecoveryInv' /\ SizeInv'
  BY <1>1, <1>3, <1>4 DEF StructInv, LockInv, RecoveryInv, SizeInv, Quiet, Copying, Renaming
<1>8. CalmInv'
  BY <1>4 DEF CalmInv
<1> QED
  BY <1>5, <1>6, <1>7, <1>8 DEF StructInv

LEMMA FenceStruct ==
    ASSUME StructInv, Fence
    PROVE  StructInv'
<1>1. /\ compaction.pc = "fence" /\ bounced = <<>> /\ ~ wal.poisoned
      /\ compaction' = [pc |-> "snapshot", base |-> wal.size, copied |-> wal.size]
      /\ UNCHANGED <<policy, status, retried, store, bounced, wal, disk, synced, dirUnsynced,
                     recovery, writeDisabled, tmp, locked, log, opened, tangled>>
  BY DEF Fence, Flushed, Microtasks, keptByCompaction, writeVars, fileVars, recoveryVars, historyVars
<1>2. compaction' \in Compactions /\ compaction'.pc = "snapshot"
  BY <1>1 DEF Compactions, Copying, StructInv, WalType
<1>3. WalType'
  BY <1>1, WalKept DEF StructInv
<1>4. WriteTypes' /\ FileTypes' /\ LogInv' /\ BouncedInv'
  BY <1>1, <1>2, FilesTyped, CompactionKeeps
<1>5. LockInv' /\ RecoveryInv' /\ SizeInv'
  BY <1>1, <1>2 DEF StructInv, LockInv, RecoveryInv, SizeInv, Quiet, Copying, Renaming
<1>6. \A w \in Writes : status[w] # "bounced"
  BY <1>1 DEF StructInv, BouncedInv
<1>7. ~ locked /\ recovery.pc = "idle"
  BY <1>1 DEF StructInv, LockInv, RecoveryInv, Copying, Renaming
<1>8. \A w \in Writes : status[w] # "retry"
  BY <1>7 DEF Fence, Microtasks
<1>9. CalmInv'
  BY <1>1, <1>6, <1>8 DEF CalmInv
<1> QED
  BY <1>3, <1>4, <1>5, <1>9 DEF StructInv

LEMMA WriteSnapshotStruct ==
    ASSUME StructInv, WriteSnapshot
    PROVE  StructInv'
<1>1. /\ compaction.pc = "snapshot" /\ bounced = <<>>
      /\ tmp' = [snapshot |-> store, wal |-> <<>>]
      /\ compaction' = [compaction EXCEPT !.pc = "copy"]
      /\ UNCHANGED <<policy, status, retried, store, bounced, wal, disk, synced, dirUnsynced,
                     recovery, writeDisabled, locked, log, opened, tangled>>
  BY DEF WriteSnapshot, Microtasks, keptByCompaction, writeVars, fileVars, recoveryVars, historyVars
<1>2. compaction' \in Compactions /\ compaction'.pc = "copy"
  BY <1>1, FilesTyped DEF Compactions, Copying
<1>3. tmp' \in Files
  BY <1>1 DEF Files, StructInv, WriteTypes
<1>4. WalType'
  BY <1>1, WalKept DEF StructInv
<1>5. WriteTypes' /\ FileTypes' /\ LogInv' /\ BouncedInv'
  BY <1>1, <1>2, <1>3, FilesTyped, CompactionKeeps
<1>6. LockInv' /\ RecoveryInv' /\ SizeInv' /\ CalmInv'
  BY <1>1, <1>2 DEF StructInv, LockInv, RecoveryInv, SizeInv, CalmInv, Quiet, Copying, Renaming
<1> QED
  BY <1>4, <1>5, <1>6 DEF StructInv

(* The copied frames are in the file.                                       *)
LEMMA CopyTailType ==
    ASSUME StructInv, NEW next \in {"copy", "renameSnapshot"}, CopyTail(next),
           compaction.copied <= Len(disk.wal), wal.size = Len(disk.wal)
    PROVE  /\ tmp' = [snapshot |-> tmp.snapshot,
                      wal |-> tmp.wal \o SubSeq(disk.wal, compaction.copied + 1, Len(disk.wal))]
           /\ tmp' \in Files
           /\ compaction' = [pc |-> next, base |-> compaction.base, copied |-> Len(disk.wal)]
           /\ compaction' \in Compactions
<1> DEFINE tail == SubSeq(disk.wal, compaction.copied + 1, Len(disk.wal))
<1>1. tail \in Seq(Writes)
  BY FilesTyped, CutProperties
<1>2. tmp' = [tmp EXCEPT !.wal = @ \o tail]
  BY DEF CopyTail
<1> HIDE DEF tail
<1>3. tmp' = [snapshot |-> tmp.snapshot, wal |-> tmp.wal \o tail]
  BY <1>2, FilesTyped DEF Files
<1>4. tmp' \in Files
  BY <1>1, <1>3, FilesTyped DEF Files
<1>5. compaction' = [pc |-> next, base |-> compaction.base, copied |-> Len(disk.wal)]
  BY FilesTyped DEF CopyTail, Compactions
<1>6. compaction' \in Compactions
  BY <1>5, FilesTyped DEF Compactions, Copying, Renaming
<1> QED
  BY <1>3, <1>4, <1>5, <1>6 DEF tail

LEMMA SealStruct ==
    ASSUME StructInv, Seal
    PROVE  StructInv'
<1>1. /\ compaction.pc = "copy" /\ bounced = <<>> /\ locked' = TRUE
      /\ compaction' = [compaction EXCEPT !.pc = "drain"]
      /\ UNCHANGED <<policy, status, retried, store, bounced, disk, synced, dirUnsynced,
                     recovery, writeDisabled, tmp, log, opened, tangled>>
  BY DEF Seal, Microtasks, keptByCompaction, writeVars, fileVars, recoveryVars, historyVars
<1>2. /\ wal' = [size |-> wal.size, queue |-> wal.queue, group |-> wal.group,
                 batch |-> wal.batch, batchGroup |-> wal.batchGroup, landed |-> wal.landed,
                 sealed |-> TRUE, closed |-> wal.closed, poisoned |-> wal.poisoned]
  BY DEF Seal, StructInv, WalType
<1>3. /\ wal'.size = wal.size /\ wal'.queue = wal.queue /\ wal'.group = wal.group
      /\ wal'.batch = wal.batch /\ wal'.batchGroup = wal.batchGroup /\ wal'.landed = wal.landed
      /\ wal'.sealed = TRUE /\ wal'.closed = wal.closed /\ wal'.poisoned = wal.poisoned
  BY <1>2
<1>4. compaction' \in Compactions /\ compaction'.pc = "drain"
  BY <1>1, FilesTyped DEF Compactions
<1>5. WalType'
  BY <1>2, <1>3 DEF StructInv, WalType
<1>6. WriteTypes' /\ FileTypes' /\ LogInv' /\ BouncedInv'
  BY <1>1, <1>3, <1>4, FilesTyped, CompactionKeeps
<1>7. LockInv' /\ RecoveryInv' /\ SizeInv' /\ CalmInv'
  BY <1>1, <1>3, <1>4
     DEF StructInv, LockInv, RecoveryInv, SizeInv, CalmInv, Quiet, Copying, Renaming
<1> QED
  BY <1>5, <1>6, <1>7 DEF StructInv

LEMMA RenameSnapshotStruct ==
    ASSUME StructInv, RenameSnapshot
    PROVE  StructInv'
<1>1. /\ compaction.pc = "renameSnapshot" /\ bounced = <<>>
      /\ disk' = [disk EXCEPT !.snapshot = tmp.snapshot]
      /\ compaction' = [compaction EXCEPT !.pc = "syncSnapshotName"]
      /\ UNCHANGED <<policy, status, retried, store, bounced, wal, synced, dirUnsynced,
                     recovery, writeDisabled, tmp, locked, log, opened, tangled>>
  BY DEF RenameSnapshot, Microtasks, keptByCompaction, writeVars, recoveryVars, historyVars
<1>2. compaction' \in Compactions /\ compaction'.pc = "syncSnapshotName"
  BY <1>1, FilesTyped DEF Compactions, Renaming
<1>3. disk' \in Files /\ disk'.wal = disk.wal
  BY <1>1, FilesTyped DEF Files
<1>4. WalType'
  BY <1>1, WalKept DEF StructInv
<1>5. WriteTypes' /\ FileTypes' /\ LogInv' /\ BouncedInv'
  BY <1>1, <1>2, <1>3, FilesTyped, CompactionKeeps
<1>6. LockInv' /\ RecoveryInv' /\ SizeInv' /\ CalmInv'
  BY <1>1, <1>2, <1>3
     DEF StructInv, LockInv, RecoveryInv, SizeInv, CalmInv, Quiet, Copying, Renaming
<1> QED
  BY <1>4, <1>5, <1>6 DEF StructInv

LEMMA SyncSnapshotNameStruct ==
    ASSUME StructInv, SyncSnapshotName
    PROVE  StructInv'
<1>1. /\ compaction.pc = "syncSnapshotName" /\ bounced = <<>>
      /\ synced' = [synced EXCEPT !.snapshot = disk.snapshot]
      /\ compaction' = [compaction EXCEPT !.pc = "renameLog"]
      /\ UNCHANGED <<policy, status, retried, store, bounced, wal, disk, dirUnsynced,
                     recovery, writeDisabled, tmp, locked, log, opened, tangled>>
  BY DEF SyncSnapshotName, Microtasks, keptByCompaction, writeVars, recoveryVars, historyVars
<1>2. compaction' \in Compactions /\ compaction'.pc = "renameLog"
  BY <1>1, FilesTyped DEF Compactions, Renaming
<1>3. synced' \in Files
  BY <1>1, FilesTyped DEF Files
<1>4. WalType'
  BY <1>1, WalKept DEF StructInv
<1>5. WriteTypes' /\ FileTypes' /\ LogInv' /\ BouncedInv'
  BY <1>1, <1>2, <1>3, FilesTyped, CompactionKeeps
<1>6. LockInv' /\ RecoveryInv' /\ SizeInv' /\ CalmInv'
  BY <1>1, <1>2
     DEF StructInv, LockInv, RecoveryInv, SizeInv, CalmInv, Quiet, Copying, Renaming
<1> QED
  BY <1>4, <1>5, <1>6 DEF StructInv

LEMMA RenameLogStruct ==
    ASSUME StructInv, RenameLog
    PROVE  StructInv'
<1>1. /\ compaction.pc = "renameLog" /\ bounced = <<>>
      /\ disk' = [disk EXCEPT !.wal = tmp.wal]
      /\ compaction' = [compaction EXCEPT !.pc = "syncLogName"]
      /\ UNCHANGED <<policy, status, retried, store, bounced, wal, synced, dirUnsynced,
                     recovery, writeDisabled, tmp, locked, log, opened, tangled>>
  BY DEF RenameLog, Microtasks, keptByCompaction, writeVars, recoveryVars, historyVars
<1>2. compaction' \in Compactions /\ compaction'.pc = "syncLogName"
  BY <1>1, FilesTyped DEF Compactions, Renaming
<1>3. disk' \in Files
  BY <1>1, FilesTyped DEF Files
<1>4. WalType'
  BY <1>1, WalKept DEF StructInv
<1>5. WriteTypes' /\ FileTypes' /\ LogInv' /\ BouncedInv'
  BY <1>1, <1>2, <1>3, FilesTyped, CompactionKeeps
<1>6. Quiet /\ wal.closed /\ recovery.pc = "idle"
  BY <1>1 DEF StructInv, LockInv, RecoveryInv, Renaming
<1>7. LockInv' /\ RecoveryInv' /\ SizeInv' /\ CalmInv'
  BY <1>1, <1>2, <1>6
     DEF StructInv, LockInv, RecoveryInv, SizeInv, CalmInv, Quiet, Copying, Renaming
<1> QED
  BY <1>4, <1>5, <1>7 DEF StructInv

LEMMA SyncLogNameStruct ==
    ASSUME StructInv, SyncLogName
    PROVE  StructInv'
<1>1. /\ compaction.pc = "syncLogName" /\ bounced = <<>>
      /\ synced' = [synced EXCEPT !.wal = disk.wal]
      /\ wal' = OpenWal(Len(disk.wal)) /\ locked' = FALSE
      /\ compaction' = NoCompaction /\ tmp' = NoFiles
      /\ UNCHANGED <<policy, status, retried, store, bounced, disk, dirUnsynced,
                     recovery, writeDisabled, log, opened, tangled>>
  BY DEF SyncLogName, CompactionOver, Microtasks, keptByCompaction, writeVars, recoveryVars, historyVars
<1>2. synced' \in Files
  BY <1>1, FilesTyped DEF Files
<1>3. /\ WalType' /\ Quiet' /\ wal'.size = Len(disk.wal) /\ wal'.queue = <<>> /\ wal'.batch = <<>>
      /\ wal'.landed = FALSE /\ wal'.sealed = FALSE /\ wal'.closed = FALSE
      /\ wal'.poisoned = FALSE
  BY <1>1, FilesTyped, OpenWalType
<1>4. Quiet /\ recovery.pc = "idle"
  BY <1>1 DEF StructInv, RecoveryInv, Renaming
<1>5. WriteTypes' /\ FileTypes' /\ LogInv' /\ BouncedInv'
  BY <1>1, <1>2, <1>3, <1>4, FilesTyped, NoFilesType, NoCompactionType, CompactionKeeps DEF Quiet
<1>6. LockInv' /\ RecoveryInv' /\ SizeInv' /\ CalmInv'
  BY <1>1, <1>3, <1>4, NoCompactionType
     DEF LockInv, RecoveryInv, SizeInv, CalmInv, Copying, Renaming
<1> QED
  BY <1>3, <1>5, <1>6 DEF StructInv

LEMMA CompactionFailsStruct ==
    ASSUME StructInv, CompactionFails
    PROVE  StructInv'
<1>1. /\ compaction.pc \in Copying /\ bounced = <<>>
      /\ compaction' = NoCompaction /\ tmp' = NoFiles
      /\ UNCHANGED <<policy, status, retried, store, bounced, wal, disk, synced, dirUnsynced,
                     recovery, writeDisabled, locked, log, opened, tangled>>
  BY DEF CompactionFails, CompactionOver, Microtasks, keptByCompaction, writeVars, fileVars,
         recoveryVars, historyVars, Copying
<1>2. WalType'
  BY <1>1, WalKept DEF StructInv
<1>3. WriteTypes' /\ FileTypes' /\ LogInv' /\ BouncedInv'
  BY <1>1, FilesTyped, NoFilesType, NoCompactionType, CompactionKeeps
<1>4. LockInv' /\ RecoveryInv' /\ SizeInv' /\ CalmInv'
  BY <1>1, NoCompactionType
     DEF StructInv, LockInv, RecoveryInv, SizeInv, CalmInv, Quiet, Copying, Renaming
<1> QED
  BY <1>2, <1>3, <1>4 DEF StructInv

LEMMA RotationFailsStruct ==
    ASSUME StructInv, RotationFails
    PROVE  StructInv'
<1>1. /\ compaction.pc \in {"drain"} \cup Renaming /\ bounced = <<>>
      /\ compaction' = [compaction EXCEPT !.pc = "swap"]
      /\ dirUnsynced' = (dirUnsynced \/ compaction.pc = "syncLogName")
      /\ UNCHANGED <<policy, status, retried, store, bounced, disk, synced,
                     recovery, writeDisabled, tmp, locked, log, opened, tangled>>
  BY DEF RotationFails, Microtasks, keptByCompaction, writeVars, recoveryVars, historyVars, Renaming
<1>2. /\ wal' = [size |-> wal.size, queue |-> wal.queue, group |-> wal.group,
                 batch |-> wal.batch, batchGroup |-> wal.batchGroup, landed |-> wal.landed,
                 sealed |-> wal.sealed, closed |-> TRUE, poisoned |-> wal.poisoned]
  BY DEF RotationFails, StructInv, WalType
<1>3. /\ wal'.size = wal.size /\ wal'.queue = wal.queue /\ wal'.group = wal.group
      /\ wal'.batch = wal.batch /\ wal'.batchGroup = wal.batchGroup /\ wal'.landed = wal.landed
      /\ wal'.sealed = wal.sealed /\ wal'.closed = TRUE /\ wal'.poisoned = wal.poisoned
  BY <1>2
<1>4. compaction' \in Compactions /\ compaction'.pc = "swap"
  BY <1>1, FilesTyped DEF Compactions
<1>5. WalType'
  BY <1>2, <1>3 DEF StructInv, WalType
<1>6. WriteTypes' /\ FileTypes' /\ LogInv' /\ BouncedInv'
  BY <1>1, <1>3, <1>4, FilesTyped, CompactionKeeps
<1>7. LockInv' /\ RecoveryInv' /\ SizeInv' /\ CalmInv'
  BY <1>1, <1>3, <1>4
     DEF StructInv, LockInv, RecoveryInv, SizeInv, CalmInv, Quiet, Copying, Renaming
<1> QED
  BY <1>5, <1>6, <1>7 DEF StructInv

LEMMA SwapLogStruct ==
    ASSUME StructInv, SwapLog
    PROVE  StructInv'
<1>1. /\ compaction.pc = "swap" /\ bounced = <<>> /\ locked' = FALSE
      /\ wal.poisoned \/ (wal.queue = <<>> /\ wal.batch = <<>>)
      /\ wal' = OpenWal(Len(disk.wal)) \/ wal' = wal
      /\ compaction' = NoCompaction /\ tmp' = NoFiles
      /\ UNCHANGED <<policy, status, retried, store, bounced, disk, synced, dirUnsynced,
                     recovery, writeDisabled, log, opened, tangled>>
  BY DEF SwapLog, CompactionOver, Microtasks, keptByCompaction, writeVars, fileVars,
         recoveryVars, historyVars
<1>2. Quiet /\ wal.closed /\ ~ wal.landed
  BY <1>1 DEF StructInv, LockInv, RecoveryInv, SizeInv, Quiet
<1>3. CASE wal' = OpenWal(Len(disk.wal))
  <2>1. /\ WalType' /\ Quiet' /\ wal'.size = Len(disk.wal)
        /\ wal'.queue = <<>> /\ wal'.batch = <<>>
        /\ wal'.landed = FALSE /\ wal'.sealed = FALSE /\ wal'.closed = FALSE
        /\ wal'.poisoned = FALSE
    BY <1>3, FilesTyped, OpenWalType
  <2>2. WriteTypes' /\ FileTypes' /\ LogInv' /\ BouncedInv'
    BY <1>1, <1>2, <2>1, FilesTyped, NoFilesType, NoCompactionType, CompactionKeeps DEF Quiet
  <2>3. LockInv' /\ RecoveryInv' /\ SizeInv' /\ CalmInv'
    BY <1>1, <1>2, <2>1, NoCompactionType
       DEF StructInv, LockInv, RecoveryInv, SizeInv, CalmInv, Copying, Renaming
  <2> QED
    BY <2>1, <2>2, <2>3 DEF StructInv
<1>4. CASE wal' = wal
  <2>1. WalType'
    BY <1>4, WalKept DEF StructInv
  <2>2. WriteTypes' /\ FileTypes' /\ LogInv' /\ BouncedInv'
    BY <1>1, <1>4, FilesTyped, NoFilesType, NoCompactionType, CompactionKeeps
  <2>3. LockInv' /\ RecoveryInv' /\ SizeInv' /\ CalmInv'
    BY <1>1, <1>2, <1>4, NoCompactionType
       DEF StructInv, LockInv, RecoveryInv, SizeInv, CalmInv, Quiet, Copying, Renaming
  <2> QED
    BY <2>1, <2>2, <2>3 DEF StructInv
<1> QED
  BY <1>1, <1>3, <1>4

(* In step: nothing is queued and the log's size is the file's.             *)
LEMMA FlushedInStep ==
    ASSUME StructInv, Flushed, compaction.pc \in {"copy", "drain"}
    PROVE  /\ Quiet /\ recovery.pc = "idle" /\ ~ wal.landed /\ ~ wal.closed
           /\ wal.size = Len(disk.wal) /\ Len(disk.wal) \in Nat
BY FilesTyped DEF Flushed, StructInv, RecoveryInv, LockInv, SizeInv, Quiet, Copying

LEMMA PreCopyStruct ==
    ASSUME StructInv, PreCopy
    PROVE  StructInv'
<1>1. /\ compaction.pc = "copy" /\ bounced = <<>> /\ Flushed
      /\ compaction.copied < wal.size /\ CopyTail("copy")
      /\ UNCHANGED <<policy, status, retried, store, bounced, wal, disk, synced, dirUnsynced,
                     recovery, writeDisabled, locked, log, opened, tangled>>
  BY DEF PreCopy, Microtasks, keptByCompaction, writeVars, fileVars, recoveryVars, historyVars
<1>2. /\ Quiet /\ recovery.pc = "idle" /\ wal.size = Len(disk.wal)
  BY <1>1, FlushedInStep
<1>3. compaction.copied <= Len(disk.wal)
  BY <1>1, <1>2, FilesTyped
<1>4. tmp' \in Files /\ compaction' \in Compactions /\ compaction'.pc = "copy"
  BY <1>1, <1>2, <1>3, CopyTailType
<1>5. WalType'
  BY <1>1, WalKept DEF StructInv
<1>6. WriteTypes' /\ FileTypes' /\ LogInv' /\ BouncedInv'
  BY <1>1, <1>4, FilesTyped, CompactionKeeps
<1>7. LockInv' /\ RecoveryInv' /\ SizeInv' /\ CalmInv'
  BY <1>1, <1>4 DEF StructInv, LockInv, RecoveryInv, SizeInv, CalmInv, Quiet, Copying, Renaming
<1> QED
  BY <1>5, <1>6, <1>7 DEF StructInv

LEMMA DrainAndCloseStruct ==
    ASSUME StructInv, DrainAndClose, compaction.copied <= Len(disk.wal)
    PROVE  StructInv'
<1>1. /\ compaction.pc = "drain" /\ bounced = <<>> /\ Flushed /\ CopyTail("renameSnapshot")
      /\ synced' = [synced EXCEPT !.wal = disk.wal]
      /\ UNCHANGED <<policy, status, retried, store, bounced, disk, dirUnsynced,
                     recovery, writeDisabled, locked, log, opened, tangled>>
  BY DEF DrainAndClose, Microtasks, keptByCompaction, writeVars, recoveryVars, historyVars
<1>2. Quiet /\ recovery.pc = "idle" /\ ~ wal.landed /\ wal.size = Len(disk.wal)
  BY <1>1, FlushedInStep
<1>3. tmp' \in Files /\ compaction' \in Compactions /\ compaction'.pc = "renameSnapshot"
  BY <1>1, <1>2, CopyTailType
<1>4. /\ wal' = [size |-> wal.size, queue |-> wal.queue, group |-> wal.group,
                 batch |-> wal.batch, batchGroup |-> wal.batchGroup, landed |-> wal.landed,
                 sealed |-> wal.sealed, closed |-> TRUE, poisoned |-> wal.poisoned]
  BY DEF DrainAndClose, StructInv, WalType
<1>5. /\ wal'.size = wal.size /\ wal'.queue = wal.queue /\ wal'.group = wal.group
      /\ wal'.batch = wal.batch /\ wal'.batchGroup = wal.batchGroup /\ wal'.landed = wal.landed
      /\ wal'.sealed = wal.sealed /\ wal'.closed = TRUE /\ wal'.poisoned = wal.poisoned
  BY <1>4
<1>6. WalType'
  BY <1>4, <1>5 DEF StructInv, WalType
<1>7. synced' \in Files
  BY <1>1, FilesTyped DEF Files
<1>8. WriteTypes' /\ FileTypes' /\ LogInv' /\ BouncedInv'
  BY <1>1, <1>3, <1>5, <1>7, FilesTyped, CompactionKeeps
<1>9. LockInv' /\ RecoveryInv' /\ SizeInv' /\ CalmInv'
  BY <1>1, <1>2, <1>3, <1>5
     DEF StructInv, LockInv, RecoveryInv, SizeInv, CalmInv, Quiet, Copying, Renaming
<1> QED
  BY <1>6, <1>8, <1>9 DEF StructInv

LEMMA PowerLostFiles ==
    ASSUME StructInv, NEW files \in PowerLost
    PROVE  /\ files \in Files /\ files.snapshot \in {synced.snapshot, disk.snapshot}
           /\ IF compaction.pc = "syncLogName" THEN files.wal \in {synced.wal, disk.wal}
              ELSE \E n \in 0..Len(disk.wal) : n >= Len(synced.wal) /\ files.wal = SubSeq(disk.wal, 1, n)
<1>1. /\ files.snapshot \in {synced.snapshot, disk.snapshot}
      /\ files.wal \in IF compaction.pc = "syncLogName" THEN {synced.wal, disk.wal}
                       ELSE {p \in Prefixes(disk.wal) : Len(p) >= Len(synced.wal)}
      /\ files = [snapshot |-> files.snapshot, wal |-> files.wal]
  BY DEF PowerLost
<1>2. CASE compaction.pc = "syncLogName"
  BY <1>1, <1>2, FilesTyped DEF Files
<1>3. CASE compaction.pc # "syncLogName"
  <2>1. PICK n \in 0..Len(disk.wal) : files.wal = SubSeq(disk.wal, 1, n) /\ Len(files.wal) >= Len(synced.wal)
    BY <1>1, <1>3 DEF Prefixes
  <2>2. SubSeq(disk.wal, 1, n) \in Seq(Writes) /\ Len(SubSeq(disk.wal, 1, n)) = n
    BY FilesTyped, CutInTwo
  <2> QED
    BY <1>1, <1>3, <2>1, <2>2, FilesTyped DEF Files
<1> QED
  BY <1>2, <1>3

LEMMA ReopenedType ==
    ASSUME NEW files \in Files
    PROVE  Reopened(files) \in Values /\ \A k \in Keys : Reopened(files)[k] = Value(files.snapshot, files.wal, k)
<1>1. files = [snapshot |-> files.snapshot, wal |-> files.wal]
      /\ files.snapshot \in Values /\ files.wal \in Seq(Writes)
  BY DEF Files
<1>2. \A k \in Keys : Reopened(files)[k] = Value(files.snapshot, files.wal, k)
  BY <1>1 DEF Value
<1>3. ASSUME NEW k \in Keys PROVE Value(files.snapshot, files.wal, k) \in Entries
  <2>1. CASE At(files.wal, k) = {}
    BY <1>1, <2>1, ValueOfNone DEF Values
  <2>2. CASE At(files.wal, k) # {}
    <3>1. PICK i \in At(files.wal, k) : Value(files.snapshot, files.wal, k) = Effect(files.wal[i])
      BY <1>1, <2>2, LastFrame
    <3>2. files.wal[i] \in Writes
      BY <1>1 DEF At
    <3> QED
      BY <3>1, <3>2 DEF Effect, Entries
  <2> QED
    BY <2>1, <2>2
<1>4. Reopened(files) = [k \in Keys |-> Reopened(files)[k]]
  BY DEF Reopened
<1> QED
  BY <1>2, <1>3, <1>4 DEF Values

LEMMA AllowedType ==
    ASSUME StructInv
    PROVE  \A k \in Keys : Allowed(k) \in SUBSET Entries
<1>1. \A i \in DOMAIN log : log[i] \in Writes
  BY DEF StructInv, WriteTypes
<1>2. \A k \in Keys : opened[k] \in SUBSET Entries
  BY DEF StructInv, WriteTypes
<1> QED
  BY <1>1, <1>2 DEF Allowed, Effect, Entries

LEMMA CrashFiles ==
    ASSUME StructInv, Crash
    PROVE  /\ disk' \in Files /\ synced' \in Files /\ dirUnsynced' \in BOOLEAN
           /\ Len(disk'.wal) \in Nat
<1>1. CASE UNCHANGED <<disk, synced>> /\ dirUnsynced' = (dirUnsynced \/ compaction.pc = "syncLogName")
  BY <1>1, FilesTyped
<1>2. CASE disk' \in PowerLost /\ synced' = disk' /\ UNCHANGED dirUnsynced
  BY <1>2, FilesTyped, PowerLostFiles DEF Files
<1> QED
  BY <1>1, <1>2 DEF Crash

LEMMA CrashStruct ==
    ASSUME StructInv, Crash
    PROVE  StructInv'
<1>1. /\ store' = Reopened(disk')
      /\ opened' = [k \in Keys |-> Allowed(k)] /\ log' = <<>>
      /\ Becomes({w \in Writes : status[w] \notin {"new", "acked", "rejected", "refused"}}, "unknown")
      /\ retried' = {} /\ bounced' = <<>> /\ wal' = OpenWal(Len(disk'.wal))
      /\ recovery' = NoRecovery /\ writeDisabled' = FALSE
      /\ compaction' = NoCompaction /\ tmp' = NoFiles /\ locked' = FALSE /\ policy' = policy
  BY DEF Crash, CompactionOver
<1>2. disk' \in Files /\ synced' \in Files /\ dirUnsynced' \in BOOLEAN /\ Len(disk'.wal) \in Nat
  BY CrashFiles
<1>3. /\ WalType' /\ Quiet' /\ wal'.size = Len(disk'.wal) /\ wal'.queue = <<>> /\ wal'.batch = <<>>
      /\ wal'.landed = FALSE /\ wal'.sealed = FALSE /\ wal'.closed = FALSE
      /\ wal'.poisoned = FALSE
  BY <1>1, <1>2, OpenWalType
<1>4. /\ status' \in [Writes -> Statuses]
      /\ \A w \in Writes : status'[w] \notin {"bounced", "retry"}
  <2>1. /\ status' \in [Writes -> Statuses]
        /\ \A w \in Writes : status'[w] =
             IF w \in {x \in Writes : status[x] \notin {"new", "acked", "rejected", "refused"}}
             THEN "unknown" ELSE status[w]
    BY <1>1, SomeBecome DEF Statuses
  <2> QED
    BY <2>1
<1>5. WriteTypes'
  <2>1. store' \in Values
    BY <1>1, <1>2, ReopenedType
  <2>2. opened' \in [Keys -> SUBSET Entries]
    BY <1>1, AllowedType
  <2>3. <<>> \in Seq(Bounces) /\ <<>> \in Seq(Writes)
    OBVIOUS
  <2>4. policy \in {"always", "everysec"}
    BY DEF StructInv, WriteTypes
  <2> QED
    BY <1>1, <1>4, <2>1, <2>2, <2>3, <2>4 DEF WriteTypes
<1>6. FileTypes'
  BY <1>1, <1>2, NoFilesType, NoCompactionType DEF FileTypes, NoRecovery, Compactions
<1>7. LogInv'
  <2>1. Len(log') = 0 /\ Len(wal'.batch) = 0 /\ Len(wal'.queue) = 0 /\ DOMAIN log' = {}
    BY <1>1, <1>3
  <2>2. Before' = 0 /\ \A i \in 1..0 : FALSE
    BY <2>1 DEF Before
  <2> QED
    BY <2>1, <2>2 DEF LogInv, Distinct
<1>8. BouncedInv'
  <2>1. DOMAIN bounced' = {}
    BY <1>1
  <2> QED
    BY <1>1, <1>4, <2>1 DEF BouncedInv
<1>9. LockInv' /\ RecoveryInv' /\ SizeInv' /\ CalmInv'
  BY <1>1, <1>3, NoCompactionType
     DEF LockInv, RecoveryInv, SizeInv, CalmInv, NoRecovery, Copying, Renaming
<1> QED
  BY <1>3, <1>5, <1>6, <1>7, <1>8, <1>9 DEF StructInv

LEMMA InitStruct == Init => StructInv
<1> SUFFICES ASSUME Init PROVE StructInv
  OBVIOUS
<1>1. /\ policy \in {"always", "everysec"}
      /\ status = [w \in Writes |-> "new"] /\ retried = {}
      /\ store = NoValues /\ bounced = <<>>
      /\ wal = OpenWal(0) /\ disk = NoFiles /\ synced = NoFiles
      /\ recovery = NoRecovery /\ writeDisabled = FALSE
      /\ compaction = NoCompaction /\ tmp = NoFiles /\ locked = FALSE
      /\ log = <<>> /\ opened = [k \in Keys |-> {None}] /\ dirUnsynced = FALSE
  BY DEF Init
<1>2. /\ wal.size = 0 /\ wal.queue = <<>> /\ wal.batch = <<>>
      /\ wal.group = NoGroup /\ wal.batchGroup = NoGroup
      /\ wal.landed = FALSE /\ wal.sealed = FALSE /\ wal.closed = FALSE
      /\ wal.poisoned = FALSE
  BY <1>1 DEF OpenWal
<1>3. WalType
  <2>1. wal = [size |-> wal.size, queue |-> wal.queue, group |-> wal.group,
               batch |-> wal.batch, batchGroup |-> wal.batchGroup, landed |-> wal.landed,
               sealed |-> wal.sealed, closed |-> wal.closed, poisoned |-> wal.poisoned]
    BY <1>1 DEF OpenWal
  <2>2. <<>> \in Seq(Writes)
    OBVIOUS
  <2>3. wal.group \in [KeysOf(wal.queue) -> Entries] /\ wal.batchGroup \in [KeysOf(wal.batch) -> Entries]
    BY <1>2, NoGroupType
  <2>4. /\ wal.size \in Nat /\ wal.queue \in Seq(Writes) /\ wal.batch \in Seq(Writes)
        /\ wal.landed \in BOOLEAN /\ wal.sealed \in BOOLEAN
        /\ wal.closed \in BOOLEAN /\ wal.poisoned \in BOOLEAN
    <3>1. wal.size \in Nat /\ wal.queue \in Seq(Writes) /\ wal.batch \in Seq(Writes)
      BY <1>2, <2>2
    <3>2. /\ wal.landed \in BOOLEAN /\ wal.sealed \in BOOLEAN
          /\ wal.closed \in BOOLEAN /\ wal.poisoned \in BOOLEAN
      BY <1>2
    <3> QED
      BY <3>1, <3>2
  <2> QED
    BY <1>2, <2>1, <2>2, <2>3, <2>4 DEF WalType
<1>4. WriteTypes
  <2>1. <<>> \in Seq(Bounces) /\ <<>> \in Seq(Writes)
    OBVIOUS
  <2>2. status \in [Writes -> Statuses] /\ opened \in [Keys -> SUBSET Entries]
    BY <1>1 DEF Statuses, Entries
  <2> QED
    BY <1>1, <2>1, <2>2, NoFilesType DEF WriteTypes
<1>5. FileTypes
  BY <1>1, NoFilesType, NoCompactionType DEF FileTypes, NoRecovery, Compactions
<1>6. LogInv
  <2>1. Len(log) = 0 /\ Len(wal.batch) = 0 /\ Len(wal.queue) = 0 /\ DOMAIN log = {}
    BY <1>1, <1>2
  <2>2. Before = 0 /\ \A i \in 1..0 : FALSE
    BY <2>1 DEF Before
  <2> QED
    BY <2>1, <2>2 DEF LogInv, Distinct
<1>7. BouncedInv
  <2>1. DOMAIN bounced = {} /\ \A w \in Writes : status[w] = "new"
    BY <1>1
  <2> QED
    BY <1>1, <2>1 DEF BouncedInv
<1>8. LockInv /\ RecoveryInv /\ SizeInv /\ CalmInv
  <2>1. Len(disk.wal) = 0
    BY <1>1, NoFilesType
  <2> QED
    BY <1>1, <1>2, <2>1, NoCompactionType
       DEF LockInv, RecoveryInv, SizeInv, CalmInv, NoRecovery, Copying, Renaming, Quiet
<1> QED
  BY <1>3, <1>4, <1>5, <1>6, <1>7, <1>8 DEF StructInv

-----------------------------------------------------------------------------
(* The live store, and the records a rollback would restore: each is what   *)
(* the writes of its key that are left make of it.                          *)
AckedAt(k) == {i \in DOMAIN log : Key[log[i]] = k /\ status[log[i]] = "acked"}
LiveAt(k) == {i \in DOMAIN log : Key[log[i]] = k /\ status[log[i]] \in {"acked", "applied"}}
LandingAt(k) == {i \in LiveAt(k) : i <= Len(log) - Len(wal.queue)}

From(k, j) ==
    {Effect(log[i]) : i \in {n \in DOMAIN log : Key[log[n]] = k /\ n >= j}}
      \cup (IF j = 0 THEN opened[k] ELSE {})
Exact(k, v, j) == IF j = 0 THEN v \in opened[k] ELSE v = Effect(log[j])

(* Where two refused writes of a key overlapped, the value of one of them   *)
(* may stay until it is retried, or for good when no write can follow.      *)
Pending(k) == {w \in Writes : Key[w] = k /\ status[w] \in {"bounced", "retry"}}
Dead == writeDisabled \/ (wal.closed /\ ~ locked)
Loose(k, v, j) == k \in tangled /\ (Dead \/ v \in From(k, j) \/ \E w \in Pending(k) : v = Effect(w))
Ok(k, v, j) == Exact(k, v, j) \/ Loose(k, v, j)

Held(k) == \E i \in DOMAIN bounced : Key[bounced[i].write] = k
StoreInv(k) ==
    /\ k \notin tangled => \A i \in DOMAIN bounced :
          Key[bounced[i].write] = k => store[k] = Effect(bounced[i].write)
    /\ ~ Held(k) \/ k \in tangled => Ok(k, store[k], Newest(LiveAt(k)))
    /\ \A i \in DOMAIN bounced :
          Key[bounced[i].write] = k => Ok(k, bounced[i].prev, Newest(LiveAt(k)))
    /\ k \in DOMAIN wal.group => Ok(k, wal.group[k], Newest(LandingAt(k)))
    /\ k \in DOMAIN wal.batchGroup => Ok(k, wal.batchGroup[k], Newest(AckedAt(k)))

LEMMA OkKept ==
    ASSUME NEW k \in Keys, log' = log, opened' = opened, tangled \subseteq tangled',
           Dead => Dead', \A w \in Pending(k) : w \in Pending(k)' \/ Dead'
    PROVE  \A v, j : Ok(k, v, j) => Ok(k, v, j)'
<1>1. \A j : From(k, j)' = From(k, j)
  BY DEF From
<1>2. \A v, j : Exact(k, v, j)' = Exact(k, v, j)
  BY DEF Exact
<1>3. ASSUME NEW v, NEW j, Loose(k, v, j) PROVE Loose(k, v, j)'
  <2>1. k \in tangled'
    BY <1>3 DEF Loose
  <2>2. Dead' \/ v \in From(k, j)' \/ \E w \in Pending(k)' : v = Effect(w)
    BY <1>1, <1>3 DEF Loose
  <2> QED
    BY <2>1, <2>2 DEF Loose
<1> QED
  BY <1>2, <1>3 DEF Ok

LEMMA PlacesKept ==
    ASSUME log' = log, \A i \in DOMAIN log : status'[log[i]] = status[log[i]],
           wal'.queue = wal.queue, NEW k
    PROVE  AckedAt(k)' = AckedAt(k) /\ LiveAt(k)' = LiveAt(k) /\ LandingAt(k)' = LandingAt(k)
BY DEF AckedAt, LiveAt, LandingAt

LEMMA StoreKept ==
    ASSUME NEW k \in Keys, StoreInv(k),
           UNCHANGED <<store, bounced, log, opened, tangled>>, wal'.queue = wal.queue,
           \A i \in DOMAIN log : status'[log[i]] = status[log[i]],
           k \in DOMAIN wal'.group => k \in DOMAIN wal.group /\ wal'.group[k] = wal.group[k],
           k \in DOMAIN wal'.batchGroup =>
              k \in DOMAIN wal.batchGroup /\ wal'.batchGroup[k] = wal.batchGroup[k],
           Dead => Dead', \A w \in Pending(k) : w \in Pending(k)' \/ Dead'
    PROVE  StoreInv(k)'
<1>1. \A v, j : Ok(k, v, j) => Ok(k, v, j)'
  BY OkKept
<1>2. AckedAt(k)' = AckedAt(k) /\ LiveAt(k)' = LiveAt(k) /\ LandingAt(k)' = LandingAt(k)
  BY PlacesKept
<1>3. Held(k)' = Held(k)
  BY DEF Held
<1> QED
  BY <1>1, <1>2, <1>3 DEF StoreInv

(* Steps after which the writes and the log's groups are as before.         *)
LEMMA StoreOfSame ==
    ASSUME NEW k \in Keys, StoreInv(k),
           UNCHANGED <<status, store, bounced, log, opened, tangled>>,
           wal'.queue = wal.queue, wal'.group = wal.group, wal'.batchGroup = wal.batchGroup,
           Dead => Dead'
    PROVE  StoreInv(k)'
<1>1. Pending(k)' = Pending(k)
  BY DEF Pending
<1> QED
  BY <1>1, StoreKept

(* A write that is not in the log moves on.                                 *)
LEMMA StoreOfOther ==
    ASSUME StructInv, NEW k \in Keys, StoreInv(k), NEW w \in Writes, NEW as \in Statuses,
           Becomes({w}, as), status[w] \notin {"applied", "acked", "rejected"},
           UNCHANGED <<store, bounced, log, opened, tangled, wal, writeDisabled, locked>>,
           (status[w] # "retry" /\ status[w] # "bounced") \/ Dead
    PROVE  StoreInv(k)'
<1>1. /\ status' \in [Writes -> Statuses]
      /\ \A x \in Writes : status'[x] = IF x = w THEN as ELSE status[x]
  BY OneBecomes
<1>2. \A i \in DOMAIN log : log[i] \in Writes /\ log[i] # w
  BY NotInLog DEF StructInv, WriteTypes
<1>3. \A i \in DOMAIN log : status'[log[i]] = status[log[i]]
  BY <1>1, <1>2
<1>4. Dead => Dead'
  BY DEF Dead
<1>5. \A x \in Pending(k) : x \in Pending(k)' \/ Dead'
  BY <1>1, <1>4 DEF Pending
<1> QED
  BY <1>3, <1>4, <1>5, StoreKept

LEMMA CallStore ==
    ASSUME StructInv, NEW k \in Keys, StoreInv(k), NEW w \in Writes, Call(w)
    PROVE  StoreInv(k)'
BY StoreOfOther DEF Call, Statuses, recoveryVars, compactionVars, historyVars

LEMMA EnterStore ==
    ASSUME StructInv, NEW k \in Keys, StoreInv(k), NEW w \in Writes, Enter(w)
    PROVE  StoreInv(k)'
<1>1. PICK as \in {"acked", "entered"} : Becomes({w}, as)
  BY DEF Enter
<1>2. as \in Statuses
  BY <1>1 DEF Statuses
<1> QED
  BY <1>1, <1>2, StoreOfOther DEF Enter, recoveryVars, compactionVars, historyVars

(* The newest place of a key in the log is among its places.                *)
LEMMA NewestPlace ==
    ASSUME StructInv, NEW I \in SUBSET DOMAIN log
    PROVE  /\ I = {} => Newest(I) = 0
           /\ I # {} => Newest(I) \in I /\ Newest(I) \in 1..Len(log) /\ \A j \in I : j <= Newest(I)
<1>1. I \in SUBSET (1..Len(log)) /\ Len(log) \in Nat
  BY InBatch
<1>2. I # {} => Newest(I) \in I /\ \A j \in I : j <= Newest(I)
  BY <1>1, NewestProperties
<1>3. I = {} => Newest(I) = 0
  BY DEF Newest
<1> QED
  BY <1>1, <1>2, <1>3

LEMMA CommitStore ==
    ASSUME StructInv, NEW k \in Keys, StoreInv(k), NEW w \in Writes, Commit(w)
    PROVE  StoreInv(k)'
<1>1. /\ status[w] \in {"entered", "retry"}
      /\ UNCHANGED <<writeDisabled, locked, opened>>
  BY DEF Commit, recoveryVars, compactionVars
<1>2. Key[w] \in Keys
  BY WritesAssumption
<1>3. CASE /\ writeDisabled /\ Becomes({w}, "rejected")
           /\ UNCHANGED <<store, bounced, wal, log, tangled>>
  <2>1. Dead
    BY <1>3 DEF Dead
  <2> QED
    BY <1>1, <1>3, <2>1, StoreOfOther DEF Statuses
<1>4. CASE /\ Becomes({w}, "bounced") /\ Apply(w)
           /\ bounced' = Append(bounced, [write |-> w, prev |-> store[Key[w]]])
           /\ tangled' = tangled \cup
                ({Key[w]} \cap {Key[bounced[i].write] : i \in DOMAIN bounced})
           /\ UNCHANGED <<wal, log>>
  <2>1. /\ status' \in [Writes -> Statuses]
        /\ \A x \in Writes : status'[x] = IF x = w THEN "bounced" ELSE status[x]
    BY <1>4, OneBecomes DEF Statuses
  <2> DEFINE b == [write |-> w, prev |-> store[Key[w]]]
             n == Len(bounced)
  <2>2. b.write = w /\ b.prev = store[Key[w]]
    OBVIOUS
  <2>3. /\ n \in Nat /\ DOMAIN bounced = 1..n /\ DOMAIN bounced' = 1..(n + 1)
        /\ bounced'[n + 1] = b /\ \A i \in 1..n : bounced'[i] = bounced[i]
    BY <1>4 DEF StructInv, WriteTypes
  <2> HIDE DEF b, n
  <2>4. \A i \in 1..(n + 1) : i \in 1..n \/ i = n + 1
    BY <2>3
  <2>5. /\ store'[Key[w]] = Effect(w)
        /\ k # Key[w] => store'[k] = store[k]
    BY <1>2, <1>4 DEF Apply, StructInv, WriteTypes, Values
  <2>6. /\ Pending(k) \subseteq Pending(k)'
        /\ k = Key[w] => w \in Pending(k)'
    BY <2>1 DEF Pending
  <2>7. Dead' = Dead
    BY <1>1, <1>4 DEF Dead
  <2>8. \A v, j : Ok(k, v, j) => Ok(k, v, j)'
    BY <1>1, <1>4, <2>6, <2>7, OkKept
  <2>9. \A i \in DOMAIN log : log[i] \in Writes /\ log[i] # w
    BY <1>1, NotInLog DEF StructInv, WriteTypes
  <2>10. \A i \in DOMAIN log : status'[log[i]] = status[log[i]]
    BY <2>1, <2>9
  <2>11. AckedAt(k)' = AckedAt(k) /\ LiveAt(k)' = LiveAt(k) /\ LandingAt(k)' = LandingAt(k)
    BY <1>4, <2>10, PlacesKept
  <2>12. ASSUME k # Key[w] PROVE StoreInv(k)'
    <3>1. Held(k)' <=> Held(k)
      BY <2>2, <2>3, <2>4, <2>12 DEF Held
    <3>2. k \in tangled' <=> k \in tangled
      BY <1>4, <2>12
    <3>3. /\ k \notin tangled' => \A i \in DOMAIN bounced' :
               Key[bounced'[i].write] = k => store'[k] = Effect(bounced'[i].write)
      BY <2>2, <2>3, <2>4, <2>5, <2>12, <3>2 DEF StoreInv
    <3>4. \A i \in DOMAIN bounced' :
             Key[bounced'[i].write] = k => Ok(k, bounced[i].prev, Newest(LiveAt(k)))'
      BY <2>2, <2>3, <2>4, <2>8, <2>11, <2>12 DEF StoreInv
    <3> QED
      BY <1>4, <2>5, <2>8, <2>11, <2>12, <3>1, <3>2, <3>3, <3>4 DEF StoreInv
  <2>13. ASSUME k = Key[w] PROVE StoreInv(k)'
    <3>1. k \in tangled' <=> k \in tangled \/ Held(k)
      BY <1>4, <2>13 DEF Held
    <3>2. k \notin tangled' => \A i \in DOMAIN bounced' :
             Key[bounced'[i].write] = k => store'[k] = Effect(bounced'[i].write)
      BY <2>2, <2>3, <2>4, <2>5, <2>13, <3>1 DEF Held
    <3>3. Held(k)'
      <4>1. n + 1 \in DOMAIN bounced'
        BY <2>3
      <4> QED
        BY <2>2, <2>3, <2>13, <4>1 DEF Held
    <3>4. k \in tangled' => \A j : Ok(k, store[k], j)'
      BY <2>5, <2>6, <2>13 DEF Ok, Loose
    <3>5. \A v, j : v = store[k] /\ j = Newest(LiveAt(k)) => Ok(k, v, j)'
      <4>1. CASE ~ Held(k) \/ k \in tangled
        BY <2>8, <2>11, <4>1 DEF StoreInv
      <4>2. CASE Held(k) /\ k \notin tangled
        <5>1. PICK i \in DOMAIN bounced : Key[bounced[i].write] = k
          BY <4>2 DEF Held
        <5>2. store[k] = Effect(bounced[i].write)
          BY <4>2, <5>1 DEF StoreInv
        <5>3. bounced[i].write \in Pending(k)'
          BY <2>6, <5>1, BouncedTypes DEF Pending, StructInv, BouncedInv
        <5>4. k \in tangled'
          BY <3>1, <4>2
        <5> QED
          BY <5>2, <5>3, <5>4 DEF Ok, Loose
      <4> QED
        BY <4>1, <4>2
    <3>6. \A i \in DOMAIN bounced' :
             Key[bounced'[i].write] = k => Ok(k, bounced[i].prev, Newest(LiveAt(k)))'
      <4> SUFFICES ASSUME NEW i \in DOMAIN bounced', Key[bounced'[i].write] = k
                   PROVE  Ok(k, bounced[i].prev, Newest(LiveAt(k)))'
        OBVIOUS
      <4>1. CASE i \in 1..n
        BY <2>3, <2>8, <2>11, <4>1 DEF StoreInv
      <4>2. CASE i = n + 1
        BY <2>2, <2>3, <2>11, <2>13, <3>5, <4>2
      <4> QED
        BY <2>3, <2>4, <4>1, <4>2
    <3> QED
      BY <1>4, <2>8, <2>11, <3>2, <3>3, <3>4, <3>6 DEF StoreInv
  <2> QED
    BY <2>12, <2>13
<1>5. CASE /\ ~ wal.sealed /\ ~ wal.closed
           /\ Becomes({w}, "applied") /\ Apply(w)
           /\ wal' = [wal EXCEPT !.queue = Append(@, w), !.group = Noted(@, Key[w])]
           /\ log' = Append(log, w)
           /\ UNCHANGED <<bounced, tangled>>
  <2>1. /\ status' \in [Writes -> Statuses]
        /\ \A x \in Writes : status'[x] = IF x = w THEN "applied" ELSE status[x]
    BY <1>5, OneBecomes DEF Statuses
  <2>2. bounced = <<>> /\ DOMAIN bounced = {} /\ ~ Held(k)
    BY <1>5 DEF StructInv, BouncedInv, Held
  <2>3. /\ wal'.queue = Append(wal.queue, w) /\ wal'.group = Noted(wal.group, Key[w])
        /\ wal'.batchGroup = wal.batchGroup /\ wal'.closed = wal.closed
    BY <1>5 DEF StructInv, WalType
  <2>4. /\ wal.queue \in Seq(Writes) /\ Len(wal.queue) \in Nat /\ Len(wal'.queue) = Len(wal.queue) + 1
        /\ wal.group \in [KeysOf(wal.queue) -> Entries]
    BY <2>3 DEF StructInv, WalType
  <2> DEFINE n == Len(log)
  <2>5. /\ n \in Nat /\ DOMAIN log = 1..n /\ DOMAIN log' = 1..(n + 1) /\ Len(log') = n + 1
        /\ log'[n + 1] = w /\ \A i \in 1..n : log'[i] = log[i] /\ log[i] \in Writes /\ log[i] # w
    BY <1>1, <1>5, NotInLog DEF StructInv, WriteTypes
  <2> HIDE DEF n
  <2>6. \A i \in 1..(n + 1) : i \in 1..n \/ i = n + 1
    BY <2>5
  <2>7. \A i \in 1..n : status'[log'[i]] = status[log[i]]
    BY <2>1, <2>5
  <2>8. AckedAt(k)' = AckedAt(k)
    BY <2>1, <2>5, <2>6, <2>7 DEF AckedAt
  <2>9. LiveAt(k)' = LiveAt(k) \cup {i \in {n + 1} : Key[w] = k}
    BY <2>1, <2>5, <2>6, <2>7 DEF LiveAt
  <2>10. LandingAt(k)' = LandingAt(k)
    <3>1. (n + 1) - (Len(wal.queue) + 1) = n - Len(wal.queue) /\ ~ (n + 1 <= n - Len(wal.queue))
      BY <2>4, <2>5
    <3> QED
      BY <2>4, <2>5, <2>9, <3>1 DEF LandingAt, n
  <2>11. Dead' = Dead
    BY <1>1, <2>3 DEF Dead
  <2>12. \A j \in 0..n : From(k, j) \subseteq From(k, j)' /\ (k = Key[w] => Effect(w) \in From(k, j)')
    <3> SUFFICES ASSUME NEW j \in 0..n
                 PROVE  From(k, j) \subseteq From(k, j)' /\ (k = Key[w] => Effect(w) \in From(k, j)')
      OBVIOUS
    <3>1. n + 1 >= j /\ n + 1 \in DOMAIN log'
      BY <2>5
    <3>2. {i \in DOMAIN log : Key[log[i]] = k /\ i >= j} \subseteq
          {i \in DOMAIN log' : Key[log'[i]] = k /\ i >= j}
      BY <2>5
    <3>3. \A i \in DOMAIN log : log'[i] = log[i]
      BY <2>5
    <3> QED
      BY <1>1, <2>5, <3>1, <3>2, <3>3 DEF From
  <2>13. \A v : \A j \in 0..n : Ok(k, v, j) => Ok(k, v, j)'
    <3> SUFFICES ASSUME NEW v, NEW j \in 0..n, Ok(k, v, j) PROVE Ok(k, v, j)'
      OBVIOUS
    <3>1. CASE Exact(k, v, j)
      <4>1. Exact(k, v, j)'
        <5>1. j = 0 \/ j \in 1..n
          BY <2>5
        <5> QED
          BY <1>1, <2>5, <3>1, <5>1 DEF Exact
      <4> QED
        BY <4>1 DEF Ok
    <3>2. CASE Loose(k, v, j)
      <4>1. \A x \in Pending(k) : x \in Pending(k)' \/ (x = w /\ k = Key[w])
        BY <2>1 DEF Pending
      <4>2. Loose(k, v, j)'
        BY <1>5, <2>11, <2>12, <3>2, <4>1 DEF Loose
      <4> QED
        BY <4>2 DEF Ok
    <3> QED
      BY <3>1, <3>2 DEF Ok
  <2>14. /\ LiveAt(k) \subseteq 1..n /\ LandingAt(k) \subseteq 1..n /\ AckedAt(k) \subseteq 1..n
    BY <2>5 DEF LiveAt, LandingAt, AckedAt
  <2>15. Newest(LiveAt(k)) \in 0..n /\ Newest(LandingAt(k)) \in 0..n /\ Newest(AckedAt(k)) \in 0..n
    <3>1. /\ LiveAt(k) \in SUBSET DOMAIN log /\ LandingAt(k) \in SUBSET DOMAIN log
          /\ AckedAt(k) \in SUBSET DOMAIN log
      BY <2>5, <2>14
    <3>2. \A I \in SUBSET DOMAIN log : Newest(I) \in 0..n
      BY <2>5, NewestPlace DEF n
    <3> QED
      BY <3>1, <3>2
  <2>16. Ok(k, store[k], Newest(LiveAt(k)))
    BY <2>2 DEF StoreInv
  <2>17. Ok(k, store[k], Newest(LiveAt(k)))'
    <3>1. CASE k # Key[w]
      <4>1. store'[k] = store[k]
        BY <1>2, <1>5, <3>1 DEF Apply, StructInv, WriteTypes, Values
      <4>2. LiveAt(k)' = LiveAt(k)
        BY <2>9, <3>1
      <4> QED
        BY <2>13, <2>15, <2>16, <4>1, <4>2
    <3>2. CASE k = Key[w]
      <4>1. store'[k] = Effect(w)
        BY <1>2, <1>5, <3>2 DEF Apply, StructInv, WriteTypes, Values
      <4>2. LiveAt(k)' = LiveAt(k) \cup {n + 1}
        BY <2>9, <3>2
      <4>3. Newest(LiveAt(k)') = n + 1
        <5>1. n + 1 \in Nat /\ LiveAt(k)' \in SUBSET (1..(n + 1)) /\ n + 1 \in LiveAt(k)'
              /\ \A j \in LiveAt(k)' : j <= n + 1
          BY <2>5, <2>14, <4>2
        <5> QED
          BY <5>1, NewestIs
      <4>4. \A j : j = n + 1 => Exact(k, Effect(w), j)'
        BY <2>5 DEF Exact
      <4> QED
        BY <4>1, <4>3, <4>4 DEF Ok
    <3> QED
      BY <3>1, <3>2
  <2>18. k \in DOMAIN wal'.group => Ok(k, wal.group[k], Newest(LandingAt(k)))'
    <3> SUFFICES ASSUME k \in DOMAIN wal'.group
                 PROVE  Ok(k, wal.group[k], Newest(LandingAt(k)))'
      OBVIOUS
    <3>1. CASE k \in DOMAIN wal.group
      <4>1. wal'.group[k] = wal.group[k]
        BY <2>3, <3>1 DEF Noted
      <4> QED
        BY <2>10, <2>13, <2>15, <3>1, <4>1 DEF StoreInv
    <3>2. CASE k \notin DOMAIN wal.group
      <4>1. k = Key[w] /\ wal'.group[k] = store[k]
        BY <2>3, <3>2 DEF Noted
      <4>2. LandingAt(k) = LiveAt(k)
        <5> SUFFICES ASSUME NEW i \in LiveAt(k) PROVE i <= n - Len(wal.queue)
          BY DEF LandingAt, n
        <5>1. i \in 1..n /\ Key[log[i]] = k
          BY <2>14 DEF LiveAt
        <5>2. k \notin KeysOf(wal.queue)
          BY <2>4, <3>2
        <5>3. CASE i > n - Len(wal.queue)
          <6> DEFINE p == i - (n - Len(wal.queue))
          <6>1. p \in 1..Len(wal.queue) /\ (n - Len(wal.queue)) + p = i
            <7>1. \A x, y \in Nat : \A z \in 1..x :
                     z > x - y => z - (x - y) \in 1..y /\ (x - y) + (z - (x - y)) = z
              OBVIOUS
            <7>2. n \in Nat /\ Len(wal.queue) \in Nat
              BY <2>4, <2>5
            <7>3. i - (n - Len(wal.queue)) \in 1..Len(wal.queue)
                  /\ (n - Len(wal.queue)) + (i - (n - Len(wal.queue))) = i
              BY <5>1, <5>3, <7>1, <7>2
            <7> QED
              BY <7>3
          <6>2. /\ Before \in Nat /\ Len(wal.batch) \in Nat
                /\ n = Before + Len(wal.batch) + Len(wal.queue)
            BY InBatch DEF n
          <6>3. Before + Len(wal.batch) = n - Len(wal.queue)
            BY <2>4, <6>2
          <6>4. \A q \in 1..Len(wal.queue) : log[Before + Len(wal.batch) + q] = wal.queue[q]
            BY DEF StructInv, LogInv
          <6> HIDE DEF p
          <6>5. log[i] = wal.queue[p]
            BY <6>1, <6>3, <6>4
          <6>6. k \in KeysOf(wal.queue)
            BY <2>4, <5>1, <6>1, <6>5 DEF KeysOf
          <6> QED
            BY <5>2, <6>6
        <5> QED
          BY <2>4, <2>5, <5>1, <5>3
      <4> QED
        BY <2>10, <2>13, <2>15, <2>16, <4>1, <4>2
    <3> QED
      BY <3>1, <3>2
  <2>19. k \in DOMAIN wal'.batchGroup => Ok(k, wal.batchGroup[k], Newest(AckedAt(k)))'
    BY <2>3, <2>8, <2>13, <2>15 DEF StoreInv
  <2> QED
    BY <1>5, <2>2, <2>17, <2>18, <2>19 DEF StoreInv
<1> QED
  BY <1>3, <1>4, <1>5 DEF Commit

LEMMA UndoRefusedStore ==
    ASSUME StructInv, NEW k \in Keys, StoreInv(k), UndoRefused
    PROVE  StoreInv(k)'
<1> DEFINE b == Head(bounced)
<1>1. /\ bounced # <<>> /\ bounced' = Tail(bounced) /\ store' = Restored(b)
      /\ UNCHANGED <<retried, wal, writeDisabled, locked, log, opened, tangled>>
  BY DEF UndoRefused, recoveryVars, compactionVars, historyVars
<1>2. /\ b \in Bounces /\ DOMAIN bounced = 1..Len(bounced)
      /\ 1 \in DOMAIN bounced /\ b = bounced[1] /\ Len(bounced) \in Nat
      /\ DOMAIN bounced' = 1..(Len(bounced) - 1)
      /\ \A i \in DOMAIN bounced' : bounced'[i] = bounced[i + 1] /\ i + 1 \in DOMAIN bounced
  BY <1>1 DEF StructInv, WriteTypes
<1> DEFINE w == b.write
<1>3. w \in Writes /\ status[w] = "bounced" /\ Key[w] \in Keys
  BY <1>2, WritesAssumption DEF StructInv, BouncedInv, Bounces
<1>4. Becomes({w}, "retry") \/ (Becomes({w}, "rejected") /\ wal.closed /\ ~ locked)
  <2>1. w \in retried => wal.closed /\ ~ locked
    BY <1>2 DEF StructInv, BouncedInv
  <2> QED
    BY <2>1 DEF UndoRefused
<1> HIDE DEF b, w
<1>5. PICK as \in {"rejected", "retry"} : Becomes({w}, as) /\ (as = "rejected" => wal.closed /\ ~ locked)
  BY <1>4
<1>6. /\ status' \in [Writes -> Statuses]
      /\ \A x \in Writes : status'[x] = IF x = w THEN as ELSE status[x]
  <2>1. as \in Statuses
    BY <1>5 DEF Statuses
  <2> QED
    BY <1>3, <1>5, <2>1, OneBecomes
<1>7. Dead => Dead'
  BY <1>1 DEF Dead
<1>8. \A x \in Pending(k) : x \in Pending(k)' \/ Dead'
  <2>1. as = "rejected" => Dead'
    BY <1>1, <1>5 DEF Dead
  <2>2. as = "retry" => Pending(k) \subseteq Pending(k)'
    BY <1>3, <1>6 DEF Pending
  <2> QED
    BY <1>5, <2>1, <2>2
<1>9. \A v, j : Ok(k, v, j) => Ok(k, v, j)'
  BY <1>1, <1>7, <1>8, OkKept
<1>10. AckedAt(k)' = AckedAt(k) /\ LiveAt(k)' = LiveAt(k) /\ LandingAt(k)' = LandingAt(k)
  <2>1. \A i \in DOMAIN log : log[i] \in Writes /\ log[i] # w
    BY <1>3, NotInLog DEF StructInv, WriteTypes
  <2>2. \A i \in DOMAIN log : status'[log[i]] = status[log[i]]
    BY <1>6, <2>1
  <2> QED
    BY <1>1, <2>2, PlacesKept
<1>11. \A i \in DOMAIN bounced : i = 1 \/ (i - 1 \in DOMAIN bounced' /\ (i - 1) + 1 = i)
  BY <1>2
<1>12. Held(k)' => Held(k)
  BY <1>2 DEF Held
<1>13. Held(k) => Held(k)' \/ Key[w] = k
  <2> SUFFICES ASSUME NEW i \in DOMAIN bounced, Key[bounced[i].write] = k, Key[w] # k
               PROVE  Held(k)'
    BY DEF Held
  <2>1. i # 1
    BY <1>2 DEF w
  <2>2. i - 1 \in DOMAIN bounced' /\ bounced'[i - 1] = bounced[i]
    BY <1>2, <1>11, <2>1
  <2> QED
    BY <2>2 DEF Held
<1>14. k = Key[w] /\ k \notin tangled => ~ Held(k)'
  <2> SUFFICES ASSUME k = Key[w], k \notin tangled, NEW i \in DOMAIN bounced', Key[bounced'[i].write] = k
               PROVE  FALSE
    BY DEF Held
  <2>1. i + 1 \in DOMAIN bounced /\ Key[bounced[i + 1].write] = Key[bounced[1].write]
    BY <1>2 DEF w
  <2>2. i + 1 = 1
    BY <1>2, <2>1 DEF StructInv, BouncedInv, w
  <2> QED
    BY <1>2, <2>2
<1>15. store' = store \/ (store'[k] = IF k = Key[w] THEN b.prev ELSE store[k])
  BY <1>1, <1>3 DEF Restored, w, StructInv, WriteTypes, Values
<1>16. k # Key[w] => store'[k] = store[k]
  BY <1>15
<1>17. k = Key[w] /\ store[k] = Effect(w) => store'[k] = b.prev
  BY <1>1, <1>3 DEF Restored, w, StructInv, WriteTypes, Values
<1>18. k = Key[w] /\ store[k] # Effect(w) => store'[k] = store[k]
  BY <1>1 DEF Restored, w
<1>19. k = Key[w] => Ok(k, b.prev, Newest(LiveAt(k)))
  BY <1>2 DEF StoreInv, w
<1>20. k \notin tangled' => \A i \in DOMAIN bounced' :
          Key[bounced'[i].write] = k => store'[k] = Effect(bounced'[i].write)
  <2> SUFFICES ASSUME k \notin tangled, NEW i \in DOMAIN bounced', Key[bounced'[i].write] = k
               PROVE  store'[k] = Effect(bounced'[i].write)
    BY <1>1
  <2>1. k # Key[w]
    BY <1>14 DEF Held
  <2> QED
    BY <1>2, <1>16, <2>1 DEF StoreInv
<1>21. ~ Held(k)' \/ k \in tangled' => Ok(k, store[k], Newest(LiveAt(k)))'
  <2> SUFFICES ASSUME ~ Held(k)' \/ k \in tangled
               PROVE  Ok(k, store'[k], Newest(LiveAt(k)))
    BY <1>1, <1>9, <1>10
  <2>1. CASE k # Key[w]
    BY <1>13, <1>16, <2>1 DEF StoreInv
  <2>2. CASE k = Key[w] /\ store[k] = Effect(w)
    BY <1>17, <1>19, <2>2
  <2>3. CASE k = Key[w] /\ store[k] # Effect(w)
    <3>1. k \in tangled
      BY <1>2, <2>3 DEF StoreInv, w
    <3> QED
      BY <1>18, <2>3, <3>1 DEF StoreInv
  <2> QED
    BY <2>1, <2>2, <2>3
<1>22. \A i \in DOMAIN bounced' :
          Key[bounced'[i].write] = k => Ok(k, bounced[i].prev, Newest(LiveAt(k)))'
  BY <1>2, <1>9, <1>10 DEF StoreInv
<1> QED
  BY <1>1, <1>9, <1>10, <1>20, <1>21, <1>22 DEF StoreInv

LEMMA FlushBatchStore ==
    ASSUME StructInv, NEW k \in Keys, StoreInv(k), FlushBatch
    PROVE  StoreInv(k)'
<1>1. /\ wal.queue # <<>> /\ wal.batch = <<>>
      /\ UNCHANGED <<status, store, bounced, writeDisabled, locked, log, opened, tangled>>
  BY DEF FlushBatch, writeVars, recoveryVars, compactionVars, historyVars
<1>2. /\ wal'.queue = <<>> /\ wal'.group = NoGroup /\ wal'.batchGroup = wal.group
      /\ wal'.closed = wal.closed
  BY DEF FlushBatch, StructInv, WalType
<1>3. DOMAIN wal'.group = {}
  BY <1>2 DEF NoGroup
<1>4. \A v, j : Ok(k, v, j) => Ok(k, v, j)'
  <2>1. Pending(k)' = Pending(k) /\ (Dead => Dead')
    BY <1>1, <1>2 DEF Pending, Dead
  <2> QED
    BY <1>1, <2>1, OkKept
<1>5. AckedAt(k)' = AckedAt(k) /\ LiveAt(k)' = LiveAt(k) /\ Held(k)' = Held(k)
  BY <1>1 DEF AckedAt, LiveAt, Held
<1>6. LandingAt(k) = AckedAt(k)
  <2>1. /\ Before \in Nat /\ Len(wal.batch) = 0 /\ Len(wal.queue) \in Nat
        /\ Len(log) = Before + 0 + Len(wal.queue) /\ DOMAIN log = 1..Len(log)
    BY <1>1, InBatch
  <2>2. Len(log) - Len(wal.queue) = Before
    BY <2>1
  <2>3. \A i \in DOMAIN log : status[log[i]] \in
           IF i > Before THEN {"applied"} ELSE {"acked", "rejected"}
    BY DEF StructInv, LogInv
  <2> QED
    BY <2>1, <2>2, <2>3 DEF LandingAt, LiveAt, AckedAt
<1> QED
  BY <1>1, <1>2, <1>3, <1>4, <1>5, <1>6 DEF StoreInv

(* What is acknowledged by a group that lands was on its way.               *)
LEMMA LandedPlaces ==
    ASSUME StructInv
    PROVE  /\ \A k : LandingAt(k) =
                 {i \in DOMAIN log : Key[log[i]] = k /\
                     (status[log[i]] = "acked" \/ log[i] \in ToSet(wal.batch))}
           /\ \A i \in DOMAIN log : status[log[i]] = "applied" <=> i > Before
<1>1. /\ Before \in Nat /\ Len(wal.batch) \in Nat /\ Len(wal.queue) \in Nat
      /\ Len(log) = Before + Len(wal.batch) + Len(wal.queue) /\ DOMAIN log = 1..Len(log)
  BY InBatch
<1>2. Len(log) - Len(wal.queue) = Before + Len(wal.batch)
  BY <1>1
<1>3. \A i \in DOMAIN log : status[log[i]] \in
         IF i > Before THEN {"applied"} ELSE {"acked", "rejected"}
  BY DEF StructInv, LogInv
<1>4. \A i \in DOMAIN log :
         log[i] \in ToSet(wal.batch) <=> i > Before /\ i <= Before + Len(wal.batch)
  <2>1. \A i \in DOMAIN log : i > Before /\ i <= Before + Len(wal.batch) => log[i] \in ToSet(wal.batch)
    <3> SUFFICES ASSUME NEW i \in DOMAIN log, i > Before, i <= Before + Len(wal.batch)
                 PROVE  log[i] \in ToSet(wal.batch)
      OBVIOUS
    <3>1. i - Before \in 1..Len(wal.batch) /\ log[i] = wal.batch[i - Before]
      BY InBatch
    <3> QED
      BY <3>1 DEF ToSet, StructInv, WalType
  <2> QED
    BY <2>1, InBatch
<1>5. \A i \in DOMAIN log : (i <= Before => i <= Before + Len(wal.batch)) /\ (i > Before <=> ~ (i <= Before))
  BY <1>1
<1> QED
  BY <1>2, <1>3, <1>4, <1>5 DEF LandingAt, LiveAt

LEMMA GroupLandsStore ==
    ASSUME StructInv, NEW k \in Keys, StoreInv(k), GroupLands,
           UNCHANGED <<store, bounced, log, opened, tangled, writeDisabled, locked>>,
           wal'.queue = wal.queue, wal'.group = wal.group, wal'.batchGroup = NoGroup,
           wal'.closed = wal.closed
    PROVE  StoreInv(k)'
<1>1. /\ status' \in [Writes -> Statuses]
      /\ \A w \in Writes : status'[w] = IF w \in ToSet(wal.batch) THEN "acked" ELSE status[w]
  BY SomeBecome DEF GroupLands, Statuses
<1>2. \A w \in ToSet(wal.batch) : status[w] = "applied"
  BY InBatch
<1>3. Pending(k)' = Pending(k) /\ Dead' = Dead /\ Held(k)' = Held(k)
  BY <1>1, <1>2 DEF Pending, Dead, Held
<1>4. \A v, j : Ok(k, v, j) => Ok(k, v, j)'
  BY <1>3, OkKept
<1>5. \A i \in DOMAIN log : log[i] \in Writes
  BY DEF StructInv, WriteTypes
<1>6. LiveAt(k)' = LiveAt(k)
  BY <1>1, <1>2, <1>5 DEF LiveAt
<1>7. LandingAt(k)' = LandingAt(k)
  BY <1>6 DEF LandingAt
<1>8. DOMAIN wal'.batchGroup = {}
  BY DEF NoGroup
<1> QED
  BY <1>3, <1>4, <1>6, <1>7, <1>8 DEF StoreInv

LEMMA WriteLandsStore ==
    ASSUME StructInv, NEW k \in Keys, StoreInv(k), WriteLands
    PROVE  StoreInv(k)'
<1>1. UNCHANGED <<store, bounced, log, opened, tangled, writeDisabled, locked>>
  BY DEF WriteLands, recoveryVars, compactionVars, historyVars
<1>2. /\ wal'.queue = wal.queue /\ wal'.group = wal.group /\ wal'.closed = wal.closed
      /\ \/ UNCHANGED status /\ wal'.batchGroup = wal.batchGroup
         \/ GroupLands /\ wal'.batchGroup = NoGroup
  BY DEF WriteLands, StructInv, WalType
<1>3. CASE UNCHANGED status /\ wal'.batchGroup = wal.batchGroup
  <2>1. Dead => Dead'
    BY <1>1, <1>2 DEF Dead
  <2> QED
    BY <1>1, <1>2, <1>3, <2>1, StoreOfSame
<1>4. CASE GroupLands /\ wal'.batchGroup = NoGroup
  BY <1>1, <1>2, <1>4, GroupLandsStore
<1> QED
  BY <1>2, <1>3, <1>4

LEMMA SyncLandsStore ==
    ASSUME StructInv, NEW k \in Keys, StoreInv(k), SyncLands
    PROVE  StoreInv(k)'
<1>1. /\ UNCHANGED <<store, bounced, log, opened, tangled, writeDisabled, locked>> /\ GroupLands
  BY DEF SyncLands, recoveryVars, compactionVars, historyVars
<1>2. /\ wal'.queue = wal.queue /\ wal'.group = wal.group /\ wal'.closed = wal.closed
      /\ wal'.batchGroup = NoGroup
  BY DEF SyncLands, StructInv, WalType
<1> QED
  BY <1>1, <1>2, GroupLandsStore

LEMMA ToSetOfConcat ==
    ASSUME NEW l \in Seq(Writes), NEW m \in Seq(Writes), NEW w \in ToSet(l \o m)
    PROVE  w \in ToSet(l) \/ w \in ToSet(m)
<1>1. /\ Len(l) \in Nat /\ Len(m) \in Nat /\ l \o m \in Seq(Writes)
      /\ Len(l \o m) = Len(l) + Len(m)
      /\ \A i \in 1..(Len(l) + Len(m)) : (l \o m)[i] = IF i <= Len(l) THEN l[i] ELSE m[i - Len(l)]
  BY ConcatProperties
<1>2. PICK i \in 1..(Len(l) + Len(m)) : w = (l \o m)[i]
  BY <1>1 DEF ToSet
<1>3. \A x, y \in Nat : \A z \in 1..(x + y) : IF z <= x THEN z \in 1..x ELSE z - x \in 1..y
  OBVIOUS
<1>4. DOMAIN l = 1..Len(l) /\ DOMAIN m = 1..Len(m)
  OBVIOUS
<1> QED
  BY <1>1, <1>2, <1>3, <1>4 DEF ToSet

(* The rollback of every group that has not landed leaves of each key the   *)
(* record it had when its last write was acknowledged.                      *)
LEMMA FlushFailsStore ==
    ASSUME StructInv, NEW k \in Keys, StoreInv(k), FlushFails
    PROVE  StoreInv(k)'
<1>1. /\ bounced = <<>>
      /\ Becomes(ToSet(wal.batch \o wal.queue), "rejected") /\ store' = RolledBack
      /\ UNCHANGED <<bounced, writeDisabled, locked, log, opened, tangled>>
  BY DEF FlushFails, Microtasks, compactionVars, historyVars
<1>2. /\ wal'.queue = <<>> /\ wal'.group = NoGroup /\ wal'.batchGroup = NoGroup
      /\ wal'.closed = wal.closed
  <2>1. PICK written \in IF wal.landed THEN {0} ELSE 0..Len(wal.batch) :
          wal' = [wal EXCEPT !.poisoned = TRUE, !.size = @ + written, !.landed = FALSE,
                             !.batch = <<>>, !.batchGroup = NoGroup,
                             !.queue = <<>>, !.group = NoGroup]
    BY DEF FlushFails
  <2> QED
    BY <2>1 DEF StructInv, WalType
<1>3. DOMAIN wal'.group = {} /\ DOMAIN wal'.batchGroup = {}
  BY <1>2 DEF NoGroup
<1>4. /\ status' \in [Writes -> Statuses]
      /\ \A w \in Writes : status'[w] =
            IF w \in ToSet(wal.batch \o wal.queue) THEN "rejected" ELSE status[w]
  BY <1>1, SomeBecome DEF Statuses
<1>5. Pending(k)' = Pending(k)
  BY <1>4, OnTheWay DEF Pending
<1>6. \A v, j : Ok(k, v, j) => Ok(k, v, j)'
  <2>1. Dead => Dead'
    BY <1>1, <1>2 DEF Dead
  <2> QED
    BY <1>1, <1>5, <2>1, OkKept
<1>7. LiveAt(k)' = AckedAt(k)
  <2>1. \A i \in DOMAIN log : log[i] \in Writes
    BY DEF StructInv, WriteTypes
  <2>2. \A i \in DOMAIN log : status[log[i]] = "applied" <=> log[i] \in ToSet(wal.batch \o wal.queue)
    BY OnTheWay, LandedPlaces
  <2>3. \A i \in DOMAIN log : status'[log[i]] \in {"acked", "applied"} <=> status[log[i]] = "acked"
    BY <1>4, <2>1, <2>2
  <2> QED
    BY <1>1, <2>3 DEF LiveAt, AckedAt
<1>8. DOMAIN bounced = {} /\ ~ Held(k) /\ ~ Held(k)'
  BY <1>1 DEF Held
<1>9. Ok(k, RolledBack[k], Newest(AckedAt(k)))
  <2>1. /\ DOMAIN wal.group = KeysOf(wal.queue) /\ DOMAIN wal.batchGroup = KeysOf(wal.batch)
        /\ wal.batch \in Seq(Writes) /\ wal.queue \in Seq(Writes)
    BY DEF StructInv, WalType
  <2>2. CASE k \in DOMAIN wal.batchGroup
    <3>1. RolledBack[k] = wal.batchGroup[k]
      BY <2>2 DEF RolledBack
    <3> QED
      BY <2>2, <3>1 DEF StoreInv
  <2>3. ASSUME k \notin DOMAIN wal.batchGroup PROVE LandingAt(k) = AckedAt(k)
    <3>1. \A w \in ToSet(wal.batch) : Key[w] # k
      BY <2>1, <2>3 DEF KeysOf, ToSet
    <3> QED
      BY <3>1, LandedPlaces DEF AckedAt
  <2>4. CASE k \in DOMAIN wal.group /\ k \notin DOMAIN wal.batchGroup
    <3>1. RolledBack[k] = wal.group[k]
      BY <2>4 DEF RolledBack
    <3> QED
      BY <2>3, <2>4, <3>1 DEF StoreInv
  <2>5. CASE k \notin DOMAIN wal.group /\ k \notin DOMAIN wal.batchGroup
    <3>1. RolledBack[k] = store[k]
      BY <2>5 DEF RolledBack
    <3>2. \A w \in ToSet(wal.batch \o wal.queue) : Key[w] # k
      <4> SUFFICES ASSUME NEW w \in ToSet(wal.batch \o wal.queue) PROVE Key[w] # k
        OBVIOUS
      <4>1. w \in ToSet(wal.batch) \/ w \in ToSet(wal.queue)
        BY <2>1, ToSetOfConcat
      <4> QED
        BY <2>1, <2>5, <4>1 DEF KeysOf, ToSet
    <3>3. LiveAt(k) = AckedAt(k)
      <4>1. \A i \in DOMAIN log : Key[log[i]] = k => status[log[i]] # "applied"
        BY <3>2, OnTheWay, LandedPlaces
      <4> QED
        BY <4>1 DEF LiveAt, AckedAt
    <3> QED
      BY <1>8, <3>1, <3>3 DEF StoreInv
  <2> QED
    BY <2>2, <2>4, <2>5
<1>10. Ok(k, store[k], Newest(LiveAt(k)))'
  BY <1>1, <1>6, <1>7, <1>9
<1> QED
  BY <1>1, <1>3, <1>8, <1>10 DEF StoreInv

(* A step of a compaction or of a recovery does not touch the store.        *)
LEMMA StoreOfCompaction ==
    ASSUME StructInv, NEW k \in Keys, StoreInv(k), Quiet,
           UNCHANGED <<status, store, bounced, log, opened, tangled>>,
           wal' = OpenWal(Len(disk.wal)), Dead => Dead'
    PROVE  StoreInv(k)'
<1>1. wal'.queue = wal.queue /\ DOMAIN wal'.group = {} /\ DOMAIN wal'.batchGroup = {}
  BY DEF OpenWal, Quiet, NoGroup
<1>2. Pending(k)' = Pending(k)
  BY DEF Pending
<1> QED
  BY <1>1, <1>2, StoreKept

LEMMA TruncateStore ==
    ASSUME StructInv, NEW k \in Keys, StoreInv(k), Truncate
    PROVE  StoreInv(k)'
<1>1. UNCHANGED <<status, store, bounced, log, opened, tangled, wal, locked>>
  BY DEF Truncate, writeVars, compactionVars, historyVars
<1>2. writeDisabled => writeDisabled'
  BY DEF Truncate
<1>3. Dead => Dead'
  BY <1>1, <1>2 DEF Dead
<1> QED
  BY <1>1, <1>3, StoreOfSame

LEMMA RefreshSizeStore ==
    ASSUME StructInv, NEW k \in Keys, StoreInv(k), RefreshSize
    PROVE  StoreInv(k)'
<1>1. UNCHANGED <<status, store, bounced, log, opened, tangled, writeDisabled, locked>>
  BY DEF RefreshSize, writeVars, compactionVars, historyVars
<1>2. /\ wal'.queue = wal.queue /\ wal'.group = wal.group /\ wal'.batchGroup = wal.batchGroup
      /\ wal'.closed = wal.closed
  BY DEF RefreshSize, StructInv, WalType
<1>3. Dead => Dead'
  BY <1>1, <1>2 DEF Dead
<1> QED
  BY <1>1, <1>2, <1>3, StoreOfSame

LEMMA CompactingStore ==
    ASSUME StructInv, NEW k \in Keys, StoreInv(k), Compact \/ Compacting
    PROVE  StoreInv(k)'
<1>1. UNCHANGED <<status, store, bounced, log, opened, tangled, writeDisabled>>
  BY DEF Compact, Compacting, Fence, WriteSnapshot, PreCopy, Seal, DrainAndClose, RenameSnapshot,
         SyncSnapshotName, RenameLog, SyncLogName, CompactionFails, RotationFails, SwapLog,
         keptByCompaction, writeVars, recoveryVars, historyVars
<1>2. CASE SyncLogName
  <2>1. Quiet /\ locked /\ wal' = OpenWal(Len(disk.wal))
    BY <1>2 DEF SyncLogName, StructInv, RecoveryInv, LockInv, Renaming
  <2>2. Dead => Dead'
    BY <1>1, <2>1 DEF Dead
  <2> QED
    BY <1>1, <2>1, <2>2, StoreOfCompaction
<1>3. CASE SwapLog
  <2>1. Quiet /\ locked /\ (wal' = OpenWal(Len(disk.wal)) \/ wal' = wal)
    BY <1>3 DEF SwapLog, StructInv, RecoveryInv, LockInv, Quiet
  <2>2. Dead => Dead'
    BY <1>1, <2>1 DEF Dead
  <2> QED
    BY <1>1, <2>1, <2>2, StoreOfCompaction, StoreOfSame
<1>4. CASE Seal \/ DrainAndClose \/ RotationFails
  <2>1. /\ wal'.queue = wal.queue /\ wal'.group = wal.group /\ wal'.batchGroup = wal.batchGroup
        /\ (wal.closed => wal'.closed)
    BY <1>4 DEF Seal, DrainAndClose, RotationFails, StructInv, WalType
  <2>2. ((wal.closed => locked) /\ ~ writeDisabled) \/ locked' = locked \/ writeDisabled
    BY <1>4 DEF Seal, DrainAndClose, RotationFails, StructInv, LockInv, Copying
  <2>3. Dead => Dead'
    <3>1. CASE Seal
      <4>1. ~ wal.closed
        BY <3>1 DEF Seal, StructInv, LockInv, Copying
      <4> QED
        BY <1>1, <4>1 DEF Dead
    <3>2. CASE DrainAndClose \/ RotationFails
      <4>1. locked' = locked
        BY <3>2 DEF DrainAndClose, RotationFails
      <4> QED
        BY <1>1, <2>1, <4>1 DEF Dead
    <3> QED
      BY <1>4, <3>1, <3>2
  <2> QED
    BY <1>1, <2>1, <2>3, StoreOfSame
<1>5. CASE UNCHANGED <<wal, locked>>
  <2>1. Dead => Dead'
    BY <1>1, <1>5 DEF Dead
  <2> QED
    BY <1>1, <1>5, <2>1, StoreOfSame
<1>6. UNCHANGED <<wal, locked>> \/ SyncLogName \/ SwapLog \/ Seal \/ DrainAndClose \/ RotationFails
  BY DEF Compact, Compacting, Fence, WriteSnapshot, PreCopy, RenameSnapshot,
         SyncSnapshotName, RenameLog, CompactionFails
<1> QED
  BY <1>2, <1>3, <1>4, <1>5, <1>6

(* What a crash leaves was allowed.                                         *)
LEMMA CrashStore ==
    ASSUME StructInv, AckedSurvives, NEW k \in Keys, Crash
    PROVE  StoreInv(k)'
<1>1. /\ store' = Reopened(disk') /\ opened' = [x \in Keys |-> Allowed(x)]
      /\ log' = <<>> /\ bounced' = <<>> /\ wal' = OpenWal(Len(disk'.wal))
  BY DEF Crash
<1>2. Reopened(disk')[k] \in Allowed(k)
  <2>1. disk' = disk \/ (MayLosePower /\ disk' \in PowerLost)
    BY DEF Crash
  <2> QED
    BY <2>1 DEF AckedSurvives
<1>3. store'[k] \in opened'[k]
  BY <1>1, <1>2
<1>4. DOMAIN wal'.group = {} /\ DOMAIN wal'.batchGroup = {}
  BY <1>1 DEF OpenWal, NoGroup
<1>5. LiveAt(k)' = {}
  BY <1>1 DEF LiveAt
<1>6. Newest(LiveAt(k)') = 0
  BY <1>5 DEF Newest
<1>7. \A v, j : v \in opened'[k] /\ j = 0 => Ok(k, v, j)'
  BY DEF Ok, Exact
<1>8. Ok(k, store[k], Newest(LiveAt(k)))'
  BY <1>3, <1>6, <1>7
<1> QED
  BY <1>1, <1>4, <1>8 DEF StoreInv

LEMMA InitStore == ASSUME Init, NEW k \in Keys PROVE StoreInv(k)
<1>1. /\ store = NoValues /\ bounced = <<>> /\ wal = OpenWal(0)
      /\ log = <<>> /\ opened = [x \in Keys |-> {None}]
  BY DEF Init
<1>2. DOMAIN wal.group = {} /\ DOMAIN wal.batchGroup = {} /\ store[k] \in opened[k]
  BY <1>1 DEF OpenWal, NoGroup, NoValues
<1>3. LiveAt(k) = {}
  BY <1>1 DEF LiveAt
<1>4. Newest(LiveAt(k)) = 0
  BY <1>3 DEF Newest
<1>5. Ok(k, store[k], Newest(LiveAt(k)))
  BY <1>2, <1>4 DEF Ok, Exact
<1> QED
  BY <1>1, <1>2, <1>5 DEF StoreInv

LEMMA StoreIsLive ==
    ASSUME StructInv, \A k \in Keys : StoreInv(k)
    PROVE  LiveIsAcked
<1> SUFFICES ASSUME NEW k \in Keys \ tangled, ~ InFlight(k)
             PROVE  IF LastAcked(k) = 0 THEN store[k] \in opened[k]
                    ELSE store[k] = Effect(log[LastAcked(k)])
  BY DEF LiveIsAcked
<1>1. ~ Held(k)
  <2> SUFFICES ASSUME NEW i \in DOMAIN bounced, Key[bounced[i].write] = k PROVE FALSE
    BY DEF Held
  <2>1. bounced[i].write \in Writes /\ status[bounced[i].write] = "bounced"
    BY BouncedTypes DEF StructInv, BouncedInv
  <2> QED
    BY <2>1 DEF InFlight
<1>2. LiveAt(k) = AckedAt(k)
  <2>1. \A i \in DOMAIN log : log[i] \in Writes
    BY DEF StructInv, WriteTypes
  <2> QED
    BY <2>1 DEF LiveAt, AckedAt, InFlight
<1>3. LastAcked(k) = Newest(AckedAt(k))
  BY DEF LastAcked, Newest, AckedAt
<1>4. Exact(k, store[k], Newest(AckedAt(k)))
  BY <1>1, <1>2 DEF StoreInv, Ok, Loose
<1> QED
  BY <1>3, <1>4 DEF Exact

-----------------------------------------------------------------------------
(* The files: which cuts of the log a reopen may find, and that each shows  *)
(* what it is allowed to show.                                              *)
LEMMA LastAckedIs ==
    ASSUME StructInv, NEW k
    PROVE  /\ LastAcked(k) = Newest(AckedAt(k)) /\ AckedAt(k) \in SUBSET (1..Before)
           /\ LastAcked(k) \in 0..Before
<1>1. LastAcked(k) = Newest(AckedAt(k))
  BY DEF LastAcked, Newest, AckedAt
<1>2. Before \in Nat /\ DOMAIN log = 1..Len(log) /\ Len(log) \in Nat
  BY InBatch
<1>3. \A i \in DOMAIN log : status[log[i]] = "acked" => ~ (i > Before)
  BY LandedPlaces
<1>4. AckedAt(k) \in SUBSET (1..Before)
  BY <1>2, <1>3 DEF AckedAt
<1>5. AckedAt(k) \in SUBSET DOMAIN log
  BY DEF AckedAt
<1>6. Newest(AckedAt(k)) = 0 \/ Newest(AckedAt(k)) \in AckedAt(k)
  BY <1>5, NewestPlace
<1> QED
  BY <1>1, <1>2, <1>4, <1>6

LEMMA AllowedKept ==
    ASSUME log' = log, opened' = opened,
           \A i \in DOMAIN log : status'[log[i]] = "acked" <=> status[log[i]] = "acked"
    PROVE  \A k : Allowed(k)' = Allowed(k)
<1>1. \A k : AckedAt(k)' = AckedAt(k)
  BY DEF AckedAt
<1>2. \A k : LastAcked(k)' = Newest(AckedAt(k)') /\ LastAcked(k) = Newest(AckedAt(k))
  BY DEF LastAcked, Newest, AckedAt
<1>3. \A k : LastAcked(k)' = LastAcked(k)
  BY <1>1, <1>2
<1> QED
  BY <1>3 DEF Allowed

(* The frames of a group are values their keys may show.                    *)
LEMMA LandingValue ==
    ASSUME StructInv, NEW s, NEW l \in Seq(Writes), NEW k \in Keys,
           Value(s, l, k) \in Allowed(k), NEW m \in 0..Len(wal.batch)
    PROVE  Value(s, l \o SubSeq(wal.batch, 1, m), k) \in Allowed(k)
<1> DEFINE p == SubSeq(wal.batch, 1, m)
<1>1. /\ wal.batch \in Seq(Writes) /\ Len(wal.batch) \in Nat /\ Before \in Nat /\ Len(wal.queue) \in Nat
      /\ Len(log) = Before + Len(wal.batch) + Len(wal.queue) /\ DOMAIN log = 1..Len(log)
  BY InBatch DEF StructInv, WalType
<1>2. p \in Seq(Writes) /\ Len(p) = m /\ \A i \in 1..m : p[i] = wal.batch[i]
  <2>1. m \in Nat /\ m <= Len(wal.batch) /\ m - 0 = m /\ \A i \in 1..m : 0 + i = i
    BY <1>1
  <2>2. /\ SubSeq(wal.batch, 0 + 1, m) \in Seq(Writes) /\ Len(SubSeq(wal.batch, 0 + 1, m)) = m - 0
        /\ \A i \in 1..(m - 0) : SubSeq(wal.batch, 0 + 1, m)[i] = wal.batch[0 + i]
    BY <1>1, <2>1, CutProperties
  <2> QED
    BY <2>1, <2>2
<1> HIDE DEF p
<1>3. Value(s, l \o p, k) = IF At(p, k) = {} THEN Value(s, l, k) ELSE Value(s, p, k)
  BY <1>2, ValueOfConcat
<1>4. CASE At(p, k) = {}
  BY <1>3, <1>4 DEF p
<1>5. CASE At(p, k) # {}
  <2>1. PICK i \in At(p, k) : Value(s, p, k) = Effect(p[i])
    BY <1>2, <1>5, LastFrame
  <2>2. i \in 1..m /\ i \in 1..Len(wal.batch) /\ Key[p[i]] = k /\ p[i] = wal.batch[i]
    BY <1>1, <1>2, <2>1 DEF At
  <2>3. Before + i \in DOMAIN log /\ Before + i >= LastAcked(k)
    <3>1. \A x, y, z, v \in Nat : \A j \in 1..y : v <= x => x + j \in 1..(x + y + z) /\ x + j >= v
      OBVIOUS
    <3>2. LastAcked(k) \in Nat /\ LastAcked(k) <= Before
      BY <1>1, LastAckedIs
    <3> QED
      BY <1>1, <2>2, <3>1, <3>2
  <2>4. log[Before + i] = wal.batch[i]
    BY <2>2 DEF StructInv, LogInv
  <2>5. Effect(log[Before + i]) \in Allowed(k)
    BY <2>2, <2>3, <2>4 DEF Allowed
  <2> QED
    BY <1>3, <1>5, <2>1, <2>2, <2>4, <2>5 DEF p
<1> QED
  BY <1>4, <1>5

(* Once they are acknowledged they hide what came before them.              *)
LEMMA LandedValue ==
    ASSUME StructInv, GroupLands, log' = log, opened' = opened,
           NEW s, NEW l \in Seq(Writes), NEW k \in Keys, Value(s, l, k) \in Allowed(k)
    PROVE  Value(s, l \o wal.batch, k) \in Allowed(k)'
<1> DEFINE p == wal.batch
<1>1. /\ p \in Seq(Writes) /\ Len(p) \in Nat /\ Before \in Nat /\ Len(wal.queue) \in Nat
      /\ Len(log) = Before + Len(p) + Len(wal.queue) /\ DOMAIN log = 1..Len(log)
      /\ \A i \in DOMAIN log : log[i] \in Writes
  BY InBatch DEF StructInv, WalType, WriteTypes
<1>2. \A w \in Writes : status'[w] = IF w \in ToSet(p) THEN "acked" ELSE status[w]
  BY SomeBecome DEF GroupLands, Statuses
<1>3. Value(s, l \o p, k) = IF At(p, k) = {} THEN Value(s, l, k) ELSE Value(s, p, k)
  BY <1>1, ValueOfConcat
<1>4. CASE At(p, k) = {}
  <2>1. \A w \in ToSet(p) : Key[w] # k
    BY <1>4 DEF At, ToSet
  <2>2. AckedAt(k)' = AckedAt(k)
    BY <1>1, <1>2, <2>1 DEF AckedAt
  <2>3. LastAcked(k)' = LastAcked(k)
    <3>1. LastAcked(k)' = Newest(AckedAt(k)') /\ LastAcked(k) = Newest(AckedAt(k))
      BY DEF LastAcked, Newest, AckedAt
    <3> QED
      BY <2>2, <3>1
  <2>4. Allowed(k)' = Allowed(k)
    BY <2>3 DEF Allowed
  <2> QED
    BY <1>3, <1>4, <2>4
<1>5. CASE At(p, k) # {}
  <2>1. PICK i \in At(p, k) : (\A j \in At(p, k) : j <= i) /\ Value(s, p, k) = Effect(p[i])
    BY <1>1, <1>5, LastFrame
  <2>2. i \in 1..Len(p) /\ Key[p[i]] = k
    BY <1>1, <2>1 DEF At
  <2>3. log[Before + i] = p[i]
    BY <2>2 DEF StructInv, LogInv
  <2>4. Before + i \in DOMAIN log /\ Before + i \in Nat
    <3>1. \A x, y, z \in Nat : \A j \in 1..y : x + j \in 1..(x + y + z) /\ x + j \in Nat
      OBVIOUS
    <3> QED
      BY <1>1, <2>2, <3>1
  <2>5. Before + i \in AckedAt(k)'
    <3>1. log[Before + i] \in ToSet(p) /\ log[Before + i] \in Writes
      <4>1. i \in DOMAIN p
        BY <1>1, <2>2
      <4> QED
        BY <1>1, <2>3, <2>4, <4>1 DEF ToSet
    <3>2. status'[log[Before + i]] = "acked" /\ Key[log[Before + i]] = k
      BY <1>2, <2>2, <2>3, <3>1
    <3>3. \A n \in DOMAIN log : Key[log[n]] = k /\ status'[log[n]] = "acked" => n \in AckedAt(k)'
      BY DEF AckedAt
    <3> QED
      BY <2>4, <3>2, <3>3
  <2>6. ASSUME NEW n \in AckedAt(k)' PROVE n <= Before + i
    <3>1. n \in DOMAIN log /\ Key[log[n]] = k /\ status'[log[n]] = "acked"
      BY <2>6 DEF AckedAt
    <3>2. CASE n > Before
      <4>1. log[n] \in ToSet(p)
        BY <1>1, <1>2, <3>1, <3>2, LandedPlaces
      <4>2. n <= Before + Len(p)
        BY <3>1, <4>1, InBatch
      <4>3. n - Before \in 1..Len(p) /\ log[n] = p[n - Before]
        BY <3>1, <3>2, <4>2, InBatch
      <4>4. n - Before \in At(p, k)
        BY <1>1, <3>1, <4>3 DEF At
      <4>5. n - Before <= i
        BY <2>1, <4>4
      <4> QED
        BY <1>1, <2>2, <3>1, <4>5
    <3>3. CASE ~ (n > Before)
      BY <1>1, <2>2, <3>1, <3>3
    <3> QED
      BY <3>2, <3>3
  <2>7. Newest(AckedAt(k)') = Before + i
    <3>1. AckedAt(k)' \subseteq DOMAIN log
      BY DEF AckedAt
    <3>2. DOMAIN log = 1..Len(log) /\ Len(log) \in Nat
      BY InBatch, <1>1
    <3>3. \A I \in SUBSET (1..Len(log)) : \A i1 \in I : (\A j \in I : j <= i1) => Newest(I) = i1
      BY <3>2, NewestIs
    <3>4. AckedAt(k)' \in SUBSET (1..Len(log))
      BY <3>1, <3>2
    <3> QED
      BY <2>5, <2>6, <3>3, <3>4
  <2>8. LastAcked(k)' = Before + i
    BY <2>7 DEF LastAcked, Newest, AckedAt
  <2>9. Effect(log[Before + i]) \in Allowed(k)'
    <3>1. \A n : n = Before + i => Key[log[n]] = k /\ n \in DOMAIN log /\ n >= n
      BY <2>2, <2>3, <2>4
    <3> QED
      BY <2>8, <3>1 DEF Allowed
  <2> QED
    BY <1>3, <1>5, <2>1, <2>3, <2>9
<1> QED
  BY <1>4, <1>5

-----------------------------------------------------------------------------
(* A reopen may read the log behind a snapshot from its start, or what a    *)
(* compaction copied of it and the rest.                                    *)
Source(s, start, from) == [snapshot |-> s, start |-> start, from |-> from]
Sources == [snapshot : Values, start : Seq(Writes), from : Nat]
Reads(r, n) == r.start \o SubSeq(disk.wal, r.from + 1, n)
Good(r, n) == \A k \in Keys : Value(r.snapshot, Reads(r, n), k) \in Allowed(k)

(* Frames below the floor are in the file whatever becomes of the flush     *)
(* that is under way.                                                       *)
Floor == IF wal.landed THEN wal.size - Len(wal.batch)
         ELSE IF recovery.pc = "truncate" THEN recovery.at ELSE Len(disk.wal)
FloorGood(r) == r.from <= Floor /\ \A n \in Floor..Len(disk.wal) : Good(r, n)
PowerGood(r) == \A n \in 0..Len(disk.wal) : n >= Len(synced.wal) => Good(r, n)

LEMMA FloorType == ASSUME StructInv PROVE Floor \in 0..Len(disk.wal)
<1>1. Len(disk.wal) \in Nat /\ wal.size \in Nat /\ Len(wal.batch) \in Nat
  BY FilesTyped, InBatch DEF StructInv, WalType
<1>2. CASE wal.landed
  <2>1. wal.size = Len(disk.wal) /\ Len(wal.batch) <= wal.size
    BY <1>2 DEF StructInv, SizeInv, RecoveryInv, Quiet
  <2>2. \A x, y \in Nat : y <= x => x - y \in 0..x
    OBVIOUS
  <2>3. wal.size - Len(wal.batch) \in 0..wal.size
    BY <1>1, <2>1, <2>2
  <2> QED
    BY <1>2, <2>1, <2>3 DEF Floor
<1>3. CASE ~ wal.landed /\ recovery.pc = "truncate"
  <2>1. recovery.at \in Nat /\ recovery.at <= Len(disk.wal)
    BY <1>3 DEF StructInv, FileTypes, RecoveryInv
  <2> QED
    BY <1>1, <1>3, <2>1 DEF Floor
<1>4. CASE ~ wal.landed /\ recovery.pc # "truncate"
  BY <1>1, <1>4 DEF Floor
<1> QED
  BY <1>2, <1>3, <1>4

LEMMA ReadsType ==
    ASSUME StructInv, NEW r \in Sources, NEW n \in Nat, r.from <= n, n <= Len(disk.wal)
    PROVE  Reads(r, n) \in Seq(Writes) /\ SubSeq(disk.wal, r.from + 1, n) \in Seq(Writes)
<1>1. r.start \in Seq(Writes) /\ r.from \in Nat
  BY DEF Sources
<1>2. SubSeq(disk.wal, r.from + 1, n) \in Seq(Writes)
  BY <1>1, FilesTyped, CutProperties
<1> QED
  BY <1>1, <1>2, ConcatProperties DEF Reads

LEMMA Joined ==
    ASSUME NEW a \in Seq(Writes), NEW b \in Seq(Writes), NEW c \in Seq(Writes)
    PROVE  a \o (b \o c) = (a \o b) \o c
BY ConcatAssociative

(* The log grew by p.                                                       *)
LEMMA ReadsExtended ==
    ASSUME StructInv, NEW r \in Sources, r.from <= Len(disk.wal), NEW p \in Seq(Writes),
           disk'.wal = disk.wal \o p, NEW n \in Nat, r.from <= n, n <= Len(disk.wal) + Len(p)
    PROVE  /\ n <= Len(disk.wal) => Reads(r, n)' = Reads(r, n)
           /\ n >= Len(disk.wal) => /\ n - Len(disk.wal) \in 0..Len(p)
                                    /\ Reads(r, n)' = Reads(r, Len(disk.wal))
                                                        \o SubSeq(p, 1, n - Len(disk.wal))
<1> DEFINE l == disk.wal
<1>1. r.start \in Seq(Writes) /\ r.from \in Nat /\ l \in Seq(Writes) /\ Len(l) \in Nat
  BY FilesTyped DEF Sources
<1>2. Reads(r, n)' = r.start \o SubSeq(l \o p, r.from + 1, n)
  BY DEF Reads
<1>3. Reads(r, n) = r.start \o SubSeq(l, r.from + 1, n)
      /\ Reads(r, Len(l)) = r.start \o SubSeq(l, r.from + 1, Len(l))
  BY DEF Reads
<1> HIDE DEF l
<1>4. /\ n <= Len(l) => SubSeq(l \o p, r.from + 1, n) = SubSeq(l, r.from + 1, n)
      /\ n >= Len(l) => /\ n - Len(l) \in 0..Len(p)
                        /\ SubSeq(l \o p, r.from + 1, n) =
                             SubSeq(l, r.from + 1, Len(l)) \o SubSeq(p, 1, n - Len(l))
  <2>1. r.from \in Nat /\ r.from <= n /\ n <= Len(l) + Len(p) /\ r.from <= Len(l)
    BY <1>1 DEF l
  <2> DEFINE c == r.from
  <2>2. c \in Nat /\ c <= n /\ c <= Len(l) /\ n <= Len(l) + Len(p)
    BY <2>1
  <2> HIDE DEF c
  <2>3. /\ n <= Len(l) => SubSeq(l \o p, c + 1, n) = SubSeq(l, c + 1, n)
        /\ n >= Len(l) => /\ n - Len(l) \in 0..Len(p)
                          /\ SubSeq(l \o p, c + 1, n) =
                               SubSeq(l, c + 1, Len(l)) \o SubSeq(p, 1, n - Len(l))
    <3>1. l \in Seq(Writes)
      BY <1>1
    <3> QED
      BY <2>2, <3>1, CutOfConcat, Zenon
  <2> QED
    BY <2>3 DEF c
<1>5. ASSUME n >= Len(l)
      PROVE  r.start \o (SubSeq(l, r.from + 1, Len(l)) \o SubSeq(p, 1, n - Len(l))) =
             (r.start \o SubSeq(l, r.from + 1, Len(l))) \o SubSeq(p, 1, n - Len(l))
  <2>1. SubSeq(l, r.from + 1, Len(l)) \in Seq(Writes)
    <3>1. r.from <= Len(l)
      BY DEF l
    <3> QED
      BY <1>1, <3>1, CutProperties
  <2>2. SubSeq(p, 1, n - Len(l)) \in Seq(Writes)
    BY <1>4, <1>5, CutInTwo
  <2> DEFINE a == SubSeq(l, r.from + 1, Len(l))
             b == SubSeq(p, 1, n - Len(l))
  <2>3. a \in Seq(Writes) /\ b \in Seq(Writes)
    BY <2>1, <2>2
  <2> HIDE DEF a, b
  <2>4. r.start \o (a \o b) = (r.start \o a) \o b
    BY <1>1, <2>3, Joined
  <2> QED
    BY <2>4 DEF a, b
<1> QED
  BY <1>2, <1>3, <1>4, <1>5 DEF l

LEMMA CutOfCut ==
    ASSUME NEW l \in Seq(Writes), NEW m \in 0..Len(l), NEW n \in 0..m, NEW c \in 0..n
    PROVE  SubSeq(SubSeq(l, 1, m), c + 1, n) = SubSeq(l, c + 1, n)
<1> DEFINE h == SubSeq(l, 1, m)
           a == SubSeq(h, c + 1, n)
           b == SubSeq(l, c + 1, n)
<1>1. Len(l) \in Nat /\ m \in Nat /\ n \in Nat /\ c \in Nat /\ n <= Len(l) /\ n <= m /\ c <= n /\ m <= Len(l)
  OBVIOUS
<1>2. h \in Seq(Writes) /\ Len(h) = m /\ \A i \in 1..m : h[i] = l[i]
  <2>1. m - 0 = m /\ 0 <= m /\ \A i \in 1..m : 0 + i = i
    BY <1>1
  <2>2. /\ SubSeq(l, 0 + 1, m) \in Seq(Writes) /\ Len(SubSeq(l, 0 + 1, m)) = m - 0
        /\ \A i \in 1..(m - 0) : SubSeq(l, 0 + 1, m)[i] = l[0 + i]
    BY <1>1, <2>1, CutProperties
  <2> QED
    BY <2>1, <2>2
<1> HIDE DEF h
<1>3. a \in Seq(Writes) /\ Len(a) = n - c /\ \A i \in 1..(n - c) : a[i] = h[c + i]
  BY <1>1, <1>2, CutProperties
<1>4. b \in Seq(Writes) /\ Len(b) = n - c /\ \A i \in 1..(n - c) : b[i] = l[c + i]
  BY <1>1, CutProperties
<1> HIDE DEF a, b
<1>5. \A i \in 1..(n - c) : c + i \in 1..m
  BY <1>1
<1>6. \A i \in 1..(n - c) : a[i] = b[i]
  BY <1>2, <1>3, <1>4, <1>5
<1>7. a = b
  BY <1>3, <1>4, <1>6, SeqEqual
<1> QED
  BY <1>7 DEF a, b, h

LEMMA GoodKept ==
    ASSUME disk'.wal = disk.wal, \A k \in Keys : Allowed(k) \subseteq Allowed(k)'
    PROVE  \A r, n : Good(r, n) => Good(r, n)'
<1>1. \A r, n : Reads(r, n)' = Reads(r, n)
  BY DEF Reads
<1> QED
  BY <1>1 DEF Good

(* Part of the batch is behind the log.                                     *)
LEMMA GoodExtended ==
    ASSUME StructInv, NEW r \in Sources, r.from <= Len(disk.wal), NEW m \in 0..Len(wal.batch),
           disk'.wal = disk.wal \o SubSeq(wal.batch, 1, m), \A k \in Keys : Allowed(k)' = Allowed(k),
           NEW n \in Nat, r.from <= n, n <= Len(disk.wal) + m,
           n <= Len(disk.wal) => Good(r, n), Good(r, Len(disk.wal))
    PROVE  Good(r, n)'
<1> DEFINE p == SubSeq(wal.batch, 1, m)
           d == n - Len(disk.wal)
<1>1. /\ wal.batch \in Seq(Writes) /\ Len(wal.batch) \in Nat /\ Len(disk.wal) \in Nat /\ m \in Nat
      /\ m <= Len(wal.batch) /\ r.from \in Nat
  BY InBatch, FilesTyped DEF StructInv, WalType, Sources
<1>2. p \in Seq(Writes) /\ Len(p) = m
  BY <1>1, CutInTwo
<1>3. SUFFICES ASSUME NEW k \in Keys PROVE Value(r.snapshot, Reads(r, n)', k) \in Allowed(k)
  BY DEF Good
<1>4. CASE n <= Len(disk.wal)
  <2>1. Reads(r, n)' = Reads(r, n)
    BY <1>1, <1>2, <1>4, ReadsExtended
  <2> QED
    BY <1>4, <2>1 DEF Good
<1>5. CASE n >= Len(disk.wal)
  <2>1. d \in 0..m /\ Reads(r, n)' = Reads(r, Len(disk.wal)) \o SubSeq(p, 1, d)
    BY <1>1, <1>2, <1>5, ReadsExtended
  <2>2. SubSeq(p, 0 + 1, d) = SubSeq(wal.batch, 0 + 1, d)
    BY <1>1, <2>1, CutOfCut
  <2>3. SubSeq(p, 1, d) = SubSeq(wal.batch, 1, d)
    BY <2>2
  <2>4. Reads(r, Len(disk.wal)) \in Seq(Writes)
    BY <1>1, ReadsType
  <2>5. d \in 0..Len(wal.batch)
    BY <1>1, <2>1
  <2> DEFINE l == Reads(r, Len(disk.wal))
  <2>6. Value(r.snapshot, l, k) \in Allowed(k)
    BY DEF Good
  <2> HIDE DEF p, d, l
  <2>7. Value(r.snapshot, l \o SubSeq(wal.batch, 1, d), k) \in Allowed(k)
    BY <2>4, <2>5, <2>6, LandingValue DEF l
  <2> QED
    BY <2>1, <2>3, <2>7 DEF l
<1> QED
  BY <1>1, <1>4, <1>5

(* The batch is behind the log and acknowledged.                            *)
LEMMA GoodLanded ==
    ASSUME StructInv, NEW r \in Sources, r.from <= Len(disk.wal), GroupLands,
           log' = log, opened' = opened, NEW n,
           NEW l \in Seq(Writes), \A k \in Keys : Value(r.snapshot, l, k) \in Allowed(k),
           Reads(r, n)' = l \o wal.batch
    PROVE  Good(r, n)'
BY LandedValue DEF Good

LEMMA WriteLandsGood ==
    ASSUME StructInv, WriteLands, NEW r \in Sources, FloorGood(r)
    PROVE  /\ FloorGood(r)' /\ Floor <= Floor'
           /\ policy = "always" /\ r.from = 0 /\ PowerGood(r) => PowerGood(r)'
<1> DEFINE b == wal.batch
           l == disk.wal
<1>1. /\ b # <<>> /\ ~ wal.landed /\ disk'.wal = l \o b
      /\ UNCHANGED <<synced, recovery, log, opened>>
  BY FilesTyped DEF WriteLands, Files, recoveryVars, historyVars
<1>2. /\ b \in Seq(Writes) /\ Len(b) \in Nat /\ l \in Seq(Writes) /\ Len(l) \in Nat
      /\ wal.size = Len(l) /\ recovery.pc = "idle" /\ r.from \in Nat /\ Len(synced.wal) \in Nat
  BY <1>1, FilesTyped, InBatch DEF StructInv, WalType, SizeInv, RecoveryInv, Quiet, Sources
<1>3. Len(l \o b) = Len(l) + Len(b)
  <2> HIDE DEF l, b
  <2> QED
    BY <1>2, ConcatProperties
<1>4. Floor = Len(l)
  BY <1>1, <1>2 DEF Floor
<1>5. r.from <= Len(l) /\ Good(r, Len(l))
  BY <1>2, <1>4 DEF FloorGood
<1>6. CASE policy = "always" /\ UNCHANGED status /\ wal'.landed /\ wal'.batch = b /\ wal'.size = wal.size + Len(b)
  <2>1. Floor' = Len(l)
    <3>1. (Len(l) + Len(b)) - Len(b) = Len(l)
      BY <1>2
    <3> QED
      BY <1>2, <1>6, <3>1 DEF Floor
  <2>2. \A k \in Keys : Allowed(k)' = Allowed(k)
    BY <1>1, <1>6, AllowedKept
  <2>3. disk'.wal = l \o SubSeq(b, 1, Len(b)) /\ Len(b) \in 0..Len(b)
    <3> HIDE DEF l, b
    <3>1. SubSeq(b, 1, Len(b)) = b /\ Len(b) \in 0..Len(b)
      BY <1>2, SubSeqFull
    <3> QED
      BY <1>1, <3>1
  <2>4. \A n \in Nat : r.from <= n /\ n <= Len(l) + Len(b) /\ (n <= Len(l) => Good(r, n)) => Good(r, n)'
    BY <1>5, <2>2, <2>3, GoodExtended
  <2>5. FloorGood(r)'
    <3>1. \A n \in Len(l)..(Len(l) + Len(b)) : n \in Nat /\ r.from <= n /\ (n <= Len(l) => n = Len(l))
      <4>1. r.from <= Len(l)
        BY <1>5
      <4>2. \A x, y, z \in Nat :
               z <= x => \A n \in x..(x + y) : n \in Nat /\ z <= n /\ (n <= x => n = x)
        OBVIOUS
      <4> HIDE DEF l, b
      <4> QED
        BY <1>2, <4>1, <4>2
    <3>2. \A n \in Len(l)..(Len(l) + Len(b)) : Good(r, n)'
      <4>1. Good(r, Len(l))
        BY <1>5
      <4> HIDE DEF l, b
      <4>2. SUFFICES ASSUME NEW n \in Len(l)..(Len(l) + Len(b)) PROVE Good(r, n)'
        OBVIOUS
      <4>3. n <= Len(l) + Len(b)
        BY <1>2
      <4>4. n <= Len(l) => Good(r, n)
        BY <3>1, <4>1
      <4> QED
        BY <2>4, <3>1, <4>3, <4>4
    <3> QED
      BY <1>1, <1>3, <1>5, <2>1, <3>2 DEF FloorGood
  <2>6. r.from = 0 /\ PowerGood(r) => PowerGood(r)'
    <3> SUFFICES ASSUME r.from = 0, PowerGood(r), NEW n \in 0..(Len(l) + Len(b)), n >= Len(synced.wal)
                 PROVE  Good(r, n)'
      BY <1>1, <1>3 DEF PowerGood
    <3>1. n \in Nat /\ r.from <= n /\ n <= Len(l) + Len(b) /\ (n <= Len(l) => n \in 0..Len(l))
      <4> HIDE DEF l, b
      <4> QED
        BY <1>2
    <3> QED
      BY <2>4, <3>1 DEF PowerGood
  <2> QED
    BY <1>2, <1>4, <2>1, <2>5, <2>6
<1>7. CASE policy # "always" /\ GroupLands /\ wal'.landed = FALSE
  <2>1. Floor' = Len(l) + Len(b)
    BY <1>1, <1>2, <1>3, <1>7 DEF Floor
  <2> DEFINE n == Len(l) + Len(b)
             a == Reads(r, Len(l))
  <2>2. a \in Seq(Writes) /\ \A k \in Keys : Value(r.snapshot, a, k) \in Allowed(k)
    BY <1>2, <1>5, ReadsType DEF Good
  <2>3. \A x : x = n => Reads(r, x)' = a \o b
    <3>1. n \in Nat /\ r.from <= n /\ n >= Len(l) /\ n <= Len(l) + Len(b) /\ n - Len(l) = Len(b)
      <4>1. r.from <= Len(l)
        BY <1>5
      <4> HIDE DEF l, b, a
      <4> QED
        BY <1>2, <4>1
    <3>2. \A x : x = n => Reads(r, x)' = a \o SubSeq(b, 1, Len(b))
      BY <1>1, <1>2, <1>5, <3>1, ReadsExtended
    <3>3. SubSeq(b, 1, Len(b)) = b
      BY <1>2, SubSeqFull
    <3> QED
      BY <3>2, <3>3
  <2>4. \A x : x = n => Good(r, x)'
    <3> HIDE DEF a, n
    <3> QED
      BY <1>1, <1>5, <1>7, <2>2, <2>3, GoodLanded
  <2>5. \A x \in n..n : x = n
    BY <1>2
  <2>6. FloorGood(r)'
    <3>1. r.from <= n
      <4>1. r.from <= Len(l)
        BY <1>5
      <4> HIDE DEF l, b, a
      <4> QED
        BY <1>2, <4>1
    <3> QED
      BY <1>1, <1>3, <2>1, <2>4, <2>5, <3>1 DEF FloorGood
  <2>7. Floor <= Floor'
    <3> HIDE DEF l, b, a
    <3>1. Len(l) <= Len(l) + Len(b)
      BY <1>2
    <3> QED
      BY <1>4, <2>1, <3>1 DEF n
  <2> QED
    BY <1>7, <2>6, <2>7
<1>8. \/ policy = "always" /\ UNCHANGED status /\ wal'.landed /\ wal'.batch = b /\ wal'.size = wal.size + Len(b)
      \/ policy # "always" /\ GroupLands /\ wal'.landed = FALSE
  BY <1>1 DEF WriteLands, StructInv, WalType
<1> QED
  BY <1>6, <1>7, <1>8

LEMMA SyncLandsGood ==
    ASSUME StructInv, SyncLands, NEW r \in Sources, FloorGood(r)
    PROVE  FloorGood(r)' /\ Floor <= Floor' /\ PowerGood(r)'
<1> DEFINE b == wal.batch
           l == disk.wal
           f == Floor
<1>1. /\ wal.landed /\ GroupLands /\ synced'.wal = l /\ wal'.landed = FALSE
      /\ UNCHANGED <<disk, recovery, log, opened>>
  BY FilesTyped DEF SyncLands, Files, recoveryVars, historyVars, StructInv, WalType
<1>2. /\ b \in Seq(Writes) /\ Len(b) \in Nat /\ l \in Seq(Writes) /\ Len(l) \in Nat /\ r.from \in Nat
      /\ r \in Sources /\ r.start \in Seq(Writes)
  BY FilesTyped, InBatch DEF StructInv, WalType, Sources
<1>3. /\ b # <<>> /\ wal.size = Len(l) /\ recovery.pc = "idle" /\ Len(b) <= Len(l)
      /\ \A i \in 1..Len(b) : l[Len(l) - Len(b) + i] = b[i]
  BY <1>1 DEF StructInv, SizeInv, RecoveryInv, Quiet
<1>4. f = Len(l) - Len(b) /\ f \in Nat /\ f <= Len(l) /\ Len(l) - f = Len(b)
  <2>1. f = Len(l) - Len(b)
    BY <1>1, <1>3 DEF Floor
  <2> HIDE DEF b, l, f
  <2> QED
    BY <1>2, <1>3, <2>1
<1>5. Floor' = Len(l)
  BY <1>1, <1>3 DEF Floor
<1>6. r.from <= f /\ Good(r, f)
  <2>1. r.from <= f /\ \A n \in f..Len(l) : Good(r, n)
    BY DEF FloorGood
  <2> HIDE DEF b, l, f
  <2>2. f \in f..Len(l)
    BY <1>2, <1>4
  <2> QED
    BY <2>1, <2>2
<1> HIDE DEF b, l, f
<1>7. SubSeq(l, f + 1, Len(l)) = b
  <2> DEFINE t == SubSeq(l, f + 1, Len(l))
  <2>1. t \in Seq(Writes) /\ Len(t) = Len(l) - f /\ \A i \in 1..(Len(l) - f) : t[i] = l[f + i]
    BY <1>2, <1>4, CutProperties
  <2> HIDE DEF t
  <2>2. \A i \in 1..Len(b) : t[i] = b[i]
    BY <1>3, <1>4, <2>1
  <2>3. t = b
    BY <1>2, <1>4, <2>1, <2>2, SeqEqual
  <2> QED
    BY <2>3 DEF t
<1> DEFINE a == SubSeq(l, r.from + 1, f)
<1>8. SubSeq(l, r.from + 1, Len(l)) = a \o b
  <2>1. r.from + 1 \in 1..(Len(l) + 1) /\ f \in ((r.from + 1) - 1)..Len(l) /\ Len(l) \in f..Len(l)
    BY <1>2, <1>4, <1>6
  <2>2. SubSeq(l, r.from + 1, f) \o SubSeq(l, f + 1, Len(l)) = SubSeq(l, r.from + 1, Len(l))
    BY <1>2, <2>1, ConcatAdjacentSubSeq
  <2> QED
    BY <1>7, <2>2
<1>9. a \in Seq(Writes)
  BY <1>2, <1>4, <1>6, CutProperties
<1> HIDE DEF a
<1>10. r.start \o (a \o b) = (r.start \o a) \o b /\ r.start \o a \in Seq(Writes)
  <2>1. r.start \o a \in Seq(Writes)
    BY <1>2, <1>9, ConcatProperties
  <2> QED
    BY <1>2, <1>9, <2>1, Joined
<1>11. \A x : x = Len(l) => Reads(r, x)' = (r.start \o a) \o b
  BY <1>1, <1>8, <1>10 DEF Reads, l
<1>12. \A k \in Keys : Value(r.snapshot, r.start \o a, k) \in Allowed(k)
  BY <1>6 DEF Good, Reads, a, l
<1>13. \A x : x = Len(l) => Good(r, x)'
  <2>1. r.from <= Len(disk.wal)
    BY <1>2, <1>4, <1>6 DEF l
  <2> DEFINE c == r.start \o a
  <2>2. c \in Seq(Writes) /\ \A k \in Keys : Value(r.snapshot, c, k) \in Allowed(k)
    BY <1>10, <1>12
  <2>3. \A x : x = Len(l) => Reads(r, x)' = c \o wal.batch
    BY <1>11 DEF b
  <2> HIDE DEF c
  <2> QED
    BY <1>1, <2>1, <2>2, <2>3, GoodLanded
<1>14. FloorGood(r)'
  <2>1. \A x \in Len(l)..Len(l) : x = Len(l)
    BY <1>2
  <2>2. r.from <= Len(l)
    BY <1>2, <1>4, <1>6
  <2> QED
    BY <1>1, <1>5, <1>13, <2>1, <2>2 DEF FloorGood, l
<1>15. PowerGood(r)'
  <2>1. \A x \in 0..Len(l) : x >= Len(l) => x = Len(l)
    BY <1>2
  <2> QED
    BY <1>1, <1>13, <2>1 DEF PowerGood, l
<1> QED
  BY <1>4, <1>5, <1>14, <1>15 DEF f

LEMMA FlushFailsGood ==
    ASSUME StructInv, FlushFails, NEW r \in Sources, FloorGood(r)
    PROVE  /\ FloorGood(r)' /\ Floor <= Floor'
           /\ r.from = 0 /\ PowerGood(r) => PowerGood(r)'
<1> DEFINE l == disk.wal
<1>1. PICK written \in IF wal.landed THEN {0} ELSE 0..Len(wal.batch) :
          /\ disk' = [disk EXCEPT !.wal = @ \o SubSeq(wal.batch, 1, written)]
          /\ recovery' = [pc |-> "truncate",
                          at |-> IF wal.landed THEN wal.size - Len(wal.batch) ELSE wal.size]
          /\ wal' = [wal EXCEPT !.poisoned = TRUE, !.size = @ + written, !.landed = FALSE,
                                !.batch = <<>>, !.batchGroup = NoGroup,
                                !.queue = <<>>, !.group = NoGroup]
  BY DEF FlushFails
<1>2. /\ wal.batch # <<>> /\ UNCHANGED <<synced, log, opened>>
      /\ Becomes(ToSet(wal.batch \o wal.queue), "rejected")
  BY DEF FlushFails, historyVars
<1>3. /\ wal.batch \in Seq(Writes) /\ Len(wal.batch) \in Nat /\ l \in Seq(Writes) /\ Len(l) \in Nat
      /\ wal.size = Len(l) /\ recovery.pc = "idle" /\ r.from \in Nat /\ Len(synced.wal) \in Nat
  BY <1>2, FilesTyped, InBatch DEF StructInv, WalType, SizeInv, RecoveryInv, Quiet, Sources
<1>4. written \in 0..Len(wal.batch) /\ (wal.landed => written = 0) /\ written \in Nat
  BY <1>1, <1>3
<1>5. disk'.wal = l \o SubSeq(wal.batch, 1, written) /\ Len(disk'.wal) = Len(l) + written
  <2>1. disk'.wal = l \o SubSeq(wal.batch, 1, written)
    BY <1>1, FilesTyped DEF Files
  <2> DEFINE p == SubSeq(wal.batch, 1, written)
  <2>2. p \in Seq(Writes) /\ Len(p) = written
    BY <1>3, <1>4, CutInTwo
  <2> HIDE DEF p, l
  <2>3. Len(l \o p) = Len(l) + written
    BY <1>3, <2>2, ConcatProperties
  <2> QED
    BY <2>1, <2>3 DEF p
<1>6. Floor' = Floor
  <2>1. wal'.landed = FALSE /\ recovery'.pc = "truncate"
        /\ recovery'.at = IF wal.landed THEN wal.size - Len(wal.batch) ELSE wal.size
    BY <1>1 DEF StructInv, WalType
  <2> QED
    BY <1>3, <2>1 DEF Floor
<1>7. Floor \in Nat /\ Floor <= Len(l) /\ r.from <= Floor /\ r.from <= Len(l) /\ Good(r, Len(l))
  BY <1>3, FloorType DEF FloorGood
<1>8. \A k \in Keys : Allowed(k)' = Allowed(k)
  <2>1. \A w \in Writes : status'[w] = IF w \in ToSet(wal.batch \o wal.queue) THEN "rejected" ELSE status[w]
    BY <1>2, SomeBecome DEF Statuses
  <2>2. \A i \in DOMAIN log : log[i] \in Writes
    BY DEF StructInv, WriteTypes
  <2>3. \A i \in DOMAIN log : status'[log[i]] = "acked" <=> status[log[i]] = "acked"
    BY <2>1, <2>2, OnTheWay
  <2> QED
    BY <1>2, <2>3, AllowedKept
<1>9. \A n \in Nat : r.from <= n /\ n <= Len(l) + written /\ (n <= Len(l) => Good(r, n)) => Good(r, n)'
  BY <1>4, <1>5, <1>7, <1>8, GoodExtended
<1>10. FloorGood(r)'
  <2>1. \A n \in Floor..(Len(l) + written) :
           n \in Nat /\ r.from <= n /\ n <= Len(l) + written /\ (n <= Len(l) => n \in Floor..Len(l))
    BY <1>3, <1>4, <1>7
  <2>2. \A n \in Floor..(Len(l) + written) : Good(r, n)'
    BY <1>9, <2>1 DEF FloorGood
  <2> QED
    BY <1>5, <1>6, <1>7, <2>2 DEF FloorGood
<1>11. r.from = 0 /\ PowerGood(r) => PowerGood(r)'
  <2> SUFFICES ASSUME r.from = 0, PowerGood(r), NEW n \in 0..(Len(l) + written), n >= Len(synced.wal)
               PROVE  Good(r, n)'
    BY <1>2, <1>5 DEF PowerGood
  <2>1. n \in Nat /\ r.from <= n /\ n <= Len(l) + written /\ (n <= Len(l) => n \in 0..Len(l))
    BY <1>3, <1>4
  <2> QED
    BY <1>9, <2>1 DEF PowerGood
<1> QED
  BY <1>6, <1>7, <1>10, <1>11

LEMMA TruncateGood ==
    ASSUME StructInv, Truncate, NEW r \in Sources, FloorGood(r)
    PROVE  /\ FloorGood(r)' /\ Floor <= Floor'
           /\ r.from = 0 /\ PowerGood(r) => PowerGood(r)'
<1> DEFINE l == disk.wal
<1>1. /\ recovery.pc = "truncate" /\ UNCHANGED <<status, wal, synced, log, opened>>
  BY DEF Truncate, writeVars, historyVars
<1>2. /\ ~ wal.landed /\ recovery.at \in Nat /\ recovery.at <= Len(l)
      /\ l \in Seq(Writes) /\ Len(l) \in Nat /\ r.from \in Nat /\ Len(synced.wal) \in Nat
  BY <1>1, FilesTyped DEF StructInv, RecoveryInv, SizeInv, FileTypes, Quiet, Sources
<1>3. Floor = recovery.at
  BY <1>1, <1>2 DEF Floor
<1>4. \A k \in Keys : Allowed(k)' = Allowed(k)
  BY <1>1, AllowedKept
<1>5. CASE /\ disk' = IF recovery.at <= Len(disk.wal)
                      THEN [disk EXCEPT !.wal = SubSeq(@, 1, recovery.at)] ELSE disk
           /\ recovery' = [recovery EXCEPT !.pc = "refresh"]
  <2> DEFINE f == recovery.at
  <2>1. disk'.wal = SubSeq(l, 1, f) /\ Len(disk'.wal) = f
    <3>1. disk'.wal = SubSeq(l, 1, f)
      BY <1>2, <1>5, FilesTyped DEF Files
    <3>2. f \in 0..Len(l)
      BY <1>2
    <3> QED
      BY <1>2, <3>1, <3>2, CutInTwo
  <2>2. recovery'.pc = "refresh"
    BY <1>5 DEF StructInv, FileTypes
  <2>3. Floor' = f
    BY <1>1, <1>2, <2>1, <2>2 DEF Floor
  <2> HIDE DEF f
  <2>4. f \in Nat /\ f <= Len(l) /\ r.from <= f
    BY <1>2, <1>3 DEF FloorGood, f
  <2>5. \A n \in Nat : r.from <= n /\ n <= f /\ Good(r, n) => Good(r, n)'
    <3> SUFFICES ASSUME NEW n \in Nat, r.from <= n, n <= f, Good(r, n) PROVE Good(r, n)'
      OBVIOUS
    <3>1. f \in 0..Len(l) /\ n \in 0..f /\ r.from \in 0..n
      BY <1>2, <2>4
    <3>2. SubSeq(SubSeq(l, 1, f), r.from + 1, n) = SubSeq(l, r.from + 1, n)
      BY <1>2, <3>1, CutOfCut
    <3>3. Reads(r, n)' = Reads(r, n)
      BY <2>1, <3>2 DEF Reads
    <3> QED
      BY <1>4, <3>3 DEF Good
  <2>6. FloorGood(r)'
    <3>1. \A n \in f..f : n \in Nat /\ r.from <= n /\ n <= f /\ n \in f..Len(l)
      BY <1>2, <2>4
    <3>2. \A n \in f..f : Good(r, n)'
      BY <1>3, <2>5, <3>1 DEF FloorGood, f
    <3> QED
      BY <2>1, <2>3, <2>4, <3>2 DEF FloorGood
  <2>7. r.from = 0 /\ PowerGood(r) => PowerGood(r)'
    <3> SUFFICES ASSUME r.from = 0, PowerGood(r), NEW n \in 0..f, n >= Len(synced.wal)
                 PROVE  Good(r, n)'
      BY <1>1, <2>1 DEF PowerGood
    <3>1. n \in Nat /\ r.from <= n /\ n <= f /\ n \in 0..Len(l)
      BY <1>2, <2>4
    <3> QED
      BY <2>5, <3>1 DEF PowerGood
  <2> QED
    BY <1>3, <2>3, <2>4, <2>6, <2>7 DEF f
<1>6. CASE recovery' = NoRecovery /\ UNCHANGED disk
  <2>1. Floor' = Len(l)
    BY <1>1, <1>2, <1>6 DEF Floor, NoRecovery
  <2>2. \A n : Good(r, n) => Good(r, n)'
    BY <1>4, <1>6, GoodKept
  <2>3. r.from <= Len(l) /\ \A n \in Len(l)..Len(l) : n \in Floor..Len(l)
    BY <1>2, <1>3 DEF FloorGood
  <2>4. FloorGood(r)'
    BY <1>6, <2>1, <2>2, <2>3 DEF FloorGood
  <2>5. PowerGood(r) => PowerGood(r)'
    BY <1>1, <1>6, <2>2 DEF PowerGood
  <2> QED
    BY <1>2, <1>3, <2>1, <2>4, <2>5
<1> QED
  BY <1>5, <1>6 DEF Truncate

-----------------------------------------------------------------------------
(* What the files show: after the process died any cut of the log that is   *)
(* not below the floor, after a loss of power any that was not synced.      *)
Snapshots == {disk.snapshot} \cup (IF MayLosePower THEN {synced.snapshot} ELSE {})
DiskSources == {Source(s, <<>>, 0) : s \in Snapshots}
DiskInv ==
    \A r \in DiskSources :
       FloorGood(r) /\ (MayLosePower /\ compaction.pc # "syncLogName" => PowerGood(r))

(* The files of a compaction, alone and with the log it is copying.         *)
TmpSources == {Source(tmp.snapshot, <<>>, 0), Source(tmp.snapshot, tmp.wal, compaction.copied)}
TmpInv ==
    /\ compaction.pc = "snapshot" => compaction.copied <= Floor
    /\ compaction.pc \in {"copy", "drain"} /\ ~ writeDisabled => \A r \in TmpSources : FloorGood(r)
    /\ compaction.pc = "renameSnapshot" =>
         \A k \in Keys : Value(tmp.snapshot, disk.wal, k) \in Allowed(k)
    /\ compaction.pc \in Renaming =>
         \A k \in Keys : Value(tmp.snapshot, tmp.wal, k) \in Allowed(k)

(* Between the renames.                                                     *)
RenamesInv ==
    /\ compaction.pc \in Renaming \ {"syncLogName"} => synced.wal = disk.wal
    /\ compaction.pc \in {"syncSnapshotName", "renameLog", "syncLogName"} =>
         disk.snapshot = tmp.snapshot
    /\ compaction.pc \in {"renameLog", "syncLogName"} => synced.snapshot = tmp.snapshot
    /\ compaction.pc = "syncLogName" =>
         /\ disk.wal = tmp.wal
         /\ \A k \in Keys : Value(tmp.snapshot, synced.wal, k) \in Allowed(k)

FilesInv == DiskInv /\ TmpInv /\ RenamesInv

LEMMA SourceTyped ==
    ASSUME NEW s \in Values, NEW l \in Seq(Writes), NEW n \in Nat
    PROVE  /\ Source(s, l, n) \in Sources /\ Source(s, l, n).from = n
           /\ Source(s, l, n).snapshot = s /\ Source(s, l, n).start = l
BY DEF Source, Sources

LEMMA SourcesTyped ==
    ASSUME StructInv
    PROVE  /\ TmpSources \subseteq Sources /\ DiskSources \subseteq Sources
           /\ \A r \in DiskSources : r.from = 0
           /\ Snapshots \subseteq Values
<1>1. Snapshots \subseteq Values
  BY FilesTyped DEF Snapshots
<1>2. \A s \in Values : Source(s, <<>>, 0) \in Sources /\ Source(s, <<>>, 0).from = 0
  BY DEF Source, Sources
<1>3. TmpSources \subseteq Sources
  BY <1>2, FilesTyped, SourceTyped DEF TmpSources
<1> QED
  BY <1>1, <1>2, <1>3 DEF DiskSources

(* The whole log behind a snapshot.                                         *)
LEMMA WholeLog ==
    ASSUME StructInv, NEW s
    PROVE  /\ Reads(Source(s, <<>>, 0), Len(disk.wal)) = disk.wal
           /\ \A n \in 0..Len(disk.wal) : Reads(Source(s, <<>>, 0), n) = SubSeq(disk.wal, 1, n)
<1> DEFINE r == Source(s, <<>>, 0)
           l == disk.wal
<1>1. r.start = <<>> /\ r.from = 0
  BY DEF Source
<1>2. l \in Seq(Writes) /\ Len(l) \in Nat
  BY FilesTyped
<1> HIDE DEF r, l
<1>3. \A n \in 0..Len(l) : r.start \o SubSeq(l, r.from + 1, n) = SubSeq(l, 1, n)
  <2> SUFFICES ASSUME NEW n \in 0..Len(l) PROVE r.start \o SubSeq(l, r.from + 1, n) = SubSeq(l, 1, n)
    OBVIOUS
  <2>1. SubSeq(l, 1, n) \in Seq(Writes)
    BY <1>2, CutInTwo
  <2>2. r.from + 1 = 1
    BY <1>1
  <2> DEFINE c == SubSeq(l, 1, n)
  <2>3. <<>> \o c = c
    <3> HIDE DEF c
    <3>1. c \in Seq(Writes)
      BY <2>1 DEF c
    <3> QED
      BY <3>1, ConcatEmptySeq
  <2> QED
    BY <1>1, <2>2, <2>3
<1>4. SubSeq(l, 1, Len(l)) = l /\ Len(l) \in 0..Len(l)
  BY <1>2, SubSeqFull
<1> QED
  BY <1>3, <1>4 DEF Reads, r, l

(* What a loss of power may leave shows what it is allowed to.              *)
LEMMA FilesSurvive ==
    ASSUME StructInv, FilesInv
    PROVE  AckedSurvives
<1>1. Floor \in 0..Len(disk.wal) /\ Len(disk.wal) \in Floor..Len(disk.wal)
  BY FloorType, FilesTyped
<1>2. \A k \in Keys : Reopened(disk)[k] \in Allowed(k)
  <2> DEFINE r == Source(disk.snapshot, <<>>, 0)
  <2>1. r \in DiskSources
    BY DEF DiskSources, Snapshots
  <2>2. Good(r, Len(disk.wal))
    BY <1>1, <2>1 DEF FilesInv, DiskInv, FloorGood
  <2>3. r.snapshot = disk.snapshot
    BY DEF Source
  <2>4. \A k \in Keys : Value(disk.snapshot, disk.wal, k) \in Allowed(k)
    BY <2>2, <2>3, WholeLog DEF Good
  <2>5. disk \in Files
    BY FilesTyped
  <2> QED
    BY <2>4, <2>5, ReopenedType
<1>3. ASSUME MayLosePower, NEW files \in PowerLost, NEW k \in Keys
      PROVE  Reopened(files)[k] \in Allowed(k)
  <2>1. /\ files \in Files /\ files.snapshot \in {synced.snapshot, disk.snapshot}
        /\ IF compaction.pc = "syncLogName" THEN files.wal \in {synced.wal, disk.wal}
           ELSE \E n \in 0..Len(disk.wal) : n >= Len(synced.wal) /\ files.wal = SubSeq(disk.wal, 1, n)
    BY PowerLostFiles
  <2> DEFINE r == Source(files.snapshot, <<>>, 0)
  <2>2. r \in DiskSources /\ r.snapshot = files.snapshot
    BY <1>3, <2>1 DEF DiskSources, Snapshots, Source
  <2>3. Value(files.snapshot, files.wal, k) \in Allowed(k)
    <3>1. CASE compaction.pc = "syncLogName"
      <4>1. disk.snapshot = tmp.snapshot /\ synced.snapshot = tmp.snapshot /\ disk.wal = tmp.wal
            /\ Value(tmp.snapshot, synced.wal, k) \in Allowed(k)
        BY <3>1 DEF FilesInv, RenamesInv
      <4>2. Value(tmp.snapshot, tmp.wal, k) \in Allowed(k)
        BY <3>1 DEF FilesInv, TmpInv, Renaming
      <4> QED
        BY <2>1, <3>1, <4>1, <4>2
    <3>2. CASE compaction.pc # "syncLogName"
      <4>1. PICK n \in 0..Len(disk.wal) : n >= Len(synced.wal) /\ files.wal = SubSeq(disk.wal, 1, n)
        BY <2>1, <3>2
      <4>2. Good(r, n)
        BY <1>3, <2>2, <3>2, <4>1 DEF FilesInv, DiskInv, PowerGood
      <4>3. Reads(r, n) = files.wal
        BY <4>1, WholeLog
      <4> QED
        BY <2>2, <4>2, <4>3 DEF Good
    <3> QED
      BY <3>1, <3>2
  <2> QED
    BY <2>1, <2>3, ReopenedType
<1> QED
  BY <1>2, <1>3 DEF AckedSurvives

(* Steps of the writes leave the files alone.                               *)
LEMMA FloorGoodKept ==
    ASSUME disk' = disk, Floor' = Floor, \A k \in Keys : Allowed(k) \subseteq Allowed(k)'
    PROVE  \A r : FloorGood(r) => FloorGood(r)'
BY GoodKept DEF FloorGood

LEMMA PowerGoodKept ==
    ASSUME disk' = disk, synced' = synced, \A k \in Keys : Allowed(k) \subseteq Allowed(k)'
    PROVE  \A r : PowerGood(r) => PowerGood(r)'
BY GoodKept DEF PowerGood

LEMMA FilesKept ==
    ASSUME StructInv, FilesInv,
           UNCHANGED <<policy, disk, synced, dirUnsynced, compaction, tmp>>,
           writeDisabled => writeDisabled', Floor' = Floor,
           \A k \in Keys : Allowed(k) \subseteq Allowed(k)'
    PROVE  FilesInv'
<1>1. (\A r : FloorGood(r) => FloorGood(r)') /\ \A r : PowerGood(r) => PowerGood(r)'
  BY FloorGoodKept, PowerGoodKept
<1>2. MayLosePower' = MayLosePower
  BY DEF MayLosePower
<1>3. DiskSources' = DiskSources /\ TmpSources' = TmpSources
  BY <1>2 DEF DiskSources, TmpSources, Snapshots, Source
<1>4. DiskInv'
  BY <1>1, <1>2, <1>3 DEF FilesInv, DiskInv
<1>5. TmpInv'
  BY <1>1, <1>3 DEF FilesInv, TmpInv
<1>6. RenamesInv'
  BY DEF FilesInv, RenamesInv
<1> QED
  BY <1>4, <1>5, <1>6 DEF FilesInv

LEMMA DiskKept ==
    ASSUME DiskInv, UNCHANGED <<policy, disk, synced, dirUnsynced>>, Floor' = Floor,
           \A k \in Keys : Allowed(k) \subseteq Allowed(k)',
           compaction.pc = "syncLogName" => compaction'.pc = "syncLogName"
    PROVE  DiskInv'
<1>1. (\A r : FloorGood(r) => FloorGood(r)') /\ \A r : PowerGood(r) => PowerGood(r)'
  BY FloorGoodKept, PowerGoodKept
<1>2. MayLosePower' = MayLosePower
  BY DEF MayLosePower
<1>3. DiskSources' = DiskSources
  BY <1>2 DEF DiskSources, Snapshots, Source
<1> QED
  BY <1>1, <1>2, <1>3 DEF DiskInv

(* Acknowledgements of writes that are not in the log change nothing.       *)
LEMMA AllowedOfOther ==
    ASSUME StructInv, NEW w \in Writes, status[w] \notin {"applied", "acked", "rejected"},
           NEW as \in Statuses, Becomes({w}, as), log' = log, opened' = opened
    PROVE  \A k : Allowed(k)' = Allowed(k)
<1>1. \A x \in Writes : status'[x] = IF x = w THEN as ELSE status[x]
  BY OneBecomes
<1>2. \A i \in DOMAIN log : log[i] \in Writes /\ log[i] # w
  BY NotInLog DEF StructInv, WriteTypes
<1> QED
  BY <1>1, <1>2, AllowedKept

LEMMA CallFiles ==
    ASSUME StructInv, FilesInv, NEW w \in Writes, Call(w)
    PROVE  FilesInv'
<1>1. /\ status[w] = "new" /\ Becomes({w}, "called")
      /\ UNCHANGED <<policy, wal, disk, synced, dirUnsynced, recovery, writeDisabled,
                     compaction, tmp, log, opened>>
  BY DEF Call, fileVars, recoveryVars, compactionVars, historyVars
<1>2. \A k : Allowed(k)' = Allowed(k)
  BY <1>1, AllowedOfOther DEF Statuses
<1>3. Floor' = Floor
  BY <1>1 DEF Floor
<1> QED
  BY <1>1, <1>2, <1>3, FilesKept

LEMMA EnterFiles ==
    ASSUME StructInv, FilesInv, NEW w \in Writes, Enter(w)
    PROVE  FilesInv'
<1>1. PICK as \in {"acked", "entered"} : Becomes({w}, as)
  BY DEF Enter
<1>2. /\ status[w] = "called" /\ as \in Statuses
      /\ UNCHANGED <<policy, wal, disk, synced, dirUnsynced, recovery, writeDisabled,
                     compaction, tmp, log, opened>>
  BY <1>1 DEF Enter, fileVars, recoveryVars, compactionVars, historyVars, Statuses
<1>3. \A k : Allowed(k)' = Allowed(k)
  BY <1>1, <1>2, AllowedOfOther
<1>4. Floor' = Floor
  BY <1>2 DEF Floor
<1> QED
  BY <1>2, <1>3, <1>4, FilesKept

LEMMA UndoRefusedFiles ==
    ASSUME StructInv, FilesInv, UndoRefused
    PROVE  FilesInv'
<1> DEFINE w == Head(bounced).write
<1>1. /\ bounced # <<>>
      /\ UNCHANGED <<policy, wal, disk, synced, dirUnsynced, recovery, writeDisabled,
                     compaction, tmp, log, opened>>
  BY DEF UndoRefused, fileVars, recoveryVars, compactionVars, historyVars
<1>2. PICK as \in {"rejected", "retry", "refused"} : Becomes({w}, as)
  BY DEF UndoRefused
<1>3. 1 \in DOMAIN bounced /\ Head(bounced) = bounced[1]
  BY <1>1 DEF StructInv, WriteTypes
<1>4. w \in Writes /\ status[w] = "bounced" /\ as \in Statuses
  <2>1. bounced[1].write \in Writes /\ status[bounced[1].write] = "bounced"
    BY <1>3, BouncedTypes DEF StructInv, BouncedInv
  <2>2. as \in Statuses
    BY <1>2 DEF Statuses
  <2> QED
    BY <1>3, <2>1, <2>2
<1>5. \A k : Allowed(k)' = Allowed(k)
  <2> HIDE DEF w
  <2> QED
    BY <1>1, <1>2, <1>4, AllowedOfOther
<1>6. Floor' = Floor
  BY <1>1 DEF Floor
<1> QED
  BY <1>1, <1>5, <1>6, FilesKept

(* A write that is applied becomes one more that a reopen may show.         *)
LEMMA CommitFiles ==
    ASSUME StructInv, FilesInv, NEW w \in Writes, Commit(w)
    PROVE  FilesInv'
<1>1. /\ status[w] \in {"entered", "retry"}
      /\ UNCHANGED <<policy, disk, synced, dirUnsynced, recovery, writeDisabled,
                     compaction, tmp, opened>>
  BY DEF Commit, fileVars, recoveryVars, compactionVars
<1>2. PICK as \in {"rejected", "bounced", "applied"} : Becomes({w}, as)
  BY DEF Commit
<1>3. as \in Statuses
  BY <1>2 DEF Statuses
<1>4. CASE log' = log /\ wal' = wal
  <2>1. \A k : Allowed(k)' = Allowed(k)
    BY <1>1, <1>2, <1>3, <1>4, AllowedOfOther
  <2>2. Floor' = Floor
    BY <1>1, <1>4 DEF Floor
  <2> QED
    BY <1>1, <2>1, <2>2, FilesKept
<1>5. CASE /\ Becomes({w}, "applied") /\ log' = Append(log, w)
           /\ wal' = [wal EXCEPT !.queue = Append(@, w), !.group = Noted(@, Key[w])]
  <2>1. Floor' = Floor
    <3>1. wal'.landed = wal.landed /\ wal'.size = wal.size /\ wal'.batch = wal.batch
      BY <1>5 DEF StructInv, WalType
    <3> QED
      BY <1>1, <3>1 DEF Floor
  <2>2. /\ DOMAIN log \subseteq DOMAIN log' /\ \A i \in DOMAIN log : log'[i] = log[i]
        /\ \A i \in DOMAIN log' : i \in DOMAIN log \/ log'[i] = w
    BY <1>5 DEF StructInv, WriteTypes
  <2>3. \A x \in Writes : status'[x] = IF x = w THEN "applied" ELSE status[x]
    BY <1>5, OneBecomes DEF Statuses
  <2>4. \A i \in DOMAIN log : log[i] \in Writes /\ log[i] # w
    BY <1>1, NotInLog DEF StructInv, WriteTypes
  <2>5. ASSUME NEW k \in Keys PROVE Allowed(k) \subseteq Allowed(k)'
    <3>1. AckedAt(k)' = AckedAt(k)
      BY <2>2, <2>3, <2>4 DEF AckedAt
    <3>2. LastAcked(k)' = Newest(AckedAt(k)') /\ LastAcked(k) = Newest(AckedAt(k))
      BY DEF LastAcked, Newest, AckedAt
    <3>3. LastAcked(k)' = LastAcked(k)
      BY <3>1, <3>2
    <3> QED
      BY <1>1, <2>2, <3>3 DEF Allowed
  <2> QED
    BY <1>1, <2>1, <2>5, FilesKept
<1> QED
  BY <1>4, <1>5 DEF Commit

LEMMA FlushBatchFiles ==
    ASSUME StructInv, FilesInv, FlushBatch
    PROVE  FilesInv'
<1>1. /\ wal.batch = <<>>
      /\ UNCHANGED <<policy, status, disk, synced, dirUnsynced, recovery, writeDisabled,
                     compaction, tmp, log, opened>>
  BY DEF FlushBatch, writeVars, fileVars, recoveryVars, compactionVars, historyVars
<1>2. ~ wal.landed /\ wal'.landed = wal.landed
  BY <1>1 DEF FlushBatch, StructInv, WalType, SizeInv
<1>3. Floor' = Floor
  BY <1>1, <1>2 DEF Floor
<1>4. \A k : Allowed(k)' = Allowed(k)
  BY <1>1, AllowedKept
<1> QED
  BY <1>1, <1>3, <1>4, FilesKept

LEMMA RefreshSizeFiles ==
    ASSUME StructInv, FilesInv, RefreshSize
    PROVE  FilesInv'
<1>1. /\ recovery.pc = "refresh" /\ recovery' = NoRecovery
      /\ UNCHANGED <<policy, status, disk, synced, dirUnsynced, writeDisabled,
                     compaction, tmp, log, opened>>
  BY DEF RefreshSize, writeVars, fileVars, compactionVars, historyVars
<1>2. ~ wal.landed /\ wal'.landed = wal.landed
  BY <1>1 DEF RefreshSize, StructInv, WalType, SizeInv, RecoveryInv, Quiet
<1>3. Floor' = Floor
  BY <1>1, <1>2 DEF Floor, NoRecovery
<1>4. \A k : Allowed(k)' = Allowed(k)
  BY <1>1, AllowedKept
<1> QED
  BY <1>1, <1>3, <1>4, FilesKept

(* Steps of the flush and of its recovery.                                  *)
LEMMA FlushedFiles ==
    ASSUME StructInv, FilesInv, compaction.pc \notin Renaming,
           UNCHANGED <<policy, dirUnsynced, compaction, tmp>>,
           disk'.snapshot = disk.snapshot, synced'.snapshot = synced.snapshot,
           writeDisabled => writeDisabled', Floor <= Floor', Floor' \in Int,
           \A r \in Sources : FloorGood(r) => FloorGood(r)',
           \A r \in Sources : FloorGood(r) /\ r.from = 0 /\ MayLosePower /\ PowerGood(r) =>
                                 PowerGood(r)'
    PROVE  FilesInv'
<1>1. MayLosePower' = MayLosePower
  BY DEF MayLosePower
<1>2. DiskSources' = DiskSources /\ TmpSources' = TmpSources
  BY <1>1 DEF DiskSources, TmpSources, Snapshots, Source
<1>3. DiskSources \subseteq Sources /\ TmpSources \subseteq Sources /\ \A r \in DiskSources : r.from = 0
  BY SourcesTyped
<1>4. DiskInv'
  BY <1>1, <1>2, <1>3 DEF FilesInv, DiskInv
<1>5. TmpInv'
  <2>1. compaction'.pc \in {"copy", "drain"} /\ ~ writeDisabled' => \A r \in TmpSources' : FloorGood(r)'
    BY <1>2, <1>3 DEF FilesInv, TmpInv
  <2>2. compaction'.pc = "snapshot" => compaction'.copied <= Floor'
    <3>1. compaction.copied \in Int /\ Floor \in Int
      BY FilesTyped, FloorType
    <3> QED
      BY <3>1 DEF FilesInv, TmpInv
  <2>3. compaction'.pc \notin Renaming /\ compaction'.pc # "renameSnapshot"
    BY DEF Renaming
  <2> QED
    BY <2>1, <2>2, <2>3 DEF TmpInv
<1>6. RenamesInv'
  BY DEF RenamesInv, Renaming
<1> QED
  BY <1>4, <1>5, <1>6 DEF FilesInv

LEMMA FlushingFiles ==
    ASSUME StructInv, FilesInv, Floor' \in Int, WriteLands \/ SyncLands \/ FlushFails \/ Truncate
    PROVE  FilesInv'
<1>1. compaction.pc \notin Renaming
  <2>1. wal.batch # <<>> \/ wal.landed \/ recovery.pc # "idle"
    BY DEF WriteLands, SyncLands, FlushFails, Truncate
  <2>2. wal.batch # <<>> \/ recovery.pc # "idle"
    BY <2>1 DEF StructInv, SizeInv
  <2>3. compaction.pc \in Renaming => Quiet /\ recovery.pc = "idle"
    BY DEF StructInv, RecoveryInv
  <2> QED
    BY <2>2, <2>3 DEF Quiet
<1>2. /\ UNCHANGED <<policy, dirUnsynced, compaction, tmp>> /\ (writeDisabled => writeDisabled')
  <2>1. CASE WriteLands
    BY <2>1 DEF WriteLands, compactionVars, recoveryVars
  <2>4. CASE SyncLands
    BY <2>4 DEF SyncLands, compactionVars, recoveryVars
  <2>2. CASE FlushFails
    BY <2>2 DEF FlushFails, compactionVars
  <2>3. CASE Truncate
    BY <2>3 DEF Truncate, compactionVars
  <2> QED
    BY <2>1, <2>2, <2>3, <2>4
<1>3. disk'.snapshot = disk.snapshot /\ synced'.snapshot = synced.snapshot
  BY FilesTyped DEF WriteLands, SyncLands, FlushFails, Truncate, Files
<1>4. \A r \in Sources : FloorGood(r) =>
         FloorGood(r)' /\ Floor <= Floor' /\ (r.from = 0 /\ MayLosePower /\ PowerGood(r) => PowerGood(r)')
  BY WriteLandsGood, SyncLandsGood, FlushFailsGood, TruncateGood DEF MayLosePower
<1>5. Floor <= Floor'
  <2>1. Source(disk.snapshot, <<>>, 0) \in DiskSources
    BY DEF DiskSources, Snapshots
  <2>2. \E r \in Sources : FloorGood(r)
    BY <2>1, SourcesTyped DEF FilesInv, DiskInv
  <2> QED
    BY <1>4, <2>2
<1> QED
  BY <1>1, <1>2, <1>3, <1>4, <1>5, FlushedFiles

-----------------------------------------------------------------------------
(* The steps of a compaction before its renames.                            *)
LEMMA FromStart ==
    ASSUME NEW l \in Seq(Writes)
    PROVE  /\ \A n \in 0..Len(l) : <<>> \o SubSeq(l, 0 + 1, n) = SubSeq(l, 1, n)
           /\ SubSeq(l, 1, Len(l)) = l /\ Len(l) \in 0..Len(l) /\ Len(l) \in Nat
<1>1. Len(l) \in Nat /\ Len(l) \in 0..Len(l) /\ 0 + 1 = 1
  OBVIOUS
<1>2. ASSUME NEW n \in 0..Len(l) PROVE <<>> \o SubSeq(l, 1, n) = SubSeq(l, 1, n)
  <2> DEFINE c == SubSeq(l, 1, n)
  <2>1. c \in Seq(Writes)
    BY <1>1, CutInTwo
  <2> HIDE DEF c
  <2>2. <<>> \o c = c
    BY <2>1, ConcatEmptySeq
  <2> QED
    BY <2>2 DEF c
<1>3. SubSeq(l, 1, Len(l)) = l
  BY SubSeqFull
<1> QED
  BY <1>1, <1>2, <1>3

(* No flush is under way and no recovery: the floor is the end of the log.  *)
LEMMA FloorAtEnd ==
    ASSUME StructInv, Quiet, recovery.pc = "idle"
    PROVE  Floor = Len(disk.wal) /\ ~ wal.landed
<1>1. ~ wal.landed
  BY DEF StructInv, SizeInv, Quiet
<1> QED
  BY <1>1 DEF Floor

keptBeforeRenames == <<policy, status, store, bounced, recovery, writeDisabled, log, opened,
                       disk, synced, dirUnsynced>>

LEMMA EarlyKept ==
    ASSUME FilesInv, UNCHANGED <<keptBeforeRenames>>,
           wal'.landed = wal.landed, wal'.size = wal.size, wal'.batch = wal.batch,
           compaction.pc \notin Renaming, compaction'.pc \notin Renaming
    PROVE  /\ DiskInv' /\ RenamesInv' /\ Floor' = Floor
           /\ \A k : Allowed(k)' = Allowed(k)
           /\ \A r : FloorGood(r) => FloorGood(r)'
<1>1. UNCHANGED <<policy, status, recovery, writeDisabled, log, opened, disk, synced, dirUnsynced>>
  BY DEF keptBeforeRenames
<1>2. Floor' = Floor
  BY <1>1 DEF Floor
<1>3. \A k : Allowed(k)' = Allowed(k)
  BY <1>1, AllowedKept
<1>4. DiskInv'
  BY <1>1, <1>2, <1>3, DiskKept DEF FilesInv, Renaming
<1>5. RenamesInv'
  BY DEF RenamesInv, Renaming
<1>6. \A r : FloorGood(r) => FloorGood(r)'
  BY <1>1, <1>2, <1>3, FloorGoodKept
<1> QED
  BY <1>2, <1>3, <1>4, <1>5, <1>6

LEMMA CompactFiles ==
    ASSUME StructInv, FilesInv, Compact \/ CompactionFails
    PROVE  FilesInv'
<1>1. /\ UNCHANGED <<keptBeforeRenames, wal>>
      /\ compaction.pc \in {"idle"} \cup Copying /\ compaction'.pc \in {"idle", "fence"}
  BY FilesTyped DEF Compact, CompactionFails, CompactionOver, NoCompaction, keptByCompaction, writeVars,
     recoveryVars, historyVars, fileVars, keptBeforeRenames, Copying, Compactions
<1>2. compaction.pc \notin Renaming /\ compaction'.pc \notin Renaming
  BY <1>1 DEF Renaming, Copying
<1>3. DiskInv' /\ RenamesInv'
  BY <1>1, <1>2, EarlyKept
<1>4. TmpInv'
  BY <1>1 DEF TmpInv, Renaming
<1> QED
  BY <1>3, <1>4 DEF FilesInv

LEMMA FenceFiles ==
    ASSUME StructInv, FilesInv, Fence
    PROVE  FilesInv'
<1>1. /\ UNCHANGED <<keptBeforeRenames, wal>> /\ compaction.pc = "fence" /\ Flushed
      /\ compaction' = [pc |-> "snapshot", base |-> wal.size, copied |-> wal.size]
  BY DEF Fence, keptByCompaction, writeVars, recoveryVars, historyVars, fileVars, keptBeforeRenames
<1>2. compaction.pc \notin Renaming /\ compaction'.pc = "snapshot" /\ compaction'.pc \notin Renaming
  BY <1>1 DEF Renaming
<1>3. DiskInv' /\ RenamesInv' /\ Floor' = Floor
  BY <1>1, <1>2, EarlyKept
<1>4. Quiet /\ recovery.pc = "idle" /\ ~ wal.closed
  BY <1>1 DEF Flushed, StructInv, RecoveryInv, LockInv, Quiet, Copying
<1>5. wal.size = Len(disk.wal)
  BY <1>4 DEF StructInv, SizeInv
<1>6. compaction'.copied <= Floor'
  <2>1. compaction'.copied = Len(disk.wal) /\ Floor' = Len(disk.wal) /\ Len(disk.wal) \in Nat
    BY <1>1, <1>3, <1>4, <1>5, FloorAtEnd, FilesTyped
  <2> QED
    BY <2>1
<1>7. TmpInv'
  BY <1>2, <1>6 DEF TmpInv
<1> QED
  BY <1>3, <1>7 DEF FilesInv

(* While a snapshot is made the store shows what a reopen may.              *)
LEMMA StoreAllowed ==
    ASSUME StructInv, NEW k \in Keys, StoreInv(k), compaction.pc = "snapshot", ~ writeDisabled
    PROVE  store[k] \in Allowed(k)
<1>1. \A w \in Writes : status[w] \notin {"bounced", "retry"}
  BY DEF StructInv, CalmInv, Copying
<1>2. ~ Held(k)
  BY <1>1, BouncedTypes DEF Held, StructInv, BouncedInv
<1>3. Pending(k) = {}
  BY <1>1 DEF Pending
<1>4. ~ Dead
  BY DEF Dead, StructInv, LockInv, Copying
<1> DEFINE j == Newest(LiveAt(k))
<1>5. Ok(k, store[k], j)
  BY <1>2 DEF StoreInv
<1>6. LastAcked(k) = Newest(AckedAt(k)) /\ AckedAt(k) \subseteq LiveAt(k)
  BY LastAckedIs DEF AckedAt, LiveAt
<1>7. LiveAt(k) \in SUBSET DOMAIN log /\ AckedAt(k) \in SUBSET DOMAIN log
  BY DEF LiveAt, AckedAt
<1>8. /\ LiveAt(k) = {} => j = 0
      /\ LiveAt(k) # {} => j \in LiveAt(k) /\ j \in 1..Len(log) /\ \A i \in LiveAt(k) : i <= j
  BY <1>7, NewestPlace
<1>9. /\ AckedAt(k) = {} => LastAcked(k) = 0
      /\ AckedAt(k) # {} => LastAcked(k) \in AckedAt(k) /\ LastAcked(k) \in 1..Len(log)
  BY <1>6, <1>7, NewestPlace
<1>10. DOMAIN log = 1..Len(log) /\ Len(log) \in Nat
  BY InBatch
<1> HIDE DEF j
<1>11. LastAcked(k) <= j /\ LastAcked(k) \in Nat /\ j \in Nat /\ (j = 0 => LastAcked(k) = 0)
  BY <1>6, <1>8, <1>9, <1>10
<1>12. From(k, j) \subseteq Allowed(k)
  <2>1. \A n \in DOMAIN log : n >= j => n >= LastAcked(k)
    BY <1>10, <1>11
  <2> QED
    BY <1>11, <2>1 DEF From, Allowed
<1>13. CASE Exact(k, store[k], j)
  <2>1. CASE j = 0
    BY <1>11, <1>13, <2>1 DEF Exact, Allowed
  <2>2. CASE j # 0
    <3>1. store[k] = Effect(log[j]) /\ j \in DOMAIN log /\ Key[log[j]] = k
      BY <1>8, <1>13, <2>2 DEF Exact, LiveAt
    <3>2. j >= LastAcked(k)
      BY <1>11
    <3> QED
      BY <3>1, <3>2 DEF Allowed
  <2> QED
    BY <2>1, <2>2
<1>14. CASE Loose(k, store[k], j)
  BY <1>3, <1>4, <1>12, <1>14 DEF Loose
<1> QED
  BY <1>5, <1>13, <1>14 DEF Ok

(* Behind the store any tail of the log shows what the disk's snapshot      *)
(* shows behind the whole of it.                                            *)
LEMMA StoreBehindTail ==
    ASSUME StructInv, FilesInv, NEW s \in Values, \A k \in Keys : s[k] \in Allowed(k),
           NEW c \in Nat, c <= Floor
    PROVE  FloorGood(Source(s, <<>>, c))
<1> DEFINE l == disk.wal
           r == Source(s, <<>>, c)
           d == Source(disk.snapshot, <<>>, 0)
<1>1. l \in Seq(Writes) /\ Len(l) \in Nat /\ Floor \in 0..Len(l) /\ <<>> \in Seq(Writes)
  BY FilesTyped, FloorType
<1>2. d \in DiskSources
  BY DEF DiskSources, Snapshots
<1>3. \A n \in Floor..Len(l) : Good(d, n)
  BY <1>2 DEF FilesInv, DiskInv, FloorGood
<1>4. ASSUME NEW n \in Floor..Len(l), NEW k \in Keys PROVE Value(s, Reads(r, n), k) \in Allowed(k)
  <2>1. n \in 0..Len(l) /\ c \in 0..n
    BY <1>1
  <2> DEFINE a == SubSeq(l, 1, c)
             b == SubSeq(l, c + 1, n)
  <2>2. SubSeq(l, 1, n) = a \o b /\ b \in Seq(Writes)
    BY <1>1, <2>1, CutInTwo
  <2>3. a \in Seq(Writes)
    <3>1. c \in 0..Len(l)
      BY <1>1, <2>1
    <3> QED
      BY <1>1, <3>1, CutInTwo
  <2>4. Reads(r, n) = b
    <3>1. r.start = <<>> /\ r.from = c
      BY DEF Source
    <3>2. Reads(r, n) = <<>> \o b
      BY <3>1 DEF Reads
    <3> HIDE DEF b
    <3>3. <<>> \o b = b
      BY <2>2, ConcatEmptySeq
    <3> QED
      BY <3>2, <3>3
  <2>5. Value(disk.snapshot, a \o b, k) \in Allowed(k)
    <3>1. Reads(d, n) = SubSeq(l, 1, n)
      BY <2>1, WholeLog
    <3>2. d.snapshot = disk.snapshot
      BY DEF Source
    <3> QED
      BY <1>3, <2>2, <3>1, <3>2 DEF Good
  <2> HIDE DEF a, b, l, r, d
  <2>6. CASE At(b, k) = {}
    BY <2>4, <2>6, ValueOfNone
  <2>7. CASE At(b, k) # {}
    <3>1. Value(disk.snapshot, a \o b, k) = Value(disk.snapshot, b, k)
      BY <2>2, <2>3, <2>7, ValueOfConcat
    <3>2. Value(disk.snapshot, b, k) = Value(s, b, k)
      BY <2>2, <2>7, SnapshotHidden
    <3> QED
      BY <2>4, <2>5, <3>1, <3>2
  <2> QED
    BY <2>6, <2>7
<1>5. r.snapshot = s /\ r.from = c
  BY DEF Source
<1> HIDE DEF r
<1> QED
  BY <1>4, <1>5 DEF FloorGood, Good, r

LEMMA WriteSnapshotFiles ==
    ASSUME StructInv, FilesInv, \A k \in Keys : StoreInv(k), WriteSnapshot
    PROVE  FilesInv'
<1>1. /\ UNCHANGED <<keptBeforeRenames, wal>> /\ compaction.pc = "snapshot"
      /\ tmp' = [snapshot |-> store, wal |-> <<>>]
      /\ compaction' = [compaction EXCEPT !.pc = "copy"]
  BY DEF WriteSnapshot, keptByCompaction, writeVars, recoveryVars, historyVars, fileVars, keptBeforeRenames
<1>2. /\ compaction.pc \notin Renaming /\ compaction'.pc = "copy" /\ compaction'.pc \notin Renaming
      /\ compaction'.copied = compaction.copied /\ compaction.copied \in Nat
  BY <1>1, FilesTyped DEF Renaming, Compactions
<1>3. DiskInv' /\ RenamesInv' /\ \A r : FloorGood(r) => FloorGood(r)'
  BY <1>1, <1>2, EarlyKept
<1>4. writeDisabled' = writeDisabled
  BY <1>1 DEF keptBeforeRenames
<1>5. ASSUME ~ writeDisabled, NEW r \in TmpSources' PROVE FloorGood(r)'
  <2>1. store \in Values /\ \A k \in Keys : store[k] \in Allowed(k)
    BY <1>1, <1>5, StoreAllowed DEF StructInv, WriteTypes
  <2>2. r = Source(store, <<>>, 0) \/ r = Source(store, <<>>, compaction.copied)
    BY <1>1, <1>2 DEF TmpSources
  <2>3. compaction.copied <= Floor /\ 0 <= Floor /\ 0 \in Nat
    BY <1>1, FloorType, FilesTyped DEF FilesInv, TmpInv
  <2>4. FloorGood(Source(store, <<>>, 0)) /\ FloorGood(Source(store, <<>>, compaction.copied))
    BY <1>2, <2>1, <2>3, StoreBehindTail
  <2> QED
    BY <1>3, <2>2, <2>4
<1>6. TmpInv'
  BY <1>2, <1>4, <1>5 DEF TmpInv
<1> QED
  BY <1>3, <1>6 DEF FilesInv

LEMMA SealFiles ==
    ASSUME StructInv, FilesInv, Seal
    PROVE  FilesInv'
<1>1. /\ UNCHANGED <<keptBeforeRenames, tmp>> /\ compaction.pc = "copy"
      /\ compaction' = [compaction EXCEPT !.pc = "drain"]
  BY DEF Seal, keptByCompaction, writeVars, recoveryVars, historyVars, fileVars, keptBeforeRenames
<1>2. wal'.landed = wal.landed /\ wal'.size = wal.size /\ wal'.batch = wal.batch
  BY DEF Seal, StructInv, WalType
<1>3. /\ compaction.pc \notin Renaming /\ compaction'.pc = "drain" /\ compaction'.pc \notin Renaming
      /\ compaction'.copied = compaction.copied
  BY <1>1, FilesTyped DEF Renaming, Compactions
<1>4. DiskInv' /\ RenamesInv' /\ \A r : FloorGood(r) => FloorGood(r)'
  BY <1>1, <1>2, <1>3, EarlyKept
<1>5. TmpSources' = TmpSources /\ writeDisabled' = writeDisabled
  BY <1>1, <1>3 DEF TmpSources, keptBeforeRenames
<1>6. TmpInv'
  BY <1>1, <1>3, <1>4, <1>5 DEF FilesInv, TmpInv
<1> QED
  BY <1>4, <1>6 DEF FilesInv

(* The copied tail completes the compaction's own log.                      *)
LEMMA TailCopied ==
    ASSUME StructInv, FilesInv, Flushed, compaction.pc \in {"copy", "drain"},
           NEW next \in {"copy", "renameSnapshot"}, CopyTail(next)
    PROVE  /\ compaction.copied <= Len(disk.wal) /\ Floor = Len(disk.wal)
           /\ ~ writeDisabled /\ FloorGood(Source(tmp.snapshot, <<>>, 0))
           /\ tmp'.snapshot = tmp.snapshot /\ tmp'.wal \in Seq(Writes)
           /\ compaction'.copied = Len(disk.wal) /\ compaction'.pc = next
           /\ \A k \in Keys : /\ Value(tmp.snapshot, tmp'.wal, k) \in Allowed(k)
                              /\ Value(tmp.snapshot, disk.wal, k) \in Allowed(k)
<1> DEFINE r == Source(tmp.snapshot, <<>>, 0)
           t == Source(tmp.snapshot, tmp.wal, compaction.copied)
<1>1. /\ Quiet /\ recovery.pc = "idle" /\ ~ wal.landed /\ ~ wal.closed
      /\ wal.size = Len(disk.wal) /\ Len(disk.wal) \in Nat
  BY FlushedInStep
<1>2. ~ writeDisabled
  BY DEF Flushed, StructInv, RecoveryInv, Copying
<1>3. Floor = Len(disk.wal)
  BY <1>1, FloorAtEnd
<1>4. r \in TmpSources /\ t \in TmpSources
  BY DEF TmpSources
<1>5. FloorGood(r) /\ FloorGood(t)
  BY <1>2, <1>4 DEF FilesInv, TmpInv
<1>6. r.snapshot = tmp.snapshot /\ t.snapshot = tmp.snapshot /\ t.start = tmp.wal /\ t.from = compaction.copied
  BY DEF Source
<1>7. Len(disk.wal) \in Floor..Len(disk.wal)
  BY <1>1, <1>3
<1>8. Good(r, Len(disk.wal)) /\ Good(t, Len(disk.wal)) /\ compaction.copied <= Len(disk.wal)
  BY <1>3, <1>5, <1>6, <1>7 DEF FloorGood
<1>9. /\ tmp' = [snapshot |-> tmp.snapshot,
                 wal |-> tmp.wal \o SubSeq(disk.wal, compaction.copied + 1, Len(disk.wal))]
      /\ tmp' \in Files
      /\ compaction' = [pc |-> next, base |-> compaction.base, copied |-> Len(disk.wal)]
  BY <1>1, <1>8, CopyTailType
<1>10. tmp'.wal = Reads(t, Len(disk.wal)) /\ tmp'.snapshot = tmp.snapshot /\ tmp'.wal \in Seq(Writes)
  BY <1>6, <1>9 DEF Reads, Files
<1>11. Reads(r, Len(disk.wal)) = disk.wal
  BY WholeLog
<1>12. \A k \in Keys : /\ Value(tmp.snapshot, tmp'.wal, k) \in Allowed(k)
                       /\ Value(tmp.snapshot, disk.wal, k) \in Allowed(k)
  BY <1>6, <1>8, <1>10, <1>11 DEF Good
<1>13. compaction'.copied = Len(disk.wal) /\ compaction'.pc = next
  BY <1>9
<1> QED
  BY <1>2, <1>3, <1>5, <1>8, <1>10, <1>12, <1>13

LEMMA PreCopyFiles ==
    ASSUME StructInv, FilesInv, PreCopy
    PROVE  FilesInv'
<1>1. /\ UNCHANGED <<keptBeforeRenames, wal>> /\ compaction.pc = "copy" /\ Flushed /\ CopyTail("copy")
  BY DEF PreCopy, keptByCompaction, writeVars, recoveryVars, historyVars, fileVars, keptBeforeRenames
<1>2. /\ compaction.copied <= Len(disk.wal) /\ Floor = Len(disk.wal)
      /\ ~ writeDisabled /\ FloorGood(Source(tmp.snapshot, <<>>, 0))
      /\ tmp'.snapshot = tmp.snapshot /\ tmp'.wal \in Seq(Writes)
      /\ compaction'.copied = Len(disk.wal) /\ compaction'.pc = "copy"
      /\ \A k \in Keys : Value(tmp.snapshot, tmp'.wal, k) \in Allowed(k)
  BY <1>1, TailCopied
<1>3. compaction.pc \notin Renaming /\ compaction'.pc \notin Renaming
  BY <1>1, <1>2 DEF Renaming
<1>4. /\ DiskInv' /\ RenamesInv' /\ Floor' = Floor /\ \A r : FloorGood(r) => FloorGood(r)'
      /\ \A k : Allowed(k)' = Allowed(k)
  BY <1>1, <1>3, EarlyKept
<1>5. disk' = disk
  BY <1>1 DEF keptBeforeRenames
<1>6. ASSUME NEW r \in TmpSources' PROVE FloorGood(r)'
  <2>1. CASE r = Source(tmp.snapshot, <<>>, 0)
    BY <1>2, <1>4, <2>1
  <2>2. CASE r = Source(tmp'.snapshot, tmp'.wal, compaction'.copied)
    <3>1. r.snapshot = tmp.snapshot /\ r.start = tmp'.wal /\ r.from = Len(disk.wal)
      BY <1>2, <2>2 DEF Source
    <3>2. \A n : n = Len(disk.wal) => Reads(r, n)' = tmp'.wal
      <4>1. \A n : n = Len(disk.wal) => SubSeq(disk.wal, n + 1, n) = <<>>
        BY FilesTyped
      <4>2. tmp'.wal \o <<>> = tmp'.wal
        BY <1>2, ConcatEmptySeq
      <4>3. \A n : n = Len(disk.wal) => Reads(r, n)' = tmp'.wal \o SubSeq(disk.wal, n + 1, n)
        BY <1>5, <3>1 DEF Reads
      <4> QED
        BY <4>1, <4>2, <4>3
    <3>3. \A n : n = Len(disk.wal) => Good(r, n)'
      BY <1>2, <1>4, <3>1, <3>2 DEF Good
    <3>4. Len(disk'.wal) = Len(disk.wal) /\ Floor' = Len(disk.wal) /\ Len(disk.wal) \in Nat
      BY <1>2, <1>4, <1>5, FilesTyped
    <3>5. \A n \in Floor'..Len(disk'.wal) : n = Len(disk.wal)
      BY <3>4
    <3>6. r.from <= Floor'
      BY <3>1, <3>4
    <3> QED
      BY <3>3, <3>5, <3>6 DEF FloorGood
  <2> QED
    BY <1>2, <2>1, <2>2 DEF TmpSources
<1>7. TmpInv'
  BY <1>2, <1>3, <1>6 DEF TmpInv, Renaming
<1> QED
  BY <1>4, <1>7 DEF FilesInv

-----------------------------------------------------------------------------
(* The renames.                                                             *)
(* A snapshot is good once it is with the whole log, when nothing less than *)
(* that can be read.                                                        *)
LEMMA WholeGood ==
    ASSUME StructInv', NEW s, Floor' = Len(disk'.wal),
           \A k \in Keys : Value(s, disk'.wal, k) \in Allowed(k)'
    PROVE  /\ FloorGood(Source(s, <<>>, 0))'
           /\ Len(synced'.wal) = Len(disk'.wal) => PowerGood(Source(s, <<>>, 0))'
<1> DEFINE r == Source(s, <<>>, 0)
           l == disk'.wal
<1>1. l \in Seq(Writes)
  BY DEF StructInv, FileTypes, Files
<1>2. r.start = <<>> /\ r.from = 0 /\ r.snapshot = s
  BY DEF Source
<1> HIDE DEF r
<1>3. /\ \A n \in 0..Len(l) : <<>> \o SubSeq(l, 0 + 1, n) = SubSeq(l, 1, n)
      /\ SubSeq(l, 1, Len(l)) = l /\ Len(l) \in 0..Len(l) /\ Len(l) \in Nat
  BY <1>1, FromStart
<1>4. \A n : n = Len(l) => Reads(r, n)' = l
  BY <1>2, <1>3 DEF Reads
<1>5. \A n : n = Len(l) => Good(r, n)'
  BY <1>2, <1>4 DEF Good
<1>6. (\A n \in Len(l)..Len(l) : n = Len(l)) /\ (\A n \in 0..Len(l) : n >= Len(l) => n = Len(l))
      /\ 0 <= Len(l)
  BY <1>3
<1>7. FloorGood(r)'
  BY <1>2, <1>5, <1>6 DEF FloorGood
<1>8. Len(synced'.wal) = Len(l) => PowerGood(r)'
  BY <1>5, <1>6 DEF PowerGood
<1> QED
  BY <1>7, <1>8 DEF r

(* As every reopened file does.                                             *)
LEMMA AllOfDisk ==
    ASSUME StructInv, DiskInv, NEW s \in Snapshots, NEW k \in Keys
    PROVE  Value(s, disk.wal, k) \in Allowed(k)
<1> DEFINE r == Source(s, <<>>, 0)
<1>1. r \in DiskSources /\ r.snapshot = s
  BY DEF DiskSources, Source
<1>2. Len(disk.wal) \in Floor..Len(disk.wal)
  BY FloorType, FilesTyped
<1>3. Good(r, Len(disk.wal))
  BY <1>1, <1>2 DEF DiskInv, FloorGood
<1> QED
  BY <1>1, <1>3, WholeLog DEF Good

(* After a step of the rotation the log is quiet.                           *)
LEMMA DiskOfWhole ==
    ASSUME StructInv', Floor' = Len(disk'.wal),
           \A s \in Snapshots', k \in Keys : Value(s, disk'.wal, k) \in Allowed(k)',
           compaction'.pc # "syncLogName" => Len(synced'.wal) = Len(disk'.wal)
    PROVE  DiskInv'
<1> SUFFICES ASSUME NEW s \in Snapshots'
             PROVE  /\ FloorGood(Source(s, <<>>, 0))'
                    /\ compaction'.pc # "syncLogName" => PowerGood(Source(s, <<>>, 0))'
  BY DEF DiskInv, DiskSources
<1> QED
  BY WholeGood

keptByRenames == <<policy, status, recovery, writeDisabled, log, opened>>

LEMMA RenamesKeep ==
    ASSUME StructInv, Quiet, recovery.pc = "idle", UNCHANGED <<keptByRenames>>,
           wal'.landed = wal.landed
    PROVE  /\ Floor' = Len(disk'.wal) /\ Floor = Len(disk.wal)
           /\ \A k : Allowed(k)' = Allowed(k)
<1>1. UNCHANGED <<policy, status, recovery, writeDisabled, log, opened>>
  BY DEF keptByRenames
<1>2. Floor = Len(disk.wal) /\ ~ wal.landed
  BY FloorAtEnd
<1>3. Floor' = Len(disk'.wal)
  BY <1>1, <1>2 DEF Floor
<1> QED
  BY <1>1, <1>2, <1>3, AllowedKept

LEMMA DrainAndCloseFiles ==
    ASSUME StructInv, FilesInv, StructInv', DrainAndClose
    PROVE  FilesInv'
<1>1. /\ UNCHANGED <<keptByRenames, disk, dirUnsynced>> /\ compaction.pc = "drain" /\ Flushed
      /\ CopyTail("renameSnapshot") /\ synced' = [synced EXCEPT !.wal = disk.wal]
  BY DEF DrainAndClose, keptByCompaction, writeVars, recoveryVars, historyVars, keptByRenames
<1>2. wal'.landed = wal.landed
  BY DEF DrainAndClose, StructInv, WalType
<1>3. /\ Quiet /\ recovery.pc = "idle"
  BY <1>1, FlushedInStep
<1>4. /\ tmp'.snapshot = tmp.snapshot /\ compaction'.pc = "renameSnapshot"
      /\ \A k \in Keys : /\ Value(tmp.snapshot, tmp'.wal, k) \in Allowed(k)
                         /\ Value(tmp.snapshot, disk.wal, k) \in Allowed(k)
  BY <1>1, TailCopied
<1>5. Floor' = Len(disk'.wal) /\ \A k : Allowed(k)' = Allowed(k)
  BY <1>1, <1>2, <1>3, RenamesKeep
<1>6. synced'.wal = disk.wal /\ synced'.snapshot = synced.snapshot /\ disk' = disk
  BY <1>1, FilesTyped DEF Files
<1>7. Snapshots' = Snapshots
  BY <1>1, <1>6 DEF Snapshots, MayLosePower, keptByRenames
<1>8. \A s \in Snapshots, k \in Keys : Value(s, disk.wal, k) \in Allowed(k)
  BY AllOfDisk DEF FilesInv
<1>9. DiskInv'
  BY <1>5, <1>6, <1>7, <1>8, DiskOfWhole
<1>10. TmpInv'
  <2>1. \A k \in Keys : /\ (Value(tmp.snapshot, tmp.wal, k) \in Allowed(k))'
                        /\ (Value(tmp.snapshot, disk.wal, k) \in Allowed(k))'
    BY <1>4, <1>5, <1>6
  <2> QED
    BY <1>4, <2>1 DEF TmpInv
<1>11. RenamesInv'
  BY <1>4, <1>6 DEF RenamesInv
<1> QED
  BY <1>9, <1>10, <1>11 DEF FilesInv

LEMMA RenameSnapshotFiles ==
    ASSUME StructInv, FilesInv, StructInv', RenameSnapshot
    PROVE  FilesInv'
<1>1. /\ UNCHANGED <<keptByRenames, wal, synced, dirUnsynced, tmp>>
      /\ compaction.pc = "renameSnapshot" /\ compaction' = [compaction EXCEPT !.pc = "syncSnapshotName"]
      /\ disk' = [disk EXCEPT !.snapshot = tmp.snapshot]
  BY DEF RenameSnapshot, keptByCompaction, writeVars, recoveryVars, historyVars, keptByRenames
<1>2. compaction'.pc = "syncSnapshotName" /\ disk'.snapshot = tmp.snapshot /\ disk'.wal = disk.wal
  BY <1>1, FilesTyped DEF Files, Compactions
<1>3. Quiet /\ recovery.pc = "idle"
  BY <1>1 DEF StructInv, RecoveryInv, Renaming
<1>4. Floor' = Len(disk'.wal) /\ \A k : Allowed(k)' = Allowed(k)
  BY <1>1, <1>3, RenamesKeep
<1>5. synced'.wal = disk'.wal
  BY <1>1, <1>2 DEF FilesInv, RenamesInv, Renaming
<1>6. \A s \in Snapshots' : s = tmp.snapshot \/ s \in Snapshots
  BY <1>1, <1>2 DEF Snapshots, MayLosePower, keptByRenames
<1>7. \A s \in Snapshots', k \in Keys : Value(s, disk.wal, k) \in Allowed(k)
  <2>1. \A k \in Keys : Value(tmp.snapshot, disk.wal, k) \in Allowed(k)
    BY <1>1 DEF FilesInv, TmpInv
  <2> QED
    BY <1>6, <2>1, AllOfDisk DEF FilesInv
<1>8. DiskInv'
  BY <1>2, <1>4, <1>5, <1>7, DiskOfWhole
<1>9. TmpInv'
  <2>1. \A k \in Keys : Value(tmp.snapshot, tmp.wal, k) \in Allowed(k)
    BY <1>1 DEF FilesInv, TmpInv, Renaming
  <2>2. \A k \in Keys : (Value(tmp.snapshot, tmp.wal, k) \in Allowed(k))'
    BY <1>1, <1>4, <2>1
  <2> QED
    BY <1>2, <2>2 DEF TmpInv
<1>10. RenamesInv'
  BY <1>1, <1>2, <1>5 DEF RenamesInv
<1> QED
  BY <1>8, <1>9, <1>10 DEF FilesInv

LEMMA SyncSnapshotNameFiles ==
    ASSUME StructInv, FilesInv, StructInv', SyncSnapshotName
    PROVE  FilesInv'
<1>1. /\ UNCHANGED <<keptByRenames, wal, disk, dirUnsynced, tmp>>
      /\ compaction.pc = "syncSnapshotName" /\ compaction' = [compaction EXCEPT !.pc = "renameLog"]
      /\ synced' = [synced EXCEPT !.snapshot = disk.snapshot]
  BY DEF SyncSnapshotName, keptByCompaction, writeVars, recoveryVars, historyVars, keptByRenames
<1>2. compaction'.pc = "renameLog" /\ synced'.snapshot = disk.snapshot /\ synced'.wal = synced.wal
  BY <1>1, FilesTyped DEF Files, Compactions
<1>3. Quiet /\ recovery.pc = "idle"
  BY <1>1 DEF StructInv, RecoveryInv, Renaming
<1>4. Floor' = Len(disk'.wal) /\ \A k : Allowed(k)' = Allowed(k)
  BY <1>1, <1>3, RenamesKeep
<1>5. synced'.wal = disk'.wal /\ disk'.snapshot = tmp'.snapshot
  BY <1>1, <1>2 DEF FilesInv, RenamesInv, Renaming
<1>6. \A s \in Snapshots' : s \in Snapshots
  BY <1>1, <1>2 DEF Snapshots
<1>7. \A s \in Snapshots', k \in Keys : Value(s, disk.wal, k) \in Allowed(k)
  BY <1>6, AllOfDisk DEF FilesInv
<1>8. DiskInv'
  BY <1>1, <1>4, <1>5, <1>7, DiskOfWhole
<1>9. TmpInv'
  <2>1. \A k \in Keys : Value(tmp.snapshot, tmp.wal, k) \in Allowed(k)
    BY <1>1 DEF FilesInv, TmpInv, Renaming
  <2>2. \A k \in Keys : (Value(tmp.snapshot, tmp.wal, k) \in Allowed(k))'
    BY <1>1, <1>4, <2>1
  <2> QED
    BY <1>2, <2>2 DEF TmpInv
<1>10. RenamesInv'
  BY <1>1, <1>2, <1>5 DEF RenamesInv
<1> QED
  BY <1>8, <1>9, <1>10 DEF FilesInv

LEMMA RenameLogFiles ==
    ASSUME StructInv, FilesInv, StructInv', RenameLog
    PROVE  FilesInv'
<1>1. /\ UNCHANGED <<keptByRenames, wal, synced, dirUnsynced, tmp>>
      /\ compaction.pc = "renameLog" /\ compaction' = [compaction EXCEPT !.pc = "syncLogName"]
      /\ disk' = [disk EXCEPT !.wal = tmp.wal]
  BY DEF RenameLog, keptByCompaction, writeVars, recoveryVars, historyVars, keptByRenames
<1>2. compaction'.pc = "syncLogName" /\ disk'.snapshot = disk.snapshot /\ disk'.wal = tmp.wal
  BY <1>1, FilesTyped DEF Files, Compactions
<1>3. Quiet /\ recovery.pc = "idle"
  BY <1>1 DEF StructInv, RecoveryInv, Renaming
<1>4. Floor' = Len(disk'.wal) /\ \A k : Allowed(k)' = Allowed(k)
  BY <1>1, <1>3, RenamesKeep
<1>5. synced.wal = disk.wal /\ disk.snapshot = tmp.snapshot /\ synced.snapshot = tmp.snapshot
  BY <1>1 DEF FilesInv, RenamesInv, Renaming
<1>6. \A s \in Snapshots' : s = tmp.snapshot
  BY <1>1, <1>2, <1>5 DEF Snapshots
<1>7. \A k \in Keys : Value(tmp.snapshot, tmp.wal, k) \in Allowed(k)
  BY <1>1 DEF FilesInv, TmpInv, Renaming
<1>8. DiskInv'
  <2>1. \A s \in Snapshots', k \in Keys : Value(s, disk'.wal, k) \in Allowed(k)'
    BY <1>2, <1>4, <1>6, <1>7
  <2> QED
    BY <1>2, <1>4, <2>1, DiskOfWhole
<1>9. TmpInv'
  <2>1. \A k \in Keys : (Value(tmp.snapshot, tmp.wal, k) \in Allowed(k))'
    BY <1>1, <1>4, <1>7
  <2> QED
    BY <1>2, <2>1 DEF TmpInv
<1>10. RenamesInv'
  <2>1. disk.snapshot \in Snapshots
    BY DEF Snapshots
  <2>2. \A k \in Keys : Value(tmp.snapshot, synced.wal, k) \in Allowed(k)
    BY <1>5, <2>1, AllOfDisk DEF FilesInv
  <2>3. \A k \in Keys : (Value(tmp.snapshot, synced.wal, k) \in Allowed(k))'
    BY <1>1, <1>4, <2>2
  <2> QED
    BY <1>1, <1>2, <1>5, <2>3 DEF RenamesInv
<1> QED
  BY <1>8, <1>9, <1>10 DEF FilesInv

LEMMA SyncLogNameFiles ==
    ASSUME StructInv, FilesInv, StructInv', SyncLogName
    PROVE  FilesInv'
<1>1. /\ UNCHANGED <<keptByRenames, disk, dirUnsynced>>
      /\ compaction.pc = "syncLogName" /\ compaction' = NoCompaction
      /\ synced' = [synced EXCEPT !.wal = disk.wal] /\ wal' = OpenWal(Len(disk.wal))
  BY DEF SyncLogName, CompactionOver, keptByCompaction, writeVars, recoveryVars, historyVars, keptByRenames
<1>2. compaction'.pc = "idle" /\ synced'.snapshot = synced.snapshot /\ synced'.wal = disk.wal
      /\ wal'.landed = FALSE
  BY <1>1, FilesTyped DEF Files, NoCompaction, OpenWal
<1>3. Quiet /\ recovery.pc = "idle" /\ wal.landed = FALSE
  BY <1>1 DEF StructInv, RecoveryInv, SizeInv, WalType, Quiet, Renaming
<1>4. Floor' = Len(disk'.wal) /\ \A k : Allowed(k)' = Allowed(k)
  BY <1>1, <1>2, <1>3, RenamesKeep
<1>5. Snapshots' = Snapshots
  BY <1>1, <1>2 DEF Snapshots, MayLosePower, keptByRenames
<1>6. \A s \in Snapshots', k \in Keys : Value(s, disk.wal, k) \in Allowed(k)
  BY <1>5, AllOfDisk DEF FilesInv
<1>7. DiskInv'
  BY <1>1, <1>2, <1>4, <1>6, DiskOfWhole
<1>8. TmpInv' /\ RenamesInv'
  BY <1>2 DEF TmpInv, RenamesInv, Renaming
<1> QED
  BY <1>7, <1>8 DEF FilesInv

(* A rotation that fails once the log is renamed leaves a name that is not  *)
(* durable: no promise is made for a loss of power from then on.            *)
LEMMA RotationFailsFiles ==
    ASSUME StructInv, FilesInv, RotationFails
    PROVE  FilesInv'
<1>1. /\ UNCHANGED <<keptByRenames, disk, synced>> /\ compaction' = [compaction EXCEPT !.pc = "swap"]
      /\ dirUnsynced' = (dirUnsynced \/ compaction.pc = "syncLogName")
  BY DEF RotationFails, keptByCompaction, writeVars, recoveryVars, historyVars, keptByRenames
<1>2. compaction'.pc = "swap"
  BY <1>1, FilesTyped DEF Compactions
<1>3. wal'.landed = wal.landed /\ wal'.size = wal.size /\ wal'.batch = wal.batch
  BY DEF RotationFails, StructInv, WalType
<1>4. Floor' = Floor /\ \A k : Allowed(k)' = Allowed(k)
  BY <1>1, <1>3, AllowedKept DEF Floor, keptByRenames
<1>5. (\A r : FloorGood(r) => FloorGood(r)') /\ \A r : PowerGood(r) => PowerGood(r)'
  BY <1>1, <1>4, FloorGoodKept, PowerGoodKept
<1>6. MayLosePower' => MayLosePower /\ compaction.pc # "syncLogName"
  BY <1>1 DEF MayLosePower, keptByRenames
<1>7. DiskSources' \subseteq DiskSources
  BY <1>1, <1>6 DEF DiskSources, Snapshots
<1>8. DiskInv'
  BY <1>5, <1>6, <1>7 DEF FilesInv, DiskInv
<1>9. TmpInv' /\ RenamesInv'
  BY <1>2 DEF TmpInv, RenamesInv, Renaming
<1> QED
  BY <1>8, <1>9 DEF FilesInv

LEMMA SwapLogFiles ==
    ASSUME StructInv, FilesInv, SwapLog
    PROVE  FilesInv'
<1>1. /\ UNCHANGED <<keptByRenames, disk, synced, dirUnsynced>>
      /\ wal.poisoned \/ (wal.queue = <<>> /\ wal.batch = <<>>)
      /\ wal' = OpenWal(Len(disk.wal)) \/ wal' = wal
      /\ compaction' = NoCompaction /\ compaction.pc = "swap"
  BY DEF SwapLog, CompactionOver, keptByCompaction, writeVars, fileVars, recoveryVars, historyVars,
         keptByRenames
<1>2. ~ wal.landed
  BY <1>1 DEF StructInv, RecoveryInv, SizeInv, Quiet
<1>3. wal'.landed = FALSE \/ wal' = wal
  BY <1>1 DEF OpenWal
<1>4. Floor' = Floor /\ \A k : Allowed(k)' = Allowed(k)
  BY <1>1, <1>2, <1>3, AllowedKept DEF Floor, keptByRenames
<1>5. compaction'.pc = "idle"
  BY <1>1 DEF NoCompaction
<1>6. DiskInv'
  BY <1>1, <1>4, DiskKept DEF FilesInv, keptByRenames
<1>7. TmpInv' /\ RenamesInv'
  BY <1>5 DEF TmpInv, RenamesInv, Renaming
<1> QED
  BY <1>6, <1>7 DEF FilesInv

-----------------------------------------------------------------------------
(* Crashes and the first state.                                             *)
LEMMA CrashFilesInv ==
    ASSUME StructInv, FilesInv, StructInv', Crash
    PROVE  FilesInv'
<1>1. /\ opened' = [k \in Keys |-> Allowed(k)] /\ log' = <<>> /\ policy' = policy
      /\ wal' = OpenWal(Len(disk'.wal)) /\ recovery' = NoRecovery /\ compaction' = NoCompaction
  BY DEF Crash, CompactionOver
<1>2. compaction'.pc = "idle" /\ wal'.landed = FALSE /\ recovery'.pc = "idle"
  BY <1>1 DEF NoCompaction, NoRecovery, OpenWal
<1>3. Floor' = Len(disk'.wal)
  BY <1>2 DEF Floor
<1>4. ASSUME NEW k \in Keys PROVE Allowed(k)' = Allowed(k)
  <2>1. AckedAt(k)' = {}
    BY <1>1 DEF AckedAt
  <2>2. LastAcked(k)' = Newest(AckedAt(k)')
    BY DEF LastAcked, Newest, AckedAt
  <2>3. LastAcked(k)' = 0
    BY <2>1, <2>2 DEF Newest
  <2> QED
    BY <1>1, <2>3 DEF Allowed
<1>5. CASE UNCHANGED <<disk, synced>> /\ dirUnsynced' = (dirUnsynced \/ compaction.pc = "syncLogName")
  <2>1. MayLosePower' => MayLosePower /\ compaction.pc # "syncLogName"
    BY <1>1, <1>5 DEF MayLosePower
  <2>2. Snapshots' \subseteq Snapshots
    BY <1>5, <2>1 DEF Snapshots
  <2>3. \A r : PowerGood(r) => PowerGood(r)'
    BY <1>4, <1>5, PowerGoodKept
  <2>4. \A s \in Snapshots', k \in Keys : Value(s, disk'.wal, k) \in Allowed(k)'
    BY <1>4, <1>5, <2>2, AllOfDisk DEF FilesInv
  <2> SUFFICES ASSUME NEW s \in Snapshots'
               PROVE  FloorGood(Source(s, <<>>, 0))' /\ (MayLosePower' => PowerGood(Source(s, <<>>, 0))')
    <3>1. TmpInv' /\ RenamesInv'
      BY <1>2 DEF TmpInv, RenamesInv, Renaming
    <3> QED
      BY <3>1 DEF FilesInv, DiskInv, DiskSources
  <2>5. FloorGood(Source(s, <<>>, 0))'
    BY <1>3, <2>4, WholeGood
  <2>6. Source(s, <<>>, 0) \in DiskSources
    BY <2>2 DEF DiskSources
  <2> QED
    BY <2>1, <2>3, <2>5, <2>6 DEF FilesInv, DiskInv
<1>6. CASE MayLosePower /\ disk' \in PowerLost /\ synced' = disk'
  <2>1. \A k \in Keys : Reopened(disk')[k] \in Allowed(k)
    BY <1>6, FilesSurvive DEF AckedSurvives
  <2>2. disk' \in Files
    BY CrashFiles
  <2>3. \A k \in Keys : Value(disk'.snapshot, disk'.wal, k) \in Allowed(k)
    BY <2>1, <2>2, ReopenedType
  <2>4. \A s \in Snapshots' : s = disk'.snapshot
    BY <1>6 DEF Snapshots
  <2>5. \A s \in Snapshots', k \in Keys : Value(s, disk'.wal, k) \in Allowed(k)'
    BY <1>4, <2>3, <2>4
  <2>6. DiskInv'
    BY <1>3, <1>6, <2>5, DiskOfWhole
  <2>7. TmpInv' /\ RenamesInv'
    BY <1>2 DEF TmpInv, RenamesInv, Renaming
  <2> QED
    BY <2>6, <2>7 DEF FilesInv
<1> QED
  BY <1>5, <1>6 DEF Crash

LEMMA InitFiles == Init => FilesInv
<1> SUFFICES ASSUME Init PROVE FilesInv
  OBVIOUS
<1>1. /\ wal = OpenWal(0) /\ disk = NoFiles /\ synced = NoFiles /\ recovery = NoRecovery
      /\ compaction = NoCompaction /\ log = <<>> /\ opened = [k \in Keys |-> {None}]
  BY DEF Init
<1>2. /\ disk.wal = <<>> /\ disk.snapshot = NoValues /\ synced.snapshot = NoValues
      /\ ~ wal.landed /\ recovery.pc = "idle" /\ compaction.pc = "idle"
  BY <1>1 DEF OpenWal, NoFiles, NoRecovery, NoCompaction
<1>3. Floor = 0 /\ Len(disk.wal) = 0
  BY <1>2 DEF Floor
<1>4. ASSUME NEW k \in Keys PROVE None \in Allowed(k)
  <2>1. AckedAt(k) = {}
    BY <1>1 DEF AckedAt
  <2>2. LastAcked(k) = Newest(AckedAt(k))
    BY DEF LastAcked, Newest, AckedAt
  <2>3. LastAcked(k) = 0
    BY <2>1, <2>2 DEF Newest
  <2> QED
    BY <1>1, <2>3 DEF Allowed
<1> DEFINE r == Source(NoValues, <<>>, 0)
<1>5. \A x \in DiskSources : x = r
  BY <1>2 DEF DiskSources, Snapshots
<1>6. r.snapshot = NoValues /\ r.from = 0
  BY DEF Source
<1>7. Good(r, 0)
  <2>1. StructInv
    BY InitStruct
  <2>2. Reads(r, Len(disk.wal)) = disk.wal
    BY <2>1, WholeLog
  <2>3. Reads(r, 0) = <<>>
    BY <1>2, <1>3, <2>2
  <2>4. \A k \in Keys : At(<<>>, k) = {} /\ NoValues[k] = None
    BY DEF At, NoValues
  <2>5. \A k \in Keys : Value(NoValues, <<>>, k) = None
    BY <2>4, ValueOfNone
  <2> HIDE DEF r
  <2> QED
    BY <1>4, <1>6, <2>3, <2>5 DEF Good
<1> HIDE DEF r
<1>8. FloorGood(r) /\ PowerGood(r)
  <2>1. \A n \in 0..0 : n = 0
    OBVIOUS
  <2> QED
    BY <1>3, <1>6, <1>7, <2>1 DEF FloorGood, PowerGood
<1>9. DiskInv
  BY <1>5, <1>8 DEF DiskInv
<1>10. TmpInv /\ RenamesInv
  BY <1>2 DEF TmpInv, RenamesInv, Renaming
<1> QED
  BY <1>9, <1>10 DEF FilesInv

-----------------------------------------------------------------------------
(* The inductive invariant.                                                 *)
StoresInv == \A k \in Keys : StoreInv(k)
IInv == StructInv /\ StoresInv /\ FilesInv

LEMMA NextFloor == ASSUME StructInv' PROVE Floor' \in Int
<1>1. /\ wal'.size \in Nat /\ wal'.batch \in Seq(Writes) /\ disk'.wal \in Seq(Writes)
      /\ recovery'.at \in Nat
  BY DEF StructInv, WalType, FileTypes, Files
<1>2. Len(wal'.batch) \in Nat /\ Len(disk'.wal) \in Nat
  BY <1>1
<1> QED
  BY <1>1, <1>2 DEF Floor

LEMMA InitInv == Init => IInv
<1> SUFFICES ASSUME Init PROVE IInv
  OBVIOUS
<1>1. StructInv /\ FilesInv
  BY InitStruct, InitFiles
<1>2. StoresInv
  BY InitStore DEF StoresInv
<1> QED
  BY <1>1, <1>2 DEF IInv

LEMMA WritingInv ==
    ASSUME IInv, NEW w \in Writes, Call(w) \/ Enter(w) \/ Commit(w)
    PROVE  IInv'
<1>1. StructInv'
  BY CallStruct, EnterStruct, CommitStruct DEF IInv
<1>2. StoresInv'
  BY CallStore, EnterStore, CommitStore DEF IInv, StoresInv
<1>3. FilesInv'
  BY CallFiles, EnterFiles, CommitFiles DEF IInv
<1> QED
  BY <1>1, <1>2, <1>3 DEF IInv

LEMMA FlushingInv ==
    ASSUME IInv, UndoRefused \/ Flushing \/ Truncate \/ RefreshSize
    PROVE  IInv'
<1>1. StructInv'
  BY UndoRefusedStruct, FlushBatchStruct, WriteLandsStruct, SyncLandsStruct, FlushFailsStruct,
     TruncateStruct, RefreshSizeStruct DEF IInv, Flushing
<1>2. StoresInv'
  BY UndoRefusedStore, FlushBatchStore, WriteLandsStore, SyncLandsStore, FlushFailsStore,
     TruncateStore, RefreshSizeStore DEF IInv, StoresInv, Flushing
<1>3. FilesInv'
  <2>1. Floor' \in Int
    BY <1>1, NextFloor
  <2> QED
    BY <2>1, UndoRefusedFiles, FlushBatchFiles, FlushingFiles, RefreshSizeFiles DEF IInv, Flushing
<1> QED
  BY <1>1, <1>2, <1>3 DEF IInv

LEMMA CompactingInv ==
    ASSUME ~ ManualCompaction, IInv, Compact \/ Compacting
    PROVE  IInv'
<1>1. StructInv'
  <2>1. CASE DrainAndClose
    <3>1. compaction.copied <= Len(disk.wal)
      BY <2>1, TailCopied DEF DrainAndClose, IInv
    <3> QED
      BY <2>1, <3>1, DrainAndCloseStruct DEF IInv
  <2>2. CASE ~ DrainAndClose
    BY <2>2, CompactStruct, FenceStruct, WriteSnapshotStruct, PreCopyStruct, SealStruct,
       RenameSnapshotStruct, SyncSnapshotNameStruct, RenameLogStruct, SyncLogNameStruct,
       CompactionFailsStruct, RotationFailsStruct, SwapLogStruct DEF IInv, Compacting
  <2> QED
    BY <2>1, <2>2
<1>2. StoresInv'
  BY CompactingStore DEF IInv, StoresInv
<1>3. FilesInv'
  BY <1>1, CompactFiles, FenceFiles, WriteSnapshotFiles, PreCopyFiles, SealFiles,
     DrainAndCloseFiles, RenameSnapshotFiles, SyncSnapshotNameFiles, RenameLogFiles,
     SyncLogNameFiles, RotationFailsFiles, SwapLogFiles DEF IInv, StoresInv, Compacting
<1> QED
  BY <1>1, <1>2, <1>3 DEF IInv

LEMMA CrashInv ==
    ASSUME IInv, Crash
    PROVE  IInv'
<1>1. StructInv'
  BY CrashStruct DEF IInv
<1>2. AckedSurvives
  BY FilesSurvive DEF IInv
<1>3. StoresInv'
  BY <1>2, CrashStore DEF IInv, StoresInv
<1>4. FilesInv'
  BY <1>1, CrashFilesInv DEF IInv
<1> QED
  BY <1>1, <1>3, <1>4 DEF IInv

LEMMA StutterInv ==
    ASSUME IInv, UNCHANGED vars
    PROVE  IInv'
<1>1. UNCHANGED <<policy, status, retried, store, bounced, wal, disk, synced, dirUnsynced,
                  recovery, writeDisabled, compaction, tmp, locked, log, opened, tangled>>
  BY DEF vars, writeVars, fileVars, recoveryVars, compactionVars, historyVars
<1>2. WalType' /\ WriteTypes' /\ FileTypes'
  BY <1>1 DEF IInv, StructInv, WalType, WriteTypes, FileTypes
<1>3. LockInv' /\ CalmInv' /\ RecoveryInv'
  BY <1>1 DEF IInv, StructInv, LockInv, CalmInv, RecoveryInv, Quiet
<1>4. LogInv' /\ BouncedInv' /\ SizeInv'
  BY <1>1 DEF IInv, StructInv, LogInv, Before, BouncedInv, SizeInv, Quiet
<1>5. StructInv'
  BY <1>2, <1>3, <1>4 DEF StructInv
<1>6. StoresInv'
  <2>1. Dead' = Dead
    BY <1>1 DEF Dead
  <2> QED
    BY <1>1, <2>1, StoreOfSame DEF IInv, StoresInv
<1>7. FilesInv'
  <2>1. Floor' = Floor
    BY <1>1 DEF Floor
  <2>2. \A k : Allowed(k)' = Allowed(k)
    BY <1>1, AllowedKept
  <2> QED
    BY <1>1, <2>1, <2>2, FilesKept DEF IInv
<1> QED
  BY <1>5, <1>6, <1>7 DEF IInv

LEMMA NextInv ==
    ASSUME ~ ManualCompaction, IInv, [Next]_vars
    PROVE  IInv'
<1>1. CASE Writing
  BY <1>1, WritingInv DEF Writing
<1>2. CASE UndoRefused \/ Flushing \/ Truncate \/ RefreshSize
  BY <1>2, FlushingInv
<1>3. CASE Compact \/ Compacting
  BY <1>3, CompactingInv
<1>4. CASE Crash
  BY <1>4, CrashInv
<1>5. CASE UNCHANGED vars
  BY <1>5, StutterInv
<1> QED
  BY <1>1, <1>2, <1>3, <1>4, <1>5 DEF Next

-----------------------------------------------------------------------------
(* The invariant is inductive when compactions are started by the commits   *)
(* themselves (maybeAutoCompact) and never by the client's compact(): one   *)
(* that runs between a failed rotation and the truncation that recovers     *)
(* from it copies from a place that is not there any more.                  *)
THEOREM InductiveInvariant ==
    ASSUME ~ ManualCompaction
    PROVE  Spec => []IInv
<1>1. Init => IInv
  BY InitInv
<1>2. IInv /\ [Next]_vars => IInv'
  BY NextInv
<1> QED
  BY <1>1, <1>2, PTL DEF Spec

(* Whenever the process dies, and with fsyncPolicy 'always' when power is   *)
(* lost, recover() finds for every key the last write that was acknowledged *)
(* or one made after it: in the middle of a flush, of a truncation, of a    *)
(* snapshot, between the two renames and after a rotation that failed.      *)
THEOREM AckedSurvivesHolds ==
    ASSUME ~ ManualCompaction
    PROVE  Spec => []AckedSurvives
<1>1. IInv => AckedSurvives
  BY FilesSurvive DEF IInv
<1> QED
  BY <1>1, InductiveInvariant, PTL

(* And whenever no write of a key is in flight the live store holds the     *)
(* last one that was acknowledged: rollbackGroup and restoreKey neither     *)
(* lose an acknowledged write nor leave one that failed.                    *)
THEOREM LiveIsAckedHolds ==
    ASSUME ~ ManualCompaction
    PROVE  Spec => []LiveIsAcked
<1>1. IInv => LiveIsAcked
  BY StoreIsLive DEF IInv, StoresInv
<1> QED
  BY <1>1, InductiveInvariant, PTL
=============================================================================
