----------------------------- MODULE Queue_proofs -----------------------------
(* What the operations of Queue keep: the type of a queue, that nothing is  *)
(* in it twice, and which elements it has.                                  *)
EXTENDS Queue, Integers, WellFoundedInduction, SequenceTheorems, TLAPS

LEMMA TakenType ==
    ASSUME NEW S, NEW q \in Seq(S), NEW i \in DOMAIN q PROVE Taken(q, i) \in Seq(S)
<1>1. Len(q) - 1 \in Nat /\ \A j \in 1..Len(q) : q[j] \in S
  OBVIOUS
<1> QED
  BY <1>1 DEF Taken

LEMMA Offset ==
    ASSUME NEW i \in Nat, NEW j \in Nat, NEW n \in Nat, 1 <= i, i <= j, j <= n - 1
    PROVE  \E k \in 1..(n - i) : j = i + k - 1 /\ j + 1 = i + k
<1>1. j - i + 1 \in 1..(n - i) /\ j = i + (j - i + 1) - 1 /\ j + 1 = i + (j - i + 1)
  OBVIOUS
<1> QED
  BY <1>1

(* SubSeq() within the sequence, with the length worked out.                *)
LEMMA Part ==
    ASSUME NEW S, NEW s, NEW n \in Nat, \A k \in 1..n : s[k] \in S,
           NEW a \in 1..(n + 1), NEW b \in 0..n, NEW l \in Nat, b - a + 1 = l
    PROVE  /\ SubSeq(s, a, b) \in Seq(S) /\ Len(SubSeq(s, a, b)) = l
           /\ \A k \in 1..l : SubSeq(s, a, b)[k] = s[a + k - 1]
<1>1. a \in Int /\ b \in Int /\ \A k \in a..b : s[k] \in S
  OBVIOUS
<1>2. /\ SubSeq(s, a, b) \in Seq(S)
      /\ Len(SubSeq(s, a, b)) = IF a <= b THEN b - a + 1 ELSE 0
      /\ \A k \in 1..(b - a + 1) : SubSeq(s, a, b)[k] = s[a + k - 1]
  BY <1>1, SubSeqProperties
<1>3. (IF a <= b THEN b - a + 1 ELSE 0) = l
  OBVIOUS
<1> QED
  BY <1>2, <1>3, Zenon

(* The parts before and behind a place, joined.                             *)
Spliced(s, i) == SubSeq(s, 1, i - 1) \o SubSeq(s, i + 1, Len(s))

LEMMA SplicedIsTaken ==
    ASSUME NEW S, NEW s \in Seq(S), NEW i \in DOMAIN s
    PROVE  SubSeq(s, 1, i - 1) \o SubSeq(s, i + 1, Len(s)) = Taken(s, i)
<1>1. /\ i \in 1..Len(s) /\ Len(s) \in Nat
      /\ SubSeq(s, 1, i - 1) \in Seq(S) /\ Len(SubSeq(s, 1, i - 1)) = i - 1
      /\ SubSeq(s, i + 1, Len(s)) \in Seq(S) /\ Len(SubSeq(s, i + 1, Len(s))) = Len(s) - i
      /\ \A k \in 1..(i - 1) : SubSeq(s, 1, i - 1)[k] = s[k]
      /\ \A k \in 1..(Len(s) - i) : SubSeq(s, i + 1, Len(s))[k] = s[i + k]
  <2> DEFINE n == Len(s)
  <2>1. n \in Nat /\ s \in [1..n -> S] /\ i \in 1..n
    BY LenProperties
  <2> HIDE DEF n
  <2>2. \A k \in 1..n : s[k] \in S
    BY <2>1
  <2> DEFINE m == i - 1
             l == i + 1
             k == n - i
             first == 1
  <2>3. /\ m \in 0..n /\ first \in 1..(n + 1) /\ m \in Nat /\ m - first + 1 = m
        /\ l \in 1..(n + 1) /\ n \in 0..n /\ k \in Nat /\ n - l + 1 = k
    BY <2>1
  <2>4. /\ \A j \in 1..m : first + j - 1 = j
        /\ \A j \in 1..k : l + j - 1 = i + j
    BY <2>1
  <2> HIDE DEF m, l, k, first
  <2>5. /\ SubSeq(s, first, m) \in Seq(S) /\ Len(SubSeq(s, first, m)) = m
        /\ \A j \in 1..m : SubSeq(s, first, m)[j] = s[first + j - 1]
    BY <2>1, <2>2, <2>3, Part
  <2>6. /\ SubSeq(s, l, n) \in Seq(S) /\ Len(SubSeq(s, l, n)) = k
        /\ \A j \in 1..k : SubSeq(s, l, n)[j] = s[l + j - 1]
    BY <2>1, <2>2, <2>3, Part
  <2>7. /\ \A j \in 1..m : SubSeq(s, first, m)[j] = s[j]
        /\ \A j \in 1..k : SubSeq(s, l, n)[j] = s[i + j]
    BY <2>4, <2>5, <2>6, Zenon
  <2> QED
    BY <2>1, <2>5, <2>6, <2>7, Zenon DEF n, m, l, k, first
<1>2. Spliced(s, i) \in Seq(S) /\ Taken(s, i) \in Seq(S)
  BY <1>1, ConcatProperties, TakenType DEF Spliced
<1>3. Len(Spliced(s, i)) = Len(s) - 1
  <2> DEFINE a == SubSeq(s, 1, i - 1)
             b == SubSeq(s, i + 1, Len(s))
  <2>1. a \in Seq(S) /\ b \in Seq(S) /\ Len(a) = i - 1 /\ Len(b) = Len(s) - i
    BY <1>1, Zenon
  <2>2. Spliced(s, i) = a \o b
    BY DEF Spliced
  <2> HIDE DEF a, b
  <2>3. Len(a \o b) = Len(a) + Len(b)
    BY <2>1, ConcatProperties, Zenon
  <2>4. i - 1 + (Len(s) - i) = Len(s) - 1
    BY <1>1
  <2> QED
    BY <2>1, <2>2, <2>3, <2>4, Zenon
<1>4. Len(Taken(s, i)) = Len(s) - 1 /\ DOMAIN Taken(s, i) = 1..(Len(s) - 1)
  BY <1>1, <1>2 DEF Taken
<1>5. \A j \in 1..(Len(s) - 1) : Spliced(s, i)[j] = Taken(s, i)[j]
  <2> DEFINE a == SubSeq(s, 1, i - 1)  b == SubSeq(s, i + 1, Len(s))
  <2> SUFFICES ASSUME NEW j \in 1..(Len(s) - 1) PROVE (a \o b)[j] = Taken(s, i)[j]
    BY DEF Spliced
  <2>1. /\ \A k \in 1..(i - 1) : a[k] = s[k]
        /\ \A k \in 1..(Len(s) - i) : b[k] = s[i + k]
    BY <1>1, Zenon
  <2>2. /\ a \in Seq(S) /\ b \in Seq(S) /\ Len(a) = i - 1 /\ Len(b) = Len(s) - i
    BY <1>1, Zenon
  <2>3. Taken(s, i)[j] = IF j < i THEN s[j] ELSE s[j + 1]
    BY DEF Taken
  <2> HIDE DEF a, b
  <2>4. CASE j < i
    <3>1. j \in 1..(i - 1) /\ i - 1 + (Len(s) - i) = Len(s) - 1 /\ j <= i - 1
      BY <1>1, <2>4
    <3>2. Len(a) + Len(b) = Len(s) - 1
      BY <2>2, <3>1, Zenon
    <3>3. (a \o b)[j] = IF j <= Len(a) THEN a[j] ELSE b[j - Len(a)]
      BY <2>2, <3>2, ConcatProperties, Zenon
    <3>4. (a \o b)[j] = s[j]
      BY <2>1, <2>2, <3>1, <3>3, Zenon
    <3> QED
      BY <2>3, <2>4, <3>4
  <2>5. CASE ~ (j < i)
    <3>1. i \in Nat /\ j \in Nat /\ Len(s) \in Nat /\ 1 <= i /\ i <= j /\ j <= Len(s) - 1
      BY <1>1, <2>5
    <3>2. PICK k \in 1..(Len(s) - i) : j = i + k - 1 /\ j + 1 = i + k
      BY <3>1, Offset
    <3>3. j > Len(a) /\ j - Len(a) = k /\ j \in 1..(Len(a) + Len(b))
      <4>1. Len(a) = i - 1 /\ Len(b) = Len(s) - i /\ k \in Nat
        BY <2>2, <3>1
      <4>2. Len(a) + Len(b) = Len(s) - 1
        BY <3>1, <4>1
      <4>3. j - (i - 1) = k /\ j > i - 1 /\ j \in 1..(Len(s) - 1)
        BY <3>1, <3>2, <4>1
      <4>4. j > Len(a) /\ j - Len(a) = k
        BY <4>1, <4>3
      <4> QED
        BY <4>2, <4>3, <4>4
    <3>4. (a \o b)[j] = b[k]
      <4>1. (a \o b)[j] = IF j <= Len(a) THEN a[j] ELSE b[j - Len(a)]
        BY <2>2, <3>3, ConcatProperties
      <4>2. ~ (j <= Len(a))
        BY <2>2, <3>1, <3>3
      <4> QED
        BY <3>3, <4>1, <4>2
    <3>5. b[k] = s[j + 1]
      <4>1. b[k] = s[i + k]
        BY <2>1
      <4> QED
        BY <3>2, <4>1
    <3> QED
      BY <2>3, <2>5, <3>4, <3>5
  <2> QED
    BY <2>4, <2>5
<1>6. Spliced(s, i) = Taken(s, i)
  BY <1>2, <1>3, <1>4, <1>5, SeqEqual
<1> QED
  BY <1>6 DEF Spliced

(* Taking a member out of a queue without duplicates.                       *)
LEMMA TakenProperties ==
    ASSUME NEW S, NEW q \in Seq(S), NEW i \in DOMAIN q, Distinct(q)
    PROVE  /\ Taken(q, i) \in Seq(S) /\ Distinct(Taken(q, i))
           /\ Queued(Taken(q, i)) = Queued(q) \ {q[i]}
<1> DEFINE r == Taken(q, i)
<1>1. /\ DOMAIN q = 1..Len(q) /\ Len(q) \in Nat /\ i \in 1..Len(q) /\ Len(q) - 1 \in Nat
      /\ \A j \in 1..Len(q) : q[j] \in S
  OBVIOUS
<1>2. /\ r = [j \in 1..(Len(q) - 1) |-> IF j < i THEN q[j] ELSE q[j + 1]]
      /\ DOMAIN r = 1..(Len(q) - 1)
      /\ \A j \in 1..(Len(q) - 1) : r[j] = IF j < i THEN q[j] ELSE q[j + 1]
  BY <1>1 DEF Taken
<1> HIDE DEF r
<1>3. r \in Seq(S)
  BY <1>1, <1>2
<1>4. Distinct(r)
  <2> SUFFICES ASSUME NEW j \in DOMAIN r, NEW k \in DOMAIN r, r[j] = r[k] PROVE j = k
    BY DEF Distinct
  <2> QED
    BY <1>1, <1>2 DEF Distinct
<1>5. Queued(r) \subseteq Queued(q) \ {q[i]}
  <2> SUFFICES ASSUME NEW j \in DOMAIN r PROVE r[j] \in Queued(q) /\ r[j] # q[i]
    BY DEF Queued
  <2>1. CASE j < i
    BY <1>1, <1>2, <2>1 DEF Distinct, Queued
  <2>2. CASE ~ (j < i)
    BY <1>1, <1>2, <2>2 DEF Distinct, Queued
  <2> QED
    BY <2>1, <2>2
<1>6. Queued(q) \ {q[i]} \subseteq Queued(r)
  <2> SUFFICES ASSUME NEW j \in DOMAIN q, q[j] # q[i] PROVE \E k \in DOMAIN r : r[k] = q[j]
    BY DEF Queued
  <2>1. CASE j < i
    BY <1>1, <1>2, <2>1
  <2>2. CASE j > i
    <3>1. j - 1 \in 1..(Len(q) - 1) /\ ~ (j - 1 < i) /\ (j - 1) + 1 = j
      BY <1>1, <2>2
    <3>2. r[j - 1] = q[j]
      BY <1>2, <3>1
    <3> QED
      BY <1>2, <3>1, <3>2
  <2> QED
    BY <1>1, <2>1, <2>2
<1> QED
  BY <1>3, <1>4, <1>5, <1>6 DEF r

(* Launching the first n of a queue.                                        *)
LEMMA RestProperties ==
    ASSUME NEW S, NEW q \in Seq(S), NEW n \in 0..Len(q), Distinct(q)
    PROVE  LET rest == SubSeq(q, n + 1, Len(q))
               first == {q[i] : i \in 1..n}
           IN  /\ rest \in Seq(S) /\ Distinct(rest) /\ first \subseteq Queued(q)
               /\ Queued(rest) = Queued(q) \ first
<1> DEFINE rest == SubSeq(q, n + 1, Len(q))
           first == {q[i] : i \in 1..n}
<1>1. DOMAIN q = 1..Len(q) /\ Len(q) \in Nat /\ n \in Nat /\ n <= Len(q)
  OBVIOUS
<1>2. /\ rest \in Seq(S) /\ DOMAIN rest = 1..(Len(q) - n)
      /\ \A j \in 1..(Len(q) - n) : rest[j] = q[n + j]
  BY <1>1
<1> HIDE DEF rest
<1>3. Distinct(rest)
  <2> SUFFICES ASSUME NEW j \in DOMAIN rest, NEW k \in DOMAIN rest, rest[j] = rest[k]
               PROVE  j = k
    BY DEF Distinct
  <2>1. n + j \in DOMAIN q /\ n + k \in DOMAIN q /\ q[n + j] = q[n + k]
    BY <1>1, <1>2
  <2>2. n + j = n + k
    BY <2>1 DEF Distinct
  <2> QED
    BY <1>1, <1>2, <2>2
<1>4. first \subseteq Queued(q)
  BY <1>1 DEF Queued
<1>5. Queued(rest) \subseteq Queued(q) \ first
  <2> SUFFICES ASSUME NEW j \in DOMAIN rest PROVE rest[j] \in Queued(q) \ first
    BY DEF Queued
  <2>1. n + j \in DOMAIN q /\ rest[j] = q[n + j] /\ n + j > n
    BY <1>1, <1>2
  <2>2. ASSUME NEW i \in 1..n PROVE q[i] # q[n + j]
    BY <1>1, <2>1 DEF Distinct
  <2> QED
    BY <2>1, <2>2 DEF Queued
<1>6. Queued(q) \ first \subseteq Queued(rest)
  <2> SUFFICES ASSUME NEW j \in DOMAIN q, q[j] \notin first
               PROVE  \E k \in DOMAIN rest : rest[k] = q[j]
    BY DEF Queued
  <2>1. j > n
    BY <1>1
  <2>2. j - n \in 1..(Len(q) - n) /\ n + (j - n) = j
    BY <1>1, <2>1
  <2> QED
    BY <1>2, <2>2
<1> QED
  BY <1>2, <1>3, <1>4, <1>5, <1>6 DEF rest

LEMMA TailProperties ==
    ASSUME NEW S, NEW q \in Seq(S), q # <<>>, Distinct(q)
    PROVE  /\ Tail(q) \in Seq(S) /\ Distinct(Tail(q)) /\ Head(q) \in Queued(q)
           /\ Head(q) \in S /\ Queued(Tail(q)) = Queued(q) \ {Head(q)}
<1>1. /\ DOMAIN q = 1..Len(q) /\ Len(q) \in Nat /\ Len(q) >= 1 /\ Head(q) = q[1]
      /\ Tail(q) \in Seq(S) /\ DOMAIN Tail(q) = 1..(Len(q) - 1)
      /\ \A j \in 1..(Len(q) - 1) : Tail(q)[j] = q[j + 1]
  OBVIOUS
<1>2. Distinct(Tail(q))
  BY <1>1 DEF Distinct
<1>3. Queued(Tail(q)) \subseteq Queued(q) \ {Head(q)}
  <2> SUFFICES ASSUME NEW j \in DOMAIN Tail(q) PROVE Tail(q)[j] \in Queued(q) \ {q[1]}
    BY <1>1 DEF Queued
  <2>1. j + 1 \in DOMAIN q /\ 1 \in DOMAIN q /\ j + 1 # 1 /\ Tail(q)[j] = q[j + 1]
    BY <1>1
  <2> QED
    BY <2>1 DEF Queued, Distinct
<1>4. Queued(q) \ {Head(q)} \subseteq Queued(Tail(q))
  <2> SUFFICES ASSUME NEW j \in DOMAIN q, q[j] # q[1]
               PROVE  \E k \in DOMAIN Tail(q) : Tail(q)[k] = q[j]
    BY <1>1 DEF Queued
  <2>1. j - 1 \in 1..(Len(q) - 1) /\ (j - 1) + 1 = j
    BY <1>1
  <2> QED
    BY <1>1, <2>1
<1>5. Head(q) \in Queued(q) /\ Head(q) \in S
  BY <1>1 DEF Queued
<1> QED
  BY <1>1, <1>2, <1>3, <1>4, <1>5

LEMMA PushProperties ==
    ASSUME NEW S, NEW q \in Seq(S), NEW m \in S, m \notin Queued(q), Distinct(q)
    PROVE  /\ <<m>> \o q \in Seq(S) /\ Distinct(<<m>> \o q)
           /\ Queued(<<m>> \o q) = Queued(q) \cup {m}
<1> DEFINE p == <<m>> \o q
<1>1. /\ DOMAIN q = 1..Len(q) /\ Len(q) \in Nat
      /\ p \in Seq(S) /\ DOMAIN p = 1..(Len(q) + 1)
      /\ p[1] = m /\ \A j \in 2..(Len(q) + 1) : p[j] = q[j - 1]
  OBVIOUS
<1> HIDE DEF p
<1>2. Distinct(p)
  <2> SUFFICES ASSUME NEW i \in DOMAIN p, NEW j \in DOMAIN p, p[i] = p[j] PROVE i = j
    BY DEF Distinct
  <2>1. ASSUME NEW k \in 2..(Len(q) + 1)
        PROVE  p[k] = q[k - 1] /\ k - 1 \in DOMAIN q /\ p[k] # m
    <3>1. p[k] = q[k - 1] /\ k - 1 \in DOMAIN q
      BY <1>1
    <3> QED
      BY <3>1 DEF Queued
  <2>2. i \in {1} \cup 2..(Len(q) + 1) /\ j \in {1} \cup 2..(Len(q) + 1)
    BY <1>1
  <2>3. CASE i = 1
    BY <1>1, <2>1, <2>2, <2>3
  <2>4. CASE j = 1
    BY <1>1, <2>1, <2>2, <2>4
  <2>5. CASE i \in 2..(Len(q) + 1) /\ j \in 2..(Len(q) + 1)
    <3>1. q[i - 1] = q[j - 1] /\ i - 1 \in DOMAIN q /\ j - 1 \in DOMAIN q
      BY <2>1, <2>5
    <3>2. i - 1 = j - 1
      BY <3>1 DEF Distinct
    <3> QED
      BY <2>5, <3>2
  <2> QED
    BY <2>2, <2>3, <2>4, <2>5
<1>3. Queued(p) \subseteq Queued(q) \cup {m}
  BY <1>1 DEF Queued
<1>4. Queued(q) \cup {m} \subseteq Queued(p)
  <2>1. ASSUME NEW j \in DOMAIN q PROVE q[j] \in Queued(p)
    <3>1. j + 1 \in 2..(Len(q) + 1) /\ (j + 1) - 1 = j
      BY <1>1
    <3> QED
      BY <1>1, <3>1 DEF Queued
  <2>2. m \in Queued(p)
    BY <1>1 DEF Queued
  <2> QED
    BY <2>1, <2>2 DEF Queued
<1> QED
  BY <1>1, <1>2, <1>3, <1>4 DEF p

(* A queue without some of its elements.                                    *)
LEMMA IsRestDistinct ==
    ASSUME NEW S, NEW T, NEW q \in Seq(S), NEW r \in Seq(S), Distinct(q), IsRest(r, q, T)
    PROVE  Distinct(r) /\ Queued(r) = Queued(q) \ T
<1>1. DOMAIN r = 1..Len(r) /\ Len(r) \in Nat /\ DOMAIN q = 1..Len(q) /\ Len(q) \in Nat
  OBVIOUS
<1>2. ASSUME NEW i \in DOMAIN r, NEW j \in DOMAIN r, i < j PROVE r[i] # r[j]
  <2>1. PICK k \in DOMAIN q, l \in DOMAIN q : k < l /\ r[i] = q[k] /\ r[j] = q[l]
    BY <1>2 DEF IsRest
  <2> QED
    BY <1>1, <2>1 DEF Distinct
<1>3. Distinct(r)
  BY <1>1, <1>2 DEF Distinct
<1> QED
  BY <1>3 DEF IsRest

LEMMA AppendKeeps ==
    ASSUME NEW S, NEW q \in Seq(S), NEW x \in S, x \notin Queued(q), Distinct(q)
    PROVE  /\ Append(q, x) \in Seq(S) /\ Distinct(Append(q, x))
           /\ Queued(Append(q, x)) = Queued(q) \cup {x}
<1> DEFINE p == Append(q, x)
<1>1. /\ DOMAIN q = 1..Len(q) /\ Len(q) \in Nat
      /\ p \in Seq(S) /\ DOMAIN p = 1..(Len(q) + 1)
      /\ p[Len(q) + 1] = x /\ \A j \in 1..Len(q) : p[j] = q[j]
  OBVIOUS
<1> HIDE DEF p
<1>2. Distinct(p)
  BY <1>1 DEF Distinct, Queued
<1>3. Queued(p) \subseteq Queued(q) \cup {x}
  BY <1>1 DEF Queued
<1>4. Queued(q) \cup {x} \subseteq Queued(p)
  BY <1>1 DEF Queued
<1> QED
  BY <1>1, <1>2, <1>3, <1>4 DEF p
-----------------------------------------------------------------------------
(* Induction on natural numbers, without an operator for the hypothesis: a  *)
(* set of counterexamples has a least one.                                  *)
LEMMA LeastNatural ==
    ASSUME NEW T \in SUBSET Nat, T # {} PROVE \E m \in T : \A k \in T : m <= k
<1> DEFINE R == {p \in Nat \X Nat : p[1] < p[2]}
<1>1. IsWellFoundedOn(R, Nat)
  <2>1. OpToRel(<, Nat) = R
    BY Zenon DEF OpToRel
  <2> QED
    BY <2>1, NatLessThanWellFounded, Zenon
<1>2. \A x, y \in Nat : y < x => <<y, x>> \in R
  OBVIOUS
<1> HIDE DEF R
<1>3. PICK x \in T : \A y \in T : ~ (<<y, x>> \in R)
  BY <1>1, WFMin
<1>4. ASSUME NEW y \in T PROVE x <= y
  <2>1. x \in Nat /\ y \in Nat
    OBVIOUS
  <2>2. ~ (y < x)
    BY <1>2, <1>3, <2>1, Zenon
  <2> QED
    BY <2>1, <2>2
<1> QED
  BY <1>3, <1>4

(* f[n] is what Kept keeps of the first n elements of q, for n up to m.     *)
Keeps(f, q, S, m) ==
    f = [n \in 0..m |-> IF n = 0 THEN <<>>
                        ELSE IF q[n] \in S THEN Append(f[n - 1], q[n]) ELSE f[n - 1]]

LEMMA KeepsExists ==
    ASSUME NEW q, NEW S, NEW l \in Nat PROVE \E f : Keeps(f, q, S, l)
<1> DEFINE T == {m \in Nat : ~ \E f : Keeps(f, q, S, m)}
<1> SUFFICES ASSUME T # {} PROVE FALSE
  OBVIOUS
<1>1. PICK m \in T : \A k \in T : m <= k
  <2> HIDE DEF T
  <2>1. T \in SUBSET Nat
    BY DEF T
  <2> QED
    BY <2>1, LeastNatural
<1>2. m \in Nat /\ ~ \E f : Keeps(f, q, S, m)
  OBVIOUS
<1>3. CASE m = 0
  <2> DEFINE f == [n \in 0..0 |-> <<>>]
  <2>1. Keeps(f, q, S, 0)
    BY DEF Keeps
  <2> QED
    BY <1>2, <1>3, <2>1
<1>4. CASE m # 0
  <2>1. m - 1 \in Nat /\ m - 1 \notin T
    BY <1>1, <1>2, <1>4
  <2>2. PICK g : Keeps(g, q, S, m - 1)
    BY <2>1
  <2> DEFINE f == [n \in 0..m |-> IF n = 0 THEN <<>>
                     ELSE IF q[n] \in S THEN Append(g[n - 1], q[n]) ELSE g[n - 1]]
  <2>3. ASSUME NEW n \in 0..(m - 1) PROVE f[n] = g[n]
    <3>1. n \in 0..m /\ n \in 0..(m - 1)
      BY <1>2, <2>3
    <3>2. g[n] = IF n = 0 THEN <<>>
                 ELSE IF q[n] \in S THEN Append(g[n - 1], q[n]) ELSE g[n - 1]
      <4>1. g = [k \in 0..(m - 1) |-> IF k = 0 THEN <<>>
                     ELSE IF q[k] \in S THEN Append(g[k - 1], q[k]) ELSE g[k - 1]]
        BY <2>2 DEF Keeps
      <4> HIDE DEF f
      <4> QED
        BY <3>1, <4>1, Zenon
    <3> QED
      BY <3>1, <3>2
  <2>4. ASSUME NEW n \in 0..m, n # 0 PROVE n - 1 \in 0..(m - 1) /\ f[n - 1] = g[n - 1]
    <3>1. n - 1 \in 0..(m - 1)
      BY <1>2, <2>4
    <3> HIDE DEF f
    <3> QED
      BY <2>3, <3>1
  <2>5. f = [n \in 0..m |-> IF n = 0 THEN <<>>
                     ELSE IF q[n] \in S THEN Append(f[n - 1], q[n]) ELSE f[n - 1]]
    BY <2>4, Zenon
  <2> QED
    BY <1>2, <2>5 DEF Keeps
<1> QED
  BY <1>3, <1>4

LEMMA KeptIsKeeps ==
    ASSUME NEW T, NEW q \in Seq(T), NEW S
    PROVE  \E f : Keeps(f, q, S, Len(q)) /\ Kept(q, S) = f[Len(q)]
<1> DEFINE g == CHOOSE f : Keeps(f, q, S, Len(q))
<1>1. \E f : Keeps(f, q, S, Len(q))
  <2>1. Len(q) \in Nat
    OBVIOUS
  <2> QED
    BY <2>1, KeepsExists
<1>2. Keeps(g, q, S, Len(q))
  BY <1>1, Zenon
<1>3. Kept(q, S) = g[Len(q)]
  BY Zenon DEF Kept, Keeps
<1> QED
  BY <1>2, <1>3

(* What is kept of the first n elements.                                    *)
PrefixKept(p, q, S, n) ==
    /\ Queued(p) = {q[i] : i \in 1..n} \cap S
    /\ \A i, j \in DOMAIN p : i < j =>
          \E k, l \in 1..n : k < l /\ p[i] = q[k] /\ p[j] = q[l]

LEMMA PrefixKeptStep ==
    ASSUME NEW T, NEW q \in Seq(T), NEW S, NEW n \in 1..Len(q), NEW p \in Seq(T),
           PrefixKept(p, q, S, n - 1)
    PROVE  LET r == IF q[n] \in S THEN Append(p, q[n]) ELSE p
           IN  r \in Seq(T) /\ PrefixKept(r, q, S, n)
<1>1. /\ n \in Nat /\ n - 1 \in Nat /\ q[n] \in T /\ n \in 1..n
      /\ 1..n = 1..(n - 1) \cup {n}
      /\ DOMAIN p = 1..Len(p) /\ Len(p) \in Nat
  OBVIOUS
<1>2. {q[i] : i \in 1..n} = {q[i] : i \in 1..(n - 1)} \cup {q[n]}
  BY <1>1
<1>3. CASE q[n] \notin S
  <2>1. Queued(p) = {q[i] : i \in 1..n} \cap S
    BY <1>2, <1>3 DEF PrefixKept
  <2>2. ASSUME NEW i \in DOMAIN p, NEW j \in DOMAIN p, i < j
        PROVE  \E k, l \in 1..n : k < l /\ p[i] = q[k] /\ p[j] = q[l]
    BY <1>1, <2>2 DEF PrefixKept
  <2> QED
    BY <1>3, <2>1, <2>2 DEF PrefixKept
<1>4. CASE q[n] \in S
  <2> DEFINE r == Append(p, q[n])
  <2>1. /\ r \in Seq(T) /\ DOMAIN r = 1..(Len(p) + 1)
        /\ r[Len(p) + 1] = q[n] /\ \A i \in 1..Len(p) : r[i] = p[i]
    BY <1>1
  <2> HIDE DEF r
  <2>2. Queued(r) = Queued(p) \cup {q[n]}
    <3>1. Queued(r) \subseteq Queued(p) \cup {q[n]}
      BY <1>1, <2>1 DEF Queued
    <3>2. Queued(p) \cup {q[n]} \subseteq Queued(r)
      BY <1>1, <2>1 DEF Queued
    <3> QED
      BY <3>1, <3>2
  <2>3. Queued(r) = {q[i] : i \in 1..n} \cap S
    BY <1>2, <1>4, <2>2 DEF PrefixKept
  <2>4. ASSUME NEW i \in DOMAIN r, NEW j \in DOMAIN r, i < j
        PROVE  \E k, l \in 1..n : k < l /\ r[i] = q[k] /\ r[j] = q[l]
    <3>1. i \in DOMAIN p /\ r[i] = p[i]
      BY <1>1, <2>1, <2>4
    <3>2. CASE j = Len(p) + 1
      <4>1. PICK k \in 1..(n - 1) : p[i] = q[k]
        BY <3>1 DEF PrefixKept, Queued
      <4>2. k < n /\ k \in 1..n
        BY <1>1
      <4> QED
        BY <1>1, <2>1, <3>1, <3>2, <4>1, <4>2
    <3>3. CASE j # Len(p) + 1
      <4>1. j \in DOMAIN p /\ r[j] = p[j]
        BY <1>1, <2>1, <3>3
      <4>2. PICK k \in 1..(n - 1), l \in 1..(n - 1) : k < l /\ p[i] = q[k] /\ p[j] = q[l]
        BY <2>4, <3>1, <4>1 DEF PrefixKept
      <4> QED
        BY <1>1, <3>1, <4>1, <4>2
    <3> QED
      BY <3>2, <3>3
  <2> QED
    BY <1>4, <2>1, <2>3, <2>4 DEF PrefixKept, r
<1> QED
  BY <1>3, <1>4

(* discardAborted() filters the array in place: Kept keeps the order and     *)
(* every element of S, and no other, of a queue of any length.               *)
THEOREM KeptProperties ==
    ASSUME NEW T, NEW q \in Seq(T), NEW S
    PROVE  /\ Kept(q, S) \in Seq(T) /\ Queued(Kept(q, S)) = Queued(q) \cap S
           /\ IsRest(Kept(q, S), q, Queued(q) \ S)
<1>1. PICK f : Keeps(f, q, S, Len(q)) /\ Kept(q, S) = f[Len(q)]
  BY KeptIsKeeps
<1>2. DOMAIN q = 1..Len(q) /\ Len(q) \in Nat
  OBVIOUS
<1> DEFINE Bad == {n \in 0..Len(q) : ~ (f[n] \in Seq(T) /\ PrefixKept(f[n], q, S, n))}
<1>3. Bad = {}
  <2> SUFFICES ASSUME Bad # {} PROVE FALSE
    OBVIOUS
  <2>1. PICK n \in Bad : \A k \in Bad : n <= k
    <3>1. Bad \in SUBSET Nat
      OBVIOUS
    <3> HIDE DEF Bad
    <3> QED
      BY <3>1, LeastNatural
  <2>2. n \in 0..Len(q) /\ ~ (f[n] \in Seq(T) /\ PrefixKept(f[n], q, S, n))
    OBVIOUS
  <2>3. CASE n = 0
    <3>1. f[0] = <<>>
      BY <1>1, <1>2 DEF Keeps
    <3>2. f[0] \in Seq(T) /\ DOMAIN f[0] = {} /\ 1..0 = {}
      BY <3>1
    <3> QED
      BY <2>2, <2>3, <3>2 DEF PrefixKept, Queued
  <2>4. CASE n # 0
    <3>1. n \in 1..Len(q) /\ n - 1 \in 0..Len(q) /\ n - 1 < n
      BY <1>2, <2>2, <2>4
    <3>2. n - 1 \notin Bad
      BY <1>2, <2>1, <3>1
    <3>3. f[n - 1] \in Seq(T) /\ PrefixKept(f[n - 1], q, S, n - 1)
      BY <3>1, <3>2
    <3>4. f[n] = IF q[n] \in S THEN Append(f[n - 1], q[n]) ELSE f[n - 1]
      BY <1>1, <2>2, <2>4 DEF Keeps
    <3> HIDE DEF Bad
    <3> QED
      BY <2>2, <3>1, <3>3, <3>4, PrefixKeptStep
  <2> QED
    BY <2>3, <2>4
<1>4. Len(q) \in 0..Len(q) /\ Len(q) \notin Bad
  BY <1>2, <1>3
<1>5. Kept(q, S) \in Seq(T) /\ PrefixKept(Kept(q, S), q, S, Len(q))
  BY <1>1, <1>4
<1>6. {q[i] : i \in 1..Len(q)} = Queued(q)
  BY <1>2 DEF Queued
<1>7. Queued(Kept(q, S)) = Queued(q) \cap S
  BY <1>5, <1>6 DEF PrefixKept
<1>8. IsRest(Kept(q, S), q, Queued(q) \ S)
  <2> DEFINE r == Kept(q, S)
  <2>1. Queued(r) = Queued(q) \ (Queued(q) \ S)
    BY <1>7
  <2>2. \A i, j \in DOMAIN r : i < j =>
           \E k, l \in DOMAIN q : k < l /\ r[i] = q[k] /\ r[j] = q[l]
    <3>1. PrefixKept(r, q, S, Len(q)) /\ DOMAIN q = 1..Len(q)
      BY <1>2, <1>5
    <3> HIDE DEF r
    <3> QED
      BY <3>1 DEF PrefixKept
  <2> QED
    BY <2>1, <2>2 DEF IsRest
<1> QED
  BY <1>5, <1>7, <1>8

(* The places in q of what is kept of its first n elements: in the order    *)
(* of q, and all of them.                                                   *)
IsPlaces(e, p, q, S, n) ==
    /\ e \in [DOMAIN p -> 1..n]
    /\ \A i \in DOMAIN p : p[i] = q[e[i]] /\ p[i] \in S
    /\ \A i, j \in DOMAIN p : i < j => e[i] < e[j]
    /\ \A k \in 1..n : q[k] \in S => \E i \in DOMAIN p : e[i] = k

LEMMA PlacesStep ==
    ASSUME NEW T, NEW q \in Seq(T), NEW S, NEW n \in 1..Len(q), NEW p \in Seq(T), NEW e,
           IsPlaces(e, p, q, S, n - 1)
    PROVE  LET r == IF q[n] \in S THEN Append(p, q[n]) ELSE p
           IN  r \in Seq(T) /\ \E d : IsPlaces(d, r, q, S, n)
<1>1. /\ n \in Nat /\ n - 1 \in Nat /\ q[n] \in T /\ n \in 1..n
      /\ 1..n = 1..(n - 1) \cup {n} /\ \A k \in 1..(n - 1) : k < n
  OBVIOUS
<1>2. DOMAIN p = 1..Len(p) /\ Len(p) \in Nat
  OBVIOUS
<1>3. CASE q[n] \notin S
  <2>1. IsPlaces(e, p, q, S, n)
    BY <1>1, <1>3 DEF IsPlaces
  <2> QED
    BY <1>3, <2>1
<1>4. CASE q[n] \in S
  <2> DEFINE r == Append(p, q[n])
             l == Len(p) + 1
             d == [i \in 1..l |-> IF i = l THEN n ELSE e[i]]
  <2>1. /\ r \in Seq(T) /\ DOMAIN r = 1..l /\ r[l] = q[n] /\ \A i \in DOMAIN p : r[i] = p[i]
    BY <1>1, <1>2
  <2>2. /\ l \in 1..l /\ 1..l = DOMAIN p \cup {l} /\ \A i \in DOMAIN p : i # l /\ i < l /\ i \in 1..l
        /\ \A i, j \in 1..l : i < j => i \in DOMAIN p
    BY <1>2
  <2>3. d \in [1..l -> 1..n] /\ d[l] = n /\ \A i \in DOMAIN p : d[i] = e[i]
    <3>1. \A i \in DOMAIN p : e[i] \in 1..(n - 1)
      BY DEF IsPlaces
    <3> HIDE DEF l
    <3> QED
      BY <1>1, <2>2, <3>1
  <2> HIDE DEF r, l, d
  <2>4. \A i \in DOMAIN r : r[i] = q[d[i]] /\ r[i] \in S
    BY <1>4, <2>1, <2>2, <2>3 DEF IsPlaces
  <2>5. ASSUME NEW i \in DOMAIN r, NEW j \in DOMAIN r, i < j PROVE d[i] < d[j]
    <3>1. i \in DOMAIN p
      BY <2>1, <2>2, <2>5
    <3>2. e[i] \in 1..(n - 1)
      BY <3>1 DEF IsPlaces
    <3>3. CASE j = l
      BY <1>1, <2>3, <3>1, <3>2, <3>3
    <3>4. CASE j \in DOMAIN p
      BY <2>3, <2>5, <3>1, <3>4 DEF IsPlaces
    <3> QED
      BY <2>1, <2>2, <3>3, <3>4
  <2>6. \A k \in 1..n : q[k] \in S => \E i \in DOMAIN r : d[i] = k
    <3>1. ASSUME NEW k \in 1..(n - 1), q[k] \in S PROVE \E i \in DOMAIN r : d[i] = k
      <4>1. PICK i \in DOMAIN p : e[i] = k
        BY <3>1 DEF IsPlaces
      <4> QED
        BY <2>1, <2>2, <2>3, <4>1
    <3> QED
      BY <1>1, <2>1, <2>2, <2>3, <3>1
  <2>7. IsPlaces(d, r, q, S, n)
    BY <2>1, <2>3, <2>4, <2>5, <2>6 DEF IsPlaces
  <2> QED
    BY <1>4, <2>1, <2>7 DEF r
<1> QED
  BY <1>3, <1>4

(* Where the elements that are kept were.                                   *)
LEMMA KeptPlaces ==
    ASSUME NEW T, NEW q \in Seq(T), NEW S
    PROVE  Kept(q, S) \in Seq(T) /\ \E e : IsPlaces(e, Kept(q, S), q, S, Len(q))
<1>1. PICK f : Keeps(f, q, S, Len(q)) /\ Kept(q, S) = f[Len(q)]
  BY KeptIsKeeps
<1>2. Len(q) \in Nat
  OBVIOUS
<1> DEFINE Good(n) == f[n] \in Seq(T) /\ \E e : IsPlaces(e, f[n], q, S, n)
           Bad == {n \in 0..Len(q) : ~ Good(n)}
<1>3. Bad = {}
  <2> SUFFICES ASSUME Bad # {} PROVE FALSE
    OBVIOUS
  <2>1. PICK n \in Bad : \A k \in Bad : n <= k
    <3>1. Bad \in SUBSET Nat
      OBVIOUS
    <3> HIDE DEF Bad
    <3> QED
      BY <3>1, LeastNatural
  <2>2. n \in 0..Len(q) /\ ~ Good(n)
    OBVIOUS
  <2>3. CASE n = 0
    <3>1. f[0] = <<>>
      BY <1>1, <1>2 DEF Keeps
    <3>2. IsPlaces(<<>>, <<>>, q, S, 0)
      BY DEF IsPlaces
    <3>3. <<>> \in Seq(T)
      OBVIOUS
    <3> HIDE DEF Bad
    <3> QED
      BY <2>2, <2>3, <3>1, <3>2, <3>3
  <2>4. CASE n # 0
    <3>1. n \in 1..Len(q) /\ n - 1 \in 0..Len(q) /\ n - 1 < n
      BY <1>2, <2>2, <2>4
    <3>2. n - 1 \notin Bad
      BY <1>2, <2>1, <3>1
    <3>3. Good(n - 1)
      BY <3>1, <3>2
    <3>4. f[n] = IF q[n] \in S THEN Append(f[n - 1], q[n]) ELSE f[n - 1]
      BY <1>1, <2>2, <2>4 DEF Keeps
    <3> HIDE DEF Bad
    <3>5. PICK e : IsPlaces(e, f[n - 1], q, S, n - 1)
      BY <3>3
    <3> DEFINE p == f[n - 1]
    <3>6. p \in Seq(T) /\ IsPlaces(e, p, q, S, n - 1)
      BY <3>3, <3>5
    <3> HIDE DEF p
    <3>7. LET r == IF q[n] \in S THEN Append(p, q[n]) ELSE p
          IN  r \in Seq(T) /\ \E d : IsPlaces(d, r, q, S, n)
      BY <3>1, <3>6, PlacesStep
    <3> QED
      BY <2>2, <3>4, <3>7 DEF p
  <2> QED
    BY <2>3, <2>4
<1>4. Len(q) \in 0..Len(q) /\ Len(q) \notin Bad
  BY <1>2, <1>3
<1> QED
  BY <1>1, <1>4

LEMMA KeptIsDistinct ==
    ASSUME NEW T, NEW q \in Seq(T), NEW S, Distinct(q) PROVE Distinct(Kept(q, S))
BY KeptProperties, IsRestDistinct

(* Which elements a queue has after one is added.                           *)
LEMMA QueuedAppend ==
    ASSUME NEW S, NEW q \in Seq(S), NEW x PROVE Queued(Append(q, x)) = Queued(q) \cup {x}
<1> DEFINE p == Append(q, x)
<1>1. /\ DOMAIN q = 1..Len(q) /\ Len(q) \in Nat /\ DOMAIN p = 1..(Len(q) + 1)
      /\ p[Len(q) + 1] = x /\ \A j \in 1..Len(q) : p[j] = q[j]
  OBVIOUS
<1> HIDE DEF p
<1>2. Queued(p) \subseteq Queued(q) \cup {x}
  BY <1>1 DEF Queued
<1>3. Queued(q) \cup {x} \subseteq Queued(p)
  BY <1>1 DEF Queued
<1> QED
  BY <1>2, <1>3 DEF p

LEMMA QueuedPush ==
    ASSUME NEW S, NEW q \in Seq(S), NEW x \in S
    PROVE  <<x>> \o q \in Seq(S) /\ Queued(<<x>> \o q) = Queued(q) \cup {x}
<1> DEFINE p == <<x>> \o q
<1>1. /\ DOMAIN q = 1..Len(q) /\ Len(q) \in Nat
      /\ p \in Seq(S) /\ DOMAIN p = 1..(Len(q) + 1)
      /\ p[1] = x /\ \A j \in 2..(Len(q) + 1) : p[j] = q[j - 1]
  OBVIOUS
<1> HIDE DEF p
<1>2. Queued(p) \subseteq Queued(q) \cup {x}
  BY <1>1 DEF Queued
<1>3. Queued(q) \cup {x} \subseteq Queued(p)
  <2>1. ASSUME NEW j \in DOMAIN q PROVE q[j] \in Queued(p)
    <3>1. j + 1 \in 2..(Len(q) + 1) /\ (j + 1) - 1 = j
      BY <1>1
    <3> QED
      BY <1>1, <3>1 DEF Queued
  <2>2. x \in Queued(p)
    BY <1>1 DEF Queued
  <2> QED
    BY <2>1, <2>2 DEF Queued
<1> QED
  BY <1>1, <1>2, <1>3 DEF p

LEMMA QueuedConcat ==
    ASSUME NEW S, NEW p \in Seq(S), NEW q \in Seq(S)
    PROVE  Queued(p \o q) = Queued(p) \cup Queued(q)
<1> DEFINE c == p \o q
<1>1. /\ DOMAIN p = 1..Len(p) /\ Len(p) \in Nat /\ DOMAIN q = 1..Len(q) /\ Len(q) \in Nat
      /\ DOMAIN c = 1..(Len(p) + Len(q))
      /\ \A i \in 1..(Len(p) + Len(q)) : c[i] = IF i <= Len(p) THEN p[i] ELSE q[i - Len(p)]
  OBVIOUS
<1> HIDE DEF c
<1>2. Queued(c) \subseteq Queued(p) \cup Queued(q)
  <2> SUFFICES ASSUME NEW i \in DOMAIN c PROVE c[i] \in Queued(p) \cup Queued(q)
    BY DEF Queued
  <2>1. CASE i <= Len(p)
    BY <1>1, <2>1 DEF Queued
  <2>2. CASE ~ (i <= Len(p))
    <3>1. i - Len(p) \in DOMAIN q /\ c[i] = q[i - Len(p)]
      BY <1>1, <2>2
    <3> QED
      BY <3>1 DEF Queued
  <2> QED
    BY <2>1, <2>2
<1>3. Queued(p) \subseteq Queued(c)
  BY <1>1 DEF Queued
<1>4. Queued(q) \subseteq Queued(c)
  <2> SUFFICES ASSUME NEW i \in DOMAIN q PROVE q[i] \in Queued(c)
    BY DEF Queued
  <2>1. /\ Len(p) + i \in DOMAIN c /\ ~ (Len(p) + i <= Len(p))
        /\ (Len(p) + i) - Len(p) = i
    BY <1>1
  <2>2. c[Len(p) + i] = q[i]
    BY <1>1, <2>1
  <2> QED
    BY <2>1, <2>2 DEF Queued
<1> QED
  BY <1>2, <1>3, <1>4 DEF c
=============================================================================
