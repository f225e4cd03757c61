------------------------ MODULE ContextMemory_proofs ------------------------
(* The requests the context makes are faithful, whatever fails, except those *)
(* after a clear in the middle of a step; while nothing fails they show      *)
(* every prompt, compaction removes only what it began with, and undo takes  *)
(* the context and the other states back to the same moment.                 *)
(* First what an edit of the history keeps (HistInv), then the fold          *)
(* (FoldInv), then the steps (IInv), then the projection of a request, and   *)
(* last what holds while nothing fails (OrderlyInv, NoveltyInv).             *)
EXTENDS ContextMemory, Queue_proofs, FiniteSetTheorems, TLAPS

(* What is parked behind an open call.                                      *)
Parked == {m \in Messages : m.role \in {"user", "steer", "note"} /\ m.calls = <<>> /\ ~ m.partial}

Declares(m, c) == c \in ToSet(m.calls)
Answers(m, c) == IsToolResult(m) /\ m.id = c

(* A call that may have a result: a stray, or one that is declared.         *)
Based(h, c, strays) == c \in strays \/ \E i \in DOMAIN h : Declares(h[i], c)

(* Only assistant messages are open or declare calls; no call that was      *)
(* answered got a made-up result.                                           *)
Shaped(m, steps, calls, known) ==
    /\ m.partial \/ m.calls # <<>> => m.role = "assistant"
    /\ m.role = "assistant" => m.id <= steps
    /\ IsToolResult(m) => m.id <= calls
    /\ m.calls \in Seq(1..calls)
    /\ m.role = "interrupted" => m.id \notin known

(* One message at most is open; every result, but those of the strays, has  *)
(* the message that declares its call before it, and a declared call that   *)
(* was answered has its result, for a history with so many steps and calls  *)
(* and the answered calls known.                                            *)
HistInv(h, steps, calls, known, strays) ==
    /\ h \in Seq(Messages)
    /\ \A i \in DOMAIN h : Shaped(h[i], steps, calls, known)
    /\ \A i, j \in DOMAIN h : h[i].partial /\ h[j].partial => i = j
    /\ \A i, j \in DOMAIN h : \A c \in 1..MaxCalls : Declares(h[i], c) /\ Answers(h[j], c) => i < j
    /\ \A j \in DOMAIN h : IsToolResult(h[j]) => Based(h, h[j].id, strays)
    /\ \A i \in DOMAIN h : \A c \in known :
          Declares(h[i], c) => \E j \in DOMAIN h : Answers(h[j], c)

(* A call is open while the open message declares it, or it is a stray, and *)
(* it has no result.                                                        *)
OpenInv(h, pending, known, strays) ==
    \A c \in ToSet(pending) :
        /\ c \notin known
        /\ c \in strays \/ \E i \in DOMAIN h : h[i].partial /\ Declares(h[i], c)
        /\ \A j \in DOMAIN h : ~ Answers(h[j], c)

FoldInv(f, steps, calls, known, strays) ==
    /\ f = [history |-> f.history, pending |-> f.pending, deferred |-> f.deferred]
    /\ HistInv(f.history, steps, calls, known, strays)
    /\ f.pending \in Seq(1..calls) /\ OpenInv(f.history, f.pending, known, strays)
    /\ f.deferred \in Seq(Parked) /\ (f.deferred # <<>> => f.pending # <<>>)

Kinds == {"prompt", "note", "step", "call", "compaction"}
Stepping == phase \in {"requesting", "calling"}

(* Where the loop is, and what a compaction under way started from.         *)
LoopInv ==
    /\ made \in [Kinds -> Nat] /\ made.call <= MaxCalls /\ made.prompt <= MaxPrompts
    /\ phase \in {"idle", "between", "requesting", "calling"} /\ prompted \in BOOLEAN
    /\ todo \in 0..(MaxCalls - made.call)
    /\ unanswered \subseteq 1..made.call
    /\ phase # "calling" => todo = 0 /\ unanswered = {}
    /\ answered \subseteq 1..made.call /\ prompts \subseteq 1..made.prompt
    /\ checkpoints \in Seq(1..made.prompt)
    /\ cleared \in BOOLEAN /\ stray \subseteq 1..made.call

(* The calls that are answered, or were open when the history was cleared:  *)
(* a result of those is ignored.                                            *)
Settled == answered \cup (unanswered \ ToSet(fold.pending))

OpenMessages(h) == {h[i] : i \in {j \in DOMAIN h : h[j].partial}}

StepInv ==
    /\ Stepping => cleared \/ \E m \in OpenMessages(fold.history) : m.id = made.step
    /\ phase = "requesting" =>
          /\ fold.pending = <<>>
          /\ \A m \in OpenMessages(fold.history) : m.calls = <<>>

CompactionInv ==
    compaction # None =>
        /\ compaction \in [manual : BOOLEAN, blocking : BOOLEAN, original : Seq(Messages)]
        /\ compaction.blocking => phase = "between"
        /\ \A i \in DOMAIN compaction.original :
              LET m == compaction.original[i] IN
              m.role = "assistant" => m.id <= made.step /\ (Stepping => m.id # made.step)

IInv == FoldInv(fold, made.step, made.call, Settled, stray) /\ LoopInv /\ StepInv /\ CompactionInv

(* The user's words come in order.                                          *)
Sequent(s) ==
    \A i, j \in DOMAIN s : IsRealUserInput(s[i]) /\ IsRealUserInput(s[j]) /\ i < j => s[i].id < s[j].id

WordIds(h) == {h[i].id : i \in {j \in DOMAIN h : IsRealUserInput(h[j])}}
AnchorIds(h) == {h[i].id : i \in UndoAnchors(h)}
TurnIds(d) == {d[i].id : i \in {j \in DOMAIN d : IsUndoAnchor(d[j])}}

(* A history and what is parked hold what was said, in order, of so many    *)
(* prompts; the turns undo can reach are these.                             *)
Told(h, d, count, said, turns) ==
    /\ Sequent(h) /\ Sequent(d)
    /\ WordIds(h) \cup WordIds(d) \subseteq 1..count
    /\ \A a \in WordIds(h), b \in WordIds(d) : a < b
    /\ said \subseteq WordIds(h) \cup WordIds(d)
    /\ turns = AnchorIds(h) \cup TurnIds(d)

Tells(f, count, said, turns) == Told(f.history, f.deferred, count, said, turns)

Increasing(s) == \A k, l \in DOMAIN s : k < l => s[k] < s[l]

(* While nothing fails: calls are open only while their tools run, every    *)
(* prompt not taken back is there, and each turn undo can reach has its     *)
(* checkpoint.                                                              *)
OrderlyInv ==
    /\ ToSet(fold.pending) \subseteq unanswered
    /\ Tells(fold, made.prompt, prompts, ToSet(checkpoints))
    /\ Increasing(checkpoints)

Notes(s) == {m \in Queued(s) : m.role = "note"}
NotesOf(f) == Notes(f.history) \cup Notes(f.deferred)

Same(m, x) == m.role = x.role /\ m.id = x.id

(* What is yet to be said, noted or answered is another message.            *)
Dated(m, counts, open) ==
    /\ IsRealUserInput(m) => m.id <= counts.prompt
    /\ m.role = "note" => m.id <= counts.note
    /\ IsToolResult(m) => m.id <= counts.call /\ m.id \notin open

(* If the history is cleared in a step, what follows in the step does not   *)
(* begin like the history a compaction under way started from.              *)
NoveltyInv ==
    /\ \A m \in NotesOf(fold) : m.id <= made.note
    /\ compaction # None =>
          /\ compaction.original # <<>>
          /\ Dated(compaction.original[1], made, ToSet(fold.pending))
          /\ Stepping /\ cleared /\ fold.history # <<>> =>
                ~ Same(fold.history[1], compaction.original[1])

-----------------------------------------------------------------------------
(* Messages and places.                                                     *)

LEMMA ToSetIs == ASSUME NEW s, NEW x PROVE x \in ToSet(s) <=> \E i \in DOMAIN s : s[i] = x
BY DEF ToSet

LEMMA MessageType ==
    ASSUME NEW role \in Roles, NEW id \in Nat
    PROVE  /\ Message(role, id) \in Messages
           /\ Message(role, id).role = role /\ Message(role, id).id = id
           /\ Message(role, id).calls = <<>> /\ ~ Message(role, id).partial
           /\ Message(role, id).text
BY DEF Message, Messages

LEMMA MessageIs ==
    ASSUME NEW h \in Seq(Messages), NEW i \in DOMAIN h
    PROVE  /\ h[i] \in Messages /\ h[i].role \in Roles /\ h[i].id \in Nat
           /\ h[i].calls \in Seq(1..MaxCalls) /\ h[i].text \in BOOLEAN /\ h[i].partial \in BOOLEAN
<1>1. h[i] \in Messages
  OBVIOUS
<1> QED
  BY <1>1 DEF Messages

(* The open message of a history that has at most one.                      *)
LEMMA OpenAssistantIs ==
    ASSUME NEW h \in Seq(Messages),
           \A i, j \in DOMAIN h : h[i].partial /\ h[j].partial => i = j
    PROVE  \/ OpenAssistant(h) = 0 /\ \A i \in DOMAIN h : ~ h[i].partial
           \/ /\ OpenAssistant(h) \in DOMAIN h /\ h[OpenAssistant(h)].partial
              /\ OpenAssistant(h) # 0
              /\ \A i \in DOMAIN h : h[i].partial => i = OpenAssistant(h)
<1> DEFINE I == {i \in 1..Len(h) : h[i].partial}
<1>1. OpenAssistant(h) = IF I # {} THEN Max(I) ELSE 0
  BY DEF OpenAssistant, SelectLastInSeq
<1>2. DOMAIN h = 1..Len(h) /\ Len(h) \in Nat
  OBVIOUS
<1>3. CASE I = {}
  BY <1>1, <1>2, <1>3
<1>4. CASE I # {}
  <2>1. PICK i \in I : TRUE
    BY <1>4
  <2>2. I = {i} /\ i \in Nat /\ i # 0
    BY <1>2, <2>1
  <2>3. Max(I) = i
    <3>1. Max({i}) = i
      <4>1. \E x \in {i} : \A y \in {i} : x >= y
        BY <2>2
      <4> QED
        BY <4>1 DEF Max
    <3> QED
      BY <2>2, <3>1
  <2>4. OpenAssistant(h) = i
    BY <1>1, <1>4, <2>3
  <2> QED
    BY <1>2, <2>2, <2>4
<1> QED
  BY <1>3, <1>4

(* r is s, of length l, followed by t.                                      *)
IsJoined(r, s, t, l) ==
    /\ \A i \in DOMAIN s : i \in DOMAIN r /\ r[i] = s[i]
    /\ \A i \in DOMAIN t : l + i \in DOMAIN r /\ r[l + i] = t[i]
    /\ \A k \in DOMAIN r : k \in DOMAIN s \/ \E i \in DOMAIN t : k = l + i
    /\ \A i \in DOMAIN s, j \in DOMAIN t : i < l + j
    /\ \A i, j \in DOMAIN t : i < j => l + i < l + j

LEMMA ConcatIs ==
    ASSUME NEW T, NEW s \in Seq(T), NEW t \in Seq(T)
    PROVE  s \o t \in Seq(T) /\ IsJoined(s \o t, s, t, Len(s))
<1> DEFINE n == Len(s)
           m == Len(t)
           r == s \o t
<1>1. /\ n \in Nat /\ m \in Nat /\ DOMAIN s = 1..n /\ DOMAIN t = 1..m
      /\ r \in Seq(T) /\ DOMAIN r = 1..(n + m)
  BY LenProperties, ConcatProperties
<1>2. \A i \in 1..(n + m) : r[i] = IF i <= n THEN s[i] ELSE t[i - n]
  BY ConcatProperties
<1> HIDE DEF n, m, r
<1>3. \A i \in 1..n : i \in 1..(n + m) /\ i <= n
  BY <1>1
<1>4. \A i \in 1..m : n + i \in 1..(n + m) /\ ~ (n + i <= n) /\ n + i - n = i
  BY <1>1
<1>5. ASSUME NEW k \in 1..(n + m), k \notin 1..n PROVE \E i \in 1..m : k = n + i
  <2>1. k - n \in 1..m /\ k = n + (k - n)
    BY <1>1, <1>5
  <2> QED
    BY <2>1
<1>6. \A i \in 1..n, j \in 1..m : i < n + j
  BY <1>1
<1>7. \A i, j \in 1..m : i < j => n + i < n + j
  BY <1>1
<1>8. \A i \in DOMAIN s : i \in DOMAIN r /\ r[i] = s[i]
  BY <1>1, <1>2, <1>3
<1>9. \A i \in DOMAIN t : n + i \in DOMAIN r /\ r[n + i] = t[i]
  BY <1>1, <1>2, <1>4
<1> QED
  BY <1>1, <1>5, <1>6, <1>7, <1>8, <1>9 DEF n, r, IsJoined

LEMMA AppendIs ==
    ASSUME NEW T, NEW s \in Seq(T), NEW x \in T
    PROVE  /\ Append(s, x) \in Seq(T) /\ Append(s, x) = s \o <<x>> /\ <<x>> \in Seq(T)
           /\ DOMAIN <<x>> = {1} /\ <<x>>[1] = x
OBVIOUS

-----------------------------------------------------------------------------
(* What an edit of the history keeps.                                       *)

LEMMA NothingDeclared == ASSUME NEW m, m.calls = <<>>, NEW c PROVE ~ Declares(m, c)
BY DEF Declares, ToSet

(* Messages that declare nothing come to the end.                           *)
LEMMA HistExtend ==
    ASSUME NEW h, NEW s \in Nat, NEW n \in Nat, NEW A, NEW X, HistInv(h, s, n, A, X),
           NEW t \in Seq(Messages), NEW s2 \in Nat, s <= s2, NEW A2, A \subseteq A2,
           \A i \in DOMAIN t : Shaped(t[i], s2, n, A2) /\ t[i].calls = <<>>,
           \A i \in DOMAIN h : h[i].role = "interrupted" => h[i].id \notin A2,
           \A i, j \in DOMAIN t : t[i].partial /\ t[j].partial => i = j,
           \A i \in DOMAIN t, j \in DOMAIN h : ~ (t[i].partial /\ h[j].partial),
           \A j \in DOMAIN t : IsToolResult(t[j]) => Based(h, t[j].id, X),
           \A c \in A2 \ A : \E j \in DOMAIN t : Answers(t[j], c)
    PROVE  HistInv(h \o t, s2, n, A2, X)
<1> DEFINE r == h \o t
           l == Len(h)
<1>1. h \in Seq(Messages)
  BY DEF HistInv
<1>0. r \in Seq(Messages) /\ IsJoined(r, h, t, l)
  BY <1>1, ConcatIs
<1> HIDE DEF r, l
<1>2. /\ r \in Seq(Messages)
      /\ \A i \in DOMAIN h : i \in DOMAIN r /\ r[i] = h[i]
      /\ \A i \in DOMAIN t : l + i \in DOMAIN r /\ r[l + i] = t[i]
      /\ \A k \in DOMAIN r : k \in DOMAIN h \/ \E i \in DOMAIN t : k = l + i
      /\ \A i \in DOMAIN h, j \in DOMAIN t : i < l + j
  BY <1>0 DEF IsJoined
<1>3. ASSUME NEW i \in DOMAIN h PROVE Shaped(h[i], s2, n, A2)
  <2>1. Shaped(h[i], s, n, A) /\ h[i].id \in Nat
    BY <1>1, MessageIs DEF HistInv
  <2> QED
    BY <2>1 DEF Shaped
<1>4. \A k \in DOMAIN r : Shaped(r[k], s2, n, A2)
  BY <1>2, <1>3
<1>5. \A k \in DOMAIN r : \A c : Declares(r[k], c) => k \in DOMAIN h /\ Declares(h[k], c)
  <2> SUFFICES ASSUME NEW k \in DOMAIN r, NEW c, Declares(r[k], c)
               PROVE  k \in DOMAIN h /\ Declares(h[k], c)
    OBVIOUS
  <2>1. CASE k \in DOMAIN h
    BY <1>2, <2>1
  <2>2. CASE \E i \in DOMAIN t : k = l + i
    <3>1. PICK i \in DOMAIN t : k = l + i
      BY <2>2
    <3>2. r[k].calls = <<>>
      BY <1>2, <3>1
    <3> QED
      BY <3>2, NothingDeclared
  <2> QED
    BY <1>2, <2>1, <2>2
<1>6. \A i, j \in DOMAIN r : r[i].partial /\ r[j].partial => i = j
  <2> SUFFICES ASSUME NEW i \in DOMAIN r, NEW j \in DOMAIN r, r[i].partial, r[j].partial
               PROVE  i = j
    OBVIOUS
  <2>1. CASE i \in DOMAIN h /\ j \in DOMAIN h
    BY <1>2, <2>1 DEF HistInv
  <2>2. CASE \E k, m \in DOMAIN t : i = l + k /\ j = l + m
    BY <1>2, <2>2
  <2>3. CASE \/ i \in DOMAIN h /\ \E m \in DOMAIN t : j = l + m
             \/ j \in DOMAIN h /\ \E m \in DOMAIN t : i = l + m
    BY <1>2, <2>3
  <2> QED
    BY <1>2, <2>1, <2>2, <2>3
<1>7. \A i, j \in DOMAIN r : \A c \in 1..MaxCalls : Declares(r[i], c) /\ Answers(r[j], c) => i < j
  <2> SUFFICES ASSUME NEW i \in DOMAIN r, NEW j \in DOMAIN r, NEW c \in 1..MaxCalls,
                      Declares(r[i], c), Answers(r[j], c)
               PROVE  i < j
    OBVIOUS
  <2>1. i \in DOMAIN h /\ Declares(h[i], c)
    BY <1>5
  <2>2. CASE j \in DOMAIN h
    BY <1>2, <2>1, <2>2 DEF HistInv
  <2>3. CASE \E k \in DOMAIN t : j = l + k
    BY <1>2, <2>1, <2>3
  <2> QED
    BY <1>2, <2>2, <2>3
<1>8. \A j \in DOMAIN r : IsToolResult(r[j]) => Based(r, r[j].id, X)
  <2> SUFFICES ASSUME NEW j \in DOMAIN r, IsToolResult(r[j])
               PROVE  Based(r, r[j].id, X)
    OBVIOUS
  <2>1. Based(h, r[j].id, X)
    <3>1. CASE j \in DOMAIN h
      BY <1>2, <3>1 DEF HistInv
    <3>2. CASE \E k \in DOMAIN t : j = l + k
      BY <1>2, <3>2
    <3> QED
      BY <1>2, <3>1, <3>2
  <2> QED
    BY <1>2, <2>1 DEF Based
<1>9. ASSUME NEW i \in DOMAIN r, NEW c \in A2, Declares(r[i], c)
      PROVE  \E j \in DOMAIN r : Answers(r[j], c)
  <2>1. i \in DOMAIN h /\ Declares(h[i], c)
    BY <1>5, <1>9
  <2>2. CASE c \in A
    <3>1. PICK j \in DOMAIN h : Answers(h[j], c)
      BY <2>1, <2>2 DEF HistInv
    <3> QED
      BY <1>2, <3>1
  <2>3. CASE c \notin A
    <3>1. PICK j \in DOMAIN t : Answers(t[j], c)
      BY <2>3
    <3> QED
      BY <1>2, <3>1
  <2> QED
    BY <2>2, <2>3
<1>10. HistInv(r, s2, n, A2, X)
  BY <1>2, <1>4, <1>6, <1>7, <1>8, <1>9 DEF HistInv
<1> QED
  BY <1>10 DEF r

(* r is the part of h at the places e, in the order of h.                   *)
Selected(e, r, h) ==
    /\ e \in [DOMAIN r -> DOMAIN h]
    /\ \A i \in DOMAIN r : r[i] = h[e[i]]
    /\ \A i, j \in DOMAIN r : i < j => e[i] < e[j]

(* Some messages are left out, and fewer calls count as answered.           *)
LEMMA HistSelect ==
    ASSUME NEW h, NEW s, NEW n, NEW A, NEW X, HistInv(h, s, n, A, X),
           NEW r \in Seq(Messages), NEW e, Selected(e, r, h), NEW A2, A2 \subseteq A,
           \A j \in DOMAIN r : IsToolResult(r[j]) => Based(r, r[j].id, X),
           \A i \in DOMAIN r : \A c \in A2 :
              Declares(r[i], c) => \E j \in DOMAIN r : Answers(r[j], c)
    PROVE  HistInv(r, s, n, A2, X)
<1>1. h \in Seq(Messages) /\ DOMAIN h \subseteq Nat /\ DOMAIN r \subseteq Nat
  BY DEF HistInv
<1> USE DEF Selected
<1>2. ASSUME NEW i \in DOMAIN r, NEW j \in DOMAIN r
      PROVE  /\ e[i] = e[j] => i = j
             /\ e[i] < e[j] => i < j
  <2>1. i \in Nat /\ j \in Nat /\ e[i] \in Nat /\ e[j] \in Nat
    BY <1>1
  <2>2. (i < j => e[i] < e[j]) /\ (j < i => e[j] < e[i])
    OBVIOUS
  <2> QED
    BY <2>1, <2>2
<1>3. ASSUME NEW i \in DOMAIN r PROVE Shaped(r[i], s, n, A2)
  <2>1. Shaped(h[e[i]], s, n, A)
    BY DEF HistInv
  <2> QED
    BY <2>1 DEF Shaped
<1>4. \A i, j \in DOMAIN r : r[i].partial /\ r[j].partial => i = j
  BY <1>2 DEF HistInv
<1>5. \A i, j \in DOMAIN r : \A c \in 1..MaxCalls : Declares(r[i], c) /\ Answers(r[j], c) => i < j
  BY <1>2 DEF HistInv
<1> QED
  BY <1>3, <1>4, <1>5 DEF HistInv

(* A message of an assistant is edited; a call it now declares is new.      *)
LEMMA HistEdit ==
    ASSUME NEW h, NEW s, NEW n \in Nat, NEW A, NEW X, HistInv(h, s, n, A, X), A \subseteq 1..n,
           NEW i \in DOMAIN h, NEW m \in Messages, NEW n2 \in Nat, n <= n2, n2 <= MaxCalls,
           MaxCalls \in Nat,
           h[i].role = "assistant", m.role = "assistant", m.id = h[i].id,
           m.partial => h[i].partial,
           m.calls = h[i].calls \/ (n2 = n + 1 /\ m.calls = Append(h[i].calls, n2))
    PROVE  HistInv([h EXCEPT ![i] = m], s, n2, A, X)
<1> DEFINE r == [h EXCEPT ![i] = m]
<1>1. h \in Seq(Messages) /\ h[i] \in Messages
  BY DEF HistInv
<1>2. /\ r \in Seq(Messages) /\ DOMAIN r = DOMAIN h /\ r[i] = m
      /\ \A j \in DOMAIN h \ {i} : r[j] = h[j]
  BY <1>1
<1> HIDE DEF r
<1>3. \A j \in DOMAIN h : (r[j].partial => h[j].partial) /\ (Answers(r[j], r[j].id) <=> Answers(h[j], h[j].id))
        /\ r[j].id = h[j].id /\ r[j].role = h[j].role
  BY <1>2 DEF Answers, IsToolResult
<1>4. \A j \in DOMAIN h : IsToolResult(r[j]) <=> IsToolResult(h[j])
  BY <1>3 DEF IsToolResult
<1>5. \A j \in DOMAIN h, c \in 1..MaxCalls : Answers(r[j], c) <=> Answers(h[j], c)
  BY <1>3, <1>4 DEF Answers
<1>6. h[i].calls \in Seq(1..n)
  BY DEF HistInv, Shaped
<1>7. /\ m.calls \in Seq(1..n2)
      /\ ToSet(m.calls) = ToSet(h[i].calls) \/ (n2 = n + 1 /\ ToSet(m.calls) = ToSet(h[i].calls) \cup {n2})
  <2> DEFINE k == h[i].calls
  <2>1. k \in Seq(1..n) /\ k \in Seq(1..n2)
    <3>1. 1..n \subseteq 1..n2
      OBVIOUS
    <3> QED
      BY <1>6, <3>1
  <2>2. CASE m.calls = k
    BY <2>1, <2>2
  <2>3. CASE n2 = n + 1 /\ m.calls = Append(k, n2)
    <3> HIDE DEF k
    <3>1. n2 \in 1..n2
      BY <2>3
    <3>2. ToSet(Append(k, n2)) = ToSet(k) \cup {n2}
      <4>1. ToSet(k) = Queued(k) /\ ToSet(Append(k, n2)) = Queued(Append(k, n2))
        BY DEF ToSet, Queued
      <4> QED
        BY <2>1, <4>1, QueuedAppend
    <3>3. Append(k, n2) \in Seq(1..n2)
      BY <2>1, <3>1
    <3> QED
      BY <2>3, <3>2, <3>3 DEF k
  <2> QED
    BY <2>2, <2>3 DEF k
<1>8. \A j \in DOMAIN h : \A c : Declares(h[j], c) => Declares(r[j], c)
  BY <1>2, <1>7 DEF Declares
<1>9. \A j \in DOMAIN h : \A c : Declares(r[j], c) => Declares(h[j], c) \/ (n2 = n + 1 /\ c = n2)
  BY <1>2, <1>7 DEF Declares
<1>10. ASSUME NEW j \in DOMAIN h PROVE Shaped(r[j], s, n2, A)
  <2>1. Shaped(h[j], s, n, A) /\ h[j].id \in Nat
    BY <1>1, MessageIs DEF HistInv
  <2>2. CASE j = i
    BY <1>2, <1>7, <2>1, <2>2 DEF Shaped, IsToolResult
  <2>3. CASE j # i
    <3>1. 1..n \subseteq 1..n2
      OBVIOUS
    <3>2. r[j] = h[j]
      BY <1>2, <2>3
    <3>3. h[j].calls \in Seq(1..n2)
      BY <2>1, <3>1 DEF Shaped
    <3>4. IsToolResult(h[j]) => h[j].id <= n2
      BY <2>1 DEF Shaped
    <3> QED
      BY <2>1, <3>2, <3>3, <3>4 DEF Shaped
  <2> QED
    BY <2>2, <2>3
<1>11. \A j, k \in DOMAIN r : r[j].partial /\ r[k].partial => j = k
  BY <1>2, <1>3 DEF HistInv
<1>12. ASSUME NEW j \in DOMAIN r, NEW k \in DOMAIN r, NEW c \in 1..MaxCalls,
              Declares(r[j], c), Answers(r[k], c)
       PROVE  j < k
  <2>1. Answers(h[k], c) /\ c <= n
    <3>1. Answers(h[k], c)
      BY <1>2, <1>5, <1>12
    <3> QED
      BY <1>2, <3>1 DEF HistInv, Shaped, Answers
  <2>2. Declares(h[j], c)
    BY <1>2, <1>9, <1>12, <2>1
  <2> QED
    BY <1>2, <2>1, <2>2 DEF HistInv
<1>13. \A j \in DOMAIN r : IsToolResult(r[j]) => Based(r, r[j].id, X)
  BY <1>2, <1>3, <1>4, <1>8 DEF HistInv, Based
<1>14. ASSUME NEW j \in DOMAIN r, NEW c \in A, Declares(r[j], c)
       PROVE  \E k \in DOMAIN r : Answers(r[k], c)
  <2>1. c \in 1..n /\ c \in 1..MaxCalls
    OBVIOUS
  <2>2. Declares(h[j], c)
    BY <1>2, <1>9, <1>14, <2>1
  <2>3. PICK k \in DOMAIN h : Answers(h[k], c)
    BY <1>2, <2>2 DEF HistInv
  <2> QED
    BY <1>2, <1>5, <2>1, <2>3
<1>15. HistInv(r, s, n2, A, X)
  BY <1>2, <1>10, <1>11, <1>12, <1>13, <1>14 DEF HistInv
<1> QED
  BY <1>15 DEF r

-----------------------------------------------------------------------------
(* What the fold keeps.                                                     *)

IsFold(f) == f = [history |-> f.history, pending |-> f.pending, deferred |-> f.deferred]

(* A fold before what is parked is let in.                                  *)
Unflushed(f, steps, calls, known, strays) ==
    /\ IsFold(f)
    /\ HistInv(f.history, steps, calls, known, strays)
    /\ f.pending \in Seq(1..calls) /\ OpenInv(f.history, f.pending, known, strays)
    /\ f.deferred \in Seq(Parked)

LEMMA FoldParts ==
    ASSUME NEW f, NEW s, NEW n, NEW A, NEW X
    PROVE  FoldInv(f, s, n, A, X) <=> Unflushed(f, s, n, A, X) /\ (f.deferred # <<>> => f.pending # <<>>)
BY Zenon DEF FoldInv, Unflushed, IsFold

LEMMA NothingPending == ASSUME NEW h, NEW A, NEW X, NEW S PROVE OpenInv(h, <<>>, A, X) /\ <<>> \in Seq(S)
BY DEF OpenInv, ToSet

LEMMA ParkedIs ==
    ASSUME NEW m \in Parked, NEW s, NEW n, NEW A
    PROVE  /\ m \in Messages /\ Shaped(m, s, n, A) /\ ~ m.partial /\ m.calls = <<>>
           /\ ~ IsToolResult(m) /\ m.role # "interrupted" /\ m.role \in {"user", "steer", "note"}
<1>1. <<>> \in Seq(1..n)
  OBVIOUS
<1> QED
  BY <1>1 DEF Parked, Shaped, IsToolResult

(* The open messages of a history that goes on with messages that are not   *)
(* open.                                                                    *)
LEMMA OpenMessagesExtend ==
    ASSUME NEW h \in Seq(Messages), NEW t \in Seq(Messages), \A i \in DOMAIN t : ~ t[i].partial
    PROVE  OpenMessages(h \o t) = OpenMessages(h)
<1> DEFINE r == h \o t
           l == Len(h)
<1>1. IsJoined(r, h, t, l)
  BY ConcatIs
<1> HIDE DEF r, l
<1>2. \A k \in DOMAIN r : r[k].partial => k \in DOMAIN h /\ r[k] = h[k]
  BY <1>1 DEF IsJoined
<1>3. \A k \in DOMAIN h : k \in DOMAIN r /\ r[k] = h[k]
  BY <1>1 DEF IsJoined
<1>4. OpenMessages(r) = OpenMessages(h)
  BY <1>2, <1>3 DEF OpenMessages
<1> QED
  BY <1>4 DEF r

LEMMA SeqOfParked == ASSUME NEW d \in Seq(Parked) PROVE d \in Seq(Messages)
<1>1. Parked \subseteq Messages
  BY DEF Parked
<1> QED
  BY <1>1

(* Messages that declare nothing and are not open come to the end.          *)
LEMMA HistExtendClosed ==
    ASSUME NEW h, NEW s \in Nat, NEW n \in Nat, NEW A, NEW X, HistInv(h, s, n, A, X), NEW t \in Seq(Messages),
           \A i \in DOMAIN t : Shaped(t[i], s, n, A) /\ t[i].calls = <<>> /\ ~ t[i].partial,
           \A j \in DOMAIN t : IsToolResult(t[j]) => Based(h, t[j].id, X)
    PROVE  HistInv(h \o t, s, n, A, X) /\ OpenMessages(h \o t) = OpenMessages(h)
<1>1. h \in Seq(Messages) /\ s <= s /\ A \subseteq A /\ A \ A = {}
  BY DEF HistInv
<1>2. \A i \in DOMAIN h : h[i].role = "interrupted" => h[i].id \notin A
  BY DEF HistInv, Shaped
<1>3. \A i, j \in DOMAIN t : t[i].partial /\ t[j].partial => i = j
  OBVIOUS
<1>4. \A i \in DOMAIN t, j \in DOMAIN h : ~ (t[i].partial /\ h[j].partial)
  OBVIOUS
<1>5. \A c \in A \ A : \E j \in DOMAIN t : Answers(t[j], c)
  OBVIOUS
<1>6. HistInv(h \o t, s, n, A, X)
  BY <1>1, <1>2, <1>3, <1>4, <1>5, HistExtend
<1> QED
  BY <1>1, <1>6, OpenMessagesExtend

LEMMA HistExtendParked ==
    ASSUME NEW h, NEW s \in Nat, NEW n \in Nat, NEW A, NEW X, HistInv(h, s, n, A, X), NEW d \in Seq(Parked)
    PROVE  HistInv(h \o d, s, n, A, X) /\ OpenMessages(h \o d) = OpenMessages(h)
<1>1. d \in Seq(Messages) /\ h \in Seq(Messages)
  BY SeqOfParked DEF HistInv
<1>2. \A i \in DOMAIN d : /\ Shaped(d[i], s, n, A) /\ d[i].calls = <<>>
                          /\ ~ d[i].partial /\ ~ IsToolResult(d[i])
  <2> SUFFICES ASSUME NEW i \in DOMAIN d
               PROVE  /\ Shaped(d[i], s, n, A) /\ d[i].calls = <<>>
                      /\ ~ d[i].partial /\ ~ IsToolResult(d[i])
    OBVIOUS
  <2>1. d[i] \in Parked
    OBVIOUS
  <2> QED
    BY <2>1, ParkedIs
<1> QED
  BY <1>1, <1>2, HistExtendClosed

LEMMA FlushInv ==
    ASSUME NEW f, NEW s \in Nat, NEW n \in Nat, NEW A, NEW X, Unflushed(f, s, n, A, X)
    PROVE  /\ FoldInv(FlushDeferred(f), s, n, A, X)
           /\ FlushDeferred(f).pending = f.pending
           /\ OpenMessages(FlushDeferred(f).history) = OpenMessages(f.history)
<1>1. CASE f.pending # <<>>
  BY <1>1, FoldParts DEF FlushDeferred
<1>2. CASE f.pending = <<>>
  <2> DEFINE h == f.history \o f.deferred
             g == [history |-> h, pending |-> <<>>, deferred |-> <<>>]
  <2>1. FlushDeferred(f) = g
    BY <1>2 DEF FlushDeferred, Unflushed, IsFold
  <2>2. HistInv(h, s, n, A, X) /\ OpenMessages(h) = OpenMessages(f.history)
    BY HistExtendParked DEF Unflushed
  <2> HIDE DEF h
  <2>3. OpenInv(h, <<>>, A, X) /\ <<>> \in Seq(1..n) /\ <<>> \in Seq(Parked)
    BY NothingPending
  <2>4. FoldInv(g, s, n, A, X)
    BY <2>2, <2>3 DEF FoldInv
  <2> QED
    BY <1>2, <2>1, <2>2, <2>4
<1> QED
  BY <1>1, <1>2

(* A fold begun anew.                                                       *)
LEMMA FreshInv ==
    ASSUME NEW h, NEW s, NEW n, NEW A, NEW X, HistInv(h, s, n, A, X)
    PROVE  /\ FoldInv(Fold(h), s, n, A, X) /\ Fold(h).history = h
           /\ Fold(h).pending = <<>> /\ Fold(h).deferred = <<>>
<1>1. OpenInv(h, <<>>, A, X) /\ <<>> \in Seq(1..n) /\ <<>> \in Seq(Parked)
  BY NothingPending
<1> QED
  BY <1>1 DEF FoldInv, Fold

(* Every open call gets its made-up result.                                 *)
LEMMA ClosePendingInv ==
    ASSUME NEW f, NEW s \in Nat, NEW n \in Nat, NEW A, NEW X, FoldInv(f, s, n, A, X)
    PROVE  /\ FoldInv(ClosePending(f), s, n, A, X)
           /\ ClosePending(f).pending = <<>> /\ ClosePending(f).deferred = <<>>
           /\ OpenMessages(ClosePending(f).history) = OpenMessages(f.history)
<1>1. CASE f.pending = <<>>
  BY <1>1 DEF ClosePending, FoldInv
<1>2. CASE f.pending # <<>>
  <2> DEFINE p == f.pending
             t == [i \in DOMAIN p |-> Message("interrupted", p[i])]
             g == [f EXCEPT !.history = @ \o t, !.pending = <<>>]
  <2>1. /\ p \in Seq(1..n) /\ f.history \in Seq(Messages)
        /\ \A i \in DOMAIN p : p[i] \in 1..n /\ p[i] \in Nat
    BY DEF FoldInv, HistInv
  <2> HIDE DEF p
  <2>2. /\ DOMAIN t = DOMAIN p
        /\ \A i \in DOMAIN t :
              /\ t[i] \in Messages /\ t[i].role = "interrupted" /\ t[i].id = p[i]
              /\ t[i].calls = <<>> /\ ~ t[i].partial
    <3>1. \A i \in DOMAIN t : t[i] = Message("interrupted", p[i])
      OBVIOUS
    <3>2. "interrupted" \in Roles
      BY DEF Roles
    <3> QED
      BY <2>1, <3>1, <3>2, MessageType
  <2>3. t \in Seq(Messages)
    <3>1. \A i \in DOMAIN p : t[i] \in Messages
      BY <2>2
    <3>2. DOMAIN p = 1..Len(p) /\ Len(p) \in Nat
      BY <2>1
    <3>3. t \in [1..Len(p) -> Messages]
      BY <3>1, <3>2
    <3> QED
      BY <3>2, <3>3
  <2> HIDE DEF t
  <2>4. \A c \in ToSet(p) : /\ c \notin A
                            /\ Based(f.history, c, X)
    BY DEF FoldInv, OpenInv, Based, p
  <2>5. ASSUME NEW i \in DOMAIN t
        PROVE  /\ Shaped(t[i], s, n, A)
               /\ Based(f.history, t[i].id, X)
    <3>1. p[i] \in ToSet(p)
      BY <2>2, ToSetIs
    <3>2. <<>> \in Seq(1..n)
      OBVIOUS
    <3>3. t[i].id = p[i] /\ p[i] <= n /\ t[i].role = "interrupted" /\ t[i].calls = <<>>
      BY <2>1, <2>2
    <3>4. t[i].id \notin A /\ Based(f.history, t[i].id, X)
      BY <2>4, <3>1, <3>3
    <3> QED
      BY <2>2, <3>2, <3>3, <3>4 DEF Shaped
  <2>6. HistInv(f.history, s, n, A, X)
    BY DEF FoldInv
  <2>7. /\ \A i \in DOMAIN t : Shaped(t[i], s, n, A) /\ t[i].calls = <<>> /\ ~ t[i].partial
        /\ \A j \in DOMAIN t : IsToolResult(t[j]) => Based(f.history, t[j].id, X)
    BY <2>2, <2>5
  <2>9. HistInv(f.history \o t, s, n, A, X) /\ OpenMessages(f.history \o t) = OpenMessages(f.history)
    BY <2>3, <2>6, <2>7, HistExtendClosed
  <2>10. g = [history |-> f.history \o t, pending |-> <<>>, deferred |-> f.deferred]
    <3>1. IsFold(f)
      BY DEF FoldInv, IsFold
    <3> DEFINE h == f.history \o t
    <3>2. g = [f EXCEPT !.history = h, !.pending = <<>>]
      OBVIOUS
    <3> HIDE DEF h, g
    <3>3. g = [history |-> h, pending |-> <<>>, deferred |-> f.deferred]
      BY <3>1, <3>2 DEF IsFold
    <3> QED
      BY <3>3 DEF h
  <2>11. f.deferred \in Seq(Parked)
    BY DEF FoldInv
  <2>12. Unflushed(g, s, n, A, X) /\ g.pending = <<>>
    BY <2>9, <2>10, <2>11, NothingPending DEF Unflushed, IsFold
  <2>13. ClosePending(f) = FlushDeferred(g)
    BY <1>2 DEF ClosePending, t, p
  <2>14. /\ FoldInv(FlushDeferred(g), s, n, A, X) /\ FlushDeferred(g).pending = <<>>
         /\ OpenMessages(FlushDeferred(g).history) = OpenMessages(g.history)
    BY <2>12, FlushInv
  <2>15. FlushDeferred(g).deferred = <<>>
    BY <2>14 DEF FoldInv
  <2> QED
    BY <2>9, <2>10, <2>13, <2>14, <2>15
<1> QED
  BY <1>1, <1>2
-----------------------------------------------------------------------------
(* A step that is left open is settled.                                     *)

LEMMA NothingOpen ==
    ASSUME NEW h PROVE OpenMessages(h) = {} <=> \A i \in DOMAIN h : ~ h[i].partial
BY DEF OpenMessages

(* The open message is dropped when it is empty.                            *)
LEMMA HistDrop ==
    ASSUME NEW h, NEW s, NEW n, NEW A, NEW X, HistInv(h, s, n, A, X), A \subseteq 1..MaxCalls,
           NEW i \in DOMAIN h, h[i].partial, Vacuous(h[i])
    PROVE  HistInv(RemoveAt(h, i), s, n, A, X) /\ OpenMessages(RemoveAt(h, i)) = {}
<1> DEFINE r == Taken(h, i)
           e == [j \in DOMAIN r |-> IF j < i THEN j ELSE j + 1]
<1>1. h \in Seq(Messages)
  BY DEF HistInv
<1>2. RemoveAt(h, i) = r /\ r \in Seq(Messages)
  BY <1>1, SplicedIsTaken, TakenType DEF RemoveAt
<1>3. /\ Len(h) \in Nat /\ DOMAIN h = 1..Len(h) /\ i \in 1..Len(h) /\ i \in Nat
      /\ DOMAIN r = 1..(Len(h) - 1)
      /\ \A j \in 1..(Len(h) - 1) : r[j] = IF j < i THEN h[j] ELSE h[j + 1]
  BY <1>1 DEF Taken
<1> HIDE DEF r
<1>4. /\ e \in [DOMAIN r -> DOMAIN h] /\ \A j \in DOMAIN r : r[j] = h[e[j]] /\ e[j] # i
      /\ \A j, k \in DOMAIN r : j < k => e[j] < e[k]
      /\ \A k \in DOMAIN h : k # i => \E j \in DOMAIN r : e[j] = k
  <2>1. \A j \in DOMAIN r : e[j] \in DOMAIN h /\ r[j] = h[e[j]] /\ e[j] # i
    BY <1>3
  <2>2. \A j, k \in DOMAIN r : j < k => e[j] < e[k]
    BY <1>3
  <2>3. ASSUME NEW k \in DOMAIN h, k # i PROVE \E j \in DOMAIN r : e[j] = k
    <3>1. CASE k < i
      <4>1. k \in DOMAIN r /\ e[k] = k
        BY <1>3, <3>1
      <4> QED
        BY <4>1
    <3>2. CASE k > i
      <4>1. k - 1 \in DOMAIN r /\ e[k - 1] = k
        BY <1>3, <3>2
      <4> QED
        BY <4>1
    <3> QED
      BY <1>3, <2>3, <3>1, <3>2
  <2> QED
    BY <2>1, <2>2, <2>3
<1> HIDE DEF e
<1>5. ~ IsToolResult(h[i]) /\ h[i].calls = <<>> /\ \A c : ~ Declares(h[i], c)
  BY NothingDeclared DEF Vacuous, IsToolResult
<1>6. ASSUME NEW j \in DOMAIN r, IsToolResult(r[j]) PROVE Based(r, r[j].id, X)
  <2>1. Based(h, r[j].id, X)
    BY <1>4, <1>6 DEF HistInv
  <2> QED
    BY <1>4, <1>5, <2>1 DEF Based
<1>7. ASSUME NEW j \in DOMAIN r, NEW c \in A, Declares(r[j], c)
      PROVE  \E k \in DOMAIN r : Answers(r[k], c)
  <2>1. PICK k \in DOMAIN h : Answers(h[k], c)
    BY <1>4, <1>7 DEF HistInv
  <2>2. k # i
    BY <1>5, <2>1 DEF Answers
  <2> QED
    BY <1>4, <2>1, <2>2
<1>8. HistInv(r, s, n, A, X)
  <2>1. Selected(e, r, h)
    BY <1>4 DEF Selected
  <2>2. \A j \in DOMAIN r : IsToolResult(r[j]) => Based(r, r[j].id, X)
    BY <1>6
  <2>3. \A j \in DOMAIN r : \A c \in A :
           Declares(r[j], c) => \E k \in DOMAIN r : Answers(r[k], c)
    BY <1>7
  <2> QED
    BY <1>2, <2>1, <2>2, <2>3, HistSelect
<1>9. \A j \in DOMAIN r : ~ r[j].partial
  BY <1>4 DEF HistInv
<1> QED
  BY <1>2, <1>8, <1>9, NothingOpen

(* The open message is closed.                                              *)
LEMMA HistClose ==
    ASSUME NEW h, NEW s, NEW n \in Nat, NEW A, NEW X, HistInv(h, s, n, A, X), A \subseteq 1..n,
           MaxCalls \in Nat, n <= MaxCalls, NEW i \in DOMAIN h, h[i].partial
    PROVE  LET r == [h EXCEPT ![i].partial = FALSE]
           IN  HistInv(r, s, n, A, X) /\ OpenMessages(r) = {}
<1> DEFINE m == [h[i] EXCEPT !.partial = FALSE]
           r == [h EXCEPT ![i] = m]
<1>1. h \in Seq(Messages) /\ h[i] \in Messages /\ h[i].role = "assistant" /\ n <= n
  BY DEF HistInv, Shaped
<1>2. /\ m \in Messages /\ m.role = h[i].role /\ m.id = h[i].id /\ m.calls = h[i].calls
      /\ ~ m.partial
  BY <1>1 DEF Messages
<1> HIDE DEF m
<1>3. HistInv(r, s, n, A, X)
  BY <1>1, <1>2, HistEdit
<1>4. \A j \in DOMAIN r : ~ r[j].partial
  BY <1>2 DEF HistInv
<1>5. OpenMessages(r) = {}
  BY <1>4, NothingOpen
<1> QED
  BY <1>3, <1>5 DEF m

LEMMA SettleInv ==
    ASSUME NEW f, NEW s \in Nat, NEW n \in Nat, NEW A, NEW X, FoldInv(f, s, n, A, X), A \subseteq 1..n,
           MaxCalls \in Nat, n <= MaxCalls
    PROVE  /\ FoldInv(SettleOpenStep(f), s, n, A, X) /\ OpenMessages(SettleOpenStep(f).history) = {}
           /\ SettleOpenStep(f).pending = <<>> /\ SettleOpenStep(f).deferred = <<>>
<1> DEFINE g == ClosePending(f)
           h == g.history
           i == OpenAssistant(h)
<1>1. FoldInv(g, s, n, A, X) /\ g.pending = <<>> /\ g.deferred = <<>>
  BY ClosePendingInv
<1> HIDE DEF g
<1>2. /\ g = [history |-> h, pending |-> <<>>, deferred |-> <<>>] /\ HistInv(h, s, n, A, X)
      /\ h \in Seq(Messages)
      /\ \A j, k \in DOMAIN h : h[j].partial /\ h[k].partial => j = k
  BY <1>1 DEF FoldInv, HistInv
<1> HIDE DEF h
<1>3. \/ i = 0 /\ \A j \in DOMAIN h : ~ h[j].partial
      \/ i \in DOMAIN h /\ h[i].partial /\ i # 0
  BY <1>2, OpenAssistantIs
<1> HIDE DEF i
<1>4. SettleOpenStep(f) = IF i = 0 THEN g
                          ELSE IF Vacuous(h[i]) THEN [g EXCEPT !.history = RemoveAt(h, i)]
                          ELSE [g EXCEPT !.history = [h EXCEPT ![i].partial = FALSE]]
  BY DEF SettleOpenStep, i, h, g
<1>5. ASSUME NEW r, HistInv(r, s, n, A, X), OpenMessages(r) = {},
             SettleOpenStep(f) = [history |-> r, pending |-> <<>>, deferred |-> <<>>]
      PROVE  /\ FoldInv(SettleOpenStep(f), s, n, A, X) /\ OpenMessages(SettleOpenStep(f).history) = {}
             /\ SettleOpenStep(f).pending = <<>> /\ SettleOpenStep(f).deferred = <<>>
  BY <1>5, FreshInv DEF Fold
<1>6. CASE i = 0
  <2>1. OpenMessages(h) = {}
    BY <1>3, <1>6, NothingOpen
  <2> QED
    BY <1>2, <1>4, <1>5, <1>6, <2>1
<1>7. CASE i # 0 /\ Vacuous(h[i])
  <2> DEFINE r == RemoveAt(h, i)
  <2>1. A \subseteq 1..MaxCalls
    OBVIOUS
  <2>2. HistInv(r, s, n, A, X) /\ OpenMessages(r) = {}
    BY <1>2, <1>3, <1>7, <2>1, HistDrop
  <2>3. SettleOpenStep(f) = [g EXCEPT !.history = r]
    BY <1>4, <1>7
  <2> HIDE DEF r
  <2>4. SettleOpenStep(f) = [history |-> r, pending |-> <<>>, deferred |-> <<>>]
    BY <1>2, <2>3
  <2> QED
    BY <1>5, <2>2, <2>4
<1>8. CASE i # 0 /\ ~ Vacuous(h[i])
  <2> DEFINE r == [h EXCEPT ![i].partial = FALSE]
  <2>2. HistInv(r, s, n, A, X) /\ OpenMessages(r) = {}
    BY <1>2, <1>3, <1>8, HistClose
  <2>3. SettleOpenStep(f) = [g EXCEPT !.history = r]
    BY <1>4, <1>8
  <2> HIDE DEF r
  <2>4. SettleOpenStep(f) = [history |-> r, pending |-> <<>>, deferred |-> <<>>]
    BY <1>2, <2>3
  <2> QED
    BY <1>5, <2>2, <2>4
<1> QED
  BY <1>6, <1>7, <1>8

LEMMA StepEndInv ==
    ASSUME NEW f, NEW s \in Nat, NEW n \in Nat, NEW A, NEW X, FoldInv(f, s, n, A, X), A \subseteq 1..n,
           MaxCalls \in Nat, n <= MaxCalls
    PROVE  FoldInv(StepEnd(f), s, n, A, X) /\ OpenMessages(StepEnd(f).history) = {}
<1>1. FoldInv(SettleOpenStep(f), s, n, A, X) /\ OpenMessages(SettleOpenStep(f).history) = {}
  BY SettleInv
<1>2. Unflushed(SettleOpenStep(f), s, n, A, X)
  BY <1>1, FoldParts
<1> QED
  BY <1>1, <1>2, FlushInv DEF StepEnd

(* A step begins: the message it opens comes to the end, empty.             *)
LEMMA StepBeginInv ==
    ASSUME NEW f, NEW s \in Nat, NEW n \in Nat, NEW A, NEW X, FoldInv(f, s, n, A, X), A \subseteq 1..n,
           MaxCalls \in Nat, n <= MaxCalls
    PROVE  /\ FoldInv(StepBegin(f, s + 1), s + 1, n, A, X) /\ StepBegin(f, s + 1).pending = <<>>
           /\ \A m \in OpenMessages(StepBegin(f, s + 1).history) : m.id = s + 1 /\ m.calls = <<>>
           /\ OpenMessages(StepBegin(f, s + 1).history) # {}
<1> DEFINE g == SettleOpenStep(f)
           m == [Message("assistant", s + 1) EXCEPT !.text = FALSE, !.partial = TRUE]
           h == g.history
           r == Append(h, m)
           t == <<m>>
           s2 == s + 1
<1>1. FoldInv(g, s, n, A, X) /\ OpenMessages(h) = {} /\ g.pending = <<>> /\ g.deferred = <<>>
  BY SettleInv
<1>2. StepBegin(f, s2) = [g EXCEPT !.history = r]
  BY DEF StepBegin
<1> HIDE DEF g
<1>3. /\ g = [history |-> h, pending |-> <<>>, deferred |-> <<>>] /\ HistInv(h, s, n, A, X)
      /\ h \in Seq(Messages)
  BY <1>1 DEF FoldInv, HistInv
<1> HIDE DEF h
<1>4. /\ m \in Messages /\ m.role = "assistant" /\ m.id = s2 /\ m.calls = <<>> /\ m.partial
      /\ s2 \in Nat /\ s <= s2
  <2> DEFINE b == Message("assistant", s2)
  <2>1. s2 \in Nat /\ s <= s2 /\ "assistant" \in Roles
    BY DEF Roles
  <2>2. b \in Messages /\ b.role = "assistant" /\ b.id = s2 /\ b.calls = <<>>
    BY <2>1, MessageType
  <2>3. m = [b EXCEPT !.text = FALSE, !.partial = TRUE]
    OBVIOUS
  <2> HIDE DEF b, m, s2
  <2>4. /\ m \in Messages /\ m.role = b.role /\ m.id = b.id /\ m.calls = b.calls /\ m.partial
    BY <2>2, <2>3 DEF Messages
  <2> QED
    BY <2>1, <2>2, <2>4
<1> HIDE DEF m, s2
<1>5. Shaped(m, s2, n, A)
  <2>1. <<>> \in Seq(1..n) /\ s2 <= s2
    BY <1>4
  <2> QED
    BY <1>4, <2>1 DEF Shaped, IsToolResult
<1>6. r = h \o t /\ t \in Seq(Messages) /\ DOMAIN t = {1} /\ t[1] = m
  BY <1>3, <1>4, AppendIs
<1> HIDE DEF t
<1>7. HistInv(h \o t, s2, n, A, X)
  <2>1. \A i \in DOMAIN t : t[i] = m
    BY <1>6
  <2>2. \A i \in DOMAIN t : Shaped(t[i], s2, n, A) /\ t[i].calls = <<>> /\ ~ IsToolResult(t[i])
    BY <1>4, <1>5, <2>1 DEF IsToolResult
  <2>3. \A i, j \in DOMAIN t : t[i].partial /\ t[j].partial => i = j
    BY <1>6
  <2>4. \A i \in DOMAIN t, j \in DOMAIN h : ~ (t[i].partial /\ h[j].partial)
    BY <1>1, NothingOpen DEF h
  <2>5. \A i \in DOMAIN h : h[i].role = "interrupted" => h[i].id \notin A
    BY <1>3 DEF HistInv, Shaped
  <2>6. A \subseteq A /\ \A c \in A \ A : \E j \in DOMAIN t : Answers(t[j], c)
    OBVIOUS
  <2> QED
    BY <1>3, <1>4, <1>6, <2>2, <2>3, <2>4, <2>5, <2>6, HistExtend
<1>8. OpenMessages(h \o t) = {m}
  <2> DEFINE l == Len(h)
             q == h \o t
  <2>1. IsJoined(q, h, t, l)
    BY <1>3, <1>6, ConcatIs
  <2> HIDE DEF q, l
  <2>2. \A i \in DOMAIN q : q[i].partial => q[i] = m
    <3>1. \A i \in DOMAIN h : ~ h[i].partial
      BY <1>1, NothingOpen DEF h
    <3> QED
      BY <1>6, <2>1, <3>1 DEF IsJoined
  <2>3. \E i \in DOMAIN q : q[i] = m
    BY <1>6, <2>1 DEF IsJoined
  <2> QED
    BY <1>4, <2>2, <2>3 DEF OpenMessages, q
<1>9. /\ FoldInv(StepBegin(f, s2), s2, n, A, X) /\ StepBegin(f, s2).pending = <<>>
      /\ StepBegin(f, s2).history = r
  <2>1. StepBegin(f, s2) = [history |-> r, pending |-> <<>>, deferred |-> <<>>]
    BY <1>2, <1>3
  <2>2. HistInv(r, s2, n, A, X)
    BY <1>6, <1>7
  <2> HIDE DEF r
  <2>3. StepBegin(f, s2) = Fold(r)
    BY <2>1 DEF Fold
  <2> QED
    BY <2>2, <2>3, FreshInv
<1> QED
  BY <1>4, <1>6, <1>8, <1>9 DEF s2
-----------------------------------------------------------------------------
(* What is said in a step.                                                  *)

LEMMA AppendWider ==
    ASSUME NEW S, NEW T, S \subseteq T, NEW s \in Seq(S), NEW x \in T
    PROVE  s \in Seq(T) /\ Append(s, x) \in Seq(T)
<1>1. s \in Seq(T)
  OBVIOUS
<1> QED
  BY <1>1

LEMMA ToSetQueued == ASSUME NEW s PROVE ToSet(s) = Queued(s)
BY DEF ToSet, Queued

(* A service injects a message, or the user speaks.                         *)
LEMMA AppendMessageInv ==
    ASSUME NEW f, NEW s \in Nat, NEW n \in Nat, NEW A, NEW X, FoldInv(f, s, n, A, X), NEW m \in Parked
    PROVE  /\ FoldInv(AppendMessage(f, m), s, n, A, X) /\ AppendMessage(f, m).pending = f.pending
           /\ OpenMessages(AppendMessage(f, m).history) = OpenMessages(f.history)
<1>1. CASE f.pending # <<>>
  <2> DEFINE d == Append(f.deferred, m)
             g == [history |-> f.history, pending |-> f.pending, deferred |-> d]
  <2>1. AppendMessage(f, m) = g
    <3>1. AppendMessage(f, m) = [f EXCEPT !.deferred = d]
      BY <1>1 DEF AppendMessage
    <3> HIDE DEF d
    <3> QED
      BY <3>1 DEF FoldInv
  <2>2. d \in Seq(Parked)
    BY DEF FoldInv
  <2> HIDE DEF d
  <2> QED
    BY <1>1, <2>1, <2>2 DEF FoldInv
<1>2. CASE f.pending = <<>>
  <2> DEFINE t == <<m>>
             h == f.history \o t
  <2>1. Append(f.history, m) = h /\ t \in Seq(Parked)
    <3>1. m \in Messages /\ f.history \in Seq(Messages)
      BY ParkedIs DEF FoldInv, HistInv
    <3> QED
      BY <3>1, AppendIs
  <2> HIDE DEF t
  <2>2. HistInv(h, s, n, A, X) /\ OpenMessages(h) = OpenMessages(f.history)
    BY <2>1, HistExtendParked DEF FoldInv
  <2>3. AppendMessage(f, m) = Fold(h)
    <3>1. AppendMessage(f, m) = [f EXCEPT !.history = h]
      BY <1>2, <2>1 DEF AppendMessage
    <3>2. f = [history |-> f.history, pending |-> <<>>, deferred |-> <<>>]
      BY <1>2 DEF FoldInv
    <3> HIDE DEF h
    <3> QED
      BY <3>1, <3>2 DEF Fold
  <2> HIDE DEF h
  <2> QED
    BY <1>2, <2>2, <2>3, FreshInv
<1> QED
  BY <1>1, <1>2

(* m stands for the open message o.                                         *)
Continues(m, o) ==
    /\ m \in Messages /\ m.partial /\ m.role = "assistant"
    /\ ToSet(o.calls) \subseteq ToSet(m.calls)

(* The open message is edited and stays open.                               *)
LEMMA OpenEdit ==
    ASSUME NEW h, NEW s, NEW n, NEW A, NEW X, HistInv(h, s, n, A, X), NEW p, OpenInv(h, p, A, X),
           NEW i \in DOMAIN h, h[i].partial, NEW m, Continues(m, h[i])
    PROVE  OpenInv([h EXCEPT ![i] = m], p, A, X) /\ OpenMessages([h EXCEPT ![i] = m]) = {m}
<1> DEFINE r == [h EXCEPT ![i] = m]
<1>1. h \in Seq(Messages) /\ h[i].role = "assistant" /\ \A j \in DOMAIN h : h[j].partial => j = i
  BY DEF HistInv, Shaped
<1> USE DEF Continues
<1>2. /\ DOMAIN r = DOMAIN h /\ r[i] = m
      /\ \A j \in DOMAIN h \ {i} : r[j] = h[j] /\ ~ r[j].partial
  BY <1>1
<1> HIDE DEF r
<1>3. OpenMessages(r) = {m}
  BY <1>2 DEF OpenMessages
<1>4. ASSUME NEW c \in ToSet(p)
      PROVE  /\ c \notin A
             /\ c \in X \/ \E j \in DOMAIN r : r[j].partial /\ Declares(r[j], c)
             /\ \A j \in DOMAIN r : ~ Answers(r[j], c)
  <2>1. c \in X \/ \E j \in DOMAIN h : h[j].partial /\ Declares(h[j], c)
    BY DEF OpenInv
  <2>2. c \in X \/ Declares(r[i], c)
    BY <1>1, <1>2, <2>1 DEF Declares
  <2>3. \A k \in DOMAIN h : ~ Answers(h[k], c)
    BY DEF OpenInv
  <2>4. ~ Answers(m, c)
    BY DEF Answers, IsToolResult
  <2> QED
    BY <1>2, <2>2, <2>3, <2>4 DEF OpenInv
<1>5. OpenInv(r, p, A, X)
  BY <1>4 DEF OpenInv
<1> QED
  BY <1>3, <1>5 DEF r

(* The open message of a fold, and where it is.                             *)
LEMMA FoldOpen ==
    ASSUME NEW f, NEW s, NEW n, NEW A, NEW X, FoldInv(f, s, n, A, X)
    PROVE  LET i == OpenAssistant(f.history)
           IN  \/ i = 0 /\ OpenMessages(f.history) = {}
               \/ /\ i # 0 /\ i \in DOMAIN f.history /\ f.history[i].partial
                  /\ f.history[i].role = "assistant" /\ f.history[i] \in Messages
                  /\ OpenMessages(f.history) = {f.history[i]}
<1> DEFINE h == f.history
           i == OpenAssistant(h)
<1>1. HistInv(h, s, n, A, X) /\ h \in Seq(Messages) /\ \A j, k \in DOMAIN h : h[j].partial /\ h[k].partial => j = k
  BY DEF FoldInv, HistInv
<1> HIDE DEF h
<1>2. \/ i = 0 /\ \A j \in DOMAIN h : ~ h[j].partial
      \/ /\ i \in DOMAIN h /\ h[i].partial /\ i # 0
         /\ \A j \in DOMAIN h : h[j].partial => j = i
  BY <1>1, OpenAssistantIs
<1> HIDE DEF i
<1>3. CASE i = 0 /\ \A j \in DOMAIN h : ~ h[j].partial
  BY <1>3, NothingOpen DEF i, h
<1>4. CASE /\ i \in DOMAIN h /\ h[i].partial /\ i # 0
           /\ \A j \in DOMAIN h : h[j].partial => j = i
  <2>1. h[i].role = "assistant" /\ h[i] \in Messages
    BY <1>1, <1>4 DEF HistInv, Shaped
  <2>2. OpenMessages(h) = {h[i]}
    BY <1>4 DEF OpenMessages
  <2> QED
    BY <1>4, <2>1, <2>2 DEF i, h
<1> QED
  BY <1>2, <1>3, <1>4

(* What is open in h is open in g.                                          *)
StillOpen(h, g) == \A m \in OpenMessages(h) : \E o \in OpenMessages(g) : o.id = m.id

(* Some text arrives.                                                       *)
LEMMA ContentPartInv ==
    ASSUME NEW f, NEW s \in Nat, NEW n \in Nat, NEW A, NEW X, FoldInv(f, s, n, A, X), A \subseteq 1..n,
           MaxCalls \in Nat, n <= MaxCalls
    PROVE  /\ FoldInv(ContentPart(f), s, n, A, X) /\ ContentPart(f).pending = f.pending
           /\ StillOpen(f.history, ContentPart(f).history)
<1> DEFINE h == f.history
           i == OpenAssistant(h)
           m == [h[i] EXCEPT !.text = TRUE]
           r == [h EXCEPT ![i] = m]
<1>1. CASE i = 0
  BY <1>1 DEF ContentPart, StillOpen
<1>2. CASE i # 0
  <2>1. /\ i \in DOMAIN h /\ h[i].partial /\ h[i].role = "assistant" /\ h[i] \in Messages
        /\ OpenMessages(h) = {h[i]}
    BY <1>2, FoldOpen
  <2>2. ContentPart(f) = [f EXCEPT !.history = r]
    <3>1. ContentPart(f) = [f EXCEPT !.history[i].text = TRUE]
      BY <1>2 DEF ContentPart
    <3> QED
      BY <3>1
  <2>3. HistInv(h, s, n, A, X) /\ OpenInv(h, f.pending, A, X) /\ f.pending \in Seq(1..n)
    BY DEF FoldInv
  <2> HIDE DEF h, i
  <2>4. /\ m \in Messages /\ m.role = "assistant" /\ m.id = h[i].id /\ m.calls = h[i].calls
        /\ m.partial
    BY <2>1 DEF Messages
  <2> HIDE DEF m
  <2>5. n <= n
    OBVIOUS
  <2>6. HistInv(r, s, n, A, X)
    BY <2>1, <2>3, <2>4, <2>5, HistEdit
  <2>7. OpenInv(r, f.pending, A, X) /\ OpenMessages(r) = {m}
    <3>1. Continues(m, h[i])
      BY <2>4 DEF Continues
    <3> DEFINE q == f.pending
    <3>2. OpenInv(h, q, A, X) /\ HistInv(h, s, n, A, X) /\ i \in DOMAIN h /\ h[i].partial
      BY <2>1, <2>3
    <3> HIDE DEF q
    <3>3. OpenInv([h EXCEPT ![i] = m], q, A, X)
      BY <3>1, <3>2, OpenEdit
    <3>4. OpenMessages([h EXCEPT ![i] = m]) = {m}
      BY <3>1, <3>2, OpenEdit
    <3> QED
      BY <3>3, <3>4 DEF q
  <2> HIDE DEF r
  <2>8. ContentPart(f) = [history |-> r, pending |-> f.pending, deferred |-> f.deferred]
    BY <2>2 DEF FoldInv
  <2>9. FoldInv(ContentPart(f), s, n, A, X)
    BY <2>6, <2>7, <2>8 DEF FoldInv
  <2> QED
    BY <2>1, <2>4, <2>7, <2>8, <2>9 DEF h, StillOpen
<1> QED
  BY <1>1, <1>2

(* A call is announced: the open message declares it.                       *)
LEMMA DeclaredCallInv ==
    ASSUME NEW f, NEW s \in Nat, NEW n \in Nat, NEW A, NEW X, FoldInv(f, s, n, A, X), A \subseteq 1..n,
           MaxCalls \in Nat, n + 1 <= MaxCalls, OpenMessages(f.history) # {}
    PROVE  /\ FoldInv(ToolCall(f, n + 1), s, n + 1, A, X)
           /\ ToSet(ToolCall(f, n + 1).pending) = ToSet(f.pending) \cup {n + 1}
           /\ StillOpen(f.history, ToolCall(f, n + 1).history)
<1> DEFINE c == n + 1
           h == f.history
           i == OpenAssistant(h)
           m == [h[i] EXCEPT !.calls = Append(@, c)]
           r == [h EXCEPT ![i] = m]
           p == Append(f.pending, c)
<1>1. /\ i \in DOMAIN h /\ h[i].partial /\ h[i].role = "assistant" /\ h[i] \in Messages
      /\ OpenMessages(h) = {h[i]} /\ i # 0
  BY FoldOpen
<1>2. ToolCall(f, c) = [f EXCEPT !.pending = p, !.history = r]
  <2>1. ToolCall(f, c) = [[f EXCEPT !.pending = p] EXCEPT !.history[i].calls = Append(@, c)]
    BY <1>1 DEF ToolCall
  <2>2. f = [history |-> h, pending |-> f.pending, deferred |-> f.deferred]
    BY DEF FoldInv
  <2> QED
    BY <2>1, <2>2
<1>3. HistInv(h, s, n, A, X) /\ OpenInv(h, f.pending, A, X) /\ f.pending \in Seq(1..n)
  BY DEF FoldInv
<1>4. /\ c \in Nat /\ n <= c /\ c <= MaxCalls /\ c = n + 1 /\ c \in 1..c /\ c \in 1..MaxCalls
      /\ c \notin 1..n /\ 1..n \subseteq 1..c
  OBVIOUS
<1> HIDE DEF h, i, c
<1>5. /\ m \in Messages /\ m.role = "assistant" /\ m.id = h[i].id
      /\ m.calls = Append(h[i].calls, c) /\ m.partial
  <2> DEFINE k == Append(h[i].calls, c)
  <2>1. k \in Seq(1..MaxCalls)
    <3>1. h[i].calls \in Seq(1..MaxCalls)
      BY <1>1 DEF Messages
    <3> QED
      BY <1>4, <3>1
  <2>2. m = [h[i] EXCEPT !.calls = k]
    OBVIOUS
  <2> HIDE DEF k, m
  <2>3. m \in Messages /\ m.role = h[i].role /\ m.id = h[i].id /\ m.calls = k /\ m.partial = h[i].partial
    BY <1>1, <2>1, <2>2 DEF Messages
  <2> QED
    BY <1>1, <2>3 DEF k
<1>6. h[i].calls \in Seq(1..n)
  BY <1>1, <1>3 DEF HistInv, Shaped
<1> HIDE DEF m
<1>7. ToSet(m.calls) = ToSet(h[i].calls) \cup {c}
  BY <1>5, <1>6, ToSetQueued, QueuedAppend
<1>8. HistInv(r, s, c, A, X)
  BY <1>1, <1>3, <1>4, <1>5, HistEdit
<1>9. OpenInv(r, f.pending, A, X) /\ OpenMessages(r) = {m}
  <2>1. Continues(m, h[i])
    BY <1>5, <1>7 DEF Continues
  <2> DEFINE q == f.pending
  <2>2. OpenInv(h, q, A, X) /\ HistInv(h, s, n, A, X) /\ i \in DOMAIN h /\ h[i].partial
    BY <1>1, <1>3
  <2> HIDE DEF q
  <2>3. OpenInv([h EXCEPT ![i] = m], q, A, X)
    BY <2>1, <2>2, OpenEdit
  <2>4. OpenMessages([h EXCEPT ![i] = m]) = {m}
    BY <2>1, <2>2, OpenEdit
  <2> QED
    BY <2>3, <2>4 DEF q
<1>10. p \in Seq(1..c) /\ ToSet(p) = ToSet(f.pending) \cup {c}
  <2>1. f.pending \in Seq(1..c)
    BY <1>3, <1>4
  <2>2. p \in Seq(1..c)
    BY <1>4, <2>1
  <2> QED
    BY <1>3, <2>2, ToSetQueued, QueuedAppend
<1> HIDE DEF p
<1>11. /\ c \notin A
       /\ \E j \in DOMAIN r : r[j].partial /\ Declares(r[j], c)
       /\ \A j \in DOMAIN r : ~ Answers(r[j], c)
  <2>1. r[i] = m /\ i \in DOMAIN r
    BY <1>1
  <2>2. r[i].partial /\ Declares(r[i], c)
    BY <1>5, <1>7, <2>1 DEF Declares
  <2>3. ASSUME NEW j \in DOMAIN r, Answers(r[j], c) PROVE FALSE
    <3>1. CASE j = i
      BY <1>5, <2>1, <2>3, <3>1 DEF Answers, IsToolResult
    <3>2. CASE j # i
      <4>1. j \in DOMAIN h /\ r[j] = h[j]
        BY <3>2
      <4>2. h[j].id <= n /\ h[j].id = c
        BY <1>3, <2>3, <4>1 DEF Answers, HistInv, Shaped
      <4> QED
        BY <1>4, <4>2
    <3> QED
      BY <3>1, <3>2
  <2> QED
    BY <1>4, <2>1, <2>2, <2>3
<1> HIDE DEF r
<1>12. OpenInv(r, p, A, X)
  BY <1>9, <1>10, <1>11 DEF OpenInv
<1>13. ToolCall(f, c) = [history |-> r, pending |-> p, deferred |-> f.deferred]
  BY <1>2 DEF FoldInv
<1>14. p # <<>>
  <2>1. c \in ToSet(p)
    BY <1>10
  <2> QED
    BY <2>1 DEF ToSet
<1>15. FoldInv(ToolCall(f, c), s, c, A, X)
  <2>1. f.deferred \in Seq(Parked)
    BY DEF FoldInv
  <2> QED
    BY <1>8, <1>10, <1>12, <1>13, <1>14, <2>1 DEF FoldInv
<1> QED
  BY <1>1, <1>5, <1>9, <1>10, <1>13, <1>15 DEF h, c, StillOpen

(* More calls, and more strays among them.                                  *)
LEMMA HistWider ==
    ASSUME NEW h, NEW s, NEW n \in Nat, NEW A, NEW X, HistInv(h, s, n, A, X),
           NEW n2 \in Nat, n <= n2, NEW X2, X \subseteq X2
    PROVE  HistInv(h, s, n2, A, X2)
<1>1. h \in Seq(Messages)
  BY DEF HistInv
<1>2. ASSUME NEW i \in DOMAIN h PROVE Shaped(h[i], s, n2, A)
  <2>1. Shaped(h[i], s, n, A) /\ h[i].id \in Nat
    BY <1>1, MessageIs DEF HistInv
  <2>2. h[i].calls \in Seq(1..n2)
    <3> DEFINE S == 1..n
               T == 1..n2
               q == h[i].calls
    <3>1. q \in Seq(S) /\ S \subseteq T
      BY <2>1 DEF Shaped
    <3> HIDE DEF S, T, q
    <3>2. q \in Seq(T)
      BY <3>1
    <3> QED
      BY <3>2 DEF T, q
  <2>3. IsToolResult(h[i]) => h[i].id <= n2
    BY <2>1 DEF Shaped
  <2> QED
    BY <2>1, <2>2, <2>3 DEF Shaped
<1>3. \A j \in DOMAIN h : IsToolResult(h[j]) => Based(h, h[j].id, X2)
  BY DEF HistInv, Based
<1> QED
  BY <1>2, <1>3 DEF HistInv

LEMMA OpenWider ==
    ASSUME NEW h, NEW p, NEW A, NEW X, OpenInv(h, p, A, X), NEW X2, X \subseteq X2
    PROVE  OpenInv(h, p, A, X2)
BY DEF OpenInv

(* A call is announced: the open message declares it, if there is one.      *)
LEMMA ToolCallInv ==
    ASSUME NEW f, NEW s \in Nat, NEW n \in Nat, NEW A, NEW X, FoldInv(f, s, n, A, X),
           A \subseteq 1..n, MaxCalls \in Nat, n + 1 <= MaxCalls,
           NEW X2, X \subseteq X2, OpenMessages(f.history) # {} \/ n + 1 \in X2
    PROVE  /\ FoldInv(ToolCall(f, n + 1), s, n + 1, A, X2)
           /\ ToSet(ToolCall(f, n + 1).pending) = ToSet(f.pending) \cup {n + 1}
           /\ StillOpen(f.history, ToolCall(f, n + 1).history)
<1>1. CASE OpenMessages(f.history) # {}
  <2> DEFINE g == ToolCall(f, n + 1)
  <2>1. /\ FoldInv(g, s, n + 1, A, X) /\ ToSet(g.pending) = ToSet(f.pending) \cup {n + 1}
        /\ StillOpen(f.history, g.history)
    BY <1>1, DeclaredCallInv
  <2> HIDE DEF g
  <2>2. n + 1 \in Nat /\ n + 1 <= n + 1
    OBVIOUS
  <2> DEFINE c == n + 1
  <2>3. HistInv(g.history, s, c, A, X) /\ OpenInv(g.history, g.pending, A, X) /\ c \in Nat /\ c <= c
    BY <2>1, <2>2 DEF FoldInv
  <2>4. FoldInv(g, s, c, A, X)
    BY <2>1
  <2> HIDE DEF c
  <2>5. HistInv(g.history, s, c, A, X2)
    BY <2>3, HistWider
  <2>6. OpenInv(g.history, g.pending, A, X2)
    BY <2>3, OpenWider
  <2>7. FoldInv(g, s, c, A, X2)
    BY <2>4, <2>5, <2>6 DEF FoldInv
  <2> QED
    BY <2>1, <2>7 DEF g, c
<1>2. CASE OpenMessages(f.history) = {}
  <2> DEFINE c == n + 1
             h == f.history
             d == f.deferred
             p == Append(f.pending, c)
             g == [history |-> h, pending |-> p, deferred |-> d]
  <2>1. OpenAssistant(h) = 0
    BY <1>2, FoldOpen
  <2>2. ToolCall(f, c) = g
    <3>1. ToolCall(f, c) = [f EXCEPT !.pending = p]
      BY <2>1 DEF ToolCall
    <3> HIDE DEF p
    <3>2. f = [history |-> h, pending |-> f.pending, deferred |-> d]
      BY DEF FoldInv
    <3> QED
      BY <3>1, <3>2
  <2>3. /\ HistInv(h, s, n, A, X) /\ OpenInv(h, f.pending, A, X) /\ f.pending \in Seq(1..n)
        /\ d \in Seq(Parked)
    BY DEF FoldInv
  <2>4. c \in Nat /\ n <= c /\ c \notin 1..n /\ c \in 1..c /\ 1..n \subseteq 1..c
    OBVIOUS
  <2>5. c \in X2 /\ c \notin A
    BY <1>2, <2>4
  <2> HIDE DEF c, h, d
  <2>6. HistInv(h, s, c, A, X2)
    BY <2>3, <2>4, HistWider
  <2>7. p \in Seq(1..c) /\ ToSet(p) = ToSet(f.pending) \cup {c}
    <3>1. f.pending \in Seq(1..c) /\ p \in Seq(1..c)
      BY <2>3, <2>4, AppendWider
    <3> QED
      BY <2>3, <3>1, ToSetQueued, QueuedAppend
  <2>8. p # <<>>
    <3>1. c \in ToSet(p)
      BY <2>7
    <3> QED
      BY <3>1 DEF ToSet
  <2>9. \A j \in DOMAIN h : ~ Answers(h[j], c)
    <3> SUFFICES ASSUME NEW j \in DOMAIN h, Answers(h[j], c) PROVE FALSE
      OBVIOUS
    <3>1. h[j].id <= n /\ h[j].id = c
      BY <2>3 DEF HistInv, Shaped, Answers
    <3> QED
      BY <2>4, <3>1
  <2> HIDE DEF p
  <2>10. OpenInv(h, p, A, X2)
    BY <2>3, <2>5, <2>7, <2>9 DEF OpenInv
  <2>11. FoldInv(g, s, c, A, X2)
    BY <2>3, <2>6, <2>7, <2>8, <2>10 DEF FoldInv
  <2>12. StillOpen(h, g.history) /\ ToSet(g.pending) = ToSet(f.pending) \cup {c}
    BY <2>7 DEF StillOpen
  <2> QED
    BY <2>2, <2>11, <2>12 DEF c, h
<1> QED
  BY <1>1, <1>2

(* Fewer calls count as answered.                                           *)
LEMMA FoldLess ==
    ASSUME NEW f, NEW s, NEW n, NEW A, NEW X, FoldInv(f, s, n, A, X), NEW A2, A2 \subseteq A
    PROVE  FoldInv(f, s, n, A2, X)
<1>1. HistInv(f.history, s, n, A2, X)
  <2>1. HistInv(f.history, s, n, A, X)
    BY DEF FoldInv
  <2>2. \A i \in DOMAIN f.history : Shaped(f.history[i], s, n, A2)
    BY <2>1 DEF HistInv, Shaped
  <2> QED
    BY <2>1, <2>2 DEF HistInv
<1>2. OpenInv(f.history, f.pending, A2, X)
  BY DEF FoldInv, OpenInv
<1> QED
  BY <1>1, <1>2 DEF FoldInv

(* A call is answered.                                                      *)
LEMMA ToolResultInv ==
    ASSUME NEW f, NEW s \in Nat, NEW n \in Nat, NEW A, NEW X, FoldInv(f, s, n, A, X),
           NEW c \in ToSet(f.pending)
    PROVE  /\ FoldInv(ToolResult(f, c), s, n, A \cup {c}, X)
           /\ ToSet(ToolResult(f, c).pending) = ToSet(f.pending) \ {c}
           /\ OpenMessages(ToolResult(f, c).history) = OpenMessages(f.history)
<1> DEFINE h == f.history
           m == Message("tool", c)
           t == <<m>>
           r == h \o t
           p == Kept(f.pending, ToSet(f.pending) \ {c})
           A2 == A \cup {c}
           g == [f EXCEPT !.history = r, !.pending = p]
<1>1. HistInv(h, s, n, A, X) /\ OpenInv(h, f.pending, A, X) /\ f.pending \in Seq(1..n)
  BY DEF FoldInv
<1>2. h \in Seq(Messages) /\ c \in 1..n /\ c \in Nat
  BY <1>1 DEF HistInv, ToSet
<1>3. /\ m \in Messages /\ m.role = "tool" /\ m.id = c /\ m.calls = <<>> /\ ~ m.partial
  <2>1. "tool" \in Roles
    BY DEF Roles
  <2> QED
    BY <1>2, <2>1, MessageType
<1> HIDE DEF m
<1>4. Append(h, m) = r /\ t \in Seq(Messages) /\ DOMAIN t = {1} /\ t[1] = m
  BY <1>2, <1>3, AppendIs
<1>5. /\ p \in Seq(1..n) /\ ToSet(p) = ToSet(f.pending) \ {c}
  <2> DEFINE q == f.pending
             S == ToSet(q) \ {c}
  <2>1. S = Queued(q) \ {c} /\ ToSet(q) = Queued(q)
    BY ToSetQueued
  <2> HIDE DEF S, q
  <2>2. q \in Seq(1..n)
    BY <1>1 DEF q
  <2>3. Kept(q, S) \in Seq(1..n) /\ Queued(Kept(q, S)) = Queued(q) \cap S
    BY <2>2, KeptProperties
  <2>4. ToSet(Kept(q, S)) = ToSet(q) \ {c}
    BY <2>1, <2>3, ToSetQueued
  <2> QED
    BY <2>3, <2>4 DEF S, q
<1> HIDE DEF t, p
<1>6. ToolResult(f, c) = FlushDeferred(g)
  BY <1>4 DEF ToolResult, m, p
<1>7. g = [history |-> r, pending |-> p, deferred |-> f.deferred]
  <2>1. IsFold(f)
    BY DEF FoldInv, IsFold
  <2>2. g = [f EXCEPT !.history = r, !.pending = p]
    OBVIOUS
  <2> HIDE DEF r, g
  <2> QED
    BY <2>1, <2>2 DEF IsFold
<1>8. \A i \in DOMAIN t : t[i] = m
  BY <1>4
<1>9. IsToolResult(m) /\ Answers(m, c) /\ Shaped(m, s, n, A2)
  <2>1. <<>> \in Seq(1..n)
    OBVIOUS
  <2> QED
    BY <1>2, <1>3, <2>1 DEF IsToolResult, Answers, Shaped
<1>10. /\ Based(h, c, X)
       /\ \A j \in DOMAIN h : ~ Answers(h[j], c)
  BY <1>1 DEF OpenInv, Based
<1>11. HistInv(r, s, n, A2, X)
  <2>1. /\ \A i \in DOMAIN t : Shaped(t[i], s, n, A2) /\ t[i].calls = <<>>
        /\ \A i, j \in DOMAIN t : t[i].partial /\ t[j].partial => i = j
        /\ \A i \in DOMAIN t, j \in DOMAIN h : ~ (t[i].partial /\ h[j].partial)
    BY <1>3, <1>8, <1>9
  <2>2. \A j \in DOMAIN t : IsToolResult(t[j]) => Based(h, t[j].id, X)
    BY <1>3, <1>8, <1>10
  <2>3. ASSUME NEW x \in A2 \ A PROVE \E j \in DOMAIN t : Answers(t[j], x)
    <3>1. x = c /\ 1 \in DOMAIN t /\ Answers(t[1], c)
      BY <1>4, <1>9
    <3> QED
      BY <3>1
  <2>4. ASSUME NEW i \in DOMAIN h, h[i].role = "interrupted" PROVE h[i].id \notin A2
    <3>1. h[i].id \notin A
      BY <1>1, <2>4 DEF HistInv, Shaped
    <3>2. h[i].id # c
      BY <1>10, <2>4 DEF Answers, IsToolResult
    <3> QED
      BY <3>1, <3>2
  <2>5. s <= s /\ A \subseteq A2
    OBVIOUS
  <2> HIDE DEF A2
  <2> QED
    BY <1>1, <1>4, <2>1, <2>2, <2>3, <2>4, <2>5, HistExtend
<1>12. OpenMessages(r) = OpenMessages(h)
  BY <1>2, <1>3, <1>4, <1>8, OpenMessagesExtend
<1>13. ASSUME NEW x \in ToSet(p)
       PROVE  /\ x \notin A2
              /\ x \in X \/ \E i \in DOMAIN r : r[i].partial /\ Declares(r[i], x)
              /\ \A j \in DOMAIN r : ~ Answers(r[j], x)
  <2>1. x \in ToSet(f.pending) /\ x # c
    BY <1>5
  <2>2. /\ x \notin A /\ \A j \in DOMAIN h : ~ Answers(h[j], x)
        /\ x \in X \/ \E i \in DOMAIN h : h[i].partial /\ Declares(h[i], x)
    BY <1>1, <2>1 DEF OpenInv
  <2> DEFINE l == Len(h)
  <2>3. IsJoined(r, h, t, l)
    BY <1>2, <1>4, ConcatIs
  <2> HIDE DEF r, l
  <2>4. x \in X \/ \E i \in DOMAIN r : r[i].partial /\ Declares(r[i], x)
    BY <2>2, <2>3 DEF IsJoined
  <2>5. \A j \in DOMAIN r : ~ Answers(r[j], x)
    <3>1. ~ Answers(m, x)
      BY <1>3, <2>1 DEF Answers
    <3> QED
      BY <1>8, <2>2, <2>3, <3>1 DEF IsJoined
  <2> QED
    BY <2>1, <2>2, <2>4, <2>5
<1>14. OpenInv(r, p, A2, X)
  BY <1>13 DEF OpenInv
<1>15. f.deferred \in Seq(Parked)
  BY DEF FoldInv
<1> HIDE DEF r, A2
<1>16. Unflushed(g, s, n, A2, X) /\ g.pending = p /\ g.history = r
  BY <1>5, <1>7, <1>11, <1>14, <1>15 DEF Unflushed, IsFold
<1> HIDE DEF g
<1>17. /\ FoldInv(FlushDeferred(g), s, n, A2, X) /\ FlushDeferred(g).pending = p
       /\ OpenMessages(FlushDeferred(g).history) = OpenMessages(r)
  BY <1>16, FlushInv
<1> QED
  BY <1>5, <1>6, <1>12, <1>17 DEF A2, h
-----------------------------------------------------------------------------
(* The rewrites of the history.                                             *)

(* What follows a place of a set of places, that place included.            *)
From(S, i) == {j \in S : j >= i}

(* In n places or more there is an n-th one from the end.                   *)
LEMMA NthFromEnd ==
    ASSUME NEW l \in Nat, NEW S \in SUBSET (1..l), NEW n \in Nat, n >= 1, Cardinality(S) >= n
    PROVE  \E i \in S : Cardinality(From(S, i)) = n
<1> DEFINE F(i) == From(S, i)
           G == {i \in S : Cardinality(F(i)) >= n}
           M == {l - i : i \in G}
<1>1. IsFiniteSet(S) /\ Cardinality(S) \in Nat
  <2>1. IsFiniteSet(1..l)
    BY FS_Interval
  <2> QED
    BY <2>1, FS_Subset, FS_CardinalityType
<1>2. ASSUME NEW i PROVE IsFiniteSet(F(i)) /\ Cardinality(F(i)) \in Nat
  <2>1. F(i) \subseteq S
    BY DEF From
  <2> QED
    BY <1>1, <2>1, FS_Subset, FS_CardinalityType
<1>3. ASSUME NEW T \in SUBSET S, T # {} PROVE \E i \in T : \A j \in T : i <= j
  <2>1. T \in SUBSET Nat
    OBVIOUS
  <2> QED
    BY <1>3, <2>1, LeastNatural
<1>4. G # {}
  <2>1. S # {}
    BY FS_EmptySet
  <2>2. PICK i \in S : \A j \in S : i <= j
    BY <1>3, <2>1
  <2>3. F(i) = S
    BY <2>2 DEF From
  <2> QED
    BY <2>3
<1>5. PICK i \in G : \A j \in G : j <= i
  <2>1. M \in SUBSET Nat /\ M # {}
    <3>1. \A i \in G : i \in 1..l
      OBVIOUS
    <3> HIDE DEF G
    <3>2. \A i \in G : l - i \in Nat
      BY <3>1
    <3> QED
      BY <1>4, <3>2
  <2>2. PICK m \in M : \A k \in M : m <= k
    BY <2>1, LeastNatural
  <2>3. PICK i \in G : m = l - i
    OBVIOUS
  <2>4. ASSUME NEW j \in G PROVE j <= i
    <3>1. l - i <= l - j /\ i \in Nat /\ j \in Nat
      BY <2>2, <2>3
    <3> QED
      BY <3>1
  <2> QED
    BY <2>4
<1>6. Cardinality(F(i)) = n
  <2> SUFFICES ASSUME Cardinality(F(i)) # n PROVE FALSE
    OBVIOUS
  <2> DEFINE T == F(i) \ {i}
             c == Cardinality(F(i))
  <2>1. i \in F(i) /\ i \in Nat
    BY DEF From
  <2>2. IsFiniteSet(T) /\ Cardinality(T) = c - 1 /\ c \in Nat
    BY <1>2, <2>1, FS_RemoveElement
  <2>3. c >= n + 1
    BY <2>2
  <2> HIDE DEF c
  <2>4. T # {}
    BY <2>2, <2>3, FS_EmptySet
  <2>5. PICK j \in T : \A k \in T : j <= k
    <3>1. T \in SUBSET S
      BY DEF From
    <3> QED
      BY <1>3, <2>4, <3>1
  <2>6. j \in S /\ j > i /\ F(j) = T
    <3>1. j \in S /\ j > i
      BY <2>1, <2>5 DEF From
    <3>2. ASSUME NEW k \in S PROVE k >= j <=> k >= i /\ k # i
      <4>1. k >= i /\ k # i => k \in T
        BY DEF From
      <4>2. k >= i /\ k # i => k >= j
        <5>1. k \in T => j <= k
          BY <2>5
        <5> QED
          BY <3>1, <4>1, <5>1
      <4> QED
        BY <2>1, <3>1, <4>2
    <3> QED
      BY <3>1, <3>2 DEF From
  <2>7. Cardinality(F(j)) >= n
    BY <2>2, <2>3, <2>6
  <2> QED
    BY <1>5, <2>1, <2>6, <2>7
<1> QED
  BY <1>6

LEMMA UndoCutIs ==
    ASSUME NEW h \in Seq(Messages), NEW n \in Nat, n >= 1, UndoCut(h, n) # 0
    PROVE  /\ UndoCut(h, n) \in UndoAnchors(h) /\ UndoCut(h, n) \in DOMAIN h
           /\ Cardinality(From(UndoAnchors(h), UndoCut(h, n))) = n
<1> DEFINE S == UndoAnchors(h)
           l == Len(h)
           c == UndoCut(h, n)
<1>1. l \in Nat /\ DOMAIN h = 1..l /\ S \in SUBSET (1..l)
  BY DEF UndoAnchors
<1>2. /\ ~ (Cardinality(S) < n)
      /\ c = CHOOSE i \in S : Cardinality({j \in S : j >= i}) = n
  BY DEF UndoCut
<1>3. \A i : From(S, i) = {j \in S : j >= i}
  BY DEF From
<1> HIDE DEF S, c
<1>4. Cardinality(S) >= n
  <2>1. Cardinality(S) \in Nat
    <3>1. IsFiniteSet(1..l)
      BY <1>1, FS_Interval
    <3> QED
      BY <1>1, <3>1, FS_Subset, FS_CardinalityType
  <2> QED
    BY <1>2, <2>1
<1>5. \E i \in S : Cardinality(From(S, i)) = n
  BY <1>1, <1>4, NthFromEnd
<1>6. c \in S /\ Cardinality(From(S, c)) = n
  BY <1>2, <1>3, <1>5
<1> QED
  BY <1>1, <1>6 DEF S, c

(* A beginning of the history.                                              *)
LEMMA HistPrefix ==
    ASSUME NEW h, NEW s \in Nat, NEW n \in Nat, NEW A, NEW X, HistInv(h, s, n, A, X), n <= MaxCalls,
           MaxCalls \in Nat, NEW i \in DOMAIN h, NEW A2, A2 \subseteq A,
           \A c \in A2 : \E m \in ToSet(SubSeq(h, 1, i - 1)) : IsToolResult(m) /\ m.id = c
    PROVE  HistInv(SubSeq(h, 1, i - 1), s, n, A2, X)
<1> DEFINE r == SubSeq(h, 1, i - 1)
           e == [j \in DOMAIN r |-> j]
<1>1. h \in Seq(Messages) /\ Len(h) \in Nat /\ DOMAIN h = 1..Len(h) /\ i \in Nat
  BY DEF HistInv
<1>2. r \in Seq(Messages) /\ Len(r) = i - 1 /\ \A k \in 1..(i - 1) : r[k] = h[k]
  <2>1. \A k \in 1..Len(h) : h[k] \in Messages
    BY <1>1
  <2>2. i - 1 \in Nat /\ i - 1 \in 0..Len(h) /\ 1 \in 1..(Len(h) + 1) /\ (i - 1) - 1 + 1 = i - 1
    BY <1>1
  <2>3. r \in Seq(Messages) /\ Len(r) = i - 1 /\ \A k \in 1..(i - 1) : r[k] = h[1 + k - 1]
    BY <1>1, <2>1, <2>2, Part
  <2>4. \A k \in 1..(i - 1) : 1 + k - 1 = k
    BY <1>1
  <2> QED
    BY <2>3, <2>4
<1> HIDE DEF r
<1>3. DOMAIN r = 1..(i - 1) /\ \A k \in DOMAIN r : k \in DOMAIN h /\ r[k] = h[k]
  BY <1>1, <1>2
<1>4. Selected(e, r, h)
  BY <1>3 DEF Selected
<1>5. ASSUME NEW j \in DOMAIN r, IsToolResult(r[j]) PROVE Based(r, r[j].id, X)
  <2> DEFINE c == h[j].id
  <2>0. Based(h, c, X) /\ r[j].id = c
    BY <1>3, <1>5 DEF HistInv
  <2> SUFFICES ASSUME c \notin X PROVE \E k \in DOMAIN r : Declares(r[k], r[j].id)
    BY <2>0 DEF Based
  <2>1. PICK k \in DOMAIN h : Declares(h[k], c)
    BY <2>0 DEF Based
  <2>2. c \in 1..MaxCalls
    <3>1. h[k].calls \in Seq(1..n)
      <4>1. Shaped(h[k], s, n, A)
        BY DEF HistInv
      <4> QED
        BY <4>1 DEF Shaped
    <3>2. c \in 1..n
      BY <2>1, <3>1 DEF Declares, ToSet
    <3> QED
      BY <3>2
  <2>3. Answers(h[j], c)
    BY <1>3, <1>5 DEF Answers
  <2>4. k < j
    BY <1>3, <2>1, <2>2, <2>3 DEF HistInv
  <2>5. k \in DOMAIN r
    BY <1>1, <1>3, <2>4
  <2> QED
    BY <1>3, <2>1, <2>5
<1>6. ASSUME NEW j \in DOMAIN r, NEW c \in A2, Declares(r[j], c)
      PROVE  \E k \in DOMAIN r : Answers(r[k], c)
  <2>1. PICK m \in ToSet(r) : IsToolResult(m) /\ m.id = c
    BY DEF r
  <2>2. PICK k \in DOMAIN r : r[k] = m
    BY ToSetIs
  <2> QED
    BY <2>1, <2>2 DEF Answers
<1>7. HistInv(r, s, n, A2, X)
  <2> HIDE DEF e
  <2> QED
    BY <1>2, <1>4, <1>5, <1>6, HistSelect
<1> QED
  BY <1>7 DEF r

LEMMA UndoInv ==
    ASSUME NEW f, NEW s \in Nat, NEW n \in Nat, NEW A, NEW X, FoldInv(f, s, n, A, X), n <= MaxCalls,
           MaxCalls \in Nat, NEW k \in Nat, k >= 1, UndoCut(f.history, k) # 0
    PROVE  FoldInv(Undo(f, k), s, n, A \cap Ids(Undo(f, k).history, IsToolResult), X)
<1> DEFINE h == f.history
           i == UndoCut(h, k)
           r == SubSeq(h, 1, i - 1)
           A2 == A \cap Ids(r, IsToolResult)
<1>1. HistInv(h, s, n, A, X) /\ h \in Seq(Messages)
  BY DEF FoldInv, HistInv
<1>2. i \in DOMAIN h
  BY <1>1, UndoCutIs
<1>3. Undo(f, k) = Fold(r)
  BY DEF Undo
<1>4. A2 \subseteq A /\ \A c \in A2 : \E m \in ToSet(r) : IsToolResult(m) /\ m.id = c
  BY DEF Ids
<1> HIDE DEF A2, i, h
<1>5. HistInv(r, s, n, A2, X)
  BY <1>1, <1>2, <1>4, HistPrefix
<1> HIDE DEF r
<1>6. FoldInv(Fold(r), s, n, A2, X) /\ Fold(r).history = r
  BY <1>5, FreshInv
<1> QED
  BY <1>3, <1>6 DEF A2

(* What the user said is kept, and says nothing about calls.                *)
LEMMA CompactionKeeps ==
    ASSUME NEW f, NEW s \in Nat, NEW n \in Nat, NEW A, NEW X, FoldInv(f, s, n, A, X), NEW k \in Nat,
           NEW A2
    PROVE  /\ FoldInv(ApplyCompaction(f, k), s, n, A2, X)
           /\ OpenMessages(ApplyCompaction(f, k).history) = {}
<1> DEFINE h == f.history
           words == {m \in ToSet(h) : IsRealUserInput(m)}
           r == Kept(h, words)
           m == Message("summary", k)
           t == <<m>>
<1>1. HistInv(h, s, n, A, X) /\ h \in Seq(Messages) /\ DOMAIN h = 1..Len(h)
  BY DEF FoldInv, HistInv
<1>2. r \in Seq(Messages) /\ \E e : IsPlaces(e, r, h, words, Len(h))
  BY <1>1, KeptPlaces
<1>3. PICK e : IsPlaces(e, r, h, words, Len(h))
  BY <1>2
<1>4. \A i \in DOMAIN r : IsRealUserInput(r[i])
  <2>1. \A i \in DOMAIN r : r[i] \in words
    BY <1>3 DEF IsPlaces
  <2> QED
    BY <2>1
<1> HIDE DEF r, h
<1>5. Selected(e, r, h)
  BY <1>1, <1>3 DEF IsPlaces, Selected
<1>6. \A i \in DOMAIN r : ~ IsToolResult(r[i]) /\ r[i].calls = <<>> /\ ~ r[i].partial
  <2> SUFFICES ASSUME NEW i \in DOMAIN r
               PROVE  ~ IsToolResult(r[i]) /\ r[i].calls = <<>> /\ ~ r[i].partial
    OBVIOUS
  <2>1. e[i] \in DOMAIN h /\ r[i] = h[e[i]]
    BY <1>5 DEF Selected
  <2>2. Shaped(r[i], s, n, A)
    BY <1>1, <2>1 DEF HistInv
  <2> QED
    BY <1>4, <2>2 DEF Shaped, IsRealUserInput, IsToolResult
<1>7. HistInv(r, s, n, A2, X)
  <2>1. \A i \in DOMAIN r : \A c \in {} : Declares(r[i], c) => \E j \in DOMAIN r : Answers(r[j], c)
    OBVIOUS
  <2>2. {} \subseteq A
    OBVIOUS
  <2>3. HistInv(r, s, n, {}, X)
    BY <1>1, <1>2, <1>5, <1>6, <2>1, <2>2, HistSelect
  <2>4. \A i \in DOMAIN r : \A c \in A2 : ~ Declares(r[i], c)
    BY <1>6, NothingDeclared
  <2>5. \A i \in DOMAIN r : Shaped(r[i], s, n, A2)
    BY <1>6, <2>3 DEF HistInv, Shaped, IsToolResult
  <2> QED
    BY <2>3, <2>4, <2>5 DEF HistInv
<1>8. /\ m \in Messages /\ m.role = "summary" /\ m.calls = <<>> /\ ~ m.partial
  <2>1. "summary" \in Roles
    BY DEF Roles
  <2> QED
    BY <2>1, MessageType
<1> HIDE DEF m
<1>9. Append(r, m) = r \o t /\ t \in Seq(Messages) /\ \A i \in DOMAIN t : t[i] = m
  BY <1>2, <1>8, AppendIs
<1>10. Shaped(m, s, n, A2) /\ ~ IsToolResult(m)
  <2>1. <<>> \in Seq(1..n)
    OBVIOUS
  <2> QED
    BY <1>8, <2>1 DEF Shaped, IsToolResult
<1> HIDE DEF t
<1>11. HistInv(r \o t, s, n, A2, X) /\ OpenMessages(r \o t) = OpenMessages(r)
  BY <1>7, <1>8, <1>9, <1>10, HistExtendClosed
<1>12. OpenMessages(r) = {}
  BY <1>6, NothingOpen
<1>13. ApplyCompaction(f, k) = Fold(r \o t)
  BY <1>9 DEF ApplyCompaction, r, h, m
<1> QED
  BY <1>11, <1>12, <1>13, FreshInv

LEMMA EmptyInv == ASSUME NEW s, NEW n, NEW A, NEW X PROVE FoldInv(EmptyFold, s, n, A, X)
<1>1. HistInv(<<>>, s, n, A, X)
  BY DEF HistInv
<1> QED
  BY <1>1, FreshInv DEF EmptyFold
-----------------------------------------------------------------------------
(* Every step keeps IInv.                                                   *)

LEMMA MaxCallsIsNat == MaxCalls \in Nat /\ MaxPrompts \in Nat
BY ContextAssumption

LEMMA CountIs ==
    ASSUME made \in [Kinds -> Nat], NEW kind \in Kinds, Count(kind)
    PROVE  /\ made' \in [Kinds -> Nat] /\ made'[kind] = made[kind] + 1
           /\ \A k \in Kinds \ {kind} : made'[k] = made[k]
BY DEF Count

LEMMA IInvParts ==
    ASSUME IInv
    PROVE  /\ made \in [Kinds -> Nat] /\ made.step \in Nat /\ made.call \in Nat /\ made.prompt \in Nat
           /\ made.note \in Nat /\ made.call <= MaxCalls /\ MaxCalls \in Nat
           /\ FoldInv(fold, made.step, made.call, Settled, stray) /\ Settled \subseteq 1..made.call
           /\ LoopInv /\ StepInv /\ CompactionInv
BY MaxCallsIsNat DEF IInv, LoopInv, Kinds, Settled

(* The answers are as they were.                                            *)
LEMMA SettledStays ==
    ASSUME answered' = answered, unanswered' = unanswered, fold'.pending = fold.pending
    PROVE  Settled' = Settled
BY DEF Settled

(* No call is left to be answered.                                          *)
LEMMA SettledQuiet ==
    ASSUME answered' = answered, unanswered' = {},
           FoldInv(fold', made'.step, made'.call, Settled, stray')
    PROVE  FoldInv(fold, made.step, made.call, Settled, stray)'
<1>1. Settled' \subseteq Settled
  BY DEF Settled
<1> DEFINE s == made'.step
           n == made'.call
           A == Settled
           A2 == Settled'
           X == stray'
           g == fold'
<1>2. FoldInv(g, s, n, A, X) /\ A2 \subseteq A
  BY <1>1
<1> HIDE DEF s, n, A, A2, X, g
<1>3. FoldInv(g, s, n, A2, X)
  BY <1>2, FoldLess
<1> QED
  BY <1>3 DEF s, n, A2, X, g

(* Outside the run of a step's tools no call is left to be answered.        *)
LEMMA NothingAwaited == ASSUME IInv, phase # "calling" PROVE unanswered = {} /\ todo = 0 /\ Settled = answered
BY DEF IInv, LoopInv, Settled

(* A compaction under way is not disturbed.                                 *)
LEMMA CompactionStays ==
    ASSUME CompactionInv, compaction' = compaction, made'.step = made.step, Stepping' => Stepping,
           phase \in {"idle", "requesting", "calling"} \/ phase' = phase \/ ~ Blocked
    PROVE  CompactionInv'
BY DEF CompactionInv, Stepping, Blocked

LEMMA InitIInv == Init => IInv
<1> SUFFICES ASSUME Init PROVE IInv
  OBVIOUS
<1>1. /\ made = [prompt |-> 0, note |-> 0, step |-> 0, call |-> 0, compaction |-> 0]
      /\ fold = EmptyFold /\ checkpoints = <<>> /\ compaction = None
      /\ phase = "idle" /\ prompted = FALSE /\ todo = 0 /\ unanswered = {}
      /\ prompts = {} /\ answered = {} /\ cleared = FALSE /\ stray = {}
  BY DEF Init
<1>2. made \in [Kinds -> Nat] /\ made.call = 0 /\ made.prompt = 0 /\ made.step = 0
  BY <1>1 DEF Kinds
<1>3. FoldInv(fold, made.step, made.call, Settled, stray)
  BY <1>1, EmptyInv
<1>4. LoopInv
  <2>1. todo \in 0..(MaxCalls - made.call) /\ made.call <= MaxCalls /\ made.prompt <= MaxPrompts
    BY <1>1, <1>2, MaxCallsIsNat
  <2>2. unanswered \subseteq 1..made.call /\ answered \subseteq 1..made.call
        /\ prompts \subseteq 1..made.prompt /\ stray \subseteq 1..made.call
    BY <1>1
  <2>3. checkpoints \in Seq(1..made.prompt)
    BY <1>1
  <2> QED
    BY <1>1, <1>2, <2>1, <2>2, <2>3 DEF LoopInv
<1>5. StepInv /\ CompactionInv
  BY <1>1 DEF StepInv, CompactionInv, Stepping
<1> QED
  BY <1>3, <1>4, <1>5 DEF IInv

(* One more prompt.                                                         *)
LEMMA NextPrompt ==
    ASSUME IInv, Count("prompt"), made.prompt < MaxPrompts
    PROVE  /\ made.prompt \in Nat /\ made'.prompt = made.prompt + 1 /\ made'.prompt <= MaxPrompts
           /\ 1..made.prompt \subseteq 1..made'.prompt /\ made'.prompt \in 1..made'.prompt
           /\ checkpoints \in Seq(1..made'.prompt)
           /\ Append(checkpoints, made'.prompt) \in Seq(1..made'.prompt)
<1> DEFINE a == made.prompt
           b == made'.prompt
<1>1. made \in [Kinds -> Nat] /\ a \in Nat /\ "prompt" \in Kinds
  BY IInvParts DEF Kinds
<1>2. b = a + 1
  BY <1>1, CountIs
<1>3. checkpoints \in Seq(1..a)
  BY IInvParts DEF LoopInv
<1>4. a < MaxPrompts /\ MaxPrompts \in Nat
  BY MaxCallsIsNat
<1> HIDE DEF a, b
<1>5. b <= MaxPrompts /\ 1..a \subseteq 1..b /\ b \in 1..b
  BY <1>1, <1>2, <1>4
<1>6. checkpoints \in Seq(1..b) /\ Append(checkpoints, b) \in Seq(1..b)
  BY <1>3, <1>5, AppendWider
<1> QED
  BY <1>1, <1>2, <1>5, <1>6 DEF a, b

(* Somebody speaks: a prompt, steering or a reminder enters the context.    *)
LEMMA SpeakKeeps ==
    ASSUME IInv, NEW kind \in {"prompt", "note"}, Count(kind),
           NEW role \in {"user", "steer", "note"},
           fold' = AppendMessage(fold, Message(role, made'[kind])),
           UNCHANGED <<compaction, unanswered, answered, cleared, stray>>, Stepping' => Stepping,
           phase' # "requesting" \/ phase' = phase, phase = "idle" \/ phase' = phase
    PROVE  /\ FoldInv(fold, made.step, made.call, Settled, stray)'
           /\ StepInv' /\ CompactionInv' /\ fold'.pending = fold.pending
           /\ made' \in [Kinds -> Nat] /\ made'.call = made.call /\ made'.step = made.step
<1>1. /\ made \in [Kinds -> Nat] /\ made.step \in Nat /\ made.call \in Nat
      /\ FoldInv(fold, made.step, made.call, Settled, stray) /\ StepInv /\ CompactionInv
  BY IInvParts
<1>2. kind \in Kinds /\ "call" \in Kinds \ {kind} /\ "step" \in Kinds \ {kind}
  BY DEF Kinds
<1>3. /\ made' \in [Kinds -> Nat] /\ made'[kind] \in Nat
      /\ made'.call = made.call /\ made'.step = made.step
  BY <1>1, <1>2, CountIs
<1> DEFINE m == Message(role, made'[kind])
<1>4. m \in Parked
  <2>1. role \in Roles
    BY DEF Roles
  <2>2. m \in Messages /\ m.role = role /\ m.calls = <<>> /\ ~ m.partial
    BY <1>3, <2>1, MessageType
  <2> QED
    BY <2>2 DEF Parked
<1> HIDE DEF m
<1>5. /\ FoldInv(fold', made.step, made.call, Settled, stray) /\ fold'.pending = fold.pending
      /\ OpenMessages(fold'.history) = OpenMessages(fold.history)
  BY <1>1, <1>4, AppendMessageInv DEF m
<1>6. FoldInv(fold, made.step, made.call, Settled, stray)'
  BY <1>3, <1>5, SettledStays
<1>7. StepInv'
  BY <1>1, <1>3, <1>5 DEF StepInv, Stepping
<1> QED
  BY <1>1, <1>3, <1>5, <1>6, <1>7, CompactionStays

LEMMA StartTurnPreserves == IInv /\ StartTurn => IInv'
<1> SUFFICES ASSUME IInv, StartTurn PROVE IInv'
  OBVIOUS
<1>1. /\ phase = "idle" /\ made.prompt < MaxPrompts /\ Count("prompt")
      /\ fold' = AppendMessage(fold, Message("user", made'["prompt"]))
      /\ checkpoints' = Append(checkpoints, made'.prompt)
      /\ prompts' = prompts \cup {made'.prompt} /\ phase' = "between" /\ prompted' = TRUE
      /\ UNCHANGED <<todo, unanswered, compaction, answered, cleared, stray>>
  BY DEF StartTurn, Checkpoint, Quiescent
<1>2. ~ Stepping' /\ phase' # "requesting"
  BY <1>1 DEF Stepping
<1>3. /\ FoldInv(fold, made.step, made.call, Settled, stray)'
      /\ StepInv' /\ CompactionInv' /\ fold'.pending = fold.pending
      /\ made' \in [Kinds -> Nat] /\ made'.call = made.call /\ made'.step = made.step
  BY <1>1, <1>2, SpeakKeeps
<1>4. LoopInv'
  <2>1. /\ made'.prompt <= MaxPrompts /\ 1..made.prompt \subseteq 1..made'.prompt
        /\ made'.prompt \in 1..made'.prompt /\ checkpoints' \in Seq(1..made'.prompt)
    BY <1>1, NextPrompt
  <2>2. prompts' \subseteq 1..made'.prompt
    BY <1>1, <2>1, IInvParts DEF LoopInv
  <2> QED
    BY <1>1, <1>3, <2>1, <2>2, IInvParts DEF LoopInv
<1> QED
  BY <1>3, <1>4 DEF IInv

LEMMA BlockPromptPreserves == IInv /\ BlockPrompt => IInv'
<1> SUFFICES ASSUME IInv, BlockPrompt PROVE IInv'
  OBVIOUS
<1>1. /\ made.prompt < MaxPrompts /\ Count("prompt")
      /\ fold' = AppendMessage(fold, Message("user", made'["prompt"]))
      /\ checkpoints' = Append(checkpoints, made'.prompt)
      /\ prompts' = prompts \cup {made'.prompt}
      /\ UNCHANGED <<phase, prompted, todo, unanswered, compaction, answered, cleared, stray>>
  BY DEF BlockPrompt, Checkpoint, stepVars
<1>2. Stepping' => Stepping
  BY <1>1 DEF Stepping
<1>3. /\ FoldInv(fold, made.step, made.call, Settled, stray)'
      /\ StepInv' /\ CompactionInv' /\ fold'.pending = fold.pending
      /\ made' \in [Kinds -> Nat] /\ made'.call = made.call /\ made'.step = made.step
  BY <1>1, <1>2, SpeakKeeps
<1>4. LoopInv'
  <2>1. /\ made'.prompt <= MaxPrompts /\ 1..made.prompt \subseteq 1..made'.prompt
        /\ made'.prompt \in 1..made'.prompt /\ checkpoints' \in Seq(1..made'.prompt)
    BY <1>1, NextPrompt
  <2>2. prompts' \subseteq 1..made'.prompt
    BY <1>1, <2>1, IInvParts DEF LoopInv
  <2> QED
    BY <1>1, <1>3, <2>1, <2>2, IInvParts DEF LoopInv
<1> QED
  BY <1>3, <1>4 DEF IInv

LEMMA SteerPreserves == IInv /\ Steer => IInv'
<1> SUFFICES ASSUME IInv, Steer PROVE IInv'
  OBVIOUS
<1>1. /\ made.prompt < MaxPrompts /\ Count("prompt")
      /\ fold' = AppendMessage(fold, Message("steer", made'["prompt"]))
      /\ prompts' = prompts \cup {made'.prompt}
      /\ UNCHANGED <<checkpoints, phase, prompted, todo, unanswered, compaction, answered,
                     cleared, stray>>
  BY DEF Steer, stepVars
<1>2. Stepping' => Stepping
  BY <1>1 DEF Stepping
<1>3. /\ FoldInv(fold, made.step, made.call, Settled, stray)'
      /\ StepInv' /\ CompactionInv' /\ fold'.pending = fold.pending
      /\ made' \in [Kinds -> Nat] /\ made'.call = made.call /\ made'.step = made.step
  BY <1>1, <1>2, SpeakKeeps
<1>4. LoopInv'
  <2>1. /\ made'.prompt <= MaxPrompts /\ 1..made.prompt \subseteq 1..made'.prompt
        /\ made'.prompt \in 1..made'.prompt /\ checkpoints' \in Seq(1..made'.prompt)
    BY <1>1, NextPrompt
  <2>2. prompts' \subseteq 1..made'.prompt
    BY <1>1, <2>1, IInvParts DEF LoopInv
  <2> QED
    BY <1>1, <1>3, <2>1, <2>2, IInvParts DEF LoopInv
<1> QED
  BY <1>3, <1>4 DEF IInv

LEMMA RemindPreserves == IInv /\ Remind => IInv'
<1> SUFFICES ASSUME IInv, Remind PROVE IInv'
  OBVIOUS
<1>1. /\ Count("note") /\ fold' = AppendMessage(fold, Message("note", made'["note"]))
      /\ UNCHANGED <<checkpoints, phase, prompted, todo, unanswered, compaction, prompts, answered,
                     cleared, stray>>
  BY DEF Remind, stepVars, ghostVars
<1>2. Stepping' => Stepping
  BY <1>1 DEF Stepping
<1>3. /\ FoldInv(fold, made.step, made.call, Settled, stray)'
      /\ StepInv' /\ CompactionInv' /\ fold'.pending = fold.pending
      /\ made' \in [Kinds -> Nat] /\ made'.call = made.call /\ made'.step = made.step
  BY <1>1, <1>2, SpeakKeeps
<1>4. LoopInv'
  <2>1. made'.prompt = made.prompt
    BY <1>1, IInvParts, CountIs DEF Kinds
  <2> QED
    BY <1>1, <1>3, <2>1, IInvParts DEF LoopInv
<1> QED
  BY <1>3, <1>4 DEF IInv
(* The loop.                                                                *)

LEMMA ResumePreserves == IInv /\ Resume => IInv'
<1> SUFFICES ASSUME IInv, Resume PROVE IInv'
  OBVIOUS
<1>1. /\ phase = "idle" /\ phase' = "between" /\ prompted' = FALSE
      /\ UNCHANGED <<fold, checkpoints, todo, unanswered, compaction, made, prompts, answered,
                     cleared, stray>>
  BY DEF Resume, Quiescent, ghostVars
<1>2. FoldInv(fold, made.step, made.call, Settled, stray)' /\ LoopInv'
  BY <1>1, SettledStays DEF IInv, LoopInv
<1>3. ~ Stepping' /\ StepInv'
  BY <1>1 DEF StepInv, Stepping
<1>4. CompactionInv'
  BY <1>1, <1>3, CompactionStays DEF IInv
<1> QED
  BY <1>2, <1>3, <1>4 DEF IInv

LEMMA BeginStepPreserves == IInv /\ BeginStep => IInv'
<1> SUFFICES ASSUME IInv, BeginStep PROVE IInv'
  OBVIOUS
<1> DEFINE s == made.step
           n == made.call
<1>1. /\ phase = "between" /\ ~ Blocked /\ Count("step") /\ fold' = StepBegin(fold, made'.step)
      /\ phase' = "requesting" /\ cleared' = FALSE
      /\ UNCHANGED <<checkpoints, prompted, todo, unanswered, compaction, prompts, answered, stray>>
  BY DEF BeginStep, ghostVars
<1>2. /\ made' \in [Kinds -> Nat] /\ made'.step = s + 1 /\ made'.call = n
      /\ made'.prompt = made.prompt
  BY <1>1, IInvParts, CountIs DEF Kinds
<1>3. s \in Nat /\ n \in Nat /\ n <= MaxCalls /\ MaxCalls \in Nat /\ Settled \subseteq 1..n
      /\ FoldInv(fold, s, n, Settled, stray) /\ CompactionInv
  BY IInvParts
<1>4. /\ FoldInv(fold', s + 1, n, Settled, stray) /\ fold'.pending = <<>>
      /\ \A m \in OpenMessages(fold'.history) : m.id = s + 1 /\ m.calls = <<>>
      /\ OpenMessages(fold'.history) # {}
  <2> HIDE DEF s, n
  <2>1. fold' = StepBegin(fold, s + 1)
    BY <1>1, <1>2
  <2>2. /\ FoldInv(StepBegin(fold, s + 1), s + 1, n, Settled, stray) /\ StepBegin(fold, s + 1).pending = <<>>
        /\ \A m \in OpenMessages(StepBegin(fold, s + 1).history) : m.id = s + 1 /\ m.calls = <<>>
        /\ OpenMessages(StepBegin(fold, s + 1).history) # {}
    BY <1>3, StepBeginInv
  <2> QED
    BY <2>1, <2>2
<1>5. FoldInv(fold, made.step, made.call, Settled, stray)'
  BY <1>1, <1>2, <1>4, NothingAwaited, SettledQuiet
<1>6. LoopInv'
  <2>1. unanswered = {} /\ todo = 0
    BY <1>1, NothingAwaited
  <2> QED
    BY <1>1, <1>2, <2>1, IInvParts DEF LoopInv
<1>7. StepInv'
  BY <1>2, <1>4 DEF StepInv
<1>8. CompactionInv'
  <2> SUFFICES ASSUME compaction # None
               PROVE  /\ compaction \in [manual : BOOLEAN, blocking : BOOLEAN, original : Seq(Messages)]
                      /\ \A i \in DOMAIN compaction.original :
                            LET m == compaction.original[i] IN
                            m.role = "assistant" => m.id <= s + 1 /\ m.id # s + 1
    BY <1>1, <1>2 DEF CompactionInv, Blocked
  <2>1. /\ compaction \in [manual : BOOLEAN, blocking : BOOLEAN, original : Seq(Messages)]
        /\ \A i \in DOMAIN compaction.original :
              LET m == compaction.original[i] IN m.role = "assistant" => m.id <= s
    BY <1>3 DEF CompactionInv
  <2>2. compaction.original \in Seq(Messages)
    BY <2>1
  <2> DEFINE o == compaction.original
  <2> HIDE DEF s
  <2>3. ASSUME NEW i \in DOMAIN o, o[i].role = "assistant" PROVE o[i].id <= s + 1 /\ o[i].id # s + 1
    <3>1. o[i].id \in Nat /\ o[i].id <= s
      BY <2>1, <2>2, <2>3, MessageIs
    <3> QED
      BY <1>3, <3>1
  <2> QED
    BY <2>1, <2>3
<1> QED
  BY <1>5, <1>6, <1>7, <1>8 DEF IInv

LEMMA RequestFailsPreserves == IInv /\ RequestFails => IInv'
<1> SUFFICES ASSUME IInv, RequestFails PROVE IInv'
  OBVIOUS
<1>1. /\ phase = "requesting" /\ phase' \in {"between", "idle"}
      /\ fold' = fold \/ fold' = ContentPart(fold)
      /\ UNCHANGED <<checkpoints, prompted, todo, unanswered, compaction, made, prompts, answered,
                     cleared, stray>>
  BY DEF RequestFails, ghostVars
<1>2. FoldInv(fold', made.step, made.call, Settled, stray) /\ fold'.pending = fold.pending
  BY <1>1, IInvParts, ContentPartInv
<1>3. FoldInv(fold, made.step, made.call, Settled, stray)' /\ LoopInv'
  BY <1>1, <1>2, SettledStays, IInvParts DEF LoopInv
<1>4. ~ Stepping' /\ StepInv'
  BY <1>1 DEF StepInv, Stepping
<1>5. CompactionInv'
  BY <1>1, <1>4, CompactionStays DEF IInv
<1> QED
  BY <1>3, <1>4, <1>5 DEF IInv

LEMMA RespondPreserves == IInv /\ Respond => IInv'
<1> SUFFICES ASSUME IInv, Respond PROVE IInv'
  OBVIOUS
<1>1. /\ phase = "requesting" /\ phase' = "calling" /\ todo' \in 0..(MaxCalls - made.call)
      /\ fold' = fold \/ fold' = ContentPart(fold)
      /\ UNCHANGED <<checkpoints, prompted, unanswered, compaction, made, prompts, answered,
                     cleared, stray>>
  BY DEF Respond, ghostVars
<1>2. /\ FoldInv(fold', made.step, made.call, Settled, stray) /\ fold'.pending = fold.pending
      /\ StillOpen(fold.history, fold'.history)
  <2>1. StillOpen(fold.history, fold.history)
    BY DEF StillOpen
  <2> QED
    BY <1>1, <2>1, IInvParts, ContentPartInv
<1>3. FoldInv(fold, made.step, made.call, Settled, stray)' /\ LoopInv'
  BY <1>1, <1>2, SettledStays, IInvParts DEF LoopInv
<1>4. StepInv' /\ Stepping
  <2>1. cleared \/ \E m \in OpenMessages(fold.history) : m.id = made.step
    BY <1>1, IInvParts DEF StepInv, Stepping
  <2> QED
    BY <1>1, <1>2, <2>1 DEF StepInv, Stepping, StillOpen
<1>5. CompactionInv'
  BY <1>1, <1>4, CompactionStays DEF IInv
<1> QED
  BY <1>3, <1>4, <1>5 DEF IInv

LEMMA AnnouncePreserves == IInv /\ Announce => IInv'
<1> SUFFICES ASSUME IInv, Announce PROVE IInv'
  OBVIOUS
<1> DEFINE s == made.step
           n == made.call
<1>1. /\ phase = "calling" /\ todo > 0 /\ Count("call") /\ todo' = todo - 1
      /\ fold' = ToolCall(fold, made'.call) /\ unanswered' = unanswered \cup {made'.call}
      /\ stray' = IF cleared THEN stray \cup {made'.call} ELSE stray
      /\ UNCHANGED <<checkpoints, prompted, phase, compaction, prompts, answered, cleared>>
  BY DEF Announce, ghostVars
<1>2. /\ made' \in [Kinds -> Nat] /\ made'.call = n + 1 /\ made'.step = s
      /\ made'.prompt = made.prompt
  BY <1>1, IInvParts, CountIs DEF Kinds
<1>3. s \in Nat /\ n \in Nat /\ n <= MaxCalls /\ MaxCalls \in Nat /\ Settled \subseteq 1..n
      /\ FoldInv(fold, s, n, Settled, stray) /\ todo \in 0..(MaxCalls - n)
      /\ stray \subseteq 1..n /\ unanswered \subseteq 1..n /\ answered \subseteq 1..n
  BY IInvParts DEF LoopInv
<1>4. cleared \/ \E m \in OpenMessages(fold.history) : m.id = s
  BY <1>1, IInvParts DEF StepInv, Stepping
<1> HIDE DEF s, n
<1>5. n + 1 <= MaxCalls /\ todo' \in 0..(MaxCalls - (n + 1)) /\ 1..n \subseteq 1..(n + 1)
  BY <1>1, <1>3
<1>6. /\ FoldInv(fold', s, n + 1, Settled, stray')
      /\ ToSet(fold'.pending) = ToSet(fold.pending) \cup {n + 1}
      /\ StillOpen(fold.history, fold'.history)
  <2> DEFINE g == ToolCall(fold, n + 1)
  <2>1. fold' = g
    BY <1>1, <1>2
  <2>2. stray \subseteq stray' /\ (OpenMessages(fold.history) # {} \/ n + 1 \in stray')
    BY <1>1, <1>2, <1>4
  <2>3. /\ FoldInv(g, s, n + 1, Settled, stray')
        /\ ToSet(g.pending) = ToSet(fold.pending) \cup {n + 1}
        /\ StillOpen(fold.history, g.history)
    <3>1. FoldInv(g, s, n + 1, Settled, stray')
      BY <1>3, <1>5, <2>2, ToolCallInv
    <3>2. ToSet(g.pending) = ToSet(fold.pending) \cup {n + 1}
      BY <1>3, <1>5, <2>2, ToolCallInv
    <3>3. StillOpen(fold.history, g.history)
      BY <1>3, <1>5, <2>2, ToolCallInv
    <3> QED
      BY <3>1, <3>2, <3>3
  <2> HIDE DEF g
  <2> QED
    BY <2>1, <2>3
<1>7. FoldInv(fold, made.step, made.call, Settled, stray)'
  <2>1. Settled' = Settled
    <3>1. n + 1 \in ToSet(fold'.pending) /\ n + 1 \notin unanswered
      BY <1>3, <1>6
    <3> QED
      BY <1>1, <1>2, <1>6, <3>1 DEF Settled
  <2> QED
    BY <1>1, <1>2, <1>6, <2>1
<1>8. LoopInv'
  <2>1. n + 1 \in 1..(n + 1)
    BY <1>3
  <2>2. /\ answered' \subseteq 1..made'.call /\ unanswered' \subseteq 1..made'.call
        /\ stray' \subseteq 1..made'.call
    BY <1>1, <1>2, <1>3, <1>5, <2>1
  <2> QED
    BY <1>1, <1>2, <1>5, <2>1, <2>2, IInvParts DEF LoopInv
<1>9. StepInv'
  BY <1>1, <1>2, <1>4, <1>6 DEF StepInv, StillOpen
<1>10. CompactionInv'
  BY <1>1, <1>2, CompactionStays DEF IInv, Stepping, s
<1> QED
  BY <1>7, <1>8, <1>9, <1>10 DEF IInv

LEMMA ResultPreserves == ASSUME NEW call \in unanswered PROVE IInv /\ Result(call) => IInv'
<1> SUFFICES ASSUME IInv, Result(call) PROVE IInv'
  OBVIOUS
<1>1. /\ phase = "calling" /\ unanswered' = unanswered \ {call}
      /\ fold' = ToolResult(fold, call) /\ answered' = answered \cup {call}
      /\ UNCHANGED <<checkpoints, prompted, phase, todo, compaction, made, prompts, cleared, stray>>
  BY DEF Result
<1>2. call \in 1..made.call
  BY IInvParts DEF LoopInv
<1>3. /\ FoldInv(fold', made.step, made.call, Settled', stray)
      /\ OpenMessages(fold'.history) = OpenMessages(fold.history)
  <2>1. CASE call \in ToSet(fold.pending)
    <3>1. /\ FoldInv(fold', made.step, made.call, Settled \cup {call}, stray)
          /\ ToSet(fold'.pending) = ToSet(fold.pending) \ {call}
          /\ OpenMessages(fold'.history) = OpenMessages(fold.history)
      BY <1>1, <2>1, IInvParts, ToolResultInv
    <3>2. Settled' = Settled \cup {call}
      BY <1>1, <3>1 DEF Settled
    <3> QED
      BY <1>1, <3>1, <3>2
  <2>2. CASE call \notin ToSet(fold.pending)
    <3>1. fold' = fold
      BY <1>1, <2>2 DEF ToolResult
    <3>2. Settled' = Settled
      BY <1>1, <2>2, <3>1 DEF Settled
    <3> QED
      BY <1>1, <3>1, <3>2, IInvParts
  <2> QED
    BY <2>1, <2>2
<1>5. FoldInv(fold, made.step, made.call, Settled, stray)'
  BY <1>1, <1>3
<1>6. LoopInv'
  <2>1. unanswered' \subseteq 1..made'.call /\ answered' \subseteq 1..made'.call
    BY <1>1, <1>2, IInvParts DEF LoopInv
  <2> QED
    BY <1>1, <2>1, IInvParts DEF LoopInv
<1>7. StepInv'
  BY <1>1, <1>3, IInvParts DEF StepInv, Stepping
<1>8. CompactionInv'
  BY <1>1, CompactionStays DEF IInv, Stepping
<1> QED
  BY <1>5, <1>6, <1>7, <1>8 DEF IInv

LEMMA EndStepPreserves == IInv /\ EndStep => IInv'
<1> SUFFICES ASSUME IInv, EndStep PROVE IInv'
  OBVIOUS
<1>1. /\ phase = "calling" /\ phase' = "between" /\ fold' = StepEnd(fold) /\ todo = 0 /\ unanswered = {}
      /\ UNCHANGED <<checkpoints, prompted, todo, unanswered, compaction, made, prompts, answered,
                     cleared, stray>>
  BY DEF EndStep, StepDone, ghostVars
<1>2. FoldInv(fold', made.step, made.call, Settled, stray)
  BY <1>1, IInvParts, StepEndInv
<1>3. FoldInv(fold, made.step, made.call, Settled, stray)' /\ LoopInv'
  BY <1>1, <1>2, IInvParts, SettledQuiet DEF LoopInv
<1>4. ~ Stepping' /\ StepInv'
  BY <1>1 DEF StepInv, Stepping
<1>5. CompactionInv'
  BY <1>1, <1>4, CompactionStays DEF IInv
<1> QED
  BY <1>3, <1>4, <1>5 DEF IInv

(* The loop leaves its step, or its turn, and the context stays.            *)
LEMMA LeavePreserves ==
    ASSUME IInv, phase' \in {"idle", "between"}, todo' = 0, unanswered' = {},
           phase = "calling" \/ ~ Blocked,
           UNCHANGED <<fold, checkpoints, prompted, compaction, made, prompts, answered, cleared, stray>>
    PROVE  IInv'
<1>1. FoldInv(fold, made.step, made.call, Settled, stray)'
  BY SettledQuiet DEF IInv
<1>2. LoopInv'
  <2>1. todo' \in 0..(MaxCalls - made'.call)
    BY IInvParts
  <2> QED
    BY <2>1, IInvParts DEF LoopInv
<1>3. ~ Stepping' /\ StepInv'
  BY DEF StepInv, Stepping
<1>4. CompactionInv'
  BY <1>3, CompactionStays DEF IInv
<1> QED
  BY <1>1, <1>2, <1>3, <1>4 DEF IInv

LEMMA PrepareFailsPreserves == IInv /\ PrepareFails => IInv'
BY LeavePreserves DEF PrepareFails, ghostVars

LEMMA AbandonStepPreserves == IInv /\ AbandonStep => IInv'
BY LeavePreserves DEF AbandonStep, StepDone, ghostVars

LEMMA EndTurnPreserves == IInv /\ EndTurn => IInv'
<1> SUFFICES ASSUME IInv, EndTurn PROVE IInv'
  OBVIOUS
<1>1. /\ phase = "between" /\ ~ Blocked /\ phase' = "idle"
      /\ UNCHANGED <<fold, checkpoints, prompted, todo, unanswered, compaction, made, prompts, answered,
                     cleared, stray>>
  BY DEF EndTurn, ghostVars
<1>2. todo = 0 /\ unanswered = {}
  BY <1>1, IInvParts DEF LoopInv
<1> QED
  BY <1>1, <1>2, LeavePreserves

-----------------------------------------------------------------------------
(* Compaction, undo, clear and restart.                                     *)

LEMMA BeginCompactionPreserves == IInv /\ BeginCompaction => IInv'
<1> SUFFICES ASSUME IInv, BeginCompaction PROVE IInv'
  OBVIOUS
<1>1. /\ Count("compaction") /\ phase \in {"idle", "between", "requesting"}
      /\ phase' \in {"idle", "between"}
      /\ UNCHANGED <<fold, checkpoints, prompted, todo, unanswered, prompts, answered, cleared, stray>>
  BY DEF BeginCompaction, ghostVars
<1>2. \E a, b \in BOOLEAN :
         /\ compaction' = [manual |-> a, blocking |-> b, original |-> fold.history]
         /\ b => phase' = "between"
  BY DEF BeginCompaction
<1>3. /\ made' \in [Kinds -> Nat] /\ made'.step = made.step /\ made'.call = made.call
      /\ made'.prompt = made.prompt
  BY <1>1, IInvParts, CountIs DEF Kinds
<1>4. FoldInv(fold, made.step, made.call, Settled, stray)'
  BY <1>1, <1>3, SettledStays, IInvParts
<1>5. LoopInv'
  BY <1>1, <1>3, IInvParts DEF LoopInv
<1>6. ~ Stepping' /\ StepInv'
  BY <1>1 DEF StepInv, Stepping
<1>7. CompactionInv'
  <2>1. /\ fold.history \in Seq(Messages)
        /\ \A i \in DOMAIN fold.history :
              fold.history[i].role = "assistant" => fold.history[i].id <= made.step
    BY IInvParts DEF FoldInv, HistInv, Shaped
  <2>2. /\ compaction' \in [manual : BOOLEAN, blocking : BOOLEAN, original : Seq(Messages)]
        /\ compaction'.original = fold.history /\ (compaction'.blocking => phase' = "between")
    BY <1>2, <2>1
  <2> QED
    BY <1>3, <1>6, <2>1, <2>2 DEF CompactionInv
<1> QED
  BY <1>4, <1>5, <1>6, <1>7 DEF IInv

LEMMA WaitPreserves == IInv /\ Wait => IInv'
<1> SUFFICES ASSUME IInv, Wait PROVE IInv'
  OBVIOUS
<1>1. /\ phase \in {"between", "requesting"} /\ phase' = "between" /\ compaction # None
      /\ compaction' = [compaction EXCEPT !.blocking = TRUE]
      /\ UNCHANGED <<fold, checkpoints, prompted, todo, unanswered, made, prompts, answered,
                     cleared, stray>>
  BY DEF Wait, ghostVars
<1>2. FoldInv(fold, made.step, made.call, Settled, stray)'
  BY <1>1, SettledStays, IInvParts
<1>3. LoopInv'
  BY <1>1, IInvParts DEF LoopInv
<1>4. ~ Stepping' /\ StepInv'
  BY <1>1 DEF StepInv, Stepping
<1>5. CompactionInv'
  <2>1. compaction \in [manual : BOOLEAN, blocking : BOOLEAN, original : Seq(Messages)]
    BY <1>1, IInvParts DEF CompactionInv
  <2>2. /\ compaction' \in [manual : BOOLEAN, blocking : BOOLEAN, original : Seq(Messages)]
        /\ compaction'.original = compaction.original
    BY <1>1, <2>1
  <2> QED
    BY <1>1, <1>4, <2>2, IInvParts DEF CompactionInv
<1> QED
  BY <1>2, <1>3, <1>4, <1>5 DEF IInv

(* A summary does not fit once the step has a message of its own.           *)
LEMMA NotWhileStepping ==
    ASSUME IInv, compaction # None, HistorySafeToCompact(fold.history, compaction.original)
    PROVE  Stepping => cleared
<1> SUFFICES ASSUME Stepping, ~ cleared PROVE FALSE
  OBVIOUS
<1> DEFINE h == fold.history
           o == compaction.original
<1>1. /\ h \in Seq(Messages) /\ Len(h) \in Nat /\ DOMAIN h = 1..Len(h)
      /\ \A i \in DOMAIN h : h[i].partial => h[i].role = "assistant"
  BY IInvParts DEF FoldInv, HistInv, Shaped
<1>2. o \in Seq(Messages) /\ \A i \in DOMAIN o : o[i].role = "assistant" => o[i].id # made.step
  <2>1. compaction \in [manual : BOOLEAN, blocking : BOOLEAN, original : Seq(Messages)]
    BY IInvParts DEF CompactionInv
  <2> QED
    BY <2>1, IInvParts DEF CompactionInv
<1>3. PICK i \in DOMAIN h : h[i].partial /\ h[i].id = made.step
  BY IInvParts DEF StepInv, OpenMessages
<1>4. /\ Len(o) <= Len(h) /\ SubSeq(o, 1, Len(o)) = SubSeq(h, 1, Len(o))
      /\ \A k \in (Len(o) + 1)..Len(h) : IsRealUserInput(h[k])
  BY DEF HistorySafeToCompact, IsPrefix
<1> HIDE DEF h, o
<1>5. h[i].role = "assistant" /\ ~ IsRealUserInput(h[i])
  BY <1>1, <1>3 DEF IsRealUserInput
<1>6. i \in 1..Len(o) /\ Len(o) \in Nat /\ DOMAIN o = 1..Len(o)
  BY <1>1, <1>2, <1>4, <1>5
<1>7. o[i] = h[i]
  <2>1. SubSeq(o, 1, Len(o))[i] = o[i] /\ SubSeq(h, 1, Len(o))[i] = h[i]
    BY <1>1, <1>2, <1>4, <1>6
  <2> QED
    BY <1>4, <2>1
<1> QED
  BY <1>2, <1>3, <1>5, <1>6, <1>7

LEMMA FinishCompactionPreserves == IInv /\ FinishCompaction => IInv'
<1> SUFFICES ASSUME IInv, FinishCompaction PROVE IInv'
  OBVIOUS
<1>1. /\ compaction # None /\ HistorySafeToCompact(fold.history, compaction.original)
      /\ fold' = ApplyCompaction(fold, made.compaction) /\ checkpoints' = <<>> /\ compaction' = None
      /\ UNCHANGED <<phase, prompted, todo, unanswered, made, prompts, answered, cleared, stray>>
  BY DEF FinishCompaction, ClearCheckpoints, stepVars, ghostVars
<1>2. Stepping => cleared
  BY <1>1, NotWhileStepping
<1>3. made.compaction \in Nat
  BY IInvParts DEF Kinds
<1>4. FoldInv(fold', made.step, made.call, Settled', stray) /\ OpenMessages(fold'.history) = {}
  <2> DEFINE A2 == Settled'
  <2> HIDE DEF A2
  <2>1. FoldInv(fold', made.step, made.call, A2, stray) /\ OpenMessages(fold'.history) = {}
    BY <1>1, <1>3, IInvParts, CompactionKeeps
  <2> QED
    BY <2>1 DEF A2
<1>5. FoldInv(fold, made.step, made.call, Settled, stray)'
  BY <1>1, <1>4
<1>6. LoopInv'
  <2>1. checkpoints' \in Seq(1..made'.prompt)
    BY <1>1
  <2> QED
    BY <1>1, <2>1, IInvParts DEF LoopInv
<1>7. StepInv'
  <2>1. fold'.pending = <<>>
    BY <1>1 DEF ApplyCompaction, Fold
  <2> QED
    BY <1>1, <1>2, <1>4, <2>1 DEF StepInv, Stepping
<1>8. CompactionInv'
  BY <1>1 DEF CompactionInv
<1> QED
  BY <1>5, <1>6, <1>7, <1>8 DEF IInv

LEMMA CancelCompactionPreserves == IInv /\ CancelCompaction => IInv'
<1> SUFFICES ASSUME IInv, CancelCompaction PROVE IInv'
  OBVIOUS
<1>1. /\ compaction # None /\ compaction' = None
      /\ phase' \in IF compaction.blocking THEN {"idle", "between"} ELSE {phase}
      /\ UNCHANGED <<fold, checkpoints, prompted, todo, unanswered, made, prompts, answered,
                     cleared, stray>>
  BY DEF CancelCompaction, ghostVars
<1>2. FoldInv(fold, made.step, made.call, Settled, stray)'
  BY <1>1, SettledStays, IInvParts
<1>3. StepInv' /\ CompactionInv'
  <2>1. phase' \in {"idle", "between"} \/ phase' = phase
    BY <1>1
  <2>2. StepInv'
    BY <1>1, <2>1, IInvParts DEF StepInv, Stepping
  <2> QED
    BY <1>1, <2>2 DEF CompactionInv
<1>4. LoopInv'
  <2>1. (phase' \in {"idle", "between"} /\ phase = "between") \/ phase' = phase
    BY <1>1, IInvParts DEF CompactionInv
  <2> QED
    BY <1>1, <2>1, IInvParts DEF LoopInv
<1> QED
  BY <1>2, <1>3, <1>4 DEF IInv

LEMMA UndoTurnsPreserves == ASSUME NEW k \in 1..MaxPrompts PROVE IInv /\ UndoTurns(k) => IInv'
<1> SUFFICES ASSUME IInv, UndoTurns(k) PROVE IInv'
  OBVIOUS
<1>1. /\ phase = "idle" /\ compaction = None /\ UndoCut(fold.history, k) # 0
      /\ prompts' \subseteq prompts /\ fold' = Undo(fold, k)
      /\ Len(checkpoints) >= k /\ checkpoints' = SubSeq(checkpoints, 1, Len(checkpoints) - k)
      /\ answered' = answered \cap Ids(fold'.history, IsToolResult)
      /\ UNCHANGED <<phase, prompted, todo, unanswered, compaction, made, cleared, stray>>
  BY DEF UndoTurns, UndoToCheckpoint, stepVars
<1>2. k \in Nat /\ k >= 1
  OBVIOUS
<1>3. FoldInv(fold, made.step, made.call, Settled, stray)'
  <2>1. FoldInv(fold', made.step, made.call, answered \cap Ids(fold'.history, IsToolResult), stray)
    BY <1>1, <1>2, NothingAwaited, IInvParts, UndoInv
  <2>2. Settled' = answered'
    BY <1>1, NothingAwaited DEF Settled
  <2> QED
    BY <1>1, <2>1, <2>2
<1>4. checkpoints' \in Seq(1..made.prompt)
  <2> DEFINE c == checkpoints
             S == 1..made.prompt
  <2>1. c \in Seq(S)
    BY IInvParts DEF LoopInv
  <2> HIDE DEF c, S
  <2>2. \A j \in 1..(Len(c) - k) : c[j] \in S
    BY <1>2, <2>1
  <2>3. Len(c) \in Nat /\ Len(c) >= k
    BY <1>1, <2>1 DEF c
  <2>4. SubSeq(c, 1, Len(c) - k) \in Seq(S)
    BY <1>2, <2>1, <2>3
  <2> QED
    BY <1>1, <2>4 DEF c, S
<1>5. LoopInv'
  BY <1>1, <1>4, IInvParts DEF LoopInv
<1>6. StepInv' /\ CompactionInv'
  BY <1>1 DEF StepInv, CompactionInv, Stepping
<1> QED
  BY <1>3, <1>5, <1>6 DEF IInv

LEMMA ClearContextPreserves == IInv /\ ClearContext => IInv'
<1> SUFFICES ASSUME IInv, ClearContext PROVE IInv'
  OBVIOUS
<1>1. /\ fold' = EmptyFold /\ checkpoints' = <<>> /\ prompts' = {}
      /\ cleared' = (cleared \/ Stepping)
      /\ UNCHANGED <<phase, prompted, todo, unanswered, compaction, made, answered, stray>>
  BY DEF ClearContext, Clear, ClearCheckpoints, Stepping, stepVars
<1>2. FoldInv(fold, made.step, made.call, Settled, stray)'
  BY <1>1, EmptyInv
<1>3. LoopInv'
  <2>1. checkpoints' \in Seq(1..made'.prompt) /\ prompts' \subseteq 1..made'.prompt
    BY <1>1
  <2>2. cleared' \in BOOLEAN
    BY <1>1 DEF Stepping
  <2> QED
    BY <1>1, <2>1, <2>2, IInvParts DEF LoopInv
<1>4. (Stepping' => Stepping) /\ StepInv'
  <2>1. fold'.pending = <<>> /\ OpenMessages(fold'.history) = {}
    BY <1>1 DEF EmptyFold, Fold, OpenMessages
  <2>2. Stepping' <=> Stepping
    BY <1>1 DEF Stepping
  <2> QED
    BY <1>1, <2>1, <2>2 DEF StepInv
<1>5. CompactionInv'
  BY <1>1, <1>4, CompactionStays DEF IInv
<1> QED
  BY <1>2, <1>3, <1>4, <1>5 DEF IInv

LEMMA RestartPreserves == IInv /\ Restart => IInv'
<1> SUFFICES ASSUME IInv, Restart PROVE IInv'
  OBVIOUS
<1>1. /\ phase' = "idle" /\ todo' = 0 /\ unanswered' = {} /\ compaction' = None
      /\ fold' = fold \/ fold' = Fold(fold.history)
      /\ UNCHANGED <<checkpoints, prompted, made, prompts, answered, cleared, stray>>
  BY DEF Restart, ghostVars
<1>2. FoldInv(fold', made.step, made.call, Settled, stray)
  <2>1. HistInv(fold.history, made.step, made.call, Settled, stray)
    BY IInvParts DEF FoldInv
  <2> QED
    BY <1>1, <2>1, IInvParts, FreshInv
<1>3. FoldInv(fold, made.step, made.call, Settled, stray)'
  BY <1>1, <1>2, SettledQuiet
<1>4. LoopInv'
  <2>1. todo' \in 0..(MaxCalls - made'.call)
    BY <1>1, IInvParts
  <2> QED
    BY <1>1, <2>1, IInvParts DEF LoopInv
<1>5. StepInv' /\ CompactionInv'
  BY <1>1 DEF StepInv, CompactionInv, Stepping
<1> QED
  BY <1>3, <1>4, <1>5 DEF IInv

LEMMA StutterPreserves == IInv /\ UNCHANGED vars => IInv'
<1> SUFFICES ASSUME IInv, UNCHANGED vars PROVE IInv'
  OBVIOUS
<1>1. UNCHANGED <<fold, checkpoints, phase, prompted, todo, unanswered, compaction, made,
                  prompts, answered, cleared, stray>>
  BY DEF vars, stepVars, ghostVars
<1> QED
  BY <1>1 DEF IInv, Settled, LoopInv, StepInv, CompactionInv, Stepping

LEMMA NextPreserves == IInv /\ [Next]_vars => IInv'
BY StartTurnPreserves, BlockPromptPreserves, ResumePreserves, SteerPreserves, RemindPreserves,
   BeginStepPreserves, RequestFailsPreserves, RespondPreserves, AnnouncePreserves,
   PrepareFailsPreserves, ResultPreserves, EndStepPreserves, AbandonStepPreserves,
   EndTurnPreserves, BeginCompactionPreserves, WaitPreserves, FinishCompactionPreserves,
   CancelCompactionPreserves, UndoTurnsPreserves, ClearContextPreserves, RestartPreserves,
   StutterPreserves DEF Next

(* The invariant holds whatever fails and whenever the history is cleared:  *)
(* one message at most is open; results stand behind the messages that      *)
(* declare their calls and the open calls are those of the open message,    *)
(* but for the strays, the calls announced after a clear took the message   *)
(* that was to declare them; a call that was answered has its own result.   *)
THEOREM ContextInvariant == Spec => []IInv
BY InitIInv, NextPreserves, PTL DEF Spec

-----------------------------------------------------------------------------
(* What IInv says of a state.                                               *)

LEMMA TypeIsCorrect == IInv => TypeOK
<1> SUFFICES ASSUME IInv PROVE TypeOK
  OBVIOUS
<1> DEFINE h == fold.history
           n == made.call
           p == made.prompt
           P == {i \in DOMAIN h : h[i].partial}
<1>1. /\ n \in Nat /\ n <= MaxCalls /\ MaxCalls \in Nat /\ MaxPrompts \in Nat
      /\ p \in Nat /\ p <= MaxPrompts
  BY IInvParts, MaxCallsIsNat DEF LoopInv
<1>2. 1..n \subseteq 1..MaxCalls /\ 1..p \subseteq 1..MaxPrompts
  <2> HIDE DEF n, p
  <2> QED
    BY <1>1
<1>3. h \in Seq(Messages) /\ fold.deferred \in Seq(Messages)
  BY IInvParts, SeqOfParked DEF FoldInv, HistInv
<1>4. fold.pending \in Seq(1..MaxCalls)
  <2> DEFINE S == 1..n
             T == 1..MaxCalls
             q == fold.pending
  <2>1. q \in Seq(S) /\ S \subseteq T
    BY <1>2, IInvParts DEF FoldInv
  <2> HIDE DEF S, T, q
  <2>2. q \in Seq(T)
    BY <2>1
  <2> QED
    BY <2>2 DEF T, q
<1>5. checkpoints \in Seq(1..MaxPrompts)
  <2> DEFINE S == 1..p
             T == 1..MaxPrompts
  <2>1. checkpoints \in Seq(S) /\ S \subseteq T
    BY <1>2, IInvParts DEF LoopInv
  <2> HIDE DEF S, T
  <2>2. checkpoints \in Seq(T)
    BY <2>1
  <2> QED
    BY <2>2 DEF T
<1>6. unanswered \subseteq 1..MaxCalls /\ cleared \in BOOLEAN /\ stray \subseteq 1..MaxCalls
  BY <1>2, IInvParts DEF LoopInv
<1>7. compaction = None \/ compaction.original \in Seq(Messages)
  BY IInvParts DEF CompactionInv
<1>8. Cardinality(P) <= 1
  <2>1. \A i, j \in DOMAIN h : h[i].partial /\ h[j].partial => i = j
    BY IInvParts DEF FoldInv, HistInv
  <2> HIDE DEF h
  <2>2. CASE P = {}
    BY <2>2, FS_EmptySet
  <2>3. CASE P # {}
    <3>1. PICK i \in P : TRUE
      BY <2>3
    <3>2. P = {i}
      BY <2>1, <3>1
    <3>3. Cardinality({i}) = 1
      BY FS_Singleton
    <3> QED
      BY <3>2, <3>3
  <2> QED
    BY <2>2, <2>3
<1>9. /\ todo \in 0..MaxCalls /\ prompted \in BOOLEAN
      /\ phase \in {"idle", "between", "requesting", "calling"}
      /\ prompts \subseteq 1..MaxPrompts /\ answered \subseteq 1..MaxCalls
  <2>1. todo \in 0..(MaxCalls - n) /\ prompts \subseteq 1..p /\ answered \subseteq 1..n
    BY IInvParts DEF LoopInv
  <2> HIDE DEF n, p
  <2>2. todo \in 0..MaxCalls
    BY <1>1, <2>1
  <2>3. prompts \subseteq 1..MaxPrompts /\ answered \subseteq 1..MaxCalls
    BY <1>2, <2>1
  <2> QED
    BY <2>2, <2>3, IInvParts DEF LoopInv
<1> QED
  BY <1>3, <1>4, <1>5, <1>6, <1>7, <1>8, <1>9 DEF TypeOK

LEMMA ParkedIsBehind == IInv => ParkedBehindOpenCalls
<1> SUFFICES ASSUME IInv PROVE ParkedBehindOpenCalls
  OBVIOUS
<1> DEFINE h == fold.history
           i == OpenAssistant(h)
<1>1. fold.deferred # <<>> => fold.pending # <<>>
  BY IInvParts DEF FoldInv
<1>2. ASSUME NEW k \in DOMAIN fold.pending
      PROVE  /\ fold.pending[k] \in stray \/ (i # 0 /\ fold.pending[k] \in ToSet(h[i].calls))
             /\ fold.pending[k] \notin Ids(h, IsToolResult)
  <2> DEFINE c == fold.pending[k]
  <2>1. c \in ToSet(fold.pending)
    BY ToSetIs
  <2>2. /\ c \in stray \/ \E j \in DOMAIN h : h[j].partial /\ Declares(h[j], c)
        /\ \A j \in DOMAIN h : ~ Answers(h[j], c)
    BY <2>1, IInvParts DEF FoldInv, OpenInv
  <2>3. c \notin stray => i # 0 /\ \A j \in DOMAIN h : h[j].partial => j = i
    <3>1. /\ h \in Seq(Messages)
          /\ \A a, b \in DOMAIN h : h[a].partial /\ h[b].partial => a = b
      BY IInvParts DEF FoldInv, HistInv
    <3> HIDE DEF h
    <3> QED
      BY <2>2, <3>1, OpenAssistantIs
  <2> HIDE DEF h, i, c
  <2>4. c \notin stray => c \in ToSet(h[i].calls)
    BY <2>2, <2>3 DEF Declares
  <2>5. c \notin Ids(h, IsToolResult)
    <3>1. \A m \in ToSet(h) : ~ (IsToolResult(m) /\ m.id = c)
      BY <2>2, ToSetIs DEF Answers
    <3> QED
      BY <3>1 DEF Ids
  <2> QED
    BY <2>3, <2>4, <2>5 DEF c
<1> QED
  BY <1>1, <1>2 DEF ParkedBehindOpenCalls

(* Whatever fails, the state is one the fold can be in: its messages and    *)
(* calls are well formed and one message at most is open.                   *)
THEOREM ContextTypeCorrect == Spec => []TypeOK
BY ContextInvariant, TypeIsCorrect, PTL

(* Whatever fails, a message is parked only behind an open call, and an     *)
(* open call has no result and is declared by the open message; or it is a  *)
(* stray, announced after a clear took that message.  That the calls are    *)
(* answered some day is not said.                                           *)
THEOREM ParkedBehindOpenCallsHolds == Spec => []ParkedBehindOpenCalls
BY ContextInvariant, ParkedIsBehind, PTL

-----------------------------------------------------------------------------
(* Joining blocks.                                                          *)

(* f[i] is the first i sequences joined.                                    *)
Flattens(f, seqs, m) ==
    f = [i \in 1..m |-> IF i = 1 THEN seqs[i] ELSE f[i - 1] \o seqs[i]]

LEMMA FlattensExists ==
    ASSUME NEW seqs, NEW l \in Nat PROVE \E f : Flattens(f, seqs, l)
<1> DEFINE T == {m \in Nat : ~ \E f : Flattens(f, seqs, m)}
<1> SUFFICES ASSUME T # {} PROVE FALSE
  OBVIOUS
<1>1. PICK m \in T : \A k \in T : m <= k
  <2> HIDE DEF T
  <2>1. T \in SUBSET Nat
    BY DEF T
  <2> QED
    BY <2>1, LeastNatural
<1>2. m \in Nat /\ ~ \E f : Flattens(f, seqs, m)
  OBVIOUS
<1>3. CASE m = 0
  <2> DEFINE f == [i \in 1..0 |-> <<>>]
  <2>1. Flattens(f, seqs, 0)
    BY DEF Flattens
  <2> QED
    BY <1>2, <1>3, <2>1
<1>4. CASE m # 0
  <2>1. m - 1 \in Nat /\ m - 1 \notin T
    BY <1>1, <1>2, <1>4
  <2>2. PICK g : Flattens(g, seqs, m - 1)
    BY <2>1
  <2> DEFINE f == [i \in 1..m |-> IF i = 1 THEN seqs[i] ELSE g[i - 1] \o seqs[i]]
  <2>3. ASSUME NEW i \in 1..(m - 1) PROVE f[i] = g[i]
    <3>1. i \in 1..m /\ i \in 1..(m - 1)
      BY <1>2, <2>3
    <3>2. g[i] = IF i = 1 THEN seqs[i] ELSE g[i - 1] \o seqs[i]
      <4>1. g = [k \in 1..(m - 1) |-> IF k = 1 THEN seqs[k] ELSE g[k - 1] \o seqs[k]]
        BY <2>2 DEF Flattens
      <4> HIDE DEF f
      <4> QED
        BY <3>1, <4>1, Zenon
    <3> QED
      BY <3>1, <3>2
  <2>4. ASSUME NEW i \in 1..m, i # 1 PROVE f[i - 1] = g[i - 1]
    <3>1. i - 1 \in 1..(m - 1)
      BY <1>2, <2>4
    <3> HIDE DEF f
    <3> QED
      BY <2>3, <3>1
  <2>5. f = [i \in 1..m |-> IF i = 1 THEN seqs[i] ELSE f[i - 1] \o seqs[i]]
    BY <2>4, Zenon
  <2> QED
    BY <1>2, <2>5 DEF Flattens
<1> QED
  BY <1>3, <1>4

LEMMA FlattenSeqIs ==
    ASSUME NEW seqs, NEW l \in Nat, Len(seqs) = l, l # 0
    PROVE  \E f : Flattens(f, seqs, l) /\ FlattenSeq(seqs) = f[l]
<1> DEFINE g == CHOOSE f : Flattens(f, seqs, l)
<1>1. \E f : Flattens(f, seqs, l)
  BY FlattensExists
<1>2. Flattens(g, seqs, l)
  BY <1>1, Zenon
<1>3. FlattenSeq(seqs) = LET flatten[i \in 1..Len(seqs)] ==
                                IF i = 1 THEN seqs[i] ELSE flatten[i - 1] \o seqs[i]
                         IN  flatten[Len(seqs)]
  BY Zenon DEF FlattenSeq
<1>4. FlattenSeq(seqs) = g[l]
  BY <1>3, Zenon DEF Flattens
<1> QED
  BY <1>2, <1>4

(* A set of sequences closed under joining has what its members join to,    *)
(* and each member's elements are in it.                                    *)
LEMMA FlattenIn ==
    ASSUME NEW T, NEW W \in SUBSET Seq(T), <<>> \in W, \A p, q \in W : p \o q \in W,
           NEW seqs \in Seq(W)
    PROVE  /\ FlattenSeq(seqs) \in W
           /\ \A i \in DOMAIN seqs : Queued(seqs[i]) \subseteq Queued(FlattenSeq(seqs))
<1> DEFINE l == Len(seqs)
<1>1. l \in Nat /\ DOMAIN seqs = 1..l /\ \A i \in 1..l : seqs[i] \in W
  OBVIOUS
<1>2. CASE l = 0
  <2>1. FlattenSeq(seqs) = seqs
    BY <1>2 DEF FlattenSeq
  <2>2. seqs = <<>> /\ DOMAIN seqs = {}
    BY <1>1, <1>2
  <2> QED
    BY <2>1, <2>2
<1>3. CASE l # 0
  <2>1. PICK f : Flattens(f, seqs, l) /\ FlattenSeq(seqs) = f[l]
    BY <1>1, <1>3, FlattenSeqIs
  <2> HIDE DEF l
  <2> DEFINE Good(m) == f[m] \in W /\ \A i \in 1..m : Queued(seqs[i]) \subseteq Queued(f[m])
             Bad == {m \in Nat : m \in 1..l /\ ~ Good(m)}
  <2>2. Bad = {}
    <3> SUFFICES ASSUME Bad # {} PROVE FALSE
      OBVIOUS
    <3>1. PICK m \in Bad : \A k \in Bad : m <= k
      <4> HIDE DEF Bad
      <4>1. Bad \in SUBSET Nat
        BY DEF Bad
      <4> QED
        BY <4>1, LeastNatural
    <3>2. m \in Nat /\ m \in 1..l /\ ~ Good(m)
      OBVIOUS
    <3>3. f[m] = IF m = 1 THEN seqs[m] ELSE f[m - 1] \o seqs[m]
      <4>1. f = [k \in 1..l |-> IF k = 1 THEN seqs[k] ELSE f[k - 1] \o seqs[k]]
        BY <2>1 DEF Flattens
      <4> HIDE DEF Bad
      <4> QED
        BY <3>2, <4>1, Zenon
    <3>4. CASE m = 1
      <4>1. Good(m)
        BY <1>1, <3>2, <3>3, <3>4
      <4> QED
        BY <3>2, <4>1
    <3>5. CASE m # 1
      <4> DEFINE k == m - 1
      <4>1. k \in Nat /\ k \in 1..l /\ ~ (m <= k) /\ 1..m = 1..k \cup {m}
        <5> HIDE DEF Good, Bad
        <5>1. m \in Nat /\ m \in 1..l /\ m # 1 /\ l \in Nat
          BY <1>1, <3>2, <3>5
        <5>2. k \in Nat /\ k \in 1..l /\ ~ (m <= k)
          BY <5>1
        <5>3. 1..m = 1..k \cup {m}
          BY <5>1
        <5> QED
          BY <5>2, <5>3
      <4>2. k \notin Bad
        <5> HIDE DEF Bad
        <5> QED
          BY <3>1, <4>1
      <4>3. Good(k)
        BY <4>1, <4>2
      <4>4. f[m] = f[k] \o seqs[m] /\ seqs[m] \in W
        BY <1>1, <3>2, <3>3, <3>5
      <4> HIDE DEF k, Bad
      <4>5. Queued(f[m]) = Queued(f[k]) \cup Queued(seqs[m])
        <5>1. f[k] \in Seq(T) /\ seqs[m] \in Seq(T)
          BY <4>3, <4>4
        <5> QED
          BY <4>4, <5>1, QueuedConcat
      <4>6. f[m] \in W
        BY <4>3, <4>4
      <4>7. \A i \in 1..m : Queued(seqs[i]) \subseteq Queued(f[m])
        BY <4>1, <4>3, <4>5
      <4> QED
        BY <3>2, <4>6, <4>7
    <3> QED
      BY <3>4, <3>5
  <2>3. l \in Nat /\ l \in 1..l /\ l \notin Bad
    <3> HIDE DEF Bad
    <3> QED
      BY <1>1, <1>3, <2>2
  <2>4. Good(l)
    BY <2>3
  <2> QED
    BY <1>1, <2>1, <2>4
<1> QED
  BY <1>2, <1>3

-----------------------------------------------------------------------------
(* What a request shows of a history.                                       *)

(* The requests a provider accepts in which no call of A has a made-up      *)
(* result.                                                                  *)
Wires(A) ==
    {r \in Seq(Messages) :
        /\ WireValid(r)
        /\ \A i \in DOMAIN r : r[i].role = "interrupted" => r[i].id \notin A}

LEMMA EmptyWire == ASSUME NEW A PROVE <<>> \in Wires(A)
BY DEF Wires, WireValid

LEMMA JoinedWire ==
    ASSUME NEW A, NEW p \in Wires(A), NEW q \in Wires(A) PROVE p \o q \in Wires(A)
<1> DEFINE r == p \o q
           l == Len(p)
<1>1. p \in Seq(Messages) /\ q \in Seq(Messages) /\ WireValid(p) /\ WireValid(q)
  BY DEF Wires
<1>2. /\ l \in Nat /\ DOMAIN p = 1..l /\ Len(q) \in Nat /\ DOMAIN q = 1..Len(q)
  BY <1>1
<1>3. r \in Seq(Messages) /\ IsJoined(r, p, q, l)
  BY <1>1, ConcatIs
<1> HIDE DEF r, l
<1>4. /\ \A i \in DOMAIN p : i \in DOMAIN r /\ r[i] = p[i]
      /\ \A i \in DOMAIN q : l + i \in DOMAIN r /\ r[l + i] = q[i]
      /\ \A k \in DOMAIN r : k \in DOMAIN p \/ \E i \in DOMAIN q : k = l + i
  BY <1>3 DEF IsJoined
<1>5. ASSUME NEW i \in DOMAIN r, IsToolResult(r[i])
      PROVE  \E j \in 1..(i - 1) : i - j \in DOMAIN r[j].calls /\ r[j].calls[i - j] = r[i].id
  <2>1. CASE i \in DOMAIN p
    <3>1. PICK j \in 1..(i - 1) : i - j \in DOMAIN p[j].calls /\ p[j].calls[i - j] = p[i].id
      BY <1>1, <1>4, <1>5, <2>1 DEF WireValid
    <3>2. j \in DOMAIN p
      BY <1>2, <2>1
    <3> QED
      BY <1>4, <2>1, <3>1, <3>2
  <2>2. CASE \E a \in DOMAIN q : i = l + a
    <3>1. PICK a \in DOMAIN q : i = l + a
      BY <2>2
    <3>2. PICK j \in 1..(a - 1) : a - j \in DOMAIN q[j].calls /\ q[j].calls[a - j] = q[a].id
      BY <1>1, <1>4, <1>5, <3>1 DEF WireValid
    <3>3. j \in DOMAIN q /\ l + j \in 1..(i - 1) /\ i - (l + j) = a - j
      BY <1>2, <3>1
    <3>4. r[l + j] = q[j] /\ r[i] = q[a]
      BY <1>4, <3>1, <3>3
    <3> DEFINE b == l + j
    <3> HIDE DEF b
    <3>5. b \in 1..(i - 1) /\ i - b \in DOMAIN r[b].calls /\ r[b].calls[i - b] = r[i].id
      BY <3>2, <3>3, <3>4 DEF b
    <3> QED
      BY <3>5
  <2> QED
    BY <1>4, <2>1, <2>2
<1>6. ASSUME NEW j \in DOMAIN r, NEW k \in DOMAIN r[j].calls
      PROVE  j + k \in DOMAIN r /\ IsToolResult(r[j + k]) /\ r[j + k].id = r[j].calls[k]
  <2>1. k \in Nat
    <3>1. r[j].calls \in Seq(1..MaxCalls)
      BY <1>3, MessageIs
    <3> QED
      BY <3>1
  <2>2. CASE j \in DOMAIN p
    <3>1. j + k \in DOMAIN p /\ IsToolResult(p[j + k]) /\ p[j + k].id = p[j].calls[k]
      BY <1>1, <1>4, <2>2 DEF WireValid
    <3> QED
      BY <1>4, <2>2, <3>1
  <2>3. CASE \E a \in DOMAIN q : j = l + a
    <3>1. PICK a \in DOMAIN q : j = l + a
      BY <2>3
    <3>2. r[j] = q[a]
      BY <1>4, <3>1
    <3>3. a + k \in DOMAIN q /\ IsToolResult(q[a + k]) /\ q[a + k].id = q[a].calls[k]
      BY <1>1, <3>2 DEF WireValid
    <3>4. j + k = l + (a + k)
      BY <1>2, <2>1, <3>1
    <3> DEFINE b == a + k
    <3> HIDE DEF b
    <3>5. r[l + b] = q[b] /\ l + b \in DOMAIN r
      BY <1>4, <3>3 DEF b
    <3> QED
      BY <3>2, <3>3, <3>4, <3>5 DEF b
  <2> QED
    BY <1>4, <2>2, <2>3
<1>7. \A i \in DOMAIN r : r[i].role = "interrupted" => r[i].id \notin A
  <2>1. /\ \A i \in DOMAIN p : p[i].role = "interrupted" => p[i].id \notin A
        /\ \A i \in DOMAIN q : q[i].role = "interrupted" => q[i].id \notin A
    BY DEF Wires
  <2> QED
    BY <1>4, <2>1
<1>8. WireValid(r)
  BY <1>5, <1>6 DEF WireValid
<1> QED
  BY <1>3, <1>7, <1>8 DEF Wires, r

(* The requests without assistant message, with no results but of calls of  *)
(* X, in which no call of A has a made-up result.                           *)
Strandeds(A, X) ==
    {r \in Seq(Messages) :
        \A i \in DOMAIN r :
            /\ r[i].role # "assistant"
            /\ IsToolResult(r[i]) => r[i].id \in X
            /\ r[i].role = "interrupted" => r[i].id \notin A}

LEMMA EmptyStranded == ASSUME NEW A, NEW X PROVE <<>> \in Strandeds(A, X)
BY DEF Strandeds

LEMMA JoinedStranded ==
    ASSUME NEW A, NEW X, NEW p \in Strandeds(A, X), NEW q \in Strandeds(A, X)
    PROVE  p \o q \in Strandeds(A, X)
<1> DEFINE r == p \o q
           l == Len(p)
<1>1. p \in Seq(Messages) /\ q \in Seq(Messages)
  BY DEF Strandeds
<1>2. r \in Seq(Messages) /\ IsJoined(r, p, q, l)
  BY <1>1, ConcatIs
<1> HIDE DEF r, l
<1>3. \A k \in DOMAIN r : (\E i \in DOMAIN p : r[k] = p[i]) \/ \E i \in DOMAIN q : r[k] = q[i]
  BY <1>2 DEF IsJoined
<1>4. \A k \in DOMAIN r :
         /\ r[k].role # "assistant"
         /\ IsToolResult(r[k]) => r[k].id \in X
         /\ r[k].role = "interrupted" => r[k].id \notin A
  BY <1>3 DEF Strandeds
<1> QED
  BY <1>2, <1>4 DEF Strandeds, r

(* The result shown for a call: no call that was answered gets a made-up    *)
(* one.                                                                     *)
LEMMA ResultOfIs ==
    ASSUME NEW v, NEW s, NEW n \in Nat, NEW A, NEW X, HistInv(v, s, n, A, X), MaxCalls \in Nat, n <= MaxCalls,
           NEW i \in DOMAIN v, NEW c \in 1..n, Declares(v[i], c)
    PROVE  LET r == ResultOf(v, i, c)
           IN  /\ r \in Messages /\ IsToolResult(r) /\ r.id = c /\ r.calls = <<>>
               /\ r.role = "interrupted" => c \notin A
<1> DEFINE found == {j \in DOMAIN v : j > i /\ IsToolResult(v[j]) /\ v[j].id = c}
           r == ResultOf(v, i, c)
           first == CHOOSE j \in found : \A k \in found : j <= k
<1>1. /\ v \in Seq(Messages) /\ DOMAIN v \subseteq Nat /\ c \in 1..MaxCalls /\ c \in Nat
  BY DEF HistInv
<1>2. r = IF found = {} THEN Message("interrupted", c) ELSE v[first]
  BY DEF ResultOf
<1> HIDE DEF r
<1>3. CASE found = {}
  <2>1. "interrupted" \in Roles
    BY DEF Roles
  <2>2. /\ Message("interrupted", c) \in Messages /\ Message("interrupted", c).id = c
        /\ Message("interrupted", c).role = "interrupted" /\ Message("interrupted", c).calls = <<>>
    BY <1>1, <2>1, MessageType
  <2>3. c \notin A
    <3> SUFFICES ASSUME c \in A PROVE FALSE
      OBVIOUS
    <3>1. PICK j \in DOMAIN v : Answers(v[j], c)
      BY DEF HistInv
    <3>2. i < j
      BY <1>1, <3>1 DEF HistInv
    <3>3. j > i
      BY <1>1, <3>2
    <3> QED
      BY <1>3, <3>1, <3>3 DEF Answers
  <2> QED
    BY <1>2, <1>3, <2>2, <2>3 DEF IsToolResult, r
<1>4. CASE found # {}
  <2>1. \E j \in found : \A k \in found : j <= k
    <3>1. found \in SUBSET Nat
      BY <1>1
    <3> HIDE DEF found
    <3> QED
      BY <1>4, <3>1, LeastNatural
  <2>2. first \in found
    <3> HIDE DEF found
    <3> QED
      BY <2>1
  <2>3. r = v[first]
    BY <1>2, <1>4
  <2> HIDE DEF first
  <2>4. /\ first \in DOMAIN v /\ IsToolResult(r) /\ r.id = c /\ Shaped(r, s, n, A)
    BY <2>2, <2>3 DEF HistInv
  <2>5. r \in Messages
    BY <1>1, <2>3, <2>4
  <2> QED
    BY <2>4, <2>5 DEF Shaped, IsToolResult, r
<1> QED
  BY <1>3, <1>4

(* What a request shows for a message.                                      *)
Block(v, i) == <<v[i]>> \o [k \in DOMAIN v[i].calls |-> ResultOf(v, i, v[i].calls[k])]

LEMMA BlockIsWire ==
    ASSUME NEW v, NEW s, NEW n \in Nat, NEW A, NEW X, HistInv(v, s, n, A, X), MaxCalls \in Nat, n <= MaxCalls,
           NEW i \in DOMAIN v, ~ IsToolResult(v[i])
    PROVE  Block(v, i) \in Wires(A) /\ v[i] \in Queued(Block(v, i))
<1> DEFINE m == v[i]
           q == m.calls
           f == [k \in DOMAIN q |-> ResultOf(v, i, q[k])]
           t == <<m>>
           r == t \o f
<1>1. m \in Messages /\ q \in Seq(1..n) /\ v \in Seq(Messages)
  BY DEF HistInv, Shaped
<1>2. ASSUME NEW k \in DOMAIN f
      PROVE  /\ f[k] \in Messages /\ IsToolResult(f[k]) /\ f[k].id = q[k] /\ f[k].calls = <<>>
             /\ f[k].role = "interrupted" => f[k].id \notin A
  <2>1. q[k] \in 1..n /\ Declares(m, q[k])
    BY <1>1, ToSetIs DEF Declares
  <2>2. f[k] = ResultOf(v, i, q[k])
    OBVIOUS
  <2> HIDE DEF f, q, m
  <2>3. Declares(v[i], q[k])
    BY <2>1 DEF m
  <2> QED
    BY <2>1, <2>2, <2>3, ResultOfIs
<1>3. /\ q \in Seq(1..n) /\ DOMAIN f = DOMAIN q /\ DOMAIN q = 1..Len(q) /\ Len(q) \in Nat
  BY <1>1
<1> HIDE DEF f
<1>4. f \in Seq(Messages)
  <2>1. \A k \in 1..Len(q) : f[k] \in Messages
    BY <1>2, <1>3
  <2>2. f \in [1..Len(q) -> Messages]
    <3>1. f = [k \in DOMAIN q |-> f[k]]
      BY DEF f
    <3> QED
      BY <1>3, <2>1, <3>1
  <2> DEFINE l == Len(q)
  <2>3. l \in Nat /\ f \in [1..l -> Messages]
    BY <1>3, <2>2
  <2> HIDE DEF l
  <2> QED
    BY <2>3
<1>5. t \in Seq(Messages) /\ DOMAIN t = {1} /\ t[1] = m /\ Len(t) = 1
  BY <1>1
<1> HIDE DEF t
<1>6. r \in Seq(Messages) /\ IsJoined(r, t, f, 1)
  <2>1. r \in Seq(Messages) /\ IsJoined(r, t, f, Len(t))
    BY <1>4, <1>5, ConcatIs
  <2> QED
    BY <1>5, <2>1
<1> HIDE DEF r, m
<1>7. /\ 1 \in DOMAIN r /\ r[1] = m
      /\ \A k \in DOMAIN q : 1 + k \in DOMAIN r /\ r[1 + k] = f[k]
      /\ \A j \in DOMAIN r : j = 1 \/ \E k \in DOMAIN q : j = 1 + k
  BY <1>3, <1>5, <1>6 DEF IsJoined
<1>8. ASSUME NEW a \in DOMAIN r, IsToolResult(r[a])
      PROVE  \E j \in 1..(a - 1) : a - j \in DOMAIN r[j].calls /\ r[j].calls[a - j] = r[a].id
  <2>1. a # 1
    BY <1>7, <1>8 DEF m
  <2>2. PICK k \in DOMAIN q : a = 1 + k
    BY <1>7, <2>1
  <2>3. 1 \in 1..(a - 1) /\ a - 1 = k
    <3>1. k \in Nat /\ k >= 1
      BY <1>3
    <3> QED
      BY <2>2, <3>1
  <2>4. r[a].id = q[k]
    BY <1>2, <1>3, <1>7, <2>2
  <2>5. a - 1 \in DOMAIN r[1].calls /\ r[1].calls[a - 1] = r[a].id
    BY <1>7, <2>3, <2>4
  <2> QED
    BY <2>3, <2>5
<1>9. ASSUME NEW j \in DOMAIN r, NEW k \in DOMAIN r[j].calls
      PROVE  j + k \in DOMAIN r /\ IsToolResult(r[j + k]) /\ r[j + k].id = r[j].calls[k]
  <2>1. CASE j = 1
    BY <1>2, <1>3, <1>7, <2>1
  <2>2. CASE j # 1
    <3>1. PICK b \in DOMAIN q : j = 1 + b
      BY <1>7, <2>2
    <3>2. r[j].calls = <<>>
      BY <1>2, <1>3, <1>7, <3>1
    <3> QED
      BY <3>2
  <2> QED
    BY <2>1, <2>2
<1>10. \A a \in DOMAIN r : r[a].role = "interrupted" => r[a].id \notin A
  <2> SUFFICES ASSUME NEW a \in DOMAIN r, r[a].role = "interrupted" PROVE r[a].id \notin A
    OBVIOUS
  <2>1. a # 1
    BY <1>7 DEF m, IsToolResult
  <2>2. PICK k \in DOMAIN q : a = 1 + k
    BY <1>7, <2>1
  <2> QED
    BY <1>2, <1>3, <1>7, <2>2
<1>11. r \in Wires(A)
  BY <1>6, <1>8, <1>9, <1>10 DEF Wires, WireValid
<1>12. m \in Queued(r)
  BY <1>7 DEF Queued
<1> QED
  BY <1>11, <1>12 DEF Block, r, t, f, m

(* What a request shows where there is no assistant message.                *)
LEMMA BlockIsStranded ==
    ASSUME NEW v, NEW s, NEW n \in Nat, NEW A, NEW X, HistInv(v, s, n, A, X),
           \A j \in DOMAIN v : v[j].role # "assistant", NEW i \in DOMAIN v
    PROVE  /\ <<v[i]>> \in Strandeds(A, X) /\ Block(v, i) = <<v[i]>>
           /\ v[i] \in Queued(Block(v, i))
<1>1. v[i] \in Messages /\ Shaped(v[i], s, n, A) /\ v[i].calls = <<>>
  BY DEF HistInv, Shaped
<1>2. IsToolResult(v[i]) => v[i].id \in X
  <2> SUFFICES ASSUME IsToolResult(v[i]), v[i].id \notin X PROVE FALSE
    OBVIOUS
  <2>1. PICK j \in DOMAIN v : Declares(v[j], v[i].id)
    BY DEF HistInv, Based
  <2>2. v[j].calls # <<>>
    BY <2>1, NothingDeclared
  <2> QED
    BY <2>2 DEF HistInv, Shaped
<1> DEFINE t == <<v[i]>>
           f == [k \in DOMAIN v[i].calls |-> ResultOf(v, i, v[i].calls[k])]
<1>3. t \in Seq(Messages) /\ \A k \in DOMAIN t : t[k] = v[i]
  BY <1>1
<1>4. t \in Strandeds(A, X)
  <2> HIDE DEF t
  <2> QED
    BY <1>1, <1>2, <1>3 DEF Strandeds, Shaped
<1>5. f = <<>>
  <2>1. DOMAIN v[i].calls = {}
    BY <1>1
  <2> QED
    BY <2>1
<1>6. Block(v, i) = t
  <2> HIDE DEF f, t
  <2>1. Block(v, i) = t \o f
    BY DEF Block, f, t
  <2> QED
    BY <1>3, <1>5, <2>1
<1>7. v[i] \in Queued(t)
  <2>1. 1 \in DOMAIN t /\ t[1] = v[i]
    OBVIOUS
  <2> HIDE DEF t
  <2> QED
    BY <2>1 DEF Queued
<1> QED
  BY <1>4, <1>6, <1>7

(* What is shown is a part of the history: all of it but the open message.  *)
LEMMA VisibleInv ==
    ASSUME NEW h, NEW s, NEW n, NEW A, NEW X, HistInv(h, s, n, A, X), A \subseteq 1..MaxCalls,
           \A m \in OpenMessages(h) : m.calls = <<>>
    PROVE  /\ HistInv(Visible(h), s, n, A, X)
           /\ Queued(Visible(h)) = {m \in Queued(h) : ~ m.partial}
<1> DEFINE S == {m \in ToSet(h) : ~ m.partial}
           v == Visible(h)
<1>1. h \in Seq(Messages) /\ DOMAIN h = 1..Len(h) /\ v = Kept(h, S)
  BY DEF HistInv, Visible
<1>2. v \in Seq(Messages) /\ \E e : IsPlaces(e, v, h, S, Len(h))
  BY <1>1, KeptPlaces
<1>3. PICK e : IsPlaces(e, v, h, S, Len(h))
  BY <1>2
<1>4. Queued(v) = {m \in Queued(h) : ~ m.partial}
  <2>1. Queued(v) = Queued(h) \cap S /\ ToSet(h) = Queued(h)
    BY <1>1, KeptProperties, ToSetQueued
  <2> QED
    BY <2>1
<1>5. \A k \in DOMAIN h : h[k] \in S <=> ~ h[k].partial
  BY ToSetIs
<1> HIDE DEF v, S
<1>6. /\ Selected(e, v, h)
      /\ \A k \in DOMAIN h : ~ h[k].partial => \E i \in DOMAIN v : e[i] = k
      /\ e \in [DOMAIN v -> DOMAIN h] /\ \A i \in DOMAIN v : v[i] = h[e[i]]
  BY <1>1, <1>3, <1>5 DEF IsPlaces, Selected
<1>7. \A k \in DOMAIN h : h[k].partial => ~ IsToolResult(h[k]) /\ \A c : ~ Declares(h[k], c)
  <2> SUFFICES ASSUME NEW k \in DOMAIN h, h[k].partial
               PROVE  ~ IsToolResult(h[k]) /\ \A c : ~ Declares(h[k], c)
    OBVIOUS
  <2>1. h[k].role = "assistant"
    BY DEF HistInv, Shaped
  <2>2. h[k].calls = <<>>
    BY DEF OpenMessages
  <2> QED
    BY <2>1, <2>2, NothingDeclared DEF IsToolResult
<1>8. \A j \in DOMAIN v : IsToolResult(v[j]) => Based(v, v[j].id, X)
  <2> SUFFICES ASSUME NEW j \in DOMAIN v, IsToolResult(v[j])
               PROVE  Based(v, v[j].id, X)
    OBVIOUS
  <2>1. Based(h, v[j].id, X)
    BY <1>6 DEF HistInv
  <2> QED
    BY <1>6, <1>7, <2>1 DEF Based
<1>9. \A i \in DOMAIN v : \A c \in A : Declares(v[i], c) => \E j \in DOMAIN v : Answers(v[j], c)
  <2> SUFFICES ASSUME NEW i \in DOMAIN v, NEW c \in A, Declares(v[i], c)
               PROVE  \E j \in DOMAIN v : Answers(v[j], c)
    OBVIOUS
  <2>1. PICK k \in DOMAIN h : Answers(h[k], c)
    BY <1>6 DEF HistInv
  <2>2. ~ h[k].partial
    BY <1>7, <2>1 DEF Answers
  <2> QED
    BY <1>6, <2>1, <2>2
<1>10. HistInv(v, s, n, A, X)
  <2>1. A \subseteq A
    OBVIOUS
  <2> QED
    BY <1>2, <1>6, <1>8, <1>9, <2>1, HistSelect
<1> QED
  BY <1>4, <1>10 DEF v

(* A request made when no call is open: a provider accepts it, or it shows  *)
(* the results of strays and no assistant message; no answered call has a   *)
(* made-up result in it, and it shows all the user's words.                 *)
LEMMA ProjectIs ==
    ASSUME NEW h, NEW s, NEW n \in Nat, NEW A, NEW X, HistInv(h, s, n, A, X), A \subseteq 1..MaxCalls,
           MaxCalls \in Nat, n <= MaxCalls, \A m \in OpenMessages(h) : m.calls = <<>>
    PROVE  /\ Project(h) \in Wires(A) \cup Strandeds(A, X)
           /\ \A m \in Queued(h) : IsRealUserInput(m) => m \in Queued(Project(h))
<1> DEFINE v == Visible(h)
           W == IF Sizing(h) THEN Strandeds(A, X) ELSE Wires(A)
           seqs == [i \in DOMAIN v |->
                     IF IsToolResult(v[i]) THEN IF Sizing(h) THEN <<v[i]>> ELSE <<>>
                     ELSE IF Vacuous(v[i]) THEN <<>> ELSE Block(v, i)]
<1>1. Project(h) = FlattenSeq(seqs)
  BY DEF Project, Block
<1>2. HistInv(v, s, n, A, X) /\ Queued(v) = {m \in Queued(h) : ~ m.partial}
  BY VisibleInv
<1>3. v \in Seq(Messages) /\ DOMAIN v = 1..Len(v) /\ Len(v) \in Nat
  BY <1>2 DEF HistInv
<1>4. Sizing(h) => \A i \in DOMAIN v : v[i].role # "assistant"
  BY DEF Sizing
<1> HIDE DEF v, W
<1>5. ASSUME NEW i \in DOMAIN v
      PROVE  /\ seqs[i] \in W /\ i \in DOMAIN seqs
             /\ IsRealUserInput(v[i]) => v[i] \in Queued(seqs[i])
  <2>1. <<>> \in W
    BY EmptyWire, EmptyStranded DEF W
  <2>2. i \in DOMAIN seqs
    OBVIOUS
  <2>3. CASE IsToolResult(v[i])
    <3>1. seqs[i] = (IF Sizing(h) THEN <<v[i]>> ELSE <<>>) /\ ~ IsRealUserInput(v[i])
      BY <2>3 DEF IsToolResult, IsRealUserInput
    <3>2. Sizing(h) => <<v[i]>> \in W
      BY <1>2, <1>4, BlockIsStranded DEF W
    <3> QED
      BY <2>1, <2>2, <3>1, <3>2
  <2>4. CASE ~ IsToolResult(v[i]) /\ Vacuous(v[i])
    <3>1. seqs[i] = <<>> /\ ~ IsRealUserInput(v[i])
      BY <2>4 DEF Vacuous, IsRealUserInput
    <3> QED
      BY <2>1, <2>2, <3>1
  <2>5. CASE ~ IsToolResult(v[i]) /\ ~ Vacuous(v[i])
    <3>1. seqs[i] = Block(v, i)
      BY <2>5
    <3>2. CASE Sizing(h)
      <4>1. <<v[i]>> \in Strandeds(A, X) /\ Block(v, i) = <<v[i]>> /\ v[i] \in Queued(Block(v, i))
        BY <1>2, <1>4, <3>2, BlockIsStranded
      <4>2. Block(v, i) \in W
        BY <3>2, <4>1 DEF W
      <4> QED
        BY <2>2, <3>1, <4>1, <4>2
    <3>3. CASE ~ Sizing(h)
      <4>1. Block(v, i) \in W /\ v[i] \in Queued(Block(v, i))
        BY <1>2, <2>5, <3>3, BlockIsWire DEF W
      <4> QED
        BY <2>2, <3>1, <4>1
    <3> QED
      BY <3>2, <3>3
  <2> QED
    BY <2>3, <2>4, <2>5
<1>6. DOMAIN seqs = DOMAIN v /\ seqs = [i \in DOMAIN v |-> seqs[i]]
  OBVIOUS
<1> HIDE DEF seqs
<1>7. seqs \in Seq(W)
  <2> DEFINE l == Len(v)
  <2>1. \A i \in 1..l : seqs[i] \in W
    BY <1>3, <1>5
  <2>2. l \in Nat /\ seqs \in [1..l -> W]
    BY <1>3, <1>6, <2>1
  <2> HIDE DEF l
  <2> QED
    BY <2>2
<1>8. W \in SUBSET Seq(Messages) /\ <<>> \in W /\ \A p, q \in W : p \o q \in W
  <2>1. CASE Sizing(h)
    BY <2>1, EmptyStranded, JoinedStranded DEF W, Strandeds
  <2>2. CASE ~ Sizing(h)
    BY <2>2, EmptyWire, JoinedWire DEF W, Wires
  <2> QED
    BY <2>1, <2>2
<1>9. /\ FlattenSeq(seqs) \in W
      /\ \A i \in DOMAIN seqs : Queued(seqs[i]) \subseteq Queued(FlattenSeq(seqs))
  BY <1>7, <1>8, FlattenIn
<1>10. ASSUME NEW m \in Queued(h), IsRealUserInput(m) PROVE m \in Queued(FlattenSeq(seqs))
  <2>1. ~ m.partial
    <3>1. PICK i \in DOMAIN h : h[i] = m
      BY DEF Queued
    <3>2. Shaped(m, s, n, A) /\ m \in Messages
      BY <3>1 DEF HistInv
    <3> QED
      BY <1>10, <3>2 DEF Shaped, IsRealUserInput
  <2>2. m \in Queued(v)
    BY <1>2, <2>1
  <2>3. PICK i \in DOMAIN v : v[i] = m
    BY <2>2 DEF Queued
  <2> QED
    BY <1>5, <1>6, <1>9, <1>10, <2>3
<1> QED
  BY <1>1, <1>9, <1>10 DEF W

LEMMA RequestIs ==
    ASSUME IInv, phase = "requesting"
    PROVE  /\ Project(fold.history) \in Wires(answered) \cup Strandeds(answered, stray)
           /\ \A m \in Queued(fold.history) :
                 IsRealUserInput(m) => m \in Queued(Project(fold.history))
<1> DEFINE h == fold.history
           s == made.step
           n == made.call
           A == answered
           X == stray
<1>1. /\ HistInv(h, s, n, A, X) /\ n \in Nat /\ n <= MaxCalls /\ MaxCalls \in Nat /\ A \subseteq 1..n
      /\ \A m \in OpenMessages(h) : m.calls = <<>>
  <2>1. unanswered = {}
    BY IInvParts DEF LoopInv
  <2>2. Settled = answered
    BY <2>1 DEF Settled
  <2> QED
    BY <2>2, IInvParts DEF FoldInv, StepInv
<1> HIDE DEF h, s, n, A, X
<1>2. A \subseteq 1..MaxCalls
  BY <1>1
<1>3. /\ Project(h) \in Wires(A) \cup Strandeds(A, X)
      /\ \A m \in Queued(h) : IsRealUserInput(m) => m \in Queued(Project(h))
  BY <1>1, <1>2, ProjectIs
<1> QED
  BY <1>3 DEF h, A, X

LEMMA RequestIsFaithful == IInv => RequestsAreFaithful
<1> SUFFICES ASSUME IInv, phase = "requesting"
             PROVE  /\ WireValid(Project(fold.history)) \/ Stranded(Project(fold.history))
                    /\ \A i \in DOMAIN Project(fold.history) :
                          Project(fold.history)[i].role = "interrupted"
                             => Project(fold.history)[i].id \notin answered
  BY DEF RequestsAreFaithful
<1> DEFINE p == Project(fold.history)
<1>1. p \in Wires(answered) \cup Strandeds(answered, stray)
  BY RequestIs
<1> HIDE DEF p
<1>2. CASE p \in Wires(answered)
  BY <1>2 DEF Wires, p
<1>3. CASE p \in Strandeds(answered, stray)
  BY <1>3 DEF Strandeds, Stranded, p
<1> QED
  BY <1>1, <1>2, <1>3

(* Whatever interrupted the steps before it, a step's request is one a      *)
(* provider accepts, every call with its result right behind it; or, where  *)
(* a clear hit an open step and no assistant message has followed, it shows *)
(* no call, and no result but of calls announced after that clear.  And no  *)
(* result that was recorded is replaced by a made-up one.                   *)
THEOREM RequestsAreFaithfulHolds == Spec => []RequestsAreFaithful
BY ContextInvariant, RequestIsFaithful, PTL

-----------------------------------------------------------------------------
(* The user's words and the turns undo can reach, while the history is      *)
(* edited.                                                                  *)

LEMMA AnchorIs ==
    ASSUME NEW h \in Seq(Messages), NEW i
    PROVE  i \in UndoAnchors(h) <=>
              /\ i \in DOMAIN h /\ h[i].role = "user"
              /\ \A j \in DOMAIN h : j >= i => h[j].role # "summary"
<1>1. DOMAIN h = 1..Len(h) /\ Len(h) \in Nat
  OBVIOUS
<1>2. ASSUME i \in DOMAIN h, NEW j PROVE j \in i..Len(h) <=> j \in DOMAIN h /\ j >= i
  BY <1>1, <1>2
<1> QED
  BY <1>2 DEF UndoAnchors, IsUndoAnchor

LEMMA NothingSaid ==
    /\ WordIds(<<>>) = {} /\ TurnIds(<<>>) = {} /\ AnchorIds(<<>>) = {} /\ Sequent(<<>>)
BY DEF WordIds, TurnIds, AnchorIds, Sequent, UndoAnchors

(* A history goes on.                                                       *)
LEMMA WordsJoin ==
    ASSUME NEW s \in Seq(Messages), NEW t \in Seq(Messages)
    PROVE  /\ WordIds(s \o t) = WordIds(s) \cup WordIds(t)
           /\ TurnIds(s \o t) = TurnIds(s) \cup TurnIds(t)
           /\ Sequent(s) /\ Sequent(t) /\ (\A a \in WordIds(s), b \in WordIds(t) : a < b)
                 => Sequent(s \o t)
           /\ (\A i \in DOMAIN t : t[i].role # "summary")
                 => AnchorIds(s \o t) = AnchorIds(s) \cup TurnIds(t)
           /\ (\E i \in DOMAIN t : t[i].role = "summary") /\ (\A i \in DOMAIN t : ~ IsUndoAnchor(t[i]))
                 => AnchorIds(s \o t) = {}
<1> DEFINE r == s \o t
           l == Len(s)
<1>1. /\ l \in Nat /\ DOMAIN s = 1..l /\ DOMAIN t \subseteq Nat /\ DOMAIN s \subseteq Nat
      /\ \A i \in DOMAIN s : i <= l
      /\ \A i \in DOMAIN t : i >= 1
  OBVIOUS
<1>2. r \in Seq(Messages) /\ IsJoined(r, s, t, l)
  BY ConcatIs
<1> HIDE DEF r, l
<1>3. /\ \A i \in DOMAIN s : i \in DOMAIN r /\ r[i] = s[i]
      /\ \A i \in DOMAIN t : l + i \in DOMAIN r /\ r[l + i] = t[i]
      /\ \A k \in DOMAIN r : k \in DOMAIN s \/ \E i \in DOMAIN t : k = l + i
      /\ DOMAIN r \subseteq Nat
  BY <1>2 DEF IsJoined
<1>4. WordIds(r) = WordIds(s) \cup WordIds(t)
  BY <1>3 DEF WordIds
<1>5. TurnIds(r) = TurnIds(s) \cup TurnIds(t)
  BY <1>3 DEF TurnIds
<1>6. ASSUME Sequent(s), Sequent(t), \A a \in WordIds(s), b \in WordIds(t) : a < b PROVE Sequent(r)
  <2> SUFFICES ASSUME NEW i \in DOMAIN r, NEW j \in DOMAIN r,
                      IsRealUserInput(r[i]), IsRealUserInput(r[j]), i < j
               PROVE  r[i].id < r[j].id
    BY DEF Sequent
  <2>1. CASE i \in DOMAIN s /\ j \in DOMAIN s
    BY <1>3, <1>6, <2>1 DEF Sequent
  <2>2. CASE \E a, b \in DOMAIN t : i = l + a /\ j = l + b
    <3>1. PICK a \in DOMAIN t, b \in DOMAIN t : i = l + a /\ j = l + b
      BY <2>2
    <3>2. a < b
      BY <1>1, <3>1
    <3> QED
      BY <1>3, <1>6, <3>1, <3>2 DEF Sequent
  <2>3. CASE i \in DOMAIN s /\ \E b \in DOMAIN t : j = l + b
    <3>1. r[i].id \in WordIds(s) /\ r[j].id \in WordIds(t)
      BY <1>3, <2>3 DEF WordIds
    <3> QED
      BY <1>6, <3>1
  <2>4. CASE j \in DOMAIN s /\ \E a \in DOMAIN t : i = l + a
    BY <1>1, <2>4
  <2> QED
    BY <1>3, <2>1, <2>2, <2>3, <2>4
<1>7. ASSUME \A i \in DOMAIN t : t[i].role # "summary"
      PROVE  AnchorIds(r) = AnchorIds(s) \cup TurnIds(t)
  <2>1. ASSUME NEW i \in DOMAIN s PROVE i \in UndoAnchors(r) <=> i \in UndoAnchors(s)
    BY <1>2, <1>3, <1>7, AnchorIs
  <2>2. ASSUME NEW a \in DOMAIN t PROVE l + a \in UndoAnchors(r) <=> IsUndoAnchor(t[a])
    <3>1. ASSUME NEW j \in DOMAIN r, j >= l + a PROVE r[j].role # "summary"
      <4>1. j \notin DOMAIN s
        BY <1>1, <3>1
      <4> QED
        BY <1>3, <1>7, <4>1
    <3> QED
      BY <1>2, <1>3, <3>1, AnchorIs DEF IsUndoAnchor
  <2>3. \A k \in UndoAnchors(r) : k \in DOMAIN r
    BY DEF UndoAnchors
  <2>4. \A k \in UndoAnchors(s) : k \in DOMAIN s
    BY DEF UndoAnchors
  <2>5. ASSUME NEW x PROVE x \in AnchorIds(r) <=> x \in AnchorIds(s) \cup TurnIds(t)
    <3>1. ASSUME x \in AnchorIds(r) PROVE x \in AnchorIds(s) \cup TurnIds(t)
      <4>1. PICK k \in UndoAnchors(r) : x = r[k].id
        BY <3>1 DEF AnchorIds
      <4>2. CASE k \in DOMAIN s
        BY <1>3, <2>1, <4>1, <4>2 DEF AnchorIds
      <4>3. CASE \E a \in DOMAIN t : k = l + a
        BY <1>3, <2>2, <4>1, <4>3 DEF TurnIds
      <4> QED
        BY <1>3, <2>3, <4>2, <4>3
    <3>2. ASSUME x \in AnchorIds(s) PROVE x \in AnchorIds(r)
      BY <1>3, <2>1, <2>4, <3>2 DEF AnchorIds
    <3>3. ASSUME x \in TurnIds(t) PROVE x \in AnchorIds(r)
      BY <1>3, <2>2, <3>3 DEF AnchorIds, TurnIds
    <3> QED
      BY <3>1, <3>2, <3>3
  <2> QED
    BY <2>5
<1>8. ASSUME NEW a \in DOMAIN t, t[a].role = "summary", \A i \in DOMAIN t : ~ IsUndoAnchor(t[i])
      PROVE  AnchorIds(r) = {}
  <2> SUFFICES ASSUME NEW k \in UndoAnchors(r) PROVE FALSE
    BY DEF AnchorIds
  <2>1. k \in DOMAIN r /\ r[k].role = "user" /\ \A j \in DOMAIN r : j >= k => r[j].role # "summary"
    BY <1>2, AnchorIs
  <2>2. k \in DOMAIN s
    BY <1>3, <1>8, <2>1 DEF IsUndoAnchor
  <2>3. l + a >= k
    BY <1>1, <2>2
  <2> QED
    BY <1>3, <1>8, <2>1, <2>3
<1> QED
  BY <1>4, <1>6, <1>7, <1>8, <1>5 DEF r

(* Messages of an assistant are edited or left out.                         *)
Reshaped(e, r, h) ==
    /\ e \in [DOMAIN r -> DOMAIN h]
    /\ \A i \in DOMAIN r : r[i].role = h[e[i]].role /\ r[i].id = h[e[i]].id
    /\ \A i, j \in DOMAIN r : i < j => e[i] < e[j]
    /\ \A k \in DOMAIN h : h[k].role # "assistant" => \E i \in DOMAIN r : e[i] = k

LEMMA ToldReshaped ==
    ASSUME NEW h \in Seq(Messages), NEW r \in Seq(Messages), NEW e, Reshaped(e, r, h),
           NEW d, NEW count, NEW said, NEW turns, Told(h, d, count, said, turns)
    PROVE  Told(r, d, count, said, turns)
<1>1. /\ e \in [DOMAIN r -> DOMAIN h]
      /\ \A i \in DOMAIN r : r[i].role = h[e[i]].role /\ r[i].id = h[e[i]].id
      /\ \A i, j \in DOMAIN r : i < j => e[i] < e[j]
      /\ \A k \in DOMAIN h : h[k].role # "assistant" => \E i \in DOMAIN r : e[i] = k
  BY DEF Reshaped
<1>2. \A i \in DOMAIN r : IsRealUserInput(r[i]) <=> IsRealUserInput(h[e[i]])
  BY <1>1 DEF IsRealUserInput
<1>3. \A k \in DOMAIN h : IsRealUserInput(h[k]) \/ h[k].role \in {"user", "summary"} =>
         \E i \in DOMAIN r : e[i] = k
  BY <1>1 DEF IsRealUserInput
<1>4. WordIds(r) = WordIds(h)
  <2>1. WordIds(r) \subseteq WordIds(h)
    BY <1>1, <1>2 DEF WordIds
  <2>2. ASSUME NEW k \in DOMAIN h, IsRealUserInput(h[k]) PROVE h[k].id \in WordIds(r)
    <3>1. PICK i \in DOMAIN r : e[i] = k
      BY <1>3, <2>2
    <3> QED
      BY <1>1, <1>2, <2>2, <3>1 DEF WordIds
  <2> QED
    BY <2>1, <2>2 DEF WordIds
<1>5. Sequent(h) => Sequent(r)
  BY <1>1, <1>2 DEF Sequent
<1>6. \A i, j \in DOMAIN r : j >= i <=> e[j] >= e[i]
  <2> SUFFICES ASSUME NEW i \in DOMAIN r, NEW j \in DOMAIN r PROVE j >= i <=> e[j] >= e[i]
    OBVIOUS
  <2>1. i \in Nat /\ j \in Nat /\ e[i] \in Nat /\ e[j] \in Nat
    <3>1. DOMAIN h \subseteq Nat /\ DOMAIN r \subseteq Nat
      OBVIOUS
    <3> QED
      BY <1>1, <3>1
  <2>2. (i < j => e[i] < e[j]) /\ (j < i => e[j] < e[i]) /\ (i = j => e[i] = e[j])
    BY <1>1
  <2> QED
    BY <2>1, <2>2
<1>7. ASSUME NEW i \in DOMAIN r PROVE i \in UndoAnchors(r) <=> e[i] \in UndoAnchors(h)
  <2>1. (\A j \in DOMAIN r : j >= i => r[j].role # "summary")
          <=> (\A k \in DOMAIN h : k >= e[i] => h[k].role # "summary")
    <3>1. ASSUME NEW k \in DOMAIN h, k >= e[i], h[k].role = "summary"
          PROVE  \E j \in DOMAIN r : j >= i /\ r[j].role = "summary"
      <4>1. PICK j \in DOMAIN r : e[j] = k
        BY <1>3, <3>1
      <4> QED
        BY <1>1, <1>6, <3>1, <4>1
    <3>2. ASSUME NEW j \in DOMAIN r, j >= i, r[j].role = "summary"
          PROVE  e[j] \in DOMAIN h /\ e[j] >= e[i] /\ h[e[j]].role = "summary"
      BY <1>1, <1>6, <3>2
    <3> QED
      BY <3>1, <3>2
  <2> QED
    BY <1>1, <2>1, AnchorIs
<1>8. AnchorIds(r) = AnchorIds(h)
  <2>1. ASSUME NEW i \in UndoAnchors(r) PROVE r[i].id \in AnchorIds(h)
    <3>1. i \in DOMAIN r
      BY DEF UndoAnchors
    <3> QED
      BY <1>1, <1>7, <3>1 DEF AnchorIds
  <2>2. ASSUME NEW k \in UndoAnchors(h) PROVE h[k].id \in AnchorIds(r)
    <3>1. k \in DOMAIN h /\ h[k].role = "user"
      BY AnchorIs
    <3>2. PICK i \in DOMAIN r : e[i] = k
      BY <1>3, <3>1
    <3> QED
      BY <1>1, <1>7, <3>2 DEF AnchorIds
  <2> QED
    BY <2>1, <2>2 DEF AnchorIds
<1> QED
  BY <1>4, <1>5, <1>8 DEF Told

(* Nothing is said and no turn begins; the messages so far stay the same.   *)
LEMMA SameWords ==
    ASSUME NEW t, \A i \in DOMAIN t : ~ IsRealUserInput(t[i])
    PROVE  WordIds(t) = {} /\ TurnIds(t) = {} /\ Sequent(t)
BY DEF WordIds, TurnIds, Sequent, IsRealUserInput, IsUndoAnchor

(* More prompts were made than those that are told.                         *)
LEMMA ToldSpoken ==
    ASSUME NEW h \in Seq(Messages), NEW d \in Seq(Messages), NEW t \in Seq(Messages),
           NEW c \in Nat, NEW c2 \in Nat, c <= c2, NEW said, NEW turns, Told(h, d, c, said, turns),
           Sequent(t), WordIds(t) \subseteq (c + 1)..c2, \A i \in DOMAIN t : t[i].role # "summary"
    PROVE  /\ Told(h, d \o t, c2, said \cup WordIds(t), turns \cup TurnIds(t))
           /\ d = <<>> => Told(h \o t, <<>>, c2, said \cup WordIds(t), turns \cup TurnIds(t))
<1>1. /\ Sequent(h) /\ Sequent(d) /\ WordIds(h) \cup WordIds(d) \subseteq 1..c
      /\ \A a \in WordIds(h), b \in WordIds(d) : a < b
      /\ said \subseteq WordIds(h) \cup WordIds(d)
      /\ turns = AnchorIds(h) \cup TurnIds(d)
  BY DEF Told
<1>2. \A a \in 1..c, b \in (c + 1)..c2 : a < b /\ a \in 1..c2 /\ b \in 1..c2
  OBVIOUS
<1>3. \A a \in WordIds(h) \cup WordIds(d), b \in WordIds(t) : a < b
  BY <1>1, <1>2
<1>4. WordIds(h) \cup WordIds(d) \cup WordIds(t) \subseteq 1..c2
  <2>1. 1..c \subseteq 1..c2 /\ (c + 1)..c2 \subseteq 1..c2
    OBVIOUS
  <2> QED
    BY <1>1, <2>1
<1>5. Told(h, d \o t, c2, said \cup WordIds(t), turns \cup TurnIds(t))
  <2> DEFINE r == d \o t
  <2>1. WordIds(r) = WordIds(d) \cup WordIds(t) /\ TurnIds(r) = TurnIds(d) \cup TurnIds(t) /\ Sequent(r)
    BY <1>1, <1>3, WordsJoin
  <2> HIDE DEF r
  <2>2. Told(h, r, c2, said \cup WordIds(t), turns \cup TurnIds(t))
    BY <1>1, <1>3, <1>4, <2>1 DEF Told
  <2> QED
    BY <2>2 DEF r
<1>6. ASSUME d = <<>>
      PROVE  Told(h \o t, <<>>, c2, said \cup WordIds(t), turns \cup TurnIds(t))
  <2> DEFINE r == h \o t
  <2>1. /\ WordIds(r) = WordIds(h) \cup WordIds(t) /\ AnchorIds(r) = AnchorIds(h) \cup TurnIds(t)
        /\ Sequent(r)
    BY <1>1, <1>3, WordsJoin
  <2>2. WordIds(d) = {} /\ TurnIds(d) = {}
    BY <1>6, NothingSaid
  <2> HIDE DEF r
  <2>3. Told(r, <<>>, c2, said \cup WordIds(t), turns \cup TurnIds(t))
    BY <1>1, <1>3, <1>4, <2>1, <2>2, NothingSaid DEF Told
  <2> QED
    BY <2>3 DEF r
<1> QED
  BY <1>5, <1>6

(* What nobody said comes to the end of the history, before what is parked. *)
LEMMA ToldBeside ==
    ASSUME NEW h \in Seq(Messages), NEW t \in Seq(Messages), NEW d, NEW c, NEW said, NEW turns,
           Told(h, d, c, said, turns),
           \A i \in DOMAIN t : ~ IsRealUserInput(t[i]) /\ t[i].role # "summary"
    PROVE  Told(h \o t, d, c, said, turns)
<1> DEFINE r == h \o t
<1>1. WordIds(t) = {} /\ TurnIds(t) = {} /\ Sequent(t)
  BY SameWords
<1>2. Sequent(h)
  BY DEF Told
<1>3. WordIds(r) = WordIds(h) /\ AnchorIds(r) = AnchorIds(h) /\ Sequent(r)
  <2>1. /\ \A i \in DOMAIN t : t[i].role # "summary"
        /\ \A a \in WordIds(h), b \in WordIds(t) : a < b
    BY <1>1
  <2>2. AnchorIds(r) = AnchorIds(h) \cup TurnIds(t)
    BY <2>1, WordsJoin
  <2>3. WordIds(r) = WordIds(h) \cup WordIds(t)
    BY WordsJoin
  <2>4. Sequent(r)
    BY <1>1, <1>2, <2>1, WordsJoin
  <2> QED
    BY <1>1, <2>2, <2>3, <2>4
<1> HIDE DEF r
<1>4. Told(r, d, c, said, turns)
  BY <1>3 DEF Told
<1> QED
  BY <1>4 DEF r

(* What was parked is flushed.                                              *)
LEMMA ToldFlushed ==
    ASSUME NEW h \in Seq(Messages), NEW d \in Seq(Parked), NEW c, NEW said, NEW turns,
           Told(h, d, c, said, turns)
    PROVE  Told(h \o d, <<>>, c, said, turns)
<1> DEFINE r == h \o d
<1>1. d \in Seq(Messages) /\ \A i \in DOMAIN d : d[i].role # "summary"
  <2>1. ASSUME NEW i \in DOMAIN d PROVE d[i].role # "summary"
    <3>1. d[i] \in Parked
      OBVIOUS
    <3> QED
      BY <3>1 DEF Parked
  <2> QED
    BY <2>1, SeqOfParked
<1>2. Sequent(h) /\ Sequent(d) /\ \A a \in WordIds(h), b \in WordIds(d) : a < b
  BY DEF Told
<1>3. WordIds(r) = WordIds(h) \cup WordIds(d) /\ AnchorIds(r) = AnchorIds(h) \cup TurnIds(d) /\ Sequent(r)
  BY <1>1, <1>2, WordsJoin
<1> HIDE DEF r
<1>4. Told(r, <<>>, c, said, turns)
  BY <1>3, NothingSaid DEF Told
<1> QED
  BY <1>4 DEF r

(* A message is edited and stays what it was.                               *)
LEMMA ToldEdited ==
    ASSUME NEW h \in Seq(Messages), NEW i \in DOMAIN h, NEW m \in Messages,
           m.role = h[i].role, m.id = h[i].id,
           NEW d, NEW c, NEW said, NEW turns, Told(h, d, c, said, turns)
    PROVE  Told([h EXCEPT ![i] = m], d, c, said, turns)
<1> DEFINE r == [h EXCEPT ![i] = m]
           e == [k \in DOMAIN h |-> k]
<1>1. r \in Seq(Messages) /\ DOMAIN r = DOMAIN h /\ r[i] = m /\ \A k \in DOMAIN h \ {i} : r[k] = h[k]
  OBVIOUS
<1> HIDE DEF r
<1>2. Reshaped(e, r, h)
  BY <1>1 DEF Reshaped
<1> HIDE DEF e
<1>3. Told(r, d, c, said, turns)
  BY <1>1, <1>2, ToldReshaped
<1> QED
  BY <1>3 DEF r

(* A message of the assistant is left out.                                  *)
LEMMA ToldDropped ==
    ASSUME NEW h \in Seq(Messages), NEW i \in DOMAIN h, h[i].role = "assistant",
           NEW d, NEW c, NEW said, NEW turns, Told(h, d, c, said, turns)
    PROVE  Told(RemoveAt(h, i), d, c, said, turns)
<1> DEFINE r == Taken(h, i)
           e == [j \in DOMAIN r |-> IF j < i THEN j ELSE j + 1]
<1>2. RemoveAt(h, i) = r /\ r \in Seq(Messages)
  BY SplicedIsTaken, TakenType DEF RemoveAt
<1>3. /\ Len(h) \in Nat /\ DOMAIN h = 1..Len(h) /\ i \in 1..Len(h) /\ i \in Nat
      /\ DOMAIN r = 1..(Len(h) - 1)
      /\ \A j \in 1..(Len(h) - 1) : r[j] = IF j < i THEN h[j] ELSE h[j + 1]
  BY DEF Taken
<1> HIDE DEF r
<1>4. Reshaped(e, r, h)
  <2>1. \A j \in DOMAIN r : e[j] \in DOMAIN h /\ r[j] = h[e[j]]
    BY <1>3
  <2>2. \A j, k \in DOMAIN r : j < k => e[j] < e[k]
    BY <1>3
  <2>3. ASSUME NEW k \in DOMAIN h, h[k].role # "assistant" PROVE \E j \in DOMAIN r : e[j] = k
    <3>1. k # i
      BY <2>3
    <3>2. CASE k < i
      BY <1>3, <3>2
    <3>3. CASE k > i
      <4>1. k - 1 \in DOMAIN r /\ e[k - 1] = k
        BY <1>3, <3>3
      <4> QED
        BY <4>1
    <3> QED
      BY <1>3, <3>1, <3>2, <3>3
  <2>4. e \in [DOMAIN r -> DOMAIN h]
    BY <2>1
  <2> HIDE DEF e
  <2> QED
    BY <2>1, <2>2, <2>3, <2>4 DEF Reshaped
<1> HIDE DEF e
<1>5. Told(r, d, c, said, turns)
  BY <1>2, <1>4, ToldReshaped
<1> QED
  BY <1>2, <1>5

LEMMA FoldTypes ==
    ASSUME NEW f, NEW s, NEW n, NEW A, NEW X, FoldInv(f, s, n, A, X)
    PROVE  /\ IsFold(f) /\ f.history \in Seq(Messages) /\ f.deferred \in Seq(Parked)
           /\ f.deferred \in Seq(Messages) /\ (f.pending = <<>> => f.deferred = <<>>)
<1>1. IsFold(f) /\ f.history \in Seq(Messages) /\ f.deferred \in Seq(Parked)
  BY DEF FoldInv, IsFold, HistInv
<1>2. f.pending = <<>> => f.deferred = <<>>
  BY DEF FoldInv
<1> QED
  BY <1>1, <1>2, SeqOfParked

LEMMA OneSaid ==
    ASSUME NEW m
    PROVE  /\ WordIds(<<m>>) = (IF IsRealUserInput(m) THEN {m.id} ELSE {})
           /\ TurnIds(<<m>>) = (IF IsUndoAnchor(m) THEN {m.id} ELSE {})
           /\ Sequent(<<m>>)
<1> DEFINE t == <<m>>
<1>1. DOMAIN t = {1} /\ t[1] = m
  OBVIOUS
<1> HIDE DEF t
<1>2. /\ WordIds(t) = (IF IsRealUserInput(m) THEN {m.id} ELSE {})
      /\ TurnIds(t) = (IF IsUndoAnchor(m) THEN {m.id} ELSE {})
  BY <1>1 DEF WordIds, TurnIds
<1>3. Sequent(t)
  <2>1. \A i, j \in DOMAIN t : ~ (i < j)
    BY <1>1
  <2> QED
    BY <2>1 DEF Sequent
<1> QED
  BY <1>2, <1>3 DEF t

(* A message is appended, or parked.                                        *)
LEMMA AppendMessageTold ==
    ASSUME NEW f, NEW s, NEW n, NEW A, NEW X, FoldInv(f, s, n, A, X), NEW m \in Parked,
           NEW c \in Nat, NEW c2 \in Nat, c <= c2, NEW said, NEW turns, Tells(f, c, said, turns),
           WordIds(<<m>>) \subseteq (c + 1)..c2
    PROVE  Tells(AppendMessage(f, m), c2, said \cup WordIds(<<m>>), turns \cup TurnIds(<<m>>))
<1> DEFINE h == f.history
           d == f.deferred
           t == <<m>>
           said2 == said \cup WordIds(t)
           turns2 == turns \cup TurnIds(t)
<1>1. IsFold(f) /\ h \in Seq(Messages) /\ d \in Seq(Messages) /\ (f.pending = <<>> => d = <<>>)
  BY FoldTypes
<1>2. m \in Messages /\ m.role # "summary"
  BY ParkedIs
<1>3. /\ t \in Seq(Messages) /\ DOMAIN t = {1} /\ t[1] = m
      /\ Append(h, m) = h \o t /\ Append(d, m) = d \o t
  BY <1>1, <1>2, AppendIs
<1>4. Sequent(t) /\ \A i \in DOMAIN t : t[i].role # "summary"
  BY <1>2, <1>3, OneSaid
<1>5. Told(h, d, c, said, turns)
  BY DEF Tells
<1> HIDE DEF t
<1>6. /\ Told(h, d \o t, c2, said2, turns2)
      /\ d = <<>> => Told(h \o t, <<>>, c2, said2, turns2)
  BY <1>1, <1>3, <1>4, <1>5, ToldSpoken DEF t
<1>7. AppendMessage(f, m) = IF f.pending # <<>> THEN [f EXCEPT !.deferred = d \o t]
                            ELSE [f EXCEPT !.history = h \o t]
  BY <1>3 DEF AppendMessage
<1> DEFINE x == d \o t
           y == h \o t
<1>8. f = [history |-> h, pending |-> f.pending, deferred |-> d]
  BY <1>1 DEF IsFold
<1> HIDE DEF h, d, x, y, said2, turns2
<1>9. CASE f.pending # <<>>
  <2>1. AppendMessage(f, m).history = h /\ AppendMessage(f, m).deferred = x
    BY <1>7, <1>8, <1>9 DEF x
  <2>2. Tells(AppendMessage(f, m), c2, said2, turns2)
    BY <1>6, <2>1 DEF Tells, x
  <2> QED
    BY <2>2 DEF said2, turns2, t
<1>10. CASE f.pending = <<>>
  <2>1. d = <<>>
    BY <1>1, <1>10 DEF d
  <2>2. AppendMessage(f, m).history = y /\ AppendMessage(f, m).deferred = <<>>
    BY <1>7, <1>8, <1>10, <2>1 DEF y
  <2>3. Tells(AppendMessage(f, m), c2, said2, turns2)
    BY <1>6, <2>1, <2>2 DEF Tells, y
  <2> QED
    BY <2>3 DEF said2, turns2, t
<1> QED
  BY <1>9, <1>10

(* The open message gets text or a call.                                    *)
LEMMA ContentPartTold ==
    ASSUME NEW f, NEW s, NEW n, NEW A, NEW X, FoldInv(f, s, n, A, X), NEW c, NEW said, NEW turns,
           Tells(f, c, said, turns)
    PROVE  Tells(ContentPart(f), c, said, turns)
<1> DEFINE h == f.history
           i == OpenAssistant(h)
           m == [h[i] EXCEPT !.text = TRUE]
           r == [h EXCEPT ![i] = m]
<1>1. CASE i = 0
  BY <1>1 DEF ContentPart
<1>2. CASE i # 0
  <2>1. i \in DOMAIN h /\ h[i] \in Messages
    BY <1>2, FoldOpen
  <2>2. ContentPart(f) = [f EXCEPT !.history = r]
    <3>1. ContentPart(f) = [f EXCEPT !.history[i].text = TRUE]
      BY <1>2 DEF ContentPart
    <3> QED
      BY <3>1
  <2>3. IsFold(f) /\ h \in Seq(Messages) /\ Told(h, f.deferred, c, said, turns)
    BY FoldTypes DEF Tells
  <2> HIDE DEF h, i
  <2>4. m \in Messages /\ m.role = h[i].role /\ m.id = h[i].id
    BY <2>1 DEF Messages
  <2> HIDE DEF m
  <2>5. Told(r, f.deferred, c, said, turns)
    BY <2>1, <2>3, <2>4, ToldEdited
  <2> HIDE DEF r
  <2>6. ContentPart(f).history = r /\ ContentPart(f).deferred = f.deferred
    BY <2>2, <2>3 DEF IsFold
  <2> QED
    BY <2>5, <2>6 DEF Tells
<1> QED
  BY <1>1, <1>2

LEMMA ToolCallTold ==
    ASSUME NEW f, NEW s, NEW n, NEW A, NEW X, FoldInv(f, s, n, A, X), NEW c, NEW said, NEW turns,
           Tells(f, c, said, turns), NEW call \in 1..MaxCalls
    PROVE  Tells(ToolCall(f, call), c, said, turns)
<1> DEFINE h == f.history
           i == OpenAssistant(h)
           m == [h[i] EXCEPT !.calls = Append(@, call)]
           r == [h EXCEPT ![i] = m]
           p == Append(f.pending, call)
<1>0. CASE i = 0
  <2>1. ToolCall(f, call) = [f EXCEPT !.pending = p]
    BY <1>0 DEF ToolCall
  <2>2. IsFold(f)
    BY FoldTypes
  <2> HIDE DEF p
  <2>3. ToolCall(f, call).history = f.history /\ ToolCall(f, call).deferred = f.deferred
    BY <2>1, <2>2 DEF IsFold
  <2> QED
    BY <2>3 DEF Tells
<1> SUFFICES ASSUME i # 0 PROVE Tells(ToolCall(f, call), c, said, turns)
  BY <1>0
<1>1. i \in DOMAIN h /\ h[i] \in Messages /\ i # 0
  BY FoldOpen
<1>2. IsFold(f) /\ h \in Seq(Messages) /\ Told(h, f.deferred, c, said, turns)
  BY FoldTypes DEF Tells
<1>3. ToolCall(f, call) = [f EXCEPT !.pending = p, !.history = r]
  <2>1. ToolCall(f, call) = [[f EXCEPT !.pending = p] EXCEPT !.history[i].calls = Append(@, call)]
    BY <1>1 DEF ToolCall
  <2>2. f = [history |-> h, pending |-> f.pending, deferred |-> f.deferred]
    BY <1>2 DEF IsFold
  <2> QED
    BY <2>1, <2>2
<1> HIDE DEF h, i, p
<1>4. m \in Messages /\ m.role = h[i].role /\ m.id = h[i].id
  <2> DEFINE k == Append(h[i].calls, call)
  <2>1. k \in Seq(1..MaxCalls)
    <3>1. h[i].calls \in Seq(1..MaxCalls)
      BY <1>1 DEF Messages
    <3> QED
      BY <3>1
  <2>2. m = [h[i] EXCEPT !.calls = k]
    OBVIOUS
  <2> HIDE DEF k, m
  <2> QED
    BY <1>1, <2>1, <2>2 DEF Messages
<1> HIDE DEF m
<1>5. Told(r, f.deferred, c, said, turns)
  BY <1>1, <1>2, <1>4, ToldEdited
<1> HIDE DEF r
<1>6. ToolCall(f, call).history = r /\ ToolCall(f, call).deferred = f.deferred
  BY <1>2, <1>3 DEF IsFold
<1> QED
  BY <1>5, <1>6 DEF Tells

LEMMA FlushTold ==
    ASSUME NEW g, IsFold(g), g.history \in Seq(Messages), g.deferred \in Seq(Parked),
           NEW c, NEW said, NEW turns, Tells(g, c, said, turns)
    PROVE  Tells(FlushDeferred(g), c, said, turns)
<1> DEFINE r == g.history \o g.deferred
<1>1. CASE g.pending # <<>>
  BY <1>1 DEF FlushDeferred
<1>2. CASE g.pending = <<>>
  <2>1. Told(g.history, g.deferred, c, said, turns)
    BY DEF Tells
  <2>2. Told(r, <<>>, c, said, turns)
    BY <2>1, ToldFlushed
  <2>3. FlushDeferred(g) = [g EXCEPT !.history = r, !.deferred = <<>>]
    BY <1>2 DEF FlushDeferred
  <2> HIDE DEF r
  <2>4. FlushDeferred(g).history = r /\ FlushDeferred(g).deferred = <<>>
    BY <2>3 DEF IsFold
  <2> QED
    BY <2>2, <2>4 DEF Tells
<1> QED
  BY <1>1, <1>2

(* A call is answered; it may be the last that was open.                    *)
LEMMA ToolResultTold ==
    ASSUME NEW f, NEW s, NEW n \in Nat, NEW A, NEW X, FoldInv(f, s, n, A, X), NEW c, NEW said, NEW turns,
           Tells(f, c, said, turns), NEW call \in ToSet(f.pending)
    PROVE  Tells(ToolResult(f, call), c, said, turns)
<1> DEFINE h == f.history
           d == f.deferred
           m == Message("tool", call)
           t == <<m>>
           r == h \o t
           p == Kept(f.pending, ToSet(f.pending) \ {call})
           g == [f EXCEPT !.history = r, !.pending = p]
<1>1. IsFold(f) /\ h \in Seq(Messages) /\ d \in Seq(Parked) /\ Told(h, d, c, said, turns)
  BY FoldTypes DEF Tells
<1>2. call \in Nat
  <2>1. f.pending \in Seq(1..n)
    BY DEF FoldInv
  <2> QED
    BY <2>1 DEF ToSet
<1>3. m \in Messages /\ m.role = "tool"
  BY <1>2, MessageType DEF Roles
<1> HIDE DEF m
<1>4. Append(h, m) = r /\ t \in Seq(Messages) /\ DOMAIN t = {1} /\ t[1] = m
  BY <1>1, <1>3, AppendIs
<1> HIDE DEF t, p
<1>5. ToolResult(f, call) = FlushDeferred(g)
  BY <1>4 DEF ToolResult, m, p
<1>6. Told(r, d, c, said, turns)
  <2>1. \A i \in DOMAIN t : ~ IsRealUserInput(t[i]) /\ t[i].role # "summary"
    BY <1>3, <1>4 DEF IsRealUserInput
  <2> QED
    BY <1>1, <1>4, <2>1, ToldBeside
<1>7. r \in Seq(Messages)
  BY <1>1, <1>4, ConcatIs
<1> HIDE DEF r
<1>8. g = [history |-> r, pending |-> p, deferred |-> d]
  <2>1. g = [f EXCEPT !.history = r, !.pending = p]
    OBVIOUS
  <2> HIDE DEF g
  <2> QED
    BY <1>1, <2>1 DEF IsFold
<1> HIDE DEF g
<1>9. IsFold(g) /\ g.history = r /\ g.deferred = d
  BY <1>8 DEF IsFold
<1>10. Tells(g, c, said, turns)
  BY <1>6, <1>9 DEF Tells
<1> QED
  BY <1>1, <1>5, <1>7, <1>9, <1>10, FlushTold

(* A step that is left open is settled, with no call open.                  *)
LEMMA SettleTold ==
    ASSUME NEW f, NEW s, NEW n, NEW A, NEW X, FoldInv(f, s, n, A, X), NEW c, NEW said, NEW turns,
           Tells(f, c, said, turns), f.pending = <<>>
    PROVE  Tells(SettleOpenStep(f), c, said, turns)
<1> DEFINE h == f.history
           d == f.deferred
           i == OpenAssistant(h)
<1>1. IsFold(f) /\ h \in Seq(Messages) /\ Told(h, d, c, said, turns)
  BY FoldTypes DEF Tells
<1>2. i = 0 \/ (i \in DOMAIN h /\ h[i].role = "assistant" /\ h[i] \in Messages)
  BY FoldOpen
<1>3. SettleOpenStep(f) = IF i = 0 THEN f
                          ELSE IF Vacuous(h[i]) THEN [f EXCEPT !.history = RemoveAt(h, i)]
                          ELSE [f EXCEPT !.history = [h EXCEPT ![i].partial = FALSE]]
  BY DEF SettleOpenStep, ClosePending
<1> HIDE DEF h, i, d
<1>4. ASSUME NEW r, Told(r, d, c, said, turns), SettleOpenStep(f) = [f EXCEPT !.history = r]
      PROVE  Tells(SettleOpenStep(f), c, said, turns)
  <2>1. SettleOpenStep(f).history = r /\ SettleOpenStep(f).deferred = d
    BY <1>1, <1>4 DEF IsFold, d
  <2> QED
    BY <1>4, <2>1 DEF Tells
<1>5. CASE i = 0
  BY <1>3, <1>5
<1>6. CASE i # 0 /\ Vacuous(h[i])
  <2> DEFINE r == RemoveAt(h, i)
  <2>1. Told(r, d, c, said, turns)
    BY <1>1, <1>2, <1>6, ToldDropped
  <2>2. SettleOpenStep(f) = [f EXCEPT !.history = r]
    BY <1>3, <1>6
  <2> HIDE DEF r
  <2> QED
    BY <1>4, <2>1, <2>2
<1>7. CASE i # 0 /\ ~ Vacuous(h[i])
  <2> DEFINE m == [h[i] EXCEPT !.partial = FALSE]
             r == [h EXCEPT ![i] = m]
  <2>1. SettleOpenStep(f) = [f EXCEPT !.history = r]
    BY <1>3, <1>7
  <2>2. m \in Messages /\ m.role = h[i].role /\ m.id = h[i].id
    BY <1>2, <1>7 DEF Messages
  <2> HIDE DEF m
  <2>3. Told(r, d, c, said, turns)
    BY <1>1, <1>2, <1>7, <2>2, ToldEdited
  <2> HIDE DEF r
  <2> QED
    BY <1>4, <2>1, <2>3
<1> QED
  BY <1>5, <1>6, <1>7

LEMMA StepEndTold ==
    ASSUME NEW f, NEW s \in Nat, NEW n \in Nat, NEW A, NEW X, FoldInv(f, s, n, A, X), A \subseteq 1..n,
           MaxCalls \in Nat, n <= MaxCalls, NEW c, NEW said, NEW turns,
           Tells(f, c, said, turns), f.pending = <<>>
    PROVE  Tells(StepEnd(f), c, said, turns)
<1>1. Tells(SettleOpenStep(f), c, said, turns)
  BY SettleTold
<1>2. FoldInv(SettleOpenStep(f), s, n, A, X)
  BY SettleInv
<1>3. /\ IsFold(SettleOpenStep(f)) /\ SettleOpenStep(f).history \in Seq(Messages)
      /\ SettleOpenStep(f).deferred \in Seq(Parked)
  BY <1>2, FoldTypes
<1> QED
  BY <1>1, <1>3, FlushTold DEF StepEnd

LEMMA StepBeginTold ==
    ASSUME NEW f, NEW s \in Nat, NEW n \in Nat, NEW A, NEW X, FoldInv(f, s, n, A, X), A \subseteq 1..n,
           MaxCalls \in Nat, n <= MaxCalls, NEW c, NEW said, NEW turns,
           Tells(f, c, said, turns), f.pending = <<>>, NEW step \in Nat
    PROVE  Tells(StepBegin(f, step), c, said, turns)
<1> DEFINE g == SettleOpenStep(f)
           m == [Message("assistant", step) EXCEPT !.text = FALSE, !.partial = TRUE]
           h == g.history
           t == <<m>>
           r == h \o t
<1>1. Tells(g, c, said, turns)
  BY SettleTold
<1>2. FoldInv(g, s, n, A, X)
  BY SettleInv
<1>3. StepBegin(f, step) = [g EXCEPT !.history = Append(h, m)]
  BY DEF StepBegin
<1> HIDE DEF g
<1>4. IsFold(g) /\ h \in Seq(Messages) /\ Told(h, g.deferred, c, said, turns)
  BY <1>1, <1>2, FoldTypes DEF Tells
<1>5. m \in Messages /\ m.role = "assistant"
  <2> DEFINE b == Message("assistant", step)
  <2>1. b \in Messages /\ b.role = "assistant"
    BY MessageType DEF Roles
  <2>2. m = [b EXCEPT !.text = FALSE, !.partial = TRUE]
    OBVIOUS
  <2> HIDE DEF b, m
  <2> QED
    BY <2>1, <2>2 DEF Messages
<1> HIDE DEF h, m
<1>6. Append(h, m) = r /\ t \in Seq(Messages) /\ DOMAIN t = {1} /\ t[1] = m
  BY <1>4, <1>5, AppendIs
<1> HIDE DEF t
<1>7. Told(r, g.deferred, c, said, turns)
  <2>1. \A i \in DOMAIN t : ~ IsRealUserInput(t[i]) /\ t[i].role # "summary"
    BY <1>5, <1>6 DEF IsRealUserInput
  <2> QED
    BY <1>4, <1>6, <2>1, ToldBeside
<1> HIDE DEF r
<1>8. StepBegin(f, step).history = r /\ StepBegin(f, step).deferred = g.deferred
  BY <1>3, <1>4, <1>6 DEF IsFold
<1> QED
  BY <1>7, <1>8 DEF Tells

(* The summary takes every turn out of undo's reach, and no words.          *)
LEMMA CompactionTold ==
    ASSUME NEW f, NEW s, NEW n, NEW A, NEW X, FoldInv(f, s, n, A, X), NEW c, NEW said, NEW turns,
           Tells(f, c, said, turns), f.deferred = <<>>, NEW k \in Nat
    PROVE  Tells(ApplyCompaction(f, k), c, said, {})
<1> DEFINE h == f.history
           words == {m \in ToSet(h) : IsRealUserInput(m)}
           r == Kept(h, words)
           m == Message("summary", k)
           t == <<m>>
           q == r \o t
<1>1. h \in Seq(Messages) /\ DOMAIN h = 1..Len(h) /\ Told(h, <<>>, c, said, turns)
  BY FoldTypes DEF Tells
<1>2. r \in Seq(Messages) /\ \E e : IsPlaces(e, r, h, words, Len(h))
  BY <1>1, KeptPlaces
<1>3. PICK e : IsPlaces(e, r, h, words, Len(h))
  BY <1>2
<1>4. \A i \in DOMAIN h : h[i] \in words <=> IsRealUserInput(h[i])
  BY ToSetIs
<1>5. m \in Messages /\ m.role = "summary"
  BY MessageType DEF Roles
<1> HIDE DEF m
<1>6. ApplyCompaction(f, k) = Fold(q) /\ t \in Seq(Messages) /\ DOMAIN t = {1} /\ t[1] = m
  <2>1. Append(r, m) = q /\ t \in Seq(Messages) /\ DOMAIN t = {1} /\ t[1] = m
    BY <1>2, <1>5, AppendIs
  <2>2. ApplyCompaction(f, k) = Fold(Append(r, m))
    BY DEF ApplyCompaction, m
  <2> QED
    BY <2>1, <2>2
<1> HIDE DEF h, words, r, t
<1>7. /\ \A i \in DOMAIN r : e[i] \in DOMAIN h /\ r[i] = h[e[i]] /\ IsRealUserInput(r[i])
      /\ \A i, j \in DOMAIN r : i < j => e[i] < e[j]
      /\ \A i \in DOMAIN h : IsRealUserInput(h[i]) => \E j \in DOMAIN r : e[j] = i
  BY <1>1, <1>3, <1>4 DEF IsPlaces
<1>8. /\ Sequent(h) /\ WordIds(h) \subseteq 1..c /\ said \subseteq WordIds(h)
  BY <1>1, NothingSaid DEF Told
<1>9. WordIds(r) = WordIds(h)
  <2>1. WordIds(r) \subseteq WordIds(h)
    BY <1>7 DEF WordIds
  <2>2. ASSUME NEW i \in DOMAIN h, IsRealUserInput(h[i]) PROVE h[i].id \in WordIds(r)
    BY <1>7, <2>2 DEF WordIds
  <2> QED
    BY <2>1, <2>2 DEF WordIds
<1>10. Sequent(r)
  BY <1>7, <1>8 DEF Sequent
<1>11. \A i \in DOMAIN t : t[i].role = "summary" /\ ~ IsRealUserInput(t[i]) /\ ~ IsUndoAnchor(t[i])
  BY <1>5, <1>6 DEF IsRealUserInput, IsUndoAnchor
<1>12. WordIds(t) = {} /\ Sequent(t)
  BY <1>11, SameWords
<1>13. WordIds(q) = WordIds(h)
  <2>1. WordIds(q) = WordIds(r) \cup WordIds(t)
    BY <1>2, <1>6, WordsJoin
  <2> QED
    BY <1>9, <1>12, <2>1
<1>14. Sequent(q)
  <2>1. \A a \in WordIds(r), b \in WordIds(t) : a < b
    BY <1>12
  <2> QED
    BY <1>2, <1>6, <1>10, <1>12, <2>1, WordsJoin
<1>15. AnchorIds(q) = {}
  <2>1. (\E i \in DOMAIN t : t[i].role = "summary") /\ (\A i \in DOMAIN t : ~ IsUndoAnchor(t[i]))
    BY <1>6, <1>11
  <2> QED
    BY <1>2, <1>6, <2>1, WordsJoin
<1> HIDE DEF q
<1>16. Told(q, <<>>, c, said, {})
  BY <1>8, <1>13, <1>14, <1>15, NothingSaid DEF Told
<1>17. Fold(q).history = q /\ Fold(q).deferred = <<>>
  BY DEF Fold
<1> QED
  BY <1>6, <1>16, <1>17 DEF Tells

LEMMA EmptyTold == ASSUME NEW c PROVE Tells(EmptyFold, c, {}, {})
<1>1. EmptyFold.history = <<>> /\ EmptyFold.deferred = <<>>
  BY DEF EmptyFold, Fold
<1>2. Told(<<>>, <<>>, c, {}, {})
  BY NothingSaid DEF Told
<1> QED
  BY <1>1, <1>2 DEF Tells

(* What is left when the turns from a prompt on are taken back.             *)
LEMMA PrefixTold ==
    ASSUME NEW h \in Seq(Messages), NEW c \in Nat, NEW said, NEW turns, Told(h, <<>>, c, said, turns),
           NEW cut \in UndoAnchors(h)
    PROVE  LET first == h[cut].id
           IN  Told(SubSeq(h, 1, cut - 1), <<>>, c, {p \in said : p < first}, {p \in turns : p < first})
<1> DEFINE first == h[cut].id
           r == SubSeq(h, 1, cut - 1)
           said2 == {p \in said : p < first}
           turns2 == {p \in turns : p < first}
<1>1. /\ Sequent(h) /\ WordIds(h) \subseteq 1..c /\ said \subseteq WordIds(h) /\ turns = AnchorIds(h)
  BY NothingSaid DEF Told
<1>2. /\ cut \in DOMAIN h /\ h[cut].role = "user"
      /\ \A j \in DOMAIN h : j >= cut => h[j].role # "summary"
  BY AnchorIs
<1>3. /\ Len(h) \in Nat /\ DOMAIN h = 1..Len(h) /\ cut \in Nat /\ cut <= Len(h)
      /\ r \in Seq(Messages) /\ DOMAIN r = 1..(cut - 1) /\ \A j \in 1..(cut - 1) : r[j] = h[j]
  BY <1>2
<1>4. /\ \A j \in DOMAIN r : j \in DOMAIN h /\ j < cut /\ r[j] = h[j]
      /\ \A j \in DOMAIN h : j < cut => j \in DOMAIN r
      /\ \A j \in DOMAIN h : j \in Nat
  BY <1>3
<1> HIDE DEF r, first
<1>5. IsRealUserInput(h[cut]) /\ first = h[cut].id /\ \A j \in DOMAIN h : h[j].id \in Nat
  <2>1. \A j \in DOMAIN h : h[j].id \in Nat
    BY MessageIs
  <2> QED
    BY <1>2, <2>1 DEF IsRealUserInput, first
<1>6. ASSUME NEW j \in DOMAIN h, IsRealUserInput(h[j]) PROVE h[j].id < first <=> j \in DOMAIN r
  <2>1. CASE j < cut
    BY <1>1, <1>2, <1>4, <1>5, <1>6, <2>1 DEF Sequent
  <2>2. CASE j = cut
    BY <1>4, <1>5, <2>2
  <2>3. CASE j > cut
    <3>1. first < h[j].id
      BY <1>1, <1>2, <1>5, <1>6, <2>3 DEF Sequent
    <3>2. j \notin DOMAIN r
      BY <1>3, <1>4, <2>3
    <3>3. first \in Nat /\ h[j].id \in Nat
      BY <1>2, <1>5
    <3>4. ~ (h[j].id < first)
      BY <3>1, <3>3
    <3> QED
      BY <3>2, <3>4
  <2> QED
    BY <1>3, <1>4, <2>1, <2>2, <2>3
<1>7. Sequent(r)
  BY <1>1, <1>4 DEF Sequent
<1>8. WordIds(r) = {p \in WordIds(h) : p < first}
  <2>1. ASSUME NEW j \in DOMAIN r, IsRealUserInput(r[j]) PROVE r[j].id \in WordIds(h) /\ r[j].id < first
    BY <1>4, <1>6, <2>1 DEF WordIds
  <2>2. ASSUME NEW j \in DOMAIN h, IsRealUserInput(h[j]), h[j].id < first PROVE h[j].id \in WordIds(r)
    BY <1>4, <1>6, <2>2 DEF WordIds
  <2> QED
    BY <2>1, <2>2 DEF WordIds
<1>9. ASSUME NEW j \in DOMAIN r PROVE j \in UndoAnchors(r) <=> j \in UndoAnchors(h)
  <2>1. ASSUME \A k \in DOMAIN r : k >= j => r[k].role # "summary", NEW k \in DOMAIN h, k >= j
        PROVE  h[k].role # "summary"
    <3>1. CASE k < cut
      BY <1>4, <2>1, <3>1
    <3>2. CASE k >= cut
      BY <1>2, <3>2
    <3> QED
      BY <1>3, <1>4, <3>1, <3>2
  <2>2. ASSUME \A k \in DOMAIN h : k >= j => h[k].role # "summary", NEW k \in DOMAIN r, k >= j
        PROVE  r[k].role # "summary"
    BY <1>4, <2>2
  <2>3. j \in DOMAIN h /\ r[j] = h[j] /\ r \in Seq(Messages)
    BY <1>3, <1>4
  <2>4. j \in UndoAnchors(r) <=> r[j].role = "user" /\ \A k \in DOMAIN r : k >= j => r[k].role # "summary"
    BY <2>3, AnchorIs
  <2>5. j \in UndoAnchors(h) <=> h[j].role = "user" /\ \A k \in DOMAIN h : k >= j => h[k].role # "summary"
    BY <2>3, AnchorIs
  <2> QED
    BY <2>1, <2>2, <2>3, <2>4, <2>5
<1>10. AnchorIds(r) = {p \in AnchorIds(h) : p < first}
  <2>1. \A j \in UndoAnchors(h) : j \in DOMAIN h /\ IsRealUserInput(h[j])
    BY AnchorIs DEF IsRealUserInput
  <2>2. \A j \in UndoAnchors(r) : j \in DOMAIN r
    BY DEF UndoAnchors
  <2>3. ASSUME NEW j \in UndoAnchors(r) PROVE r[j].id \in AnchorIds(h) /\ r[j].id < first
    <3>1. j \in DOMAIN r /\ j \in UndoAnchors(h) /\ r[j] = h[j]
      BY <1>4, <1>9, <2>2
    <3> QED
      BY <1>6, <2>1, <3>1 DEF AnchorIds
  <2>4. ASSUME NEW j \in UndoAnchors(h), h[j].id < first PROVE h[j].id \in AnchorIds(r)
    <3>1. j \in DOMAIN r /\ j \in UndoAnchors(r) /\ r[j] = h[j]
      BY <1>4, <1>6, <1>9, <2>1, <2>4
    <3> QED
      BY <3>1 DEF AnchorIds
  <2> QED
    BY <2>3, <2>4 DEF AnchorIds
<1>11. WordIds(r) \subseteq 1..c /\ said2 \subseteq WordIds(r) /\ turns2 = AnchorIds(r)
  BY <1>1, <1>8, <1>10
<1> HIDE DEF said2, turns2
<1>12. Told(r, <<>>, c, said2, turns2)
  BY <1>7, <1>11, NothingSaid DEF Told
<1> QED
  BY <1>12 DEF first, r, said2, turns2

(* As many checkpoints follow a prompt as turns, so that the n-th from the  *)
(* end of either is the same.                                               *)
LEMMA CheckpointOfCut ==
    ASSUME NEW h \in Seq(Messages), Sequent(h), NEW ck \in Seq(Nat), Increasing(ck),
           ToSet(ck) = AnchorIds(h), NEW n \in Nat, n >= 1, n <= Len(ck), NEW cut \in UndoAnchors(h),
           Cardinality(From(UndoAnchors(h), cut)) = n
    PROVE  /\ ck[Len(ck) - n + 1] = h[cut].id
           /\ ToSet(SubSeq(ck, 1, Len(ck) - n)) = {p \in ToSet(ck) : p < h[cut].id}
           /\ Increasing(SubSeq(ck, 1, Len(ck) - n))
<1> DEFINE first == h[cut].id
           S == From(UndoAnchors(h), cut)
           V == {p \in AnchorIds(h) : p >= first}
           l == Len(ck)
<1>1. /\ DOMAIN ck = 1..l /\ l \in Nat /\ \A k \in DOMAIN ck : ck[k] \in Nat
  OBVIOUS
<1>2. /\ Len(h) \in Nat /\ DOMAIN h = 1..Len(h) /\ \A i \in DOMAIN h : i \in Nat /\ h[i].id \in Nat
  BY MessageIs
<1>3. \A i \in UndoAnchors(h) : i \in DOMAIN h /\ IsRealUserInput(h[i])
  BY AnchorIs DEF IsRealUserInput
<1>4. cut \in DOMAIN h /\ first \in Nat
  BY <1>2, <1>3
<1>5. ASSUME NEW i \in UndoAnchors(h), NEW j \in UndoAnchors(h)
      PROVE  (i < j <=> h[i].id < h[j].id) /\ (i = j <=> h[i].id = h[j].id)
  <2>1. i < j => h[i].id < h[j].id
    BY <1>3 DEF Sequent
  <2>2. j < i => h[j].id < h[i].id
    BY <1>3 DEF Sequent
  <2>3. i \in Nat /\ j \in Nat /\ h[i].id \in Nat /\ h[j].id \in Nat
    BY <1>2, <1>3
  <2>4. i = j => h[i].id = h[j].id
    OBVIOUS
  <2> QED
    BY <2>1, <2>2, <2>3, <2>4
<1>6. PICK p \in DOMAIN ck : ck[p] = first
  <2>1. first \in ToSet(ck)
    BY DEF AnchorIds
  <2> QED
    BY <2>1 DEF ToSet
<1>7. ASSUME NEW i \in DOMAIN ck, NEW j \in DOMAIN ck
      PROVE  (i < j <=> ck[i] < ck[j]) /\ (i = j <=> ck[i] = ck[j])
  <2>1. (i < j => ck[i] < ck[j]) /\ (j < i => ck[j] < ck[i])
    BY DEF Increasing
  <2>2. i \in Nat /\ j \in Nat /\ ck[i] \in Nat /\ ck[j] \in Nat
    BY <1>1
  <2>3. i = j => ck[i] = ck[j]
    OBVIOUS
  <2> QED
    BY <2>1, <2>2, <2>3
<1> HIDE DEF first, S, l
<1>8. \A i \in S : i \in UndoAnchors(h) /\ i >= cut
  BY DEF S, From
<1>9. Cardinality(V) = n
  <2> DEFINE g == [i \in S |-> h[i].id]
  <2>1. IsFiniteSet(S)
    <3>1. S \subseteq 1..Len(h) /\ IsFiniteSet(1..Len(h))
      BY <1>2, <1>3, <1>8, FS_Interval
    <3> QED
      BY <3>1, FS_Subset
  <2>2. \A i \in S : h[i].id \in V
    <3> SUFFICES ASSUME NEW i \in S PROVE h[i].id \in V
      OBVIOUS
    <3>1. h[i].id \in AnchorIds(h)
      BY <1>8 DEF AnchorIds
    <3>2. h[i].id >= first
      <4> i \in Nat /\ cut \in Nat /\ h[i].id \in Nat /\ first \in Nat /\ i >= cut
        BY <1>2, <1>3, <1>4, <1>8
      <4>1. i = cut \/ cut < i
        OBVIOUS
      <4>2. i = cut => h[i].id = first
        BY DEF first
      <4>3. cut < i => first < h[i].id
        BY <1>5, <1>8 DEF first
      <4> QED
        BY <4>1, <4>2, <4>3
    <3> QED
      BY <3>1, <3>2
  <2>3. \A i, j \in S : h[i].id = h[j].id => i = j
    BY <1>5, <1>8
  <2>4. ASSUME NEW v \in V PROVE \E i \in S : h[i].id = v
    <3>1. PICK i \in UndoAnchors(h) : h[i].id = v
      BY DEF AnchorIds
    <3>2. i < cut => v < first
      BY <1>5, <3>1 DEF first
    <3> i \in Nat /\ cut \in Nat /\ v \in Nat /\ first \in Nat /\ v >= first
      BY <1>2, <1>3, <1>4, <3>1
    <3>3. i >= cut
      BY <3>2
    <3> QED
      BY <3>1, <3>3 DEF S, From
  <2> HIDE DEF V
  <2>5. g \in [S -> V] /\ DOMAIN g = S
    BY <2>2
  <2>6. g \in Bijection(S, V)
    BY <2>3, <2>4, <2>5 DEF Bijection, Injection, Surjection, IsInjective
  <2>7. ExistsBijection(S, V)
    BY <2>6 DEF ExistsBijection
  <2> QED
    BY <2>1, <2>7, FS_Bijection DEF S
<1>10. Cardinality(V) = l - p + 1
  <2> DEFINE T == p..l
             g == [k \in T |-> ck[k]]
  <2>1. \A k \in T : k \in DOMAIN ck /\ k >= p
    BY <1>1, <1>6
  <2>2. \A k \in DOMAIN ck : k >= p => k \in T
    BY <1>1, <1>6
  <2>3. IsFiniteSet(T) /\ Cardinality(T) = l - p + 1
    <3>1. p \in Int /\ l \in Int /\ ~ (p > l)
      BY <1>1, <1>6
    <3>2. /\ IsFiniteSet(T) /\ Cardinality(T) = IF p > l THEN 0 ELSE l - p + 1
      BY <3>1, FS_Interval
    <3> QED
      BY <3>1, <3>2
  <2> HIDE DEF T
  <2>4. \A k \in T : ck[k] \in V
    <3> SUFFICES ASSUME NEW k \in T PROVE ck[k] \in V
      OBVIOUS
    <3>1. ck[k] \in AnchorIds(h)
      BY <2>1 DEF ToSet
    <3>2. ck[k] >= first
      <4>1. ~ (ck[k] < ck[p])
        BY <1>1, <1>6, <1>7, <2>1
      <4> QED
        BY <1>1, <1>4, <1>6, <2>1, <4>1
    <3> QED
      BY <3>1, <3>2
  <2>5. \A j, k \in T : ck[j] = ck[k] => j = k
    BY <1>7, <2>1
  <2>6. ASSUME NEW v \in V PROVE \E k \in T : ck[k] = v
    <3>1. PICK k \in DOMAIN ck : ck[k] = v
      BY DEF ToSet
    <3>2. ~ (k < p)
      BY <1>1, <1>4, <1>6, <1>7, <3>1
    <3>3. k >= p
      BY <1>1, <1>6, <3>2
    <3> QED
      BY <2>2, <3>1, <3>3
  <2> HIDE DEF V
  <2>7. g \in [T -> V] /\ DOMAIN g = T
    BY <2>4
  <2>8. g \in Bijection(T, V)
    BY <2>5, <2>6, <2>7 DEF Bijection, Injection, Surjection, IsInjective
  <2>9. ExistsBijection(T, V)
    BY <2>8 DEF ExistsBijection
  <2> QED
    BY <2>3, <2>9, FS_Bijection
<1>11. l - n + 1 = p /\ l - n = p - 1
  BY <1>1, <1>6, <1>9, <1>10
<1> DEFINE r == SubSeq(ck, 1, p - 1)
<1>12. DOMAIN r = 1..(p - 1) /\ \A k \in 1..(p - 1) : r[k] = ck[k] /\ k \in DOMAIN ck /\ k < p
  <2>1. p \in Nat /\ p - 1 \in Nat /\ p - 1 <= Len(ck)
    BY <1>1, <1>6 DEF l
  <2>2. DOMAIN r = 1..(p - 1) /\ \A k \in 1..(p - 1) : r[k] = ck[k]
    BY <2>1
  <2>3. \A k \in 1..(p - 1) : k \in DOMAIN ck /\ k < p
    BY <1>1, <2>1 DEF l
  <2> QED
    BY <2>2, <2>3
<1>13. \A k \in DOMAIN ck : k < p => k \in 1..(p - 1)
  BY <1>1, <1>6
<1> HIDE DEF r
<1>14. ToSet(r) = {q \in ToSet(ck) : q < first}
  <2>1. ASSUME NEW k \in DOMAIN r PROVE r[k] \in ToSet(ck) /\ r[k] < first
    <3>1. k \in DOMAIN ck /\ k < p /\ r[k] = ck[k]
      BY <1>12
    <3> QED
      BY <1>6, <1>7, <3>1, ToSetIs
  <2>2. ASSUME NEW k \in DOMAIN ck, ck[k] < first PROVE ck[k] \in ToSet(r)
    <3>1. k < p
      BY <1>6, <1>7, <2>2
    <3> QED
      BY <1>12, <1>13, <3>1, ToSetIs
  <2> QED
    BY <2>1, <2>2, ToSetIs
<1>15. Increasing(r)
  BY <1>7, <1>12 DEF Increasing
<1> QED
  BY <1>6, <1>11, <1>14, <1>15 DEF r, l, first

-----------------------------------------------------------------------------
(* What a step brings is new: it is no message a compaction began with.     *)

LEMMA NotesJoin ==
    ASSUME NEW s \in Seq(Messages), NEW t \in Seq(Messages) PROVE Notes(s \o t) = Notes(s) \cup Notes(t)
<1>1. Queued(s \o t) = Queued(s) \cup Queued(t)
  BY QueuedConcat
<1> QED
  BY <1>1 DEF Notes

LEMMA NotesSilent ==
    ASSUME NEW h \in Seq(Messages), NEW t \in Seq(Messages), \A i \in DOMAIN t : t[i].role # "note"
    PROVE  Notes(h \o t) = Notes(h)
<1>1. Notes(t) = {}
  <2>1. \A x \in Queued(t) : x.role # "note"
    BY DEF Queued
  <2> QED
    BY <2>1 DEF Notes
<1>2. Notes(h \o t) = Notes(h) \cup Notes(t)
  BY NotesJoin
<1> QED
  BY <1>1, <1>2

LEMMA NotesEdited ==
    ASSUME NEW h \in Seq(Messages), NEW i \in DOMAIN h, NEW m, m.role # "note"
    PROVE  Notes([h EXCEPT ![i] = m]) \subseteq Notes(h)
<1> DEFINE r == [h EXCEPT ![i] = m]
<1>1. DOMAIN r = DOMAIN h /\ r[i] = m /\ \A k \in DOMAIN h \ {i} : r[k] = h[k]
  OBVIOUS
<1> HIDE DEF r
<1> QED
  BY <1>1 DEF Notes, Queued, r

LEMMA NotesDropped ==
    ASSUME NEW h \in Seq(Messages), NEW i \in DOMAIN h PROVE Notes(RemoveAt(h, i)) \subseteq Notes(h)
<1> DEFINE r == Taken(h, i)
<1>1. RemoveAt(h, i) = r
  BY SplicedIsTaken DEF RemoveAt
<1>2. /\ DOMAIN h = 1..Len(h) /\ i \in 1..Len(h) /\ Len(h) \in Nat /\ DOMAIN r = 1..(Len(h) - 1)
      /\ \A j \in 1..(Len(h) - 1) : r[j] = IF j < i THEN h[j] ELSE h[j + 1]
  BY DEF Taken
<1> HIDE DEF r
<1>3. \A j \in DOMAIN r : \E k \in DOMAIN h : r[j] = h[k]
  BY <1>2
<1> QED
  BY <1>1, <1>3 DEF Notes, Queued

LEMMA NotesFolded ==
    ASSUME NEW f, NEW g, NEW r, IsFold(f), Notes(r) \subseteq Notes(f.history),
           g.history = r, g.deferred = f.deferred
    PROVE  NotesOf(g) \subseteq NotesOf(f)
BY DEF NotesOf

(* g is f with m at the end of the history, or behind what is there.        *)
Goes(g, f, m) ==
    /\ f.history = <<>> => g.history = <<>> \/ Same(g.history[1], m)
    /\ f.history # <<>> => Same(g.history[1], f.history[1])

LEMMA FirstJoin ==
    ASSUME NEW s \in Seq(Messages), NEW t \in Seq(Messages)
    PROVE  /\ s # <<>> => (s \o t)[1] = s[1]
           /\ s = <<>> => s \o t = t
<1>1. s # <<>> => Len(s) >= 1 /\ Len(s) \in Nat /\ Len(t) \in Nat
  OBVIOUS
<1>2. s # <<>> => (s \o t)[1] = s[1]
  BY <1>1
<1> QED
  BY <1>2

LEMMA FirstEdited ==
    ASSUME NEW h \in Seq(Messages), NEW i \in DOMAIN h, NEW m, Same(m, h[i])
    PROVE  h # <<>> /\ Same([h EXCEPT ![i] = m][1], h[1])
<1> DEFINE r == [h EXCEPT ![i] = m]
<1>1. h # <<>> /\ 1 \in DOMAIN h /\ DOMAIN h = 1..Len(h) /\ Len(h) \in Nat
  OBVIOUS
<1>2. r[i] = m /\ \A k \in DOMAIN h \ {i} : r[k] = h[k]
  OBVIOUS
<1> HIDE DEF r
<1>3. Same(r[1], h[1])
  BY <1>1, <1>2 DEF Same
<1> QED
  BY <1>1, <1>3 DEF r

LEMMA AppendMessageFresh ==
    ASSUME NEW f, NEW s, NEW n, NEW A, NEW X, FoldInv(f, s, n, A, X), NEW m \in Parked
    PROVE  /\ NotesOf(AppendMessage(f, m)) \subseteq NotesOf(f) \cup {m}
           /\ m.role # "note" => NotesOf(AppendMessage(f, m)) \subseteq NotesOf(f)
           /\ Goes(AppendMessage(f, m), f, m)
<1> DEFINE h == f.history
           d == f.deferred
           t == <<m>>
           x == h \o t
           y == d \o t
           N == {k \in {m} : k.role = "note"}
<1>1. IsFold(f) /\ h \in Seq(Messages) /\ d \in Seq(Messages)
  BY FoldTypes
<1>2. t \in Seq(Messages) /\ t[1] = m /\ DOMAIN t = {1} /\ Append(h, m) = x /\ Append(d, m) = y
  <2>1. m \in Messages
    BY ParkedIs
  <2>2. Append(h, m) = x /\ t \in Seq(Messages) /\ DOMAIN t = {1} /\ t[1] = m
    BY <1>1, <2>1, AppendIs
  <2>3. Append(d, m) = y
    BY <1>1, <2>1, AppendIs
  <2> QED
    BY <2>2, <2>3
<1>3. Notes(t) = N
  BY <1>2 DEF Notes, Queued
<1> HIDE DEF t
<1>4. Notes(x) = Notes(h) \cup N /\ Notes(y) = Notes(d) \cup N
  BY <1>1, <1>2, <1>3, NotesJoin
<1>5. N \subseteq {m} /\ (m.role # "note" => N = {})
  OBVIOUS
<1>6. (h # <<>> => x[1] = h[1]) /\ (h = <<>> => x[1] = m)
  BY <1>1, <1>2, FirstJoin
<1>7. AppendMessage(f, m) = IF f.pending # <<>> THEN [f EXCEPT !.deferred = y]
                            ELSE [f EXCEPT !.history = x]
  BY <1>2 DEF AppendMessage
<1> HIDE DEF x, y, N
<1>8. CASE f.pending # <<>>
  <2>0. f = [history |-> f.history, pending |-> f.pending, deferred |-> f.deferred]
    BY <1>1 DEF IsFold
  <2>1. AppendMessage(f, m).history = h /\ AppendMessage(f, m).deferred = y
    BY <1>7, <1>8, <2>0
  <2> HIDE DEF h, d
  <2>2. NotesOf(AppendMessage(f, m)) = NotesOf(f) \cup N
    BY <1>4, <2>1 DEF NotesOf, h, d
  <2>3. Goes(AppendMessage(f, m), f, m)
    BY <2>1 DEF Goes, Same, h
  <2> QED
    BY <1>5, <2>2, <2>3
<1>9. CASE f.pending = <<>>
  <2>1. AppendMessage(f, m).history = x /\ AppendMessage(f, m).deferred = d
    BY <1>1, <1>7, <1>9 DEF IsFold
  <2> HIDE DEF h, d
  <2>2. NotesOf(AppendMessage(f, m)) = NotesOf(f) \cup N
    BY <1>4, <2>1 DEF NotesOf, h, d
  <2>3. Goes(AppendMessage(f, m), f, m)
    BY <1>6, <2>1 DEF Goes, Same, h
  <2> QED
    BY <1>5, <2>2, <2>3
<1> QED
  BY <1>8, <1>9

LEMMA ContentPartFresh ==
    ASSUME NEW f, NEW s, NEW n, NEW A, NEW X, FoldInv(f, s, n, A, X), NEW m
    PROVE  NotesOf(ContentPart(f)) \subseteq NotesOf(f) /\ Goes(ContentPart(f), f, m)
<1> DEFINE h == f.history
           i == OpenAssistant(h)
           o == [h[i] EXCEPT !.text = TRUE]
           r == [h EXCEPT ![i] = o]
<1>1. CASE i = 0
  <2>1. ContentPart(f) = f
    BY <1>1 DEF ContentPart
  <2> QED
    BY <2>1 DEF Goes, Same
<1>2. CASE i # 0
  <2>1. i \in DOMAIN h /\ h[i] \in Messages /\ h[i].role = "assistant"
    BY <1>2, FoldOpen
  <2>2. ContentPart(f) = [f EXCEPT !.history = r]
    <3>1. ContentPart(f) = [f EXCEPT !.history[i].text = TRUE]
      BY <1>2 DEF ContentPart
    <3> QED
      BY <3>1
  <2>3. IsFold(f) /\ h \in Seq(Messages)
    BY FoldTypes
  <2> HIDE DEF h, i
  <2>4. o.role = h[i].role /\ o.id = h[i].id
    BY <2>1 DEF Messages
  <2> HIDE DEF o
  <2>5. Notes(r) \subseteq Notes(h) /\ h # <<>> /\ Same(r[1], h[1])
    BY <2>1, <2>3, <2>4, NotesEdited, FirstEdited DEF Same
  <2> HIDE DEF r
  <2>6. ContentPart(f).history = r /\ ContentPart(f).deferred = f.deferred
    BY <2>2, <2>3 DEF IsFold
  <2>7. NotesOf(ContentPart(f)) \subseteq NotesOf(f)
    BY <2>3, <2>5, <2>6, NotesFolded DEF h
  <2> QED
    BY <2>5, <2>6, <2>7 DEF Goes, h
<1> QED
  BY <1>1, <1>2

LEMMA ToolCallFresh ==
    ASSUME NEW f, NEW s, NEW n, NEW A, NEW X, FoldInv(f, s, n, A, X), NEW call, NEW m
    PROVE  NotesOf(ToolCall(f, call)) \subseteq NotesOf(f) /\ Goes(ToolCall(f, call), f, m)
<1> DEFINE h == f.history
           i == OpenAssistant(h)
           o == [h[i] EXCEPT !.calls = Append(@, call)]
           r == [h EXCEPT ![i] = o]
           p == Append(f.pending, call)
<1>0. IsFold(f) /\ h \in Seq(Messages)
  BY FoldTypes
<1>1. CASE i = 0
  <2>1. ToolCall(f, call) = [f EXCEPT !.pending = p]
    BY <1>1 DEF ToolCall
  <2> HIDE DEF p
  <2>2. ToolCall(f, call).history = f.history /\ ToolCall(f, call).deferred = f.deferred
    BY <1>0, <2>1 DEF IsFold
  <2> QED
    BY <2>2 DEF NotesOf, Goes, Same
<1>2. CASE i # 0
  <2>1. i \in DOMAIN h /\ h[i] \in Messages /\ h[i].role = "assistant"
    BY <1>2, FoldOpen
  <2>2. ToolCall(f, call) = [f EXCEPT !.pending = p, !.history = r]
    <3>1. ToolCall(f, call) = [[f EXCEPT !.pending = p] EXCEPT !.history[i].calls = Append(@, call)]
      BY <1>2 DEF ToolCall
    <3>2. f = [history |-> h, pending |-> f.pending, deferred |-> f.deferred]
      BY <1>0 DEF IsFold
    <3> QED
      BY <3>1, <3>2
  <2> HIDE DEF h, i, p
  <2>4. o.role = h[i].role /\ o.id = h[i].id
    BY <2>1 DEF Messages
  <2> HIDE DEF o
  <2>5. Notes(r) \subseteq Notes(h) /\ h # <<>> /\ Same(r[1], h[1])
    BY <1>0, <2>1, <2>4, NotesEdited, FirstEdited DEF Same
  <2> HIDE DEF r
  <2>6. ToolCall(f, call).history = r /\ ToolCall(f, call).deferred = f.deferred
    BY <1>0, <2>2 DEF IsFold
  <2>7. NotesOf(ToolCall(f, call)) \subseteq NotesOf(f)
    BY <1>0, <2>5, <2>6, NotesFolded DEF h
  <2> QED
    BY <2>5, <2>6, <2>7 DEF Goes, h
<1> QED
  BY <1>1, <1>2

LEMMA FlushFresh ==
    ASSUME NEW g, IsFold(g), g.history \in Seq(Messages), g.deferred \in Seq(Messages)
    PROVE  /\ NotesOf(FlushDeferred(g)) \subseteq NotesOf(g)
           /\ g.history # <<>> => FlushDeferred(g).history # <<>>
                                  /\ FlushDeferred(g).history[1] = g.history[1]
<1> DEFINE r == g.history \o g.deferred
<1>1. CASE g.pending # <<>>
  BY <1>1 DEF FlushDeferred
<1>2. CASE g.pending = <<>>
  <2>1. FlushDeferred(g) = [g EXCEPT !.history = r, !.deferred = <<>>]
    BY <1>2 DEF FlushDeferred
  <2>2. Notes(r) = Notes(g.history) \cup Notes(g.deferred) /\ Notes(<<>>) = {}
    <3>1. Notes(<<>>) = {}
      BY DEF Notes, Queued
    <3> QED
      BY <3>1, NotesJoin
  <2>3. g.history # <<>> => r # <<>> /\ r[1] = g.history[1]
    <3>1. g.history # <<>> => Len(g.history) >= 1 /\ Len(r) = Len(g.history) + Len(g.deferred)
          /\ Len(g.history) \in Nat /\ Len(g.deferred) \in Nat
      OBVIOUS
    <3>2. g.history # <<>> => r[1] = g.history[1]
      BY FirstJoin
    <3>3. r \in Seq(Messages)
      BY ConcatIs
    <3> HIDE DEF r
    <3>4. g.history # <<>> => Len(r) # 0
      <4> SUFFICES ASSUME g.history # <<>>, Len(r) = 0 PROVE FALSE
        OBVIOUS
      <4> DEFINE a == Len(g.history)
                 b == Len(g.deferred)
      <4>1. a \in Nat /\ b \in Nat /\ a >= 1 /\ a + b = 0
        BY <3>1
      <4> HIDE DEF a, b
      <4> QED
        BY <4>1
    <3>5. g.history # <<>> => r # <<>>
      <4> SUFFICES ASSUME g.history # <<>>, r = <<>> PROVE FALSE
        OBVIOUS
      <4>1. Len(<<>>) = 0
        OBVIOUS
      <4> QED
        BY <3>4, <4>1
    <3> QED
      BY <3>2, <3>5
  <2> HIDE DEF r
  <2>4. FlushDeferred(g).history = r /\ FlushDeferred(g).deferred = <<>>
    BY <2>1 DEF IsFold
  <2> QED
    BY <2>2, <2>3, <2>4 DEF NotesOf
<1> QED
  BY <1>1, <1>2

LEMMA ToolResultFresh ==
    ASSUME NEW f, NEW s, NEW n \in Nat, NEW A, NEW X, FoldInv(f, s, n, A, X), NEW call \in ToSet(f.pending)
    PROVE  /\ NotesOf(ToolResult(f, call)) \subseteq NotesOf(f)
           /\ Goes(ToolResult(f, call), f, Message("tool", call))
<1> DEFINE h == f.history
           d == f.deferred
           m == Message("tool", call)
           t == <<m>>
           r == h \o t
           p == Kept(f.pending, ToSet(f.pending) \ {call})
           g == [f EXCEPT !.history = r, !.pending = p]
<1>1. IsFold(f) /\ h \in Seq(Messages) /\ d \in Seq(Messages)
  BY FoldTypes
<1>2. call \in Nat
  <2>1. f.pending \in Seq(1..n)
    BY DEF FoldInv
  <2> QED
    BY <2>1 DEF ToSet
<1>3. m \in Messages /\ m.role = "tool"
  BY <1>2, MessageType DEF Roles
<1> HIDE DEF m
<1>4. Append(h, m) = r /\ t \in Seq(Messages) /\ DOMAIN t = {1} /\ t[1] = m
  BY <1>1, <1>3, AppendIs
<1> HIDE DEF t, p
<1>5. ToolResult(f, call) = FlushDeferred(g)
  BY <1>4 DEF ToolResult, m, p
<1>6. Notes(r) = Notes(h)
  <2>1. \A i \in DOMAIN t : t[i].role # "note"
    BY <1>3, <1>4
  <2> QED
    BY <1>1, <1>4, <2>1, NotesSilent
<1>7. (h # <<>> => r[1] = h[1]) /\ (h = <<>> => r[1] = m)
  BY <1>1, <1>4, FirstJoin
<1>8. r \in Seq(Messages) /\ r # <<>>
  <2>1. r \in Seq(Messages)
    BY <1>1, <1>4, ConcatIs
  <2>2. r # <<>>
    BY <1>1, <1>3, <1>4
  <2> QED
    BY <2>1, <2>2
<1> HIDE DEF r
<1>9. g = [history |-> r, pending |-> p, deferred |-> d]
  <2>1. g = [f EXCEPT !.history = r, !.pending = p]
    OBVIOUS
  <2> HIDE DEF g
  <2> QED
    BY <1>1, <2>1 DEF IsFold
<1> HIDE DEF g
<1>10. IsFold(g) /\ g.history = r /\ g.deferred = d
  BY <1>9 DEF IsFold
<1>11. NotesOf(g) = NotesOf(f)
  BY <1>6, <1>10 DEF NotesOf
<1>12. /\ NotesOf(FlushDeferred(g)) \subseteq NotesOf(g)
       /\ FlushDeferred(g).history # <<>> /\ FlushDeferred(g).history[1] = r[1]
  BY <1>1, <1>8, <1>10, FlushFresh
<1> HIDE DEF h
<1>13. Goes(ToolResult(f, call), f, m)
  BY <1>5, <1>7, <1>12 DEF Goes, Same, h
<1> QED
  BY <1>5, <1>11, <1>12, <1>13 DEF m

LEMMA SettleFresh ==
    ASSUME NEW f, NEW s, NEW n, NEW A, NEW X, FoldInv(f, s, n, A, X), f.pending = <<>>
    PROVE  NotesOf(SettleOpenStep(f)) \subseteq NotesOf(f)
<1> DEFINE h == f.history
           i == OpenAssistant(h)
<1>1. IsFold(f) /\ h \in Seq(Messages)
  BY FoldTypes
<1>2. i = 0 \/ (i \in DOMAIN h /\ h[i].role = "assistant" /\ h[i] \in Messages)
  BY FoldOpen
<1>3. SettleOpenStep(f) = IF i = 0 THEN f
                          ELSE IF Vacuous(h[i]) THEN [f EXCEPT !.history = RemoveAt(h, i)]
                          ELSE [f EXCEPT !.history = [h EXCEPT ![i].partial = FALSE]]
  BY DEF SettleOpenStep, ClosePending
<1> HIDE DEF h, i
<1>4. ASSUME NEW r, Notes(r) \subseteq Notes(h), SettleOpenStep(f) = [f EXCEPT !.history = r]
      PROVE  NotesOf(SettleOpenStep(f)) \subseteq NotesOf(f)
  <2>1. SettleOpenStep(f).history = r /\ SettleOpenStep(f).deferred = f.deferred
    BY <1>1, <1>4 DEF IsFold
  <2> QED
    BY <1>1, <1>4, <2>1, NotesFolded DEF h
<1>5. CASE i = 0
  BY <1>3, <1>5
<1>6. CASE i # 0 /\ Vacuous(h[i])
  <2> DEFINE r == RemoveAt(h, i)
  <2>1. Notes(r) \subseteq Notes(h)
    BY <1>1, <1>2, <1>6, NotesDropped
  <2>2. SettleOpenStep(f) = [f EXCEPT !.history = r]
    BY <1>3, <1>6
  <2> HIDE DEF r
  <2> QED
    BY <1>4, <2>1, <2>2
<1>7. CASE i # 0 /\ ~ Vacuous(h[i])
  <2> DEFINE m == [h[i] EXCEPT !.partial = FALSE]
             r == [h EXCEPT ![i] = m]
  <2>1. SettleOpenStep(f) = [f EXCEPT !.history = r]
    BY <1>3, <1>7
  <2>2. m.role = h[i].role /\ h[i].role = "assistant"
    BY <1>2, <1>7 DEF Messages
  <2> HIDE DEF m
  <2>3. Notes(r) \subseteq Notes(h)
    BY <1>1, <1>2, <1>7, <2>2, NotesEdited
  <2> HIDE DEF r
  <2> QED
    BY <1>4, <2>1, <2>3
<1> QED
  BY <1>5, <1>6, <1>7

LEMMA StepEndFresh ==
    ASSUME NEW f, NEW s \in Nat, NEW n \in Nat, NEW A, NEW X, FoldInv(f, s, n, A, X), A \subseteq 1..n,
           MaxCalls \in Nat, n <= MaxCalls, f.pending = <<>>
    PROVE  NotesOf(StepEnd(f)) \subseteq NotesOf(f)
<1>1. NotesOf(SettleOpenStep(f)) \subseteq NotesOf(f)
  BY SettleFresh
<1>2. FoldInv(SettleOpenStep(f), s, n, A, X)
  BY SettleInv
<1>3. /\ IsFold(SettleOpenStep(f)) /\ SettleOpenStep(f).history \in Seq(Messages)
      /\ SettleOpenStep(f).deferred \in Seq(Messages)
  BY <1>2, FoldTypes
<1>4. NotesOf(StepEnd(f)) \subseteq NotesOf(SettleOpenStep(f))
  BY <1>3, FlushFresh DEF StepEnd
<1> QED
  BY <1>1, <1>4

LEMMA StepBeginFresh ==
    ASSUME NEW f, NEW s \in Nat, NEW n \in Nat, NEW A, NEW X, FoldInv(f, s, n, A, X), A \subseteq 1..n,
           MaxCalls \in Nat, n <= MaxCalls, f.pending = <<>>, NEW step \in Nat
    PROVE  NotesOf(StepBegin(f, step)) \subseteq NotesOf(f)
<1> DEFINE g == SettleOpenStep(f)
           m == [Message("assistant", step) EXCEPT !.text = FALSE, !.partial = TRUE]
           h == g.history
           t == <<m>>
           r == h \o t
<1>1. NotesOf(g) \subseteq NotesOf(f)
  BY SettleFresh
<1>2. FoldInv(g, s, n, A, X)
  BY SettleInv
<1>3. StepBegin(f, step) = [g EXCEPT !.history = Append(h, m)]
  BY DEF StepBegin
<1> HIDE DEF g
<1>4. IsFold(g) /\ h \in Seq(Messages)
  BY <1>2, FoldTypes
<1>5. m \in Messages /\ m.role = "assistant"
  <2> DEFINE b == Message("assistant", step)
  <2>1. b \in Messages /\ b.role = "assistant"
    BY MessageType DEF Roles
  <2>2. m = [b EXCEPT !.text = FALSE, !.partial = TRUE]
    OBVIOUS
  <2> HIDE DEF b, m
  <2> QED
    BY <2>1, <2>2 DEF Messages
<1> HIDE DEF m
<1>6. Append(h, m) = r /\ t \in Seq(Messages) /\ DOMAIN t = {1} /\ t[1] = m
  BY <1>4, <1>5, AppendIs
<1> HIDE DEF t
<1>7. Notes(r) \subseteq Notes(h)
  <2>1. \A i \in DOMAIN t : t[i].role # "note"
    BY <1>5, <1>6
  <2> QED
    BY <1>4, <1>6, <2>1, NotesSilent
<1> HIDE DEF r, h
<1>8. StepBegin(f, step).history = r /\ StepBegin(f, step).deferred = g.deferred
  BY <1>3, <1>4, <1>6 DEF IsFold
<1>9. NotesOf(StepBegin(f, step)) \subseteq NotesOf(g)
  BY <1>4, <1>7, <1>8, NotesFolded DEF h
<1> QED
  BY <1>1, <1>9

LEMMA CompactionFresh ==
    ASSUME NEW f, f.history \in Seq(Messages), NEW k \in Nat
    PROVE  NotesOf(ApplyCompaction(f, k)) = {}
<1> DEFINE h == f.history
           words == {m \in ToSet(h) : IsRealUserInput(m)}
           r == Kept(h, words)
           m == Message("summary", k)
           q == Append(r, m)
<1>1. r \in Seq(Messages) /\ Queued(r) = Queued(h) \cap words
  BY KeptProperties
<1>2. m.role = "summary"
  BY MessageType DEF Roles
<1>3. ApplyCompaction(f, k) = Fold(q)
  BY DEF ApplyCompaction
<1>4. \A x \in words : x.role # "note"
  BY DEF IsRealUserInput
<1> HIDE DEF r, m, words
<1>5. Queued(q) = Queued(r) \cup {m}
  BY <1>1, QueuedAppend
<1> HIDE DEF q
<1>6. Notes(q) = {} /\ Notes(<<>>) = {}
  <2>1. \A x \in Queued(q) : x.role # "note"
    BY <1>1, <1>2, <1>4, <1>5
  <2>2. Queued(<<>>) = {}
    BY DEF Queued
  <2> QED
    BY <2>1, <2>2 DEF Notes
<1>7. Fold(q).history = q /\ Fold(q).deferred = <<>>
  BY DEF Fold
<1> QED
  BY <1>3, <1>6, <1>7 DEF NotesOf

(* A compaction that is applied ends no open step: had that been cleared, a *)
(* new message would stand where the compaction's first was.                *)
LEMMA NotInStep ==
    ASSUME IInv, NoveltyInv, compaction # None, HistorySafeToCompact(fold.history, compaction.original)
    PROVE  ~ Stepping
<1> SUFFICES ASSUME Stepping PROVE FALSE
  OBVIOUS
<1> DEFINE h == fold.history
           o == compaction.original
<1>1. cleared
  BY NotWhileStepping
<1>2. o \in Seq(Messages) /\ o # <<>>
  <2>1. compaction \in [manual : BOOLEAN, blocking : BOOLEAN, original : Seq(Messages)]
    BY IInvParts DEF CompactionInv
  <2> QED
    BY <2>1 DEF NoveltyInv
<1>3. h \in Seq(Messages)
  BY IInvParts, FoldTypes
<1>4. Len(o) <= Len(h) /\ SubSeq(o, 1, Len(o)) = SubSeq(h, 1, Len(o))
  BY DEF HistorySafeToCompact, IsPrefix
<1>5. h # <<>> => ~ Same(h[1], o[1])
  BY <1>1 DEF NoveltyInv
<1> HIDE DEF h, o
<1>6. Len(o) \in Nat /\ Len(h) \in Nat /\ Len(o) >= 1 /\ h # <<>>
  BY <1>2, <1>3, <1>4
<1>7. h[1] = o[1]
  <2>1. SubSeq(o, 1, Len(o))[1] = o[1] /\ SubSeq(h, 1, Len(o))[1] = h[1]
    BY <1>2, <1>3, <1>4, <1>6
  <2> QED
    BY <1>4, <2>1
<1> QED
  BY <1>5, <1>6, <1>7 DEF Same

-----------------------------------------------------------------------------
(* Every step keeps OrderlyInv while nothing fails.                         *)

LEMMA NothingParked ==
    ASSUME IInv, OrderlyInv, unanswered = {} PROVE fold.pending = <<>> /\ fold.deferred = <<>>
<1> DEFINE p == fold.pending
           S == 1..made.call
<1>1. FoldInv(fold, made.step, made.call, Settled, stray)
  BY IInvParts
<1>2. p \in Seq(S)
  BY <1>1 DEF FoldInv
<1>3. Queued(p) = {}
  <2>1. ToSet(p) = Queued(p)
    BY ToSetQueued
  <2> QED
    BY <2>1 DEF OrderlyInv
<1> HIDE DEF p, S
<1>4. DOMAIN p = {} /\ DOMAIN p = 1..Len(p) /\ Len(p) \in Nat
  BY <1>2, <1>3 DEF Queued
<1>5. Len(p) = 0
  BY <1>4
<1>6. p = <<>>
  BY <1>2, <1>5
<1> QED
  BY <1>1, <1>6, FoldTypes DEF p

LEMMA LoopIs ==
    ASSUME IInv
    PROVE  /\ phase # "calling" => todo = 0 /\ unanswered = {}
           /\ todo \in 0..(MaxCalls - made.call) /\ unanswered \subseteq 1..made.call
           /\ checkpoints \in Seq(1..made.prompt) /\ prompts \subseteq 1..made.prompt
BY DEF IInv, LoopInv

(* What was said stays said.                                                *)
LEMMA OrderlyStays ==
    ASSUME OrderlyInv, made'.prompt = made.prompt, prompts' = prompts, checkpoints' = checkpoints,
           Tells(fold', made.prompt, prompts, ToSet(checkpoints)),
           ToSet(fold'.pending) \subseteq unanswered'
    PROVE  OrderlyInv'
<1>1. ToSet(checkpoints') = ToSet(checkpoints)
  OBVIOUS
<1>2. Increasing(checkpoints')
  BY DEF OrderlyInv
<1>3. Tells(fold', made'.prompt, prompts', ToSet(checkpoints'))
  BY <1>1
<1> QED
  BY <1>2, <1>3 DEF OrderlyInv

LEMMA Quiet ==
    ASSUME OrderlyInv, made'.prompt = made.prompt,
           UNCHANGED <<fold, checkpoints, prompts, unanswered>>
    PROVE  OrderlyInv'
<1>1. fold' = fold /\ prompts' = prompts /\ checkpoints' = checkpoints /\ unanswered' = unanswered
  OBVIOUS
<1>2. Tells(fold, made.prompt, prompts, ToSet(checkpoints)) /\ ToSet(fold.pending) \subseteq unanswered
  BY DEF OrderlyInv
<1>3. Tells(fold', made.prompt, prompts, ToSet(checkpoints)) /\ ToSet(fold'.pending) \subseteq unanswered'
  BY <1>1, <1>2
<1> QED
  BY <1>1, <1>3, OrderlyStays

LEMMA InitOrderly == Init => OrderlyInv
<1> SUFFICES ASSUME Init PROVE OrderlyInv
  OBVIOUS
<1>1. fold = EmptyFold /\ checkpoints = <<>> /\ prompts = {} /\ fold.pending = <<>>
  BY DEF Init, EmptyFold, Fold
<1>2. ToSet(<<>>) = {} /\ Increasing(<<>>)
  BY DEF ToSet, Increasing
<1>3. Tells(EmptyFold, made.prompt, {}, {})
  BY EmptyTold
<1> QED
  BY <1>1, <1>2, <1>3 DEF OrderlyInv

LEMMA IncreasingAppend ==
    ASSUME NEW a \in Nat, NEW s \in Seq(1..a), Increasing(s) PROVE Increasing(Append(s, a + 1))
<1> DEFINE t == Append(s, a + 1)
<1>1. Len(s) \in Nat /\ DOMAIN s = 1..Len(s) /\ DOMAIN t = 1..(Len(s) + 1)
      /\ t[Len(s) + 1] = a + 1 /\ \A k \in DOMAIN s : t[k] = s[k] /\ s[k] \in 1..a
  OBVIOUS
<1> HIDE DEF t
<1> SUFFICES ASSUME NEW k \in DOMAIN t, NEW l \in DOMAIN t, k < l PROVE t[k] < t[l]
  BY DEF Increasing, t
<1>2. k \in DOMAIN s /\ t[k] = s[k] /\ s[k] \in 1..a
  BY <1>1
<1>3. CASE l \in DOMAIN s
  <2>1. t[l] = s[l]
    BY <1>1, <1>3
  <2> QED
    BY <1>2, <1>3, <2>1 DEF Increasing
<1>4. CASE l \notin DOMAIN s
  <2>1. l = Len(s) + 1
    BY <1>1, <1>4
  <2>2. t[l] = a + 1
    BY <1>1, <2>1
  <2> QED
    BY <1>2, <2>2
<1> QED
  BY <1>3, <1>4

(* Somebody speaks.                                                         *)
LEMMA SpeakTold ==
    ASSUME IInv, OrderlyInv, NEW role \in {"user", "steer", "note"}, NEW id \in Nat,
           NEW c2 \in Nat, made.prompt <= c2,
           role # "note" => id = made.prompt + 1 /\ id <= c2,
           fold' = AppendMessage(fold, Message(role, id))
    PROVE  LET words == IF role = "note" THEN {} ELSE {id}
               turns == IF role = "user" THEN {id} ELSE {}
           IN  /\ Tells(fold', c2, prompts \cup words, ToSet(checkpoints) \cup turns)
               /\ fold'.pending = fold.pending
<1> DEFINE m == Message(role, id)
           words == IF role = "note" THEN {} ELSE {id}
           turns == IF role = "user" THEN {id} ELSE {}
           c == made.prompt
<1>1. /\ FoldInv(fold, made.step, made.call, Settled, stray) /\ made.step \in Nat /\ made.call \in Nat
      /\ c \in Nat
  BY IInvParts
<1>2. m \in Parked /\ m.role = role /\ m.id = id
  <2>1. role \in Roles
    BY DEF Roles
  <2>2. m \in Messages /\ m.role = role /\ m.id = id /\ m.calls = <<>> /\ ~ m.partial
    BY <2>1, MessageType
  <2> QED
    BY <2>2 DEF Parked
<1>3. Tells(fold, c, prompts, ToSet(checkpoints))
  BY DEF OrderlyInv
<1>4. fold' = AppendMessage(fold, m)
  OBVIOUS
<1> HIDE DEF m
<1>5. WordIds(<<m>>) = words /\ TurnIds(<<m>>) = turns
  BY <1>2, OneSaid DEF IsRealUserInput, IsUndoAnchor
<1>6. WordIds(<<m>>) \subseteq (c + 1)..c2
  BY <1>1, <1>5
<1> HIDE DEF words, turns, c
<1>7. Tells(AppendMessage(fold, m), c2, prompts \cup WordIds(<<m>>), ToSet(checkpoints) \cup TurnIds(<<m>>))
  <2>1. c <= c2 /\ c \in Nat
    BY <1>1 DEF c
  <2> QED
    BY <1>1, <1>2, <1>3, <1>6, <2>1, AppendMessageTold
<1>8. AppendMessage(fold, m).pending = fold.pending
  BY <1>1, <1>2, AppendMessageInv
<1> QED
  BY <1>4, <1>5, <1>7, <1>8 DEF words, turns

LEMMA PromptKeeps ==
    ASSUME IInv, OrderlyInv, Count("prompt"), made.prompt < MaxPrompts,
           NEW role \in {"user", "steer"}, fold' = AppendMessage(fold, Message(role, made'["prompt"])),
           prompts' = prompts \cup {made'.prompt}, unanswered' = unanswered,
           checkpoints' = IF role = "user" THEN Append(checkpoints, made'.prompt) ELSE checkpoints
    PROVE  OrderlyInv'
<1> DEFINE a == made.prompt
           b == made'.prompt
<1>1. a \in Nat /\ b = a + 1
  BY NextPrompt
<1>2. checkpoints \in Seq(1..a) /\ Increasing(checkpoints) /\ ToSet(fold.pending) \subseteq unanswered
  BY LoopIs DEF OrderlyInv
<1> DEFINE turns == IF role = "user" THEN {b} ELSE {}
<1>3. Tells(fold', b, prompts \cup {b}, ToSet(checkpoints) \cup turns) /\ fold'.pending = fold.pending
  <2>1. b \in Nat /\ a <= b /\ b = a + 1 /\ b <= b
    BY <1>1
  <2>2. role # "note" /\ fold' = AppendMessage(fold, Message(role, b))
    OBVIOUS
  <2> HIDE DEF b
  <2>3. role \in {"user", "steer", "note"}
    OBVIOUS
  <2> QED
    BY <2>1, <2>2, <2>3, SpeakTold
<1>4. ToSet(checkpoints') = ToSet(checkpoints) \cup turns /\ Increasing(checkpoints')
  <2>1. CASE role = "user"
    <3>1. checkpoints' = Append(checkpoints, b) /\ turns = {b}
      BY <2>1
    <3> HIDE DEF a, b, turns
    <3>2. Increasing(Append(checkpoints, a + 1))
      BY <1>1, <1>2, IncreasingAppend
    <3>3. Queued(Append(checkpoints, b)) = Queued(checkpoints) \cup {b}
      BY <1>2, QueuedAppend
    <3>4. ToSet(Append(checkpoints, b)) = ToSet(checkpoints) \cup {b}
      BY <3>3, ToSetQueued
    <3> QED
      BY <1>1, <3>1, <3>2, <3>4
  <2>2. CASE role # "user"
    BY <1>2, <2>2
  <2> QED
    BY <2>1, <2>2
<1> HIDE DEF turns
<1>5. Tells(fold', b, prompts', ToSet(checkpoints'))
  BY <1>3, <1>4
<1>6. ToSet(fold'.pending) \subseteq unanswered'
  BY <1>2, <1>3
<1> QED
  BY <1>4, <1>5, <1>6 DEF OrderlyInv

LEMMA StartTurnOrderly == IInv /\ OrderlyInv /\ StartTurn => OrderlyInv'
<1> SUFFICES ASSUME IInv, OrderlyInv, StartTurn PROVE OrderlyInv'
  OBVIOUS
<1>1. /\ made.prompt < MaxPrompts /\ Count("prompt")
      /\ fold' = AppendMessage(fold, Message("user", made'["prompt"]))
      /\ checkpoints' = Append(checkpoints, made'.prompt)
      /\ prompts' = prompts \cup {made'.prompt} /\ unanswered' = unanswered
  BY DEF StartTurn, Checkpoint
<1> QED
  BY <1>1, PromptKeeps

LEMMA BlockPromptOrderly == IInv /\ OrderlyInv /\ BlockPrompt => OrderlyInv'
<1> SUFFICES ASSUME IInv, OrderlyInv, BlockPrompt PROVE OrderlyInv'
  OBVIOUS
<1>1. /\ made.prompt < MaxPrompts /\ Count("prompt")
      /\ fold' = AppendMessage(fold, Message("user", made'["prompt"]))
      /\ checkpoints' = Append(checkpoints, made'.prompt)
      /\ prompts' = prompts \cup {made'.prompt} /\ unanswered' = unanswered
  BY DEF BlockPrompt, Checkpoint, stepVars
<1> QED
  BY <1>1, PromptKeeps

LEMMA SteerOrderly == IInv /\ OrderlyInv /\ Steer => OrderlyInv'
<1> SUFFICES ASSUME IInv, OrderlyInv, Steer PROVE OrderlyInv'
  OBVIOUS
<1>1. /\ made.prompt < MaxPrompts /\ Count("prompt")
      /\ fold' = AppendMessage(fold, Message("steer", made'["prompt"]))
      /\ checkpoints' = checkpoints
      /\ prompts' = prompts \cup {made'.prompt} /\ unanswered' = unanswered
  BY DEF Steer, stepVars
<1>2. checkpoints' = IF "steer" = "user" THEN Append(checkpoints, made'.prompt) ELSE checkpoints
  BY <1>1
<1> QED
  BY <1>1, <1>2, PromptKeeps

LEMMA RemindOrderly == IInv /\ OrderlyInv /\ Remind => OrderlyInv'
<1> SUFFICES ASSUME IInv, OrderlyInv, Remind PROVE OrderlyInv'
  OBVIOUS
<1>1. /\ Count("note") /\ fold' = AppendMessage(fold, Message("note", made'["note"]))
      /\ prompts' = prompts /\ checkpoints' = checkpoints /\ unanswered' = unanswered
  BY DEF Remind, stepVars, ghostVars
<1>2. /\ made'["note"] \in Nat /\ made'.prompt = made.prompt /\ made.prompt \in Nat
  <2>1. made \in [Kinds -> Nat] /\ "note" \in Kinds /\ "prompt" \in Kinds \ {"note"}
    BY IInvParts DEF Kinds
  <2> QED
    BY <1>1, <2>1, CountIs
<1> DEFINE k == made'["note"]
           a == made.prompt
<1>3. /\ Tells(fold', a, prompts, ToSet(checkpoints)) /\ fold'.pending = fold.pending
  <2>1. fold' = AppendMessage(fold, Message("note", k)) /\ k \in Nat
    BY <1>1, <1>2
  <2> HIDE DEF k
  <2>2. "note" \in {"user", "steer", "note"} /\ a \in Nat /\ a <= a
    BY <1>2
  <2>3. /\ Tells(fold', a, prompts \cup {}, ToSet(checkpoints) \cup {}) /\ fold'.pending = fold.pending
    BY <2>1, <2>2, SpeakTold
  <2>4. prompts \cup {} = prompts /\ ToSet(checkpoints) \cup {} = ToSet(checkpoints)
    OBVIOUS
  <2> QED
    BY <2>3, <2>4
<1>4. ToSet(fold'.pending) \subseteq unanswered'
  BY <1>1, <1>3 DEF OrderlyInv
<1> QED
  BY <1>1, <1>2, <1>3, <1>4, OrderlyStays

LEMMA BeginStepOrderly == IInv /\ OrderlyInv /\ BeginStep => OrderlyInv'
<1> SUFFICES ASSUME IInv, OrderlyInv, BeginStep PROVE OrderlyInv'
  OBVIOUS
<1> DEFINE s == made.step
           n == made.call
           a == made.prompt
           turns == ToSet(checkpoints)
<1>1. /\ phase = "between" /\ Count("step") /\ fold' = StepBegin(fold, made'.step)
      /\ checkpoints' = checkpoints /\ prompts' = prompts /\ unanswered' = unanswered
  BY DEF BeginStep, ghostVars
<1>2. made'.step = s + 1 /\ made'.prompt = a
  BY <1>1, IInvParts, CountIs DEF Kinds
<1>3. s \in Nat /\ n \in Nat /\ n <= MaxCalls /\ MaxCalls \in Nat /\ Settled \subseteq 1..n
      /\ FoldInv(fold, s, n, Settled, stray)
  BY IInvParts
<1>4. fold.pending = <<>>
  BY <1>1, LoopIs, NothingParked
<1>5. Tells(fold, a, prompts, turns)
  BY DEF OrderlyInv
<1>6. fold' = StepBegin(fold, s + 1) /\ s + 1 \in Nat
  BY <1>1, <1>2, <1>3
<1> HIDE DEF s, n, a, turns
<1>7. Tells(StepBegin(fold, s + 1), a, prompts, turns)
  BY <1>3, <1>4, <1>5, <1>6, StepBeginTold
<1>8. StepBegin(fold, s + 1).pending = <<>>
  BY <1>3, StepBeginInv
<1>9. Tells(fold', a, prompts, turns) /\ ToSet(fold'.pending) \subseteq unanswered'
  <2>1. ToSet(<<>>) = {}
    BY DEF ToSet
  <2> QED
    BY <1>6, <1>7, <1>8, <2>1
<1> QED
  BY <1>1, <1>2, <1>9, OrderlyStays DEF a, turns

(* What the model says of its own says nothing for the user.                *)
LEMMA StreamOrderly ==
    ASSUME IInv, OrderlyInv, fold' = fold \/ fold' = ContentPart(fold),
           UNCHANGED <<checkpoints, prompts, unanswered, made>>
    PROVE  OrderlyInv'
<1> DEFINE s == made.step
           n == made.call
           a == made.prompt
           turns == ToSet(checkpoints)
<1>1. s \in Nat /\ n \in Nat /\ n <= MaxCalls /\ MaxCalls \in Nat /\ Settled \subseteq 1..n
      /\ FoldInv(fold, s, n, Settled, stray)
  BY IInvParts
<1>2. Tells(fold, a, prompts, turns) /\ ToSet(fold.pending) \subseteq unanswered
  BY DEF OrderlyInv
<1> HIDE DEF s, n, a, turns
<1>3. Tells(ContentPart(fold), a, prompts, turns)
  BY <1>1, <1>2, ContentPartTold
<1>4. ContentPart(fold).pending = fold.pending
  BY <1>1, ContentPartInv
<1>5. Tells(fold', a, prompts, turns) /\ ToSet(fold'.pending) \subseteq unanswered'
  BY <1>2, <1>3, <1>4
<1> QED
  BY <1>5, OrderlyStays DEF a, turns

LEMMA RequestFailsOrderly == IInv /\ OrderlyInv /\ RequestFails => OrderlyInv'
<1> SUFFICES ASSUME IInv, OrderlyInv, RequestFails PROVE OrderlyInv'
  OBVIOUS
<1>1. /\ fold' = fold \/ fold' = ContentPart(fold)
      /\ UNCHANGED <<checkpoints, prompts, unanswered, made>>
  BY DEF RequestFails, ghostVars
<1> QED
  BY <1>1, StreamOrderly

LEMMA RespondOrderly == IInv /\ OrderlyInv /\ Respond => OrderlyInv'
<1> SUFFICES ASSUME IInv, OrderlyInv, Respond PROVE OrderlyInv'
  OBVIOUS
<1>1. /\ fold' = fold \/ fold' = ContentPart(fold)
      /\ UNCHANGED <<checkpoints, prompts, unanswered, made>>
  BY DEF Respond, ghostVars
<1> QED
  BY <1>1, StreamOrderly

LEMMA AnnounceOrderly == IInv /\ OrderlyInv /\ Announce => OrderlyInv'
<1> SUFFICES ASSUME IInv, OrderlyInv, Announce PROVE OrderlyInv'
  OBVIOUS
<1> DEFINE s == made.step
           n == made.call
           a == made.prompt
           turns == ToSet(checkpoints)
<1>1. /\ phase = "calling" /\ todo > 0 /\ Count("call") /\ fold' = ToolCall(fold, made'.call)
      /\ unanswered' = unanswered \cup {made'.call}
      /\ checkpoints' = checkpoints /\ prompts' = prompts
  BY DEF Announce, ghostVars
<1>2. made'.call = n + 1 /\ made'.prompt = a
  BY <1>1, IInvParts, CountIs DEF Kinds
<1>3. s \in Nat /\ n \in Nat /\ n <= MaxCalls /\ MaxCalls \in Nat /\ Settled \subseteq 1..n
      /\ FoldInv(fold, s, n, Settled, stray) /\ todo \in 0..(MaxCalls - n)
  BY IInvParts, LoopIs
<1>5. Tells(fold, a, prompts, turns) /\ ToSet(fold.pending) \subseteq unanswered
  BY DEF OrderlyInv
<1> HIDE DEF s, n, a, turns
<1>6. n + 1 <= MaxCalls /\ n + 1 \in 1..MaxCalls
  BY <1>1, <1>3
<1>7. Tells(ToolCall(fold, n + 1), a, prompts, turns)
  BY <1>3, <1>5, <1>6, ToolCallTold
<1>8. ToSet(ToolCall(fold, n + 1).pending) = ToSet(fold.pending) \cup {n + 1}
  <2> DEFINE X2 == stray \cup {n + 1}
  <2>1. stray \subseteq X2 /\ n + 1 \in X2
    OBVIOUS
  <2> HIDE DEF X2
  <2> QED
    BY <1>3, <1>6, <2>1, ToolCallInv
<1>9. Tells(fold', a, prompts, turns) /\ ToSet(fold'.pending) \subseteq unanswered'
  BY <1>1, <1>2, <1>5, <1>7, <1>8
<1> QED
  BY <1>1, <1>2, <1>9, OrderlyStays DEF a, turns

LEMMA ResultOrderly ==
    ASSUME NEW call \in unanswered PROVE IInv /\ OrderlyInv /\ Result(call) => OrderlyInv'
<1> SUFFICES ASSUME IInv, OrderlyInv, Result(call) PROVE OrderlyInv'
  OBVIOUS
<1> DEFINE s == made.step
           n == made.call
           a == made.prompt
           turns == ToSet(checkpoints)
<1>1. /\ unanswered' = unanswered \ {call} /\ fold' = ToolResult(fold, call)
      /\ checkpoints' = checkpoints /\ prompts' = prompts /\ made' = made
  BY DEF Result
<1>2. s \in Nat /\ n \in Nat /\ FoldInv(fold, s, n, Settled, stray)
  BY IInvParts
<1>3. Tells(fold, a, prompts, turns) /\ ToSet(fold.pending) \subseteq unanswered
  BY DEF OrderlyInv
<1> HIDE DEF s, n, a, turns
<1>4. CASE call \in ToSet(fold.pending)
  <2>1. Tells(ToolResult(fold, call), a, prompts, turns)
    BY <1>2, <1>3, <1>4, ToolResultTold
  <2>2. ToSet(ToolResult(fold, call).pending) = ToSet(fold.pending) \ {call}
    BY <1>2, <1>4, ToolResultInv
  <2> QED
    BY <1>1, <1>3, <2>1, <2>2, OrderlyStays DEF a, turns
<1>5. CASE call \notin ToSet(fold.pending)
  <2>1. fold' = fold
    BY <1>1, <1>5 DEF ToolResult
  <2> QED
    BY <1>1, <1>3, <1>5, <2>1, OrderlyStays DEF a, turns
<1> QED
  BY <1>4, <1>5

LEMMA EndStepOrderly == IInv /\ OrderlyInv /\ EndStep => OrderlyInv'
<1> SUFFICES ASSUME IInv, OrderlyInv, EndStep PROVE OrderlyInv'
  OBVIOUS
<1> DEFINE s == made.step
           n == made.call
           a == made.prompt
           turns == ToSet(checkpoints)
           g == SettleOpenStep(fold)
<1>1. /\ unanswered = {} /\ fold' = StepEnd(fold)
      /\ checkpoints' = checkpoints /\ prompts' = prompts /\ unanswered' = unanswered /\ made' = made
  BY DEF EndStep, StepDone, ghostVars
<1>2. s \in Nat /\ n \in Nat /\ n <= MaxCalls /\ MaxCalls \in Nat /\ Settled \subseteq 1..n
      /\ FoldInv(fold, s, n, Settled, stray)
  BY IInvParts
<1>3. fold.pending = <<>>
  BY <1>1, NothingParked
<1>4. Tells(fold, a, prompts, turns)
  BY DEF OrderlyInv
<1>5. StepEnd(fold) = FlushDeferred(g)
  BY DEF StepEnd
<1> HIDE DEF s, n, a, turns, g
<1>6. Tells(StepEnd(fold), a, prompts, turns)
  BY <1>2, <1>3, <1>4, StepEndTold
<1>7. StepEnd(fold).pending = <<>>
  <2>1. FoldInv(g, s, n, Settled, stray) /\ g.pending = <<>>
    BY <1>2, SettleInv DEF g
  <2>2. Unflushed(g, s, n, Settled, stray)
    BY <2>1, FoldParts
  <2> QED
    BY <1>2, <1>5, <2>1, <2>2, FlushInv
<1>8. Tells(fold', a, prompts, turns) /\ ToSet(fold'.pending) \subseteq unanswered'
  <2>1. ToSet(<<>>) = {}
    BY DEF ToSet
  <2> QED
    BY <1>1, <1>6, <1>7, <2>1
<1> QED
  BY <1>1, <1>8, OrderlyStays DEF a, turns

LEMMA BeginCompactionOrderly == IInv /\ OrderlyInv /\ BeginCompaction => OrderlyInv'
<1> SUFFICES ASSUME IInv, OrderlyInv, BeginCompaction PROVE OrderlyInv'
  OBVIOUS
<1>1. Count("compaction") /\ UNCHANGED <<fold, checkpoints, prompts, unanswered>>
  BY DEF BeginCompaction, ghostVars
<1>2. made'.prompt = made.prompt
  BY <1>1, IInvParts, CountIs DEF Kinds
<1> QED
  BY <1>1, <1>2, Quiet

(* The steps that do not touch the context.                                 *)
LEMMA QuietOrderly ==
    OrderlyInv /\ (Resume \/ AbandonStep \/ EndTurn \/ Wait \/ CancelCompaction \/ UNCHANGED vars)
        => OrderlyInv'
<1> SUFFICES ASSUME OrderlyInv,
                    Resume \/ AbandonStep \/ EndTurn \/ Wait \/ CancelCompaction \/ UNCHANGED vars
             PROVE  OrderlyInv'
  OBVIOUS
<1>1. UNCHANGED <<fold, checkpoints, prompts, unanswered, made>>
  BY DEF Resume, AbandonStep, EndTurn, Wait, CancelCompaction, vars, stepVars, ghostVars
<1> QED
  BY <1>1, Quiet

LEMMA FinishCompactionOrderly == IInv /\ OrderlyInv /\ NoveltyInv /\ FinishCompaction => OrderlyInv'
<1> SUFFICES ASSUME IInv, OrderlyInv, NoveltyInv, FinishCompaction PROVE OrderlyInv'
  OBVIOUS
<1> DEFINE s == made.step
           n == made.call
           a == made.prompt
           k == made.compaction
           turns == ToSet(checkpoints)
<1>1. /\ compaction # None /\ HistorySafeToCompact(fold.history, compaction.original)
      /\ fold' = ApplyCompaction(fold, k) /\ checkpoints' = <<>>
      /\ prompts' = prompts /\ made' = made
  BY DEF FinishCompaction, ClearCheckpoints, ghostVars
<1>2. k \in Nat /\ FoldInv(fold, s, n, Settled, stray)
  BY IInvParts DEF Kinds
<1>3. fold.deferred = <<>>
  <2>1. ~ Stepping
    BY <1>1, NotInStep
  <2> QED
    BY <2>1, LoopIs, NothingParked DEF Stepping
<1>4. Tells(fold, a, prompts, turns)
  BY DEF OrderlyInv
<1> HIDE DEF s, n, k, turns, a
<1>5. Tells(ApplyCompaction(fold, k), a, prompts, {})
  BY <1>2, <1>3, <1>4, CompactionTold
<1>6. ToSet(<<>>) = {} /\ Increasing(<<>>) /\ ApplyCompaction(fold, k).pending = <<>>
  BY DEF ToSet, Increasing, ApplyCompaction, Fold
<1> QED
  BY <1>1, <1>5, <1>6 DEF OrderlyInv, a

LEMMA ClearContextOrderly == IInv /\ OrderlyInv /\ ClearContext => OrderlyInv'
<1> SUFFICES ASSUME IInv, OrderlyInv, ClearContext PROVE OrderlyInv'
  OBVIOUS
<1>1. fold' = EmptyFold /\ checkpoints' = <<>> /\ prompts' = {}
  BY DEF ClearContext, Clear, ClearCheckpoints
<1>2. ToSet(<<>>) = {} /\ Increasing(<<>>) /\ EmptyFold.pending = <<>>
  BY DEF ToSet, Increasing, EmptyFold, Fold
<1>3. Tells(EmptyFold, made'.prompt, {}, {})
  BY EmptyTold
<1> QED
  BY <1>1, <1>2, <1>3 DEF OrderlyInv

(* The checkpoint undo goes back to is that of the first turn it takes.     *)
LEMMA UndoMeets ==
    ASSUME IInv, OrderlyInv, NEW n \in Nat, n >= 1, UndoTurns(n)
    PROVE  LET cut == UndoCut(fold.history, n)
               first == fold.history[cut].id
               left == SubSeq(checkpoints, 1, Len(checkpoints) - n)
           IN  /\ cut \in UndoAnchors(fold.history)
               /\ checkpoints[Len(checkpoints) - n + 1] = first
               /\ ToSet(left) = {p \in ToSet(checkpoints) : p < first} /\ Increasing(left)
               /\ Told(fold.history, <<>>, made.prompt, prompts, ToSet(checkpoints))
<1> DEFINE h == fold.history
           ck == checkpoints
           cut == UndoCut(h, n)
           a == made.prompt
           turns == ToSet(ck)
<1>1. phase = "idle" /\ cut # 0 /\ Len(ck) >= n
  BY DEF UndoTurns, UndoToCheckpoint
<1>2. h \in Seq(Messages)
  BY IInvParts, FoldTypes
<1>3. fold.deferred = <<>>
  BY <1>1, LoopIs, NothingParked
<1>4. Told(h, <<>>, a, prompts, turns) /\ Increasing(ck)
  BY <1>3 DEF OrderlyInv, Tells
<1>5. Sequent(h) /\ turns = AnchorIds(h)
  <2>1. TurnIds(<<>>) = {}
    BY NothingSaid
  <2> HIDE DEF h, turns, a
  <2> QED
    BY <1>4, <2>1 DEF Told
<1>6. ck \in Seq(Nat)
  <2>1. ck \in Seq(1..a)
    BY LoopIs
  <2>2. 1..a \subseteq Nat
    OBVIOUS
  <2> HIDE DEF ck, a
  <2> DEFINE S == 1..a
  <2>3. ck \in Seq(S) /\ S \subseteq Nat /\ 0 \in Nat
    BY <2>1, <2>2
  <2> HIDE DEF S
  <2> QED
    BY <2>3, AppendWider
<1> HIDE DEF h, ck, a
<1>7. cut \in UndoAnchors(h) /\ Cardinality(From(UndoAnchors(h), cut)) = n
  BY <1>1, <1>2, UndoCutIs
<1> HIDE DEF cut
<1>8. n <= Len(ck)
  BY <1>1, <1>6
<1>9. /\ ck[Len(ck) - n + 1] = h[cut].id
      /\ ToSet(SubSeq(ck, 1, Len(ck) - n)) = {p \in ToSet(ck) : p < h[cut].id}
      /\ Increasing(SubSeq(ck, 1, Len(ck) - n))
  BY <1>2, <1>4, <1>5, <1>6, <1>7, <1>8, CheckpointOfCut
<1> QED
  BY <1>4, <1>7, <1>9 DEF h, ck, cut, a

LEMMA UndoTurnsOrderly ==
    ASSUME NEW n \in 1..MaxPrompts PROVE IInv /\ OrderlyInv /\ UndoTurns(n) => OrderlyInv'
<1> SUFFICES ASSUME IInv, OrderlyInv, UndoTurns(n) PROVE OrderlyInv'
  OBVIOUS
<1> DEFINE h == fold.history
           cut == UndoCut(h, n)
           first == h[cut].id
           ck == checkpoints
           a == made.prompt
           turns == ToSet(ck)
           left == SubSeq(ck, 1, Len(ck) - n)
           r == SubSeq(h, 1, cut - 1)
<1>1. /\ cut # 0 /\ prompts' = {p \in prompts : p < first} /\ fold' = Undo(fold, n)
      /\ checkpoints' = left /\ made' = made
  BY DEF UndoTurns, UndoToCheckpoint
<1>2. n \in Nat /\ n >= 1 /\ a \in Nat /\ h \in Seq(Messages)
  BY IInvParts, FoldTypes
<1>3. /\ cut \in UndoAnchors(h) /\ ToSet(left) = {p \in turns : p < first} /\ Increasing(left)
      /\ Told(h, <<>>, a, prompts, turns)
  BY <1>2, UndoMeets
<1>4. Undo(fold, n) = Fold(r)
  BY <1>1 DEF Undo
<1> HIDE DEF h, cut, ck, a, turns, left
<1>5. Told(r, <<>>, a, {p \in prompts : p < first}, {p \in turns : p < first})
  BY <1>2, <1>3, PrefixTold
<1> HIDE DEF r, first
<1>6. Fold(r).history = r /\ Fold(r).deferred = <<>> /\ Fold(r).pending = <<>> /\ ToSet(<<>>) = {}
  BY DEF Fold, ToSet
<1>7. fold'.history = r /\ fold'.deferred = <<>> /\ ToSet(fold'.pending) \subseteq unanswered'
  BY <1>1, <1>4, <1>6
<1>8. made'.prompt = a
  BY <1>1 DEF a
<1>9. ToSet(checkpoints') = {p \in turns : p < first} /\ Increasing(checkpoints')
  BY <1>1, <1>3
<1>10. Tells(fold', made'.prompt, prompts', ToSet(checkpoints'))
  BY <1>1, <1>5, <1>7, <1>8, <1>9 DEF Tells
<1> QED
  BY <1>7, <1>9, <1>10 DEF OrderlyInv

-----------------------------------------------------------------------------
(* Every step keeps NoveltyInv while nothing fails.                         *)

LEMMA OriginalIs ==
    ASSUME IInv, NoveltyInv, compaction # None
    PROVE  /\ compaction.original # <<>> /\ compaction.original[1].id \in Nat
           /\ Dated(compaction.original[1], made, ToSet(fold.pending))
<1>1. compaction \in [manual : BOOLEAN, blocking : BOOLEAN, original : Seq(Messages)]
  BY IInvParts DEF CompactionInv
<1>2. compaction.original # <<>> /\ Dated(compaction.original[1], made, ToSet(fold.pending))
  BY DEF NoveltyInv
<1> DEFINE o == compaction.original
<1>3. o \in Seq(Messages) /\ o # <<>>
  BY <1>1, <1>2
<1> HIDE DEF o
<1>4. 1 \in DOMAIN o
  BY <1>3
<1>5. o[1].id \in Nat
  BY <1>3, <1>4, MessageIs
<1> QED
  BY <1>2, <1>5 DEF o

(* Nothing becomes less, and only new calls become open.                    *)
LEMMA FreshStays ==
    ASSUME IInv, NoveltyInv, made' \in [Kinds -> Nat], \A k \in Kinds : made[k] <= made'[k],
           \A m \in NotesOf(fold') : m.id <= made'.note,
           \A c \in ToSet(fold'.pending) : c \in ToSet(fold.pending) \/ ~ (c <= made.call),
           compaction' # None => compaction # None /\ compaction'.original = compaction.original,
           compaction # None /\ Stepping' /\ cleared' /\ fold'.history # <<>> =>
                ~ Same(fold'.history[1], compaction.original[1])
    PROVE  NoveltyInv'
<1>1. ASSUME compaction # None
      PROVE  /\ compaction.original # <<>>
             /\ Dated(compaction.original[1], made', ToSet(fold'.pending))
  <2> DEFINE o == compaction.original[1]
  <2>1. compaction.original # <<>> /\ o.id \in Nat /\ Dated(o, made, ToSet(fold.pending))
    BY <1>1, OriginalIs
  <2> HIDE DEF o
  <2>2. made \in [Kinds -> Nat]
    BY IInvParts
  <2>3. /\ made.prompt \in Nat /\ made'.prompt \in Nat /\ made.prompt <= made'.prompt
        /\ made.note \in Nat /\ made'.note \in Nat /\ made.note <= made'.note
        /\ made.call \in Nat /\ made'.call \in Nat /\ made.call <= made'.call
    BY <2>2 DEF Kinds
  <2>4. Dated(o, made', ToSet(fold'.pending))
    BY <2>1, <2>3 DEF Dated
  <2> QED
    BY <2>1, <2>4 DEF o
<1> QED
  BY <1>1 DEF NoveltyInv

(* The first message stays the first, or a new one is.                      *)
LEMMA FirstStays ==
    ASSUME NoveltyInv, compaction # None, Stepping, cleared, NEW m, Goes(fold', fold, m),
           ~ Same(m, compaction.original[1]), fold'.history # <<>>
    PROVE  ~ Same(fold'.history[1], compaction.original[1])
BY DEF NoveltyInv, Goes, Same

(* Neither the counts nor the open calls grow.                              *)
LEMMA FreshQuiet ==
    ASSUME IInv, NoveltyInv, \A k \in Kinds : made'[k] = made[k], made' \in [Kinds -> Nat],
           NotesOf(fold') \subseteq NotesOf(fold), ToSet(fold'.pending) \subseteq ToSet(fold.pending),
           compaction' # None => compaction # None /\ compaction'.original = compaction.original,
           compaction # None /\ Stepping' /\ cleared' /\ fold'.history # <<>> =>
                ~ Same(fold'.history[1], compaction.original[1])
    PROVE  NoveltyInv'
<1>1. made \in [Kinds -> Nat] /\ "note" \in Kinds
  BY IInvParts DEF Kinds
<1>2. \A k \in Kinds : made[k] <= made'[k]
  BY <1>1
<1>3. \A m \in NotesOf(fold') : m.id <= made'.note
  BY <1>1 DEF NoveltyInv
<1> QED
  BY <1>2, <1>3, FreshStays

(* Somebody speaks.                                                         *)
LEMMA SpeakFresh ==
    ASSUME IInv, NoveltyInv, NEW kind \in {"prompt", "note"}, Count(kind),
           NEW role \in {"user", "steer", "note"}, role = "note" <=> kind = "note",
           fold' = AppendMessage(fold, Message(role, made'[kind])), compaction' = compaction,
           Stepping' /\ cleared' => Stepping /\ cleared
    PROVE  NoveltyInv'
<1> DEFINE id == made'[kind]
           m == Message(role, id)
<1>1. /\ made' \in [Kinds -> Nat] /\ made \in [Kinds -> Nat] /\ kind \in Kinds
      /\ id = made[kind] + 1 /\ \A k \in Kinds \ {kind} : made'[k] = made[k]
  <2>1. made \in [Kinds -> Nat] /\ kind \in Kinds
    BY IInvParts DEF Kinds
  <2> QED
    BY <2>1, CountIs
<1>2. id \in Nat /\ \A k \in Kinds : made[k] <= made'[k]
  <2>1. \A k \in Kinds : made[k] \in Nat /\ made'[k] \in Nat
    BY <1>1
  <2>2. made'[kind] = made[kind] + 1
    BY <1>1
  <2>3. \A k \in Kinds : made'[k] = made[k] \/ made'[k] = made[k] + 1
    BY <1>1, <2>2
  <2>4. \A k \in Kinds : made[k] <= made'[k]
    BY <2>1, <2>3
  <2> QED
    BY <1>1, <2>1, <2>4
<1>3. fold' = AppendMessage(fold, m)
  OBVIOUS
<1>4. m \in Parked /\ m.role = role /\ m.id = id
  <2>1. role \in Roles
    BY DEF Roles
  <2> HIDE DEF id
  <2>2. m \in Messages /\ m.role = role /\ m.id = id /\ m.calls = <<>> /\ ~ m.partial
    BY <1>2, <2>1, MessageType
  <2> QED
    BY <2>2 DEF Parked
<1> HIDE DEF m
<1>5. FoldInv(fold, made.step, made.call, Settled, stray) /\ made.step \in Nat /\ made.call \in Nat
  BY IInvParts
<1>6. /\ NotesOf(fold') \subseteq NotesOf(fold) \cup {m}
      /\ role # "note" => NotesOf(fold') \subseteq NotesOf(fold)
      /\ Goes(fold', fold, m)
  BY <1>3, <1>4, <1>5, AppendMessageFresh
<1>7. fold'.pending = fold.pending
  BY <1>3, <1>4, <1>5, AppendMessageInv
<1>8. \A x \in NotesOf(fold') : x.id <= made'.note
  <2>1. CASE role = "note"
    <3>1. made.note \in Nat /\ made'.note = made.note + 1 /\ id = made.note + 1 /\ id = made'.note
      BY <1>1, <2>1 DEF Kinds
    <3>2. \A x \in NotesOf(fold) : x.id <= made.note /\ x.id \in Nat
      <4>1. \A x \in NotesOf(fold) : x.id <= made.note
        BY DEF NoveltyInv
      <4>2. \A x \in NotesOf(fold) : x \in Messages
        <5>1. fold.history \in Seq(Messages) /\ fold.deferred \in Seq(Messages)
          BY <1>5, FoldTypes
        <5> QED
          BY <5>1 DEF NotesOf, Notes, Queued
      <4> QED
        BY <4>1, <4>2 DEF Messages
    <3> HIDE DEF id
    <3>3. \A x \in NotesOf(fold) : x.id <= made'.note
      BY <3>1, <3>2
    <3>4. m.id <= made'.note
      BY <1>4, <3>1
    <3> QED
      BY <1>6, <3>3, <3>4
  <2>2. CASE role # "note"
    <3>1. made'.note = made.note
      BY <1>1, <2>2 DEF Kinds
    <3> QED
      BY <1>6, <2>2, <3>1 DEF NoveltyInv
  <2> QED
    BY <2>1, <2>2
<1>9. ASSUME compaction # None, Stepping', cleared', fold'.history # <<>>
      PROVE  ~ Same(fold'.history[1], compaction.original[1])
  <2> DEFINE o == compaction.original[1]
  <2>1. o.id \in Nat /\ Dated(o, made, ToSet(fold.pending))
    BY <1>9, OriginalIs
  <2> HIDE DEF o
  <2>2. ~ Same(m, o)
    <3> SUFFICES ASSUME o.role = role, o.id = id PROVE FALSE
      BY <1>4 DEF Same
    <3>1. made[kind] \in Nat /\ id = made[kind] + 1
      BY <1>1
    <3>2. o.id <= made[kind]
      BY <2>1 DEF Dated, IsRealUserInput
    <3> HIDE DEF id
    <3> QED
      BY <3>1, <3>2
  <2>3. Stepping /\ cleared
    BY <1>9
  <2> QED
    BY <1>6, <1>9, <2>2, <2>3, FirstStays DEF o
<1>10. \A c \in ToSet(fold'.pending) : c \in ToSet(fold.pending)
  BY <1>7
<1> QED
  BY <1>1, <1>2, <1>8, <1>9, <1>10, FreshStays

LEMMA SpeechFresh ==
    IInv /\ NoveltyInv /\ (StartTurn \/ BlockPrompt \/ Steer \/ Remind) => NoveltyInv'
<1> SUFFICES ASSUME IInv, NoveltyInv, StartTurn \/ BlockPrompt \/ Steer \/ Remind PROVE NoveltyInv'
  OBVIOUS
<1>1. CASE StartTurn
  <2>1. /\ Count("prompt") /\ fold' = AppendMessage(fold, Message("user", made'["prompt"]))
        /\ compaction' = compaction /\ ~ Stepping'
    BY <1>1 DEF StartTurn, Stepping
  <2> QED
    BY <2>1, SpeakFresh
<1>2. CASE BlockPrompt
  <2>1. /\ Count("prompt") /\ fold' = AppendMessage(fold, Message("user", made'["prompt"]))
        /\ compaction' = compaction /\ phase' = phase /\ cleared' = cleared
    BY <1>2 DEF BlockPrompt, stepVars
  <2>2. Stepping' /\ cleared' => Stepping /\ cleared
    BY <2>1 DEF Stepping
  <2> QED
    BY <2>1, <2>2, SpeakFresh
<1>3. CASE Steer
  <2>1. /\ Count("prompt") /\ fold' = AppendMessage(fold, Message("steer", made'["prompt"]))
        /\ compaction' = compaction /\ ~ Stepping'
    BY <1>3 DEF Steer, stepVars, Stepping
  <2> QED
    BY <2>1, SpeakFresh
<1>4. CASE Remind
  <2>1. /\ Count("note") /\ fold' = AppendMessage(fold, Message("note", made'["note"]))
        /\ compaction' = compaction /\ phase' = phase /\ cleared' = cleared
    BY <1>4 DEF Remind, stepVars, ghostVars
  <2>2. Stepping' /\ cleared' => Stepping /\ cleared
    BY <2>1 DEF Stepping
  <2> QED
    BY <2>1, <2>2, SpeakFresh
<1> QED
  BY <1>1, <1>2, <1>3, <1>4

(* The steps in which no message comes.                                     *)
LEMMA StillFresh ==
    ASSUME IInv, NoveltyInv, fold' = fold \/ fold' = ContentPart(fold), made' = made,
           cleared' = cleared, Stepping' => Stepping,
           compaction' # None => compaction # None /\ compaction'.original = compaction.original
    PROVE  NoveltyInv'
<1>1. FoldInv(fold, made.step, made.call, Settled, stray) /\ made \in [Kinds -> Nat]
      /\ made.step \in Nat /\ made.call \in Nat /\ made.call <= MaxCalls /\ MaxCalls \in Nat
      /\ Settled \subseteq 1..made.call
  BY IInvParts
<1>2. /\ NotesOf(fold') \subseteq NotesOf(fold) /\ fold'.pending = fold.pending
      /\ \A m : Goes(fold', fold, m)
  <2>1. CASE fold' = fold
    BY <2>1 DEF Goes, Same
  <2>2. CASE fold' = ContentPart(fold)
    <3>1. ContentPart(fold).pending = fold.pending
      BY <1>1, ContentPartInv
    <3>2. NotesOf(ContentPart(fold)) \subseteq NotesOf(fold)
      BY <1>1, ContentPartFresh
    <3>3. ASSUME NEW m PROVE Goes(ContentPart(fold), fold, m)
      BY <1>1, ContentPartFresh
    <3> QED
      BY <2>2, <3>1, <3>2, <3>3
  <2> QED
    BY <2>1, <2>2
<1>3. ASSUME compaction # None, Stepping', cleared', fold'.history # <<>>
      PROVE  ~ Same(fold'.history[1], compaction.original[1])
  <2> DEFINE m == [role |-> "assistant", id |-> compaction.original[1].id + 1]
  <2>1. ~ Same(m, compaction.original[1])
    <3>1. compaction.original[1].id \in Nat
      BY <1>3, OriginalIs
    <3> QED
      BY <3>1 DEF Same
  <2>2. Goes(fold', fold, m) /\ Stepping /\ cleared
    BY <1>2, <1>3
  <2> HIDE DEF m
  <2> QED
    BY <1>3, <2>1, <2>2, FirstStays
<1> QED
  BY <1>1, <1>2, <1>3, FreshQuiet

LEMMA QuietFresh ==
    ASSUME IInv, NoveltyInv,
           \/ Resume \/ RequestFails \/ Respond \/ AbandonStep \/ EndTurn \/ Wait \/ CancelCompaction
           \/ UNCHANGED vars
    PROVE  NoveltyInv'
<1>1. fold' = fold \/ fold' = ContentPart(fold)
  BY DEF Resume, RequestFails, Respond, AbandonStep, EndTurn, Wait, CancelCompaction, vars
<1>2. made' = made /\ cleared' = cleared
  BY DEF Resume, RequestFails, Respond, AbandonStep, EndTurn, Wait, CancelCompaction, vars,
         ghostVars
<1>3. Stepping' => Stepping
  BY DEF Resume, RequestFails, Respond, AbandonStep, EndTurn, Wait, CancelCompaction, vars,
         stepVars, Stepping
<1>4. compaction' # None => compaction # None /\ compaction'.original = compaction.original
  <2>1. CASE Wait
    <3>1. compaction # None /\ compaction' = [compaction EXCEPT !.blocking = TRUE]
      BY <2>1 DEF Wait
    <3>2. compaction \in [manual : BOOLEAN, blocking : BOOLEAN, original : Seq(Messages)]
      BY <3>1, IInvParts DEF CompactionInv
    <3>3. compaction'.original = compaction.original
      BY <3>1, <3>2
    <3> QED
      BY <3>1, <3>3
  <2>2. CASE ~ Wait
    BY <2>2 DEF Resume, RequestFails, Respond, AbandonStep, EndTurn, CancelCompaction, vars
  <2> QED
    BY <2>1, <2>2
<1> QED
  BY <1>1, <1>2, <1>3, <1>4, StillFresh

LEMMA AnnounceFresh == IInv /\ NoveltyInv /\ Announce => NoveltyInv'
<1> SUFFICES ASSUME IInv, NoveltyInv, Announce PROVE NoveltyInv'
  OBVIOUS
<1> DEFINE n == made.call
<1>1. /\ phase = "calling" /\ todo > 0 /\ Count("call") /\ fold' = ToolCall(fold, made'.call)
      /\ compaction' = compaction /\ phase' = phase /\ cleared' = cleared
  BY DEF Announce
<1>2. made' \in [Kinds -> Nat] /\ made'.call = n + 1 /\ \A k \in Kinds \ {"call"} : made'[k] = made[k]
  <2>1. made \in [Kinds -> Nat] /\ "call" \in Kinds
    BY IInvParts DEF Kinds
  <2> QED
    BY <1>1, <2>1, CountIs
<1>3. /\ made.step \in Nat /\ n \in Nat /\ MaxCalls \in Nat /\ Settled \subseteq 1..n
      /\ FoldInv(fold, made.step, n, Settled, stray) /\ todo \in 0..(MaxCalls - n)
      /\ made \in [Kinds -> Nat]
  BY IInvParts, LoopIs
<1>4. fold' = ToolCall(fold, n + 1)
  BY <1>1, <1>2
<1> HIDE DEF n
<1>5. n + 1 <= MaxCalls /\ ~ (n + 1 <= n)
  BY <1>1, <1>3
<1>6. ToSet(fold'.pending) = ToSet(fold.pending) \cup {n + 1}
  <2> DEFINE X2 == stray \cup {n + 1}
  <2>1. stray \subseteq X2 /\ n + 1 \in X2
    OBVIOUS
  <2> HIDE DEF X2
  <2>2. ToSet(ToolCall(fold, n + 1).pending) = ToSet(fold.pending) \cup {n + 1}
    BY <1>3, <1>5, <2>1, ToolCallInv
  <2> QED
    BY <1>4, <2>2
<1>7. NotesOf(fold') \subseteq NotesOf(fold) /\ \A m : Goes(fold', fold, m)
  <2>1. ASSUME NEW m PROVE NotesOf(ToolCall(fold, n + 1)) \subseteq NotesOf(fold)
                           /\ Goes(ToolCall(fold, n + 1), fold, m)
    BY <1>3, ToolCallFresh
  <2> QED
    BY <1>4, <2>1
<1>8. \A k \in Kinds : made[k] <= made'[k]
  <2>1. \A k \in Kinds : made[k] \in Nat /\ made'[k] \in Nat
    BY <1>2, <1>3
  <2>2. made'["call"] = made["call"] + 1
    BY <1>2 DEF n
  <2>3. \A k \in Kinds : made'[k] = made[k] \/ made'[k] = made[k] + 1
    BY <1>2, <2>2
  <2> QED
    BY <2>1, <2>3
<1>9. \A m \in NotesOf(fold') : m.id <= made'.note
  <2>1. made'.note = made.note
    BY <1>2 DEF Kinds
  <2> QED
    BY <1>7, <2>1 DEF NoveltyInv
<1>10. ASSUME compaction # None, Stepping', cleared', fold'.history # <<>>
       PROVE  ~ Same(fold'.history[1], compaction.original[1])
  <2> DEFINE m == [role |-> "assistant", id |-> compaction.original[1].id + 1]
  <2>1. ~ Same(m, compaction.original[1])
    <3>1. compaction.original[1].id \in Nat
      BY <1>10, OriginalIs
    <3> QED
      BY <3>1 DEF Same
  <2>2. Goes(fold', fold, m) /\ Stepping /\ cleared
    BY <1>1, <1>7, <1>10 DEF Stepping
  <2> HIDE DEF m
  <2> QED
    BY <1>10, <2>1, <2>2, FirstStays
<1>11. \A c \in ToSet(fold'.pending) : c \in ToSet(fold.pending) \/ ~ (c <= made.call)
  BY <1>5, <1>6 DEF n
<1> QED
  BY <1>1, <1>2, <1>8, <1>9, <1>10, <1>11, FreshStays

LEMMA ResultFresh ==
    ASSUME NEW call \in unanswered PROVE IInv /\ NoveltyInv /\ Result(call) => NoveltyInv'
<1> SUFFICES ASSUME IInv, NoveltyInv, Result(call) PROVE NoveltyInv'
  OBVIOUS
<1>1. /\ fold' = ToolResult(fold, call) /\ made' = made /\ compaction' = compaction
      /\ phase' = phase /\ cleared' = cleared
  BY DEF Result
<1>2. Stepping' => Stepping
  BY <1>1 DEF Stepping
<1>3. CASE call \notin ToSet(fold.pending)
  <2>1. fold' = fold
    BY <1>1, <1>3 DEF ToolResult
  <2> QED
    BY <1>1, <1>2, <2>1, StillFresh
<1>4. CASE call \in ToSet(fold.pending)
  <2> DEFINE m == Message("tool", call)
  <2>1. /\ FoldInv(fold, made.step, made.call, Settled, stray) /\ made \in [Kinds -> Nat]
        /\ made.step \in Nat /\ made.call \in Nat
    BY IInvParts
  <2>2. NotesOf(fold') \subseteq NotesOf(fold) /\ Goes(fold', fold, m)
    BY <1>1, <1>4, <2>1, ToolResultFresh
  <2>3. ToSet(fold'.pending) = ToSet(fold.pending) \ {call}
    BY <1>1, <1>4, <2>1, ToolResultInv
  <2>4. m.role = "tool" /\ m.id = call
    BY DEF Message
  <2> HIDE DEF m
  <2>5. ASSUME compaction # None, Stepping', cleared', fold'.history # <<>>
        PROVE  ~ Same(fold'.history[1], compaction.original[1])
    <3>1. Dated(compaction.original[1], made, ToSet(fold.pending))
      BY <2>5, OriginalIs
    <3>2. ~ Same(m, compaction.original[1])
      BY <1>4, <2>4, <3>1 DEF Same, Dated, IsToolResult
    <3>3. Stepping /\ cleared
      BY <1>1, <1>2, <2>5
    <3> QED
      BY <2>2, <2>5, <3>2, <3>3, FirstStays
  <2> QED
    BY <1>1, <2>1, <2>2, <2>3, <2>5, FreshQuiet
<1> QED
  BY <1>3, <1>4

LEMMA BeginStepFresh == IInv /\ OrderlyInv /\ NoveltyInv /\ BeginStep => NoveltyInv'
<1> SUFFICES ASSUME IInv, OrderlyInv, NoveltyInv, BeginStep PROVE NoveltyInv'
  OBVIOUS
<1> DEFINE s == made.step
           n == made.call
<1>1. /\ phase = "between" /\ Count("step") /\ fold' = StepBegin(fold, made'.step)
      /\ compaction' = compaction /\ ~ cleared'
  BY DEF BeginStep
<1>2. made' \in [Kinds -> Nat] /\ made'.step = s + 1 /\ \A k \in Kinds \ {"step"} : made'[k] = made[k]
  <2>1. made \in [Kinds -> Nat] /\ "step" \in Kinds
    BY IInvParts DEF Kinds
  <2> QED
    BY <1>1, <2>1, CountIs
<1>3. s \in Nat /\ n \in Nat /\ n <= MaxCalls /\ MaxCalls \in Nat /\ Settled \subseteq 1..n
      /\ FoldInv(fold, s, n, Settled, stray) /\ made \in [Kinds -> Nat]
  BY IInvParts
<1>4. fold.pending = <<>>
  BY <1>1, LoopIs, NothingParked
<1>5. fold' = StepBegin(fold, s + 1) /\ s + 1 \in Nat
  BY <1>1, <1>2, <1>3
<1> HIDE DEF s, n
<1>6. NotesOf(StepBegin(fold, s + 1)) \subseteq NotesOf(fold)
  BY <1>3, <1>4, <1>5, StepBeginFresh
<1>7. StepBegin(fold, s + 1).pending = <<>>
  BY <1>3, StepBeginInv
<1>8. NotesOf(fold') \subseteq NotesOf(fold) /\ fold'.pending = fold.pending
  BY <1>4, <1>5, <1>6, <1>7
<1>9. \A k \in Kinds : made[k] <= made'[k]
  <2>1. \A k \in Kinds : made[k] \in Nat /\ made'[k] \in Nat
    BY <1>2, <1>3
  <2>2. made'["step"] = made["step"] + 1
    BY <1>2 DEF s
  <2>3. \A k \in Kinds : made'[k] = made[k] \/ made'[k] = made[k] + 1
    BY <1>2, <2>2
  <2> QED
    BY <2>1, <2>3
<1>10. \A m \in NotesOf(fold') : m.id <= made'.note
  <2>1. made'.note = made.note
    BY <1>2 DEF Kinds
  <2> QED
    BY <1>8, <2>1 DEF NoveltyInv
<1> QED
  BY <1>1, <1>2, <1>8, <1>9, <1>10, FreshStays

LEMMA EndStepFresh == IInv /\ OrderlyInv /\ NoveltyInv /\ EndStep => NoveltyInv'
<1> SUFFICES ASSUME IInv, OrderlyInv, NoveltyInv, EndStep PROVE NoveltyInv'
  OBVIOUS
<1> DEFINE s == made.step
           n == made.call
<1>1. /\ unanswered = {} /\ fold' = StepEnd(fold) /\ made' = made
      /\ compaction' = compaction /\ ~ Stepping'
  BY DEF EndStep, StepDone, Stepping
<1>2. s \in Nat /\ n \in Nat /\ n <= MaxCalls /\ MaxCalls \in Nat /\ Settled \subseteq 1..n
      /\ FoldInv(fold, s, n, Settled, stray) /\ made \in [Kinds -> Nat]
  BY IInvParts
<1>3. fold.pending = <<>>
  BY <1>1, NothingParked
<1> DEFINE g == SettleOpenStep(fold)
<1> HIDE DEF s, n
<1>4. NotesOf(StepEnd(fold)) \subseteq NotesOf(fold)
  BY <1>2, <1>3, StepEndFresh
<1>5. StepEnd(fold).pending = <<>>
  <2>1. FoldInv(g, s, n, Settled, stray) /\ g.pending = <<>>
    BY <1>2, SettleInv
  <2>2. Unflushed(g, s, n, Settled, stray)
    BY <2>1, FoldParts
  <2>3. StepEnd(fold) = FlushDeferred(g)
    BY DEF StepEnd
  <2> HIDE DEF g
  <2> QED
    BY <1>2, <2>1, <2>2, <2>3, FlushInv
<1>6. NotesOf(fold') \subseteq NotesOf(fold) /\ fold'.pending = fold.pending
  BY <1>1, <1>3, <1>4, <1>5
<1> QED
  BY <1>1, <1>2, <1>6, FreshQuiet

LEMMA BeginCompactionFresh == IInv /\ OrderlyInv /\ NoveltyInv /\ BeginCompaction => NoveltyInv'
<1> SUFFICES ASSUME IInv, OrderlyInv, NoveltyInv, BeginCompaction PROVE NoveltyInv'
  OBVIOUS
<1> DEFINE h == fold.history
           m == h[1]
<1>1. Count("compaction") /\ fold' = fold /\ h # <<>> /\ compaction'.original = h /\ ~ Stepping'
  BY DEF BeginCompaction, Stepping
<1>2. made' \in [Kinds -> Nat] /\ \A k \in Kinds \ {"compaction"} : made'[k] = made[k]
  <2>1. made \in [Kinds -> Nat] /\ "compaction" \in Kinds
    BY IInvParts DEF Kinds
  <2> QED
    BY <1>1, <2>1, CountIs
<1>3. made'.prompt = made.prompt /\ made'.note = made.note /\ made'.call = made.call
  BY <1>2 DEF Kinds
<1>4. FoldInv(fold, made.step, made.call, Settled, stray) /\ made.prompt \in Nat
  BY IInvParts
<1>5. h \in Seq(Messages) /\ 1 \in DOMAIN h
  <2>1. h \in Seq(Messages)
    BY <1>4, FoldTypes
  <2> QED
    BY <1>1, <2>1
<1>6. IsRealUserInput(m) => m.id <= made.prompt
  <2>1. WordIds(h) \subseteq 1..made.prompt
    BY DEF OrderlyInv, Tells, Told
  <2>2. IsRealUserInput(m) => m.id \in WordIds(h)
    BY <1>5 DEF WordIds
  <2> QED
    BY <1>4, <2>1, <2>2
<1>7. m.role = "note" => m.id <= made.note
  <2>1. m.role = "note" => m \in NotesOf(fold)
    BY <1>5 DEF NotesOf, Notes, Queued
  <2> QED
    BY <2>1 DEF NoveltyInv
<1>8. IsToolResult(m) => m.id <= made.call /\ m.id \notin ToSet(fold.pending)
  <2>1. IsToolResult(m) => m.id <= made.call
    <3>1. Shaped(m, made.step, made.call, Settled)
      BY <1>4, <1>5 DEF FoldInv, HistInv
    <3> QED
      BY <3>1 DEF Shaped
  <2>2. \A c \in ToSet(fold.pending) : ~ Answers(m, c)
    <3>1. OpenInv(h, fold.pending, Settled, stray)
      BY <1>4 DEF FoldInv
    <3> HIDE DEF h
    <3> QED
      BY <1>5, <3>1 DEF OpenInv
  <2> QED
    BY <2>1, <2>2 DEF Answers
<1>9. Dated(compaction'.original[1], made', ToSet(fold'.pending))
  <2> HIDE DEF h
  <2> QED
    BY <1>1, <1>3, <1>6, <1>7, <1>8 DEF Dated
<1>10. \A x \in NotesOf(fold') : x.id <= made'.note
  BY <1>1, <1>3 DEF NoveltyInv
<1> QED
  BY <1>1, <1>9, <1>10 DEF NoveltyInv

LEMMA RewriteFresh ==
    ASSUME IInv, NoveltyInv,
           FinishCompaction \/ ClearContext \/ \E n \in 1..MaxPrompts : UndoTurns(n)
    PROVE  NoveltyInv'
<1>1. CASE FinishCompaction
  <2>1. compaction' = None /\ fold' = ApplyCompaction(fold, made.compaction)
    BY <1>1 DEF FinishCompaction
  <2>2. fold.history \in Seq(Messages) /\ made.compaction \in Nat
    BY IInvParts, FoldTypes DEF Kinds
  <2>3. NotesOf(fold') = {}
    BY <2>1, <2>2, CompactionFresh
  <2> QED
    BY <2>1, <2>3 DEF NoveltyInv
<1>2. CASE ClearContext
  <2>1. fold' = EmptyFold /\ made' = made /\ compaction' = compaction
    BY <1>2 DEF ClearContext, Clear
  <2>2. fold'.history = <<>> /\ fold'.deferred = <<>> /\ ToSet(fold'.pending) = {}
    BY <2>1 DEF EmptyFold, Fold, ToSet
  <2>3. NotesOf(fold') = {}
    BY <2>2 DEF NotesOf, Notes, Queued
  <2>4. made \in [Kinds -> Nat]
    BY IInvParts
  <2> QED
    BY <2>1, <2>2, <2>3, <2>4, FreshQuiet
<1>3. ASSUME NEW n \in 1..MaxPrompts, UndoTurns(n) PROVE NoveltyInv'
  <2> DEFINE h == fold.history
             cut == UndoCut(h, n)
             r == SubSeq(h, 1, cut - 1)
  <2>1. compaction' = None /\ fold' = Undo(fold, n) /\ made' = made /\ cut # 0
    BY <1>3 DEF UndoTurns
  <2>2. fold' = Fold(r)
    BY <2>1 DEF Undo
  <2>3. h \in Seq(Messages) /\ n \in Nat /\ n >= 1
    BY IInvParts, FoldTypes
  <2>4. cut \in UndoAnchors(h)
    <3> HIDE DEF h
    <3> QED
      BY <2>1, <2>3, UndoCutIs
  <2>5. \A k \in DOMAIN r : k \in DOMAIN h /\ r[k] = h[k]
    <3>1. cut \in DOMAIN h /\ DOMAIN h = 1..Len(h) /\ Len(h) \in Nat
      BY <2>3, <2>4 DEF UndoAnchors
    <3> HIDE DEF h, cut
    <3>2. DOMAIN r = 1..(cut - 1) /\ \A k \in 1..(cut - 1) : r[k] = h[k]
      BY <2>3, <3>1
    <3> HIDE DEF r
    <3> QED
      BY <3>1, <3>2
  <2> HIDE DEF r
  <2>6. Fold(r).history = r /\ Fold(r).deferred = <<>>
    BY DEF Fold
  <2>7. NotesOf(fold') \subseteq NotesOf(fold)
    BY <2>2, <2>5, <2>6 DEF NotesOf, Notes, Queued
  <2> QED
    BY <2>1, <2>7 DEF NoveltyInv
<1> QED
  BY <1>1, <1>2, <1>3

LEMMA InitFresh == Init => NoveltyInv
<1> SUFFICES ASSUME Init PROVE NoveltyInv
  OBVIOUS
<1>1. fold.history = <<>> /\ fold.deferred = <<>> /\ compaction = None
  BY DEF Init, EmptyFold, Fold
<1>2. NotesOf(fold) = {}
  BY <1>1 DEF NotesOf, Notes, Queued
<1> QED
  BY <1>1, <1>2 DEF NoveltyInv

LEMMA NextFresh == Failures = {} /\ IInv /\ OrderlyInv /\ NoveltyInv /\ [Next]_vars => NoveltyInv'
<1>1. Failures = {} => ~ PrepareFails /\ ~ Restart
  BY DEF PrepareFails, Restart
<1> QED
  BY <1>1, SpeechFresh, BeginStepFresh, QuietFresh, AnnounceFresh, ResultFresh, EndStepFresh,
     BeginCompactionFresh, RewriteFresh DEF Next

LEMMA NextOrderly == Failures = {} /\ IInv /\ OrderlyInv /\ NoveltyInv /\ [Next]_vars => OrderlyInv'
<1>1. Failures = {} => ~ PrepareFails /\ ~ Restart
  BY DEF PrepareFails, Restart
<1> QED
  BY <1>1, StartTurnOrderly, BlockPromptOrderly, SteerOrderly, RemindOrderly, BeginStepOrderly,
     RequestFailsOrderly, RespondOrderly, AnnounceOrderly, ResultOrderly, EndStepOrderly,
     BeginCompactionOrderly, QuietOrderly, FinishCompactionOrderly, UndoTurnsOrderly,
     ClearContextOrderly DEF Next

(* While nothing fails: calls are open only while their tools run, all that *)
(* was said is in the context in order, and each turn undo can reach has    *)
(* its checkpoint.                                                          *)
THEOREM OrderlyInvariant == ASSUME Failures = {} PROVE Spec => [](IInv /\ OrderlyInv /\ NoveltyInv)
<1>1. IInv /\ OrderlyInv /\ NoveltyInv /\ [Next]_vars => (IInv /\ OrderlyInv /\ NoveltyInv)'
  BY NextPreserves, NextOrderly, NextFresh
<1> QED
  BY <1>1, InitIInv, InitOrderly, InitFresh, PTL DEF Spec
-----------------------------------------------------------------------------
(* What the runs check while nothing fails.                                 *)

LEMMA RequestShows == IInv /\ OrderlyInv => RequestsShowPrompts
<1> SUFFICES ASSUME IInv, OrderlyInv, phase = "requesting", NEW p \in prompts
             PROVE  p \in Ids(Project(fold.history), LAMBDA m : m.role \in {"user", "steer"})
  BY DEF RequestsShowPrompts
<1> DEFINE h == fold.history
           r == Project(h)
<1>1. fold.deferred = <<>>
  BY LoopIs, NothingParked
<1>2. prompts \subseteq WordIds(h)
  <2>1. Told(h, <<>>, made.prompt, prompts, ToSet(checkpoints))
    BY <1>1 DEF OrderlyInv, Tells
  <2>2. WordIds(<<>>) = {}
    BY NothingSaid
  <2> HIDE DEF h
  <2> QED
    BY <2>1, <2>2 DEF Told
<1>3. PICK i \in DOMAIN h : IsRealUserInput(h[i]) /\ h[i].id = p
  BY <1>2 DEF WordIds
<1>4. h[i] \in Queued(r)
  <2>1. h[i] \in Queued(h)
    BY DEF Queued
  <2>2. \A m \in Queued(h) : IsRealUserInput(m) => m \in Queued(r)
    BY RequestIs
  <2> QED
    BY <1>3, <2>1, <2>2
<1>5. h[i] \in ToSet(r)
  BY <1>4, ToSetQueued
<1> HIDE DEF h, r
<1>6. h[i].role \in {"user", "steer"}
  BY <1>3 DEF IsRealUserInput
<1>7. p \in Ids(r, LAMBDA m : m.role \in {"user", "steer"})
  BY <1>3, <1>5, <1>6 DEF Ids
<1> QED
  BY <1>7 DEF r, h

(* While nothing fails, a request shows all the user has said and not taken *)
(* back: no compaction, interruption, steering, parking or undo costs words.*)
THEOREM RequestsShowPromptsHolds == ASSUME Failures = {} PROVE Spec => []RequestsShowPrompts
BY OrderlyInvariant, RequestShows, PTL

LEMMA FinishRemoves ==
    ASSUME IInv, OrderlyInv, NoveltyInv, FinishCompaction
    PROVE  ToSet(fold.history \o fold.deferred) \ ToSet(fold'.history)
              \subseteq {m \in ToSet(compaction.original) : ~ IsRealUserInput(m)}
<1> DEFINE h == fold.history
           o == compaction.original
           words == {m \in ToSet(h) : IsRealUserInput(m)}
           k == Kept(h, words)
           m == Message("summary", made.compaction)
           r == Append(k, m)
<1>1. /\ compaction # None /\ HistorySafeToCompact(h, o) /\ fold' = ApplyCompaction(fold, made.compaction)
  BY DEF FinishCompaction
<1>2. h \in Seq(Messages) /\ o \in Seq(Messages)
  <2>1. compaction \in [manual : BOOLEAN, blocking : BOOLEAN, original : Seq(Messages)]
    BY <1>1, IInvParts DEF CompactionInv
  <2>2. h \in Seq(Messages)
    BY IInvParts, FoldTypes
  <2> QED
    BY <2>1, <2>2
<1>3. fold.deferred = <<>>
  <2>1. ~ Stepping
    BY <1>1, NotInStep
  <2> QED
    BY <2>1, LoopIs, NothingParked DEF Stepping
<1>4. fold'.history = r
  BY <1>1 DEF ApplyCompaction, Fold
<1>5. k \in Seq(Messages) /\ Queued(k) = Queued(h) \cap words
  BY <1>2, KeptProperties
<1>6. words = {x \in Queued(h) : IsRealUserInput(x)}
  BY ToSetQueued
<1> HIDE DEF k, m, words, o, h
<1>7. Queued(r) = Queued(k) \cup {m}
  BY <1>5, QueuedAppend
<1> HIDE DEF r
<1>8. /\ Len(o) <= Len(h) /\ SubSeq(o, 1, Len(o)) = SubSeq(h, 1, Len(o))
      /\ \A i \in (Len(o) + 1)..Len(h) : IsRealUserInput(h[i])
  BY <1>1 DEF HistorySafeToCompact, IsPrefix
<1>9. ASSUME NEW i \in DOMAIN h, ~ IsRealUserInput(h[i]) PROVE h[i] \in Queued(o)
  <2>1. i \in 1..Len(h) /\ Len(h) \in Nat /\ Len(o) \in Nat /\ DOMAIN o = 1..Len(o)
    BY <1>2
  <2>2. i \in 1..Len(o)
    BY <1>8, <1>9, <2>1
  <2>3. SubSeq(o, 1, Len(o))[i] = o[i] /\ SubSeq(h, 1, Len(o))[i] = h[i]
    BY <1>2, <1>8, <2>1, <2>2
  <2>4. o[i] = h[i]
    BY <1>8, <2>3
  <2> QED
    BY <2>1, <2>2, <2>4 DEF Queued
<1>10. h \o <<>> = h
  BY <1>2
<1>11. ASSUME NEW x \in Queued(h), x \notin Queued(r) PROVE x \in Queued(o) /\ ~ IsRealUserInput(x)
  <2>1. ~ IsRealUserInput(x)
    BY <1>5, <1>6, <1>7, <1>11
  <2> QED
    BY <1>9, <2>1 DEF Queued
<1>12. ToSet(h) \ ToSet(r) \subseteq {x \in ToSet(o) : ~ IsRealUserInput(x)}
  BY <1>11, ToSetQueued
<1> QED
  BY <1>3, <1>4, <1>10, <1>12 DEF h, o

(* While nothing fails, a compaction removes nothing but what was in the    *)
(* history when it began and is not the user's: nothing is parked when its  *)
(* summary is applied, what came meanwhile stays, and a compaction under    *)
(* which the history was cleared in a step is not applied.                  *)
THEOREM OnlyOldIsCompactedHolds == ASSUME Failures = {} PROVE Spec => OnlyOldIsCompacted
<1>1. IInv /\ OrderlyInv /\ NoveltyInv /\ [Next]_vars =>
         [FinishCompaction =>
            ToSet(fold.history \o fold.deferred) \ ToSet(fold'.history)
                \subseteq {m \in ToSet(compaction.original) : ~ IsRealUserInput(m)}]_vars
  BY FinishRemoves
<1> QED
  BY <1>1, OrderlyInvariant, PTL DEF Spec, OnlyOldIsCompacted

(* While nothing fails, undo takes the context and the states beside it to  *)
(* the same moment: the checkpoint it restores is that of the first prompt  *)
(* it removes, whatever was parked, compacted, cleared or undone before.    *)
THEOREM UndoRestoresPreTurnHolds == ASSUME Failures = {} PROVE Spec => UndoRestoresPreTurn
<1>1. ASSUME IInv, OrderlyInv, NEW n \in 1..MaxPrompts, UndoTurns(n)
      PROVE  checkpoints[Len(checkpoints) - n + 1] = fold.history[UndoCut(fold.history, n)].id
  <2>1. n \in Nat /\ n >= 1
    OBVIOUS
  <2> QED
    BY <1>1, <2>1, UndoMeets
<1>2. IInv /\ OrderlyInv /\ [Next]_vars =>
         [\A n \in 1..MaxPrompts : UndoTurns(n) =>
            checkpoints[Len(checkpoints) - n + 1]
                = fold.history[UndoCut(fold.history, n)].id]_vars
  BY <1>1
<1> QED
  BY <1>2, OrderlyInvariant, PTL DEF Spec, UndoRestoresPreTurn
=============================================================================
