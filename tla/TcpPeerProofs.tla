---------------------------- MODULE TcpPeerProofs ----------------------------
(***************************************************************************)
(* From the ring to the stream. The ring is a FIFO: for a sound queue of   *)
(* any capacity, each operation leaves a sound queue and does to its       *)
(* contents what the name says. On it, BufQueue keeps its bytes exact and  *)
(* in order however a write is cut, as long as a frame is never shorter    *)
(* than what is queued; and then packages arrive whole, once and in order. *)
(***************************************************************************)
EXTENDS TcpPeer, SequenceTheorems, FiniteSetTheorems, TLAPS

USE RingAssumption DEF RingAssumption, Ring

-----------------------------------------------------------------------------
(* Arithmetic of a ring of c slots, on numbers: the distance from h up to t, *)
(* and the slot i places after h.                                            *)

Dist(h, t, c) == IF h <= t THEN t - h ELSE t + (c - h)
Turn(h, i, c) == IF h + i < c THEN h + i ELSE h + i - c

\* One step of t that does not meet h makes the distance one more.
LEMMA DistStep ==
    ASSUME NEW c \in Nat, NEW h \in Nat, NEW t \in Nat, h < c, t < c, t + 1 # c, t + 1 # h
    PROVE  Dist(h, t + 1, c) = Dist(h, t, c) + 1
BY DEF Dist

\* Moving h by no more than the distance shortens it by as much.
LEMMA DistTurn ==
    ASSUME NEW c \in Nat, NEW h \in Nat, NEW t \in Nat, h < c, t < c,
           NEW m \in Nat, m <= Dist(h, t, c)
    PROVE  /\ Turn(h, m, c) \in Nat /\ Turn(h, m, c) < c
           /\ Dist(Turn(h, m, c), t, c) = Dist(h, t, c) - m
BY DEF Dist, Turn

\* Two turns are one.
LEMMA TurnTurn ==
    ASSUME NEW c \in Nat, NEW h \in Nat, h < c, NEW m \in Nat, NEW i \in Nat, m + i < c
    PROVE  Turn(Turn(h, m, c), i, c) = Turn(h, i + m, c)
BY DEF Turn

\* Different places are different slots.
LEMMA TurnOne ==
    ASSUME NEW c \in Nat, NEW h \in Nat, h < c, NEW i \in Nat, NEW j \in Nat,
           i < c, j < c, Turn(h, i, c) = Turn(h, j, c)
    PROVE  i = j
BY DEF Turn

\* Count and Slot are this arithmetic.
LEMMA InNumbers ==
    ASSUME NEW q
    PROVE  Count(q) = Dist(q.head, q.tail, q.cap) /\ \A i : Slot(q, i) = Turn(q.head, i, q.cap)
BY DEF Count, Slot, Dist, Turn

-----------------------------------------------------------------------------
\* The indices of a queue lie in its buffer.
Bounded(q) ==
    q.cap \in Nat /\ q.head \in Nat /\ q.tail \in Nat /\ q.head < q.cap /\ q.tail < q.cap

\* The parts of a sound queue, and that it is the record of them.
LEMMA SoundParts ==
    ASSUME NEW q, Sound(q)
    PROVE  /\ Bounded(q) /\ q.cap \in Nat /\ q.cap > 1 /\ q.head \in Nat /\ q.tail \in Nat
           /\ q.head < q.cap /\ q.tail < q.cap
           /\ q.buf \in [0 .. q.cap - 1 -> Elements \cup {Raw}]
           /\ Count(q) \in Nat /\ Count(q) < q.cap
           /\ \A i \in Nat : i < q.cap => Slot(q, i) \in 0 .. q.cap - 1
BY DEF Bounded, Sound, Count, Slot

\* A queue that was just made is sound and empty.
THEOREM NewQueueSound ==
    ASSUME NEW cap \in Nat, cap > 1
    PROVE  Sound(NewQueue(cap)) /\ Contents(NewQueue(cap)) = <<>>
<1>1. Sound(NewQueue(cap))
  BY DEF Sound, NewQueue, Window
<1>2. Count(NewQueue(cap)) = 0
  BY DEF Count, NewQueue
<1>. QED  BY <1>1, <1>2 DEF Contents

\* The window is the image of 0 .. Count - 1 under Slot.
LEMMA WindowSlots ==
    ASSUME NEW q, Bounded(q)
    PROVE  /\ \A i \in 0 .. Count(q) - 1 : Slot(q, i) \in Window(q)
           /\ \A k \in Window(q) : \E i \in 0 .. Count(q) - 1 : k = Slot(q, i)
<1>. /\ q.cap \in Nat /\ q.head \in Nat /\ q.tail \in Nat
     /\ q.head < q.cap /\ q.tail < q.cap
  BY DEF Bounded
<1>1. CASE q.head <= q.tail
  <2>1. \A i \in 0 .. Count(q) - 1 : Slot(q, i) \in Window(q)
    BY <1>1 DEF Count, Slot, Window
  <2>2. ASSUME NEW k \in Window(q)
        PROVE  \E i \in 0 .. Count(q) - 1 : k = Slot(q, i)
    <3>1. k - q.head \in 0 .. Count(q) - 1 /\ k = Slot(q, k - q.head)
      BY <1>1, <2>2 DEF Count, Slot, Window
    <3>. QED  BY <3>1
  <2>. QED  BY <2>1, <2>2
<1>2. CASE q.tail < q.head
  <2>1. \A i \in 0 .. Count(q) - 1 : Slot(q, i) \in Window(q)
    BY <1>2 DEF Count, Slot, Window
  <2>2. ASSUME NEW k \in Window(q)
        PROVE  \E i \in 0 .. Count(q) - 1 : k = Slot(q, i)
    <3>1. CASE q.head <= k
      <4>1. k - q.head \in 0 .. Count(q) - 1 /\ k = Slot(q, k - q.head)
        BY <1>2, <2>2, <3>1 DEF Count, Slot, Window
      <4>. QED  BY <4>1
    <3>2. CASE k < q.head
      <4>1. /\ k + q.cap - q.head \in 0 .. Count(q) - 1
            /\ k = Slot(q, k + q.cap - q.head)
        BY <1>2, <2>2, <3>2 DEF Count, Slot, Window
      <4>. QED  BY <4>1
    <3>. QED  BY <2>2, <3>1, <3>2 DEF Window
  <2>. QED  BY <2>1, <2>2
<1>. QED  BY <1>1, <1>2

\* The contents are a sequence of elements, as long as the queue.
LEMMA ContentsType ==
    ASSUME NEW q, Sound(q)
    PROVE  /\ Contents(q) \in Seq(Elements)
           /\ Len(Contents(q)) = Count(q)
           /\ \A i \in 1 .. Count(q) : Contents(q)[i] = At(q, i - 1)
<1>1. \A i \in 1 .. Count(q) : At(q, i - 1) \in Elements
  <2>. SUFFICES ASSUME NEW i \in 1 .. Count(q)
                PROVE  At(q, i - 1) \in Elements
    OBVIOUS
  <2>1. Count(q) \in Nat
    BY SoundParts
  <2>2. i - 1 \in 0 .. Count(q) - 1
    BY <2>1
  <2>3. Slot(q, i - 1) \in Window(q) /\ Slot(q, i - 1) \in 0 .. q.cap - 1
    BY <2>2, WindowSlots, SoundParts
  <2>. QED  BY <2>3 DEF At, Sound
<1>2. Count(q) \in Nat
  BY SoundParts
<1>. QED  BY <1>1, <1>2 DEF Contents

\* Clear destroys every element.
THEOREM ClearEmpties ==
    ASSUME NEW q, Sound(q)
    PROVE  Sound(Clear(q)) /\ Contents(Clear(q)) = <<>>
<1>. /\ q.cap \in Nat /\ q.cap > 1 /\ q.head \in Nat /\ q.tail \in Nat
     /\ q.head < q.cap /\ q.tail < q.cap
     /\ q.buf \in [0 .. q.cap - 1 -> Elements \cup {Raw}]
  BY SoundParts
<1>1. CASE q.head = q.tail
  <2>1. Clear(q) = q /\ Count(q) = 0
    BY <1>1 DEF Clear, Count
  <2>. QED  BY <2>1 DEF Contents
<1>2. CASE q.head # q.tail
  <2>. DEFINE r == Ring(Destroyed(q, Window(q)), q.cap, 0, 0)
  <2>1. Clear(q) = r
    BY <1>2 DEF Clear
  <2>2. r.buf \in [0 .. q.cap - 1 -> {Raw}]
    BY DEF Destroyed, Sound
  <2>3. Window(r) = {}
    BY DEF Window
  <2>4. Sound(r)
    BY <2>2, <2>3 DEF Sound
  <2>5. Count(r) = 0
    BY DEF Count
  <2>. QED  BY <2>1, <2>4, <2>5 DEF Contents
<1>. QED  BY <1>1, <1>2

\* The slot at tail is the first one after the window.
LEMMA TailFree ==
    ASSUME NEW q, Sound(q)
    PROVE  /\ Slot(q, Count(q)) = q.tail /\ q.tail \notin Window(q)
           /\ \A i \in 0 .. Count(q) - 1 : Slot(q, i) # q.tail
<1>. /\ q.cap \in Nat /\ q.head \in Nat /\ q.tail \in Nat
     /\ q.head < q.cap /\ q.tail < q.cap
  BY SoundParts
<1>1. Slot(q, Count(q)) = q.tail
  BY DEF Slot, Count
<1>2. q.tail \notin Window(q)
  BY DEF Window
<1>. QED  BY <1>1, <1>2, WindowSlots, SoundParts

\* When a queue holds one element more, behind the others, it was appended.
LEMMA ContentsAppended ==
    ASSUME NEW q, Sound(q), NEW r, Sound(r), NEW e \in Elements, Count(r) = Count(q) + 1,
           \A i \in 0 .. Count(q) : At(r, i) = IF i < Count(q) THEN At(q, i) ELSE e
    PROVE  Contents(r) = Append(Contents(q), e)
<1>. DEFINE n == Count(q)
            s == Contents(q)
            t == Contents(r)
<1>1. /\ n \in Nat
      /\ s \in Seq(Elements) /\ Len(s) = n /\ \A i \in 1 .. n : s[i] = At(q, i - 1)
      /\ t \in Seq(Elements) /\ Len(t) = n + 1 /\ \A i \in 1 .. n + 1 : t[i] = At(r, i - 1)
  BY SoundParts, ContentsType
<1>2. \A i \in 1 .. n + 1 : At(r, i - 1) = IF i <= n THEN s[i] ELSE e
  <2>. SUFFICES ASSUME NEW i \in 1 .. n + 1
                PROVE  At(r, i - 1) = IF i <= n THEN s[i] ELSE e
    OBVIOUS
  <2>1. i - 1 \in 0 .. n /\ (i - 1 < n <=> i <= n)
    BY <1>1
  <2>2. At(r, i - 1) = IF i - 1 < n THEN At(q, i - 1) ELSE e
    BY <2>1
  <2>. QED  BY <1>1, <2>1, <2>2
<1>. HIDE DEF s, t, n
<1>. DEFINE u == Append(s, e)
<1>3. /\ u \in Seq(Elements) /\ Len(u) = n + 1
      /\ \A i \in 1 .. n : u[i] = s[i]
      /\ u[n + 1] = e
  BY <1>1, AppendProperties
<1>4. \A i \in 1 .. n + 1 : t[i] = u[i]
  BY <1>1, <1>2, <1>3
<1>. HIDE DEF u
<1>5. t = u
  BY <1>1, <1>3, <1>4, SeqEqual
<1>. QED  BY <1>5 DEF s, t, u

\* When a queue has lost its first elements, it is the rest of what it was.
LEMMA ContentsShifted ==
    ASSUME NEW q, Sound(q), NEW r, Sound(r), NEW c \in 0 .. Count(q),
           Count(r) = Count(q) - c,
           \A i \in 0 .. Count(r) - 1 : At(r, i) = At(q, i + c)
    PROVE  Contents(r) = SubSeq(Contents(q), c + 1, Count(q))
<1>. DEFINE n == Count(q)
            s == Contents(q)
            t == Contents(r)
            u == SubSeq(s, c + 1, n)
<1>1. /\ n \in Nat /\ c \in Nat /\ c <= n
      /\ s \in Seq(Elements) /\ Len(s) = n /\ \A i \in 1 .. n : s[i] = At(q, i - 1)
      /\ t \in Seq(Elements) /\ Len(t) = n - c /\ \A i \in 1 .. n - c : t[i] = At(r, i - 1)
  BY SoundParts, ContentsType
<1>2. \A i \in c + 1 .. n : s[i] \in Elements
  BY <1>1, ElementOfSeq
<1>. HIDE DEF s, t, n
<1>3. /\ u \in Seq(Elements) /\ Len(u) = n - c
      /\ \A i \in 1 .. n - c : u[i] = s[c + i]
  <2>1. c + 1 \in Int /\ n \in Int
    BY <1>1
  <2>2. /\ u \in Seq(Elements)
        /\ Len(u) = IF c + 1 <= n THEN n - (c + 1) + 1 ELSE 0
        /\ \A i \in 1 .. n - (c + 1) + 1 : u[i] = s[c + 1 + i - 1]
    BY <1>2, <2>1, SubSeqProperties
  <2>. HIDE DEF u
  <2>. QED  BY <1>1, <2>2
<1>4. \A i \in 1 .. n - c : t[i] = u[i]
  <2>. SUFFICES ASSUME NEW i \in 1 .. n - c
                PROVE  t[i] = u[i]
    OBVIOUS
  <2>1. t[i] = At(q, i - 1 + c)
    BY <1>1 DEF n
  <2>2. s[c + i] = At(q, c + i - 1)
    BY <1>1
  <2>3. c + i - 1 = i - 1 + c
    BY <1>1
  <2>. QED  BY <1>3, <2>1, <2>2, <2>3
<1>. HIDE DEF u
<1>5. t = u
  BY <1>1, <1>3, <1>4, SeqEqual
<1>. QED  BY <1>5 DEF s, t, u, n

\* Emplace puts its element behind all others, also when the ring grows.
THEOREM EmplaceAppends ==
    ASSUME NEW q, Sound(q), NEW e \in Elements
    PROVE  Sound(Emplace(q, e)) /\ Contents(Emplace(q, e)) = Append(Contents(q), e)
<1>. DEFINE r == Ring([q.buf EXCEPT ![q.tail] = e], q.cap, q.head, Stepped(q, q.tail))
            n == Count(q)
<1>. /\ q.cap \in Nat /\ q.cap > 1 /\ q.head \in Nat /\ q.tail \in Nat
     /\ q.head < q.cap /\ q.tail < q.cap
     /\ q.buf \in [0 .. q.cap - 1 -> Elements \cup {Raw}]
     /\ n \in Nat /\ n < q.cap
  BY SoundParts
<1>1. /\ r.buf \in [0 .. q.cap - 1 -> Elements \cup {Raw}]
      /\ r.buf[q.tail] = e /\ \A k \in 0 .. q.cap - 1 : k # q.tail => r.buf[k] = q.buf[k]
      /\ r.cap = q.cap /\ r.head = q.head /\ r.tail = Stepped(q, q.tail)
      /\ r.tail \in 0 .. q.cap - 1
      /\ r = Ring(r.buf, r.cap, r.head, r.tail)
  BY DEF Stepped
<1>0. Emplace(q, e) = IF r.tail = r.head THEN Grow(r) ELSE r
  BY DEF Emplace
<1>. HIDE DEF r
<1>2. \A i \in Nat : Slot(r, i) = Slot(q, i)
  BY <1>1 DEF Slot
<1>3. \A i \in 0 .. n : At(r, i) = IF i < n THEN At(q, i) ELSE e
  <2>. SUFFICES ASSUME NEW i \in 0 .. n
                PROVE  At(r, i) = IF i < n THEN At(q, i) ELSE e
    OBVIOUS
  <2>1. CASE i < n
    <3>1. Slot(q, i) # q.tail /\ Slot(q, i) \in 0 .. q.cap - 1
      BY <2>1, TailFree, SoundParts
    <3>. QED  BY <3>1, <2>1, <1>1, <1>2 DEF At
  <2>2. CASE i = n
    <3>1. Slot(r, i) = q.tail
      BY <2>2, <1>2, TailFree
    <3>. QED  BY <2>2, <3>1, <1>1 DEF At
  <2>. QED  BY <2>1, <2>2
<1>4. CASE r.tail # r.head
  <2>1. Emplace(q, e) = r
    BY <1>0, <1>4
  <2>2. Window(r) = Window(q) \cup {q.tail}
    BY <1>1, <1>4 DEF Window, Stepped
  <2>3. q.tail \notin Window(q)
    BY TailFree
  <2>4. Sound(r)
    <3>1. ASSUME NEW k \in 0 .. q.cap - 1
          PROVE  r.buf[k] \in Elements <=> k \in Window(r)
      BY <1>1, <2>2, <2>3 DEF Sound
    <3>. QED  BY <3>1, <1>1 DEF Sound
  <2>5. Count(r) = n + 1
    <3>1. CASE q.tail + 1 = q.cap
      BY <3>1, <1>1, <1>4 DEF Count, Stepped
    <3>2. CASE q.tail + 1 # q.cap
      <4>1. r.tail = q.tail + 1
        BY <3>2, <1>1 DEF Stepped
      <4>2. r.head = q.head /\ r.cap = q.cap /\ q.tail + 1 # q.head
        BY <4>1, <1>1, <1>4
      <4>. QED  BY <3>2, <4>1, <4>2, DistStep, InNumbers
    <3>. QED  BY <3>1, <3>2
  <2>6. Contents(r) = Append(Contents(q), e)
    BY <2>4, <2>5, <1>3, ContentsAppended
  <2>. QED  BY <2>1, <2>4, <2>6
<1>5. CASE r.tail = r.head
  <2>. DEFINE g == Grow(r)
  <2>1. Emplace(q, e) = g
    BY <1>0, <1>5
  <2>2. n + 1 = q.cap
    BY <1>1, <1>5 DEF Count, Stepped
  <2>3. /\ g = Ring(g.buf, g.cap, g.head, g.tail)
        /\ g.cap = 2 * q.cap /\ g.head = 0 /\ g.tail = q.cap
        /\ g.buf = [k \in 0 .. 2 * q.cap - 1 |-> IF k < q.cap THEN At(r, k) ELSE Raw]
    BY <1>1 DEF Grow, Moved
  <2>4. \A i \in 0 .. n : At(r, i) \in Elements
    <3>. SUFFICES ASSUME NEW i \in 0 .. n
                  PROVE  At(r, i) \in Elements
      OBVIOUS
    <3>1. i < n => Slot(q, i) \in Window(q) /\ Slot(q, i) \in 0 .. q.cap - 1
      BY WindowSlots, SoundParts
    <3>. QED  BY <3>1, <1>3 DEF At, Sound
  <2>. HIDE DEF g
  <2>5. Window(g) = {k \in 0 .. 2 * q.cap - 1 : k < q.cap}
    BY <2>3 DEF Window
  <2>6. Sound(g)
    <3>1. g.buf \in [0 .. g.cap - 1 -> Elements \cup {Raw}]
      BY <2>2, <2>3, <2>4
    <3>2. ASSUME NEW k \in 0 .. g.cap - 1
          PROVE  g.buf[k] \in Elements <=> k \in Window(g)
      BY <2>2, <2>3, <2>4, <2>5
    <3>. QED  BY <2>3, <3>1, <3>2 DEF Sound
  <2>7. Count(g) = n + 1
    BY <2>2, <2>3 DEF Count
  <2>8. \A i \in 0 .. n : At(g, i) = At(r, i)
    BY <2>2, <2>3 DEF At, Slot
  <2>9. Contents(g) = Append(Contents(q), e)
    <3>1. \A i \in 0 .. n : At(g, i) = IF i < n THEN At(q, i) ELSE e
      BY <2>8, <1>3
    <3>. HIDE DEF g
    <3>. QED  BY <2>6, <2>7, <3>1, ContentsAppended
  <2>. QED  BY <2>1, <2>6, <2>9
<1>. QED  BY <1>4, <1>5

\* What the two branches of PopMulti do, Pop and the loop of BufQueue's Pop: the
\* first c elements are destroyed and the head moves over their slots.
LEMMA FrontDestroyed ==
    ASSUME NEW q, Sound(q), NEW c \in Nat, c <= Count(q)
    PROVE  Sound(PopTimes(q, c)) /\ Contents(PopTimes(q, c)) = SubSeq(Contents(q), c + 1, Count(q))
<1>. DEFINE r == PopTimes(q, c)
            n == Count(q)
            gone == {Slot(q, i) : i \in 0 .. c - 1}
<1>1. /\ q.cap \in Nat /\ q.cap > 1 /\ q.head \in Nat /\ q.tail \in Nat
      /\ q.head < q.cap /\ q.tail < q.cap
      /\ q.buf \in [0 .. q.cap - 1 -> Elements \cup {Raw}]
      /\ n \in Nat /\ n < q.cap
      /\ Slot(q, c) \in 0 .. q.cap - 1
  BY SoundParts
<1>2. /\ r.cap = q.cap /\ r.head = Slot(q, c) /\ r.tail = q.tail
      /\ r.buf = Destroyed(q, gone)
      /\ r = Ring(r.buf, r.cap, r.head, r.tail)
  BY DEF PopTimes
<1>. HIDE DEF r
<1>3. /\ r.buf \in [0 .. q.cap - 1 -> Elements \cup {Raw}]
      /\ \A k \in 0 .. q.cap - 1 : r.buf[k] = IF k \in gone THEN Raw ELSE q.buf[k]
  BY <1>1, <1>2 DEF Destroyed
<1>4. Count(r) = n - c
  BY <1>1, <1>2, InNumbers, DistTurn
<1>5. \A i \in 0 .. n - c - 1 : Slot(r, i) = Slot(q, i + c)
  BY <1>1, <1>2, InNumbers, TurnTurn
<1>6. \A i, j \in 0 .. n - 1 : Slot(q, i) = Slot(q, j) => i = j
  BY <1>1, InNumbers, TurnOne
<1>. HIDE DEF gone, n
<1>7. \A i \in 0 .. n - 1 : Slot(q, i) \in gone <=> i < c
  BY <1>1, <1>6 DEF gone, n
<1>8. Bounded(q) /\ Bounded(r)
  BY <1>1, <1>2 DEF Bounded
<1>9. \A k \in 0 .. q.cap - 1 : k \in Window(r) <=> k \in Window(q) /\ k \notin gone
  <2>1. ASSUME NEW k \in Window(q), k \notin gone
        PROVE  k \in Window(r)
    <3>1. PICK i \in 0 .. n - 1 : k = Slot(q, i)
      BY <1>8, WindowSlots DEF n
    <3>2. i - c \in 0 .. n - c - 1 /\ (i - c) + c = i
      BY <1>1, <1>7, <2>1, <3>1
    <3>3. k = Slot(r, i - c)
      BY <1>5, <3>1, <3>2
    <3>. QED  BY <1>4, <1>8, <3>2, <3>3, WindowSlots
  <2>2. ASSUME NEW k \in Window(r)
        PROVE  k \in Window(q) /\ k \notin gone
    <3>1. PICK i \in 0 .. n - c - 1 : k = Slot(r, i)
      BY <1>4, <1>8, WindowSlots
    <3>2. i + c \in 0 .. n - 1 /\ ~(i + c < c) /\ k = Slot(q, i + c)
      BY <1>1, <1>5, <3>1
    <3>. QED  BY <1>7, <1>8, <3>2, WindowSlots DEF n
  <2>. QED  BY <2>1, <2>2
<1>10. Sound(r)
  <2>1. ASSUME NEW k \in 0 .. q.cap - 1
        PROVE  r.buf[k] \in Elements <=> k \in Window(r)
    BY <1>3, <1>9 DEF Sound
  <2>. QED  BY <1>1, <1>2, <1>3, <2>1 DEF Sound
<1>11. \A i \in 0 .. Count(r) - 1 : At(r, i) = At(q, i + c)
  <2>. SUFFICES ASSUME NEW i \in 0 .. Count(r) - 1
                PROVE  At(r, i) = At(q, i + c)
    OBVIOUS
  <2>1. i \in 0 .. n - c - 1 /\ i + c \in 0 .. n - 1 /\ i + c \in Nat /\ i + c < q.cap /\ ~(i + c < c)
    BY <1>1, <1>4
  <2>2. Slot(r, i) = Slot(q, i + c) /\ Slot(q, i + c) \in 0 .. q.cap - 1 /\ Slot(q, i + c) \notin gone
    BY <1>5, <1>7, <2>1, SoundParts
  <2>. QED  BY <1>3, <2>2 DEF At
<1>. QED
  <2>1. c \in 0 .. Count(q) /\ Count(r) = Count(q) - c
    BY <1>1, <1>4 DEF n
  <2>. QED  BY <1>10, <1>11, <2>1, ContentsShifted DEF r

\* Pop removes the oldest element.
THEOREM PopTakesFirst ==
    ASSUME NEW q, Sound(q), q.head # q.tail
    PROVE  Sound(Pop(q)) /\ Contents(Pop(q)) = Tail(Contents(q))
<1>1. /\ Count(q) \in Nat /\ Count(q) >= 1
      /\ Slot(q, 0) = q.head /\ Slot(q, 1) = Stepped(q, q.head)
  <2>. /\ q.cap \in Nat /\ q.head \in Nat /\ q.tail \in Nat
       /\ q.head < q.cap /\ q.tail < q.cap
    BY SoundParts
  <2>1. Count(q) \in Nat /\ Count(q) >= 1
    BY DEF Count
  <2>2. Slot(q, 0) = q.head /\ Slot(q, 1) = Stepped(q, q.head)
    BY DEF Slot, Stepped
  <2>. QED  BY <2>1, <2>2
<1>2. {Slot(q, i) : i \in 0 .. 1 - 1} = {q.head}
  BY <1>1
<1>3. Pop(q) = PopTimes(q, 1)
  BY <1>1, <1>2 DEF Pop, PopTimes
<1>4. Sound(Pop(q)) /\ Contents(Pop(q)) = SubSeq(Contents(q), 2, Count(q))
  BY <1>1, <1>3, FrontDestroyed
<1>5. Contents(q) \in Seq(Elements) /\ Len(Contents(q)) = Count(q) /\ Contents(q) # <<>>
  BY <1>1, ContentsType
<1>6. Tail(Contents(q)) = SubSeq(Contents(q), 2, Count(q))
  BY <1>5, TailIsSubSeq
<1>. QED  BY <1>4, <1>6

\* PopMulti removes as many of the oldest elements as it is told, or all.
THEOREM PopMultiTakesFront ==
    ASSUME NEW q, Sound(q), NEW count \in Nat
    PROVE  /\ Sound(PopMulti(q, count))
           /\ Contents(PopMulti(q, count)) =
                IF count >= Count(q) THEN <<>> ELSE SubSeq(Contents(q), count + 1, Count(q))
<1>. /\ q.cap \in Nat /\ q.cap > 1 /\ q.head \in Nat /\ q.tail \in Nat
     /\ q.head < q.cap /\ q.tail < q.cap /\ Count(q) \in Nat /\ Count(q) < q.cap
  BY SoundParts
<1>. DEFINE first == {Slot(q, i) : i \in 0 .. count - 1}
<1>1. CASE count = 0
  <2>1. PopMulti(q, count) = q
    BY <1>1 DEF PopMulti
  <2>2. /\ Contents(q) \in Seq(Elements) /\ Len(Contents(q)) = Count(q)
        /\ Count(q) = 0 => Contents(q) = <<>>
    BY ContentsType
  <2>3. SubSeq(Contents(q), 1, Count(q)) = Contents(q)
    BY <2>2, SubSeqFull
  <2>. QED  BY <1>1, <2>1, <2>2, <2>3
<1>2. CASE count # 0 /\ count >= Count(q)
  <2>1. PopMulti(q, count) = Clear(q)
    BY <1>2 DEF PopMulti
  <2>. QED  BY <1>2, <2>1, ClearEmpties
<1>3. CASE count # 0 /\ count < Count(q)
  <2>1. Sound(PopTimes(q, count)) /\ Contents(PopTimes(q, count)) = SubSeq(Contents(q), count + 1, Count(q))
    BY <1>3, FrontDestroyed
  <2>2. CASE q.head < q.tail \/ count < q.cap - q.head
    <3>1. PopMulti(q, count) = PopAhead(q, count)
      BY <1>3, <2>2 DEF PopMulti
    <3>2. q.head + count < q.cap
      BY <1>3, <2>2 DEF Count
    <3>3. \A i \in 0 .. count : Slot(q, i) = q.head + i
      BY <3>2 DEF Slot
    <3>4. first = q.head .. (q.head + count - 1)
      <4>1. \A k \in q.head .. (q.head + count - 1) :
                k - q.head \in 0 .. count - 1 /\ k = Slot(q, k - q.head)
        BY <3>3
      <4>. QED  BY <3>3, <4>1
    <3>5. Slot(q, count) = q.head + count
      BY <3>3
    <3>6. PopAhead(q, count) = PopTimes(q, count)
      BY <3>4, <3>5 DEF PopAhead, PopTimes
    <3>. QED  BY <1>3, <2>1, <3>1, <3>6
  <2>3. CASE ~(q.head < q.tail \/ count < q.cap - q.head)
    <3>. DEFINE behind == count - (q.cap - q.head)
    <3>1. PopMulti(q, count) = PopAround(q, count)
      BY <1>3, <2>3 DEF PopMulti
    <3>2. behind \in Nat /\ count < q.cap /\ Slot(q, count) = behind
      BY <1>3, <2>3 DEF Slot
    <3>3. first = (q.head .. q.cap - 1) \cup (0 .. behind - 1)
      <4>1. \A i \in 0 .. count - 1 : Slot(q, i) \in (q.head .. q.cap - 1) \cup (0 .. behind - 1)
        BY <3>2 DEF Slot
      <4>2. \A k \in q.head .. q.cap - 1 :
                k - q.head \in 0 .. count - 1 /\ k = Slot(q, k - q.head)
        BY <3>2 DEF Slot
      <4>3. \A k \in 0 .. behind - 1 :
                k + q.cap - q.head \in 0 .. count - 1 /\ k = Slot(q, k + q.cap - q.head)
        BY <3>2 DEF Slot
      <4>. QED  BY <4>1, <4>2, <4>3
    <3>4. PopAround(q, count) = PopTimes(q, count)
      BY <3>2, <3>3 DEF PopAround, PopTimes
    <3>. QED  BY <1>3, <2>1, <3>1, <3>4
  <2>. QED  BY <2>2, <2>3
<1>. QED  BY <1>1, <1>2, <1>3

-----------------------------------------------------------------------------
(* Counting. Induction over numbers, from what is known of finite sets: a set *)
(* of numbers below n that had 0 and every successor would be as large as a   *)
(* part of itself.                                                            *)

\* A set of numbers that has 0 and every successor has every number.
LEMMA Induct ==
    ASSUME NEW T, 0 \in T, \A n \in Nat : n \in T => n + 1 \in T
    PROVE  \A n \in Nat : n \in T
<1>. SUFFICES ASSUME NEW n \in Nat, n \notin T
              PROVE  FALSE
  OBVIOUS
<1>. DEFINE S == {k \in 0 .. n : k \in T}
            f == [k \in S |-> k + 1]
<1>1. 0 \in S /\ S \in SUBSET (0 .. n)
  OBVIOUS
<1>2. f \in Injection(S, S \ {0})
  <2>1. f \in [S -> S \ {0}]
    OBVIOUS
  <2>2. \A a, b \in S : f[a] = f[b] => a = b
    OBVIOUS
  <2>. QED  BY <2>1, <2>2 DEF Injection, IsInjective
<1>. HIDE DEF S, f
<1>3. IsFiniteSet(0 .. n)
  BY FS_Interval
<1>4. IsFiniteSet(S)
  BY <1>1, <1>3, FS_Subset
<1>5. IsFiniteSet(S \ {0}) /\ Cardinality(S \ {0}) = Cardinality(S) - 1 /\ Cardinality(S) \in Nat
  BY <1>1, <1>4, FS_RemoveElement, FS_CardinalityType
<1>6. Cardinality(S) <= Cardinality(S \ {0})
  BY <1>2, <1>5, FS_Injection
<1>. QED  BY <1>5, <1>6

\* A set of numbers has a least element.
LEMMA Least ==
    ASSUME NEW T, T \subseteq Nat, T # {}
    PROVE  \E x \in T : \A y \in T : x <= y
<1>. SUFFICES ASSUME \A x \in T : \E y \in T : ~(x <= y)
              PROVE  FALSE
  OBVIOUS
<1>. DEFINE Free == {n \in Nat : \A k \in 0 .. n : k \notin T}
<1>1. 0 \in Free
  OBVIOUS
<1>2. \A n \in Nat : n \in Free => n + 1 \in Free
  <2>. SUFFICES ASSUME NEW n \in Nat, n \in Free
                PROVE  n + 1 \notin T
    OBVIOUS
  <2>. QED  OBVIOUS
<1>. HIDE DEF Free
<1>3. \A n \in Nat : n \in Free
  BY <1>1, <1>2, Induct
<1>4. PICK x \in T : TRUE
  OBVIOUS
<1>5. x \in Free /\ x \in 0 .. x
  BY <1>3
<1>. QED  BY <1>4, <1>5 DEF Free

\* A function that grows at every step grows.
LEMMA Increasing ==
    ASSUME NEW n \in Nat, NEW g \in [0 .. n -> Int], \A i \in 0 .. n - 1 : g[i] < g[i + 1]
    PROVE  \A i, j \in 0 .. n : i < j => g[i] < g[j]
<1>. SUFFICES ASSUME NEW i \in 0 .. n, NEW j \in 0 .. n, i < j
              PROVE  g[i] < g[j]
  OBVIOUS
<1>. DEFINE T == {d \in Nat : i + d + 1 <= n => g[i] < g[i + d + 1]}
<1>1. 0 \in T
  OBVIOUS
<1>2. ASSUME NEW d \in Nat, d \in T
      PROVE  d + 1 \in T
  <2>. SUFFICES ASSUME i + (d + 1) + 1 <= n
                PROVE  g[i] < g[i + (d + 1) + 1]
    OBVIOUS
  <2>1. g[i] < g[i + d + 1]
    BY <1>2
  <2>2. i + d + 1 \in 0 .. n - 1 /\ (i + d + 1) + 1 = i + (d + 1) + 1 /\ i + (d + 1) + 1 \in 0 .. n
    OBVIOUS
  <2>3. g[i + d + 1] < g[i + (d + 1) + 1]
    BY <2>2
  <2>. QED  BY <2>1, <2>2, <2>3
<1>. HIDE DEF T
<1>3. \A d \in Nat : d \in T
  BY <1>1, <1>2, Induct
<1>4. PICK d \in Nat : i + d + 1 = j
  <2>1. j - i - 1 \in Nat /\ i + (j - i - 1) + 1 = j
    OBVIOUS
  <2>. QED  BY <2>1
<1>5. i + d + 1 <= n => g[i] < g[i + d + 1]
  BY <1>3 DEF T
<1>6. i + d + 1 <= n
  BY <1>4
<1>7. g[i] < g[i + d + 1]
  BY <1>5, <1>6
<1>. QED  BY ONLY <1>4, <1>7

\* A function that is at most x at 0 and more at n passes x somewhere.
LEMMA Crossing ==
    ASSUME NEW n \in Nat, NEW g \in [0 .. n -> Int], NEW x \in Int, g[0] <= x, x < g[n]
    PROVE  \E i \in 0 .. n - 1 : g[i] <= x /\ x < g[i + 1]
<1>. SUFFICES ASSUME \A i \in 0 .. n - 1 : g[i] <= x => g[i + 1] <= x
              PROVE  FALSE
  OBVIOUS
<1>. DEFINE T == {k \in Nat : k <= n => g[k] <= x}
<1>1. 0 \in T
  OBVIOUS
<1>2. \A k \in Nat : k \in T => k + 1 \in T
  OBVIOUS
<1>. HIDE DEF T
<1>3. n \in T
  BY <1>1, <1>2, Induct
<1>. QED  BY <1>3 DEF T

\* What UpTo computes is known by its steps.
LEMMA UpToIs ==
    ASSUME NEW b, NEW n \in Nat, NEW g \in [0 .. n -> Int],
           g[0] = 0, n >= 1 => g[1] = Top(b.q).len - b.offset,
           \A i \in 2 .. n : g[i] = g[i - 1] + At(b.q, i - 1).len
    PROVE  UpTo(b, n) = g
<1>. DEFINE Step(f) == [i \in 0 .. n |->
                IF i = 0 THEN 0
                ELSE IF i = 1 THEN Top(b.q).len - b.offset
                ELSE f[i - 1] + At(b.q, i - 1).len]
            u == CHOOSE f : f = Step(f)
<1>1. UpTo(b, n) = u
  BY DEF UpTo
<1>2. g = Step(g)
  <2>1. \A i \in 0 .. n : g[i] = Step(g)[i]
    OBVIOUS
  <2>. QED  BY <2>1
<1>3. u = Step(u)
  BY <1>2
<1>. HIDE DEF u
<1>. DEFINE T == {i \in Nat : i <= n => u[i] = g[i]}
<1>4. 0 \in T
  BY <1>3
<1>5. ASSUME NEW i \in Nat, i \in T
      PROVE  i + 1 \in T
  <2>. SUFFICES ASSUME i + 1 <= n
                PROVE  u[i + 1] = g[i + 1]
    OBVIOUS
  <2>1. u[i + 1] = IF i + 1 = 1 THEN Top(b.q).len - b.offset ELSE u[i] + At(b.q, i).len
    BY <1>3
  <2>2. u[i] = g[i]
    BY <1>5
  <2>. QED  BY <2>1, <2>2
<1>. HIDE DEF T
<1>6. \A i \in Nat : i \in T
  BY <1>4, <1>5, Induct
<1>. USE DEF T
<1>7. u = [i \in 0 .. n |-> u[i]]
  BY <1>3
<1>8. \A i \in 0 .. n : u[i] = g[i]
  BY <1>6
<1>. QED  BY <1>1, <1>7, <1>8

-----------------------------------------------------------------------------
(* Stretches of the stream: the bytes after position a up to position z.      *)

Span(a, z) == [k \in 1 .. z - a |-> a + k]

\* A stretch is as long as it says.
LEMMA SpanType ==
    ASSUME NEW a \in Nat, NEW z \in Nat, a <= z
    PROVE  /\ Span(a, z) \in Seq(Nat) /\ Len(Span(a, z)) = z - a
           /\ \A k \in 1 .. z - a : Span(a, z)[k] = a + k
           /\ Span(a, z) = <<>> <=> a = z
<1>1. Span(a, z) \in [1 .. z - a -> Nat] /\ z - a \in Nat
  BY DEF Span
<1>2. Span(a, z) \in Seq(Nat) /\ Len(Span(a, z)) = z - a
  BY <1>1
<1>. QED  BY <1>2 DEF Span

\* A sequence is a stretch when its elements are.
LEMMA IsSpan ==
    ASSUME NEW a \in Nat, NEW z \in Nat, a <= z, NEW s \in Seq(Nat), Len(s) = z - a,
           \A k \in 1 .. z - a : s[k] = a + k
    PROVE  s = Span(a, z)
<1>1. s = [k \in 1 .. Len(s) |-> s[k]]
  OBVIOUS
<1>. QED  BY <1>1 DEF Span

\* Two stretches that meet are one.
LEMMA SpanJoined ==
    ASSUME NEW a \in Nat, NEW m \in Nat, NEW z \in Nat, a <= m, m <= z
    PROVE  Span(a, m) \o Span(m, z) = Span(a, z)
<1>. DEFINE s == Span(a, m)
            t == Span(m, z)
<1>1. /\ s \in Seq(Nat) /\ Len(s) = m - a /\ \A k \in 1 .. m - a : s[k] = a + k
      /\ t \in Seq(Nat) /\ Len(t) = z - m /\ \A k \in 1 .. z - m : t[k] = m + k
  BY SpanType
<1>. HIDE DEF s, t
<1>2. /\ s \o t \in Seq(Nat) /\ Len(s \o t) = Len(s) + Len(t)
      /\ \A k \in 1 .. Len(s) + Len(t) :
            (s \o t)[k] = IF k <= Len(s) THEN s[k] ELSE t[k - Len(s)]
  BY <1>1, ConcatProperties
<1>3. ASSUME NEW k \in 1 .. z - a
      PROVE  (s \o t)[k] = a + k
  <2>1. k \in 1 .. Len(s) + Len(t)
    BY <1>1
  <2>2. CASE k <= m - a
    BY <1>1, <1>2, <2>1, <2>2
  <2>3. CASE ~(k <= m - a)
    <3>1. k - (m - a) \in 1 .. z - m
      BY <2>3
    <3>2. Len(s) = m - a /\ ~(k <= Len(s))
      BY <1>1, <2>3
    <3>3. (s \o t)[k] = t[k - (m - a)]
      BY <1>2, <2>1, <3>2
    <3>4. t[k - (m - a)] = m + (k - (m - a))
      BY <1>1, <3>1
    <3>. QED  BY <3>3, <3>4
  <2>. QED  BY <2>2, <2>3
<1>4. s \o t = Span(a, z)
  <2>1. a <= z /\ Len(s \o t) = z - a
    BY <1>1, <1>2
  <2>. QED  BY <1>2, <1>3, <2>1, IsSpan
<1>. QED  BY <1>4 DEF s, t

\* A stretch that is cut is two.
Cut(a, z, n) ==
    /\ SubSeq(Span(a, z), 1, n) = Span(a, a + n)
    /\ SubSeq(Span(a, z), n + 1, z - a) = Span(a + n, z)
LEMMA SpanCut ==
    ASSUME NEW a \in Nat, NEW z \in Nat, a <= z, NEW n \in Nat, n <= z - a
    PROVE  Cut(a, z, n)
<1>. DEFINE s == Span(a, z)
<1>1. s \in Seq(Nat) /\ Len(s) = z - a /\ \A k \in 1 .. z - a : s[k] = a + k
  BY SpanType
<1>. HIDE DEF s
<1>2. /\ SubSeq(s, 1, n) \in Seq(Nat) /\ Len(SubSeq(s, 1, n)) = n
      /\ \A k \in 1 .. n : SubSeq(s, 1, n)[k] = a + k
  BY <1>1
<1>3. /\ SubSeq(s, n + 1, z - a) \in Seq(Nat) /\ Len(SubSeq(s, n + 1, z - a)) = z - (a + n)
      /\ \A k \in 1 .. z - (a + n) : SubSeq(s, n + 1, z - a)[k] = (a + n) + k
  BY <1>1
<1>4. a + n \in Nat /\ a <= a + n /\ a + n <= z /\ (a + n) - a = n
  OBVIOUS
<1>5. SubSeq(s, 1, n) = Span(a, a + n)
  BY <1>2, <1>4, IsSpan
<1>6. SubSeq(s, n + 1, z - a) = Span(a + n, z)
  BY <1>3, <1>4, IsSpan
<1>. QED  BY <1>5, <1>6 DEF s, Cut

-----------------------------------------------------------------------------
(* BufQueue: the buffers follow one another in the stream.                    *)

\* g[0] is where the queue begins, within its first buffer, and g[i] is the end
\* of buffer i, at which the next begins.
Marks(b, g) ==
    /\ b = [q |-> b.q, bytes |-> b.bytes, offset |-> b.offset]
    /\ Sound(b.q)
    /\ g \in [0 .. Count(b.q) -> Nat]
    /\ \A i \in 0 .. Count(b.q) - 1 : g[i] < g[i + 1]
    /\ b.bytes = g[Count(b.q)] - g[0]
    /\ b.offset \in Nat /\ (Count(b.q) = 0 => b.offset = 0)
    /\ \A i \in 1 .. Count(b.q) :
          /\ At(b.q, i - 1).at + At(b.q, i - 1).len = g[i]
          /\ At(b.q, i - 1).at + (IF i = 1 THEN b.offset ELSE 0) = g[i - 1]

\* The queue holds the bytes after position a up to position z.
Holds(b, a, z) == \E g : Marks(b, g) /\ g[0] = a /\ g[Count(b.q)] = z

\* What a queue that holds a stretch says of it in numbers.
LEMMA HoldsNumbers ==
    ASSUME NEW b, NEW a, NEW z, Holds(b, a, z)
    PROVE  /\ a \in Nat /\ z \in Nat /\ a <= z /\ b.bytes = z - a
           /\ b.offset \in Nat /\ Sound(b.q) /\ Count(b.q) \in Nat
           /\ b = [q |-> b.q, bytes |-> b.bytes, offset |-> b.offset]
           /\ Count(b.q) = 0 <=> a = z
<1>1. PICK g : Marks(b, g) /\ g[0] = a /\ g[Count(b.q)] = z
  BY DEF Holds
<1>2. Count(b.q) \in Nat
  BY <1>1, SoundParts DEF Marks
<1>. DEFINE n == Count(b.q)
<1>3. /\ g \in [0 .. n -> Int] /\ \A i \in 0 .. n - 1 : g[i] < g[i + 1]
      /\ g[0] \in Nat /\ g[n] \in Nat
  BY <1>1, <1>2 DEF Marks
<1>4. 0 \in 0 .. n /\ n \in 0 .. n /\ (n # 0 => 0 < n)
  BY <1>2
<1>5. n # 0 => g[0] < g[n]
  BY <1>2, <1>3, <1>4, Increasing
<1>6. b.bytes = z - a /\ b.offset \in Nat /\ Sound(b.q)
      /\ b = [q |-> b.q, bytes |-> b.bytes, offset |-> b.offset]
  BY <1>1 DEF Marks
<1>. QED  BY <1>1, <1>2, <1>3, <1>5, <1>6

\* The constants are numbers, and an element is a buffer.
LEMMA Numbers ==
    /\ SendLenPerFrame \in Nat /\ SendLenPerFrame > 0 /\ ReadBufLen \in Nat /\ ReadBufLen > 0
    /\ Header \in Nat /\ Header > 0 /\ MaxPackage \in Nat /\ SockCap \in Nat
    /\ MaxSends \in Nat /\ Backlog \in Nat /\ Bodies \subseteq Nat /\ Stray \subseteq Nat
    /\ RingCap \in Nat /\ RingCap > 1 /\ VsCap \in Nat /\ VsCap > 0
<1>1. {SendLenPerFrame, ReadBufLen, Header} \subseteq Nat \ {0}
  BY TcpAssumption DEF TcpAssumption
<1>2. {MaxPackage, SockCap, MaxSends, Backlog} \cup Bodies \cup Stray \subseteq Nat
  BY TcpAssumption DEF TcpAssumption
<1>3. RingCap \in Nat \ {0, 1} /\ VsCap \in Nat \ {0}
  BY TcpAssumption, BufAssumption DEF TcpAssumption, BufAssumption
<1>4. /\ SendLenPerFrame \in Nat /\ SendLenPerFrame > 0
      /\ ReadBufLen \in Nat /\ ReadBufLen > 0 /\ Header \in Nat /\ Header > 0
  BY <1>1
<1>5. /\ MaxPackage \in Nat /\ SockCap \in Nat /\ MaxSends \in Nat /\ Backlog \in Nat
      /\ Bodies \subseteq Nat /\ Stray \subseteq Nat
  BY <1>2
<1>. QED  BY <1>3, <1>4, <1>5

\* A product of numbers is one.
LEMMA Times ==
    ASSUME NEW m \in Nat, NEW n \in Nat
    PROVE  m * n \in Nat
OBVIOUS

\* An element is a position and a length.
LEMMA ElementNumbers ==
    ASSUME NEW e \in Elements
    PROVE  e.at \in Nat /\ e.len \in Nat
<1>1. MaxSends * Backlog \in Nat /\ Backlog \in Nat
  BY Numbers, Times
<1>2. Elements = [at : 0 .. MaxSends * Backlog, len : 0 .. Backlog]
  BY TcpAssumption DEF TcpAssumption
<1>3. e.at \in 0 .. MaxSends * Backlog /\ e.len \in 0 .. Backlog
  BY <1>2
<1>. QED  BY <1>1, <1>3

\* What a buffer in the queue is.
LEMMA Buffers ==
    ASSUME NEW q, Sound(q)
    PROVE  \A i \in 0 .. Count(q) - 1 :
              At(q, i) \in Elements /\ At(q, i).at \in Nat /\ At(q, i).len \in Nat
<1>. SUFFICES ASSUME NEW i \in 0 .. Count(q) - 1
              PROVE  At(q, i) \in Elements /\ At(q, i).at \in Nat /\ At(q, i).len \in Nat
  OBVIOUS
<1>1. Count(q) \in Nat /\ i + 1 \in 1 .. Count(q) /\ (i + 1) - 1 = i
  BY SoundParts
<1>2. Contents(q)[i + 1] = At(q, i) /\ Contents(q)[i + 1] \in Elements
  BY <1>1, ContentsType
<1>. QED  BY <1>2, ElementNumbers

\* A queue without buffers holds nothing, wherever the stream is.
LEMMA EmptyHolds ==
    ASSUME NEW q, Sound(q), Count(q) = 0, NEW z \in Nat
    PROVE  Holds([q |-> q, bytes |-> 0, offset |-> 0], z, z)
<1>. DEFINE b == [q |-> q, bytes |-> 0, offset |-> 0]
            g == [i \in 0 .. 0 |-> z]
<1>1. b.q = q /\ b.bytes = 0 /\ b.offset = 0 /\ b = [q |-> b.q, bytes |-> b.bytes, offset |-> b.offset]
  OBVIOUS
<1>2. g \in [0 .. 0 -> Nat] /\ g[0] = z
  OBVIOUS
<1>. HIDE DEF b, g
<1>3. Marks(b, g)
  BY <1>1, <1>2 DEF Marks
<1>4. Holds(b, z, z)
  BY <1>1, <1>2, <1>3 DEF Holds
<1>. QED  BY <1>4 DEF b

\* A queue that is cleared holds nothing more.
LEMMA ClearHolds ==
    ASSUME NEW b, NEW a, NEW z, Holds(b, a, z)
    PROVE  Holds(ClearBytes(b), z, z)
<1>1. Sound(b.q) /\ z \in Nat
  BY HoldsNumbers
<1>2. Sound(Clear(b.q)) /\ Contents(Clear(b.q)) = <<>>
  BY <1>1, ClearEmpties
<1>3. Count(Clear(b.q)) = 0
  BY <1>2, ContentsType
<1>. QED  BY <1>1, <1>2, <1>3, EmptyHolds DEF ClearBytes

\* A push carries the queue on to the end of the buffer.
LEMMA PushHolds ==
    ASSUME NEW b, NEW a, NEW z, Holds(b, a, z), NEW e \in Elements, e.at = z, e.len > 0
    PROVE  Holds(Push(b, e), a, z + e.len)
<1>. DEFINE n == Count(b.q)
            c == Push(b, e)
            r == Emplace(b.q, e)
<1>1. PICK g : Marks(b, g) /\ g[0] = a /\ g[n] = z
  BY DEF Holds
<1>2. /\ b = [q |-> b.q, bytes |-> b.bytes, offset |-> b.offset]
      /\ Sound(b.q) /\ n \in Nat /\ z \in Nat /\ a \in Nat /\ b.bytes = z - a
      /\ b.offset \in Nat
  BY HoldsNumbers
<1>3. e.len \in Nat
  BY ElementNumbers
<1>4. Sound(r) /\ Contents(r) = Append(Contents(b.q), e)
  BY <1>2, EmplaceAppends
<1>5. c = [q |-> r, bytes |-> b.bytes + e.len, offset |-> b.offset]
  <2>1. [b EXCEPT !.q = r] = [q |-> r, bytes |-> b.bytes, offset |-> b.offset]
    BY <1>2
  <2>2. c = [[b EXCEPT !.q = r] EXCEPT !.bytes = @ + e.len]
    BY DEF Push
  <2>. QED  BY <2>1, <2>2
<1>6. c.q = r /\ c.bytes = b.bytes + e.len /\ c.offset = b.offset
  BY <1>5
<1>7. /\ Contents(b.q) \in Seq(Elements) /\ Len(Contents(b.q)) = n
      /\ \A i \in 1 .. n : Contents(b.q)[i] = At(b.q, i - 1)
      /\ Len(Contents(r)) = Count(r) /\ \A i \in 1 .. Count(r) : Contents(r)[i] = At(r, i - 1)
  BY <1>2, <1>4, ContentsType
<1>8. Count(r) = n + 1
  BY <1>4, <1>7
<1>9. /\ \A i \in 1 .. n : At(r, i - 1) = At(b.q, i - 1)
      /\ At(r, n) = e
  <2>1. \A i \in 1 .. n : Contents(r)[i] = Contents(b.q)[i]
    BY <1>4, <1>7
  <2>2. Contents(r)[n + 1] = e
    BY <1>4, <1>7
  <2>3. \A i \in 1 .. n : At(r, i - 1) = At(b.q, i - 1)
    BY <1>7, <1>8, <2>1
  <2>4. n + 1 \in 1 .. n + 1 /\ (n + 1) - 1 = n
    BY <1>2
  <2>. QED  BY <1>7, <1>8, <2>2, <2>3, <2>4
<1>. DEFINE h == [i \in 0 .. n + 1 |-> IF i = n + 1 THEN z + e.len ELSE g[i]]
<1>10. /\ h \in [0 .. n + 1 -> Nat] /\ h[n + 1] = z + e.len
       /\ \A i \in 0 .. n : h[i] = g[i]
  BY <1>1, <1>2, <1>3 DEF Marks
<1>. HIDE DEF h, c, r
<1>11. ASSUME NEW i \in 0 .. n
       PROVE  h[i] < h[i + 1]
  <2>1. CASE i \in 0 .. n - 1
    <3>1. i + 1 \in 0 .. n /\ h[i + 1] = g[i + 1] /\ h[i] = g[i]
      BY <1>2, <1>10, <2>1
    <3>. QED  BY <1>1, <2>1, <3>1 DEF Marks
  <2>2. CASE i = n
    <3>1. h[i] = z
      BY <1>1, <1>2, <1>10, <2>2
    <3>. QED  BY <1>2, <1>3, <1>10, <2>2, <3>1
  <2>. QED  BY <1>2, <2>1, <2>2
<1>12. ASSUME NEW i \in 1 .. n + 1
       PROVE  /\ At(r, i - 1).at + At(r, i - 1).len = h[i]
              /\ At(r, i - 1).at + (IF i = 1 THEN b.offset ELSE 0) = h[i - 1]
  <2>1. CASE i \in 1 .. n
    <3>1. At(r, i - 1) = At(b.q, i - 1) /\ h[i] = g[i] /\ h[i - 1] = g[i - 1]
      <4>1. i \in 0 .. n /\ i - 1 \in 0 .. n
        BY <1>2, <2>1
      <4>. QED  BY <1>9, <1>10, <2>1, <4>1
    <3>. QED  BY <1>1, <2>1, <3>1 DEF Marks
  <2>2. CASE i = n + 1
    <3>1. At(r, i - 1) = e /\ h[i] = z + e.len /\ h[i - 1] = z
      BY <1>1, <1>2, <1>9, <1>10, <2>2
    <3>2. i = 1 => b.offset = 0
      BY <1>1, <1>2, <2>2 DEF Marks
    <3>. QED  BY <1>2, <3>1, <3>2
  <2>. QED  BY <1>2, <2>1, <2>2
<1>13. Marks(c, h)
  <2>1. c = [q |-> c.q, bytes |-> c.bytes, offset |-> c.offset]
    BY <1>5
  <2>2. c.bytes = h[n + 1] - h[0]
    <3>1. h[0] = a
      BY <1>1, <1>2, <1>10
    <3>. QED  BY <1>2, <1>3, <1>6, <1>10, <3>1
  <2>3. n + 1 # 0 /\ (n + 1) - 1 = n
    BY <1>2
  <2>. QED  BY <1>2, <1>4, <1>6, <1>8, <1>10, <1>11, <1>12, <2>1, <2>2, <2>3 DEF Marks
<1>14. h[0] = a /\ h[Count(c.q)] = z + e.len
  BY <1>1, <1>2, <1>6, <1>8, <1>10
<1>15. Holds(c, a, z + e.len)
  BY <1>13, <1>14 DEF Holds
<1>. QED  BY <1>15 DEF c

\* A number below another is some way below it.
LEMMA Beyond ==
    ASSUME NEW n \in Nat, NEW k \in 0 .. n - 1
    PROVE  \E l \in Nat : n = k + l /\ l >= 1
<1>1. n - k \in Nat /\ n = k + (n - k) /\ n - k >= 1
  OBVIOUS
<1>. QED  BY <1>1

\* When the first k buffers are gone, and x bytes of the next, the queue begins
\* there: the step that every way to pop has in common.
LEMMA CutHolds ==
    ASSUME NEW b, NEW g, Marks(b, g), NEW k \in 0 .. Count(b.q) - 1,
           NEW x \in Nat, x < g[k + 1] - g[k],
           NEW r, Sound(r), Contents(r) = SubSeq(Contents(b.q), k + 1, Count(b.q)),
           NEW c, c = [q |-> r, bytes |-> b.bytes - (g[k] - g[0]) - x,
                       offset |-> (IF k = 0 THEN b.offset ELSE 0) + x]
    PROVE  Holds(c, g[k] + x, g[Count(b.q)])
<1>. DEFINE n == Count(b.q)
            o == IF k = 0 THEN b.offset ELSE 0
<1>0. Sound(b.q) /\ n \in Nat
  BY SoundParts DEF Marks
<1>. PICK l \in Nat : n = k + l /\ l >= 1
  BY <1>0, Beyond
<1>. DEFINE h == [i \in 0 .. l |-> IF i = 0 THEN g[k] + x ELSE g[i + k]]
<1>1. /\ Sound(b.q) /\ n \in Nat /\ k \in Nat /\ k < n
      /\ b.offset \in Nat /\ o \in Nat /\ b.bytes = g[n] - g[0]
  BY <1>0 DEF Marks
<1>2. /\ \A i \in 0 .. n : g[i] \in Nat
      /\ \A i \in 0 .. n - 1 : g[i] < g[i + 1]
  BY DEF Marks
<1>3. c.q = r /\ c.bytes = b.bytes - (g[k] - g[0]) - x /\ c.offset = o + x
  OBVIOUS
<1>4. /\ Contents(b.q) \in Seq(Elements) /\ Len(Contents(b.q)) = n
      /\ \A i \in 1 .. n : Contents(b.q)[i] = At(b.q, i - 1)
      /\ Len(Contents(r)) = Count(r) /\ \A i \in 1 .. Count(r) : Contents(r)[i] = At(r, i - 1)
  BY <1>1, ContentsType
<1>5. Len(Contents(r)) = l /\ \A i \in 1 .. l : Contents(r)[i] = Contents(b.q)[k + i]
  BY <1>1, <1>4
<1>6. Count(r) = l
  BY <1>4, <1>5
<1>7. ASSUME NEW i \in 1 .. l
      PROVE  i + k \in 1 .. n /\ At(r, i - 1) = At(b.q, (i + k) - 1)
  <2>1. i + k \in 1 .. n /\ k + i = i + k
    BY <1>1
  <2>. QED  BY <1>4, <1>5, <1>6, <2>1
<1>8. /\ h \in [0 .. l -> Nat] /\ h[0] = g[k] + x
      /\ \A i \in 1 .. l : h[i] = g[i + k]
  <2>1. \A i \in 0 .. l : i + k \in 0 .. n
    BY <1>1
  <2>2. g[k] + x \in Nat
    BY <1>1, <1>2
  <2>3. 0 \in 0 .. l
    BY <1>1
  <2>. QED  BY <1>1, <1>2, <2>1, <2>2, <2>3
<1>. HIDE DEF h
<1>9. ASSUME NEW i \in 0 .. l - 1
      PROVE  h[i] < h[i + 1]
  <2>1. i + 1 \in 1 .. l /\ i + k \in 0 .. n - 1 /\ (i + 1) + k = (i + k) + 1
    BY <1>1
  <2>2. h[i + 1] = g[(i + k) + 1] /\ g[i + k] < g[(i + k) + 1]
    BY <1>2, <1>8, <2>1
  <2>3. CASE i = 0
    <3>1. i + k = k
      BY <1>1, <2>3
    <3>2. h[i + 1] = g[k + 1] /\ h[i] = g[k] + x
      BY <1>8, <2>2, <2>3, <3>1
    <3>3. g[k] \in Nat /\ g[k + 1] \in Nat
      BY <1>1, <1>2
    <3>. QED  BY <3>2, <3>3
  <2>4. CASE i # 0
    <3>1. i \in 1 .. l
      BY <1>1, <2>4
    <3>. QED  BY <1>8, <2>2, <3>1
  <2>. QED  BY <2>3, <2>4
<1>10. \A i \in 1 .. n :
          /\ At(b.q, i - 1).at + At(b.q, i - 1).len = g[i]
          /\ At(b.q, i - 1).at + (IF i = 1 THEN b.offset ELSE 0) = g[i - 1]
          /\ At(b.q, i - 1).at \in Nat
  <2>1. \A i \in 1 .. n : At(b.q, i - 1).at \in Nat
    <3>. SUFFICES ASSUME NEW i \in 1 .. n
                  PROVE  At(b.q, i - 1).at \in Nat
      OBVIOUS
    <3>1. i - 1 \in 0 .. n - 1
      BY <1>1
    <3>. QED  BY <1>1, <3>1, Buffers
  <2>. QED  BY <2>1 DEF Marks
<1>11. ASSUME NEW i \in 1 .. l
       PROVE  /\ At(r, i - 1).at + At(r, i - 1).len = h[i]
              /\ At(r, i - 1).at + (IF i = 1 THEN c.offset ELSE 0) = h[i - 1]
  <2>. DEFINE e == At(r, i - 1)
  <2>1. /\ e.at + e.len = g[i + k] /\ e.at \in Nat
        /\ e.at + (IF i + k = 1 THEN b.offset ELSE 0) = g[(i + k) - 1]
    BY <1>7, <1>10
  <2>. HIDE DEF e
  <2>2. CASE i = 1
    <3>1. (i + k = 1 <=> k = 0) /\ (i + k) - 1 = k
      BY <1>1, <2>2
    <3>2. e.at + o = g[k]
      BY <2>1, <3>1
    <3>3. e.at + c.offset = g[k] + x
      <4>. HIDE DEF o
      <4>. QED  BY <1>1, <1>3, <2>1, <3>2
    <3>. QED  BY <1>8, <2>1, <2>2, <3>3 DEF e
  <2>3. CASE i # 1
    <3>1. i + k # 1 /\ (i + k) - 1 = (i - 1) + k /\ i - 1 \in 1 .. l
      BY <1>1, <2>3
    <3>2. h[i - 1] = g[(i + k) - 1]
      BY <1>8, <3>1
    <3>3. e.at = g[(i + k) - 1]
      BY <2>1, <3>1
    <3>. QED  BY <1>8, <2>1, <2>3, <3>2, <3>3 DEF e
  <2>. QED  BY <2>2, <2>3
<1>12. h[l] = g[n]
  <2>1. l \in 1 .. l /\ l + k = n
    BY <1>1
  <2>. QED  BY <1>8, <2>1
<1>. HIDE DEF o
<1>13. c.offset \in Nat /\ c.bytes = h[l] - h[0]
  <2>1. g[n] \in Nat /\ g[0] \in Nat /\ g[k] \in Nat
    BY <1>1, <1>2
  <2>2. c.offset \in Nat
    BY <1>1, <1>3
  <2>3. c.bytes = (g[n] - g[0]) - (g[k] - g[0]) - x
    BY <1>1, <1>3
  <2>4. c.bytes = g[n] - (g[k] + x)
    BY <2>1, <2>3
  <2>5. h[l] = g[n] /\ h[0] = g[k] + x
    BY <1>8, <1>12
  <2>. QED  BY <2>2, <2>4, <2>5, Zenon
<1>14. Marks(c, h)
  <2>1. c = [q |-> c.q, bytes |-> c.bytes, offset |-> c.offset]
    OBVIOUS
  <2>2. Sound(c.q) /\ Count(c.q) = l
    BY <1>3, <1>6
  <2>3. \A i \in 1 .. l :
            /\ At(c.q, i - 1).at + At(c.q, i - 1).len = h[i]
            /\ At(c.q, i - 1).at + (IF i = 1 THEN c.offset ELSE 0) = h[i - 1]
    BY <1>3, <1>11
  <2>4. Count(c.q) = 0 => c.offset = 0
    BY <2>2
  <2>5. c.bytes = h[Count(c.q)] - h[0]
    BY <1>13, <2>2
  <2>6. /\ h \in [0 .. Count(c.q) -> Nat]
        /\ \A i \in 0 .. Count(c.q) - 1 : h[i] < h[i + 1]
    BY <1>8, <1>9, <2>2
  <2>7. \A i \in 1 .. Count(c.q) :
            /\ At(c.q, i - 1).at + At(c.q, i - 1).len = h[i]
            /\ At(c.q, i - 1).at + (IF i = 1 THEN c.offset ELSE 0) = h[i - 1]
    BY <2>2, <2>3
  <2>. QED  BY <1>13, <2>1, <2>2, <2>4, <2>5, <2>6, <2>7, Zenon DEF Marks
<1>. QED  BY <1>3, <1>6, <1>8, <1>12, <1>14 DEF Holds

\* The sums of Pop and Fill are the marks.
LEMMA UpToMarks ==
    ASSUME NEW b, NEW g, Marks(b, g), NEW n \in Nat, n <= Count(b.q)
    PROVE  UpTo(b, n) = [i \in 0 .. n |-> g[i] - g[0]]
<1>. DEFINE u == [i \in 0 .. n |-> g[i] - g[0]]
<1>1. Sound(b.q) /\ Count(b.q) \in Nat /\ b.offset \in Nat
  BY SoundParts DEF Marks
<1>2. \A i \in 0 .. Count(b.q) : g[i] \in Nat
  BY DEF Marks
<1>3. u \in [0 .. n -> Int] /\ u[0] = 0
  BY <1>1, <1>2
<1>4. \A i \in 1 .. Count(b.q) :
         /\ i - 1 \in 0 .. Count(b.q) - 1
         /\ At(b.q, i - 1).at \in Nat /\ At(b.q, i - 1).len \in Nat
         /\ At(b.q, i - 1).at + At(b.q, i - 1).len = g[i]
         /\ At(b.q, i - 1).at + (IF i = 1 THEN b.offset ELSE 0) = g[i - 1]
  <2>1. \A i \in 1 .. Count(b.q) : i - 1 \in 0 .. Count(b.q) - 1
    BY <1>1
  <2>. QED  BY <1>1, <2>1, Buffers DEF Marks
<1>5. n >= 1 => u[1] = Top(b.q).len - b.offset
  <2>. SUFFICES ASSUME n >= 1
                PROVE  u[1] = Top(b.q).len - b.offset
    OBVIOUS
  <2>1. At(b.q, 0) = Top(b.q)
    BY <1>1, SoundParts DEF At, Slot, Top
  <2>2. 1 \in 1 .. Count(b.q) /\ 1 \in 0 .. n /\ 1 - 1 = 0
    BY <1>1
  <2>3. Top(b.q).at + Top(b.q).len = g[1] /\ Top(b.q).at + b.offset = g[0]
        /\ Top(b.q).at \in Nat /\ Top(b.q).len \in Nat
    BY <1>4, <2>1, <2>2
  <2>4. u[1] = g[1] - g[0]
    BY <2>2
  <2>. HIDE DEF u
  <2>. QED  BY <1>1, <2>3, <2>4
<1>6. ASSUME NEW i \in 2 .. n
      PROVE  u[i] = u[i - 1] + At(b.q, i - 1).len
  <2>1. i \in 1 .. Count(b.q) /\ i # 1 /\ i \in 0 .. n /\ i - 1 \in 0 .. n
        /\ i - 1 \in 0 .. Count(b.q) /\ 0 \in 0 .. Count(b.q)
    BY <1>1
  <2>2. u[i] = g[i] - g[0] /\ u[i - 1] = g[i - 1] - g[0] /\ g[i - 1] \in Nat /\ g[0] \in Nat
    BY <1>2, <2>1
  <2>3. At(b.q, i - 1).at + At(b.q, i - 1).len = g[i] /\ At(b.q, i - 1).at = g[i - 1]
        /\ At(b.q, i - 1).len \in Nat
    BY <1>4, <2>1
  <2>. HIDE DEF u
  <2>. QED  BY <2>2, <2>3
<1>. HIDE DEF u
<1>7. UpTo(b, n) = u
  BY <1>3, <1>5, <1>6, UpToIs
<1>. QED  BY <1>7 DEF u

\* Where the queue begins when n more bytes are popped, of those up to z.
Onward(a, n, z) == IF a + n < z THEN a + n ELSE z

\* It stops at z only when z is passed.
LEMMA OnwardWithin ==
    ASSUME NEW a \in Nat, NEW n \in Nat, NEW z \in Nat, a + n <= z
    PROVE  Onward(a, n, z) = a + n
BY DEF Onward

\* The loop of Pop is as many calls of Queue's Pop as it pops whole buffers.
LEMMA PopAgain ==
    ASSUME NEW q, Sound(q), NEW c \in Nat, c < Count(q)
    PROVE  PopTimes(q, 0) = q /\ PopTimes(q, c + 1) = Pop(PopTimes(q, c))
<1>1. /\ q.cap \in Nat /\ q.head \in Nat /\ q.head < q.cap /\ Count(q) < q.cap /\ Count(q) \in Nat
      /\ q.buf \in [0 .. q.cap - 1 -> Elements \cup {Raw}]
      /\ q = Ring(q.buf, q.cap, q.head, q.tail)
  BY SoundParts DEF Sound
<1>2. PopTimes(q, 0) = q
  <2>1. Slot(q, 0) = q.head /\ {Slot(q, i) : i \in 0 .. 0 - 1} = {}
    BY <1>1 DEF Slot
  <2>2. Destroyed(q, {}) = q.buf
    BY <1>1 DEF Destroyed
  <2>. QED  BY <1>1, <2>1, <2>2 DEF PopTimes
<1>3. PopTimes(q, c + 1) = Pop(PopTimes(q, c))
  <2>. DEFINE r == PopTimes(q, c)
              S == {Slot(q, i) : i \in 0 .. c - 1}
              T == {Slot(q, i) : i \in 0 .. (c + 1) - 1}
  <2>1. r.buf = Destroyed(q, S) /\ r.cap = q.cap /\ r.head = Slot(q, c) /\ r.tail = q.tail
    BY DEF PopTimes
  <2>2. T = S \cup {Slot(q, c)}
    <3>1. \A i : i \in 0 .. (c + 1) - 1 <=> i \in 0 .. c - 1 \/ i = c
      OBVIOUS
    <3>. QED  BY <3>1
  <2>. HIDE DEF r, S, T
  <2>3. Destroyed(r, {r.head}) = Destroyed(q, T)
    BY <2>1, <2>2 DEF Destroyed
  <2>4. Stepped(r, r.head) = Slot(q, c + 1)
    <3>1. Stepped(r, r.head) = IF Slot(q, c) + 1 = q.cap THEN 0 ELSE Slot(q, c) + 1
      BY <2>1 DEF Stepped
    <3>2. c + 1 < q.cap /\ q.head + (c + 1) = (q.head + c) + 1
      BY <1>1
    <3>3. CASE q.head + c < q.cap
      <4>1. Slot(q, c) = q.head + c
        BY <3>3 DEF Slot
      <4>. QED  BY <1>1, <3>1, <3>2, <3>3, <4>1 DEF Slot
    <3>4. CASE ~(q.head + c < q.cap)
      <4>1. Slot(q, c) = q.head + c - q.cap
        BY <3>4 DEF Slot
      <4>. QED  BY <1>1, <3>1, <3>2, <3>4, <4>1 DEF Slot
    <3>. QED  BY <3>3, <3>4
  <2>. QED  BY <2>1, <2>3, <2>4 DEF Pop, PopTimes, r, T
<1>. QED  BY <1>2, <1>3

\* Pop(bufLen) takes that many bytes, or all.
LEMMA PopBytesHolds ==
    ASSUME NEW b, NEW a, NEW z, Holds(b, a, z), NEW n \in Nat
    PROVE  Holds(PopBytes(b, n), Onward(a, n, z), z)
<1>1. /\ a \in Nat /\ z \in Nat /\ a <= z /\ b.bytes = z - a /\ Sound(b.q) /\ Count(b.q) \in Nat
      /\ b = [q |-> b.q, bytes |-> b.bytes, offset |-> b.offset] /\ b.offset \in Nat
      /\ (Count(b.q) = 0 <=> a = z)
  BY HoldsNumbers
<1>2. CASE n = 0
  <2>1. PopBytes(b, n) = b /\ Onward(a, n, z) = a
    BY <1>1, <1>2 DEF PopBytes, Onward
  <2>. QED  BY <2>1
<1>3. CASE n # 0 /\ n >= b.bytes
  <2>1. PopBytes(b, n) = ClearBytes(b) /\ Onward(a, n, z) = z
    BY <1>1, <1>3 DEF PopBytes, Onward
  <2>. QED  BY <2>1, ClearHolds
<1>4. CASE n # 0 /\ ~(n >= b.bytes)
  <2>. DEFINE count == Count(b.q)
              d == [b EXCEPT !.bytes = @ - n]
  <2>1. PICK g : Marks(b, g) /\ g[0] = a /\ g[count] = z
    BY DEF Holds
  <2>2. d = [q |-> b.q, bytes |-> b.bytes - n, offset |-> b.offset]
    BY <1>1
  <2>3. d.q = b.q /\ d.bytes = b.bytes - n /\ d.offset = b.offset
    BY <2>2
  <2>. HIDE DEF d
  <2>4. UpTo(d, count) = UpTo(b, count)
    BY <2>3 DEF UpTo
  <2>. DEFINE u == [i \in 0 .. count |-> g[i] - g[0]]
  <2>5. UpTo(d, count) = u
    BY <1>1, <2>1, <2>4, UpToMarks
  <2>6. \A i \in 0 .. count : g[i] \in Nat /\ u[i] = g[i] - a
    BY <2>1 DEF Marks
  <2>7. u \in [0 .. count -> Int] /\ u[0] = 0 /\ u[count] = z - a
    <3>1. 0 \in 0 .. count /\ count \in 0 .. count
      BY <1>1
    <3>. QED  BY <1>1, <2>1, <2>6, <3>1
  <2>. HIDE DEF u
  <2>. DEFINE whole == CHOOSE i \in 0 .. count - 1 : u[i] <= n /\ n < u[i + 1]
  <2>8. whole \in 0 .. count - 1 /\ u[whole] <= n /\ n < u[whole + 1]
    <3>1. \E i \in 0 .. count - 1 : u[i] <= n /\ n < u[i + 1]
      <4>1. u[0] <= n /\ n < u[count] /\ n \in Int
        BY <1>1, <1>4, <2>7
      <4>. HIDE DEF count
      <4>. QED  BY <1>1, <2>7, <4>1, Crossing DEF count
    <3>. QED  BY <3>1
  <2>9. PopBytes(b, n) = PopBuffers(d, n)
    BY <1>4 DEF PopBytes, d
  <2>10. PopBuffers(d, n) =
            [d EXCEPT !.q = PopTimes(b.q, whole), !.offset = (IF whole = 0 THEN @ ELSE 0) + n - u[whole]]
    BY <2>3, <2>5 DEF PopBuffers
  <2>. HIDE DEF whole
  <2>. DEFINE x == n - u[whole]
              c == [q |-> PopTimes(b.q, whole), bytes |-> b.bytes - (g[whole] - g[0]) - x,
                    offset |-> (IF whole = 0 THEN b.offset ELSE 0) + x]
  <2>11. /\ whole \in 0 .. count /\ whole + 1 \in 0 .. count /\ whole \in Nat /\ whole <= count
         /\ u[whole] = g[whole] - a /\ u[whole + 1] = g[whole + 1] - a
         /\ g[whole] \in Nat /\ g[whole + 1] \in Nat
    <3>1. whole \in 0 .. count /\ whole + 1 \in 0 .. count /\ whole \in Nat /\ whole <= count
      BY <1>1, <2>8
    <3>. QED  BY <2>6, <3>1
  <2>12. x \in Nat /\ x < g[whole + 1] - g[whole] /\ g[whole] + x = a + n
    BY <1>1, <2>8, <2>11
  <2>13. PopBuffers(d, n) = c
    <3>1. [d EXCEPT !.q = PopTimes(b.q, whole)] =
            [q |-> PopTimes(b.q, whole), bytes |-> b.bytes - n, offset |-> b.offset]
      BY <2>2
    <3>2. PopBuffers(d, n) = [q |-> PopTimes(b.q, whole), bytes |-> b.bytes - n,
                              offset |-> (IF whole = 0 THEN b.offset ELSE 0) + n - u[whole]]
      BY <2>3, <2>10, <3>1
    <3>3. b.bytes - n = b.bytes - (g[whole] - g[0]) - x
      BY <1>1, <2>1, <2>11
    <3>4. (IF whole = 0 THEN b.offset ELSE 0) + n - u[whole] = (IF whole = 0 THEN b.offset ELSE 0) + x
      BY <1>1, <2>11
    <3>. QED  BY <3>2, <3>3, <3>4
  <2>14. /\ Sound(PopTimes(b.q, whole))
         /\ Contents(PopTimes(b.q, whole)) = SubSeq(Contents(b.q), whole + 1, count)
    BY <1>1, <2>11, FrontDestroyed
  <2>15. Holds(c, g[whole] + x, g[count])
    <3>. HIDE DEF x
    <3>. QED  BY <2>1, <2>8, <2>12, <2>14, CutHolds
  <2>16. Onward(a, n, z) = a + n
    BY <1>1, <1>4 DEF Onward
  <2>. QED  BY <2>1, <2>9, <2>12, <2>13, <2>15, <2>16
<1>. QED  BY <1>2, <1>3, <1>4

\* A frame that is not shorter than the queue ends at the end of a buffer: of
\* the last in the queue, or of the last that fits into the vector. Popping what
\* was planned then takes just the bytes that were written, all of them when the
\* vector has an entry for every buffer.
LEMMA PlanHolds ==
    ASSUME NEW b, NEW a, NEW z, Holds(b, a, z), b.bytes # 0, NEW limit \in Nat, b.bytes <= limit,
           NEW p, p = Fill(b, limit)
    PROVE  /\ p.bufLen \in Nat /\ p.ask = p.bufLen /\ a + p.bufLen <= z
           /\ Holds(PopPlanned(b, p), a + p.bufLen, z)
           /\ Count(b.q) <= VsCap => a + p.bufLen = z
<1>. DEFINE n == Count(b.q)
            cap == IF VsCap < n THEN VsCap ELSE n
            upTo == UpTo(b, cap)
            enough == {i \in 1 .. cap : upTo[i] >= b.bytes}
            last == CHOOSE i \in enough : \A j \in enough : i <= j
            all == IF limit > b.bytes THEN b.bytes ELSE limit
<1>1. PICK g : Marks(b, g) /\ g[0] = a /\ g[n] = z
  BY DEF Holds
<1>2. /\ a \in Nat /\ z \in Nat /\ a < z /\ b.bytes = z - a /\ Sound(b.q) /\ n \in Nat /\ n >= 1
      /\ b.offset \in Nat
  <2>1. /\ a \in Nat /\ z \in Nat /\ a <= z /\ b.bytes = z - a /\ Sound(b.q) /\ n \in Nat
        /\ b.offset \in Nat /\ (n = 0 <=> a = z)
    BY HoldsNumbers
  <2>. QED  BY <2>1
<1>3. /\ cap \in Nat /\ cap >= 1 /\ cap <= n /\ VsCap \in Nat /\ VsCap >= 1
      /\ (cap = n) \/ (cap = VsCap /\ VsCap < n)
  BY <1>2, Numbers
<1>4. all = b.bytes
  BY <1>2
<1>5. \A i \in 0 .. n : g[i] \in Nat
  BY <1>1 DEF Marks
<1>6. \A i \in 0 .. cap : upTo[i] = g[i] - a
  <2>. HIDE DEF cap
  <2>1. upTo = [i \in 0 .. cap |-> g[i] - g[0]]
    BY <1>1, <1>3, UpToMarks
  <2>. QED  BY <1>1, <2>1
<1>7. \A i \in 0 .. n : i < n => g[i] < z
  <2>1. g \in [0 .. n -> Int] /\ \A i \in 0 .. n - 1 : g[i] < g[i + 1]
    BY <1>1, <1>5 DEF Marks
  <2>2. n \in 0 .. n
    BY <1>2
  <2>. QED  BY <1>1, <1>2, <2>1, <2>2, Increasing
<1>8. Fill(b, limit) =
        IF enough = {} THEN Plan(VsCap, cap, upTo[cap], upTo[cap], 0)
        ELSE IF last = 1 /\ upTo[1] > b.bytes THEN Plan(1, 1, b.bytes, upTo[1], b.offset + b.bytes)
        ELSE IF last = 1 THEN Plan(1, 1, b.bytes, b.bytes, 0)
        ELSE IF upTo[last] > b.bytes THEN Plan(last, last, b.bytes, b.bytes, b.bytes - upTo[last - 1])
        ELSE Plan(VsCap, last, b.bytes, b.bytes, 0)
  <2>. DEFINE filled(len) ==
                LET some == {i \in 1 .. cap : upTo[i] >= len}
                    end == CHOOSE i \in some : \A j \in some : i <= j
                IN IF some = {} THEN Plan(VsCap, cap, upTo[cap], upTo[cap], 0)
                   ELSE IF end = 1 /\ upTo[1] > len THEN Plan(1, 1, len, upTo[1], b.offset + len)
                   ELSE IF end = 1 THEN Plan(1, 1, len, len, 0)
                   ELSE IF upTo[end] > len THEN Plan(end, end, len, len, len - upTo[end - 1])
                   ELSE Plan(VsCap, end, len, len, 0)
  <2>1. Fill(b, limit) = filled(all)
    BY DEF Fill
  <2>2. filled(all) = filled(b.bytes)
    <3>. HIDE DEF filled, all
    <3>. QED  BY <1>4
  <2>. QED  BY <2>1, <2>2
<1>9. Top(b.q).len = b.offset + (g[1] - g[0])
  <2>1. At(b.q, 0) = Top(b.q)
    <3>. HIDE DEF n
    <3>1. b.q.head \in Nat /\ b.q.cap \in Nat /\ b.q.head < b.q.cap
      BY <1>2, SoundParts
    <3>. QED  BY <3>1 DEF At, Slot, Top
  <2>2. 1 \in 1 .. n /\ 0 \in 0 .. n - 1 /\ 1 - 1 = 0
    BY <1>2
  <2>3. Top(b.q).at + Top(b.q).len = g[1] /\ Top(b.q).at + b.offset = g[0]
    BY <1>1, <2>1, <2>2 DEF Marks
  <2>4. Top(b.q).at \in Nat /\ Top(b.q).len \in Nat
    BY <1>2, <2>1, <2>2, Buffers
  <2>. QED  BY <1>2, <2>3, <2>4
<1>. HIDE DEF upTo
<1>10. CASE cap # n
  <2>. DEFINE k == VsCap
  <2>1. cap = k /\ k < n /\ k \in 0 .. n - 1 /\ k \in 0 .. cap /\ k # 0 /\ k \in 0 .. n /\ k \in Nat
    BY <1>2, <1>3, <1>10
  <2>2. enough = {}
    <3>. SUFFICES ASSUME NEW i \in 1 .. cap
                  PROVE  ~(upTo[i] >= b.bytes)
      OBVIOUS
    <3>1. i \in 0 .. cap /\ i \in 0 .. n /\ i < n
      BY <1>2, <1>3, <2>1
    <3>2. upTo[i] = g[i] - a /\ g[i] < z /\ g[i] \in Nat
      BY <1>5, <1>6, <1>7, <3>1
    <3>. QED  BY <1>2, <3>2
  <2>3. p = Plan(k, k, g[k] - a, g[k] - a, 0)
    BY <1>6, <1>8, <2>1, <2>2
  <2>4. p.vsLen = k /\ p.bufLen = g[k] - a /\ p.ask = g[k] - a /\ p.offset = 0
    BY <2>3 DEF Plan
  <2>5. g[k] \in Nat /\ a < g[k] /\ g[k] < z
    <3>1. g \in [0 .. n -> Int] /\ \A i \in 0 .. n - 1 : g[i] < g[i + 1]
      BY <1>1, <1>5 DEF Marks
    <3>2. 0 \in 0 .. n /\ 0 < k
      BY <1>2, <2>1
    <3>3. g[0] < g[k]
      BY <1>2, <2>1, <3>1, <3>2, Increasing
    <3>. QED  BY <1>1, <1>5, <1>7, <2>1, <3>3
  <2>6. ~(p.vsLen = 1 /\ Top(b.q).len > b.offset + p.bufLen)
    BY <1>1, <1>2, <1>9, <2>4, <2>5
  <2>. DEFINE r == PopMulti(b.q, k)
  <2>7. PopPlanned(b, p) = [q |-> r, bytes |-> b.bytes - (g[k] - a), offset |-> 0]
    BY <2>4, <2>6 DEF PopPlanned
  <2>8. Sound(r) /\ Contents(r) = SubSeq(Contents(b.q), k + 1, n)
    <3>1. k \in Nat /\ ~(k >= n)
      BY <1>2, <2>1
    <3>. HIDE DEF k
    <3>. QED  BY <1>2, <3>1, PopMultiTakesFront
  <2>9. g[k] < g[k + 1] /\ g[k + 1] \in Nat
    <3>1. k + 1 \in 0 .. n
      BY <1>2, <2>1
    <3>. QED  BY <1>1, <1>5, <2>1, <3>1 DEF Marks
  <2>. DEFINE c == PopPlanned(b, p)
  <2>10. c = [q |-> r, bytes |-> b.bytes - (g[k] - g[0]) - 0, offset |-> (IF k = 0 THEN b.offset ELSE 0) + 0]
    BY <1>1, <1>2, <2>1, <2>5, <2>7
  <2>11. 0 \in Nat /\ 0 < g[k + 1] - g[k]
    BY <2>5, <2>9
  <2>. HIDE DEF c, r, k
  <2>12. Holds(c, g[k] + 0, g[n])
    BY <1>1, <2>1, <2>8, <2>10, <2>11, CutHolds
  <2>13. g[k] + 0 = a + p.bufLen /\ a + p.bufLen <= z /\ p.bufLen \in Nat
    BY <1>2, <2>4, <2>5
  <2>14. ~(n <= VsCap)
    BY <1>2, <1>3, <1>10
  <2>. QED  BY <1>1, <2>4, <2>12, <2>13, <2>14 DEF c
<1>11. CASE cap = n
  <2>1. enough = {n}
    <3>1. ASSUME NEW i \in 1 .. cap
          PROVE  upTo[i] >= b.bytes <=> i = n
      <4>1. i \in 0 .. cap /\ i \in 0 .. n /\ (i = n \/ i < n)
        BY <1>2, <1>11
      <4>2. upTo[i] = g[i] - a /\ g[i] \in Nat
        BY <1>5, <1>6, <4>1
      <4>3. CASE i = n
        BY <1>1, <1>2, <4>2, <4>3
      <4>4. CASE i < n
        <5>1. g[i] < z
          BY <1>7, <4>1, <4>4
        <5>. QED  BY <1>2, <4>2, <4>4, <5>1
      <4>. QED  BY <4>1, <4>3, <4>4
    <3>2. n \in 1 .. cap
      BY <1>2, <1>11
    <3>. QED  BY <3>1, <3>2
  <2>2. last = n /\ upTo[n] = b.bytes
    <3>1. n \in 0 .. cap
      BY <1>2, <1>11
    <3>2. upTo[n] = b.bytes
      BY <1>1, <1>2, <1>6, <3>1
    <3>3. last \in enough
      BY <1>2, <2>1
    <3>. QED  BY <2>1, <3>2, <3>3
  <2>. HIDE DEF enough, last, cap
  <2>3. p = IF n = 1 THEN Plan(1, 1, b.bytes, b.bytes, 0) ELSE Plan(VsCap, n, b.bytes, b.bytes, 0)
    <3>1. ~(b.bytes > b.bytes) /\ enough # {}
      BY <1>2, <2>1
    <3>. QED  BY <1>8, <2>2, <3>1
  <2>4. /\ p.bufLen = b.bytes /\ p.ask = b.bytes /\ p.offset = 0
        /\ p.vsLen \in Nat /\ p.vsLen >= n /\ (p.vsLen = 1 => n = 1)
    <3>1. VsCap \in Nat /\ VsCap >= n
      BY <1>2, <1>3, <1>11 DEF cap
    <3>2. CASE n = 1
      BY <2>3, <3>2 DEF Plan
    <3>3. CASE n # 1
      <4>1. p = Plan(VsCap, n, b.bytes, b.bytes, 0)
        BY <2>3, <3>3
      <4>. QED  BY <1>2, <3>1, <3>3, <4>1 DEF Plan
    <3>. QED  BY <3>2, <3>3
  <2>5. ~(p.vsLen = 1 /\ Top(b.q).len > b.offset + p.bufLen)
    <3>. SUFFICES ASSUME p.vsLen = 1
                  PROVE  ~(Top(b.q).len > b.offset + p.bufLen)
      OBVIOUS
    <3>1. g[1] - g[0] = b.bytes
      BY <1>1, <1>2, <2>4
    <3>. QED  BY <1>2, <1>9, <2>4, <3>1
  <2>. DEFINE r == PopMulti(b.q, p.vsLen)
  <2>6. PopPlanned(b, p) = [q |-> r, bytes |-> b.bytes - b.bytes, offset |-> 0]
    BY <2>4, <2>5 DEF PopPlanned
  <2>7. Sound(r) /\ Contents(r) = <<>>
    BY <1>2, <2>4, PopMultiTakesFront
  <2>. HIDE DEF r
  <2>8. Count(r) = 0
    BY <2>7, ContentsType
  <2>9. b.bytes - b.bytes = 0 /\ a + p.bufLen = z /\ p.bufLen \in Nat
    BY <1>2, <2>4
  <2>. QED  BY <1>2, <2>4, <2>6, <2>7, <2>8, <2>9, EmptyHolds
<1>. QED  BY <1>10, <1>11

\* The unsent bytes of a queue are the stretch that it holds.
LEMMA UnsentIsSpan ==
    ASSUME NEW b, NEW a, NEW z, Holds(b, a, z)
    PROVE  Unsent(b) = Span(a, z)
<1>. DEFINE n == Count(b.q)
            piece == [i \in 1 .. n |->
                        LET from == IF i = 1 THEN b.offset ELSE 0 IN
                        [k \in 1 .. At(b.q, i - 1).len - from |-> At(b.q, i - 1).at + from + k]]
<1>1. PICK g : Marks(b, g) /\ g[0] = a /\ g[n] = z
  BY DEF Holds
<1>2. /\ a \in Nat /\ z \in Nat /\ a <= z /\ Sound(b.q) /\ n \in Nat /\ b.offset \in Nat
      /\ (n = 0 <=> a = z)
  BY HoldsNumbers
<1>3. /\ \A i \in 0 .. n : g[i] \in Nat
      /\ \A i \in 0 .. n - 1 : g[i] < g[i + 1]
  BY <1>1 DEF Marks
<1>4. \A i \in 0 .. n : a <= g[i]
  <2>1. g \in [0 .. n -> Int]
    BY <1>1, <1>3 DEF Marks
  <2>2. \A i, j \in 0 .. n : i < j => g[i] < g[j]
    BY <1>2, <1>3, <2>1, Increasing
  <2>. SUFFICES ASSUME NEW i \in 0 .. n
                PROVE  a <= g[i]
    OBVIOUS
  <2>3. CASE i = 0
    BY <1>1, <1>2, <2>3
  <2>4. CASE i # 0
    <3>1. 0 \in 0 .. n /\ 0 < i
      BY <1>2, <2>4
    <3>2. a < g[i] /\ g[i] \in Nat
      BY <1>1, <1>3, <2>2, <3>1
    <3>. QED  BY <1>2, <3>2
  <2>. QED  BY <2>3, <2>4
<1>5. ASSUME NEW i \in 1 .. n
      PROVE  piece[i] = Span(g[i - 1], g[i])
  <2>. DEFINE e == At(b.q, i - 1)
              from == IF i = 1 THEN b.offset ELSE 0
  <2>1. i - 1 \in 0 .. n - 1 /\ i - 1 \in 0 .. n /\ i \in 0 .. n
    BY <1>2
  <2>2. e.at \in Nat /\ e.len \in Nat /\ from \in Nat
    BY <1>2, <2>1, Buffers
  <2>3. e.at + e.len = g[i] /\ e.at + from = g[i - 1]
    BY <1>1 DEF Marks
  <2>4. piece[i] = [k \in 1 .. e.len - from |-> e.at + from + k]
    OBVIOUS
  <2>. HIDE DEF e, from, piece
  <2>5. e.len - from = g[i] - g[i - 1] /\ \A k \in Int : e.at + from + k = g[i - 1] + k
    BY <1>3, <2>1, <2>2, <2>3
  <2>. QED  BY <2>4, <2>5 DEF Span
<1>6. Unsent(b) = FlattenSeq(piece) /\ Len(piece) = n
  BY <1>2 DEF Unsent
<1>. HIDE DEF piece
<1>7. CASE n = 0
  <2>1. Unsent(b) = piece /\ Len(piece) = 0
    BY <1>6, <1>7 DEF FlattenSeq
  <2>2. piece = <<>>
    BY <1>7 DEF piece
  <2>. QED  BY <1>2, <1>7, <2>1, <2>2, SpanType
<1>8. CASE n # 0
  <2>. DEFINE Step(f) == [i \in 1 .. n |-> IF i = 1 THEN piece[i] ELSE f[i - 1] \o piece[i]]
              u == CHOOSE f : f = Step(f)
              w == [i \in 1 .. n |-> Span(a, g[i])]
  <2>1. Unsent(b) = u[n]
    BY <1>6, <1>8 DEF FlattenSeq
  <2>2. w = Step(w)
    <3>1. ASSUME NEW i \in 1 .. n
          PROVE  w[i] = IF i = 1 THEN piece[i] ELSE w[i - 1] \o piece[i]
      <4>1. CASE i = 1
        BY <1>1, <1>5, <4>1
      <4>2. CASE i # 1
        <5>1. i - 1 \in 1 .. n /\ i - 1 \in 0 .. n /\ i - 1 \in 0 .. n - 1 /\ i \in 0 .. n /\ (i - 1) + 1 = i
          BY <1>2, <4>2
        <5>2. /\ g[i - 1] \in Nat /\ g[i] \in Nat /\ a <= g[i - 1] /\ g[i - 1] <= g[i]
          BY <1>3, <1>4, <5>1
        <5>3. ASSUME NEW x \in Nat, NEW y \in Nat, a <= x, x <= y
              PROVE  Span(a, x) \o Span(x, y) = Span(a, y)
          BY <1>2, <5>3, SpanJoined
        <5>4. Span(a, g[i - 1]) \o Span(g[i - 1], g[i]) = Span(a, g[i])
          BY <5>2, <5>3
        <5>. QED  BY <1>5, <4>2, <5>1, <5>4
      <4>. QED  BY <4>1, <4>2
    <3>. HIDE DEF w
    <3>2. w = [i \in 1 .. n |-> w[i]]
      BY DEF w
    <3>. QED  BY <3>1, <3>2
  <2>3. u = Step(u)
    BY <2>2
  <2>. HIDE DEF u
  <2>. DEFINE T == {i \in Nat : i + 1 <= n => u[i + 1] = Span(a, g[i + 1])}
  <2>4. 0 \in T
    <3>1. 1 \in 1 .. n
      BY <1>2, <1>8
    <3>2. u[1] = piece[1]
      BY <2>3, <3>1
    <3>3. u[0 + 1] = Span(a, g[0 + 1])
      BY <1>1, <1>5, <3>1, <3>2
    <3>. QED  BY <3>3
  <2>5. ASSUME NEW i \in Nat, i \in T
        PROVE  i + 1 \in T
    <3>. SUFFICES ASSUME (i + 1) + 1 <= n
                  PROVE  u[(i + 1) + 1] = Span(a, g[(i + 1) + 1])
      OBVIOUS
    <3>. DEFINE j == (i + 1) + 1
    <3>1. j \in 1 .. n /\ j # 1 /\ j - 1 = i + 1 /\ j - 1 \in 1 .. n
      BY <1>2
    <3>2. u[j - 1] = Span(a, g[j - 1])
      BY <1>2, <2>5, <3>1
    <3>. HIDE DEF j
    <3>3. u[j] = u[j - 1] \o piece[j]
      BY <2>3, <3>1
    <3>4. w[j] = w[j - 1] \o piece[j] /\ w[j] = Span(a, g[j]) /\ w[j - 1] = Span(a, g[j - 1])
      BY <2>2, <3>1
    <3>. QED  BY <3>2, <3>3, <3>4 DEF j
  <2>. HIDE DEF T
  <2>6. \A i \in Nat : i \in T
    BY <2>4, <2>5, Induct
  <2>7. n - 1 \in Nat /\ (n - 1) + 1 = n
    BY <1>2, <1>8
  <2>8. u[n] = Span(a, g[n])
    <3>1. n - 1 \in T
      BY <2>6, <2>7
    <3>. QED  BY <2>7, <3>1 DEF T
  <2>. QED  BY <1>1, <2>1, <2>8
<1>. QED  BY <1>7, <1>8

-----------------------------------------------------------------------------
(* The sender: whatever writev takes, the queue holds the rest.               *)

Peer(o) == o = [b |-> o.b, writing |-> o.writing, armed |-> o.armed]

\* What a write has done to a sender whose queue held the bytes after a up to z:
\* n bytes went into the socket, no more than there were if none of them came
\* from an entry that Fill did not set.
Wrote(w, a, z, n) ==
    /\ Peer(w.out) /\ Holds(w.out.b, Onward(a, n, z), z)
    /\ \/ n = 0 /\ w.sock = sock
       \/ /\ n # 0 /\ up /\ n <= SockCap
          /\ w.sock = sock \o SubSeq(Span(a, z) \o [k \in 1 .. SockCap |-> Junk], 1, n)
          /\ Junk \notin ToSet(w.sock) => a + n <= z

\* A write that takes nothing leaves the queue as it was.
LEMMA WroteNothing ==
    ASSUME NEW o, NEW a, NEW z, Holds(o.b, a, z),
           NEW w, Peer(w.out), w.out.b = o.b, w.sock = sock
    PROVE  Wrote(w, a, z, 0)
<1>1. a \in Nat /\ z \in Nat /\ a <= z
  BY HoldsNumbers
<1>2. Onward(a, 0, z) = a
  BY <1>1 DEF Onward
<1>. QED  BY <1>2 DEF Wrote

\* A socket without junk took no more bytes than were queued.
LEMMA CleanWithin ==
    ASSUME NEW a \in Nat, NEW z \in Nat, a <= z, NEW n \in Nat, n <= SockCap, sock \in Seq(Nat),
           NEW t, t = sock \o SubSeq(Span(a, z) \o [k \in 1 .. SockCap |-> Junk], 1, n),
           Junk \notin ToSet(t)
    PROVE  a + n <= z
<1>. DEFINE s == Span(a, z)
            j == [k \in 1 .. SockCap |-> Junk]
            u == s \o j
            l == (z - a) + 1
<1>. SUFFICES ASSUME ~(a + n <= z)
              PROVE  FALSE
  OBVIOUS
<1>1. SockCap \in Nat /\ Len(sock) \in Nat /\ l \in 1 .. n /\ 1 \in 1 .. SockCap
  BY Numbers
<1>2. s \in Seq(Nat) /\ Len(s) = z - a
  BY SpanType
<1>3. j \in Seq(Nat) /\ Len(j) = SockCap /\ j[1] = Junk
  BY <1>1 DEF Junk
<1>. HIDE DEF s, j
<1>4. u \in Seq(Nat) /\ Len(u) = (z - a) + SockCap /\ u[l] = Junk
  <2>1. l \in 1 .. Len(s) + Len(j) /\ ~(l <= Len(s)) /\ l - Len(s) = 1
    BY <1>1, <1>2, <1>3
  <2>. HIDE DEF l
  <2>2. u \in Seq(Nat) /\ Len(u) = Len(s) + Len(j)
    BY <1>2, <1>3, ConcatProperties
  <2>3. u[l] = IF l <= Len(s) THEN s[l] ELSE j[l - Len(s)]
    BY <1>2, <1>3, <2>1, ConcatProperties
  <2>. QED  BY <1>2, <1>3, <2>1, <2>2, <2>3
<1>. HIDE DEF u
<1>5. SubSeq(u, 1, n) \in Seq(Nat) /\ Len(SubSeq(u, 1, n)) = n /\ SubSeq(u, 1, n)[l] = Junk
  <2>1. n <= Len(u) /\ 1 <= n
    BY <1>1, <1>4
  <2>2. \A i \in 1 .. n : u[i] \in Nat
    <3>1. \A i \in 1 .. n : i \in 1 .. Len(u)
      BY <1>4, <2>1
    <3>. QED  BY <1>4, <3>1
  <2>3. n - 1 + 1 = n /\ 1 + l - 1 = l
    BY <1>1
  <2>. QED  BY <1>1, <1>4, <2>1, <2>2, <2>3, SubSeqProperties
<1>6. PICK r \in Seq(Nat) : r = SubSeq(u, 1, n) /\ Len(r) = n /\ r[l] = Junk
  BY <1>5
<1>7. t = sock \o r
  BY <1>6 DEF s, j, u
<1>8. Len(t) = Len(sock) + n /\ Len(sock) + l \in 1 .. Len(t) /\ t[Len(sock) + l] = Junk
  <2>1. Len(t) = Len(sock) + n
    BY <1>6, <1>7, ConcatProperties
  <2>. DEFINE i == Len(sock) + l
  <2>2. i \in 1 .. Len(sock) + Len(r) /\ ~(i <= Len(sock)) /\ i - Len(sock) = l
    <3>1. Len(r) = n /\ 1 <= l /\ l <= n /\ l \in Nat
      BY <1>1, <1>6
    <3>. HIDE DEF l
    <3>. QED  BY <1>1, <3>1
  <2>. HIDE DEF i
  <2>3. t[i] = IF i <= Len(sock) THEN sock[i] ELSE r[i - Len(sock)]
    <3>1. r \in Seq(Nat)
      BY <1>6
    <3>2. (sock \o r)[i] = IF i <= Len(sock) THEN sock[i] ELSE r[i - Len(sock)]
      BY <2>2, <3>1, ConcatProperties
    <3>. QED  BY <1>7, <3>2, Zenon
  <2>. QED  BY <1>6, <2>1, <2>2, <2>3 DEF i
<1>9. t \in Seq(Nat)
  BY <1>6, <1>7, ConcatProperties
<1>10. DOMAIN t = 1 .. Len(t)
  BY <1>9
<1>. QED  BY <1>8, <1>10 DEF ToSet

\* Write, in each of its outcomes.
LEMMA WriteHolds ==
    ASSUME NEW o, Peer(o), NEW a, NEW z, Holds(o.b, a, z), o.b.bytes <= SendLenPerFrame,
           sock \in Seq(Nat), NEW w \in Write(o)
    PROVE  \E n \in Nat : Wrote(w, a, z, n)
<1>. DEFINE plan == Fill(o.b, SendLenPerFrame)
            unset == plan.set < plan.vsLen
            extra == IF unset THEN Stray ELSE {0}
            most == {plan.ask + x : x \in extra}
            bytes == Unsent(o.b) \o [k \in 1 .. SockCap |-> Junk]
<1>1. a \in Nat /\ z \in Nat /\ a <= z /\ Len(sock) \in Nat /\ SockCap \in Nat
  BY HoldsNumbers, Numbers
<1>2. CASE o.b.bytes = 0
  <2>1. w = [out |-> [o EXCEPT !.armed = FALSE], sock |-> sock, ok |-> TRUE]
    BY <1>2 DEF Write
  <2>2. w.sock = sock /\ w.out = [b |-> o.b, writing |-> o.writing, armed |-> FALSE]
    BY <2>1 DEF Peer
  <2>. QED  BY <2>2, WroteNothing DEF Peer
<1>3. CASE w = [out |-> o, sock |-> sock, ok |-> FALSE]
  <2>1. w.out = o /\ w.sock = sock
    BY <1>3
  <2>. QED  BY <2>1, WroteNothing
<1>4. CASE w = [out |-> Full(o), sock |-> sock, ok |-> TRUE]
  <2>1. w.sock = sock /\ w.out = [b |-> o.b, writing |-> TRUE, armed |-> TRUE]
    BY <1>4 DEF Peer, Full
  <2>. QED  BY <2>1, WroteNothing DEF Peer
<1>5. CASE /\ o.b.bytes # 0 /\ up
           /\ \E n \in {k \in 1 .. Room : \E x \in most : k <= x} :
                 w = [out |-> Sent(o, plan, n), sock |-> sock \o SubSeq(bytes, 1, n), ok |-> TRUE]
  <2>1. PICK n \in {k \in 1 .. Room : \E x \in most : k <= x} :
            w = [out |-> Sent(o, plan, n), sock |-> sock \o SubSeq(bytes, 1, n), ok |-> TRUE]
    BY <1>5
  <2>2. n \in 1 .. Room /\ \E x \in most : n <= x
    OBVIOUS
  <2>3. n \in Nat /\ n # 0 /\ n <= SockCap
    BY <1>1, <2>2 DEF Room
  <2>4. /\ plan.bufLen \in Nat /\ plan.ask = plan.bufLen /\ a + plan.bufLen <= z
        /\ Holds(PopPlanned(o.b, plan), a + plan.bufLen, z)
    <3>1. SendLenPerFrame \in Nat
      BY Numbers
    <3>. QED  BY <1>5, <3>1, PlanHolds
  <2>5. w.out = Sent(o, plan, n) /\ w.sock = sock \o SubSeq(bytes, 1, n)
    BY <2>1
  <2>6. bytes = Span(a, z) \o [k \in 1 .. SockCap |-> Junk]
    BY UnsentIsSpan
  <2>. HIDE DEF plan, unset, extra, most, bytes
  <2>7. Junk \notin ToSet(w.sock) => a + n <= z
    BY <1>1, <2>3, <2>5, <2>6, CleanWithin
  <2>8. Peer(w.out) /\ Holds(w.out.b, Onward(a, n, z), z)
    <3>1. CASE n = plan.bufLen
      <4>1. w.out = [b |-> PopPlanned(o.b, plan), writing |-> o.writing, armed |-> o.armed]
        BY <2>5, <3>1 DEF Sent, Peer
      <4>2. Onward(a, n, z) = a + plan.bufLen
        <5>1. n \in Nat /\ a + n <= z
          BY <2>3, <2>4, <3>1
        <5>2. Onward(a, n, z) = a + n
          BY <1>1, <5>1, OnwardWithin
        <5>. QED  BY <3>1, <5>2
      <4>. QED  BY <2>4, <4>1, <4>2 DEF Peer
    <3>2. CASE n # plan.bufLen
      <4>1. [o EXCEPT !.b = PopBytes(o.b, n)] =
                [b |-> PopBytes(o.b, n), writing |-> o.writing, armed |-> o.armed]
        BY DEF Peer
      <4>2. w.out = [b |-> PopBytes(o.b, n), writing |-> TRUE, armed |-> TRUE]
        BY <2>5, <3>2, <4>1 DEF Sent, Full
      <4>3. Holds(PopBytes(o.b, n), Onward(a, n, z), z)
        BY <2>3, PopBytesHolds
      <4>. QED  BY <4>2, <4>3 DEF Peer
    <3>. QED  BY <3>1, <3>2
  <2>. QED  BY <1>5, <2>3, <2>5, <2>6, <2>7, <2>8 DEF Wrote
<1>. QED
  <2>1. o.b.bytes # 0 /\ ~up => w = [out |-> o, sock |-> sock, ok |-> FALSE]
    BY DEF Write
  <2>2. o.b.bytes # 0 /\ up =>
            \/ w = [out |-> Full(o), sock |-> sock, ok |-> TRUE]
            \/ \E n \in {k \in 1 .. Room : \E x \in most : k <= x} :
                  w = [out |-> Sent(o, plan, n), sock |-> sock \o SubSeq(bytes, 1, n), ok |-> TRUE]
            \/ w = [out |-> o, sock |-> sock, ok |-> FALSE]
    BY DEF Write
  <2>. QED  BY <1>2, <1>3, <1>4, <1>5, <2>1, <2>2

\* The same of a caller that does not write while EPOLLOUT is awaited.
LEMMA WriteUnlessHolds ==
    ASSUME NEW o, Peer(o), NEW a, NEW z, Holds(o.b, a, z), o.b.bytes <= SendLenPerFrame,
           sock \in Seq(Nat), NEW w \in WriteUnlessWriting(o)
    PROVE  \E n \in Nat : Wrote(w, a, z, n)
<1>1. CASE o.writing
  <2>1. w = [out |-> o, sock |-> sock, ok |-> TRUE]
    BY <1>1 DEF WriteUnlessWriting
  <2>2. w.out = o /\ w.sock = sock
    BY <2>1
  <2>. QED  BY <2>2, WroteNothing
<1>2. CASE ~o.writing
  <2>1. w \in Write(o)
    BY <1>2 DEF WriteUnlessWriting
  <2>. QED  BY <2>1, WriteHolds
<1>. QED  BY <1>1, <1>2

\* What a write leaves: numbers of bytes in the socket, and no more queued.
LEMMA WroteNumbers ==
    ASSUME NEW w, NEW a, NEW z, NEW n \in Nat, Wrote(w, a, z, n),
           NEW b, Holds(b, a, z), sock \in Seq(Nat)
    PROVE  w.sock \in Seq(Nat) /\ w.out.b.bytes <= b.bytes
<1>1. a \in Nat /\ z \in Nat /\ a <= z /\ b.bytes = z - a /\ SockCap \in Nat
  BY HoldsNumbers, Numbers
<1>2. w.out.b.bytes = z - Onward(a, n, z) /\ Onward(a, n, z) \in Nat /\ Onward(a, n, z) >= a
  BY <1>1, HoldsNumbers DEF Wrote, Onward
<1>3. w.sock \in Seq(Nat)
  <2>1. CASE w.sock = sock
    BY <2>1
  <2>2. CASE n <= SockCap /\ w.sock = sock \o SubSeq(Span(a, z) \o [k \in 1 .. SockCap |-> Junk], 1, n)
    <3>. DEFINE t == [k \in 1 .. SockCap |-> Junk]
                u == Span(a, z) \o t
    <3>1. Span(a, z) \in Seq(Nat) /\ Len(Span(a, z)) = z - a
      BY <1>1, SpanType
    <3>2. t \in Seq(Nat) /\ Len(t) = SockCap
      BY <1>1 DEF Junk
    <3>. HIDE DEF t
    <3>3. u \in Seq(Nat) /\ Len(u) = (z - a) + SockCap
      BY <3>1, <3>2, ConcatProperties
    <3>. HIDE DEF u
    <3>4. n <= Len(u)
      BY <1>1, <2>2, <3>3
    <3>5. SubSeq(u, 1, n) \in Seq(Nat)
      <4>1. \A i \in 1 .. n : u[i] \in Nat
        BY <3>3, <3>4
      <4>. QED  BY <4>1, SubSeqProperties
    <3>. QED  BY <2>2, <3>5, ConcatProperties DEF u, t
  <2>. QED  BY <2>1, <2>2 DEF Wrote
<1>. QED  BY <1>1, <1>2, <1>3

-----------------------------------------------------------------------------
(* What was sent, and the sender's invariant.                                 *)

EndsSound ==
    /\ ends \in Seq(Nat) /\ Len(ends) <= MaxSends
    /\ \A m \in 1 .. Len(ends) : Before(m) + Header <= ends[m]
    /\ Pushed <= Len(ends) * Backlog

\* Packages follow one another.
LEMMA EndsNumbers ==
    ASSUME EndsSound
    PROVE  /\ Len(ends) \in Nat /\ Pushed \in 0 .. MaxSends * Backlog
           /\ \A m \in 1 .. Len(ends) + 1 : Before(m) \in Nat
           /\ \A m \in 1 .. Len(ends) :
                 ends[m] \in Nat /\ Before(m + 1) = ends[m] /\ Before(m) + Header <= ends[m]
<1>1. Len(ends) \in Nat /\ \A m \in 1 .. Len(ends) : ends[m] \in Nat
  BY DEF EndsSound
<1>2. \A m \in 1 .. Len(ends) + 1 : Before(m) \in Nat
  <2>. SUFFICES ASSUME NEW m \in 1 .. Len(ends) + 1
                PROVE  Before(m) \in Nat
    OBVIOUS
  <2>1. m # 1 => m - 1 \in 1 .. Len(ends)
    BY <1>1
  <2>. QED  BY <1>1, <2>1 DEF Before
<1>3. \A m \in 1 .. Len(ends) : Before(m + 1) = ends[m]
  BY <1>1 DEF Before
<1>4. Pushed \in Nat /\ Pushed <= MaxSends * Backlog
  <2>1. Pushed \in Nat
    BY <1>1, <1>2 DEF Pushed
  <2>2. PICK d \in Nat : MaxSends = Len(ends) + d
    <3>1. MaxSends - Len(ends) \in Nat /\ MaxSends = Len(ends) + (MaxSends - Len(ends))
      BY <1>1, Numbers DEF EndsSound
    <3>. QED  BY <3>1
  <2>3. MaxSends * Backlog = Len(ends) * Backlog + d * Backlog
    BY <1>1, <2>2, Numbers
  <2>4. Len(ends) * Backlog \in Nat /\ d * Backlog \in Nat
    BY <1>1, Numbers, Times
  <2>5. Pushed <= Len(ends) * Backlog
    BY DEF EndsSound
  <2>. QED  BY <2>1, <2>3, <2>4, <2>5
<1>5. MaxSends * Backlog \in Nat
  BY Numbers, Times
<1>. QED  BY <1>1, <1>2, <1>3, <1>4, <1>5 DEF EndsSound

\* One more package leaves the others where they are.
LEMMA EndsGrow ==
    ASSUME EndsSound, Len(ends) < MaxSends,
           NEW l \in Nat, Header <= l, l <= Backlog, ends' = Append(ends, Pushed + l)
    PROVE  /\ EndsSound' /\ Pushed' = Pushed + l /\ Len(ends') = Len(ends) + 1
           /\ \A m \in 1 .. Len(ends) + 1 : Before(m)' = Before(m)
           /\ \A m \in 1 .. Len(ends) : ends'[m] = ends[m]
<1>0. PICK n \in Nat : n = Len(ends)
  BY EndsNumbers
<1>1. /\ Pushed \in Nat /\ Backlog \in Nat /\ Header \in Nat /\ MaxSends \in Nat
      /\ ends \in Seq(Nat) /\ \A m \in 1 .. n : ends[m] \in Nat
  <2>1. MaxSends * Backlog \in Nat
    BY Numbers, Times
  <2>. QED  BY <1>0, <2>1, EndsNumbers, Numbers DEF EndsSound
<1>2. /\ ends' \in Seq(Nat) /\ Len(ends') = n + 1 /\ ends'[n + 1] = Pushed + l
      /\ \A m \in 1 .. n : ends'[m] = ends[m]
  BY <1>0, <1>1, AppendProperties
<1>3. \A m \in 1 .. n + 1 : Before(m)' = Before(m)
  <2>. SUFFICES ASSUME NEW m \in 1 .. n + 1
                PROVE  Before(m)' = Before(m)
    OBVIOUS
  <2>1. m # 1 => m - 1 \in 1 .. n
    BY <1>1
  <2>. QED  BY <1>2, <2>1 DEF Before
<1>4. Pushed' = Pushed + l
  <2>1. Before(n + 1 + 1)' = Pushed + l
    BY <1>1, <1>2 DEF Before
  <2>2. Pushed' = Before(n + 1 + 1)'
    BY <1>2 DEF Pushed
  <2>. QED  BY <2>1, <2>2
<1>5. (\A m \in 1 .. Len(ends) : Before(m) + Header <= ends[m])'
  <2>. SUFFICES ASSUME NEW m \in 1 .. n + 1
                PROVE  Before(m)' + Header <= ends'[m]
    BY <1>2
  <2>1. CASE m \in 1 .. n
    <3>1. Before(m) + Header <= ends[m]
      BY <1>0, <2>1 DEF EndsSound
    <3>. QED  BY <1>1, <1>2, <1>3, <2>1, <3>1
  <2>2. CASE m = n + 1
    <3>1. Before(m)' = Pushed
      BY <1>0, <1>3, <2>2 DEF Pushed
    <3>. QED  BY <1>1, <1>2, <2>2, <3>1
  <2>3. m \in 1 .. n \/ m = n + 1
    OBVIOUS
  <2>. QED  BY <2>1, <2>2, <2>3
<1>6. (Pushed <= Len(ends) * Backlog)'
  <2>1. Pushed <= n * Backlog
    BY <1>0 DEF EndsSound
  <2>2. PICK p \in Nat : p = n * Backlog /\ p + Backlog = (n + 1) * Backlog
    BY <1>1, Times
  <2>3. Pushed + l <= p + Backlog
    BY <1>1, <2>1, <2>2
  <2>. QED  BY <1>2, <1>4, <2>2, <2>3
<1>. QED
  <2>1. (Len(ends) <= MaxSends)'
    BY <1>0, <1>1, <1>2
  <2>2. EndsSound'
    BY <1>2, <1>5, <1>6, <2>1 DEF EndsSound
  <2>. QED  BY <1>0, <1>2, <1>3, <1>4, <2>2

\* Nothing of it changes otherwise.
LEMMA EndsStay ==
    ASSUME UNCHANGED ends
    PROVE  /\ EndsSound' = EndsSound /\ Pushed' = Pushed
           /\ \A m : Before(m)' = Before(m) /\ Length(m)' = Length(m)
BY DEF EndsSound, Pushed, Before, Length

\* A sound sender whose queue begins at a.
SenderAt(a) ==
    /\ EndsSound /\ Peer(out) /\ sock \in Seq(Nat)
    /\ out.b.bytes <= Backlog /\ Holds(out.b, a, Pushed)

\* A write of the program or the loop takes bytes from the front of the queue.
LEMMA SendWrites ==
    ASSUME Backlog <= SendLenPerFrame, NEW a, SenderAt(a), NEW body \in Bodies, Send(body)
    PROVE  \E w, n : /\ n \in Nat /\ out' = w.out /\ sock' = w.sock
                     /\ Wrote(w, a, Pushed', n) /\ SenderAt(Onward(a, n, Pushed))'
<1>. DEFINE l == Header + body
            e == [at |-> Pushed, len |-> l]
            o == [out EXCEPT !.b = Push(@, e)]
<1>1. /\ Len(ends) < MaxSends /\ out.b.bytes + Header + body <= Backlog
      /\ ends' = Append(ends, Pushed + Header + body)
  BY DEF Send
<1>2. /\ a \in Nat /\ Pushed \in Nat /\ a <= Pushed /\ out.b.bytes = Pushed - a
      /\ Backlog \in Nat /\ SendLenPerFrame \in Nat
  BY HoldsNumbers, Numbers DEF SenderAt
<1>3. body \in Nat /\ Header \in Nat /\ Header > 0
  BY Numbers
<1>4. l \in Nat /\ l > 0 /\ Header <= l /\ l <= Backlog /\ Pushed + Header + body = Pushed + l
  BY <1>1, <1>2, <1>3
<1>5. PICK w \in WriteUnlessWriting(o) : out' = w.out /\ sock' = w.sock
  BY <1>3 DEF Send
<1>. HIDE DEF l
<1>6. EndsSound' /\ Pushed' = Pushed + l
  BY <1>1, <1>4, EndsGrow DEF SenderAt
<1>7. o = [b |-> Push(out.b, e), writing |-> out.writing, armed |-> out.armed]
  BY DEF SenderAt, Peer
<1>8. e \in Elements /\ e.at = Pushed /\ e.len = l
  <2>1. Pushed \in 0 .. MaxSends * Backlog /\ l \in 0 .. Backlog
    BY <1>2, <1>4, EndsNumbers DEF SenderAt
  <2>. QED  BY <2>1, TcpAssumption DEF TcpAssumption
<1>. HIDE DEF e, o
<1>. PICK z \in Nat : z = Pushed + l
  BY <1>2, <1>4
<1>9. Holds(o.b, a, z)
  BY <1>4, <1>7, <1>8, PushHolds DEF SenderAt
<1>10. o.b.bytes <= Backlog
  <2>1. o.b.bytes = z - a
    BY <1>9, HoldsNumbers
  <2>. QED  BY <1>1, <1>2, <1>3, <2>1 DEF l
<1>11. PICK n \in Nat : Wrote(w, a, z, n)
  <2>1. Peer(o) /\ o.b.bytes <= SendLenPerFrame /\ sock \in Seq(Nat)
    <3>1. o.b.bytes \in Int
      BY <1>2, <1>4, <1>9, HoldsNumbers
    <3>. QED  BY <1>2, <1>7, <1>10, <3>1 DEF Peer, SenderAt
  <2>. QED  BY <1>5, <1>9, <2>1, WriteUnlessHolds
<1>12. w.sock \in Seq(Nat) /\ w.out.b.bytes <= Backlog
  <2>1. w.sock \in Seq(Nat) /\ w.out.b.bytes <= o.b.bytes
    BY <1>9, <1>11, WroteNumbers DEF SenderAt
  <2>2. Holds(w.out.b, Onward(a, n, z), z)
    BY <1>11 DEF Wrote
  <2>3. w.out.b.bytes \in Int /\ o.b.bytes \in Int
    BY <1>9, <2>2, HoldsNumbers
  <2>. QED  BY <1>2, <1>10, <2>1, <2>3
<1>13. SenderAt(Onward(a, n, Pushed))'
  <2>1. Peer(w.out) /\ Holds(w.out.b, Onward(a, n, z), z)
    BY <1>11 DEF Wrote
  <2>. QED  BY <1>5, <1>6, <1>12, <2>1 DEF SenderAt, Onward
<1>. QED
  <2>1. Wrote(w, a, Pushed', n)
    BY <1>6, <1>11
  <2>. QED  BY <1>5, <1>13, <2>1

\* A peer keeps its queue when it is told to write again.
LEMMA Unblocked ==
    ASSUME NEW o, Peer(o)
    PROVE  /\ Peer([o EXCEPT !.writing = FALSE]) /\ [o EXCEPT !.writing = FALSE].b = o.b
           /\ [o EXCEPT !.writing = FALSE] = [b |-> o.b, writing |-> FALSE, armed |-> o.armed]
<1>1. ASSUME NEW u
      PROVE  [o EXCEPT !.writing = u] = [b |-> o.b, writing |-> u, armed |-> o.armed]
  BY DEF Peer
<1>2. [o EXCEPT !.writing = FALSE] = [b |-> o.b, writing |-> FALSE, armed |-> o.armed]
  BY <1>1
<1>. QED  BY <1>2 DEF Peer

\* The writes of Flush and of EPOLLOUT.
LEMMA FlushWrites ==
    ASSUME Backlog <= SendLenPerFrame, NEW a, SenderAt(a), Flush \/ Writable
    PROVE  \E w, n : /\ n \in Nat /\ out' = w.out /\ sock' = w.sock
                     /\ Wrote(w, a, Pushed', n) /\ SenderAt(Onward(a, n, Pushed))'
<1>1. /\ a \in Nat /\ Pushed \in Nat /\ a <= Pushed /\ out.b.bytes = Pushed - a
      /\ Backlog \in Nat /\ SendLenPerFrame \in Nat /\ out.b.bytes <= Backlog
  BY HoldsNumbers, Numbers DEF SenderAt
<1>2. out.b.bytes <= SendLenPerFrame
  BY <1>1
<1>3. UNCHANGED ends
  BY DEF Flush, Writable
<1>4. EndsSound' /\ Pushed' = Pushed
  BY <1>3, EndsStay DEF SenderAt
<1>5. \E w, n : n \in Nat /\ out' = w.out /\ sock' = w.sock /\ Wrote(w, a, Pushed, n)
  <2>1. CASE Flush
    <3>1. PICK w \in WriteUnlessWriting(out) : out' = w.out /\ sock' = w.sock
      BY <2>1 DEF Flush
    <3>2. PICK n \in Nat : Wrote(w, a, Pushed, n)
      BY <1>2, <3>1, WriteUnlessHolds DEF SenderAt
    <3>. QED  BY <3>1, <3>2
  <2>2. CASE Writable
    <3>. DEFINE o == [out EXCEPT !.writing = FALSE]
    <3>1. PICK w \in Write(o) : out' = w.out /\ sock' = w.sock
      BY <2>2 DEF Writable
    <3>3. Peer(o) /\ o.b = out.b
      BY Unblocked DEF SenderAt
    <3>. HIDE DEF o
    <3>4. PICK n \in Nat : Wrote(w, a, Pushed, n)
      BY <1>2, <3>1, <3>3, WriteHolds DEF SenderAt
    <3>. QED  BY <3>1, <3>4
  <2>. QED  BY <2>1, <2>2
<1>6. PICK w, n : n \in Nat /\ out' = w.out /\ sock' = w.sock /\ Wrote(w, a, Pushed, n)
  BY <1>5
<1>7. w.sock \in Seq(Nat) /\ w.out.b.bytes <= Backlog
  <2>1. w.sock \in Seq(Nat) /\ w.out.b.bytes <= out.b.bytes
    BY <1>6, WroteNumbers DEF SenderAt
  <2>2. w.out.b.bytes \in Int
    BY <1>6, HoldsNumbers DEF Wrote
  <2>. QED  BY <1>1, <2>1, <2>2
<1>8. SenderAt(Onward(a, n, Pushed))'
  <2>1. Peer(w.out) /\ Holds(w.out.b, Onward(a, n, Pushed), Pushed)
    BY <1>6 DEF Wrote
  <2>. QED  BY <1>4, <1>6, <1>7, <2>1 DEF SenderAt, Onward
<1>. QED  BY <1>4, <1>6, <1>8

\* No other step touches the sender's queue.
LEMMA SenderStays ==
    ASSUME NEW a, SenderAt(a), UNCHANGED <<out, ends>>, sock' \in Seq(Nat)
    PROVE  SenderAt(a)'
<1>1. EndsSound' /\ Pushed' = Pushed
  BY EndsStay DEF SenderAt
<1>. QED  BY <1>1 DEF SenderAt

\* A read leaves the rest of what the kernel holds.
LEMMA ReadableSock ==
    ASSUME sock \in Seq(Nat), Readable
    PROVE  sock' \in Seq(Nat)
<1>1. PICK n \in 1 .. Len(sock) : sock' = SubSeq(sock, n + 1, Len(sock))
  BY DEF Readable
<1>. QED  BY <1>1

\* What writes and what does not.
LEMMA Steps ==
    ASSUME [Next]_vars
    PROVE  \/ \E body \in Bodies : Send(body)
           \/ Flush \/ Writable
           \/ Readable
           \/ UNCHANGED <<out, ends>> /\ sock' \in {sock, <<>>}
BY DEF Next, vars, SenderHangsUp, ReaderHangsUp, SenderDisposed, Breaks, ReadableWhenFull,
       EndOfStream

\* A new sender is sound.
LEMMA SenderInit ==
    ASSUME Init
    PROVE  SenderAt(0)
<1>1. ends = <<>> /\ Len(ends) = 0 /\ sock = <<>>
  BY DEF Init
<1>2. Pushed = 0
  BY <1>1 DEF Pushed, Before
<1>3. EndsSound
  <2>1. 0 <= 0 * Backlog /\ 0 <= MaxSends
    BY Numbers
  <2>. QED  BY <1>1, <1>2, <2>1 DEF EndsSound
<1>4. out.b = [q |-> NewQueue(RingCap), bytes |-> 0, offset |-> 0]
  BY DEF Init, NewBufQueue
<1>5. Sound(NewQueue(RingCap)) /\ Contents(NewQueue(RingCap)) = <<>>
  BY Numbers, NewQueueSound
<1>6. Count(NewQueue(RingCap)) = 0
  BY <1>5, ContentsType
<1>7. Holds(out.b, 0, 0)
  BY <1>4, <1>5, <1>6, EmptyHolds
<1>8. Peer(out) /\ out.b.bytes <= Backlog
  BY <1>4, Numbers DEF Init, Peer
<1>. QED  BY <1>1, <1>2, <1>3, <1>7, <1>8 DEF SenderAt

\* What a sound sender says of the bytes.
LEMMA SenderExact ==
    ASSUME NEW a, SenderAt(a)
    PROVE  BytesExact
<1>. DEFINE b == out.b
            n == Count(b.q)
<1>1. PICK g : Marks(b, g) /\ g[0] = a /\ g[n] = Pushed
  BY DEF SenderAt, Holds
<1>2. /\ a \in Nat /\ Pushed \in Nat /\ a <= Pushed /\ b.bytes = Pushed - a
      /\ Sound(b.q) /\ n \in Nat /\ b.offset \in Nat
  BY HoldsNumbers DEF SenderAt
<1>3. b.bytes = Len(Unsent(b))
  <2>1. Unsent(b) = Span(a, Pushed)
    BY UnsentIsSpan DEF SenderAt
  <2>. HIDE DEF b
  <2>. QED  BY <1>2, <2>1, SpanType
<1>4. n # 0 => b.offset < Top(b.q).len
  <2>. SUFFICES ASSUME n # 0
                PROVE  b.offset < Top(b.q).len
    OBVIOUS
  <2>1. 1 \in 1 .. n /\ 0 \in 0 .. n - 1 /\ 1 - 1 = 0 /\ 0 + 1 = 1
    BY <1>2
  <2>2. At(b.q, 0) = Top(b.q)
    <3>. HIDE DEF b
    <3>1. b.q.head \in Nat /\ b.q.cap \in Nat /\ b.q.head < b.q.cap
      BY <1>2, SoundParts
    <3>. QED  BY <3>1 DEF At, Slot, Top
  <2>3. Top(b.q).at + Top(b.q).len = g[1] /\ Top(b.q).at + b.offset = g[0] /\ g[0] < g[1]
    BY <1>1, <2>1, <2>2 DEF Marks
  <2>4. Top(b.q).at \in Nat /\ Top(b.q).len \in Nat
    BY <1>2, <2>1, <2>2, Buffers
  <2>. QED  BY <1>2, <2>3, <2>4
<1>5. n = 0 => b.offset = 0
  BY <1>1 DEF Marks
<1>. QED  BY <1>2, <1>3, <1>4, <1>5 DEF BytesExact

\* Every step leaves a sound sender.
LEMMA SenderStep ==
    ASSUME Backlog <= SendLenPerFrame, \E a : SenderAt(a), [Next]_vars
    PROVE  (\E a : SenderAt(a))'
<1>. PICK a : SenderAt(a)
  OBVIOUS
<1>1. CASE \E body \in Bodies : Send(body)
  BY <1>1, SendWrites
<1>2. CASE Flush \/ Writable
  BY <1>2, FlushWrites
<1>3. CASE Readable
  <2>1. sock' \in Seq(Nat) /\ UNCHANGED <<out, ends>>
    BY <1>3, ReadableSock DEF SenderAt, Readable
  <2>. QED  BY <2>1, SenderStays
<1>4. CASE UNCHANGED <<out, ends>> /\ sock' \in {sock, <<>>}
  <2>1. sock' \in Seq(Nat)
    <3>1. sock \in Seq(Nat) /\ <<>> \in Seq(Nat) /\ (sock' = sock \/ sock' = <<>>)
      BY <1>4 DEF SenderAt
    <3>. QED  BY <3>1
  <2>. QED  BY <1>4, <2>1, SenderStays
<1>. QED  BY <1>1, <1>2, <1>3, <1>4, Steps

\* The counters of the send queue are exact, in every state of every run: after
\* any mixture of sends, flushes and writes that are cut anywhere, "bytes" is
\* what is queued, "offset" lies within the first buffer and the ring holds its
\* elements and nothing else (BufQueue::Push, Fill and both Pops). The
\* hypothesis is that a frame is never shorter than what is queued; without it
\* it fails, as the run tcp_frame shows.
THEOREM SendQueueExact ==
    ASSUME Backlog <= SendLenPerFrame
    PROVE  Spec => []BytesExact
<1>. DEFINE Inv == \E a : SenderAt(a)
<1>1. Init => Inv
  BY SenderInit
<1>2. Inv /\ [Next]_vars => Inv'
  BY SenderStep
<1>3. Inv => BytesExact
  BY SenderExact
<1>. QED  BY <1>1, <1>2, <1>3, PTL DEF Spec

-----------------------------------------------------------------------------
(* What keeps a queue from waiting for ever.                                  *)

\* Bytes that are left queued have EPOLLOUT armed, and so has a peer that does
\* not write before the event (the last lines of TcpPeer::Write): while the
\* connection lasts, none waits for another Send or Flush. A write that takes all
\* that Fill planned arms nothing; what the vector had no entry for is then still
\* waiting for an event that was armed before.
QueuedIsArmed ==
    /\ out.writing => out.armed
    /\ up /\ out.b.bytes > 0 => out.armed

\* The vector for a queue of one buffer has no entry that is not set.
LEMMA OneIsSet ==
    ASSUME NEW b, NEW a, NEW z, Holds(b, a, z), b.bytes # 0, b.bytes <= SendLenPerFrame,
           Count(b.q) <= 1
    PROVE  ~(Fill(b, SendLenPerFrame).set < Fill(b, SendLenPerFrame).vsLen)
<1>. DEFINE n == Count(b.q)
            cap == IF VsCap < n THEN VsCap ELSE n
            upTo == UpTo(b, cap)
            all == IF SendLenPerFrame > b.bytes THEN b.bytes ELSE SendLenPerFrame
            enough == {i \in 1 .. cap : upTo[i] >= all}
            last == CHOOSE i \in enough : \A j \in enough : i <= j
<1>1. /\ a \in Nat /\ z \in Nat /\ a <= z /\ b.bytes = z - a /\ n \in Nat /\ (n = 0 <=> a = z)
      /\ SendLenPerFrame \in Nat /\ VsCap \in Nat /\ VsCap >= 1
  BY HoldsNumbers, Numbers
<1>2. n = 1 /\ cap = 1 /\ all = b.bytes
  BY <1>1
<1>3. upTo[1] = all
  <2>. HIDE DEF cap, all
  <2>1. PICK g : Marks(b, g) /\ g[0] = a /\ g[n] = z
    BY DEF Holds
  <2>2. cap \in Nat /\ cap <= n
    BY <1>2
  <2>3. upTo = [i \in 0 .. cap |-> g[i] - g[0]]
    BY <2>1, <2>2, UpToMarks
  <2>. QED  BY <1>1, <1>2, <2>1, <2>3
<1>4. enough = {1}
  <2>. HIDE DEF cap, all, upTo
  <2>1. all >= all
    BY <1>1, <1>2
  <2>2. 1 .. cap = {1}
    BY <1>2
  <2>. QED  BY <1>3, <2>1, <2>2
<1>5. last = 1
  <2>. HIDE DEF enough
  <2>. QED  BY <1>4
<1>6. Fill(b, SendLenPerFrame) = Plan(1, 1, all, all, 0)
  <2>1. Fill(b, SendLenPerFrame) =
            IF enough = {} THEN Plan(VsCap, cap, upTo[cap], upTo[cap], 0)
            ELSE IF last = 1 /\ upTo[1] > all THEN Plan(1, 1, all, upTo[1], b.offset + all)
            ELSE IF last = 1 THEN Plan(1, 1, all, all, 0)
            ELSE IF upTo[last] > all THEN Plan(last, last, all, all, all - upTo[last - 1])
            ELSE Plan(VsCap, last, all, all, 0)
    BY DEF Fill
  <2>2. enough # {}
    <3>. HIDE DEF enough
    <3>. QED  BY <1>4
  <2>3. ~(upTo[1] > all)
    BY <1>1, <1>2, <1>3
  <2>. HIDE DEF enough, last, upTo, all, cap
  <2>. QED  BY <1>5, <2>1, <2>2, <2>3
<1>7. Plan(1, 1, all, all, 0).set = 1 /\ Plan(1, 1, all, all, 0).vsLen = 1
  BY DEF Plan
<1>. HIDE DEF all
<1>. QED  BY <1>6, <1>7

\* A write arms what it leaves, unless the queue was armed or is one buffer.
LEMMA WriteArms ==
    ASSUME NEW o, Peer(o), NEW a, NEW z, Holds(o.b, a, z), o.b.bytes <= SendLenPerFrame,
           ~o.writing, up /\ ~o.armed => Count(o.b.q) <= 1, NEW w \in Write(o)
    PROVE  /\ w.out.writing => w.out.armed
           /\ up /\ w.out.b.bytes > 0 => w.out.armed
<1>. DEFINE plan == Fill(o.b, SendLenPerFrame)
            unset == plan.set < plan.vsLen
            extra == IF unset THEN Stray ELSE {0}
            most == {plan.ask + x : x \in extra}
            bytes == Unsent(o.b) \o [k \in 1 .. SockCap |-> Junk]
<1>1. CASE o.b.bytes = 0
  <2>1. w.out = [o EXCEPT !.armed = FALSE]
    BY <1>1 DEF Write
  <2>2. w.out = [b |-> o.b, writing |-> o.writing, armed |-> FALSE]
    BY <2>1 DEF Peer
  <2>3. w.out.b = o.b /\ w.out.writing = o.writing
    BY <2>2
  <2>4. ~(w.out.b.bytes > 0)
    BY <1>1, <2>3
  <2>. QED  BY <2>3, <2>4
<1>2. CASE o.b.bytes # 0 /\ ~up
  <2>1. w.out = o
    BY <1>2 DEF Write
  <2>. QED  BY <1>2, <2>1
<1>3. CASE w = [out |-> Full(o), sock |-> sock, ok |-> TRUE]
  <2>1. w.out = Full(o)
    BY <1>3
  <2>2. w.out = [b |-> o.b, writing |-> TRUE, armed |-> TRUE]
    BY <2>1 DEF Peer, Full
  <2>. QED  BY <2>2
<1>5. CASE o.b.bytes # 0 /\ up /\ unset /\ w = [out |-> o, sock |-> sock, ok |-> FALSE]
  <2>1. w.out = o
    BY <1>5
  <2>2. o.armed
    <3>1. ~(Count(o.b.q) <= 1)
      BY <1>5, OneIsSet
    <3>. QED  BY <1>5, <3>1
  <2>. QED  BY <2>1, <2>2
<1>4. CASE /\ o.b.bytes # 0 /\ up
           /\ \E n \in {k \in 1 .. Room : \E x \in most : k <= x} :
                 w = [out |-> Sent(o, plan, n), sock |-> sock \o SubSeq(bytes, 1, n), ok |-> TRUE]
  <2>1. PICK n \in {k \in 1 .. Room : \E x \in most : k <= x} :
            w = [out |-> Sent(o, plan, n), sock |-> sock \o SubSeq(bytes, 1, n), ok |-> TRUE]
    BY <1>4
  <2>2. w.out = Sent(o, plan, n)
    BY <2>1
  <2>3. /\ Holds(PopPlanned(o.b, plan), a + plan.bufLen, z)
        /\ Count(o.b.q) <= VsCap => a + plan.bufLen = z
    <3>1. SendLenPerFrame \in Nat
      BY Numbers
    <3>. QED  BY <1>4, <3>1, PlanHolds
  <2>. HIDE DEF plan, unset, extra, most, bytes
  <2>4. CASE n = plan.bufLen
    <3>1. w.out = [b |-> PopPlanned(o.b, plan), writing |-> o.writing, armed |-> o.armed]
      BY <2>2, <2>4 DEF Sent, Peer
    <3>2. w.out.b = PopPlanned(o.b, plan) /\ w.out.writing = o.writing /\ w.out.armed = o.armed
      BY <3>1
    <3>3. ~o.armed => ~(w.out.b.bytes > 0)
      <4>. SUFFICES ASSUME ~o.armed
                    PROVE  ~(w.out.b.bytes > 0)
        OBVIOUS
      <4>0. Count(o.b.q) <= VsCap
        <5>1. VsCap \in Nat /\ VsCap > 0 /\ Count(o.b.q) \in Nat
          BY Numbers, HoldsNumbers
        <5>. QED  BY <1>4, <5>1
      <4>1. Holds(w.out.b, z, z)
        BY <2>3, <3>2, <4>0
      <4>2. w.out.b.bytes = z - z /\ z \in Nat
        BY <4>1, HoldsNumbers
      <4>. QED  BY <4>2
    <3>. QED  BY <3>2, <3>3
  <2>5. CASE n # plan.bufLen
    <3>1. [o EXCEPT !.b = PopBytes(o.b, n)] =
              [b |-> PopBytes(o.b, n), writing |-> o.writing, armed |-> o.armed]
      BY DEF Peer
    <3>2. w.out = [b |-> PopBytes(o.b, n), writing |-> TRUE, armed |-> TRUE]
      BY <2>2, <2>5, <3>1 DEF Sent, Full
    <3>. QED  BY <3>2
  <2>. QED  BY <2>4, <2>5
<1>. QED
  <2>1. o.b.bytes # 0 /\ up =>
            \/ w = [out |-> Full(o), sock |-> sock, ok |-> TRUE]
            \/ \E n \in {k \in 1 .. Room : \E x \in most : k <= x} :
                  w = [out |-> Sent(o, plan, n), sock |-> sock \o SubSeq(bytes, 1, n), ok |-> TRUE]
            \/ unset /\ w = [out |-> o, sock |-> sock, ok |-> FALSE]
    BY DEF Write
  <2>. QED  BY <1>1, <1>2, <1>3, <1>4, <1>5, <2>1

\* The same of a caller that does not write while EPOLLOUT is awaited.
LEMMA WriteUnlessArms ==
    ASSUME NEW o, Peer(o), NEW a, NEW z, Holds(o.b, a, z), o.b.bytes <= SendLenPerFrame,
           o.writing => o.armed, up /\ ~o.armed => Count(o.b.q) <= 1,
           NEW w \in WriteUnlessWriting(o)
    PROVE  /\ w.out.writing => w.out.armed
           /\ up /\ w.out.b.bytes > 0 => w.out.armed
<1>1. CASE o.writing
  <2>1. w.out = o
    BY <1>1 DEF WriteUnlessWriting
  <2>. QED  BY <1>1, <2>1
<1>2. CASE ~o.writing
  <2>1. w \in Write(o)
    BY <1>2 DEF WriteUnlessWriting
  <2>. QED  BY <1>2, <2>1, WriteArms
<1>. QED  BY <1>1, <1>2

\* A package pushed into an empty queue is its only buffer.
LEMMA PushFirst ==
    ASSUME NEW b, NEW a, NEW z, Holds(b, a, z), b.bytes = 0, NEW e \in Elements
    PROVE  Count(Push(b, e).q) = 1
<1>1. Sound(b.q) /\ Count(b.q) = 0 /\ b = [q |-> b.q, bytes |-> b.bytes, offset |-> b.offset]
  BY HoldsNumbers
<1>2. Push(b, e).q = Emplace(b.q, e)
  <2>1. [b EXCEPT !.q = Emplace(b.q, e)] =
            [q |-> Emplace(b.q, e), bytes |-> b.bytes, offset |-> b.offset]
    BY <1>1
  <2>. QED  BY <2>1 DEF Push
<1>3. Sound(Emplace(b.q, e)) /\ Contents(Emplace(b.q, e)) = Append(Contents(b.q), e)
  BY <1>1, EmplaceAppends
<1>4. Contents(b.q) \in Seq(Elements) /\ Len(Contents(b.q)) = 0
  BY <1>1, ContentsType
<1>5. Len(Contents(Emplace(b.q, e))) = 1
  BY <1>3, <1>4
<1>. QED  BY <1>2, <1>3, <1>5, ContentsType

\* A queue that nobody watches is empty.
LEMMA UnarmedEmpty ==
    ASSUME NEW a, SenderAt(a), QueuedIsArmed, up, ~out.armed
    PROVE  out.b.bytes = 0 /\ Count(out.b.q) = 0
<1>1. /\ a \in Nat /\ Pushed \in Nat /\ a <= Pushed /\ out.b.bytes = Pushed - a
      /\ Count(out.b.q) = 0 <=> a = Pushed
  BY HoldsNumbers DEF SenderAt
<1>2. ~(out.b.bytes > 0)
  BY DEF QueuedIsArmed
<1>. QED  BY <1>1, <1>2

\* Every step leaves what is queued armed.
LEMMA ArmedStep ==
    ASSUME Backlog <= SendLenPerFrame, NEW a, SenderAt(a), QueuedIsArmed, [Next]_vars
    PROVE  QueuedIsArmed'
<1>1. /\ a \in Nat /\ Pushed \in Nat /\ a <= Pushed /\ out.b.bytes = Pushed - a
      /\ Backlog \in Nat /\ SendLenPerFrame \in Nat /\ out.b.bytes <= Backlog
      /\ VsCap \in Nat /\ VsCap > 0 /\ Peer(out) /\ Holds(out.b, a, Pushed)
  BY HoldsNumbers, Numbers DEF SenderAt
<1>2. out.b.bytes <= SendLenPerFrame
  BY <1>1
<1>3. CASE \E body \in Bodies : Send(body)
  <2>1. PICK body \in Bodies : Send(body)
    BY <1>3
  <2>. DEFINE l == Header + body
              e == [at |-> Pushed, len |-> l]
              o == [out EXCEPT !.b = Push(@, e)]
  <2>2. PICK w \in WriteUnlessWriting(o) : out' = w.out
    BY <2>1, Numbers DEF Send
  <2>3. up' = up /\ out.b.bytes + Header + body <= Backlog /\ body \in Nat /\ Header \in Nat /\ Header > 0
    BY <2>1, Numbers DEF Send
  <2>4. l \in Nat /\ l > 0 /\ l <= Backlog
    BY <1>1, <2>3
  <2>5. out.b.bytes + l <= Backlog
    BY <1>1, <2>3
  <2>. HIDE DEF l
  <2>6. e \in Elements /\ e.at = Pushed /\ e.len = l
    <3>1. Pushed \in 0 .. MaxSends * Backlog /\ l \in 0 .. Backlog
      BY <1>1, <2>4, EndsNumbers DEF SenderAt
    <3>. QED  BY <3>1, TcpAssumption DEF TcpAssumption
  <2>7. o = [b |-> Push(out.b, e), writing |-> out.writing, armed |-> out.armed]
    BY <1>1 DEF Peer
  <2>. HIDE DEF e, o
  <2>8. Holds(o.b, a, Pushed + l)
    BY <1>1, <2>4, <2>6, <2>7, PushHolds
  <2>9. o.b.bytes <= SendLenPerFrame
    <3>1. o.b.bytes = (Pushed + l) - a
      BY <2>8, HoldsNumbers
    <3>. QED  BY <1>1, <2>4, <2>5, <3>1
  <2>10. up /\ ~o.armed => Count(o.b.q) <= 1
    <3>. SUFFICES ASSUME up, ~o.armed
                  PROVE  Count(o.b.q) <= 1
      OBVIOUS
    <3>1. out.b.bytes = 0
      BY <2>7, UnarmedEmpty
    <3>2. Count(o.b.q) = 1
      BY <1>1, <2>6, <2>7, <3>1, PushFirst
    <3>. QED  BY <1>1, <3>2
  <2>11. Peer(o) /\ (o.writing => o.armed)
    BY <2>7 DEF Peer, QueuedIsArmed
  <2>. QED  BY <2>2, <2>3, <2>8, <2>9, <2>10, <2>11, WriteUnlessArms DEF QueuedIsArmed
<1>4. CASE Flush
  <2>1. PICK w \in WriteUnlessWriting(out) : out' = w.out
    BY <1>4 DEF Flush
  <2>2. up' = up
    BY <1>4 DEF Flush
  <2>3. up /\ ~out.armed => Count(out.b.q) <= 1
    BY <1>1, UnarmedEmpty
  <2>4. out.writing => out.armed
    BY DEF QueuedIsArmed
  <2>. QED  BY <1>1, <1>2, <2>1, <2>2, <2>3, <2>4, WriteUnlessArms DEF QueuedIsArmed
<1>5. CASE Writable
  <2>. DEFINE o == [out EXCEPT !.writing = FALSE]
  <2>1. PICK w \in Write(o) : out' = w.out
    BY <1>5 DEF Writable
  <2>2. up' = up /\ out.armed
    BY <1>5 DEF Writable
  <2>3. o = [b |-> out.b, writing |-> FALSE, armed |-> out.armed]
    BY <1>1, Unblocked
  <2>. HIDE DEF o
  <2>4. Peer(o) /\ o.b = out.b /\ ~o.writing /\ o.armed
    BY <2>2, <2>3 DEF Peer
  <2>. QED  BY <1>1, <1>2, <2>1, <2>2, <2>4, WriteArms DEF QueuedIsArmed
<1>6. CASE UNCHANGED out /\ (up' => up)
  BY <1>6 DEF QueuedIsArmed
<1>. QED
  <2>1. CASE Readable \/ ReadableWhenFull \/ EndOfStream \/ SenderHangsUp \/ ReaderHangsUp
             \/ SenderDisposed \/ UNCHANGED vars
    <3>1. out' = out /\ up' = up
      BY <2>1, Zenon DEF Readable, ReadableWhenFull, EndOfStream, SenderHangsUp, ReaderHangsUp,
                         SenderDisposed, vars
    <3>. QED  BY <1>6, <3>1
  <2>2. CASE Breaks
    BY <1>6, <2>2 DEF Breaks
  <2>. QED  BY <1>3, <1>4, <1>5, <2>1, <2>2 DEF Next

\* Nothing that is queued waits for another Send or Flush while the connection
\* lasts: the safety half of EverythingArrives, for any sizes of vector, socket
\* and packages (TcpPeer::Write returns 0 without arming EPOLLOUT when writev took
\* all that Fill planned, xx_epoll2.hpp:304). The hypothesis is the one of
\* SendQueueExact: of a buffer longer than the frame a part would be left behind,
\* with nothing armed.
THEOREM NothingWaitsUnseen ==
    ASSUME Backlog <= SendLenPerFrame
    PROVE  Spec => []QueuedIsArmed
<1>. DEFINE Inv == (\E a : SenderAt(a)) /\ QueuedIsArmed
<1>1. Init => Inv
  <2>. SUFFICES ASSUME Init
                PROVE  Inv
    OBVIOUS
  <2>1. ~out.writing /\ out.b.bytes = 0
    BY DEF Init, NewBufQueue
  <2>. QED  BY <2>1, SenderInit DEF QueuedIsArmed
<1>2. Inv /\ [Next]_vars => Inv'
  BY SenderStep, ArmedStep
<1>3. Inv => QueuedIsArmed
  OBVIOUS
<1>. QED  BY <1>1, <1>2, <1>3, PTL DEF Spec

-----------------------------------------------------------------------------
(* The receiver: OnReceive on a buffer that begins where a package does.      *)

\* A stretch with the byte behind it.
LEMMA SpanAppend ==
    ASSUME NEW a \in Nat, NEW z \in Nat, a <= z
    PROVE  Append(Span(a, z), z + 1) = Span(a, z + 1)
<1>. DEFINE s == Span(a, z)
            t == Append(s, z + 1)
<1>1. s \in Seq(Nat) /\ Len(s) = z - a /\ \A k \in 1 .. z - a : s[k] = a + k
  BY SpanType
<1>. HIDE DEF s
<1>2. /\ t \in Seq(Nat) /\ Len(t) = Len(s) + 1 /\ t[Len(s) + 1] = z + 1
      /\ \A k \in 1 .. Len(s) : t[k] = s[k]
  BY <1>1, AppendProperties
<1>. HIDE DEF t
<1>3. ASSUME NEW k \in 1 .. (z + 1) - a
      PROVE  t[k] = a + k
  <2>1. k \in 1 .. z - a \/ k = (z - a) + 1
    OBVIOUS
  <2>2. CASE k \in 1 .. z - a
    BY <1>1, <1>2, <2>2
  <2>3. CASE k = (z - a) + 1
    BY <1>1, <1>2, <2>3
  <2>. QED  BY <2>1, <2>2, <2>3
<1>4. z + 1 \in Nat /\ a <= z + 1 /\ Len(t) = (z + 1) - a
  BY <1>1, <1>2
<1>5. t = Span(a, z + 1)
  BY <1>2, <1>3, <1>4, IsSpan
<1>. QED  BY <1>5 DEF s, t

\* Packages begin one after the other.
LEMMA BeforeGrows ==
    ASSUME EndsSound
    PROVE  \A m, k \in 1 .. Len(ends) + 1 : m < k => Before(m) < Before(k)
<1>. DEFINE n == Len(ends)
            g == [i \in 0 .. n |-> Before(i + 1)]
<1>1. /\ n \in Nat /\ Header \in Nat /\ Header > 0
      /\ \A m \in 1 .. n + 1 : Before(m) \in Nat
      /\ \A m \in 1 .. n : ends[m] \in Nat /\ Before(m + 1) = ends[m] /\ Before(m) + Header <= ends[m]
  BY EndsNumbers, Numbers
<1>. HIDE DEF n
<1>2. g \in [0 .. n -> Int] /\ \A i \in 0 .. n : g[i] = Before(i + 1)
  BY <1>1
<1>. HIDE DEF g
<1>3. ASSUME NEW i \in 0 .. n - 1
      PROVE  g[i] < g[i + 1]
  <2>1. i + 1 \in 1 .. n /\ i \in 0 .. n /\ i + 1 \in 0 .. n /\ i + 1 \in 1 .. n + 1
    BY <1>1
  <2>2. g[i] = Before(i + 1) /\ g[i + 1] = Before((i + 1) + 1)
    BY <1>2, <2>1
  <2>. QED  BY <1>1, <2>1, <2>2
<1>4. \A i, j \in 0 .. n : i < j => g[i] < g[j]
  BY <1>1, <1>2, <1>3, Increasing
<1>. SUFFICES ASSUME NEW m \in 1 .. n + 1, NEW k \in 1 .. n + 1, m < k
              PROVE  Before(m) < Before(k)
  BY DEF n
<1>5. m - 1 \in 0 .. n /\ k - 1 \in 0 .. n /\ m - 1 < k - 1 /\ (m - 1) + 1 = m /\ (k - 1) + 1 = k
  BY <1>1
<1>6. g[m - 1] < g[k - 1] /\ g[m - 1] = Before(m) /\ g[k - 1] = Before(k)
  BY <1>2, <1>4, <1>5
<1>. QED  BY <1>6

\* The stream up to c, of which the first h packages were handed over.
Aligned(h, c) ==
    /\ h \in 0 .. Len(ends) /\ c \in Nat /\ Before(h + 1) <= c /\ c <= Pushed

\* The next package is there, and not too long.
Whole(h, c) == h < Len(ends) /\ Length(h + 1) - Header <= MaxPackage /\ ends[h + 1] <= c

\* The next package is there in part.
Partly(h, c) ==
    \/ c < Before(h + 1) + Header
    \/ h < Len(ends) /\ c < ends[h + 1]

\* A buffer that begins with the next package tells which one that is.
LEMMA FramedAt ==
    ASSUME EndsSound, NEW h, NEW c, Aligned(h, c), NEW r, r = Span(Before(h + 1), c)
    PROVE  /\ Len(r) = c - Before(h + 1) /\ Len(r) \in Nat
           /\ Len(r) >= Header => /\ h + 1 \in 1 .. Len(ends) /\ PackageAt(r) = h + 1
                                  /\ DataLen(r) = Length(h + 1) - Header
<1>. DEFINE m == h + 1
            n == Len(ends)
<1>1. /\ n \in Nat /\ h \in Nat /\ h <= n /\ c \in Nat /\ Before(m) \in Nat /\ Before(m) <= c
      /\ c <= Pushed /\ Header \in Nat /\ Header > 0 /\ m \in 1 .. n + 1
      /\ \A i \in 1 .. n + 1 : Before(i) \in Nat
  <2>1. n \in Nat /\ \A i \in 1 .. n + 1 : Before(i) \in Nat
    BY EndsNumbers
  <2>2. h \in 0 .. n /\ c \in Nat /\ Before(m) <= c /\ c <= Pushed
    BY DEF Aligned
  <2>3. m \in 1 .. n + 1
    BY <2>1, <2>2
  <2>. QED  BY <2>1, <2>2, <2>3, Numbers
<1>2. Len(r) = c - Before(m) /\ Len(r) \in Nat /\ \A k \in 1 .. c - Before(m) : r[k] = Before(m) + k
  <2>1. PICK p \in Nat : p = Before(m)
    BY <1>1
  <2>2. r = Span(p, c) /\ p <= c /\ c - p \in Nat
    BY <1>1, <2>1
  <2>3. Len(r) = c - p /\ \A k \in 1 .. c - p : r[k] = p + k
    <3>1. p \in Nat /\ c \in Nat /\ p <= c
      BY <1>1, <2>2
    <3>2. Len(Span(p, c)) = c - p /\ \A k \in 1 .. c - p : Span(p, c)[k] = p + k
      BY ONLY <3>1, SpanType
    <3>. QED  BY ONLY <2>2, <3>2
  <2>. QED  BY <2>1, <2>2, <2>3
<1>3. ASSUME Len(r) >= Header
      PROVE  m \in 1 .. n /\ PackageAt(r) = m /\ DataLen(r) = Length(m) - Header
  <2>1. m \in 1 .. n
    <3>1. m # n + 1
      BY <1>1, <1>2, <1>3 DEF Pushed
    <3>. QED  BY <1>1, <3>1
  <2>2. \A k \in 1 .. Header : r[k] = Before(m) + k
    <3>1. \A k \in 1 .. Header : k \in 1 .. c - Before(m)
      BY <1>1, <1>2, <1>3
    <3>. QED  BY <1>2, <3>1
  <2>3. ASSUME NEW i \in 1 .. n, \A k \in 1 .. Header : r[k] = Before(i) + k
        PROVE  i = m
    <3>1. 1 \in 1 .. Header
      BY <1>1
    <3>2. r[1] = Before(m) + 1 /\ r[1] = Before(i) + 1
      BY <2>2, <2>3, <3>1
    <3>3. i \in 1 .. n + 1 /\ Before(i) = Before(m)
      BY <1>1, <3>2
    <3>4. ~(i < m) /\ ~(m < i)
      BY <1>1, <3>3, BeforeGrows
    <3>. QED  BY <1>1, <2>1, <3>4
  <2>. HIDE DEF m
  <2>4. Framed(r) = {m}
    BY <2>1, <2>2, <2>3 DEF Framed
  <2>5. PackageAt(r) = m
    BY <2>4 DEF PackageAt
  <2>6. m # Nobody
    BY <1>1, <2>1 DEF Nobody
  <2>. QED  BY <2>1, <2>5, <2>6 DEF DataLen
<1>. QED  BY <1>2, <1>3

\* One turn of the loop hands over the next package if it is there.
LEMMA TurnedAt ==
    ASSUME EndsSound, NEW h, NEW c, Aligned(h, c), NEW r, r = Span(Before(h + 1), c), NEW s
    PROVE  /\ Complete(r) <=> Whole(h, c)
           /\ Whole(h, c) =>
                /\ Turned([recv |-> r, given |-> s]) =
                     [recv |-> Span(Before(h + 1 + 1), c), given |-> Append(s, h + 1)]
                /\ Aligned(h + 1, c)
           /\ ~Whole(h, c) => Turned([recv |-> r, given |-> s]) = [recv |-> r, given |-> s]
           /\ Oversized(r) => \E m \in 1 .. Len(ends) : Length(m) - Header > MaxPackage
           /\ ~Whole(h, c) /\ ~Oversized(r) => Partly(h, c)
<1>. DEFINE m == h + 1
            n == Len(ends)
            x == [recv |-> r, given |-> s]
<1>1. /\ n \in Nat /\ h \in Nat /\ h <= n /\ c \in Nat /\ Before(m) \in Nat /\ Before(m) <= c
      /\ c <= Pushed /\ Header \in Nat /\ Header > 0 /\ MaxPackage \in Nat
  <2>1. n \in Nat /\ \A i \in 1 .. n + 1 : Before(i) \in Nat
    BY EndsNumbers
  <2>2. h \in 0 .. n /\ c \in Nat /\ Before(m) <= c /\ c <= Pushed
    BY DEF Aligned
  <2>3. m \in 1 .. n + 1
    BY <2>1, <2>2
  <2>. QED  BY <2>1, <2>2, <2>3, Numbers
<1>2. /\ Len(r) = c - Before(m) /\ Len(r) \in Nat
      /\ Len(r) >= Header => m \in 1 .. n /\ PackageAt(r) = m /\ DataLen(r) = Length(m) - Header
  BY FramedAt
<1>3. h < n => /\ m \in 1 .. n /\ ends[m] \in Nat /\ Before(m) + Header <= ends[m]
               /\ Before(m + 1) = ends[m] /\ Length(m) = ends[m] - Before(m)
  <2>1. h < n => m \in 1 .. n
    BY <1>1
  <2>. QED  BY <2>1, EndsNumbers DEF Length
<1>4. x.recv = r /\ x.given = s
  OBVIOUS
<1>5. Complete(r) <=> Whole(h, c)
  <2>1. CASE Len(r) >= Header
    <3>1. h < n /\ DataLen(r) = ends[m] - Before(m) - Header
      BY <1>1, <1>2, <1>3, <2>1
    <3>2. Len(r) >= Header + DataLen(r) <=> ends[m] <= c
      BY <1>1, <1>2, <1>3, <3>1
    <3>. QED  BY <1>2, <2>1, <3>1, <3>2 DEF Complete, Whole
  <2>2. CASE ~(Len(r) >= Header)
    <3>1. ~(h < n /\ ends[m] <= c)
      BY <1>1, <1>2, <1>3, <2>2
    <3>. QED  BY <2>2, <3>1 DEF Complete, Whole
  <2>. QED  BY <2>1, <2>2
<1>6. ASSUME Whole(h, c)
      PROVE  /\ Turned(x) = [recv |-> Span(Before(m + 1), c), given |-> Append(s, m)]
             /\ Aligned(m, c)
  <2>1. h < n /\ ends[m] <= c /\ Complete(r) /\ Len(r) >= Header
    BY <1>5, <1>6 DEF Whole, Complete
  <2>2. PackageAt(r) = m /\ Header + DataLen(r) + 1 = (ends[m] - Before(m)) + 1
    BY <1>1, <1>2, <1>3, <2>1
  <2>3. Turned(x) = [recv |-> SubSeq(r, (ends[m] - Before(m)) + 1, Len(r)), given |-> Append(s, m)]
    BY <1>4, <2>1, <2>2 DEF Turned
  <2>4. PICK l \in Nat : l = ends[m] - Before(m) /\ l <= c - Before(m) /\ Before(m) + l = Before(m + 1)
    BY <1>1, <1>3, <2>1
  <2>5. SubSeq(r, l + 1, c - Before(m)) = Span(Before(m) + l, c)
    <3>1. PICK p \in Nat : p = Before(m)
      BY <1>1
    <3>2. r = Span(p, c) /\ p <= c /\ l <= c - p
      BY <1>1, <2>4, <3>1
    <3>3. SubSeq(Span(p, c), l + 1, c - p) = Span(p + l, c)
      BY <1>1, <3>2, SpanCut DEF Cut
    <3>. QED  BY <3>1, <3>2, <3>3
  <2>6. Aligned(m, c)
    BY <1>1, <1>3, <2>1 DEF Aligned
  <2>. QED  BY <1>2, <2>3, <2>4, <2>5, <2>6
<1>7. ~Whole(h, c) => Turned(x) = x
  BY <1>4, <1>5 DEF Turned
<1>8. Oversized(r) => \E i \in 1 .. n : Length(i) - Header > MaxPackage
  BY <1>2 DEF Oversized
<1>9. ~Whole(h, c) /\ ~Oversized(r) => Partly(h, c)
  <2>. SUFFICES ASSUME ~Whole(h, c), ~Oversized(r), Len(r) >= Header
                PROVE  h < n /\ c < ends[m]
    BY <1>1, <1>2 DEF Partly
  <2>1. DataLen(r) = Length(m) - Header /\ ~(DataLen(r) > MaxPackage) /\ h < n
    BY <1>1, <1>2 DEF Oversized
  <2>2. Length(m) \in Int
    BY <1>1, <1>3, <2>1
  <2>3. Length(m) - Header <= MaxPackage
    BY <1>1, <2>1, <2>2
  <2>. QED  BY <1>1, <1>3, <2>1, <2>3 DEF Whole
<1>. QED  BY <1>5, <1>6, <1>7, <1>8, <1>9

\* The loop of OnReceive hands over j packages, in order, and stops.
LEMMA OnReceiveTurns ==
    ASSUME EndsSound, NEW h, NEW c, Aligned(h, c), NEW d \in OnReceive(Span(Before(h + 1), c))
    PROVE  \E j \in Nat :
              /\ h + j \in 0 .. Len(ends) /\ d.given = Span(h, h + j)
              /\ d.end \in {"open", "disposed", "oversized"}
              /\ d.end = "open" => /\ Aligned(h + j, c) /\ Partly(h + j, c)
                                   /\ d.recv = Span(Before(h + j + 1), c)
              /\ d.end = "oversized" => \E m \in 1 .. Len(ends) : Length(m) - Header > MaxPackage
<1>. DEFINE n == Len(ends)
            r == Span(Before(h + 1), c)
            L == Len(r)
<1>1. n \in Nat /\ h \in Nat /\ h <= n /\ c \in Nat /\ L = c - Before(h + 1) /\ L \in Nat
  <2>1. n \in Nat /\ h \in Nat /\ h <= n /\ c \in Nat
    BY EndsNumbers DEF Aligned
  <2>2. L = c - Before(h + 1) /\ L \in Nat
    BY FramedAt
  <2>. QED  BY <2>1, <2>2
\* The turns up to the first that finds no whole package.
<1>2. PICK J \in Nat : ~Whole(h + J, c) /\ \A i \in 0 .. J - 1 : Whole(h + i, c)
  <2>. DEFINE T == {i \in Nat : ~Whole(h + i, c)}
  <2>1. n - h \in T
    BY <1>1 DEF Whole
  <2>2. PICK J \in T : \A i \in T : J <= i
    <3>1. T \subseteq Nat /\ T # {}
      BY <2>1
    <3>. HIDE DEF T
    <3>. QED  BY <3>1, Least
  <2>3. ASSUME NEW i \in 0 .. J - 1
        PROVE  Whole(h + i, c)
    BY <2>2
  <2>. QED  BY <2>2, <2>3
\* What the loop has after turn j.
<1>. DEFINE After(j) == [recv |-> Span(Before(h + j + 1), c), given |-> Span(h, h + j)]
<1>3. \A j \in Nat : j <= J => Aligned(h + j, c) /\ Before(h + 1) + j <= Before(h + j + 1)
  <2>. DEFINE T == {j \in Nat : j <= J => Aligned(h + j, c) /\ Before(h + 1) + j <= Before(h + j + 1)}
  <2>1. 0 \in T
    <3>1. Before(h + 1) \in Nat /\ h + 0 = h
      BY <1>1, EndsNumbers
    <3>. QED  BY <3>1
  <2>2. ASSUME NEW j \in Nat, j \in T
        PROVE  j + 1 \in T
    <3>. SUFFICES ASSUME j + 1 <= J
                  PROVE  Aligned(h + (j + 1), c) /\ Before(h + 1) + (j + 1) <= Before(h + (j + 1) + 1)
      OBVIOUS
    <3>1. Aligned(h + j, c) /\ Before(h + 1) + j <= Before(h + j + 1) /\ Whole(h + j, c)
      BY <1>2, <2>2
    <3>2. Aligned(h + j + 1, c)
      BY <3>1, TurnedAt
    <3>3. /\ h + j + 1 \in 1 .. n /\ h + (j + 1) = h + j + 1
          /\ h + 1 \in 1 .. n + 1 /\ h + j + 1 \in 1 .. n + 1
      BY <1>1, <3>1 DEF Whole
    <3>4. /\ Before(h + 1) \in Nat /\ Before(h + j + 1) \in Nat /\ Before(h + j + 1 + 1) \in Nat
          /\ Before(h + j + 1) + Header <= Before(h + j + 1 + 1)
      BY <3>3, EndsNumbers
    <3>. QED  BY <3>1, <3>2, <3>3, <3>4, Numbers
  <2>. HIDE DEF T
  <2>3. \A j \in Nat : j \in T
    BY <2>1, <2>2, Induct
  <2>. QED  BY <2>3 DEF T
<1>4. J <= L
  <2>1. Aligned(h + J, c) /\ Before(h + 1) + J <= Before(h + J + 1)
    BY <1>3
  <2>2. h + J \in 0 .. n /\ Before(h + J + 1) <= c
    BY <2>1 DEF Aligned
  <2>3. Before(h + 1) \in Nat /\ Before(h + J + 1) \in Nat
    <3>1. h + 1 \in 1 .. n + 1 /\ h + J + 1 \in 1 .. n + 1
      BY <1>1, <2>2
    <3>. QED  BY <3>1, EndsNumbers
  <2>. QED  BY <1>1, <2>1, <2>2, <2>3
<1>5. ASSUME NEW j \in Nat, j <= J
      PROVE  /\ Complete(After(j).recv) <=> j < J
             /\ Turned(After(j)) = After(IF j < J THEN j + 1 ELSE J)
             /\ h + j \in 0 .. n
             /\ Oversized(After(j).recv) => \E m \in 1 .. n : Length(m) - Header > MaxPackage
             /\ j = J /\ ~Oversized(After(j).recv) => Partly(h + j, c)
  <2>1. Aligned(h + j, c)
    BY <1>3, <1>5
  <2>2. Whole(h + j, c) <=> j < J
    <3>1. j = J \/ j \in 0 .. J - 1
      BY <1>5
    <3>2. j \in 0 .. J - 1 => j < J
      OBVIOUS
    <3>. QED  BY <1>2, <3>1, <3>2
  <2>3. After(j).recv = Span(Before(h + j + 1), c) /\ After(j) = [recv |-> After(j).recv, given |-> Span(h, h + j)]
    OBVIOUS
  <2>4. Append(Span(h, h + j), h + j + 1) = Span(h, h + (j + 1)) /\ h + (j + 1) + 1 = h + j + 1 + 1
    <3>1. h + j \in Nat /\ h <= h + j /\ h + (j + 1) = (h + j) + 1
      BY <1>1
    <3>. QED  BY <1>1, <3>1, SpanAppend
  <2>5. h + j \in 0 .. n
    BY <2>1 DEF Aligned
  <2>. DEFINE s == Span(Before(h + j + 1), c)
  <2>. HIDE DEF After
  <2>8. /\ Complete(s) <=> Whole(h + j, c)
        /\ Oversized(s) => \E m \in 1 .. n : Length(m) - Header > MaxPackage
        /\ ~Whole(h + j, c) /\ ~Oversized(s) => Partly(h + j, c)
    BY <2>1, TurnedAt
  <2>. HIDE DEF s
  <2>9. After(j).recv = s
    BY <2>3 DEF s
  <2>10. /\ Complete(After(j).recv) <=> j < J
         /\ h + j \in 0 .. n
         /\ Oversized(After(j).recv) => \E m \in 1 .. n : Length(m) - Header > MaxPackage
         /\ j = J /\ ~Oversized(After(j).recv) => Partly(h + j, c)
    BY <2>2, <2>5, <2>8, <2>9
  <2>6. CASE j < J
    <3>1. Turned([recv |-> Span(Before(h + j + 1), c), given |-> Span(h, h + j)]) =
            [recv |-> Span(Before(h + j + 1 + 1), c), given |-> Append(Span(h, h + j), h + j + 1)]
      BY <2>1, <2>2, <2>6, TurnedAt
    <3>2. Turned(After(j)) = After(j + 1)
      BY <2>4, <3>1 DEF After
    <3>. QED  BY <2>6, <2>10, <3>2
  <2>7. CASE ~(j < J)
    <3>1. j = J
      BY <1>5, <2>7
    <3>2. Turned(After(j)) = After(j)
      <4>1. ~Whole(h + j, c)
        BY <2>2, <2>7
      <4>2. ASSUME NEW given
            PROVE  Turned([recv |-> s, given |-> given]) = [recv |-> s, given |-> given]
        <5>1. s = Span(Before(h + j + 1), c)
          BY DEF s
        <5>. QED  BY <2>1, <4>1, <5>1, TurnedAt
      <4>3. Turned([recv |-> Span(Before(h + j + 1), c), given |-> Span(h, h + j)]) =
              [recv |-> Span(Before(h + j + 1), c), given |-> Span(h, h + j)]
        BY <4>2 DEF s
      <4>. QED  BY <4>3 DEF After
    <3>. QED  BY <2>7, <2>10, <3>1, <3>2
  <2>. QED  BY <2>6, <2>7
<1>. HIDE DEF After
\* So this is the function that OnReceive computes.
<1>. DEFINE Step(f) == [k \in 0 .. L |->
                IF k = 0 THEN [recv |-> r, given |-> <<>>] ELSE Turned(f[k - 1])]
            u == CHOOSE f : f = Step(f)
            w == [k \in 0 .. L |-> After(IF k < J THEN k ELSE J)]
<1>6. w = Step(w)
  <2>1. ASSUME NEW k \in 0 .. L
        PROVE  w[k] = IF k = 0 THEN [recv |-> r, given |-> <<>>] ELSE Turned(w[k - 1])
    <3>1. CASE k = 0
      <4>1. After(0) = [recv |-> r, given |-> <<>>]
        <5>1. h + 0 = h /\ Span(h, h) = <<>>
          BY <1>1, SpanType
        <5>. QED  BY <5>1 DEF After
      <4>2. w[0] = After(0)
        <5>1. 0 \in 0 .. L /\ (0 < J \/ J = 0)
          BY <1>1
        <5>. QED  BY <5>1
      <4>. QED  BY <3>1, <4>1, <4>2
    <3>2. CASE k # 0
      <4>1. k \in Nat /\ k - 1 \in Nat /\ k - 1 \in 0 .. L /\ (k - 1) + 1 = k
        BY <1>1, <3>2
      <4>2. w[k] = After(IF k < J THEN k ELSE J) /\ w[k - 1] = After(IF k - 1 < J THEN k - 1 ELSE J)
        BY <4>1
      <4>3. CASE k - 1 < J
        <5>1. Turned(After(k - 1)) = After(k)
          BY <1>5, <4>1, <4>3
        <5>2. k < J \/ k = J
          BY <4>1, <4>3
        <5>. QED  BY <3>2, <4>2, <4>3, <5>1, <5>2
      <4>4. CASE ~(k - 1 < J)
        <5>1. Turned(After(J)) = After(J) /\ ~(k < J)
          BY <1>5, <4>1, <4>4
        <5>. QED  BY <3>2, <4>2, <4>4, <5>1
      <4>. QED  BY <4>3, <4>4
    <3>. QED  BY <3>1, <3>2
  <2>2. w = [k \in 0 .. L |-> w[k]]
    OBVIOUS
  <2>. HIDE DEF w
  <2>. QED  BY <2>1, <2>2
<1>7. u = Step(u)
  BY <1>6
<1>. HIDE DEF u
<1>8. \A k \in 0 .. L : u[k] = After(IF k < J THEN k ELSE J)
  <2>1. \A k \in 0 .. L : w[k] = After(IF k < J THEN k ELSE J)
    OBVIOUS
  <2>2. \A k \in 0 .. L : /\ u[k] = IF k = 0 THEN [recv |-> r, given |-> <<>>] ELSE Turned(u[k - 1])
                          /\ w[k] = IF k = 0 THEN [recv |-> r, given |-> <<>>] ELSE Turned(w[k - 1])
    <3>. HIDE DEF w
    <3>. QED  BY <1>6, <1>7
  <2>. HIDE DEF w
  <2>. DEFINE T == {k \in Nat : k <= L => u[k] = w[k]}
  <2>3. 0 \in T
    <3>1. 0 \in 0 .. L
      BY <1>1
    <3>. QED  BY <2>2, <3>1
  <2>4. ASSUME NEW k \in Nat, k \in T
        PROVE  k + 1 \in T
    <3>. SUFFICES ASSUME k + 1 <= L
                  PROVE  u[k + 1] = w[k + 1]
      OBVIOUS
    <3>1. k + 1 \in 0 .. L /\ k + 1 # 0 /\ (k + 1) - 1 = k /\ k <= L
      BY <1>1
    <3>2. u[k] = w[k]
      BY <2>4, <3>1
    <3>. QED  BY <2>2, <3>1, <3>2
  <2>. HIDE DEF T
  <2>5. \A k \in Nat : k \in T
    BY <2>3, <2>4, Induct
  <2>. QED  BY <2>1, <2>5 DEF T
<1>9. OnReceive(r) =
        {Done(r, Turned(u[k]).given, "disposed") : k \in {j \in 0 .. L : Complete(u[j].recv)}}
        \cup {IF Oversized(u[L].recv) THEN Done(r, u[L].given, "oversized")
              ELSE Done(u[L].recv, u[L].given, "open")}
  BY DEF OnReceive, u
<1>. HIDE DEF r, L
<1>10. \A j \in Nat : After(j).recv = Span(Before(h + j + 1), c) /\ After(j).given = Span(h, h + j)
  BY DEF After
<1>11. CASE \E k \in 0 .. L : Complete(u[k].recv) /\ d = Done(r, Turned(u[k]).given, "disposed")
  <2>1. PICK k \in 0 .. L : Complete(u[k].recv) /\ d = Done(r, Turned(u[k]).given, "disposed")
    BY <1>11
  <2>2. PICK j \in Nat : j <= J /\ u[k] = After(j)
    <3>1. k \in Nat /\ u[k] = After(IF k < J THEN k ELSE J)
      BY <1>1, <1>8
    <3>2. CASE k < J
      BY <3>1, <3>2
    <3>3. CASE ~(k < J)
      BY <3>1, <3>3
    <3>. QED  BY <3>2, <3>3
  <2>3. j < J /\ Turned(u[k]) = After(j + 1) /\ j + 1 <= J
    BY <1>5, <2>1, <2>2
  <2>4. d.given = Span(h, h + (j + 1)) /\ d.end = "disposed"
    BY <1>10, <2>1, <2>3 DEF Done
  <2>5. h + (j + 1) \in 0 .. n
    BY <1>5, <2>3
  <2>. QED  BY <2>4, <2>5
<1>12. CASE d = IF Oversized(u[L].recv) THEN Done(r, u[L].given, "oversized")
                ELSE Done(u[L].recv, u[L].given, "open")
  <2>1. u[L] = After(J)
    <3>1. L \in 0 .. L /\ (L < J => L = J)
      BY <1>1, <1>4
    <3>2. ~(L < J)
      BY <1>1, <1>4
    <3>. QED  BY <1>8, <3>1, <3>2
  <2>2. h + J \in 0 .. n /\ Aligned(h + J, c)
    BY <1>3, <1>5
  <2>3. CASE Oversized(u[L].recv)
    <3>1. d.given = Span(h, h + J) /\ d.end = "oversized"
      BY <1>10, <1>12, <2>1, <2>3 DEF Done
    <3>2. \E m \in 1 .. n : Length(m) - Header > MaxPackage
      BY <1>5, <2>1, <2>3
    <3>. QED  BY <2>2, <3>1, <3>2
  <2>4. CASE ~Oversized(u[L].recv)
    <3>1. d.given = Span(h, h + J) /\ d.end = "open" /\ d.recv = Span(Before(h + J + 1), c)
      BY <1>10, <1>12, <2>1, <2>4 DEF Done
    <3>2. Partly(h + J, c)
      BY <1>5, <2>1, <2>4
    <3>. QED  BY <2>2, <3>1, <3>2
  <2>. QED  BY <2>3, <2>4
<1>. QED
  <2>1. d \in OnReceive(r)
    BY DEF r
  <2>. QED  BY <1>9, <1>11, <1>12, <2>1

-----------------------------------------------------------------------------
(* The stream, from one end to the other.                                     *)

\* What is written of a stretch is its start, whatever follows it.
LEMMA SpanSent ==
    ASSUME NEW a \in Nat, NEW z \in Nat, a <= z, NEW n \in Nat, a + n <= z, NEW s \in Seq(Nat)
    PROVE  SubSeq(Span(a, z) \o s, 1, n) = Span(a, a + n)
<1>. DEFINE r == Span(a, z)
            t == r \o s
            u == SubSeq(t, 1, n)
<1>1. r \in Seq(Nat) /\ Len(r) = z - a /\ \A k \in 1 .. z - a : r[k] = a + k
  BY SpanType
<1>. HIDE DEF r
<1>2. t \in Seq(Nat) /\ Len(t) = Len(r) + Len(s) /\ \A k \in 1 .. Len(r) : t[k] = r[k]
  <2>1. Len(r) \in Nat /\ Len(s) \in Nat
    BY <1>1
  <2>2. /\ t \in Seq(Nat) /\ Len(t) = Len(r) + Len(s)
        /\ \A k \in 1 .. Len(r) + Len(s) : t[k] = IF k <= Len(r) THEN r[k] ELSE s[k - Len(r)]
    BY <1>1, ConcatProperties
  <2>. QED  BY <2>1, <2>2
<1>. HIDE DEF t
<1>3. u \in Seq(Nat) /\ Len(u) = n /\ \A k \in 1 .. n : u[k] = t[k]
  <2>1. n <= Len(t) /\ \A k \in 1 .. n : t[k] \in Nat
    BY <1>1, <1>2
  <2>. QED  BY <2>1, <1>2
<1>. HIDE DEF u
<1>4. \A k \in 1 .. n : u[k] = a + k
  <2>1. \A k \in 1 .. n : k \in 1 .. z - a
    OBVIOUS
  <2>. QED  BY <1>1, <1>2, <1>3, <2>1
<1>5. a + n \in Nat /\ a <= a + n /\ (a + n) - a = n
  OBVIOUS
<1>6. u = Span(a, a + n)
  BY <1>3, <1>4, <1>5, IsSpan
<1>. QED  BY <1>6 DEF u, t, r

\* What was sent stays, and more may follow.
Kept ==
    /\ Len(ends') \in Nat /\ Len(ends) <= Len(ends')
    /\ Pushed' \in Nat /\ Pushed <= Pushed'
    /\ \A m \in 1 .. Len(ends) + 1 : Before(m)' = Before(m)
    /\ \A m \in 1 .. Len(ends) : ends'[m] = ends[m]

\* No step takes back what was sent.
LEMMA StepKeeps ==
    ASSUME NEW a, SenderAt(a), [Next]_vars
    PROVE  Kept
<1>1. EndsSound /\ Len(ends) \in Nat /\ Pushed \in Nat /\ out.b.bytes \in Nat
  <2>1. a \in Nat /\ Pushed \in Nat /\ a <= Pushed /\ out.b.bytes = Pushed - a
    BY HoldsNumbers DEF SenderAt
  <2>. QED  BY <2>1, EndsNumbers DEF SenderAt
<1>2. ASSUME UNCHANGED ends
      PROVE  Kept
  BY <1>1, <1>2, EndsStay DEF Kept
<1>3. ASSUME NEW body \in Bodies, Send(body)
      PROVE  Kept
  <2>1. PICK l \in Nat : l = Header + body /\ Header <= l
    BY Numbers
  <2>2. Len(ends) < MaxSends /\ ends' = Append(ends, Pushed + l) /\ l <= Backlog
    <3>1. body \in Nat /\ Header \in Nat /\ Backlog \in Nat
      BY Numbers
    <3>2. Pushed + Header + body = Pushed + l
      BY <1>1, <2>1, <3>1
    <3>3. out.b.bytes + Header + body <= Backlog
      BY <1>3 DEF Send
    <3>4. l <= Backlog
      BY <1>1, <2>1, <3>1, <3>3
    <3>. QED  BY <1>3, <3>2, <3>4 DEF Send
  <2>3. /\ Pushed' = Pushed + l /\ Len(ends') = Len(ends) + 1
        /\ \A m \in 1 .. Len(ends) + 1 : Before(m)' = Before(m)
        /\ \A m \in 1 .. Len(ends) : ends'[m] = ends[m]
    BY <1>1, <2>1, <2>2, EndsGrow
  <2>. QED  BY <1>1, <2>3 DEF Kept
<1>. QED
  <2>1. UNCHANGED ends \/ \E body \in Bodies : Send(body)
    BY DEF Next, vars, Flush, Writable, Readable, SenderHangsUp, ReaderHangsUp, SenderDisposed,
           Breaks, ReadableWhenFull, EndOfStream
  <2>. QED  BY <1>2, <1>3, <2>1

\* So a reader stands where it stood.
LEMMA StandsKept ==
    ASSUME EndsSound, Kept
    PROVE  /\ \A h, c : Aligned(h, c) => Aligned(h, c)'
           /\ \A h, c : Aligned(h, c) /\ Partly(h, c) => Partly(h, c)'
           /\ \A m \in 1 .. Len(ends) : m \in 1 .. Len(ends') /\ Length(m)' = Length(m)
<1>1. Len(ends) \in Nat
  BY EndsNumbers
<1>2. ASSUME NEW h, NEW c, Aligned(h, c)
      PROVE  /\ h \in Nat /\ h + 1 \in 1 .. Len(ends) + 1 /\ Before(h + 1)' = Before(h + 1)
             /\ h < Len(ends) => h + 1 \in 1 .. Len(ends) /\ ends'[h + 1] = ends[h + 1]
  <2>1. h \in Nat /\ h + 1 \in 1 .. Len(ends) + 1 /\ (h < Len(ends) => h + 1 \in 1 .. Len(ends))
    BY <1>1, <1>2 DEF Aligned
  <2>. QED  BY <2>1 DEF Kept
<1>3. ASSUME NEW h, NEW c, Aligned(h, c)
      PROVE  Aligned(h, c)'
  <2>1. h \in 0 .. Len(ends) /\ c \in Nat /\ Before(h + 1) <= c /\ c <= Pushed /\ Pushed \in Nat
    <3>1. MaxSends * Backlog \in Nat
      BY Numbers, Times
    <3>. QED  BY <1>3, <3>1, EndsNumbers DEF Aligned
  <2>2. h \in 0 .. Len(ends') /\ c <= Pushed'
    BY <1>1, <2>1 DEF Kept
  <2>. QED  BY <1>2, <1>3, <2>1, <2>2 DEF Aligned
<1>4. ASSUME NEW h, NEW c, Aligned(h, c), Partly(h, c)
      PROVE  Partly(h, c)'
  <2>1. CASE c < Before(h + 1) + Header
    BY <1>2, <1>4, <2>1 DEF Partly
  <2>2. CASE h < Len(ends) /\ c < ends[h + 1]
    <3>1. h < Len(ends')
      BY <1>1, <1>2, <1>4, <2>2 DEF Kept
    <3>. QED  BY <1>2, <1>4, <2>2, <3>1 DEF Partly
  <2>. QED  BY <1>4, <2>1, <2>2 DEF Partly
<1>5. ASSUME NEW m \in 1 .. Len(ends)
      PROVE  m \in 1 .. Len(ends') /\ Length(m)' = Length(m)
  <2>1. m \in 1 .. Len(ends') /\ m \in 1 .. Len(ends) + 1
    BY <1>1 DEF Kept
  <2>2. ends'[m] = ends[m] /\ Before(m)' = Before(m)
    BY <2>1 DEF Kept
  <2>. QED  BY <2>1, <2>2 DEF Length
<1>. QED  BY <1>3, <1>4, <1>5

\* A reader has given up only on a package that is too long.
GivenUpRightly ==
    /\ reader = "full" => \E m \in 1 .. Len(ends) : Length(m) > ReadBufLen
    /\ reader = "oversized" => \E m \in 1 .. Len(ends) : Length(m) - Header > MaxPackage

\* What is handed over, and where the reader and the kernel stand: the queue
\* begins at a, the kernel's bytes at c.
StreamAt(a, c) ==
    LET h == Len(handled) IN
    /\ h \in 0 .. Len(ends) /\ handled = Span(0, h)
    /\ up => /\ c \in Nat /\ c <= a /\ sock = Span(c, a)
             /\ reader = "open" => /\ Aligned(h, c) /\ Partly(h, c)
                                   /\ recv = Span(Before(h + 1), c)
    /\ GivenUpRightly

\* What one end writes behind what the kernel holds keeps the stream, if all of it
\* was queued.
LEMMA WriteKeepsStream ==
    ASSUME NEW a, NEW c, SenderAt(a), StreamAt(a, c), [Next]_vars, Junk \notin ToSet(sock'),
           NEW w, NEW n \in Nat, out' = w.out, sock' = w.sock, Wrote(w, a, Pushed', n),
           UNCHANGED <<up, recv, reader, handled>>
    PROVE  StreamAt(Onward(a, n, Pushed), c)'
<1>1. Kept
  BY StepKeeps
<1>2. /\ a \in Nat /\ Pushed \in Nat /\ a <= Pushed /\ Pushed' \in Nat /\ a <= Pushed'
      /\ Len(ends) \in Nat
  <2>1. a \in Nat /\ Pushed \in Nat /\ a <= Pushed
    BY HoldsNumbers DEF SenderAt
  <2>. QED  BY <1>1, <2>1, EndsNumbers DEF Kept, SenderAt
<1>3. PICK h \in Nat : h = Len(handled) /\ h \in 0 .. Len(ends) /\ handled = Span(0, h)
  <2>1. Len(handled) \in 0 .. Len(ends) /\ handled = Span(0, Len(handled))
    BY DEF StreamAt
  <2>. QED  BY <1>2, <2>1
<1>4. (Len(handled) \in 0 .. Len(ends) /\ handled = Span(0, Len(handled)))'
  <2>1. h \in 0 .. Len(ends')
    BY <1>1, <1>2, <1>3 DEF Kept
  <2>. QED  BY <1>3, <2>1
<1>5. GivenUpRightly'
  <2>1. reader' = "full" => \E m \in 1 .. Len(ends) : Length(m) > ReadBufLen
    BY DEF StreamAt, GivenUpRightly
  <2>2. reader' = "oversized" => \E m \in 1 .. Len(ends) : Length(m) - Header > MaxPackage
    BY DEF StreamAt, GivenUpRightly
  <2>3. \A m \in 1 .. Len(ends) : m \in 1 .. Len(ends') /\ Length(m)' = Length(m)
    BY <1>1, StandsKept DEF SenderAt
  <2>. QED  BY <2>1, <2>2, <2>3 DEF GivenUpRightly
<1>6. ASSUME up, reader = "open"
      PROVE  Aligned(h, c)' /\ Partly(h, c)' /\ recv' = Span(Before(h + 1)', c)
  <2>1. Aligned(h, c) /\ Partly(h, c) /\ recv = Span(Before(h + 1), c)
    BY <1>3, <1>6 DEF StreamAt
  <2>2. h + 1 \in 1 .. Len(ends) + 1
    BY <1>2, <1>3
  <2>3. Before(h + 1)' = Before(h + 1)
    BY <1>1, <2>2 DEF Kept
  <2>. QED  BY <1>1, <2>1, <2>3, StandsKept DEF SenderAt
<1>. PICK b : b = Onward(a, n, Pushed')
  OBVIOUS
<1>7. ASSUME up
      PROVE  c \in Nat /\ c <= b /\ sock' = Span(c, b)
  <2>1. c \in Nat /\ c <= a /\ sock = Span(c, a)
    BY <1>7 DEF StreamAt
  <2>2. CASE n = 0 /\ w.sock = sock
    <3>1. b = a
      BY <1>2, <2>2 DEF Onward
    <3>. QED  BY <2>1, <2>2, <3>1
  <2>3. CASE ~(n = 0 /\ w.sock = sock)
    <3>1. /\ w.sock = sock \o SubSeq(Span(a, Pushed') \o [k \in 1 .. SockCap |-> Junk], 1, n)
          /\ a + n <= Pushed'
      BY <2>3 DEF Wrote
    <3>2. b = a + n
      BY <1>2, <3>1 DEF Onward
    <3>3. [k \in 1 .. SockCap |-> Junk] \in Seq(Nat)
      BY Numbers DEF Junk
    <3>4. PICK z \in Nat : z = Pushed'
      BY <1>2
    <3>5. SubSeq(Span(a, z) \o [k \in 1 .. SockCap |-> Junk], 1, n) = Span(a, a + n)
      <4>. DEFINE s == [k \in 1 .. SockCap |-> Junk]
      <4>1. s \in Seq(Nat) /\ a <= z /\ a + n <= z
        BY <1>2, <3>1, <3>3, <3>4
      <4>. HIDE DEF s
      <4>2. a \in Nat /\ n \in Nat
        BY <1>2
      <4>3. SubSeq(Span(a, z) \o s, 1, n) = Span(a, a + n)
        BY ONLY <4>1, <4>2, z \in Nat, SpanSent
      <4>. QED  BY <4>3 DEF s
    <3>6. Span(c, a) \o Span(a, a + n) = Span(c, a + n)
      <4>1. a <= a + n /\ a + n \in Nat
        BY <1>2
      <4>. QED  BY <1>2, <2>1, <4>1, SpanJoined
    <3>7. sock' = Span(c, a) \o SubSeq(Span(a, z) \o [k \in 1 .. SockCap |-> Junk], 1, n)
      BY <2>1, <3>1, <3>4
    <3>8. sock' = Span(c, b)
      BY <3>2, <3>5, <3>6, <3>7
    <3>. QED  BY <1>2, <2>1, <3>2, <3>8
  <2>. QED  BY <2>2, <2>3
<1>8. StreamAt(b, c)'
  <2>1. up' = up /\ reader' = reader /\ Len(handled)' = h
    BY <1>3
  <2>. QED  BY <1>4, <1>5, <1>6, <1>7, <2>1 DEF StreamAt
<1>. QED  BY <1>8 DEF Onward

\* Stretches from the start.
LEMMA SpanFromStart ==
    ASSUME NEW m \in Nat, NEW z \in Nat, m <= z
    PROVE  Span(0, m) \o Span(m, z) = Span(0, z) /\ Len(Span(0, z)) = z
<1>1. 0 \in Nat /\ 0 <= m /\ 0 <= z /\ z - 0 = z
  OBVIOUS
<1>2. Len(Span(0, z)) = z - 0
  BY <1>1, SpanType
<1>. QED  BY <1>1, <1>2, SpanJoined

\* A read, and what OnReceive makes of it.
LEMMA ReadKeepsStream ==
    ASSUME NEW a \in Nat, NEW c \in Nat, SenderAt(a), StreamAt(a, c), Readable
    PROVE  \E e \in Nat : StreamAt(a, e)'
<1>0. PICK h \in Nat : h = Len(handled) /\ h \in 0 .. Len(ends) /\ handled = Span(0, h)
  <2>1. Len(ends) \in Nat
    BY EndsNumbers DEF SenderAt
  <2>2. Len(handled) \in 0 .. Len(ends) /\ handled = Span(0, Len(handled))
    BY DEF StreamAt
  <2>. QED  BY <2>1, <2>2
<1>1. /\ up /\ reader = "open" /\ UNCHANGED <<out, up, ends>>
      /\ EndsSound /\ a \in Nat /\ Pushed \in Nat /\ a <= Pushed /\ Len(ends) \in Nat
  <2>1. EndsSound /\ a \in Nat /\ Pushed \in Nat /\ a <= Pushed
    BY HoldsNumbers DEF SenderAt
  <2>. QED  BY <2>1, EndsNumbers DEF Readable
<1>2. /\ c \in Nat /\ c <= a /\ sock = Span(c, a) /\ Aligned(h, c)
      /\ recv = Span(Before(h + 1), c)
  BY <1>0, <1>1 DEF StreamAt
<1>3. Len(sock) = a - c
  BY <1>1, <1>2, SpanType
<1>3a. ASSUME NEW l \in Nat, l <= a - c
       PROVE  /\ SubSeq(Span(c, a), 1, l) = Span(c, c + l)
              /\ SubSeq(Span(c, a), l + 1, a - c) = Span(c + l, a)
  <2>1. c <= a /\ l <= a - c
    BY <1>2, <1>3a
  <2>2. Cut(c, a, l)
    BY <2>1, SpanCut
  <2>. QED  BY <2>2 DEF Cut
<1>4. PICK n \in 1 .. Len(sock) :
        /\ sock' = SubSeq(sock, n + 1, Len(sock))
        /\ \E d \in OnReceive(recv \o SubSeq(sock, 1, n)) :
              recv' = d.recv /\ handled' = handled \o d.given /\ reader' = d.end
  BY DEF Readable
<1>5. PICK e \in Nat : e = c + n /\ n \in Nat /\ n <= a - c /\ c <= e /\ e <= a
  <2>1. a - c \in Nat /\ n \in Nat /\ n <= a - c
    BY <1>1, <1>2, <1>3
  <2>. QED  BY <1>1, <1>2, <2>1
<1>6. SubSeq(sock, 1, n) = Span(c, e) /\ sock' = Span(e, a)
  <2>1. /\ SubSeq(Span(c, a), 1, n) = Span(c, c + n)
        /\ SubSeq(Span(c, a), n + 1, a - c) = Span(c + n, a)
    BY <1>3a, <1>5
  <2>. QED  BY <1>2, <1>3, <1>4, <1>5, <2>1
<1>7. PICK p \in Nat : p = Before(h + 1) /\ p <= c
  <2>1. h + 1 \in 1 .. Len(ends) + 1
    BY <1>0, <1>1
  <2>2. Before(h + 1) <= c
    BY <1>2 DEF Aligned
  <2>. QED  BY <1>1, <2>1, <2>2, EndsNumbers
<1>8. recv \o SubSeq(sock, 1, n) = Span(p, e)
  <2>1. Span(p, c) \o Span(c, e) = Span(p, e)
    BY <1>2, <1>5, <1>7, SpanJoined
  <2>. QED  BY <1>2, <1>6, <1>7, <2>1
<1>9. Aligned(h, e)
  BY <1>1, <1>2, <1>5, <1>7 DEF Aligned
<1>10. PICK d \in OnReceive(Span(p, e)) :
          recv' = d.recv /\ handled' = handled \o d.given /\ reader' = d.end
  BY <1>4, <1>8
<1>11. PICK j \in Nat :
          /\ h + j \in 0 .. Len(ends) /\ d.given = Span(h, h + j)
          /\ d.end \in {"open", "disposed", "oversized"}
          /\ d.end = "open" => /\ Aligned(h + j, e) /\ Partly(h + j, e)
                               /\ d.recv = Span(Before(h + j + 1), e)
          /\ d.end = "oversized" => \E m \in 1 .. Len(ends) : Length(m) - Header > MaxPackage
  <2>1. d \in OnReceive(Span(Before(h + 1), e))
    BY <1>7, <1>10
  <2>. QED  BY <1>1, <1>9, <2>1, OnReceiveTurns
<1>0a. PICK k \in Nat : k = h + j /\ h <= k
  OBVIOUS
<1>12. handled' = Span(0, k) /\ Len(handled') = k
  <2>1. Span(0, h) \o Span(h, k) = Span(0, k) /\ Len(Span(0, k)) = k
    BY <1>0a, SpanFromStart
  <2>. QED  BY <1>0, <1>0a, <1>10, <1>11, <2>1
<1>13. GivenUpRightly'
  <2>1. reader' # "full"
    BY <1>10, <1>11
  <2>2. reader' = "oversized" => \E m \in 1 .. Len(ends) : Length(m) - Header > MaxPackage
    BY <1>10, <1>11
  <2>3. Len(ends') = Len(ends) /\ \A m : Length(m)' = Length(m)
    BY <1>1, EndsStay
  <2>. QED  BY <2>1, <2>2, <2>3 DEF GivenUpRightly
<1>14. reader' = "open" => Aligned(k, e)' /\ Partly(k, e)' /\ recv' = Span(Before(k + 1), e)'
  <2>. SUFFICES ASSUME reader' = "open"
                PROVE  Aligned(k, e)' /\ Partly(k, e)' /\ recv' = Span(Before(k + 1), e)'
    OBVIOUS
  <2>1. Aligned(k, e) /\ Partly(k, e) /\ recv' = Span(Before(k + 1), e)
    BY <1>0a, <1>10, <1>11
  <2>2. ends' = ends /\ Pushed' = Pushed /\ \A m : Before(m)' = Before(m)
    BY <1>1, EndsStay
  <2>. QED  BY <2>1, <2>2 DEF Aligned, Partly
<1>15. k \in 0 .. Len(ends')
  BY <1>0a, <1>1, <1>11
<1>16. StreamAt(a, e)'
  <2>1. Len(handled)' = k
    BY <1>12
  <2>. QED  BY <1>5, <1>6, <1>12, <1>13, <1>14, <1>15, <2>1 DEF StreamAt
<1>. QED  BY <1>16

\* A buffer that is full of less than a package is shorter than that package.
LEMMA FullIsTooLong ==
    ASSUME EndsSound, NEW h, NEW c, Aligned(h, c), Partly(h, c),
           recv = Span(Before(h + 1), c), Len(recv) = ReadBufLen
    PROVE  \E m \in 1 .. Len(ends) : Length(m) > ReadBufLen
<1>1. /\ Len(ends) \in Nat /\ h \in Nat /\ h <= Len(ends) /\ c \in Nat /\ c <= Pushed
      /\ Header \in Nat /\ ReadBufLen \in Nat /\ ReadBufLen > 0
  <2>1. Len(ends) \in Nat
    BY EndsNumbers
  <2>. QED  BY <2>1, Numbers DEF Aligned
<1>2. Len(recv) = c - Before(h + 1) /\ Before(h + 1) \in Nat
  <2>1. h + 1 \in 1 .. Len(ends) + 1
    BY <1>1
  <2>. QED  BY <2>1, EndsNumbers, FramedAt
<1>3. h + 1 \in 1 .. Len(ends)
  <2>1. h # Len(ends)
    <3>. SUFFICES ASSUME h = Len(ends)
                  PROVE  FALSE
      OBVIOUS
    <3>1. Before(h + 1) = Pushed
      BY DEF Pushed
    <3>. QED  BY <1>1, <1>2, <3>1
  <2>. QED  BY <1>1, <2>1
<1>4. /\ ends[h + 1] \in Nat /\ Before(h + 1) + Header <= ends[h + 1]
      /\ Length(h + 1) = ends[h + 1] - Before(h + 1)
  BY <1>3, EndsNumbers DEF Length
<1>5. Length(h + 1) > ReadBufLen
  BY <1>1, <1>2, <1>4 DEF Partly
<1>. QED  BY <1>3, <1>5

\* The steps that neither write nor read.
LEMMA QuietKeepsStream ==
    ASSUME NEW a, NEW c, SenderAt(a), StreamAt(a, c),
           \/ SenderHangsUp \/ ReaderHangsUp \/ SenderDisposed \/ Breaks
           \/ ReadableWhenFull \/ EndOfStream \/ UNCHANGED vars
    PROVE  StreamAt(a, c)'
<1>1. UNCHANGED <<out, recv, ends, handled>> /\ up' \in {up, FALSE}
  BY DEF SenderHangsUp, ReaderHangsUp, SenderDisposed, Breaks, ReadableWhenFull, EndOfStream, vars
<1>2. up' => up /\ sock' = sock
  BY DEF SenderHangsUp, ReaderHangsUp, SenderDisposed, Breaks, ReadableWhenFull, EndOfStream, vars
<1>3. \/ reader' = reader \/ reader' \in {"hung up", "ended"}
      \/ reader' = "full" /\ up /\ reader = "open" /\ Len(recv) = ReadBufLen
  BY DEF SenderHangsUp, ReaderHangsUp, SenderDisposed, Breaks, ReadableWhenFull, EndOfStream, vars
<1>4. ends' = ends /\ Pushed' = Pushed /\ \A m : Before(m)' = Before(m) /\ Length(m)' = Length(m)
  BY <1>1, EndsStay
<1>5. GivenUpRightly'
  <2>1. CASE reader' = reader
    <3>1. GivenUpRightly
      BY DEF StreamAt
    <3>. QED  BY <1>4, <2>1, <3>1 DEF GivenUpRightly
  <2>2. CASE reader' \in {"hung up", "ended"}
    BY <2>2 DEF GivenUpRightly
  <2>3. CASE reader' = "full" /\ up /\ reader = "open" /\ Len(recv) = ReadBufLen
    <3>1. \E m \in 1 .. Len(ends) : Length(m) > ReadBufLen
      BY <2>3, FullIsTooLong DEF SenderAt, StreamAt
    <3>. QED  BY <1>4, <2>3, <3>1 DEF GivenUpRightly
  <2>. QED  BY <1>3, <2>1, <2>2, <2>3
<1>6. ASSUME up'
      PROVE  /\ c \in Nat /\ c <= a /\ sock' = Span(c, a)
             /\ reader' = "open" => reader = "open"
  BY <1>2, <1>3, <1>6 DEF StreamAt
<1>7. ASSUME up', reader' = "open"
      PROVE  /\ Aligned(Len(handled), c)' /\ Partly(Len(handled), c)'
             /\ recv' = Span(Before(Len(handled) + 1), c)'
  <2>1. /\ Aligned(Len(handled), c) /\ Partly(Len(handled), c)
        /\ recv = Span(Before(Len(handled) + 1), c)
    BY <1>2, <1>6, <1>7 DEF StreamAt
  <2>. QED  BY <1>1, <1>4, <2>1 DEF Aligned, Partly
<1>8. (Len(handled) \in 0 .. Len(ends) /\ handled = Span(0, Len(handled)))'
  BY <1>1 DEF StreamAt
<1>. QED  BY <1>5, <1>6, <1>7, <1>8 DEF StreamAt

\* At the start nothing is anywhere.
LEMMA StreamInit ==
    ASSUME Init
    PROVE  StreamAt(0, 0)
<1>1. ends = <<>> /\ handled = <<>> /\ sock = <<>> /\ recv = <<>> /\ reader = "open"
  BY DEF Init
<1>2. Len(ends) = 0 /\ Len(handled) = 0 /\ Before(1) = 0 /\ Pushed = 0
  BY <1>1 DEF Before, Pushed
<1>3. Span(0, 0) = <<>>
  BY SpanType
<1>4. Aligned(0, 0) /\ Partly(0, 0)
  BY <1>2, Numbers DEF Aligned, Partly
<1>5. GivenUpRightly
  BY <1>1 DEF GivenUpRightly
<1>. QED  BY <1>1, <1>2, <1>3, <1>4, <1>5 DEF StreamAt

\* Both ends together: a queue that begins at a, and, while only what was queued
\* has been written, a socket that begins at c.
Streaming == \E a, c \in Nat : SenderAt(a) /\ (clean => StreamAt(a, c))

\* Nothing is clean again, and a step that stays clean has written no junk.
LEMMA CleanStep ==
    ASSUME [Next]_vars, clean'
    PROVE  /\ clean
           /\ (\E body \in Bodies : Send(body)) \/ Flush \/ Writable => Junk \notin ToSet(sock')
<1>1. CASE (\E body \in Bodies : Send(body)) \/ Flush \/ Writable
  <2>1. StillClean
    BY <1>1, Zenon DEF Send, Flush, Writable
  <2>. QED  BY <2>1 DEF StillClean
<1>2. CASE ~((\E body \in Bodies : Send(body)) \/ Flush \/ Writable)
  <2>1. clean' = clean
    BY <1>2, Zenon DEF Next, vars, Readable, SenderHangsUp, ReaderHangsUp, SenderDisposed, Breaks,
                       ReadableWhenFull, EndOfStream
  <2>. QED  BY <1>2, <2>1
<1>. QED  BY <1>1, <1>2

\* Every step keeps both ends in step, as long as writes take what was queued.
LEMMA CleanStreamStep ==
    ASSUME Backlog <= SendLenPerFrame, NEW a \in Nat, NEW c \in Nat, SenderAt(a), StreamAt(a, c),
           [Next]_vars, clean'
    PROVE  Streaming'
<1>1. CASE (\E body \in Bodies : Send(body)) \/ Flush \/ Writable
  <2>1. PICK w, n : /\ n \in Nat /\ out' = w.out /\ sock' = w.sock
                    /\ Wrote(w, a, Pushed', n) /\ SenderAt(Onward(a, n, Pushed))'
    BY <1>1, SendWrites, FlushWrites
  <2>2. UNCHANGED <<up, recv, reader, handled>>
    BY <1>1 DEF Send, Flush, Writable
  <2>3. StreamAt(Onward(a, n, Pushed), c)'
    BY <1>1, <2>1, <2>2, CleanStep, WriteKeepsStream
  <2>4. Onward(a, n, Pushed') \in Nat
    <3>1. Holds(w.out.b, Onward(a, n, Pushed'), Pushed')
      BY <2>1 DEF Wrote
    <3>. QED  BY <3>1, HoldsNumbers
  <2>5. Onward(a, n, Pushed)' \in Nat
    BY <2>4 DEF Onward
  <2>. QED  BY <2>1, <2>3, <2>5 DEF Streaming
<1>2. CASE Readable
  <2>1. PICK e \in Nat : StreamAt(a, e)'
    BY <1>2, ReadKeepsStream
  <2>2. SenderAt(a)'
    <3>1. sock' \in Seq(Nat) /\ UNCHANGED <<out, ends>>
      BY <1>2, ReadableSock DEF SenderAt, Readable
    <3>. QED  BY <3>1, SenderStays
  <2>. QED  BY <2>1, <2>2 DEF Streaming
<1>3. CASE \/ SenderHangsUp \/ ReaderHangsUp \/ SenderDisposed \/ Breaks
           \/ ReadableWhenFull \/ EndOfStream \/ UNCHANGED vars
  <2>1. StreamAt(a, c)'
    BY <1>3, QuietKeepsStream
  <2>2. UNCHANGED <<out, ends>> /\ (sock' = sock \/ sock' = <<>>)
    BY <1>3 DEF SenderHangsUp, ReaderHangsUp, SenderDisposed, Breaks, ReadableWhenFull, EndOfStream, vars
  <2>3. sock' \in Seq(Nat)
    <3>1. sock \in Seq(Nat) /\ <<>> \in Seq(Nat)
      BY DEF SenderAt
    <3>. QED  BY <2>2, <3>1
  <2>4. SenderAt(a)'
    BY <2>2, <2>3, SenderStays
  <2>. QED  BY <2>1, <2>4 DEF Streaming
<1>. QED  BY <1>1, <1>2, <1>3 DEF Next

\* Every step keeps the sender sound, and a clean stream whole.
LEMMA StreamingStep ==
    ASSUME Backlog <= SendLenPerFrame, Streaming, [Next]_vars
    PROVE  Streaming'
<1>. PICK a, c \in Nat : SenderAt(a) /\ (clean => StreamAt(a, c))
  BY DEF Streaming
<1>1. CASE clean'
  BY <1>1, CleanStep, CleanStreamStep
<1>2. CASE ~clean'
  <2>1. PICK b : SenderAt(b)'
    BY SenderStep
  <2>2. b \in Nat
    BY <2>1, HoldsNumbers DEF SenderAt
  <2>. QED  BY <1>2, <2>1, <2>2 DEF Streaming
<1>. QED  BY <1>1, <1>2

\* What it says of the bytes: those handed over, in recv, in the kernel and
\* queued are all that were sent, in their order.
LEMMA StreamingExact ==
    ASSUME Streaming
    PROVE  StreamExact /\ CutOffOnlyIfTooLong
<1>. SUFFICES ASSUME clean
              PROVE  StreamExact /\ CutOffOnlyIfTooLong
  BY DEF StreamExact, CutOffOnlyIfTooLong
<1>. PICK a, c \in Nat : SenderAt(a) /\ StreamAt(a, c)
  BY DEF Streaming
<1>. DEFINE h == Len(handled)
<1>1. h \in Nat /\ handled = Span(0, h) /\ GivenUpRightly
  <2>1. Len(ends) \in Nat
    BY EndsNumbers DEF SenderAt
  <2>. QED  BY <2>1 DEF StreamAt
<1>2. \A z \in Nat : Span(0, z) = [k \in 1 .. z |-> k]
  BY DEF Span
<1>3. ASSUME up, sender = "open", reader = "open"
      PROVE  [k \in 1 .. Before(h + 1) |-> k] \o recv \o sock \o Unsent(out.b)
                = [k \in 1 .. Pushed |-> k]
  <2>1. a \in Nat /\ Pushed \in Nat /\ a <= Pushed /\ Unsent(out.b) = Span(a, Pushed)
    BY HoldsNumbers, UnsentIsSpan DEF SenderAt
  <2>2. /\ c \in Nat /\ c <= a /\ sock = Span(c, a) /\ Aligned(h, c)
        /\ recv = Span(Before(h + 1), c)
    BY <1>3 DEF StreamAt
  <2>3. Before(h + 1) \in Nat /\ Before(h + 1) <= c
    <3>1. Len(ends) \in Nat /\ \A m \in 1 .. Len(ends) + 1 : Before(m) \in Nat
      BY EndsNumbers DEF SenderAt
    <3>2. h \in 0 .. Len(ends) /\ Before(h + 1) <= c
      BY <2>2 DEF Aligned
    <3>. QED  BY <1>1, <3>1, <3>2
  <2>. PICK p \in Nat : p = Before(h + 1)
    BY <2>3
  <2>. PICK z \in Nat : z = Pushed
    BY <2>1
  <2>4. Span(0, p) \o Span(p, c) = Span(0, c)
    BY <2>2, <2>3, SpanFromStart
  <2>5. Span(0, c) \o Span(c, a) = Span(0, a)
    BY <2>1, <2>2, SpanFromStart
  <2>6. Span(0, a) \o Span(a, z) = Span(0, z)
    BY <2>1, SpanFromStart
  <2>. QED  BY <1>2, <2>1, <2>2, <2>4, <2>5, <2>6
<1>. QED  BY <1>1, <1>2, <1>3 DEF StreamExact, CutOffOnlyIfTooLong, GivenUpRightly

\* The stream is exact, whatever the sizes of packages, writes and reads, and
\* whichever end goes first: packages reach the callbacks in the order of Send,
\* each once and whole, and until an end is gone every byte is in one place
\* (TcpPeer::Write and OnEpollEvent, Peer::OnReceive), until a write takes bytes of
\* an entry that Fill has not set. Writes with such entries that are refused, end
\* before them or find them empty do no harm. The hypothesis is that of
\* SendQueueExact.
THEOREM StreamStaysExact ==
    ASSUME Backlog <= SendLenPerFrame
    PROVE  Spec => []StreamExact
<1>1. Init => Streaming
  BY SenderInit, StreamInit DEF Streaming
<1>2. Streaming /\ [Next]_vars => Streaming'
  BY StreamingStep
<1>3. Streaming => StreamExact
  BY StreamingExact
<1>. QED  BY <1>1, <1>2, <1>3, PTL DEF Spec

\* Nothing but a package that is too long makes a reader give up a stream: the
\* checks of OnReceive for a bad length and of OnEpollEvent for a full buffer
\* are never met by packages that fit, however they are cut on the way, as long as
\* nothing else is written between them.
THEOREM NothingShortIsCutOff ==
    ASSUME Backlog <= SendLenPerFrame
    PROVE  Spec => []CutOffOnlyIfTooLong
<1>1. Init => Streaming
  BY SenderInit, StreamInit DEF Streaming
<1>2. Streaming /\ [Next]_vars => Streaming'
  BY StreamingStep
<1>3. Streaming => CutOffOnlyIfTooLong
  BY StreamingExact
<1>. QED  BY <1>1, <1>2, <1>3, PTL DEF Spec

=============================================================================
