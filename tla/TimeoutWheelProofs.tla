-------------------------- MODULE TimeoutWheelProofs --------------------------
(***************************************************************************)
(* The lists of the timeout wheel stay sound under careful handlers, for   *)
(* any wheel, any items and any intervals, and the wheel implements the    *)
(* abstract deadlines. What a list is made of is stated locally, by the    *)
(* neighbours of an item, so that a step is compared pointer by pointer;   *)
(* one conjunct, Covered, says that the lists reach every armed item.      *)
(***************************************************************************)
EXTENDS TimeoutWheel, TLAPS

LEMMA NoSuchItem == Nil \notin Items
BY WheelAssumption DEF WheelAssumption

LEMMA NoSuchSlot == Unset \notin SlotSet
BY WheelAssumption DEF WheelAssumption, SlotSet, Unset

USE NoSuchItem, NoSuchSlot

Place == Items \cup {Nil}

Pointers(hp) ==
    hp \in [head : [SlotSet -> Place], index : [Items -> SlotSet \cup {Unset}],
            prev : [Items -> Place], next : [Items -> Place]]

\* The detached list begins with first, whose timeoutPrev still names the item
\* that fired before it.
Links(hp, first) ==
    /\ \A i \in Items : hp.index[i] = Unset => hp.prev[i] = Nil /\ hp.next[i] = Nil
    /\ \A i \in Items : hp.next[i] # Nil =>
          hp.prev[hp.next[i]] = i /\ hp.index[hp.next[i]] = hp.index[i]
    /\ \A i \in Items \ {first} : hp.index[i] # Unset =>
          IF hp.prev[i] = Nil THEN hp.head[hp.index[i]] = i ELSE hp.next[hp.prev[i]] = i
    /\ \A s \in SlotSet : hp.head[s] # Nil =>
          /\ hp.prev[hp.head[s]] = Nil /\ hp.index[hp.head[s]] = s /\ hp.head[s] # first
    /\ first # Nil => hp.index[first] # Unset /\ \A i \in Items : hp.next[i] # first

Covered(hp, first) ==
    \A i \in Items : hp.index[i] # Unset =>
        i \in From(hp, hp.head[hp.index[i]]) \cup From(hp, first)

Wheel(hp, first) == Pointers(hp) /\ Links(hp, first) /\ Covered(hp, first)

\* The pointers are four functions.
LEMMA PointersRecord ==
    ASSUME NEW hp
    PROVE  Pointers(hp) <=>
             /\ hp = [head |-> hp.head, index |-> hp.index, prev |-> hp.prev, next |-> hp.next]
             /\ hp.head \in [SlotSet -> Place] /\ hp.index \in [Items -> SlotSet \cup {Unset}]
             /\ hp.prev \in [Items -> Place] /\ hp.next \in [Items -> Place]
BY DEF Pointers

\* What Reset writes, and that it leaves pointers.
LEMMA ResetPointers ==
    ASSUME NEW hp, Pointers(hp), NEW i \in Items
    PROVE  /\ Pointers(Reset(hp, i))
           /\ Reset(hp, i).head = hp.head
           /\ Reset(hp, i).index = [hp.index EXCEPT ![i] = Unset]
           /\ Reset(hp, i).prev = [hp.prev EXCEPT ![i] = Nil]
           /\ Reset(hp, i).next = [hp.next EXCEPT ![i] = Nil]
<1> DEFINE a == [hp EXCEPT !.index[i] = Unset]
           b == [a EXCEPT !.prev[i] = Nil]
           c == [b EXCEPT !.next[i] = Nil]
           index == [hp.index EXCEPT ![i] = Unset]
           prev == [hp.prev EXCEPT ![i] = Nil]
           next == [hp.next EXCEPT ![i] = Nil]
<1>1. a = [head |-> hp.head, index |-> index, prev |-> hp.prev, next |-> hp.next]
  BY PointersRecord
<1> HIDE DEF a
<1>2. b = [head |-> hp.head, index |-> index, prev |-> prev, next |-> hp.next]
  BY <1>1
<1> HIDE DEF b
<1>3. c = [head |-> hp.head, index |-> index, prev |-> prev, next |-> next]
  BY <1>2
<1>4. Reset(hp, i) = c
  BY DEF Reset, a, b
<1>5. /\ index \in [Items -> SlotSet \cup {Unset}]
      /\ prev \in [Items -> Place] /\ next \in [Items -> Place]
  BY PointersRecord DEF Place
<1> QED BY <1>3, <1>4, <1>5, PointersRecord

-----------------------------------------------------------------------------
(* What From is, without the sets it quantifies over. *)

LEMMA FromFacts ==
    ASSUME NEW hp, Pointers(hp), NEW i \in Place
    PROVE  /\ From(hp, i) \subseteq Items
           /\ i # Nil => i \in From(hp, i)
           /\ i = Nil => From(hp, i) = {}
           /\ Closed(hp, From(hp, i))
<1>1. From(hp, i) \subseteq Items /\ (i # Nil => i \in From(hp, i))
  BY DEF From, Place
<1>2. ASSUME i = Nil PROVE From(hp, i) = {}
  <2>1. {} \in SUBSET Items /\ Closed(hp, {})
    BY DEF Closed
  <2> QED BY <1>2, <2>1 DEF From
<1>3. Closed(hp, From(hp, i))
  <2> SUFFICES ASSUME NEW j \in From(hp, i), hp.next[j] # Nil
               PROVE  hp.next[j] \in From(hp, i)
    BY DEF Closed
  <2>1. j \in Items /\ hp.next[j] \in Items
    BY <1>1 DEF Pointers, Place
  <2>2. ASSUME NEW S \in SUBSET Items, i # Nil => i \in S, Closed(hp, S)
        PROVE  hp.next[j] \in S
    <3>1. j \in S
      BY <2>2 DEF From
    <3> QED BY <2>2, <3>1 DEF Closed
  <2> QED BY <2>1, <2>2 DEF From
<1> QED BY <1>1, <1>2, <1>3

LEMMA FromLeast ==
    ASSUME NEW hp, NEW i, NEW S, S \subseteq Items, i # Nil => i \in S, Closed(hp, S)
    PROVE  From(hp, i) \subseteq S
BY DEF From

\* A list does not change when the pointers of its own items do not.
LEMMA FromSame ==
    ASSUME NEW hp, Pointers(hp), NEW hq, Pointers(hq), NEW i \in Place,
           \A j \in From(hp, i) : hq.next[j] = hp.next[j]
    PROVE  From(hq, i) = From(hp, i)
<1> DEFINE A == From(hp, i)
           B == From(hq, i)
<1>1. /\ A \subseteq Items /\ B \subseteq Items /\ (i # Nil => i \in A /\ i \in B)
      /\ Closed(hp, A) /\ Closed(hq, B)
  BY FromFacts
<1> HIDE DEF A, B
<1>2. \A j \in A : hq.next[j] = hp.next[j]
  BY DEF A
<1>3. Closed(hq, A)
  BY <1>1, <1>2 DEF Closed
<1>4. Closed(hp, A \cap B)
  BY <1>1, <1>2 DEF Closed
<1>5. B \subseteq A
  BY <1>1, <1>3, FromLeast DEF B
<1>6. A \subseteq A \cap B
  BY <1>1, <1>4, FromLeast DEF A
<1> QED BY <1>5, <1>6 DEF A, B

-----------------------------------------------------------------------------
(* The lists of a wheel. *)

\* A slot's list holds items of that slot only, the detached list items of the
\* slot of its first, and no item is on both.
LEMMA Apart ==
    ASSUME NEW hp, NEW first \in Place, Wheel(hp, first)
    PROVE  /\ \A s \in SlotSet : \A i \in From(hp, hp.head[s]) :
                 hp.index[i] = s /\ i \notin From(hp, first)
           /\ \A i \in From(hp, first) : hp.index[i] = hp.index[first]
           /\ \A s \in SlotSet : \A i \in From(hp, hp.head[s]) :
                 hp.prev[i] = Nil <=> i = hp.head[s]
<1> DEFINE D == From(hp, first)
<1>1. D \subseteq Items /\ (first # Nil => first \in D) /\ (first = Nil => D = {}) /\ Closed(hp, D)
  BY FromFacts DEF Wheel
<1>2. \A i \in D : hp.index[i] = hp.index[first]
  <2> DEFINE S == {i \in Items : hp.index[i] = hp.index[first]}
  <2>1. Closed(hp, S) /\ S \subseteq Items /\ (first # Nil => first \in S)
    BY DEF Closed, Wheel, Links, Pointers, Place
  <2> QED BY <2>1, FromLeast
<1>3. ASSUME NEW s \in SlotSet
      PROVE  \A i \in From(hp, hp.head[s]) : hp.index[i] = s /\ i \notin D
  <2> DEFINE S == {i \in Items : hp.index[i] = s /\ i \notin D}
  <2>1. hp.head[s] \in Place
    BY DEF Wheel, Pointers
  <2>2. ASSUME NEW i \in Items, i \notin D, hp.next[i] # Nil PROVE hp.next[i] \notin D
    <3> SUFFICES ASSUME hp.next[i] \in D PROVE FALSE
      OBVIOUS
    <3> DEFINE T == D \ {hp.next[i]}
    <3>1. hp.next[i] # first
      BY <1>1, <2>2 DEF Wheel, Links
    <3>2. Closed(hp, T)
      BY <1>1, <2>2 DEF Closed, Wheel, Links
    <3>3. D \subseteq T
      BY <1>1, <3>1, <3>2, FromLeast
    <3> QED BY <3>3
  <2>3. hp.head[s] \notin D
    <3> SUFFICES ASSUME hp.head[s] \in D PROVE FALSE
      OBVIOUS
    <3> DEFINE T == D \ {hp.head[s]}
    <3>1. hp.head[s] # Nil /\ hp.head[s] # first
      BY <1>1 DEF Wheel, Links
    <3>2. Closed(hp, T)
      BY <1>1, <3>1 DEF Closed, Wheel, Links
    <3>3. D \subseteq T
      BY <1>1, <3>1, <3>2, FromLeast
    <3> QED BY <3>3
  <2>4. Closed(hp, S) /\ S \subseteq Items /\ (hp.head[s] # Nil => hp.head[s] \in S)
    BY <2>1, <2>2, <2>3 DEF Closed, Wheel, Links, Pointers, Place
  <2> HIDE DEF D
  <2> QED BY <2>4, FromLeast
<1>4. ASSUME NEW s \in SlotSet, NEW i \in From(hp, hp.head[s])
      PROVE  hp.prev[i] = Nil <=> i = hp.head[s]
  <2>1. hp.index[i] = s /\ i \notin D
    BY <1>3
  <2>2. hp.head[s] \in Place
    BY DEF Wheel, Pointers
  <2>3. i \in Items /\ hp.head[s] # Nil
    BY <2>2, FromFacts DEF Wheel
  <2>4. i # first
    BY <1>1, <2>1, <2>3
  <2> QED BY <2>1, <2>3, <2>4 DEF Wheel, Links
<1> QED BY <1>2, <1>3, <1>4

\* No item is its own neighbour.
LEMMA NoLoop ==
    ASSUME NEW hp, NEW first \in Place, Wheel(hp, first), NEW i \in Items
    PROVE  hp.next[i] # i /\ (i # first => hp.prev[i] # i)
<1>1. ASSUME hp.next[i] = i PROVE FALSE
  <2>1. i # Nil /\ hp.prev[i] = i /\ hp.index[i] \in SlotSet /\ i # first
    BY <1>1 DEF Wheel, Links, Pointers
  <2>2. ASSUME NEW b \in Place, b # i PROVE i \notin From(hp, b)
    <3>1. From(hp, b) \subseteq Items /\ Closed(hp, From(hp, b)) /\ (b # Nil => b \in From(hp, b))
      BY FromFacts DEF Wheel
    <3>2. Closed(hp, From(hp, b) \ {i})
      BY <2>1, <3>1 DEF Closed, Wheel, Links
    <3> QED BY <2>2, <3>1, <3>2, FromLeast
  <2>3. hp.head[hp.index[i]] \in Place /\ hp.head[hp.index[i]] # i
    BY <2>1 DEF Wheel, Links, Pointers
  <2> QED BY <2>1, <2>2, <2>3 DEF Wheel, Covered
<1>2. ASSUME hp.prev[i] = i, i # first PROVE hp.next[i] = i
  BY <1>2 DEF Wheel, Links
<1> QED BY <1>1, <1>2

-----------------------------------------------------------------------------
(* SetTimeout. *)

Removed(hp, i) == Reset(Unlink(hp, i), i)

\* Unlinking leaves pointers.
LEMMA UnlinkPointers ==
    ASSUME NEW hp, Pointers(hp), NEW i \in Items
    PROVE  Pointers(Unlink(hp, i))
<1> DEFINE n == hp.next[i]
           q == hp.prev[i]
           x == hp.index[i]
           u == Unlink(hp, i)
           hn == IF n = Nil THEN hp ELSE [hp EXCEPT !.prev[n] = q]
<1>1. n \in Place /\ q \in Place /\ x \in SlotSet \cup {Unset}
  BY DEF Pointers
<1>2. Pointers(hn)
  BY <1>1 DEF Pointers, Place
<1>3. u = IF x = Unset THEN hp
          ELSE IF q = Nil THEN [hn EXCEPT !.head[x] = n] ELSE [hn EXCEPT !.next[q] = n]
  BY DEF Unlink
<1> HIDE DEF hn, u
<1>4. CASE x = Unset
  BY <1>3, <1>4 DEF u
<1>5. CASE x # Unset /\ q = Nil
  <2>1. u = [hn EXCEPT !.head[x] = n]
    BY <1>3, <1>5
  <2> QED BY <1>1, <1>2, <1>5, <2>1 DEF Pointers, u
<1>6. CASE x # Unset /\ q # Nil
  <2>1. u = [hn EXCEPT !.next[q] = n]
    BY <1>3, <1>6
  <2> QED BY <1>1, <1>2, <1>6, <2>1 DEF Pointers, Place, u
<1> QED BY <1>4, <1>5, <1>6

\* The pointers after an unlinking, one by one.
LEMMA RemovedPointers ==
    ASSUME NEW hp, NEW first \in Place, Wheel(hp, first), NEW i \in Items, i # first
    PROVE  /\ Pointers(Unlink(hp, i)) /\ Pointers(Removed(hp, i))
           /\ Removed(hp, i).index = [hp.index EXCEPT ![i] = Unset]
           /\ \A s \in SlotSet : Removed(hp, i).head[s] =
                IF hp.head[s] = i THEN hp.next[i] ELSE hp.head[s]
           /\ \A j \in Items : Removed(hp, i).next[j] =
                IF j = i THEN Nil ELSE IF hp.next[j] = i THEN hp.next[i] ELSE hp.next[j]
           /\ \A j \in Items : Removed(hp, i).prev[j] =
                IF j = i THEN Nil ELSE IF hp.next[i] = j THEN hp.prev[i] ELSE hp.prev[j]
<1> DEFINE n == hp.next[i]
           q == hp.prev[i]
           x == hp.index[i]
           u == Unlink(hp, i)
<1>1. /\ n \in Place /\ q \in Place /\ x \in SlotSet \cup {Unset}
      /\ hp.head \in [SlotSet -> Place] /\ hp.index \in [Items -> SlotSet \cup {Unset}]
      /\ hp.prev \in [Items -> Place] /\ hp.next \in [Items -> Place]
  BY DEF Wheel, Pointers
<1>2. /\ Pointers(u) /\ u.index = hp.index
      /\ \A s \in SlotSet : u.head[s] = IF hp.head[s] = i THEN n ELSE hp.head[s]
      /\ \A j \in Items : j # i => u.next[j] = IF hp.next[j] = i THEN n ELSE hp.next[j]
      /\ \A j \in Items : j # i => u.prev[j] = IF n = j THEN q ELSE hp.prev[j]
  <2>1. CASE x = Unset
    <3>1. u = hp /\ n = Nil /\ q = Nil
      BY <2>1 DEF Unlink, Wheel, Links
    <3>2. /\ \A s \in SlotSet : hp.head[s] # i
          /\ \A j \in Items : hp.next[j] # i
      BY <2>1 DEF Wheel, Links
    <3> QED BY <3>1, <3>2 DEF Wheel
  <2>2. CASE x # Unset
    <3> DEFINE hn == IF n = Nil THEN hp ELSE [hp EXCEPT !.prev[n] = q]
    <3>1. /\ hn.head = hp.head /\ hn.index = hp.index /\ hn.next = hp.next /\ Pointers(hn)
          /\ \A j \in Items : hn.prev[j] = IF n = j THEN q ELSE hp.prev[j]
      BY <1>1 DEF Wheel, Pointers
    <3>2. u = IF q = Nil THEN [hn EXCEPT !.head[x] = n] ELSE [hn EXCEPT !.next[q] = n]
      BY <2>2 DEF Unlink
    <3> HIDE DEF hn
    <3>3. CASE q = Nil
      <4>1. \A s \in SlotSet : hp.head[s] = i <=> s = x
        BY <1>1, <2>2, <3>3 DEF Wheel, Links
      <4>2. \A j \in Items : hp.next[j] # i
        BY <3>3 DEF Wheel, Links
      <4>3. u = [hn EXCEPT !.head[x] = n]
        BY <3>2, <3>3
      <4>4. u = [head |-> [hn.head EXCEPT ![x] = n], index |-> hn.index,
                 prev |-> hn.prev, next |-> hn.next]
        BY <3>1, <4>3, PointersRecord
      <4>5. Pointers(u)
        BY <1>1, <3>1, <4>4, PointersRecord
      <4> QED BY <1>1, <2>2, <3>1, <4>1, <4>2, <4>4, <4>5
    <3>4. CASE q # Nil
      <4>1. \A s \in SlotSet : hp.head[s] # i
        BY <3>4 DEF Wheel, Links
      <4>2. \A j \in Items : hp.next[j] = i <=> j = q
        BY <1>1, <2>2, <3>4 DEF Wheel, Links, Place
      <4>3. u = [hn EXCEPT !.next[q] = n] /\ q \in Items
        BY <1>1, <3>2, <3>4 DEF Place
      <4>4. u = [head |-> hn.head, index |-> hn.index,
                 prev |-> hn.prev, next |-> [hn.next EXCEPT ![q] = n]]
        BY <3>1, <4>3, PointersRecord
      <4>5. Pointers(u)
        BY <1>1, <3>1, <4>4, PointersRecord
      <4>6. u.head = hp.head /\ u.index = hp.index /\ u.prev = hn.prev
        BY <3>1, <4>4
      <4>7. \A j \in Items : u.next[j] = IF j = q THEN n ELSE hp.next[j]
        BY <1>1, <3>1, <4>3, <4>4
      <4> HIDE DEF u
      <4>8. \A j \in Items : u.next[j] = IF hp.next[j] = i THEN n ELSE hp.next[j]
        BY <4>2, <4>7
      <4>9. \A s \in SlotSet : u.head[s] = IF hp.head[s] = i THEN n ELSE hp.head[s]
        BY <4>1, <4>6
      <4> QED BY <3>1, <4>5, <4>6, <4>8, <4>9
    <3> QED BY <3>3, <3>4
  <2> QED BY <2>1, <2>2
<1> HIDE DEF u
<1>3. Removed(hp, i) = Reset(u, i)
  BY DEF Removed, u
<1>4. /\ Removed(hp, i).head = u.head
      /\ Removed(hp, i).index = [u.index EXCEPT ![i] = Unset]
      /\ Removed(hp, i).prev = [u.prev EXCEPT ![i] = Nil]
      /\ Removed(hp, i).next = [u.next EXCEPT ![i] = Nil]
      /\ Pointers(Removed(hp, i))
  BY <1>2, <1>3, ResetPointers
<1>5. u.prev \in [Items -> Place] /\ u.next \in [Items -> Place]
  BY <1>2, PointersRecord
<1>6. \A j \in Items : Removed(hp, i).next[j] =
        IF j = i THEN Nil ELSE IF hp.next[j] = i THEN hp.next[i] ELSE hp.next[j]
  BY <1>2, <1>4, <1>5
<1>7. \A j \in Items : Removed(hp, i).prev[j] =
        IF j = i THEN Nil ELSE IF hp.next[i] = j THEN hp.prev[i] ELSE hp.prev[j]
  BY <1>2, <1>4, <1>5
<1> QED BY <1>2, <1>4, <1>6, <1>7 DEF u

\* An item that is not in the detached list leaves the wheel, whose other lists
\* and whose detached list stay.
LEMMA RemovedWheel ==
    ASSUME NEW hp, NEW first \in Place, Wheel(hp, first),
           NEW i \in Items, i \notin From(hp, first)
    PROVE  /\ Wheel(Removed(hp, i), first)
           /\ Removed(hp, i).index = [hp.index EXCEPT ![i] = Unset]
           /\ From(Removed(hp, i), first) = From(hp, first)
<1> DEFINE r == Removed(hp, i)
           D == From(hp, first)
           q == hp.prev[i]
<1>1. D \subseteq Items /\ (first # Nil => first \in D) /\ Closed(hp, D) /\ i # first
  BY FromFacts DEF Wheel
<1>2. /\ hp.head \in [SlotSet -> Place] /\ hp.index \in [Items -> SlotSet \cup {Unset}]
      /\ hp.prev \in [Items -> Place] /\ hp.next \in [Items -> Place]
      /\ Links(hp, first)
  BY PointersRecord DEF Wheel
<1>3. /\ Pointers(r)
      /\ r.index = [hp.index EXCEPT ![i] = Unset]
      /\ \A s \in SlotSet : r.head[s] = IF hp.head[s] = i THEN hp.next[i] ELSE hp.head[s]
      /\ \A j \in Items : r.next[j] =
           IF j = i THEN Nil ELSE IF hp.next[j] = i THEN hp.next[i] ELSE hp.next[j]
      /\ \A j \in Items : r.prev[j] =
           IF j = i THEN Nil ELSE IF hp.next[i] = j THEN hp.prev[i] ELSE hp.prev[j]
  BY <1>1, RemovedPointers
<1> HIDE DEF r
<1>4. \A j \in Items : r.index[j] = IF j = i THEN Unset ELSE hp.index[j]
  BY <1>2, <1>3
<1>5. hp.next[i] # i /\ q # i /\ q \in Place
  BY <1>1, <1>2, NoLoop
<1>6. Links(r, first)
  <2>1. \A j \in Items : r.index[j] = Unset => r.prev[j] = Nil /\ r.next[j] = Nil
    <3> SUFFICES ASSUME NEW j \in Items, r.index[j] = Unset, j # i
                 PROVE  r.prev[j] = Nil /\ r.next[j] = Nil
      BY <1>3
    <3>1. hp.index[j] = Unset /\ hp.prev[j] = Nil /\ hp.next[j] = Nil
      BY <1>2, <1>4 DEF Links
    <3>2. hp.next[i] = j => hp.prev[i] = Nil
      BY <1>2, <3>1 DEF Links
    <3> QED BY <1>3, <3>1, <3>2
  <2>2. ASSUME NEW j \in Items, r.next[j] # Nil
        PROVE  r.prev[r.next[j]] = j /\ r.index[r.next[j]] = r.index[j]
    <3>1. CASE hp.next[j] = i
      <4>1. j # i /\ r.next[j] = hp.next[i] /\ hp.prev[i] = j /\ hp.index[i] = hp.index[j]
        BY <1>2, <1>3, <1>5, <2>2, <3>1 DEF Links
      <4>2. r.next[j] \in Items /\ hp.index[hp.next[i]] = hp.index[i]
        BY <1>2, <2>2, <4>1 DEF Links, Place
      <4> QED BY <1>3, <1>4, <1>5, <4>1, <4>2
    <3>2. CASE hp.next[j] # i
      <4>1. j # i /\ r.next[j] = hp.next[j] /\ r.next[j] # i /\ r.next[j] \in Items
        BY <1>2, <1>3, <2>2, <3>2 DEF Place
      <4>2. hp.prev[r.next[j]] = j /\ hp.index[r.next[j]] = hp.index[j]
        BY <1>2, <2>2, <4>1 DEF Links
      <4>3. hp.next[i] # r.next[j]
        BY <1>2, <4>1, <4>2 DEF Links
      <4> QED BY <1>3, <1>4, <4>1, <4>2, <4>3
    <3> QED BY <3>1, <3>2
  <2>3. ASSUME NEW j \in Items \ {first}, r.index[j] # Unset
        PROVE  IF r.prev[j] = Nil THEN r.head[r.index[j]] = j ELSE r.next[r.prev[j]] = j
    <3>1. j # i /\ r.index[j] = hp.index[j] /\ hp.index[j] \in SlotSet
      BY <1>2, <1>4, <2>3
    <3>2. IF hp.prev[j] = Nil THEN hp.head[hp.index[j]] = j ELSE hp.next[hp.prev[j]] = j
      BY <1>2, <3>1, <2>3 DEF Links
    <3>3. CASE hp.next[i] = j
      <4>1. r.prev[j] = q /\ hp.prev[j] = i /\ hp.index[i] = hp.index[j] /\ hp.index[i] # Unset
        BY <1>2, <1>3, <3>1, <3>3, <2>3 DEF Links
      <4>2. IF q = Nil THEN hp.head[hp.index[i]] = i ELSE hp.next[q] = i
        BY <1>1, <1>2, <4>1 DEF Links
      <4>3. CASE q = Nil
        BY <1>3, <3>1, <3>3, <4>1, <4>2, <4>3
      <4>4. CASE q # Nil
        <5>1. q \in Items /\ r.next[q] = hp.next[i]
          BY <1>3, <1>5, <4>2, <4>4 DEF Place
        <5> QED BY <3>3, <4>1, <4>4, <5>1
      <4> QED BY <4>3, <4>4
    <3>4. CASE hp.next[i] # j
      <4>1. r.prev[j] = hp.prev[j] /\ hp.prev[j] # i
        BY <1>2, <1>3, <3>1, <3>2, <3>4
      <4>2. hp.prev[j] # Nil => hp.prev[j] \in Items
        BY <1>2 DEF Place
      <4> QED BY <1>3, <3>1, <3>2, <4>1, <4>2
    <3> QED BY <3>3, <3>4
  <2>4. ASSUME NEW s \in SlotSet, r.head[s] # Nil
        PROVE  r.prev[r.head[s]] = Nil /\ r.index[r.head[s]] = s /\ r.head[s] # first
    <3>1. CASE hp.head[s] = i
      <4>1. r.head[s] = hp.next[i] /\ hp.prev[i] = Nil /\ hp.index[i] = s
        BY <1>2, <1>3, <3>1 DEF Links
      <4>2. r.head[s] \in Items /\ hp.index[hp.next[i]] = s
        BY <1>2, <2>4, <4>1 DEF Links, Place
      <4>3. hp.next[i] # first
        BY <1>2, <4>1, <4>2 DEF Links
      <4> QED BY <1>3, <1>4, <1>5, <4>1, <4>2, <4>3
    <3>2. CASE hp.head[s] # i
      <4>1. r.head[s] = hp.head[s] /\ r.head[s] \in Items
        BY <1>2, <1>3, <2>4, <3>2 DEF Place
      <4>2. hp.prev[r.head[s]] = Nil /\ hp.index[r.head[s]] = s /\ r.head[s] # first
        BY <1>2, <2>4, <4>1 DEF Links
      <4>3. hp.next[i] # r.head[s]
        BY <1>2, <4>1, <4>2 DEF Links
      <4> QED BY <1>3, <1>4, <3>2, <4>1, <4>2, <4>3
    <3> QED BY <3>1, <3>2
  <2>5. first # Nil => r.index[first] # Unset /\ \A j \in Items : r.next[j] # first
    <3> SUFFICES ASSUME first # Nil
                 PROVE  r.index[first] # Unset /\ \A j \in Items : r.next[j] # first
      OBVIOUS
    <3>1. first \in Items /\ hp.index[first] # Unset /\ \A j \in Items : hp.next[j] # first
      BY <1>2 DEF Links, Place
    <3> QED BY <1>1, <1>3, <1>4, <3>1
  <2> QED BY <2>1, <2>2, <2>3, <2>4, <2>5 DEF Links
<1>7. From(r, first) = D
  <2>1. \A j \in D : j \in Items /\ j # i /\ hp.next[j] # i
    BY <1>1 DEF Closed
  <2>2. \A j \in D : r.next[j] = hp.next[j]
    BY <1>3, <2>1
  <2> QED BY <1>3, <2>2, FromSame DEF Wheel
<1>8. ASSUME NEW s \in SlotSet
      PROVE  From(hp, hp.head[s]) \subseteq From(r, r.head[s]) \cup {i}
  <2> DEFINE R == From(r, r.head[s])
  <2>1. r.head[s] \in Place
    BY <1>3, PointersRecord
  <2>2. R \subseteq Items /\ (r.head[s] # Nil => r.head[s] \in R) /\ Closed(r, R)
    BY <1>3, <2>1, FromFacts
  <2> HIDE DEF R
  <2>3. ASSUME NEW j \in R, j # i, hp.next[j] # Nil, hp.next[j] # i
        PROVE  hp.next[j] \in R
    BY <1>3, <2>2, <2>3 DEF Closed
  <2>4. CASE hp.head[s] = i \/ q \in R
    <3>1. hp.head[s] # Nil => hp.head[s] \in R \cup {i}
      BY <1>3, <2>2
    <3>2. ASSUME hp.next[i] # Nil PROVE hp.next[i] \in R
      <4>1. CASE hp.head[s] = i
        BY <1>3, <2>2, <3>2, <4>1
      <4>2. CASE q \in R
        <5>1. q \in Items /\ hp.next[q] = i
          BY <1>1, <1>2, <2>2, <4>2 DEF Links
        <5>2. r.next[q] = hp.next[i]
          BY <1>3, <1>5, <5>1
        <5> QED BY <2>2, <3>2, <4>2, <5>2 DEF Closed
      <4> QED BY <2>4, <4>1, <4>2
    <3>3. Closed(hp, R \cup {i}) /\ R \cup {i} \subseteq Items
      BY <2>2, <2>3, <3>2 DEF Closed
    <3> QED BY <3>1, <3>3, FromLeast DEF R
  <2>5. CASE hp.head[s] # i /\ q \notin R
    <3>1. hp.head[s] # Nil => hp.head[s] \in R \ {i}
      BY <1>3, <2>2, <2>5
    <3>2. \A j \in R : hp.next[j] # i
      BY <1>2, <2>2, <2>5 DEF Links
    <3>3. Closed(hp, R \ {i}) /\ R \ {i} \subseteq Items
      BY <2>2, <2>3, <3>2 DEF Closed
    <3> QED BY <3>1, <3>3, FromLeast DEF R
  <2> QED BY <2>4, <2>5
<1>9. Covered(r, first)
  <2> SUFFICES ASSUME NEW j \in Items, r.index[j] # Unset
               PROVE  j \in From(r, r.head[r.index[j]]) \cup From(r, first)
    BY DEF Covered
  <2>1. j # i /\ r.index[j] = hp.index[j] /\ hp.index[j] \in SlotSet
    BY <1>2, <1>4
  <2>2. j \in From(hp, hp.head[hp.index[j]]) \cup From(hp, first)
    BY <2>1 DEF Wheel, Covered
  <2> QED BY <1>7, <1>8, <2>1, <2>2
<1> QED BY <1>3, <1>6, <1>7, <1>9 DEF Wheel, r

\* The pointers after a linking, one by one.
LEMMA LinkPointers ==
    ASSUME NEW hp, NEW first \in Place, Wheel(hp, first),
           NEW i \in Items, hp.index[i] = Unset, NEW k, Slot(k) \in SlotSet
    PROVE  LET r == Link(hp, i, k)
               n == hp.head[Slot(k)] IN
           /\ n \in Place /\ n # i
           /\ Pointers(r)
           /\ r.head = [hp.head EXCEPT ![Slot(k)] = i]
           /\ r.index = [hp.index EXCEPT ![i] = Slot(k)]
           /\ r.next = [hp.next EXCEPT ![i] = n]
           /\ \A j \in Items : r.prev[j] =
                IF j = i THEN Nil ELSE IF n = j THEN i ELSE hp.prev[j]
<1> DEFINE s == Slot(k)
           n == hp.head[s]
           head == [hp.head EXCEPT ![s] = i]
           index == [hp.index EXCEPT ![i] = s]
           prev == [hp.prev EXCEPT ![i] = Nil]
           next == [hp.next EXCEPT ![i] = n]
           a == [hp EXCEPT !.index[i] = s]
           b == [a EXCEPT !.prev[i] = Nil]
           c == [b EXCEPT !.next[i] = n]
           d == [c EXCEPT !.head[s] = i]
           r == Link(hp, i, k)
<1> s \in SlotSet
  OBVIOUS
<1>1. n \in Place /\ n # i
  BY PointersRecord DEF Wheel, Links
<1>2. d = [head |-> head, index |-> index, prev |-> prev, next |-> next]
  <2>1. a = [head |-> hp.head, index |-> index, prev |-> hp.prev, next |-> hp.next]
    BY PointersRecord DEF Wheel
  <2> HIDE DEF a
  <2>2. b = [head |-> hp.head, index |-> index, prev |-> prev, next |-> hp.next]
    BY <2>1
  <2> HIDE DEF b
  <2>3. c = [head |-> hp.head, index |-> index, prev |-> prev, next |-> next]
    BY <2>2
  <2> HIDE DEF c
  <2> QED BY <2>3
<1>3. r = IF n = Nil THEN d ELSE [d EXCEPT !.prev[n] = i]
  BY DEF Link
<1> HIDE DEF d, r
<1>4. /\ head \in [SlotSet -> Place] /\ index \in [Items -> SlotSet \cup {Unset}]
      /\ prev \in [Items -> Place] /\ next \in [Items -> Place]
  BY <1>1, PointersRecord DEF Wheel, Place
<1> HIDE DEF s
<1>5. CASE n = Nil
  BY <1>1, <1>2, <1>3, <1>4, <1>5, PointersRecord DEF r, s
<1>6. CASE n # Nil
  <2> DEFINE back == [prev EXCEPT ![n] = i]
  <2>1. r = [head |-> head, index |-> index, prev |-> back, next |-> next]
    BY <1>2, <1>3, <1>6
  <2>2. back \in [Items -> Place] /\ n \in Items
    BY <1>1, <1>4, <1>6 DEF Place
  <2>3. Pointers(r)
    BY <1>4, <2>1, <2>2, PointersRecord
  <2>4. \A j \in Items : back[j] = IF j = i THEN Nil ELSE IF n = j THEN i ELSE hp.prev[j]
    BY <1>1, <2>2, PointersRecord DEF Wheel
  <2> QED BY <1>1, <2>1, <2>3, <2>4 DEF r, s
<1> QED BY <1>5, <1>6

\* An item that was on no list becomes the head of a slot's.
LEMMA LinkWheel ==
    ASSUME NEW hp, NEW first \in Place, Wheel(hp, first),
           NEW i \in Items, hp.index[i] = Unset, NEW k, Slot(k) \in SlotSet
    PROVE  /\ Wheel(Link(hp, i, k), first)
           /\ Link(hp, i, k).index = [hp.index EXCEPT ![i] = Slot(k)]
           /\ From(Link(hp, i, k), first) = From(hp, first)
<1> DEFINE r == Link(hp, i, k)
           s == Slot(k)
           n == hp.head[s]
<1> s \in SlotSet
  OBVIOUS
<1>1. /\ n \in Place /\ n # i
      /\ Pointers(r)
      /\ r.head = [hp.head EXCEPT ![s] = i]
      /\ r.index = [hp.index EXCEPT ![i] = s]
      /\ r.next = [hp.next EXCEPT ![i] = n]
      /\ \A j \in Items : r.prev[j] = IF j = i THEN Nil ELSE IF n = j THEN i ELSE hp.prev[j]
  BY LinkPointers
<1> HIDE DEF r, s
<1>2. /\ hp.head \in [SlotSet -> Place] /\ hp.index \in [Items -> SlotSet \cup {Unset}]
      /\ hp.prev \in [Items -> Place] /\ hp.next \in [Items -> Place]
      /\ Links(hp, first)
  BY PointersRecord DEF Wheel
<1>3. /\ i # first /\ \A j \in Items : hp.next[j] # i
      /\ hp.next[i] = Nil /\ hp.prev[i] = Nil /\ \A x \in SlotSet : hp.head[x] # i
  BY <1>2 DEF Links
<1>4. /\ \A j \in Items : r.index[j] = IF j = i THEN s ELSE hp.index[j]
      /\ \A j \in Items : r.next[j] = IF j = i THEN n ELSE hp.next[j]
      /\ \A x \in SlotSet : r.head[x] = IF x = s THEN i ELSE hp.head[x]
  BY <1>1, <1>2
<1>5. n # Nil => n \in Items /\ hp.index[n] = s /\ hp.prev[n] = Nil /\ n # first
  BY <1>1, <1>2 DEF Links, Place
<1>6. Links(r, first)
  <2>1. \A j \in Items : r.index[j] = Unset => r.prev[j] = Nil /\ r.next[j] = Nil
    BY <1>1, <1>2, <1>4, <1>5 DEF Links
  <2>2. ASSUME NEW j \in Items, r.next[j] # Nil
        PROVE  r.prev[r.next[j]] = j /\ r.index[r.next[j]] = r.index[j]
    <3>1. CASE j = i
      BY <1>1, <1>4, <1>5, <2>2, <3>1
    <3>2. CASE j # i
      <4>1. r.next[j] = hp.next[j] /\ r.next[j] \in Items /\ r.next[j] # i
        BY <1>2, <1>3, <1>4, <2>2, <3>2 DEF Place
      <4>2. hp.prev[r.next[j]] = j /\ hp.index[r.next[j]] = hp.index[j]
        BY <1>2, <2>2, <4>1 DEF Links
      <4>3. n # r.next[j]
        BY <1>5, <4>1, <4>2
      <4> QED BY <1>1, <1>4, <3>2, <4>1, <4>2, <4>3
    <3> QED BY <3>1, <3>2
  <2>3. ASSUME NEW j \in Items \ {first}, r.index[j] # Unset
        PROVE  IF r.prev[j] = Nil THEN r.head[r.index[j]] = j ELSE r.next[r.prev[j]] = j
    <3>1. CASE j = i
      BY <1>1, <1>4, <3>1
    <3>2. CASE n = j
      BY <1>1, <1>4, <1>5, <3>2
    <3>3. CASE j # i /\ n # j
      <4>1. r.prev[j] = hp.prev[j] /\ r.index[j] = hp.index[j] /\ hp.index[j] \in SlotSet
        BY <1>1, <1>2, <1>4, <2>3, <3>3
      <4>2. IF hp.prev[j] = Nil THEN hp.head[hp.index[j]] = j ELSE hp.next[hp.prev[j]] = j
        BY <1>2, <2>3, <4>1 DEF Links
      <4>3. hp.prev[j] # Nil => hp.prev[j] \in Items /\ hp.prev[j] # i
        BY <1>2, <1>3, <4>2 DEF Place
      <4> QED BY <1>4, <3>3, <4>1, <4>2, <4>3
    <3> QED BY <3>1, <3>2, <3>3
  <2>4. ASSUME NEW x \in SlotSet, r.head[x] # Nil
        PROVE  r.prev[r.head[x]] = Nil /\ r.index[r.head[x]] = x /\ r.head[x] # first
    <3>1. CASE x = s
      BY <1>1, <1>3, <1>4, <3>1
    <3>2. CASE x # s
      <4>1. r.head[x] = hp.head[x] /\ r.head[x] \in Items /\ r.head[x] # i
        BY <1>2, <1>3, <1>4, <2>4, <3>2 DEF Place
      <4>2. hp.prev[r.head[x]] = Nil /\ hp.index[r.head[x]] = x /\ r.head[x] # first
        BY <1>2, <2>4, <4>1 DEF Links
      <4> QED BY <1>1, <1>4, <1>5, <3>2, <4>1, <4>2
    <3> QED BY <3>1, <3>2
  <2>5. first # Nil => r.index[first] # Unset /\ \A j \in Items : r.next[j] # first
    <3> SUFFICES ASSUME first # Nil
                 PROVE  r.index[first] # Unset /\ \A j \in Items : r.next[j] # first
      OBVIOUS
    <3>1. first \in Items /\ hp.index[first] # Unset /\ \A j \in Items : hp.next[j] # first
      BY <1>2 DEF Links, Place
    <3> QED BY <1>3, <1>4, <1>5, <3>1
  <2> QED BY <2>1, <2>2, <2>3, <2>4, <2>5 DEF Links
<1>7. ASSUME NEW b \in Place, i \notin From(hp, b) PROVE From(r, b) = From(hp, b)
  <2>1. From(hp, b) \subseteq Items
    BY FromFacts DEF Wheel
  <2>2. \A j \in From(hp, b) : r.next[j] = hp.next[j]
    BY <1>4, <1>7, <2>1
  <2>3. Pointers(r) /\ Pointers(hp)
    BY <1>1 DEF Wheel
  <2> QED BY <2>2, <2>3, FromSame
<1>8. From(r, first) = From(hp, first)
  <2>1. i \notin From(hp, first)
    <3>1. CASE first = Nil
      BY <3>1, FromFacts DEF Wheel
    <3>2. CASE first # Nil
      BY <1>2, <3>2, Apart DEF Links
    <3> QED BY <3>1, <3>2
  <2> QED BY <1>7, <2>1
<1>9. ASSUME NEW x \in SlotSet PROVE From(hp, hp.head[x]) \subseteq From(r, r.head[x])
  <2>1. hp.head[x] \in Place
    BY <1>2
  <2>2. i \notin From(hp, hp.head[x])
    BY Apart
  <2>3. From(r, hp.head[x]) = From(hp, hp.head[x])
    BY <1>7, <2>1, <2>2
  <2>4. CASE x # s
    BY <1>4, <2>3, <2>4
  <2>5. CASE x = s
    <3>1. r.head[x] = i /\ r.next[i] = hp.head[x]
      BY <1>4, <2>5
    <3>2. /\ From(r, i) \subseteq Items /\ i \in From(r, i) /\ Closed(r, From(r, i))
      BY <1>1, FromFacts DEF Place
    <3>3. hp.head[x] # Nil => hp.head[x] \in From(r, i)
      BY <3>1, <3>2 DEF Closed
    <3>4. From(r, hp.head[x]) \subseteq From(r, i)
      BY <3>2, <3>3, FromLeast
    <3> QED BY <2>3, <3>1, <3>4
  <2> QED BY <2>4, <2>5
<1>10. Covered(r, first)
  <2> SUFFICES ASSUME NEW j \in Items, r.index[j] # Unset
               PROVE  j \in From(r, r.head[r.index[j]]) \cup From(r, first)
    BY DEF Covered
  <2>1. CASE j = i
    <3>1. r.head[r.index[i]] = i
      BY <1>4
    <3> QED BY <1>1, <2>1, <3>1, FromFacts DEF Place
  <2>2. CASE j # i
    <3>1. r.index[j] = hp.index[j] /\ hp.index[j] \in SlotSet
      BY <1>2, <1>4, <2>2
    <3>2. j \in From(hp, hp.head[hp.index[j]]) \cup From(hp, first)
      BY <3>1 DEF Wheel, Covered
    <3> QED BY <1>8, <1>9, <3>1, <3>2
  <2> QED BY <2>1, <2>2
<1> QED BY <1>1, <1>6, <1>8, <1>10 DEF Wheel, r, s

\* Linking writes over what unlinking left in the item.
LEMMA LinkRemoved ==
    ASSUME NEW hp, NEW first \in Place, Wheel(hp, first), NEW i \in Items, i # first, NEW k
    PROVE  Link(Unlink(hp, i), i, k) = Link(Removed(hp, i), i, k)
<1> DEFINE u == Unlink(hp, i)
           r == Removed(hp, i)
           s == Slot(k)
           On(f, n) == [head |-> [f.head EXCEPT ![s] = i],
                        index |-> [f.index EXCEPT ![i] = s],
                        prev |-> [f.prev EXCEPT ![i] = Nil],
                        next |-> [f.next EXCEPT ![i] = n]]
<1>1. /\ Pointers(u) /\ Pointers(r) /\ r.head = u.head
      /\ r.index = [u.index EXCEPT ![i] = Unset]
      /\ r.prev = [u.prev EXCEPT ![i] = Nil]
      /\ r.next = [u.next EXCEPT ![i] = Nil]
  <2>1. Pointers(u)
    BY UnlinkPointers DEF Wheel
  <2>2. r = Reset(u, i)
    BY DEF Removed
  <2> HIDE DEF u, r
  <2> QED BY <2>1, <2>2, ResetPointers
<1> HIDE DEF u, r, s
<1>2. ASSUME NEW f, Pointers(f)
      PROVE  Link(f, i, k) = LET n == f.head[s]
                                 d == On(f, n)
                             IN IF n = Nil THEN d ELSE [d EXCEPT !.prev[n] = i]
  <2> DEFINE n == f.head[s]
             a == [f EXCEPT !.index[i] = s]
             b == [a EXCEPT !.prev[i] = Nil]
             c == [b EXCEPT !.next[i] = n]
             d == [c EXCEPT !.head[s] = i]
  <2>1. a = [head |-> f.head, index |-> [f.index EXCEPT ![i] = s],
             prev |-> f.prev, next |-> f.next]
    BY <1>2, PointersRecord
  <2>2. Link(f, i, k) = IF n = Nil THEN d ELSE [d EXCEPT !.prev[n] = i]
    BY DEF Link, s
  <2> HIDE DEF a
  <2>3. b = [head |-> f.head, index |-> [f.index EXCEPT ![i] = s],
             prev |-> [f.prev EXCEPT ![i] = Nil], next |-> f.next]
    BY <2>1
  <2> HIDE DEF b
  <2>4. c = [head |-> f.head, index |-> [f.index EXCEPT ![i] = s],
             prev |-> [f.prev EXCEPT ![i] = Nil], next |-> [f.next EXCEPT ![i] = n]]
    BY <2>3
  <2> HIDE DEF c
  <2>5. d = On(f, n)
    BY <2>4
  <2> HIDE DEF d
  <2> QED BY <2>2, <2>5
<1>3. \A n : On(u, n) = On(r, n)
  <2>1. u.index \in [Items -> SlotSet \cup {Unset}] /\ u.prev \in [Items -> Place]
        /\ u.next \in [Items -> Place]
    BY <1>1, PointersRecord
  <2>2. /\ [r.index EXCEPT ![i] = s] = [u.index EXCEPT ![i] = s]
        /\ [r.prev EXCEPT ![i] = Nil] = [u.prev EXCEPT ![i] = Nil]
        /\ \A n : [r.next EXCEPT ![i] = n] = [u.next EXCEPT ![i] = n]
    BY <1>1, <2>1
  <2> QED BY <1>1, <2>2
<1> HIDE DEF On
<1> QED BY <1>1, <1>2, <1>3 DEF u, r

\* SetTimeout(0)
LEMMA CancelRemoves ==
    ASSUME NEW hp, NEW i \in Items
    PROVE  AfterSetTimeout(hp, i, 0) = Removed(hp, i)
<1>1. W \in Nat
  BY WheelAssumption DEF WheelAssumption
<1>2. ~(0 < 0 \/ 0 > W) /\ 0 = 0
  BY <1>1
<1> QED BY <1>2, Zenon DEF AfterSetTimeout, Removed

\* A slot within a turn of the wheel.
LEMMA SlotInWheel ==
    ASSUME cursor \in SlotSet, NEW k \in 0 .. W
    PROVE  Slot(k) \in SlotSet
BY WheelAssumption DEF WheelAssumption, SlotSet, Slot

\* SetTimeout on an item that the walk will not come to.
LEMMA AfterSetTimeoutWheel ==
    ASSUME cursor \in SlotSet, NEW hp, NEW first \in Place, Wheel(hp, first),
           NEW i \in Items, i \notin From(hp, first),
           NEW k \in Int, k \in 0 .. W \/ hp.index[i] = Unset
    PROVE  /\ Wheel(AfterSetTimeout(hp, i, k), first)
           /\ AfterSetTimeout(hp, i, k).index =
                [hp.index EXCEPT ![i] = IF k \in 1 .. W THEN Slot(k) ELSE Unset]
           /\ From(AfterSetTimeout(hp, i, k), first) = From(hp, first)
<1> DEFINE r == Removed(hp, i)
<1>1. W \in Nat
  BY WheelAssumption DEF WheelAssumption
<1>2. i # first
  BY FromFacts DEF Wheel
<1>3. /\ Wheel(r, first) /\ r.index = [hp.index EXCEPT ![i] = Unset]
      /\ From(r, first) = From(hp, first)
  BY RemovedWheel
<1>4. CASE k = 0
  <2>1. AfterSetTimeout(hp, i, k) = r /\ k \notin 1 .. W
    BY <1>1, <1>4, CancelRemoves
  <2> QED BY <1>3, <2>1
<1>5. CASE k \in 1 .. W
  <2>1. AfterSetTimeout(hp, i, k) = Link(r, i, k)
    BY <1>1, <1>2, <1>5, LinkRemoved DEF AfterSetTimeout
  <2>2. Slot(k) \in SlotSet
    BY <1>1, <1>5, SlotInWheel
  <2>3. r.index[i] = Unset
    BY <1>3, PointersRecord DEF Wheel
  <2>5. [r.index EXCEPT ![i] = Slot(k)] = [hp.index EXCEPT ![i] = Slot(k)]
    BY <1>3, PointersRecord DEF Wheel
  <2>6. Wheel(r, first)
    BY <1>3
  <2> HIDE DEF r
  <2>4. /\ Wheel(Link(r, i, k), first)
        /\ Link(r, i, k).index = [r.index EXCEPT ![i] = Slot(k)]
        /\ From(Link(r, i, k), first) = From(r, first)
    BY <2>2, <2>3, <2>6, LinkWheel
  <2> QED BY <1>3, <1>5, <2>1, <2>4, <2>5
<1>6. CASE k \notin 0 .. W
  <2>1. hp.index[i] = Unset /\ k # 0 /\ (k < 0 \/ k > W)
    BY <1>1, <1>6
  <2>2. Unlink(hp, i) = hp
    BY <2>1 DEF Unlink
  <2>3. AfterSetTimeout(hp, i, k) = hp
    BY <2>1, <2>2 DEF AfterSetTimeout
  <2>4. [hp.index EXCEPT ![i] = Unset] = hp.index /\ k \notin 1 .. W
    BY <1>1, <2>1, PointersRecord DEF Wheel
  <2> QED BY <2>3, <2>4
<1>7. k = 0 \/ k \in 1 .. W \/ k \notin 0 .. W
  BY <1>1
<1> QED BY <1>4, <1>5, <1>6, <1>7

\* ~ItemTimeout
LEMMA DestructorWheel ==
    ASSUME cursor \in SlotSet, NEW hp, NEW first \in Place, Wheel(hp, first),
           NEW i \in Items, i \notin From(hp, first)
    PROVE  /\ Wheel(Destructor(hp, i), first)
           /\ Destructor(hp, i).index = [hp.index EXCEPT ![i] = Unset]
           /\ From(Destructor(hp, i), first) = From(hp, first)
<1>1. CASE hp.index[i] = Unset
  <2>1. [hp.index EXCEPT ![i] = Unset] = hp.index
    BY <1>1, PointersRecord DEF Wheel
  <2> QED BY <1>1, <2>1 DEF Destructor
<1>2. CASE hp.index[i] # Unset
  <2>1. Destructor(hp, i) = Removed(hp, i)
    BY <1>2, CancelRemoves DEF Destructor
  <2> QED BY <2>1, RemovedWheel
<1> QED BY <1>1, <1>2

-----------------------------------------------------------------------------
(* The walk. *)

\* The walk takes the first item of the detached list.
LEMMA TakeWheel ==
    ASSUME NEW hp, NEW first \in Items, Wheel(hp, first)
    PROVE  LET r == Reset(hp, first)
               n == hp.next[first] IN
           /\ n \in Place /\ Wheel(r, n)
           /\ r.index = [hp.index EXCEPT ![first] = Unset]
           /\ From(r, n) = From(hp, first) \ {first}
<1> DEFINE r == Reset(hp, first)
           n == hp.next[first]
           A == From(hp, first)
           B == From(r, n)
<1>1. /\ Pointers(r) /\ r.head = hp.head
      /\ r.index = [hp.index EXCEPT ![first] = Unset]
      /\ r.prev = [hp.prev EXCEPT ![first] = Nil]
      /\ r.next = [hp.next EXCEPT ![first] = Nil]
  BY ResetPointers DEF Wheel
<1> HIDE DEF r
<1>2. /\ hp.head \in [SlotSet -> Place] /\ hp.index \in [Items -> SlotSet \cup {Unset}]
      /\ hp.prev \in [Items -> Place] /\ hp.next \in [Items -> Place]
      /\ Links(hp, first) /\ Pointers(hp)
  BY PointersRecord DEF Wheel
<1>3. /\ \A j \in Items : r.index[j] = IF j = first THEN Unset ELSE hp.index[j]
      /\ \A j \in Items : r.prev[j] = IF j = first THEN Nil ELSE hp.prev[j]
      /\ \A j \in Items : r.next[j] = IF j = first THEN Nil ELSE hp.next[j]
  BY <1>1, <1>2
<1>4. n \in Place /\ (\A j \in Items : hp.next[j] # first) /\ hp.index[first] # Unset
  BY <1>2 DEF Links
<1>5. n # Nil => n \in Items /\ n # first /\ hp.prev[n] = first /\ hp.index[n] = hp.index[first]
  BY <1>2, <1>4 DEF Links, Place
<1>6. Links(r, n)
  <2>1. \A j \in Items : r.index[j] = Unset => r.prev[j] = Nil /\ r.next[j] = Nil
    BY <1>2, <1>3 DEF Links
  <2>2. \A j \in Items : r.next[j] # Nil =>
           r.prev[r.next[j]] = j /\ r.index[r.next[j]] = r.index[j]
    BY <1>2, <1>3, <1>4 DEF Links, Place
  <2>3. ASSUME NEW j \in Items \ {n}, r.index[j] # Unset
        PROVE  IF r.prev[j] = Nil THEN r.head[r.index[j]] = j ELSE r.next[r.prev[j]] = j
    <3>1. j # first /\ r.index[j] = hp.index[j] /\ r.prev[j] = hp.prev[j]
      BY <1>3, <2>3
    <3>2. IF hp.prev[j] = Nil THEN hp.head[hp.index[j]] = j ELSE hp.next[hp.prev[j]] = j
      BY <1>2, <2>3, <3>1 DEF Links
    <3>3. hp.prev[j] # Nil => hp.prev[j] \in Items /\ hp.prev[j] # first
      BY <1>2, <2>3, <3>2 DEF Place
    <3> QED BY <1>1, <1>3, <3>1, <3>2, <3>3
  <2>4. ASSUME NEW x \in SlotSet, r.head[x] # Nil
        PROVE  r.prev[r.head[x]] = Nil /\ r.index[r.head[x]] = x /\ r.head[x] # n
    <3>1. r.head[x] = hp.head[x] /\ r.head[x] \in Items
      BY <1>1, <1>2, <2>4 DEF Place
    <3>2. hp.prev[r.head[x]] = Nil /\ hp.index[r.head[x]] = x /\ r.head[x] # first
      BY <1>2, <2>4, <3>1 DEF Links
    <3> QED BY <1>3, <1>5, <3>1, <3>2
  <2>5. ASSUME n # Nil PROVE r.index[n] # Unset /\ \A j \in Items : r.next[j] # n
    <3>1. \A j \in Items : hp.next[j] = n => j = first
      BY <1>2, <1>5, <2>5 DEF Links
    <3> QED BY <1>3, <1>4, <1>5, <2>5, <3>1
  <2> QED BY <2>1, <2>2, <2>3, <2>4, <2>5 DEF Links
<1>7. A \subseteq Items /\ first \in A /\ Closed(hp, A)
  BY <1>2, FromFacts DEF Place
<1>8. B \subseteq Items /\ (n # Nil => n \in B) /\ Closed(r, B)
  BY <1>1, <1>4, FromFacts
<1>9. B = A \ {first}
  <2>1. B \subseteq A \ {first}
    <3>1. n # Nil => n \in A \ {first}
      BY <1>4, <1>5, <1>7 DEF Closed
    <3>2. Closed(r, A \ {first})
      BY <1>3, <1>4, <1>7 DEF Closed
    <3> QED BY <1>7, <3>1, <3>2, FromLeast
  <2>2. A \subseteq B \cup {first}
    <3>1. Closed(hp, B \cup {first})
      BY <1>3, <1>4, <1>8 DEF Closed
    <3> HIDE DEF B
    <3> QED BY <1>8, <3>1, FromLeast
  <2> QED BY <2>1, <2>2
<1>10. Covered(r, n)
  <2> SUFFICES ASSUME NEW j \in Items, r.index[j] # Unset
               PROVE  j \in From(r, r.head[r.index[j]]) \cup B
    BY DEF Covered
  <2> DEFINE s == hp.index[j]
  <2>1. j # first /\ r.index[j] = s /\ s \in SlotSet /\ r.head[s] = hp.head[s]
    BY <1>1, <1>2, <1>3
  <2>2. j \in From(hp, hp.head[s]) \cup A
    BY <2>1 DEF Wheel, Covered
  <2>3. From(r, hp.head[s]) = From(hp, hp.head[s])
    <3>1. hp.head[s] \in Place /\ first \notin From(hp, hp.head[s])
      BY <1>2, <1>7, <2>1, Apart DEF Place
    <3>2. From(hp, hp.head[s]) \subseteq Items
      BY <1>2, <3>1, FromFacts
    <3>3. \A x \in From(hp, hp.head[s]) : r.next[x] = hp.next[x]
      BY <1>3, <3>1, <3>2
    <3>4. Pointers(r) /\ Pointers(hp)
      BY <1>1, <1>2
    <3> HIDE DEF s
    <3> QED BY <3>1, <3>3, <3>4, FromSame
  <2> QED BY <1>9, <2>1, <2>2, <2>3
<1> QED BY <1>1, <1>4, <1>6, <1>9, <1>10 DEF Wheel, r

\* A frame detaches the list of a slot.
LEMMA DetachWheel ==
    ASSUME Wheel(h, Nil), NEW s \in SlotSet
    PROVE  /\ Wheel(Detach(s), h.head[s])
           /\ Detach(s).index = h.index /\ Detach(s).next = h.next
           /\ From(Detach(s), h.head[s]) = From(h, h.head[s])
<1> DEFINE r == Detach(s)
           first == h.head[s]
<1>1. /\ h.head \in [SlotSet -> Place] /\ h.index \in [Items -> SlotSet \cup {Unset}]
      /\ h.prev \in [Items -> Place] /\ h.next \in [Items -> Place]
      /\ Links(h, Nil) /\ Pointers(h)
  BY PointersRecord DEF Wheel
<1>2. r = [head |-> [h.head EXCEPT ![s] = Nil], index |-> h.index,
           prev |-> h.prev, next |-> h.next]
  BY <1>1, PointersRecord DEF Detach
<1>3. [h.head EXCEPT ![s] = Nil] \in [SlotSet -> Place]
  BY <1>1 DEF Place
<1> HIDE DEF r
<1>4. Pointers(r)
  BY <1>1, <1>2, <1>3, PointersRecord
<1>5. /\ \A x \in SlotSet : r.head[x] = IF x = s THEN Nil ELSE h.head[x]
      /\ r.index = h.index /\ r.prev = h.prev /\ r.next = h.next
  BY <1>1, <1>2
<1>6. first \in Place /\ (first # Nil => first \in Items /\ h.index[first] = s /\ h.prev[first] = Nil)
  BY <1>1 DEF Links, Place
<1>7. Links(r, first)
  <2>1. ASSUME NEW j \in Items \ {first}, r.index[j] # Unset
        PROVE  IF r.prev[j] = Nil THEN r.head[r.index[j]] = j ELSE r.next[r.prev[j]] = j
    <3>1. h.index[j] \in SlotSet
      BY <1>1, <1>5, <2>1
    <3>2. IF h.prev[j] = Nil THEN h.head[h.index[j]] = j ELSE h.next[h.prev[j]] = j
      BY <1>1, <1>5, <2>1 DEF Links
    <3> QED BY <1>5, <2>1, <3>1, <3>2
  <2>2. \A x \in SlotSet : r.head[x] # Nil =>
           r.prev[r.head[x]] = Nil /\ r.index[r.head[x]] = x /\ r.head[x] # first
    BY <1>1, <1>5, <1>6 DEF Links
  <2>3. first # Nil => r.index[first] # Unset /\ \A j \in Items : r.next[j] # first
    BY <1>1, <1>5, <1>6 DEF Links
  <2>4. /\ \A i \in Items : r.index[i] = Unset => r.prev[i] = Nil /\ r.next[i] = Nil
        /\ \A i \in Items : r.next[i] # Nil =>
              r.prev[r.next[i]] = i /\ r.index[r.next[i]] = r.index[i]
    BY <1>1, <1>5 DEF Links
  <2> QED BY <2>1, <2>2, <2>3, <2>4 DEF Links
<1>8. ASSUME NEW b \in Place PROVE From(r, b) = From(h, b)
  BY <1>1, <1>4, <1>5, FromSame
<1>9. Covered(r, first)
  <2> SUFFICES ASSUME NEW j \in Items, r.index[j] # Unset
               PROVE  j \in From(r, r.head[r.index[j]]) \cup From(r, first)
    BY DEF Covered
  <2> DEFINE x == h.index[j]
  <2>1. r.index[j] = x /\ x \in SlotSet /\ h.head[x] \in Place
    BY <1>1, <1>5
  <2>2. j \in From(h, h.head[x])
    <3>1. From(h, Nil) = {}
      BY <1>1, FromFacts DEF Place
    <3> QED BY <1>5, <2>1, <3>1 DEF Wheel, Covered
  <2> QED BY <1>5, <1>8, <2>1, <2>2
<1> QED BY <1>4, <1>5, <1>6, <1>7, <1>8, <1>9 DEF Wheel, r

-----------------------------------------------------------------------------
(* The inductive invariant. *)

TypeOK ==
    /\ cursor \in SlotSet /\ alive \subseteq Items /\ p \in Place /\ np \in Place
    /\ left \in [Items -> 0 .. W]

Walk ==
    /\ p = Nil => np = Nil
    /\ np # Nil => h.index[np] = cursor
    /\ p \notin Pending

\* An item is armed for the frames that are left, or waits to be called, or is
\* not armed.
Due ==
    \A i \in Items :
        IF h.index[i] = Unset THEN left[i] = 0
        ELSE /\ i \in alive
             /\ IF i \in Pending THEN left[i] = 0
                ELSE left[i] \in 1 .. W /\ h.index[i] = Slot(left[i])

WheelInv == TypeOK /\ Wheel(h, np) /\ Walk /\ Due

\* Lists are what their properties say.
LEMMA WheelInvListsSound == WheelInv => ListsSound
<1> SUFFICES ASSUME WheelInv PROVE ListsSound
  OBVIOUS
<1>1. /\ Wheel(h, np) /\ np \in Place /\ Pending = From(h, np) /\ Links(h, np)
      /\ h.index \in [Items -> SlotSet \cup {Unset}] /\ h.head \in [SlotSet -> Place]
      /\ Pending \subseteq Items /\ (np = Nil => Pending = {})
  BY FromFacts, PointersRecord DEF WheelInv, TypeOK, Pending, Wheel
<1>2. \A s \in SlotSet : \A i \in OnSlot(s) :
          /\ i \in Items /\ h.index[i] = s /\ i \notin Pending
          /\ h.prev[i] = Nil <=> i = h.head[s]
  <2>1. \A s \in SlotSet : OnSlot(s) \subseteq Items
    BY <1>1, FromFacts DEF OnSlot, Wheel
  <2> QED BY <1>1, <2>1, Apart DEF OnSlot
<1>3. \A i \in Pending : h.index[i] = cursor /\ h.index[np] # Unset
  BY <1>1, Apart DEF WheelInv, Walk, Links
<1>4. \A i \in Items : h.index[i] # Unset => i \in alive
  BY DEF WheelInv, Due
<1>5. \A i \in Items : h.next[i] # Nil => h.prev[h.next[i]] = i
  BY <1>1 DEF Links
<1>6. \A i \in Items : h.index[i] # Unset => i \in OnSlot(h.index[i]) \cup Pending
  BY <1>1 DEF Wheel, Covered, OnSlot
<1>7. alive \subseteq Items /\ p \notin Pending /\ cursor # Unset
  BY DEF WheelInv, TypeOK, Walk
<1> QED BY <1>1, <1>2, <1>3, <1>4, <1>5, <1>6, <1>7 DEF ListsSound

\* The slot of a frame: the items that fire in it are those with one left, and
\* the others keep their slot with one frame less.
LEMMA NextSlot ==
    ASSUME cursor \in SlotSet
    PROVE  LET c == (cursor + 1) % W IN
           /\ c \in SlotSet /\ c = Slot(1)
           /\ \A k \in 1 .. W : Slot(k) = c => k = 1
           /\ \A k \in 1 .. W : k # 1 => k - 1 \in 1 .. W /\ Slot(k) = (k - 1 + c) % W
<1> DEFINE c == (cursor + 1) % W
<1>1. W \in Nat \ {0} /\ cursor \in 0 .. W - 1
  BY WheelAssumption DEF WheelAssumption, SlotSet
<1>2. c = IF cursor + 1 = W THEN 0 ELSE cursor + 1
  BY <1>1
<1> HIDE DEF c
<1>3. c \in SlotSet /\ c = Slot(1)
  BY <1>1, <1>2 DEF SlotSet, Slot, c
<1>4. \A k \in 1 .. W : Slot(k) = IF k + cursor < W THEN k + cursor ELSE k + cursor - W
  BY <1>1 DEF Slot
<1>5. \A k \in 1 .. W : (k - 1 + c) % W = IF k - 1 + c < W THEN k - 1 + c ELSE k - 1 + c - W
  BY <1>1, <1>2
<1>6. \A k \in 1 .. W : Slot(k) = c => k = 1
  BY <1>1, <1>2, <1>4
<1>7. \A k \in 1 .. W : k # 1 => k - 1 \in 1 .. W /\ Slot(k) = (k - 1 + c) % W
  BY <1>1, <1>2, <1>4, <1>5
<1> QED BY <1>3, <1>6, <1>7 DEF c

LEMMA WheelInvInit == Init => WheelInv
<1> SUFFICES ASSUME Init PROVE WheelInv
  OBVIOUS
<1>1. W \in Nat \ {0}
  BY WheelAssumption DEF WheelAssumption
<1>2. TypeOK
  BY <1>1 DEF Init, TypeOK, Place, SlotSet
<1>3. /\ h.head = [s \in SlotSet |-> Nil] /\ h.index = [i \in Items |-> Unset]
      /\ h.prev = [i \in Items |-> Nil] /\ h.next = [i \in Items |-> Nil]
      /\ h = [head |-> h.head, index |-> h.index, prev |-> h.prev, next |-> h.next]
      /\ np = Nil /\ p = Nil
  BY DEF Init
<1>4. Pointers(h)
  BY <1>3, PointersRecord DEF Place
<1>5. Wheel(h, np)
  BY <1>3, <1>4 DEF Wheel, Links, Covered
<1>6. Pending = {}
  BY <1>3, <1>4, FromFacts DEF Pending, Place
<1> QED BY <1>2, <1>3, <1>5, <1>6 DEF WheelInv, Walk, Due, Init

-----------------------------------------------------------------------------
(* The steps: each keeps the invariant, and does to the detached list what *)
(* the abstract deadlines do to the items that are due.                    *)

\* What every step starts from.
LEMMA WheelInvParts ==
    ASSUME WheelInv
    PROVE  /\ W \in Nat /\ cursor \in SlotSet /\ alive \subseteq Items
           /\ p \in Place /\ np \in Place /\ left \in [Items -> 0 .. W]
           /\ Wheel(h, np) /\ Links(h, np) /\ Pending = From(h, np) /\ Pending \subseteq Items
           /\ np # Nil => np \in Pending /\ h.index[np] = cursor
           /\ np = Nil => Pending = {}
           /\ \A i \in Pending : h.index[i] = cursor
           /\ h.index \in [Items -> SlotSet \cup {Unset}] /\ h.head \in [SlotSet -> Place]
<1>1. /\ Wheel(h, np) /\ np \in Place /\ Pending = From(h, np)
      /\ (np # Nil => h.index[np] = cursor)
  BY DEF WheelInv, TypeOK, Pending, Walk
<1>2. Pending \subseteq Items /\ (np # Nil => np \in Pending) /\ (np = Nil => Pending = {})
  BY <1>1, FromFacts DEF Wheel
<1>3. \A i \in Pending : h.index[i] = cursor
  BY <1>1, <1>2, Apart
<1> QED BY <1>1, <1>2, <1>3, PointersRecord, WheelAssumption
        DEF WheelInv, TypeOK, Wheel, WheelAssumption

LEMMA SetTimeoutStep ==
    ASSUME Careful, WheelInv, NEW i \in Items, NEW k \in Intervals, SetTimeout(i, k)
    PROVE  WheelInv' /\ Pending' = Pending
<1> USE WheelInvParts
<1>1. /\ i \in alive /\ i \notin From(h, np) /\ k \in Int /\ (k \in 0 .. W \/ h.index[i] = Unset)
      /\ h' = AfterSetTimeout(h, i, k) /\ UNCHANGED <<cursor, alive, p, np>>
      /\ left' = [left EXCEPT ![i] = IF k \in 1 .. W THEN k ELSE 0]
  BY WheelAssumption DEF SetTimeout, MayTouch, WheelAssumption
<1>2. /\ Wheel(h', np') /\ From(h', np') = From(h, np)
      /\ h'.index = [h.index EXCEPT ![i] = IF k \in 1 .. W THEN Slot(k) ELSE Unset]
  BY <1>1, AfterSetTimeoutWheel
<1>3. Pending' = Pending
  BY <1>2 DEF Pending
<1>4. TypeOK'
  BY <1>1 DEF WheelInv, TypeOK
<1>5. Walk'
  BY <1>1, <1>2, <1>3 DEF WheelInv, Walk
<1>6. Due'
  <2> SUFFICES ASSUME NEW j \in Items
               PROVE  IF h'.index[j] = Unset THEN left'[j] = 0
                      ELSE /\ j \in alive
                           /\ IF j \in Pending THEN left'[j] = 0
                              ELSE left'[j] \in 1 .. W /\ h'.index[j] = Slot(left'[j])
    BY <1>1, <1>3 DEF Due, Slot
  <2>1. CASE j = i /\ k \in 1 .. W
    <3>1. Slot(k) \in SlotSet
      BY <2>1, SlotInWheel
    <3> QED BY <1>1, <1>2, <2>1, <3>1
  <2>2. CASE j = i /\ k \notin 1 .. W
    BY <1>1, <1>2, <2>2
  <2>3. CASE j # i
    BY <1>1, <1>2, <2>3 DEF WheelInv, Due
  <2> QED BY <2>1, <2>2, <2>3
<1> QED BY <1>2, <1>3, <1>4, <1>5, <1>6 DEF WheelInv

LEMMA CreateStep ==
    ASSUME WheelInv, NEW i \in Items, Create(i)
    PROVE  WheelInv' /\ Pending' = Pending
<1> USE WheelInvParts
<1>1. h' = h
  <2>1. h.index[i] = Unset /\ h.prev[i] = Nil /\ h.next[i] = Nil
    BY DEF Create, WheelInv, Due, Links
  <2>2. Pointers(h)
    BY DEF Wheel
  <2>3. /\ [h.index EXCEPT ![i] = Unset] = h.index /\ [h.prev EXCEPT ![i] = Nil] = h.prev
        /\ [h.next EXCEPT ![i] = Nil] = h.next
    BY <2>1, <2>2, PointersRecord
  <2> DEFINE r == Reset(h, i)
  <2>4. /\ Pointers(r) /\ r.head = h.head /\ r.index = h.index
        /\ r.prev = h.prev /\ r.next = h.next
    BY <2>2, <2>3, ResetPointers
  <2> HIDE DEF r
  <2>5. r = [head |-> r.head, index |-> r.index, prev |-> r.prev, next |-> r.next]
    BY <2>4, PointersRecord
  <2>6. h = [head |-> h.head, index |-> h.index, prev |-> h.prev, next |-> h.next]
    BY <2>2, PointersRecord
  <2>7. r = h
    BY <2>4, <2>5, <2>6
  <2> QED BY <2>7 DEF Create, r
<1>2. UNCHANGED <<h, cursor, p, np, left>> /\ alive' = alive \cup {i}
  BY <1>1 DEF Create
<1>3. Pending' = Pending
  BY <1>2 DEF Pending
<1> QED BY <1>2, <1>3 DEF WheelInv, TypeOK, Walk, Due, Slot

LEMMA DisposeStep ==
    ASSUME Careful, WheelInv, NEW i \in Items, Dispose(i)
    PROVE  WheelInv' /\ Pending' = Pending
<1> USE WheelInvParts
<1>1. /\ i \in alive /\ i \notin From(h, np) /\ alive' = alive \ {i}
      /\ h' = Destructor(h, i) /\ left' = [left EXCEPT ![i] = 0]
      /\ UNCHANGED <<cursor, p, np>>
  BY DEF Dispose, MayTouch
<1>2. /\ Wheel(h', np') /\ From(h', np') = From(h, np)
      /\ h'.index = [h.index EXCEPT ![i] = Unset]
  BY <1>1, DestructorWheel
<1>3. Pending' = Pending
  BY <1>2 DEF Pending
<1>4. TypeOK' /\ Walk'
  BY <1>1, <1>2, <1>3 DEF WheelInv, TypeOK, Walk
<1>5. Due'
  BY <1>1, <1>2, <1>3 DEF WheelInv, Due, Slot
<1> QED BY <1>2, <1>3, <1>4, <1>5 DEF WheelInv

LEMMA TakeStep ==
    ASSUME NEW hp, NEW first \in Place, Wheel(hp, first), Take(hp, first)
    PROVE  /\ p' = first /\ np' \in Place /\ Wheel(h', np')
           /\ \A j \in Items : h'.index[j] = IF j = first THEN Unset ELSE hp.index[j]
           /\ Pending' = From(hp, first) \ {first}
           /\ np' # Nil => np' \in Pending'
           /\ first = Nil => np' = Nil
<1>1. CASE first = Nil
  <2>1. p' = Nil /\ np' = Nil /\ h' = hp
    BY <1>1 DEF Take
  <2>2. From(hp, Nil) = {}
    BY <1>1, FromFacts DEF Wheel
  <2> QED BY <1>1, <2>1, <2>2 DEF Pending
<1>2. CASE first # Nil
  <2>1. first \in Items /\ p' = first /\ np' = hp.next[first] /\ h' = Reset(hp, first)
    BY <1>2 DEF Take, Place
  <2>2. /\ np' \in Place /\ Wheel(h', np')
        /\ h'.index = [hp.index EXCEPT ![first] = Unset]
        /\ From(h', np') = From(hp, first) \ {first}
    BY <2>1, TakeWheel
  <2>3. np' # Nil => np' \in From(h', np')
    BY <2>2, FromFacts DEF Wheel
  <2>4. \A j \in Items : h'.index[j] = IF j = first THEN Unset ELSE hp.index[j]
    BY <2>2, PointersRecord DEF Wheel
  <2> QED BY <1>2, <2>1, <2>2, <2>3, <2>4 DEF Pending
<1> QED BY <1>1, <1>2

LEMMA UpdateStep ==
    ASSUME WheelInv, Update
    PROVE  /\ WheelInv'
           /\ IF p' = Nil THEN {i \in Items : left[i] = 1} = {} /\ Pending' = {}
              ELSE /\ p' \in {i \in Items : left[i] = 1}
                   /\ Pending' = {i \in Items : left[i] = 1} \ {p'}
           /\ p' # Nil => p' \in alive' /\ h.index[p'] # Unset
<1> USE WheelInvParts
<1> DEFINE c == (cursor + 1) % W
           first == h.head[c]
<1>1. /\ c \in SlotSet /\ c = Slot(1)
      /\ \A k \in 1 .. W : Slot(k) = c => k = 1
      /\ \A k \in 1 .. W : k # 1 => k - 1 \in 1 .. W /\ Slot(k) = (k - 1 + c) % W
  BY NextSlot
<1>2. /\ p = Nil /\ np = Nil /\ cursor' = c /\ Take(Detach(c), first) /\ alive' = alive
      /\ left' = [i \in Items |-> IF left[i] = 0 THEN 0 ELSE left[i] - 1]
  BY DEF Update, WheelInv, Walk
<1> HIDE DEF c
<1>3. first \in Place /\ Wheel(h, Nil)
  BY <1>1, <1>2
<1>4. /\ Wheel(Detach(c), first) /\ Detach(c).index = h.index
      /\ From(Detach(c), first) = OnSlot(c)
  BY <1>1, <1>3, DetachWheel DEF OnSlot
<1>5. /\ p' = first /\ np' \in Place /\ Wheel(h', np')
      /\ \A j \in Items : h'.index[j] = IF j = first THEN Unset ELSE h.index[j]
      /\ Pending' = OnSlot(c) \ {first}
      /\ np' # Nil => np' \in Pending'
      /\ first = Nil => np' = Nil
  <2> HIDE DEF first
  <2> QED BY <1>2, <1>3, <1>4, TakeStep
<1>6. OnSlot(c) \subseteq Items /\ (first # Nil => first \in OnSlot(c)) /\ (first = Nil => OnSlot(c) = {})
  BY <1>3, FromFacts DEF OnSlot, Wheel
<1>7. Pending = {}
  BY <1>2
<1>8. \A i \in OnSlot(c) : h.index[i] = c
  BY <1>1, <1>3, Apart DEF OnSlot, Place
<1>9. OnSlot(c) = {i \in Items : left[i] = 1}
  <2>1. ASSUME NEW i \in OnSlot(c) PROVE i \in Items /\ left[i] = 1
    BY <1>1, <1>6, <1>7, <1>8 DEF WheelInv, Due
  <2>2. ASSUME NEW i \in Items, left[i] = 1 PROVE i \in OnSlot(c)
    <3>1. h.index[i] = c
      BY <1>1, <1>7, <2>2 DEF WheelInv, Due
    <3>2. i \in From(h, h.head[h.index[i]]) \cup Pending
      BY <1>1, <3>1 DEF Wheel, Covered
    <3> QED BY <1>7, <3>1, <3>2 DEF OnSlot
  <2> QED BY <2>1, <2>2
<1>10. TypeOK'
  BY <1>1, <1>2, <1>3, <1>5 DEF WheelInv, TypeOK
<1>11. Walk'
  BY <1>2, <1>5, <1>6, <1>8 DEF Walk
<1>12. Due'
  <2> SUFFICES ASSUME NEW j \in Items
               PROVE  IF h'.index[j] = Unset THEN left'[j] = 0
                      ELSE /\ j \in alive
                           /\ IF j \in Pending' THEN left'[j] = 0
                              ELSE left'[j] \in 1 .. W /\ h'.index[j] = (left'[j] + c) % W
    BY <1>2 DEF Due, Slot
  <2>1. CASE j = first
    BY <1>2, <1>5, <1>6, <1>9, <2>1
  <2>2. CASE j # first /\ j \in OnSlot(c)
    <3>1. h'.index[j] = c /\ j \in Pending' /\ left'[j] = 0
      BY <1>2, <1>5, <1>8, <1>9, <2>2
    <3>2. j \in alive
      BY <1>1, <1>8, <2>2 DEF WheelInv, Due
    <3> QED BY <1>1, <3>1, <3>2
  <2>3. CASE j # first /\ j \notin OnSlot(c) /\ h.index[j] = Unset
    BY <1>2, <1>5, <2>3 DEF WheelInv, Due
  <2>4. CASE j # first /\ j \notin OnSlot(c) /\ h.index[j] # Unset
    <3>1. left[j] \in 1 .. W /\ h.index[j] = Slot(left[j]) /\ left[j] # 1 /\ j \in alive
      BY <1>7, <1>9, <2>4 DEF WheelInv, Due
    <3>2. left[j] - 1 \in 1 .. W /\ h.index[j] = (left[j] - 1 + c) % W
      BY <1>1, <3>1
    <3>3. left'[j] = left[j] - 1
      BY <1>2, <3>1
    <3> QED BY <1>5, <2>4, <3>1, <3>2, <3>3
  <2> QED BY <2>1, <2>2, <2>3, <2>4
<1>13. first # Nil => first \in alive /\ h.index[first] # Unset
  BY <1>1, <1>6, <1>8 DEF WheelInv, Due
<1> QED BY <1>2, <1>5, <1>6, <1>9, <1>10, <1>11, <1>12, <1>13 DEF WheelInv

LEMMA ReturnStep ==
    ASSUME WheelInv, HandlerReturns
    PROVE  /\ WheelInv'
           /\ p # Nil /\ p' = np
           /\ IF np = Nil THEN Pending = {} /\ Pending' = {}
              ELSE np \in Pending /\ Pending' = Pending \ {np}
           /\ \/ UNCHANGED <<alive, left>>
              \/ alive' = alive \ {p} /\ left' = [left EXCEPT ![p] = 0]
           /\ p' # Nil => p' \in alive' /\ h.index[p'] # Unset
<1> USE WheelInvParts
<1> DEFINE hd == IF Doomed(p) THEN Destructor(h, p) ELSE h
<1>1. /\ p \in Items /\ p \notin Pending /\ Take(hd, np) /\ cursor' = cursor
      /\ alive' = IF Doomed(p) THEN alive \ {p} ELSE alive
      /\ left' = IF Doomed(p) THEN [left EXCEPT ![p] = 0] ELSE left
  BY DEF HandlerReturns, WheelInv, Walk, Place
<1>2. /\ Wheel(hd, np) /\ From(hd, np) = Pending
      /\ \A j \in Items : hd.index[j] = IF j = p /\ Doomed(p) THEN Unset ELSE h.index[j]
  <2>1. CASE Doomed(p)
    <3>1. /\ Wheel(Destructor(h, p), np) /\ From(Destructor(h, p), np) = From(h, np)
          /\ Destructor(h, p).index = [h.index EXCEPT ![p] = Unset]
      BY <1>1, DestructorWheel
    <3> QED BY <2>1, <3>1
  <2>2. CASE ~Doomed(p)
    BY <2>2
  <2> QED BY <2>1, <2>2
<1> HIDE DEF hd
<1>3. /\ p' = np /\ np' \in Place /\ Wheel(h', np')
      /\ \A j \in Items : h'.index[j] = IF j = np THEN Unset ELSE hd.index[j]
      /\ Pending' = Pending \ {np}
      /\ np' # Nil => np' \in Pending'
      /\ np = Nil => np' = Nil
  BY <1>1, <1>2, TakeStep
<1>4. TypeOK'
  BY <1>1, <1>3 DEF WheelInv, TypeOK
<1>5. Walk'
  BY <1>1, <1>2, <1>3 DEF Walk
<1>6. Due'
  <2> SUFFICES ASSUME NEW j \in Items
               PROVE  IF h'.index[j] = Unset THEN left'[j] = 0
                      ELSE /\ j \in alive'
                           /\ IF j \in Pending' THEN left'[j] = 0
                              ELSE left'[j] \in 1 .. W /\ h'.index[j] = Slot(left'[j])
    BY <1>1 DEF Due, Slot
  <2>1. CASE j = np
    <3>1. left[j] = 0 /\ j # p
      BY <1>1, <2>1 DEF WheelInv, Due
    <3> QED BY <1>1, <1>3, <2>1, <3>1
  <2>2. CASE j # np /\ j = p /\ Doomed(p)
    BY <1>1, <1>2, <1>3, <2>2
  <2>3. CASE j # np /\ ~(j = p /\ Doomed(p))
    <3>1. h'.index[j] = h.index[j] /\ left'[j] = left[j] /\ (j \in Pending' <=> j \in Pending)
      BY <1>1, <1>2, <1>3, <2>3
    <3>2. j \in alive => j \in alive'
      BY <1>1, <2>3
    <3> QED BY <3>1, <3>2 DEF WheelInv, Due
  <2> QED BY <2>1, <2>2, <2>3
<1>7. np # Nil => np \in alive /\ np # p /\ h.index[np] # Unset
  BY <1>1 DEF WheelInv, Due
<1> QED BY <1>1, <1>3, <1>4, <1>5, <1>6, <1>7 DEF WheelInv, HandlerReturns

LEMMA WheelInvStep ==
    ASSUME Careful, WheelInv, [Next]_vars
    PROVE  WheelInv'
<1>1. CASE Update
  BY <1>1, UpdateStep
<1>2. CASE HandlerReturns
  BY <1>2, ReturnStep
<1>3. ASSUME NEW i \in Items, Create(i) PROVE WheelInv'
  BY <1>3, CreateStep
<1>4. ASSUME NEW i \in Items, Dispose(i) PROVE WheelInv'
  BY <1>4, DisposeStep
<1>5. ASSUME NEW i \in Items, NEW k \in Intervals, SetTimeout(i, k) PROVE WheelInv'
  BY <1>5, SetTimeoutStep
<1>6. CASE UNCHANGED vars
  BY <1>6 DEF vars, WheelInv, TypeOK, Walk, Due, Pending, Slot
<1> QED BY <1>1, <1>2, <1>3, <1>4, <1>5, <1>6 DEF Next

-----------------------------------------------------------------------------
(* Theorems: under handlers that are careful. *)

\* SetTimeout, ~ItemTimeout and UpdateTimeoutWheel keep the types and the
\* inductive invariant of the lists.
THEOREM WheelInvariant == Careful => (Spec => []WheelInv)
<1> SUFFICES ASSUME Careful PROVE Spec => []WheelInv
  OBVIOUS
<1>1. WheelInv /\ [Next]_vars => WheelInv'
  BY WheelInvStep
<1> QED BY <1>1, WheelInvInit, PTL DEF Spec

\* Every armed item hangs on the list of its slot or waits to be called, and no
\* list leads to a destroyed or an unarmed item, whatever handlers arm, cancel,
\* create and destroy in the middle of the walk (xx_epoll2.hpp:1259-1268).
THEOREM WheelListsSound == Careful => (Spec => []ListsSound)
BY WheelInvariant, WheelInvListsSound, PTL

\* UpdateTimeoutWheel calls an item that lives and was armed: a cancelled
\* timeout stays silent (xx_epoll2.hpp:1266).
THEOREM WheelFiresOnlyArmed == Careful => (Spec => FiresOnlyArmed)
<1> SUFFICES ASSUME Careful PROVE Spec => FiresOnlyArmed
  OBVIOUS
<1>1. ASSUME WheelInv, [Next]_vars PROVE [p' # p /\ p' # Nil => p' \in alive /\ h.index[p'] # Unset]_vars
  <2>1. CASE Update
    BY <1>1, <2>1, UpdateStep DEF Update
  <2>2. CASE HandlerReturns
    <3>1. alive' \subseteq alive
      BY <2>2 DEF HandlerReturns
    <3> QED BY <1>1, <2>2, <3>1, ReturnStep
  <2>3. CASE ~(Update \/ HandlerReturns)
    BY <1>1, <2>3 DEF Next, vars, Create, Dispose, SetTimeout
  <2> QED BY <2>1, <2>2, <2>3
<1>2. Spec => []WheelInv
  BY WheelInvariant
<1> QED BY <1>1, <1>2, PTL DEF Spec, FiresOnlyArmed

\* The wheel implements the deadlines: an item armed with k is called in the
\* k-th frame from then, once, and never otherwise, for every interval up to a
\* full turn (SetTimeout, xx_epoll2.hpp:122-128).
THEOREM WheelImplementsDeadlines == Careful => (Spec => ImplementsDeadlines)
<1> SUFFICES ASSUME Careful PROVE Spec => ImplementsDeadlines
  OBVIOUS
<1>1. Init => Promise!Init
  <2>1. Init => Pending = {}
    BY WheelInvInit, WheelInvParts DEF Init
  <2> QED BY <2>1 DEF Init, Promise!Init
<1>2. ASSUME WheelInv, [Next]_vars PROVE [Promise!Next]_(Promise!vars)
  <2> USE <1>2, WheelInvParts
  <2>1. CASE Update
    <3>1. Promise!Frame
      BY <2>1, UpdateStep DEF Update, Promise!Frame, Promise!FireOneOf
    <3> QED BY <3>1 DEF Promise!Next
  <2>2. CASE HandlerReturns
    <3>1. Promise!Return
      BY <2>2, ReturnStep DEF Promise!Return, Promise!FireOneOf
    <3> QED BY <3>1 DEF Promise!Next
  <2>3. ASSUME NEW i \in Items, Create(i) PROVE Promise!Next
    <3>1. Promise!Create(i)
      BY <2>3, CreateStep DEF Create, Promise!Create
    <3> QED BY <3>1 DEF Promise!Next
  <2>4. ASSUME NEW i \in Items, Dispose(i) PROVE Promise!Next
    <3>1. Pending' = Pending \ {i} /\ Promise!Destroy(i)
      BY <2>4, DisposeStep DEF Dispose, MayTouch, Promise!Destroy
    <3> QED BY <3>1 DEF Promise!Next
  <2>5. ASSUME NEW i \in Items, NEW k \in Intervals, SetTimeout(i, k) PROVE Promise!Next
    <3> DEFINE m == IF k \in 1 .. W THEN k ELSE 0
    <3>1. m \in 0 .. W /\ left' = [left EXCEPT ![i] = m]
      BY <2>5 DEF SetTimeout
    <3>2. i \in alive /\ Pending' = Pending \ {i} /\ UNCHANGED <<alive, p>>
      BY <2>5, SetTimeoutStep DEF SetTimeout, MayTouch
    <3> HIDE DEF m
    <3>3. Promise!Arm(i, m)
      BY <3>1, <3>2 DEF Promise!Arm
    <3> QED BY <3>1, <3>3 DEF Promise!Next
  <2>6. CASE UNCHANGED vars
    BY <2>6 DEF vars, Pending, Promise!vars
  <2> QED BY <2>1, <2>2, <2>3, <2>4, <2>5, <2>6 DEF Next
<1>3. Spec => []WheelInv
  BY WheelInvariant
<1> QED BY <1>1, <1>2, <1>3, PTL DEF Spec, ImplementsDeadlines, Promise!Spec
=============================================================================
