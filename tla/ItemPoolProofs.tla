--------------------------- MODULE ItemPoolProofs ---------------------------
(***************************************************************************)
(* Proofs about ItemPool for a pool of any size, any number of Adds and    *)
(* any references, as long as it stays within its first buffer: always     *)
(* when MaxLen <= Cap, and up to the first growth otherwise. The last one  *)
(* is about its whole life, Clear included.                                *)
(***************************************************************************)
EXTENDS ItemPool, SequenceTheorems, TLAPS

(* The inductive invariant. Beyond the properties themselves it says that  *)
(* a version number is the creation number of the object it was stamped    *)
(* for, that exactly the living slots carry one, and that a reference      *)
(* remembers the only slot its target was ever in.                         *)

SlotInv ==
    \A i \in Slots :
        /\ obj[i] # NoObject => i < len /\ obj[i] <= adds
        /\ i \in Dying => obj[i] # NoObject
        /\ i \in Live <=> ver[i] # 0
        /\ ver[i] # 0 => ver[i] = obj[i]
        /\ \A j \in Slots : obj[i] # NoObject /\ obj[i] = obj[j] => i = j

DyingInv == \A k, m \in 1 .. Len(dying) : dying[k] = dying[m] => k = m

RefInv ==
    \A r \in RefIds : refs[r].version # 0 =>
        /\ refs[r].index \in Slots
        /\ refs[r].target = refs[r].version
        /\ refs[r].target <= adds
        /\ \A i \in Slots : obj[i] = refs[r].target => i = refs[r].index

FreeInv ==
    \E c \in [1 .. freeCount -> Slots] :
        IsChain(c) /\ {c[k] : k \in 1 .. freeCount} = Dead

IInv == /\ TypeOK /\ sweep = None /\ version = adds
        /\ SlotInv /\ DyingInv /\ RefInv /\ FreeInv

-----------------------------------------------------------------------------
(* The stack of running destructors *)

\* Pushing a slot on the stack of running destructors adds it to Dying.
LEMMA PushDying ==
    ASSUME dying \in Seq(Slots), NEW i \in Slots, dying' = Append(dying, i),
           i \notin Dying, DyingInv
    PROVE  dying' \in Seq(Slots) /\ Dying' = Dying \cup {i} /\ DyingInv'
<1>1. /\ dying' \in Seq(Slots)
      /\ Len(dying') = Len(dying) + 1
      /\ \A k \in 1 .. Len(dying) : dying'[k] = dying[k]
      /\ dying'[Len(dying) + 1] = i
  BY AppendProperties
<1>2. Len(dying) \in Nat
  BY LenProperties
<1>3. Dying' = Dying \cup {i}
  BY <1>1, <1>2 DEF Dying
<1>4. DyingInv'
  BY <1>1, <1>2 DEF Dying, DyingInv
<1> QED BY <1>1, <1>3, <1>4

\* Returning from the innermost destructor takes its slot out of Dying.
LEMMA PopDying ==
    ASSUME dying \in Seq(Slots), dying # <<>>,
           dying' = SubSeq(dying, 1, Len(dying) - 1), DyingInv
    PROVE  /\ dying[Len(dying)] \in Dying
           /\ dying[Len(dying)] \in Slots
           /\ dying' \in Seq(Slots)
           /\ Dying' = Dying \ {dying[Len(dying)]}
           /\ DyingInv'
<1>1. Len(dying) \in Nat /\ Len(dying) > 0
  BY EmptySeq, LenProperties
<1>2. /\ dying' \in Seq(Slots)
      /\ Len(dying') = Len(dying) - 1
      /\ \A k \in 1 .. Len(dying) - 1 : dying'[k] = dying[k]
  <2> DEFINE n == Len(dying) - 1
             t == SubSeq(dying, 1, n)
  <2>1. n \in Int /\ n >= 0 /\ 1 \in Int
    BY <1>1
  <2>2. \A j \in 1 .. n : dying[j] \in Slots
    BY <1>1, ElementOfSeq
  <2> HIDE DEF n
  <2>3. /\ t \in Seq(Slots)
        /\ Len(t) = IF 1 <= n THEN n - 1 + 1 ELSE 0
        /\ \A j \in 1 .. n - 1 + 1 : t[j] = dying[1 + j - 1]
    BY <2>1, <2>2, SubSeqProperties
  <2>4. Len(t) = n /\ \A j \in 1 .. n : t[j] = dying[1 + j - 1]
    BY <2>1, <2>3
  <2>5. \A j \in 1 .. n : 1 + j - 1 = j
    BY <2>1
  <2>6. \A j \in 1 .. n : t[j] = dying[j]
    <3> HIDE DEF t
    <3> QED BY <2>4, <2>5
  <2> QED BY <2>3, <2>4, <2>6 DEF n
<1>3. dying[Len(dying)] \in Dying /\ dying[Len(dying)] \in Slots
  BY <1>1, ElementOfSeq DEF Dying
<1>4. Dying' = Dying \ {dying[Len(dying)]}
  BY <1>1, <1>2 DEF Dying, DyingInv
<1>5. DyingInv'
  BY <1>1, <1>2 DEF DyingInv
<1> QED BY <1>2, <1>3, <1>4, <1>5

-----------------------------------------------------------------------------
(* The free list *)

\* Taking the head off the chain leaves a chain over the other dead slots,
\* and the head was a dead slot.
LEMMA PopFree ==
    ASSUME TypeOK, FreeInv, freeCount > 0
    PROVE  /\ freeHeader \in Dead
           /\ \E c \in [1 .. freeCount - 1 -> Slots] :
                /\ next[freeHeader] = IF freeCount - 1 = 0 THEN None ELSE c[1]
                /\ \A k \in 1 .. freeCount - 1 :
                      next[c[k]] = IF k = freeCount - 1 THEN None ELSE c[k + 1]
                /\ \A k, m \in 1 .. freeCount - 1 : c[k] = c[m] => k = m
                /\ {c[k] : k \in 1 .. freeCount - 1} = Dead \ {freeHeader}
<1>1. PICK d \in [1 .. freeCount -> Slots] :
          IsChain(d) /\ {d[k] : k \in 1 .. freeCount} = Dead
  BY DEF FreeInv
<1>2. freeCount \in Nat
  BY DEF TypeOK
<1>3. freeHeader = d[1] /\ d[1] \in Dead
  BY <1>1, <1>2 DEF IsChain
<1> DEFINE c == [k \in 1 .. freeCount - 1 |-> d[k + 1]]
<1>4. c \in [1 .. freeCount - 1 -> Slots]
  BY <1>2
<1>5. next[freeHeader] = IF freeCount - 1 = 0 THEN None ELSE c[1]
  BY <1>1, <1>2, <1>3 DEF IsChain
<1>6. \A k \in 1 .. freeCount - 1 :
          next[c[k]] = IF k = freeCount - 1 THEN None ELSE c[k + 1]
  BY <1>1, <1>2 DEF IsChain
<1>7. \A k, m \in 1 .. freeCount - 1 : c[k] = c[m] => k = m
  BY <1>1, <1>2 DEF IsChain
<1>8. {c[k] : k \in 1 .. freeCount - 1} = Dead \ {freeHeader}
  <2>1. ASSUME NEW x \in Dead, x # freeHeader
        PROVE  \E k \in 1 .. freeCount - 1 : x = c[k]
    <3>1. PICK m \in 1 .. freeCount : x = d[m]
      BY <1>1, <2>1
    <3>2. m # 1
      BY <1>3, <2>1, <3>1
    <3>3. m - 1 \in 1 .. freeCount - 1 /\ (m - 1) + 1 = m
      BY <1>2, <3>2
    <3> QED BY <3>1, <3>3
  <2>2. ASSUME NEW k \in 1 .. freeCount - 1
        PROVE  c[k] \in Dead \ {freeHeader}
    <3>1. k + 1 \in 1 .. freeCount /\ 1 \in 1 .. freeCount /\ k + 1 # 1
      BY <1>2
    <3> QED BY <1>1, <1>3, <3>1 DEF IsChain
  <2> QED BY <2>1, <2>2
<1> HIDE DEF c
<1> QED BY <1>3, <1>4, <1>5, <1>6, <1>7, <1>8

\* Putting a slot in front of the chain makes a chain over the dead slots and
\* that slot.
LEMMA PushFree ==
    ASSUME TypeOK, FreeInv, NEW i \in Slots, i \notin Dead,
           next' = [next EXCEPT ![i] = freeHeader], freeHeader' = i,
           freeCount' = freeCount + 1, Dead' = Dead \cup {i}
    PROVE  FreeInv'
<1>1. PICK d \in [1 .. freeCount -> Slots] :
          IsChain(d) /\ {d[k] : k \in 1 .. freeCount} = Dead
  BY DEF FreeInv
<1>2. freeCount \in Nat /\ next \in [Slots -> Slots \cup {None}]
  BY DEF TypeOK
<1> DEFINE c == [k \in 1 .. freeCount + 1 |-> IF k = 1 THEN i ELSE d[k - 1]]
<1>3. c \in [1 .. freeCount' -> Slots]
  BY <1>2
<1>4. c[1] = i /\ \A k \in 1 .. freeCount : k + 1 \in 1 .. freeCount + 1 /\ c[k + 1] = d[k]
  BY <1>2
<1>5. \A k \in 1 .. freeCount + 1 : k = 1 \/ \E m \in 1 .. freeCount : k = m + 1
  <2>1. \A k \in 1 .. freeCount + 1 : k = 1 \/ (k - 1 \in 1 .. freeCount /\ k = (k - 1) + 1)
    BY <1>2
  <2> QED BY <2>1
<1>6. \A k \in 1 .. freeCount : d[k] # i /\ d[k] \in Slots
  BY <1>1
<1> HIDE DEF c
<1>7. \A k \in 1 .. freeCount' :
          next'[c[k]] = IF k = freeCount' THEN None ELSE c[k + 1]
  <2> SUFFICES ASSUME NEW k \in 1 .. freeCount + 1
               PROVE  next'[c[k]] = IF k = freeCount + 1 THEN None ELSE c[k + 1]
    OBVIOUS
  <2>1. CASE k = 1
    <3>1. next'[i] = freeHeader
      BY <1>2
    <3>2. freeHeader = IF freeCount = 0 THEN None ELSE d[1]
      BY <1>1 DEF IsChain
    <3>3. freeCount # 0 => c[2] = d[1]
      BY <1>2, <1>4
    <3> QED BY <1>2, <1>4, <2>1, <3>1, <3>2, <3>3
  <2>2. ASSUME NEW m \in 1 .. freeCount, k = m + 1
        PROVE  next'[c[k]] = IF k = freeCount + 1 THEN None ELSE c[k + 1]
    <3>1. c[k] = d[m] /\ next'[d[m]] = next[d[m]]
      BY <1>2, <1>4, <1>6, <2>2
    <3>2. next[d[m]] = IF m = freeCount THEN None ELSE d[m + 1]
      BY <1>1 DEF IsChain
    <3>3. m # freeCount => m + 1 \in 1 .. freeCount /\ c[k + 1] = d[m + 1]
      BY <1>2, <1>4, <2>2
    <3> QED BY <1>2, <2>2, <3>1, <3>2, <3>3
  <2> QED BY <1>5, <2>1, <2>2
<1>8. \A k, m \in 1 .. freeCount' : c[k] = c[m] => k = m
  BY <1>1, <1>4, <1>5, <1>6 DEF IsChain
<1>9. {c[k] : k \in 1 .. freeCount'} = Dead'
  <2>1. ASSUME NEW k \in 1 .. freeCount + 1 PROVE c[k] \in Dead \cup {i}
    BY <1>1, <1>4, <1>5
  <2>2. ASSUME NEW x \in Dead PROVE \E k \in 1 .. freeCount + 1 : x = c[k]
    <3>1. PICK m \in 1 .. freeCount : x = d[m]
      BY <1>1
    <3> QED BY <1>4, <3>1
  <2>3. 1 \in 1 .. freeCount + 1
    BY <1>2
  <2> QED BY <1>4, <2>1, <2>2, <2>3
<1>10. freeHeader' = IF freeCount' = 0 THEN None ELSE c[1]
  BY <1>2, <1>4
<1> QED BY <1>3, <1>7, <1>8, <1>9, <1>10 DEF FreeInv, IsChain

\* A step that leaves the chain and the dead slots alone keeps the free list.
LEMMA KeepFree ==
    ASSUME FreeInv, UNCHANGED <<freeHeader, freeCount>>, Dead' = Dead,
           \A i \in Dead : next'[i] = next[i]
    PROVE  FreeInv'
<1>1. PICK c \in [1 .. freeCount -> Slots] :
          IsChain(c) /\ {c[k] : k \in 1 .. freeCount} = Dead
  BY DEF FreeInv
<1>2. \A k \in 1 .. freeCount : next'[c[k]] = next[c[k]]
  BY <1>1
<1>3. IsChain(c)'
  BY <1>1, <1>2 DEF IsChain
<1>4. c \in [1 .. freeCount' -> Slots] /\ {c[k] : k \in 1 .. freeCount'} = Dead'
  BY <1>1
<1> QED BY <1>3, <1>4 DEF FreeInv

-----------------------------------------------------------------------------
(* The invariant is inductive *)

\* The empty pool satisfies the invariant.
LEMMA InitInv == Init => IInv
<1> SUFFICES ASSUME Init PROVE IInv
  OBVIOUS
<1>1. Len(dying) = 0 /\ dying \in Seq(Slots) /\ Dying = {}
  BY EmptySeq DEF Init, Dying
<1>2. TypeOK
  BY <1>1, PoolAssumption DEF Init, TypeOK, NullRef, NoObject, None, Slots
<1>3. SlotInv
  BY <1>1 DEF Init, SlotInv, Live, NoObject
<1>4. DyingInv /\ RefInv
  BY <1>1 DEF Init, DyingInv, RefInv, NullRef, NoObject
<1>5. FreeInv
  <2> DEFINE c == [k \in 1 .. 0 |-> 0]
  <2>1. c \in [1 .. freeCount -> Slots] /\ IsChain(c)
    BY DEF Init, IsChain
  <2>2. Dead = {} /\ {c[k] : k \in 1 .. freeCount} = {}
    BY DEF Init, Dead, Slots
  <2> QED BY <2>1, <2>2 DEF FreeInv
<1> QED BY <1>2, <1>3, <1>4, <1>5 DEF Init, IInv

\* Building an object in a slot that holds none keeps everything but the free
\* list, whichever way the slot was found.
LEMMA PlaceInv ==
    ASSUME IInv, NEW i \in Slots, obj[i] = NoObject, i < len',
           len' \in 0 .. MaxLen, len' >= len,
           Place(i, ver, next)
    PROVE  /\ ver' \in [Slots -> 0 .. MaxAdds] /\ obj' \in [Slots -> 0 .. MaxAdds]
           /\ next' \in [Slots -> Slots \cup {None}]
           /\ version' = adds' /\ adds' \in 0 .. MaxAdds
           /\ UNCHANGED <<dying, sweep, refs>>
           /\ SlotInv' /\ DyingInv' /\ RefInv'
           /\ i \notin Dying
<1> USE DEF IInv, Place, Stamp, NoObject
<1>1. i \notin Dying
  BY DEF SlotInv
<1>2. adds \in Nat /\ adds + 1 \in 1 .. MaxAdds /\ version = adds
  BY PoolAssumption DEF TypeOK
<1>3. /\ ver' \in [Slots -> 0 .. MaxAdds] /\ obj' \in [Slots -> 0 .. MaxAdds]
      /\ next' \in [Slots -> Slots \cup {None}]
  BY <1>2 DEF TypeOK
<1>4. Dying' = Dying
  BY DEF Dying
<1>5. /\ obj'[i] = adds + 1 /\ ver'[i] = adds + 1
      /\ \A j \in Slots : j # i => obj'[j] = obj[j] /\ ver'[j] = ver[j]
  BY <1>2 DEF TypeOK
<1>6. \A j \in Slots : obj[j] # 0 => obj[j] <= adds /\ j < len
  BY DEF SlotInv
<1>7. len \in Int /\ len' \in Int /\ Slots \subseteq Int
      /\ \A j \in Slots : obj[j] \in Int
  <2>1. len \in Int /\ len' \in Int
    BY PoolAssumption DEF TypeOK
  <2>2. Slots \subseteq Int
    BY PoolAssumption DEF Slots
  <2>3. \A j \in Slots : obj[j] \in 0 .. MaxAdds
    BY DEF TypeOK
  <2> QED BY <2>1, <2>2, <2>3
<1>8. SlotInv'
  <2> SUFFICES ASSUME NEW j \in Slots
               PROVE  /\ obj'[j] # 0 => j < len' /\ obj'[j] <= adds'
                      /\ j \in Dying => obj'[j] # 0
                      /\ j \in Live' <=> ver'[j] # 0
                      /\ ver'[j] # 0 => ver'[j] = obj'[j]
                      /\ \A k \in Slots : obj'[j] # 0 /\ obj'[j] = obj'[k] => j = k
    BY <1>4 DEF SlotInv
  <2>1. obj'[j] # 0 => j < len' /\ obj'[j] <= adds'
    BY <1>2, <1>5, <1>6, <1>7
  <2>2. j \in Dying => obj'[j] # 0
    BY <1>2, <1>5 DEF SlotInv
  <2>3. j \in Live' <=> ver'[j] # 0
    BY <1>1, <1>2, <1>4, <1>5 DEF SlotInv, Live
  <2>4. ver'[j] # 0 => ver'[j] = obj'[j]
    BY <1>2, <1>5 DEF SlotInv
  <2>5. \A k \in Slots : obj'[j] # 0 /\ obj'[j] = obj'[k] => j = k
    BY <1>2, <1>5, <1>6, <1>7 DEF SlotInv
  <2> QED BY <2>1, <2>2, <2>3, <2>4, <2>5
<1>9. RefInv'
  <2> SUFFICES ASSUME NEW r \in RefIds, refs[r].version # 0
               PROVE  /\ refs[r].index \in Slots
                      /\ refs[r].target = refs[r].version
                      /\ refs[r].target <= adds'
                      /\ \A j \in Slots : obj'[j] = refs[r].target => j = refs[r].index
    BY DEF RefInv
  <2>1. refs[r].target <= adds /\ refs[r].target \in Int
    BY DEF RefInv, TypeOK
  <2> QED BY <1>2, <1>5, <2>1 DEF RefInv
<1>10. DyingInv'
  BY DEF DyingInv
<1> QED BY <1>1, <1>2, <1>3, <1>8, <1>9, <1>10

\* Every step of a pool that stays in its first buffer keeps the invariant.
LEMMA NextInv == ASSUME IInv, [Next]_vars, ~AddWithGrow PROVE IInv'
<1> USE DEF NoObject
<1>0. TypeOK /\ sweep = None /\ version = adds /\ SlotInv /\ DyingInv /\ RefInv /\ FreeInv
  BY DEF IInv
<1>1. CASE AddFromFreeList
  <2>1. freeHeader \in Slots /\ obj[freeHeader] = 0 /\ freeHeader < len
        /\ freeCount \in Nat /\ freeCount > 0
    BY <1>0, <1>1, PopFree DEF AddFromFreeList, Dead, TypeOK
  <2>2. Place(freeHeader, ver, next) /\ len' = len /\ len \in 0 .. MaxLen
    BY <1>0, <1>1 DEF AddFromFreeList, TypeOK
  <2>3. /\ ver' \in [Slots -> 0 .. MaxAdds] /\ obj' \in [Slots -> 0 .. MaxAdds]
        /\ next' \in [Slots -> Slots \cup {None}]
        /\ version' = adds' /\ adds' \in 0 .. MaxAdds
        /\ UNCHANGED <<dying, sweep, refs>>
        /\ SlotInv' /\ DyingInv' /\ RefInv'
    BY <2>1, <2>2, PlaceInv DEF NoObject
  <2>4. freeHeader' = next[freeHeader] /\ freeCount' = freeCount - 1
    BY <1>1 DEF AddFromFreeList, NextHeader, CountDown
  <2>5. Dead' = Dead \ {freeHeader}
    BY <1>0, <2>1, <2>2, PoolAssumption DEF Dead, Place, TypeOK
  <2>6. PICK c \in [1 .. freeCount - 1 -> Slots] :
          /\ next[freeHeader] = IF freeCount - 1 = 0 THEN None ELSE c[1]
          /\ \A k \in 1 .. freeCount - 1 :
                next[c[k]] = IF k = freeCount - 1 THEN None ELSE c[k + 1]
          /\ \A k, m \in 1 .. freeCount - 1 : c[k] = c[m] => k = m
          /\ {c[k] : k \in 1 .. freeCount - 1} = Dead \ {freeHeader}
    BY <1>0, <2>1, PopFree
  <2>7. \A k \in 1 .. freeCount - 1 : next'[c[k]] = next[c[k]]
    <3>1. \A j \in Slots : j # freeHeader => next'[j] = next[j]
      BY <1>0, <2>2 DEF Place, TypeOK
    <3> QED BY <2>6, <3>1
  <2>8. IsChain(c)'
    BY <2>4, <2>6, <2>7 DEF IsChain
  <2>9. FreeInv'
    BY <2>4, <2>5, <2>6, <2>8 DEF FreeInv
  <2>10. TypeOK'
    <3>1. freeHeader' \in Slots \cup {None} /\ freeCount' \in Nat
      BY <1>0, <2>1, <2>4 DEF TypeOK
    <3> QED BY <1>0, <2>1, <2>2, <2>3, <3>1 DEF TypeOK
  <2> QED BY <1>0, <2>3, <2>9, <2>10 DEF IInv
<1>2. CASE AddAtEnd
  <2>1. len \in Slots /\ obj[len] = 0 /\ len' = len + 1 /\ len' \in 0 .. MaxLen /\ len \in Nat
    BY <1>0, <1>2, PoolAssumption DEF AddAtEnd, TypeOK, Slots, SlotInv
  <2>2. Place(len, ver, next) /\ UNCHANGED <<freeHeader, freeCount>>
    BY <1>2 DEF AddAtEnd
  <2>3. /\ ver' \in [Slots -> 0 .. MaxAdds] /\ obj' \in [Slots -> 0 .. MaxAdds]
        /\ next' \in [Slots -> Slots \cup {None}]
        /\ version' = adds' /\ adds' \in 0 .. MaxAdds
        /\ UNCHANGED <<dying, sweep, refs>>
        /\ SlotInv' /\ DyingInv' /\ RefInv'
    BY <2>1, <2>2, PlaceInv DEF NoObject
  <2>4. Dead' = Dead
    <3>1. obj' = [obj EXCEPT ![len] = adds + 1] /\ adds + 1 # 0
      BY <1>0, <2>2 DEF Place, TypeOK
    <3>2. \A j \in Slots : j < len' <=> j < len \/ j = len
      BY <2>1 DEF Slots
    <3>3. obj \in [Slots -> 0 .. MaxAdds] /\ ~(len < len)
      BY <1>0, <2>1 DEF TypeOK
    <3> QED BY <2>1, <3>1, <3>2, <3>3 DEF Dead
  <2>5. \A j \in Dead : next'[j] = next[j]
    BY <1>0, <2>1, <2>2 DEF Dead, Place, TypeOK
  <2>6. FreeInv'
    BY <1>0, <2>2, <2>4, <2>5, KeepFree
  <2>7. TypeOK'
    BY <1>0, <2>1, <2>2, <2>3 DEF TypeOK
  <2> QED BY <1>0, <2>3, <2>6, <2>7 DEF IInv
<1>3. CASE AddWithGrow
  BY <1>3
<1>4. ASSUME NEW i \in Slots, RemoveBegin(i) PROVE IInv'
  <2>1. i \in Live /\ i \notin Dying /\ obj[i] # 0
    BY <1>4 DEF RemoveBegin, Live
  <2>2. /\ ver' = [ver EXCEPT ![i] = 0] /\ dying' = Append(dying, i)
        /\ UNCHANGED <<next, obj, len, freeHeader, freeCount, version, sweep, refs, adds>>
    BY <1>4 DEF RemoveBegin, VersionCleared
  <2>3. dying \in Seq(Slots)
    BY <1>0 DEF TypeOK
  <2>4. dying' \in Seq(Slots) /\ Dying' = Dying \cup {i} /\ DyingInv'
    BY <1>0, <2>1, <2>2, <2>3, PushDying
  <2>5. /\ ver'[i] = 0 /\ ver' \in [Slots -> 0 .. MaxAdds]
        /\ \A j \in Slots : j # i => ver'[j] = ver[j]
    BY <1>0, <2>2, PoolAssumption DEF TypeOK
  <2>6. TypeOK'
    BY <1>0, <2>2, <2>4, <2>5 DEF TypeOK
  <2>7. SlotInv'
    BY <1>0, <2>1, <2>2, <2>4, <2>5 DEF SlotInv, Live
  <2>8. RefInv'
    BY <1>0, <2>2 DEF RefInv
  <2>9. FreeInv'
    BY <1>0, <2>2, KeepFree DEF Dead
  <2> QED BY <1>0, <2>2, <2>4, <2>6, <2>7, <2>8, <2>9 DEF IInv
<1>5. CASE RemoveEnd
  <2> DEFINE i == dying[Len(dying)]
  <2>1. /\ dying # <<>> /\ dying' = SubSeq(dying, 1, Len(dying) - 1)
        /\ obj' = [obj EXCEPT ![i] = 0]
        /\ next' = [next EXCEPT ![i] = freeHeader]
        /\ freeHeader' = i /\ freeCount' = freeCount + 1
        /\ UNCHANGED <<ver, len, version, sweep, refs, adds>>
    BY <1>5 DEF RemoveEnd, CountUp
  <2>2. dying \in Seq(Slots)
    BY <1>0 DEF TypeOK
  <2>3. /\ i \in Dying /\ i \in Slots /\ dying' \in Seq(Slots)
        /\ Dying' = Dying \ {i} /\ DyingInv'
    BY <1>0, <2>1, <2>2, PopDying
  <2> HIDE DEF i
  <2>4. /\ obj'[i] = 0 /\ obj' \in [Slots -> 0 .. MaxAdds]
        /\ \A j \in Slots : j # i => obj'[j] = obj[j]
    BY <1>0, <2>1, <2>3, PoolAssumption DEF TypeOK
  <2>5. next' \in [Slots -> Slots \cup {None}]
    BY <1>0, <2>1, <2>3 DEF TypeOK
  <2>6. TypeOK'
    <3>1. /\ ver' = ver /\ len' = len /\ version' = version /\ adds' = adds
          /\ sweep' = sweep /\ refs' = refs
      BY <2>1
    <3>2. freeHeader' \in Slots \cup {None} /\ freeCount' \in Nat
      BY <1>0, <2>1, <2>3 DEF TypeOK
    <3> QED BY <1>0, <2>3, <2>4, <2>5, <3>1, <3>2, Zenon DEF TypeOK
  <2>7. obj[i] # 0 /\ i < len /\ i \notin Live /\ ver[i] = 0
    BY <1>0, <2>3 DEF SlotInv, Live
  <2>8. SlotInv'
    BY <1>0, <2>1, <2>3, <2>4, <2>7 DEF SlotInv, Live
  <2>9. RefInv'
    <3> SUFFICES ASSUME NEW r \in RefIds, refs[r].version # 0
                 PROVE  /\ refs[r].index \in Slots
                        /\ refs[r].target = refs[r].version
                        /\ refs[r].target <= adds
                        /\ \A j \in Slots : obj'[j] = refs[r].target => j = refs[r].index
      BY <2>1 DEF RefInv
    <3> QED BY <1>0, <2>4 DEF RefInv
  <2>10. Dead' = Dead \cup {i} /\ i \notin Dead
    BY <2>1, <2>3, <2>4, <2>7 DEF Dead
  <2>11. FreeInv'
    BY <1>0, <2>1, <2>3, <2>10, PushFree
  <2> QED BY <1>0, <2>1, <2>3, <2>6, <2>8, <2>9, <2>11 DEF IInv
<1>6. ASSUME NEW r \in RefIds, NEW i \in Slots, Point(r, i) PROVE IInv'
  <2>1. /\ refs' = [refs EXCEPT ![r] = PointAt(i)] /\ i \in Live \cup Dying
        /\ UNCHANGED <<ver, next, obj, len, freeHeader, freeCount, version, dying, sweep, adds>>
    BY <1>6 DEF Point
  <2>2. /\ refs'[r] = PointAt(i)
        /\ \A q \in RefIds : q # r => refs'[q] = refs[q]
        /\ refs' \in [RefIds -> [index : Slots \cup {None}, version : 0 .. MaxAdds,
                                  target : 0 .. MaxAdds]]
    BY <1>0, <2>1 DEF TypeOK, PointAt
  <2>3. TypeOK'
    BY <1>0, <2>1, <2>2 DEF TypeOK
  <2>4. SlotInv' /\ DyingInv'
    BY <1>0, <2>1 DEF SlotInv, DyingInv, Live, Dying
  <2>5. RefInv'
    <3>1. ver[i] # 0 => obj[i] = ver[i] /\ obj[i] # 0 /\ obj[i] <= adds
      BY <1>0 DEF SlotInv
    <3>2. \A j \in Slots : obj[i] # 0 /\ obj[i] = obj[j] => i = j
      BY <1>0 DEF SlotInv
    <3>3. /\ refs'[r].index = i /\ refs'[r].version = ver[i] /\ refs'[r].target = obj[i]
      BY <2>2 DEF PointAt
    <3> SUFFICES ASSUME NEW q \in RefIds, refs'[q].version # 0
                 PROVE  /\ refs'[q].index \in Slots
                        /\ refs'[q].target = refs'[q].version
                        /\ refs'[q].target <= adds
                        /\ \A j \in Slots : obj[j] = refs'[q].target => j = refs'[q].index
      BY <2>1 DEF RefInv
    <3>4. CASE q = r
      BY <3>1, <3>2, <3>3, <3>4
    <3>5. CASE q # r
      BY <1>0, <2>2, <3>5 DEF RefInv
    <3> QED BY <3>4, <3>5
  <2>6. FreeInv'
    BY <1>0, <2>1, KeepFree DEF Dead
  <2> QED BY <1>0, <2>1, <2>3, <2>4, <2>5, <2>6 DEF IInv
<1>7. ASSUME NEW r \in RefIds, Unpoint(r) PROVE IInv'
  <2>1. /\ refs' = [refs EXCEPT ![r] = NullRef]
        /\ UNCHANGED <<ver, next, obj, len, freeHeader, freeCount, version, dying, sweep, adds>>
    BY <1>7 DEF Unpoint
  <2>2. TypeOK'
    BY <1>0, <2>1, PoolAssumption DEF TypeOK, NullRef
  <2>3. SlotInv' /\ DyingInv'
    BY <1>0, <2>1 DEF SlotInv, DyingInv, Live, Dying
  <2>4. RefInv'
    <3>1. \A q \in RefIds : refs'[q] = IF q = r THEN NullRef ELSE refs[q]
      BY <1>0, <2>1 DEF TypeOK
    <3> QED BY <1>0, <2>1, <3>1 DEF RefInv, NullRef
  <2>5. FreeInv'
    BY <1>0, <2>1, KeepFree DEF Dead
  <2> QED BY <1>0, <2>1, <2>2, <2>3, <2>4, <2>5 DEF IInv
<1>8. CASE UNCHANGED vars
  <2>1. UNCHANGED <<Dying, Live, Dead>>
    BY <1>8 DEF vars, Dying, Live, Dead
  <2>2. TypeOK' /\ SlotInv' /\ DyingInv' /\ RefInv'
    BY <1>0, <1>8, <2>1 DEF vars, TypeOK, SlotInv, DyingInv, RefInv
  <2>3. FreeInv'
    BY <1>0, <1>8, <2>1, KeepFree DEF vars
  <2> QED BY <1>0, <1>8, <2>2, <2>3 DEF IInv, vars
<1> QED BY <1>1, <1>2, <1>3, <1>4, <1>5, <1>6, <1>7, <1>8 DEF Next

-----------------------------------------------------------------------------
(* The theorems *)

\* A pool that never outgrows its first buffer keeps the inductive invariant,
\* whatever the destructors and the users of references do.
THEOREM PoolInvariant == ASSUME MaxLen <= Cap PROVE Spec => []IInv
<1>1. Init => IInv
  BY InitInv
<1>2. IInv /\ [Next]_vars => IInv'
  <2>1. IInv => ~AddWithGrow
    BY PoolAssumption DEF AddWithGrow, IInv, TypeOK
  <2> QED BY <2>1, NextInv
<1> QED BY <1>1, <1>2, PTL DEF Spec

\* Every field of the pool keeps its type.
THEOREM TypeCorrect == ASSUME MaxLen <= Cap PROVE Spec => []TypeOK
<1>1. IInv => TypeOK
  BY DEF IInv
<1> QED BY <1>1, PoolInvariant, PTL

\* What the invariant says of one reference: it tests true exactly while its
\* target is alive, and then its slot is where the target lives.
LEMMA RefMeaning ==
    ASSUME IInv, NEW r \in RefIds
    PROVE  /\ Valid(r) => /\ refs[r].index \in Live
                          /\ obj[refs[r].index] = refs[r].target
                          /\ refs[r].target # NoObject
           /\ \A i \in Live : refs[r].version # 0 /\ obj[i] = refs[r].target => Valid(r)
<1>1. refs[r].version # 0 => refs[r].index \in Slots /\ refs[r].target = refs[r].version
  BY DEF IInv, RefInv
<1>2. \A i \in Slots : (i \in Live <=> ver[i] # 0) /\ (ver[i] # 0 => ver[i] = obj[i])
  BY DEF IInv, SlotInv
<1>3. ASSUME NEW i \in Live, refs[r].version # 0, obj[i] = refs[r].target
      PROVE  Valid(r)
  <2>1. i \in Slots /\ i = refs[r].index
    BY <1>3 DEF IInv, RefInv, Live
  <2> QED BY <1>1, <1>2, <1>3, <2>1 DEF Valid
<1> QED BY <1>1, <1>2, <1>3 DEF Valid, NoObject

\* A reference never resolves to a dead object, to one whose destructor runs,
\* or to a younger one in the same slot.
THEOREM RefsAreSafe == ASSUME MaxLen <= Cap PROVE Spec => []RefSafe
<1>1. IInv => RefSafe
  BY RefMeaning DEF RefSafe
<1> QED BY <1>1, PoolInvariant, PTL

\* A reference to a living object always resolves.
THEOREM RefsAreLive == ASSUME MaxLen <= Cap PROVE Spec => []RefLive
<1>1. IInv => RefLive
  BY RefMeaning DEF RefLive
<1> QED BY <1>1, PoolInvariant, PTL

\* The free list holds every dead slot exactly once, and nothing else.
THEOREM FreeListIsExact == ASSUME MaxLen <= Cap PROVE Spec => []FreeListExact
<1>1. IInv => FreeListExact
  BY DEF IInv, FreeInv, FreeListExact
<1> QED BY <1>1, PoolInvariant, PTL

\* No slot changes hands before the destructor of its object has returned.
THEOREM StorageIsStable == ASSUME MaxLen <= Cap PROVE Spec => StorageStable
<1>1. ASSUME IInv, [Next]_vars, NEW i \in Slots, obj[i] # NoObject
      PROVE  obj'[i] \in {obj[i], NoObject}
  <2>1. obj \in [Slots -> 0 .. MaxAdds] /\ len \in Nat
    BY <1>1, PoolAssumption DEF IInv, TypeOK
  <2>2. CASE AddFromFreeList
    <3>1. obj[freeHeader] = NoObject
      BY <1>1, <2>2, PopFree DEF IInv, AddFromFreeList, Dead
    <3> QED BY <1>1, <2>1, <2>2, <3>1 DEF AddFromFreeList, Place
  <2>3. CASE AddAtEnd
    <3>1. i # len
      BY <1>1, <2>1 DEF IInv, SlotInv
    <3> QED BY <2>1, <2>3, <3>1 DEF AddAtEnd, Place
  <2>4. CASE AddWithGrow
    BY <1>1, <2>4, PoolAssumption DEF AddWithGrow, IInv, TypeOK
  <2>5. CASE RemoveEnd
    BY <2>1, <2>5 DEF RemoveEnd
  <2>6. CASE \/ \E j \in Slots : RemoveBegin(j)
             \/ \E r \in RefIds, j \in Slots : Point(r, j)
             \/ \E r \in RefIds : Unpoint(r)
             \/ UNCHANGED vars
    BY <2>6 DEF RemoveBegin, Point, Unpoint, vars
  <2> QED BY <1>1, <2>2, <2>3, <2>4, <2>5, <2>6 DEF Next
<1>2. IInv /\ [Next]_vars =>
        [\A i \in Slots : obj[i] # NoObject => obj'[i] \in {obj[i], NoObject}]_vars
  BY <1>1
<1> QED BY <1>2, PoolInvariant, PTL DEF Spec, StorageStable

-----------------------------------------------------------------------------
(* Refinement *)

Alive == {obj[i] : i \in Live}
Target == [r \in RefIds |-> IF Valid(r) THEN refs[r].target ELSE NoObject]

\* A step of the pool is a step of the abstract references or changes nothing
\* that they can see.
LEMMA NextRefines ==
    ASSUME MaxLen <= Cap, IInv, IInv', [Next]_vars
    PROVE  [Promise!Next]_(Promise!vars)
<1> USE DEF NoObject
<1>0. TypeOK /\ SlotInv /\ RefInv
  BY DEF IInv
<1>1. ASSUME NEW i \in Slots, obj[i] = 0, Place(i, ver, next), i \notin Dying
      PROVE  Promise!Next
  <2>1. /\ adds' = adds + 1 /\ adds + 1 \in 1 .. MaxAdds /\ adds \in Nat
        /\ UNCHANGED <<dying, sweep, refs>> /\ version = adds
    BY <1>0, <1>1, PoolAssumption DEF Place, TypeOK, IInv
  <2>2. /\ obj'[i] = adds + 1 /\ ver'[i] = adds + 1
        /\ \A j \in Slots : j # i => obj'[j] = obj[j] /\ ver'[j] = ver[j]
    BY <1>0, <1>1, <2>1 DEF Place, Stamp, TypeOK
  <2>3. Live' = Live \cup {i} /\ i \notin Live
    BY <1>1, <2>1, <2>2 DEF Live, Dying
  <2>4. Alive' = Alive \cup {adds + 1}
    BY <2>2, <2>3 DEF Alive, Live
  <2>5. Target' = Target
    <3> SUFFICES ASSUME NEW r \in RefIds PROVE Valid(r)' <=> Valid(r)
      BY <2>1 DEF Target
    <3>1. refs[r].version # 0 =>
             refs[r].index \in Slots /\ refs[r].version = refs[r].target
             /\ refs[r].version <= adds /\ refs[r].version \in Int
      BY <1>0, PoolAssumption DEF RefInv, TypeOK
    <3>2. ver[i] = 0
      BY <1>0, <2>3 DEF SlotInv
    <3> QED BY <2>1, <2>2, <3>1, <3>2 DEF Valid
  <2>6. adds + 1 \notin 1 .. adds /\ (1 .. adds)' = 1 .. adds \cup {adds + 1}
    BY <2>1
  <2>7. PICK o : o = adds + 1
    OBVIOUS
  <2>8. Promise!Create(o)
    BY <2>1, <2>4, <2>5, <2>6, <2>7 DEF Promise!Create, Alive, Target
  <2>9. o \in 1 .. MaxAdds
    BY <2>1, <2>7
  <2> QED BY <2>8, <2>9, Zenon DEF Promise!Next
<1>2. CASE AddFromFreeList
  <2>1. freeHeader \in Slots /\ obj[freeHeader] = 0
    BY <1>2, PopFree DEF AddFromFreeList, Dead, IInv
  <2>2. Place(freeHeader, ver, next) /\ freeHeader \notin Dying
    BY <1>0, <1>2, <2>1 DEF AddFromFreeList, SlotInv
  <2> QED BY <1>1, <2>1, <2>2
<1>3. CASE AddAtEnd
  <2>1. len \in Slots /\ obj[len] = 0
    BY <1>0, <1>3, PoolAssumption DEF AddAtEnd, TypeOK, Slots, SlotInv
  <2>2. Place(len, ver, next) /\ len \notin Dying
    BY <1>0, <1>3, <2>1 DEF AddAtEnd, SlotInv
  <2> QED BY <1>1, <2>1, <2>2
<1>4. CASE AddWithGrow
  BY <1>0, <1>4, PoolAssumption DEF AddWithGrow, TypeOK
<1>5. ASSUME NEW i \in Slots, RemoveBegin(i) PROVE Promise!Next
  <2>1. /\ i \in Live /\ obj[i] # 0 /\ i \notin Dying
        /\ ver' = [ver EXCEPT ![i] = 0] /\ dying' = Append(dying, i)
        /\ UNCHANGED <<next, obj, len, freeHeader, freeCount, version, sweep, refs, adds>>
    BY <1>5 DEF RemoveBegin, VersionCleared, Live
  <2>2. ver'[i] = 0 /\ \A j \in Slots : j # i => ver'[j] = ver[j]
    BY <1>0, <2>1 DEF TypeOK
  <2>3. Live' = Live \ {i}
    <3>1. Dying' = Dying \cup {i}
      BY <2>1, <1>0, PushDying DEF IInv, TypeOK
    <3> QED BY <2>1, <3>1 DEF Live
  <2>4. Alive' = Alive \ {obj[i]}
    <3>1. \A j \in Live : obj[j] = obj[i] => j = i
      BY <1>0, <2>1 DEF SlotInv, Live
    <3> QED BY <2>1, <2>3, <3>1 DEF Alive
  <2>5. Target' = [r \in RefIds |-> IF Target[r] = obj[i] THEN 0 ELSE Target[r]]
    <3> SUFFICES ASSUME NEW r \in RefIds
                 PROVE  (IF Valid(r)' THEN refs[r].target ELSE 0)
                        = IF Target[r] = obj[i] THEN 0 ELSE Target[r]
      BY <2>1 DEF Target
    <3>1. Target[r] = IF Valid(r) THEN refs[r].target ELSE 0
      BY DEF Target
    <3>2. Valid(r) => refs[r].index \in Live /\ obj[refs[r].index] = refs[r].target
      BY RefMeaning
    <3>3. CASE ~Valid(r)
      <4>1. ~Valid(r)'
        <5>1. refs[r].version # 0 => refs[r].index \in Slots
          BY <1>0 DEF RefInv
        <5> QED BY <2>1, <2>2, <3>3, <5>1 DEF Valid
      <4> QED BY <3>1, <3>3, <4>1, <2>1
    <3>4. CASE Valid(r) /\ refs[r].index = i
      <4>1. ~Valid(r)'
        BY <2>1, <2>2, <3>4 DEF Valid
      <4> QED BY <3>1, <3>2, <3>4, <4>1
    <3>5. CASE Valid(r) /\ refs[r].index # i
      <4>1. Valid(r)'
        BY <2>1, <2>2, <3>2, <3>5 DEF Valid, Live
      <4>2. refs[r].target # obj[i]
        BY <1>0, <2>1, <3>2, <3>5 DEF SlotInv, Live
      <4> QED BY <3>1, <3>5, <4>1, <4>2
    <3> QED BY <3>3, <3>4, <3>5
  <2>6. PICK o : o = obj[i]
    OBVIOUS
  <2>7. Promise!Destroy(o)
    BY <2>1, <2>4, <2>5, <2>6 DEF Promise!Destroy, Alive, Target, Promise!Nothing
  <2>8. o \in Alive
    BY <2>1, <2>6 DEF Alive
  <2> QED BY <2>7, <2>8, Zenon DEF Promise!Next, Alive
<1>6. CASE RemoveEnd
  <2> DEFINE i == dying[Len(dying)]
  <2>1. /\ i \in Dying /\ i \in Slots /\ Dying' = Dying \ {i}
    BY <1>0, <1>6, PopDying DEF RemoveEnd, IInv, TypeOK
  <2> HIDE DEF i
  <2>2. obj' = [obj EXCEPT ![i] = 0] /\ UNCHANGED <<ver, refs, adds>>
    BY <1>6 DEF RemoveEnd, i
  <2>3. obj'[i] = 0 /\ \A j \in Slots : j # i => obj'[j] = obj[j]
    BY <1>0, <2>1, <2>2 DEF TypeOK
  <2>4. Live' = Live
    BY <2>1, <2>3 DEF Live
  <2>5. Alive' = Alive
    BY <2>1, <2>3, <2>4 DEF Alive, Live
  <2>6. Target' = Target
    BY <2>2 DEF Target, Valid
  <2> QED BY <2>2, <2>5, <2>6 DEF Promise!vars, Alive, Target
<1>7. ASSUME NEW r \in RefIds, NEW i \in Slots, Point(r, i) PROVE Promise!Next
  <2>1. /\ refs' = [refs EXCEPT ![r] = PointAt(i)] /\ i \in Live \cup Dying
        /\ UNCHANGED <<ver, next, obj, len, freeHeader, freeCount, version, dying, sweep, adds>>
    BY <1>7 DEF Point
  <2>2. /\ refs'[r] = PointAt(i)
        /\ \A q \in RefIds : q # r => refs'[q] = refs[q]
    BY <1>0, <2>1 DEF TypeOK
  <2>3. Alive' = Alive
    BY <2>1 DEF Alive, Live, Dying
  <2>4. PICK o : o = IF i \in Live THEN obj[i] ELSE 0
    OBVIOUS
  <2>5. Target' = [Target EXCEPT ![r] = o]
    <3>1. \A q \in RefIds : q # r => (Valid(q)' <=> Valid(q)) /\ refs'[q] = refs[q]
      BY <2>1, <2>2 DEF Valid
    <3>2. i \in Live <=> Valid(r)'
      BY <1>0, <2>1, <2>2 DEF SlotInv, Valid, PointAt
    <3>3. refs'[r].target = obj[i]
      BY <2>2 DEF PointAt
    <3> QED BY <2>4, <3>1, <3>2, <3>3 DEF Target
  <2>6. o \in Alive \cup {Promise!Nothing}
    BY <2>4 DEF Alive, Promise!Nothing
  <2>7. Promise!Point(r, o)
    BY <2>1, <2>3, <2>5 DEF Promise!Point, Alive, Target
  <2> QED BY <2>6, <2>7, Zenon DEF Promise!Next, Alive
<1>8. ASSUME NEW r \in RefIds, Unpoint(r) PROVE Promise!Next
  <2>1. /\ refs' = [refs EXCEPT ![r] = NullRef]
        /\ UNCHANGED <<ver, next, obj, len, freeHeader, freeCount, version, dying, sweep, adds>>
    BY <1>8 DEF Unpoint
  <2>2. /\ refs'[r] = NullRef
        /\ \A q \in RefIds : q # r => refs'[q] = refs[q]
    BY <1>0, <2>1 DEF TypeOK
  <2>3. Alive' = Alive
    BY <2>1 DEF Alive, Live, Dying
  <2>4. Target' = [Target EXCEPT ![r] = 0]
    <3>1. \A q \in RefIds : q # r => (Valid(q)' <=> Valid(q)) /\ refs'[q] = refs[q]
      BY <2>1, <2>2 DEF Valid
    <3>2. ~Valid(r)'
      BY <2>2 DEF Valid, NullRef
    <3> QED BY <3>1, <3>2 DEF Target
  <2>5. Promise!Point(r, 0)
    BY <2>1, <2>3, <2>4 DEF Promise!Point, Alive, Target
  <2>6. 0 \in Alive \cup {Promise!Nothing}
    BY DEF Promise!Nothing
  <2> QED BY <2>5, <2>6, Zenon DEF Promise!Next, Alive
<1>9. CASE UNCHANGED vars
  <2>1. UNCHANGED <<Alive, Target, adds>>
    BY <1>9 DEF vars, Alive, Target, Live, Dying, Valid
  <2> QED BY <2>1 DEF Promise!vars, Alive, Target
<1> QED BY <1>2, <1>3, <1>4, <1>5, <1>6, <1>7, <1>8, <1>9 DEF Next

\* The pool and its references keep the promise of WeakRefs: a reference stands
\* for its object until the destruction begins and for nothing afterwards.
THEOREM PoolKeepsPromise == ASSUME MaxLen <= Cap PROVE Spec => ImplementsWeakRefs
<1>1. Init => Promise!Init
  <2> SUFFICES ASSUME Init PROVE Promise!Init
    OBVIOUS
  <2>1. Live = {} /\ adds = 0 /\ \A r \in RefIds : ~Valid(r)
    BY DEF Init, Live, Valid, NullRef, NoObject
  <2>2. 1 .. adds = {}
    BY <2>1
  <2> QED BY <2>1, <2>2 DEF Promise!Init, NoObject, Promise!Nothing
<1>2. IInv /\ IInv' /\ [Next]_vars => [Promise!Next]_(Promise!vars)
  BY NextRefines
<1>3. Spec => []IInv
  BY PoolInvariant
<1> QED BY <1>1, <1>2, <1>3, PTL DEF Spec, ImplementsWeakRefs, Promise!Spec

-----------------------------------------------------------------------------
(* The whole life of a pool that may outgrow its buffer. Before Clear and   *)
(* before any growth the invariant above holds; while Clear runs, the slots *)
(* it has passed are empty, and one without a version is empty or in a      *)
(* destructor; after it, the array has no slots.                            *)

Sweeping ==
    /\ len \in 0 .. MaxLen /\ sweep \in 0 .. len
    /\ ver \in [Slots -> Int] /\ obj \in [Slots -> Nat] /\ dying \in Seq(Slots)
    /\ \A i \in Slots : obj[i] # NoObject => sweep <= i /\ i < len
    /\ \A i \in Slots : obj[i] # NoObject /\ ver[i] = 0 => i \in Dying

LifeInv ==
    \/ len \in Nat /\ len > Cap
    \/ IInv
    \/ Sweeping
    \/ len = 0 /\ sweep \in Nat \ {0}

\* Clear takes over a pool as the program leaves it.
LEMMA SweepBegins == IInv /\ ClearBegin => Sweeping'
<1> SUFFICES ASSUME IInv, ClearBegin PROVE Sweeping'
  OBVIOUS
<1>1. sweep' = 0 /\ UNCHANGED <<ver, obj, len, dying>>
  BY DEF ClearBegin
<1>2. /\ len \in 0 .. MaxLen /\ 0 \in 0 .. len /\ ver \in [Slots -> Int]
      /\ obj \in [Slots -> Nat] /\ dying \in Seq(Slots)
  BY PoolAssumption DEF IInv, TypeOK
<1>3. \A i \in Slots : obj[i] # NoObject => 0 <= i /\ i < len
  BY DEF IInv, SlotInv, Slots
<1>4. \A i \in Slots : obj[i] # NoObject /\ ver[i] = 0 => i \in Dying
  BY DEF IInv, SlotInv, Live
<1>5. Dying' = Dying
  BY <1>1 DEF Dying
<1> QED BY <1>1, <1>2, <1>3, <1>4, <1>5 DEF Sweeping

\* While it runs, its own steps and those of the destructors it calls keep what
\* it has achieved.
LEMMA SweepGoesOn ==
    ASSUME Sweeping, [Next \/ Teardown]_vars
    PROVE  \/ sweep = len /\ len > 0 /\ len' = 0 /\ sweep' = sweep
           \/ Sweeping'
           \/ AddFromFreeList \/ AddAtEnd \/ AddWithGrow
<1> USE DEF NoObject
<1>0. /\ len \in 0 .. MaxLen /\ len \in Nat /\ sweep \in 0 .. len /\ sweep # None
      /\ sweep \in Nat
      /\ ver \in [Slots -> Int] /\ obj \in [Slots -> Nat] /\ dying \in Seq(Slots)
      /\ \A i \in Slots : obj[i] # NoObject => sweep <= i /\ i < len
      /\ \A i \in Slots : obj[i] # NoObject /\ ver[i] = 0 => i \in Dying
  BY PoolAssumption DEF Sweeping, None
<1>1. ASSUME NEW i \in Slots, RemoveBegin(i) PROVE Sweeping'
  <2>1. /\ ver' = [ver EXCEPT ![i] = 0] /\ dying' = Append(dying, i)
        /\ UNCHANGED <<obj, len, sweep>>
    BY <1>1 DEF RemoveBegin, VersionCleared
  <2>2. /\ dying' \in Seq(Slots) /\ Len(dying') = Len(dying) + 1 /\ Len(dying) \in Nat
        /\ \A k \in 1 .. Len(dying) : dying'[k] = dying[k]
        /\ dying'[Len(dying) + 1] = i
    BY <1>0, <2>1, AppendProperties, LenProperties
  <2>3. Dying \cup {i} \subseteq Dying'
    BY <2>2 DEF Dying
  <2>4. ver' \in [Slots -> Int] /\ \A j \in Slots : j # i => ver'[j] = ver[j]
    BY <1>0, <2>1
  <2> QED BY <1>0, <2>1, <2>2, <2>3, <2>4 DEF Sweeping
<1>2. CASE RemoveEnd
  <2> DEFINE i == dying[Len(dying)]
             n == Len(dying) - 1
  <2>1. /\ dying # <<>> /\ dying' = SubSeq(dying, 1, n) /\ obj' = [obj EXCEPT ![i] = 0]
        /\ UNCHANGED <<ver, len, sweep>>
    BY <1>2 DEF RemoveEnd
  <2>2. n \in Nat /\ Len(dying) = n + 1
    BY <1>0, <2>1, EmptySeq, LenProperties
  <2>3. /\ dying' \in Seq(Slots) /\ Len(dying') = n
        /\ \A k \in 1 .. n : dying'[k] = dying[k]
    BY <1>0, <2>1, <2>2
  <2>4. Dying \ {i} \subseteq Dying' /\ i \in Slots
    <3>1. i \in Slots
      BY <1>0, <2>2, ElementOfSeq
    <3>2. \A k \in 1 .. Len(dying) : k \in 1 .. n \/ dying[k] = i
      BY <2>2
    <3>3. \A k \in 1 .. n : dying[k] \in Dying'
      BY <2>3 DEF Dying
    <3> HIDE DEF i, n
    <3> QED BY <3>1, <3>2, <3>3 DEF Dying
  <2> HIDE DEF i, n
  <2>5. obj' \in [Slots -> Nat] /\ obj'[i] = 0 /\ \A j \in Slots : j # i => obj'[j] = obj[j]
    BY <1>0, <2>1, <2>4
  <2> QED BY <1>0, <2>1, <2>3, <2>4, <2>5 DEF Sweeping
<1>3. CASE UNCHANGED <<ver, obj, len, dying, sweep>>
  <2>1. Dying' = Dying
    BY <1>3 DEF Dying
  <2> QED BY <1>0, <1>3, <2>1 DEF Sweeping
<1>4. CASE ClearDestroy
  <2>1. dying = <<>> /\ dying' = <<sweep>> /\ UNCHANGED <<ver, obj, len, sweep>>
        /\ sweep \in 0 .. len - 1
    BY <1>4 DEF ClearDestroy
  <2>2. Dying = {}
    BY <2>1 DEF Dying
  <2>3. sweep \in Slots
    BY <1>0, <2>1, PoolAssumption DEF Slots
  <2>4. dying' \in Seq(Slots)
    BY <2>1, <2>3
  <2> QED BY <1>0, <2>1, <2>2, <2>4 DEF Sweeping
<1>5. CASE ClearStep
  <2>1. /\ sweep \in 0 .. len - 1 /\ sweep' = sweep + 1 /\ dying' = <<>>
        /\ UNCHANGED <<ver, len>> /\ sweep \in Slots
    BY <1>0, <1>5, PoolAssumption DEF ClearStep, StepNext, Slots
  <2>2. obj' = [obj EXCEPT ![sweep] = 0] /\ Dying \subseteq {sweep}
    <3>1. CASE dying = <<sweep>> /\ obj' = [obj EXCEPT ![sweep] = NoObject]
      BY <3>1 DEF Dying
    <3>2. CASE dying = <<>> /\ ver[sweep] = 0 /\ UNCHANGED obj
      <4>1. Dying = {}
        BY <3>2 DEF Dying
      <4>2. obj[sweep] = 0
        BY <1>0, <2>1, <3>2, <4>1
      <4> QED BY <1>0, <2>1, <3>2, <4>1, <4>2
    <3> QED BY <1>5, <3>1, <3>2 DEF ClearStep
  <2>3. obj' \in [Slots -> Nat] /\ obj'[sweep] = 0 /\ \A j \in Slots : j # sweep => obj'[j] = obj[j]
    BY <1>0, <2>1, <2>2
  <2>4. \A j \in Slots : obj'[j] # 0 => sweep + 1 <= j /\ j < len
    BY <1>0, <2>3 DEF Slots
  <2>5. \A j \in Slots : obj'[j] # 0 => ver'[j] # 0
    BY <1>0, <2>1, <2>2, <2>3
  <2>6. dying' \in Seq(Slots) /\ sweep' \in 0 .. len
    BY <1>0, <2>1
  <2> QED BY <1>0, <2>1, <2>3, <2>4, <2>5, <2>6 DEF Sweeping
<1>6. CASE ClearEnd
  BY <1>6 DEF ClearEnd
<1>7. CASE ClearBegin
  BY <1>0, <1>7 DEF ClearBegin
<1>8. CASE \/ \E r \in RefIds, i \in Slots : Point(r, i)
           \/ \E r \in RefIds : Unpoint(r)
           \/ UNCHANGED vars
  BY <1>3, <1>8 DEF Point, Unpoint, vars
<1> QED BY <1>1, <1>2, <1>4, <1>5, <1>6, <1>7, <1>8 DEF Next, Teardown

\* Every step of the pool's life keeps the invariant of it.
LEMMA LifeStep == LifeInv /\ [Next \/ Teardown]_vars => LifeInv'
<1> SUFFICES ASSUME LifeInv, [Next \/ Teardown]_vars PROVE LifeInv'
  OBVIOUS
<1>1. Cap \in Nat \ {0}
  BY PoolAssumption
<1>2. CASE len \in Nat /\ len > Cap
  <2>1. CASE ClearEnd
    BY <1>1, <1>2, <2>1 DEF ClearEnd, LifeInv
  <2>2. CASE ~ClearEnd
    <3>1. len' \in {len, len + 1}
      BY <2>2 DEF Next, Teardown, AddFromFreeList, AddAtEnd, AddWithGrow, RemoveBegin,
                  RemoveEnd, Point, Unpoint, ClearBegin, ClearDestroy, ClearStep, vars
    <3> QED BY <1>1, <1>2, <3>1 DEF LifeInv
  <2> QED BY <2>1, <2>2
<1>3. CASE IInv
  <2>1. len \in Nat /\ sweep = None
    BY <1>3 DEF IInv, TypeOK
  <2>2. CASE AddWithGrow
    BY <1>1, <2>1, <2>2 DEF AddWithGrow, LifeInv
  <2>3. CASE ClearBegin
    BY <1>3, <2>3, SweepBegins DEF LifeInv
  <2>4. CASE [Next]_vars /\ ~AddWithGrow
    BY <1>3, <2>4, NextInv DEF LifeInv
  <2>5. ~ClearDestroy /\ ~ClearStep /\ ~ClearEnd
    BY <2>1 DEF ClearDestroy, ClearStep, ClearEnd, None
  <2> QED BY <2>2, <2>3, <2>4, <2>5 DEF Teardown
<1>4. CASE Sweeping
  <2>1. sweep # None /\ sweep \in Nat
    BY <1>4, PoolAssumption DEF Sweeping, None
  <2>2. ~AddFromFreeList /\ ~AddAtEnd /\ ~AddWithGrow
    BY <2>1 DEF AddFromFreeList, AddAtEnd, AddWithGrow
  <2> QED BY <1>4, <2>1, <2>2, SweepGoesOn DEF LifeInv
<1>5. CASE len = 0 /\ sweep \in Nat \ {0}
  <2>1. sweep # None /\ sweep # len
    BY <1>5 DEF None
  <2>2. UNCHANGED <<len, sweep>>
    BY <1>5, <2>1 DEF Next, Teardown, AddFromFreeList, AddAtEnd, AddWithGrow, RemoveBegin,
                      RemoveEnd, Point, Unpoint, ClearBegin, ClearDestroy, ClearStep,
                      ClearEnd, vars
  <2> QED BY <1>5, <2>2 DEF LifeInv
<1> QED BY <1>2, <1>3, <1>4, <1>5 DEF LifeInv

\* Up to the first growth the whole invariant holds, whatever MaxLen is: the
\* references and the free list of a pool go wrong only with its buffer.
THEOREM PoolUntilGrown == Spec => [](len <= Cap => IInv)
<1> DEFINE Grown == len \in Nat /\ len > Cap
           GrownInv == Grown \/ IInv
<1>1. Init => GrownInv
  BY InitInv
<1>2. GrownInv /\ [Next]_vars => GrownInv'
  <2>1. ASSUME Grown, [Next]_vars PROVE Grown'
    <3>1. len' \in {len, len + 1}
      BY <2>1 DEF Next, AddFromFreeList, AddAtEnd, AddWithGrow, RemoveBegin, RemoveEnd,
                  Point, Unpoint, vars
    <3> QED BY <2>1, <3>1, PoolAssumption
  <2>2. ASSUME IInv, [Next]_vars PROVE GrownInv'
    <3>1. CASE AddWithGrow
      BY <2>2, <3>1, PoolAssumption DEF AddWithGrow, IInv, TypeOK
    <3> QED BY <2>2, <3>1, NextInv
  <2> QED BY <2>1, <2>2
<1>3. GrownInv => (len <= Cap => IInv)
  BY PoolAssumption
<1> QED BY <1>1, <1>2, <1>3, PTL DEF Spec

\* ~Context destroys every item, those that other destructors remove on the way
\* included, in a pool that has not outgrown its buffer.
THEOREM ClearIsComplete == LifeSpec => []ClearDestroysAll
<1>1. Init => LifeInv
  BY InitInv DEF LifeInv
<1>2. LifeInv /\ [Next \/ Teardown]_vars => LifeInv'
  BY LifeStep
<1>3. LifeInv => ClearDestroysAll
  <2> SUFFICES ASSUME LifeInv, sweep = len, len <= Cap PROVE \A i \in Slots : obj[i] = NoObject
    BY DEF ClearDestroysAll
  <2>1. CASE Sweeping
    <3>1. len \in Nat
      BY <2>1, PoolAssumption DEF Sweeping
    <3>2. \A i \in Slots : i \in Int /\ (obj[i] # NoObject => len <= i /\ i < len)
      BY <2>1 DEF Sweeping, Slots
    <3> QED BY <3>1, <3>2
  <2>2. ~IInv
    BY DEF IInv, TypeOK, None
  <2> QED BY <2>1, <2>2, PoolAssumption DEF LifeInv
<1> QED BY <1>1, <1>2, <1>3, PTL DEF LifeSpec
=============================================================================
