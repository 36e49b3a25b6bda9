------------------------------ MODULE ItemPool ------------------------------
(***************************************************************************)
(* xx::ItemPool (xx_itempool.h): an array of slots that owns every item of *)
(* the event loop, and xx::Epoll::Ref (xx_epoll2.hpp:32-95), the weak      *)
(* reference (slot, version) into it. A removed slot goes to a free list   *)
(* threaded through the slots; a fresh version number is stamped on every  *)
(* Add. An item's destructor runs in the middle of RemoveAt and may add,   *)
(* remove and take references itself.                                      *)
(***************************************************************************)
EXTENDS Integers, Sequences, FiniteSets

CONSTANTS Cap,      \* ItemPool::cap: slots of the first buffer (8192 in Context)
          MaxLen,   \* bound: slots the program ever has in use at once
          MaxAdds,  \* bound: calls of Add (version is an int64_t, it never wraps)
          RefIds    \* the references the program holds

ASSUME PoolAssumption == Cap \in Nat \ {0} /\ MaxLen \in Nat \ {0} /\ MaxAdds \in Nat

None == -1                \* the index -1
NoObject == 0
Slots == 0 .. MaxLen - 1

VARIABLES
    ver,         \* buf[i].version: 0 when nothing lives in slot i
    next,        \* buf[i].next: the next free slot
    obj,         \* the object whose storage slot i is, NoObject before and after
    len, freeHeader, freeCount, version,
    dying,       \* slots whose object's destructor is running, innermost last
    sweep,       \* the loop index of Clear, None when Clear is not running
    refs,        \* each Ref's index and version, and the object it was taken from
    adds         \* history: objects created so far, each named by its number

vars == <<ver, next, obj, len, freeHeader, freeCount, version, dying, sweep, refs, adds>>

NullRef == [index |-> None, version |-> 0, target |-> NoObject]

Init ==
    /\ ver = [i \in Slots |-> 0]
    /\ next = [i \in Slots |-> None]
    /\ obj = [i \in Slots |-> NoObject]
    /\ len = 0 /\ freeHeader = None /\ freeCount = 0 /\ version = 0
    /\ dying = <<>> /\ sweep = None
    /\ refs = [r \in RefIds |-> NullRef]
    /\ adds = 0

Dying == {dying[k] : k \in 1 .. Len(dying)}
Live == {i \in Slots : obj[i] # NoObject /\ i \notin Dying}

\* Ref::operator bool
Valid(r) == refs[r].version # 0 /\ ver[refs[r].index] = refs[r].version

-----------------------------------------------------------------------------
(* Add: Alloc finds the slot, then the object is built in it under a new   *)
(* version.                                                                *)

StampReused == 1
Stamp == version + 1

Place(i, vers, links) ==
    /\ adds < MaxAdds
    /\ adds' = adds + 1
    /\ version' = Stamp
    /\ ver' = [vers EXCEPT ![i] = Stamp]
    /\ next' = [links EXCEPT ![i] = None]
    /\ obj' = [obj EXCEPT ![i] = adds + 1]
    /\ UNCHANGED <<dying, sweep, refs>>

HeaderKept == freeHeader
NextHeader == next[freeHeader]

AddFromFreeList ==
    /\ sweep = None /\ freeCount > 0
    /\ freeHeader' = NextHeader
    /\ freeCount' = freeCount - 1
    /\ UNCHANGED len
    /\ Place(freeHeader, ver, next)

AddAtEnd ==
    /\ sweep = None /\ freeCount = 0 /\ len < MaxLen /\ len # Cap
    /\ len' = len + 1
    /\ UNCHANGED <<freeHeader, freeCount>>
    /\ Place(len, ver, next)

\* A full buffer is replaced by one twice as long. Only `value` is moved over:
\* version and next of the old slots are whatever malloc returned, and cap
\* keeps its value.
AddWithGrow ==
    /\ sweep = None /\ freeCount = 0 /\ len < MaxLen /\ len = Cap
    /\ len' = len + 1
    /\ UNCHANGED <<freeHeader, freeCount>>
    /\ \E junk \in [Slots -> 0 .. version] :
          Place(len, junk, [i \in Slots |-> None])

-----------------------------------------------------------------------------
(* RemoveAt: the version is cleared first, the destructor runs, and only   *)
(* then does the slot join the free list.                                  *)

VersionKept(i) == ver
VersionCleared(i) == [ver EXCEPT ![i] = 0]

RemoveBeginFreesFirst(i) ==
    /\ i \in Live /\ (sweep = None \/ dying # <<>>)
    /\ ver' = VersionCleared(i)
    /\ dying' = Append(dying, i)
    /\ next' = [next EXCEPT ![i] = freeHeader]
    /\ freeHeader' = i
    /\ freeCount' = freeCount + 1
    /\ UNCHANGED <<obj, len, version, sweep, refs, adds>>

RemoveBegin(i) ==
    /\ i \in Live /\ (sweep = None \/ dying # <<>>)
    /\ ver' = VersionCleared(i)
    /\ dying' = Append(dying, i)
    /\ UNCHANGED <<next, obj, len, freeHeader, freeCount, version, sweep, refs, adds>>

CountDown == freeCount - 1
CountUp == freeCount + 1

RemoveEnd ==
    LET i == dying[Len(dying)] IN
    /\ dying # <<>> /\ i # sweep
    /\ dying' = SubSeq(dying, 1, Len(dying) - 1)
    /\ obj' = [obj EXCEPT ![i] = NoObject]
    /\ next' = [next EXCEPT ![i] = freeHeader]
    /\ freeHeader' = i
    /\ freeCount' = CountUp
    /\ UNCHANGED <<ver, len, version, sweep, refs, adds>>

-----------------------------------------------------------------------------
PointAtCounter(i) == [index |-> i, version |-> version, target |-> obj[i]]
PointAt(i) == [index |-> i, version |-> ver[i], target |-> obj[i]]

\* Ref::Reset(ptr): of a living object, or of one from within its destructor.
Point(r, i) ==
    /\ i \in Live \cup Dying
    /\ refs' = [refs EXCEPT ![r] = PointAt(i)]
    /\ UNCHANGED <<ver, next, obj, len, freeHeader, freeCount, version, dying, sweep, adds>>

\* Ref::Reset(nullptr)
Unpoint(r) ==
    /\ refs' = [refs EXCEPT ![r] = NullRef]
    /\ UNCHANGED <<ver, next, obj, len, freeHeader, freeCount, version, dying, sweep, adds>>

-----------------------------------------------------------------------------
(* Clear, run by ~Context: every object is destroyed in slot order, and    *)
(* neither its version nor its place in the free list is touched. No       *)
(* destructor of the library adds an item.                                 *)

ClearBegin ==
    /\ sweep = None /\ dying = <<>> /\ len > 0
    /\ sweep' = 0
    /\ UNCHANGED <<ver, next, obj, len, freeHeader, freeCount, version, dying, refs, adds>>

ClearDestroy ==
    /\ sweep \in 0 .. len - 1 /\ dying = <<>> /\ ver[sweep] # 0
    /\ dying' = <<sweep>>
    /\ UNCHANGED <<ver, next, obj, len, freeHeader, freeCount, version, sweep, refs, adds>>

StepKept == sweep
StepPastNext == sweep + 2
StepNext == sweep + 1

ClearStep ==
    /\ sweep \in 0 .. len - 1
    /\ \/ dying = <<sweep>> /\ obj' = [obj EXCEPT ![sweep] = NoObject]
       \/ dying = <<>> /\ ver[sweep] = 0 /\ UNCHANGED obj
    /\ dying' = <<>>
    /\ sweep' = StepNext
    /\ UNCHANGED <<ver, next, len, freeHeader, freeCount, version, refs, adds>>

\* ~ItemPool frees the buffer after this: sweep stays set, nothing follows.
ClearEnd ==
    /\ sweep = len /\ len > 0
    /\ freeHeader' = None /\ freeCount' = 0 /\ len' = 0
    /\ UNCHANGED <<ver, next, obj, version, dying, sweep, refs, adds>>

-----------------------------------------------------------------------------
Next == \/ AddFromFreeList \/ AddAtEnd \/ AddWithGrow
        \/ \E i \in Slots : RemoveBegin(i)
        \/ RemoveEnd
        \/ \E r \in RefIds, i \in Slots : Point(r, i)
        \/ \E r \in RefIds : Unpoint(r)

Teardown == ClearBegin \/ ClearDestroy \/ ClearStep \/ ClearEnd

\* The pool in use, and its whole life up to the destructor of the Context.
Spec == Init /\ [][Next]_vars
\* Clear is one call: once begun it runs on, and so does each destructor.
LifeSpec == /\ Init /\ [][Next \/ Teardown]_vars
            /\ WF_vars(ClearDestroy \/ ClearStep \/ ClearEnd) /\ WF_vars(RemoveEnd)

-----------------------------------------------------------------------------
TypeOK ==
    /\ ver \in [Slots -> 0 .. MaxAdds] /\ obj \in [Slots -> 0 .. MaxAdds]
    /\ next \in [Slots -> Slots \cup {None}]
    /\ len \in 0 .. MaxLen /\ freeHeader \in Slots \cup {None}
    /\ freeCount \in Nat
    /\ version \in 0 .. MaxAdds /\ adds \in 0 .. MaxAdds
    /\ dying \in Seq(Slots) /\ sweep \in -1 .. MaxLen
    /\ refs \in [RefIds -> [index : Slots \cup {None}, version : 0 .. MaxAdds,
                            target : 0 .. MaxAdds]]

\* A reference that tests true resolves to the object it was taken from, in a
\* slot of the array, and never to one whose destructor has started, however
\* often the slot was reused in between (Ref::Lock, Ref::operator->).
RefSafe ==
    \A r \in RefIds : Valid(r) =>
        refs[r].index \in Live /\ obj[refs[r].index] = refs[r].target

\* No reference to a living object is ever taken for a dead one.
RefLive ==
    \A r \in RefIds, i \in Live :
        refs[r].version # 0 /\ obj[i] = refs[r].target => Valid(r)

IsChain(c) ==
    /\ freeHeader = IF freeCount = 0 THEN None ELSE c[1]
    /\ \A k \in 1 .. freeCount :
          next[c[k]] = IF k = freeCount THEN None ELSE c[k + 1]
    /\ \A k, m \in 1 .. freeCount : c[k] = c[m] => k = m

Dead == {i \in Slots : i < len /\ obj[i] = NoObject}

\* freeHeader starts a chain that visits every dead slot exactly once and no
\* other slot, and freeCount is its length: Alloc never hands out a slot that
\* is in use, and never loses one.
FreeListExact ==
    sweep = None => \E c \in [1 .. freeCount -> Slots] :
        IsChain(c) /\ {c[k] : k \in 1 .. freeCount} = Dead

\* The storage of an object is given to another one only after its destructor
\* has returned, also when that destructor adds items to the pool.
StorageStable ==
    [][\A i \in Slots : obj[i] # NoObject => obj'[i] \in {obj[i], NoObject}]_vars

\* Once Clear has passed over all the slots every object has been destroyed,
\* those that other destructors removed on the way included, provided the
\* buffer never grew.
ClearDestroysAll ==
    sweep = len /\ len <= Cap => \A i \in Slots : obj[i] = NoObject

\* The teardown that ~Context starts comes to its end, whatever the
\* destructors remove on the way.
ClearEnds == sweep # None ~> len = 0

\* The pool and its references implement the abstract weak references.
Promise == INSTANCE WeakRefs WITH
    Objects <- 1 .. MaxAdds,
    alive <- {obj[i] : i \in Live},
    used <- 1 .. adds,
    target <- [r \in RefIds |-> IF Valid(r) THEN refs[r].target ELSE NoObject]
ImplementsWeakRefs == Promise!Spec
=============================================================================
